------------------------------ MODULE JobService ------------------------------
(***************************************************************************)
(* What run_on_worker promises its caller, whatever the channels do: jobs  *)
(* run one at a time, a call returns how its own job ended or is refused,  *)
(* an R error lets the call escape while its job still runs, and the       *)
(* service only stops between two jobs.  A stopped service may be started  *)
(* again: the channels below never do so, see the README.                  *)
(***************************************************************************)
CONSTANT Jobs

VARIABLES
  calls,  \* what each call of run_on_worker has come to
  exec,   \* where the job of each call is
  up      \* the service: off, on, closing (no new calls), stopped

vars == <<calls, exec, up>>

Init ==
  /\ calls = [j \in Jobs |-> "new"]
  /\ exec = [j \in Jobs |-> "no"]
  /\ up = "off"

Free == \A j \in Jobs : exec[j] # "running"

\* The package is loaded, for the first time or after an unload.
Start == up \in {"off", "stopped"} /\ up' = "on" /\ UNCHANGED <<calls, exec>>

Close == up = "on" /\ up' = "closing" /\ UNCHANGED <<calls, exec>>

Stop == up = "closing" /\ Free /\ up' = "stopped" /\ UNCHANGED <<calls, exec>>

Call(j) ==
  /\ up = "on" /\ calls[j] = "new"
  /\ calls' = [calls EXCEPT ![j] = "called"]
  /\ UNCHANGED <<exec, up>>

\* A new call finds the service not on; one that waits finds it stopped.
Refuse(j) ==
  /\ \/ calls[j] = "new" /\ up # "on"
     \/ calls[j] = "called" /\ exec[j] = "no" /\ up = "stopped"
  /\ calls' = [calls EXCEPT ![j] = "refused"]
  /\ UNCHANGED <<exec, up>>

Begin(j) ==
  /\ up \in {"on", "closing"} /\ calls[j] = "called" /\ exec[j] = "no" /\ Free
  /\ exec' = [exec EXCEPT ![j] = "running"]
  /\ UNCHANGED <<calls, up>>

End(j) ==
  /\ exec[j] = "running"
  /\ \E r \in {"ok", "err"} : exec' = [exec EXCEPT ![j] = r]
  /\ UNCHANGED <<calls, up>>

Return(j) ==
  /\ calls[j] = "called" /\ exec[j] \in {"ok", "err"}
  /\ calls' = [calls EXCEPT ![j] = exec[j]]
  /\ UNCHANGED <<exec, up>>

Escape(j) ==
  /\ calls[j] = "called" /\ exec[j] = "running"
  /\ calls' = [calls EXCEPT ![j] = "jumped"]
  /\ UNCHANGED <<exec, up>>

Next ==
  \/ Start \/ Close \/ Stop
  \/ \E j \in Jobs : Call(j) \/ Refuse(j) \/ Begin(j) \/ End(j) \/ Return(j) \/ Escape(j)

Spec == Init /\ [][Next]_vars
===============================================================================
