----------------------------- MODULE WorkerPump -----------------------------
(***************************************************************************)
(* WorkerPump::run (pump.rs) with the log queue it drains.  The main       *)
(* thread runs one call after the other; in each it spawns a scoped worker *)
(* and pumps the messages of a bounded channel until the worker drops its  *)
(* sender, then joins it.  The call is made inside run_r_unwind_protect    *)
(* (unwind_protect.rs), which drains the log queue on every way out.       *)
(*                                                                         *)
(* Each run has a worker of its own; one that a longjmp left behind goes   *)
(* on while the next run is on.  A message carries how many records        *)
(* had been logged, by anybody, when its send began.                       *)
(***************************************************************************)
EXTENDS LogQueue

CONSTANTS
    NumRuns,     \* bound: the calls of run() made
    Capacities,  \* values of channel_capacity(n); 0: a rendezvous
    MaxSends     \* bound: messages a worker tries to send

ASSUME PumpAssumption ==
    NumRuns \in Nat /\ Capacities \subseteq Nat /\ MaxSends \in Nat

Runs == 1..NumRuns

VARIABLES
    run,        \* the run main is in, or the last one
    mpc,        \* where main is
    capacity,   \* channel_capacity of each run
    ticks,      \* drain_logs_each_tick of the current run
    msg,        \* the message main is about to pump
    leaving,    \* how main leaves the call: "ok", "err", "panic", "jump"
    wpc,        \* each run's worker
    offer,      \* the message each worker is sending or sent last
    chan,       \* each run's channel
    rx,         \* each run's receiver: "open", "dropped"
    tries,      \* messages each worker has tried to send
    accepted,   \* history: sends that returned Ok
    pumped,     \* history: calls of the pump closure
    result      \* what became of each run

pumpVars == <<run, mpc, capacity, ticks, msg, leaving, wpc, offer, chan, rx,
              tries, accepted, pumped, result>>
vars == <<logVars, pumpVars>>

Ended == {"ok", "err", "panic"}       \* how a worker ends

NoMessage == [n |-> 0, logged |-> 0]

Init ==
    /\ LogInit
    /\ run = 0 /\ mpc = "out" /\ ticks = TRUE /\ leaving = "ok"
    /\ msg = NoMessage
    /\ wpc = [r \in Runs |-> "none"]
    /\ offer = [r \in Runs |-> NoMessage]
    /\ capacity = [r \in Runs |-> 0]
    /\ chan = [r \in Runs |-> <<>>]
    /\ rx = [r \in Runs |-> "open"]
    /\ tries = [r \in Runs |-> 0]
    /\ accepted = [r \in Runs |-> 0]
    /\ pumped = [r \in Runs |-> 0]
    /\ result = [r \in Runs |-> "none"]

-----------------------------------------------------------------------------
(* The worker: the closure given to run(), on its scoped thread.           *)

workerVars == <<wpc, offer, chan, tries, accepted>>
callVars == <<run, capacity, ticks>>
mainVars == <<callVars, mpc, msg, leaving, rx, pumped, result>>

BeginSend(r) ==
    /\ wpc[r] = "running"
    /\ tries[r] < MaxSends
    /\ tries' = [tries EXCEPT ![r] = @ + 1]
    /\ offer' = [offer EXCEPT ![r] =
                     [n |-> tries[r] + 1, logged |-> Len(calls)]]
    /\ wpc' = [wpc EXCEPT ![r] = "sending"]
    /\ UNCHANGED <<logVars, mainVars, chan, accepted>>

\* Room in the buffer, or the receiver waiting at the rendezvous.
HasRoom(r) ==
    \/ Len(chan[r]) < capacity[r]
    \/ capacity[r] = 0 /\ chan[r] = <<>> /\ run = r /\ mpc = "recv"

SendReturnsOk(r) ==
    /\ wpc[r] = "sending"
    /\ rx[r] = "open"
    /\ HasRoom(r)
    /\ chan' = [chan EXCEPT ![r] = Append(@, offer[r])]
    /\ offer' = [offer EXCEPT ![r] = NoMessage]
    /\ accepted' = [accepted EXCEPT ![r] = @ + 1]
    /\ wpc' = [wpc EXCEPT ![r] = "running"]
    /\ UNCHANGED <<logVars, mainVars, tries>>

\* The worker may give up on the error or try the next message.
SendReturnsErr(r) ==
    /\ wpc[r] = "sending"
    /\ rx[r] = "dropped"
    /\ wpc' = [wpc EXCEPT ![r] = "running"]
    /\ offer' = [offer EXCEPT ![r] = NoMessage]
    /\ UNCHANGED <<logVars, mainVars, chan, tries, accepted>>

\* The closure returns or panics; its sender is dropped with it.
WorkerEnds(r) ==
    /\ wpc[r] = "running"
    /\ \E how \in Ended : wpc' = [wpc EXCEPT ![r] = how]
    /\ UNCHANGED <<logVars, mainVars, offer, chan, tries, accepted>>

-----------------------------------------------------------------------------
(* The main thread.                                                        *)

Spawn ==
    /\ mpc = "out"
    /\ run + 1 \in Runs
    /\ run' = run + 1
    /\ \E c \in Capacities : capacity' = [capacity EXCEPT ![run + 1] = c]
    /\ ticks' \in BOOLEAN
    /\ mpc' = "recv"
    /\ wpc' = [wpc EXCEPT ![run + 1] = "running"]
    /\ UNCHANGED <<logVars, msg, leaving, offer, chan, rx, tries, accepted,
                   pumped, result>>

Receive ==
    /\ mpc = "recv"
    /\ chan[run] # <<>>
    /\ msg' = Head(chan[run])
    /\ chan' = [chan EXCEPT ![run] = Tail(@)]
    /\ mpc' = IF ticks THEN "tick" ELSE "pump"
    /\ UNCHANGED <<logVars, callVars, leaving, wpc, offer, rx, tries, accepted,
                   pumped, result>>

\* Mutant: the queue is not drained before the message is pumped.
TickNoDrain ==
    /\ mpc = "tick"
    /\ mpc' = "pump"
    /\ UNCHANGED <<logVars, callVars, msg, leaving, rx, pumped, result, workerVars>>

Tick ==
    /\ mpc = "tick"
    /\ StartDrain
    /\ mpc' = "ticking"
    /\ UNCHANGED <<callVars, msg, leaving, rx, pumped, result, workerVars>>

\* A step of a drain, or of a log() of the pump closure, that main is in.
DrainGoesOn ==
    /\ DrainStep
    /\ mpc' = IF dpc' = "idle" /\ mpc = "ticking" THEN "pump" ELSE mpc
    /\ UNCHANGED <<callVars, msg, leaving, rx, pumped, result, workerVars>>

PumpLogs ==
    /\ mpc = "pump"
    /\ MainLogs
    /\ UNCHANGED pumpVars

PumpReturns ==
    /\ mpc = "pump"
    /\ dpc = "idle"
    /\ pumped' = [pumped EXCEPT ![run] = @ + 1]
    /\ mpc' = "recv"
    /\ msg' = NoMessage
    /\ UNCHANGED <<logVars, callVars, leaving, rx, result, workerVars>>

\* Mutant: the panic leaves without waiting for the worker.
PumpPanicsUnscoped ==
    /\ mpc = "pump"
    /\ dpc = "idle"
    /\ rx' = [rx EXCEPT ![run] = "dropped"]
    /\ leaving' = "panic"
    /\ mpc' = "exit"
    /\ msg' = NoMessage
    /\ UNCHANGED <<logVars, callVars, pumped, result, workerVars>>

\* Mutant: the receiver outlives the scope.
PumpPanicsKeepingRx ==
    /\ mpc = "pump"
    /\ dpc = "idle"
    /\ leaving' = "panic"
    /\ mpc' = "join"
    /\ msg' = NoMessage
    /\ UNCHANGED <<logVars, callVars, rx, pumped, result, workerVars>>

\* The iterator over rx is dropped as the panic passes; the scope then waits.
PumpPanics ==
    /\ mpc = "pump"
    /\ dpc = "idle"
    /\ rx' = [rx EXCEPT ![run] = "dropped"]
    /\ leaving' = "panic"
    /\ mpc' = "join"
    /\ msg' = NoMessage
    /\ UNCHANGED <<logVars, callVars, pumped, result, workerVars>>

(***************************************************************************)
(* R raises an error in a call the pump closure makes.  R_UnwindProtect    *)
(* takes its own context back first: the frames of run(), of the scope and *)
(* of the receiver are below the jump and their destructors do not run.    *)
(***************************************************************************)
PumpRError ==
    /\ mpc = "pump"
    /\ dpc = "idle"
    /\ leaving' = "jump"
    /\ mpc' = "exit"
    /\ msg' = NoMessage
    /\ UNCHANGED <<logVars, callVars, rx, pumped, result, workerVars>>

\* The same in a drain; in the one on the way out the jump goes to R.
DrainRError ==
    /\ RenderFails
    /\ IF mpc = "exiting"
       THEN /\ mpc' = "out"
            /\ result' = [result EXCEPT ![run] = leaving]
            /\ leaving' = leaving
       ELSE /\ mpc' = "exit"
            /\ leaving' = "jump"
            /\ result' = result
    /\ msg' = NoMessage
    /\ UNCHANGED <<callVars, rx, pumped, workerVars>>

\* Mutant: the loop ends as soon as the sender is gone.
DisconnectedEarly ==
    /\ mpc = "recv"
    /\ wpc[run] \in Ended
    /\ rx' = [rx EXCEPT ![run] = "dropped"]
    /\ leaving' = "ok"
    /\ mpc' = "join"
    /\ UNCHANGED <<logVars, callVars, msg, pumped, result, workerVars>>

\* The channel is empty and its sender dropped: the loop ends, rx with it.
Disconnected ==
    /\ mpc = "recv"
    /\ chan[run] = <<>>
    /\ wpc[run] \in Ended
    /\ rx' = [rx EXCEPT ![run] = "dropped"]
    /\ leaving' = "ok"
    /\ mpc' = "join"
    /\ UNCHANGED <<logVars, callVars, msg, pumped, result, workerVars>>

\* handle.join(), or the scope waiting while a panic of the pump passes.
Join ==
    /\ mpc = "join"
    /\ wpc[run] \in Ended
    /\ leaving' = IF leaving = "panic" THEN "panic"
                  ELSE IF wpc[run] = "ok" THEN "ok" ELSE "err"
    /\ mpc' = "exit"
    /\ UNCHANGED <<logVars, callVars, msg, rx, pumped, result, workerVars>>

\* Mutant: an R error is resumed before the queue is drained.
ExitJumpFirst ==
    /\ mpc = "exit"
    /\ IF leaving = "jump" THEN mpc' = "exiting" /\ UNCHANGED logVars
       ELSE StartDrain /\ mpc' = "exiting"
    /\ UNCHANGED <<callVars, msg, leaving, rx, pumped, result, workerVars>>

\* run_r_unwind_protect drains on all four of its ways out.
Exit ==
    /\ mpc = "exit"
    /\ StartDrain
    /\ mpc' = "exiting"
    /\ UNCHANGED <<callVars, msg, leaving, rx, pumped, result, workerVars>>

Leave ==
    /\ mpc = "exiting"
    /\ dpc = "idle"
    /\ mpc' = "out"
    /\ result' = [result EXCEPT ![run] = leaving]
    /\ UNCHANGED <<logVars, callVars, msg, leaving, rx, pumped, workerVars>>

-----------------------------------------------------------------------------
\* A worker logs between two sends, and so does any other thread.
OthersLog ==
    /\ \E t \in Threads : ThreadLogs(t)
    /\ UNCHANGED pumpVars

WorkerStep(r) ==
    BeginSend(r) \/ SendReturnsOk(r) \/ SendReturnsErr(r) \/ WorkerEnds(r)

MainStep ==
    \/ Receive \/ Tick \/ DrainGoesOn
    \/ PumpReturns \/ PumpPanics \/ PumpRError \/ DrainRError
    \/ Disconnected \/ Join \/ Exit \/ Leave

Next ==
    \/ \E r \in Runs : WorkerStep(r)
    \/ OthersLog
    \/ Spawn
    \/ PumpLogs
    \/ MainStep

(***************************************************************************)
(* A worker's closure goes on while it is not blocked in a send, and ends  *)
(* (MaxSends); main goes on in the code of run() and of the drain.  No     *)
(* fairness makes R call run(), anybody log, or an R error happen.         *)
(***************************************************************************)
Fairness ==
    /\ \A r \in Runs : WF_vars(WorkerStep(r))
    /\ WF_vars(MainStep)

Spec == Init /\ [][Next]_vars /\ Fairness

-----------------------------------------------------------------------------
Message == [n : 0..MaxSends, logged : 0..MaxCalls]

TypeOK ==
    /\ LogTypeOK
    /\ run \in Runs \cup {0}
    /\ mpc \in {"out", "recv", "tick", "ticking", "pump", "join", "exit",
                "exiting"}
    /\ capacity \in [Runs -> Capacities \cup {0}]
    /\ ticks \in BOOLEAN
    /\ msg \in Message
    /\ leaving \in {"ok", "err", "panic", "jump"}
    /\ wpc \in [Runs -> Ended \cup {"none", "running", "sending"}]
    /\ offer \in [Runs -> Message]
    /\ \A r \in Runs :
          chan[r] \in Seq(Message) /\ Len(chan[r]) <= capacity[r] + 1
    /\ rx \in [Runs -> {"open", "dropped"}]
    /\ tries \in [Runs -> 0..MaxSends]
    /\ accepted \in [Runs -> 0..MaxSends] /\ pumped \in [Runs -> 0..MaxSends]
    /\ result \in [Runs -> {"none", "ok", "err", "panic", "jump"}]

(***************************************************************************)
(* With drain_logs_each_tick, what the worker logged before it sent a      *)
(* message is on the console (or pushed out, or lost in a failed print)    *)
(* when the pump closure gets that message.  Other threads' records of     *)
(* before the send too.                                                    *)
(***************************************************************************)
LogsBeforeMessage ==
    mpc = "pump" /\ ticks =>
        \A i \in Elems(queue) \cup Elems(batch) : i > msg.logged

(***************************************************************************)
(* A run that returns, with Ok or with Err, has pumped every message whose *)
(* send succeeded, and Ok is what its own worker returned.                 *)
(***************************************************************************)
ReturnedMeansPumped ==
    \A r \in Runs :
        /\ result[r] \in {"ok", "err"} => pumped[r] = accepted[r]
        /\ result[r] = "ok" => wpc[r] = "ok"

(***************************************************************************)
(* The scope joins: after run() returned or panicked its worker, which may *)
(* borrow from the caller's frames, has ended.                             *)
(***************************************************************************)
JoinedUnlessJumped ==
    \A r \in Runs : result[r] \in {"ok", "err", "panic"} => wpc[r] \in Ended

(***************************************************************************)
(* run() comes to an end: the worker blocked on a full channel and main    *)
(* blocked on an empty one, or on the join, never wait for each other.     *)
(***************************************************************************)
RunEnds == \A r \in Runs : wpc[r] # "none" ~> result[r] # "none"

(***************************************************************************)
(* A record logged while main is in a call leaves the queue: every way out *)
(* of the call drains it.  Not if the warning about dropped records fails  *)
(* to print: that jump comes before the queue is taken.                    *)
(***************************************************************************)
InCall == mpc \notin {"out", "exiting"}

RecordsLeaveQueue ==
    \A i \in 1..MaxCalls :
        i \in Elems(queue) /\ InCall ~> i \notin Elems(queue) \/ lostCount > 0
=============================================================================
