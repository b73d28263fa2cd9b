---------------------------- MODULE WorkerChannel ----------------------------
(***************************************************************************)
(* The worker thread of miniextendr-api/src/worker.rs: run_on_worker ships *)
(* a job to the single worker over a rendezvous channel, and the job calls *)
(* R through with_r_thread, which sends a WorkRequest back to the main     *)
(* thread and waits for the answer.  Every dispatch makes two channels of  *)
(* capacity 1 of its own.  An R error raised by a closure longjmps out of  *)
(* dispatch_to_worker: its frame, with the receiving end of the requests,  *)
(* is neither run to its end nor dropped.                                  *)
(*                                                                         *)
(* Three threads: R's main thread (which dispatches, serves requests and   *)
(* loads or unloads the package), the worker, and a thread that may call   *)
(* miniextendr_runtime_shutdown from elsewhere.                            *)
(***************************************************************************)
EXTENDS Naturals

CONSTANTS
  Jobs,               \* the dispatches a behaviour may make, one per job
  NoJob,              \* "no job"
  MaxRequests,        \* bound: with_r_thread calls one job makes
  Reenter,            \* closures run R code that calls back into the package
  CallsAfterLongjmp,  \* job code calls with_r_thread once more after an R error
  Stoppers            \* who may call shutdown: "main", "other"

ASSUME ConstantsAssumption ==
  /\ NoJob \notin Jobs
  /\ MaxRequests \in Nat \ {0}
  /\ Reenter \in BOOLEAN
  /\ CallsAfterLongjmp \in BOOLEAN
  /\ Stoppers \subseteq {"main", "other"}

VARIABLES
  once,      \* RUN_ONCE of miniextendr_runtime_init
  slot,      \* WORKER: is it Some(WorkerState)?
  lockOk,    \* the mutex of WORKER is not poisoned
  loaded,    \* R_init_<pkg> returned, R_unload_<pkg> has not since
  loadError, \* what the last failed miniextendr_runtime_init panicked about
  main,      \* where R's main thread is
  cur,       \* the job whose dispatch_to_worker frame is live on main
  serving,   \* the WorkRequest whose closure main runs
  stop,      \* where the thread in shutdown() is
  stopper,   \* which thread that is
  worker,    \* where the worker thread is
  job,       \* the job it holds
  tls,       \* the job whose channels are in its thread-locals
  mode,      \* what it does when the awaited answer is Ok
  sent,      \* how many requests each job has sent
  req,       \* worker -> main channel of each dispatch (capacity 1)
  resp,      \* main -> worker channel of each dispatch (capacity 1)
  outcome,   \* what each call of run_on_worker came to
  ended      \* how each job's closure ended on the worker

lifeVars   == <<once, slot, lockOk, loaded, loadError>>
mainVars   == <<main, cur, serving>>
stopVars   == <<stop, stopper>>
workerVars == <<worker, job, tls, mode>>
chanVars   == <<sent, req, resp>>
endVars    == <<outcome, ended>>
vars == <<lifeVars, mainVars, stopVars, workerVars, chanVars, endVars>>

Msg == [t : {"none", "work", "done", "answer"},
        n : 0..MaxRequests,
        tag : {"-", "body", "drop", "ok", "err"}]
NoMsg          == [t |-> "none",   n |-> 0, tag |-> "-"]
WorkRequest(n, from) == [t |-> "work", n |-> n, tag |-> from]
Answer(n, r)   == [t |-> "answer", n |-> n, tag |-> r]
Done(r)        == [t |-> "done",   n |-> 0, tag |-> r]

TypeOK ==
  /\ once \in {"new", "poisoned", "done"}
  /\ slot \in {"none", "running"}
  /\ lockOk \in BOOLEAN
  /\ loaded \in BOOLEAN
  /\ loadError \in {"none", "spawn", "lock"}
  /\ main \in {"idle", "send", "recv", "work", "nested", "leaving", "stop"}
  /\ cur \in Jobs \cup {NoJob}
  /\ serving \in Msg
  /\ stop \in {"no", "send", "join", "returned"}
  /\ stopper \in {"none", "main", "other"}
  /\ worker \in {"absent", "parked", "run", "await", "unwind", "selfsend",
                 "finish", "exiting", "exited"}
  /\ job \in Jobs \cup {NoJob}
  /\ tls \in Jobs \cup {NoJob}
  /\ mode \in {"run", "unwind"}
  /\ sent \in [Jobs -> 0..MaxRequests]
  /\ req \in [Jobs -> Msg]
  /\ resp \in [Jobs -> Msg]
  /\ outcome \in [Jobs -> {"fresh", "pending", "ok", "err", "refused",
                           "sendError", "lockError", "jumped"}]
  /\ ended \in [Jobs -> {"no", "ok", "err"}]

Init ==
  /\ once = "new" /\ slot = "none" /\ lockOk = TRUE
  /\ loaded = FALSE /\ loadError = "none"
  /\ main = "idle" /\ cur = NoJob /\ serving = NoMsg
  /\ stop = "no" /\ stopper = "none"
  /\ worker = "absent" /\ job = NoJob /\ tls = NoJob /\ mode = "run"
  /\ sent = [j \in Jobs |-> 0]
  /\ req = [j \in Jobs |-> NoMsg]
  /\ resp = [j \in Jobs |-> NoMsg]
  /\ outcome = [j \in Jobs |-> "fresh"]
  /\ ended = [j \in Jobs |-> "no"]

\* The pair of channels dispatch_to_worker creates for job j.
Chan(j) == j

\* Main runs R code that may call any of the package's entry points.
MainInR == main = "idle" \/ (Reenter /\ main = "work" /\ serving.tag = "body")

\* has_context() on the worker thread.
HasContext == tls # NoJob

-----------------------------------------------------------------------------
(* Loading: miniextendr_runtime_init under RUN_ONCE, and init_worker.       *)

\* init_worker spawns the thread and installs WORKER.
InitSpawns ==
  /\ main = "idle" /\ once # "done" /\ lockOk
  /\ once' = "done" /\ slot' = "running" /\ worker' = "parked"
  /\ loaded' = TRUE /\ loadError' = "none"
  /\ UNCHANGED <<lockOk, mainVars, stopVars, job, tls, mode, chanVars, endVars>>

\* The OS refuses the thread: expect() panics while the guard of WORKER is
\* held, which poisons both the mutex and RUN_ONCE.
InitSpawnFails ==
  /\ main = "idle" /\ once # "done" /\ lockOk
  /\ once' = "poisoned" /\ lockOk' = FALSE /\ loadError' = "spawn"
  /\ UNCHANGED <<slot, loaded, mainVars, stopVars, workerVars, chanVars, endVars>>

\* call_once_force lets a later caller retry; WORKER.lock().unwrap() panics.
InitLockPoisoned ==
  /\ main = "idle" /\ once # "done" /\ ~lockOk
  /\ once' = "poisoned" /\ loadError' = "lock"
  /\ UNCHANGED <<slot, lockOk, loaded, mainVars, stopVars, workerVars,
                 chanVars, endVars>>

\* R_init_<pkg> again, e.g. after an unload: RUN_ONCE has completed, so
\* init_worker is not reached.
InitAgain ==
  /\ main = "idle" /\ once = "done" /\ ~loaded
  /\ loaded' = TRUE
  /\ UNCHANGED <<once, slot, lockOk, loadError, mainVars, stopVars, workerVars,
                 chanVars, endVars>>

-----------------------------------------------------------------------------
(* The main thread: dispatch_to_worker and its event loop.                  *)

DispatchRefused(j) ==
  /\ MainInR /\ outcome[j] = "fresh" /\ lockOk /\ slot = "none"
  /\ outcome' = [outcome EXCEPT ![j] = "refused"]
  /\ UNCHANGED <<lifeVars, mainVars, stopVars, workerVars, chanVars, ended>>

DispatchLockPoisoned(j) ==
  /\ MainInR /\ outcome[j] = "fresh" /\ ~lockOk
  /\ outcome' = [outcome EXCEPT ![j] = "lockError"]
  /\ UNCHANGED <<lifeVars, mainVars, stopVars, workerVars, chanVars, ended>>

\* Clones the sender, makes the channels and blocks in job_tx.send.  From a
\* closure the thread-locals of *this* thread are empty, so the re-entry guard
\* does not fire and main blocks in the same send ("nested").
Dispatch(j) ==
  /\ MainInR /\ outcome[j] = "fresh" /\ lockOk /\ slot = "running"
  /\ outcome' = [outcome EXCEPT ![j] = "pending"]
  /\ IF main = "idle" THEN main' = "send" /\ cur' = j
                      ELSE main' = "nested" /\ cur' = cur
  /\ UNCHANGED <<lifeVars, serving, stopVars, workerVars, chanVars, ended>>

\* Rendezvous: the parked worker takes the job and sets its thread-locals.
HandJob ==
  /\ main = "send" /\ worker = "parked"
  /\ main' = "recv" /\ worker' = "run" /\ job' = cur /\ tls' = cur
  /\ UNCHANGED <<lifeVars, cur, serving, stopVars, mode, chanVars, endVars>>

\* The worker took Shutdown first: send fails, expect("worker thread dead").
SendError ==
  /\ main = "send" /\ worker \in {"exiting", "exited"}
  /\ main' = "idle" /\ cur' = NoJob
  /\ outcome' = [outcome EXCEPT ![cur] = "sendError"]
  /\ UNCHANGED <<lifeVars, serving, stopVars, workerVars, chanVars, ended>>

Serve ==
  /\ main = "recv" /\ req[Chan(cur)].t = "work"
  /\ serving' = req[Chan(cur)]
  /\ req' = [req EXCEPT ![Chan(cur)] = NoMsg]
  /\ main' = "work"
  /\ UNCHANGED <<lifeVars, cur, stopVars, workerVars, sent, resp, endVars>>

\* The closure returned or panicked: one response, then back to recv.
\* Closures sent by destructors release a protection and do not fail.
WorkEnds(r) ==
  /\ main = "work" /\ resp[Chan(cur)] = NoMsg
  /\ r = "err" => serving.tag = "body"
  /\ resp' = [resp EXCEPT ![Chan(cur)] = Answer(serving.n, r)]
  /\ main' = "recv"
  /\ UNCHANGED <<lifeVars, cur, serving, stopVars, workerVars, sent, req, endVars>>

\* Mutant of WorkRError: the longjmp does not leave the loop, so the normal
\* response is sent as well.
WorkRErrorFallsThrough ==
  /\ main = "work" /\ resp[Chan(cur)] = NoMsg /\ serving.tag = "body"
  /\ resp' = [resp EXCEPT ![Chan(cur)] = Answer(serving.n, "err")]
  /\ outcome' = [outcome EXCEPT ![cur] = "jumped"]
  /\ UNCHANGED <<lifeVars, mainVars, stopVars, workerVars, sent, req, ended>>

\* Mutant of WorkRError: cleanup_handler lets R unwind without answering.
WorkRErrorUnanswered ==
  /\ main = "work" /\ serving.tag = "body"
  /\ outcome' = [outcome EXCEPT ![cur] = "jumped"]
  /\ main' = "leaving"
  /\ UNCHANGED <<lifeVars, cur, serving, stopVars, workerVars, chanVars, ended>>

\* The closure raised an R error: cleanup_handler answers the worker.
WorkRError ==
  /\ main = "work" /\ resp[Chan(cur)] = NoMsg /\ serving.tag = "body"
  /\ resp' = [resp EXCEPT ![Chan(cur)] = Answer(serving.n, "err")]
  /\ outcome' = [outcome EXCEPT ![cur] = "jumped"]
  /\ main' = "leaving"
  /\ UNCHANGED <<lifeVars, cur, serving, stopVars, workerVars, sent, req, ended>>

\* R_ContinueUnwind longjmps over the frame; its channels are leaked.
ContinueUnwind ==
  /\ main = "leaving"
  /\ main' = "idle" /\ cur' = NoJob
  /\ UNCHANGED <<lifeVars, serving, stopVars, workerVars, chanVars, endVars>>

TakeDone ==
  /\ main = "recv" /\ req[Chan(cur)].t = "done"
  /\ outcome' = [outcome EXCEPT ![cur] = req[Chan(cur)].tag]
  /\ req' = [req EXCEPT ![Chan(cur)] = NoMsg]
  /\ main' = "idle" /\ cur' = NoJob
  /\ UNCHANGED <<lifeVars, serving, stopVars, workerVars, sent, resp, ended>>

-----------------------------------------------------------------------------
(* The worker thread: worker_loop, the job closure, route_to_main_thread.   *)

\* Job code that has outlived its dispatch: main longjmped out of the loop.
Abandoned == outcome[job] = "jumped"

\* Mutant of Request: with_r_thread posts its closure and does not wait.
RequestNoWait(next) ==
  /\ worker \in {"run", "unwind"} /\ next = worker
  /\ Abandoned => CallsAfterLongjmp
  /\ sent[job] < MaxRequests /\ req[Chan(job)] = NoMsg
  /\ sent' = [sent EXCEPT ![job] = @ + 1]
  /\ req' = [req EXCEPT ![Chan(job)] = WorkRequest(sent[job] + 1, "body")]
  /\ UNCHANGED <<lifeVars, mainVars, stopVars, workerVars, resp, endVars>>

\* with_r_thread: the WorkRequest fills the channel, then the worker waits.
\* While unwinding it comes from a destructor ("drop"), or from code that
\* caught the panic and tries again.
Request(next) ==
  /\ worker \in {"run", "unwind"} /\ HasContext
  /\ worker = "run" => next = "run"
  /\ Abandoned => CallsAfterLongjmp
  /\ sent[job] < MaxRequests /\ req[Chan(job)] = NoMsg
  /\ sent' = [sent EXCEPT ![job] = @ + 1]
  /\ req' = [req EXCEPT ![Chan(job)] =
               WorkRequest(sent[job] + 1, IF next = "run" THEN "body" ELSE "drop")]
  /\ worker' = "await" /\ mode' = next
  /\ UNCHANGED <<lifeVars, mainVars, stopVars, job, tls, resp, endVars>>

\* recv: Ok resumes the job, Err re-panics with PreLocatedPanic.
RecvAnswer ==
  /\ worker = "await" /\ resp[Chan(job)] # NoMsg
  /\ worker' = IF resp[Chan(job)].tag = "ok" THEN mode ELSE "unwind"
  /\ resp' = [resp EXCEPT ![Chan(job)] = NoMsg]
  /\ UNCHANGED <<lifeVars, mainVars, stopVars, job, tls, mode, sent, req, endVars>>

JobPanics ==
  /\ worker = "run"
  /\ worker' = "unwind"
  /\ UNCHANGED <<lifeVars, mainVars, stopVars, job, tls, mode, chanVars, endVars>>

\* Mutant of NestedRunOnWorker: no re-entry guard.
NestedUnguarded ==
  /\ worker = "run" /\ worker' = "selfsend"
  /\ UNCHANGED <<lifeVars, mainVars, stopVars, job, tls, mode, chanVars, endVars>>

\* run_on_worker inside a job: the guard panics; without it the worker would
\* wait for itself.
NestedRunOnWorker ==
  /\ worker = "run"
  /\ worker' = IF HasContext THEN "unwind" ELSE "selfsend"
  /\ UNCHANGED <<lifeVars, mainVars, stopVars, job, tls, mode, chanVars, endVars>>

\* Mutant of JobEnds: the thread-locals still hold the channels of this job.
JobEndsKeepsContext(r) ==
  /\ worker \in {"run", "unwind"}
  /\ worker = "run" => r = "ok"
  /\ ended' = [ended EXCEPT ![job] = r]
  /\ worker' = "finish"
  /\ UNCHANGED <<lifeVars, mainVars, stopVars, job, tls, mode, chanVars, outcome>>

\* catch_unwind returned (r = "ok" after a panic: user code caught it); the
\* thread-locals are cleared.
JobEnds(r) ==
  /\ worker \in {"run", "unwind"}
  /\ worker = "run" => r = "ok"
  /\ ended' = [ended EXCEPT ![job] = r]
  /\ worker' = "finish" /\ tls' = NoJob
  /\ UNCHANGED <<lifeVars, mainVars, stopVars, job, mode, chanVars, outcome>>

SendDone ==
  /\ worker = "finish" /\ req[Chan(job)] = NoMsg
  /\ req' = [req EXCEPT ![Chan(job)] = Done(ended[job])]
  /\ worker' = "parked" /\ job' = NoJob
  /\ UNCHANGED <<lifeVars, mainVars, stopVars, tls, mode, sent, resp, endVars>>

WorkerExits ==
  /\ worker = "exiting"
  /\ worker' = "exited"
  /\ UNCHANGED <<lifeVars, mainVars, stopVars, job, tls, mode, chanVars, endVars>>

-----------------------------------------------------------------------------
(* miniextendr_runtime_shutdown, from R_unload_<pkg> or another thread.     *)

\* On main this is R_unload_<pkg>.
MayStop(t) == t \in Stoppers /\ (t = "main" => MainInR /\ loaded)

\* The state is already taken: shutdown() is a no-op and the unload proceeds,
\* even while another thread is still sending Shutdown or joining.
StopNothing ==
  /\ MayStop("main") /\ lockOk /\ slot = "none"
  /\ loaded' = FALSE
  /\ UNCHANGED <<once, slot, lockOk, loadError, mainVars, stopVars, workerVars,
                 chanVars, endVars>>

StopBegins(t) ==
  /\ MayStop(t) /\ lockOk /\ slot = "running"
  /\ slot' = "none" /\ stop' = "send" /\ stopper' = t
  /\ main' = IF t = "main" THEN "stop" ELSE main
  /\ UNCHANGED <<once, lockOk, loaded, loadError, cur, serving, workerVars,
                 chanVars, endVars>>

\* Mutant of TakeShutdown: shutdown() does not join the thread.
TakeShutdownNoJoin ==
  /\ stop = "send" /\ worker = "parked"
  /\ stop' = "returned" /\ worker' = "exiting"
  /\ main' = IF stopper = "main" THEN "idle" ELSE main
  /\ loaded' = (loaded /\ stopper # "main")
  /\ UNCHANGED <<once, slot, lockOk, loadError, cur, serving, stopper, job, tls,
                 mode, chanVars, endVars>>

\* Mutant of TakeShutdown: a flag is polled instead, also in the middle of a job.
TakeShutdownMidJob ==
  /\ stop = "send" /\ worker \in {"parked", "run"}
  /\ stop' = "join" /\ worker' = "exiting"
  /\ UNCHANGED <<lifeVars, mainVars, stopper, job, tls, mode, chanVars, endVars>>

\* Rendezvous on Shutdown: the loop breaks, the shutting thread joins.
TakeShutdown ==
  /\ stop = "send" /\ worker = "parked"
  /\ stop' = "join" /\ worker' = "exiting"
  /\ UNCHANGED <<lifeVars, mainVars, stopper, job, tls, mode, chanVars, endVars>>

StopReturns ==
  /\ stop = "join" /\ worker = "exited"
  /\ stop' = "returned"
  /\ main' = IF stopper # "main" THEN main ELSE IF cur = NoJob THEN "idle" ELSE "work"
  /\ loaded' = (loaded /\ stopper # "main")
  /\ UNCHANGED <<once, slot, lockOk, loadError, cur, serving, stopper,
                 workerVars, chanVars, endVars>>

-----------------------------------------------------------------------------
MainStep == \/ Serve \/ WorkEnds("ok") \/ WorkEnds("err") \/ WorkRError
            \/ ContinueUnwind \/ TakeDone \/ SendError

WorkerStep == \/ Request("run") \/ Request("unwind") \/ RecvAnswer
              \/ JobPanics \/ NestedRunOnWorker
              \/ JobEnds("ok") \/ JobEnds("err") \/ SendDone \/ WorkerExits

Rendezvous == HandJob \/ TakeShutdown

Environment ==
  \/ InitSpawns \/ InitSpawnFails \/ InitLockPoisoned \/ InitAgain
  \/ \E j \in Jobs : DispatchRefused(j) \/ DispatchLockPoisoned(j) \/ Dispatch(j)
  \/ StopNothing \/ StopBegins("main") \/ StopBegins("other")

Next == MainStep \/ WorkerStep \/ Rendezvous \/ StopReturns \/ Environment

\* The OS schedules every thread; jobs and closures terminate.  Nothing forces
\* R to load the package, call it or unload it.
Fairness ==
  /\ WF_vars(MainStep)
  /\ WF_vars(WorkerStep)
  /\ WF_vars(Rendezvous)
  /\ WF_vars(StopReturns)

Spec == Init /\ [][Next]_vars
FairSpec == Spec /\ Fairness

-----------------------------------------------------------------------------
(* What makes the channel correct.                                          *)

\* While main runs a closure (or is stuck under it), the worker that asked for
\* it is waiting, its answer is not there yet, and it is the newest request:
\* "the worker blocks until it receives that response" (the event loop).
ServedWorkerWaits ==
  main \in {"work", "nested"} =>
    /\ worker = "await" /\ job = cur
    /\ resp[Chan(cur)] = NoMsg
    /\ serving.n = sent[cur]

\* An answer the worker can receive answers the request it waits for, however
\* its predecessors ended ("exactly one send per WorkRequest").
AnswerMatchesRequest ==
  worker = "await" /\ resp[Chan(job)] # NoMsg => resp[Chan(job)].n = sent[job]

\* Neither the final Done nor a response (which cleanup_handler sends in the
\* middle of a longjmp and cannot wait for) ever meets a full channel.
SendsNeverBlock ==
  /\ worker = "finish" => req[Chan(job)] = NoMsg
  /\ main = "work" => resp[Chan(cur)] = NoMsg

\* What run_on_worker returns is how this very job ended, even after other
\* dispatches were longjmped out of and left their Done behind.
ResultIsOwn ==
  \A j \in Jobs : outcome[j] \in {"ok", "err"} => ended[j] = outcome[j]

\* A call of run_on_worker comes to one end only: in particular a longjmp and
\* the Done that its job still sends are never both delivered.
OutcomeIsFinal ==
  [][\A j \in Jobs :
       outcome[j] \notin {"fresh", "pending"} => outcome'[j] = outcome[j]]_vars

\* Another thread is still inside shutdown(): a second caller finds the state
\* taken and returns at once (StopNothing).
OvertakenStopper == stopper = "other" /\ stop \in {"send", "join"}

\* The thread that took the state returns from shutdown() only when the worker
\* is gone, so that the DLL is not unmapped under it (#277): once
\* R_unload_<pkg> has returned no worker is in the DLL's code, unless the
\* unload overtook another thread's shutdown().
UnloadedMeansGone ==
  /\ stop = "returned" => worker = "exited"
  /\ once = "done" /\ ~loaded => worker = "exited" \/ OvertakenStopper

\* The three waits nothing ends: a closure that dispatches again or unloads the
\* package waits for the worker that waits for it, and a request made after an
\* R error has no reader left.
Wedged ==
  \/ main = "nested"
  \/ main = "stop" /\ cur # NoJob
  \/ worker = "await" /\ Abandoned /\ req[Chan(job)].t = "work"

\* Every call of run_on_worker that got hold of the worker comes to an end.
EveryDispatchReturns ==
  \A j \in Jobs : outcome[j] = "pending" ~> outcome[j] # "pending" \/ Wedged

\* shutdown() returns: it only waits for the job in flight.
ShutdownReturns == stop = "send" ~> stop = "returned" \/ Wedged

\* A with_r_thread call on the worker gets its answer.
RequestsAreAnswered ==
  \A j \in Jobs : \A n \in 1..MaxRequests :
     (worker = "await" /\ job = j /\ sent[j] = n)
       ~> ~(worker = "await" /\ job = j /\ sent[j] = n)

\* After an R error the worker unwinds the job and is ready for the next one.
WorkerRecovers == main = "leaving" ~> worker \in {"parked", "exited"} \/ Wedged

-----------------------------------------------------------------------------
(* The inductive invariant: where the worker, main and shutdown() can be    *)
(* relative to each other, and what the channels hold there.                *)

Executing == {"run", "await", "unwind"}

\* Nothing of job j has happened yet, beyond a call that waits for the worker.
Untouched(j) ==
  /\ j # job /\ ended[j] = "no" /\ sent[j] = 0
  /\ req[j] = NoMsg /\ resp[j] = NoMsg

\* Main is in a closure of the current job, or blocked underneath it.
UnderClosure ==
  main \in {"work", "nested"} \/ (main = "stop" /\ cur # NoJob)

LifeInv ==
  /\ once = "done" <=> worker # "absent"
  /\ loaded => once = "done"
  /\ slot = "running" => once = "done" /\ stop = "no"
  /\ once = "done" /\ slot = "none" => stop # "no"
  /\ ~lockOk => once = "poisoned"
  /\ stop = "no" => worker \notin {"exiting", "exited"}
  /\ stop = "send" => worker \notin {"absent", "exiting", "exited"}
  /\ stop = "join" => worker \in {"exiting", "exited"}
  /\ stop = "returned" => worker = "exited"
  /\ main = "stop" => stop \in {"send", "join"} /\ stopper = "main"
  /\ stop \in {"send", "join"} /\ stopper = "main" => main = "stop"
  /\ stop # "no" => stopper \in Stoppers

WorkerInv ==
  /\ worker # "selfsend"
  /\ job # NoJob <=> worker \in Executing \cup {"finish"}
  /\ tls = IF worker \in Executing THEN job ELSE NoJob
  /\ worker \in Executing => ended[job] = "no"
  /\ worker = "finish" => ended[job] # "no"

MainInv ==
  /\ main = "idle" => cur = NoJob
  /\ main \in {"send", "recv", "work", "nested", "leaving"} => cur # NoJob
  /\ cur # NoJob =>
       outcome[cur] = IF main = "leaving" THEN "jumped" ELSE "pending"
  /\ main = "send" => Untouched(cur)
  /\ main = "recv" /\ job # cur =>
       /\ job = NoJob
       /\ ended[cur] # "no" /\ req[cur] = Done(ended[cur])
  /\ UnderClosure =>
       /\ worker = "await" /\ job = cur /\ serving.n = sent[cur]
       /\ req[cur] = NoMsg /\ resp[cur] = NoMsg

JobInv ==
  \A j \in Jobs :
    /\ outcome[j] \in {"fresh", "refused", "lockError", "sendError"} => Untouched(j)
    /\ outcome[j] = "pending" /\ j # cur => Untouched(j)
    /\ outcome[j] \in {"ok", "err"} => j # job /\ ended[j] = outcome[j]
    /\ req[j].t = "done" => req[j].tag = ended[j] /\ ended[j] # "no" /\ j # job

ChannelInv ==
  job # NoJob =>
    /\ worker # "await" => req[job] = NoMsg /\ resp[job] = NoMsg
    /\ worker = "await" =>
         \/ /\ req[job].t = "work" /\ req[job].n = sent[job]
            /\ resp[job] = NoMsg /\ ~UnderClosure
         \/ /\ req[job] = NoMsg /\ resp[job].t = "answer" /\ resp[job].n = sent[job]
            /\ ~UnderClosure
         \/ UnderClosure

\* Together with the types, the strengthening the safety theorems rest on.
IInv == TypeOK /\ LifeInv /\ WorkerInv /\ MainInv /\ JobInv /\ ChannelInv

-----------------------------------------------------------------------------
(* Refinement: the channels implement the service of JobService.            *)

CallOf(o) == CASE o = "fresh" -> "new"
               [] o = "pending" -> "called"
               [] o \in {"refused", "sendError", "lockError"} -> "refused"
               [] OTHER -> o

callsBar == [j \in Jobs |-> CallOf(outcome[j])]
execBar  == [j \in Jobs |-> IF j = job /\ worker \in Executing
                           THEN "running" ELSE ended[j]]
upBar    == CASE worker = "absent" -> "off"
              [] worker \in {"exiting", "exited"} -> "stopped"
              [] OTHER -> IF slot = "running" THEN "on" ELSE "closing"

Service == INSTANCE JobService WITH
             calls <- callsBar, exec <- execBar, up <- upBar

\* Every behaviour of the threads and channels is one of the job service: one
\* job at a time, own results only, no stop in the middle of a job.
ImplementsJobService == Service!Spec

=============================================================================
