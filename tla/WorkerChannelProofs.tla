------------------------ MODULE WorkerChannelProofs ------------------------
(***************************************************************************)
(* Proofs about WorkerChannel, for any set of jobs and any number of       *)
(* requests, with re-entrant closures, retries after an R error and a      *)
(* second thread in shutdown() all allowed.  The argument: IInv says where *)
(* main, the worker and shutdown() can be relative to each other and what  *)
(* the two channels of the current job hold there; it is inductive, and    *)
(* every safety property is a consequence of it or of one step under it.   *)
(***************************************************************************)
EXTENDS WorkerChannel, TLAPS

USE ConstantsAssumption
USE DEF Msg, NoMsg, WorkRequest, Answer, Done, Chan, HasContext, Abandoned,
        MainInR, MayStop, Executing, Untouched, UnderClosure,
        lifeVars, mainVars, stopVars, workerVars, chanVars, endVars

LEMMA InitIInv == Init => IInv
<1>. USE DEF Init
<1>1. Init => TypeOK
  <2>1. Init => lockOk \in BOOLEAN /\ loaded \in BOOLEAN
    BY Zenon
  <2>. QED  BY <2>1 DEF TypeOK
<1>2. Init => LifeInv /\ WorkerInv /\ MainInv
  BY DEF LifeInv, WorkerInv, MainInv
<1>3. Init => JobInv /\ ChannelInv
  BY DEF JobInv, ChannelInv
<1>. QED  BY <1>1, <1>2, <1>3 DEF IInv

\* Loading, dispatching and unloading: the steps R decides on.
LEMMA EnvironmentPreservesIInv == IInv /\ Environment => IInv'
<1>. SUFFICES ASSUME IInv, Environment  PROVE IInv'
  OBVIOUS
<1>. USE DEF IInv, TypeOK, LifeInv, WorkerInv, MainInv, JobInv, ChannelInv
<1>1. CASE InitSpawns
  BY <1>1 DEF InitSpawns
<1>2. CASE InitSpawnFails
  <2>1. lockOk' \in BOOLEAN
    BY <1>2, Zenon DEF InitSpawnFails
  <2>2. TypeOK'
    BY <1>2, <2>1 DEF InitSpawnFails
  <2>3. LifeInv'
    BY <1>2 DEF InitSpawnFails
  <2>. QED  BY <1>2, <2>2, <2>3 DEF InitSpawnFails
<1>3. CASE InitLockPoisoned
  BY <1>3 DEF InitLockPoisoned
<1>4. CASE InitAgain
  BY <1>4 DEF InitAgain
<1>5. ASSUME NEW j \in Jobs, DispatchRefused(j)  PROVE IInv'
  BY <1>5 DEF DispatchRefused
<1>6. ASSUME NEW j \in Jobs, DispatchLockPoisoned(j)  PROVE IInv'
  BY <1>6 DEF DispatchLockPoisoned
<1>7. ASSUME NEW j \in Jobs, Dispatch(j)  PROVE IInv'
  BY <1>7 DEF Dispatch
<1>8. CASE StopNothing
  <2>1. loaded' \in BOOLEAN /\ ~loaded'
    BY <1>8, Zenon DEF StopNothing
  <2>2. TypeOK'
    BY <1>8, <2>1 DEF StopNothing
  <2>3. LifeInv'
    BY <1>8, <2>1 DEF StopNothing
  <2>. QED  BY <1>8, <2>2, <2>3 DEF StopNothing
<1>9. ASSUME NEW t \in {"main", "other"}, StopBegins(t)  PROVE IInv'
  BY <1>9 DEF StopBegins
<1>. QED
  BY <1>1, <1>2, <1>3, <1>4, <1>5, <1>6, <1>7, <1>8, <1>9 DEF Environment

\* The event loop of dispatch_to_worker.
LEMMA MainPreservesIInv == IInv /\ MainStep => IInv'
<1>. SUFFICES ASSUME IInv, MainStep  PROVE IInv'
  OBVIOUS
<1>. USE DEF IInv, TypeOK, LifeInv, WorkerInv, MainInv, JobInv, ChannelInv
<1>1. CASE Serve
  BY <1>1 DEF Serve
<1>2. ASSUME NEW r \in {"ok", "err"}, WorkEnds(r)  PROVE IInv'
  BY <1>2 DEF WorkEnds
<1>3. CASE WorkRError
  BY <1>3 DEF WorkRError
<1>4. CASE ContinueUnwind
  BY <1>4 DEF ContinueUnwind
<1>5. CASE TakeDone
  BY <1>5 DEF TakeDone
<1>6. CASE SendError
  BY <1>6 DEF SendError
<1>. QED  BY <1>1, <1>2, <1>3, <1>4, <1>5, <1>6 DEF MainStep

\* The worker thread.
LEMMA WorkerPreservesIInv == IInv /\ WorkerStep => IInv'
<1>. SUFFICES ASSUME IInv, WorkerStep  PROVE IInv'
  OBVIOUS
<1>. USE DEF IInv, TypeOK, LifeInv, WorkerInv, MainInv, JobInv, ChannelInv
<1>1. ASSUME NEW next \in {"run", "unwind"}, Request(next)  PROVE IInv'
  BY <1>1 DEF Request
<1>2. CASE RecvAnswer
  BY <1>2 DEF RecvAnswer
<1>3. CASE JobPanics
  BY <1>3 DEF JobPanics
<1>4. CASE NestedRunOnWorker
  BY <1>4 DEF NestedRunOnWorker
<1>5. ASSUME NEW r \in {"ok", "err"}, JobEnds(r)  PROVE IInv'
  BY <1>5 DEF JobEnds
<1>6. CASE SendDone
  BY <1>6 DEF SendDone
<1>7. CASE WorkerExits
  BY <1>7 DEF WorkerExits
<1>. QED  BY <1>1, <1>2, <1>3, <1>4, <1>5, <1>6, <1>7 DEF WorkerStep

LEMMA IInvInductive == IInv /\ [Next]_vars => IInv'
<1>. SUFFICES ASSUME IInv, [Next]_vars  PROVE IInv'
  OBVIOUS
<1>1. CASE HandJob
  BY <1>1 DEF HandJob, IInv, TypeOK, LifeInv, WorkerInv, MainInv, JobInv, ChannelInv
<1>2. CASE TakeShutdown
  BY <1>2 DEF TakeShutdown, IInv, TypeOK, LifeInv, WorkerInv, MainInv, JobInv, ChannelInv
<1>3. CASE StopReturns
  BY <1>3 DEF StopReturns, IInv, TypeOK, LifeInv, WorkerInv, MainInv, JobInv, ChannelInv
<1>4. CASE UNCHANGED vars
  BY <1>4 DEF vars, IInv, TypeOK, LifeInv, WorkerInv, MainInv, JobInv, ChannelInv
<1>. QED
  BY <1>1, <1>2, <1>3, <1>4, EnvironmentPreservesIInv, MainPreservesIInv,
     WorkerPreservesIInv DEF Next, Rendezvous

\* In every reachable state the threads are in step with each other and with
\* the content of the current job's channels.
THEOREM Invariance == Spec => []IInv
<1>. QED  BY InitIInv, IInvInductive, PTL DEF Spec

\* The variables keep their types; in particular a job never sends more than
\* its bounded number of requests and every outcome is one of those listed.
THEOREM TypeCorrectness == Spec => []TypeOK
<1>1. IInv => TypeOK
  BY DEF IInv
<1>. QED  BY <1>1, Invariance, PTL

\* While main runs a closure, the worker that sent it waits for the answer.
THEOREM ServedWaits == Spec => []ServedWorkerWaits
<1>1. IInv => ServedWorkerWaits
  BY DEF IInv, MainInv, ServedWorkerWaits
<1>. QED  BY <1>1, Invariance, PTL

\* An answer the worker can receive is the answer to its newest request.
THEOREM AnswersMatch == Spec => []AnswerMatchesRequest
<1>1. IInv => AnswerMatchesRequest
  BY DEF IInv, TypeOK, WorkerInv, MainInv, ChannelInv, AnswerMatchesRequest
<1>. QED  BY <1>1, Invariance, PTL

\* Done and the responses, cleanup_handler's included, never meet a full
\* channel.
THEOREM SendsAreFree == Spec => []SendsNeverBlock
<1>1. IInv => SendsNeverBlock
  BY DEF IInv, TypeOK, WorkerInv, MainInv, ChannelInv, SendsNeverBlock
<1>. QED  BY <1>1, Invariance, PTL

\* run_on_worker returns how its own job ended.
THEOREM OwnResults == Spec => []ResultIsOwn
<1>1. IInv => ResultIsOwn
  BY DEF IInv, JobInv, ResultIsOwn
<1>. QED  BY <1>1, Invariance, PTL

\* A call of run_on_worker comes to one end only.
THEOREM OutcomesAreFinal == Spec => OutcomeIsFinal
<1>1. ASSUME IInv, [Next]_vars, NEW j \in Jobs, outcome[j] \notin {"fresh", "pending"}
      PROVE  outcome'[j] = outcome[j]
  <2>. USE <1>1 DEF IInv, TypeOK, MainInv
  <2>1. CASE MainStep
    BY <2>1 DEF MainStep, Serve, WorkEnds, WorkRError, ContinueUnwind, TakeDone, SendError
  <2>2. CASE WorkerStep
    BY <2>2 DEF WorkerStep, Request, RecvAnswer, JobPanics, NestedRunOnWorker,
                JobEnds, SendDone, WorkerExits
  <2>3. CASE Environment
    BY <2>3 DEF Environment, InitSpawns, InitSpawnFails, InitLockPoisoned, InitAgain,
                DispatchRefused, DispatchLockPoisoned, Dispatch, StopNothing, StopBegins
  <2>4. CASE Rendezvous \/ StopReturns \/ UNCHANGED vars
    BY <2>4 DEF Rendezvous, HandJob, TakeShutdown, StopReturns, vars
  <2>. QED  BY <2>1, <2>2, <2>3, <2>4 DEF Next
<1>2. IInv /\ [Next]_vars =>
        [\A j \in Jobs :
           outcome[j] \notin {"fresh", "pending"} => outcome'[j] = outcome[j]]_vars
  BY <1>1
<1>. QED  BY <1>2, Invariance, PTL DEF Spec, OutcomeIsFinal

\* The thread that stops the worker returns only when it is gone, and an
\* unloaded DLL has no worker left in it, whoever calls shutdown() and how
\* often, except when the unload overtakes another thread's shutdown().
THEOREM UnloadIsSafe == Spec => []UnloadedMeansGone
<1>1. Init => UnloadedMeansGone
  BY DEF Init, UnloadedMeansGone, OvertakenStopper
<1>2. IInv /\ UnloadedMeansGone /\ [Next]_vars => UnloadedMeansGone'
  <2>. SUFFICES ASSUME IInv, UnloadedMeansGone, [Next]_vars
                PROVE  UnloadedMeansGone'
    OBVIOUS
  <2>. USE DEF IInv, TypeOK, LifeInv, UnloadedMeansGone, OvertakenStopper
  <2>1. CASE Environment
    BY <2>1 DEF Environment, InitSpawns, InitSpawnFails, InitLockPoisoned, InitAgain,
                DispatchRefused, DispatchLockPoisoned, Dispatch, StopNothing, StopBegins
  <2>2. CASE MainStep
    BY <2>2 DEF MainStep, Serve, WorkEnds, WorkRError, ContinueUnwind, TakeDone, SendError
  <2>3. CASE WorkerStep
    BY <2>3 DEF WorkerStep, Request, RecvAnswer, JobPanics, NestedRunOnWorker,
                JobEnds, SendDone, WorkerExits, WorkerInv
  <2>4. CASE Rendezvous \/ StopReturns \/ UNCHANGED vars
    BY <2>4 DEF Rendezvous, HandJob, TakeShutdown, StopReturns, vars
  <2>. QED  BY <2>1, <2>2, <2>3, <2>4 DEF Next
<1>. QED  BY <1>1, <1>2, Invariance, PTL DEF Spec

-----------------------------------------------------------------------------
(* Refinement: each step of the threads is a step of JobService or none.   *)

LEMMA InitRefines == Init => Service!Init
BY DEF Init, Service!Init, callsBar, execBar, upBar, CallOf

LEMMA JobStepIsNext ==
  ASSUME NEW j \in Jobs,
         \/ Service!Call(j) \/ Service!Refuse(j) \/ Service!Begin(j)
         \/ Service!End(j) \/ Service!Return(j) \/ Service!Escape(j)
  PROVE  Service!Next
BY DEF Service!Next

LEMMA MainRefines ==
  IInv /\ MainStep => Service!Next \/ UNCHANGED Service!vars
<1>. SUFFICES ASSUME IInv, MainStep
              PROVE  Service!Next \/ UNCHANGED Service!vars
  OBVIOUS
<1>. USE DEF IInv, TypeOK, LifeInv, WorkerInv, MainInv, JobInv, ChannelInv
<1>1. CASE Serve
  BY <1>1 DEF Serve, Service!vars, callsBar, execBar, upBar, CallOf
<1>2. ASSUME NEW r \in {"ok", "err"}, WorkEnds(r)
      PROVE  UNCHANGED Service!vars
  BY <1>2 DEF WorkEnds, Service!vars, callsBar, execBar, upBar, CallOf
<1>3. CASE WorkRError
  <2>1. cur \in Jobs /\ callsBar[cur] = "called" /\ execBar[cur] = "running"
    BY <1>3 DEF WorkRError, callsBar, execBar, upBar, CallOf
  <2>2. callsBar' = [callsBar EXCEPT ![cur] = "jumped"]
    BY <1>3 DEF WorkRError, callsBar, CallOf
  <2>3. execBar' = execBar /\ upBar' = upBar
    BY <1>3 DEF WorkRError, execBar, upBar
  <2>4. Service!Escape(cur)
    BY <2>1, <2>2, <2>3 DEF Service!Escape
  <2>. QED  BY <2>1, <2>4, JobStepIsNext
<1>4. CASE ContinueUnwind
  BY <1>4 DEF ContinueUnwind, Service!vars, callsBar, execBar, upBar, CallOf
<1>5. CASE TakeDone
  <2>1. /\ cur \in Jobs /\ callsBar[cur] = "called"
        /\ ended[cur] \in {"ok", "err"} /\ execBar[cur] = ended[cur]
        /\ outcome' = [outcome EXCEPT ![cur] = ended[cur]]
    BY <1>5 DEF TakeDone, callsBar, execBar, CallOf
  <2>2. callsBar' = [callsBar EXCEPT ![cur] = execBar[cur]]
    BY <2>1 DEF callsBar, CallOf
  <2>3. execBar' = execBar /\ upBar' = upBar
    BY <1>5 DEF TakeDone, execBar, upBar
  <2>4. Service!Return(cur)
    BY <2>1, <2>2, <2>3 DEF Service!Return
  <2>. QED  BY <2>1, <2>4, JobStepIsNext
<1>6. CASE SendError
  <2>1. cur \in Jobs /\ callsBar[cur] = "called" /\ execBar[cur] = "no" /\ upBar = "stopped"
    BY <1>6 DEF SendError, callsBar, execBar, upBar, CallOf
  <2>2. callsBar' = [callsBar EXCEPT ![cur] = "refused"]
    BY <1>6 DEF SendError, callsBar, CallOf
  <2>3. execBar' = execBar /\ upBar' = upBar
    BY <1>6 DEF SendError, execBar, upBar
  <2>4. Service!Refuse(cur)
    BY <2>1, <2>2, <2>3 DEF Service!Refuse
  <2>. QED  BY <2>1, <2>4, JobStepIsNext
<1>. QED  BY <1>1, <1>2, <1>3, <1>4, <1>5, <1>6 DEF MainStep

LEMMA WorkerRefines ==
  IInv /\ WorkerStep => Service!Next \/ UNCHANGED Service!vars
<1>. SUFFICES ASSUME IInv, WorkerStep
              PROVE  Service!Next \/ UNCHANGED Service!vars
  OBVIOUS
<1>. USE DEF IInv, TypeOK, LifeInv, WorkerInv, MainInv, JobInv, ChannelInv
<1>1. ASSUME NEW next \in {"run", "unwind"}, Request(next)
      PROVE  UNCHANGED Service!vars
  BY <1>1 DEF Request, Service!vars, callsBar, execBar, upBar, CallOf
<1>2. CASE RecvAnswer
  BY <1>2 DEF RecvAnswer, Service!vars, callsBar, execBar, upBar, CallOf
<1>3. CASE JobPanics \/ NestedRunOnWorker
  BY <1>3 DEF JobPanics, NestedRunOnWorker, Service!vars, callsBar, execBar, upBar, CallOf
<1>4. ASSUME NEW r \in {"ok", "err"}, JobEnds(r)
      PROVE  Service!Next
  <2>1. job \in Jobs /\ execBar[job] = "running"
    BY <1>4 DEF JobEnds, callsBar, execBar, upBar, CallOf
  <2>2. callsBar' = callsBar
    BY <1>4 DEF JobEnds, callsBar, CallOf
  <2>3. execBar' = [execBar EXCEPT ![job] = r] /\ upBar' = upBar
    BY <1>4 DEF JobEnds, execBar, upBar
  <2>4. Service!End(job)
    BY <2>1, <2>2, <2>3 DEF Service!End
  <2>. QED  BY <2>1, <2>4, JobStepIsNext
<1>5. CASE SendDone
  BY <1>5 DEF SendDone, Service!vars, callsBar, execBar, upBar, CallOf
<1>6. CASE WorkerExits
  BY <1>6 DEF WorkerExits, Service!vars, callsBar, execBar, upBar, CallOf
<1>. QED  BY <1>1, <1>2, <1>3, <1>4, <1>5, <1>6 DEF WorkerStep

LEMMA EnvironmentRefines ==
  IInv /\ Environment => Service!Next \/ UNCHANGED Service!vars
<1>. SUFFICES ASSUME IInv, Environment
              PROVE  Service!Next \/ UNCHANGED Service!vars
  OBVIOUS
<1>. USE DEF IInv, TypeOK, LifeInv, WorkerInv, MainInv, JobInv, ChannelInv
<1>1. CASE InitSpawns
  BY <1>1 DEF InitSpawns, Service!Next, Service!Start, callsBar, execBar, upBar, CallOf
<1>2. CASE InitSpawnFails \/ InitLockPoisoned \/ InitAgain \/ StopNothing
  BY <1>2 DEF InitSpawnFails, InitLockPoisoned, InitAgain, StopNothing, Service!vars, callsBar, execBar, upBar, CallOf
<1>3. ASSUME NEW j \in Jobs, DispatchRefused(j)
      PROVE  Service!Next
  <2>1. j \in Jobs /\ callsBar[j] = "new" /\ upBar # "on"
    BY <1>3 DEF DispatchRefused, callsBar, execBar, upBar, CallOf
  <2>2. callsBar' = [callsBar EXCEPT ![j] = "refused"]
    BY <1>3 DEF DispatchRefused, callsBar, CallOf
  <2>3. execBar' = execBar /\ upBar' = upBar
    BY <1>3 DEF DispatchRefused, execBar, upBar
  <2>4. Service!Refuse(j)
    BY <2>1, <2>2, <2>3 DEF Service!Refuse
  <2>. QED  BY <2>1, <2>4, JobStepIsNext
<1>4. ASSUME NEW j \in Jobs, DispatchLockPoisoned(j)
      PROVE  Service!Next
  <2>1. j \in Jobs /\ callsBar[j] = "new" /\ upBar # "on"
    BY <1>4 DEF DispatchLockPoisoned, callsBar, execBar, upBar, CallOf
  <2>2. callsBar' = [callsBar EXCEPT ![j] = "refused"]
    BY <1>4 DEF DispatchLockPoisoned, callsBar, CallOf
  <2>3. execBar' = execBar /\ upBar' = upBar
    BY <1>4 DEF DispatchLockPoisoned, execBar, upBar
  <2>4. Service!Refuse(j)
    BY <2>1, <2>2, <2>3 DEF Service!Refuse
  <2>. QED  BY <2>1, <2>4, JobStepIsNext
<1>5. ASSUME NEW j \in Jobs, Dispatch(j)
      PROVE  Service!Next
  <2>1. j \in Jobs /\ callsBar[j] = "new" /\ upBar = "on"
    BY <1>5 DEF Dispatch, callsBar, execBar, upBar, CallOf
  <2>2. callsBar' = [callsBar EXCEPT ![j] = "called"]
    BY <1>5 DEF Dispatch, callsBar, CallOf
  <2>3. execBar' = execBar /\ upBar' = upBar
    BY <1>5 DEF Dispatch, execBar, upBar
  <2>4. Service!Call(j)
    BY <2>1, <2>2, <2>3 DEF Service!Call
  <2>. QED  BY <2>1, <2>4, JobStepIsNext
<1>6. ASSUME NEW t \in {"main", "other"}, StopBegins(t)
      PROVE  Service!Next
  BY <1>6 DEF StopBegins, Service!Next, Service!Close, callsBar, execBar, upBar, CallOf
<1>. QED  BY <1>1, <1>2, <1>3, <1>4, <1>5, <1>6 DEF Environment

LEMMA RendezvousRefines ==
  IInv /\ (Rendezvous \/ StopReturns) => Service!Next \/ UNCHANGED Service!vars
<1>. SUFFICES ASSUME IInv, Rendezvous \/ StopReturns
              PROVE  Service!Next \/ UNCHANGED Service!vars
  OBVIOUS
<1>. USE DEF IInv, TypeOK, LifeInv, WorkerInv, MainInv, JobInv, ChannelInv
<1>1. CASE HandJob
  <2>1. cur \in Jobs /\ callsBar[cur] = "called" /\ execBar[cur] = "no" /\ upBar \in {"on", "closing"}
    BY <1>1 DEF HandJob, callsBar, execBar, upBar, CallOf
  <2>2. callsBar' = callsBar
    BY <1>1 DEF HandJob, callsBar, CallOf
  <2>3. execBar' = [execBar EXCEPT ![cur] = "running"] /\ upBar' = upBar
    BY <1>1 DEF HandJob, execBar, upBar
  <2>4. Service!Free
    BY <1>1 DEF HandJob, execBar, Service!Free
  <2>5. Service!Begin(cur)
    BY <2>1, <2>2, <2>3, <2>4 DEF Service!Begin
  <2>. QED  BY <2>1, <2>5, JobStepIsNext
<1>2. CASE TakeShutdown
  BY <1>2 DEF TakeShutdown, Service!Next, Service!Stop, Service!Free, callsBar, execBar, upBar, CallOf
<1>3. CASE StopReturns
  BY <1>3 DEF StopReturns, Service!vars, callsBar, execBar, upBar, CallOf
<1>. QED  BY <1>1, <1>2, <1>3 DEF Rendezvous

\* The channels and threads implement the job service.
THEOREM Refinement == Spec => ImplementsJobService
<1>1. IInv /\ [Next]_vars => [Service!Next]_(Service!vars)
  <2>1. CASE UNCHANGED vars
    BY <2>1 DEF vars, Service!vars, callsBar, execBar, upBar
  <2>. QED
    BY <2>1, MainRefines, WorkerRefines, EnvironmentRefines, RendezvousRefines DEF Next
<1>. QED
  BY <1>1, InitRefines, Invariance, PTL DEF Spec, ImplementsJobService, Service!Spec
=============================================================================
