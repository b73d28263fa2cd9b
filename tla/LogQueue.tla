------------------------------ MODULE LogQueue ------------------------------
(***************************************************************************)
(* The console logger of optionals/log_impl.rs.  Threads other than R's    *)
(* main thread push their records into a bounded queue; the main thread    *)
(* drains the queue into R's console on its way out of every call, on      *)
(* every tick of a WorkerPump, and before it prints a record of its own.   *)
(*                                                                         *)
(* A record is the number of its call of log(): calls[i] is the thread     *)
(* that made record i.  Text and level of a record are left out, except    *)
(* that a record may hold a NUL byte, which render() refuses.  Only calls  *)
(* that pass the level filter are modelled.                                *)
(***************************************************************************)
EXTENDS Integers, Sequences, FiniteSets

CONSTANTS
    Threads,          \* the threads that log and are not R's main thread
    Main,             \* R's main thread
    QUEUE_CAPACITY,   \* capacity of the queue (1024 in the code)
    HasNul,           \* the records whose text holds a NUL byte
    MaxCalls          \* bound: calls of log() in a behaviour

ASSUME MainAssumption == Main \notin Threads
ASSUME CapacityAssumption == QUEUE_CAPACITY \in Nat \ {0}
ASSUME MaxCallsAssumption == MaxCalls \in Nat

VARIABLES
    calls,      \* who made each record, in the order of the calls of log()
    queue,      \* QUEUE: records pushed by other threads
    DROPPED,    \* DROPPED: records pushed out since the last swap
    dpc,        \* where the main thread is in drain_log_queue()/log()
    counted,    \* `dropped`, the value main swapped out of DROPPED
    batch,      \* `records`, taken from the queue and not yet rendered
    own,        \* the record main is logging itself, 0 for none
    console,    \* history: the records R's console printed
    reported,   \* history: the sum of the counts printed as warnings
    lost,       \* history: taken, or main's own, and never printed
    lostCount   \* history: counts swapped out and never printed

historyVars == <<reported, lost, lostCount>>
logVars == <<calls, queue, DROPPED, dpc, counted, batch, own, console,
             historyVars>>

Elems(s) == {s[i] : i \in DOMAIN s}

NextRecord == Len(calls) + 1

LogInit ==
    /\ calls = <<>> /\ queue = <<>> /\ batch = <<>> /\ console = <<>>
    /\ DROPPED = 0 /\ counted = 0 /\ reported = 0 /\ lostCount = 0
    /\ own = 0 /\ lost = {}
    /\ dpc = "idle"

-----------------------------------------------------------------------------
\* Mutant: the oldest record makes room and is not counted.
DropOldestUncounted ==
    /\ Len(queue) >= QUEUE_CAPACITY
    /\ queue' = Append(Tail(queue), NextRecord)
    /\ DROPPED' = DROPPED

(***************************************************************************)
(* log() on a thread that is not the main thread.  The queue is locked     *)
(* from the test of its length to the push.  DROPPED is incremented under  *)
(* that lock and swapped without it, but no step of main tells a swap      *)
(* between the pop and the increment from one before the pop, so the call  *)
(* is one step.                                                            *)
(***************************************************************************)
DropOldest ==
    /\ Len(queue) >= QUEUE_CAPACITY
    /\ queue' = Append(Tail(queue), NextRecord)
    /\ DROPPED' = DROPPED + 1

\* Mutant: the length of the queue is not tested.
PushUnbounded ==
    /\ queue' = Append(queue, NextRecord)
    /\ DROPPED' = DROPPED

PushRecord ==
    /\ Len(queue) < QUEUE_CAPACITY
    /\ queue' = Append(queue, NextRecord)
    /\ DROPPED' = DROPPED

ThreadLogs(t) ==
    /\ Len(calls) < MaxCalls
    /\ calls' = Append(calls, t)
    /\ DropOldest \/ PushRecord
    /\ UNCHANGED <<dpc, counted, batch, own, console, historyVars>>

(***************************************************************************)
(* The main thread.  StartDrain is a call of drain_log_queue(); MainLogs   *)
(* is a call of log(), which drains before it renders its own record.      *)
(***************************************************************************)
StartDrain ==
    /\ dpc = "idle"
    /\ dpc' = "swap"
    /\ UNCHANGED <<calls, queue, DROPPED, counted, batch, own, console,
                   historyVars>>

MainLogs ==
    /\ dpc = "idle"
    /\ Len(calls) < MaxCalls
    /\ calls' = Append(calls, Main)
    /\ own' = NextRecord
    /\ dpc' = "swap"
    /\ UNCHANGED <<queue, DROPPED, counted, batch, console, historyVars>>

\* DROPPED.swap(0): before the queue is locked.
SwapDropped ==
    /\ dpc = "swap"
    /\ counted' = DROPPED
    /\ DROPPED' = 0
    /\ dpc' = IF DROPPED > 0 THEN "warn" ELSE "take"
    /\ UNCHANGED <<calls, queue, batch, own, console, historyVars>>

\* "N log records dropped due to queue overflow" is on the console.
RenderWarning ==
    /\ dpc = "warn"
    /\ reported' = reported + counted
    /\ counted' = 0
    /\ dpc' = "take"
    /\ UNCHANGED <<calls, queue, DROPPED, batch, own, console, lost, lostCount>>

\* Mutant: the newest record is rendered first, as from a stack.
TakeReversed ==
    /\ dpc = "take"
    /\ batch' = [i \in 1..Len(queue) |-> queue[Len(queue) + 1 - i]]
    /\ queue' = <<>>
    /\ dpc' = "render"
    /\ UNCHANGED <<calls, DROPPED, counted, own, console, historyVars>>

TakeAll ==
    /\ dpc = "take"
    /\ batch' = queue
    /\ queue' = <<>>
    /\ dpc' = "render"
    /\ UNCHANGED <<calls, DROPPED, counted, own, console, historyVars>>

\* Rprintf gets the text as a C string: a record with a NUL byte is skipped.
Render(r) ==
    IF r \in HasNul
    THEN lost' = lost \cup {r} /\ console' = console
    ELSE console' = Append(console, r) /\ lost' = lost

RenderNext ==
    /\ dpc = "render"
    /\ batch # <<>>
    /\ Render(Head(batch))
    /\ batch' = Tail(batch)
    /\ UNCHANGED <<calls, queue, DROPPED, dpc, counted, own, reported, lostCount>>

\* The batch is printed: back to the caller, or on to log()'s own record.
Drained ==
    /\ dpc = "render"
    /\ batch = <<>>
    /\ dpc' = IF own = 0 THEN "idle" ELSE "own"
    /\ UNCHANGED <<calls, queue, DROPPED, counted, batch, own, console,
                   historyVars>>

RenderOwn ==
    /\ dpc = "own"
    /\ Render(own)
    /\ own' = 0
    /\ dpc' = "idle"
    /\ UNCHANGED <<calls, queue, DROPPED, counted, batch, reported, lostCount>>

(***************************************************************************)
(* An R error inside Rprintf or REprintf (a sink() whose connection fails, *)
(* an interrupt): the longjmp leaves drain_log_queue() where it is.  What  *)
(* it had taken out of the statics and not printed is gone.                *)
(***************************************************************************)
RenderFails ==
    /\ \/ dpc = "warn"
       \/ dpc = "render" /\ batch # <<>> /\ Head(batch) \notin HasNul
       \/ dpc = "own" /\ own \notin HasNul
    /\ lost' = lost \cup Elems(batch) \cup ({own} \ {0})
    /\ lostCount' = lostCount + counted
    /\ batch' = <<>> /\ own' = 0 /\ counted' = 0
    /\ dpc' = "idle"
    /\ UNCHANGED <<calls, queue, DROPPED, console, reported>>

DrainStep ==
    \/ SwapDropped \/ RenderWarning \/ TakeAll
    \/ RenderNext \/ Drained \/ RenderOwn

LogNext ==
    \/ \E t \in Threads : ThreadLogs(t)
    \/ StartDrain
    \/ MainLogs
    \/ DrainStep
    \/ RenderFails

LogSpec == LogInit /\ [][LogNext]_logVars

-----------------------------------------------------------------------------
Records == 1..Len(calls)

LogTypeOK ==
    /\ calls \in Seq(Threads \cup {Main})
    /\ queue \in Seq(Records) /\ batch \in Seq(Records)
    /\ console \in Seq(Records)
    /\ own \in Records \cup {0}
    /\ lost \subseteq Records
    /\ DROPPED \in Nat /\ counted \in Nat
    /\ reported \in Nat /\ lostCount \in Nat
    /\ dpc \in {"idle", "swap", "warn", "take", "render", "own"}
    /\ Len(queue) <= QUEUE_CAPACITY

\* The records that are nowhere: pushed out of the full queue.
Missing == Records \ (Elems(queue) \cup Elems(batch) \cup Elems(console)
                        \cup lost \cup {own})

(***************************************************************************)
(* Every record that vanished in the queue is in a count: the one main is  *)
(* about to print, one it printed or failed to print, or DROPPED.  The     *)
(* swap of DROPPED and the take of the queue are two steps with pushes     *)
(* between them, and still no drop is counted twice or forgotten.          *)
(***************************************************************************)
DropsAreCounted ==
    Cardinality(Missing) = DROPPED + counted + reported + lostCount

(***************************************************************************)
(* The console shows records in the order of the calls of log(), whatever  *)
(* thread made them.  Only a record of main may come after later ones:     *)
(* those that other threads pushed while main was draining for it.         *)
(***************************************************************************)
PrintedInOrder ==
    \A i, j \in DOMAIN console :
        i < j => console[i] < console[j] \/ calls[console[j]] = Main
=============================================================================
