-------------------------- MODULE WorkerPumpProofs --------------------------
(***************************************************************************)
(* The log queue and the worker pump that drains it.                       *)
(*                                                                         *)
(* The log queue, for any threads, any capacity and any number of records: *)
(* every record that vanishes is counted, and the console shows the rest   *)
(* in order.  Both rest on where a record can be: in the queue, in the     *)
(* batch behind it, on the console behind both.                            *)
(*                                                                         *)
(* The worker pump, for any number of runs, capacities, messages, threads  *)
(* and records.  It uses the log queue only through its operations, so it  *)
(* implements LogSpec and inherits what is shown of it first.  On top of   *)
(* that: no message is lost, a message finds the logs before it drained,   *)
(* and a run that returns or panics has joined its worker.                 *)
(***************************************************************************)
EXTENDS WorkerPump, FiniteSetTheorems, SequenceTheorems, TLAPS

Increasing(s) == \A i, j \in DOMAIN s : i < j => s[i] < s[j]
Below(S, T)   == \A m \in S, n \in T : m < n

\* What main has taken, and where it is in the drain, agree.
DrainPhase ==
  /\ batch # <<>> => dpc = "render"
  /\ dpc = "idle" => own = 0
  /\ counted # 0 => dpc = "warn"
  /\ dpc = "own" => own # 0
  /\ own # 0 => calls[own] = Main

\* A record in the queue is nowhere else, and younger than what is not.
Places ==
  /\ Increasing(queue) /\ Increasing(batch)
  /\ Below(Elems(batch), Elems(queue))
  /\ Below(Elems(console), Elems(batch) \cup Elems(queue))
  /\ dpc \in {"render", "own"} => Below({own}, Elems(queue))
  /\ lost \cap Elems(queue) = {}
  /\ own \notin Elems(queue)

LInv == LogTypeOK /\ DrainPhase /\ Places /\ DropsAreCounted /\ PrintedInOrder

-----------------------------------------------------------------------------
(* Sequences of numbers.                                                    *)

LEMMA ElemsOfEmpty == Elems(<<>>) = {} /\ Increasing(<<>>)
  BY DEF Elems, Increasing

LEMMA ElemsInSet ==
  ASSUME NEW S, NEW s \in Seq(S)
  PROVE  Elems(s) \subseteq S
  BY ElementOfSeq, LenProperties DEF Elems

\* A newest record at the end.
LEMMA Pushed ==
  ASSUME NEW s \in Seq(Nat), NEW n \in Nat
  PROVE  /\ Elems(Append(s, n)) = Elems(s) \cup {n}
         /\ Append(s, n) \in Seq(Nat) /\ Append(s, n) # <<>>
         /\ Len(Append(s, n)) = Len(s) + 1
         /\ Increasing(s) /\ Below(Elems(s), {n}) => Increasing(Append(s, n))
<1> DEFINE t == Append(s, n)
<1>1. /\ t \in Seq(Nat) /\ t # <<>> /\ Len(t) = Len(s) + 1 /\ Len(s) \in Nat
      /\ \A i \in 1..Len(s) : t[i] = s[i]
      /\ t[Len(s) + 1] = n
  BY AppendProperties, LenProperties
<1>2. DOMAIN t = 1..Len(s) + 1 /\ DOMAIN s = 1..Len(s)
  BY <1>1, LenProperties
<1> HIDE DEF t
<1>3. 1..Len(s) + 1 = 1..Len(s) \cup {Len(s) + 1}
  BY <1>1
<1>4. Elems(t) = Elems(s) \cup {n}
  BY <1>1, <1>2, <1>3 DEF Elems
<1>5. ASSUME Increasing(s), Below(Elems(s), {n})
      PROVE  Increasing(t)
  <2> SUFFICES ASSUME NEW i \in 1..Len(s) + 1, NEW j \in 1..Len(s) + 1, i < j
               PROVE  t[i] < t[j]
    BY <1>2 DEF Increasing
  <2>1. i \in 1..Len(s) /\ t[i] = s[i]
    BY <1>1
  <2>2. CASE j = Len(s) + 1
    BY <2>1, <2>2, <1>1, <1>2, <1>5 DEF Below, Elems
  <2>3. CASE j # Len(s) + 1
    <3>0. Len(s) \in Nat
      BY LenProperties
    <3>1. j \in 1..Len(s)
      BY <2>3, <3>0
    <3>2. t[j] = s[j]
      BY <3>1, <1>1
    <3>3. s[i] < s[j]
      BY <3>1, <2>1, <1>2, <1>5, Zenon DEF Increasing
    <3> QED
      BY <2>1, <3>2, <3>3
  <2> QED
    BY <2>2, <2>3
<1> QED
  BY <1>1, <1>4, <1>5 DEF t

\* The oldest record at the front.
LEMMA Popped ==
  ASSUME NEW s \in Seq(Nat), s # <<>>
  PROVE  /\ Head(s) \in Nat /\ Tail(s) \in Seq(Nat) /\ Len(Tail(s)) = Len(s) - 1
         /\ Elems(s) = {Head(s)} \cup Elems(Tail(s))
         /\ Increasing(s) =>
              /\ Increasing(Tail(s)) /\ Below({Head(s)}, Elems(Tail(s)))
<1> DEFINE t == Tail(s)
<1>1. /\ Head(s) \in Nat /\ t \in Seq(Nat) /\ Len(t) = Len(s) - 1
      /\ Len(s) \in Nat \ {0}
      /\ \A i \in 1..Len(t) : t[i] = s[i + 1]
      /\ Head(s) = s[1]
  BY HeadTailProperties, EmptySeq
<1>2. DOMAIN t = 1..Len(t) /\ DOMAIN s = 1..Len(s)
  BY <1>1, LenProperties
<1> HIDE DEF t
<1>3. ASSUME NEW i \in 1..Len(t)
      PROVE  /\ i \in DOMAIN t /\ i + 1 \in DOMAIN s /\ 1 \in DOMAIN s /\ 1 < i + 1
             /\ t[i] = s[i + 1]
  BY <1>1, <1>2
<1>4. \A i \in 1..Len(s) : i = 1 \/ (i - 1 \in 1..Len(t) /\ (i - 1) + 1 = i)
  BY <1>1
<1>5. Elems(t) \subseteq Elems(s)
  BY <1>2, <1>3, Zenon DEF Elems
<1>6. Elems(s) \subseteq {Head(s)} \cup Elems(t)
  <2> SUFFICES ASSUME NEW i \in 1..Len(s)
               PROVE  s[i] \in {Head(s)} \cup Elems(t)
    BY <1>2 DEF Elems
  <2>1. CASE i = 1
    BY <2>1, <1>1
  <2>2. CASE i # 1
    <3>1. t[i - 1] = s[(i - 1) + 1] /\ i - 1 \in DOMAIN t /\ (i - 1) + 1 = i
      BY <2>2, <1>1, <1>2, <1>4
    <3>2. s[i] = t[i - 1]
      BY <3>1
    <3> QED
      BY <3>1, <3>2 DEF Elems
  <2> QED
    BY <2>1, <2>2
<1>7. Head(s) \in Elems(s)
  BY <1>1, <1>2 DEF Elems
<1>8. ASSUME Increasing(s)
      PROVE  Increasing(t) /\ Below({Head(s)}, Elems(t))
  <2>1. ASSUME NEW i \in DOMAIN t, NEW j \in DOMAIN t, i < j
        PROVE  t[i] < t[j]
    <3>1. i + 1 < j + 1 /\ i \in 1..Len(t) /\ j \in 1..Len(t)
      BY <2>1, <1>1, <1>2
    <3>2. s[i + 1] < s[j + 1]
      BY <3>1, <1>3, <1>8, Zenon DEF Increasing
    <3> QED
      BY <3>1, <3>2, <1>3, Zenon
  <2>2. ASSUME NEW i \in DOMAIN t
        PROVE  Head(s) < t[i]
    <3>1. s[1] < s[i + 1]
      BY <2>2, <1>2, <1>3, <1>8, Zenon DEF Increasing
    <3> QED
      BY <3>1, <1>1, <1>2, <1>3, Zenon
  <2>3. Increasing(t)
    BY <2>1, Zenon DEF Increasing
  <2>4. Below({Head(s)}, Elems(t))
    BY <2>2, Zenon DEF Below, Elems
  <2> QED
    BY <2>3, <2>4
<1> QED
  BY <1>1, <1>5, <1>6, <1>7, <1>8 DEF t

LEMMA SeqOfElems ==
  ASSUME NEW S, NEW T, NEW s \in Seq(S), Elems(s) \subseteq T
  PROVE  s \in Seq(T)
<1>1. Len(s) \in Nat /\ s \in [1..Len(s) -> S]
  BY LenProperties
<1>2. \A i \in 1..Len(s) : s[i] \in T
  BY <1>1 DEF Elems
<1> QED
  BY <1>1, <1>2

\* The sequences hold numbers of records that were made.
LEMMA RecordFacts ==
  ASSUME LogTypeOK
  PROVE  /\ Len(calls) \in Nat /\ Records \subseteq Nat \ {0}
         /\ queue \in Seq(Nat) /\ batch \in Seq(Nat) /\ console \in Seq(Nat)
         /\ Elems(queue) \subseteq Records /\ Elems(batch) \subseteq Records
         /\ Elems(console) \subseteq Records
         /\ own \in Nat /\ lost \subseteq Records
<1>1. Len(calls) \in Nat /\ Records \subseteq Nat \ {0}
  BY LenProperties DEF LogTypeOK, Records
<1>2. /\ Elems(queue) \subseteq Records /\ Elems(batch) \subseteq Records
      /\ Elems(console) \subseteq Records
  BY ElemsInSet DEF LogTypeOK
<1>3. /\ Elems(queue) \subseteq Nat /\ Elems(batch) \subseteq Nat
      /\ Elems(console) \subseteq Nat
  BY <1>1, <1>2
<1>4. queue \in Seq(Nat) /\ batch \in Seq(Nat) /\ console \in Seq(Nat)
  BY <1>3, SeqOfElems DEF LogTypeOK
<1> QED
  BY <1>1, <1>2, <1>4 DEF LogTypeOK

\* The record of a new call of log() is younger than all others.
LEMMA CallsGrow ==
  ASSUME LogTypeOK, NEW t \in Threads \cup {Main}, calls' = Append(calls, t)
  PROVE  /\ calls' \in Seq(Threads \cup {Main})
         /\ NextRecord \in Nat \ {0}
         /\ Records' = Records \cup {NextRecord}
         /\ NextRecord \notin Records /\ Below(Records, {NextRecord})
         /\ \A r \in Records : calls'[r] = calls[r]
         /\ calls'[NextRecord] = t
<1>1. /\ calls' \in Seq(Threads \cup {Main}) /\ Len(calls') = Len(calls) + 1
      /\ \A i \in 1..Len(calls) : calls'[i] = calls[i]
      /\ calls'[Len(calls) + 1] = t
  BY AppendProperties DEF LogTypeOK
<1>2. Len(calls) \in Nat
  BY LenProperties DEF LogTypeOK
<1>3. 1..Len(calls) + 1 = 1..Len(calls) \cup {Len(calls) + 1}
  BY <1>2
<1>4. Records' = Records \cup {NextRecord}
  BY <1>1, <1>3 DEF Records, NextRecord
<1>5. NextRecord \notin Records /\ Below(Records, {NextRecord}) /\ NextRecord \in Nat \ {0}
  BY <1>2 DEF Records, NextRecord, Below
<1> QED
  BY <1>1, <1>4, <1>5 DEF Records, NextRecord

\* What the console shows is in order and stays so when more is logged.
LEMMA ConsoleKept ==
  ASSUME LogTypeOK, PrintedInOrder, UNCHANGED console,
         \A r \in Records : calls'[r] = calls[r]
  PROVE  PrintedInOrder'
<1>1. \A j \in DOMAIN console : calls'[console[j]] = calls[console[j]]
  BY RecordFacts DEF Elems
<1> QED
  BY <1>1 DEF PrintedInOrder

\* One more record on the console, younger than the rest or main's own.
LEMMA ConsoleGrows ==
  ASSUME LogTypeOK, PrintedInOrder, UNCHANGED calls,
         NEW r \in Records, console' = Append(console, r),
         Below(Elems(console), {r}) \/ calls[r] = Main
  PROVE  PrintedInOrder'
<1>1. /\ Len(console') = Len(console) + 1 /\ Len(console) \in Nat
      /\ \A i \in 1..Len(console) : console'[i] = console[i]
      /\ console'[Len(console) + 1] = r
      /\ console' \in Seq(Records)
  BY AppendProperties, LenProperties DEF LogTypeOK
<1>2. DOMAIN console' = 1..Len(console) + 1 /\ DOMAIN console = 1..Len(console)
  BY <1>1, LenProperties DEF LogTypeOK
<1>3. Len(console) \in Nat
  BY <1>1
<1> SUFFICES ASSUME NEW i \in 1..Len(console) + 1, NEW j \in 1..Len(console) + 1, i < j
             PROVE  console'[i] < console'[j] \/ calls[console'[j]] = Main
  BY <1>2 DEF PrintedInOrder
<1>4. i \in 1..Len(console) /\ (j = Len(console) + 1 \/ j \in 1..Len(console))
  BY <1>3
<1>5. CASE j = Len(console) + 1
  <2>1. console'[i] \in Elems(console) /\ console'[j] = r
    BY <1>1, <1>2, <1>4, <1>5, Zenon DEF Elems
  <2> QED
    BY <2>1, Zenon DEF Below
<1>6. CASE j \in 1..Len(console)
  <2>1. console'[i] = console[i] /\ console'[j] = console[j]
    BY <1>1, <1>4, <1>6, Zenon
  <2> QED
    BY <2>1, <1>2, <1>4, <1>6, Zenon DEF PrintedInOrder
<1> QED
  BY <1>4, <1>5, <1>6

\* The counts, as far as they only move from one place to the next.
LEMMA CountsKept ==
  ASSUME DropsAreCounted, Missing' = Missing,
         (DROPPED + counted + reported + lostCount)' = DROPPED + counted + reported + lostCount
  PROVE  DropsAreCounted'
  BY DEF DropsAreCounted

-----------------------------------------------------------------------------
(* A call of log() on another thread.                                       *)

LEMMA ThreadLogsInv ==
  ASSUME LInv, NEW t \in Threads, ThreadLogs(t)
  PROVE  LInv'
<1>0. /\ LogTypeOK /\ DrainPhase /\ Places /\ DropsAreCounted /\ PrintedInOrder
      /\ UNCHANGED <<dpc, counted, batch, own, console, reported, lost, lostCount>>
      /\ calls' = Append(calls, t)
  BY DEF LInv, ThreadLogs, historyVars
<1>1. /\ calls' \in Seq(Threads \cup {Main})
      /\ NextRecord \in Nat \ {0} /\ Records' = Records \cup {NextRecord}
      /\ NextRecord \notin Records /\ Below(Records, {NextRecord})
      /\ \A r \in Records : calls'[r] = calls[r]
  BY <1>0, CallsGrow
<1>2. /\ Records \subseteq Nat \ {0} /\ queue \in Seq(Nat)
      /\ Elems(queue) \subseteq Records /\ Elems(batch) \subseteq Records
      /\ Elems(console) \subseteq Records /\ own \in Records \cup {0} /\ lost \subseteq Records
  BY <1>0, RecordFacts DEF LogTypeOK
<1>3. \E q \in Seq(Nat) :
        /\ queue' = Append(q, NextRecord) /\ Len(q) < QUEUE_CAPACITY
        /\ Elems(q) \subseteq Elems(queue) /\ Increasing(q)
        /\ \/ q = queue /\ DROPPED' = DROPPED
           \/ /\ queue # <<>> /\ DROPPED' = DROPPED + 1
              /\ Elems(queue) = Elems(q) \cup {Head(queue)} /\ Head(queue) \notin Elems(q)
  <2>1. CASE PushRecord
    <3>1. queue' = Append(queue, NextRecord) /\ Len(queue) < QUEUE_CAPACITY /\ DROPPED' = DROPPED
      BY <2>1 DEF PushRecord
    <3> QED
      BY <3>1, <1>0, <1>2 DEF Places
  <2>2. CASE DropOldest
    <3>1. /\ Len(queue) >= QUEUE_CAPACITY /\ queue' = Append(Tail(queue), NextRecord)
          /\ DROPPED' = DROPPED + 1
      BY <2>2 DEF DropOldest
    <3>2. queue # <<>> /\ Len(queue) \in Nat /\ Len(queue) <= QUEUE_CAPACITY
      BY <3>1, <1>0, <1>2, CapacityAssumption, EmptySeq, LenProperties DEF LogTypeOK
    <3>3. /\ Head(queue) \in Nat /\ Tail(queue) \in Seq(Nat) /\ Len(Tail(queue)) = Len(queue) - 1
          /\ Elems(queue) = {Head(queue)} \cup Elems(Tail(queue))
          /\ Increasing(Tail(queue)) /\ Below({Head(queue)}, Elems(Tail(queue)))
      BY <3>2, <1>0, <1>2, Popped DEF Places
    <3>4. Len(Tail(queue)) < QUEUE_CAPACITY
      BY <3>2, <3>3, CapacityAssumption
    <3>5. Head(queue) \notin Elems(Tail(queue))
      BY <3>3 DEF Below
    <3> QED
      BY <3>1, <3>2, <3>3, <3>4, <3>5
  <2> QED
    BY <2>1, <2>2 DEF ThreadLogs
<1>4. PICK q \in Seq(Nat) :
        /\ queue' = Append(q, NextRecord) /\ Len(q) < QUEUE_CAPACITY
        /\ Elems(q) \subseteq Elems(queue) /\ Increasing(q)
        /\ \/ q = queue /\ DROPPED' = DROPPED
           \/ /\ queue # <<>> /\ DROPPED' = DROPPED + 1
              /\ Elems(queue) = Elems(q) \cup {Head(queue)} /\ Head(queue) \notin Elems(q)
  BY <1>3
<1>5. /\ Elems(queue') = Elems(q) \cup {NextRecord}
      /\ queue' \in Seq(Nat) /\ Len(queue') = Len(q) + 1
      /\ Increasing(q) /\ Below(Elems(q), {NextRecord}) => Increasing(queue')
  BY <1>1, <1>4, Pushed
<1>6. Below(Elems(q), {NextRecord})
  BY <1>1, <1>2, <1>4 DEF Below
<1>7. LogTypeOK'
  <2>1. queue' \in Seq(Records')
    BY <1>1, <1>2, <1>4, <1>5, SeqOfElems
  <2>2. batch \in Seq(Records') /\ console \in Seq(Records')
    BY <1>0, <1>1, <1>2, SeqOfElems DEF LogTypeOK
  <2>3. Len(queue') <= QUEUE_CAPACITY
    <3>1. Len(q) \in Nat
      BY LenProperties
    <3> QED
      BY <3>1, <1>4, <1>5, CapacityAssumption
  <2>4. DROPPED' \in Nat
    BY <1>0, <1>4 DEF LogTypeOK
  <2> QED
    BY <2>1, <2>2, <2>3, <2>4, <1>0, <1>1 DEF LogTypeOK
<1>8. DrainPhase'
  BY <1>0, <1>1, <1>2 DEF DrainPhase
<1>9. Places'
  <2>1. Below(Elems(batch), Elems(queue'))
    BY <1>0, <1>1, <1>2, <1>4, <1>5 DEF Places, Below
  <2>2. Below(Elems(console), Elems(batch) \cup Elems(queue'))
    BY <1>0, <1>1, <1>2, <1>4, <1>5 DEF Places, Below
  <2>3. dpc \in {"render", "own"} => Below({own}, Elems(queue'))
    BY <1>0, <1>1, <1>2, <1>4, <1>5 DEF Places, Below
  <2>4. lost \cap Elems(queue') = {} /\ own \notin Elems(queue')
    BY <1>0, <1>1, <1>2, <1>4, <1>5 DEF Places
  <2> QED
    BY <2>1, <2>2, <2>3, <2>4, <1>0, <1>4, <1>5, <1>6 DEF Places
<1>10. DropsAreCounted'
  <2>1. Missing' = Records' \ (Elems(queue') \cup Elems(batch) \cup Elems(console) \cup lost \cup {own})
    BY <1>0 DEF Missing
  <2>2. CASE q = queue /\ DROPPED' = DROPPED
    <3>1. Missing' = Missing
      BY <2>1, <2>2, <1>1, <1>5 DEF Missing
    <3> QED
      BY <3>1, <2>2, <1>0, CountsKept
  <2>3. CASE /\ queue # <<>> /\ DROPPED' = DROPPED + 1
             /\ Elems(queue) = Elems(q) \cup {Head(queue)} /\ Head(queue) \notin Elems(q)
    <3>1. Head(queue) \in Elems(queue) /\ Head(queue) \in Records /\ Head(queue) # NextRecord
      BY <2>3, <1>1, <1>2
    <3>2. /\ Head(queue) \notin Elems(batch) /\ Head(queue) \notin Elems(console)
          /\ Head(queue) \notin lost /\ Head(queue) # own
      <4> DEFINE h == Head(queue)
      <4>0. h \in Records /\ h \in Elems(queue)
        BY <3>1
      <4> HIDE DEF h
      <4>1. h \in Nat /\ ~(h < h)
        <5>1. h \in Nat
          BY <4>0, <1>2, Zenon
        <5> QED
          BY <5>1
      <4>2. h \notin Elems(batch) /\ h \notin Elems(console)
        BY <4>0, <4>1, <1>0, Zenon DEF Places, Below
      <4>3. h \notin lost /\ h # own
        BY <4>0, <1>0, Zenon DEF Places
      <4> QED
        BY <4>2, <4>3 DEF h
    <3>3. Missing' = Missing \cup {Head(queue)} /\ Head(queue) \notin Missing
      BY <2>1, <2>3, <3>1, <3>2, <1>1, <1>5 DEF Missing
    <3>4. IsFiniteSet(Missing)
      <4>1. IsFiniteSet(Records)
        BY <1>0, RecordFacts, FS_Interval DEF Records
      <4> QED
        BY <4>1, FS_Subset DEF Missing
    <3>5. Cardinality(Missing') = Cardinality(Missing) + 1
      BY <3>3, <3>4, FS_AddElement
    <3> QED
      BY <3>5, <2>3, <1>0 DEF DropsAreCounted, LogTypeOK
  <2> QED
    BY <2>2, <2>3, <1>4
<1>11. PrintedInOrder'
  BY <1>0, <1>1, ConsoleKept
<1> QED
  BY <1>7, <1>8, <1>9, <1>10, <1>11 DEF LInv

-----------------------------------------------------------------------------
(* The main thread.                                                         *)

LEMMA MainLogsInv ==
  ASSUME LInv, MainLogs
  PROVE  LInv'
<1>0. /\ LogTypeOK /\ DrainPhase /\ Places /\ DropsAreCounted /\ PrintedInOrder
      /\ dpc = "idle" /\ dpc' = "swap" /\ own' = NextRecord
      /\ UNCHANGED <<queue, DROPPED, counted, batch, console, reported, lost, lostCount>>
      /\ calls' = Append(calls, Main)
  BY DEF LInv, MainLogs, historyVars
<1>1. /\ calls' \in Seq(Threads \cup {Main})
      /\ NextRecord \in Nat \ {0} /\ Records' = Records \cup {NextRecord}
      /\ NextRecord \notin Records
      /\ \A r \in Records : calls'[r] = calls[r]
      /\ calls'[NextRecord] = Main
  BY <1>0, CallsGrow
<1>2. /\ queue \in Seq(Nat) /\ batch \in Seq(Nat) /\ console \in Seq(Nat)
      /\ Elems(queue) \subseteq Records /\ Elems(batch) \subseteq Records
      /\ Elems(console) \subseteq Records /\ lost \subseteq Records /\ Records \subseteq Nat \ {0}
  BY <1>0, RecordFacts
<1>3. LogTypeOK'
  <2>1. queue \in Seq(Records') /\ batch \in Seq(Records') /\ console \in Seq(Records')
    BY <1>1, <1>2, SeqOfElems
  <2> QED
    BY <2>1, <1>0, <1>1 DEF LogTypeOK
<1>4. DrainPhase'
  BY <1>0, <1>1 DEF DrainPhase
<1>5. Places'
  BY <1>0, <1>1, <1>2 DEF Places
<1>6. Missing' = Missing
  <2>1. own = 0
    BY <1>0 DEF DrainPhase
  <2> QED
    BY <2>1, <1>0, <1>1, <1>2 DEF Missing
<1>7. DropsAreCounted'
  BY <1>0, <1>6, CountsKept
<1>8. PrintedInOrder'
  BY <1>0, <1>1, ConsoleKept
<1> QED
  BY <1>3, <1>4, <1>5, <1>7, <1>8 DEF LInv

\* The steps of the drain that move counts and the program counter only.
LEMMA CounterSteps ==
  ASSUME LInv, StartDrain \/ SwapDropped \/ RenderWarning \/ Drained
  PROVE  LInv'
<1>0. /\ LogTypeOK /\ DrainPhase /\ Places /\ DropsAreCounted /\ PrintedInOrder
      /\ UNCHANGED <<calls, queue, batch, own, console, lost, lostCount>>
  BY DEF LInv, StartDrain, SwapDropped, RenderWarning, Drained, historyVars
<1>a. DROPPED \in Nat /\ counted \in Nat /\ reported \in Nat /\ lostCount \in Nat
  BY <1>0 DEF LogTypeOK
<1>b. /\ \/ DROPPED' = DROPPED /\ counted' = counted /\ reported' = reported
         \/ DROPPED' = 0 /\ counted' = DROPPED /\ reported' = reported /\ counted = 0
         \/ DROPPED' = DROPPED /\ counted' = 0 /\ reported' = reported + counted
      /\ dpc' \in {"idle", "swap", "warn", "take", "render", "own"}
  BY <1>0, Zenon DEF DrainPhase, StartDrain, SwapDropped, RenderWarning, Drained, historyVars
<1>1. /\ DROPPED' \in Nat /\ counted' \in Nat /\ reported' \in Nat /\ lostCount' \in Nat
      /\ (DROPPED + counted + reported + lostCount)' = DROPPED + counted + reported + lostCount
      /\ dpc' \in {"idle", "swap", "warn", "take", "render", "own"}
  BY <1>0, <1>a, <1>b
<1>2. LogTypeOK'
  BY <1>0, <1>1 DEF LogTypeOK, Records
<1>3. DrainPhase'
  BY <1>0 DEF DrainPhase, StartDrain, SwapDropped, RenderWarning, Drained, LogTypeOK
<1>4. dpc' \in {"render", "own"} => dpc = "render"
  BY DEF StartDrain, SwapDropped, RenderWarning, Drained
<1>5. Places'
  BY <1>0, <1>4 DEF Places
<1>6. Missing' = Missing
  BY <1>0 DEF Missing, Records
<1>7. DropsAreCounted'
  BY <1>0, <1>1, <1>6, CountsKept
<1>8. PrintedInOrder'
  BY <1>0, ConsoleKept
<1> QED
  BY <1>2, <1>3, <1>5, <1>7, <1>8 DEF LInv

LEMMA TakeAllInv ==
  ASSUME LInv, TakeAll
  PROVE  LInv'
<1>0. /\ LogTypeOK /\ DrainPhase /\ Places /\ DropsAreCounted /\ PrintedInOrder
      /\ dpc = "take" /\ dpc' = "render" /\ batch' = queue /\ queue' = <<>>
      /\ UNCHANGED <<calls, DROPPED, counted, own, console, reported, lost, lostCount>>
  BY DEF LInv, TakeAll, historyVars
<1>1. batch = <<>> /\ Elems(batch) = {}
  BY <1>0, ElemsOfEmpty DEF DrainPhase
<1>2. LogTypeOK'
  <2>1. queue' \in Seq(Records) /\ Len(queue') = 0
    BY <1>0
  <2> QED
    BY <2>1, <1>0, CapacityAssumption DEF LogTypeOK, Records
<1>3. DrainPhase'
  BY <1>0 DEF DrainPhase
<1>4. Elems(queue') = {} /\ Increasing(queue')
  BY <1>0, ElemsOfEmpty
<1>5. Places'
  <2>1. Below(Elems(batch'), Elems(queue')) /\ Below({own}, Elems(queue'))
    BY <1>4 DEF Below
  <2>2. Elems(batch') \cup Elems(queue') = Elems(batch) \cup Elems(queue)
    BY <1>0, <1>1, <1>4
  <2> QED
    BY <2>1, <2>2, <1>0, <1>4 DEF Places
<1>6. Missing' = Missing
  BY <1>0, <1>1, <1>4 DEF Missing, Records
<1>7. DropsAreCounted'
  BY <1>0, <1>6, CountsKept
<1>8. PrintedInOrder'
  BY <1>0, ConsoleKept
<1> QED
  BY <1>2, <1>3, <1>5, <1>7, <1>8 DEF LInv

\* render: the record is on the console, or skipped.
LEMMA RenderPlaces ==
  ASSUME LogTypeOK, PrintedInOrder, UNCHANGED calls, NEW r \in Records, Render(r),
         Below(Elems(console), {r}) \/ calls[r] = Main
  PROVE  /\ PrintedInOrder'
         /\ console' \in Seq(Records) /\ lost' \subseteq Records
         /\ lost \subseteq lost' /\ lost' \subseteq lost \cup {r}
         /\ Elems(console) \subseteq Elems(console') /\ Elems(console') \subseteq Elems(console) \cup {r}
         /\ r \in Elems(console') \cup lost'
<1>0. /\ lost \subseteq Records /\ console \in Seq(Nat) /\ r \in Nat
      /\ Elems(console) \subseteq Records
  BY RecordFacts
<1>1. CASE r \in HasNul
  <2>1. lost' = lost \cup {r} /\ console' = console
    BY <1>1 DEF Render
  <2>2. PrintedInOrder'
    BY <2>1, ConsoleKept
  <2> QED
    BY <2>1, <2>2, <1>0 DEF LogTypeOK
<1>2. CASE r \notin HasNul
  <2>1. lost' = lost /\ console' = Append(console, r)
    BY <1>2 DEF Render
  <2>2. PrintedInOrder'
    BY <2>1, ConsoleGrows
  <2>3. Elems(console') = Elems(console) \cup {r} /\ console' \in Seq(Nat)
    BY <2>1, <1>0, Pushed
  <2>4. console' \in Seq(Records)
    BY <2>3, <1>0, SeqOfElems
  <2> QED
    BY <2>1, <2>2, <2>3, <2>4, <1>0
<1> QED
  BY <1>1, <1>2

LEMMA RenderNextInv ==
  ASSUME LInv, RenderNext
  PROVE  LInv'
<1> DEFINE r == Head(batch)
<1>0. /\ LogTypeOK /\ DrainPhase /\ Places /\ DropsAreCounted /\ PrintedInOrder
      /\ dpc = "render" /\ batch # <<>> /\ Render(r) /\ batch' = Tail(batch)
      /\ UNCHANGED <<calls, queue, DROPPED, dpc, counted, own, reported, lostCount>>
  BY DEF LInv, RenderNext
<1>1. /\ r \in Nat /\ Tail(batch) \in Seq(Nat)
      /\ Elems(batch) = {r} \cup Elems(batch')
      /\ Increasing(batch') /\ Below({r}, Elems(batch'))
      /\ Elems(batch) \subseteq Records
  BY <1>0, RecordFacts, Popped DEF Places
<1> HIDE DEF r
<1>2. r \in Records
  BY <1>1
<1>3. Below(Elems(console), {r})
  BY <1>0, <1>1 DEF Places, Below
<1>4. /\ PrintedInOrder'
      /\ console' \in Seq(Records) /\ lost' \subseteq Records
      /\ lost \subseteq lost' /\ lost' \subseteq lost \cup {r}
      /\ Elems(console) \subseteq Elems(console') /\ Elems(console') \subseteq Elems(console) \cup {r}
      /\ r \in Elems(console') \cup lost'
  BY <1>0, <1>2, <1>3, RenderPlaces
<1>5. LogTypeOK'
  <2>1. batch' \in Seq(Records)
    BY <1>0, <1>1, SeqOfElems
  <2> QED
    BY <2>1, <1>0, <1>4 DEF LogTypeOK, Records
<1>6. DrainPhase'
  BY <1>0 DEF DrainPhase
<1>7. Below({r}, Elems(queue)) /\ r \notin Elems(queue)
  <2>1. Below({r}, Elems(queue))
    BY <1>0, <1>1 DEF Places, Below
  <2>2. ~(r < r)
    BY <1>1
  <2> QED
    BY <2>1, <2>2, Zenon DEF Below
<1>8. Places'
  <2>1. Below(Elems(batch'), Elems(queue))
    BY <1>0, <1>1 DEF Places, Below
  <2>2. Below(Elems(console'), Elems(batch') \cup Elems(queue))
    BY <1>0, <1>1, <1>4, <1>7, Zenon DEF Places, Below
  <2>3. lost' \cap Elems(queue) = {}
    BY <1>0, <1>4, <1>7 DEF Places
  <2> QED
    BY <2>1, <2>2, <2>3, <1>0, <1>1 DEF Places
<1>9. Missing' = Missing
  BY <1>0, <1>1, <1>4 DEF Missing, Records
<1>10. DropsAreCounted'
  BY <1>0, <1>9, CountsKept
<1> QED
  BY <1>4, <1>5, <1>6, <1>8, <1>10 DEF LInv

LEMMA RenderOwnInv ==
  ASSUME LInv, RenderOwn
  PROVE  LInv'
<1>0. /\ LogTypeOK /\ DrainPhase /\ Places /\ DropsAreCounted /\ PrintedInOrder
      /\ dpc = "own" /\ dpc' = "idle" /\ own' = 0 /\ Render(own)
      /\ UNCHANGED <<calls, queue, DROPPED, counted, batch, reported, lostCount>>
  BY DEF LInv, RenderOwn
<1>1. batch = <<>> /\ Elems(batch) = {}
  BY <1>0, ElemsOfEmpty DEF DrainPhase
<1>2. /\ own \in Records /\ own # 0 /\ calls[own] = Main
      /\ Records \subseteq Nat \ {0} /\ Elems(queue) \subseteq Records
  BY <1>0, RecordFacts DEF LogTypeOK, DrainPhase
<1>3. /\ PrintedInOrder'
      /\ console' \in Seq(Records) /\ lost' \subseteq Records
      /\ lost \subseteq lost' /\ lost' \subseteq lost \cup {own}
      /\ Elems(console) \subseteq Elems(console') /\ Elems(console') \subseteq Elems(console) \cup {own}
      /\ own \in Elems(console') \cup lost'
  BY <1>0, <1>2, RenderPlaces
<1>4. LogTypeOK'
  BY <1>0, <1>3 DEF LogTypeOK, Records
<1>5. DrainPhase'
  BY <1>0, <1>1 DEF DrainPhase
<1>6. Places'
  <2>1. Below({own}, Elems(queue)) /\ own \notin Elems(queue)
    BY <1>0 DEF Places
  <2>2. Below(Elems(console'), Elems(batch) \cup Elems(queue))
    BY <2>1, <1>0, <1>1, <1>3 DEF Places, Below
  <2>3. lost' \cap Elems(queue) = {} /\ 0 \notin Elems(queue)
    BY <2>1, <1>0, <1>2, <1>3 DEF Places
  <2> QED
    BY <2>2, <2>3, <1>0 DEF Places
<1>7. Missing' = Missing
  BY <1>0, <1>2, <1>3 DEF Missing, Records
<1>8. DropsAreCounted'
  BY <1>0, <1>7, CountsKept
<1> QED
  BY <1>3, <1>4, <1>5, <1>6, <1>8 DEF LInv

LEMMA RenderFailsInv ==
  ASSUME LInv, RenderFails
  PROVE  LInv'
<1>0. /\ LogTypeOK /\ DrainPhase /\ Places /\ DropsAreCounted /\ PrintedInOrder
      /\ dpc \in {"warn", "render", "own"}
      /\ lost' = lost \cup Elems(batch) \cup ({own} \ {0})
      /\ lostCount' = lostCount + counted /\ counted' = 0
      /\ batch' = <<>> /\ own' = 0 /\ dpc' = "idle"
      /\ UNCHANGED <<calls, queue, DROPPED, console, reported>>
  BY DEF LInv, RenderFails
<1>1. /\ own \in Records \cup {0} /\ Records \subseteq Nat \ {0} /\ Elems(queue) \subseteq Records
      /\ Elems(batch) \subseteq Records
  BY <1>0, RecordFacts DEF LogTypeOK
<1>2. Elems(batch') = {} /\ Increasing(batch')
  BY <1>0, ElemsOfEmpty
<1>3. LogTypeOK'
  <2>1. batch' \in Seq(Records)
    BY <1>0
  <2>2. lost' \subseteq Records
    BY <1>0, <1>1 DEF LogTypeOK
  <2>3. lostCount' \in Nat /\ counted' \in Nat
    <3>1. lostCount \in Nat /\ counted \in Nat
      BY <1>0 DEF LogTypeOK
    <3> QED
      BY <3>1, <1>0
  <2> QED
    BY <2>1, <2>2, <2>3, <1>0 DEF LogTypeOK, Records
<1>4. DrainPhase'
  BY <1>0 DEF DrainPhase
<1>5. Elems(batch) \cap Elems(queue) = {}
  <2>1. ASSUME NEW m \in Elems(batch), m \in Elems(queue)
        PROVE  FALSE
    <3>1. m < m /\ m \in Nat
      BY <2>1, <1>0, <1>1 DEF Places, Below
    <3> QED
      BY <3>1
  <2> QED
    BY <2>1
<1>6. Places'
  <2>1. lost' \cap Elems(queue) = {} /\ 0 \notin Elems(queue)
    BY <1>0, <1>1, <1>5 DEF Places
  <2>2. Below(Elems(batch'), Elems(queue))
        /\ Below(Elems(console), Elems(batch') \cup Elems(queue))
    BY <1>0, <1>2 DEF Places, Below
  <2> QED
    BY <2>1, <2>2, <1>0, <1>2 DEF Places
<1>7. Missing' = Missing
  BY <1>0, <1>1, <1>2 DEF Missing, Records
<1>8. (DROPPED + counted + reported + lostCount)' = DROPPED + counted + reported + lostCount
  BY <1>0 DEF LogTypeOK
<1>9. DropsAreCounted'
  BY <1>0, <1>7, <1>8, CountsKept
<1>10. PrintedInOrder'
  BY <1>0, ConsoleKept
<1> QED
  BY <1>3, <1>4, <1>6, <1>9, <1>10 DEF LInv

-----------------------------------------------------------------------------

LEMMA InitLInv == LogInit => LInv
<1> SUFFICES ASSUME LogInit PROVE LInv
  OBVIOUS
<1>1. /\ Elems(queue) = {} /\ Elems(batch) = {} /\ Elems(console) = {}
      /\ Increasing(queue) /\ Increasing(batch) /\ Records = {}
  BY ElemsOfEmpty DEF LogInit, Records
<1>2. LogTypeOK
  BY <1>1, CapacityAssumption DEF LogInit, LogTypeOK
<1>3. DrainPhase /\ Places
  BY <1>1 DEF LogInit, DrainPhase, Places, Below
<1>4. DropsAreCounted
  <2>1. Missing = {}
    BY <1>1 DEF Missing
  <2> QED
    BY <2>1, FS_EmptySet DEF DropsAreCounted, LogInit
<1>5. PrintedInOrder
  BY DEF PrintedInOrder, LogInit
<1> QED
  BY <1>2, <1>3, <1>4, <1>5 DEF LInv

LEMMA StutterLInv ==
  ASSUME LInv, UNCHANGED logVars
  PROVE  LInv'
<1>1. UNCHANGED <<calls, queue, DROPPED, dpc, counted, batch, own, console,
                  reported, lost, lostCount>>
  BY DEF logVars, historyVars
<1> QED
  BY <1>1 DEF LInv, LogTypeOK, Records, DrainPhase, Places, DropsAreCounted, Missing,
              PrintedInOrder

\* The inductive invariant of the log queue.
THEOREM LogInvariance == LogSpec => []LInv
<1>1. LogInit => LInv
  BY InitLInv
<1>2. LInv /\ [LogNext]_logVars => LInv'
  <2> SUFFICES ASSUME LInv, [LogNext]_logVars PROVE LInv'
    OBVIOUS
  <2>1. ASSUME NEW t \in Threads, ThreadLogs(t)
        PROVE  LInv'
    BY <2>1, ThreadLogsInv
  <2>2. CASE MainLogs
    BY <2>2, MainLogsInv
  <2>3. CASE StartDrain \/ SwapDropped \/ RenderWarning \/ Drained
    BY <2>3, CounterSteps
  <2>4. CASE TakeAll
    BY <2>4, TakeAllInv
  <2>5. CASE RenderNext
    BY <2>5, RenderNextInv
  <2>6. CASE RenderOwn
    BY <2>6, RenderOwnInv
  <2>7. CASE RenderFails
    BY <2>7, RenderFailsInv
  <2>8. CASE UNCHANGED logVars
    BY <2>8, StutterLInv
  <2> QED
    BY <2>1, <2>2, <2>3, <2>4, <2>5, <2>6, <2>7, <2>8 DEF LogNext, DrainStep
<1> QED
  BY <1>1, <1>2, PTL DEF LogSpec

\* Whatever is pushed out of a full queue is counted once, though the count is
\* swapped out and the queue taken in two steps.
THEOREM LogDropsAreCounted == LogSpec => []DropsAreCounted
<1>1. LInv => DropsAreCounted
  BY DEF LInv
<1> QED
  BY <1>1, LogInvariance, PTL

\* The console never shows a record of another thread after a later one.
THEOREM LogPrintedInOrder == LogSpec => []PrintedInOrder
<1>1. LInv => PrintedInOrder
  BY DEF LInv
<1> QED
  BY <1>1, LogInvariance, PTL

-----------------------------------------------------------------------------
(* The worker pump.                                                         *)

\* The pump's steps on the log queue are the log queue's own steps.
LEMMA StepImplementsLog == [Next]_vars => [LogNext]_logVars
<1> SUFFICES ASSUME [Next]_vars PROVE [LogNext]_logVars
  OBVIOUS
<1>1. ASSUME NEW r \in Runs, WorkerStep(r)
      PROVE  UNCHANGED logVars
  BY <1>1 DEF WorkerStep, BeginSend, SendReturnsOk, SendReturnsErr, WorkerEnds
<1>2. CASE OthersLog \/ PumpLogs
  BY <1>2 DEF OthersLog, PumpLogs, LogNext
<1>3. CASE Spawn
  BY <1>3 DEF Spawn
<1>4. CASE Tick \/ Exit
  BY <1>4 DEF Tick, Exit, LogNext
<1>5. CASE DrainGoesOn \/ DrainRError
  BY <1>5 DEF DrainGoesOn, DrainRError, LogNext
<1>6. CASE Receive \/ PumpReturns \/ PumpPanics \/ PumpRError \/ Disconnected \/ Join \/ Leave
  BY <1>6 DEF Receive, PumpReturns, PumpPanics, PumpRError, Disconnected, Join, Leave
<1>7. CASE UNCHANGED vars
  BY <1>7 DEF vars
<1> QED
  BY <1>1, <1>2, <1>3, <1>4, <1>5, <1>6, <1>7 DEF Next, MainStep

\* The pump implements the log queue: every step of a run is a step of the
\* logger or leaves its state alone.
THEOREM PumpImplementsLogQueue == Spec => LogSpec
<1>1. Init => LogInit
  BY DEF Init
<1> QED
  BY <1>1, StepImplementsLog, PTL DEF Spec, LogSpec

\* A pump keeps the log queue's inductive invariant.
THEOREM PumpLogInvariance == Spec => []LInv
  BY PumpImplementsLogQueue, LogInvariance, PTL

\* Under a pump every dropped record is counted.
THEOREM PumpDropsAreCounted == Spec => []DropsAreCounted
  BY PumpImplementsLogQueue, LogDropsAreCounted, PTL

\* Under a pump the console shows records in the order of the calls of log().
THEOREM PumpPrintsInOrder == Spec => []PrintedInOrder
  BY PumpImplementsLogQueue, LogPrintedInOrder, PTL

-----------------------------------------------------------------------------
(* Where main is in a run, and what it has in hand.                         *)

InHand(r) == IF r = run /\ mpc \in {"tick", "ticking", "pump"} THEN 1 ELSE 0

\* Main drains only in a tick, in the pump closure's log() and on the way out.
PumpPhase ==
  /\ run \in Runs \cup {0}
  /\ mpc \in {"out", "recv", "tick", "ticking", "pump", "join", "exit", "exiting"}
  /\ leaving \in {"ok", "err", "panic", "jump"}
  /\ mpc \in {"out", "recv", "tick", "join", "exit"} => dpc = "idle"
  /\ mpc = "ticking" => dpc # "idle" /\ own = 0
  /\ mpc # "out" => run \in Runs /\ result[run] = "none"

\* Functions on the runs.
RunTypes ==
  /\ wpc \in [Runs -> Ended \cup {"none", "running", "sending"}]
  /\ rx \in [Runs -> {"open", "dropped"}]
  /\ chan \in [Runs -> Seq(Message)] /\ offer \in [Runs -> Message] /\ msg \in Message
  /\ capacity \in [Runs -> Nat]
  /\ accepted \in [Runs -> Nat] /\ pumped \in [Runs -> Nat] /\ tries \in [Runs -> 0..MaxSends]
  /\ result \in [Runs -> {"none", "ok", "err", "panic", "jump"}]

\* A run that has not begun has touched nothing.
Future ==
  \A r \in Runs : r > run =>
     /\ wpc[r] = "none" /\ result[r] = "none" /\ rx[r] = "open"
     /\ chan[r] = <<>> /\ accepted[r] = 0 /\ pumped[r] = 0

\* The loop ended by itself: everything sent was pumped, and no send succeeds.
AllPumped(r) == accepted[r] = pumped[r] /\ rx[r] = "dropped"

\* Each message whose send succeeded is pumped, in the pump's hands or in the
\* channel, until a panic or an R error drops the rest.
Accounts ==
  /\ mpc \in {"recv", "tick", "ticking", "pump"} =>
       accepted[run] = pumped[run] + Len(chan[run]) + InHand(run)
  /\ mpc = "join" => leaving \in {"ok", "panic"}
  /\ mpc = "join" /\ leaving = "ok" => AllPumped(run)
  /\ mpc \in {"exit", "exiting"} /\ leaving \in {"ok", "err"} => AllPumped(run)
  /\ mpc \in {"exit", "exiting"} /\ leaving # "jump" => wpc[run] \in Ended
  /\ mpc \in {"exit", "exiting"} /\ leaving = "ok" => wpc[run] = "ok"
  /\ \A r \in Runs :
       /\ result[r] \in {"ok", "err"} => AllPumped(r)
       /\ result[r] \in {"ok", "err", "panic"} => wpc[r] \in Ended
       /\ result[r] = "ok" => wpc[r] = "ok"

RunInv == PumpPhase /\ RunTypes /\ Future /\ Accounts

LEMMA InitRunInv == Init => RunInv
<1> SUFFICES ASSUME Init PROVE RunInv
  OBVIOUS
<1>1. PumpPhase
  BY DEF Init, LogInit, PumpPhase
<1>2. RunTypes
  <2>1. NoMessage \in Message
    BY PumpAssumption, MaxCallsAssumption DEF NoMessage, Message
  <2> QED
    BY <2>1, PumpAssumption DEF Init, RunTypes
<1>3. Future /\ Accounts
  BY DEF Init, Future, Accounts, Ended
<1> QED
  BY <1>1, <1>2, <1>3 DEF RunInv

\* The worker's steps.
LEMMA WorkerRunInv ==
  ASSUME RunInv, LInv, NEW r \in Runs, WorkerStep(r), Len(calls) <= MaxCalls
  PROVE  RunInv'
<1>0. /\ UNCHANGED <<run, capacity, ticks, mpc, msg, leaving, rx, pumped, result>>
      /\ UNCHANGED <<dpc, own>>
  BY DEF WorkerStep, BeginSend, SendReturnsOk, SendReturnsErr, WorkerEnds, mainVars,
         callVars, logVars
<1>t. RunTypes /\ PumpPhase /\ Future /\ Accounts
  BY DEF RunInv
<1>1. PumpPhase'
  BY <1>0, <1>t DEF PumpPhase
<1>2. CASE BeginSend(r)
  <2>1. /\ wpc[r] = "running" /\ tries[r] < MaxSends /\ tries' = [tries EXCEPT ![r] = @ + 1]
        /\ offer' = [offer EXCEPT ![r] = [n |-> tries[r] + 1, logged |-> Len(calls)]]
        /\ wpc' = [wpc EXCEPT ![r] = "sending"] /\ UNCHANGED <<chan, accepted>>
    BY <1>2 DEF BeginSend
  <2>2. tries[r] + 1 \in 0..MaxSends
    BY <2>1, <1>t, PumpAssumption DEF RunTypes
  <2>3. Len(calls) \in 0..MaxCalls
    BY RecordFacts, MaxCallsAssumption DEF LInv
  <2>4. [n |-> tries[r] + 1, logged |-> Len(calls)] \in Message
    BY <2>2, <2>3 DEF Message
  <2>5. RunTypes'
    BY <2>1, <2>2, <2>4, <1>0, <1>t DEF RunTypes
  <2>6. Future' /\ Accounts'
    BY <2>1, <1>0, <1>t DEF RunTypes, Future, Accounts, AllPumped, InHand, Ended
  <2> QED
    BY <1>1, <2>5, <2>6 DEF RunInv
<1>3. CASE SendReturnsOk(r)
  <2>1. /\ wpc[r] = "sending" /\ rx[r] = "open"
        /\ chan' = [chan EXCEPT ![r] = Append(@, offer[r])]
        /\ offer' = [offer EXCEPT ![r] = NoMessage]
        /\ accepted' = [accepted EXCEPT ![r] = @ + 1]
        /\ wpc' = [wpc EXCEPT ![r] = "running"] /\ UNCHANGED tries
    BY <1>3 DEF SendReturnsOk
  <2>2. /\ Append(chan[r], offer[r]) \in Seq(Message)
        /\ Len(Append(chan[r], offer[r])) = Len(chan[r]) + 1 /\ Len(chan[r]) \in Nat
    BY <1>t, AppendProperties, LenProperties DEF RunTypes
  <2>3. NoMessage \in Message
    BY PumpAssumption, MaxCallsAssumption DEF NoMessage, Message
  <2>4. RunTypes'
    BY <2>1, <2>2, <2>3, <1>0, <1>t DEF RunTypes
  <2>5. Future'
    BY <2>1, <1>0, <1>t DEF RunTypes, Future
  <2>6. /\ chan'[r] = Append(chan[r], offer[r]) /\ accepted'[r] = accepted[r] + 1
        /\ accepted[r] \in Nat /\ pumped[r] \in Nat
        /\ \A q \in Runs : q # r => chan'[q] = chan[q] /\ accepted'[q] = accepted[q] /\ wpc'[q] = wpc[q]
    BY <2>1, <1>t DEF RunTypes
  <2>7. InHand(run)' = InHand(run) /\ InHand(run) \in Nat
    BY <1>0 DEF InHand
  <2>8. mpc \in {"recv", "tick", "ticking", "pump"} =>
          accepted'[run] = pumped[run] + Len(chan'[run]) + InHand(run)
    <3>1. CASE run = r
      BY <3>1, <2>2, <2>6, <2>7, <1>t DEF Accounts
    <3>2. CASE run # r
      BY <3>2, <2>6, <2>7, <1>t DEF Accounts, PumpPhase
    <3> QED
      BY <3>1, <3>2
  <2>9. \A q \in Runs : AllPumped(q) => AllPumped(q)'
    BY <2>1, <2>6, <1>0 DEF AllPumped
  <2>10. \A q \in Runs : wpc[q] \in Ended => wpc'[q] = wpc[q]
    BY <2>1, <2>6 DEF Ended
  <2>11. mpc # "out" => run \in Runs
    BY <1>t DEF PumpPhase
  <2>12. "ok" \in Ended
    BY DEF Ended
  <2>13. Accounts'
    <3>1. mpc \in {"recv", "tick", "ticking", "pump"} =>
            (accepted[run] = pumped[run] + Len(chan[run]) + InHand(run))'
      BY <2>8, <2>7, <1>0
    <3> QED
      BY <3>1, <2>9, <2>10, <2>11, <2>12, <1>0, <1>t DEF Accounts, AllPumped
  <2> QED
    BY <1>1, <2>4, <2>5, <2>13 DEF RunInv
<1>4. CASE SendReturnsErr(r)
  <2>1. /\ wpc[r] = "sending" /\ offer' = [offer EXCEPT ![r] = NoMessage]
        /\ wpc' = [wpc EXCEPT ![r] = "running"] /\ UNCHANGED <<chan, tries, accepted>>
    BY <1>4 DEF SendReturnsErr
  <2>2. NoMessage \in Message
    BY PumpAssumption, MaxCallsAssumption DEF NoMessage, Message
  <2>3. RunTypes'
    BY <2>1, <2>2, <1>0, <1>t DEF RunTypes
  <2>4. Future' /\ Accounts'
    BY <2>1, <1>0, <1>t DEF RunTypes, Future, Accounts, AllPumped, InHand, Ended
  <2> QED
    BY <1>1, <2>3, <2>4 DEF RunInv
<1>5. CASE WorkerEnds(r)
  <2>1. /\ wpc[r] = "running" /\ \E how \in Ended : wpc' = [wpc EXCEPT ![r] = how]
        /\ UNCHANGED <<offer, chan, tries, accepted>>
    BY <1>5 DEF WorkerEnds
  <2>2. RunTypes'
    BY <2>1, <1>0, <1>t DEF RunTypes
  <2>3. Future' /\ Accounts'
    BY <2>1, <1>0, <1>t DEF RunTypes, Future, Accounts, AllPumped, InHand, Ended
  <2> QED
    BY <1>1, <2>2, <2>3 DEF RunInv
<1> QED
  BY <1>2, <1>3, <1>4, <1>5 DEF WorkerStep

\* The steps of main that take no message and leave no loop: the drain, and
\* what the pump closure logs.
LEMMA QuietRunInv ==
  ASSUME RunInv, LInv, Tick \/ DrainGoesOn \/ PumpLogs \/ Exit \/ OthersLog
  PROVE  RunInv'
<1>t. RunTypes /\ PumpPhase /\ Future /\ Accounts
  BY DEF RunInv
<1>0. UNCHANGED <<run, capacity, msg, leaving, rx, pumped, result, wpc, offer, chan, tries, accepted>>
  BY DEF Tick, DrainGoesOn, PumpLogs, Exit, OthersLog, callVars, workerVars, pumpVars
<1>1. \/ mpc' = mpc \/ (mpc = "tick" /\ mpc' = "ticking")
      \/ (mpc = "ticking" /\ mpc' = "pump") \/ (mpc = "exit" /\ mpc' = "exiting")
  BY DEF Tick, DrainGoesOn, PumpLogs, Exit, OthersLog, pumpVars
<1>2. PumpPhase'
  <2>1. /\ mpc' \in {"out", "recv", "tick", "join", "exit"} => dpc' = "idle"
        /\ mpc' = "ticking" => dpc' # "idle" /\ own' = 0
    <3>1. CASE Tick \/ Exit
      BY <3>1, <1>t DEF Tick, Exit, StartDrain, PumpPhase, LInv, DrainPhase
    <3>2. CASE PumpLogs
      BY <3>2, <1>0 DEF PumpLogs, pumpVars
    <3>3. CASE OthersLog
      BY <3>3, <1>t DEF OthersLog, ThreadLogs, pumpVars, PumpPhase
    <3>4. CASE DrainGoesOn
      <4>1. dpc # "idle" /\ (own = 0 => own' = 0)
        BY <3>4 DEF DrainGoesOn, DrainStep, SwapDropped, RenderWarning, TakeAll, RenderNext,
                    Drained, RenderOwn
      <4> QED
        BY <4>1, <3>4, <1>t DEF DrainGoesOn, PumpPhase
    <3> QED
      BY <3>1, <3>2, <3>3, <3>4
  <2> QED
    BY <2>1, <1>0, <1>1, <1>t DEF PumpPhase
<1>3. RunTypes'
  BY <1>0, <1>t DEF RunTypes
<1>4. Future'
  BY <1>0, <1>t DEF Future
<1>5. Accounts'
  BY <1>0, <1>1, <1>t DEF Accounts, AllPumped, InHand
<1> QED
  BY <1>2, <1>3, <1>4, <1>5 DEF RunInv

\* main makes the call, takes a message and pumps it.
LEMMA LoopRunInv ==
  ASSUME RunInv, LInv, Spawn \/ Receive \/ PumpReturns
  PROVE  RunInv'
<1>t. RunTypes /\ PumpPhase /\ Future /\ Accounts
  BY DEF RunInv
<1>m. NoMessage \in Message
  BY PumpAssumption, MaxCallsAssumption DEF NoMessage, Message
<1>1. CASE Spawn
  <2>1. /\ mpc = "out" /\ run + 1 \in Runs /\ run' = run + 1 /\ mpc' = "recv"
        /\ \E c \in Capacities : capacity' = [capacity EXCEPT ![run + 1] = c]
        /\ wpc' = [wpc EXCEPT ![run + 1] = "running"]
        /\ UNCHANGED <<dpc, own, msg, leaving, offer, chan, rx, tries, accepted, pumped, result>>
    BY <1>1 DEF Spawn, logVars
  <2>2. run \in Nat /\ run < run + 1
    BY <1>t DEF PumpPhase, Runs
  <2>3. /\ wpc[run + 1] = "none" /\ result[run + 1] = "none" /\ chan[run + 1] = <<>>
        /\ accepted[run + 1] = 0 /\ pumped[run + 1] = 0
    BY <2>1, <2>2, <1>t DEF Future
  <2>4. PumpPhase'
    BY <2>1, <2>3, <1>t DEF PumpPhase
  <2>5. RunTypes'
    BY <2>1, <1>t, PumpAssumption DEF RunTypes
  <2>6. Future'
    BY <2>1, <2>2, <1>t DEF RunTypes, Future, Runs
  <2>7. Len(chan[run + 1]) = 0
    BY <2>3
  <2>8. Accounts'
    <3>1. \A r \in Runs : result[r] # "none" => r # run + 1
      BY <2>3
    <3> QED
      BY <3>1, <2>1, <2>3, <2>7, <1>t DEF RunTypes, Accounts, AllPumped, InHand
  <2> QED
    BY <2>4, <2>5, <2>6, <2>8 DEF RunInv
<1>2. CASE Receive
  <2>1. /\ mpc = "recv" /\ chan[run] # <<>> /\ msg' = Head(chan[run])
        /\ chan' = [chan EXCEPT ![run] = Tail(@)]
        /\ mpc' \in {"tick", "pump"} /\ (mpc' = "tick" => dpc = "idle")
        /\ UNCHANGED <<dpc, own, run, capacity, leaving, wpc, offer, rx, tries, accepted, pumped, result>>
    BY <1>2, <1>t DEF Receive, logVars, callVars, PumpPhase
  <2>2. run \in Runs /\ result[run] = "none"
    BY <2>1, <1>t DEF PumpPhase
  <2>3. /\ Head(chan[run]) \in Message /\ Tail(chan[run]) \in Seq(Message)
        /\ Len(Tail(chan[run])) = Len(chan[run]) - 1 /\ Len(chan[run]) \in Nat
    BY <2>1, <2>2, <1>t, HeadTailProperties, LenProperties DEF RunTypes
  <2>4. PumpPhase'
    BY <2>1, <2>2, <1>t DEF PumpPhase
  <2>5. RunTypes'
    BY <2>1, <2>3, <1>t DEF RunTypes
  <2>6. Future'
    BY <2>1, <2>2, <1>t DEF RunTypes, Future, Runs
  <2>7. chan'[run] = Tail(chan[run])
    BY <2>1, <2>2, <1>t DEF RunTypes
  <2>8. accepted[run] = pumped[run] + Len(chan'[run]) + 1
    <3>1. accepted[run] = pumped[run] + Len(chan[run])
          /\ accepted[run] \in Nat /\ pumped[run] \in Nat
      BY <2>1, <2>2, <2>3, <1>t DEF RunTypes, Accounts, InHand
    <3> QED
      BY <3>1, <2>3, <2>7
  <2>9. Accounts'
    BY <2>1, <2>8, <1>t DEF Accounts, AllPumped, InHand
  <2> QED
    BY <2>4, <2>5, <2>6, <2>9 DEF RunInv
<1>3. CASE PumpReturns
  <2>1. /\ mpc = "pump" /\ dpc = "idle" /\ mpc' = "recv"
        /\ pumped' = [pumped EXCEPT ![run] = @ + 1] /\ msg' = NoMessage
        /\ UNCHANGED <<dpc, own, run, capacity, leaving, rx, result, wpc, offer, chan, tries, accepted>>
    BY <1>3 DEF PumpReturns, logVars, callVars, workerVars
  <2>2. run \in Runs /\ result[run] = "none"
    BY <2>1, <1>t DEF PumpPhase
  <2>3. PumpPhase'
    BY <2>1, <2>2, <1>t DEF PumpPhase
  <2>4. RunTypes'
    <3>1. pumped[run] + 1 \in Nat /\ pumped \in [Runs -> Nat]
      BY <2>2, <1>t DEF RunTypes
    <3>2. pumped' \in [Runs -> Nat]
      BY <3>1, <2>1
    <3> QED
      BY <3>2, <2>1, <1>m, <1>t DEF RunTypes
  <2>5. Future'
    BY <2>1, <2>2, <1>t DEF RunTypes, Future, Runs
  <2>6. /\ pumped'[run] = pumped[run] + 1 /\ \A r \in Runs : r # run => pumped'[r] = pumped[r]
    BY <2>1, <2>2, <1>t DEF RunTypes
  <2>7. accepted[run] = pumped'[run] + Len(chan[run])
    <3>1. /\ accepted[run] = pumped[run] + Len(chan[run]) + 1
          /\ accepted[run] \in Nat /\ pumped[run] \in Nat /\ Len(chan[run]) \in Nat
      BY <2>1, <2>2, <1>t, LenProperties DEF RunTypes, Accounts, InHand
    <3> QED
      BY <3>1, <2>6
  <2>8. pumped'[run] \in Nat /\ Len(chan[run]) \in Nat
    BY <2>2, <2>4, <1>t, LenProperties DEF RunTypes
  <2>9. Accounts'
    BY <2>1, <2>2, <2>6, <2>7, <2>8, <1>t DEF Accounts, AllPumped, InHand
  <2> QED
    BY <2>3, <2>4, <2>5, <2>9 DEF RunInv
<1> QED
  BY <1>1, <1>2, <1>3

\* main leaves the loop: the worker is done, the closure panics, R jumps.
LEMMA ExitRunInv ==
  ASSUME RunInv, LInv,
         PumpPanics \/ PumpRError \/ DrainRError \/ Disconnected \/ Join \/ Leave
  PROVE  RunInv'
<1>t. RunTypes /\ PumpPhase /\ Future /\ Accounts
  BY DEF RunInv
<1>m. NoMessage \in Message
  BY PumpAssumption, MaxCallsAssumption DEF NoMessage, Message
<1>0. /\ UNCHANGED <<run, capacity, pumped, wpc, offer, chan, tries, accepted>>
      /\ mpc # "out"
  <2>1. CASE DrainRError
    <3>1. dpc # "idle"
      BY <2>1 DEF DrainRError, RenderFails
    <3> QED
      BY <3>1, <2>1, <1>t DEF DrainRError, callVars, workerVars, PumpPhase
  <2> QED
    BY <2>1 DEF PumpPanics, PumpRError, Disconnected, Join, Leave, callVars, workerVars
<1>r. run \in Runs /\ result[run] = "none"
  BY <1>0, <1>t DEF PumpPhase
<1>f. /\ \A r \in Runs : r > run => r # run
      /\ \A r \in Runs : result[r] # "none" => r # run
  BY <1>r DEF Runs
<1>1. CASE PumpPanics
  <2>1. /\ mpc = "pump" /\ dpc = "idle" /\ rx' = [rx EXCEPT ![run] = "dropped"]
        /\ leaving' = "panic" /\ mpc' = "join" /\ msg' = NoMessage /\ UNCHANGED <<dpc, own, result>>
    BY <1>1 DEF PumpPanics, logVars
  <2>2. PumpPhase' /\ RunTypes'
    BY <2>1, <1>0, <1>m, <1>t DEF PumpPhase, RunTypes
  <2>3. Future' /\ Accounts'
    BY <2>1, <1>0, <1>f, <1>t DEF RunTypes, Future, Accounts, AllPumped
  <2> QED
    BY <2>2, <2>3 DEF RunInv
<1>2. CASE PumpRError
  <2>1. /\ mpc = "pump" /\ dpc = "idle" /\ leaving' = "jump" /\ mpc' = "exit" /\ msg' = NoMessage
        /\ UNCHANGED <<dpc, own, rx, result>>
    BY <1>2 DEF PumpRError, logVars
  <2>2. PumpPhase' /\ RunTypes'
    BY <2>1, <1>0, <1>m, <1>t DEF PumpPhase, RunTypes
  <2>3. Future' /\ Accounts'
    BY <2>1, <1>0, <1>f, <1>t DEF RunTypes, Future, Accounts, AllPumped
  <2> QED
    BY <2>2, <2>3 DEF RunInv
<1>3. CASE DrainRError
  <2>1. /\ dpc # "idle" /\ dpc' = "idle" /\ own' = 0 /\ msg' = NoMessage /\ UNCHANGED rx
    BY <1>3 DEF DrainRError, RenderFails
  <2>2. CASE mpc = "exiting"
    <3>1. mpc' = "out" /\ result' = [result EXCEPT ![run] = leaving] /\ leaving' = leaving
      BY <2>2, <1>3 DEF DrainRError
    <3>2. PumpPhase' /\ RunTypes'
      BY <2>1, <3>1, <1>0, <1>m, <1>t DEF PumpPhase, RunTypes
    <3>3. Future' /\ Accounts'
      BY <2>1, <2>2, <3>1, <1>0, <1>r, <1>f, <1>t DEF RunTypes, PumpPhase, Future, Accounts, AllPumped
    <3> QED
      BY <3>2, <3>3 DEF RunInv
  <2>3. CASE mpc # "exiting"
    <3>1. mpc' = "exit" /\ leaving' = "jump" /\ result' = result
      BY <2>3, <1>3 DEF DrainRError
    <3>2. PumpPhase' /\ RunTypes'
      BY <2>1, <3>1, <1>0, <1>m, <1>r, <1>t DEF PumpPhase, RunTypes
    <3>3. Future' /\ Accounts'
      BY <2>1, <3>1, <1>0, <1>f, <1>t DEF RunTypes, Future, Accounts, AllPumped
    <3> QED
      BY <3>2, <3>3 DEF RunInv
  <2> QED
    BY <2>2, <2>3
<1>4. CASE Disconnected
  <2>1. /\ mpc = "recv" /\ chan[run] = <<>> /\ wpc[run] \in Ended
        /\ rx' = [rx EXCEPT ![run] = "dropped"] /\ leaving' = "ok" /\ mpc' = "join"
        /\ UNCHANGED <<dpc, own, msg, result>>
    BY <1>4 DEF Disconnected, logVars
  <2>2. PumpPhase' /\ RunTypes'
    BY <2>1, <1>0, <1>t DEF PumpPhase, RunTypes
  <2>3. accepted[run] = pumped[run]
    <3>1. Len(chan[run]) = 0
      BY <2>1
    <3> QED
      BY <3>1, <2>1, <1>r, <1>t DEF RunTypes, Accounts, InHand
  <2>4. Future' /\ Accounts'
    BY <2>1, <2>3, <1>0, <1>r, <1>f, <1>t DEF RunTypes, Future, Accounts, AllPumped
  <2> QED
    BY <2>2, <2>4 DEF RunInv
<1>5. CASE Join
  <2>1. /\ mpc = "join" /\ wpc[run] \in Ended /\ mpc' = "exit"
        /\ leaving' = IF leaving = "panic" THEN "panic"
                      ELSE IF wpc[run] = "ok" THEN "ok" ELSE "err"
        /\ UNCHANGED <<dpc, own, msg, rx, result>>
    BY <1>5 DEF Join, logVars
  <2>2. PumpPhase' /\ RunTypes'
    BY <2>1, <1>0, <1>t DEF PumpPhase, RunTypes
  <2>3. Future' /\ Accounts'
    BY <2>1, <1>0, <1>r, <1>f, <1>t DEF RunTypes, Future, Accounts, AllPumped
  <2> QED
    BY <2>2, <2>3 DEF RunInv
<1>6. CASE Leave
  <2>1. /\ mpc = "exiting" /\ dpc = "idle" /\ mpc' = "out"
        /\ result' = [result EXCEPT ![run] = leaving]
        /\ UNCHANGED <<dpc, own, msg, leaving, rx>>
    BY <1>6 DEF Leave, logVars
  <2>2. PumpPhase' /\ RunTypes'
    BY <2>1, <1>0, <1>t DEF PumpPhase, RunTypes
  <2>3. Future' /\ Accounts'
    BY <2>1, <1>0, <1>r, <1>f, <1>t DEF RunTypes, PumpPhase, Future, Accounts, AllPumped
  <2> QED
    BY <2>2, <2>3 DEF RunInv
<1> QED
  BY <1>1, <1>2, <1>3, <1>4, <1>5, <1>6

\* No step logs past the bound, so a stamp is a number the models know.
CallsBound == Len(calls) <= MaxCalls

LEMMA NextCallsBound ==
  ASSUME LInv, CallsBound, [Next]_vars
  PROVE  CallsBound'
<1>1. CASE calls' = calls
  BY <1>1 DEF CallsBound
<1>2. ASSUME NEW t \in Threads \cup {Main}, Len(calls) < MaxCalls, calls' = Append(calls, t)
      PROVE  CallsBound'
  <2>1. Len(calls') = Len(calls) + 1 /\ Len(calls) \in Nat
    BY <1>2, AppendProperties, LenProperties DEF LInv, LogTypeOK
  <2> QED
    BY <2>1, <1>2, MaxCallsAssumption DEF CallsBound
<1>3. CASE OthersLog
  BY <1>2, <1>3 DEF OthersLog, ThreadLogs
<1>4. CASE PumpLogs
  BY <1>2, <1>4 DEF PumpLogs, MainLogs
<1>5. CASE DrainGoesOn
  BY <1>1, <1>5 DEF DrainGoesOn, DrainStep, SwapDropped, RenderWarning, TakeAll, RenderNext,
                    RenderOwn, Drained
<1>6. CASE Tick \/ Exit \/ DrainRError
  BY <1>1, <1>6 DEF Tick, Exit, DrainRError, StartDrain, RenderFails
<1>7. CASE ~(OthersLog \/ PumpLogs \/ DrainGoesOn \/ Tick \/ Exit \/ DrainRError)
  <2>1. UNCHANGED logVars
    BY <1>7 DEF Next, MainStep, WorkerStep, BeginSend, SendReturnsOk, SendReturnsErr, WorkerEnds,
                Spawn, Receive, PumpReturns, PumpPanics, PumpRError, Disconnected, Join, Leave, vars
  <2> QED
    BY <2>1, <1>1 DEF logVars, historyVars
<1> QED
  BY <1>3, <1>4, <1>5, <1>6, <1>7

LEMMA NextRunInv ==
  ASSUME RunInv, LInv, CallsBound, [Next]_vars
  PROVE  RunInv'
<1>1. ASSUME NEW r \in Runs, WorkerStep(r) PROVE RunInv'
  BY <1>1, WorkerRunInv DEF CallsBound
<1>2. CASE Tick \/ DrainGoesOn \/ PumpLogs \/ Exit \/ OthersLog
  BY <1>2, QuietRunInv
<1>3. CASE Spawn \/ Receive \/ PumpReturns
  BY <1>3, LoopRunInv
<1>4. CASE PumpPanics \/ PumpRError \/ DrainRError \/ Disconnected \/ Join \/ Leave
  BY <1>4, ExitRunInv
<1>5. CASE UNCHANGED vars
  BY <1>5 DEF vars, pumpVars, logVars, RunInv, PumpPhase, RunTypes, Future, Accounts, AllPumped,
              InHand
<1> QED
  BY <1>1, <1>2, <1>3, <1>4, <1>5 DEF Next, MainStep

\* Where every accepted message is, and whether the worker has ended, in every
\* state of a run: the inductive invariant, relative to the log queue's own.
THEOREM RunInvariance == Spec => [](RunInv /\ CallsBound)
<1>1. Init => RunInv /\ CallsBound
  <2>1. Init => CallsBound
    BY MaxCallsAssumption DEF Init, LogInit, CallsBound
  <2> QED
    BY <2>1, InitRunInv
<1>2. RunInv /\ CallsBound /\ LInv /\ [Next]_vars => (RunInv /\ CallsBound)'
  BY NextRunInv, NextCallsBound
<1> QED
  BY <1>1, <1>2, PumpLogInvariance, PTL DEF Spec

\* A run that returns has pumped everything its worker managed to send, and Ok
\* means that the worker's closure returned.
THEOREM NothingLostOnReturn == Spec => []ReturnedMeansPumped
<1>1. RunInv => ReturnedMeansPumped
  BY DEF RunInv, Accounts, AllPumped, ReturnedMeansPumped
<1> QED
  BY <1>1, RunInvariance, PTL

\* After a return or a panic of run() its worker has ended; only R's longjmp
\* gets past the join.
THEOREM ScopeJoins == Spec => []JoinedUnlessJumped
<1>1. RunInv => JoinedUnlessJumped
  BY DEF RunInv, Accounts, JoinedUnlessJumped
<1> QED
  BY <1>1, RunInvariance, PTL

-----------------------------------------------------------------------------
(* What a tick drains.                                                      *)

\* A step of the logger feeds the queue with new records only, and the batch
\* from the queue.
LEMMA QueueFed ==
  ASSUME LInv, [LogNext]_logVars
  PROVE  /\ Len(calls) \in Nat /\ Len(calls') \in Nat /\ Len(calls) <= Len(calls')
         /\ \A i \in Elems(queue') : i \in Elems(queue) \/ i = Len(calls) + 1
         /\ \A i \in Elems(batch') : i \in Elems(batch) \cup Elems(queue)
<1>t. /\ LogTypeOK /\ Len(calls) \in Nat /\ queue \in Seq(Nat) /\ batch \in Seq(Nat)
  BY RecordFacts DEF LInv
<1>c. ASSUME NEW t \in Threads \cup {Main}, calls' = Append(calls, t)
      PROVE  Len(calls') = Len(calls) + 1
  BY <1>c, <1>t, AppendProperties DEF LogTypeOK
<1>n. NextRecord \in Nat /\ NextRecord = Len(calls) + 1
  BY <1>t DEF NextRecord
<1>p. \A s \in Seq(Nat) : Elems(Append(s, NextRecord)) = Elems(s) \cup {NextRecord}
  BY <1>n, Pushed
<1>1. ASSUME NEW t \in Threads, ThreadLogs(t)
      PROVE  /\ Len(calls') = Len(calls) + 1 /\ UNCHANGED batch
             /\ \A i \in Elems(queue') : i \in Elems(queue) \/ i = Len(calls) + 1
  <2>1. Len(calls') = Len(calls) + 1 /\ UNCHANGED batch
    BY <1>1, <1>c DEF ThreadLogs
  <2>2. ASSUME PushRecord
        PROVE  Elems(queue') = Elems(queue) \cup {NextRecord}
    <3>1. queue' = Append(queue, NextRecord)
      BY <2>2 DEF PushRecord
    <3> QED
      BY <3>1, <1>t, <1>p, Zenon
  <2>3. ASSUME DropOldest
        PROVE  Elems(queue') \subseteq Elems(queue) \cup {NextRecord}
    <3>1. queue # <<>> /\ queue' = Append(Tail(queue), NextRecord)
      BY <2>3, CapacityAssumption DEF DropOldest
    <3>2. Tail(queue) \in Seq(Nat) /\ Elems(Tail(queue)) \subseteq Elems(queue)
      BY <3>1, <1>t, Popped
    <3>3. Elems(queue') = Elems(Tail(queue)) \cup {NextRecord}
      BY <3>1, <3>2, <1>p, Zenon
    <3> QED
      BY <3>2, <3>3
  <2> QED
    BY <1>1, <2>1, <2>2, <2>3, <1>n DEF ThreadLogs
<1>2. CASE MainLogs
  BY <1>2, <1>c, <1>t DEF MainLogs, Elems
<1>3. CASE TakeAll
  BY <1>3, <1>t, ElemsOfEmpty DEF TakeAll, Elems
<1>4. CASE RenderNext
  <2>1. Elems(Tail(batch)) \subseteq Elems(batch)
    BY <1>4, <1>t, Popped DEF RenderNext
  <2> QED
    BY <2>1, <1>4, <1>t DEF RenderNext, Elems
<1>5. CASE RenderFails
  BY <1>5, <1>t, ElemsOfEmpty DEF RenderFails, Elems
<1>6. CASE StartDrain \/ SwapDropped \/ RenderWarning \/ Drained \/ RenderOwn \/ UNCHANGED logVars
  BY <1>6, <1>t DEF StartDrain, SwapDropped, RenderWarning, Drained, RenderOwn, logVars,
                    historyVars, Elems
<1>7. CASE \E t \in Threads : ThreadLogs(t)
  <2>1. PICK t \in Threads : ThreadLogs(t)
    BY <1>7
  <2>2. batch' = batch => Elems(batch') = Elems(batch)
    OBVIOUS
  <2> QED
    BY <2>1, <2>2, <1>1, <1>t
<1> QED
  BY <1>2, <1>3, <1>4, <1>5, <1>6, <1>7 DEF LogNext, DrainStep

\* A stamp counts calls that were made, and what is in the queue once a tick has
\* taken it is younger than the stamp of the message in hand.
Stamped ==
  /\ \A r \in Runs : offer[r].logged <= Len(calls)
  /\ \A r \in Runs : \A i \in DOMAIN chan[r] : chan[r][i].logged <= Len(calls)
  /\ msg.logged <= Len(calls)
  /\ mpc = "ticking" /\ dpc = "render" => \A i \in Elems(queue) : i > msg.logged
  /\ mpc = "pump" /\ ticks => \A i \in Elems(queue) \cup Elems(batch) : i > msg.logged

LEMMA WorkerStamped ==
  ASSUME RunInv, LInv, Stamped, NEW r \in Runs, WorkerStep(r)
  PROVE  Stamped'
<1>0. UNCHANGED <<calls, queue, batch, dpc, ticks, mpc, msg>>
  BY DEF WorkerStep, BeginSend, SendReturnsOk, SendReturnsErr, WorkerEnds, mainVars,
         callVars, logVars
<1>t. /\ offer \in [Runs -> Message] /\ chan \in [Runs -> Seq(Message)]
      /\ Len(calls) \in Nat /\ NoMessage.logged <= Len(calls)
  BY RecordFacts DEF RunInv, RunTypes, LInv, NoMessage
<1>1. CASE BeginSend(r)
  <2>1. /\ offer' = [offer EXCEPT ![r] = [n |-> tries[r] + 1, logged |-> Len(calls)]]
        /\ UNCHANGED chan
    BY <1>1 DEF BeginSend
  <2>2. \A q \in Runs : offer'[q].logged <= Len(calls)
    BY <2>1, <1>t DEF Stamped
  <2> QED
    BY <2>1, <2>2, <1>0 DEF Stamped
<1>2. CASE SendReturnsOk(r)
  <2>1. /\ offer' = [offer EXCEPT ![r] = NoMessage]
        /\ chan' = [chan EXCEPT ![r] = Append(@, offer[r])]
    BY <1>2 DEF SendReturnsOk
  <2>2. \A q \in Runs : offer'[q].logged <= Len(calls)
    BY <2>1, <1>t DEF Stamped
  <2>3. /\ Len(Append(chan[r], offer[r])) = Len(chan[r]) + 1 /\ Len(chan[r]) \in Nat
        /\ \A i \in 1..Len(chan[r]) : Append(chan[r], offer[r])[i] = chan[r][i]
        /\ Append(chan[r], offer[r])[Len(chan[r]) + 1] = offer[r]
        /\ DOMAIN chan[r] = 1..Len(chan[r])
        /\ DOMAIN Append(chan[r], offer[r]) = 1..Len(chan[r]) + 1
    BY <1>t, AppendProperties, LenProperties
  <2>4. \A i \in DOMAIN Append(chan[r], offer[r]) :
           Append(chan[r], offer[r])[i].logged <= Len(calls)
    <3> SUFFICES ASSUME NEW i \in 1..Len(chan[r]) + 1
                 PROVE  Append(chan[r], offer[r])[i].logged <= Len(calls)
      BY <2>3
    <3>1. CASE i = Len(chan[r]) + 1
      BY <3>1, <2>3 DEF Stamped
    <3>2. CASE i # Len(chan[r]) + 1
      <4>1. i \in 1..Len(chan[r])
        BY <3>2, <2>3
      <4> QED
        BY <4>1, <2>3 DEF Stamped
    <3> QED
      BY <3>1, <3>2
  <2>5. \A q \in Runs : chan'[q] = IF q = r THEN Append(chan[r], offer[r]) ELSE chan[q]
    BY <2>1, <1>t
  <2>6. \A q \in Runs : \A i \in DOMAIN chan'[q] : chan'[q][i].logged <= Len(calls)
    BY <2>4, <2>5 DEF Stamped
  <2> QED
    BY <2>2, <2>6, <1>0 DEF Stamped
<1>3. CASE SendReturnsErr(r) \/ WorkerEnds(r)
  <2>1. \A q \in Runs : offer'[q] \in {offer[q], NoMessage}
    BY <1>3, <1>t DEF SendReturnsErr, WorkerEnds
  <2>2. UNCHANGED chan
    BY <1>3 DEF SendReturnsErr, WorkerEnds
  <2> QED
    BY <2>1, <2>2, <1>0, <1>t DEF Stamped
<1> QED
  BY <1>1, <1>2, <1>3 DEF WorkerStep

\* Main takes a message: the stamp comes out of the channel.
LEMMA ReceiveStamped ==
  ASSUME RunInv, LInv, Stamped, Receive
  PROVE  Stamped'
<1>1. /\ mpc = "recv" /\ chan[run] # <<>> /\ msg' = Head(chan[run])
      /\ chan' = [chan EXCEPT ![run] = Tail(@)]
      /\ mpc' = IF ticks THEN "tick" ELSE "pump"
      /\ UNCHANGED <<calls, queue, batch, dpc, ticks, offer>>
  BY DEF Receive, logVars, callVars
<1>2. run \in Runs /\ chan \in [Runs -> Seq(Message)]
  BY <1>1 DEF RunInv, RunTypes, PumpPhase
<1>3. /\ Head(chan[run]) = chan[run][1] /\ 1 \in DOMAIN chan[run]
      /\ \A i \in DOMAIN Tail(chan[run]) :
            i + 1 \in DOMAIN chan[run] /\ Tail(chan[run])[i] = chan[run][i + 1]
  BY <1>1, <1>2, HeadTailProperties, LenProperties, EmptySeq
<1>4. msg'.logged <= Len(calls)
  BY <1>1, <1>2, <1>3 DEF Stamped
<1>5. \A q \in Runs : chan'[q] = IF q = run THEN Tail(chan[run]) ELSE chan[q]
  BY <1>1, <1>2
<1>6. \A i \in DOMAIN Tail(chan[run]) : Tail(chan[run])[i].logged <= Len(calls)
  BY <1>2, <1>3 DEF Stamped
<1>7. \A q \in Runs : \A i \in DOMAIN chan'[q] : chan'[q][i].logged <= Len(calls)
  BY <1>5, <1>6 DEF Stamped
<1> QED
  BY <1>1, <1>4, <1>7 DEF Stamped

\* Main drops what it had in hand, or leaves it alone outside a tick.
LEMMA OtherStamped ==
  ASSUME RunInv, LInv, Stamped,
         \/ Spawn \/ PumpReturns \/ PumpPanics \/ PumpRError \/ DrainRError
         \/ Disconnected \/ Join \/ Leave \/ Tick \/ Exit
  PROVE  Stamped'
<1>1. UNCHANGED <<calls, queue, offer, chan>> /\ msg' \in {msg, NoMessage}
  BY DEF Spawn, PumpReturns, PumpPanics, PumpRError, DrainRError, Disconnected, Join, Leave,
         Tick, Exit, StartDrain, RenderFails, logVars, historyVars, callVars, workerVars
<1>2. mpc' # "pump" /\ (mpc' = "ticking" => dpc' # "render")
  BY DEF Spawn, PumpReturns, PumpPanics, PumpRError, DrainRError, Disconnected, Join, Leave,
         Tick, Exit, StartDrain
<1>3. NoMessage.logged <= Len(calls)
  BY RecordFacts DEF LInv, NoMessage
<1> QED
  BY <1>1, <1>2, <1>3 DEF Stamped

\* The logger moves: under a tick only the end of the batch ends the drain.
LEMMA LoggerStamped ==
  ASSUME RunInv, LInv, Stamped, DrainGoesOn \/ PumpLogs \/ OthersLog
  PROVE  Stamped'
<1>0. UNCHANGED <<ticks, msg, offer, chan>> /\ [LogNext]_logVars
  BY DEF DrainGoesOn, PumpLogs, OthersLog, callVars, workerVars, pumpVars, LogNext
<1>1. /\ Len(calls) \in Nat /\ Len(calls') \in Nat /\ Len(calls) <= Len(calls')
      /\ \A i \in Elems(queue') : i \in Elems(queue) \/ i = Len(calls) + 1
      /\ \A i \in Elems(batch') : i \in Elems(batch) \cup Elems(queue)
  BY <1>0, QueueFed
<1>t. /\ offer \in [Runs -> Message] /\ chan \in [Runs -> Seq(Message)] /\ msg \in Message
  BY DEF RunInv, RunTypes
<1>n. \A m \in Message : m.logged \in Nat
  BY MaxCallsAssumption DEF Message
<1>2. \A r \in Runs : offer'[r].logged <= Len(calls')
  BY <1>0, <1>1, <1>t, <1>n DEF Stamped
<1>3. \A r \in Runs : \A i \in DOMAIN chan'[r] : chan'[r][i].logged <= Len(calls')
  <2> SUFFICES ASSUME NEW r \in Runs, NEW i \in DOMAIN chan[r]
               PROVE  chan[r][i].logged <= Len(calls')
    BY <1>0
  <2>1. chan[r][i] \in Message
    BY <1>t, ElementOfSeq, LenProperties
  <2>2. chan[r][i].logged \in Nat /\ chan[r][i].logged <= Len(calls)
    BY <2>1, <1>n DEF Stamped
  <2> QED
    BY <2>2, <1>1
<1>4. msg.logged \in Nat /\ msg.logged <= Len(calls) /\ msg.logged <= Len(calls')
      /\ Len(calls) + 1 > msg.logged
  BY <1>1, <1>t, <1>n DEF Stamped
<1>5. ASSUME mpc' = "ticking", dpc' = "render"
      PROVE  \A i \in Elems(queue') : i > msg.logged
  <2>1. mpc = "ticking"
    BY <1>5 DEF DrainGoesOn, PumpLogs, OthersLog, pumpVars
  <2>2. CASE dpc = "render"
    BY <2>1, <2>2, <1>1, <1>4 DEF Stamped
  <2>3. CASE dpc # "render"
    <3>1. queue' = <<>>
      BY <2>3, <1>5 DEF DrainGoesOn, PumpLogs, OthersLog, DrainStep, SwapDropped, RenderWarning,
                        TakeAll, RenderNext, RenderOwn, Drained, MainLogs, ThreadLogs
    <3> QED
      BY <3>1, ElemsOfEmpty
  <2> QED
    BY <2>2, <2>3
<1>6. ASSUME mpc' = "pump", ticks
      PROVE  \A i \in Elems(queue') \cup Elems(batch') : i > msg.logged
  <2>1. CASE mpc = "pump"
    BY <2>1, <1>1, <1>4, <1>6 DEF Stamped
  <2>2. CASE mpc # "pump"
    <3>1. DrainGoesOn /\ mpc = "ticking" /\ dpc' = "idle"
      BY <2>2, <1>6 DEF DrainGoesOn, PumpLogs, OthersLog, pumpVars
    <3>2. Drained /\ own = 0
      BY <3>1 DEF DrainGoesOn, DrainStep, SwapDropped, RenderWarning, TakeAll, RenderNext,
                  RenderOwn, Drained, RunInv, PumpPhase, LInv, DrainPhase
    <3>3. dpc = "render" /\ batch' = <<>> /\ queue' = queue
      BY <3>2 DEF Drained
    <3> QED
      BY <3>1, <3>3, ElemsOfEmpty DEF Stamped
  <2> QED
    BY <2>1, <2>2
<1> QED
  BY <1>0, <1>2, <1>3, <1>4, <1>5, <1>6 DEF Stamped, Elems

\* The stamp of a message is older than everything a tick leaves in the queue.
THEOREM StampInvariance == Spec => []Stamped
<1>1. Init => Stamped
  BY ElemsOfEmpty DEF Init, LogInit, Stamped, NoMessage
<1>2. ASSUME RunInv, LInv, Stamped, [Next]_vars
      PROVE  Stamped'
  <2>1. CASE UNCHANGED vars
    BY <1>2, <2>1 DEF vars, pumpVars, logVars, Stamped, Elems
  <2>2. CASE Next
    BY <2>2, <1>2, WorkerStamped, ReceiveStamped, OtherStamped, LoggerStamped DEF Next, MainStep
  <2> QED
    BY <1>2, <2>1, <2>2
<1>3. RunInv /\ LInv /\ Stamped /\ [Next]_vars => Stamped'
  BY <1>2
<1> QED
  BY <1>1, <1>3, RunInvariance, PumpLogInvariance, PTL DEF Spec

\* With drain_logs_each_tick the pump closure sees a message only after the
\* records logged before its send have left the queue.
THEOREM LogsComeFirst == Spec => []LogsBeforeMessage
<1>1. Stamped => LogsBeforeMessage
  BY DEF Stamped, LogsBeforeMessage
<1> QED
  BY <1>1, StampInvariance, PTL

-----------------------------------------------------------------------------
(* What a channel holds and what was sent stays within its bounds.          *)

\* A message in a send counts as tried and not yet as accepted.
Sending(r) == IF wpc[r] = "sending" THEN 1 ELSE 0

\* A rendezvous holds the one message that main waits for.
PumpBounds ==
  /\ capacity \in [Runs -> Capacities \cup {0}] /\ ticks \in BOOLEAN
  /\ \A r \in Runs : /\ accepted[r] + Sending(r) <= tries[r] /\ pumped[r] <= accepted[r]
                     /\ Len(chan[r]) <= capacity[r] + 1

LEMMA WorkerBounds ==
  ASSUME RunInv, PumpBounds, NEW r \in Runs, WorkerStep(r)
  PROVE  PumpBounds'
<1>t. RunTypes /\ UNCHANGED <<capacity, ticks, pumped>>
  BY DEF RunInv, WorkerStep, BeginSend, SendReturnsOk, SendReturnsErr, WorkerEnds, mainVars,
         callVars
<1>0. \A q \in Runs : /\ accepted[q] \in Nat /\ pumped[q] \in Nat /\ tries[q] \in Nat
                      /\ Len(chan[q]) \in Nat /\ capacity[q] \in Nat
  BY <1>t, PumpAssumption, LenProperties DEF RunTypes
<1>1. ASSUME NEW q \in Runs, q # r
      PROVE  /\ accepted'[q] = accepted[q] /\ tries'[q] = tries[q] /\ chan'[q] = chan[q]
             /\ Sending(q)' = Sending(q)
  BY <1>t, <1>1 DEF RunTypes, WorkerStep, BeginSend, SendReturnsOk, SendReturnsErr, WorkerEnds,
                    Sending
<1>2. CASE BeginSend(r)
  <2>1. /\ tries'[r] = tries[r] + 1 /\ accepted'[r] = accepted[r] /\ chan'[r] = chan[r]
        /\ Sending(r) = 0 /\ Sending(r)' = 1
    BY <1>t, <1>2 DEF RunTypes, BeginSend, Sending
  <2> QED
    BY <1>0, <1>1, <1>t, <2>1 DEF PumpBounds
<1>3. CASE SendReturnsOk(r)
  <2>1. /\ tries'[r] = tries[r] /\ accepted'[r] = accepted[r] + 1
        /\ chan'[r] = Append(chan[r], offer[r]) /\ Sending(r) = 1 /\ Sending(r)' = 0
        /\ HasRoom(r)
    BY <1>t, <1>3 DEF RunTypes, SendReturnsOk, Sending
  <2>2. Len(chan'[r]) = Len(chan[r]) + 1
    BY <1>t, <2>1, AppendProperties DEF RunTypes
  <2>3. Len(chan'[r]) <= capacity[r] + 1
    <3>1. Len(chan[r]) < capacity[r] \/ Len(chan[r]) = 0
      BY <2>1, EmptySeq DEF HasRoom
    <3> QED
      BY <1>0, <2>2, <3>1
  <2>4. accepted'[r] + Sending(r)' <= tries'[r] /\ pumped'[r] <= accepted'[r]
    <3>1. accepted[r] + 1 <= tries[r] /\ pumped[r] <= accepted[r]
      BY <2>1 DEF PumpBounds
    <3> QED
      BY <1>0, <1>t, <2>1, <3>1
  <2>5. ASSUME NEW q \in Runs, q # r
        PROVE  /\ accepted'[q] + Sending(q)' <= tries'[q] /\ pumped'[q] <= accepted'[q]
               /\ Len(chan'[q]) <= capacity'[q] + 1
    BY <1>1, <1>t, <2>5 DEF PumpBounds
  <2>6. capacity' \in [Runs -> Capacities \cup {0}] /\ ticks' \in BOOLEAN
    BY <1>t DEF PumpBounds
  <2> QED
    BY <1>t, <2>3, <2>4, <2>5, <2>6 DEF PumpBounds
<1>4. CASE SendReturnsErr(r) \/ WorkerEnds(r)
  <2>1. /\ tries' = tries /\ accepted' = accepted /\ chan' = chan
        /\ Sending(r) \in {0, 1} /\ Sending(r)' = 0
    BY <1>t, <1>4 DEF RunTypes, SendReturnsErr, WorkerEnds, Sending, Ended
  <2> QED
    BY <1>0, <1>1, <1>t, <2>1 DEF PumpBounds
<1> QED
  BY <1>2, <1>3, <1>4 DEF WorkerStep

LEMMA MainBounds ==
  ASSUME RunInv, PumpBounds, Spawn \/ Receive \/ PumpReturns
  PROVE  PumpBounds'
<1>t. RunTypes /\ PumpPhase /\ Future /\ Accounts
  BY DEF RunInv
<1>0. \A q \in Runs : /\ accepted[q] \in Nat /\ pumped[q] \in Nat /\ tries[q] \in Nat
                      /\ Len(chan[q]) \in Nat /\ capacity[q] \in Nat
  BY <1>t, PumpAssumption, LenProperties DEF RunTypes
<1>1. CASE Spawn
  <2>1. /\ run + 1 \in Runs /\ UNCHANGED <<accepted, pumped, tries, chan>>
        /\ \E c \in Capacities : capacity' = [capacity EXCEPT ![run + 1] = c]
        /\ ticks' \in BOOLEAN /\ wpc' = [wpc EXCEPT ![run + 1] = "running"]
    BY <1>1 DEF Spawn
  <2>2. Len(chan[run + 1]) = 0
    <3>1. chan[run + 1] = <<>>
      BY <1>t, <2>1 DEF Future, PumpPhase, Runs
    <3> QED
      BY <3>1, EmptySeq
  <2>3. \A q \in Runs : Sending(q)' <= Sending(q) /\ Sending(q)' \in {0, 1} /\ Sending(q) \in {0, 1}
    BY <1>t, <2>1 DEF Sending, RunTypes
  <2>4. \A q \in Runs : q # run + 1 => capacity'[q] = capacity[q]
    BY <1>t, <2>1 DEF RunTypes
  <2>5. /\ capacity' \in [Runs -> Capacities \cup {0}] /\ capacity'[run + 1] \in Nat
    BY <2>1, PumpAssumption DEF PumpBounds
  <2>6. ASSUME NEW q \in Runs
        PROVE  Len(chan'[q]) <= capacity'[q] + 1
    BY <1>0, <2>1, <2>2, <2>4, <2>5 DEF PumpBounds
  <2>7. ASSUME NEW q \in Runs
        PROVE  accepted'[q] + Sending(q)' <= tries'[q] /\ pumped'[q] <= accepted'[q]
    <3> PICK a, b, c, d : /\ a = accepted[q] /\ b = Sending(q) /\ c = Sending(q)' /\ d = tries[q]
      OBVIOUS
    <3>1. a \in Nat /\ d \in Nat /\ b \in Nat /\ c \in Nat /\ c <= b /\ a + b <= d
      BY <1>0, <2>3 DEF PumpBounds
    <3>2. a + c <= d
      BY ONLY <3>1
    <3> QED
      BY <2>1, <3>2 DEF PumpBounds
  <2> QED
    BY <2>1, <2>5, <2>6, <2>7 DEF PumpBounds
<1>2. CASE Receive
  <2>1. /\ run \in Runs /\ chan[run] # <<>> /\ UNCHANGED <<accepted, pumped, tries, capacity, ticks, wpc>>
        /\ chan' = [chan EXCEPT ![run] = Tail(@)]
    BY <1>2, <1>t DEF Receive, callVars, PumpPhase
  <2>2. Len(Tail(chan[run])) = Len(chan[run]) - 1
    BY <1>t, <2>1, HeadTailProperties DEF RunTypes
  <2>3. \A q \in Runs : chan'[q] = IF q = run THEN Tail(chan[run]) ELSE chan[q]
    BY <1>t, <2>1 DEF RunTypes
  <2>4. ASSUME NEW q \in Runs
        PROVE  Len(chan'[q]) <= capacity[q] + 1
    BY <1>0, <2>1, <2>2, <2>3 DEF PumpBounds
  <2> QED
    BY <2>1, <2>4 DEF PumpBounds, Sending
<1>3. CASE PumpReturns
  <2>1. /\ run \in Runs /\ UNCHANGED <<accepted, chan, tries, capacity, ticks, wpc>>
        /\ pumped' = [pumped EXCEPT ![run] = @ + 1] /\ mpc = "pump"
    BY <1>3, <1>t DEF PumpReturns, callVars, workerVars, PumpPhase
  <2>2. accepted[run] = pumped[run] + Len(chan[run]) + 1
    BY <1>t, <2>1 DEF Accounts, InHand
  <2>3. \A q \in Runs : pumped'[q] = IF q = run THEN pumped[run] + 1 ELSE pumped[q]
    BY <1>t, <2>1 DEF RunTypes
  <2>4. ASSUME NEW q \in Runs
        PROVE  pumped'[q] <= accepted[q]
    BY <1>0, <2>1, <2>2, <2>3 DEF PumpBounds
  <2> QED
    BY <2>1, <2>4 DEF PumpBounds, Sending
<1> QED
  BY <1>1, <1>2, <1>3

\* The pump's state keeps its type, and no channel holds more than its capacity,
\* or the one message of a rendezvous (channel_capacity, pump.rs).
THEOREM PumpTypeCorrect == Spec => []TypeOK
<1>1. Init => PumpBounds
  BY PumpAssumption, EmptySeq DEF Init, PumpBounds, Sending
<1>2. ASSUME RunInv, PumpBounds, [Next]_vars
      PROVE  PumpBounds'
  <2>1. CASE UNCHANGED <<capacity, ticks, accepted, pumped, chan, tries, wpc>>
    BY <1>2, <2>1 DEF PumpBounds, Sending
  <2>2. CASE \/ Tick \/ DrainGoesOn \/ PumpLogs \/ Exit \/ OthersLog \/ PumpPanics \/ PumpRError
             \/ DrainRError \/ Disconnected \/ Join \/ Leave \/ UNCHANGED vars
    BY <2>1, <2>2 DEF Tick, DrainGoesOn, PumpLogs, Exit, OthersLog, PumpPanics, PumpRError,
       DrainRError, Disconnected, Join, Leave, vars, pumpVars, callVars, workerVars
  <2>3. ASSUME NEW r \in Runs, WorkerStep(r)
        PROVE  PumpBounds'
    BY <1>2, <2>3, WorkerBounds
  <2>4. CASE Spawn \/ Receive \/ PumpReturns
    BY <1>2, <2>4, MainBounds
  <2> QED
    BY <1>2, <2>2, <2>3, <2>4 DEF Next, MainStep
<1>3. ASSUME RunInv, PumpBounds, LInv
      PROVE  TypeOK
  <2>1. RunTypes /\ PumpPhase
    BY <1>3 DEF RunInv
  <2>2. ASSUME NEW r \in Runs
        PROVE  accepted[r] \in 0..MaxSends /\ pumped[r] \in 0..MaxSends
    <3>1. /\ accepted[r] \in Nat /\ pumped[r] \in Nat /\ tries[r] \in 0..MaxSends
          /\ Sending(r) \in {0, 1} /\ MaxSends \in Nat
      BY <2>1, PumpAssumption DEF RunTypes, Sending
    <3>2. accepted[r] + Sending(r) <= tries[r] /\ pumped[r] <= accepted[r]
      BY <1>3 DEF PumpBounds
    <3> QED
      BY <3>1, <3>2
  <2>3. accepted \in [Runs -> 0..MaxSends] /\ pumped \in [Runs -> 0..MaxSends]
    BY <2>1, <2>2 DEF RunTypes
  <2>4. \A r \in Runs : chan[r] \in Seq(Message) /\ Len(chan[r]) <= capacity[r] + 1
    BY <1>3, <2>1 DEF RunTypes, PumpBounds
  <2> QED
    BY <1>3, <2>1, <2>3, <2>4 DEF TypeOK, RunTypes, PumpPhase, PumpBounds, LInv
<1>4. RunInv /\ PumpBounds /\ [Next]_vars => PumpBounds'
  BY <1>2
<1>5. RunInv /\ PumpBounds /\ LInv => TypeOK
  BY <1>3
<1> QED
  BY <1>1, <1>4, <1>5, RunInvariance, PumpLogInvariance, PTL DEF Spec

=============================================================================
