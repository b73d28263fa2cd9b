-------------------------- MODULE AltrepIterProofs --------------------------
(***************************************************************************)
(* For every length, source, window and chunk size: the lazy vectors of    *)
(* AltrepIter keep their types, answer a repeated read as they did before, *)
(* and answer with the element of the index, or NA where there is none.    *)
(*                                                                         *)
(* The invariant has three parts.  MemoryRight says, kind by kind, which   *)
(* elements the memory of the vector holds, and how many the iterator has  *)
(* yielded, as long as no failed read lost some.  AnswersRecalled says     *)
(* that every answer given so far is Recalled: it is what the memory       *)
(* answers now, and nothing the source still has can change it.  OrderInv  *)
(* says what is left after a failed read lost elements: the memory holds   *)
(* increasing elements, all of them behind what the source still has.      *)
(***************************************************************************)
EXTENDS AltrepIter, TLAPS

\* PrefixElement and PrefixMaterialize answer i with v from now on: an NA
\* stands once there is no iterator, or nothing left in it.
PrefixRecalls(i, v) ==
    IF IsMaterialized THEN v = At(materialized[1], i)
    ELSE v = At(cache, i) /\ (i >= Len(cache) /\ iter = "some" => pos = supply)

\* SparseElement does.
SparseRecalls(i, v) ==
    IF i \in DOMAIN slots THEN v = slots[i]
    ELSE v = NA /\ (i < tracked \/ pos = supply)

\* WindowElement and WindowMaterialize do, of an index the window has not passed.
WindowRecalls(i, v) ==
    IF IsMaterialized THEN v = At(materialized[1], i)
    ELSE v = At(cache, i - window_start)
         /\ (i >= window_start + Len(cache) => pos = supply)

\* StreamElement and StreamRegion do; they differ where a chunk is outgrown.
StreamRecalls(i, v) ==
    IF Chunk(i) \in DOMAIN slots /\ i >= readAt[Chunk(i)]
    THEN v = NA \/ (v = i /\ i < supply)
    ELSE v = i /\ i < supply

Recalls(i, v) ==
    /\ kind = "prefix" => PrefixRecalls(i, v)
    /\ kind = "sparse" => SparseRecalls(i, v)
    /\ kind = "window" => WindowRecalls(i, v)
    /\ kind = "stream" => StreamRecalls(i, v)

\* The indices whose answers a vector stands by.
Told(i) == kind = "window" => i >= window_start /\ ~wasted

AnswersRecalled ==
    /\ Answered => answer.index \in Index
    /\ \A i \in Index, v \in Values :
          /\ seen[i] = v /\ Told(i) => Recalls(i, v)
          /\ answer.index = i /\ answer.value = v =>
                seen[i] # Unread /\ (Told(i) => Recalls(i, v))

PrefixRight ==
    IF IsMaterialized
    THEN \A i \in Index : IF i < Len(materialized[1])
                          THEN materialized[1][i + 1] = i ELSE i >= supply
    ELSE /\ iter = "some" /\ pos = Len(cache)
         /\ \A j \in 1..Len(cache) : cache[j] = j - 1

SparseRight ==
    /\ tracked <= pos /\ (pos = tracked \/ pos = supply)
    /\ \A i \in DOMAIN slots : slots[i] = i

\* After an early end the window stays behind what was consumed.
WindowRight ==
    IF IsMaterialized
    THEN \A i \in Index : i >= window_start =>
            \/ At(materialized[1], i) = i
            \/ At(materialized[1], i) = NA /\ (i >= supply \/ CutOff(i))
    ELSE /\ iter = "some" /\ pos = tracked
         /\ window_start + Len(cache) = tracked \/ pos = supply
         /\ \A j \in 1..Len(cache) : cache[j] = window_start + j - 1

StreamRight ==
    \A c \in DOMAIN slots :
        /\ \A j \in 1..Len(slots[c]) : slots[c][j] = c * size + j - 1
        /\ \A r \in 0..size - 1 : c * size + r < len =>
              (r < Len(slots[c]) <=> c * size + r < readAt[c])
        /\ readAt[c] <= supply

MemoryRight ==
    /\ kind = "window" => window_start + Len(cache) <= tracked
    /\ kind = "prefix" /\ ~wasted => PrefixRight
    /\ kind = "sparse" /\ ~wasted => SparseRight
    /\ kind = "window" /\ ~wasted => WindowRight
    /\ kind = "stream" => StreamRight

\* The memory holds element v at index i, whatever failed before.
Holds(i, v) ==
    /\ kind = "prefix" => v = At(IF IsMaterialized THEN materialized[1] ELSE cache, i)
    /\ kind = "sparse" => i \in DOMAIN slots /\ v = slots[i]
    /\ kind = "window" =>
          /\ i >= window_start
          /\ v = IF IsMaterialized THEN At(materialized[1], i)
                 ELSE At(cache, i - window_start)
    /\ kind = "stream" => v = i

\* A window whose iterator was gone when it was materialized.
Emptied == kind = "window" /\ IsMaterialized /\ materialized[1] = <<>>

HeldInOrder ==
    \A i, j \in Index, u, v \in Elements : Holds(i, u) /\ Holds(j, v) /\ i < j => u < v

\* What the iterator still has comes after all that is held.
HeldBehind ==
    kind = "sparse" \/ (kind \in {"prefix", "window"} /\ ~IsMaterialized) =>
        \A i \in Index, v \in Elements :
            Holds(i, v) => v < pos /\ (kind = "sparse" => i < tracked)

SeenHeld ==
    \A i \in Index, v \in Elements :
        seen[i] = v /\ ~GoneFromWindow(i) => Holds(i, v) \/ Emptied

OrderInv == HeldInOrder /\ HeldBehind /\ SeenHeld /\ AnswersInOrder

IInv == TypeOK /\ MemoryRight /\ AnswersRecalled /\ OrderInv

-----------------------------------------------------------------------------
(* What the model's operators give                                         *)

\* Least is one of the two, and no larger than either.
LEMMA LeastFacts ==
  ASSUME NEW a \in Int, NEW b \in Int
  PROVE  /\ Least(a, b) \in {a, b} /\ Least(a, b) \in Int
         /\ Least(a, b) <= a /\ Least(a, b) <= b
BY DEF Least

\* n calls of next() from position p give the n elements from p on.
LEMMA YieldedFacts ==
  ASSUME NEW p \in Nat, NEW n \in Nat, n > 0 => p + n <= MaxSupply
  PROVE  /\ Yielded(p, n) \in Seq(Elements) /\ Len(Yielded(p, n)) = n
         /\ \A j \in 1..n : Yielded(p, n)[j] = p + j - 1
<1>1. \A j \in 1..n : p + j - 1 \in Elements
  BY LenAssumption DEF Elements
<1> QED
  BY <1>1 DEF Yielded

\* An answer from a sequence is one of its elements, or NA.
LEMMA AtFacts ==
  ASSUME NEW S, NEW s \in Seq(S), NEW i \in Nat
  PROVE  /\ i < Len(s) => At(s, i) = s[i + 1] /\ At(s, i) \in S
         /\ ~(i < Len(s)) => At(s, i) = NA
<1>1. i < Len(s) => i + 1 \in 1..Len(s)
  OBVIOUS
<1>2. \A j \in 1..Len(s) : s[j] \in S
  OBVIOUS
<1> QED
  BY <1>1, <1>2 DEF At

\* A sequence that grew by n elements answers as before below its old end.
LEMMA GrownFacts ==
  ASSUME NEW S, Elements \subseteq S, NEW c \in Seq(S),
         NEW p \in Nat, NEW n \in Nat, p + n <= MaxSupply
  PROVE  LET g == c \o Yielded(p, n)
         IN  /\ g \in Seq(S) /\ Len(g) = Len(c) + n
             /\ \A i \in Nat : /\ i < Len(c) => At(g, i) = c[i + 1] /\ g[i + 1] = c[i + 1]
                               /\ i >= Len(c) /\ i < Len(c) + n => 
                                    At(g, i) = p + i - Len(c) /\ g[i + 1] = p + i - Len(c)
                               /\ i >= Len(c) + n => At(g, i) = NA
<1> DEFINE y == Yielded(p, n)
           g == c \o y
<1>1. /\ y \in Seq(S) /\ Len(y) = n /\ \A j \in 1..n : y[j] = p + j - 1
  <2>1. y \in Seq(Elements) /\ Len(y) = n /\ \A j \in 1..n : y[j] = p + j - 1
    BY YieldedFacts
  <2>2. \A s \in Seq(Elements) : s \in Seq(S)
    OBVIOUS
  <2> QED
    BY <2>1, <2>2
<1> HIDE DEF y
<1>2. g \in Seq(S) /\ Len(g) = Len(c) + n
  <2>1. y \in Seq(S) /\ c \in Seq(S) /\ Len(y) = n
    BY <1>1
  <2>2. c \o y \in Seq(S)
    BY ONLY <2>1
  <2>3. Len(c \o y) = Len(c) + Len(y)
    BY ONLY <2>1
  <2> QED
    BY <2>1, <2>2, <2>3
<1>3. ASSUME NEW i \in Nat, i < Len(c)
      PROVE  g[i + 1] = c[i + 1]
  BY <1>1, <1>3
<1>4. ASSUME NEW i \in Nat, i >= Len(c), i < Len(c) + n
      PROVE  g[i + 1] = p + i - Len(c)
  <2>1. i + 1 \in 1..Len(c) + Len(y) /\ i + 1 > Len(c)
    BY <1>1, <1>4
  <2>2. g[i + 1] = y[i + 1 - Len(c)]
    BY <1>1, <2>1
  <2>3. i + 1 - Len(c) \in 1..n
    BY <1>1, <1>4
  <2>4. y[i + 1 - Len(c)] = p + (i + 1 - Len(c)) - 1
    BY <1>1, <2>3
  <2> QED
    BY <2>2, <2>4
<1> HIDE DEF g
<1>5. ASSUME NEW i \in Nat
      PROVE  At(g, i) = IF i < Len(c) + n THEN g[i + 1] ELSE NA
  BY <1>2 DEF At
<1>6. Len(c) \in Nat
  OBVIOUS
<1>7. /\ g \in Seq(S) /\ Len(g) = Len(c) + n
      /\ \A i \in Nat : /\ i < Len(c) => At(g, i) = c[i + 1] /\ g[i + 1] = c[i + 1]
                        /\ i >= Len(c) /\ i < Len(c) + n => 
                             At(g, i) = p + i - Len(c) /\ g[i + 1] = p + i - Len(c)
                        /\ i >= Len(c) + n => At(g, i) = NA
  BY <1>2, <1>3, <1>4, <1>5, <1>6
<1> QED
  BY <1>7 DEF g, y

\* Cutting a sequence to the declared length changes no answer.
LEMMA TruncatedFacts ==
  ASSUME NEW S, NEW s \in Seq(S)
  PROVE  /\ Truncated(s) \in Seq(S)
         /\ Len(Truncated(s)) = Least(Len(s), len)
         /\ \A i \in Index : At(Truncated(s), i) = At(s, i)
<1>1. Len(s) \in Nat /\ len \in Nat
  BY LenAssumption
<1> DEFINE n == Least(Len(s), len)
<1>2. n \in 0..Len(s) /\ n <= len /\ (n = len \/ n = Len(s))
  BY <1>1 DEF Least
<1> HIDE DEF n
<1>3. /\ SubSeq(s, 1, n) \in Seq(S) /\ Len(SubSeq(s, 1, n)) = n
      /\ \A j \in 1..n : SubSeq(s, 1, n)[j] = s[j]
  BY <1>1, <1>2
<1>4. ASSUME NEW i \in Index
      PROVE  At(SubSeq(s, 1, n), i) = At(s, i)
  BY <1>1, <1>2, <1>3 DEF At, Index
<1> QED
  BY <1>3, <1>4 DEF Truncated, n

\* What some calls of next() may give: those that all answer stop at the end
\* of the source only, and one that fails keeps fewer than were asked for.
LEMMA PullFacts ==
  ASSUME supply \in Nat, pos \in 0..supply, NEW n \in Nat \ {0}, NEW o \in Pull(n)
  PROVE  /\ o.got \in Nat /\ o.used \in Nat /\ o.got <= n
         /\ o.got <= o.used /\ o.used <= supply - pos
         /\ o.how = "ok" => /\ o.used = o.got
                            /\ o.got < n => o.used = supply - pos
         /\ o.how # "ok" => o.how \in {"panic", "jump"} /\ o.got < n
<1> DEFINE left == supply - pos
           good == [got |-> Least(n, left), used |-> Least(n, left), how |-> "ok"]
           bad == [got : 0..Least(n - 1, left), used : 0..left, how : {"panic", "jump"}]
<1>1. left \in Nat /\ n - 1 \in Nat
  OBVIOUS
<1>2. o = good \/ (o \in bad /\ o.used \in {o.got, o.got + 1})
  BY DEF Pull
<1> HIDE DEF left
<1>3. CASE o = good
  BY <1>1, <1>3 DEF Least, left
<1>4. CASE o \in bad /\ o.used \in {o.got, o.got + 1}
  <2>1. o.got \in 0..Least(n - 1, left) /\ o.used \in 0..left /\ o.how \in {"panic", "jump"}
    BY <1>4
  <2>2. Least(n - 1, left) <= n - 1 /\ Least(n - 1, left) \in Nat
    BY <1>1 DEF Least
  <2> QED
    BY <1>1, <1>4, <2>1, <2>2 DEF left
<1> QED
  BY <1>2, <1>3, <1>4

-----------------------------------------------------------------------------
(* Steps                                                                   *)

\* The special values are none of the elements, nor of each other.
LEMMA SpecialValues ==
  /\ NA \in Values /\ Failed \notin Values /\ Unread \notin Values /\ NA \notin Elements
  /\ Elements \subseteq Values /\ Failed # Unread
BY LenAssumption DEF Values, Elements, NA, Zeroed, Failed, Unread

\* An index is a natural number below the length.
LEMMA IndexFacts ==
  ASSUME NEW i \in Index
  PROVE  i \in Nat /\ i < len /\ len \in Nat
BY LenAssumption DEF Index

\* Elements are natural numbers, and none of the values that stand for no element.
LEMMA ElementFacts ==
  ASSUME NEW u \in Elements
  PROVE  u \in Nat /\ u # NA /\ u # Failed /\ u # Unread
BY LenAssumption DEF Elements, NA, Failed, Unread

\* The elements an iterator yields extend a memory in order.
LEMMA GrownInOrder ==
  ASSUME HeldInOrder, NEW F \in Nat, pos \in Nat,
         \A j \in Index, u \in Elements : Holds(j, u) => j < F /\ u < pos,
         \A j \in Index, u \in Elements :
            Holds(j, u)' => Holds(j, u) \/ (j >= F /\ u = pos + j - F)
  PROVE  HeldInOrder'
<1>1. ASSUME NEW j \in Index, NEW k \in Index, NEW u \in Elements, NEW v \in Elements,
             Holds(j, u)', Holds(k, v)', j < k
      PROVE  u < v
  <2>1. j \in Nat /\ k \in Nat /\ u \in Nat /\ v \in Nat
    BY IndexFacts, ElementFacts
  <2>2. CASE Holds(j, u) /\ Holds(k, v)
    BY <1>1, <2>2 DEF HeldInOrder
  <2>3. CASE Holds(j, u) /\ k >= F /\ v = pos + k - F
    <3>1. u < pos
      BY <2>3
    <3> QED
      BY ONLY <2>1, <2>3, <3>1, F \in Nat, pos \in Nat
  <2>4. CASE j >= F /\ u = pos + j - F /\ Holds(k, v)
    <3>1. k < F
      BY <2>4
    <3> QED
      BY ONLY <1>1, <2>1, <2>4, <3>1, F \in Nat
  <2>5. CASE j >= F /\ u = pos + j - F /\ k >= F /\ v = pos + k - F
    BY ONLY <1>1, <2>1, <2>5, F \in Nat, pos \in Nat
  <2> QED
    BY <1>1, <2>2, <2>3, <2>4, <2>5
<1> QED
  BY <1>1 DEF HeldInOrder, Index, Elements

\* Answer: if the memory stays in order, keeps what it held of the indices that
\* are not gone, or is emptied, and holds what is answered, all stays in order.
LEMMA OrderStep ==
  ASSUME IInv, NEW i \in Index, NEW v \in Values \cup {Failed}, Answer(i, v),
         HeldInOrder', HeldBehind', kind' = kind,
         window_start \in Nat, window_start' \in Nat, window_start <= window_start',
         Emptied => Emptied', Emptied' => v \notin Elements,
         \A j \in Index, u \in Elements :
            ~GoneFromWindow(j)' /\ Holds(j, u) => Holds(j, u)' \/ Emptied',
         v \in Elements /\ ~GoneFromWindow(i)' => Holds(i, v)' \/ Emptied'
  PROVE  OrderInv'
<1>1. /\ seen \in [Index -> Values \cup {Unread}]
      /\ seen' = IF v # Failed /\ seen[i] = Unread THEN [seen EXCEPT ![i] = v] ELSE seen
  BY DEF IInv, TypeOK, Answer
<1>2. \A j \in Index : seen'[j] = seen[j] \/ (j = i /\ seen'[j] = v)
  BY <1>1
<1>3. \A j \in Index : /\ j \in Nat
                       /\ ~GoneFromWindow(j)' => ~GoneFromWindow(j)
                       /\ \A k \in Index : j < k /\ ~GoneFromWindow(j)' => ~GoneFromWindow(k)'
  BY IndexFacts DEF GoneFromWindow
<1>4. SeenHeld'
  <2>1. ASSUME NEW j \in Index, NEW u \in Elements, seen'[j] = u, ~GoneFromWindow(j)'
        PROVE  Holds(j, u)' \/ Emptied'
    <3>1. CASE seen[j] = u
      BY <1>3, <2>1, <3>1 DEF IInv, OrderInv, SeenHeld
    <3>2. CASE j = i /\ u = v
      BY <2>1, <3>2
    <3> QED
      BY <1>2, <2>1, <3>1, <3>2
  <2> QED
    BY <2>1 DEF SeenHeld, Index, Elements
<1>5. AnswersInOrder'
  <2>1. ASSUME NEW j \in Index, NEW k \in Index, j < k, ~GoneFromWindow(j)',
               seen'[j] \in Elements, seen'[k] \in Elements
        PROVE  seen'[j] < seen'[k]
    <3>1. CASE Emptied'
      <4>1. seen'[j] = seen[j] /\ seen'[k] = seen[k]
        BY <1>2, <2>1, <3>1
      <4> QED
        BY <1>3, <2>1, <4>1 DEF IInv, OrderInv, AnswersInOrder
    <3>2. CASE ~Emptied'
      <4>1. PICK u, w : u = seen'[j] /\ w = seen'[k]
        OBVIOUS
      <4>2. u \in Elements /\ w \in Elements /\ ~GoneFromWindow(k)'
        BY <1>3, <2>1, <4>1
      <4>3. Holds(j, u)' /\ Holds(k, w)'
        BY <1>4, <2>1, <3>2, <4>1, <4>2 DEF SeenHeld, Index, Elements
      <4> QED
        BY <2>1, <4>1, <4>2, <4>3 DEF HeldInOrder, Index, Elements
    <3> QED
      BY <3>1, <3>2
  <2> QED
    BY <2>1 DEF AnswersInOrder, Index, Elements
<1> QED
  BY <1>4, <1>5 DEF OrderInv

\* A read of a stream answers its index, if anything.
LEMMA StreamOrder ==
  ASSUME IInv, kind = "stream", kind' = "stream", window_start' = window_start,
         NEW i \in Index, NEW v \in {i, NA, Failed}, v \in Values \cup {Failed}, Answer(i, v)
  PROVE  OrderInv'
<1>1. HeldInOrder' /\ HeldBehind'
  BY DEF HeldInOrder, HeldBehind, Holds
<1>2. ~Emptied /\ ~Emptied'
  BY DEF Emptied
<1>3. \A j, u : Holds(j, u) => Holds(j, u)'
  BY DEF Holds
<1>4. v \in Elements => Holds(i, v)'
  BY ElementFacts DEF Holds
<1>5. window_start \in Nat
  BY LenAssumption DEF IInv, TypeOK, MemoryTyped
<1> QED
  BY <1>1, <1>2, <1>3, <1>4, <1>5, OrderStep

\* Answer: if a step takes back no answer the memory stands by, and stands by
\* the one it gives, all answers stay recalled.
LEMMA ReadStep ==
  ASSUME IInv, NEW i \in Index, NEW v \in Values \cup {Failed}, Answer(i, v),
         MemoryTyped', MemoryRight',
         \A j \in Index : Told(j)' => Told(j),
         \A j \in Index, u \in Values : Told(j)' /\ Recalls(j, u) => Recalls(j, u)',
         v # Failed /\ Told(i)' => Recalls(i, v)',
         OrderInv'
  PROVE  IInv'
<1>1. /\ seen \in [Index -> Values \cup {Unread}]
      /\ answer' = [index |-> i, value |-> v]
      /\ seen' = IF v # Failed /\ seen[i] = Unread THEN [seen EXCEPT ![i] = v] ELSE seen
  BY DEF IInv, TypeOK, Answer
<1>2. TypeOK'
  <2>1. /\ answer' \in [index : Index \cup {0}, value : Values \cup {Failed, Unread}]
        /\ seen' \in [Index -> Values \cup {Unread}]
    BY <1>1
  <2> QED
    BY <2>1 DEF TypeOK, Index, Values, Elements
<1>3. \A j \in Index, u \in Values : seen[j] = u /\ Told(j) => Recalls(j, u)
  BY DEF IInv, AnswersRecalled
<1>4. ASSUME NEW j \in Index, NEW u \in Values, seen'[j] = u, Told(j)'
      PROVE  Recalls(j, u)'
  <2>1. CASE seen[j] = u
    BY <1>3, <1>4, <2>1
  <2>2. CASE seen[j] # u
    <3>1. j = i /\ v = u /\ v # Failed
      BY <1>1, <1>4, <2>2
    <3> QED
      BY <1>4, <3>1
  <2> QED
    BY <2>1, <2>2
<1>5. ASSUME NEW j \in Index, NEW u \in Values, answer'.index = j, answer'.value = u
      PROVE  seen'[j] # Unread /\ (Told(j)' => Recalls(j, u)')
  <2>1. j = i /\ v = u /\ v # Failed /\ v # Unread
    BY <1>1, <1>5, SpecialValues
  <2> QED
    BY <1>1, <2>1
<1>6. Answered' => answer'.index \in Index
  BY <1>1
<1>7. AnswersRecalled'
  BY <1>4, <1>5, <1>6 DEF AnswersRecalled, Index, Values, Elements
<1> QED
  BY <1>2, <1>7 DEF IInv

\* A read from memory changes nothing there.
LEMMA MemoryStep ==
  ASSUME IInv, NEW i \in Index, NEW v \in Values \cup {Failed}, Memory(i, v),
         v # Failed /\ Told(i) => Recalls(i, v),
         v \in Elements => ~Emptied /\ (GoneFromWindow(i) \/ Holds(i, v))
  PROVE  IInv'
<1> USE DEF Memory, given, cached, cells
<1>1. Answer(i, v)
  BY DEF Memory
<1>2. MemoryTyped'
  BY DEF IInv, TypeOK, MemoryTyped, IsMaterialized, Index, Values, Elements
<1>3. MemoryRight'
  BY DEF IInv, MemoryRight, PrefixRight, SparseRight, WindowRight, StreamRight, IsMaterialized,
         Index, At, CutOff
<1>4. \A j \in Index : Told(j)' = Told(j)
  BY DEF Told
<1>5. \A j \in Index, u \in Values : Recalls(j, u)' = Recalls(j, u)
  BY DEF Recalls, PrefixRecalls, SparseRecalls, WindowRecalls, StreamRecalls, Chunk,
         IsMaterialized, At
<1>6. /\ kind' = kind /\ window_start' = window_start /\ Emptied' = Emptied
      /\ \A j : GoneFromWindow(j)' = GoneFromWindow(j)
      /\ \A j, u : Holds(j, u)' = Holds(j, u)
  BY DEF Emptied, IsMaterialized, GoneFromWindow, Holds, At
<1>7. HeldInOrder' /\ HeldBehind'
  <2>1. HeldInOrder'
    BY <1>6 DEF IInv, OrderInv, HeldInOrder, Index, Elements
  <2>2. HeldBehind'
    BY <1>6 DEF IInv, OrderInv, HeldBehind, IsMaterialized, Index, Elements
  <2> QED
    BY <2>1, <2>2
<1>8. window_start \in Nat
  BY LenAssumption DEF IInv, TypeOK, MemoryTyped
<1>9. OrderInv'
  <2> HIDE DEF Memory, given, cached, cells
  <2> QED
    BY <1>1, <1>6, <1>7, <1>8, OrderStep
<1> QED
  <2> HIDE DEF Memory, given, cached, cells
  <2>1. v # Failed /\ Told(i)' => Recalls(i, v)'
    BY <1>4, <1>5, SpecialValues
  <2> QED
    BY <1>1, <1>2, <1>3, <1>4, <1>5, <1>9, <2>1, ReadStep

\* A read that fails without moving the iterator changes nothing.
LEMMA FailedStep ==
  ASSUME IInv, NEW i \in Index, Memory(i, Failed)
  PROVE  IInv'
<1>1. Failed \notin Elements
  BY ElementFacts
<1> QED
  BY <1>1, MemoryStep

-----------------------------------------------------------------------------
(* StreamingIntData, StreamingRealData                                     *)

\* The chunk of an index starts at or before it and does not end before it.
LEMMA ChunkFacts ==
  ASSUME NEW i \in Nat, NEW s \in Nat \ {0}
  PROVE  /\ i \div s \in Nat /\ i \div s <= i /\ (i \div s) * s \in Nat
         /\ i % s \in 0..s - 1 /\ (i \div s) * s + (i % s) = i
<1>1. i \div s \in Int /\ i \div s <= i /\ i \div s >= 0
  OBVIOUS
<1>2. i % s \in 0..s - 1 /\ i = s * (i \div s) + (i % s)
  OBVIOUS
<1>3. (i \div s) * s = s * (i \div s) /\ (i \div s) * s \in Nat
  BY <1>1
<1> QED
  BY <1>1, <1>2, <1>3

\* A read of a stream keeps the invariant, whether it finds its chunk, reads it
\* or fails at the borrow, at the reader, or by a panic or a longjmp.
LEMMA StreamElementStep ==
  ASSUME IInv, NEW i \in Index, StreamElement(i)
  PROVE  IInv'
<1> DEFINE c == Chunk(i)
           start == c * size
           count == Least(size, len - start)
           there == Least(count, IF supply > start THEN supply - start ELSE 0)
           y == Yielded(start, there)
<1>1. /\ kind = "stream" /\ size \in Nat \ {0} /\ supply \in 0..MaxSupply
      /\ slots \in [DOMAIN slots -> Seq(Elements)] /\ MemoryTyped /\ MemoryRight
      /\ StreamRight /\ i \in Nat /\ i < len /\ len \in Nat
  BY IndexFacts, SizesAssumption DEF IInv, TypeOK, MemoryTyped, MemoryRight, StreamElement
<1>2. /\ c \in Nat /\ c \in Index /\ start \in Nat /\ start <= i
      /\ i % size \in 0..size - 1 /\ start + (i % size) = i
  <2>1. /\ c \in Nat /\ c <= i /\ start \in Nat /\ i % size \in 0..size - 1
        /\ start + (i % size) = i
    BY <1>1, ChunkFacts, Zenon DEF Chunk
  <2> HIDE DEF c
  <2>2. c \in Index
    BY <1>1, <2>1 DEF Index
  <2> HIDE DEF start
  <2>3. start <= i
    BY <1>1, <2>1
  <2> QED
    BY <2>1, <2>2, <2>3
<1> HIDE DEF c
<1>3. CASE borrowed # "none" /\ Memory(i, Failed)
  BY <1>3, FailedStep
<1>4. CASE c \in DOMAIN slots /\ Memory(i, At(slots[c], i % size))
  <2>1. PICK v : v = At(slots[c], i % size)
    OBVIOUS
  <2>2. i % size \in Nat
    BY <1>1, <1>2
  <2>3. v \in Values
    BY <1>1, <1>4, <2>1, <2>2, AtFacts, SpecialValues
  <2>4. Recalls(i, v)
    <3>1. PICK r, n : r = i % size /\ n = Len(slots[c])
      OBVIOUS
    <3>2. /\ r \in 0..size - 1 /\ start + r = i /\ v = At(slots[c], r) /\ start \in Nat
      BY <1>2, <2>1, <3>1
    <3>3. readAt[c] \in Nat /\ n \in Nat
      BY <1>1, <1>4, <3>1, LenAssumption DEF MemoryTyped
    <3>4. /\ readAt[c] <= supply
          /\ \A j \in 1..n : slots[c][j] = start + j - 1
          /\ start + r < len => (r < n <=> start + r < readAt[c])
      BY <1>1, <1>4, <3>1, <3>2 DEF StreamRight
    <3> HIDE DEF start
    <3>5. r < n => v = i
      <4>1. r < n => r + 1 \in 1..n /\ start + (r + 1) - 1 = i
        BY ONLY <3>2, <3>3
      <4> QED
        BY <3>1, <3>2, <3>4, <4>1 DEF At
    <3>6. ~(r < n) => v = NA
      BY <3>1, <3>2 DEF At
    <3>7. /\ i < readAt[c] => v = i /\ i < supply
          /\ i >= readAt[c] => v = NA
      BY <1>1, <3>2, <3>3, <3>4, <3>5, <3>6
    <3>8. Chunk(i) = c /\ c \in DOMAIN slots
      BY <1>4 DEF c
    <3>9. StreamRecalls(i, v)
      BY <1>1, <3>3, <3>7, <3>8 DEF StreamRecalls
    <3> QED
      BY <1>1, <3>9 DEF Recalls
  <2>5. Memory(i, v)
    BY <1>4, <2>1
  <2>6. v \in Elements => ~Emptied /\ Holds(i, v)
    BY <1>1, <2>4, ElementFacts DEF Recalls, StreamRecalls, Holds, Emptied
  <2> QED
    BY <2>3, <2>4, <2>5, <2>6, MemoryStep
<1>5. CASE /\ c \notin DOMAIN slots
           /\ slots' = Cached(c, y) /\ Answer(i, At(y, i % size))
           /\ readAt' = [k \in DOMAIN slots' |-> IF k = c THEN supply ELSE readAt[k]]
           /\ UNCHANGED <<given, supply, pos, iter, cache, tracked,
                          window_start, materialized, borrowed, wasted>>
  <2>1. /\ there \in Nat /\ there <= size /\ (there > 0 => start + there <= supply)
        /\ \A r \in 0..size - 1 : start + r < len => (r < there <=> start + r < supply)
    <3> HIDE DEF start
    <3>0. /\ start \in Nat /\ start <= i /\ i \in Nat /\ i < len /\ len \in Nat
          /\ size \in Nat \ {0} /\ supply \in Nat
      BY <1>1, <1>2
    <3>1. /\ count \in Nat /\ count <= size
          /\ \A r \in 0..size - 1 : start + r < len => r < count
      BY ONLY <3>0 DEF Least
    <3> HIDE DEF count
    <3> DEFINE left == IF supply > start THEN supply - start ELSE 0
    <3>2. /\ left \in Nat /\ (left > 0 => start + left <= supply)
          /\ \A r \in 0..size - 1 : r < left <=> start + r < supply
      BY ONLY <3>0
    <3> HIDE DEF left
    <3>3. /\ Least(count, left) \in Nat
          /\ Least(count, left) <= count /\ Least(count, left) <= left
          /\ Least(count, left) \in {count, left}
      BY <3>1, <3>2 DEF Least
    <3>4. there = Least(count, left)
      BY DEF left
    <3> HIDE DEF there
    <3> QED
      BY ONLY <3>0, <3>1, <3>2, <3>3, <3>4
  <2> HIDE DEF start, there
  <2>2. y \in Seq(Elements) /\ Len(y) = there /\ \A j \in 1..there : y[j] = start + j - 1
    <3>1. start \in Nat /\ there \in Nat /\ (there > 0 => start + there <= MaxSupply)
      BY <1>1, <1>2, <2>1, LenAssumption
    <3> QED
      BY ONLY <3>1, YieldedFacts
  <2> HIDE DEF y
  <2>3. /\ DOMAIN slots' = DOMAIN slots \cup {c} /\ slots'[c] = y
        /\ \A k \in DOMAIN slots : slots'[k] = slots[k]
        /\ slots' \in [DOMAIN slots' -> Seq(Elements)]
    <3>1. /\ DOMAIN slots' = DOMAIN slots \cup {c} /\ slots'[c] = y
          /\ \A k \in DOMAIN slots : slots'[k] = slots[k]
      BY <1>5 DEF Cached
    <3>2. \A k \in DOMAIN slots' : slots'[k] \in Seq(Elements)
      BY <1>1, <2>2, <3>1
    <3>3. slots' = [k \in DOMAIN slots' |-> slots'[k]]
      BY <1>5 DEF Cached
    <3> QED
      BY <3>1, <3>2, <3>3
  <2>30. /\ DOMAIN readAt' = DOMAIN slots' /\ readAt' \in [DOMAIN slots' -> 0..MaxSupply]
         /\ readAt'[c] = supply /\ \A k \in DOMAIN slots : readAt'[k] = readAt[k]
    BY <1>1, <1>5, <2>3 DEF MemoryTyped
  <2>4. MemoryTyped'
    BY <1>1, <1>2, <1>5, <2>3, <2>30
       DEF MemoryTyped, given, cached, IsMaterialized, Index, Values, Elements
  <2>5. MemoryRight'
    <3>1. StreamRight'
      <4>1. size' = size /\ supply' = supply
        BY <1>5 DEF given
      <4>2. ASSUME NEW k \in DOMAIN slots'
            PROVE  /\ \A j \in 1..Len(slots'[k]) : slots'[k][j] = k * size + j - 1
                   /\ \A r \in 0..size - 1 : k * size + r < len =>
                         (r < Len(slots'[k]) <=> k * size + r < readAt'[k])
                   /\ readAt'[k] <= supply
        <5>1. CASE k = c
          BY <1>1, <2>1, <2>2, <2>3, <2>30, <5>1 DEF start
        <5>2. CASE k # c
          BY <1>1, <2>3, <2>30, <4>2, <5>2 DEF StreamRight
        <5> QED
          BY <5>1, <5>2
      <4> QED
        BY <4>1, <4>2 DEF StreamRight
    <3> QED
      BY <1>1, <1>5, <3>1 DEF MemoryRight, given, cached
  <2>6. PICK v : v = At(y, i % size)
    OBVIOUS
  <2>7. v \in Values /\ Answer(i, v)
    <3>1. i % size \in Nat
      BY <1>1, <1>2
    <3> QED
      BY <1>5, <2>2, <2>6, <3>1, AtFacts, SpecialValues
  <2>8. Recalls(i, v)'
    <3>1. PICK r : r = i % size
      OBVIOUS
    <3>2. r \in 0..size - 1 /\ start + r = i /\ v = At(y, r) /\ (r < there <=> i < supply)
      BY <1>1, <1>2, <2>1, <2>6, <3>1
    <3>3. r < there => v = i
      <4>1. r < there => r + 1 \in 1..there /\ start + (r + 1) - 1 = i
        <5>1. start \in Nat /\ there \in Nat /\ r \in Nat
          BY <1>2, <2>1, <3>2
        <5> QED
          BY ONLY <3>2, <5>1
      <4> QED
        BY <2>2, <3>2, <4>1 DEF At
    <3>4. ~(r < there) => v = NA
      BY <2>2, <3>2 DEF At
    <3>5. kind' = "stream" /\ size' = size /\ supply' = supply
      BY <1>1, <1>5 DEF given
    <3>6. /\ i < readAt'[c] => v = i /\ i < supply'
          /\ i >= readAt'[c] => v = NA
          /\ c \in DOMAIN slots' /\ readAt'[c] \in Nat
      BY <1>1, <2>3, <2>30, <3>2, <3>3, <3>4, <3>5
    <3>7. Chunk(i)' = c
      BY <3>5 DEF c, Chunk
    <3>8. StreamRecalls(i, v)'
      BY <1>1, <3>5, <3>6, <3>7 DEF StreamRecalls
    <3> QED
      BY <3>5, <3>8 DEF Recalls
  <2>9. ASSUME NEW j \in Index, NEW u \in Values, Recalls(j, u)
        PROVE  Recalls(j, u)'
    <3>1. kind' = "stream" /\ size' = size /\ supply' = supply /\ j \in Nat
      BY <1>1, <1>5, IndexFacts DEF given
    <3>2. StreamRecalls(j, u)
      BY <1>1, <2>9 DEF Recalls
    <3>3. StreamRecalls(j, u)'
      BY <1>1, <2>3, <2>30, <3>1, <3>2 DEF StreamRecalls, Chunk
    <3> QED
      BY <3>1, <3>3 DEF Recalls
  <2>10. \A j \in Index : Told(j)' => Told(j)
    BY <1>1 DEF Told
  <2>11. OrderInv'
    <3>1. v \in {i, NA}
      BY <1>1, <1>5, <2>8 DEF Recalls, StreamRecalls, given
    <3> QED
      BY <1>1, <1>5, <2>7, <3>1, StreamOrder DEF given
  <2> QED
    BY <2>4, <2>5, <2>7, <2>8, <2>9, <2>10, <2>11, ReadStep
<1>6. CASE /\ Answer(i, Failed) /\ borrowed' \in {"none", "all"}
           /\ UNCHANGED <<given, supply, pos, cells, wasted>>
  <2>1. MemoryTyped'
    BY <1>1, <1>6 DEF MemoryTyped, given, cached, cells, IsMaterialized, Index, Values, Elements
  <2>2. MemoryRight'
    BY <1>1, <1>6 DEF MemoryRight, StreamRight, given, cached, cells
  <2>3. \A j \in Index, u \in Values : Recalls(j, u) => Recalls(j, u)'
    BY <1>1, <1>6 DEF Recalls, StreamRecalls, Chunk, given, cached, cells
  <2>4. \A j \in Index : Told(j)' => Told(j)
    BY <1>1 DEF Told
  <2>5. OrderInv'
    BY <1>1, <1>6, StreamOrder DEF given, cells
  <2> QED
    BY <1>6, <2>1, <2>2, <2>3, <2>4, <2>5, ReadStep
<1> QED
  BY <1>3, <1>4, <1>5, <1>6 DEF StreamElement, c

\* What the reader of a stream comes to have changes no chunk that was read.
LEMMA StreamGrowsStep ==
  ASSUME IInv, StreamGrows
  PROVE  IInv'
<1> USE DEF StreamGrows, given, cached, cells
<1>1. kind = "stream" /\ kind' = "stream" /\ supply' \in 0..MaxSupply /\ pos \in 0..supply'
  BY LenAssumption DEF IInv, TypeOK, MemoryTyped
<1>2. MemoryTyped'
  BY <1>1 DEF IInv, TypeOK, MemoryTyped, IsMaterialized, Index, Values, Elements
<1>3. TypeOK'
  BY <1>2 DEF IInv, TypeOK, Index, Values, Elements
<1>4. MemoryRight'
  <2>1. \A k \in DOMAIN slots : readAt[k] \in Nat /\ readAt[k] <= supply
    BY <1>1, LenAssumption DEF IInv, TypeOK, MemoryTyped, MemoryRight, StreamRight
  <2>2. \A k \in DOMAIN slots : readAt[k] <= supply'
    BY <1>1, <2>1 DEF IInv, TypeOK, MemoryTyped
  <2> QED
    BY <1>1, <2>2 DEF IInv, MemoryRight, StreamRight
<1>5. \A j \in Index, u \in Values : Recalls(j, u) => Recalls(j, u)'
  <2>1. ASSUME NEW j \in Index, NEW u \in Values, Recalls(j, u)
        PROVE  Recalls(j, u)'
    <3>1. StreamRecalls(j, u) /\ j \in Nat /\ supply \in Nat /\ supply' = supply + 1
      BY <1>1, <2>1, IndexFacts DEF Recalls, IInv, TypeOK, MemoryTyped
    <3>2. StreamRecalls(j, u)'
      BY <3>1 DEF StreamRecalls, Chunk
    <3> QED
      BY <1>1, <3>2 DEF Recalls
  <2> QED
    BY <2>1
<1>6. AnswersRecalled'
  BY <1>1, <1>5 DEF IInv, AnswersRecalled, Answered, Told, Index, Values, Elements
<1>7. OrderInv'
  <2>1. HeldInOrder' /\ HeldBehind'
    BY <1>1 DEF HeldInOrder, HeldBehind, Holds
  <2>2. SeenHeld' /\ AnswersInOrder'
    BY <1>1 DEF IInv, OrderInv, SeenHeld, AnswersInOrder, GoneFromWindow, Holds, Emptied, Index,
                Elements
  <2> QED
    BY <2>1, <2>2 DEF OrderInv
<1> QED
  BY <1>3, <1>4, <1>6, <1>7 DEF IInv

\* A region gives what the source has, or nothing.
LEMMA StreamRegionStep ==
  ASSUME IInv, NEW i \in Index, StreamRegion(i)
  PROVE  IInv'
<1>1. kind = "stream" /\ i \in Nat /\ supply \in 0..MaxSupply
  BY IndexFacts DEF StreamRegion, IInv, TypeOK, MemoryTyped
<1>2. CASE i < supply /\ Memory(i, i)
  <2>1. i \in Values
    BY <1>1, <1>2, LenAssumption DEF Values, Elements
  <2>2. Recalls(i, i)
    BY <1>1, <1>2 DEF Recalls, StreamRecalls
  <2>3. ~Emptied /\ Holds(i, i)
    BY <1>1 DEF Holds, Emptied
  <2> QED
    BY <1>2, <2>1, <2>2, <2>3, MemoryStep
<1>3. CASE Memory(i, Failed)
  BY <1>3, FailedStep
<1> QED
  BY <1>2, <1>3 DEF StreamRegion

-----------------------------------------------------------------------------
(* SparseIterState                                                         *)

\* A read of a sparse vector keeps the invariant: what was skipped stays NA,
\* and an NA from the end of the source does too.
LEMMA SparseElementStep ==
  ASSUME IInv, NEW i \in Index, SparseElement(i)
  PROVE  IInv'
<1>1. /\ kind = "sparse" /\ supply \in 0..MaxSupply /\ pos \in 0..supply
      /\ tracked \in 0..len /\ slots \in [DOMAIN slots -> Elements]
      /\ MemoryTyped /\ MemoryRight /\ i \in Nat /\ i < len /\ len \in Nat
  BY IndexFacts DEF IInv, TypeOK, MemoryTyped, MemoryRight, SparseElement
<1>2. CASE i \in DOMAIN slots /\ Memory(i, slots[i])
  <2>1. PICK v : v = slots[i]
    OBVIOUS
  <2>2. v \in Values /\ Memory(i, v)
    BY <1>1, <1>2, <2>1, SpecialValues
  <2>3. Recalls(i, v)
    BY <1>1, <1>2, <2>1 DEF Recalls, SparseRecalls
  <2>4. ~Emptied /\ Holds(i, v)
    BY <1>1, <1>2, <2>1 DEF Holds, Emptied
  <2> QED
    BY <2>2, <2>3, <2>4, MemoryStep
<1>3. CASE Memory(i, Failed)
  BY <1>3, FailedStep
<1>4. CASE i \notin DOMAIN slots /\ i < tracked /\ Memory(i, NA)
  <2>1. Recalls(i, NA)
    BY <1>1, <1>4 DEF Recalls, SparseRecalls
  <2> QED
    BY <1>4, <2>1, MemoryStep, SpecialValues
<1>5. ASSUME i \notin DOMAIN slots, i >= tracked, NEW o \in Pull(i + 1 - tracked),
             LET found == o.how = "ok" /\ o.got = i + 1 - tracked
                 v == IF found THEN pos + o.got - 1 ELSE NA
             IN  /\ Ends(i, v, o, "iter", 0)
                 /\ IF found
                    THEN /\ slots' = Cached(i, v)
                         /\ tracked' = NextTracked(i)
                    ELSE UNCHANGED <<slots, tracked>>,
             UNCHANGED <<given, supply, iter, cache, readAt, window_start, materialized>>
      PROVE  IInv'
  <2>1. PICK n : n = i + 1 - tracked
    OBVIOUS
  <2>2. /\ o.got \in Nat /\ o.used \in Nat /\ o.got <= n
        /\ o.got <= o.used /\ o.used <= supply - pos
        /\ o.how = "ok" => o.used = o.got /\ (o.got < n => o.used = supply - pos)
    <3>1. n \in Nat \ {0} /\ o \in Pull(n) /\ supply \in Nat
      BY <1>1, <1>5, <2>1
    <3> QED
      BY <1>1, <3>1, PullFacts
  <2>3. /\ pos' = pos + o.used /\ kind' = kind /\ size' = size /\ supply' = supply
        /\ borrowed' \in {borrowed, "iter"}
        /\ wasted' = (wasted \/ (o.how # "ok" /\ o.used # 0))
        /\ UNCHANGED <<iter, cache, window_start, materialized>>
    BY <1>5 DEF Ends, given, cached
  <2>4. pos' \in 0..supply /\ (wasted' \in BOOLEAN) /\ borrowed' \in {"none", "iter", "all"}
    <3>1. pos' \in 0..supply
      BY <1>1, <2>2, <2>3
    <3>2. (wasted' \in BOOLEAN) /\ borrowed' \in {"none", "iter", "all"}
      BY <1>1, <2>3 DEF MemoryTyped
    <3> QED
      BY <3>1, <3>2
  <2>5. \A j \in Index : Told(j) /\ Told(j)'
    BY <1>1, <2>3 DEF Told
  <2>6. CASE o.how = "ok" /\ o.got = n
    <3>1. PICK v : v = pos + o.got - 1
      OBVIOUS
    <3>2. /\ slots' = Cached(i, v) /\ tracked' = i + 1 /\ Answer(i, v)
      BY <1>5, <2>1, <2>6, <3>1 DEF Ends, NextTracked
    <3>3. v \in Elements /\ pos # supply /\ v = pos + i - tracked /\ pos' = pos + i + 1 - tracked
      BY <1>1, <1>5, <2>1, <2>2, <2>3, <2>6, <3>1, LenAssumption DEF Elements
    <3>4. /\ DOMAIN slots' = DOMAIN slots \cup {i} /\ slots'[i] = v
          /\ \A k \in DOMAIN slots : slots'[k] = slots[k]
          /\ slots' \in [DOMAIN slots' -> Elements]
      <4>1. /\ DOMAIN slots' = DOMAIN slots \cup {i} /\ slots'[i] = v
            /\ \A k \in DOMAIN slots : slots'[k] = slots[k]
        BY <1>5, <3>2 DEF Cached
      <4>2. \A k \in DOMAIN slots' : slots'[k] \in Elements
        BY <1>1, <3>3, <4>1
      <4>3. slots' = [k \in DOMAIN slots' |-> slots'[k]]
        BY <3>2 DEF Cached
      <4> QED
        BY <4>1, <4>2, <4>3
    <3>5. tracked' \in 0..len /\ window_start' \in 0..tracked'
      BY <1>1, <1>5, <2>3, <3>2 DEF MemoryTyped
    <3>6. MemoryTyped'
      BY <1>1, <2>3, <2>4, <3>4, <3>5
         DEF MemoryTyped, IsMaterialized, Index, Values, Elements
    <3>7. MemoryRight'
      <4>1. ASSUME ~wasted'
            PROVE  SparseRight'
        <5>1. SparseRight
          BY <1>1, <2>3, <4>1 DEF MemoryRight
        <5>2. pos = tracked /\ v = i /\ pos' = tracked'
          BY <1>1, <1>5, <3>2, <3>3, <5>1 DEF SparseRight
        <5> QED
          BY <1>1, <2>4, <3>4, <5>1, <5>2 DEF SparseRight
      <4> QED
        BY <1>1, <2>3, <4>1 DEF MemoryRight
    <3>8. Recalls(i, v)'
      BY <1>1, <2>3, <3>4 DEF Recalls, SparseRecalls
    <3>9. ASSUME NEW j \in Index, NEW u \in Values, Recalls(j, u)
          PROVE  Recalls(j, u)'
      <4>1. SparseRecalls(j, u)
        BY <1>1, <3>9 DEF Recalls
      <4>2. j \in Nat /\ (j < tracked => j < tracked')
        BY <1>1, <1>5, <3>2, IndexFacts
      <4>3. SparseRecalls(j, u)'
        BY <1>1, <1>5, <2>3, <3>3, <3>4, <4>1, <4>2 DEF SparseRecalls
      <4> QED
        BY <1>1, <2>3, <4>3 DEF Recalls
    <3>10. OrderInv'
      <4>1. HeldInOrder /\ HeldBehind /\ kind' = "sparse" /\ window_start' = window_start
        BY <1>1, <2>3 DEF IInv, OrderInv
      <4>2. \A j \in Index, u \in Elements : Holds(j, u) => j < tracked /\ u < pos
        BY <1>1, <4>1 DEF HeldBehind
      <4>3. \A j \in Index, u \in Elements : Holds(j, u)' <=> Holds(j, u) \/ (j = i /\ u = v)
        BY <1>1, <1>5, <3>4, <4>1 DEF Holds
      <4>4. HeldInOrder'
        BY <1>1, <1>5, <3>3, <4>1, <4>2, <4>3, GrownInOrder
      <4>5. HeldBehind'
        <5>1. ASSUME NEW j \in Index, NEW u \in Elements, Holds(j, u)'
              PROVE  u < pos' /\ j < tracked'
          <6>1. (j < tracked /\ u < pos) \/ (j = i /\ u = v)
            BY <4>2, <4>3, <5>1
          <6> QED
            BY <1>1, <1>5, <3>2, <3>3, <6>1, IndexFacts, ElementFacts
        <5> QED
          BY <5>1 DEF HeldBehind, Index, Elements
      <4>6. ~Emptied /\ ~Emptied' /\ window_start \in Nat
        BY <1>1, <4>1 DEF Emptied, MemoryTyped
      <4> QED
        BY <1>1, <3>2, <3>3, <4>1, <4>3, <4>4, <4>5, <4>6, OrderStep, SpecialValues
    <3> QED
      BY <2>5, <3>2, <3>3, <3>6, <3>7, <3>8, <3>9, <3>10, ReadStep, SpecialValues
  <2>7. CASE ~(o.how = "ok" /\ o.got = n)
    <3>1. PICK v : v = IF o.how = "ok" THEN NA ELSE Failed
      OBVIOUS
    <3>2. slots' = slots /\ tracked' = tracked /\ Answer(i, v)
      BY <1>5, <2>1, <2>7, <3>1 DEF Ends
    <3>3. MemoryTyped'
      BY <1>1, <2>3, <2>4, <3>2
         DEF MemoryTyped, IsMaterialized, Index, Values, Elements
    <3>4. (pos = supply => pos' = supply) /\ (o.how = "ok" => pos' = supply)
      BY <1>1, <1>5, <2>1, <2>2, <2>3, <2>7
    <3>5. MemoryRight'
      <4>1. ASSUME ~wasted'
            PROVE  SparseRight'
        <5>1. SparseRight /\ (o.how # "ok" => o.used = 0)
          BY <1>1, <2>3, <4>1 DEF MemoryRight
        <5>2. tracked <= pos' /\ (pos' = tracked \/ pos' = supply)
          BY <1>1, <2>2, <2>3, <3>4, <5>1 DEF SparseRight
        <5> QED
          BY <2>3, <3>2, <5>1, <5>2 DEF SparseRight
      <4> QED
        BY <1>1, <2>3, <4>1 DEF MemoryRight
    <3>6. ASSUME NEW j \in Index, NEW u \in Values, Recalls(j, u)
          PROVE  Recalls(j, u)'
      BY <1>1, <2>3, <3>2, <3>4, <3>6 DEF Recalls, SparseRecalls
    <3>7. v # Failed => Recalls(i, v)'
      BY <1>1, <1>5, <2>3, <3>1, <3>2, <3>4 DEF Recalls, SparseRecalls
    <3>8. OrderInv'
      <4>1. HeldInOrder /\ HeldBehind /\ kind' = "sparse" /\ window_start' = window_start
        BY <1>1, <2>3 DEF IInv, OrderInv
      <4>2. \A j, u : Holds(j, u)' <=> Holds(j, u)
        BY <1>1, <3>2, <4>1 DEF Holds
      <4>3. HeldInOrder'
        BY <4>1, <4>2 DEF HeldInOrder, Index, Elements
      <4>4. HeldBehind'
        <5>1. ASSUME NEW j \in Index, NEW u \in Elements, Holds(j, u)'
              PROVE  u < pos' /\ j < tracked'
          <6>1. j < tracked /\ u < pos
            BY <1>1, <4>1, <4>2, <5>1 DEF HeldBehind
          <6> QED
            BY <1>1, <2>2, <2>3, <3>2, <6>1, ElementFacts
        <5> QED
          BY <5>1 DEF HeldBehind, Index, Elements
      <4>5. ~Emptied /\ ~Emptied' /\ window_start \in Nat
        BY <1>1, <4>1 DEF Emptied, MemoryTyped
      <4>6. v \notin Elements
        BY <3>1, ElementFacts
      <4> QED
        BY <1>1, <3>1, <3>2, <4>1, <4>2, <4>3, <4>4, <4>5, <4>6, OrderStep, SpecialValues
    <3> QED
      BY <2>5, <3>1, <3>2, <3>3, <3>5, <3>6, <3>7, <3>8, ReadStep, SpecialValues
  <2> QED
    BY <2>6, <2>7
<1> QED
  BY <1>1, <1>2, <1>3, <1>4, <1>5 DEF SparseElement

-----------------------------------------------------------------------------
(* IterState                                                               *)

\* A read of the materialized storage keeps the invariant, of either kind.
LEMMA FromMaterializedStep ==
  ASSUME IInv, NEW i \in Index, FromMaterialized(i), kind \in {"prefix", "window"}
  PROVE  IInv'
<1>1. materialized[1] \in Seq(Values) /\ IsMaterialized /\ i \in Nat
  BY IndexFacts DEF FromMaterialized, IInv, TypeOK, MemoryTyped
<1>2. PICK v : v = At(materialized[1], i)
  OBVIOUS
<1>3. v \in Values
  BY <1>1, <1>2, AtFacts, SpecialValues
<1>4. Recalls(i, v)
  BY <1>1, <1>2 DEF Recalls, PrefixRecalls, WindowRecalls
<1>5. v \in Elements => ~Emptied /\ (GoneFromWindow(i) \/ Holds(i, v))
  <2>1. v \in Elements => ~Emptied
    BY <1>1, <1>2, ElementFacts DEF Emptied, At
  <2>2. GoneFromWindow(i) \/ Holds(i, v)
    <3>1. window_start \in Nat
      BY LenAssumption DEF IInv, TypeOK, MemoryTyped
    <3> QED
      BY <1>1, <1>2, <3>1 DEF GoneFromWindow, Holds
  <2> QED
    BY <2>1, <2>2
<1> QED
  BY <1>2, <1>3, <1>4, <1>5, MemoryStep DEF FromMaterialized

\* What is known of a prefix vector whose iterator is there.
LEMMA PrefixFacts ==
  ASSUME IInv, kind = "prefix"
  PROVE  /\ MemoryTyped /\ MemoryRight /\ supply \in 0..MaxSupply /\ pos \in 0..supply
         /\ supply \in Nat /\ pos \in Nat
         /\ cache \in Seq(Elements) /\ cache \in Seq(Values) /\ Len(cache) \in 0..len
         /\ len \in Nat
<1>1. /\ MemoryTyped /\ MemoryRight /\ supply \in 0..MaxSupply /\ pos \in 0..supply
      /\ cache \in Seq(Elements) /\ Len(cache) <= len /\ len \in Nat
  BY LenAssumption DEF IInv, TypeOK, MemoryTyped
<1>2. \A s \in Seq(Elements) : s \in Seq(Values)
  BY SpecialValues
<1>3. Len(cache) \in Nat
  BY <1>1
<1> QED
  BY <1>1, <1>2, <1>3, LenAssumption

\* Both reads of a prefix vector that run the iterator for n elements and get o
\* come to a sequence c that answers as the prefix followed by what was got, and
\* hold it in the cache or in the materialized storage.
PrefixRun(i, n, o, c, v) ==
    /\ c \in Seq(Elements) /\ Len(c) = Least(Len(cache) + o.got, len)
    /\ \A j \in Index : At(c, j) = At(cache \o Yielded(pos, o.got), j)
    /\ pos' = pos + o.used /\ UNCHANGED <<given, supply, cached, tracked, window_start>>
    /\ Answer(i, v) /\ v = (IF o.how = "ok" THEN At(c, i) ELSE Failed)
    /\ borrowed' \in {borrowed, "all"} /\ wasted' \in BOOLEAN
    /\ ~wasted' => ~wasted /\ o.used = o.got /\ (iter' = "some" \/ o.how = "ok")
    /\ \/ /\ materialized' = <<c>> /\ cache' = <<>> /\ iter' = "none" /\ o.how = "ok"
          /\ Len(c) = len \/ n = len + 1 - Len(cache)
       \/ /\ materialized' = materialized /\ cache' = c
          /\ \/ iter' = "none" /\ o.how # "ok"
             \/ iter' = "some" /\ Len(cache) + n <= len

LEMMA PrefixRunStep ==
  ASSUME IInv, kind = "prefix", ~IsMaterialized, iter = "some", NEW i \in Index,
         NEW n \in Nat \ {0}, i + 1 - Len(cache) <= n, NEW o \in Pull(n),
         NEW c, NEW v, PrefixRun(i, n, o, c, v)
  PROVE  IInv'
<1>1. /\ MemoryTyped /\ MemoryRight /\ supply \in 0..MaxSupply /\ pos \in 0..supply
      /\ supply \in Nat /\ pos \in Nat
      /\ cache \in Seq(Elements) /\ cache \in Seq(Values) /\ Len(cache) \in 0..len
      /\ len \in Nat /\ i \in Nat /\ i < len
  BY PrefixFacts, IndexFacts
<1>2. /\ o.got \in Nat /\ o.used \in Nat /\ o.got <= n
      /\ o.got <= o.used /\ o.used <= supply - pos
      /\ o.how = "ok" => o.used = o.got /\ (o.got < n => o.used = supply - pos)
  BY <1>1, PullFacts
<1> PICK g : g = cache \o Yielded(pos, o.got)
  OBVIOUS
<1>3. /\ Len(g) = Len(cache) + o.got
      /\ \A j \in Nat : /\ j < Len(cache) => At(g, j) = cache[j + 1]
                        /\ j >= Len(cache) /\ j < Len(cache) + o.got =>
                              At(g, j) = pos + j - Len(cache)
                        /\ j >= Len(cache) + o.got => At(g, j) = NA
  <2>1. o.got \in Nat /\ pos + o.got <= MaxSupply
    BY <1>1, <1>2, LenAssumption
  <2>2. cache \in Seq(Elements) /\ pos \in Nat /\ Elements \subseteq Elements
    BY <1>1
  <2>3. PICK s, p, m : s = cache /\ p = pos /\ m = o.got
    OBVIOUS
  <2>4. s \in Seq(Elements) /\ p \in Nat /\ m \in Nat /\ p + m <= MaxSupply
    BY <2>1, <2>2, <2>3
  <2>5. /\ Len(s \o Yielded(p, m)) = Len(s) + m
        /\ \A j \in Nat :
              /\ j < Len(s) => At(s \o Yielded(p, m), j) = s[j + 1]
              /\ j >= Len(s) /\ j < Len(s) + m => At(s \o Yielded(p, m), j) = p + j - Len(s)
              /\ j >= Len(s) + m => At(s \o Yielded(p, m), j) = NA
    BY ONLY <2>4, GrownFacts
  <2> QED
    BY <2>3, <2>5
<1>4. \A j \in Index : At(c, j) = At(g, j) /\ j \in Nat /\ j < len
  BY IndexFacts DEF PrefixRun
<1>5. /\ Len(c) \in Nat /\ Len(c) <= len /\ Len(c) <= Len(cache) + o.got
      /\ Len(c) = len \/ Len(c) = Len(cache) + o.got
  <2>1. c \in Seq(Elements) /\ Len(c) = Least(Len(cache) + o.got, len)
    BY DEF PrefixRun
  <2>2. Len(c) \in Nat
    BY ONLY <2>1
  <2> PICK l, m : l = Len(cache) /\ m = o.got
    OBVIOUS
  <2>3. l \in Nat /\ m \in Nat /\ len \in Nat
    BY <1>1, <1>2
  <2>4. LET k == Least(l + m, len)
        IN  k <= len /\ k <= l + m /\ (k = len \/ k = l + m)
    BY ONLY <2>3 DEF Least
  <2> QED
    BY <2>1, <2>2, <2>4
<1>13. iter' = "some" => Len(c) = Len(cache) + o.got
  <2>1. iter' = "some" => Len(cache) + n <= len
    BY DEF PrefixRun
  <2> PICK l, m, k : l = Len(cache) /\ m = o.got /\ k = Len(c)
    OBVIOUS
  <2>2. /\ l \in Nat /\ m \in Nat /\ m <= n /\ len \in Nat /\ k \in Nat
        /\ k <= l + m /\ (k = len \/ k = l + m)
    BY <1>1, <1>2, <1>5
  <2>3. l + n <= len => k = l + m
    BY ONLY <2>2, n \in Nat \ {0}
  <2> QED
    BY <2>1, <2>3
<1>6. pos' \in 0..supply /\ (pos = supply => pos' = supply)
  <2>1. pos' = pos + o.used
    BY DEF PrefixRun
  <2> QED
    BY ONLY <1>1, <1>2, <2>1
<1>7. /\ IsMaterialized' => materialized' = <<c>> /\ materialized'[1] = c
      /\ ~IsMaterialized' => materialized' = materialized /\ cache' = c
  <2>1. materialized' = <<c>> \/ (materialized' = materialized /\ cache' = c)
    BY DEF PrefixRun
  <2>2. materialized = <<>>
    BY DEF IsMaterialized
  <2> QED
    BY ONLY <2>1, <2>2 DEF IsMaterialized
<1>8. MemoryTyped'
  <2>1. c \in Seq(Values)
    <3>1. c \in Seq(Elements)
      BY DEF PrefixRun
    <3> QED
      BY ONLY <3>1, SpecialValues
  <2>2. cache' \in Seq(Elements) /\ Len(cache') <= len
    <3>1. c \in Seq(Elements) /\ cache' \in {c, <<>>}
      BY DEF PrefixRun
    <3>2. Len(<<>>) <= len /\ <<>> \in Seq(Elements)
      BY <1>1
    <3> QED
      BY ONLY <1>5, <3>1, <3>2
  <2>3. /\ materialized' = <<>> \/ Len(materialized') = 1
        /\ IsMaterialized' => materialized'[1] \in Seq(Values) /\ Len(materialized'[1]) <= len
    BY <1>1, <1>5, <1>7, <2>1 DEF MemoryTyped, IsMaterialized, PrefixRun
  <2>4. borrowed' \in {"none", "iter", "all"}
    BY <1>1 DEF MemoryTyped, PrefixRun
  <2>5. (wasted' \in BOOLEAN) /\ iter' \in {"some", "none"}
        /\ UNCHANGED <<given, supply, cached, tracked, window_start>>
    BY DEF PrefixRun
  <2> QED
    BY <1>1, <1>6, <2>2, <2>3, <2>4, <2>5 DEF MemoryTyped, given, cached, Index, Values, Elements
<1>9. \A j \in Index : Told(j) /\ Told(j)'
  BY DEF Told, given, cached, PrefixRun
<1>10. ASSUME NEW j \in Index, NEW u \in Values, Recalls(j, u)
       PROVE  Recalls(j, u)'
  <2>1. u = At(cache, j) /\ (j >= Len(cache) => pos = supply)
    BY <1>10 DEF Recalls, PrefixRecalls
  <2>2. j < Len(cache) => At(cache, j) = cache[j + 1]
    BY DEF At
  <2>3. j >= Len(cache) => At(cache, j) = NA
    BY <1>1, <1>4 DEF At
  <2>4. At(c, j) = u
    <3>1. CASE j < Len(cache)
      BY <1>3, <1>4, <2>1, <2>2, <3>1
    <3>2. CASE ~(j < Len(cache))
      <4>1. o.got = 0 /\ j >= Len(cache)
        BY <1>1, <1>2, <1>4, <2>1, <3>2
      <4> QED
        BY <1>1, <1>3, <1>4, <2>1, <2>3, <4>1
    <3> QED
      BY <3>1, <3>2
  <2>5. iter' = "some" /\ j >= Len(c) => pos' = supply
    BY <1>1, <1>2, <1>4, <1>6, <1>13, <2>1
  <2>6. PrefixRecalls(j, u)'
    <3>1. CASE IsMaterialized'
      BY <1>7, <2>4, <3>1 DEF PrefixRecalls, At
    <3>2. CASE ~IsMaterialized'
      BY <1>7, <2>4, <2>5, <3>2 DEF PrefixRecalls, At, given, cached, PrefixRun
    <3> QED
      BY <3>1, <3>2
  <2> QED
    BY <2>6 DEF Recalls, given, cached, PrefixRun
<1>11. ASSUME v # Failed
       PROVE  v \in Values /\ Recalls(i, v)'
  <2>1. v = At(c, i) /\ o.how = "ok"
    BY <1>11 DEF PrefixRun
  <2>2. v \in Values
    BY <1>1, <2>1, AtFacts, SpecialValues DEF PrefixRun
  <2>3. iter' = "some" /\ i >= Len(c) => pos' = supply
    <3>1. ASSUME iter' = "some", i >= Len(c)
          PROVE  o.got < n
      <4>1. Len(c) = Len(cache) + o.got
        BY <1>1, <1>2, <1>5, <3>1 DEF PrefixRun, Least
      <4> QED
        BY <1>1, <1>2, <3>1, <4>1
    <3> QED
      BY <1>1, <1>2, <2>1, <3>1 DEF PrefixRun
  <2>4. PrefixRecalls(i, v)'
    <3>1. CASE IsMaterialized'
      BY <1>7, <2>1, <3>1 DEF PrefixRecalls, At
    <3>2. CASE ~IsMaterialized'
      BY <1>7, <2>1, <2>3, <3>2 DEF PrefixRecalls, At, given, cached, PrefixRun
    <3> QED
      BY <3>1, <3>2
  <2> QED
    BY <2>2, <2>4 DEF Recalls, given, cached, PrefixRun
<1>12. MemoryRight'
  <2>1. ASSUME ~wasted'
        PROVE  PrefixRight'
    <3>1. /\ ~wasted /\ o.used = o.got /\ pos = Len(cache)
          /\ \A j \in 1..Len(cache) : cache[j] = j - 1
      BY <1>1, <2>1 DEF MemoryRight, PrefixRight, PrefixRun
    <3>2. pos' = Len(cache) + o.got
      BY <1>1, <1>2, <3>1 DEF PrefixRun
    <3>3. \A j \in Index : j < Len(c) => At(c, j) = j /\ c[j + 1] = j
      <4>1. ASSUME NEW j \in Index, j < Len(c)
            PROVE  At(c, j) = j
        <5>1. CASE j < Len(cache)
          BY <1>1, <1>3, <1>4, <3>1, <5>1
        <5>2. CASE ~(j < Len(cache))
          <6> PICK l, m : l = Len(cache) /\ m = o.got
            OBVIOUS
          <6>1. /\ l \in Nat /\ m \in Nat /\ j \in Nat /\ j >= l /\ j < l + m
            BY <1>1, <1>2, <1>4, <1>5, <4>1, <5>2
          <6>2. At(g, j) = pos + j - l
            BY <1>3, <6>1
          <6>3. l + j - l = j
            BY ONLY <6>1
          <6> QED
            BY <1>4, <3>1, <6>2, <6>3
        <5> QED
          BY <5>1, <5>2
      <4> QED
        BY <4>1 DEF At
    <3>4. CASE IsMaterialized'
      <4>1. ASSUME NEW j \in Index, ~(j < Len(c))
            PROVE  j >= supply
        <5>1. Len(c) = Len(cache) + o.got /\ Len(c) < len
          BY <1>1, <1>2, <1>4, <1>5, <4>1
        <5>2. n = len + 1 - Len(cache) /\ o.how = "ok"
          BY <1>7, <3>4, <5>1 DEF IsMaterialized, PrefixRun
        <5>3. o.got < n
          BY <1>1, <1>2, <5>1, <5>2
        <5>4. o.got = supply - pos
          BY <1>2, <5>2, <5>3
        <5> QED
          BY <1>1, <1>4, <3>1, <4>1, <5>1, <5>4
      <4> QED
        BY <1>7, <3>3, <3>4, <4>1 DEF PrefixRight, given, cached, Index, PrefixRun
    <3>5. CASE ~IsMaterialized'
      <4>1. iter' = "some" /\ Len(c) = Len(cache) + o.got
        BY <1>7, <1>13, <2>1, <3>5 DEF IsMaterialized, PrefixRun
      <4>2. \A j \in 1..Len(c) : c[j] = j - 1
        <5>1. ASSUME NEW j \in 1..Len(c)
              PROVE  j - 1 \in Index /\ j - 1 < Len(c) /\ (j - 1) + 1 = j
          BY <1>1, <1>5, <5>1 DEF Index
        <5> QED
          BY <3>3, <5>1
      <4> QED
        BY <1>7, <3>2, <3>5, <4>1, <4>2 DEF PrefixRight
    <3> QED
      BY <3>4, <3>5
  <2> QED
    BY <2>1 DEF MemoryRight, given, cached, PrefixRun
<1>14. OrderInv'
  <2>1. /\ HeldInOrder /\ HeldBehind /\ kind' = "prefix" /\ window_start' = window_start
        /\ window_start \in Nat /\ Answer(i, v) /\ pos' = pos + o.used
    BY <1>1 DEF IInv, OrderInv, PrefixRun, given, MemoryTyped
  <2>2. \A j, u : Holds(j, u)' <=> u = At(c, j)
    BY <1>7, <2>1 DEF Holds, At
  <2>3. \A j, u : Holds(j, u) <=> u = At(cache, j)
    BY DEF Holds
  <2>4. \A j \in Index, u \in Elements : Holds(j, u) => j < Len(cache) /\ u < pos
    BY <2>1, <2>3, ElementFacts DEF HeldBehind, At
  <2>5. ASSUME NEW j \in Index, NEW u \in Elements, Holds(j, u)'
        PROVE  Holds(j, u) \/ (j >= Len(cache) /\ j < Len(cache) + o.got /\ u = pos + j - Len(cache))
    <3>1. u = At(g, j) /\ j \in Nat /\ u # NA
      BY <1>4, <2>2, <2>5, ElementFacts
    <3>2. CASE j < Len(cache)
      BY <1>3, <2>3, <3>1, <3>2 DEF At
    <3>3. CASE j >= Len(cache) /\ j < Len(cache) + o.got
      BY <1>3, <3>1, <3>3
    <3>4. CASE j >= Len(cache) + o.got
      BY <1>3, <3>1, <3>4
    <3> QED
      BY <1>1, <1>2, <3>1, <3>2, <3>3, <3>4
  <2>6. HeldInOrder'
    <3>1. PICK l : l = Len(cache)
      OBVIOUS
    <3>2. /\ \A j \in Index, u \in Elements : Holds(j, u) => j < l /\ u < pos
          /\ \A j \in Index, u \in Elements :
                Holds(j, u)' => Holds(j, u) \/ (j >= l /\ u = pos + j - l)
      BY <2>4, <2>5, <3>1
    <3>3. l \in Nat
      BY <1>1, <3>1
    <3> QED
      BY <1>1, <2>1, <3>2, <3>3, GrownInOrder
  <2>7. HeldBehind'
    <3>1. ASSUME NEW j \in Index, NEW u \in Elements, Holds(j, u)'
          PROVE  u < pos'
      <4> PICK l, m : l = Len(cache) /\ m = o.got
        OBVIOUS
      <4>1. u < pos \/ (j >= l /\ j < l + m /\ u = pos + j - l)
        BY <2>4, <2>5, <3>1
      <4>2. l \in Nat /\ m \in Nat /\ m <= o.used /\ u \in Nat /\ j \in Nat
        BY <1>1, <1>2, ElementFacts, IndexFacts
      <4> QED
        BY ONLY <1>1, <1>2, <2>1, <4>1, <4>2
    <3> QED
      BY <2>1, <3>1 DEF HeldBehind, Index, Elements
  <2>8. \A j \in Index, u \in Elements : Holds(j, u) => Holds(j, u)'
    BY <1>3, <1>4, <2>2, <2>3, <2>4 DEF At
  <2>9. v \in Elements => Holds(i, v)'
    BY <2>2, ElementFacts DEF PrefixRun
  <2>10. ~Emptied /\ ~Emptied'
    BY <2>1 DEF Emptied
  <2> QED
    BY <1>11, <2>1, <2>6, <2>7, <2>8, <2>9, <2>10, OrderStep
<1> QED
  BY <1>8, <1>9, <1>10, <1>11, <1>12, <1>14, ReadStep, SpecialValues DEF PrefixRun

\* An element of a prefix vector.
LEMMA PrefixElementStep ==
  ASSUME IInv, NEW i \in Index, PrefixElement(i)
  PROVE  IInv'
<1>1. kind = "prefix"
  BY DEF PrefixElement
<1>2. /\ supply \in 0..MaxSupply /\ pos \in 0..supply /\ pos \in Nat /\ supply \in Nat
      /\ cache \in Seq(Elements) /\ cache \in Seq(Values) /\ Len(cache) \in 0..len
      /\ len \in Nat /\ i \in Nat /\ i < len
  BY <1>1, PrefixFacts, IndexFacts
<1>3. CASE FromMaterialized(i)
  BY <1>1, <1>3, FromMaterializedStep
<1>4. CASE Memory(i, Failed)
  BY <1>4, FailedStep
<1>5. CASE /\ ~IsMaterialized /\ (i < Len(cache) \/ iter = "none")
           /\ Memory(i, At(cache, i))
  <2>1. PICK v : v = At(cache, i)
    OBVIOUS
  <2>2. v \in Values
    BY <1>2, <2>1, AtFacts, SpecialValues
  <2>3. Recalls(i, v)
    BY <1>1, <1>2, <1>5, <2>1 DEF Recalls, PrefixRecalls
  <2>4. ~Emptied /\ Holds(i, v)
    BY <1>1, <1>5, <2>1 DEF Holds, Emptied
  <2> QED
    BY <1>5, <2>1, <2>2, <2>3, <2>4, MemoryStep
<1>6. ASSUME ~IsMaterialized, i >= Len(cache), iter = "some",
             NEW o \in Pull(i + 1 - Len(cache)),
             LET c == cache \o Yielded(pos, o.got)
             IN  /\ Ends(i, At(c, i), o, "all", o.got)
                 /\ IF o.how = "ok" THEN KeepPrefix(c)
                    ELSE cache' = c /\ UNCHANGED <<materialized, iter>>,
             UNCHANGED <<given, supply, cached, tracked, window_start>>
      PROVE  IInv'
  <2>1. PICK n, c : n = i + 1 - Len(cache) /\ c = cache \o Yielded(pos, o.got)
    OBVIOUS
  <2>2. PICK v : v = IF o.how = "ok" THEN At(c, i) ELSE Failed
    OBVIOUS
  <2>3. n \in Nat \ {0} /\ i + 1 - Len(cache) <= n /\ Len(cache) + n <= len
    BY <1>2, <1>6, <2>1
  <2>4. /\ o.got \in Nat /\ o.got <= n /\ o.got <= o.used /\ o.used <= supply - pos
        /\ o.used \in Nat /\ (o.how = "ok" => o.used = o.got)
    BY <1>2, <1>6, <2>1, <2>3, PullFacts
  <2>5. c \in Seq(Elements) /\ Len(c) = Len(cache) + o.got
    <3>1. PICK s, p, m : s = cache /\ p = pos /\ m = o.got
      OBVIOUS
    <3>2. s \in Seq(Elements) /\ p \in Nat /\ m \in Nat /\ p + m <= MaxSupply
      BY <1>2, <2>4, <3>1, LenAssumption
    <3>3. s \o Yielded(p, m) \in Seq(Elements) /\ Len(s \o Yielded(p, m)) = Len(s) + m
      BY ONLY <3>2, GrownFacts
    <3> QED
      BY <2>1, <3>1, <3>3
  <2>6. Len(c) = Least(Len(cache) + o.got, len)
    BY <1>2, <2>3, <2>4, <2>5 DEF Least
  <2>7. /\ pos' = pos + o.used /\ Answer(i, v) /\ borrowed' \in {borrowed, "all"}
        /\ wasted' = (wasted \/ (o.how # "ok" /\ o.used # o.got))
    BY <1>6, <2>1, <2>2 DEF Ends
  <2>8. \/ /\ materialized' = <<c>> /\ cache' = <<>> /\ iter' = "none" /\ o.how = "ok"
           /\ Len(c) = len
        \/ materialized' = materialized /\ cache' = c /\ iter' = "some"
    BY <1>6, <2>1 DEF KeepPrefix
  <2>9. (wasted' \in BOOLEAN) /\ (~wasted' => ~wasted /\ o.used = o.got)
    BY <2>4, <2>7 DEF IInv, TypeOK, MemoryTyped
  <2>10. PrefixRun(i, n, o, c, v)
    BY <1>6, <2>1, <2>2, <2>3, <2>5, <2>6, <2>7, <2>8, <2>9, Zenon DEF PrefixRun
  <2>11. o \in Pull(n)
    BY <1>6, <2>1
  <2> QED
    BY <1>1, <1>6, <2>3, <2>10, <2>11, PrefixRunStep
<1> QED
  BY <1>3, <1>4, <1>5, <1>6 DEF PrefixElement

\* The whole of a prefix vector: the iterator is gone, whatever it gave.
LEMMA PrefixMaterializeStep ==
  ASSUME IInv, NEW i \in Index, PrefixMaterialize(i)
  PROVE  IInv'
<1>1. kind = "prefix"
  BY DEF PrefixMaterialize
<1>2. /\ supply \in 0..MaxSupply /\ pos \in 0..supply /\ pos \in Nat /\ supply \in Nat
      /\ cache \in Seq(Elements) /\ cache \in Seq(Values) /\ Len(cache) \in 0..len
      /\ len \in Nat /\ i \in Nat /\ i < len /\ MemoryTyped /\ MemoryRight
  BY <1>1, PrefixFacts, IndexFacts
<1>3. CASE FromMaterialized(i)
  BY <1>1, <1>3, FromMaterializedStep
<1>4. CASE Memory(i, Failed)
  BY <1>4, FailedStep
<1>5. CASE /\ ~IsMaterialized /\ iter = "none"
           /\ materialized' = <<cache>> /\ cache' = <<>>
           /\ Answer(i, At(cache, i))
           /\ UNCHANGED <<given, supply, pos, iter, cached, tracked, window_start,
                          borrowed, wasted>>
  <2>1. PICK v : v = At(cache, i)
    OBVIOUS
  <2>2. v \in Values
    BY <1>2, <2>1, AtFacts, SpecialValues
  <2>3. IsMaterialized' /\ materialized'[1] = cache
    BY <1>5 DEF IsMaterialized
  <2>4. <<>> \in Seq(Elements) /\ Len(<<>>) = 0 /\ Len(materialized') = 1
    BY <1>5
  <2>5. MemoryTyped'
    BY <1>1, <1>2, <1>5, <2>3, <2>4
       DEF MemoryTyped, given, cached, IsMaterialized, Index, Values, Elements
  <2>6. MemoryRight'
    BY <1>1, <1>2, <1>5 DEF MemoryRight, PrefixRight, given, cached
  <2>7. \A j \in Index : \A u : u = At(cache, j) => PrefixRecalls(j, u)'
    BY <2>3 DEF PrefixRecalls, At
  <2>8. \A j \in Index, u \in Values : Recalls(j, u) => Recalls(j, u)'
    BY <1>1, <1>5, <2>7 DEF Recalls, PrefixRecalls, given, cached
  <2>9. Recalls(i, v)'
    BY <1>1, <1>5, <2>1, <2>7 DEF Recalls, given, cached
  <2>10. \A j \in Index : Told(j)' => Told(j)
    BY <1>1 DEF Told
  <2>11. OrderInv'
    <3>1. /\ HeldInOrder /\ HeldBehind /\ kind' = "prefix" /\ window_start' = window_start
          /\ window_start \in Nat
      BY <1>1, <1>2, <1>5 DEF IInv, OrderInv, given, MemoryTyped
    <3>2. \A j, u : Holds(j, u)' <=> Holds(j, u)
      BY <1>1, <1>5, <2>3, <3>1 DEF Holds, At
    <3>3. HeldInOrder' /\ HeldBehind'
      BY <2>3, <3>1, <3>2 DEF HeldInOrder, HeldBehind, Index, Elements
    <3>4. Holds(i, v) /\ ~Emptied /\ ~Emptied'
      BY <1>1, <1>5, <2>1, <3>1 DEF Holds, Emptied
    <3> QED
      BY <1>1, <1>5, <2>1, <2>2, <3>1, <3>2, <3>3, <3>4, OrderStep
  <2> QED
    BY <1>5, <2>1, <2>2, <2>5, <2>6, <2>8, <2>9, <2>10, <2>11, ReadStep
<1>6. ASSUME ~IsMaterialized, iter = "some", iter' = "none",
             NEW o \in Pull(len + 1 - Len(cache)),
             LET c == Truncated(cache \o Yielded(pos, o.got))
             IN  /\ Ends(i, At(c, i), o, "all", GivenUp)
                 /\ IF o.how = "ok" THEN materialized' = <<c>> /\ cache' = <<>>
                    ELSE cache' = c /\ UNCHANGED materialized,
             UNCHANGED <<given, supply, cached, tracked, window_start>>
      PROVE  IInv'
  <2>1. PICK n, c : /\ n = len + 1 - Len(cache)
                    /\ c = Truncated(cache \o Yielded(pos, o.got))
    OBVIOUS
  <2>2. PICK v : v = IF o.how = "ok" THEN At(c, i) ELSE Failed
    OBVIOUS
  <2>3. n \in Nat \ {0} /\ i + 1 - Len(cache) <= n
    BY <1>2, <1>6, <2>1
  <2>4. /\ o.got \in Nat /\ o.got <= n /\ o.got <= o.used /\ o.used <= supply - pos
        /\ o.used \in Nat /\ (o.how = "ok" => o.used = o.got)
    BY <1>2, <1>6, <2>1, <2>3, PullFacts
  <2>5. /\ c \in Seq(Elements) /\ Len(c) = Least(Len(cache) + o.got, len)
        /\ \A j \in Index : At(c, j) = At(cache \o Yielded(pos, o.got), j)
    <3>1. PICK s, p, m : s = cache /\ p = pos /\ m = o.got
      OBVIOUS
    <3>2. s \in Seq(Elements) /\ p \in Nat /\ m \in Nat /\ p + m <= MaxSupply
      BY <1>2, <2>4, <3>1, LenAssumption
    <3>3. PICK g : g = s \o Yielded(p, m)
      OBVIOUS
    <3>4. g \in Seq(Elements) /\ Len(g) = Len(s) + m
      BY ONLY <3>2, <3>3, GrownFacts
    <3>5. /\ Truncated(g) \in Seq(Elements) /\ Len(Truncated(g)) = Least(Len(g), len)
          /\ \A j \in Index : At(Truncated(g), j) = At(g, j)
      BY ONLY <3>4, TruncatedFacts
    <3>6. c = Truncated(g) /\ g = cache \o Yielded(pos, o.got)
      BY <2>1, <3>1, <3>3
    <3> QED
      BY <3>1, <3>4, <3>5, <3>6
  <2>7. /\ pos' = pos + o.used /\ Answer(i, v) /\ borrowed' \in {borrowed, "all"}
        /\ wasted' = (wasted \/ (o.how # "ok" /\ o.used # GivenUp))
    BY <1>6, <2>1, <2>2 DEF Ends
  <2>8. \/ materialized' = <<c>> /\ cache' = <<>> /\ o.how = "ok"
        \/ materialized' = materialized /\ cache' = c /\ o.how # "ok"
    BY <1>6, <2>1
  <2>9. (wasted' \in BOOLEAN) /\ (~wasted' => ~wasted /\ o.used = o.got /\ o.how = "ok")
    <3>1. o.used # GivenUp
      BY ONLY <2>4 DEF GivenUp
    <3>2. wasted \in BOOLEAN
      BY <1>2 DEF MemoryTyped
    <3> QED
      BY <2>4, <2>7, <3>1, <3>2
  <2>10. PrefixRun(i, n, o, c, v)
    BY <1>6, <2>1, <2>2, <2>3, <2>5, <2>7, <2>8, <2>9, Zenon DEF PrefixRun
  <2>11. o \in Pull(n)
    BY <1>6, <2>1
  <2> QED
    BY <1>1, <1>6, <2>3, <2>10, <2>11, PrefixRunStep
<1> QED
  BY <1>3, <1>4, <1>5, <1>6 DEF PrefixMaterialize

-----------------------------------------------------------------------------
(* WindowedIterState                                                       *)

\* What is known of a window that was not materialized.
LEMMA WindowFacts ==
  ASSUME IInv, kind = "window"
  PROVE  /\ MemoryTyped /\ MemoryRight /\ supply \in Nat /\ supply <= MaxSupply
         /\ pos \in 0..supply /\ pos \in Nat
         /\ cache \in Seq(Elements) /\ cache \in Seq(Values) /\ Len(cache) \in Nat
         /\ Len(cache) <= size /\ size \in Nat \ {0}
         /\ tracked \in 0..len /\ window_start \in 0..tracked /\ len \in Nat
         /\ window_start + Len(cache) <= tracked
         /\ ~wasted => WindowRight
<1>1. /\ MemoryTyped /\ MemoryRight /\ supply \in 0..MaxSupply /\ pos \in 0..supply
      /\ cache \in Seq(Elements) /\ Len(cache) <= size /\ size \in Nat \ {0}
      /\ tracked \in 0..len /\ window_start \in 0..tracked
      /\ window_start + Len(cache) <= tracked
      /\ ~wasted => WindowRight
  BY SizesAssumption DEF IInv, TypeOK, MemoryTyped, MemoryRight
<1>2. \A s \in Seq(Elements) : s \in Seq(Values)
  BY SpecialValues
<1>3. Len(cache) \in Nat
  BY <1>1
<1> QED
  BY <1>1, <1>2, <1>3, LenAssumption

\* The vector a window is materialized to begins with what fills the lost front,
\* and from window_start on with the window.
LEMMA RefillFacts ==
  ASSUME cache \in Seq(Elements), window_start \in Nat
  PROVE  /\ Refill \o cache \in Seq(Values)
         /\ Len(Refill \o cache) = window_start + Len(cache)
         /\ \A k \in 1..Len(cache) : (Refill \o cache)[window_start + k] = cache[k]
<1>1. Refill \in Seq(Values) /\ Len(Refill) = window_start
  <2>1. (IF cache = <<>> THEN Zeroed ELSE cache[1]) \in Values
    <3>1. cache # <<>> => cache[1] \in Elements
      OBVIOUS
    <3> QED
      BY <3>1 DEF Values
  <2> QED
    BY <2>1 DEF Refill
<1>2. cache \in Seq(Values)
  BY SpecialValues
<1> PICK r, c : r = Refill /\ c = cache
  OBVIOUS
<1>3. r \in Seq(Values) /\ c \in Seq(Values) /\ Len(r) \in Nat /\ Len(c) \in Nat
  BY <1>1, <1>2
<1>4. r \o c \in Seq(Values) /\ Len(r \o c) = Len(r) + Len(c)
  BY ONLY <1>3
<1>5. \A k \in 1..Len(c) : (r \o c)[Len(r) + k] = c[k]
  BY ONLY <1>3
<1> QED
  BY <1>1, <1>4, <1>5

\* materialize_all of a window: the answers that were given stand unless the
\* iterator fails, and then none is stood by any more.
LEMMA WindowMaterializeStep ==
  ASSUME IInv, kind = "window", NEW i \in Index, WindowMaterialize(i)
  PROVE  IInv'
<1>1. /\ MemoryTyped /\ MemoryRight /\ supply \in Nat /\ supply <= MaxSupply
      /\ pos \in 0..supply /\ pos \in Nat
      /\ cache \in Seq(Elements) /\ cache \in Seq(Values) /\ Len(cache) \in Nat
      /\ Len(cache) <= size /\ size \in Nat \ {0}
      /\ tracked \in 0..len /\ window_start \in 0..tracked /\ len \in Nat
      /\ window_start + Len(cache) <= tracked
      /\ ~wasted => WindowRight
  BY WindowFacts
<1>2. i \in Nat /\ i < len
  BY IndexFacts
<1>3. CASE FromMaterialized(i)
  BY <1>3, FromMaterializedStep
<1>4. CASE Memory(i, Failed)
  BY <1>4, FailedStep
<1>5. CASE /\ ~IsMaterialized /\ iter = "none"
           /\ materialized' = <<<<>>>> /\ Answer(i, NA)
           /\ UNCHANGED <<given, supply, pos, iter, cache, cached, tracked,
                          window_start, borrowed, wasted>>
  <2>1. wasted /\ wasted' = wasted
    BY <1>1, <1>5 DEF WindowRight
  <2>2. /\ IsMaterialized' /\ materialized'[1] = <<>> /\ Len(materialized') = 1
        /\ <<>> \in Seq(Values) /\ Len(<<>>) <= len
    BY <1>1, <1>5 DEF IsMaterialized
  <2>3. MemoryTyped'
    BY <1>1, <1>5, <2>2 DEF MemoryTyped, given, cached, Index, Values, Elements
  <2>4. MemoryRight'
    BY <1>1, <1>5, <2>1 DEF MemoryRight, given, cached
  <2>5. \A j \in Index : ~Told(j)'
    BY <1>5, <2>1 DEF Told, given, cached
  <2>6. OrderInv'
    <3>1. Emptied' /\ kind' = "window" /\ window_start' = window_start
      BY <1>5, <2>2 DEF Emptied, given
    <3>2. \A j \in Index, u \in Elements : ~Holds(j, u)'
      BY <2>2, <3>1, IndexFacts, ElementFacts DEF Holds, At
    <3>3. HeldInOrder' /\ HeldBehind'
      BY <3>2 DEF HeldInOrder, HeldBehind, Index, Elements
    <3>4. NA \notin Elements
      BY SpecialValues
    <3> QED
      BY <1>1, <1>5, <3>1, <3>3, <3>4, OrderStep, SpecialValues
  <2> QED
    BY <1>5, <2>3, <2>4, <2>5, <2>6, ReadStep, SpecialValues
<1>6. ASSUME ~IsMaterialized, iter = "some", iter' = "none",
             NEW o \in Pull(len + 1 - Len(Refill \o cache)),
             LET all == Truncated(Refill \o cache \o Yielded(pos, o.got))
             IN  /\ Ends(i, At(all, i), o, "iter", GivenUp)
                 /\ materialized' = IF o.how = "ok" THEN <<all>> ELSE <<>>,
             UNCHANGED <<given, supply, cache, cached, tracked, window_start>>
      PROVE  IInv'
  <2>1. PICK r, m, p : r = Refill \o cache /\ m = o.got /\ p = pos
    OBVIOUS
  <2>2. PICK g : g = r \o Yielded(p, m)
    OBVIOUS
  <2>3. PICK all : all = Truncated(g)
    OBVIOUS
  <2>4. PICK v : v = IF o.how = "ok" THEN At(all, i) ELSE Failed
    OBVIOUS
  <2>5. PICK l : l = Len(r)
    OBVIOUS
  <2>6. /\ r \in Seq(Values) /\ l = window_start + Len(cache) /\ l \in Nat /\ l <= len
        /\ \A k \in 1..Len(cache) : r[window_start + k] = cache[k]
    <3>1. window_start \in Nat
      BY <1>1
    <3> QED
      BY <1>1, <2>1, <2>5, <3>1, RefillFacts
  <2>7. /\ m \in Nat /\ m <= o.used /\ o.used \in Nat /\ o.used <= supply - pos
        /\ o.how = "ok" => o.used = m /\ (m < len + 1 - l => m = supply - pos)
    <3>1. PICK n : n = len + 1 - l
      OBVIOUS
    <3>2. n \in Nat \ {0} /\ o \in Pull(n)
      BY <1>1, <1>6, <2>1, <2>5, <2>6, <3>1
    <3>3. /\ o.got \in Nat /\ o.got <= o.used /\ o.used \in Nat /\ o.used <= supply - pos
          /\ o.how = "ok" => o.used = o.got /\ (o.got < n => o.used = supply - pos)
      BY <1>1, <3>2, PullFacts
    <3> QED
      BY <2>1, <3>1, <3>3
  <2>8. /\ g \in Seq(Values) /\ Len(g) = l + m
        /\ \A j \in Nat : /\ j < l => At(g, j) = r[j + 1]
                          /\ j >= l /\ j < l + m => At(g, j) = p + j - l
                          /\ j >= l + m => At(g, j) = NA
    <3>1. r \in Seq(Values) /\ p \in Nat /\ m \in Nat /\ p + m <= MaxSupply
      <4>1. pos + o.used <= supply /\ MaxSupply \in Nat
        BY <1>1, <2>7, LenAssumption
      <4>2. p \in Nat /\ p + o.used <= supply
        BY <1>1, <2>1, <4>1
      <4>3. p + m <= MaxSupply
        BY ONLY <1>1, <2>7, <4>1, <4>2
      <4> QED
        BY <2>6, <2>7, <4>2, <4>3
    <3>2. /\ r \o Yielded(p, m) \in Seq(Values) /\ Len(r \o Yielded(p, m)) = Len(r) + m
          /\ \A j \in Nat :
                /\ j < Len(r) => At(r \o Yielded(p, m), j) = r[j + 1]
                /\ j >= Len(r) /\ j < Len(r) + m => At(r \o Yielded(p, m), j) = p + j - Len(r)
                /\ j >= Len(r) + m => At(r \o Yielded(p, m), j) = NA
      BY ONLY <3>1, SpecialValues, GrownFacts
    <3> QED
      BY <2>2, <2>5, <3>2
  <2>9. /\ all \in Seq(Values) /\ Len(all) <= len
        /\ \A j \in Index : At(all, j) = At(g, j)
    <3>1. g \in Seq(Values) /\ Len(g) \in Int /\ len \in Int
      BY <1>1, <2>8
    <3>2. /\ Truncated(g) \in Seq(Values) /\ Len(Truncated(g)) = Least(Len(g), len)
          /\ \A j \in Index : At(Truncated(g), j) = At(g, j)
      BY ONLY <3>1, TruncatedFacts
    <3>3. Least(Len(g), len) <= len
      BY ONLY <3>1, LeastFacts
    <3> QED
      BY <2>3, <3>2, <3>3
  <2>10. /\ pos' = pos + o.used /\ Answer(i, v) /\ borrowed' \in {borrowed, "iter"}
         /\ wasted' = (wasted \/ (o.how # "ok" /\ o.used # GivenUp))
         /\ materialized' = IF o.how = "ok" THEN <<all>> ELSE <<>>
    BY <1>6, <2>1, <2>2, <2>3, <2>4 DEF Ends
  <2>11. (wasted' \in BOOLEAN) /\ (~wasted' => ~wasted /\ o.how = "ok")
    <3>1. o.used # GivenUp
      BY ONLY <2>7 DEF GivenUp
    <3>2. wasted \in BOOLEAN
      BY <1>1 DEF MemoryTyped
    <3> QED
      BY <2>10, <3>1, <3>2
  <2>12. o.how = "ok" => IsMaterialized' /\ materialized'[1] = all /\ Len(materialized') = 1
    BY <2>10 DEF IsMaterialized
  <2>13. MemoryTyped'
    <3>1. pos' \in 0..supply
      BY <1>1, <2>7, <2>10
    <3>2. materialized' = <<>> \/ Len(materialized') = 1
      BY <2>10, <2>12
    <3>3. IsMaterialized' => materialized'[1] \in Seq(Values) /\ Len(materialized'[1]) <= len
      BY <2>9, <2>10, <2>12 DEF IsMaterialized
    <3>4. borrowed' \in {"none", "iter", "all"}
      BY <1>1, <2>10 DEF MemoryTyped
    <3> QED
      BY <1>1, <1>6, <2>11, <3>1, <3>2, <3>3, <3>4
         DEF MemoryTyped, given, cached, Index, Values, Elements
  <2>14. ASSUME NEW j \in Index, j >= window_start, j < l
         PROVE  At(all, j) = At(cache, j - window_start) /\ At(all, j) = cache[j - window_start + 1]
    <3>1. PICK k : k = j - window_start + 1
      OBVIOUS
    <3>2. j \in Nat /\ k \in 1..Len(cache) /\ window_start + k = j + 1
          /\ j - window_start < Len(cache)
      <4>1. j \in Nat /\ window_start \in Nat /\ Len(cache) \in Nat
        BY <1>1, IndexFacts
      <4> QED
        BY ONLY <2>6, <2>14, <3>1, <4>1
    <3>3. r[j + 1] = cache[k]
      BY <2>6, <3>2
    <3>4. At(all, j) = r[j + 1]
      BY <2>8, <2>9, <2>14, <3>2
    <3> QED
      BY <3>1, <3>2, <3>3, <3>4 DEF At
  <2>15. MemoryRight'
    <3>1. ASSUME ~wasted'
          PROVE  WindowRight'
      <4>1. /\ o.how = "ok" /\ pos = tracked /\ (l = tracked \/ pos = supply)
            /\ \A j \in 1..Len(cache) : cache[j] = window_start + j - 1
        BY <1>1, <1>6, <2>6, <2>11, <3>1 DEF WindowRight
      <4>2. ASSUME NEW j \in Index, j >= window_start
            PROVE  \/ At(all, j) = j
                   \/ At(all, j) = NA /\ (j >= supply \/ CutOff(j))
        <5>1. j \in Nat /\ j < len
          BY IndexFacts
        <5>2. CASE j < l
          <6>1. PICK k : k = j - window_start + 1
            OBVIOUS
          <6>2. k \in 1..Len(cache) /\ window_start + k - 1 = j
            BY <1>1, <2>6, <4>2, <5>1, <5>2, <6>1
          <6>3. At(all, j) = cache[k]
            BY <2>14, <4>2, <5>2, <6>1
          <6> QED
            BY <4>1, <6>2, <6>3
        <5>3. CASE j >= l /\ j < l + m
          <6>1. p = l
            BY <1>1, <2>1, <2>6, <2>7, <4>1, <5>1, <5>3
          <6>2. At(all, j) = p + j - l
            BY <2>8, <2>9, <5>1, <5>3
          <6>3. p + j - l = j
            BY ONLY <2>6, <5>1, <6>1
          <6> QED
            BY <6>2, <6>3
        <5>4. CASE j >= l + m
          <6>1. At(all, j) = NA
            BY <2>8, <2>9, <5>1, <5>4
          <6>2. m = supply - pos
            <7>1. m < len + 1 - l
              BY ONLY <1>1, <2>6, <2>7, <5>1, <5>4
            <7> QED
              BY <2>7, <4>1, <7>1
          <6>3. j >= supply \/ (j >= l /\ j < tracked)
            <7>1. tracked \in Nat /\ supply \in Nat
              BY <1>1
            <7> QED
              BY ONLY <2>6, <2>7, <4>1, <5>1, <5>4, <6>2, <7>1
          <6> QED
            BY <2>6, <6>1, <6>3 DEF CutOff
        <5> QED
          BY <2>6, <2>7, <5>1, <5>2, <5>3, <5>4
      <4> QED
        <5>1. UNCHANGED <<window_start, cache, tracked, supply>>
          BY <1>6
        <5>2. \A j \in Index : j >= window_start =>
                 \/ At(all, j) = j
                 \/ At(all, j) = NA /\ (j >= supply \/ CutOff(j))
          BY <4>2
        <5>3. \A j : CutOff(j)' = CutOff(j)
          BY <5>1 DEF CutOff
        <5>4. \A j : At(all, j)' = At(all, j)
          BY DEF At
        <5>5. IsMaterialized' /\ materialized'[1] = all
          BY <2>12, <4>1
        <5> QED
          BY <5>1, <5>2, <5>3, <5>5 DEF WindowRight, At, Index
    <3> QED
      BY <1>1, <1>6, <3>1 DEF MemoryRight, given, cached
  <2>16. \A j \in Index : Told(j)' => Told(j) /\ o.how = "ok" /\ j >= window_start
    BY <1>6, <2>11 DEF Told, given, cached
  <2>17. \A j \in Index : \A u : Told(j)' /\ u = At(all, j) => Recalls(j, u)'
    BY <1>6, <2>12, <2>16 DEF Recalls, WindowRecalls, At, given, cached
  <2>18. ASSUME NEW j \in Index, NEW u \in Values, Told(j)', Recalls(j, u)
         PROVE  Recalls(j, u)'
    <3>1. u = At(cache, j - window_start) /\ (j >= l => pos = supply)
      BY <1>6, <2>6, <2>18 DEF Recalls, WindowRecalls
    <3>2. j \in Nat /\ j >= window_start
      BY <2>16, <2>18, IndexFacts
    <3>3. CASE j < l
      BY <2>14, <2>17, <2>18, <3>1, <3>2, <3>3
    <3>4. CASE ~(j < l)
      <4>1. m = 0 /\ j >= l
        <5>1. pos \in Nat /\ supply \in Nat
          BY <1>1
        <5>2. j >= l
          BY ONLY <2>6, <3>2, <3>4
        <5> QED
          BY ONLY <2>7, <3>1, <5>1, <5>2
      <4>2. At(all, j) = NA
        BY <2>6, <2>8, <2>9, <3>2, <4>1
      <4>3. ~(j - window_start < Len(cache))
        BY <1>1, <2>6, <3>2, <3>4
      <4> QED
        BY <2>17, <2>18, <3>1, <4>2, <4>3 DEF At
    <3> QED
      BY <3>3, <3>4
  <2>19. v \in Values \cup {Failed}
    BY <1>2, <2>4, <2>9, AtFacts, SpecialValues
  <2>20. v # Failed /\ Told(i)' => Recalls(i, v)'
    BY <2>4, <2>17
  <2>21. OrderInv'
    <3>1. /\ HeldInOrder /\ HeldBehind /\ kind' = "window" /\ cache' = cache
          /\ window_start' = window_start /\ window_start \in Nat
      BY <1>1, <1>6 DEF IInv, OrderInv, given
    <3>2. ASSUME NEW j \in Index, NEW u \in Elements, Holds(j, u)
          PROVE  j >= window_start /\ j < l /\ u < pos
      <4>1. j \in Nat /\ j >= window_start /\ u = At(cache, j - window_start) /\ u # NA
        BY <1>6, <3>2, IndexFacts, ElementFacts DEF Holds
      <4>2. j - window_start < Len(cache)
        BY <4>1 DEF At
      <4>3. u < pos
        BY <1>6, <3>1, <3>2 DEF HeldBehind
      <4> QED
        BY <1>1, <2>6, <4>1, <4>2, <4>3
    <3>3. CASE o.how # "ok"
      <4>1. ~IsMaterialized' /\ v = Failed /\ Failed \notin Elements /\ materialized' = <<>>
        BY <2>4, <2>10, <3>3, ElementFacts DEF IsMaterialized
      <4>2. ~Emptied /\ ~Emptied'
        BY <1>6, <4>1 DEF Emptied
      <4>3. \A j, u : Holds(j, u)' <=> Holds(j, u)
        BY <1>6, <3>1, <4>1 DEF Holds, At
      <4>4. HeldInOrder'
        BY <3>1, <4>3 DEF HeldInOrder, Index, Elements
      <4>5. HeldBehind'
        <5>1. \A j \in Index, u \in Elements : Holds(j, u)' => u < pos'
          BY <1>1, <2>7, <2>10, <3>2, <4>3, ElementFacts
        <5> QED
          BY <3>1, <5>1 DEF HeldBehind, Index, Elements
      <4> QED
        BY <2>10, <2>19, <3>1, <4>1, <4>2, <4>3, <4>4, <4>5, OrderStep
    <3>4. CASE o.how = "ok"
      <4>1. IsMaterialized' /\ materialized'[1] = all /\ v = At(all, i)
        BY <2>4, <2>12, <3>4
      <4>2. \A j, u : Holds(j, u)' <=> j >= window_start /\ u = At(all, j)
        BY <3>1, <4>1 DEF Holds, At
      <4>3. \A j, u : Holds(j, u) <=> j >= window_start /\ u = At(cache, j - window_start)
        BY <1>6 DEF Holds
      <4>4. ASSUME NEW j \in Index, NEW u \in Elements, Holds(j, u)'
            PROVE  Holds(j, u) \/ (j >= l /\ u = pos + j - l)
        <5>1. j \in Nat /\ j >= window_start /\ u = At(all, j) /\ u # NA
          BY <4>2, <4>4, IndexFacts, ElementFacts
        <5>2. CASE j < l
          BY <2>14, <4>3, <5>1, <5>2
        <5>3. CASE j >= l /\ j < l + m
          BY <2>1, <2>8, <2>9, <5>1, <5>3
        <5>4. CASE j >= l + m
          BY <2>8, <2>9, <5>1, <5>4
        <5> QED
          BY <2>6, <2>7, <5>1, <5>2, <5>3, <5>4
      <4>5. HeldInOrder'
        BY <1>1, <2>6, <3>1, <3>2, <4>4, GrownInOrder
      <4>6. HeldBehind'
        BY <3>1, <4>1 DEF HeldBehind
      <4>7. \A j \in Index, u \in Elements : Holds(j, u) => Holds(j, u)'
        BY <2>14, <3>2, <4>2, <4>3
      <4>8. i >= window_start => Holds(i, v)'
        BY <4>1, <4>2
      <4>9. ~GoneFromWindow(i)' => i >= window_start
        BY <1>2, <3>1 DEF GoneFromWindow
      <4>10. Emptied' => v \notin Elements
        BY <1>2, <4>1, ElementFacts DEF Emptied, At
      <4>11. ~Emptied
        BY <1>6 DEF Emptied
      <4> QED
        BY <2>10, <2>19, <3>1, <4>5, <4>6, <4>7, <4>8, <4>9, <4>10, <4>11, OrderStep
    <3> QED
      BY <3>3, <3>4
  <2> QED
    BY <2>10, <2>13, <2>15, <2>16, <2>18, <2>19, <2>20, <2>21, ReadStep
<1> QED
  BY <1>3, <1>4, <1>5, <1>6 DEF WindowMaterialize

\* advance_to, and the element of the new window: an index that was answered
\* and is not before the new window was beyond the end of the source.
LEMMA WindowAdvanceStep ==
  ASSUME IInv, kind = "window", ~IsMaterialized, borrowed = "none", NEW i \in Index,
         ~InWindow(i), i >= tracked, WindowAdvance(i)
  PROVE  IInv'
<1>1. /\ MemoryTyped /\ MemoryRight /\ supply \in Nat /\ supply <= MaxSupply
      /\ pos \in 0..supply /\ pos \in Nat
      /\ cache \in Seq(Elements) /\ cache \in Seq(Values) /\ Len(cache) \in Nat
      /\ Len(cache) <= size /\ size \in Nat \ {0}
      /\ tracked \in 0..len /\ window_start \in 0..tracked /\ len \in Nat
      /\ window_start + Len(cache) <= tracked
      /\ ~wasted => WindowRight
  BY WindowFacts
<1>2. PICK start : start = IF tracked < TargetStart(i) THEN TargetStart(i) ELSE tracked
  OBVIOUS
<1>3. PICK skip, fill : skip = start - tracked /\ fill = Least(size, len - start)
  OBVIOUS
<1>4. /\ i \in Nat /\ i < len /\ start \in Nat /\ tracked <= start /\ start <= i
      /\ i - start < size
  BY <1>1, <1>2, IndexFacts DEF TargetStart
<1>5. /\ skip \in Nat /\ fill \in Nat \ {0} /\ fill <= size /\ start + fill <= len
      /\ tracked + skip = start /\ i - start < fill
  <2>1. PICK a : a = len - start
    OBVIOUS
  <2>2. a \in Nat \ {0} /\ i - start < a /\ start + a = len
    BY <1>1, <1>4, <2>1
  <2>3. fill \in {size, a} /\ fill <= size /\ fill <= a
    BY ONLY <1>1, <1>3, <2>1, <2>2 DEF Least
  <2>4. fill \in Nat \ {0} /\ fill <= size /\ i - start < fill /\ start + fill <= len
    BY <1>1, <1>4, <2>2, <2>3
  <2>5. skip \in Nat /\ tracked + skip = start
    BY <1>1, <1>3, <1>4
  <2> QED
    BY <2>4, <2>5
<1>6. PICK o \in Pull(skip + fill) :
         LET w == Yielded(pos + skip, o.got - skip)
         IN  /\ IF o.got >= skip
                THEN /\ cache' = w /\ window_start' = start
                     /\ Ends(i, At(w, i - start), o, "all", o.got)
                ELSE /\ UNCHANGED <<cache, window_start>>
                     /\ Ends(i, NA, o, "all", 0)
             /\ tracked' = tracked + o.got
  BY <1>2, <1>3 DEF WindowAdvance
<1>7. iter = "some" /\ UNCHANGED <<given, supply, iter, cached, materialized>>
  BY DEF WindowAdvance
<1> PICK m : m = o.got
  OBVIOUS
<1>8. /\ m \in Nat /\ m <= skip + fill /\ m <= o.used /\ o.used \in Nat
      /\ o.used <= supply - pos
      /\ o.how = "ok" => o.used = m /\ (m < skip + fill => o.used = supply - pos)
  <2>1. skip + fill \in Nat \ {0}
    BY <1>5
  <2> QED
    BY <1>1, <1>6, <2>1, PullFacts
<1>9. /\ pos' = pos + o.used /\ tracked' = tracked + m /\ borrowed' \in {borrowed, "all"}
      /\ wasted' \in BOOLEAN /\ (~wasted' => ~wasted) /\ IsMaterialized' = IsMaterialized
  <2>1. wasted \in BOOLEAN
    BY <1>1 DEF MemoryTyped
  <2> QED
    BY <1>6, <1>7, <2>1 DEF Ends, IsMaterialized
<1>10. /\ pos' \in 0..supply /\ (pos = supply => pos' = supply /\ m = 0)
       /\ tracked' \in 0..len /\ tracked <= tracked'
  <2>1. pos' \in 0..supply /\ (pos = supply => pos' = supply /\ m = 0)
    BY ONLY <1>1, <1>8, <1>9
  <2>2. tracked' \in 0..len /\ tracked <= tracked'
    BY ONLY <1>1, <1>5, <1>8, <1>9
  <2> QED
    BY <2>1, <2>2
<1>11. ASSUME cache' \in Seq(Elements), Len(cache') <= size, Len(cache') <= len,
              window_start' \in 0..tracked'
       PROVE  MemoryTyped'
  BY <1>1, <1>7, <1>9, <1>10, <1>11
     DEF MemoryTyped, given, cached, IsMaterialized, Index, Values, Elements
<1>12. CASE m >= skip
  <2>1. PICK w, p, k : w = Yielded(p, k) /\ p = pos + skip /\ k = m - skip
    OBVIOUS
  <2>2. PICK v : v = IF o.how = "ok" THEN At(w, i - start) ELSE Failed
    OBVIOUS
  <2>3. p \in Nat /\ k \in Nat /\ k <= fill /\ p + k <= MaxSupply
    <3>1. pos + o.used <= supply
      BY ONLY <1>1, <1>8
    <3>2. p \in Nat /\ k \in Nat /\ k <= fill /\ p + k = pos + m
      BY ONLY <1>1, <1>5, <1>8, <1>12, <2>1
    <3>3. pos + m <= supply
      BY ONLY <1>1, <1>8, <3>1
    <3>4. MaxSupply \in Nat
      BY LenAssumption
    <3> QED
      BY ONLY <1>1, <1>8, <3>2, <3>3, <3>4
  <2>4. w \in Seq(Elements) /\ Len(w) = k /\ \A j \in 1..k : w[j] = p + j - 1
    BY ONLY <2>1, <2>3, YieldedFacts
  <2>5. /\ cache' = w /\ window_start' = start /\ Answer(i, v)
        /\ wasted' = (wasted \/ (o.how # "ok" /\ o.used # m))
    BY <1>6, <1>12, <2>1, <2>2 DEF Ends
  <2>6. start + k = tracked' /\ tracked' = tracked + m
    BY ONLY <1>1, <1>5, <1>8, <1>9, <1>12, <2>1, <2>3
  <2>7. MemoryTyped'
    <3>1. k <= size /\ k <= len /\ start \in 0..tracked'
      BY ONLY <1>1, <1>4, <1>5, <1>10, <2>3, <2>6
    <3> QED
      BY <1>11, <2>4, <2>5, <3>1
  <2>8. MemoryRight'
    <3>1. window_start' + Len(cache') <= tracked'
      BY <1>10, <2>4, <2>5, <2>6
    <3>2. ASSUME ~wasted'
          PROVE  WindowRight'
      <4>1. ~wasted /\ o.used = m /\ pos = tracked
        BY <1>1, <1>8, <2>5, <3>2 DEF WindowRight
      <4>2. pos' = tracked' /\ p = start
        BY <1>1, <1>5, <1>8, <1>9, <2>1, <4>1
      <4> QED
        BY <1>7, <1>9, <2>4, <2>5, <2>6, <4>2 DEF WindowRight
    <3> QED
      BY <1>7, <3>1, <3>2 DEF MemoryRight, given, cached
  <2>9. ASSUME NEW j \in Index, Told(j)'
        PROVE  Told(j) /\ j \in Nat /\ j >= start
    <3>1. j \in Nat /\ j >= start /\ ~wasted
      BY <1>7, <1>9, <2>5, <2>9, IndexFacts DEF Told, given, cached
    <3>2. j >= window_start
      BY ONLY <1>1, <1>4, <3>1
    <3> QED
      BY <3>1, <3>2 DEF Told
  <2>10. ASSUME NEW j \in Nat, j >= start, NEW u, u = At(w, j - start),
                j >= start + k => pos' = supply
         PROVE  Recalls(j, u)'
    BY <1>7, <1>9, <2>4, <2>5, <2>10 DEF Recalls, WindowRecalls, At, given, cached
  <2>11. ASSUME NEW j \in Index, NEW u \in Values, Told(j)', Recalls(j, u)
         PROVE  Recalls(j, u)'
    <3>1. j \in Nat /\ j >= start
      BY <2>9, <2>11
    <3>2. u = At(cache, j - window_start) /\ (j >= window_start + Len(cache) => pos = supply)
      BY <2>11 DEF Recalls, WindowRecalls
    <3>3. j >= window_start + Len(cache) /\ ~(j - window_start < Len(cache))
      BY ONLY <1>1, <1>4, <3>1
    <3>4. u = NA /\ pos = supply
      BY <3>2, <3>3 DEF At
    <3>5. k = 0 /\ pos' = supply /\ ~(j - start < 0)
      BY <1>4, <1>5, <1>10, <1>12, <2>1, <3>1, <3>4
    <3>6. At(w, j - start) = NA
      BY <2>4, <3>5 DEF At
    <3> QED
      BY <2>10, <3>1, <3>4, <3>5, <3>6
  <2>12. i - start \in Nat
    BY <1>4
  <2>13. v \in Values \cup {Failed}
    BY <2>2, <2>4, <2>12, AtFacts, SpecialValues
  <2>14. v # Failed => Recalls(i, v)'
    <3>1. ASSUME o.how = "ok", i >= start + k
          PROVE  pos' = supply
      <4>1. m < skip + fill
        BY ONLY <1>4, <1>5, <1>8, <2>1, <2>3, <3>1
      <4> QED
        BY <1>1, <1>8, <1>9, <3>1, <4>1
    <3> QED
      BY <1>4, <2>2, <2>10, <3>1
  <2>15. OrderInv'
    <3>1. /\ HeldInOrder /\ HeldBehind /\ kind' = "window" /\ tracked \in Nat
          /\ ~Emptied /\ ~Emptied'
      BY <1>1, <1>7, <1>9 DEF IInv, OrderInv, given, Emptied
    <3>2. ASSUME NEW j \in Index, NEW u \in Elements, Holds(j, u)
          PROVE  j \in Nat /\ j < tracked /\ u < pos
      <4>1. j \in Nat /\ j >= window_start /\ u = At(cache, j - window_start) /\ u # NA
        BY <3>2, IndexFacts, ElementFacts DEF Holds
      <4>2. j - window_start < Len(cache)
        BY <4>1 DEF At
      <4>3. u < pos
        BY <3>1, <3>2 DEF HeldBehind
      <4> QED
        BY <1>1, <4>1, <4>2, <4>3
    <3>3. \A j, u : Holds(j, u)' <=> j >= start /\ u = At(w, j - start)
      BY <1>9, <2>5, <3>1 DEF Holds, At
    <3>4. ASSUME NEW j \in Index, NEW u \in Elements, Holds(j, u)'
          PROVE  j >= tracked /\ u = pos + j - tracked /\ u < pos'
      <4>1. PICK a : a = j - start
        OBVIOUS
      <4>2. j \in Nat /\ j >= start /\ u = At(w, a) /\ u # NA /\ a \in Nat
        BY <1>4, <3>3, <3>4, <4>1, IndexFacts, ElementFacts
      <4>3. a < k
        BY <2>4, <4>2 DEF At
      <4>4. u = w[a + 1] /\ a + 1 \in 1..k
        BY <2>3, <2>4, <4>2, <4>3 DEF At
      <4>5. u = p + (a + 1) - 1
        BY <2>4, <4>4
      <4>6. tracked \in Nat /\ p \in Nat /\ k \in Nat /\ skip \in Nat /\ m \in Nat
        BY <1>1, <1>5, <1>8, <2>3
      <4>7. u = p + a /\ j = start + a
        BY ONLY <1>4, <4>1, <4>2, <4>5, <4>6
      <4>8. j >= tracked /\ u = pos + j - tracked
        BY ONLY <1>1, <1>4, <1>5, <2>1, <4>2, <4>6, <4>7
      <4>9. u < pos'
        <5>1. PICK d, e : d = o.used /\ e = pos'
          OBVIOUS
        <5>2. pos \in Nat /\ d \in Nat /\ m <= d /\ e = pos + d
          BY <1>1, <1>8, <1>9, <5>1
        <5>3. u < e
          BY ONLY <2>1, <4>2, <4>3, <4>6, <4>7, <5>2
        <5> QED
          BY <5>1, <5>3
      <4> QED
        BY <4>8, <4>9
    <3>5. HeldInOrder'
      BY <1>1, <3>1, <3>2, <3>4, GrownInOrder
    <3>6. HeldBehind'
      BY <3>1, <3>4 DEF HeldBehind, Index, Elements
    <3>7. \A j \in Index : ~GoneFromWindow(j)' => j >= start
      <4>1. ASSUME NEW j \in Index, ~GoneFromWindow(j)'
            PROVE  j >= start
        <5>1. ~(j < start) /\ j \in Nat
          BY <2>5, <3>1, <4>1, IndexFacts DEF GoneFromWindow
        <5> QED
          BY <1>4, <5>1
      <4> QED
        BY <4>1
    <3>8. ASSUME NEW j \in Index, NEW u \in Elements, ~GoneFromWindow(j)', Holds(j, u)
          PROVE  FALSE
      BY <1>4, <3>1, <3>2, <3>7, <3>8
    <3>9. v \in Elements => Holds(i, v)'
      BY <1>4, <2>2, <3>3, ElementFacts
    <3>10. window_start \in Nat /\ window_start' \in Nat /\ window_start <= window_start'
      BY <1>1, <1>4, <2>5
    <3> QED
      BY <2>5, <2>13, <3>1, <3>5, <3>6, <3>8, <3>9, <3>10, OrderStep
  <2> QED
    BY <2>5, <2>7, <2>8, <2>9, <2>11, <2>13, <2>14, <2>15, ReadStep
<1>13. CASE ~(m >= skip)
  <2>1. PICK v : v = IF o.how = "ok" THEN NA ELSE Failed
    OBVIOUS
  <2>2. /\ cache' = cache /\ window_start' = window_start /\ Answer(i, v)
        /\ wasted' = (wasted \/ (o.how # "ok" /\ o.used # 0))
    BY <1>6, <1>13, <2>1 DEF Ends
  <2>3. MemoryTyped'
    <3>1. Len(cache) <= len /\ window_start \in 0..tracked'
      BY ONLY <1>1, <1>10
    <3> QED
      BY <1>1, <1>11, <2>2, <3>1
  <2>4. m < skip + fill
    BY ONLY <1>5, <1>8, <1>13
  <2>5. o.how = "ok" => pos' = supply
    BY <1>1, <1>8, <1>9, <2>4
  <2>6. MemoryRight'
    <3>1. window_start' + Len(cache') <= tracked'
      <4>1. window_start + Len(cache) <= tracked'
        BY ONLY <1>1, <1>10
      <4> QED
        BY <2>2, <4>1
    <3>2. ASSUME ~wasted'
          PROVE  WindowRight'
      <4>1. /\ ~wasted /\ pos = tracked /\ (window_start + Len(cache) = tracked \/ pos = supply)
            /\ \A j \in 1..Len(cache) : cache[j] = window_start + j - 1
        BY <1>1, <2>2, <3>2 DEF WindowRight
      <4>2. o.used = m /\ (o.how # "ok" => m = 0)
        <5>1. o.how = "ok" \/ o.used = 0
          BY <2>2, <3>2
        <5>2. o.used = 0 => m = 0
          BY ONLY <1>8
        <5>3. o.how = "ok" => o.used = m
          BY <1>8
        <5> QED
          BY ONLY <5>1, <5>2, <5>3
      <4>3. pos' = tracked'
        BY <1>9, <4>1, <4>2
      <4>4. window_start + Len(cache) = tracked' \/ pos' = supply
        BY <1>1, <1>9, <1>10, <2>5, <4>1, <4>2
      <4> QED
        BY <1>7, <1>9, <2>2, <4>1, <4>3, <4>4 DEF WindowRight
    <3> QED
      BY <1>7, <3>1, <3>2 DEF MemoryRight, given, cached
  <2>7. \A j \in Index : Told(j)' => Told(j)
    BY <1>7, <1>9, <2>2 DEF Told, given, cached
  <2>8. \A j \in Index, u \in Values : Recalls(j, u) => Recalls(j, u)'
    BY <1>7, <1>9, <1>10, <2>2 DEF Recalls, WindowRecalls, At, given, cached
  <2>9. v # Failed => Recalls(i, v)'
    <3>1. ~(i - window_start < Len(cache))
      BY ONLY <1>1, <1>4
    <3> QED
      BY <1>7, <1>9, <2>1, <2>2, <2>5, <3>1 DEF Recalls, WindowRecalls, At, given, cached
  <2>10. OrderInv'
    <3>1. /\ HeldInOrder /\ HeldBehind /\ kind' = "window"
          /\ ~Emptied /\ ~Emptied' /\ window_start \in Nat
      BY <1>1, <1>7, <1>9 DEF IInv, OrderInv, given, Emptied
    <3>2. \A j, u : Holds(j, u)' <=> Holds(j, u)
      BY <1>9, <2>2, <3>1 DEF Holds, At
    <3>3. HeldInOrder'
      BY <3>1, <3>2 DEF HeldInOrder, Index, Elements
    <3>4. HeldBehind'
      <4>1. \A j \in Index, u \in Elements : Holds(j, u)' => u < pos'
        <5>1. ASSUME NEW j \in Index, NEW u \in Elements, Holds(j, u)'
              PROVE  u < pos'
          <6>1. u < pos
            BY <3>1, <3>2, <5>1 DEF HeldBehind
          <6> QED
            BY <1>1, <1>8, <1>9, <6>1, ElementFacts
        <5> QED
          BY <5>1
      <4> QED
        BY <3>1, <4>1 DEF HeldBehind, Index, Elements
    <3>5. v \notin Elements
      BY <2>1, ElementFacts
    <3> QED
      BY <2>1, <2>2, <3>1, <3>2, <3>3, <3>4, <3>5, OrderStep, SpecialValues
  <2> QED
    BY <2>1, <2>2, <2>3, <2>6, <2>7, <2>8, <2>9, <2>10, ReadStep, SpecialValues
<1> QED
  BY <1>12, <1>13

\* An element of a window: from the window, from a later one, or of a vector that
\* is materialized for it.
LEMMA WindowElementStep ==
  ASSUME IInv, NEW i \in Index, WindowElement(i)
  PROVE  IInv'
<1>1. kind = "window"
  BY DEF WindowElement
<1>2. /\ cache \in Seq(Elements) /\ cache \in Seq(Values) /\ Len(cache) \in Nat
      /\ window_start \in Nat /\ (~wasted => WindowRight) /\ i \in Nat
  BY <1>1, WindowFacts, IndexFacts
<1>3. CASE FromMaterialized(i)
  BY <1>1, <1>3, FromMaterializedStep
<1>4. CASE Memory(i, Failed)
  BY <1>4, FailedStep
<1>5. CASE ~IsMaterialized /\ InWindow(i) /\ Memory(i, cache[i - window_start + 1])
  <2>1. PICK v : v = cache[i - window_start + 1]
    OBVIOUS
  <2>2. i - window_start < Len(cache) /\ i - window_start + 1 \in 1..Len(cache)
    BY <1>2, <1>5 DEF InWindow
  <2>3. v \in Values
    BY <1>2, <2>1, <2>2
  <2>4. Recalls(i, v)
    BY <1>1, <1>2, <1>5, <2>1, <2>2 DEF Recalls, WindowRecalls, At
  <2>5. ~Emptied /\ Holds(i, v)
    BY <1>1, <1>2, <1>5, <2>1, <2>2 DEF Holds, Emptied, InWindow, At
  <2> QED
    BY <1>5, <2>1, <2>3, <2>4, <2>5, MemoryStep
<1>6. CASE ~IsMaterialized /\ borrowed = "none" /\ ~InWindow(i) /\ i >= tracked /\ WindowAdvance(i)
  BY <1>1, <1>6, WindowAdvanceStep
<1>7. CASE ~IsMaterialized /\ iter = "none" /\ Memory(i, NA)
  <2>1. ~Told(i)
    BY <1>1, <1>2, <1>7 DEF Told, WindowRight
  <2> QED
    BY <1>7, <2>1, MemoryStep, SpecialValues
<1>8. CASE WindowMaterialize(i)
  BY <1>1, <1>8, WindowMaterializeStep
<1> QED
  BY <1>3, <1>4, <1>5, <1>6, <1>7, <1>8 DEF WindowElement

-----------------------------------------------------------------------------
(* The invariant, and what it says of the answers                          *)

LEMMA InitIInv ==
  Init => IInv
<1> SUFFICES ASSUME Init
             PROVE  IInv
  OBVIOUS
<1>1. <<>> \in Seq(Elements) /\ Len(<<>>) = 0
  OBVIOUS
<1>2. \A i \in Index : seen[i] = Unread
  BY DEF Init
<1>3. TypeOK
  <2>1. /\ slots \in [DOMAIN slots -> Elements] /\ slots \in [DOMAIN slots -> Seq(Elements)]
        /\ DOMAIN slots \subseteq Index
    BY DEF Init
  <2>2. /\ tracked \in 0..len /\ window_start \in 0..tracked /\ pos \in 0..supply
        /\ supply \in 0..MaxSupply /\ Len(cache) <= len
        /\ kind = "window" => Len(cache) <= size
    BY <1>1, LenAssumption, SizesAssumption DEF Init
  <2>3. MemoryTyped
    BY <1>1, <2>1, <2>2 DEF Init, MemoryTyped, IsMaterialized
  <2> QED
    BY <2>3 DEF Init, TypeOK
<1>4. MemoryRight
  BY <1>1 DEF Init, MemoryRight, PrefixRight, SparseRight, WindowRight, StreamRight,
              IsMaterialized
<1>5. AnswersRecalled
  BY <1>2, SpecialValues DEF Init, AnswersRecalled, Answered
<1>6. OrderInv
  <2>1. \A i \in Index, u \in Elements : seen[i] # u
    BY <1>2, ElementFacts
  <2>2. ASSUME NEW i \in Index, NEW u \in Elements, kind # "stream"
        PROVE  ~Holds(i, u)
    BY <1>1, <2>2, IndexFacts, ElementFacts DEF Init, Holds, IsMaterialized, At
  <2>3. HeldInOrder /\ HeldBehind
    BY <2>2 DEF HeldInOrder, HeldBehind, Holds
  <2>4. SeenHeld /\ AnswersInOrder
    BY <2>1 DEF SeenHeld, AnswersInOrder
  <2> QED
    BY <2>3, <2>4 DEF OrderInv
<1> QED
  BY <1>3, <1>4, <1>5, <1>6 DEF IInv

LEMMA NextIInv ==
  ASSUME IInv, [Next]_vars
  PROVE  IInv'
<1>1. CASE UNCHANGED vars
  <2>1. TypeOK'
    BY <1>1 DEF IInv, TypeOK, MemoryTyped, vars, given, cached, cells, IsMaterialized, Index, Values,
                Elements
  <2>2. MemoryRight'
    BY <1>1 DEF IInv, MemoryRight, PrefixRight, SparseRight, WindowRight, StreamRight,
                vars, given, cached, cells, IsMaterialized, Index, At, CutOff
  <2>3. AnswersRecalled'
    BY <1>1 DEF IInv, AnswersRecalled, Answered, Told, Recalls, PrefixRecalls, SparseRecalls,
                WindowRecalls, StreamRecalls, Chunk, vars, given, cached, cells, IsMaterialized, At, Index,
                Values, Elements
  <2>4. OrderInv'
    BY <1>1 DEF IInv, OrderInv, HeldInOrder, HeldBehind, SeenHeld, AnswersInOrder, Holds, Emptied,
                GoneFromWindow, vars, given, cached, cells, IsMaterialized, At, Index, Elements
  <2> QED
    BY <2>1, <2>2, <2>3, <2>4 DEF IInv
<1>2. ASSUME NEW i \in Index, PrefixElement(i) PROVE IInv'
  BY <1>2, PrefixElementStep
<1>3. ASSUME NEW i \in Index, PrefixMaterialize(i) PROVE IInv'
  BY <1>3, PrefixMaterializeStep
<1>4. ASSUME NEW i \in Index, SparseElement(i) PROVE IInv'
  BY <1>4, SparseElementStep
<1>5. ASSUME NEW i \in Index, WindowElement(i) PROVE IInv'
  BY <1>5, WindowElementStep
<1>6. ASSUME NEW i \in Index, kind = "window", WindowMaterialize(i) PROVE IInv'
  BY <1>6, WindowMaterializeStep
<1>7. ASSUME NEW i \in Index, StreamElement(i) PROVE IInv'
  BY <1>7, StreamElementStep
<1>8. ASSUME NEW i \in Index, StreamRegion(i) PROVE IInv'
  BY <1>8, StreamRegionStep
<1>9. CASE StreamGrows
  BY <1>9, StreamGrowsStep
<1> QED
  BY <1>1, <1>2, <1>3, <1>4, <1>5, <1>6, <1>7, <1>8, <1>9 DEF Next

\* Every action of a lazy vector keeps its memory right and its answers recalled.
THEOREM Invariance ==
  Spec => []IInv
BY InitIInv, NextIInv, PTL DEF Spec

\* The types of the cells, of every kind, whatever fails (state.rs, sparse.rs,
\* windowed.rs, stream.rs).
THEOREM TypeCorrect ==
  Spec => []TypeOK
<1>1. IInv => TypeOK
  BY DEF IInv
<1> QED
  BY <1>1, Invariance, PTL

\* The memory answers an index with one value.
LEMMA RecallsOne ==
  ASSUME IInv, NEW i \in Index, NEW v, NEW w, Recalls(i, v), Recalls(i, w), ~Outgrown(i)
  PROVE  v = w
<1>1. CASE kind = "stream"
  <2>1. /\ StreamRecalls(i, v) /\ StreamRecalls(i, w) /\ i \in Nat /\ supply \in Nat
        /\ Chunk(i) \in DOMAIN slots => readAt[Chunk(i)] \in Nat
    BY <1>1, IndexFacts, LenAssumption DEF Recalls, IInv, TypeOK, MemoryTyped
  <2> QED
    BY <1>1, <2>1 DEF StreamRecalls, Outgrown
<1>2. CASE kind # "stream"
  BY <1>2 DEF IInv, TypeOK, MemoryTyped, Recalls, PrefixRecalls, SparseRecalls, WindowRecalls
<1> QED
  BY <1>1, <1>2

\* Once an index of a lazy vector was answered every later answer is the same, for
\* sources, windows and chunks of any size and any sequence of reads and failures.
THEOREM ReadsRepeat ==
  Spec => []RepeatableReads
<1>1. ASSUME IInv PROVE RepeatableReads
  <2> SUFFICES ASSUME Answered, ~GoneFromWindow(answer.index),
                      kind = "window" => ~wasted, ~Outgrown(answer.index)
               PROVE  answer.value = seen[answer.index]
    BY DEF RepeatableReads
  <2>1. PICK i, v : i = answer.index /\ v = answer.value
    OBVIOUS
  <2>2. i \in Index /\ v \in Values
    BY <1>1, <2>1 DEF IInv, AnswersRecalled, Answered
  <2>3. Told(i)
    <3>1. i \in Int
      BY <2>2, IndexFacts
    <3>2. window_start \in Int
      BY <1>1, LenAssumption DEF IInv, TypeOK, MemoryTyped
    <3> QED
      BY <2>1, <3>1, <3>2 DEF Told, GoneFromWindow
  <2>4. seen[i] \in Values /\ Recalls(i, v)
    <3>1. seen[i] # Unread /\ Recalls(i, v)
      BY <1>1, <2>1, <2>2, <2>3 DEF IInv, AnswersRecalled
    <3>2. seen[i] \in Values \cup {Unread}
      BY <1>1, <2>2 DEF IInv, TypeOK
    <3> QED
      BY <3>1, <3>2
  <2>5. PICK u : u = seen[i]
    OBVIOUS
  <2>6. Recalls(i, u)
    BY <1>1, <2>2, <2>3, <2>4, <2>5 DEF IInv, AnswersRecalled
  <2> QED
    BY <1>1, <2>1, <2>2, <2>4, <2>5, <2>6, RecallsOne
<1> QED
  BY <1>1, Invariance, PTL

\* Where the memory of a prefix vector answers NA the source has no element.
LEMMA PrefixAnswer ==
  ASSUME IInv, kind = "prefix", ~wasted, NEW i \in Index, NEW v, Recalls(i, v)
  PROVE  v \in {i, NA} /\ (v = NA => i >= supply)
<1>1. /\ PrefixRight /\ PrefixRecalls(i, v) /\ i \in Nat /\ i # NA
      /\ cache \in Seq(Elements) /\ Len(cache) \in Nat
  BY PrefixFacts, IndexFacts DEF MemoryRight, Recalls, NA
<1>2. CASE IsMaterialized
  <2>1. v = At(materialized[1], i)
    BY <1>1, <1>2 DEF PrefixRecalls
  <2>2. IF i < Len(materialized[1]) THEN materialized[1][i + 1] = i ELSE i >= supply
    BY <1>1, <1>2 DEF PrefixRight
  <2> QED
    BY <1>1, <2>1, <2>2 DEF At
<1>3. CASE ~IsMaterialized
  <2>1. v = At(cache, i) /\ (i >= Len(cache) => pos = supply) /\ pos = Len(cache)
    BY <1>1, <1>3 DEF PrefixRecalls, PrefixRight
  <2>2. i < Len(cache) => cache[i + 1] = i
    <3>1. i < Len(cache) => i + 1 \in 1..Len(cache)
      BY <1>1
    <3>2. \A j \in 1..Len(cache) : cache[j] = j - 1
      BY <1>1, <1>3 DEF PrefixRight
    <3>3. (i + 1) - 1 = i
      BY ONLY <1>1
    <3> QED
      BY <3>1, <3>2, <3>3
  <2> QED
    BY <1>1, <2>1, <2>2 DEF At
<1> QED
  BY <1>2, <1>3

\* Where that of a sparse vector does the source has none, or it was skipped.
LEMMA SparseAnswer ==
  ASSUME IInv, kind = "sparse", ~wasted, NEW i \in Index, NEW v, Recalls(i, v)
  PROVE  /\ v \in {i, NA}
         /\ v = NA => \/ i >= supply
                      \/ i < pos /\ i \notin DOMAIN slots
<1>1. /\ SparseRight /\ SparseRecalls(i, v) /\ i \in Nat /\ i # NA
      /\ pos \in Nat /\ supply \in Nat /\ tracked \in Nat
  BY IndexFacts, LenAssumption DEF IInv, TypeOK, MemoryTyped, MemoryRight, Recalls, NA
<1>2. CASE i \in DOMAIN slots
  BY <1>1, <1>2 DEF SparseRight, SparseRecalls
<1>3. CASE i \notin DOMAIN slots
  <2>1. v = NA /\ (i < tracked \/ pos = supply) /\ tracked <= pos
    BY <1>1, <1>3 DEF SparseRight, SparseRecalls
  <2> QED
    BY <1>1, <1>3, <2>1
<1> QED
  BY <1>2, <1>3

\* Where a window does the source has none, or an early end cut it off.
LEMMA WindowAnswer ==
  ASSUME IInv, kind = "window", NEW i \in Index, Told(i), NEW v, Recalls(i, v)
  PROVE  /\ v \in {i, NA}
         /\ v = NA => \/ i >= supply
                      \/ CutOff(i)
<1>1. /\ WindowRight /\ WindowRecalls(i, v) /\ i \in Nat /\ i >= window_start
      /\ window_start \in Nat /\ Len(cache) \in Nat /\ tracked \in Nat /\ supply \in Nat
  BY WindowFacts, IndexFacts DEF Recalls, Told
<1>2. CASE IsMaterialized
  <2>1. i # NA
    BY <1>1 DEF NA
  <2> QED
    BY <1>1, <1>2, <2>1 DEF WindowRight, WindowRecalls
<1>3. CASE ~IsMaterialized
  <2>1. v = At(cache, i - window_start)
    BY <1>1, <1>3 DEF WindowRecalls
  <2>2. i - window_start < Len(cache) => cache[i - window_start + 1] = i
    <3>1. PICK k : k = i - window_start + 1
      OBVIOUS
    <3>2. /\ i - window_start < Len(cache) => k \in 1..Len(cache)
          /\ window_start + k - 1 = i
      BY ONLY <1>1, <3>1
    <3>3. \A j \in 1..Len(cache) : cache[j] = window_start + j - 1
      BY <1>1, <1>3 DEF WindowRight
    <3> QED
      BY <3>1, <3>2, <3>3
  <2>3. i >= window_start + Len(cache) => i >= supply \/ CutOff(i)
    BY <1>1, <1>3 DEF WindowRight, WindowRecalls, CutOff
  <2>4. i # NA
    BY <1>1 DEF NA
  <2> QED
    BY <1>1, <2>1, <2>2, <2>3, <2>4 DEF At
<1> QED
  BY <1>2, <1>3

LEMMA StreamAnswer ==
  ASSUME IInv, kind = "stream", NEW i \in Index, NEW v, Recalls(i, v)
  PROVE  v = i \/ (v = NA /\ (i >= supply \/ Outgrown(i)))
<1>1. /\ StreamRecalls(i, v) /\ i \in Nat /\ supply \in Nat
      /\ Chunk(i) \in DOMAIN slots => readAt[Chunk(i)] \in Nat
  BY IndexFacts, LenAssumption DEF Recalls, IInv, TypeOK, MemoryTyped
<1>2. PICK c : c = Chunk(i)
  OBVIOUS
<1> QED
  BY <1>1, <1>2 DEF StreamRecalls, Outgrown

\* An answer of a lazy vector is the element of its index, or NA where there is
\* none to be had, as long as no failed read used up elements it did not keep.
LEMMA ExactAnswers ==
  ASSUME IInv, Answered, ~wasted, ~GoneFromWindow(answer.index)
  PROVE  \/ answer.value = answer.index
         \/ answer.value = NA /\ MayBeNA(answer.index)
<1>1. PICK i, v : i = answer.index /\ v = answer.value
  OBVIOUS
<1>2. i \in Index /\ v \in Values
  BY <1>1 DEF IInv, AnswersRecalled, Answered
<1>3. Told(i)
  <2>1. i \in Int
    BY <1>2, IndexFacts
  <2>2. window_start \in Int
    BY LenAssumption DEF IInv, TypeOK, MemoryTyped
  <2> QED
    BY <1>1, <2>1, <2>2 DEF Told, GoneFromWindow
<1>4. Recalls(i, v)
  BY <1>1, <1>2, <1>3 DEF IInv, AnswersRecalled
<1>5. kind \in {"prefix", "sparse", "window", "stream"}
  BY DEF IInv, TypeOK, MemoryTyped
<1>6. v = i \/ (v = NA /\ MayBeNA(i))
  <2>1. CASE kind = "prefix"
    <3>1. v \in {i, NA} /\ (v = NA => i >= supply)
      BY <1>2, <1>4, <2>1, PrefixAnswer
    <3> QED
      BY <3>1 DEF MayBeNA
  <2>2. CASE kind = "sparse"
    <3>1. /\ v \in {i, NA}
          /\ v = NA => i >= supply \/ (i < pos /\ i \notin DOMAIN slots)
      BY <1>2, <1>4, <2>2, SparseAnswer
    <3> QED
      BY <2>2, <3>1 DEF MayBeNA
  <2>3. CASE kind = "window"
    <3>1. v \in {i, NA} /\ (v = NA => i >= supply \/ CutOff(i))
      BY <1>2, <1>3, <1>4, <2>3, WindowAnswer
    <3> QED
      BY <2>3, <3>1 DEF MayBeNA
  <2>4. CASE kind = "stream"
    BY <1>2, <1>4, <2>4, StreamAnswer DEF MayBeNA
  <2> QED
    BY <1>5, <2>1, <2>2, <2>3, <2>4
<1> QED
  BY <1>1, <1>6

\* An answer of a lazy vector is the element of its index, or NA where there is
\* none to be had, as long as no failed read used up elements it did not keep; and
\* after one that did, the answers still come in the order of the source.
THEOREM AnswersRight ==
  Spec => []AnswersAreRight
<1>1. IInv => AnswersAreRight
  BY ExactAnswers DEF AnswersAreRight, IInv, OrderInv
<1> QED
  BY <1>1, Invariance, PTL
=============================================================================
