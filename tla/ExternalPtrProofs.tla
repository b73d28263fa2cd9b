------------------------- MODULE ExternalPtrProofs -------------------------
(***************************************************************************)
(* ExternalPtr, for any objects, values, handles, pool capacity, modulus   *)
(* of the generations and depth of calls: who owns a value and what an     *)
(* owner may rely on.  The properties rest on one another: the pool keeps  *)
(* the objects of owners, a kept object keeps its value, and only the one  *)
(* object that has a value frees it.                                       *)
(***************************************************************************)
EXTENDS ExternalPtr, FiniteSetTheorems, SequenceTheorems, TLAPS

-----------------------------------------------------------------------------
(* The pool: insert and release keep what it guarantees, for any objects,   *)
(* any initial capacity and any modulus of the generations: insert hands    *)
(* out a slot that nobody uses, under a key that is valid, and moves no     *)
(* other.                                                                   *)

\* A sequence without its last element.
LEMMA FrontOfSeq ==
  ASSUME NEW S, NEW s \in Seq(S), s # <<>>
  PROVE  /\ Len(s) \in Nat \ {0}
         /\ s[Len(s)] \in S
         /\ SubSeq(s, 1, Len(s) - 1) \in Seq(S)
         /\ Len(SubSeq(s, 1, Len(s) - 1)) = Len(s) - 1
         /\ \A i \in 1..Len(s) - 1 : SubSeq(s, 1, Len(s) - 1)[i] = s[i]
<1>1. Len(s) \in Nat \ {0}
  BY EmptySeq
<1>2. \A i \in 1..Len(s) : s[i] \in S
  BY ElementOfSeq
<1>3. \A i \in 1..Len(s) - 1 : s[i] \in S
  BY <1>1, <1>2
<1> DEFINE t == SubSeq(s, 1, Len(s) - 1)
<1>4. /\ t \in Seq(S)
      /\ Len(t) = IF 1 <= Len(s) - 1 THEN (Len(s) - 1) - 1 + 1 ELSE 0
      /\ \A i \in 1..(Len(s) - 1) - 1 + 1 : t[i] = s[1 + i - 1]
  BY <1>1, <1>3, SubSeqProperties
<1> HIDE DEF t
<1>5. Len(t) = Len(s) - 1 /\ \A i \in 1..Len(s) - 1 : t[i] = s[i]
  <2>1. ASSUME NEW n \in Nat \ {0}
        PROVE  /\ n - 1 = IF 1 <= n - 1 THEN (n - 1) - 1 + 1 ELSE 0
               /\ (n - 1) - 1 + 1 = n - 1
    OBVIOUS
  <2>2. \A i \in Nat : 1 + i - 1 = i
    OBVIOUS
  <2>3. Len(t) = Len(s) - 1
    BY <1>1, <1>4, <2>1, Zenon
  <2>4. \A i \in 1..Len(s) - 1 : t[i] = s[1 + i - 1]
    BY <1>1, <1>4, <2>1, Zenon
  <2>5. \A i \in 1..Len(s) - 1 : i \in Nat
    BY <1>1
  <2> QED
    BY <2>2, <2>3, <2>4, <2>5, Zenon
<1>6. s[Len(s)] \in S
  BY <1>1, <1>2
<1> QED
  BY <1>1, <1>4, <1>5, <1>6 DEF t

\* A new pool is empty and consistent.
LEMMA NewPoolOK ==
  ASSUME NEW Objs
  PROVE  PoolOK(NewPool, Objs) /\ UsedSlots(NewPool) = {} /\ NewPool.len = 0
<1>1. PoolType(NewPool, Objs)
  BY PoolAssumption DEF PoolType, NewPool, Slots
<1>2. UsedSlots(NewPool) = {}
  BY DEF UsedSlots, NewPool
<1>3. /\ NewPool.free = <<>> /\ NewPool.len = 0 /\ NewPool.next = 0
      /\ NewPool.capacity = Capacity
      /\ \A i \in 0..Capacity - 1 : NewPool.backing[i] = Nil
  BY DEF NewPool
<1>4. \A i \in Slots(NewPool) : NewPool.backing[i] = Nil
  BY <1>3 DEF Slots
<1>5. /\ Len(NewPool.free) = 0
      /\ \A i, j \in 1..Len(NewPool.free) : i # j => NewPool.free[i] # NewPool.free[j]
  BY <1>3
<1>6. NewPool.len + Len(NewPool.free) = NewPool.next
  BY <1>3, <1>5
<1> QED
  BY <1>1, <1>2, <1>3, <1>4, <1>5, <1>6, Zenon DEF PoolOK

\* alloc_slot: the slot given out is in nobody's use, and growing the list or
\* taking from the free list leaves every other slot and generation as it is.
LEMMA SlotIsUnused ==
  ASSUME NEW Objs, NEW p, PoolOK(p, Objs)
  PROVE  LET q == WithSlot(p)
             k == AllocSlot(p)
         IN  /\ DOMAIN q = DOMAIN p /\ q.len = p.len
             /\ q.capacity \in Nat \ {0} /\ q.capacity >= p.capacity
             /\ q.next \in 0..q.capacity /\ k \in 0..q.next - 1
             /\ q.backing \in [Slots(q) -> Objs \cup {Nil}]
             /\ q.generation \in [Slots(q) -> 0..GenMod - 1]
             /\ \A i \in Slots(q) : /\ q.backing[i] = IF i < p.capacity THEN p.backing[i] ELSE Nil
                                    /\ i < p.capacity => q.generation[i] = p.generation[i]
             /\ q.free \in Seq(0..q.next - 1)
             /\ p.len + 1 + Len(q.free) = q.next
             /\ \A i \in 1..Len(q.free) :
                  i \in 1..Len(p.free) /\ q.free[i] = p.free[i] /\ q.free[i] # k
             /\ k \notin UsedSlots(p) /\ UsedSlots(q) = UsedSlots(p) \cup {k}
<1> DEFINE q == WithSlot(p)
           k == AllocSlot(p)
<1>0. /\ PoolType(p, Objs) /\ p.len + Len(p.free) = p.next
      /\ \A i, j \in 1..Len(p.free) : i # j => p.free[i] # p.free[j]
      /\ DOMAIN p = {"backing", "capacity", "generation", "free", "next", "len"}
  BY DEF PoolOK, PoolType
<1>t. /\ p.capacity \in Nat \ {0} /\ p.next \in 0..p.capacity /\ p.len \in Nat
      /\ p.backing \in [Slots(p) -> Objs \cup {Nil}]
      /\ p.generation \in [Slots(p) -> 0..GenMod - 1]
      /\ p.free \in Seq(0..p.next - 1) /\ Len(p.free) \in Nat
  BY <1>0 DEF PoolType
<1>1. CASE p.free # <<>>
  <2> DEFINE f == SubSeq(p.free, 1, Len(p.free) - 1)
  <2>1. q = [p EXCEPT !.free = f] /\ k = p.free[Len(p.free)]
    BY <1>1 DEF WithSlot, AllocSlot
  <2>2. /\ Len(p.free) \in Nat \ {0} /\ k \in 0..p.next - 1
        /\ f \in Seq(0..p.next - 1) /\ Len(f) = Len(p.free) - 1
        /\ \A i \in 1..Len(p.free) - 1 : f[i] = p.free[i]
    <3>1. /\ Len(p.free) \in Nat \ {0} /\ p.free[Len(p.free)] \in 0..p.next - 1
          /\ f \in Seq(0..p.next - 1) /\ Len(f) = Len(p.free) - 1
          /\ \A i \in 1..Len(p.free) - 1 : f[i] = p.free[i]
      BY <1>1, <1>t, FrontOfSeq, Zenon
    <3> QED
      BY <3>1, <2>1, Zenon
  <2> HIDE DEF f
  <2>3. /\ DOMAIN q = DOMAIN p /\ q.len = p.len /\ q.capacity = p.capacity /\ q.next = p.next
        /\ q.backing = p.backing /\ q.generation = p.generation /\ q.free = f
    BY <2>1, <1>0
  <2> HIDE DEF q, k
  <2>4. \A i \in 1..Len(f) : i \in 1..Len(p.free) /\ f[i] = p.free[i] /\ f[i] # k
    BY <2>1, <2>2, <1>0
  <2>5. \A i \in 1..Len(p.free) : p.free[i] = k \/ (i \in 1..Len(f) /\ f[i] = p.free[i])
    BY <2>1, <2>2
  <2>6. FreeSlots(p) = FreeSlots(q) \cup {k} /\ k \notin FreeSlots(q)
    <3>1. Len(p.free) \in 1..Len(p.free)
      BY <2>2
    <3> QED
      BY <3>1, <2>1, <2>3, <2>4, <2>5 DEF FreeSlots
  <2>7. k \notin UsedSlots(p) /\ UsedSlots(q) = UsedSlots(p) \cup {k}
    BY <2>2, <2>3, <2>6 DEF UsedSlots
  <2>8. p.len + 1 + Len(q.free) = q.next
    BY <2>2, <2>3, <1>0, <1>t
  <2>9. \A i \in Slots(q) : /\ q.backing[i] = IF i < p.capacity THEN p.backing[i] ELSE Nil
                            /\ i < p.capacity => q.generation[i] = p.generation[i]
    BY <2>3, <1>t DEF Slots
  <2>10. /\ q.capacity \in Nat \ {0} /\ q.capacity >= p.capacity
         /\ q.next \in 0..q.capacity /\ k \in 0..q.next - 1 /\ Slots(q) = Slots(p)
    BY <2>2, <2>3, <1>t DEF Slots
  <2> QED
    BY <2>2, <2>3, <2>4, <2>7, <2>8, <2>9, <2>10, <1>t DEF q, k
<1>2. CASE p.free = <<>>
  <2> DEFINE c == IF Full(p) THEN Grow(p) ELSE p
  <2>1. k = p.next /\ q = [c EXCEPT !.next = p.next + 1]
    BY <1>2 DEF WithSlot, AllocSlot
  <2>2. /\ DOMAIN c = DOMAIN p /\ c.len = p.len /\ c.free = p.free
        /\ c.capacity \in Nat \ {0} /\ c.capacity >= p.capacity /\ p.next < c.capacity
        /\ c.backing \in [Slots(c) -> Objs \cup {Nil}]
        /\ c.generation \in [Slots(c) -> 0..GenMod - 1]
        /\ \A i \in Slots(c) : /\ c.backing[i] = IF i < p.capacity THEN p.backing[i] ELSE Nil
                               /\ i < p.capacity => c.generation[i] = p.generation[i]
    <3>1. CASE Full(p)
      <4>1. /\ DOMAIN c = DOMAIN p /\ c.len = p.len /\ c.free = p.free
            /\ c.capacity = 2 * p.capacity
            /\ c.backing = [i \in 0..2 * p.capacity - 1 |->
                              IF i < p.capacity THEN p.backing[i] ELSE Nil]
            /\ c.generation = [i \in 0..2 * p.capacity - 1 |->
                              IF i < p.capacity THEN p.generation[i] ELSE 0]
        BY <3>1, <1>0 DEF Grow
      <4> HIDE DEF c
      <4>2. Slots(c) = 0..2 * p.capacity - 1
        BY <4>1 DEF Slots
      <4>3. \A i \in 0..2 * p.capacity - 1 :
              /\ (IF i < p.capacity THEN p.backing[i] ELSE Nil) \in Objs \cup {Nil}
              /\ (IF i < p.capacity THEN p.generation[i] ELSE 0) \in 0..GenMod - 1
        <5>1. \A i \in 0..2 * p.capacity - 1 : i < p.capacity => i \in Slots(p)
          BY <1>t DEF Slots
        <5>2. 0 \in 0..GenMod - 1
          BY PoolAssumption
        <5> QED
          BY <5>1, <5>2, <1>t
      <4>4. c.capacity \in Nat \ {0} /\ c.capacity >= p.capacity /\ p.next < c.capacity
        BY <4>1, <1>t
      <4>5. /\ c.backing \in [Slots(c) -> Objs \cup {Nil}]
            /\ c.generation \in [Slots(c) -> 0..GenMod - 1]
        BY <4>1, <4>2, <4>3
      <4>6. \A i \in Slots(c) : /\ c.backing[i] = IF i < p.capacity THEN p.backing[i] ELSE Nil
                                /\ i < p.capacity => c.generation[i] = p.generation[i]
        BY <4>1, <4>2
      <4> QED
        BY <4>1, <4>4, <4>5, <4>6
    <3>2. CASE ~Full(p)
      <4>1. c = p /\ p.next < p.capacity
        BY <1>2, <1>t, <3>2 DEF Full
      <4> HIDE DEF c
      <4> QED
        BY <4>1, <1>t DEF Slots
    <3> QED
      BY <3>1, <3>2
  <2> HIDE DEF c
  <2>3. /\ DOMAIN q = DOMAIN p /\ q.len = p.len /\ q.capacity = c.capacity /\ q.next = p.next + 1
        /\ q.backing = c.backing /\ q.generation = c.generation /\ q.free = <<>>
    BY <2>1, <2>2, <1>0, <1>2
  <2> HIDE DEF q, k
  <2>4. FreeSlots(q) = {} /\ FreeSlots(p) = {} /\ Len(q.free) = 0
    BY <2>3, <1>2 DEF FreeSlots
  <2>5. k \notin UsedSlots(p) /\ UsedSlots(q) = UsedSlots(p) \cup {k}
    <3>1. UsedSlots(q) = 0..k /\ UsedSlots(p) = 0..k - 1 /\ k \in Nat
      <4>1. k \in Nat /\ q.next - 1 = k /\ p.next - 1 = k - 1
        BY <2>1, <2>3, <1>t
      <4>2. \A S : S \ {} = S
        OBVIOUS
      <4> QED
        BY <4>1, <4>2, <2>4, Zenon DEF UsedSlots
    <3>2. 0..k = 0..k - 1 \cup {k} /\ k \notin 0..k - 1
      BY <3>1
    <3> QED
      BY <3>1, <3>2
  <2>6. /\ q.capacity \in Nat \ {0} /\ q.capacity >= p.capacity
        /\ q.next \in 0..q.capacity /\ k \in 0..q.next - 1 /\ Slots(q) = Slots(c)
    BY <2>1, <2>2, <2>3, <1>t DEF Slots
  <2>7. p.len + 1 + Len(q.free) = q.next
    BY <2>3, <2>4, <1>0, <1>2, <1>t
  <2>8. q.free \in Seq(0..q.next - 1)
    BY <2>3
  <2> QED
    BY <2>2, <2>3, <2>4, <2>5, <2>6, <2>7, <2>8 DEF q, k
<1> QED
  BY <1>1, <1>2

\* insert: the object gets a slot of its own under a valid key, and no other
\* slot changes hands.
LEMMA InsertOK ==
  ASSUME NEW Objs, NEW p, PoolOK(p, Objs), NEW x \in Objs
  PROVE  LET q == Insert(p, x)
             k == InsertKey(p)
         IN  /\ PoolOK(q, Objs) /\ q.len = p.len + 1
             /\ k \in [slot : Nat, generation : 0..GenMod - 1]
             /\ k.slot \notin UsedSlots(p) /\ UsedSlots(q) = UsedSlots(p) \cup {k.slot}
             /\ ContainsKey(q, k) /\ Get(q, k) = x
             /\ \A i \in UsedSlots(p) : q.backing[i] = p.backing[i]
             /\ \A i \in Slots(p) : i \in Slots(q) /\ q.generation[i] = p.generation[i]
<1> DEFINE b == WithSlot(p)
           k == AllocSlot(p)
           q == Insert(p, x)
<1>0. /\ DOMAIN p = {"backing", "capacity", "generation", "free", "next", "len"}
      /\ p.capacity \in Nat /\ p.next \in 0..p.capacity /\ p.len \in Nat
      /\ \A i \in Slots(p) \ UsedSlots(p) : p.backing[i] = Nil
      /\ \A i, j \in 1..Len(p.free) : i # j => p.free[i] # p.free[j]
  BY DEF PoolOK, PoolType
<1>1. /\ DOMAIN b = DOMAIN p /\ b.len = p.len
      /\ b.capacity \in Nat \ {0} /\ b.capacity >= p.capacity
      /\ b.next \in 0..b.capacity /\ k \in 0..b.next - 1
      /\ b.backing \in [Slots(b) -> Objs \cup {Nil}]
      /\ b.generation \in [Slots(b) -> 0..GenMod - 1]
  BY SlotIsUnused
<1>2. \A i \in Slots(b) : /\ b.backing[i] = IF i < p.capacity THEN p.backing[i] ELSE Nil
                          /\ i < p.capacity => b.generation[i] = p.generation[i]
  BY SlotIsUnused
<1>3. /\ b.free \in Seq(0..b.next - 1) /\ p.len + 1 + Len(b.free) = b.next
      /\ \A i \in 1..Len(b.free) : i \in 1..Len(p.free) /\ b.free[i] = p.free[i] /\ b.free[i] # k
      /\ k \notin UsedSlots(p) /\ UsedSlots(b) = UsedSlots(p) \cup {k}
  BY SlotIsUnused
<1>4. q = [b EXCEPT !.backing[k] = x, !.len = p.len + 1]
  BY DEF Insert
<1> HIDE DEF b, k
<1>5. /\ DOMAIN q = DOMAIN p /\ q.capacity = b.capacity /\ q.next = b.next /\ q.free = b.free
      /\ q.generation = b.generation /\ q.len = p.len + 1
      /\ q.backing = [b.backing EXCEPT ![k] = x]
  BY <1>0, <1>1, <1>4
<1> HIDE DEF q
<1>6. Slots(q) = Slots(b) /\ k \in Slots(b) /\ UsedSlots(q) = UsedSlots(b)
  BY <1>1, <1>5 DEF Slots, UsedSlots, FreeSlots
<1>7. PoolType(q, Objs)
  <2>1. q.backing \in [Slots(q) -> Objs \cup {Nil}]
    BY <1>1, <1>5, <1>6
  <2> QED
    BY <2>1, <1>0, <1>1, <1>3, <1>5, <1>6 DEF PoolType
<1>8. \A i \in Slots(q) \ UsedSlots(q) : q.backing[i] = Nil
  <2> SUFFICES ASSUME NEW i \in Slots(b), i \notin UsedSlots(p), i # k
               PROVE  q.backing[i] = Nil
    BY <1>3, <1>6
  <2>1. q.backing[i] = b.backing[i]
    BY <1>1, <1>5
  <2>2. i < p.capacity => i \in Slots(p) \ UsedSlots(p)
    BY <1>0, <1>1 DEF Slots
  <2> QED
    BY <2>1, <2>2, <1>0, <1>2
<1>9. \A i, j \in 1..Len(q.free) : i # j => q.free[i] # q.free[j]
  BY <1>0, <1>3, <1>5
<1>10. PoolOK(q, Objs)
  <2>1. q.len + Len(q.free) = q.next
    BY <1>0, <1>3, <1>5
  <2> QED
    BY <2>1, <1>7, <1>8, <1>9 DEF PoolOK
<1>11. InsertKey(p) = [slot |-> k, generation |-> b.generation[k]]
  BY DEF InsertKey, b, k
<1>12. InsertKey(p) \in [slot : Nat, generation : 0..GenMod - 1]
  BY <1>1, <1>6, <1>11
<1>13. ContainsKey(q, InsertKey(p)) /\ Get(q, InsertKey(p)) = x
  BY <1>1, <1>5, <1>6, <1>11 DEF ContainsKey, Get, Slots
<1>14. \A i \in UsedSlots(p) : q.backing[i] = p.backing[i]
  <2> SUFFICES ASSUME NEW i \in UsedSlots(p) PROVE q.backing[i] = p.backing[i]
    OBVIOUS
  <2>1. i # k /\ i \in Slots(b) /\ i < p.capacity
    BY <1>0, <1>1, <1>3 DEF UsedSlots, Slots
  <2> QED
    BY <2>1, <1>1, <1>2, <1>5
<1>15. \A i \in Slots(p) : i \in Slots(q) /\ q.generation[i] = p.generation[i]
  BY <1>0, <1>1, <1>2, <1>5, <1>6 DEF Slots
<1>16. InsertKey(p).slot = k
  BY <1>11
<1> QED
  BY <1>3, <1>5, <1>6, <1>10, <1>12, <1>13, <1>14, <1>15, <1>16 DEF q

\* release of a valid key of a slot in use: the slot is free, and no other changes.
LEMMA ReleaseOK ==
  ASSUME NEW Objs, NEW p, PoolOK(p, Objs), p.len > 0,
         NEW k, k.slot \in UsedSlots(p), ContainsKey(p, k)
  PROVE  LET q == Release(p, k)
         IN  /\ PoolOK(q, Objs) /\ q.len = p.len - 1
             /\ UsedSlots(q) = UsedSlots(p) \ {k.slot} /\ Slots(q) = Slots(p)
             /\ \A i \in Slots(p) \ {k.slot} :
                  q.backing[i] = p.backing[i] /\ q.generation[i] = p.generation[i]
<1> DEFINE q == Release(p, k)
           s == k.slot
<1>0. /\ DOMAIN p = {"backing", "capacity", "generation", "free", "next", "len"}
      /\ p.capacity \in Nat \ {0} /\ p.next \in 0..p.capacity /\ p.len \in Nat
      /\ p.backing \in [Slots(p) -> Objs \cup {Nil}]
      /\ p.generation \in [Slots(p) -> 0..GenMod - 1]
      /\ p.free \in Seq(0..p.next - 1) /\ Len(p.free) \in Nat
  BY DEF PoolOK, PoolType
<1>1. /\ \A i \in Slots(p) \ UsedSlots(p) : p.backing[i] = Nil
      /\ \A i, j \in 1..Len(p.free) : i # j => p.free[i] # p.free[j]
      /\ p.len + Len(p.free) = p.next
  BY DEF PoolOK
<1>2. s \in 0..p.next - 1 /\ s \notin FreeSlots(p) /\ s \in Slots(p)
  BY <1>0 DEF UsedSlots, Slots
<1>3. q = [p EXCEPT !.backing[s] = Nil, !.generation[s] = (p.generation[s] + 1) % GenMod,
                    !.free = Append(p.free, s), !.len = p.len - 1]
  BY DEF Release
<1> HIDE DEF s
<1>4. /\ DOMAIN q = DOMAIN p /\ q.capacity = p.capacity /\ q.next = p.next /\ q.len = p.len - 1
      /\ q.backing = [p.backing EXCEPT ![s] = Nil]
      /\ q.generation = [p.generation EXCEPT ![s] = (p.generation[s] + 1) % GenMod]
      /\ q.free = Append(p.free, s)
  BY <1>0, <1>3
<1> HIDE DEF q
<1>5. /\ q.free \in Seq(0..q.next - 1) /\ Len(q.free) = Len(p.free) + 1
      /\ \A i \in 1..Len(p.free) : q.free[i] = p.free[i]
      /\ q.free[Len(p.free) + 1] = s
  BY <1>0, <1>2, <1>4, AppendProperties
<1>6. \A i \in 1..Len(q.free) : i \in 1..Len(p.free) \/ i = Len(p.free) + 1
  BY <1>0, <1>5
<1>7. FreeSlots(q) = FreeSlots(p) \cup {s}
  <2>1. Len(p.free) + 1 \in 1..Len(q.free) /\ 1..Len(p.free) \subseteq 1..Len(q.free)
    BY <1>0, <1>5
  <2> QED
    BY <2>1, <1>5, <1>6 DEF FreeSlots
<1>8. Slots(q) = Slots(p) /\ UsedSlots(q) = UsedSlots(p) \ {s}
  BY <1>4, <1>7 DEF Slots, UsedSlots
<1>9. /\ q.backing \in [Slots(p) -> Objs \cup {Nil}]
      /\ q.generation \in [Slots(p) -> 0..GenMod - 1]
  <2>1. (p.generation[s] + 1) % GenMod \in 0..GenMod - 1
    <3>1. p.generation[s] \in 0..GenMod - 1
      BY <1>0, <1>2
    <3> QED
      BY <3>1, PoolAssumption
  <2> QED
    BY <2>1, <1>0, <1>2, <1>4
<1>10. PoolType(q, Objs)
  BY <1>0, <1>4, <1>5, <1>8, <1>9 DEF PoolType
<1>11. \A i, j \in 1..Len(q.free) : i # j => q.free[i] # q.free[j]
  <2>1. \A i \in 1..Len(p.free) : p.free[i] # s
    BY <1>2 DEF FreeSlots
  <2> QED
    BY <2>1, <1>1, <1>5, <1>6
<1>12. /\ \A i \in Slots(p) \ {s} :
            q.backing[i] = p.backing[i] /\ q.generation[i] = p.generation[i]
       /\ q.backing[s] = Nil
  BY <1>0, <1>2, <1>4
<1>13. \A i \in Slots(q) \ UsedSlots(q) : q.backing[i] = Nil
  BY <1>1, <1>8, <1>12
<1>14. q.len + Len(q.free) = q.next /\ q.len = p.len - 1
  BY <1>0, <1>1, <1>4, <1>5
<1>15. PoolOK(q, Objs)
  BY <1>10, <1>11, <1>13, <1>14 DEF PoolOK
<1> QED
  BY <1>8, <1>12, <1>14, <1>15 DEF q, s

-----------------------------------------------------------------------------
(* The handles.                                                             *)

\* Each owner has a slot of the pool to itself, under a valid key.
Roots ==
  /\ \A h \in Owning : handle[h].root.slot \in UsedSlots(pool)
  /\ IsFiniteSet(Owning)
  /\ OwnersAreRooted /\ NoRootLeaks

\* What is in use has not been collected.
Lives ==
  /\ \A o \in held : object[o] = "live"
  /\ \A i \in 1..Len(calls) : object[calls[i].obj] = "live"
  /\ making # NoHandle => object[making.sexp] = "live" /\ handle[making.place] = NoHandle
  /\ \A h \in Held : object[handle[h].sexp] # "unborn"

\* An object that only its first handle has seen has that handle alone, and, while no
\* value has two owners, still the value it was made with.
Alone ==
  /\ \A h, g \in Held : handle[h].sexp = handle[g].sexp /\ handle[h].sexp \notin shared => h = g
  /\ \A h \in Held : handle[h].root = NoKey => handle[h].sexp \in shared
  /\ ~Undefined => \A h \in Held : handle[h].sexp \notin shared =>
       addr[handle[h].sexp] = handle[h].ptr /\ box[handle[h].ptr] = "boxed"
  /\ making # NoHandle =>
       /\ addr[making.sexp] = making.ptr
       /\ \A h \in Held : handle[h].sexp # making.sexp

\* A consuming method has its object to itself until it returns; a method by
\* reference refers to a value.
StepCalls ==
  /\ MarkerStays
  /\ \A i \in 1..Len(calls) : calls[i].mode = "ref" => calls[i].val \in Values
  /\ \A i \in 1..Len(calls) : calls[i].mode = "step" => calls[i].obj \in shared
  /\ \A i, j \in 1..Len(calls) :
       calls[i].mode = "step" /\ calls[j].mode = "step" /\ calls[i].obj = calls[j].obj => i = j

PtrInv == TypeOK /\ Roots /\ OneOwner /\ Lives /\ Alone /\ StepCalls

-----------------------------------------------------------------------------
(* Handles, calls and the pool.                                             *)

LEMMA HandleFacts ==
  ASSUME TypeOK
  PROVE  /\ Held \subseteq Handles /\ Owning \subseteq Held /\ Free \subseteq Held
         /\ \A h \in Held : /\ handle[h] \in HandleRecords /\ handle[h].sexp \in Objects
                            /\ handle[h].ptr \in Values /\ handle[h].root \in Keys \cup {NoKey}
         /\ \A h \in Owning : handle[h].root \in Keys
         /\ making # NoHandle => making \in MadeRecords
  BY DEF TypeOK, Held, Owning, Free, HandleRecords

LEMMA CallFacts ==
  ASSUME TypeOK
  PROVE  \A i \in 1..Len(calls) : calls[i] \in CallRecords /\ calls[i].obj \in Objects
<1>1. \A i \in 1..Len(calls) : calls[i] \in CallRecords
  BY ElementOfSeq DEF TypeOK
<1> QED
  BY <1>1 DEF CallRecords

\* A new innermost call.
LEMMA CallPushed ==
  ASSUME calls \in Seq(CallRecords), NEW c \in CallRecords, calls' = Append(calls, c)
  PROVE  /\ calls' \in Seq(CallRecords) /\ Len(calls) \in Nat /\ Len(calls') = Len(calls) + 1
         /\ \A i \in 1..Len(calls) : calls'[i] = calls[i]
         /\ calls'[Len(calls) + 1] = c
         /\ \A i \in 1..Len(calls') : i \in 1..Len(calls) \/ i = Len(calls) + 1
  BY AppendProperties, LenProperties

\* The innermost call is over.
LEMMA CallPopped ==
  ASSUME calls \in Seq(CallRecords), calls # <<>>, calls' = Pop
  PROVE  /\ calls' \in Seq(CallRecords) /\ Last \in CallRecords
         /\ Len(calls) \in Nat \ {0} /\ Len(calls) \in 1..Len(calls)
         /\ \A i \in 1..Len(calls') : /\ i \in 1..Len(calls) /\ i # Len(calls)
                                      /\ calls'[i] = calls[i]
<1>1. /\ Len(calls) \in Nat \ {0} /\ Last \in CallRecords /\ calls' \in Seq(CallRecords)
      /\ Len(calls') = Len(calls) - 1
      /\ \A i \in 1..Len(calls) - 1 : calls'[i] = calls[i]
  BY FrontOfSeq, Zenon DEF Last, Pop
<1>2. Len(calls) \in 1..Len(calls) /\ \A i \in 1..Len(calls) - 1 : i \in 1..Len(calls) /\ i # Len(calls)
  BY <1>1
<1> QED
  BY <1>1, <1>2

\* A step that leaves pool and owners alone.
LEMMA RootsKept ==
  ASSUME Roots, UNCHANGED pool, Owning' = Owning,
         \A h \in Owning : handle'[h] = handle[h] /\ object'[handle[h].sexp] = object[handle[h].sexp]
  PROVE  Roots'
  BY DEF Roots, OwnersAreRooted, NoRootLeaks, ContainsKey, Get

\* A handle ends: the pool is as good, and the other owners keep their roots.
LEMMA RootReleased ==
  ASSUME TypeOK, Roots, NEW h \in Held, ReleaseRoot(h),
         handle' = [handle EXCEPT ![h] = NoHandle],
         \A g \in Owning \ {h} : object'[handle[g].sexp] = "live"
  PROVE  /\ Roots' /\ PoolOK(pool', Objects)
         /\ Held' = Held \ {h} /\ Owning' = Owning \ {h}
         /\ \A g \in Handles \ {h} : handle'[g] = handle[g]
<1>t. /\ handle \in [Handles -> HandleRecords \cup {NoHandle}] /\ PoolOK(pool, Objects)
      /\ h \in Handles
  BY DEF TypeOK, Held
<1>1. /\ Held' = Held \ {h} /\ Owning' = Owning \ {h}
      /\ \A g \in Handles \ {h} : handle'[g] = handle[g]
  BY <1>t DEF Held, Owning
<1>2. CASE handle[h].root = NoKey
  <2>1. h \notin Owning /\ pool' = pool
    BY <1>2 DEF Owning, ReleaseRoot
  <2> QED
    <3>1. /\ Owning' = Owning
          /\ \A g \in Owning : handle'[g] = handle[g] /\ object'[handle[g].sexp] = "live"
      BY <2>1, <1>1 DEF Owning, Held
    <3>2. \A g \in Owning : object[handle[g].sexp] = "live"
      BY DEF Roots, OwnersAreRooted
    <3>3. Roots'
      BY <2>1, <3>1, <3>2, RootsKept
    <3> QED
      BY <2>1, <3>3, <1>1, <1>t
<1>3. CASE handle[h].root # NoKey
  <2> DEFINE k == handle[h].root
  <2>1. h \in Owning /\ pool' = Release(pool, k)
    BY <1>3 DEF Owning, ReleaseRoot
  <2>2. k.slot \in UsedSlots(pool) /\ ContainsKey(pool, k)
    BY <2>1 DEF Roots, OwnersAreRooted
  <2>3. /\ IsFiniteSet(Owning) /\ pool.len = Cardinality(Owning) /\ Cardinality(Owning) \in Nat
        /\ Cardinality(Owning) # 0
    BY <2>1, FS_CardinalityType, FS_EmptySet DEF Roots, NoRootLeaks
  <2>4. IsFiniteSet(Owning \ {h}) /\ Cardinality(Owning \ {h}) = Cardinality(Owning) - 1
    BY <2>1, <2>3, FS_RemoveElement
  <2>5. pool.len > 0
    BY <2>3
  <2>6. /\ PoolOK(pool', Objects) /\ pool'.len = pool.len - 1
        /\ UsedSlots(pool') = UsedSlots(pool) \ {k.slot} /\ Slots(pool') = Slots(pool)
        /\ \A i \in Slots(pool) \ {k.slot} :
             pool'.backing[i] = pool.backing[i] /\ pool'.generation[i] = pool.generation[i]
    BY <1>t, <2>1, <2>2, <2>5, ReleaseOK
  <2>7. ASSUME NEW g \in Owning \ {h}
        PROVE  /\ handle'[g] = handle[g] /\ handle[g].root.slot # k.slot
               /\ handle[g].root.slot \in UsedSlots(pool')
               /\ ContainsKey(pool', handle[g].root) /\ Get(pool', handle[g].root) = handle[g].sexp
    <3>1. handle'[g] = handle[g] /\ handle[g].root.slot # k.slot
      BY <1>1, <2>1 DEF Roots, NoRootLeaks, Owning, Held
    <3>2. /\ handle[g].root.slot \in UsedSlots(pool) /\ ContainsKey(pool, handle[g].root)
          /\ Get(pool, handle[g].root) = handle[g].sexp
      BY DEF Roots, OwnersAreRooted
    <3>3. handle[g].root.slot \in Slots(pool)
      BY <3>2, <1>t DEF PoolOK, PoolType, UsedSlots, Slots
    <3>4. pool'.capacity = pool.capacity
      BY <2>1 , <2>2, <1>t DEF Release, PoolOK, PoolType
    <3> QED
      BY <3>1, <3>2, <3>3, <3>4, <2>6 DEF ContainsKey, Get
  <2>8. Roots'
    <3>1. pool'.len = Cardinality(Owning')
      BY <1>1, <2>3, <2>4, <2>6
    <3>2. IsFiniteSet(Owning')
      BY <1>1, <2>4
    <3>3. \A f, g \in Owning' : handle'[f].root.slot = handle'[g].root.slot => f = g
      BY <1>1, <2>7 DEF Roots, NoRootLeaks
    <3> QED
      BY <1>1, <2>7, <3>1, <3>2, <3>3 DEF Roots, OwnersAreRooted, NoRootLeaks
  <2> QED
    BY <1>1, <2>6, <2>8
<1> QED
  BY <1>2, <1>3

\* root_owned: the new owner has a slot that no other has.
LEMMA RootAdded ==
  ASSUME TypeOK, Roots, Lives, Root
  PROVE  /\ Roots' /\ PoolOK(pool', Objects)
         /\ Held' = Held \cup {making.place}
         /\ Owning' = Owning \cup {making.place} /\ making.place \notin Held
         /\ handle' \in [Handles -> HandleRecords \cup {NoHandle}]
         /\ \A g \in Handles \ {making.place} : handle'[g] = handle[g]
         /\ handle'[making.place].sexp = making.sexp /\ handle'[making.place].ptr = making.ptr
         /\ handle'[making.place].root # NoKey
<1> DEFINE h == making.place
           k == InsertKey(pool)
           r == Handle(making.sexp, making.ptr, k)
<1>1. /\ making \in MadeRecords /\ PoolOK(pool, Objects) /\ pool' = Insert(pool, making.sexp)
      /\ handle \in [Handles -> HandleRecords \cup {NoHandle}]
      /\ handle' = [handle EXCEPT ![h] = r] /\ UNCHANGED object
  BY HandleFacts DEF Root, TypeOK
<1>2. h \in Handles /\ making.sexp \in Objects /\ making.ptr \in Values
  BY <1>1 DEF MadeRecords
<1>3. /\ PoolOK(pool', Objects) /\ pool'.len = pool.len + 1
      /\ k \in [slot : Nat, generation : 0..GenMod - 1]
      /\ k.slot \notin UsedSlots(pool) /\ UsedSlots(pool') = UsedSlots(pool) \cup {k.slot}
      /\ ContainsKey(pool', k) /\ Get(pool', k) = making.sexp
      /\ \A i \in UsedSlots(pool) : pool'.backing[i] = pool.backing[i]
      /\ \A i \in Slots(pool) : i \in Slots(pool') /\ pool'.generation[i] = pool.generation[i]
  BY <1>1, <1>2, InsertOK
<1>4. k \in Keys /\ k # NoKey
  BY <1>3, NothingAssumption DEF Keys
<1> HIDE DEF k
<1>5. /\ r \in HandleRecords /\ r # NoHandle
      /\ r.sexp = making.sexp /\ r.ptr = making.ptr /\ r.root = k
  BY <1>2, <1>4, NothingAssumption DEF Handle, HandleRecords
<1> HIDE DEF r
<1>6. handle[h] = NoHandle /\ h \notin Held /\ object[making.sexp] = "live"
  BY DEF Lives, Root, Held
<1>7. /\ handle'[h] = r /\ \A g \in Handles \ {h} : handle'[g] = handle[g]
      /\ handle' \in [Handles -> HandleRecords \cup {NoHandle}]
  BY <1>1, <1>2, <1>5
<1>8. Held' = Held \cup {h} /\ Owning' = Owning \cup {h}
  BY <1>2, <1>4, <1>5, <1>6, <1>7 DEF Held, Owning
<1>9. h \notin Owning /\ IsFiniteSet(Owning) /\ pool.len = Cardinality(Owning)
  BY <1>6 DEF Owning, Roots, NoRootLeaks
<1>10. IsFiniteSet(Owning') /\ Cardinality(Owning') = Cardinality(Owning) + 1
  BY <1>8, <1>9, FS_AddElement
<1>11. ASSUME NEW g \in Owning
       PROVE  /\ handle'[g] = handle[g] /\ handle[g].root.slot # k.slot
              /\ handle[g].root.slot \in UsedSlots(pool')
              /\ ContainsKey(pool', handle[g].root) /\ Get(pool', handle[g].root) = handle[g].sexp
              /\ object'[handle[g].sexp] = "live"
  <2>1. handle'[g] = handle[g]
    BY <1>7, <1>9 DEF Owning, Held
  <2>2. /\ handle[g].root.slot \in UsedSlots(pool) /\ ContainsKey(pool, handle[g].root)
        /\ Get(pool, handle[g].root) = handle[g].sexp /\ object[handle[g].sexp] = "live"
    BY DEF Roots, OwnersAreRooted
  <2>3. handle[g].root.slot \in Slots(pool)
    BY <2>2, <1>1 DEF PoolOK, PoolType, UsedSlots, Slots
  <2>4. handle[g].root.slot < pool'.capacity
    BY <2>3, <1>3 DEF Slots, PoolOK, PoolType
  <2> QED
    BY <2>1, <2>2, <2>3, <2>4, <1>1, <1>3 DEF ContainsKey, Get
<1>12. Roots'
  <2>1. \A f, g \in Owning' : handle'[f].root.slot = handle'[g].root.slot => f = g
    BY <1>5, <1>7, <1>8, <1>11 DEF Roots, NoRootLeaks
  <2>2. \A g \in Owning' : /\ handle'[g].root.slot \in UsedSlots(pool')
                           /\ ContainsKey(pool', handle'[g].root)
                           /\ Get(pool', handle'[g].root) = handle'[g].sexp
                           /\ object'[handle'[g].sexp] = "live"
    BY <1>1, <1>3, <1>5, <1>6, <1>7, <1>8, <1>11
  <2>3. pool'.len = Cardinality(Owning')
    BY <1>3, <1>9, <1>10
  <2> QED
    BY <2>1, <2>2, <2>3, <1>10 DEF Roots, OwnersAreRooted, NoRootLeaks
<1> QED
  BY <1>3, <1>4, <1>5, <1>6, <1>7, <1>8, <1>12

-----------------------------------------------------------------------------
(* One lemma per operation.                                                 *)

\* A value's field goes with it.
LEMMA FieldsDropped ==
  ASSUME TypeOK, Roots, NEW v \in Values, DropFields(v),
         \A g \in Owning : object'[handle[g].sexp] = "live"
  PROVE  /\ Roots' /\ PoolOK(pool', Objects)
         /\ Held' \subseteq Held /\ \A g \in Held' : handle'[g] = handle[g]
         /\ handle' \in [Handles -> HandleRecords \cup {NoHandle}]
         /\ within' \in [Handles -> Values \cup {NoValue}]
         /\ \A g \in Handles : handle[g] = NoHandle => handle'[g] = NoHandle
<1>t. /\ handle \in [Handles -> HandleRecords \cup {NoHandle}] /\ PoolOK(pool, Objects)
      /\ within \in [Handles -> Values \cup {NoValue}]
  BY DEF TypeOK
<1>1. CASE Fields(v) = {}
  <2>1. UNCHANGED <<handle, within, pool>>
    BY <1>1 DEF DropFields
  <2>2. Owning' = Owning /\ Held' = Held
    BY <2>1 DEF Owning, Held
  <2>3. \A g \in Owning : object[handle[g].sexp] = "live"
    BY DEF Roots, OwnersAreRooted
  <2>4. Roots'
    BY <2>1, <2>2, <2>3, RootsKept
  <2> QED
    BY <2>1, <2>2, <2>4, <1>t
<1>2. CASE Fields(v) # {}
  <2>1. PICK h \in Fields(v) : Dropped(h)
    BY <1>2 DEF DropFields
  <2>2. /\ h \in Held /\ ReleaseRoot(h) /\ handle' = [handle EXCEPT ![h] = NoHandle]
        /\ within' = [within EXCEPT ![h] = NoValue]
    BY <2>1, <1>2 DEF Fields, Dropped
  <2>3. /\ Roots' /\ PoolOK(pool', Objects) /\ Held' = Held \ {h}
        /\ \A g \in Handles \ {h} : handle'[g] = handle[g]
    BY <2>2, RootReleased
  <2>4. handle' \in [Handles -> HandleRecords \cup {NoHandle}]
        /\ within' \in [Handles -> Values \cup {NoValue}] /\ h \in Handles /\ handle'[h] = NoHandle
    BY <2>2, <1>t DEF Held
  <2> QED
    BY <2>2, <2>3, <2>4 DEF Held
<1> QED
  BY <1>1, <1>2

LEMMA MakeInv ==
  ASSUME PtrInv, ~Undefined, making = NoHandle, NEW h \in Handles, NEW o \in Objects, NEW v \in Values,
         NEW f \in {"none", "raw"}, Make(h, o, v, f), ~aborted
  PROVE  PtrInv'
<1>t. TypeOK /\ Roots /\ OneOwner /\ Lives /\ Alone /\ StepCalls
  BY DEF PtrInv
<1>0. /\ handle[h] = NoHandle /\ object[o] = "unborn" /\ box[v] = f
      /\ object' = [object EXCEPT ![o] = "live"] /\ addr' = [addr EXCEPT ![o] = v]
      /\ box' = [box EXCEPT ![v] = "boxed"] /\ making' = Made(h, o, v)
      /\ UNCHANGED <<held, handle, within, calls, pool, aborted, shared>>
  BY DEF Make
<1>m. /\ Made(h, o, v) \in MadeRecords /\ Made(h, o, v).place = h
      /\ Made(h, o, v).sexp = o /\ Made(h, o, v).ptr = v
  BY DEF Made, MadeRecords
<1>1. /\ object'[o] = "live" /\ addr'[o] = v /\ box'[v] = "boxed" /\ box[v] # "boxed"
      /\ \A p \in Objects \ {o} : object'[p] = object[p] /\ addr'[p] = addr[p]
      /\ \A w \in Values \ {v} : box'[w] = box[w]
  BY <1>0, <1>t DEF TypeOK
<1>2. Held' = Held /\ Owning' = Owning
  BY <1>0 DEF Held, Owning
<1>3. \A g \in Held : handle[g].sexp \in Objects \ {o} /\ handle[g].ptr \in Values
  BY <1>0, <1>t, HandleFacts DEF Lives
<1>4. TypeOK'
  <2>1. object' \in [Objects -> {"unborn", "live", "collected"}]
        /\ addr' \in [Objects -> Values \cup {Null, Consumed}] /\ box' \in [Values -> Fates]
    BY <1>0, <1>t DEF TypeOK, Fates
  <2> QED
    BY <2>1, <1>0, <1>m, <1>t DEF TypeOK
<1>5. Roots'
  BY <1>0, <1>1, <1>2, <1>3, <1>t, RootsKept DEF Owning
<1>6. OneOwner'
  <2>1. \A p \in Objects \ {o} : addr'[p] \in Values => addr'[p] # v /\ box'[addr'[p]] = "boxed"
    BY <1>1, <1>t DEF OneOwner
  <2> QED
    BY <2>1, <1>0, <1>1, <1>t DEF OneOwner
<1>7. Lives'
  <2>1. \A i \in 1..Len(calls) : calls[i].obj \in Objects
    BY <1>t, CallFacts
  <2> QED
    BY <2>1, <1>0, <1>1, <1>2, <1>3, <1>m, <1>t DEF Lives, TypeOK
<1>8. Alone'
  BY <1>0, <1>1, <1>2, <1>3, <1>m, <1>t DEF Alone
<1>9. StepCalls'
  <2>1. \A i \in 1..Len(calls) : calls[i].obj \in Objects \ {o}
    BY <1>0, <1>t, CallFacts DEF Lives
  <2> QED
    BY <2>1, <1>0, <1>1, <1>t DEF StepCalls, MarkerStays
<1> QED
  BY <1>4, <1>5, <1>6, <1>7, <1>8, <1>9 DEF PtrInv

LEMMA RootInv ==
  ASSUME PtrInv, ~Undefined, Root, ~aborted
  PROVE  PtrInv'
<1>t. TypeOK /\ Roots /\ OneOwner /\ Lives /\ Alone /\ StepCalls
  BY DEF PtrInv
<1>0. /\ making # NoHandle /\ making' = NoHandle
      /\ UNCHANGED <<object, addr, held, box, within, calls, aborted, shared>>
  BY DEF Root
<1> DEFINE h == making.place
<1>1. /\ Roots' /\ PoolOK(pool', Objects) /\ Held' = Held \cup {h} /\ h \notin Held
      /\ handle' \in [Handles -> HandleRecords \cup {NoHandle}]
      /\ \A g \in Handles \ {h} : handle'[g] = handle[g]
      /\ handle'[h].sexp = making.sexp /\ handle'[h].ptr = making.ptr /\ handle'[h].root # NoKey
  BY <1>t, RootAdded
<1>2. making.sexp \in Objects /\ making.ptr \in Values
  BY <1>0, <1>t, HandleFacts DEF MadeRecords
<1>3. /\ addr[making.sexp] = making.ptr /\ box[making.ptr] = "boxed" /\ object[making.sexp] = "live"
      /\ \A g \in Held : handle[g].sexp # making.sexp
  BY <1>0, <1>2, <1>t DEF Alone, OneOwner, Lives
<1> HIDE DEF h
<1>4. \A g \in Held : g \in Handles \ {h} /\ handle'[g] = handle[g]
  BY <1>1 DEF Held
<1>5. TypeOK'
  BY <1>0, <1>1, <1>t DEF TypeOK
<1>6. OneOwner' /\ StepCalls'
  BY <1>0, <1>t DEF OneOwner, StepCalls, MarkerStays, Undefined
<1>7. Lives'
  BY <1>0, <1>1, <1>3, <1>4, <1>t DEF Lives
<1>8. Alone'
  BY <1>0, <1>1, <1>3, <1>4, <1>t DEF Alone, Undefined
<1> QED
  BY <1>1, <1>5, <1>6, <1>7, <1>8 DEF PtrInv

\* A step that touches nothing the invariant speaks of but the held objects and
\* the fields.
LEMMA QuietInv ==
  ASSUME PtrInv, UNCHANGED <<object, addr, box, handle, making, calls, pool, aborted, shared>>,
         held' \subseteq held, within' \in [Handles -> Values \cup {NoValue}]
  PROVE  PtrInv'
<1>t. TypeOK /\ Roots /\ OneOwner /\ Lives /\ Alone /\ StepCalls
  BY DEF PtrInv
<1>1. Held' = Held /\ Owning' = Owning
  BY DEF Held, Owning
<1>2. TypeOK' /\ Lives'
  BY <1>1, <1>t DEF TypeOK, Lives
<1>3. Roots'
  BY <1>1, <1>t, RootsKept
<1>4. OneOwner' /\ StepCalls'
  BY <1>t DEF OneOwner, StepCalls, MarkerStays, Undefined
<1>5. Alone'
  BY <1>1, <1>t DEF Alone, Undefined
<1> QED
  BY <1>2, <1>3, <1>4, <1>5 DEF PtrInv

LEMMA DropRawInv ==
  ASSUME PtrInv, ~Undefined, making = NoHandle, NEW v \in Values, DropRaw(v), ~aborted
  PROVE  PtrInv'
<1>t. TypeOK /\ Roots /\ OneOwner /\ Lives /\ Alone /\ StepCalls
  BY DEF PtrInv
<1>0. /\ box[v] = "raw" /\ DropFields(v) /\ box' = [box EXCEPT ![v] = "dropped"]
      /\ UNCHANGED <<object, addr, held, making, calls, aborted, shared>>
  BY DEF DropRaw, DropValue
<1>1. \A g \in Owning : object'[handle[g].sexp] = "live"
  BY <1>0, <1>t DEF Roots, OwnersAreRooted
<1>2. /\ Roots' /\ PoolOK(pool', Objects)
      /\ Held' \subseteq Held /\ \A g \in Held' : handle'[g] = handle[g]
      /\ handle' \in [Handles -> HandleRecords \cup {NoHandle}]
      /\ within' \in [Handles -> Values \cup {NoValue}]
  BY <1>0, <1>1, <1>t, FieldsDropped
<1>3. box' \in [Values -> Fates] /\ \A w \in Values : box[w] = "boxed" <=> box'[w] = "boxed"
  BY <1>0, <1>2, <1>t DEF TypeOK, Fates
<1>4. TypeOK'
  BY <1>0, <1>2, <1>3, <1>t DEF TypeOK
<1>5. OneOwner'
  BY <1>0, <1>3, <1>t DEF OneOwner
<1>6. Lives' /\ StepCalls'
  BY <1>0, <1>2, <1>t DEF Lives, StepCalls, MarkerStays
<1>7. Alone'
  BY <1>0, <1>2, <1>3, <1>t, HandleFacts DEF Alone
<1> QED
  BY <1>2, <1>4, <1>5, <1>6, <1>7 DEF PtrInv

LEMMA WrapSexpInv ==
  ASSUME PtrInv, making = NoHandle, NEW h \in Handles, NEW o \in Objects, WrapSexp(h, o)
  PROVE  PtrInv'
<1>t. TypeOK /\ Roots /\ OneOwner /\ Lives /\ Alone /\ StepCalls
  BY DEF PtrInv
<1> DEFINE r == Handle(o, addr[o], NoKey)
<1>0. /\ handle[h] = NoHandle /\ object[o] = "live" /\ addr[o] \in Values
      /\ handle' = [handle EXCEPT ![h] = r] /\ shared' = shared \cup {o}
      /\ UNCHANGED <<object, addr, held, box, within, making, calls, pool, aborted>>
  BY DEF WrapSexp
<1>r. r \in HandleRecords /\ r # NoHandle /\ r.sexp = o /\ r.root = NoKey
  BY <1>0, NothingAssumption DEF Handle, HandleRecords
<1> HIDE DEF r
<1>1. /\ handle'[h] = r /\ \A g \in Handles \ {h} : handle'[g] = handle[g]
      /\ handle' \in [Handles -> HandleRecords \cup {NoHandle}]
  BY <1>0, <1>r, <1>t DEF TypeOK
<1>2. /\ Held' = Held \cup {h} /\ h \notin Held /\ Owning' = Owning
      /\ \A g \in Held : handle'[g] = handle[g]
  BY <1>0, <1>1, <1>r DEF Held, Owning
<1>3. TypeOK'
  BY <1>0, <1>1, <1>t DEF TypeOK
<1>4. Roots'
  BY <1>0, <1>2, <1>t, RootsKept DEF Owning
<1>5. OneOwner' /\ StepCalls'
  BY <1>0, <1>t DEF OneOwner, StepCalls, MarkerStays, Undefined
<1>6. Lives'
  BY <1>0, <1>1, <1>2, <1>r, <1>t DEF Lives
<1>7. Alone'
  BY <1>0, <1>1, <1>2, <1>r, <1>t DEF Alone, Undefined
<1> QED
  BY <1>3, <1>4, <1>5, <1>6, <1>7 DEF PtrInv

\* DropHandle and IntoSexp: only the handle ends.
LEMMA HandleEndsInv ==
  ASSUME PtrInv, making = NoHandle, NEW h \in Handles, DropHandle(h) \/ IntoSexp(h)
  PROVE  PtrInv'
<1>t. TypeOK /\ Roots /\ OneOwner /\ Lives /\ Alone /\ StepCalls
  BY DEF PtrInv
<1>0. /\ h \in Held /\ ReleaseRoot(h) /\ handle' = [handle EXCEPT ![h] = NoHandle]
      /\ within' = [within EXCEPT ![h] = NoValue]
      /\ UNCHANGED <<object, addr, box, making, calls, aborted, shared>>
      /\ held' \subseteq Objects /\ \A o \in held' : object[o] = "live"
  BY <1>t, HandleFacts DEF DropHandle, IntoSexp, Dropped, Free, TypeOK, Lives
<1>1. \A g \in Owning \ {h} : object'[handle[g].sexp] = "live"
  BY <1>0, <1>t DEF Roots, OwnersAreRooted
<1>2. /\ Roots' /\ PoolOK(pool', Objects) /\ Held' = Held \ {h}
      /\ \A g \in Handles \ {h} : handle'[g] = handle[g]
  BY <1>0, <1>1, <1>t, RootReleased
<1>3. \A g \in Held' : g \in Held /\ handle'[g] = handle[g]
  BY <1>2 DEF Held
<1>4. TypeOK'
  BY <1>0, <1>2, <1>t DEF TypeOK
<1>5. OneOwner' /\ StepCalls'
  BY <1>0, <1>t DEF OneOwner, StepCalls, MarkerStays, Undefined
<1>6. Lives'
  BY <1>0, <1>3, <1>t DEF Lives
<1>7. Alone'
  BY <1>0, <1>3, <1>t DEF Alone, Undefined
<1> QED
  BY <1>2, <1>4, <1>5, <1>6, <1>7 DEF PtrInv

LEMMA UnboxInv ==
  ASSUME PtrInv, ~Undefined, making = NoHandle, NEW h \in Handles, NEW f \in {"raw", "moved"}, Unbox(h, f),
         ~aborted
  PROVE  PtrInv'
<1>t. TypeOK /\ Roots /\ OneOwner /\ Lives /\ Alone /\ StepCalls
  BY DEF PtrInv
<1> DEFINE o == handle[h].sexp
           p == handle[h].ptr
           v == addr[o]
<1>0. /\ h \in Held /\ object[o] = "live" /\ ReleaseRoot(h)
      /\ handle' = [handle EXCEPT ![h] = NoHandle] /\ addr' = [addr EXCEPT ![o] = Null]
      /\ UNCHANGED <<object, held, making, calls, aborted, shared>>
  BY <1>t, HandleFacts DEF Unbox
<1>1. o \in Objects
  BY <1>0, <1>t, HandleFacts
<1>2. \/ v \notin Values /\ UNCHANGED <<box, within>>
      \/ v \in Values /\ MoveOut(v)
      \/ GiveOut(p, v)
  BY DEF Unbox
<1>p. p \in Values
  BY <1>0, <1>t, HandleFacts
<1> HIDE DEF o, p, v
<1>3. /\ box' \in [Values -> Fates] /\ within' \in [Handles -> Values \cup {NoValue}]
      /\ ~Undefined' => \A w \in Values : w # v => box'[w] = box[w]
      /\ v \in Values => box'[v] # "boxed"
  <2>1. CASE v \notin Values /\ UNCHANGED <<box, within>>
    BY <2>1, <1>t DEF TypeOK
  <2>2. CASE v \in Values /\ MoveOut(v)
    BY <2>2, <1>t DEF TypeOK, MoveOut, Fates
  <2>3. CASE GiveOut(p, v)
    <3>1. /\ \A w \in Values : box'[w] = IF w = p THEN IF v = p THEN "raw" ELSE "twice"
                                         ELSE IF w = v THEN "leaked" ELSE box[w]
          /\ within' = within
      BY <2>3 DEF GiveOut
    <3>2. box' \in [Values -> Fates]
      <4>1. \A w \in Values : box'[w] \in Fates
        BY <3>1, <1>t DEF TypeOK, Fates
      <4> QED
        BY <4>1, <2>3 DEF GiveOut
    <3>3. ~Undefined' => v = p
      BY <3>1, <1>p DEF Undefined
    <3> QED
      BY <3>1, <3>2, <3>3, <1>t DEF TypeOK
  <2> QED
    BY <1>2, <2>1, <2>2, <2>3
<1>4. \A g \in Owning \ {h} : object'[handle[g].sexp] = "live"
  BY <1>0, <1>t DEF Roots, OwnersAreRooted
<1>5. /\ Roots' /\ PoolOK(pool', Objects) /\ Held' = Held \ {h}
      /\ \A g \in Handles \ {h} : handle'[g] = handle[g]
  BY <1>0, <1>4, <1>t, RootReleased
<1>6. \A g \in Held' : g \in Held /\ handle'[g] = handle[g] /\ g # h
  BY <1>5 DEF Held
<1>7. /\ addr'[o] = Null /\ \A q \in Objects \ {o} : addr'[q] = addr[q]
      /\ addr' \in [Objects -> Values \cup {Null, Consumed}]
  BY <1>0, <1>1, <1>t DEF TypeOK
<1>8. TypeOK'
  BY <1>0, <1>3, <1>5, <1>7, <1>t DEF TypeOK
<1>9. OneOwner'
  <2> SUFFICES ASSUME ~Undefined' PROVE OneOwner'
    BY DEF OneOwner
  <2>1. \A q \in Objects \ {o} : addr[q] \in Values => addr[q] # v /\ box'[addr[q]] = "boxed"
    BY <1>1, <1>3, <1>t DEF OneOwner, v
  <2>2. \A w \in Values : box'[w] = "boxed" => w # v /\ \E q \in Objects \ {o} : addr[q] = w
    BY <1>1, <1>3, <1>t DEF OneOwner, v
  <2> QED
    BY <2>1, <2>2, <1>0, <1>7, <1>t, NothingAssumption DEF OneOwner
<1>10. Lives'
  BY <1>0, <1>6, <1>t DEF Lives
<1>11. Alone'
  <2>1. \A g \in Held' : handle[g].sexp \notin shared => handle[g].sexp # o
    BY <1>0, <1>6, <1>t DEF Alone, o
  <2>2. ASSUME ~Undefined', NEW g \in Held', handle[g].sexp \notin shared
        PROVE  /\ addr'[handle[g].sexp] = handle[g].ptr /\ box'[handle[g].ptr] = "boxed"
    <3>1. /\ handle[g].sexp \in Objects \ {o} /\ handle[g].ptr \in Values
          /\ addr[handle[g].sexp] = handle[g].ptr /\ box[handle[g].ptr] = "boxed"
      BY <2>1, <2>2, <1>6, <1>t, HandleFacts DEF Alone
    <3>2. handle[g].ptr # v
      BY <3>1, <1>1, <1>t DEF OneOwner, v
    <3> QED
      BY <2>2, <3>1, <3>2, <1>3, <1>7
  <2> QED
    BY <2>2, <1>0, <1>6, <1>t DEF Alone
<1>12. StepCalls'
  <2>1. \A i \in 1..Len(calls) : calls[i].obj \in Objects
    BY <1>t, CallFacts
  <2> QED
    BY <2>1, <1>0, <1>7, <1>t DEF StepCalls, MarkerStays
<1> QED
  BY <1>5, <1>8, <1>9, <1>10, <1>11, <1>12 DEF PtrInv

\* &self, &mut self: a body gets a reference; a call of any kind returns.
LEMMA CallByRefInv ==
  ASSUME PtrInv, NEW o \in Objects, CallByRef(o)
  PROVE  PtrInv'
<1>t. TypeOK /\ Roots /\ OneOwner /\ Lives /\ Alone /\ StepCalls
  BY DEF PtrInv
<1> DEFINE c == Call(o, "ref", addr[o])
<1>0. /\ o \in held /\ addr[o] \in Values /\ calls' = Append(calls, c)
      /\ UNCHANGED <<object, addr, held, box, handle, within, making, pool, aborted, shared>>
  BY DEF CallByRef
<1>c. c \in CallRecords /\ c.obj = o /\ c.mode = "ref" /\ c.val \in Values
  BY <1>0 DEF Call, CallRecords
<1> HIDE DEF c
<1>1. /\ calls' \in Seq(CallRecords) /\ Len(calls) \in Nat
      /\ \A i \in 1..Len(calls) : calls'[i] = calls[i]
      /\ calls'[Len(calls) + 1] = c
      /\ \A i \in 1..Len(calls') : i \in 1..Len(calls) \/ i = Len(calls) + 1
  BY <1>0, <1>c, <1>t, CallPushed DEF TypeOK
<1>2. Held' = Held /\ Owning' = Owning
  BY <1>0 DEF Held, Owning
<1>3. TypeOK'
  BY <1>0, <1>1, <1>t DEF TypeOK
<1>4. Roots'
  BY <1>0, <1>2, <1>t, RootsKept
<1>5. OneOwner' /\ Alone'
  BY <1>0, <1>2, <1>t DEF OneOwner, Alone, Undefined
<1>6. Lives'
  <2>1. \A i \in 1..Len(calls') : object[calls'[i].obj] = "live"
    BY <1>0, <1>1, <1>c, <1>t DEF Lives
  <2> QED
    BY <2>1, <1>0, <1>2, <1>t DEF Lives
<1>7. StepCalls'
  <2>1. \A i \in 1..Len(calls') : calls'[i].mode = "step" => i \in 1..Len(calls)
    BY <1>1, <1>c
  <2>2. \A i \in 1..Len(calls') : calls'[i].mode = "ref" => calls'[i].val \in Values
    BY <1>0, <1>1, <1>c, <1>t DEF StepCalls
  <2> QED
    BY <2>1, <2>2, <1>0, <1>1, <1>t DEF StepCalls, MarkerStays
<1> QED
  BY <1>3, <1>4, <1>5, <1>6, <1>7 DEF PtrInv

LEMMA CallEndsInv ==
  ASSUME PtrInv, CallEnds
  PROVE  PtrInv'
<1>t. TypeOK /\ Roots /\ OneOwner /\ Lives /\ Alone /\ StepCalls
  BY DEF PtrInv
<1>0. /\ calls # <<>> /\ calls' = Pop
      /\ UNCHANGED <<object, addr, held, box, handle, within, making, pool, aborted, shared>>
  BY DEF CallEnds
<1>1. /\ calls' \in Seq(CallRecords)
      /\ \A i \in 1..Len(calls') : i \in 1..Len(calls) /\ calls'[i] = calls[i]
  BY <1>0, <1>t, CallPopped DEF TypeOK
<1>2. Held' = Held /\ Owning' = Owning
  BY <1>0 DEF Held, Owning
<1>3. TypeOK'
  BY <1>0, <1>1, <1>t DEF TypeOK
<1>4. Roots'
  BY <1>0, <1>2, <1>t, RootsKept
<1>5. OneOwner' /\ Alone'
  BY <1>0, <1>2, <1>t DEF OneOwner, Alone, Undefined
<1>6. Lives'
  BY <1>0, <1>1, <1>2, <1>t DEF Lives
<1>7. StepCalls'
  BY <1>0, <1>1, <1>t DEF StepCalls, MarkerStays
<1> QED
  BY <1>3, <1>4, <1>5, <1>6, <1>7 DEF PtrInv

\* A fallible call writes back: the old value's field goes, or the value has been
\* freed while the call ran, and is freed again.
LEMMA TryReturnsInv ==
  ASSUME PtrInv, making = NoHandle, ~aborted, TryReturns
  PROVE  PtrInv'
<1>t. TypeOK /\ Roots /\ OneOwner /\ Lives /\ Alone /\ StepCalls
  BY DEF PtrInv
<1> DEFINE v == Last.val
<1>0. /\ calls # <<>> /\ Last.mode = "ref" /\ calls' = Pop
      /\ UNCHANGED <<object, addr, held, making, aborted, shared>>
  BY DEF TryReturns
<1>1. /\ calls' \in Seq(CallRecords) /\ Len(calls) \in 1..Len(calls)
      /\ \A i \in 1..Len(calls') : i \in 1..Len(calls) /\ calls'[i] = calls[i]
  BY <1>0, <1>t, CallPopped DEF TypeOK
<1>2. v \in Values
  BY <1>0, <1>1, <1>t DEF StepCalls, Last
<1>3. \/ DropFields(v) /\ box' = box
      \/ box' = [box EXCEPT ![v] = "twice"] /\ UNCHANGED <<handle, within, pool>>
  BY DEF TryReturns
<1> HIDE DEF v
<1>4. \A g \in Owning : object'[handle[g].sexp] = "live"
  BY <1>0, <1>t DEF Roots, OwnersAreRooted
<1>5. /\ Roots' /\ PoolOK(pool', Objects)
      /\ Held' \subseteq Held /\ \A g \in Held' : handle'[g] = handle[g]
      /\ handle' \in [Handles -> HandleRecords \cup {NoHandle}]
      /\ within' \in [Handles -> Values \cup {NoValue}]
      /\ \A g \in Handles : handle[g] = NoHandle => handle'[g] = NoHandle
      /\ box' \in [Values -> Fates] /\ (box' = box \/ Undefined')
  <2>1. CASE DropFields(v) /\ box' = box
    BY <2>1, <1>2, <1>4, <1>t, FieldsDropped DEF TypeOK
  <2>2. CASE box' = [box EXCEPT ![v] = "twice"] /\ UNCHANGED <<handle, within, pool>>
    <3>1. Held' = Held /\ Owning' = Owning
      BY <2>2 DEF Held, Owning
    <3>2. Roots'
      BY <1>0, <2>2, <3>1, <1>t, RootsKept
    <3>3. box' \in [Values -> Fates] /\ Undefined'
      BY <2>2, <1>2, <1>t DEF TypeOK, Fates, Undefined
    <3> QED
      BY <2>2, <3>1, <3>2, <3>3, <1>t DEF TypeOK
  <2> QED
    BY <1>3, <2>1, <2>2
<1>6. TypeOK'
  BY <1>0, <1>1, <1>5, <1>t DEF TypeOK
<1>7. OneOwner'
  BY <1>0, <1>5, <1>t DEF OneOwner, Undefined
<1>8. Lives'
  <2>1. making # NoHandle => making.place \in Handles
    BY <1>t, HandleFacts DEF MadeRecords
  <2> QED
    BY <2>1, <1>0, <1>1, <1>5, <1>t DEF Lives
<1>9. Alone'
  BY <1>0, <1>5, <1>t DEF Alone, Undefined
<1>10. StepCalls'
  BY <1>0, <1>1, <1>t DEF StepCalls, MarkerStays
<1> QED
  BY <1>5, <1>6, <1>7, <1>8, <1>9, <1>10 DEF PtrInv

\* take_for_consuming: the value leaves, the marker comes, and from now on the
\* object counts as shared.
LEMMA CallByValueInv ==
  ASSUME PtrInv, ~Undefined, making = NoHandle, ~aborted, NEW o \in Objects, NEW m \in {"step", "last"},
         CallByValue(o, m)
  PROVE  PtrInv'
<1>t. TypeOK /\ Roots /\ OneOwner /\ Lives /\ Alone /\ StepCalls
  BY DEF PtrInv
<1> DEFINE c == Call(o, m, NoValue)
           v == addr[o]
<1>0. /\ o \in held /\ v \in Values /\ calls' = Append(calls, c)
      /\ box' = [box EXCEPT ![v] = "moved"]
      /\ within' = [h \in Handles |-> IF within[h] = v THEN NoValue ELSE within[h]]
      /\ addr' = [addr EXCEPT ![o] = Consumed] /\ shared' = shared \cup {o}
      /\ UNCHANGED <<object, held, handle, making, pool, aborted>>
  BY DEF CallByValue, MoveOut
<1>c. c \in CallRecords /\ c.obj = o /\ c.mode # "ref"
  BY DEF Call, CallRecords
<1> HIDE DEF c, v
<1>1. /\ calls' \in Seq(CallRecords) /\ Len(calls) \in Nat
      /\ \A i \in 1..Len(calls) : calls'[i] = calls[i]
      /\ calls'[Len(calls) + 1] = c
      /\ \A i \in 1..Len(calls') : i \in 1..Len(calls) \/ i = Len(calls) + 1
  BY <1>0, <1>c, <1>t, CallPushed DEF TypeOK
<1>2. Held' = Held /\ Owning' = Owning
  BY <1>0 DEF Held, Owning
<1>3. /\ addr'[o] = Consumed /\ \A p \in Objects \ {o} : addr'[p] = addr[p]
      /\ addr' \in [Objects -> Values \cup {Null, Consumed}]
      /\ box' \in [Values -> Fates] /\ box'[v] = "moved"
      /\ \A w \in Values \ {v} : box'[w] = box[w]
      /\ within' \in [Handles -> Values \cup {NoValue}]
  BY <1>0, <1>t DEF TypeOK, Fates
<1>4. \A i \in 1..Len(calls) : calls[i].obj \in Objects
  BY <1>t, CallFacts
<1>5. TypeOK'
  BY <1>0, <1>1, <1>3, <1>t DEF TypeOK
<1>6. Roots'
  BY <1>0, <1>2, <1>t, RootsKept
<1>7. OneOwner'
  <2>1. \A p \in Objects \ {o} : addr[p] \in Values => addr[p] # v /\ box'[addr[p]] = "boxed"
    BY <1>3, <1>t DEF OneOwner, v
  <2>2. \A w \in Values : box'[w] = "boxed" => w # v /\ \E p \in Objects \ {o} : addr[p] = w
    BY <1>3, <1>t DEF OneOwner, v
  <2> QED
    BY <2>1, <2>2, <1>0, <1>3, <1>t, NothingAssumption DEF OneOwner
<1>8. Lives'
  <2>1. \A i \in 1..Len(calls') : object[calls'[i].obj] = "live"
    BY <1>0, <1>1, <1>c, <1>t DEF Lives
  <2> QED
    BY <2>1, <1>0, <1>2, <1>t DEF Lives
<1>9. Alone'
  <2>1. ASSUME NEW g \in Held, handle[g].sexp \notin shared'
        PROVE  addr'[handle[g].sexp] = handle[g].ptr /\ box'[handle[g].ptr] = "boxed"
    <3>1. /\ handle[g].sexp \in Objects \ {o} /\ handle[g].ptr \in Values
          /\ addr[handle[g].sexp] = handle[g].ptr /\ box[handle[g].ptr] = "boxed"
      BY <2>1, <1>0, <1>t, HandleFacts DEF Alone
    <3>2. handle[g].ptr # v
      BY <3>1, <1>t DEF OneOwner, v
    <3> QED
      BY <3>1, <3>2, <1>3
  <2> QED
    BY <2>1, <1>0, <1>2, <1>t DEF Alone
<1>10. StepCalls'
  <2>1. \A i \in 1..Len(calls) : calls[i].mode = "step" => calls[i].obj # o
    BY <1>0, <1>t, NothingAssumption DEF StepCalls, MarkerStays, v
  <2>2. MarkerStays'
    BY <2>1, <1>0, <1>1, <1>3, <1>4, <1>c, <1>t DEF StepCalls, MarkerStays
  <2>3. \A i \in 1..Len(calls') : calls'[i].mode = "step" => calls'[i].obj \in shared'
    BY <1>0, <1>1, <1>c, <1>t DEF StepCalls
  <2>4. \A i, j \in 1..Len(calls') : calls'[i].mode = "step" /\ calls'[j].mode = "step"
                                      /\ calls'[i].obj = calls'[j].obj => i = j
    BY <2>1, <1>1, <1>c, <1>t DEF StepCalls
  <2>5. \A i \in 1..Len(calls') : calls'[i].mode = "ref" => calls'[i].val \in Values
    BY <1>1, <1>c, <1>t DEF StepCalls
  <2> QED
    BY <2>2, <2>3, <2>4, <2>5 DEF StepCalls
<1> QED
  BY <1>5, <1>6, <1>7, <1>8, <1>9, <1>10 DEF PtrInv

\* restore_after_consuming.
LEMMA StepReturnsInv ==
  ASSUME PtrInv, ~Undefined, making = NoHandle, ~aborted, NEW v \in Values, StepReturns(v)
  PROVE  PtrInv'
<1>t. TypeOK /\ Roots /\ OneOwner /\ Lives /\ Alone /\ StepCalls
  BY DEF PtrInv
<1> DEFINE o == Last.obj
<1>0. /\ calls # <<>> /\ Last.mode = "step" /\ box[v] = "none" /\ calls' = Pop
      /\ UNCHANGED <<object, held, handle, within, making, pool, aborted, shared>>
  BY DEF StepReturns
<1>1. /\ calls' \in Seq(CallRecords) /\ Last \in CallRecords /\ Len(calls) \in 1..Len(calls)
      /\ \A i \in 1..Len(calls') : i \in 1..Len(calls) /\ i # Len(calls) /\ calls'[i] = calls[i]
  BY <1>0, <1>t, CallPopped DEF TypeOK
<1>2. o \in Objects /\ object[o] = "live" /\ o \in shared /\ addr[o] \in {Consumed, Null}
  BY <1>0, <1>1, <1>t DEF CallRecords, Lives, StepCalls, MarkerStays, Last
<1>3. \A w \in Values : addr[o] # w
  BY <1>2, NothingAssumption
<1>4. /\ addr' \in [Objects -> Values \cup {Null, Consumed}] /\ box' \in [Values -> Fates]
      /\ \A p \in Objects \ {o} : addr'[p] = addr[p]
      /\ \A w \in Values \ {v} : box'[w] = box[w]
      /\ \/ addr'[o] = addr[o] /\ box'[v] = "dropped"
         \/ addr'[o] = v /\ box'[v] = "boxed"
  <2>1. CASE addr[o] = Null
    <3>1. box' = [box EXCEPT ![v] = "dropped"] /\ addr' = addr
      BY <2>1 DEF StepReturns
    <3> QED
      BY <3>1, <1>t DEF TypeOK, Fates
  <2>2. CASE addr[o] # Null
    <3>1. addr' = [addr EXCEPT ![o] = v]
      BY <2>2 DEF StepReturns
    <3>2. box' = [w \in Values |-> CASE w = v -> "boxed" [] w = addr[o] -> "dropped"
                                     [] OTHER -> box[w]]
      BY <2>2 DEF StepReturns
    <3>3. \A w \in Values : box'[w] = IF w = v THEN "boxed" ELSE box[w]
      BY <3>2, <1>3
    <3>4. box' \in [Values -> Fates]
      <4>1. \A w \in Values : box'[w] \in Fates
        BY <3>3, <1>t DEF TypeOK, Fates
      <4> QED
        BY <4>1, <3>2
    <3> QED
      BY <3>1, <3>3, <3>4, <1>2, <1>t DEF TypeOK
  <2> QED
    BY <2>1, <2>2
<1>5. Held' = Held /\ Owning' = Owning
  BY <1>0 DEF Held, Owning
<1>6. TypeOK'
  BY <1>0, <1>1, <1>4, <1>t DEF TypeOK
<1>7. Roots'
  BY <1>0, <1>5, <1>t, RootsKept
<1>8. \A p \in Objects : addr[p] # v
  BY <1>0, <1>t DEF OneOwner
<1> HIDE DEF o
<1>9. OneOwner'
  <2>1. \A p \in Objects \ {o} : addr[p] \in Values => addr[p] # v /\ box'[addr[p]] = "boxed"
    BY <1>4, <1>8, <1>t DEF OneOwner
  <2>2. \A w \in Values \ {v} : box'[w] = "boxed" => \E p \in Objects \ {o} : addr[p] = w
    BY <1>3, <1>4, <1>t DEF OneOwner
  <2> QED
    BY <2>1, <2>2, <1>0, <1>2, <1>3, <1>4, <1>t DEF OneOwner
<1>10. Lives'
  BY <1>0, <1>1, <1>5, <1>t DEF Lives
<1>11. Alone'
  <2>1. ASSUME NEW g \in Held, handle[g].sexp \notin shared
        PROVE  addr'[handle[g].sexp] = handle[g].ptr /\ box'[handle[g].ptr] = "boxed"
    <3>1. /\ handle[g].sexp \in Objects \ {o} /\ handle[g].ptr \in Values
          /\ addr[handle[g].sexp] = handle[g].ptr /\ box[handle[g].ptr] = "boxed"
      BY <2>1, <1>2, <1>t, HandleFacts DEF Alone
    <3> QED
      BY <3>1, <1>0, <1>4
  <2> QED
    BY <2>1, <1>0, <1>5, <1>t DEF Alone
<1>12. StepCalls'
  <2>1. \A i \in 1..Len(calls') : /\ calls[i].obj \in Objects
                                  /\ calls[i].mode = "step" => calls[i].obj # o
    BY <1>0, <1>1, <1>t, CallFacts DEF StepCalls, Last, o
  <2> QED
    <3>1. ASSUME NEW i \in 1..Len(calls'), calls'[i].mode = "step"
          PROVE  addr'[calls'[i].obj] \in {Consumed, Null} /\ calls'[i].obj \in shared'
      <4>1. /\ i \in 1..Len(calls) /\ calls'[i] = calls[i] /\ calls[i].obj \in Objects \ {o}
            /\ calls[i].mode = "step"
        BY <3>1, <2>1, <1>1
      <4> QED
        BY <4>1, <1>0, <1>4, <1>t DEF StepCalls, MarkerStays
    <3>2. \A i, j \in 1..Len(calls') : calls'[i].mode = "step" /\ calls'[j].mode = "step"
                                        /\ calls'[i].obj = calls'[j].obj => i = j
      BY <1>1, <1>t DEF StepCalls
    <3>3. \A i \in 1..Len(calls') : calls'[i].mode = "ref" => calls'[i].val \in Values
      BY <1>1, <1>t DEF StepCalls
    <3> QED
      BY <3>1, <3>2, <3>3 DEF StepCalls, MarkerStays
<1> QED
  BY <1>6, <1>7, <1>9, <1>10, <1>11, <1>12 DEF PtrInv

\* release_any: what is collected is no owner's object, and its value dies with it.
LEMMA CollectInv ==
  ASSUME PtrInv, ~Undefined, ~aborted, NEW o \in Objects, Collect(o)
  PROVE  PtrInv'
<1>t. TypeOK /\ Roots /\ OneOwner /\ Lives /\ Alone /\ StepCalls
  BY DEF PtrInv
<1> DEFINE v == addr[o]
<1>0. /\ object[o] = "live" /\ ~Reachable(o)
      /\ addr' = [addr EXCEPT ![o] = Null] /\ UNCHANGED <<held, making, calls>>
      /\ aborted' \in BOOLEAN
  BY DEF Collect, DropPanics
<1>1. /\ \/ object' = [object EXCEPT ![o] = "unborn"] /\ shared' = shared \ {o}
            /\ \A h \in Handles : handle'[h] # NoHandle => handle'[h].sexp # o
         \/ object' = [object EXCEPT ![o] = "collected"] /\ shared' = shared
  BY DEF Collect, Forgotten
<1>2. \/ v \in Values /\ ~aborted' /\ DropFields(v) /\ box' = [box EXCEPT ![v] = "dropped"]
      \/ (v \notin Values \/ aborted') /\ UNCHANGED <<box, handle, within, pool>>
  BY DEF Collect, DropValue
<1> HIDE DEF v
<1>3. /\ \A p \in Objects \ {o} : object'[p] = object[p] /\ addr'[p] = addr[p]
      /\ addr'[o] = Null /\ object'[o] # "live"
      /\ object' \in [Objects -> {"unborn", "live", "collected"}]
      /\ addr' \in [Objects -> Values \cup {Null, Consumed}]
      /\ shared' \subseteq shared /\ shared \subseteq shared' \cup {o}
  BY <1>0, <1>1, <1>t DEF TypeOK
<1>4. \A h \in Owning : handle[h].sexp \in Objects \ {o}
  <2> SUFFICES ASSUME NEW h \in Owning, handle[h].sexp = o PROVE FALSE
    BY <1>t, HandleFacts
  <2>1. handle[h].root.slot \in UsedSlots(pool) /\ Get(pool, handle[h].root) = o
    BY <1>t DEF Roots, OwnersAreRooted
  <2>2. handle[h].root.slot \in Slots(pool)
    BY <2>1, <1>t DEF TypeOK, PoolOK, PoolType, UsedSlots, Slots
  <2> QED
    BY <2>1, <2>2, <1>0 DEF Reachable, Rooted, Get
<1>5. \A g \in Owning : object'[handle[g].sexp] = "live"
  BY <1>3, <1>4, <1>t DEF Roots, OwnersAreRooted
<1>6. /\ Roots' /\ PoolOK(pool', Objects)
      /\ Held' \subseteq Held /\ \A g \in Held' : handle'[g] = handle[g]
      /\ handle' \in [Handles -> HandleRecords \cup {NoHandle}]
      /\ within' \in [Handles -> Values \cup {NoValue}]
      /\ \A g \in Handles : handle[g] = NoHandle => handle'[g] = NoHandle
      /\ box' \in [Values -> Fates] /\ \A w \in Values : w # v => box'[w] = box[w]
      /\ v \in Values /\ ~aborted' => box'[v] = "dropped"
  <2>1. CASE v \in Values /\ ~aborted' /\ DropFields(v) /\ box' = [box EXCEPT ![v] = "dropped"]
    <3>1. /\ Roots' /\ PoolOK(pool', Objects)
          /\ Held' \subseteq Held /\ \A g \in Held' : handle'[g] = handle[g]
          /\ handle' \in [Handles -> HandleRecords \cup {NoHandle}]
          /\ within' \in [Handles -> Values \cup {NoValue}]
          /\ \A g \in Handles : handle[g] = NoHandle => handle'[g] = NoHandle
      BY <2>1, <1>5, <1>t, FieldsDropped
    <3>2. /\ box' \in [Values -> Fates] /\ \A w \in Values : w # v => box'[w] = box[w]
          /\ v \in Values => box'[v] = "dropped"
      BY <2>1, <1>t DEF TypeOK, Fates
    <3> QED
      BY <3>1, <3>2
  <2>2. CASE (v \notin Values \/ aborted') /\ UNCHANGED <<box, handle, within, pool>>
    <3>1. Held' = Held /\ Owning' = Owning
      BY <2>2 DEF Held, Owning
    <3>2. \A g \in Owning : object[handle[g].sexp] = "live"
      BY <1>t DEF Roots, OwnersAreRooted
    <3>3. Roots'
      BY <2>2, <3>1, <3>2, <1>5, <1>t, RootsKept
    <3> QED
      BY <2>2, <3>1, <3>3, <1>t DEF TypeOK
  <2> QED
    BY <1>2, <2>1, <2>2
<1>7. TypeOK'
  BY <1>0, <1>3, <1>6, <1>t DEF TypeOK
<1>8. OneOwner'
  <2> SUFFICES ASSUME ~aborted' PROVE OneOwner'
    BY DEF OneOwner
  <2>1. \A p \in Objects \ {o} : addr[p] \in Values => addr[p] # v /\ box'[addr[p]] = "boxed"
    BY <1>6, <1>t DEF OneOwner, v
  <2>2. \A w \in Values : box'[w] = "boxed" => w # v /\ \E p \in Objects \ {o} : addr[p] = w
    BY <1>6, <1>t DEF OneOwner, v
  <2> QED
    BY <2>1, <2>2, <1>3, <1>t, NothingAssumption DEF OneOwner
<1>9. /\ \A p \in held : p # o
      /\ \A i \in 1..Len(calls) : calls[i].obj \in Objects \ {o}
      /\ making # NoHandle => making.sexp \in Objects \ {o}
  BY <1>0, <1>t, CallFacts, HandleFacts DEF Reachable, InCall, MadeRecords
<1>10. Lives'
  <2>1. \A p \in held : p \in Objects \ {o}
    BY <1>9, <1>t DEF TypeOK
  <2>2. making # NoHandle => making.place \in Handles
    BY <1>t, HandleFacts DEF MadeRecords
  <2>3. \A h \in Held' : object'[handle'[h].sexp] # "unborn"
    <3> SUFFICES ASSUME NEW h \in Held' PROVE object'[handle'[h].sexp] # "unborn"
      OBVIOUS
    <3>1. h \in Held /\ handle'[h] = handle[h] /\ handle'[h].sexp \in Objects /\ h \in Handles
          /\ handle'[h] # NoHandle
      BY <1>6, <1>t, HandleFacts DEF Held
    <3>2. CASE handle[h].sexp = o
      BY <3>1, <3>2, <1>1, <1>t DEF TypeOK
    <3>3. CASE handle[h].sexp # o
      BY <3>1, <3>3, <1>3, <1>t DEF Lives
    <3> QED
      BY <3>2, <3>3
  <2> QED
    BY <2>1, <2>2, <2>3, <1>0, <1>3, <1>6, <1>9, <1>t DEF Lives
<1>11. Alone'
  <2>1. ASSUME NEW h \in Held', handle'[h].sexp \notin shared'
        PROVE  /\ h \in Held /\ handle'[h] = handle[h]
               /\ handle[h].sexp \notin shared /\ handle[h].sexp \in Objects \ {o}
    <3>1. h \in Held /\ handle'[h] = handle[h] /\ handle[h].sexp \in Objects /\ handle'[h] # NoHandle
          /\ h \in Handles
      BY <1>6, <1>t, HandleFacts DEF Held
    <3>2. handle[h].sexp # o
      <4>1. CASE handle[h].root = NoKey
        <5>1. handle[h].sexp \in shared
          BY <3>1, <4>1, <1>t DEF Alone
        <5> QED
          BY <3>1, <5>1, <2>1, <1>1
      <4>2. CASE handle[h].root # NoKey
        BY <3>1, <4>2, <1>4 DEF Owning
      <4> QED
        BY <4>1, <4>2
    <3> QED
      BY <3>1, <3>2, <2>1, <1>3
  <2>2. ASSUME NEW h \in Held', handle'[h].sexp \notin shared'
        PROVE  addr'[handle'[h].sexp] = handle'[h].ptr /\ box'[handle'[h].ptr] = "boxed"
    <3>1. /\ handle'[h] = handle[h] /\ handle[h].sexp \in Objects \ {o} /\ handle[h].ptr \in Values
          /\ addr[handle[h].sexp] = handle[h].ptr /\ box[handle[h].ptr] = "boxed"
      BY <2>1, <2>2, <1>t, HandleFacts DEF Alone
    <3>2. handle[h].ptr # v
      BY <3>1, <1>t DEF OneOwner, v
    <3> QED
      BY <3>1, <3>2, <1>3, <1>6
  <2>3. \A h, g \in Held' : handle'[h].sexp = handle'[g].sexp /\ handle'[h].sexp \notin shared' => h = g
    BY <2>1, <1>t DEF Alone
  <2>4. \A h \in Held' : handle'[h].root = NoKey => handle'[h].sexp \in shared'
    BY <2>1, <1>t DEF Alone
  <2>5. making' # NoHandle =>
          /\ addr'[making'.sexp] = making'.ptr
          /\ \A h \in Held' : handle'[h].sexp # making'.sexp
    BY <1>0, <1>3, <1>6, <1>9, <1>t DEF Alone
  <2> QED
    BY <2>2, <2>3, <2>4, <2>5 DEF Alone
<1>12. StepCalls'
  BY <1>0, <1>3, <1>9, <1>t DEF StepCalls, MarkerStays
<1> QED
  BY <1>6, <1>7, <1>8, <1>10, <1>11, <1>12 DEF PtrInv

-----------------------------------------------------------------------------
LEMMA InitPtrInv == Init => PtrInv
<1> SUFFICES ASSUME Init PROVE PtrInv
  OBVIOUS
<1>1. Held = {} /\ Owning = {}
  BY DEF Init, Held, Owning
<1>2. TypeOK
  <2>1. PoolOK(pool, Objects)
    BY NewPoolOK DEF Init
  <2>2. calls \in Seq(CallRecords)
    BY DEF Init
  <2> QED
    BY <2>1, <2>2 DEF Init, TypeOK, Fates
<1>3. Roots
  BY <1>1, NewPoolOK, FS_EmptySet DEF Init, Roots, OwnersAreRooted, NoRootLeaks
<1>4. OneOwner /\ Lives /\ Alone /\ StepCalls
  BY <1>1, NothingAssumption DEF Init, OneOwner, Lives, Alone, StepCalls, MarkerStays
<1> QED
  BY <1>2, <1>3, <1>4 DEF PtrInv

LEMMA NextPtrInv ==
  ASSUME PtrInv, [Next]_vars
  PROVE  PtrInv'
<1>1. CASE UNCHANGED vars
  BY <1>1, QuietInv DEF vars, PtrInv, TypeOK
<1>2. ASSUME ~aborted, ~Undefined, making = NoHandle, Mutator
      PROVE  PtrInv'
  <2>1. CASE \E h \in Handles, o \in Objects, v \in Values, f \in {"none", "raw"} : Make(h, o, v, f)
    BY <1>2, <2>1, MakeInv
  <2>2. CASE \E v \in Values : DropRaw(v) \/ StepReturns(v)
    BY <1>2, <2>2, DropRawInv, StepReturnsInv
  <2>3. CASE \E h \in Handles, v \in Values : StoreField(h, v)
    <3>1. PICK h \in Handles, v \in Values : StoreField(h, v)
      BY <2>3
    <3>2. within' \in [Handles -> Values \cup {NoValue}]
      BY <3>1 DEF StoreField, PtrInv, TypeOK
    <3> QED
      BY <3>1, <3>2, QuietInv DEF StoreField
  <2>4. CASE \E h \in Handles, o \in Objects : FromR(h, o)
    BY <1>2, <2>4, WrapSexpInv DEF FromR
  <2>5. CASE \E h, g \in Handles : Reborrow(h, g)
    <3>1. PICK h \in Handles, g \in Handles : Reborrow(h, g)
      BY <2>5
    <3>2. handle[g].sexp \in Objects /\ WrapSexp(h, handle[g].sexp)
      BY <3>1, HandleFacts DEF Reborrow, PtrInv
    <3> QED
      BY <1>2, <3>2, WrapSexpInv
  <2>6. CASE \E h \in Handles : DropHandle(h) \/ IntoSexp(h)
    BY <1>2, <2>6, HandleEndsInv
  <2>7. CASE \E h \in Handles, f \in {"raw", "moved"} : Unbox(h, f)
    BY <1>2, <2>7, UnboxInv
  <2>8. CASE \E o \in Objects : CallByRef(o) \/ RForgets(o)
    <3>1. ASSUME NEW o \in Objects, RForgets(o) PROVE PtrInv'
      BY <3>1, QuietInv DEF RForgets, PtrInv, TypeOK
    <3> QED
      BY <2>8, <3>1, CallByRefInv
  <2>9. CASE \E o \in Objects, m \in {"step", "last"} : CallByValue(o, m)
    BY <1>2, <2>9, CallByValueInv
  <2>10. CASE CallEnds \/ TryReturns
    BY <1>2, <2>10, CallEndsInv, TryReturnsInv
  <2> QED
    BY <1>2, <2>1, <2>2, <2>3, <2>4, <2>5, <2>6, <2>7, <2>8, <2>9, <2>10 DEF Mutator
<1>3. ASSUME ~aborted, ~Undefined, Root PROVE PtrInv'
  BY <1>3, RootInv
<1>4. ASSUME ~aborted, ~Undefined, NEW o \in Objects, Collect(o) PROVE PtrInv'
  BY <1>4, CollectInv
<1> QED
  BY <1>1, <1>2, <1>3, <1>4 DEF Next

\* The inductive invariant of handles, objects, values, calls and the pool.
THEOREM PtrInvariance == Spec => []PtrInv
  BY InitPtrInv, NextPtrInv, PTL DEF Spec

\* The pool and everything else keep their types; the pool's slots in use, free
\* list and length agree.
THEOREM PtrTypeCorrectness == Spec => []TypeOK
<1>1. PtrInv => TypeOK
  BY DEF PtrInv
<1> QED
  BY <1>1, PtrInvariance, PTL

\* A boxed value has one object that frees it, and no object has another's or a
\* freed value: no double free and no leak through aliases, consumption or collection,
\* until into_raw on a stale handle or the write of a fallible call gives a value a
\* second owner (OwnershipEnds: nothing else does).
THEOREM OwnershipIsUnique == Spec => []OneOwner
<1>1. PtrInv => OneOwner
  BY DEF PtrInv
<1> QED
  BY <1>1, PtrInvariance, PTL

\* What an owning handle refers to is not finalized under it.
THEOREM OwnersKeepAlive == Spec => []OwnersAreRooted
<1>1. PtrInv => OwnersAreRooted
  BY DEF PtrInv, Roots
<1> QED
  BY <1>1, PtrInvariance, PTL

\* The pool has one slot for each owning handle and keeps nothing else alive.
THEOREM RootsAreReleased == Spec => []NoRootLeaks
<1>1. PtrInv => NoRootLeaks
  BY DEF PtrInv, Roots
<1> QED
  BY <1>1, PtrInvariance, PTL

\* An owner whose object nobody else has seen may use its cached pointer.
THEOREM ExclusiveMeansValid == Spec => []ExclusiveOwnerValid
<1>1. PtrInv => ExclusiveOwnerValid
  BY DEF PtrInv, Alone, ExclusiveOwnerValid, Owning, Allocated
<1> QED
  BY <1>1, PtrInvariance, PTL

\* While a consuming method runs, the slot it emptied stays empty.
THEOREM MarkerIsSafe == Spec => []MarkerStays
<1>1. PtrInv => MarkerStays
  BY DEF PtrInv, StepCalls
<1> QED
  BY <1>1, PtrInvariance, PTL

\* What has been moved out, dropped or leaked is not freed or given out again, but for
\* the write of a fallible call and for into_raw on a stale handle.
THEOREM OwnershipEnds == Spec => OwnershipEndsOnce
<1> DEFINE Over(v) == box[v] \in {"moved", "dropped", "leaked"}
           Kept(v) == box'[v] = box[v] \/ (~Over(v) /\ box'[v] # "twice")
           Fate(v) == /\ Over(v) => box'[v] \in {box[v], "twice"}
                      /\ box[v] # "twice" /\ box'[v] = "twice" => WritesBack(v) \/ StaleIntoRaw(v)
<1>1. ASSUME PtrInv, Next, NEW v \in Values
      PROVE  Fate(v)
  <2>1. ~aborted /\ ~Undefined /\ TypeOK /\ OneOwner /\ box \in [Values -> Fates]
    BY <1>1 DEF Next, PtrInv, TypeOK
  <2>2. \A o \in Objects : addr[o] = v => box[v] = "boxed"
    BY <2>1 DEF OneOwner
  <2>k. Kept(v) => Fate(v)
    OBVIOUS
  <2>3. ASSUME NEW w \in Values, DropValue(w) \/ MoveOut(w), ~(w = v /\ Over(v))
        PROVE  Kept(v)
    BY <2>1, <2>3 DEF DropValue, MoveOut
  <2>4. ASSUME NEW h \in Handles, NEW o \in Objects, NEW w \in Values, NEW f \in {"none", "raw"},
               Make(h, o, w, f)
        PROVE  Kept(v)
    BY <2>1, <2>4 DEF Make
  <2>5. ASSUME NEW w \in Values, DropRaw(w) PROVE Kept(v)
    BY <2>3, <2>5 DEF DropRaw
  <2>6. ASSUME NEW w \in Values, StepReturns(w) PROVE Kept(v)
    <3>1. calls # <<>> /\ box[w] = "none"
      BY <2>6 DEF StepReturns
    <3>2. Last.obj \in Objects
      <4>1. calls \in Seq(CallRecords)
        BY <2>1 DEF TypeOK
      <4>2. Last \in CallRecords
        BY <3>1, <4>1, FrontOfSeq, Zenon DEF Last
      <4> QED
        BY <4>2 DEF CallRecords
    <3>3. addr[Last.obj] = v => box[v] = "boxed"
      BY <3>2, <2>2
    <3>4. CASE addr[Last.obj] = Null
      BY <3>1, <3>4, <2>1, <2>6 DEF StepReturns
    <3>5. CASE addr[Last.obj] # Null
      BY <3>1, <3>3, <3>5, <2>1, <2>6 DEF StepReturns
    <3> QED
      BY <3>4, <3>5
  <2>7. ASSUME NEW h \in Handles, NEW f \in {"raw", "moved"}, Unbox(h, f)
        PROVE  Fate(v)
    <3> DEFINE o == handle[h].sexp
               p == handle[h].ptr
    <3>1. /\ h \in Held /\ o \in Objects /\ handle'[h] = NoHandle /\ addr'[o] = Null
      BY <2>1, <2>7, HandleFacts DEF Unbox, Free, TypeOK, Held
    <3>2. addr[o] = v => box[v] = "boxed"
      BY <3>1, <2>2
    <3>3. \/ GiveOut(p, addr[o])
          \/ addr[o] \in Values /\ MoveOut(addr[o])
          \/ UNCHANGED box
      BY <2>7 DEF Unbox
    <3>4. CASE GiveOut(p, addr[o])
      <4>1. box'[v] = IF v = p THEN IF addr[o] = p THEN "raw" ELSE "twice"
                      ELSE IF v = addr[o] THEN "leaked" ELSE box[v]
        BY <3>4 DEF GiveOut
      <4>2. v = p /\ addr[o] # p => StaleIntoRaw(v)
        BY <3>1 DEF StaleIntoRaw
      <4> QED
        BY <4>1, <4>2, <3>2
    <3>5. CASE addr[o] \in Values /\ MoveOut(addr[o])
      BY <3>2, <3>5, <2>3
    <3> QED
      BY <3>3, <3>4, <3>5
  <2>8. ASSUME NEW o \in Objects, NEW m \in {"step", "last"}, CallByValue(o, m)
        PROVE  Kept(v)
    BY <2>2, <2>3, <2>8 DEF CallByValue
  <2>9. ASSUME NEW o \in Objects, Collect(o) PROVE Kept(v)
    BY <2>2, <2>3, <2>9 DEF Collect
  <2>10. CASE CallEnds \/ Root
    BY <2>10 DEF CallEnds, Root
  <2>11. CASE TryReturns
    <3>1. calls # <<>> /\ Last.mode = "ref" /\ calls' = Pop
      BY <2>11 DEF TryReturns
    <3>2. box' = box \/ box' = [box EXCEPT ![Last.val] = "twice"]
      BY <2>11 DEF TryReturns
    <3>3. CASE Last.val = v
      BY <3>1, <3>2, <3>3, <2>1 DEF WritesBack
    <3>4. CASE Last.val # v
      BY <3>2, <3>4, <2>1
    <3> QED
      BY <3>3, <3>4
  <2>12. CASE \E h \in Handles : DropHandle(h) \/ IntoSexp(h)
    BY <2>12 DEF DropHandle, IntoSexp
  <2>13. CASE \E o \in Objects : CallByRef(o) \/ RForgets(o)
    BY <2>13 DEF CallByRef, RForgets
  <2>14. CASE \E h, g \in Handles : Reborrow(h, g)
    BY <2>14 DEF Reborrow, WrapSexp
  <2>15. CASE \E h \in Handles, o \in Objects : FromR(h, o)
    BY <2>15 DEF FromR, WrapSexp
  <2>16. CASE \E h \in Handles, w \in Values : StoreField(h, w)
    BY <2>16 DEF StoreField
  <2> HIDE DEF Fate, Kept
  <2> QED
    BY <1>1, <2>k, <2>4, <2>5, <2>6, <2>7, <2>8, <2>9, <2>10, <2>11, <2>12, <2>13, <2>14, <2>15,
       <2>16 DEF Next, Mutator
<1>2. PtrInv /\ [Next]_vars => [\A v \in Values : Fate(v)]_vars
  BY <1>1
<1> QED
  BY <1>2, PtrInvariance, PTL DEF Spec, OwnershipEndsOnce

=============================================================================
