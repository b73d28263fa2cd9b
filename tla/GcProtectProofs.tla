-------------------------- MODULE GcProtectProofs --------------------------
(***************************************************************************)
(* What the arena promises to its guards, for any objects, any number of   *)
(* guards and any nesting of calls: Spec => []ArenaConsistent, that every  *)
(* entry counts its holders, and that no holder sees its object collected. *)
(*                                                                         *)
(* The actions on R's protect stack leave arena guards alone: SameArena.   *)
(***************************************************************************)
EXTENDS GcProtect, FiniteSetTheorems, SequenceTheorems, TLAPS

-----------------------------------------------------------------------------
(* The arena: protect, unprotect and clear preserve what it guarantees, for *)
(* any set of objects and any capacity.                                     *)

\* A sequence without its last element.
LEMMA FrontOfSeq ==
  ASSUME NEW S, NEW s \in Seq(S), s # <<>>
  PROVE  /\ Len(s) \in Nat \ {0}
         /\ s[Len(s)] \in S
         /\ SubSeq(s, 1, Len(s) - 1) \in Seq(S)
         /\ Len(SubSeq(s, 1, Len(s) - 1)) = Len(s) - 1
         /\ \A i \in 1..Len(s) - 1 : SubSeq(s, 1, Len(s) - 1)[i] = s[i]
<1>1. Len(s) \in Nat \ {0}
  BY EmptySeq
<1>2. \A i \in 1..Len(s) : s[i] \in S
  BY ElementOfSeq
<1>3. \A i \in 1..Len(s) - 1 : s[i] \in S
  BY <1>1, <1>2
<1> DEFINE t == SubSeq(s, 1, Len(s) - 1)
<1>4. /\ t \in Seq(S)
      /\ Len(t) = IF 1 <= Len(s) - 1 THEN (Len(s) - 1) - 1 + 1 ELSE 0
      /\ \A i \in 1..(Len(s) - 1) - 1 + 1 : t[i] = s[1 + i - 1]
  BY <1>1, <1>3, SubSeqProperties
<1> HIDE DEF t
<1>5. Len(t) = Len(s) - 1 /\ \A i \in 1..Len(s) - 1 : t[i] = s[i]
  <2>1. ASSUME NEW n \in Nat \ {0}
        PROVE  /\ n - 1 = IF 1 <= n - 1 THEN (n - 1) - 1 + 1 ELSE 0
               /\ (n - 1) - 1 + 1 = n - 1
    OBVIOUS
  <2>2. \A i \in Nat : 1 + i - 1 = i
    OBVIOUS
  <2>3. Len(t) = Len(s) - 1
    BY <1>1, <1>4, <2>1, Zenon
  <2>4. \A i \in 1..Len(s) - 1 : t[i] = s[1 + i - 1]
    BY <1>1, <1>4, <2>1, Zenon
  <2>5. \A i \in 1..Len(s) - 1 : i \in Nat
    BY <1>1
  <2> QED
    BY <2>2, <2>3, <2>4, <2>5, Zenon
<1>6. s[Len(s)] \in S
  BY <1>1, <1>2
<1> QED
  BY <1>1, <1>4, <1>5, <1>6 DEF t

\* A new arena is empty and consistent.
LEMMA NewArenaOK ==
  ASSUME NEW Xs, Nil \notin Xs
  PROVE  ArenaOK(NewArena, Xs)
<1>1. ArenaType(NewArena, Xs)
  BY ArenaAssumption DEF ArenaType, NewArena, Protected
<1>2. ArenaSlots(NewArena)
  BY DEF ArenaSlots, NewArena, Protected
<1>3. ArenaHolds(NewArena)
  BY ArenaAssumption DEF ArenaHolds, NewArena, Protected
<1>4. ArenaCounts(NewArena)
  BY FS_EmptySet DEF ArenaCounts, NewArena, Protected
<1> QED
  BY <1>1, <1>2, <1>3, <1>4 DEF ArenaOK

\* allocate_slot: the slot given out belongs to nobody, and growing the list
\* or taking from the free list leaves every entry where it is.
LEMMA SlotIsFree ==
  ASSUME NEW Xs, NEW a, ArenaOK(a, Xs)
  PROVE  LET b == WithSlot(a)
         IN  /\ DOMAIN b = DOMAIN a /\ b.map = a.map /\ b.len = a.len
             /\ b.capacity \in Nat \ {0} /\ b.capacity >= a.capacity
             /\ b.next \in 0..b.capacity /\ b.next >= a.next
             /\ Slot(a) \in 0..b.next - 1
             /\ b.backing \in [0..b.capacity - 1 -> Xs \cup {Nil}]
             /\ \A i \in 0..b.capacity - 1 :
                  b.backing[i] = IF i < a.capacity THEN a.backing[i] ELSE Nil
             /\ b.free \in Seq(0..b.next - 1)
             /\ a.len + 1 + Len(b.free) = b.next
             /\ \A i \in 1..Len(b.free) :
                  i \in 1..Len(a.free) /\ b.free[i] = a.free[i] /\ b.free[i] # Slot(a)
             /\ \A x \in Protected(a) : a.map[x].index # Slot(a)
<1> DEFINE b == WithSlot(a)
<1>0. /\ ArenaType(a, Xs) /\ ArenaSlots(a) /\ ArenaCounts(a)
  BY DEF ArenaOK
<1>1. CASE a.free # <<>>
  <2>1. b = [a EXCEPT !.free = SubSeq(a.free, 1, Len(a.free) - 1)]
    BY <1>1 DEF WithSlot
  <2>2. Slot(a) = a.free[Len(a.free)]
    BY <1>1 DEF Slot
  <2>3. a.free \in Seq(0..a.next - 1) /\ Len(a.free) \in Nat \ {0}
    BY <1>0, <1>1 DEF ArenaType
  <2>4. Slot(a) \in 0..a.next - 1
    <3>1. Len(a.free) \in 1..Len(a.free)
      BY <2>3
    <3> QED
      BY <3>1, <2>2, <2>3, ElementOfSeq
  <2>5. /\ SubSeq(a.free, 1, Len(a.free) - 1) \in Seq(0..a.next - 1)
        /\ Len(SubSeq(a.free, 1, Len(a.free) - 1)) = Len(a.free) - 1
        /\ \A i \in 1..Len(a.free) - 1 : SubSeq(a.free, 1, Len(a.free) - 1)[i] = a.free[i]
    BY <1>1, <2>3, FrontOfSeq
  <2>6. /\ DOMAIN b = DOMAIN a /\ b.map = a.map /\ b.len = a.len
        /\ b.capacity = a.capacity /\ b.next = a.next /\ b.backing = a.backing
        /\ b.free = SubSeq(a.free, 1, Len(a.free) - 1)
    BY <2>1, <1>0 DEF ArenaType
  <2>7. \A i \in 1..Len(a.free) - 1 : a.free[i] # a.free[Len(a.free)]
    BY <1>0, <2>3 DEF ArenaSlots
  <2>8. \A x \in Protected(a) : a.map[x].index # Slot(a)
    BY <1>0, <2>2, <2>3 DEF ArenaSlots
  <2>9. a.len + 1 + Len(b.free) = b.next
    BY <1>0, <2>3, <2>5, <2>6 DEF ArenaCounts, ArenaType
  <2>10. \A i \in 1..Len(b.free) :
            i \in 1..Len(a.free) /\ b.free[i] = a.free[i] /\ b.free[i] # Slot(a)
    BY <2>2, <2>3, <2>5, <2>6, <2>7
  <2>11. \A i \in 0..b.capacity - 1 :
            b.backing[i] = IF i < a.capacity THEN a.backing[i] ELSE Nil
    BY <2>6, <1>0 DEF ArenaType
  <2> HIDE DEF b
  <2>12. /\ b.capacity \in Nat \ {0} /\ b.capacity >= a.capacity
         /\ b.next \in 0..b.capacity /\ b.next >= a.next
         /\ Slot(a) \in 0..b.next - 1
         /\ b.backing \in [0..b.capacity - 1 -> Xs \cup {Nil}]
         /\ b.free \in Seq(0..b.next - 1)
    BY <2>4, <2>5, <2>6, <1>0 DEF ArenaType
  <2> QED
    BY <2>6, <2>8, <2>9, <2>10, <2>11, <2>12 DEF b
<1>2. CASE a.free = <<>>
  <2> DEFINE c == IF Full(a) THEN Grow(a) ELSE a
  <2>1. Slot(a) = a.next /\ b = [c EXCEPT !.next = a.next + 1]
    BY <1>2 DEF Slot, WithSlot
  <2>2. /\ a.capacity \in Nat \ {0} /\ a.next \in 0..a.capacity
        /\ a.backing \in [0..a.capacity - 1 -> Xs \cup {Nil}]
    BY <1>0 DEF ArenaType
  <2>3. /\ DOMAIN c = DOMAIN a /\ c.map = a.map /\ c.len = a.len /\ c.free = a.free
        /\ c.next = a.next /\ c.capacity \in Nat \ {0}
        /\ c.capacity >= a.capacity /\ a.next < c.capacity
        /\ c.backing \in [0..c.capacity - 1 -> Xs \cup {Nil}]
        /\ \A i \in 0..c.capacity - 1 :
             c.backing[i] = IF i < a.capacity THEN a.backing[i] ELSE Nil
    <3>1. CASE Full(a)
      <4>1. c = Grow(a)
        BY <3>1
      <4>2. /\ DOMAIN c = DOMAIN a /\ c.map = a.map /\ c.len = a.len /\ c.free = a.free
            /\ c.next = a.next /\ c.capacity = 2 * a.capacity
            /\ c.backing = [i \in 0..2 * a.capacity - 1 |->
                              IF i < a.capacity THEN a.backing[i] ELSE Nil]
        BY <4>1, <1>0 DEF Grow, ArenaType
      <4> HIDE DEF c
      <4>3. \A i \in 0..2 * a.capacity - 1 :
              (IF i < a.capacity THEN a.backing[i] ELSE Nil) \in Xs \cup {Nil}
        BY <2>2
      <4> QED
        BY <4>2, <4>3, <2>2
    <3>2. CASE ~Full(a)
      <4>1. c = a
        BY <3>2
      <4>2. a.next < a.capacity
        BY <1>2, <2>2, <3>2 DEF Full
      <4> HIDE DEF c
      <4> QED
        BY <4>1, <4>2, <2>2
    <3> QED
      BY <3>1, <3>2
  <2>4. DOMAIN a = {"map", "backing", "capacity", "free", "next", "len"}
    BY <1>0 DEF ArenaType
  <2> HIDE DEF c
  <2>5. /\ DOMAIN b = DOMAIN a /\ b.map = a.map /\ b.len = a.len /\ b.free = <<>>
        /\ b.next = a.next + 1 /\ b.capacity = c.capacity /\ b.backing = c.backing
    BY <2>1, <2>3, <2>4, <1>2
  <2> HIDE DEF b
  <2>6. a.len + 1 + Len(b.free) = b.next
    BY <1>0, <1>2, <2>5 DEF ArenaCounts, ArenaType
  <2>7. \A x \in Protected(a) : a.map[x].index # Slot(a)
    BY <1>0, <2>1, <2>2 DEF ArenaType
  <2>8. /\ b.capacity \in Nat \ {0} /\ b.capacity >= a.capacity
        /\ b.next \in 0..b.capacity /\ b.next >= a.next
        /\ Slot(a) \in 0..b.next - 1
        /\ b.backing \in [0..b.capacity - 1 -> Xs \cup {Nil}]
        /\ b.free \in Seq(0..b.next - 1)
    <3>1. b.capacity \in Nat \ {0} /\ b.capacity >= a.capacity
      BY <2>3, <2>5
    <3>2. /\ b.next \in 0..b.capacity /\ b.next >= a.next
          /\ Slot(a) \in 0..b.next - 1
      BY <2>1, <2>2, <2>3, <2>5
    <3>3. b.backing \in [0..b.capacity - 1 -> Xs \cup {Nil}]
      BY <2>3, <2>5
    <3>4. b.free \in Seq(0..b.next - 1)
      BY <2>5
    <3> QED
      BY <3>1, <3>2, <3>3, <3>4
  <2>9. \A i \in 0..b.capacity - 1 :
           b.backing[i] = IF i < a.capacity THEN a.backing[i] ELSE Nil
    BY <2>3, <2>5
  <2>10. Len(b.free) = 0
    BY <2>5
  <2> QED
    BY <2>5, <2>6, <2>7, <2>8, <2>9, <2>10 DEF b
<1> QED
  BY <1>1, <1>2

\* protect counts one more holder, or gives the object a slot of its own.
LEMMA ProtectOK ==
  ASSUME NEW Xs, NEW a, ArenaOK(a, Xs), NEW x \in Xs, Nil \notin Xs
  PROVE  ArenaOK(Protect(a, x), Xs)
<1>0. ArenaType(a, Xs) /\ ArenaSlots(a) /\ ArenaHolds(a) /\ ArenaCounts(a)
  BY DEF ArenaOK
<1> DEFINE p == Protect(a, x)
<1>1. CASE x \in Protected(a)
  <2>1. p = [a EXCEPT !.map[x].count = a.map[x].count + 1]
    BY <1>1 DEF Protect
  <2>2. /\ DOMAIN p = DOMAIN a /\ p.backing = a.backing /\ p.capacity = a.capacity
        /\ p.free = a.free /\ p.next = a.next /\ p.len = a.len
        /\ p.map = [a.map EXCEPT ![x].count = a.map[x].count + 1]
    BY <2>1, <1>0 DEF ArenaType
  <2>3. a.map \in [Protected(a) -> [count : Nat \ {0}, index : 0..a.next - 1]]
    BY <1>0 DEF ArenaType
  <2>4. /\ p.map \in [Protected(a) -> [count : Nat \ {0}, index : 0..a.next - 1]]
        /\ \A y \in Protected(a) : p.map[y].index = a.map[y].index
    BY <2>2, <2>3, <1>1
  <2> HIDE DEF p
  <2>5. Protected(p) = Protected(a)
    BY <2>4 DEF Protected
  <2>6. ArenaType(p, Xs)
    BY <2>2, <2>4, <2>5, <1>0 DEF ArenaType
  <2>7. ArenaSlots(p)
    BY <2>2, <2>4, <2>5, <1>0 DEF ArenaSlots
  <2>8. ArenaHolds(p)
    BY <2>2, <2>4, <2>5, <1>0 DEF ArenaHolds
  <2>9. ArenaCounts(p)
    BY <2>2, <2>5, <1>0 DEF ArenaCounts
  <2> QED
    BY <2>6, <2>7, <2>8, <2>9 DEF ArenaOK, p
<1>2. CASE x \notin Protected(a)
  <2> DEFINE b == WithSlot(a)
             k == Slot(a)
             e == [count |-> 1, index |-> k]
  <2>1. p = [b EXCEPT !.map = Entered(a.map, x, e), !.backing[k] = x, !.len = a.len + 1]
    BY <1>2 DEF Protect
  <2>2. /\ DOMAIN b = DOMAIN a /\ b.map = a.map /\ b.len = a.len
        /\ b.capacity \in Nat \ {0} /\ b.capacity >= a.capacity
        /\ b.next \in 0..b.capacity /\ b.next >= a.next
        /\ k \in 0..b.next - 1
        /\ b.backing \in [0..b.capacity - 1 -> Xs \cup {Nil}]
        /\ b.free \in Seq(0..b.next - 1)
        /\ a.len + 1 + Len(b.free) = b.next
    BY SlotIsFree
  <2>3. \A i \in 0..b.capacity - 1 :
           b.backing[i] = IF i < a.capacity THEN a.backing[i] ELSE Nil
    BY SlotIsFree
  <2>4. \A i \in 1..Len(b.free) :
           i \in 1..Len(a.free) /\ b.free[i] = a.free[i] /\ b.free[i] # k
    BY SlotIsFree
  <2>5. \A y \in Protected(a) : a.map[y].index # k
    BY SlotIsFree
  <2> HIDE DEF b, k
  <2>6. /\ DOMAIN p = DOMAIN a /\ p.map = Entered(a.map, x, e)
        /\ p.backing = [b.backing EXCEPT ![k] = x]
        /\ p.len = a.len + 1 /\ p.capacity = b.capacity
        /\ p.next = b.next /\ p.free = b.free
    BY <2>1, <2>2, <1>0 DEF ArenaType
  <2> HIDE DEF p
  <2>7. /\ a.next \in 0..a.capacity /\ a.capacity \in Nat /\ a.len \in Nat
        /\ a.map \in [Protected(a) -> [count : Nat \ {0}, index : 0..a.next - 1]]
        /\ Protected(a) \subseteq Xs
    BY <1>0 DEF ArenaType
  <2>8. /\ Protected(p) = Protected(a) \cup {x}
        /\ p.map[x] = e
        /\ \A y \in Protected(a) : p.map[y] = a.map[y]
    BY <2>6, <1>2 DEF Protected, Entered
  <2>9. e \in [count : Nat \ {0}, index : 0..b.next - 1] /\ e.index = k
    BY <2>2
  <2>10. \A y \in Protected(a) : /\ a.map[y] \in [count : Nat \ {0}, index : 0..b.next - 1]
                                  /\ a.map[y].index \in 0..a.next - 1
    BY <2>2, <2>7
  <2> HIDE DEF e
  <2>11. p.map \in [Protected(p) -> [count : Nat \ {0}, index : 0..p.next - 1]]
    <3>1. p.map = [y \in Protected(p) |-> IF y = x THEN e ELSE a.map[y]]
      BY <2>6, <2>8 DEF Entered, Protected
    <3> QED
      BY <3>1, <2>6, <2>8, <2>9, <2>10
  <2>12. p.backing \in [0..p.capacity - 1 -> Xs \cup {Nil}]
    BY <2>2, <2>6
  <2>13. ArenaType(p, Xs)
    <3>1. DOMAIN p = {"map", "backing", "capacity", "free", "next", "len"}
      BY <2>6, <1>0 DEF ArenaType
    <3>2. /\ p.capacity \in Nat \ {0} /\ p.next \in 0..p.capacity /\ p.len \in Nat
          /\ p.free \in Seq(0..p.next - 1)
      BY <2>2, <2>6, <2>7
    <3>3. Protected(p) \subseteq Xs
      BY <2>7, <2>8
    <3> HIDE <1>0
    <3> QED
      BY <3>1, <3>2, <3>3, <2>11, <2>12 DEF ArenaType
  <2>14. ArenaSlots(p)
    <3>1. \A i, j \in 1..Len(p.free) : i # j => p.free[i] # p.free[j]
      BY <2>4, <2>6, <1>0 DEF ArenaSlots
    <3>2. \A y \in Protected(p), i \in 1..Len(p.free) : p.free[i] # p.map[y].index
      BY <2>4, <2>6, <2>8, <2>9, <1>0 DEF ArenaSlots
    <3>3. \A y, z \in Protected(p) : y # z => p.map[y].index # p.map[z].index
      BY <2>5, <2>8, <2>9, <1>0 DEF ArenaSlots
    <3> QED
      BY <3>1, <3>2, <3>3 DEF ArenaSlots
  <2>15. ArenaHolds(p)
    <3> SUFFICES ASSUME NEW i \in 0..p.capacity - 1,
                        NEW y \in Protected(p) \cup {p.backing[i]}
                 PROVE  p.backing[i] = y /\ y # Nil
                          <=> y \in Protected(p) /\ p.map[y].index = i
      BY DEF ArenaHolds
    <3>1. i \in Nat /\ i \in 0..b.capacity - 1 /\ x # Nil
      BY <2>2, <2>6
    <3>2. CASE i = k
      <4>1. p.backing[i] = x
        BY <3>2, <3>1, <2>2, <2>6
      <4> QED
        BY <4>1, <3>1, <3>2, <2>5, <2>8, <2>9
    <3>3. CASE i # k /\ i < a.capacity
      <4>1. p.backing[i] = a.backing[i] /\ i \in 0..a.capacity - 1
        BY <3>1, <3>3, <2>2, <2>3, <2>6, <2>7
      <4>2. \A z \in Protected(a) \cup {a.backing[i]} :
               a.backing[i] = z /\ z # Nil <=> z \in Protected(a) /\ a.map[z].index = i
        BY <4>1, <1>0 DEF ArenaHolds
      <4>3. CASE y = x
        <5>1. a.backing[i] # x
          BY <4>2, <1>2, <3>1
        <5> QED
          BY <5>1, <4>1, <4>3, <3>3, <2>8, <2>9
      <4>4. CASE y # x
        <5>1. y \in Protected(a) \cup {a.backing[i]}
          BY <4>1, <4>4, <2>8
        <5> QED
          BY <5>1, <4>1, <4>2, <4>4, <2>8
      <4> QED
        BY <4>3, <4>4
    <3>4. CASE i # k /\ ~(i < a.capacity)
      <4>1. p.backing[i] = Nil
        BY <3>1, <3>4, <2>2, <2>3, <2>6, <2>7
      <4>2. \A z \in Protected(a) : a.map[z].index < a.capacity
        BY <2>7, <2>10
      <4>3. \A z \in Protected(p) : p.map[z].index # i
        BY <4>2, <3>1, <3>4, <2>7, <2>8, <2>9, <2>10
      <4>4. Nil \notin Protected(p)
        BY <2>7, <2>8
      <4> QED
        BY <4>1, <4>3, <4>4
    <3> QED
      BY <3>2, <3>3, <3>4
  <2>16. ArenaCounts(p)
    <3>1. IsFiniteSet(Protected(a)) /\ a.len = Cardinality(Protected(a))
      BY <1>0 DEF ArenaCounts
    <3>2. /\ IsFiniteSet(Protected(a) \cup {x})
          /\ Cardinality(Protected(a) \cup {x}) = Cardinality(Protected(a)) + 1
      BY <3>1, <1>2, FS_AddElement
    <3> QED
      BY <3>1, <3>2, <2>2, <2>6, <2>8 DEF ArenaCounts
  <2> QED
    BY <2>13, <2>14, <2>15, <2>16 DEF ArenaOK, p
<1> QED
  BY <1>1, <1>2

\* The last holder's unprotect frees the slot; the others only leave the count.
LEMMA UnprotectOK ==
  ASSUME NEW Xs, NEW a, ArenaOK(a, Xs), NEW x, Nil \notin Xs
  PROVE  ArenaOK(Unprotect(a, x), Xs)
<1>0. ArenaType(a, Xs) /\ ArenaSlots(a) /\ ArenaHolds(a) /\ ArenaCounts(a)
  BY DEF ArenaOK
<1> DEFINE u == Unprotect(a, x)
<1>1. CASE x \notin Protected(a)
  BY <1>1 DEF Unprotect
<1>2. CASE x \in Protected(a) /\ a.map[x].count > 1
  <2>1. u = [a EXCEPT !.map[x].count = a.map[x].count - 1]
    BY <1>2 DEF Unprotect
  <2>2. /\ DOMAIN u = DOMAIN a /\ u.backing = a.backing /\ u.capacity = a.capacity
        /\ u.free = a.free /\ u.next = a.next /\ u.len = a.len
        /\ u.map = [a.map EXCEPT ![x].count = a.map[x].count - 1]
    BY <2>1, <1>0 DEF ArenaType
  <2>3. a.map \in [Protected(a) -> [count : Nat \ {0}, index : 0..a.next - 1]]
    BY <1>0 DEF ArenaType
  <2>4. /\ u.map \in [Protected(a) -> [count : Nat \ {0}, index : 0..a.next - 1]]
        /\ \A y \in Protected(a) : u.map[y].index = a.map[y].index
    BY <2>2, <2>3, <1>2
  <2> HIDE DEF u
  <2>5. Protected(u) = Protected(a)
    BY <2>4 DEF Protected
  <2>6. ArenaType(u, Xs)
    BY <2>2, <2>4, <2>5, <1>0 DEF ArenaType
  <2>7. ArenaSlots(u)
    BY <2>2, <2>4, <2>5, <1>0 DEF ArenaSlots
  <2>8. ArenaHolds(u)
    BY <2>2, <2>4, <2>5, <1>0 DEF ArenaHolds
  <2>9. ArenaCounts(u)
    BY <2>2, <2>5, <1>0 DEF ArenaCounts
  <2> QED
    BY <2>6, <2>7, <2>8, <2>9 DEF ArenaOK, u
<1>3. CASE x \in Protected(a) /\ ~(a.map[x].count > 1)
  <2> DEFINE k == a.map[x].index
  <2>1. u = [a EXCEPT !.map = Without(a.map, x), !.backing[k] = Nil,
                      !.free = Append(a.free, k), !.len = a.len - 1]
    BY <1>3 DEF Unprotect
  <2>2. /\ DOMAIN u = DOMAIN a /\ u.map = Without(a.map, x)
        /\ u.backing = [a.backing EXCEPT ![k] = Nil]
        /\ u.free = Append(a.free, k) /\ u.len = a.len - 1
        /\ u.capacity = a.capacity /\ u.next = a.next
    BY <2>1, <1>0 DEF ArenaType
  <2> HIDE DEF u
  <2>3. /\ a.capacity \in Nat \ {0} /\ a.next \in 0..a.capacity /\ a.len \in Nat
        /\ a.backing \in [0..a.capacity - 1 -> Xs \cup {Nil}]
        /\ a.free \in Seq(0..a.next - 1)
        /\ a.map \in [Protected(a) -> [count : Nat \ {0}, index : 0..a.next - 1]]
        /\ Protected(a) \subseteq Xs
    BY <1>0 DEF ArenaType
  <2>4. k \in 0..a.next - 1
    BY <2>3, <1>3
  <2> HIDE DEF k
  <2>5. /\ Protected(u) = Protected(a) \ {x}
        /\ \A y \in Protected(a) \ {x} : u.map[y] = a.map[y]
    BY <2>2 DEF Protected, Without
  <2>6. /\ u.free \in Seq(0..a.next - 1) /\ Len(u.free) = Len(a.free) + 1
        /\ Len(a.free) \in Nat
        /\ \A i \in 1..Len(a.free) : u.free[i] = a.free[i]
        /\ u.free[Len(a.free) + 1] = k
    BY <2>2, <2>3, <2>4, AppendProperties, LenProperties
  <2>7. \A y \in Protected(a) \ {x} : a.map[y].index # k
    BY <1>0, <1>3 DEF ArenaSlots, k
  <2>8. \A i \in 1..Len(a.free) : a.free[i] # k
    BY <1>0, <1>3 DEF ArenaSlots, k
  <2>9. u.len \in Nat /\ ArenaCounts(u)
    <3>1. IsFiniteSet(Protected(a)) /\ a.len = Cardinality(Protected(a))
      BY <1>0 DEF ArenaCounts
    <3>2. /\ IsFiniteSet(Protected(a) \ {x})
          /\ Cardinality(Protected(a) \ {x}) = Cardinality(Protected(a)) - 1
      BY <3>1, <1>3, FS_RemoveElement
    <3>3. a.len + Len(a.free) = a.next
      BY <1>0 DEF ArenaCounts
    <3>4. u.len = Cardinality(Protected(u)) /\ u.len \in Nat
      BY <3>1, <3>2, <2>2, <2>5, FS_CardinalityType
    <3>5. u.len + Len(u.free) = u.next
      BY <3>3, <2>2, <2>3, <2>6
    <3> QED
      BY <3>2, <3>4, <3>5, <2>5 DEF ArenaCounts
  <2>10. ArenaType(u, Xs)
    <3>1. DOMAIN u = {"map", "backing", "capacity", "free", "next", "len"}
      BY <2>2, <1>0 DEF ArenaType
    <3>2. u.backing \in [0..u.capacity - 1 -> Xs \cup {Nil}]
      BY <2>2, <2>3
    <3>3. u.map \in [Protected(u) -> [count : Nat \ {0}, index : 0..u.next - 1]]
      <4>1. u.map = [y \in Protected(u) |-> a.map[y]]
        BY <2>2 DEF Without, Protected
      <4> QED
        BY <4>1, <2>2, <2>3, <2>5
    <3>4. /\ u.capacity \in Nat \ {0} /\ u.next \in 0..u.capacity
          /\ u.free \in Seq(0..u.next - 1) /\ Protected(u) \subseteq Xs
      BY <2>2, <2>3, <2>5, <2>6
    <3> QED
      BY <3>1, <3>2, <3>3, <3>4, <2>9 DEF ArenaType
  <2>11. ArenaSlots(u)
    <3>1. \A i \in 1..Len(u.free) : i \in 1..Len(a.free) \/ i = Len(a.free) + 1
      BY <2>6
    <3>2. \A i, j \in 1..Len(u.free) : i # j => u.free[i] # u.free[j]
      BY <3>1, <2>6, <2>8, <1>0 DEF ArenaSlots
    <3>3. \A y \in Protected(u), i \in 1..Len(u.free) : u.free[i] # u.map[y].index
      BY <3>1, <2>5, <2>6, <2>7, <1>0 DEF ArenaSlots
    <3>4. \A y, z \in Protected(u) : y # z => u.map[y].index # u.map[z].index
      BY <2>5, <1>0 DEF ArenaSlots
    <3> QED
      BY <3>2, <3>3, <3>4 DEF ArenaSlots
  <2>12. ArenaHolds(u)
    <3> SUFFICES ASSUME NEW i \in 0..u.capacity - 1,
                        NEW y \in Protected(u) \cup {u.backing[i]}
                 PROVE  u.backing[i] = y /\ y # Nil
                          <=> y \in Protected(u) /\ u.map[y].index = i
      BY DEF ArenaHolds
    <3>1. i \in 0..a.capacity - 1
      BY <2>2
    <3>2. \A z \in Protected(a) \cup {a.backing[i]} :
             a.backing[i] = z /\ z # Nil <=> z \in Protected(a) /\ a.map[z].index = i
      BY <3>1, <1>0 DEF ArenaHolds
    <3>3. CASE i = k
      <4>1. u.backing[i] = Nil
        BY <3>1, <3>3, <2>2, <2>3
      <4> QED
        BY <4>1, <3>3, <2>3, <2>5, <2>7
    <3>4. CASE i # k
      <4>1. u.backing[i] = a.backing[i]
        BY <3>1, <3>4, <2>2, <2>3
      <4>2. a.backing[i] # x
        BY <3>2, <3>4, <1>3, <2>3 DEF k
      <4> QED
        BY <4>1, <4>2, <3>2, <2>5
    <3> QED
      BY <3>3, <3>4
  <2> QED
    BY <2>9, <2>10, <2>11, <2>12 DEF ArenaOK, u
<1> QED
  BY <1>1, <1>2, <1>3

\* clear: an arena as new, but for its capacity.
LEMMA ClearOK ==
  ASSUME NEW Xs, NEW a, ArenaOK(a, Xs), Nil \notin Xs
  PROVE  ArenaOK(Clear(a), Xs) /\ Protected(Clear(a)) = {}
<1>0. ArenaType(a, Xs) /\ ArenaHolds(a)
  BY DEF ArenaOK
<1> DEFINE c == Clear(a)
<1>1. /\ DOMAIN c = DOMAIN a /\ c.map = [x \in {} |-> [count |-> 0, index |-> 0]]
      /\ c.capacity = a.capacity /\ c.free = <<>> /\ c.len = 0 /\ c.next = 0
      /\ c.backing = [i \in 0..a.capacity - 1 |->
                         IF \E x \in Protected(a) : a.map[x].index = i
                           THEN Nil ELSE a.backing[i]]
  BY <1>0 DEF Clear, ArenaType
<1> HIDE DEF c
<1>2. Protected(c) = {}
  BY <1>1 DEF Protected
<1>3. \A i \in 0..a.capacity - 1 :
        a.backing[i] = Nil \/ \E x \in Protected(a) : a.map[x].index = i
  BY <1>0 DEF ArenaHolds
<1>4. c.backing = [i \in 0..a.capacity - 1 |-> Nil]
  BY <1>1, <1>3
<1>5. ArenaType(c, Xs)
  <2>1. c.map \in [Protected(c) -> [count : Nat \ {0}, index : 0..c.next - 1]]
    BY <1>1, <1>2
  <2>2. c.free \in Seq(0..c.next - 1)
    BY <1>1
  <2>3. c.capacity \in Nat \ {0} /\ c.next \in 0..c.capacity /\ c.len \in Nat
    BY <1>0, <1>1 DEF ArenaType
  <2> QED
    BY <2>1, <2>2, <2>3, <1>0, <1>1, <1>2, <1>4 DEF ArenaType
<1>6. ArenaSlots(c)
  BY <1>1, <1>2 DEF ArenaSlots
<1>7. ArenaHolds(c)
  BY <1>1, <1>2, <1>4 DEF ArenaHolds
<1>8. ArenaCounts(c)
  BY <1>1, <1>2, FS_EmptySet DEF ArenaCounts
<1> QED
  BY <1>2, <1>5, <1>6, <1>7, <1>8 DEF ArenaOK, c

-----------------------------------------------------------------------------
(* The guards.                                                              *)

\* Guards are records; an arena guard has one object.
GuardShape ==
  /\ DOMAIN guard = Guards
  /\ \A g \in Guards : DOMAIN guard[g] = {"kind", "n", "roots", "slot"}
  /\ \A g \in ArenaGuards : \E x \in Objs : guard[g].roots = {x}

GInv ==
  /\ GuardShape
  /\ heap \subseteq Objs /\ orphans \in [Objs -> Nat]
  /\ ArenaConsistent
  /\ CountsMatch
  /\ ArenaGuardsProtect

\* A step that makes, ends and changes guards of the protect stack only.
SameArena ==
  /\ DOMAIN guard' = Guards
  /\ \A g \in Guards :
       /\ DOMAIN guard'[g] = {"kind", "n", "roots", "slot"}
       /\ guard'[g].kind = "arena" <=> guard[g].kind = "arena"
       /\ guard[g].kind = "arena" => guard'[g].roots = guard[g].roots

LEMMA ArenaGuardsDef == ArenaGuards = {g \in Guards : guard[g].kind = "arena"}
  BY DEF ArenaGuards, Live

LEMMA ArenaGuardsNext == ArenaGuards' = {g \in Guards : guard'[g].kind = "arena"}
  BY DEF ArenaGuards, Live

\* Finitely many guards hold an object.
LEMMA HoldersFinite ==
  ASSUME NEW x
  PROVE  /\ IsFiniteSet(Holders(x)) /\ Cardinality(Holders(x)) \in Nat
         /\ IsFiniteSet(Holders(x)') /\ Cardinality(Holders(x)') \in Nat
<1>1. Holders(x) \subseteq Guards /\ Holders(x)' \subseteq Guards
  BY ArenaGuardsDef, ArenaGuardsNext DEF Holders
<1> QED
  BY <1>1, GcAssumption, FS_Subset, FS_CardinalityType

\* While no guard was cut off by clear, the object of a guard is in the list.
LEMMA HeldIsRooted ==
  ASSUME GInv, ~clearedUnder, NEW g \in ArenaGuards, NEW x \in Objs, x \in guard[g].roots
  PROVE  x \in Rooted /\ RefCount(arena, x) >= 1
<1>1. g \in Holders(x)
  BY DEF Holders
<1>2. Cardinality(Holders(x)) # 0
  BY <1>1, HoldersFinite, FS_EmptySet
<1>3. RefCount(arena, x) = orphans[x] + Cardinality(Holders(x)) /\ orphans[x] \in Nat
  BY DEF GInv, CountsMatch
<1>4. RefCount(arena, x) >= 1
  BY <1>2, <1>3, HoldersFinite
<1>5. x \in Protected(arena)
  BY <1>4 DEF RefCount
<1>6. ArenaType(arena, Objs) /\ ArenaHolds(arena)
  BY DEF GInv, ArenaConsistent, ArenaOK
<1> DEFINE i == arena.map[x].index
<1>7. i \in 0..arena.capacity - 1
  BY <1>5, <1>6 DEF ArenaType
<1>8. arena.backing[i] = x
  BY <1>5, <1>6, <1>7 DEF ArenaHolds
<1>9. DOMAIN arena.backing = 0..arena.capacity - 1
  BY <1>6 DEF ArenaType
<1> QED
  BY <1>4, <1>7, <1>8, <1>9 DEF Rooted

LEMMA SplitCount ==
  ASSUME NEW S, NEW T, IsFiniteSet(T)
  PROVE  /\ Cardinality(S \cap T) \in Nat /\ Cardinality(T \ S) \in Nat
         /\ Cardinality(T) = Cardinality(S \cap T) + Cardinality(T \ S)
<1> DEFINE A == S \cap T
           B == T \ S
<1>1. A \in SUBSET T /\ B \in SUBSET T /\ A \cup B = T /\ A \cap B = {}
  OBVIOUS
<1> HIDE DEF A, B
<1>2. /\ IsFiniteSet(A) /\ IsFiniteSet(B)
      /\ Cardinality(A) \in Nat /\ Cardinality(B) \in Nat
  BY <1>1, FS_Subset, FS_CardinalityType
<1>3. Cardinality(A \cup B) = Cardinality(A) + Cardinality(B) - Cardinality(A \cap B)
  BY <1>2, FS_Union
<1>4. Cardinality(T) = Cardinality(A) + Cardinality(B)
  BY <1>1, <1>2, <1>3, FS_EmptySet
<1> QED
  BY <1>2, <1>4 DEF A, B

\* An R error adds the holders it destroys to the orphans.
LEMMA JumpCounts ==
  ASSUME GInv, Jump, UNCHANGED <<arena, clearedUnder, lostInGrow>>,
         heap' = heap
  PROVE  GInv'
<1>1. /\ guard' = [g \in Guards |-> IF g \in Mine THEN NoGuard ELSE guard[g]]
      /\ orphans' = [x \in Objs |-> orphans[x] + Cardinality(Mine \cap Holders(x))]
  BY DEF Jump
<1>2. ArenaGuards' = ArenaGuards \ Mine
  BY <1>1, ArenaGuardsDef, ArenaGuardsNext DEF NoGuard
<1>3. \A g \in ArenaGuards' : g \in ArenaGuards /\ g \notin Mine /\ guard'[g] = guard[g]
  BY <1>1, <1>2, ArenaGuardsDef
<1>4. \A x : Holders(x)' = Holders(x) \ Mine
  BY <1>2, <1>3 DEF Holders
<1>5. ASSUME NEW x \in Objs
      PROVE  /\ Cardinality(Mine \cap Holders(x)) \in Nat
             /\ Cardinality(Holders(x)) =
                  Cardinality(Mine \cap Holders(x)) + Cardinality(Holders(x)')
  BY <1>4, HoldersFinite, SplitCount
<1>6. GuardShape'
  <2>1. DOMAIN guard' = Guards
        /\ \A g \in Guards : DOMAIN guard'[g] = {"kind", "n", "roots", "slot"}
    BY <1>1 DEF GInv, GuardShape, NoGuard
  <2>2. \A g \in ArenaGuards' : \E x \in Objs : guard'[g].roots = {x}
    BY <1>3 DEF GInv, GuardShape
  <2> QED
    BY <2>1, <2>2 DEF GuardShape
<1>7. orphans' \in [Objs -> Nat]
  BY <1>1, <1>5 DEF GInv
<1>8. CountsMatch'
  BY <1>1, <1>5, HoldersFinite DEF GInv, CountsMatch
<1>9. ArenaGuardsProtect'
  BY <1>3 DEF GInv, ArenaGuardsProtect
<1> QED
  BY <1>6, <1>7, <1>8, <1>9 DEF GInv, ArenaConsistent

\* The protect stack's guards do not touch the arena's.
LEMMA SameArenaStep ==
  ASSUME GInv, SameArena, UNCHANGED <<arenaVars, arenaMarks>>,
         heap' \subseteq Objs, heap \cap Rooted \subseteq heap'
  PROVE  GInv'
<1>1. ArenaGuards' = ArenaGuards
  BY ArenaGuardsDef, ArenaGuardsNext DEF SameArena
<1>2. \A g \in ArenaGuards : guard'[g].roots = guard[g].roots
  BY ArenaGuardsDef DEF SameArena
<1>3. \A x : Holders(x)' = Holders(x)
  BY <1>1, <1>2 DEF Holders
<1>4. UNCHANGED <<arena, orphans, clearedUnder, lostInGrow>>
  BY DEF arenaVars, arenaMarks
<1>5. GuardShape'
  BY <1>1, <1>2 DEF GInv, GuardShape, SameArena
<1>6. CountsMatch'
  BY <1>3, <1>4 DEF GInv, CountsMatch
<1>7. ArenaGuardsProtect'
  <2> SUFFICES ASSUME ~clearedUnder, ~lostInGrow, NEW g \in ArenaGuards,
                      NEW x \in guard[g].roots
               PROVE  x \in heap'
    BY <1>1, <1>2, <1>4 DEF ArenaGuardsProtect
  <2>1. x \in heap /\ x \in Objs
    BY DEF GInv, ArenaGuardsProtect
  <2> QED
    BY <2>1, HeldIsRooted
<1> QED
  BY <1>4, <1>5, <1>6, <1>7 DEF GInv, ArenaConsistent

\* Changing one place that holds no arena guard, before or after.
LEMMA OnePlace ==
  ASSUME GuardShape, NEW g \in Guards, NEW r,
         guard' = [guard EXCEPT ![g] = r],
         DOMAIN r = {"kind", "n", "roots", "slot"},
         guard[g].kind # "arena", r.kind # "arena"
  PROVE  SameArena
  BY DEF GuardShape, SameArena

LEMMA UnchangedGuards ==
  ASSUME GuardShape, guard' = guard
  PROVE  SameArena
  BY DEF GuardShape, SameArena

-----------------------------------------------------------------------------

LEMMA InitGInv == Init => GInv
<1> SUFFICES ASSUME Init PROVE GInv
  OBVIOUS
<1>1. ArenaGuards = {}
  BY ArenaGuardsDef DEF Init, NoGuard
<1>2. GuardShape
  BY <1>1 DEF Init, GuardShape, NoGuard
<1>3. ArenaConsistent
  BY GcAssumption, NewArenaOK DEF Init, ArenaConsistent
<1>4. CountsMatch
  <2>1. \A x : Holders(x) = {}
    BY <1>1 DEF Holders
  <2>2. \A x \in Objs : RefCount(arena, x) = 0 /\ orphans[x] = 0
    BY DEF Init, RefCount, NewArena, Protected
  <2> QED
    BY <2>1, <2>2, FS_EmptySet DEF CountsMatch
<1> QED
  BY <1>1, <1>2, <1>3, <1>4 DEF GInv, ArenaGuardsProtect, Init

-----------------------------------------------------------------------------
(* The actions on the protect stack.                                        *)

LEMMA PlaceSame ==
  ASSUME GuardShape, NEW g \in Guards, NEW r, Place(g, r),
         DOMAIN r = {"kind", "n", "roots", "slot"}, r.kind # "arena"
  PROVE  SameArena
  BY OnePlace DEF Place

LEMMA ScopeProtectSame ==
  ASSUME GuardShape, NEW g \in Scopes, NEW m, NEW rs,
         guard' = [guard EXCEPT ![g].n = m, ![g].roots = rs]
  PROVE  SameArena
  BY DEF GuardShape, SameArena, Scopes, Live

LEMMA SlotSame ==
  ASSUME GuardShape, NEW g \in Scopes, NEW x, NEW i, Reprotect(g, x)
  PROVE  SameArena
  BY DEF GuardShape, SameArena, Scopes, Live, Reprotect

LEMMA PopSame ==
  ASSUME GuardShape, NEW g \in Guards, PopEntries(g), guard[g].kind # "arena"
  PROVE  SameArena
<1>1. guard' = [guard EXCEPT ![g] = NoGuard]
  BY DEF PopEntries
<1>2. DOMAIN NoGuard = {"kind", "n", "roots", "slot"} /\ NoGuard.kind # "arena"
  BY DEF NoGuard
<1> QED
  BY <1>1, <1>2 DEF GuardShape, SameArena

\* Every action of a scope, a slot or an owned guard keeps the invariant.
LEMMA ScopeNextGInv ==
  ASSUME GInv, NEW g \in Guards, ScopeNext(g)
  PROVE  GInv'
<1>0. GuardShape /\ heap \subseteq Objs
  BY DEF GInv
<1>1. CASE OpenScope(g) \/ WithProtectScope(g)
  <2>1. SameArena
    BY <1>0, <1>1, PlaceSame DEF OpenScope, WithProtectScope, NoGuard
  <2> QED
    BY <2>1, <1>0, <1>1, SameArenaStep DEF OpenScope, WithProtectScope
<1>2. ASSUME NEW x \in Objs, ScopeProtect(g, x)
      PROVE  GInv'
  <2>1. SameArena
    BY <1>0, <1>2, ScopeProtectSame DEF ScopeProtect
  <2> QED
    BY <2>1, <1>0, <1>2, SameArenaStep DEF ScopeProtect, arenaVars
<1>3. ASSUME NEW x \in Objs, OwnedProtect(g, x)
      PROVE  GInv'
  <2>1. SameArena
    BY <1>0, <1>3, PlaceSame DEF OwnedProtect, NoGuard
  <2> QED
    BY <2>1, <1>0, <1>3, SameArenaStep DEF OwnedProtect
<1>4. ASSUME NEW x \in Objs, SlotSetWith(g, x)
      PROVE  GInv'
  <2>1. SameArena
    BY <1>0, <1>4, SlotSame DEF SlotSetWith, Reprotect
  <2>2. heap' \subseteq Objs /\ heap \cap Rooted \subseteq heap'
    BY <1>0, <1>4 DEF SlotSetWith
  <2> QED
    BY <2>1, <2>2, <1>4, SameArenaStep DEF SlotSetWith
<1>5. ASSUME NEW x \in Objs \cup {Nil}, ProtectWithIndex(g, x)
      PROVE  GInv'
  <2>1. SameArena
    BY <1>0, <1>5 DEF ProtectWithIndex, GuardShape, SameArena, Scopes, Live
  <2> QED
    BY <2>1, <1>0, <1>5, SameArenaStep DEF ProtectWithIndex
<1>6. ASSUME NEW x \in Objs \cup {Nil}, SlotSet(g, x)
      PROVE  GInv'
  <2>1. SameArena
    BY <1>0, <1>6, SlotSame DEF SlotSet, Reprotect
  <2> QED
    BY <2>1, <1>0, <1>6, SameArenaStep DEF SlotSet
<1>7. CASE DropStackGuard(g) \/ ScopeReturns(g)
  <2>1. PopEntries(g) /\ guard[g].kind # "arena"
    BY <1>7 DEF DropStackGuard, ScopeReturns
  <2>2. SameArena
    BY <2>1, <1>0, PopSame
  <2>3. UNCHANGED <<heap, arenaVars, arenaMarks>>
    BY <2>1 DEF PopEntries
  <2> QED
    BY <2>2, <2>3, <1>0, SameArenaStep
<1>8. CASE LeaveEntries(g)
  <2> DEFINE r == [NoGuard EXCEPT !.kind = "forgotten", !.n = guard[g].n]
  <2>0. /\ guard[g].kind # "arena" /\ guard' = [guard EXCEPT ![g] = r]
        /\ DOMAIN r = {"kind", "n", "roots", "slot"} /\ r.kind # "arena"
    BY <1>8 DEF LeaveEntries, NoGuard
  <2> HIDE DEF r
  <2>1. SameArena
    BY <2>0, <1>0 DEF GuardShape, SameArena
  <2> QED
    BY <2>1, <1>0, <1>8, SameArenaStep DEF LeaveEntries
<1> QED
  BY <1>1, <1>2, <1>3, <1>4, <1>5, <1>6, <1>7, <1>8 DEF ScopeNext

LEMMA TlsProtectGInv ==
  ASSUME GInv, NEW x \in Objs, TlsProtect(x)
  PROVE  GInv'
<1>0. GuardShape /\ heap \subseteq Objs
  BY DEF GInv
<1> DEFINE g == tls[Len(tls)]
<1>1. SameArena
  <2>1. CASE g \in Scopes
    <3>1. guard' = [guard EXCEPT ![g].n = @ + 1, ![g].roots = @ \cup {x}]
      BY <2>1 DEF TlsProtect
    <3> HIDE DEF g
    <3> QED
      BY <3>1, <2>1, <1>0, ScopeProtectSame
  <2>2. CASE g \notin Scopes
    <3>1. guard' = guard
      BY <2>2 DEF TlsProtect
    <3> QED
      BY <3>1, <1>0, UnchangedGuards
  <2> QED
    BY <2>1, <2>2
<1> QED
  BY <1>0, <1>1, SameArenaStep DEF TlsProtect

\* R allocates, collects, and calls and leaves Rust; its errors and a failed
\* growth of the list end in a jump.
LEMMA RNextGInv ==
  ASSUME GInv, RNext
  PROVE  GInv'
<1>0. GuardShape /\ heap \subseteq Objs
  BY DEF GInv
<1>1. CASE NewObject \/ Collect \/ Enter \/ Leave
  <2>1. SameArena
    BY <1>0, <1>1, UnchangedGuards DEF NewObject, Collect, Enter, Leave, rust
  <2>2. heap' \subseteq Objs /\ heap \cap Rooted \subseteq heap'
    BY <1>0, <1>1 DEF NewObject, Collect, Enter, Leave
  <2>3. UNCHANGED <<arenaVars, arenaMarks>>
    BY <1>1 DEF NewObject, Collect, Enter, Leave
  <2> QED
    BY <2>1, <2>2, <2>3, SameArenaStep
<1>2. CASE RError \/ GrowFails
  BY <1>2, JumpCounts DEF RError, GrowFails, arenaMarks
<1> QED
  BY <1>1, <1>2 DEF RNext

-----------------------------------------------------------------------------
(* The actions on the arena.                                                *)

LEMMA ProtectCounts ==
  ASSUME NEW a, NEW x, ArenaOK(a, Objs)
  PROVE  /\ RefCount(Protect(a, x), x) = RefCount(a, x) + 1
         /\ \A y : y # x => RefCount(Protect(a, x), y) = RefCount(a, y)
<1>1. CASE x \in Protected(a)
  <2>1. /\ DOMAIN a = {"map", "backing", "capacity", "free", "next", "len"}
        /\ a.map \in [Protected(a) -> [count : Nat \ {0}, index : 0..a.next - 1]]
    BY DEF ArenaOK, ArenaType
  <2>2. Protect(a, x).map = [a.map EXCEPT ![x].count = a.map[x].count + 1]
    BY <1>1, <2>1 DEF Protect
  <2>3. Protected(Protect(a, x)) = Protected(a)
    BY <2>2 DEF Protected
  <2> QED
    BY <1>1, <2>1, <2>2, <2>3 DEF RefCount
<1>2. CASE x \notin Protected(a)
  <2> DEFINE e == [count |-> 1, index |-> Slot(a)]
  <2>1. DOMAIN WithSlot(a) = {"map", "backing", "capacity", "free", "next", "len"}
    BY SlotIsFree DEF ArenaOK, ArenaType
  <2>2. Protect(a, x).map = Entered(a.map, x, e)
    BY <1>2, <2>1 DEF Protect
  <2>3. e.count = 1
    OBVIOUS
  <2> HIDE DEF e
  <2> QED
    BY <1>2, <2>2, <2>3 DEF RefCount, Protected, Entered
<1> QED
  BY <1>1, <1>2

LEMMA UnprotectCounts ==
  ASSUME NEW a, NEW x, ArenaOK(a, Objs)
  PROVE  /\ RefCount(Unprotect(a, x), x) = IF x \in Protected(a) THEN RefCount(a, x) - 1 ELSE 0
         /\ \A y : y # x => RefCount(Unprotect(a, x), y) = RefCount(a, y)
<1>0. /\ DOMAIN a = {"map", "backing", "capacity", "free", "next", "len"}
      /\ a.map \in [Protected(a) -> [count : Nat \ {0}, index : 0..a.next - 1]]
  BY DEF ArenaOK, ArenaType
<1>1. CASE x \notin Protected(a)
  BY <1>1 DEF Unprotect, RefCount
<1>2. CASE x \in Protected(a) /\ a.map[x].count > 1
  <2>1. Unprotect(a, x).map = [a.map EXCEPT ![x].count = a.map[x].count - 1]
    BY <1>0, <1>2 DEF Unprotect
  <2>2. Protected(Unprotect(a, x)) = Protected(a)
    BY <2>1 DEF Protected
  <2> QED
    BY <1>0, <1>2, <2>1, <2>2 DEF RefCount
<1>3. CASE x \in Protected(a) /\ ~(a.map[x].count > 1)
  <2>1. Unprotect(a, x).map = Without(a.map, x)
    BY <1>0, <1>3 DEF Unprotect
  <2>2. a.map[x].count = 1
    BY <1>0, <1>3
  <2> QED
    BY <1>3, <2>1, <2>2 DEF RefCount, Protected, Without
<1> QED
  BY <1>1, <1>2, <1>3

LEMMA ArenaGuardGInv ==
  ASSUME GInv, NEW g \in Guards, NEW x \in Objs, ArenaGuard(g, x)
  PROVE  GInv'
<1> DEFINE r == [NoGuard EXCEPT !.kind = "arena", !.roots = {x}]
<1>1. /\ guard[g].kind = "none" /\ guard' = [guard EXCEPT ![g] = r]
      /\ arena' = Protect(arena, x) /\ UNCHANGED <<orphans, clearedUnder>>
      /\ heap' \subseteq heap /\ heap \cap Rooted \subseteq heap'
      /\ lostInGrow' = (lostInGrow \/ x \notin heap')
  BY DEF ArenaGuard, Place
<1>2. r.kind = "arena" /\ r.roots = {x} /\ DOMAIN r = {"kind", "n", "roots", "slot"}
  BY DEF NoGuard
<1> HIDE DEF r
<1>3. /\ DOMAIN guard = Guards /\ orphans \in [Objs -> Nat] /\ heap \subseteq Objs
      /\ \A h \in Guards : DOMAIN guard[h] = {"kind", "n", "roots", "slot"}
      /\ \A h \in ArenaGuards : \E y \in Objs : guard[h].roots = {y}
      /\ ArenaOK(arena, Objs)
  BY DEF GInv, GuardShape, ArenaConsistent
<1>4. \A h \in Guards : guard'[h] = IF h = g THEN r ELSE guard[h]
  BY <1>1, <1>3
<1>5. ArenaGuards' = ArenaGuards \cup {g} /\ g \notin ArenaGuards
  BY <1>1, <1>2, <1>4, ArenaGuardsDef, ArenaGuardsNext
<1>6. /\ guard'[g].roots = {x}
      /\ \A h \in ArenaGuards : guard'[h].roots = guard[h].roots
  BY <1>2, <1>4, <1>5, ArenaGuardsDef
<1>7. /\ Holders(x)' = Holders(x) \cup {g} /\ g \notin Holders(x)
      /\ \A y : y # x => Holders(y)' = Holders(y)
  BY <1>5, <1>6 DEF Holders
<1>8. GuardShape'
  <2>1. DOMAIN guard' = Guards
        /\ \A h \in Guards : DOMAIN guard'[h] = {"kind", "n", "roots", "slot"}
    BY <1>1, <1>2, <1>3, <1>4
  <2>2. \A h \in ArenaGuards' : \E y \in Objs : guard'[h].roots = {y}
    BY <1>3, <1>5, <1>6
  <2> QED
    BY <2>1, <2>2 DEF GuardShape
<1>9. ArenaConsistent'
  BY <1>1, <1>3, GcAssumption, ProtectOK DEF ArenaConsistent
<1>10. CountsMatch'
  <2> SUFFICES ASSUME ~clearedUnder, NEW y \in Objs
               PROVE  RefCount(arena', y) = orphans[y] + Cardinality(Holders(y)')
    BY <1>1 DEF CountsMatch
  <2>1. RefCount(arena, y) = orphans[y] + Cardinality(Holders(y)) /\ orphans[y] \in Nat
    BY <1>3 DEF GInv, CountsMatch
  <2>2. CASE y = x
    <3>1. Cardinality(Holders(x)') = Cardinality(Holders(x)) + 1
      BY <1>7, HoldersFinite, FS_AddElement
    <3>2. RefCount(arena', x) = RefCount(arena, x) + 1
      BY <1>1, <1>3, ProtectCounts
    <3> QED
      BY <2>1, <2>2, <3>1, <3>2, HoldersFinite
  <2>3. CASE y # x
    BY <1>1, <1>3, <1>7, <2>1, <2>3, ProtectCounts
  <2> QED
    BY <2>2, <2>3
<1>11. ArenaGuardsProtect'
  <2> SUFFICES ASSUME ~clearedUnder, ~lostInGrow', NEW h \in ArenaGuards',
                      NEW y \in guard'[h].roots
               PROVE  y \in heap'
    BY <1>1 DEF ArenaGuardsProtect
  <2>1. CASE h = g
    BY <2>1, <1>1, <1>6
  <2>2. CASE h # g
    <3>1. h \in ArenaGuards /\ y \in guard[h].roots
      BY <2>2, <1>5, <1>6
    <3>2. y \in heap /\ y \in Objs
      BY <3>1, <1>1, <1>3 DEF GInv, ArenaGuardsProtect
    <3> QED
      BY <3>1, <3>2, <1>1, HeldIsRooted
  <2> QED
    BY <2>1, <2>2
<1> QED
  BY <1>1, <1>3, <1>8, <1>9, <1>10, <1>11 DEF GInv

LEMMA DropArenaGuardGInv ==
  ASSUME GInv, NEW g \in Guards, DropArenaGuard(g)
  PROVE  GInv'
<1>1. /\ guard[g].kind = "arena" /\ guard' = [guard EXCEPT ![g] = NoGuard]
      /\ UNCHANGED <<heap, clearedUnder, lostInGrow>>
  BY DEF DropArenaGuard, arenaMarks
<1>2. NoGuard.kind # "arena" /\ DOMAIN NoGuard = {"kind", "n", "roots", "slot"}
  BY DEF NoGuard
<1>3. /\ DOMAIN guard = Guards /\ orphans \in [Objs -> Nat] /\ heap \subseteq Objs
      /\ \A h \in Guards : DOMAIN guard[h] = {"kind", "n", "roots", "slot"}
      /\ \A h \in ArenaGuards : \E y \in Objs : guard[h].roots = {y}
      /\ ArenaOK(arena, Objs)
  BY DEF GInv, GuardShape, ArenaConsistent
<1>4. \A h \in Guards : guard'[h] = IF h = g THEN NoGuard ELSE guard[h]
  BY <1>1, <1>3
<1>5. ArenaGuards' = ArenaGuards \ {g} /\ g \in ArenaGuards
  BY <1>1, <1>2, <1>4, ArenaGuardsDef, ArenaGuardsNext
<1>6. PICK x \in Objs : guard[g].roots = {x}
  BY <1>3, <1>5
<1>7. IF busy THEN orphans' = [orphans EXCEPT ![x] = @ + 1] /\ arena' = arena
      ELSE arena' = Unprotect(arena, x) /\ orphans' = orphans
  BY <1>6 DEF DropArenaGuard
<1>8. \A h \in ArenaGuards' : guard'[h] = guard[h]
  BY <1>4, <1>5, ArenaGuardsDef
<1>9. /\ Holders(x)' = Holders(x) \ {g} /\ g \in Holders(x)
      /\ \A y : y # x => Holders(y)' = Holders(y)
  BY <1>5, <1>6, <1>8 DEF Holders
<1>10. GuardShape'
  <2>1. DOMAIN guard' = Guards
        /\ \A h \in Guards : DOMAIN guard'[h] = {"kind", "n", "roots", "slot"}
    BY <1>1, <1>2, <1>3, <1>4
  <2>2. \A h \in ArenaGuards' : \E y \in Objs : guard'[h].roots = {y}
    BY <1>3, <1>5, <1>8
  <2> QED
    BY <2>1, <2>2 DEF GuardShape
<1>11. ArenaConsistent' /\ orphans' \in [Objs -> Nat]
  BY <1>3, <1>7, GcAssumption, UnprotectOK DEF ArenaConsistent
<1>12. CountsMatch'
  <2> SUFFICES ASSUME ~clearedUnder, NEW y \in Objs
               PROVE  RefCount(arena', y) = orphans'[y] + Cardinality(Holders(y)')
    BY <1>1 DEF CountsMatch
  <2>1. RefCount(arena, y) = orphans[y] + Cardinality(Holders(y)) /\ orphans[y] \in Nat
    BY <1>3 DEF GInv, CountsMatch
  <2>2. CASE y = x
    <3>1. Cardinality(Holders(x)') = Cardinality(Holders(x)) - 1
      BY <1>9, HoldersFinite, FS_RemoveElement
    <3>2. RefCount(arena, x) >= 1
      BY <1>5, <1>6, HeldIsRooted
    <3>3. x \in Protected(arena)
      BY <3>2 DEF RefCount
    <3>4. CASE busy
      BY <3>1, <3>4, <2>1, <2>2, <1>3, <1>7, HoldersFinite
    <3>5. CASE ~busy
      <4>1. RefCount(arena', x) = RefCount(arena, x) - 1
        BY <3>3, <3>5, <1>3, <1>7, UnprotectCounts
      <4> QED
        BY <4>1, <3>1, <3>5, <2>1, <2>2, <1>7, HoldersFinite
    <3> QED
      BY <3>4, <3>5
  <2>3. CASE y # x
    <3>1. RefCount(arena', y) = RefCount(arena, y)
      BY <2>3, <1>3, <1>7, UnprotectCounts
    <3>2. orphans'[y] = orphans[y]
      BY <2>3, <1>3, <1>7
    <3> QED
      BY <3>1, <3>2, <2>1, <2>3, <1>9
  <2> QED
    BY <2>2, <2>3
<1>13. ArenaGuardsProtect'
  BY <1>1, <1>5, <1>8 DEF GInv, ArenaGuardsProtect
<1> QED
  BY <1>1, <1>3, <1>10, <1>11, <1>12, <1>13 DEF GInv

LEMMA ClearArenaGInv ==
  ASSUME GInv, ClearArena
  PROVE  GInv'
<1>1. /\ arena' = Clear(arena) /\ orphans' = [x \in Objs |-> 0]
      /\ clearedUnder' = (ArenaGuards # {}) /\ UNCHANGED <<heap, guard>>
  BY DEF ClearArena, rust
<1>2. ArenaGuards' = ArenaGuards
  BY <1>1, ArenaGuardsDef, ArenaGuardsNext
<1>3. GuardShape'
  BY <1>1, <1>2 DEF GInv, GuardShape
<1>4. ArenaConsistent' /\ Protected(arena') = {}
  BY <1>1, GcAssumption, ClearOK DEF GInv, ArenaConsistent
<1>5. CountsMatch'
  <2> SUFFICES ASSUME ArenaGuards = {}, NEW x \in Objs
               PROVE  RefCount(arena', x) = orphans'[x] + Cardinality(Holders(x)')
    BY <1>1 DEF CountsMatch
  <2>1. Holders(x)' = {}
    BY <1>2 DEF Holders
  <2> QED
    BY <2>1, <1>1, <1>4, FS_EmptySet DEF RefCount
<1>6. ArenaGuardsProtect'
  BY <1>1, <1>2 DEF ArenaGuardsProtect
<1> QED
  BY <1>1, <1>3, <1>4, <1>5, <1>6 DEF GInv

-----------------------------------------------------------------------------

\* The inductive invariant: what the guards hold and what the arena counts
\* agree through every step of R, of the stack guards and of the arena.
THEOREM GcInvariance == Spec => []GInv
<1>1. Init => GInv
  BY InitGInv
<1>2. GInv /\ [Next]_vars => GInv'
  <2> SUFFICES ASSUME GInv, [Next]_vars PROVE GInv'
    OBVIOUS
  <2>1. CASE RNext
    BY <2>1, RNextGInv
  <2>2. ASSUME NEW g \in Guards, ScopeNext(g)
        PROVE  GInv'
    BY <2>2, ScopeNextGInv
  <2>3. ASSUME NEW g \in Guards, DropArenaGuard(g)
        PROVE  GInv'
    BY <2>3, DropArenaGuardGInv
  <2>4. ASSUME NEW g \in Guards, NEW x \in Objs, ArenaGuard(g, x)
        PROVE  GInv'
    BY <2>4, ArenaGuardGInv
  <2>5. ASSUME NEW x \in Objs, TlsProtect(x)
        PROVE  GInv'
    BY <2>5, TlsProtectGInv
  <2>6. CASE ClearArena
    BY <2>6, ClearArenaGInv
  <2>7. CASE UNCHANGED vars
    <3>1. SameArena /\ UNCHANGED <<heap, arenaVars, arenaMarks>>
      BY <2>7, UnchangedGuards DEF GInv, vars, rust
    <3> QED
      BY <3>1, SameArenaStep DEF GInv
  <2> QED
    BY <2>1, <2>2, <2>3, <2>4, <2>5, <2>6, <2>7 DEF Next
<1> QED
  BY <1>1, <1>2, PTL DEF Spec

\* The arena's map, list and free list agree after any calls in any order.
THEOREM ArenaStaysConsistent == Spec => []ArenaConsistent
<1>1. GInv => ArenaConsistent
  BY DEF GInv
<1> QED
  BY <1>1, GcInvariance, PTL

\* Every entry counts the guards of its object and those an R error
\* destroyed, unless the arena was cleared under a live guard.
THEOREM EntriesCountHolders == Spec => []CountsMatch
<1>1. GInv => CountsMatch
  BY DEF GInv
<1> QED
  BY <1>1, GcInvariance, PTL

\* No collection takes the object of a live arena guard, whatever order the
\* guards end in.
THEOREM ArenaGuardsKeepAlive == Spec => []ArenaGuardsProtect
<1>1. GInv => ArenaGuardsProtect
  BY DEF GInv
<1> QED
  BY <1>1, GcInvariance, PTL

=============================================================================
