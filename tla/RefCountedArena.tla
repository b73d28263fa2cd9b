--------------------------- MODULE RefCountedArena ---------------------------
(***************************************************************************)
(* ArenaState (refcount_protect.rs): R objects kept alive by a list, each  *)
(* with the number of its holders, released in any order.  The arena is a  *)
(* value and each method an operator on it.  RefCountedArena keeps one in  *)
(* a RefCell, ThreadLocalArena one per thread.                             *)
(***************************************************************************)
EXTENDS Naturals, Sequences, FiniteSets

CONSTANTS
  Nil,               \* R_NilValue, the content of a free slot
  InitialCapacity    \* the capacity given to new, at least 1

ASSUME ArenaAssumption == InitialCapacity \in Nat \ {0}

NewArena == [map      |-> [x \in {} |-> [count |-> 0, index |-> 0]],
             backing  |-> [i \in 0..InitialCapacity - 1 |-> Nil],
             capacity |-> InitialCapacity,
             free     |-> <<>>,
             next     |-> 0,
             len      |-> 0]

Protected(a) == DOMAIN a.map
RefCount(a, x) == IF x \in Protected(a) THEN a.map[x].count ELSE 0

\* grow: twice the slots, the old ones copied to the new list.
Grow(a) ==
  LET n == 2 * a.capacity
  IN  [a EXCEPT !.capacity = n,
                !.backing = [i \in 0..n - 1 |-> IF i < a.capacity THEN a.backing[i] ELSE Nil]]

\* protect(x) has to grow the list, and growing allocates: R's collector may run.
Full(a) == a.free = <<>> /\ a.next >= a.capacity
Grows(a, x) == x \notin Protected(a) /\ Full(a)

\* allocate_slot: the slot freed last, or the next fresh one.
Slot(a) == IF a.free # <<>> THEN a.free[Len(a.free)] ELSE a.next

WithSlot(a) ==
  IF a.free # <<>> THEN [a EXCEPT !.free = SubSeq(a.free, 1, Len(a.free) - 1)]
  ELSE [IF Full(a) THEN Grow(a) ELSE a EXCEPT !.next = a.next + 1]

Entered(m, x, e) == [y \in DOMAIN m \cup {x} |-> IF y = x THEN e ELSE m[y]]
Without(m, x)    == [y \in DOMAIN m \ {x} |-> m[y]]

Protect(a, x) ==
  IF x \in Protected(a) THEN [a EXCEPT !.map[x].count = a.map[x].count + 1]
  ELSE [WithSlot(a) EXCEPT !.map = Entered(a.map, x, [count |-> 1, index |-> Slot(a)]),
                           !.backing[Slot(a)] = x,
                           !.len = a.len + 1]

\* Mutant of Unprotect: the entry goes with its first holder.
UnprotectAll(a, x) ==
  IF x \notin Protected(a) THEN a
  ELSE [a EXCEPT !.map = Without(a.map, x), !.backing[a.map[x].index] = Nil,
                 !.free = Append(a.free, a.map[x].index), !.len = a.len - 1]

\* unprotect, try_unprotect and the drop of an ArenaGuard: the last holder
\* frees the slot.  An object without an entry changes nothing (unprotect
\* panics, try_unprotect answers false).
Unprotect(a, x) ==
  IF x \notin Protected(a) THEN a
  ELSE IF a.map[x].count > 1 THEN [a EXCEPT !.map[x].count = a.map[x].count - 1]
  ELSE [a EXCEPT !.map = Without(a.map, x),
                 !.backing[a.map[x].index] = Nil,
                 !.free = Append(a.free, a.map[x].index),
                 !.len = a.len - 1]

\* Mutant of Clear: the freed slots stay on the free list.
ClearKeepingFree(a) ==
  [a EXCEPT !.map = [x \in {} |-> [count |-> 0, index |-> 0]],
            !.backing = [i \in 0..a.capacity - 1 |-> Nil],
            !.len = 0, !.next = 0]

Clear(a) ==
  [a EXCEPT !.map = [x \in {} |-> [count |-> 0, index |-> 0]],
            !.backing = [i \in 0..a.capacity - 1 |->
                           IF \E x \in Protected(a) : a.map[x].index = i
                             THEN Nil ELSE a.backing[i]],
            !.free = <<>>, !.len = 0, !.next = 0]

-----------------------------------------------------------------------------
(* What an arena guarantees whatever the order of its calls.                *)

ArenaType(a, Objs) ==
  /\ DOMAIN a = {"map", "backing", "capacity", "free", "next", "len"}
  /\ a.capacity \in Nat \ {0} /\ a.next \in 0..a.capacity /\ a.len \in Nat
  /\ a.backing \in [0..a.capacity - 1 -> Objs \cup {Nil}]
  /\ a.free \in Seq(0..a.next - 1)
  /\ Protected(a) \subseteq Objs
  /\ a.map \in [Protected(a) -> [count : Nat \ {0}, index : 0..a.next - 1]]

\* A slot given out is on the free list once or belongs to one entry.
ArenaSlots(a) ==
  /\ \A i, j \in 1..Len(a.free) : i # j => a.free[i] # a.free[j]
  /\ \A x \in Protected(a), i \in 1..Len(a.free) : a.free[i] # a.map[x].index
  /\ \A x, y \in Protected(a) : x # y => a.map[x].index # a.map[y].index

\* The list holds the protected objects, each in its slot, and no other.
ArenaHolds(a) ==
  \A i \in 0..a.capacity - 1 :
     \A x \in Protected(a) \cup {a.backing[i]} :
        a.backing[i] = x /\ x # Nil <=> x \in Protected(a) /\ a.map[x].index = i

ArenaCounts(a) ==
  /\ IsFiniteSet(Protected(a)) /\ a.len = Cardinality(Protected(a))
  /\ a.len + Len(a.free) = a.next

ArenaOK(a, Objs) == ArenaType(a, Objs) /\ ArenaSlots(a) /\ ArenaHolds(a) /\ ArenaCounts(a)
=============================================================================
