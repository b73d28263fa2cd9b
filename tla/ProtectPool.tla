----------------------------- MODULE ProtectPool -----------------------------
(***************************************************************************)
(* ProtectPool (protect_pool.rs): a growing R list whose slots keep R      *)
(* objects alive, handed out under keys that carry the slot's generation.  *)
(* The pool is a value; each method is an operator on it, so that the      *)
(* components that own a pool (ExternalPtr) can keep it in a variable.     *)
(***************************************************************************)
EXTENDS Naturals, Sequences

CONSTANTS
  Nil,        \* R's NULL, the content of a free slot
  Capacity,   \* ProtectPool::DEFAULT_CAPACITY
  GenMod      \* generations are u32: they wrap at this modulus (2^32)

ASSUME PoolAssumption == Capacity \in Nat \ {0} /\ GenMod \in Nat \ {0}

\* A pool of n slots, none of which has been used.
NewPool == [backing    |-> [i \in 0..Capacity - 1 |-> Nil],
            capacity   |-> Capacity,
            generation |-> [i \in 0..Capacity - 1 |-> 0],
            free       |-> <<>>,
            next       |-> 0,
            len        |-> 0]

\* Mutant of Grow: the new list is empty.
GrowEmpty(p) ==
  LET n == 2 * p.capacity
  IN  [p EXCEPT !.backing = [i \in 0..n - 1 |-> Nil], !.capacity = n,
                !.generation = [i \in 0..n - 1 |-> IF i < p.capacity THEN p.generation[i] ELSE 0]]

\* grow: twice the slots, the old ones copied to the new list.
Grow(p) ==
  LET n == 2 * p.capacity
      Extend(f, v) == [i \in 0..n - 1 |-> IF i < p.capacity THEN f[i] ELSE v]
  IN  [p EXCEPT !.backing = Extend(p.backing, Nil), !.capacity = n,
                !.generation = Extend(p.generation, 0)]

\* insert has to grow the list, and growing allocates: R's collector may run.
Full(p) == p.free = <<>> /\ p.next >= p.capacity

\* alloc_slot: the slot freed last, or the next fresh one.
AllocSlot(p) == IF p.free # <<>> THEN p.free[Len(p.free)] ELSE p.next

WithSlot(p) ==
  IF p.free # <<>> THEN [p EXCEPT !.free = SubSeq(p.free, 1, Len(p.free) - 1)]
  ELSE [IF Full(p) THEN Grow(p) ELSE p EXCEPT !.next = p.next + 1]

\* The key that insert returns, and the pool after it.
InsertKey(p) == [slot |-> AllocSlot(p), generation |-> WithSlot(p).generation[AllocSlot(p)]]
Insert(p, x) == [WithSlot(p) EXCEPT !.backing[AllocSlot(p)] = x, !.len = p.len + 1]

ContainsKey(p, k) == k.slot < p.capacity /\ p.generation[k.slot] = k.generation

\* Mutant of Release: the slot keeps its object.
ReleaseUncleared(p, k) ==
  IF ContainsKey(p, k)
    THEN [p EXCEPT !.generation[k.slot] = (p.generation[k.slot] + 1) % GenMod,
                   !.free = Append(p.free, k.slot),
                   !.len = p.len - 1]
    ELSE p

\* release: a stale key changes nothing.
Release(p, k) ==
  IF ContainsKey(p, k)
    THEN [p EXCEPT !.backing[k.slot] = Nil,
                   !.generation[k.slot] = (p.generation[k.slot] + 1) % GenMod,
                   !.free = Append(p.free, k.slot),
                   !.len = p.len - 1]
    ELSE p

\* What get returns for a key that the pool contains.
Get(p, k) == p.backing[k.slot]

-----------------------------------------------------------------------------
(* What a pool guarantees whatever the order of insert and release.         *)

Slots(p)     == 0..p.capacity - 1
FreeSlots(p) == {p.free[i] : i \in 1..Len(p.free)}
UsedSlots(p) == (0..p.next - 1) \ FreeSlots(p)

PoolType(p, Objs) ==
  /\ DOMAIN p = {"backing", "capacity", "generation", "free", "next", "len"}
  /\ p.capacity \in Nat \ {0} /\ p.next \in 0..p.capacity /\ p.len \in Nat
  /\ p.backing \in [Slots(p) -> Objs \cup {Nil}]
  /\ p.generation \in [Slots(p) -> 0..GenMod - 1]
  /\ p.free \in Seq(0..p.next - 1)

\* No slot is on the free list twice, and the slots out of use are empty.
PoolOK(p, Objs) ==
  /\ PoolType(p, Objs)
  /\ \A i, j \in 1..Len(p.free) : i # j => p.free[i] # p.free[j]
  /\ \A i \in Slots(p) \ UsedSlots(p) : p.backing[i] = Nil
  /\ p.len + Len(p.free) = p.next
=============================================================================
