------------------------------ MODULE GcProtect ------------------------------
(***************************************************************************)
(* The guards that keep R objects alive while Rust works on them: the      *)
(* scopes, owned guards and reprotect slots of gc_protect.rs on R's        *)
(* protect stack, the thread-local stack of scopes of gc_protect/tls.rs,   *)
(* and the arena guards of refcount_protect.rs.                            *)
(*                                                                         *)
(* Rust code of one .Call may evaluate R code that calls Rust again, so    *)
(* there is a stack of frames, each with its guards.  An R error ends the  *)
(* newest frame by a longjmp: R restores the height of the protect stack,  *)
(* and the destructors of the frame's guards never run.  The caller is R   *)
(* or R_tryEvalSilent (expression.rs), after which Rust goes on.           *)
(***************************************************************************)
EXTENDS RefCountedArena, FiniteSetsExt

CONSTANTS
  Objs,        \* the addresses of R objects
  Guards,      \* the places of guards on Rust's stack; they are used again
  MaxFrames,   \* bound: nested calls
  MaxStack,    \* bound: entries of the protect stack
  MaxLost      \* bound: arena guards whose drop was lost

ASSUME GcAssumption == Nil \notin Objs /\ IsFiniteSet(Guards)

VARIABLES
  heap,          \* the objects R has not collected
  stack,         \* R's protect stack
  frames,        \* the calls under way: the height and the number of guards they
                 \* began with, and whether they, or a call made from them, have
                 \* protected through an older scope
  guard, order,  \* what each place holds, and the places by age
  tls,           \* SCOPE_STACK: pointers to scopes
  arena, busy,   \* the arena, and its RefCell left borrowed by a longjmp
  orphans,       \* history: arena guards of each object whose drop was lost
  mixed,         \* history: an entry was pushed or popped out of stack order
  miscounted,    \* history: some scope counts entries that R took back, or the
                 \* stack has entries that no scope counts
  tlsLost,       \* history: an R error left with_protect_scope
  clearedUnder,  \* history: the arena was cleared under a live guard
  lostInGrow     \* history: an object was collected while its slot was made

rust == <<guard, order>>
arenaVars == <<arena, busy, orphans>>
stackMarks == <<mixed, miscounted, tlsLost>>
arenaMarks == <<clearedUnder, lostInGrow>>
vars == <<heap, stack, frames, rust, tls, arenaVars, stackMarks, arenaMarks>>

NoGuard == [kind |-> "none", n |-> 0, roots |-> {}, slot |-> <<>>]
OutermostCall == [height |-> 0, below |-> 0, outer |-> FALSE]

Init ==
  /\ heap = {} /\ stack = <<>> /\ tls = <<>>
  /\ frames = <<OutermostCall>>
  /\ guard = [g \in Guards |-> NoGuard] /\ order = <<>>
  /\ arena = NewArena /\ busy = FALSE
  /\ orphans = [x \in Objs |-> 0]
  /\ mixed = FALSE /\ miscounted = FALSE /\ tlsLost = FALSE /\ clearedUnder = FALSE /\ lostInGrow = FALSE

Call     == frames[Len(frames)]
Live     == {g \in Guards : guard[g].kind # "none"}
Scopes   == {g \in Live : guard[g].kind \in {"scope", "tls"}}
Oldest(k) == {order[i] : i \in 1..k}
Mine     == {order[i] : i \in Call.below + 1..Len(order)}
Lost     == MapThenSumSet(LAMBDA x : orphans[x], Objs)
ArenaGuards == {g \in Live : guard[g].kind = "arena"}
Holders(x) == {g \in ArenaGuards : x \in guard[g].roots}

Younger(h, g) == \E i, j \in 1..Len(order) : i < j /\ order[i] = g /\ order[j] = h

\* No guard younger than g has an entry on the protect stack.
OnTop(g) == \A h \in Live : Younger(h, g) => guard[h].n = 0

Rooted == {stack[i] : i \in 1..Len(stack)} \cup {arena.backing[i] : i \in DOMAIN arena.backing}

-----------------------------------------------------------------------------
(* R: objects, which nothing protects yet, the collector, and calls.        *)

NewObject ==
  /\ \E x \in Objs \ heap : heap' = heap \cup {x}
  /\ UNCHANGED <<stack, frames, rust, tls, arenaVars, stackMarks, arenaMarks>>

Collect ==
  /\ heap' = heap \cap Rooted /\ heap' # heap
  /\ UNCHANGED <<stack, frames, rust, tls, arenaVars, stackMarks, arenaMarks>>

\* R code evaluated by the newest call calls Rust.
Enter ==
  /\ Len(frames) < MaxFrames
  /\ frames' = Append(frames, [height |-> Len(stack), below |-> Len(order), outer |-> FALSE])
  /\ UNCHANGED <<heap, stack, rust, tls, arenaVars, stackMarks, arenaMarks>>

\* A call returns without its guards; entries it gave up stay behind.
Leave ==
  /\ Len(frames) > 1
  /\ \A g \in Mine : guard[g].kind = "forgotten"
  /\ frames' = SubSeq(frames, 1, Len(frames) - 1)
  /\ UNCHANGED <<heap, stack, rust, tls, arenaVars, stackMarks, arenaMarks>>

\* Mutant of Jump: R leaves the stack as the frame left it.
JumpKeepingStack ==
  /\ Len(stack) >= Call.height
  /\ Cardinality(Mine \cap ArenaGuards) <= MaxLost - Lost
  /\ stack' = stack
  /\ guard' = [g \in Guards |-> IF g \in Mine THEN NoGuard ELSE guard[g]]
  /\ order' = SubSeq(order, 1, Call.below)
  /\ orphans' = [x \in Objs |-> orphans[x] + Cardinality(Mine \cap Holders(x))]
  /\ frames' = IF Len(frames) = 1 THEN frames ELSE SubSeq(frames, 1, Len(frames) - 1)
  /\ miscounted' = (Len(frames) > 1 /\ (miscounted \/ Call.outer))
  /\ mixed' = (Len(frames) > 1 /\ mixed)
  /\ tlsLost' = (tlsLost \/ \E g \in Mine : guard[g].kind = "tls")

\* A longjmp out of the newest call: R restores its height of the stack, the
\* guards are forgotten, and so is what they did to the arena and to tls.
Jump ==
  /\ Len(stack) >= Call.height
  /\ Cardinality(Mine \cap ArenaGuards) <= MaxLost - Lost
  /\ stack' = SubSeq(stack, 1, Call.height)
  /\ guard' = [g \in Guards |-> IF g \in Mine THEN NoGuard ELSE guard[g]]
  /\ order' = SubSeq(order, 1, Call.below)
  /\ orphans' = [x \in Objs |-> orphans[x] + Cardinality(Mine \cap Holders(x))]
  /\ frames' = IF Len(frames) = 1 THEN frames ELSE SubSeq(frames, 1, Len(frames) - 1)
  /\ miscounted' = (Len(frames) > 1 /\ (miscounted \/ Call.outer))
  /\ mixed' = (Len(frames) > 1 /\ mixed)
  /\ tlsLost' = (tlsLost \/ \E g \in Mine : guard[g].kind = "tls")

RError ==
  /\ Jump
  /\ UNCHANGED <<heap, tls, arena, busy, arenaMarks>>

-----------------------------------------------------------------------------
(* Guards on the protect stack.                                             *)

Place(g, r) ==
  /\ guard[g].kind = "none"
  /\ guard' = [guard EXCEPT ![g] = r]
  /\ order' = Append(order, g)

\* Bound: once an entry is out of order, the stack is followed down only.
Push(x) ==
  /\ Len(stack) < MaxStack /\ ~mixed /\ ~miscounted
  /\ stack' = Append(stack, x)

OpenScope(g) ==
  /\ Place(g, [NoGuard EXCEPT !.kind = "scope"])
  /\ UNCHANGED <<heap, stack, frames, tls, arenaVars, stackMarks, arenaMarks>>

\* with_protect_scope: the scope is current until its closure ends.  Bound: not
\* followed once SCOPE_STACK has a stale pointer.
WithProtectScope(g) ==
  /\ ~tlsLost
  /\ Place(g, [NoGuard EXCEPT !.kind = "tls"])
  /\ tls' = Append(tls, g)
  /\ UNCHANGED <<heap, stack, frames, arenaVars, stackMarks, arenaMarks>>

\* What protecting through scope g does to the histories: the entry is above
\* the height of every call that began after g was opened.
Through(g) ==
  /\ mixed' = (mixed \/ ~OnTop(g))
  /\ frames' = [i \in 1..Len(frames) |->
                 [frames[i] EXCEPT !.outer = @ \/ g \in Oldest(frames[i].below)]]

\* protect, protect_raw, and the alloc_ methods that end in them.
ScopeProtect(g, x) ==
  /\ g \in Scopes /\ x \in heap
  /\ Push(x)
  /\ guard' = [guard EXCEPT ![g].n = @ + 1, ![g].roots = @ \cup {x}]
  /\ Through(g)
  /\ UNCHANGED <<heap, order, tls, arenaVars, miscounted, tlsLost, arenaMarks>>

\* protect_with_index: one slot for each scope.
ProtectWithIndex(g, x) ==
  /\ g \in Scopes /\ guard[g].slot = <<>> /\ x \in heap \cup {Nil}
  /\ Push(x)
  /\ guard' = [guard EXCEPT ![g].n = @ + 1, ![g].slot = <<Len(stack) + 1, x>>]
  /\ Through(g)
  /\ UNCHANGED <<heap, order, tls, arenaVars, miscounted, tlsLost, arenaMarks>>

\* Mutant of Reprotect: the slot's own copy is replaced, the entry is not.
ReprotectCurOnly(g, x) ==
  /\ g \in Scopes /\ guard[g].slot # <<>> /\ guard[g].slot[1] <= Len(stack)
  /\ UNCHANGED stack
  /\ guard' = [guard EXCEPT ![g].slot[2] = x]

\* R_Reprotect; an index above the top is an R error.
Reprotect(g, x) ==
  /\ g \in Scopes /\ guard[g].slot # <<>> /\ guard[g].slot[1] <= Len(stack)
  /\ stack' = [stack EXCEPT ![guard[g].slot[1]] = x]
  /\ guard' = [guard EXCEPT ![g].slot[2] = x]

\* set and replace, and with Nil take and clear.
SlotSet(g, x) ==
  /\ x \in heap \cup {Nil} /\ Reprotect(g, x)
  /\ UNCHANGED <<heap, frames, order, tls, arenaVars, stackMarks, arenaMarks>>

\* set_with: f allocates the value, and R may collect what is not protected.
SlotSetWith(g, x) ==
  /\ x \notin heap /\ Len(stack) < MaxStack /\ Reprotect(g, x)
  /\ heap' \in {heap \cup {x}, (heap \cap Rooted) \cup {x}}
  /\ UNCHANGED <<frames, order, tls, arenaVars, stackMarks, arenaMarks>>

OwnedProtect(g, x) ==
  /\ x \in heap /\ Push(x)
  /\ Place(g, [NoGuard EXCEPT !.kind = "owned", !.n = 1, !.roots = {x}])
  /\ UNCHANGED <<heap, frames, tls, arenaVars, stackMarks, arenaMarks>>

\* tls::protect takes the newest pointer of SCOPE_STACK.  One that a longjmp
\* left behind points into memory that is no scope, or another scope's.
TlsProtect(x) ==
  /\ tls # <<>> /\ x \in heap
  /\ Push(x)
  /\ LET g == tls[Len(tls)]
     IN  IF g \in Scopes
         THEN /\ guard' = [guard EXCEPT ![g].n = @ + 1, ![g].roots = @ \cup {x}]
              /\ Through(g)
              /\ UNCHANGED miscounted
         ELSE miscounted' = TRUE /\ UNCHANGED <<guard, frames, mixed>>
  /\ UNCHANGED <<heap, order, tls, arenaVars, tlsLost, arenaMarks>>

Removed(g) ==
  LET k == CHOOSE k \in 1..Len(order) : order[k] = g
  IN  SubSeq(order, 1, k - 1) \o SubSeq(order, k + 1, Len(order))

\* A guard of the stack ends: its entries are the topmost n, whoever pushed
\* them; fewer than n are an R error.
PopEntries(g) ==
  /\ g \in Mine /\ guard[g].n <= Len(stack)
  /\ stack' = SubSeq(stack, 1, Len(stack) - guard[g].n)
  /\ guard' = [guard EXCEPT ![g] = NoGuard]
  /\ order' = Removed(g)
  /\ mixed' = (mixed \/ (guard[g].n > 0 /\ ~OnTop(g)))
  /\ UNCHANGED <<heap, frames, arenaVars, miscounted, tlsLost, arenaMarks>>

DropStackGuard(g) == guard[g].kind \in {"scope", "owned"} /\ PopEntries(g) /\ UNCHANGED tls

\* with_protect_scope returns, the innermost first: the newest pointer goes,
\* whichever it is, and then the scope.
ScopeReturns(g) ==
  /\ guard[g].kind = "tls" /\ ~\E h \in Live : guard[h].kind = "tls" /\ Younger(h, g)
  /\ PopEntries(g)
  /\ tls' = IF tls = <<>> THEN tls ELSE SubSeq(tls, 1, Len(tls) - 1)

\* OwnedProtect::forget, and the drop of a scope that was disarmed and not
\* rearmed, leave the entries.
LeaveEntries(g) ==
  /\ g \in Mine /\ guard[g].kind \in {"scope", "owned"}
  /\ guard' = [guard EXCEPT ![g] = [NoGuard EXCEPT !.kind = "forgotten", !.n = guard[g].n]]
  /\ UNCHANGED <<heap, stack, frames, order, tls, arenaVars, stackMarks, arenaMarks>>

-----------------------------------------------------------------------------
(* Guards of the arena.  A RefCell left borrowed makes every call panic.    *)

\* Growing allocates before the object is in the list: it may be collected.
ArenaGuard(g, x) ==
  /\ x \in heap /\ ~busy
  /\ Place(g, [NoGuard EXCEPT !.kind = "arena", !.roots = {x}])
  /\ arena' = Protect(arena, x)
  /\ heap' \in IF Grows(arena, x) THEN {heap, heap \cap Rooted} ELSE {heap}
  /\ lostInGrow' = (lostInGrow \/ x \notin heap')
  /\ UNCHANGED <<stack, frames, tls, busy, orphans, stackMarks, clearedUnder>>

\* R cannot allocate the larger list.
GrowFails ==
  /\ ~busy /\ \E x \in heap : Grows(arena, x)
  /\ Jump /\ busy' = TRUE
  /\ UNCHANGED <<heap, tls, arena, arenaMarks>>

\* The drop of a guard; it panics when the arena is borrowed or was cleared.
DropArenaGuard(g) ==
  /\ g \in Mine /\ guard[g].kind = "arena"
  /\ \E x \in guard[g].roots :
       IF busy THEN Lost < MaxLost /\ orphans' = [orphans EXCEPT ![x] = @ + 1] /\ UNCHANGED arena
       ELSE arena' = Unprotect(arena, x) /\ UNCHANGED orphans
  /\ guard' = [guard EXCEPT ![g] = NoGuard]
  /\ order' = Removed(g)
  /\ UNCHANGED <<heap, stack, frames, tls, busy, stackMarks, arenaMarks>>

ClearArena ==
  /\ ~busy /\ Protected(arena) # {}
  /\ arena' = Clear(arena)
  /\ orphans' = [x \in Objs |-> 0]
  /\ clearedUnder' = (ArenaGuards # {}) /\ lostInGrow' = FALSE
  /\ UNCHANGED <<heap, stack, frames, rust, tls, busy, stackMarks>>

-----------------------------------------------------------------------------

RNext == NewObject \/ Collect \/ Enter \/ Leave \/ RError \/ GrowFails

ScopeNext(g) ==
  \/ OpenScope(g) \/ WithProtectScope(g)
  \/ \E x \in Objs : ScopeProtect(g, x) \/ OwnedProtect(g, x) \/ SlotSetWith(g, x)
  \/ \E x \in Objs \cup {Nil} : ProtectWithIndex(g, x) \/ SlotSet(g, x)
  \/ DropStackGuard(g) \/ ScopeReturns(g) \/ LeaveEntries(g)

Next ==
  \/ RNext
  \/ \E g \in Guards : ScopeNext(g) \/ DropArenaGuard(g)
                       \/ \E x \in Objs : ArenaGuard(g, x)
  \/ \E x \in Objs : TlsProtect(x)
  \/ ClearArena

Spec == Init /\ [][Next]_vars

-----------------------------------------------------------------------------

\* The arena's list, map and free list agree whatever the order of protect,
\* unprotect and clear: no slot is given out twice or lost, an object is in the
\* list as long as it has an entry and no longer.
ArenaConsistent == ArenaOK(arena, Objs)

\* An entry counts the guards of its object and the guards a longjmp destroyed,
\* so none is released early and, but for those, none late.  clear under a
\* live guard is the exception: that guard releases what others protect later.
CountsMatch ==
  ~clearedUnder =>
     \A x \in Objs : RefCount(arena, x) = orphans[x] + Cardinality(Holders(x))

\* What a guard roots is alive as long as the guard is, and a slot's index is
\* the entry of its value.  On the protect stack this needs guards that end
\* and protect in stack order, and no scope of an older call behind an R error.
StackGuardsProtect ==
  ~mixed /\ ~miscounted =>
     \A g \in Live \ ArenaGuards :
        /\ guard[g].roots \subseteq heap
        /\ guard[g].slot # <<>> =>
             /\ guard[g].slot[1] <= Len(stack)
             /\ stack[guard[g].slot[1]] = guard[g].slot[2]
             /\ guard[g].slot[2] \in heap \cup {Nil}

\* The arena's guards may come and go in any order, through R errors and
\* growth; what breaks the promise is clear under a live guard, and an object
\* that nothing else protects while the arena grows for it.
ArenaGuardsProtect ==
  ~clearedUnder /\ ~lostInGrow => \A g \in ArenaGuards : guard[g].roots \subseteq heap

\* Both: a guard, of either kind, keeps its objects from the collector.
LiveGuardsProtect == StackGuardsProtect /\ ArenaGuardsProtect

\* In whatever order the guards come and go, the protect stack has the entries
\* they count: nothing leaks and nothing is popped twice.  And SCOPE_STACK points
\* to the scopes of with_protect_scope under way, unless an R error left one:
\* its pointer stays ("panic-safe cleanup" is not run by a longjmp).
StackBalanced ==
  /\ ~miscounted => Len(stack) = MapThenSumSet(LAMBDA g : guard[g].n, Guards)
  /\ ~tlsLost =>
       /\ {tls[i] : i \in 1..Len(tls)} = {g \in Live : guard[g].kind = "tls"}
       /\ \A i, j \in 1..Len(tls) : i < j => Younger(tls[j], tls[i])
=============================================================================
