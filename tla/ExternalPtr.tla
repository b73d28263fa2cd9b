----------------------------- MODULE ExternalPtr -----------------------------
(***************************************************************************)
(* ExternalPtr<T> (externalptr.rs): Rust values owned by R external        *)
(* pointers.                                                               *)
(*                                                                         *)
(* An EXTPTRSXP holds the address of a boxed value until its finalizer or  *)
(* a consuming operation clears it.  A Rust handle caches that address.    *)
(* An owning handle keeps its object alive through a key of the root pool  *)
(* EXTPTR_ROOTS; a borrowed handle (wrap_sexp, reborrow) does not.  A      *)
(* method called from R reaches the value through the object itself: by    *)
(* reference, or by value, which leaves a ConsumedSlot marker behind.  A   *)
(* value may itself own a handle, which is dropped with it.                *)
(*                                                                         *)
(* All of this runs on the main thread (with_r_thread brings it there):    *)
(* what interleaves is Rust code, R code called from method bodies, and    *)
(* R's garbage collector.                                                  *)
(***************************************************************************)
EXTENDS ProtectPool, FiniteSets

CONSTANTS
  Objects,    \* external pointer objects that R can allocate
  Values,     \* allocations of Rust values
  Handles,    \* places of Rust code for a handle
  Null,       \* the address after R_ClearExternalPtr
  Consumed,   \* the address of a box that holds ConsumedSlot
  NoHandle, NoKey, NoValue,
  MaxCalls    \* bound: nested method calls

ASSUME MaxCallsAssumption == MaxCalls \in Nat

Keys == [slot : Nat, generation : 0..GenMod - 1]
HandleRecords == [sexp : Objects, ptr : Values, root : Keys \cup {NoKey}]
CallRecords == [obj : Objects, mode : {"ref", "step", "last"}, val : Values \cup {NoValue}]
MadeRecords == [place : Handles, sexp : Objects, ptr : Values]

\* What stands for nothing is no object, value, key or handle.
ASSUME NothingAssumption ==
  /\ Nil \notin Objects /\ NoKey \notin Keys
  /\ Null \notin Values /\ Consumed \notin Values /\ NoValue \notin Values
  /\ NoHandle \notin HandleRecords /\ NoHandle \notin MadeRecords

VARIABLES
  object,   \* object[o]: "unborn", "live" or "collected"
  addr,     \* addr[o]: R_ExternalPtrAddr
  held,     \* objects that R code can reach
  box,      \* box[v]: who has the allocation; see Fates
  handle,   \* handle[h]: the handle's sexp, cached_ptr and root, or NoHandle
  within,   \* within[h]: the value that the handle in h is a field of, or NoValue
  making,   \* the handle that create_extptr_sexp is about to root, or NoHandle
  calls,    \* method calls in progress, innermost last
  pool,     \* EXTPTR_ROOTS
  aborted,  \* a panicking finalizer has ended the process
  shared    \* history: objects that anybody but their first handle has seen

vars == <<object, addr, held, box, handle, within, making, calls, pool, aborted, shared>>

\* none: not allocated yet;  boxed: owned by an object;  raw: behind a raw pointer;
\* moved: moved out and its box freed;  dropped;  leaked: nobody can free it;
\* twice: freed, or given out by into_raw, a second time.
Fates == {"none", "boxed", "raw", "moved", "dropped", "leaked", "twice"}
Allocated(v) == box[v] \in {"boxed", "raw", "leaked"}
\* After that the two owners are at odds; what follows is not modelled.
Undefined == \E v \in Values : box[v] = "twice"

Handle(o, v, k) == [sexp |-> o, ptr |-> v, root |-> k]
Held   == {h \in Handles : handle[h] # NoHandle}
Owning == {h \in Held : handle[h].root # NoKey}
\* The handles that Rust code has in hand, those that a value has as a field.
Free      == {h \in Held : within[h] = NoValue}
Fields(v) == {h \in Held : within[h] = v}
Made(h, o, v) == [place |-> h, sexp |-> o, ptr |-> v]
\* EXTPTR_ROOTS stays mutably borrowed while insert grows the pool.
Borrowed == making # NoHandle /\ Full(pool)
\* A call by reference uses val as self; a call by value has moved its value out.
Call(o, m, v) == [obj |-> o, mode |-> m, val |-> v]
InCall(o) == \E i \in 1..Len(calls) : calls[i].obj = o
Rooted(o) == \E i \in Slots(pool) : pool.backing[i] = o

TypeOK ==
  /\ object \in [Objects -> {"unborn", "live", "collected"}]
  /\ addr \in [Objects -> Values \cup {Null, Consumed}]
  /\ held \subseteq Objects /\ shared \subseteq Objects
  /\ box \in [Values -> Fates]
  /\ handle \in [Handles -> HandleRecords \cup {NoHandle}]
  /\ within \in [Handles -> Values \cup {NoValue}]
  /\ making = NoHandle \/ making \in MadeRecords
  /\ aborted \in BOOLEAN
  /\ calls \in Seq(CallRecords)
  /\ PoolOK(pool, Objects)

Init ==
  /\ object = [o \in Objects |-> "unborn"] /\ addr = [o \in Objects |-> Null]
  /\ held = {} /\ shared = {}
  /\ box = [v \in Values |-> "none"]
  /\ handle = [h \in Handles |-> NoHandle] /\ within = [h \in Handles |-> NoValue]
  /\ calls = <<>> /\ pool = NewPool /\ making = NoHandle /\ aborted = FALSE

-----------------------------------------------------------------------------
(* Handles in Rust code.                                                    *)

\* new, Clone, Default (f = "none") and from_raw (f = "raw"): the value is boxed,
\* the object made and its finalizer registered; it is on R's protect stack.
Make(h, o, v, f) ==
  /\ handle[h] = NoHandle /\ object[o] = "unborn" /\ box[v] = f
  /\ object' = [object EXCEPT ![o] = "live"]
  /\ addr' = [addr EXCEPT ![o] = v]
  /\ box' = [box EXCEPT ![v] = "boxed"]
  /\ making' = Made(h, o, v)
  /\ UNCHANGED <<held, handle, within, calls, pool, aborted, shared>>

\* root_owned: the object is rooted in the pool, and the handle is complete.
Root ==
  /\ making # NoHandle
  /\ handle' = [handle EXCEPT ![making.place] = Handle(making.sexp, making.ptr, InsertKey(pool))]
  /\ pool' = Insert(pool, making.sexp)
  /\ making' = NoHandle
  /\ UNCHANGED <<object, addr, held, box, within, calls, aborted, shared>>

\* A Rust program keeps a handle as a field of a value it can change.
StoreField(h, v) ==
  /\ h \in Free /\ Fields(v) = {} /\ box[v] = "boxed"
  /\ \/ \E g \in Free \ {h} : handle[g].ptr = v
     \/ \E i \in 1..Len(calls) : calls[i].mode = "ref" /\ calls[i].val = v
  /\ within' = [within EXCEPT ![h] = v]
  /\ UNCHANGED <<object, addr, held, box, handle, making, calls, pool, aborted, shared>>

\* Mutant of ReleaseRoot: the root is kept.
KeepRoot(h) == pool' = pool

\* release_root_if_owned
ReleaseRoot(h) ==
  pool' = IF handle[h].root = NoKey THEN pool ELSE Release(pool, handle[h].root)

\* Drop of the handle in h: the root is released, the value is left to R.
Dropped(h) ==
  /\ ReleaseRoot(h)
  /\ handle' = [handle EXCEPT ![h] = NoHandle] /\ within' = [within EXCEPT ![h] = NoValue]

DropFields(v) ==
  IF Fields(v) = {} THEN UNCHANGED <<handle, within, pool>>
                    ELSE \E h \in Fields(v) : Dropped(h)

\* Drop of the value v, then of its field.
DropValue(v) == box' = [box EXCEPT ![v] = "dropped"] /\ DropFields(v)

\* The value v moves out of its allocation, and its field into Rust code.
MoveOut(v) ==
  /\ box' = [box EXCEPT ![v] = "moved"]
  /\ within' = [h \in Handles |-> IF within[h] = v THEN NoValue ELSE within[h]]

\* Box::from_raw on what into_raw gave: the value is dropped outside.
DropRaw(v) ==
  /\ box[v] = "raw" /\ DropValue(v)
  /\ UNCHANGED <<object, addr, held, making, calls, aborted, shared>>

\* wrap_sexp on an object that is a value's: a borrowed handle.
WrapSexp(h, o) ==
  /\ handle[h] = NoHandle /\ object[o] = "live" /\ addr[o] \in Values
  /\ handle' = [handle EXCEPT ![h] = Handle(o, addr[o], NoKey)]
  /\ shared' = shared \cup {o}
  /\ UNCHANGED <<object, addr, held, box, within, making, calls, pool, aborted>>

\* An argument from R becomes a handle.
FromR(h, o) == o \in held /\ WrapSexp(h, o)

\* Mutant of Reborrow: the alias also gets the key of the root.
ReborrowWithRoot(h, g) ==
  /\ g \in Held /\ handle[h] = NoHandle
  /\ object[handle[g].sexp] = "live" /\ addr[handle[g].sexp] \in Values
  /\ handle' = [handle EXCEPT ![h] = Handle(handle[g].sexp, addr[handle[g].sexp], handle[g].root)]
  /\ shared' = shared \cup {handle[g].sexp}
  /\ UNCHANGED <<object, addr, held, box, within, making, calls, pool, aborted>>

\* reborrow
Reborrow(h, g) == g \in Held /\ WrapSexp(h, handle[g].sexp)

DropHandle(h) ==
  /\ h \in Free /\ Dropped(h)
  /\ UNCHANGED <<object, addr, held, box, making, calls, aborted, shared>>

\* into_sexp: the handle is dropped, R receives the object.  (A collection in
\* between, while the call's exit prints its log, is DropHandle and Collect.)
IntoSexp(h) ==
  /\ h \in Free /\ object[handle[h].sexp] = "live" /\ Dropped(h)
  /\ held' = held \cup {handle[h].sexp}
  /\ UNCHANGED <<object, addr, box, making, calls, aborted, shared>>

\* Mutant of Unbox: into_raw and into_inner that do not clear the object.
UnboxKeepsAddr(h, f) ==
  LET o == handle[h].sexp IN
  /\ h \in Free /\ object[o] = "live" /\ addr[o] \in Values /\ Fields(addr[o]) = {}
  /\ Dropped(h) /\ box' = [box EXCEPT ![addr[o]] = f]
  /\ UNCHANGED <<object, addr, held, making, calls, aborted, shared>>

\* into_raw gives out the allocation p, which is cached_ptr, whatever the object has:
\* if that is p no longer, p is given out again, and a newer value v leaks.
GiveOut(p, v) ==
  /\ box' = [w \in Values |-> CASE w = p -> IF v = p THEN "raw" ELSE "twice"
                                [] w = v /\ v # p -> "leaked"
                                [] OTHER -> box[w]]
  /\ within' = within

\* into_raw (f = "raw") and into_inner (f = "moved"): the root is released, the
\* object cleared and its value taken.  On an object that has no value into_inner
\* panics; a ConsumedSlot is dropped or leaked.
Unbox(h, f) ==
  LET o == handle[h].sexp IN
  /\ h \in Free /\ object[o] = "live"
  /\ ReleaseRoot(h) /\ handle' = [handle EXCEPT ![h] = NoHandle]
  /\ addr' = [addr EXCEPT ![o] = Null]
  /\ \/ f = "raw" /\ GiveOut(handle[h].ptr, addr[o])
     \/ f = "moved" /\ addr[o] \in Values /\ MoveOut(addr[o])
     \/ f = "moved" /\ addr[o] \notin Values /\ UNCHANGED <<box, within>>
  /\ UNCHANGED <<object, held, making, calls, aborted, shared>>

-----------------------------------------------------------------------------
(* Methods called from R.                                                   *)

\* &self, &mut self, and the fallible self -> Result<Self, E> or Option<Self>: the
\* wrapper has a reference into the box.  (The body of a fallible method works on a
\* clone, and gets at the value itself only through another handle.)  On a consumed
\* or cleared object the wrapper panics (handle_downcast_failed), nothing changes.
CallByRef(o) ==
  /\ o \in held /\ Len(calls) < MaxCalls /\ addr[o] \in Values
  /\ calls' = Append(calls, Call(o, "ref", addr[o]))
  /\ UNCHANGED <<object, addr, held, box, handle, within, making, pool, aborted, shared>>

\* Mutant of CallByValue: take_for_consuming leaves the value in its box.
CallByValueCopies(o, m) ==
  /\ o \in held /\ Len(calls) < MaxCalls /\ addr[o] \in Values
  /\ calls' = Append(calls, Call(o, m, NoValue))
  /\ shared' = shared \cup {o}
  /\ UNCHANGED <<object, addr, held, box, handle, within, making, pool, aborted>>

\* Mutant of CallByValue: no marker is left.
CallByValueNoMarker(o, m) ==
  /\ o \in held /\ Len(calls) < MaxCalls /\ addr[o] \in Values
  /\ calls' = Append(calls, Call(o, m, NoValue))
  /\ MoveOut(addr[o])
  /\ shared' = shared \cup {o}
  /\ UNCHANGED <<object, addr, held, handle, making, pool, aborted>>

\* self -> Self ("step") and self -> T ("last"): take_for_consuming moves the value
\* out of its box, which is freed, and leaves the marker.
CallByValue(o, m) ==
  /\ o \in held /\ Len(calls) < MaxCalls /\ addr[o] \in Values
  /\ calls' = Append(calls, Call(o, m, NoValue))
  /\ MoveOut(addr[o])
  /\ addr' = [addr EXCEPT ![o] = Consumed]
  /\ shared' = shared \cup {o}
  /\ UNCHANGED <<object, held, handle, making, pool, aborted>>

Last == calls[Len(calls)]
Pop  == SubSeq(calls, 1, Len(calls) - 1)

\* A call by reference or of a terminal method returns, a fallible one fails, or any
\* method panics: nothing is put back.
CallEnds ==
  /\ calls # <<>>
  /\ calls' = Pop
  /\ UNCHANGED <<object, addr, held, box, handle, within, making, pool, aborted, shared>>

\* A fallible call succeeds: *self_slot = value drops the old value where it is
\* and puts the new one there, also if the box has been freed meanwhile.
TryReturns ==
  /\ calls # <<>> /\ Last.mode = "ref"
  /\ calls' = Pop
  /\ IF Allocated(Last.val)
       THEN DropFields(Last.val) /\ box' = box
       ELSE box' = [box EXCEPT ![Last.val] = "twice"] /\ UNCHANGED <<handle, within, pool>>
  /\ UNCHANGED <<object, addr, held, making, aborted, shared>>

\* restore_after_consuming(v): the value goes in place of what the box holds.
\* On an object that has been cleared meanwhile it panics, and v is dropped.
StepReturns(v) ==
  /\ calls # <<>> /\ Last.mode = "step" /\ box[v] = "none"
  /\ calls' = Pop
  /\ IF addr[Last.obj] = Null
       THEN box' = [box EXCEPT ![v] = "dropped"] /\ addr' = addr
       ELSE /\ box' = [w \in Values |-> CASE w = v -> "boxed"
                                          [] w = addr[Last.obj] -> "dropped"
                                          [] OTHER -> box[w]]
            /\ addr' = [addr EXCEPT ![Last.obj] = v]
  /\ UNCHANGED <<object, held, handle, within, making, pool, aborted, shared>>

-----------------------------------------------------------------------------
(* R: its references, and the garbage collector.                            *)

RForgets(o) ==
  /\ o \in held /\ held' = held \ {o}
  /\ UNCHANGED <<object, addr, box, handle, within, making, calls, pool, aborted, shared>>

Reachable(o) == o \in held \/ InCall(o) \/ Rooted(o) \/ (making # NoHandle /\ making.sexp = o)

\* Dropping v releases the root of its field while EXTPTR_ROOTS is borrowed.
DropPanics(v) == Borrowed /\ v \in Values /\ Fields(v) \cap Owning # {}

\* Nothing in Rust refers to the object any more: it may stand for a new one.
Forgotten(o) == \A h \in Handles : handle'[h] # NoHandle => handle'[h].sexp # o

\* release_any, when R collects an object that neither R, a running call, the
\* protect stack nor the pool has: it is cleared and its value or marker dropped.
\* If that panics, drop_catching_panic ends the process.
Collect(o) ==
  /\ object[o] = "live" /\ ~Reachable(o)
  /\ aborted' = DropPanics(addr[o])
  /\ IF addr[o] \in Values /\ ~aborted' THEN DropValue(addr[o])
     ELSE UNCHANGED <<box, handle, within, pool>>
  /\ object' = [object EXCEPT ![o] = IF Forgotten(o) THEN "unborn" ELSE "collected"]
  /\ shared' = IF Forgotten(o) THEN shared \ {o} ELSE shared
  /\ addr' = [addr EXCEPT ![o] = Null]
  /\ UNCHANGED <<held, making, calls>>

\* Steps of Rust code and of R code, which none takes while an object is being made.
Mutator ==
  \/ \E h \in Handles, o \in Objects, v \in Values, f \in {"none", "raw"} : Make(h, o, v, f)
  \/ \E v \in Values : DropRaw(v) \/ StepReturns(v)
  \/ \E h \in Handles, v \in Values : StoreField(h, v)
  \/ \E h \in Handles, o \in Objects : FromR(h, o)
  \/ \E h, g \in Handles : Reborrow(h, g)
  \/ \E h \in Handles : DropHandle(h) \/ IntoSexp(h)
  \/ \E h \in Handles, f \in {"raw", "moved"} : Unbox(h, f)
  \/ \E o \in Objects : CallByRef(o) \/ RForgets(o)
  \/ \E o \in Objects, m \in {"step", "last"} : CallByValue(o, m)
  \/ CallEnds \/ TryReturns

Next ==
  /\ ~aborted /\ ~Undefined
  /\ \/ making = NoHandle /\ Mutator
     \/ Root
     \/ \E o \in Objects : Collect(o)

Spec == Init /\ [][Next]_vars

-----------------------------------------------------------------------------
(* What makes ExternalPtr correct.                                          *)

\* However handles are aliased, consumed and collected, every boxed value has one
\* object that will free it, and no object has the address of a value that is not
\* boxed: no double free, no leak.  (Until a value has two owners: OwnershipEndsOnce.)
OneOwner == ~aborted /\ ~Undefined =>
  /\ \A o \in Objects : addr[o] \in Values => object[o] = "live" /\ box[addr[o]] = "boxed"
  /\ \A v \in Values : box[v] = "boxed" => \E o \in Objects : addr[o] = v
  /\ \A o, p \in Objects : addr[o] = addr[p] /\ addr[o] \in Values => o = p

\* An owning handle's key is valid and its slot holds the handle's object, which is
\* therefore not finalized under it.
OwnersAreRooted ==
  \A h \in Owning : /\ ContainsKey(pool, handle[h].root)
                    /\ Get(pool, handle[h].root) = handle[h].sexp
                    /\ object[handle[h].sexp] = "live"

\* The pool keeps nothing alive but the objects of owning handles, one slot each.
NoRootLeaks ==
  /\ pool.len = Cardinality(Owning)
  /\ \A h, g \in Owning : handle[h].root.slot = handle[g].root.slot => h = g

\* "The ExternalPtr assumes exclusive ownership of the underlying data": under that
\* assumption an owning handle's cached_ptr is its object's value, and allocated.
ExclusiveOwnerValid == ~Undefined =>
  \A h \in Owning : handle[h].sexp \notin shared =>
    addr[handle[h].sexp] = handle[h].ptr /\ Allocated(handle[h].ptr)

\* While a self -> Self method runs, whatever its body does, nobody puts a value in
\* the slot: restore_after_consuming replaces the marker and never drops a value.
MarkerStays ==
  \A i \in 1..Len(calls) : calls[i].mode = "step" => addr[calls[i].obj] \in {Consumed, Null}

\* A value that was moved out, dropped or leaked is not freed or handed out again, and
\* one that is behind a raw pointer is not handed out again.  There are two exceptions:
\* a fallible call writes back to a box that was freed while it ran, and into_raw is
\* called on a second handle of an object whose value was taken through another.
WritesBack(v) == calls # <<>> /\ calls' = Pop /\ Last.mode = "ref" /\ Last.val = v
StaleIntoRaw(v) ==
  \E h \in Held : /\ handle[h].ptr = v /\ addr[handle[h].sexp] # v
                  /\ handle'[h] = NoHandle /\ addr'[handle[h].sexp] = Null
OwnershipEndsOnce ==
  [][\A v \in Values :
       /\ box[v] \in {"moved", "dropped", "leaked"} => box'[v] \in {box[v], "twice"}
       /\ box[v] # "twice" /\ box'[v] = "twice" => WritesBack(v) \/ StaleIntoRaw(v)]_vars

\* docs/CLASS_SYSTEMS.md: "later use of the object errors with 'was consumed'": no
\* method body goes on using a value that has been consumed.
SelfStaysValid ==
  \A i \in 1..Len(calls) : calls[i].mode = "ref" => Allocated(calls[i].val)

\* externalptr.rs on root_owned: "sexp is still protected, so the pool may safely
\* allocate while growing": no finalizer that this allocation runs ends the process.
GrowingIsSafe == ~aborted
=============================================================================
