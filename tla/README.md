# A verification project for miniextendr

miniextendr lets R packages be written in Rust.  Most of its code converts
values; its hard parts are the places where two runtimes meet.  R is
single-threaded, reports errors by `longjmp` and frees whatever is not registered
as a root; Rust unwinds, frees by ownership and has threads.  The modules here
model those places and the most intricate of the conversions, TLC checks them on
small instances, and TLAPS proves what matters most for all instances.

Contents: 1 inventory, 2 modules and how they follow the code, 3 runs, 4 bounds
and fairness, 5 proofs, 6 divergences found, 7 what is not modelled, 8 plan.

## 1. Inventory

Paths are below `src/`; `api` is `miniextendr-api/src`.

| Component | Source | State it keeps | Operations | Status |
|---|---|---|---|---|
| Worker channel | `api/worker.rs` | `RUN_ONCE`, `WORKER` (mutex), the worker's thread-locals, two channels per dispatch | init, `run_on_worker`, `with_r_thread`, shutdown, unload | modelled |
| Call boundary | `api/unwind_protect.rs`, `api/ffi_guard.rs`, `api/rng.rs`, `api/condition.rs`, wrapper templates in `miniextendr-macros` | the call stack, one continuation token, R's two copies of the RNG state | wrappers, ALTREP and connection callbacks, trait shims, panics, conditions, R jumps | modelled |
| ExternalPtr and its root pool | `api/externalptr.rs`, `api/protect_pool.rs` | address slot of each R object, cached pointers, `EXTPTR_ROOTS`, pool slots, generations, free list | construct, alias, drop, consume, method receivers, finalizer | mostly modelled |
| Protect-stack guards | `api/gc_protect.rs`, `gc_protect/tls.rs` | entry counts of the guards, `SCOPE_STACK` | open, protect, reprotect, drop, disarm | mostly modelled |
| Protection arenas | `api/refcount_protect.rs` | map from object to count and slot, intrusive list, free list | protect, unprotect, grow, clear, guards | modelled |
| Log queue | `api/optionals/log_impl.rs` | `QUEUE` (bounded), `DROPPED` | `log`, `drain_log_queue` | modelled |
| Worker pump | `api/pump.rs` | bounded channel, scoped thread | `run`: spawn, receive, drain, pump, join | modelled |
| ALTREP iterator caches | `api/altrep_data/iter/*.rs`, `stream.rs` | cache, slots or window, iterator, materialised vector | element, materialise, stream chunk | modelled |
| Serde rows and columns | `api/serde/columnar.rs`, `api/serde/dataframe_de.rs` | schema, field map, column buffers, filled marks | discover, unite, fill, push, grow, split in chunks, read back | mostly modelled |
| Stack check guard | `api/thread.rs` | guard count and saved limit (two atomics) | disable, drop, disable for ever | not modelled |
| Everything else | see section 7 | write-once caches or none | other conversions, code generation, tools | not modelled |

How they interact.  R calls a generated wrapper (call boundary).  A wrapper marked
for the worker dispatches its body to the worker channel and serves, on the main
thread, the closures that the body sends back through `with_r_thread`; each
closure again runs under unwind protection.  Bodies hold `ExternalPtr` handles,
whose construction and drop go through `with_r_thread` to the root pool of the
main thread; R's collector, which may run inside any allocation, calls the
finalizer.  Bodies also protect objects of their own with guards on R's protect
stack, or with arenas when the guards end in any order; an R error resets the
stack under the guards and skips their destructors.  Other threads log into a
queue that main drains: on every exit of the boundary, and on each tick of a
worker pump.  ALTREP vectors over iterators are read by R at any index and at
any time, also by R code that their own `next()` runs.  Data frames go out and
come in through the serde converters.

What is hard, by component:

- **Worker channel.**  Three threads, rendezvous and one-slot channels, a `longjmp`
  that leaves `dispatch_to_worker` without running or dropping its frame, re-entry
  from R code run by a closure, shutdown at any time.  Correct means: a job gets the
  answers to its own requests, a call returns how its own job ended or is refused, no
  send blocks, the caller that shuts the service down returns only when the worker is
  gone, and calls and shutdowns end.
- **Call boundary.**  Panics, structured conditions and jumps cross eight kinds of
  Rust frame in any nesting, and all interrupted jumps share one continuation token,
  also while printing lets other code run.  Correct means: no panic enters R's frames,
  each jump ends where R aimed it, no failure is taken for a value, conditions keep
  their kind and `.Random.seed` keeps what was drawn.
- **ExternalPtr.**  Handles are copies of an address that the collector, another
  handle or a consuming method may free.  Correct means: each value is freed by
  exactly one owner and once, what an owner holds is not collected, the pool
  keeps nothing else alive, and a consumed slot is refilled only by the call that
  emptied it.
- **Guards and arenas.**  Guards count stack entries but do not know which; arenas
  know which, by a list whose slots are reused.  Correct means: what a live guard
  holds is not collected, nothing leaks, and map, list and free list agree, with
  guards dropped in any order, jumps, growth that fails and `clear` under guards.
- **Log queue and pump.**  Records and drop counts are swapped at different times
  while threads push; the pump blocks on a channel, then on a join.  Correct
  means: a record is printed in order, or counted as dropped; a message pumped
  is preceded by its records; a run that returns has pumped everything and
  leaves no thread behind; every run ends.
- **ALTREP caches.**  A source can be read once and forward, R reads anywhere.
  Correct means: an index answers its element or NA, and always the same, also
  after reads that failed half way.
- **Rows and columns.**  Shapes differ from row to row, structs are flattened to
  ranges of columns, and there are five ways to the same data frame.  Correct
  means: what is in a column is what its path names in each row, the parallel
  ways agree with the sequential ones, and rows read back are the rows written.

The hazards in `PROJECT.json` point at the line where each of these bites; those
with a note and no property say why.

## 2. Modules and how they follow the code

### JobService, WorkerChannel (`api/worker.rs`)

`JobService` is the promise of `run_on_worker` without channels: jobs run one at a
time, a call returns how its own job ended or is refused, an R error lets a call
escape while its job still runs, the service stops only between two jobs and may
then be started again, as a package is that is loaded after an unload.
`WorkerChannel` never takes that last step, though `init_worker` means it to
(section 6); what is shown is that it breaks none of the other promises.

`WorkerChannel` has R's main thread, the worker and a thread in `shutdown()`.

| Code | Module |
|---|---|
| `miniextendr_runtime_init`, `init_worker` | `InitSpawns`, `InitSpawnFails`, `InitLockPoisoned`, `InitAgain` |
| `run_on_worker`, `dispatch_to_worker` up to the send | `Dispatch`, `DispatchRefused`, `DispatchLockPoisoned`, `HandJob`, `SendError` |
| its event loop | `Serve`, `WorkEnds`, `WorkRError`, `ContinueUnwind`, `TakeDone` |
| the job on the worker | `Request`, `RecvAnswer`, `JobPanics`, `JobEnds`, `SendDone`, `NestedRunOnWorker` |
| `miniextendr_runtime_shutdown` | `StopBegins`, `StopNothing`, `TakeShutdown`, `StopReturns`, `WorkerExits` |

Channels belong to a dispatch, as in the code, so an abandoned dispatch keeps its
channels after the jump; `outcome` and `ended` are what the caller and the worker
saw of each job.  The re-entry guard reads the thread-locals of the calling
thread, hence `tls` is the worker's alone.

### FfiCalls (`api/unwind_protect.rs`, `ffi_guard.rs`, wrapper templates)

The stack is a sequence of frames, `ctl` says how control moves over it: the top
frame runs, its body unwinds with a payload, it returns a value or a tagged
condition, or R unwinds contexts to a target.  One action is one frame's handling:

| Code | Module |
|---|---|
| generated main-thread and worker wrappers | `Enter`, `Dispatch`, `ConvertResult`, `ReturnToR` |
| `run_r_unwind_protect`: trampoline, cleanup handler, `R_ContinueUnwind` | `PanicToTag`, `JumpLands`, `ContinueUnwind` |
| `with_r_unwind_protect_sourced`, fallback guards | `PanicToJump`, `PanicToFallback` |
| shims and `repanic_if_rust_error` | `CallRust`, `ReturnToRust` |
| `fold_panic_message` (worker) | `PanicToString` |
| `drain_log_queue` on the exits of `run_r_unwind_protect` | `DrainPrints`, `DrainReturns`, `DrainFails`, `JumpPassesDrain` |
| `GetRNGstate`, `PutRNGstate` in the templates | `Enter`, `ReturnToR`, `Draw` |

`aim`, `raised`, `failing` and `skipped` are history: what the last jump and panic
meant, whether an error is unseen, what jumps went over.  R's evaluator, handlers
and contexts are external: an R frame either catches or not, and a jump may be
aimed at any catching frame (condition classes decide in R).

Before a value, a caught panic or a caught jump leaves a frame, the frame prints the
log of other threads.  A print can fail (`DrainFails`: its error replaces what was
leaving), or be led by `sink()` to a connection written in Rust, whose callback runs
as a frame of kind "print": there R code, calls, panics and further jumps may happen,
while the exit waits in the `held` of that frame.  A jump caught in the callback
overwrites the token of one that waits (history `skipped` has "token" from then on),
and if its target has ended by the time the outer jump goes on, what R does is
undefined (`ContinueNowhere`, which begins a new session).

### ProtectPool, ExternalPtr (`api/protect_pool.rs`, `api/externalptr.rs`)

The pool is a record with operators named for its methods: `Insert`/`InsertKey`,
`Release`, `Get`, `ContainsKey`, `Grow`, `AllocSlot`.  `ExternalPtr` keeps one in
the variable `pool` (`EXTPTR_ROOTS`).

`addr[o]` is R's address slot of object `o`: a value (an allocation), `Null` once
cleared, or `Consumed` for a box with `ConsumedSlot`.  `handle[h]` is a Rust
handle: object, cached pointer and root key (`NoKey` for the borrowed ones).
`within[h]` is the value that has the handle as a field.

| Code | Module |
|---|---|
| `new`, `from_raw`, `create_extptr_sexp`, `root_owned` | `Make`, then `Root`; between them R may collect |
| `wrap_sexp`, `TryFromSexp`, `reborrow` | `WrapSexp`, `FromR`, `Reborrow` |
| `Drop`, `into_sexp`, `into_raw`, `into_inner` | `DropHandle`, `IntoSexp`, `Unbox` (with `GiveOut`, `MoveOut`) |
| generated method wrappers | `CallByRef`, `CallByValue`, `CallEnds`, `StepReturns` |
| write-back of a fallible `self` method, `*self_slot = value` | `TryReturns` |
| `release_any`, `drop_catching_panic` | `Collect`, `DropPanics` |

`into_raw` hands out the handle's cached pointer whatever the object holds by then,
and a fallible method drops and overwrites the value that its reference names, also
if the box has been freed.  A value that gets a second owner by either has the fate
"twice"; there the model stops (`Undefined`), since all that follows is undefined.
A borrowed handle whose object has been collected stays where it is but is not
used: using it is outside the contract of `wrap_sexp`.  An object that nothing
refers to after its collection may be allocated again, so that a small number of
objects stands for any number in sequence.  A value has at most one handle field.

### RefCountedArena, GcProtect (`api/refcount_protect.rs`, `gc_protect.rs`, `gc_protect/tls.rs`)

`RefCountedArena` is the arena as a record (`map`, the list's slots, the free list
and the cursor) with an operator for each method: `Protect`, `Unprotect`, `Grow`,
`WithSlot` (`allocate_slot`), `Clear`.  `GcProtect` has guards of every kind in
nested `.Call`s, R's protect stack, a collector and one such arena.  `MCGcProtect`
gives the constants of the run.

| Code | Module |
|---|---|
| `ProtectScope::new`, `with_protect_scope` | `OpenScope`, `WithProtectScope` |
| `protect`, `protect_raw`, `protect_with_index`, `tls::protect` | `ScopeProtect`, `ProtectWithIndex`, `TlsProtect` |
| `ReprotectSlot::set`, `take`, `replace`, `clear`; `set_with` | `SlotSet`; `SlotSetWith`, whose closure may allocate |
| `OwnedProtect` | `OwnedProtect`, `DropStackGuard` |
| drops of scopes; `disarm` | `PopEntries` in `DropStackGuard` and `ScopeReturns`; `LeaveEntries` |
| `ArenaGuard::new`, its drop, `clear`, `grow` | `ArenaGuard`, `DropArenaGuard`, `ClearArena`, `GrowFails` |
| R | `NewObject`, `Collect`, `Enter`, `Leave`, `RError` (through `Jump`) |

A jump takes back the stack entries of the calls it leaves and drops none of
their guards: arena counts keep them (`orphans`), and a guard of an outer call
goes on counting entries that are gone (`miscounted`).

### LogQueue, WorkerPump (`api/optionals/log_impl.rs`, `api/pump.rs`)

`LogQueue` is the queue with `DROPPED`, any threads that log and a main thread that
drains in the steps of the code: swap the counter, print the warning, take the
queue, print record by record.  `WorkerPump` extends it by the runs of a pump and
the exit of the call around them.

| Code | Module |
|---|---|
| `RLogger::log`, off and on main | `ThreadLogs` (`PushRecord`, `DropOldest`); `MainLogs`, `RenderOwn` |
| `drain_log_queue` | `StartDrain`, `SwapDropped`, `RenderWarning`, `TakeAll`, `RenderNext`, `Drained` |
| a print that fails | `RenderFails` |
| `WorkerPump::run` up to the spawn | `Spawn` |
| its loop | `Receive`, `Tick`, `DrainGoesOn`, `PumpReturns`, `Disconnected`, `Join` |
| what may go wrong in it | `PumpPanics`, `PumpRError`, `DrainRError` |
| the worker (any closure) | `BeginSend`, `SendReturnsOk`, `SendReturnsErr`, `WorkerEnds` |
| `run_r_unwind_protect` on the way out | `Exit`, `Leave` |

Each record is known by its place in the history `calls`; `lostCount` counts what
a failed print lost of the count, which the code does not know.

### AltrepIter (`api/altrep_data/iter/state.rs`, `sparse.rs`, `windowed.rs`, `stream.rs`)

One vector of one of four kinds over a source that may be shorter or longer than
declared.  An element of the source is its index, so that a wrong answer shows.

| Code | Module |
|---|---|
| `IterState::get_element`, `materialize_all` | `PrefixElement`, `PrefixMaterialize` |
| `SparseIterState::get_element` | `SparseElement`, `NextTracked` |
| `WindowedIterState::get_element`, `advance_to`, `materialize_all` | `WindowElement`, `WindowAdvance`, `WindowMaterialize` |
| `StreamingIntData`, `StreamingRealData`: `ensure_chunk`, `elt` | `StreamElement`; `StreamGrows` is the reader's source |
| their `get_region` | `StreamRegion`, one index of it |

`Pull` is what some calls of `next()` come to: all succeed or the source ends, or
one panics, or R jumps out of it (with or without having used up its element).
A panic gives the `RefCell`s back, a jump leaves them borrowed (`borrowed`); a
`next()` that reads its own vector meets the same borrows.  A region of a stream is
read past the chunk cache, borrowed or not; for the other kinds it is a sequence of
element reads.  `readAt` records what the source had when a chunk was read, so that
`Outgrown(i)` can say that the chunk of i is older than element i.

### Columnar, FrameReader (`api/serde/columnar.rs`, `dataframe_de.rs`)

A value is a record by kind, a type a record that the reader is driven by, a column
name the sequence of its parts between underscores.  The code nests: a field map has
maps of sub-fields, a serializer calls itself for a struct within a row.  The model
is flat: the map of a schema goes from *paths* (keys from the row down) to routes,
and a row is known by `Calls(row)`, the sequence of calls its `Serialize` makes, one
for each field at any depth and one for the end of each struct.  Discoverer and
filler work call by call, as the code does, and nothing in `Columnar` is RECURSIVE.
`Calls` is a constant, since serde derives it; `Nested` says what is assumed of it.

| Code | Module |
|---|---|
| `SchemaDiscoverer` | `Process` (one call), `Discover` |
| `SchemaAccumulator`, `resolve_candidates`, `remap_field_map` | `Feed`, `Merge`, `Resolve`, `Remap`, `Unify`, `Finalize` |
| `ColumnBuffer`, `ColumnFiller` | `PushValue`, `PushNA`, `Pad`, `FillCall` (one call), `FillRow`, `FillRows` |
| `vec_to_dataframe`, `iter_to_dataframe` | `VecToDataframe`, `IterToDataframe` |
| `par_iter_to_dataframe`, `..._growing` | `ParIterToDataframe`, `ParGrowingToDataframe` |
| enum adapters | `FlattenEnums`, `CollatedRow`, `Spread` |
| `SerdeRowBuilder` | `Init` (`new`, `with_schema`, `grow_schema`), `Push`, `Absorb`, `Backfill` |
| `RowMapAccess`, `MaybeNestedDeserializer`, `DfVariantAccess`, `CellDeserializer` | `ReadFields`, `Read`, `TagIsNA`, `ReadVariant`, `ReadCell` |

`Bears(cs, s, rows, p)` says that the column which bears the name of path p holds, in
every row, the value at p (or NA); `Doubled(s, p)` that two columns bear it.

The state machine is the builder; the other converters are functions, checked in
each of its states on the rows offered so far.  The reader is driven by a type and
returns a nested value, so `FrameReader` is RECURSIVE and for TLC only.  `MCColumnar`
has the rows and the calls they make: one table of maps with any keys and kinds, and
tables of four types (nested options, enum fields, enum rows, a field named as tag
columns are).

## 3. Runs

| Run | Kind | What it asks |
|---|---|---|
| `worker` | pass | the request protocol, the inductive invariant, the refinement of `JobService`, and that every dispatch and every shutdown ends and the worker recovers, with re-entry, R errors and two stoppers |
| `worker_wedge` | violation | a request made after a jump is answered |
| `ffi_safety` | pass | where panics stop and jumps end, also around a printing log; failures, conditions and the RNG state survive; the inductive invariant |
| `ffi_drops` | violation | resources are dropped before R goes on unwinding |
| `extptr_safety` | pass | ownership of values and the two ways a value can get a second owner, roots of owners, no leak in the pool, the consumed marker |
| `extptr_reentry` | violation | a method body never goes on with a consumed value |
| `extptr_growth` | violation | the pool may allocate while it grows |
| `gc` | pass | what each guard keeps alive, whether stack and arena balance, and the arena's own consistency |
| `pump` | pass | no record uncounted or out of order, logs before messages, nothing lost on return, the join, every run ends, records leave the queue |
| `altrep` | pass | answers are right and repeatable for all four caches, whatever was read before and whatever failed |
| `columns` | pass | columns keep path and type, hold what was given, parallel and sequential conversions agree, rows come back |
| `columns_grow` | violation | in a growing builder each named column holds the values of its path |

A violation run states what the repository says of its own program and shows what
the code does instead; section 6 explains each.  `PROJECT.json` has, for every
property of a passing run, a plausible mistake in the code that breaks it.

Some properties carry the condition under which the code keeps its word:
`RngSavedUnlessJumped`, `JoinedUnlessJumped`, and the history variables `mixed`,
`miscounted`, `tlsLost`, `clearedUnder`, `lostInGrow`, `wasted`, `refused`, the
"token" in `skipped`, and the predicates `Wedged`, `OvertakenStopper`, `Outgrown`,
`Doubled`, `WritesBack`, `StaleIntoRaw`.  Each condition names a state the code does
reach, and section 6 says what happens there.

`SendsNeverBlock`, `ResultIsOwn` and `OutcomeIsFinal` are not listed in `worker`:
they are proved from `IInv`, which is.

## 4. Bounds and fairness

- `worker`: three dispatches (one running, one abandoned by a jump, one new)
  with at most two requests each, which is what it takes for an answer to reach
  the wrong request or job.  R code run by a closure may dispatch again
  (`Reenter`), a job may make requests after an R error (`CallsAfterLongjmp`), and
  `shutdown()` is called by R and by another thread.  In three states nothing ends
  the wait (section 6); `Wedged` names them, and the progress properties say that a
  call ends *or* comes to one of these three, so that they hold of everything else
  in the same run.  `worker_wedge` shows that one of them is reached.
- `ffi_safety`: five frames.  Two interrupted jumps nested in one another, with R
  code between them and a handler below, need five; the shared token is at risk
  from two on.  One random number is enough to see a lost draw; `Holders` is the
  kind of frame that may hold a resource.
- `extptr_safety`: two objects at a time, three values, two handles, two nested
  calls; the pool starts with one slot, so that it grows, reuses slots and wraps
  its generations (modulo 2).  A call within a call is followed while at most one
  object has been seen by anybody but its first handle (`Bound` in `MCExternalPtr`):
  calls on one object, and a call on one while the other is still exclusive; the states
  with both shared are checked and not followed, and the proofs have no such bound.
  `extptr_growth` needs three objects at once and
  finds its trace within eleven steps; `extptr_safety` has too few objects to
  reach the abort.
- `gc`: two objects, two guards, two nested calls, two stack entries; an arena of one
  slot, so that it grows and reuses slots; one arena guard lost to a jump.  Two of
  each is what it takes to drop guards out of order and to protect through an
  outer scope.  Once entries are out of order nothing more is pushed, and after a
  stale pointer in `SCOPE_STACK` no scope is opened (named in the guards of `Push`
  and `WithProtectScope`): what follows is undefined behaviour.  A state with three
  kinds of mishap at once (`Bound` in `MCGcProtect`) is checked and not followed; the
  proofs have no such bound.
- `pump`: one thread beside main and the worker, a queue of two, four calls of
  `log()`, so that the queue overflows before, in and after a drain; record 2 holds
  a NUL byte, for which printing skips it.  One run, over a rendezvous or a one-slot
  channel, with two sends: the worker can be blocked with a message in the channel
  and another in hand.
- `altrep`: a vector of four over sources of none to six elements, windows and chunks
  of one to three: shorter, as long as and longer than declared, windows that move
  more than once, a last chunk that is not full.
- `columns`: all sequences of up to three rows from the tables of `MCColumnar`, each in
  every mode of the builder, and chunks of one to three rows.  Three rows are a
  first shape, a second that adds or contradicts, and one that follows; structs
  nest twice.  No field name has an underscore (the reader's documented limit) and
  fields of one name in several variants have one type.
- `columns` assumes, and TLC evaluates for the rows of `MCColumnar`: serializers call
  each path once, end a struct once and after its fields (`CallsAssumption`; derived
  implementations do, and flattened fields whose keys clash do not, see section 6);
  the columns given to `with_schema` are not none and have distinct names
  (`DeclaredAssumption`; the code checks neither).
- Deadlock is not checked where the program may simply stop: R need not call the
  package again (worker, pump), all values may have been used up (ExternalPtr), all
  rows are pushed (columns).  In `ffi_safety`, `gc` and `altrep` it is.
- Fairness is stated for the worker and the pump only: weak fairness of the main
  thread's loop, of the worker, of the rendezvous of the two and of the return from
  shutdown.  The operating system schedules threads that can run, and jobs,
  closures and the worker's closure are assumed to terminate.  Nothing is assumed
  of R: it need not load, call, log or unload anything.  The other components
  state no liveness: they act when R or the Rust program calls.

## 5. Proofs

The modules `*Proofs` prove the theorems listed in `PROJECT.json` for all values of
the constants.

- **WorkerChannel.**  The safety properties are not inductive: that an answer is
  for the newest request depends on where both threads are and on what the
  channels hold.  `IInv` says this: `LifeInv` relates init, the slot of the
  worker and shutdown; `WorkerInv` and `MainInv` the program counters to the job
  in hand; `JobInv` outcomes to ends; `ChannelInv` what may be in the channels of
  the job being served.  `Init => IInv` and its preservation have one step per
  action; `ServedWaits`, `AnswersMatch`, `SendsAreFree`, `OwnResults` and
  `UnloadIsSafe` follow from it.  The last says that who took the worker's state
  returns from `shutdown()` only when the worker is gone, and that an unload leaves
  no worker in the package's code, unless it overtook another thread's `shutdown()`
  (`OvertakenStopper`: a second caller returns at once).  `OutcomesAreFinal` is an
  action property.
  `Refinement` maps outcomes, ends and the worker's life to `JobService` and
  shows that each step is a step or a stutter of it.
- **FfiCalls.**  `Shape` says which frames may stand on which, `Control` what the
  top frame is for each kind of control; with the types and three of the
  properties they are inductive (`Invariance`).  Lemmas on pushing, popping and
  rewriting the top frame carry `Shape` over every action.  `JumpsArrive` is the
  argument for the single continuation token: a jump can be overtaken only by
  one raised above it, which replaces it, or by one caught in what a drain prints.
  The second is the exception that the property names ("token"), and without it the
  invariant has to say what a waiting exit is owed: `HeldExits` says of each print
  frame that the error it holds is still one, that its panic carries what was
  raised, and that its jump's token is intact or known to be lost.  `RngIsSaved` is
  proved beside it.
- **ProtectPool, ExternalPtr.**  `ExternalPtrProofs` begins with the lemmas of the
  pool: insertion takes a free slot with a key nobody else has, release empties
  exactly the slot of its key and hands it to the free list, growth keeps every key.
  `PtrInv` adds to the types that owning handles have distinct live slots that hold
  their objects (`Roots`), that a value sits in one place (`OneOwner`), that addresses,
  fields and handles name allocated values (`Lives`), that an object seen by no one
  else agrees with its handle (`Alone`) and that a by-value call keeps its marker
  (`StepCalls`).
  None of them is inductive without the others: releasing a root is safe only
  because no other owner has its slot.  `OwnershipEnds` is an action property in two
  parts: what was moved out, dropped or leaked stays so or becomes "twice", and "twice"
  comes about in no other way than by `WritesBack` or `StaleIntoRaw`.
  `OwnershipIsUnique` and `ExclusiveMeansValid` hold up to that state, after which two
  owners are at odds and nothing is claimed.
- **RefCountedArena, GcProtect, the arena.**  `GcProtectProofs`: `ArenaOK` (types,
  slots, list, counts) is preserved by each method of the arena; `GInv` adds that an
  entry counts its holders and those lost to a jump.  From it the three theorems on
  arena guards.
- **GcProtect, the protect stack.**  `GcStackProofs`.  Neither `StackBalanced` nor
  what a stack guard protects is inductive: that dropping n entries removes one's own
  depends on where everybody's entries are.  `CoreInv` says where.  `Base(k)` is the
  sum of the counts of the k oldest guards and `Segment(k)` the entries between
  `Base(k-1)` and `Base(k)`.  Unless an R error took entries from under a guard
  (`miscounted`), the stack is as high as the base of all places (`Balanced`), and a
  call began at the base of the guards older than it, or below it if one of them has
  pushed since (`outer`).  So an R error, which cuts the stack to the height its
  target began with, takes exactly the segments of the guards of the calls it leaves,
  or is recorded in `miscounted`.  Unless guards were also used out of order
  (`mixed`), each guard has its objects, and its slot, in its own segment (`Kept`).
  The first part of the module is about sums: `MapThenSumSet` folds in an order that
  `CHOOSE` picks, and is shown to be the number of pairs of a guard and one of its
  entries; then what one guard more or less, an entry more, or a cut does to every
  base.  Where an induction over finite sets is needed it is made by a smallest
  counterexample (`SubsetInduction`, from `WFMin`).  `TlsInv` keeps `SCOPE_STACK` and
  the ages of its scopes.  `GuardsKeepAlive` joins this half with the arena's.
- **LogQueue.**  `LInv` says where a record can be: queue, batch, console, lost or
  counted, in this order of age and in one place only.  `LogDropsAreCounted` is the
  conservation law over the separate steps of the drain, for any number of threads
  and any capacity; `LogPrintedInOrder` follows from the order of the places.
- **WorkerPump.**  `PumpImplementsLogQueue` is a refinement: whatever a run does, it
  uses the queue only through `LogNext`, so both laws carry over.  `RunInv` follows
  each message from its send to the pump; `Stamped` and `CallsBound` relate its
  stamp to the history of records, which `LogsComeFirst` needs.  Type correctness
  needs `PumpBounds`: a message is counted as tried before it is counted as sent,
  and a channel exceeds its capacity by the one message that main waits for.
- **AltrepIter.**  `RepeatableReads` compares an answer with an earlier one, so the
  invariant must say what becomes of an answer between the two.  `Recalls(i, v)` says,
  for each kind, that the memory as it is now answers v for index i *and* that what
  the source still has cannot change it: the NA given past the end stays only because
  the iterator is spent, the NA of a skipped index because the position is past it.
  `AnswersRecalled` holds every answer to that, `MemoryRight` says that what is cached
  has its own index, for each kind as far as no `next()` that failed used up elements.
  `OrderInv` says, whatever failed, that the memory answers in the order of the
  indices and that the source is past all it has answered.  With the types they are
  inductive (`IInv`); each kind has a lemma for each operation that reads, runs or
  materialises it.  A region of a stream answers without the memory: it agrees with it
  where the source has not outgrown the chunk, which `readAt` decides.
- **Columnar.**  Rows are data of any depth, and induction over data is out of the
  prover's reach.  What makes a proof possible is that the code never looks at a row
  as a whole: it sees the calls of `Calls(row)` one by one, so every induction is on a
  number of calls, keys, rows, columns or chunks (made by `Least`, the smallest
  counterexample).  `Shaped(s)` is the invariant of a schema: leaves of the map and
  columns correspond one to one and each column is named after its path, each struct
  spans exactly the columns below its path, and parents of paths are structs. `DInv`
  carries it through the calls of a row: while a struct is open its span is not yet
  known, and the fields seen since are all below it because its end comes before
  anything else (`Nested`).  `FinalizeShaped` carries it through union: candidates of
  one key are each shaped, resolving takes one, remapping moves all of its routes by
  one distance and so past the columns of all earlier keys (`RemapSound`,
  `JoinSound`); growth adds one leaf at a time (`GrowShaped`). Writing is `FInv`:
  after k calls a column is filled just if one of the k calls touches it, that is, the
  call of its own field, an absent struct above it, or the end of one above it, and
  its new cell is then `CellOf` of the row's value at its path.  `Nested` gives that
  the first to touch it is decided (`FirstTouch`), and that after the last pad none is
  left untouched.  `FillRowsIs` sums this up: what rows leave in the columns is a
  function of schema and rows, or all fails at the first row that does not fit.
  `Built` says this of a builder; with `Settled` and `Push` it is the inductive
  invariant `IInv` (`SchemaStaysRight`, `CellsStayRight`). That a column holds the
  values of the path it is *named* after needs that growth adds no second column of a
  name except for the case `columns_grow` shows (`Doubled`): a name is a non-empty
  sequence of parts, names follow paths (`NameGoesOn`), a column once named keeps its
  path (`NamedOnce`), and what is added to a schema follows what is there
  (`Followed`). `ParallelIsSequential` needs two facts more: merging accumulators of
  consecutive runs of rows is feeding the rows in order (`MergeFeed`, `MergeAdd`:
  concatenating lists of candidates is associative, and keys keep the order of first
  appearance), and the chunks are the rows cut at multiples of the chunk size, the
  last one short (`ChunksAre`), so that `FillRowsIs` on chunks appends to `FillRowsIs`
  on all rows.
- The assumptions are the named ones on the constants (bounds are naturals, a
  capacity is positive, markers are not values, serializers nest their calls, declared
  columns have distinct names).  TLC evaluates them in the runs.
- Only model-checked: liveness (`EveryDispatchReturns`, `ShutdownReturns`,
  `WorkerRecovers`, `RunEnds`, `RecordsLeaveQueue`: progress under fairness is beyond
  this prover), and `RowsComeBack`.  The reader returns a value as deep as the type it
  is given; what it computes for every type is an induction over the types
  themselves, for which the prover's library has no theorem it can instantiate.
  Every other safety property that a run checks is a theorem.  The violation
  runs are counterexamples, for which nothing is to be proved.
- What a proof attempt changed.  With three nested calls a scope of the first can
  protect in the third: the entry lies above the height at which the second began
  too.  The model marked only the call under way as having been protected through
  from outside; `Through` marks every call younger than the scope.  The run `gc`
  has two calls, since with three its state space is too large, and could not tell;
  the theorems hold at any depth.  And `Columnar` had followed the code's
  recursion, which no proof could reach; rewritten by paths and calls it is shorter,
  nearer to how serde drives the code, and the run `columns` gives the same verdicts.

## 6. Divergences found

Shown by a run:

1. **`extptr_growth`, a defect.**  `root_owned` keeps `EXTPTR_ROOTS` mutably borrowed
   while the pool grows; growing allocates, R may run finalizers, and one that
   drops a value owning another `ExternalPtr` borrows the pool again, panics and
   aborts the session.  The comment at `externalptr.rs:801` says it is safe.
2. **`extptr_reentry`.**  A body with `&self` or `&mut self` that calls R code which
   consumes the object goes on with a freed value; only *new* calls are refused
   with "was consumed".
3. **`worker_wedge`.**  After an R error has jumped out of the event loop, the leaked
   receiver keeps the channel open: a destructor that calls `with_r_thread`
   sends into it and waits for ever.
4. **`ffi_drops`**.  A jump skips the destructors of the body it leaves, against
   `unwind_protect.rs:434`.
5. **`columns_grow`**.  A growing builder looks for the names of flattened columns
   among the keys of the field map, where a nested struct has its own key `m`, never
   `m_a`.  So every later row with `m` adds columns `m_a` again, filled with NA for all
   rows, its own included, while its values go where the key `m` leads: to the first
   columns, or, if `m` was first seen as NA, to one list column.  The comments at
   `columnar.rs:961-962` and 1200-1203 have new fields added and only *prior* rows
   filled with NA.

Seen while modelling, with no run (the models do what the code does; where a
property carries a condition for it, it is named):

Worker, boundary and pump:

- The guard against re-entry (`worker.rs:574`, `921-922`) looks at the worker's
  thread-locals; R code run by a closure on the main thread passes it, and both
  threads wait for each other (`Reenter`, `Wedged`).
- The jumps of all frames share one continuation token.  Between catching a jump and
  going on with it the frame prints the log; if the output is diverted to a Rust
  connection whose callback calls R code that fails and is caught, the token has the
  target of *that* jump, and the outer one goes to a frame that has ended or to a wrong
  handler ("token" in `skipped`, `ContinueNowhere`).  A print that fails replaces a
  value, a panic or a jump on its way out.
- A jump out of an rng function skips `PutRNGstate`: an R error in its body does, and
  so does one in the log drain behind it (`RngSavedUnlessJumped`).  `rng.rs:5` and 13
  have the state saved "even on error"; lines 64 and 139-141 claim it for success and
  panic only.  An rng function that calls R code which loads the RNG state itself
  loses the numbers it has drawn and not yet saved.
- A condition raised on the worker arrives as "unknown panic", against
  `CONDITIONS.md` (`MainConditionsKept` is about the main thread).
- An R error in the pump closure jumps over the scope: the worker goes on with
  borrows of frames that are gone, and a receiver that nobody reads, against
  `pump.rs:27-33` and `119-124` (`JoinedUnlessJumped`).
- `worker.rs:837-841` says that a later load in the same process, after a shutdown,
  should be able to spawn a fresh worker.  `RUN_ONCE` has completed and keeps it from
  being spawned again, and every dispatch after the reload is refused (`InitAgain`;
  `JobService` allows `Start` after `Stop`, `WorkerChannel` never does it).  A retry
  after a failed spawn meets the poisoned mutex, not the advice printed with the first
  failure.
- A dispatch racing a shutdown from another thread panics with the text for a
  worker that died; a second caller of `shutdown()` returns while the first still
  joins (`OvertakenStopper`), so that an unload may go on under a live worker.  A
  package unloaded from inside a closure waits for itself.
- A log print that fails loses the rest of its batch, and that loss is not added to
  `DROPPED`; a failed warning loses the count it was about to print (`lostCount`).
- `R_ContinueUnwind` does not wait for the job to be done (`docs/SAFETY.md:168`).
- `check_arity` of a trait shim raises its `Rf_error` outside unwind protection
  (`trait_abi/conv.rs:276`).

Handles, guards and arenas:

- `reborrow()` is safe and its alias may consume the object under the owner
  (`into_inner`), against the comment on `cached_ptr` (`externalptr.rs:558-564`).
  `into_raw` on an alias hands out the cached pointer even when the object has been
  cleared, consumed or refilled since: an allocation with two owners, or a freed one
  (`StaleIntoRaw`); a newer value is leaked.
- A fallible `self -> Result<Self, E>` or `Option<Self>` method whose body has R code
  consume the same object writes back through its reference: it drops a value that has
  been moved out and writes to a freed box (`WritesBack`).
  `docs/EXTERNALPTR.md:186` calls `Drop` a no-op; it releases the root.
- A pool key of another pool is only a no-op if slot or generation differ
  (`protect_pool.rs`, `release`); generations wrap at 2^32.
- `SCOPE_STACK` keeps its pointer when an R error leaves `with_protect_scope`, whose
  cleanup is called panic-safe (`tls.rs:64`): the next `tls::protect` follows it
  (`tlsLost`).
- A scope that protects through an outer call's scope, or from an inner one while
  an older one is open, pops entries of others when it ends (`mixed`), and after an
  R error a scope of an outer call counts entries that R took back (`miscounted`).
- An arena that grows allocates before its new object is in the list, while its
  `RefCell` is borrowed: an object that nothing else roots may be collected
  (`lostInGrow`), an R error leaves the arena borrowed for good.  `clear` under live
  guards makes their drops release what others protect later (`clearedUnder`).

ALTREP vectors:

- A window that R reads behind materialises what is left: the elements it had moved
  past are replaced by the first one it still holds (`windowed.rs:166-172`), so that
  element 0 read after element 2 through a window of two answers element 1;
  lines 21-22 promise "full caching" (`GoneFromWindow`).
- Elements that a failing `next()` used up are skipped: later reads answer their
  successors (`wasted`).  An R error in `next()` leaves the cells borrowed, and every
  later read that needs the iterator panics.
- A chunk read when the source of a stream was short is kept as it is: later reads of
  its missing elements answer NA, while a `get_region` over the same indices answers
  the elements that the source has by now (`Outgrown`).
- A window whose source ended early has moved past what it did not keep, and answers
  NA for indices the source had (`CutOff`).

Rows and columns:

- A `push` that fails half way leaves columns of different lengths and marks that
  are not reset (`refused`); a later `finish` panics in `copy_from_slice`, though
  `columnar.rs:1259` has the lengths "maintained by push".
- An `Option` field whose name has an underscore reads back as `None`, although
  `dataframe_de.rs:56-58` says that it "will fail unless the column is renamed".
- In a growing builder a row that brings a new nested struct is refused when it is
  written, against lines 961-962.
- For type clashes `columnar.rs:1122-1125` says that a value "is coerced or NA-filled"
  and "No new error is raised"; a list or struct in a column of an atomic type is an
  error.
- Two fields of one name in a row (a tag column named like a field, a clash through
  serde's `flatten`) write a column twice, and the lengths differ.
- An enum field that is not flattened and has unit and struct variants becomes a
  character column and then fails, where the documentation has a list column; a
  top-level `None` is tolerated when the schema is discovered and refused when the
  rows are written; a table of nothing but absent enums has "no fields".

## 7. What is not modelled

- Inside modelled components: texts and locations of panics; `AltrepGuard::Unsafe` (no
  guard, by the user's choice); type tags and downcast failures; `Pin`,
  `ExternalSlice`, `ProtectPool::replace` and other owners of a pool;
  `WorkerUnprotectGuard` and `Protected`, which are owned guards under other names;
  overflow of the protect stack; `ThreadLocalArena`, the same arena without the borrow
  flag, and the drop of a whole arena; log levels; the `get_region` of the
  iterator kinds, which is a sequence of element reads; factors, logical columns,
  renamed and dropped columns, per-variant lists and maps of rows in the serde
  converters.
- Also left out of them: an R error from an allocation that fails while the root pool
  grows, which leaves `EXTPTR_ROOTS` borrowed for good; in `WorkerPump`, a print that
  re-enters a drain or logs (`FfiCalls` has the re-entry, not the queue); what follows
  once a value has two owners.  Between the drop of a handle by `into_sexp` and R's
  receipt of its object the exit prints with the object unrooted: a collection there is
  `DropHandle` followed by `Collect`.
- In the rows of the run `columns`: a newtype variant has no fields of its own (the code
  takes one for NA in a column of atomic type); names with underscores and fields that
  clash are left out of what `RowsComeBack` reads.  What a refused `push` leaves is not
  looked at (`refused`).
- `StackCheckGuard` (`thread.rs:130`): two atomics behind the feature `nonapi`, off by
  default.  A guard made between the last drop's decrement and its restore saves
  the disabled limit as the original one.
- The other conversions (`from_r`, `into_r`, `coerce`, scalars and lists of serde, data
  frame views, optional crates): functions on data without state or order.
- Code generation (`miniextendr-macros`), lint, command-line and vendoring tools, the
  embedded-R engine, benchmarks, the R packages: compile-time functions, file
  I/O, harnesses.  What generated wrappers *do* is in the modules above.
- R: its evaluator, contexts, collector and finalizer queue are external, modelled
  only as far as `src/` relies on them.

## 8. Plan

Done: worker channel, call boundary, handles and pool, guards and arenas, log queue
and pump, ALTREP caches, rows to columns, each with its safety properties proved; the
reader of columns, model-checked.  What could follow, in this order:

1. `FrameReader` by paths and calls, as `Columnar` is now, so that at least the reading
   of flat and singly nested types can be proved against `FillRowsIs`.
2. `vec_to_dataframe_split` with a list per variant, and the derive macro's own data
   frames (`miniextendr-macros/src/dataframe_derive.rs`) against the serde path.
3. The pool's other operations (`replace`) and the stack check guard, if its feature
   becomes a default.
