------------------------------- MODULE FfiCalls -------------------------------
(***************************************************************************)
(* The boundary between R and Rust: how a value, a Rust panic and an R     *)
(* longjmp travel over a stack of nested calls.                            *)
(*                                                                         *)
(* R code evaluates a generated C wrapper, on the main thread ("call") or  *)
(* dispatching to the worker ("workerPre", then "worker";                  *)
(* c_wrapper_builder.rs), an ALTREP callback guarded with RUnwind          *)
(* ("altrep") or RustUnwind ("altrepRust", ffi_guard.rs) or a connection   *)
(* callback ("conn").  Rust code evaluates R code ("R"), a trait method    *)
(* through a vtable shim ("shim", unwind_protect.rs), or, from the worker, *)
(* a with_r_thread closure ("serve", worker.rs).                           *)
(*                                                                         *)
(* call, altrep, shim and serve run their body under R_UnwindProtect: a    *)
(* panic is caught by the trampoline, a longjmp lands in R_UnwindProtect,  *)
(* becomes the panic RErrorMarker, is caught and resumed with              *)
(* R_ContinueUnwind on the one global continuation token.  Whichever way   *)
(* call, altrep and shim leave R_UnwindProtect, they then print the worker *)
(* threads' log records (drain_log_queue); printing may fail, and a sink() *)
(* may lead it to a connection whose write callback is Rust code ("print", *)
(* connection.rs): anything may happen there before the exit goes on.      *)
(*                                                                         *)
(* R itself is external: only its contexts, the target of a jump and the   *)
(* two copies of the RNG state are modelled.  WorkerChannel has the        *)
(* threads and messages that a worker frame abstracts.                     *)
(***************************************************************************)
EXTENDS Naturals, Sequences

CONSTANTS
  MaxDepth,   \* bound: frames on the stack
  MaxDraws,   \* bound: random numbers drawn
  Holders     \* bound: the kinds of frame whose bodies hold a resource

ASSUME BoundsAssumption == MaxDepth \in Nat \ {0} /\ MaxDraws \in Nat

VARIABLES
  stack,     \* the frames, outermost first; the last one executes
  ctl,       \* how control moves: see Ctl
  token,     \* R_CONTINUATION_TOKEN: the frame the interrupted jump goes to
  seed,      \* position of R's generator in .Random.seed
  rng,       \* ... and in R's C state, which GetRNGstate and PutRNGstate sync
  aim,       \* history: the frame the R jump under way was aimed at
  raised,    \* history: what the panic under way raised
  failing,   \* history: an error has been raised and no handler has seen it
  skipped    \* history: what jumps went over (a live Rust resource, a PutRNGstate)
             \* or overwrote ("token": the target of a jump still interrupted)

vars == <<stack, ctl, token, seed, rng, aim, raised, failing, skipped>>

Guarded   == {"call", "altrep", "shim", "serve"}      \* under R_UnwindProtect
Drainers  == {"call", "altrep", "shim"}               \* by run_r_unwind_protect
MainRust  == Guarded \cup {"workerPre", "altrepRust", "conn", "print"}
RustKinds == MainRust \cup {"worker"}
\* Entered from Rust code, to which they return.
FromRust  == {"shim", "serve"}
FromR     == MainRust \ (FromRust \cup {"print"})
RngKinds  == {"call", "workerPre", "worker"}

\* What a panic carries: panic!() "panic", error!() "error", warning!(), message!()
\* or condition!() "signal".  "unknown": an RCondition that was stringified to
\* "unknown panic"; its message, kind, class and data are gone.
Errors == {"panic", "error", "unknown"}
Whys   == Errors \cup {"signal"}

\* run: the top frame executes;  panic: its Rust body unwinds;  cleanup: its
\* RErrorMarker has been caught;  ret: it hands a value down, a tagged condition
\* if why # "value";  jump: R unwinds contexts down to frame to.
Ctl == [t : {"run", "panic", "cleanup", "ret", "jump"},
        why : Whys \cup {"-", "value"},
        to : 0..MaxDepth]
Run      == [t |-> "run",     why |-> "-", to |-> 0]
Cleanup  == [t |-> "cleanup", why |-> "-", to |-> 0]
Panic(w) == [t |-> "panic",   why |-> w,   to |-> 0]
Ret(v)   == [t |-> "ret",     why |-> v,   to |-> 0]
Jump(i)  == [t |-> "jump",    why |-> "-", to |-> i]

\* rng: #[miniextendr(rng)];  catches: R code that a jump can end in (tryCatch,
\* top level);  res: the Rust body holds a value with a destructor;  held, of a
\* print frame: the exit of the frame below that goes on after the printing.
Held == [ctl : Ctl, aim : 0..MaxDepth, raised : Whys \cup {"-"}, failing : BOOLEAN]
NoneHeld == [ctl |-> Run, aim |-> 0, raised |-> "-", failing |-> FALSE]
Frame == [kind : RustKinds \cup {"R"}, rng : BOOLEAN, catches : BOOLEAN,
          res : BOOLEAN, held : Held]
RFrame(c) ==
  [kind |-> "R", rng |-> FALSE, catches |-> c, res |-> FALSE, held |-> NoneHeld]
RustFrame(k, g) ==
  [kind |-> k, rng |-> g, catches |-> FALSE, res |-> FALSE, held |-> NoneHeld]
PrintFrame(h) ==
  [kind |-> "print", rng |-> FALSE, catches |-> FALSE, res |-> FALSE, held |-> h]

Things == {"resource", "PutRNGstate", "token"}

TypeOK ==
  /\ stack \in Seq(Frame) /\ Len(stack) \in 1..MaxDepth
  /\ ctl \in Ctl
  /\ token \in 0..MaxDepth /\ aim \in 0..MaxDepth
  /\ seed \in 0..MaxDraws /\ rng \in 0..MaxDraws
  /\ raised \in Whys \cup {"-"}
  /\ failing \in BOOLEAN /\ skipped \in SUBSET Things

Depth   == Len(stack)
Top     == stack[Depth]
Pop     == SubSeq(stack, 1, Depth - 1)
Push(f) == Append(stack, f)
Dropped == [stack EXCEPT ![Depth].res = FALSE]
\* Code that may call the R API directly: the worker's has to go through serve.
InMainRust == Top.kind \in MainRust
\* The frames an R jump raised at or above frame n may be aimed at: the innermost
\* handler, or an outer one if the condition's class does not match it.
Handlers(n) == {i \in 1..n : stack[i].kind = "R" /\ stack[i].catches}
\* Some frame prints before it continues a jump that it has interrupted.
JumpHeld == \E i \in 1..Depth : stack[i].held.ctl = Cleanup

Init ==
  /\ stack = <<RFrame(TRUE)>> /\ ctl = Run
  /\ token = 0 /\ aim = 0 /\ seed = 0 /\ rng = 0
  /\ raised = "-" /\ failing = FALSE /\ skipped = {}

-----------------------------------------------------------------------------
(* Calls in either direction.                                               *)

\* Mutant of Enter: an ALTREP callback loads the RNG state too.
EnterAnyRng(k, g) ==
  /\ ctl = Run /\ Top.kind = "R" /\ Depth < MaxDepth /\ k \in FromR
  /\ stack' = Push(RustFrame(k, g))
  /\ rng' = IF g THEN seed ELSE rng
  /\ UNCHANGED <<ctl, token, seed, aim, raised, failing, skipped>>

\* R enters a Rust callback; the rng variant of the wrapper loads the RNG state.
Enter(k, g) ==
  /\ ctl = Run /\ Top.kind = "R" /\ Depth < MaxDepth
  /\ k \in FromR /\ (g => k \in RngKinds)
  /\ stack' = Push(RustFrame(k, g))
  /\ rng' = IF g THEN seed ELSE rng
  /\ skipped' = IF g THEN skipped \ {"PutRNGstate"} ELSE skipped
  /\ UNCHANGED <<ctl, token, seed, aim, raised, failing>>

\* The arguments are converted: run_on_worker.  A worker that is already under
\* this call would never take the job (WorkerChannel).
Dispatch ==
  /\ ctl = Run /\ Top.kind = "workerPre"
  /\ \A i \in 1..Depth : stack[i].kind # "worker"
  /\ stack' = [stack EXCEPT ![Depth] = RustFrame("worker", Top.rng)]
  /\ UNCHANGED <<ctl, token, seed, rng, aim, raised, failing, skipped>>

\* Rust calls a View method's vtable entry, or the worker with_r_thread.
CallRust(k) ==
  /\ ctl = Run /\ Depth < MaxDepth
  /\ IF k = "serve" THEN Top.kind = "worker" ELSE k = "shim" /\ InMainRust
  /\ stack' = Push(RustFrame(k, FALSE))
  /\ UNCHANGED <<ctl, token, seed, rng, aim, raised, failing, skipped>>

\* Rust evaluates R code.
EvalR(catches) ==
  /\ ctl = Run /\ InMainRust /\ Depth < MaxDepth
  /\ stack' = Push(RFrame(catches))
  /\ UNCHANGED <<ctl, token, seed, rng, aim, raised, failing, skipped>>

RReturns ==
  /\ ctl = Run /\ Top.kind = "R" /\ Depth > 1
  /\ stack' = Pop
  /\ UNCHANGED <<ctl, token, seed, rng, aim, raised, failing, skipped>>

Acquire ==
  /\ ctl = Run /\ Top.kind \in Holders \ {"R"} /\ ~Top.res
  /\ stack' = [stack EXCEPT ![Depth].res = TRUE]
  /\ UNCHANGED <<ctl, token, seed, rng, aim, raised, failing, skipped>>

\* unif_rand in the body of an rng function (from the worker, routed to main).
Draw ==
  /\ ctl = Run /\ Top.kind \in {"call", "worker"} /\ Top.rng /\ rng < MaxDraws
  /\ rng' = rng + 1
  /\ UNCHANGED <<stack, ctl, token, seed, aim, raised, failing, skipped>>

\* The body returns: its resources are dropped; R_UnwindProtect ends normally.
BodyReturns ==
  /\ ctl = Run /\ Top.kind \in RustKinds \ {"workerPre"}
  /\ stack' = Dropped /\ ctl' = Ret("value")
  /\ UNCHANGED <<token, seed, rng, aim, raised, failing, skipped>>

\* run_on_worker gave Ok: the result is converted under with_r_unwind_protect.
ConvertResult ==
  /\ ctl = Ret("value") /\ Top.kind = "worker"
  /\ stack' = [stack EXCEPT ![Depth].kind = "call"] /\ ctl' = Run
  /\ UNCHANGED <<token, seed, rng, aim, raised, failing, skipped>>

-----------------------------------------------------------------------------
(* Panics.                                                                  *)

BodyPanics(w) ==
  /\ ctl = Run /\ Top.kind # "R"
  /\ ctl' = Panic(w) /\ raised' = w
  /\ failing' = (w # "signal")
  /\ UNCHANGED <<stack, token, seed, rng, aim, skipped>>

\* Mutant of PanicToTag: the panic goes on past the trampoline.
PanicPassesOn ==
  /\ ctl.t = "panic" /\ Top.kind \in {"call", "shim"}
  /\ stack' = Pop
  /\ UNCHANGED <<ctl, token, seed, rng, aim, raised, failing, skipped>>

\* Mutant of PanicToTag: no RCondition recognition, as on the worker path.
PanicToPlainTag ==
  /\ ctl.t = "panic" /\ Top.kind \in {"call", "shim"}
  /\ stack' = Dropped /\ ctl' = Ret("panic") /\ failing' = TRUE
  /\ UNCHANGED <<token, seed, rng, aim, raised, skipped>>

\* with_r_unwind_protect, with_r_unwind_protect_shim: unwinding has dropped the
\* body's resources; the payload becomes a tagged value of its kind.
PanicToTag ==
  /\ ctl.t = "panic" /\ Top.kind \in {"call", "shim"}
  /\ stack' = Dropped /\ ctl' = Ret(ctl.why)
  /\ UNCHANGED <<token, seed, rng, aim, raised, failing, skipped>>

\* fold_panic_message and the outer catch_unwind of the worker wrapper: the
\* message crosses the channel as a string; panic_payload_to_string does not know
\* RCondition.
Stringify(w) == IF w \in {"error", "signal"} THEN "unknown" ELSE w
PanicToString ==
  /\ ctl.t = "panic" /\ Top.kind \in {"workerPre", "worker", "serve"}
  /\ stack' = Dropped /\ ctl' = Ret(Stringify(ctl.why)) /\ failing' = TRUE
  /\ UNCHANGED <<token, seed, rng, aim, raised, skipped>>

\* with_r_unwind_protect_sourced and guarded_ffi_call(CatchUnwind): the panic,
\* whatever its kind, is raised as an R error from this frame, which has left
\* R_UnwindProtect.
PanicToJump ==
  /\ ctl.t = "panic" /\ Top.kind \in {"altrep", "altrepRust"}
  /\ stack' = Pop
  /\ \E i \in Handlers(Depth - 1) : ctl' = Jump(i) /\ aim' = i
  /\ failing' = TRUE /\ raised' = "-"
  /\ UNCHANGED <<token, seed, rng, skipped>>

\* guarded_ffi_call_with_fallback: the panic is swallowed on purpose.
PanicToFallback ==
  /\ ctl.t = "panic" /\ Top.kind \in {"conn", "print"}
  /\ stack' = Dropped /\ ctl' = Ret("value") /\ failing' = FALSE /\ raised' = "-"
  /\ UNCHANGED <<token, seed, rng, aim, skipped>>

\* Mutant of ReturnToR: PutRNGstate on success only.
ReturnToRNoPut ==
  /\ ctl.t = "ret" /\ Top.kind \notin FromRust \cup {"print"}
  /\ Top.kind = "worker" => ctl.why # "value"
  /\ stack' = Pop
  /\ raised' = "-"
  /\ seed' = IF Top.rng /\ ctl.why = "value" THEN rng ELSE seed
  /\ IF ctl.why \in Errors
       THEN \E i \in Handlers(Depth - 1) : ctl' = Jump(i) /\ aim' = i
       ELSE ctl' = Run /\ aim' = aim
  /\ UNCHANGED <<token, rng, failing, skipped>>

\* The wrapper ends: PutRNGstate, then the generated R wrapper looks at the
\* value.  .miniextendr_raise_condition raises an error with stop(); a warning or
\* message is signalled and the call returns NULL.
ReturnToR ==
  /\ ctl.t = "ret" /\ Top.kind \notin FromRust \cup {"print"}
  /\ Top.kind = "worker" => ctl.why # "value"
  /\ stack' = Pop
  /\ raised' = "-"
  /\ seed' = IF Top.rng THEN rng ELSE seed
  /\ IF ctl.why \in Errors
       THEN \E i \in Handlers(Depth - 1) : ctl' = Jump(i) /\ aim' = i
       ELSE ctl' = Run /\ aim' = aim
  /\ UNCHANGED <<token, rng, failing, skipped>>

\* Mutant of ReturnToRust: the caller does not look at the answer.
ReturnToRustUnchecked ==
  /\ ctl.t = "ret" /\ Top.kind \in FromRust
  /\ stack' = Pop /\ ctl' = Run
  /\ UNCHANGED <<token, seed, rng, aim, raised, failing, skipped>>

\* repanic_if_rust_error, route_to_main_thread: a tag or an Err becomes a panic of
\* the caller.  from_tagged_sexp reads the kind "panic" as an error.
ReturnToRust ==
  /\ ctl.t = "ret" /\ Top.kind \in FromRust
  /\ stack' = Pop
  /\ ctl' = CASE ctl.why = "value" -> Run
              [] ctl.why = "panic" /\ Top.kind = "shim" -> Panic("error")
              [] OTHER -> Panic(ctl.why)
  /\ UNCHANGED <<token, seed, rng, aim, raised, failing, skipped>>

-----------------------------------------------------------------------------
(* R errors: longjmp.                                                       *)

\* R code, or an R API function called by a Rust body on main, raises an error.
RError ==
  /\ ctl = Run /\ (Top.kind = "R" \/ InMainRust)
  /\ \E i \in Handlers(Depth) : ctl' = Jump(i) /\ aim' = i
  /\ failing' = TRUE
  /\ UNCHANGED <<stack, token, seed, rng, raised, skipped>>

\* The jump has come to its target, whose handler runs.
JumpArrives ==
  /\ ctl.t = "jump" /\ Depth = ctl.to
  /\ ctl' = Run /\ aim' = 0 /\ failing' = FALSE
  /\ skipped' = IF JumpHeld THEN skipped ELSE skipped \ {"token"}
  /\ UNCHANGED <<stack, token, seed, rng, raised>>

\* It passes over R code and over Rust frames that are not under R_UnwindProtect.
\* The values of a worker frame live on the worker, which unwinds by itself.
JumpPasses ==
  /\ ctl.t = "jump" /\ Depth > ctl.to /\ Top.kind \notin Guarded \cup {"print"}
  /\ stack' = Pop
  /\ skipped' = skipped \cup {x \in {"resource"} : Top.res /\ Top.kind # "worker"}
                        \cup {x \in {"PutRNGstate"} : Top.rng}
  /\ UNCHANGED <<ctl, token, seed, rng, aim, raised, failing>>

\* Over a printing callback and the frame it prints for, which has left
\* R_UnwindProtect: what that frame was about to return or continue is gone.
JumpPassesDrain ==
  /\ ctl.t = "jump" /\ Depth > ctl.to /\ Top.kind = "print"
  /\ stack' = SubSeq(stack, 1, Depth - 2)
  /\ skipped' = skipped \cup {x \in {"resource"} : Top.res}
                        \cup {x \in {"PutRNGstate"} : stack[Depth - 1].rng}
  /\ UNCHANGED <<ctl, token, seed, rng, aim, raised, failing>>

\* Mutant of JumpLands: the token keeps the target of the first jump.
JumpLandsOnce ==
  /\ ctl.t = "jump" /\ Depth > ctl.to /\ Top.kind \in Guarded
  /\ ctl' = Cleanup
  /\ token' = IF token = 0 THEN ctl.to ELSE token
  /\ skipped' = skipped \cup {x \in {"resource"} : Top.res}
  /\ UNCHANGED <<stack, seed, rng, aim, raised, failing>>

\* It lands in R_UnwindProtect, below the frames of the body: their destructors
\* do not run, and CallData.f, taken by the trampoline, is empty.  The target is
\* kept in the token; cleanup_handler panics with RErrorMarker.
JumpLands ==
  /\ ctl.t = "jump" /\ Depth > ctl.to /\ Top.kind \in Guarded
  /\ ctl' = Cleanup /\ token' = ctl.to
  /\ skipped' = skipped \cup {x \in {"resource"} : Top.res}
                        \cup {x \in {"token"} : JumpHeld}
  /\ UNCHANGED <<stack, seed, rng, aim, raised, failing>>

\* R_ContinueUnwind diverges: what follows in the wrapper, PutRNGstate too, is
\* not reached.
ContinueUnwind ==
  /\ ctl = Cleanup /\ token < Depth
  /\ stack' = Pop /\ ctl' = Jump(token)
  /\ skipped' = skipped \cup {x \in {"PutRNGstate"} : Top.rng}
  /\ UNCHANGED <<token, seed, rng, aim, raised, failing>>

\* The token holds a context that has ended: what R does is undefined.  Here the
\* session ends, and the next one starts.
ContinueNowhere ==
  /\ ctl = Cleanup /\ token >= Depth
  /\ stack' = <<RFrame(TRUE)>> /\ ctl' = Run
  /\ token' = 0 /\ aim' = 0 /\ seed' = 0 /\ rng' = 0
  /\ raised' = "-" /\ failing' = FALSE /\ skipped' = {}

-----------------------------------------------------------------------------
(* drain_log_queue, between R_UnwindProtect and what the exit does next.    *)

\* A value, a caught panic or a caught jump is about to leave the frame.
Exiting ==
  Top.kind \in Drainers /\ (ctl \in {Cleanup, Ret("value")} \/ ctl.t = "panic")

\* A record is printed to a connection, whose write callback is called.
DrainPrints ==
  /\ Exiting /\ Depth < MaxDepth
  /\ stack' = Push(PrintFrame(
       [ctl |-> ctl, aim |-> aim, raised |-> raised, failing |-> failing]))
  /\ ctl' = Run /\ aim' = 0 /\ raised' = "-" /\ failing' = FALSE
  /\ UNCHANGED <<token, seed, rng, skipped>>

\* The callback returns: the exit goes on where it was (or the next record).
DrainReturns ==
  /\ ctl.t = "ret" /\ Top.kind = "print"
  /\ stack' = Pop
  /\ ctl' = Top.held.ctl /\ aim' = Top.held.aim
  /\ raised' = Top.held.raised /\ failing' = Top.held.failing
  /\ UNCHANGED <<token, seed, rng, skipped>>

\* Printing raises an R error or is interrupted, in a frame that nothing guards
\* any more: it replaces the value, the panic or the jump.
DrainFails ==
  /\ Exiting
  /\ stack' = Pop
  /\ \E i \in Handlers(Depth - 1) : ctl' = Jump(i) /\ aim' = i
  /\ failing' = TRUE /\ raised' = "-"
  /\ skipped' = skipped \cup {x \in {"PutRNGstate"} : Top.rng}
  /\ UNCHANGED <<token, seed, rng>>

-----------------------------------------------------------------------------
Calls ==
  \/ \E k \in MainRust, g \in BOOLEAN : Enter(k, g)
  \/ \E k \in FromRust : CallRust(k)
  \/ \E c \in BOOLEAN : EvalR(c)
  \/ Dispatch \/ RReturns \/ Acquire \/ Draw \/ BodyReturns \/ ConvertResult

Panics ==
  \/ \E w \in {"panic", "error", "signal"} : BodyPanics(w)
  \/ PanicToTag \/ PanicToString \/ PanicToJump \/ PanicToFallback
  \/ ReturnToR \/ ReturnToRust

Jumps == \/ RError \/ JumpArrives \/ JumpPasses \/ JumpPassesDrain \/ JumpLands
         \/ ContinueUnwind \/ ContinueNowhere

Drains == DrainPrints \/ DrainReturns \/ DrainFails

Next == Calls \/ Panics \/ Jumps \/ Drains

Spec == Init /\ [][Next]_vars

-----------------------------------------------------------------------------
(* What makes the boundary correct.                                         *)

\* A Rust panic never unwinds into R code: whatever frame it is in has a
\* catch_unwind (or R_UnwindProtect's trampoline) between it and R.
PanicStaysInRust == ctl.t = "panic" => Top.kind # "R"

\* A jump that was interrupted to unwind Rust frames, any number of times and
\* with other jumps raised and caught in between, ends where R had aimed it: a
\* live handler.  This is what the single, shared continuation token has to
\* guarantee.  It does so unless, while a frame prints before it continues its
\* jump, another one is interrupted in the code that the printing calls.
LandsWhereAimed ==
  "token" \notin skipped =>
    /\ ctl.t = "jump" => ctl.to = aim
    /\ ctl.t = "cleanup" => token = aim
    /\ ctl.t \in {"jump", "cleanup"} => aim \in Handlers(Depth)

\* A failure is not lost: between an error, raised by R or by a panic, and the R
\* handler that sees it, nobody runs and nobody gets a value that is not tagged.
\* (While a drain prints, the failure waits in what the print frame holds.)
ErrorsAreNotLost ==
  failing => \/ ctl.t \in {"panic", "cleanup", "jump"}
             \/ ctl.t = "ret" /\ ctl.why \in Errors

Kept == raised \in {"error", "signal"} => ctl.why = raised

\* error!() and warning!() reach R, or the View's caller, as what they were,
\* through any number of shims ("the reconstructed RCondition", condition.rs).
MainConditionsKept ==
  ctl.t = "ret" /\ ctl.why # "value" /\ Top.kind \in {"call", "shim"} => Kept

\* Shape of the stack: it stands on a top level that catches everything; a shim
\* is called by Rust code on main, a with_r_thread closure by the worker, a
\* printing callback by the drain of the frame below it, and the bodies of
\* generated wrappers alone are rng functions.
Shape ==
  /\ stack[1].kind = "R" /\ stack[1].catches
  /\ \A i \in 1..Depth : stack[i].rng => stack[i].kind \in RngKinds
  /\ \A i \in 2..Depth :
       /\ stack[i].kind = "shim" => stack[i - 1].kind \in MainRust
       /\ stack[i].kind = "serve" => stack[i - 1].kind = "worker"
       /\ stack[i].kind = "print" => stack[i - 1].kind \in Drainers

\* What exit h of frame n holds: an error that is still one, a panic that carries
\* what was raised, a jump whose target lives or is known to have ended.
Holds(n, h) ==
  /\ h.ctl \in {Cleanup, Ret("value")} \/ (h.ctl.t = "panic" /\ h.ctl.why \in Whys)
  /\ h.failing => h.ctl = Cleanup \/ h.ctl.why \in Errors
  /\ h.ctl.t = "panic" /\ h.raised \in {"error", "signal"} => h.ctl.why = h.raised
  /\ h.ctl = Cleanup =>
       /\ token \in Handlers(n) \/ token >= n
       /\ "token" \notin skipped => token = h.aim /\ h.aim \in Handlers(n)

HoldsFrame(i) == IF stack[i].kind = "print" THEN Holds(i - 1, stack[i].held)
                                           ELSE stack[i].held = NoneHeld
HeldExits == \A i \in 1..Depth : HoldsFrame(i)

\* Panics, caught jumps and results belong to a Rust frame; a panic that is not
\* on the worker still carries what was raised.
Control ==
  /\ ctl.t \in {"panic", "cleanup", "ret"} => Top.kind # "R"
  /\ ctl.t = "ret" => ctl.why \in Whys \cup {"value"}
  /\ ctl.t = "ret" /\ Top.kind = "print" => ctl.why = "value"
  /\ ctl.t = "jump" => ctl.to \in Handlers(Depth)
  /\ ctl.t = "cleanup" => token \in Handlers(Depth) \/ token >= Depth
  /\ ctl.t = "panic" =>
       /\ ctl.why \in Whys
       /\ failing => ctl.why \in Errors
       /\ Top.kind # "worker" => Kept

NoRngOnStack == \A i \in 1..Depth : ~stack[i].rng

\* However rng functions nest, call back into R and fail: outside all of them
\* .Random.seed holds the state they left ("runs on both success AND panic",
\* rng.rs), unless an R error jumped over one of them since it was last loaded.
RngSavedUnlessJumped == NoRngOnStack /\ "PutRNGstate" \notin skipped => seed = rng

\* The inductive invariant of the proofs (FfiCallsProofs).
IInv == /\ TypeOK /\ Shape /\ Control /\ HeldExits
        /\ LandsWhereAimed /\ ErrorsAreNotLost /\ MainConditionsKept

\* unwind_protect.rs: "If R raises an error (longjmp), all Rust RAII resources
\* are properly dropped before R continues unwinding."
ResourcesDropped == "resource" \notin skipped
=============================================================================
