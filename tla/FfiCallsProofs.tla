--------------------------- MODULE FfiCallsProofs ---------------------------
(***************************************************************************)
(* Proofs about FfiCalls, for stacks of any depth: no panic unwinds into R *)
(* code, an interrupted longjmp ends in the handler R aimed it at, no      *)
(* failure is lost, and a structured condition raised on the main thread   *)
(* arrives as what it was.  IInv adds to these the shape of the stack,     *)
(* what control carries and what the exits hold that wait for a drain;     *)
(* three lemmas say what the only changes of the stack (a frame is pushed, *)
(* frames are popped, the top is rewritten in place) keep of it.           *)
(***************************************************************************)
EXTENDS FfiCalls, TLAPS

USE BoundsAssumption

\* The stack is never empty, and a Rust frame is never at its bottom.
LEMMA StackBounds == ASSUME IInv
                     PROVE  /\ Depth \in 1..MaxDepth /\ stack \in Seq(Frame)
                            /\ \A i \in 1..Depth : stack[i] \in Frame
                            /\ Top \in Frame /\ (Top.kind # "R" => Depth > 1)
                            /\ Top.rng => Top.kind \in RngKinds
<1>1. stack \in Seq(Frame) /\ Depth \in 1..MaxDepth
  BY DEF IInv, TypeOK, Depth
<1>2. \A i \in 1..Depth : stack[i] \in Frame
  BY <1>1 DEF Depth
<1>3. Top.kind # "R" => Depth > 1
  BY <1>1 DEF IInv, Shape, Top
<1>4. Depth \in 1..Depth
  BY <1>1
<1>. QED  BY <1>1, <1>2, <1>3, <1>4 DEF Top, IInv, Shape

LEMMA TopHolds == ASSUME IInv
                  PROVE  IF Top.kind = "print" THEN Holds(Depth - 1, Top.held)
                                               ELSE Top.held = NoneHeld
<1>1. HoldsFrame(Depth)
  BY StackBounds DEF IInv, HeldExits
<1>. QED  BY <1>1 DEF HoldsFrame, Top

\* The token and the history of its misuse stay (the latter may only get worse).
Steady == token' = token /\ ("token" \in skipped => "token" \in skipped')

\* Then what an exit of frame m holds stays right if the stack does up to there.
LEMMA HoldStays ==
  ASSUME NEW m, NEW h, Holds(m, h), Handlers(m)' = Handlers(m), Steady
  PROVE  Holds(m, h)'
BY DEF Holds, Steady

LEMMA HeldBelow ==
  ASSUME IInv, Steady, NEW n \in 0..Depth,
         \A i \in 1..n : /\ stack'[i].kind = stack[i].kind
                         /\ stack'[i].catches = stack[i].catches
                         /\ stack'[i].held = stack[i].held
  PROVE  \A i \in 1..n : HoldsFrame(i)'
<1>. SUFFICES ASSUME NEW i \in 1..n  PROVE HoldsFrame(i)'
  OBVIOUS
<1>. USE StackBounds
<1>1. HoldsFrame(i)
  BY DEF IInv, HeldExits
<1>2. Handlers(i - 1)' = Handlers(i - 1)
  BY DEF Handlers
<1>3. CASE stack[i].kind = "print"
  <2>. PICK h : h = stack[i].held
    OBVIOUS
  <2>1. Holds(i - 1, h)
    BY <1>1, <1>3 DEF HoldsFrame
  <2>2. Holds(i - 1, h)'
    BY <2>1, <1>2, HoldStays
  <2>. QED  BY <1>3, <2>2 DEF HoldsFrame
<1>4. CASE stack[i].kind # "print"
  BY <1>1, <1>4 DEF HoldsFrame
<1>. QED  BY <1>3, <1>4

\* A frame is pushed on a stack that has room for it.
LEMMA Pushed ==
  ASSUME IInv, NEW f \in Frame, Depth < MaxDepth, stack' = Push(f), Steady,
         f.kind = "shim" => Top.kind \in MainRust,
         f.kind = "serve" => Top.kind = "worker",
         f.kind = "print" => Top.kind \in Drainers,
         f.rng => f.kind \in RngKinds,
         IF f.kind = "print" THEN Holds(Depth, f.held) ELSE f.held = NoneHeld
  PROVE  /\ stack' \in Seq(Frame) /\ Depth' = Depth + 1 /\ Depth' \in 1..MaxDepth
         /\ Top' = f /\ Shape' /\ HeldExits'
<1>1. stack' \in Seq(Frame) /\ Depth' = Depth + 1 /\ Depth' \in 1..MaxDepth
  BY StackBounds DEF Push, Depth
<1>2. /\ Top' = f /\ stack'[Depth + 1] = f
      /\ \A i \in 1..Depth : stack'[i] = stack[i]
  BY StackBounds, <1>1 DEF Push, Depth, Top
<1>3. \A i \in 2..Depth' :
        /\ stack'[i].kind = "shim" => stack'[i - 1].kind \in MainRust
        /\ stack'[i].kind = "serve" => stack'[i - 1].kind = "worker"
        /\ stack'[i].kind = "print" => stack'[i - 1].kind \in Drainers
  <2>1. ASSUME NEW i \in 2..Depth'
        PROVE  IF i = Depth + 1 THEN stack'[i] = f /\ stack'[i - 1] = Top
               ELSE i \in 2..Depth /\ stack'[i] = stack[i] /\ stack'[i - 1] = stack[i - 1]
    <3>1. CASE i = Depth + 1
      <4>1. i - 1 = Depth
        BY StackBounds, <3>1
      <4>2. Depth \in 1..Depth
        BY StackBounds
      <4>3. stack'[Depth] = stack[Depth]
        BY <1>2, <4>2
      <4>. QED  BY <1>2, <3>1, <4>1, <4>3 DEF Top
    <3>2. CASE i # Depth + 1
      <4>1. i \in 2..Depth /\ i \in 1..Depth /\ i - 1 \in 1..Depth
        BY StackBounds, <1>1, <3>2
      <4>. QED  BY <1>2, <3>2, <4>1
    <3>. QED  BY <3>1, <3>2
  <2>. QED  BY <2>1 DEF IInv, Shape
<1>4. \A i \in 1..Depth' : stack'[i].rng => stack'[i].kind \in RngKinds
  <2>1. ASSUME NEW i \in 1..Depth'
        PROVE  stack'[i] = f \/ (i \in 1..Depth /\ stack'[i] = stack[i])
    BY StackBounds, <1>1, <1>2
  <2>. QED  BY <2>1 DEF IInv, Shape
<1>5. Shape'
  BY StackBounds, <1>1, <1>2, <1>3, <1>4
  DEF IInv, Shape, MainRust, Guarded, RngKinds, Drainers
<1>6. HeldExits'
  <2>1. \A i \in 1..Depth : HoldsFrame(i)'
    BY StackBounds, <1>2, HeldBelow
  <2>. PICK d \in 1..MaxDepth : d = Depth
    BY StackBounds
  <2>2. Handlers(d)' = Handlers(d)
    BY StackBounds, <1>1, <1>2 DEF Handlers
  <2>3. f.kind = "print" => Holds(d, f.held)'
    BY <2>2, HoldStays
  <2>4. HoldsFrame(d + 1)'
    BY <1>2, <2>3 DEF HoldsFrame
  <2>. QED  BY StackBounds, <1>1, <2>1, <2>4 DEF HeldExits
<1>. QED  BY <1>1, <1>2, <1>5, <1>6

\* The stack is cut back to its first n frames.
LEMMA Truncated ==
  ASSUME IInv, NEW n \in 1..Depth - 1, stack' = SubSeq(stack, 1, n), Steady
  PROVE  /\ stack' \in Seq(Frame) /\ Depth' = n /\ Depth' \in 1..MaxDepth
         /\ Top' = stack[n] /\ Top' \in Frame /\ Shape' /\ HeldExits'
         /\ Handlers(Depth)' = Handlers(n)
<1>1. stack' \in Seq(Frame) /\ Depth' = n /\ Depth' \in 1..MaxDepth
  BY StackBounds DEF Depth
<1>2. \A i \in 1..n : stack'[i] = stack[i]
  BY StackBounds DEF Depth
<1>3. Top' = stack[n] /\ Top' \in Frame
  BY StackBounds, <1>1, <1>2 DEF Top
<1>4. Shape'
  <2>1. ASSUME NEW i \in 2..Depth'
        PROVE  i \in 2..Depth /\ stack'[i] = stack[i] /\ stack'[i - 1] = stack[i - 1]
    BY StackBounds, <1>1, <1>2
  <2>2. stack'[1] = stack[1]
    BY <1>1, <1>2
  <2>3. \A i \in 1..Depth' : stack'[i] = stack[i] /\ i \in 1..Depth
    BY StackBounds, <1>1, <1>2
  <2>4. \A i \in 2..Depth' :
          /\ stack'[i].kind = "shim" => stack'[i - 1].kind \in MainRust
          /\ stack'[i].kind = "serve" => stack'[i - 1].kind = "worker"
          /\ stack'[i].kind = "print" => stack'[i - 1].kind \in Drainers
    BY <2>1 DEF IInv, Shape
  <2>5. \A i \in 1..Depth' : stack'[i].rng => stack'[i].kind \in RngKinds
    BY <2>3 DEF IInv, Shape
  <2>. QED  BY <2>2, <2>4, <2>5 DEF IInv, Shape
<1>5. Handlers(Depth)' = Handlers(n)
  BY <1>1, <1>2, StackBounds DEF Handlers
<1>6. HeldExits'
  <2>1. n \in 0..Depth
    BY StackBounds
  <2>2. \A i \in 1..n : HoldsFrame(i)'
    BY <1>2, <2>1, HeldBelow
  <2>. QED  BY <1>1, <2>2 DEF HeldExits
<1>. QED  BY <1>1, <1>3, <1>4, <1>5, <1>6

\* The top frame, a Rust one, becomes another frame that may stand there.
LEMMA Rewritten ==
  ASSUME IInv, NEW f \in Frame, Top.kind # "R", f.kind # "R", Steady,
         stack' = [stack EXCEPT ![Depth] = f],
         f.kind \in FromRust \cup {"print"} \/ Top.kind = "print" => f.kind = Top.kind,
         f.held = Top.held,
         f.rng => f.kind \in RngKinds
  PROVE  /\ stack' \in Seq(Frame) /\ Depth' = Depth /\ Depth' \in 1..MaxDepth
         /\ Top' = f /\ Shape' /\ HeldExits'
<1>1. stack' \in Seq(Frame) /\ Depth' = Depth
  BY StackBounds DEF Depth
<1>2. Top' = f /\ \A i \in 1..Depth - 1 : stack'[i] = stack[i]
  BY StackBounds, <1>1 DEF Top
<1>3. Shape'
  <2>1. \A i \in 1..Depth' : stack'[i].rng => stack'[i].kind \in RngKinds
    <3>1. ASSUME NEW i \in 1..Depth'
          PROVE  stack'[i] = f \/ (i \in 1..Depth /\ stack'[i] = stack[i])
      BY StackBounds, <1>1, <1>2 DEF Top
    <3>. QED  BY <3>1 DEF IInv, Shape
  <2>. QED
    BY StackBounds, <1>1, <1>2, <2>1 DEF IInv, Shape, FromRust, RngKinds, Drainers, Top
<1>4. HeldExits'
  <2>1. \A i \in 1..Depth - 1 : HoldsFrame(i)'
    BY StackBounds, <1>2, HeldBelow
  <2>. PICK d \in 1..MaxDepth : d = Depth
    BY StackBounds
  <2>2. Handlers(d - 1)' = Handlers(d - 1)
    BY StackBounds, <1>2 DEF Handlers
  <2>. PICK h : h = f.held
    OBVIOUS
  <2>3. IF f.kind = "print" THEN Holds(d - 1, h) ELSE h = NoneHeld
    BY TopHolds
  <2>4. f.kind = "print" => Holds(d - 1, h)'
    BY <2>2, <2>3, HoldStays
  <2>5. HoldsFrame(d)'
    BY <1>1, <1>2, <2>3, <2>4 DEF HoldsFrame, Top
  <2>. QED  BY StackBounds, <1>1, <2>1, <2>5 DEF HeldExits
<1>. QED  BY StackBounds, <1>1, <1>2, <1>3, <1>4

\* The stack stays as it is.
LEMMA Same ==
  ASSUME IInv, UNCHANGED stack, Steady
  PROVE  /\ stack' \in Seq(Frame) /\ Depth' = Depth /\ Depth' \in 1..MaxDepth
         /\ Top' = Top /\ Shape' /\ HeldExits' /\ Handlers(Depth)' = Handlers(Depth)
<1>1. Depth' = Depth /\ Top' = Top /\ Handlers(Depth)' = Handlers(Depth)
  BY DEF Depth, Top, Handlers
<1>2. Shape'
  BY DEF IInv, Shape, Depth
<1>3. \A i \in 1..Depth : HoldsFrame(i)'
  BY StackBounds, HeldBelow
<1>. QED  BY StackBounds, <1>1, <1>2, <1>3 DEF HeldExits

USE DEF Run, Cleanup, Panic, Ret, Jump

\* The invariant after a step that leaves control with the top frame,
LEMMA ThenRuns ==
  ASSUME IInv, ctl' = Run, ~failing', failing' \in BOOLEAN,
         stack' \in Seq(Frame), Depth' \in 1..MaxDepth, Shape', HeldExits',
         token' \in 0..MaxDepth, aim' \in 0..MaxDepth, raised' \in Whys \cup {"-"},
         seed' \in 0..MaxDraws, rng' \in 0..MaxDraws, skipped' \in SUBSET Things
  PROVE  IInv'
<1>1. ctl' \in Ctl
  BY DEF Ctl
<1>2. TypeOK'
  BY <1>1 DEF TypeOK, Depth
<1>. QED
  BY <1>2 DEF IInv, Control, LandsWhereAimed, ErrorsAreNotLost, MainConditionsKept

\* ... after one that drops the body's resources and hands a value down,
LEMMA ThenReturns ==
  ASSUME IInv, NEW v \in Whys \cup {"value"}, Top.kind # "R",
         stack' = Dropped, ctl' = Ret(v), failing' \in BOOLEAN,
         failing' => v \in Errors, Top.kind = "print" => v = "value",
         Top.kind \in {"call", "shim"} /\ v # "value" =>
           (raised \in {"error", "signal"} => v = raised),
         raised' \in {raised, "-"},
         UNCHANGED <<token, seed, rng, aim, skipped>>
  PROVE  IInv'
<1>. DEFINE f == [Top EXCEPT !.res = FALSE]
<1>1. f \in Frame /\ f.kind = Top.kind /\ f.rng = Top.rng /\ f.held = Top.held
  BY StackBounds DEF Frame
<1>2. stack' = [stack EXCEPT ![Depth] = f]
  BY DEF Dropped, Top
<1>. HIDE DEF f
<1>3. /\ stack' \in Seq(Frame) /\ Depth' \in 1..MaxDepth /\ Shape' /\ HeldExits'
      /\ Top'.kind = Top.kind
  BY <1>1, <1>2, StackBounds, Rewritten DEF Steady
<1>4. ctl' \in Ctl
  BY DEF Ctl
<1>5. TypeOK'
  BY <1>3, <1>4 DEF IInv, TypeOK, Depth, Whys, Errors
<1>6. Control' /\ LandsWhereAimed'
  BY <1>3 DEF Control, LandsWhereAimed
<1>7. ErrorsAreNotLost' /\ MainConditionsKept'
  BY <1>3 DEF ErrorsAreNotLost, MainConditionsKept, Kept, Errors
<1>. QED  BY <1>3, <1>5, <1>6, <1>7 DEF IInv

\* ... and after one that cuts the stack while a jump is on its way to i.
LEMMA ThenJumps ==
  ASSUME IInv, NEW n \in 1..Depth - 1, stack' = SubSeq(stack, 1, n), Steady,
         NEW i \in Handlers(n), ctl' \in Ctl, ctl'.t = "jump", ctl'.to = i,
         aim' \in 0..MaxDepth, "token" \notin skipped' => aim' = i,
         failing' \in BOOLEAN, skipped' \in SUBSET Things, seed' \in 0..MaxDraws,
         raised' \in Whys \cup {"-"}, UNCHANGED rng
  PROVE  IInv'
<1>2. stack' \in Seq(Frame) /\ Depth' \in 1..MaxDepth /\ Shape' /\ HeldExits'
  BY Truncated
<1>3. i \in Handlers(Depth)'
  BY Truncated
<1>4. TypeOK'
  BY <1>2 DEF IInv, TypeOK, Depth, Steady
<1>5. LandsWhereAimed'
  BY <1>3 DEF LandsWhereAimed
<1>6. Control' /\ ErrorsAreNotLost' /\ MainConditionsKept'
  BY <1>3 DEF Control, ErrorsAreNotLost, MainConditionsKept
<1>. QED  BY <1>2, <1>4, <1>5, <1>6 DEF IInv

LEMMA NoneHeldType == NoneHeld \in Held
BY DEF NoneHeld, Held, Ctl

\* The form of Truncated for a pop.
LEMMA PoppedTo ==
  ASSUME IInv, Depth > 1, stack' = Pop, Steady
  PROVE  /\ stack' \in Seq(Frame) /\ Depth' = Depth - 1 /\ Depth' \in 1..MaxDepth
         /\ Top' = stack[Depth - 1] /\ Top' \in Frame /\ Shape' /\ HeldExits'
         /\ Handlers(Depth)' = Handlers(Depth - 1)
<1>1. PICK n \in 1..Depth - 1 : n = Depth - 1
  BY StackBounds
<1>. QED  BY <1>1, Truncated DEF Pop

LEMMA PopThenJumps ==
  ASSUME IInv, Depth > 1, stack' = Pop, Steady,
         NEW i \in Handlers(Depth - 1), ctl' \in Ctl, ctl'.t = "jump", ctl'.to = i,
         aim' \in 0..MaxDepth, "token" \notin skipped' => aim' = i,
         failing' \in BOOLEAN, skipped' \in SUBSET Things, seed' \in 0..MaxDraws,
         raised' \in Whys \cup {"-"}, UNCHANGED rng
  PROVE  IInv'
<1>1. PICK n \in 1..Depth - 1 : n = Depth - 1
  BY StackBounds
<1>. QED  BY <1>1, ThenJumps DEF Pop

LEMMA CallsPreserveIInv == IInv /\ Calls => IInv'
<1>. SUFFICES ASSUME IInv, Calls  PROVE IInv'
  OBVIOUS
<1>. USE StackBounds
<1>a. ctl = Run => ~failing /\ failing \in BOOLEAN
  BY DEF IInv, TypeOK, ErrorsAreNotLost
<1>b. /\ seed \in 0..MaxDraws /\ rng \in 0..MaxDraws
      /\ token \in 0..MaxDepth /\ aim \in 0..MaxDepth /\ raised \in Whys \cup {"-"}
      /\ skipped \in SUBSET Things /\ ctl \in Ctl /\ Shape
  BY DEF IInv, TypeOK
<1>c. ASSUME NEW f \in Frame, ctl = Run, Depth < MaxDepth, stack' = Push(f),
             f.kind = "shim" => Top.kind \in MainRust,
             f.kind = "serve" => Top.kind = "worker",
             f.kind # "print", f.held = NoneHeld,
             f.rng => f.kind \in RngKinds, rng' \in 0..MaxDraws,
             skipped' \in SUBSET Things, "token" \in skipped => "token" \in skipped',
             UNCHANGED <<ctl, token, seed, aim, raised, failing>>
      PROVE  IInv'
  BY <1>a, <1>b, <1>c, Pushed, ThenRuns DEF Steady
<1>1. ASSUME NEW k \in MainRust, NEW g \in BOOLEAN, Enter(k, g)  PROVE IInv'
  <2>1. /\ RustFrame(k, g) \in Frame /\ RustFrame(k, g).kind = k
        /\ k \notin {"shim", "serve", "print"} /\ (RustFrame(k, g).rng => k \in RngKinds)
        /\ RustFrame(k, g).held = NoneHeld
    BY <1>1, NoneHeldType DEF Enter, RustFrame, Frame, RustKinds, FromRust, FromR
  <2>2. /\ rng' \in 0..MaxDraws /\ skipped' \in SUBSET Things
        /\ "token" \in skipped => "token" \in skipped'
    BY <1>1, <1>b DEF Enter
  <2>. QED  BY <1>1, <1>c, <2>1, <2>2 DEF Enter
<1>2. ASSUME NEW k \in FromRust, CallRust(k)  PROVE IInv'
  <2>1. /\ RustFrame(k, FALSE) \in Frame /\ RustFrame(k, FALSE).kind = k
        /\ ~RustFrame(k, FALSE).rng /\ RustFrame(k, FALSE).held = NoneHeld
    BY NoneHeldType DEF RustFrame, Frame, RustKinds, MainRust, Guarded, FromRust
  <2>. QED  BY <1>2, <1>b, <1>c, <2>1 DEF CallRust, FromRust, InMainRust
<1>3. ASSUME NEW c \in BOOLEAN, EvalR(c)  PROVE IInv'
  <2>1. /\ RFrame(c) \in Frame /\ RFrame(c).kind = "R" /\ ~RFrame(c).rng
        /\ RFrame(c).held = NoneHeld
    BY NoneHeldType DEF RFrame, Frame
  <2>. QED  BY <1>3, <1>b, <1>c, <2>1 DEF EvalR
<1>4. CASE Dispatch
  <2>. DEFINE f == RustFrame("worker", Top.rng)
  <2>1. /\ f \in Frame /\ f.kind = "worker" /\ "worker" \notin FromRust \cup {"print"}
        /\ "worker" \in RngKinds /\ f.held = NoneHeld
    BY NoneHeldType DEF RustFrame, Frame, RustKinds, FromRust, RngKinds
  <2>2. Top.kind = "workerPre" /\ stack' = [stack EXCEPT ![Depth] = f]
    BY <1>4 DEF Dispatch
  <2>4. Top.held = NoneHeld
    BY <2>2, TopHolds
  <2>. HIDE DEF f
  <2>3. stack' \in Seq(Frame) /\ Depth' \in 1..MaxDepth /\ Shape' /\ HeldExits'
    BY <2>1, <2>2, <2>4, <1>4, Rewritten DEF Steady, Dispatch
  <2>. QED  BY <1>4, <1>a, <1>b, <2>3, ThenRuns DEF Dispatch
<1>5. CASE RReturns
  <2>1. Depth > 1 /\ stack' = Pop /\ Steady
    BY <1>5 DEF RReturns, Steady
  <2>2. stack' \in Seq(Frame) /\ Depth' \in 1..MaxDepth /\ Shape' /\ HeldExits'
    BY <2>1, PoppedTo
  <2>. QED  BY <1>5, <1>a, <1>b, <2>2, ThenRuns DEF RReturns
<1>6. CASE Acquire
  <2>. DEFINE f == [Top EXCEPT !.res = TRUE]
  <2>1. f \in Frame /\ f.kind = Top.kind /\ f.rng = Top.rng /\ f.held = Top.held
    BY DEF Frame
  <2>2. Top.kind # "R" /\ stack' = [stack EXCEPT ![Depth] = f] /\ Steady
    BY <1>6 DEF Acquire, Top, Steady
  <2>. HIDE DEF f
  <2>3. stack' \in Seq(Frame) /\ Depth' \in 1..MaxDepth /\ Shape' /\ HeldExits'
    BY <2>1, <2>2, Rewritten
  <2>. QED  BY <1>6, <1>a, <1>b, <2>3, ThenRuns DEF Acquire
<1>7. CASE Draw
  <2>1. stack' \in Seq(Frame) /\ Depth' \in 1..MaxDepth /\ Shape' /\ HeldExits'
    BY <1>7, Same DEF Draw, Steady
  <2>. QED  BY <1>7, <1>a, <1>b, <2>1, ThenRuns DEF Draw
<1>8. CASE BodyReturns
  BY <1>8, <1>a, ThenReturns DEF BodyReturns, RustKinds, MainRust, Guarded, Drainers
<1>9. CASE ConvertResult
  <2>. DEFINE f == [Top EXCEPT !.kind = "call"]
  <2>1. /\ f \in Frame /\ f.kind = "call" /\ "call" \notin FromRust \cup {"print"}
        /\ "call" \in RngKinds /\ f.held = Top.held
    BY DEF Frame, RustKinds, MainRust, Guarded, FromRust, RngKinds
  <2>2. Top.kind = "worker" /\ stack' = [stack EXCEPT ![Depth] = f] /\ Steady
    BY <1>9 DEF ConvertResult, Top, Steady
  <2>. HIDE DEF f
  <2>3. stack' \in Seq(Frame) /\ Depth' \in 1..MaxDepth /\ Shape' /\ HeldExits'
    BY <2>1, <2>2, Rewritten
  <2>4. ~failing /\ failing \in BOOLEAN
    BY <1>9 DEF ConvertResult, IInv, TypeOK, ErrorsAreNotLost, Errors
  <2>. QED  BY <1>9, <1>b, <2>3, <2>4, ThenRuns DEF ConvertResult
<1>. QED  BY <1>1, <1>2, <1>3, <1>4, <1>5, <1>6, <1>7, <1>8, <1>9 DEF Calls

LEMMA PanicsPreserveIInv == IInv /\ Panics => IInv'
<1>. SUFFICES ASSUME IInv, Panics  PROVE IInv'
  OBVIOUS
<1>. USE StackBounds
<1>b. /\ seed \in 0..MaxDraws /\ rng \in 0..MaxDraws /\ failing \in BOOLEAN
      /\ token \in 0..MaxDepth /\ aim \in 0..MaxDepth /\ raised \in Whys \cup {"-"}
      /\ skipped \in SUBSET Things /\ ctl \in Ctl /\ Shape
  BY DEF IInv, TypeOK
<1>c. ctl.t = "panic" => /\ ctl.why \in Whys /\ (failing => ctl.why \in Errors)
                         /\ (Top.kind # "worker" => Kept)
  BY DEF IInv, Control
<1>1. ASSUME NEW w \in {"panic", "error", "signal"}, BodyPanics(w)  PROVE IInv'
  <2>a. w \in Whys /\ (w # "signal" => w \in Errors)
    BY DEF Whys, Errors
  <2>b. ctl' \in Ctl
    BY <1>1, <2>a DEF BodyPanics, Ctl
  <2>c. failing' = (w # "signal")
    BY <1>1 DEF BodyPanics
  <2>d. failing' \in BOOLEAN /\ (failing' => w \in Errors)
    BY <2>a, <2>c, Zenon
  <2>1. w \in Whys /\ ctl' \in Ctl /\ failing' \in BOOLEAN /\ (failing' => w \in Errors)
    BY <2>a, <2>b, <2>d
  <2>2. TypeOK'
    BY <1>1, <2>1 DEF BodyPanics, IInv, TypeOK
  <2>3. Shape' /\ HeldExits' /\ Top' = Top
    BY <1>1, Same DEF BodyPanics, Steady
  <2>4. Control'
    BY <1>1, <2>1, <2>3 DEF BodyPanics, Control, Kept
  <2>. QED
    BY <1>1, <2>2, <2>3, <2>4
    DEF BodyPanics, IInv, LandsWhereAimed, ErrorsAreNotLost, MainConditionsKept
<1>2. CASE PanicToTag
  <2>1. Top.kind # "R" /\ Top.kind # "worker"
    BY <1>2 DEF PanicToTag
  <2>2. (raised \in {"error", "signal"} => ctl.why = raised) /\ Top.kind # "print"
    BY <1>2, <1>c, <2>1 DEF PanicToTag, Kept
  <2>. QED  BY <1>2, <1>b, <1>c, <2>1, <2>2, ThenReturns DEF PanicToTag
<1>3. CASE PanicToString
  <2>1. Stringify(ctl.why) \in Errors
    BY <1>3, <1>c DEF PanicToString, Stringify, Whys, Errors
  <2>. QED  BY <1>3, <2>1, ThenReturns DEF PanicToString, Whys
<1>4. CASE PanicToJump
  <2>1. Depth > 1
    BY <1>4 DEF PanicToJump
  <2>2. PICK i \in Handlers(Depth - 1) : ctl' = Jump(i) /\ aim' = i
    BY <1>4 DEF PanicToJump
  <2>3. ctl' \in Ctl /\ i \in 0..MaxDepth /\ Steady
    BY <1>4, <2>2 DEF Ctl, Handlers, PanicToJump, Steady
  <2>. QED  BY <1>4, <1>b, <2>1, <2>2, <2>3, PopThenJumps DEF PanicToJump
<1>5. CASE PanicToFallback
  BY <1>5, ThenReturns DEF PanicToFallback
<1>6. CASE ReturnToR
  <2>1. Depth > 1 /\ stack' = Pop /\ Steady
    BY <1>6 DEF ReturnToR, IInv, Control, Steady
  <2>2. seed' \in 0..MaxDraws
    BY <1>6, <1>b DEF ReturnToR
  <2>3. CASE ctl.why \in Errors
    <3>1. PICK i \in Handlers(Depth - 1) : ctl' = Jump(i) /\ aim' = i
      BY <1>6, <2>3 DEF ReturnToR
    <3>2. ctl' \in Ctl /\ i \in 0..MaxDepth
      BY <3>1 DEF Ctl, Handlers
    <3>. QED  BY <1>6, <1>b, <2>1, <2>2, <3>1, <3>2, PopThenJumps DEF ReturnToR
  <2>4. CASE ctl.why \notin Errors
    <3>1. ~failing
      BY <1>6, <2>4 DEF ReturnToR, IInv, ErrorsAreNotLost
    <3>2. stack' \in Seq(Frame) /\ Depth' \in 1..MaxDepth /\ Shape' /\ HeldExits'
      BY <2>1, PoppedTo
    <3>. QED  BY <1>6, <1>b, <2>2, <2>4, <3>1, <3>2, ThenRuns DEF ReturnToR
  <2>. QED  BY <2>3, <2>4
<1>7. CASE ReturnToRust
  <2>1. /\ Depth > 1 /\ stack' = Pop /\ Top.kind \in FromRust /\ ctl.t = "ret"
        /\ Steady
    BY <1>7 DEF ReturnToRust, IInv, Control, Steady
  <2>2. /\ stack' \in Seq(Frame) /\ Depth' \in 1..MaxDepth /\ Shape' /\ HeldExits'
        /\ Top' = stack[Depth - 1]
    BY <2>1, PoppedTo
  <2>3. /\ Top.kind = "shim" => Top'.kind \in MainRust
        /\ Top.kind = "serve" => Top'.kind = "worker"
    BY <2>1, <2>2, <1>b DEF Shape, Top
  <2>4. Top'.kind # "R"
    BY <2>1, <2>3 DEF FromRust, MainRust, Guarded
  <2>5. CASE ctl.why = "value"
    <3>1. ~failing
      BY <2>1, <2>5 DEF IInv, ErrorsAreNotLost, Errors
    <3>. QED  BY <1>7, <1>b, <2>2, <2>5, <3>1, ThenRuns DEF ReturnToRust
  <2>6. CASE ctl.why # "value"
    <3>1. ctl.why \in Whys /\ (failing => ctl.why \in Errors)
      BY <2>1, <2>6 DEF IInv, Control, ErrorsAreNotLost
    <3>2. PICK w \in Whys : /\ ctl' = Panic(w) /\ (ctl.why \in Errors => w \in Errors)
                            /\ w = IF ctl.why = "panic" /\ Top.kind = "shim"
                                   THEN "error" ELSE ctl.why
      BY <1>7, <2>6, <3>1 DEF ReturnToRust, Whys, Errors
    <3>3. Control'
      <4>1. Top'.kind # "worker" => Kept'
        BY <1>7, <2>1, <2>3, <2>6, <3>2
        DEF ReturnToRust, IInv, MainConditionsKept, Kept, FromRust
      <4>. QED  BY <1>7, <2>4, <3>1, <3>2, <4>1 DEF ReturnToRust, Control
    <3>4. TypeOK'
      BY <1>7, <2>2, <3>2 DEF ReturnToRust, IInv, TypeOK, Ctl, Depth
    <3>. QED
      BY <1>7, <2>2, <3>2, <3>3, <3>4
      DEF ReturnToRust, IInv, LandsWhereAimed, ErrorsAreNotLost, MainConditionsKept
  <2>. QED  BY <2>5, <2>6
<1>. QED  BY <1>1, <1>2, <1>3, <1>4, <1>5, <1>6, <1>7 DEF Panics

LEMMA InitIInv == Init => IInv
<1>. SUFFICES ASSUME Init  PROVE IInv
  OBVIOUS
<1>1. RFrame(TRUE) \in Frame /\ RFrame(TRUE).kind = "R" /\ RFrame(TRUE).catches
      /\ ~RFrame(TRUE).rng
  BY NoneHeldType DEF RFrame, Frame
<1>2. \A f \in Frame : <<f>> \in Seq(Frame) /\ Len(<<f>>) = 1 /\ <<f>>[1] = f
  OBVIOUS
<1>3. stack \in Seq(Frame) /\ Len(stack) = 1 /\ stack[1] = RFrame(TRUE)
  BY <1>1, <1>2 DEF Init
<1>4. TypeOK
  <2>1. ctl \in Ctl
    BY DEF Init, Ctl
  <2>2. failing \in BOOLEAN
    BY Zenon DEF Init
  <2>3. /\ token \in 0..MaxDepth /\ aim \in 0..MaxDepth /\ 1 \in 1..MaxDepth
        /\ seed \in 0..MaxDraws /\ rng \in 0..MaxDraws
    BY DEF Init
  <2>4. raised \in Whys \cup {"-"} /\ skipped \in SUBSET Things
    BY DEF Init
  <2>. QED  BY <1>3, <2>1, <2>2, <2>3, <2>4 DEF TypeOK
<1>5. Shape
  <2>1. \A i \in 1..Depth : i = 1
    BY <1>3 DEF Depth
  <2>2. \A i \in 2..Depth : FALSE
    BY <1>3 DEF Depth
  <2>. QED  BY <1>1, <1>3, <2>1, <2>2 DEF Shape
<1>6. HeldExits
  BY <1>1, <1>3 DEF HeldExits, HoldsFrame, Depth, RFrame
<1>. QED
  BY <1>4, <1>5, <1>6
  DEF Init, IInv, Control, LandsWhereAimed, ErrorsAreNotLost, MainConditionsKept

LEMMA JumpsPreserveIInv == IInv /\ Jumps => IInv'
<1>. SUFFICES ASSUME IInv, Jumps  PROVE IInv'
  OBVIOUS
<1>. USE StackBounds
<1>b. /\ seed \in 0..MaxDraws /\ rng \in 0..MaxDraws /\ failing \in BOOLEAN
      /\ token \in 0..MaxDepth /\ aim \in 0..MaxDepth /\ raised \in Whys \cup {"-"}
      /\ skipped \in SUBSET Things /\ ctl \in Ctl /\ Shape
  BY DEF IInv, TypeOK
<1>c. /\ ctl.t = "jump" => ctl.to \in Handlers(Depth)
      /\ ctl.t = "jump" /\ "token" \notin skipped => ctl.to = aim
      /\ ctl.t = "cleanup" => token \in Handlers(Depth) \/ token >= Depth
      /\ ctl.t = "cleanup" /\ "token" \notin skipped => token = aim
  BY DEF IInv, LandsWhereAimed, Control
<1>1. CASE RError
  <2>1. PICK i \in Handlers(Depth) : ctl' = Jump(i) /\ aim' = i
    BY <1>1 DEF RError
  <2>2. ctl' \in Ctl /\ i \in 0..MaxDepth
    BY <2>1 DEF Ctl, Handlers
  <2>3. TypeOK'
    BY <1>1, <2>1, <2>2 DEF RError, IInv, TypeOK
  <2>4. Shape' /\ HeldExits' /\ Handlers(Depth)' = Handlers(Depth)
    BY <1>1, Same DEF RError, Steady
  <2>. QED
    BY <1>1, <2>1, <2>3, <2>4
    DEF RError, IInv, Control, LandsWhereAimed, ErrorsAreNotLost, MainConditionsKept
<1>2. CASE JumpArrives
  <2>1. HeldExits'
    <3>1. CASE JumpHeld
      BY <1>2, <3>1, Same DEF JumpArrives, Steady
    <3>2. CASE ~JumpHeld
      <4>1. ASSUME NEW i \in 1..Depth  PROVE HoldsFrame(i)'
        <5>. PICK h : h = stack[i].held
          OBVIOUS
        <5>1. h.ctl # Cleanup
          BY <3>2 DEF JumpHeld
        <5>2. IF stack[i].kind = "print" THEN Holds(i - 1, h) ELSE h = NoneHeld
          BY DEF IInv, HeldExits, HoldsFrame
        <5>3. Holds(i - 1, h) => Holds(i - 1, h)'
          BY <5>1 DEF Holds
        <5>. QED  BY <1>2, <5>2, <5>3 DEF JumpArrives, HoldsFrame
      <4>. QED  BY <1>2, <4>1 DEF HeldExits, Depth, JumpArrives
    <3>. QED  BY <3>1, <3>2
  <2>2. stack' \in Seq(Frame) /\ Depth' \in 1..MaxDepth /\ Shape'
    BY <1>2, <1>b DEF JumpArrives, Shape, Depth
  <2>3. skipped' \in SUBSET Things
    <3>1. skipped' = skipped \/ skipped' = skipped \ {"token"}
      BY <1>2 DEF JumpArrives
    <3>. QED  BY <3>1, <1>b
  <2>4. ctl' = Run /\ aim' \in 0..MaxDepth
    BY <1>2 DEF JumpArrives
  <2>5. ~failing' /\ failing' \in BOOLEAN
    BY <1>2, Zenon DEF JumpArrives
  <2>6. UNCHANGED <<token, seed, rng, raised>>
    BY <1>2 DEF JumpArrives
  <2>. QED  BY <1>b, <2>1, <2>2, <2>3, <2>4, <2>5, <2>6, ThenRuns
<1>3. CASE JumpPasses
  <2>1. /\ skipped' \in SUBSET Things /\ Steady
        /\ "token" \notin skipped' => "token" \notin skipped
    BY <1>3, <1>b DEF JumpPasses, Things, Steady
  <2>2. Depth > 1 /\ ctl.to \in Handlers(Depth - 1)
    BY <1>3, <1>c DEF JumpPasses, Handlers
  <2>. QED  BY <1>3, <1>b, <1>c, <2>1, <2>2, PopThenJumps DEF JumpPasses
<1>4. CASE JumpPassesDrain
  <2>1. /\ skipped' \in SUBSET Things /\ Steady
        /\ "token" \notin skipped' => "token" \notin skipped
    BY <1>4, <1>b DEF JumpPassesDrain, Things, Steady
  <2>2. Depth > 1 /\ stack[Depth - 1].kind \in Drainers
    <3>1. Top.kind = "print" /\ Depth > 1
      BY <1>4 DEF JumpPassesDrain
    <3>2. Depth \in 2..Depth
      BY <3>1
    <3>. QED  BY <3>1, <3>2 DEF IInv, Shape, Top
  <2>3. /\ ctl.to \in 1..Depth /\ ctl.to < Depth /\ stack[ctl.to].kind = "R"
        /\ stack[ctl.to].catches
    BY <1>4, <1>c DEF JumpPassesDrain, Handlers
  <2>4. ctl.to # Depth - 1
    BY <2>2, <2>3 DEF Drainers
  <2>5. PICK n \in 1..Depth - 1 : n = Depth - 2
    BY <2>2, <2>3, <2>4
  <2>6. ctl.to \in Handlers(n)
    BY <2>3, <2>4, <2>5 DEF Handlers
  <2>. QED  BY <1>4, <1>b, <1>c, <2>1, <2>5, <2>6, ThenJumps DEF JumpPassesDrain
<1>5. CASE JumpLands
  <2>1. skipped' \in SUBSET Things
    BY <1>5, <1>b DEF JumpLands, Things
  <2>2. /\ ctl.to < Depth /\ ctl.to \in Handlers(Depth) /\ token' = ctl.to
        /\ Top.kind # "R" /\ ctl.to \in 0..MaxDepth
        /\ "token" \notin skipped' => "token" \notin skipped /\ ~JumpHeld
    BY <1>5, <1>c DEF JumpLands, Handlers, Guarded
  <2>3. Shape' /\ Top' = Top /\ Handlers(Depth)' = Handlers(Depth) /\ Depth' = Depth
    BY <1>5, <1>b DEF JumpLands, Shape, Depth, Handlers, Top
  <2>4. TypeOK'
    BY <1>5, <2>1, <2>2 DEF JumpLands, IInv, TypeOK, Ctl
  <2>5. HeldExits'
    <3>1. ASSUME NEW i \in 1..Depth  PROVE HoldsFrame(i)'
      <4>. PICK h : h = stack[i].held
        OBVIOUS
      <4>1. IF stack[i].kind = "print" THEN Holds(i - 1, h) ELSE h = NoneHeld
        BY DEF IInv, HeldExits, HoldsFrame
      <4>2. CASE h.ctl # Cleanup
        <5>1. Holds(i - 1, h) => Holds(i - 1, h)'
          BY <4>2 DEF Holds
        <5>. QED  BY <1>5, <4>1, <5>1 DEF JumpLands, HoldsFrame
      <4>3. CASE h.ctl = Cleanup
        <5>1. "token" \in skipped'
          BY <2>2, <4>3 DEF JumpHeld
        <5>2. Handlers(i - 1)' = Handlers(i - 1)
          BY <1>5 DEF JumpLands, Handlers
        <5>3. token' \in Handlers(i - 1) \/ token' >= i - 1
          BY <2>2 DEF Handlers
        <5>4. Holds(i - 1, h) => Holds(i - 1, h)'
          BY <5>1, <5>2, <5>3 DEF Holds
        <5>. QED  BY <1>5, <4>1, <5>4 DEF JumpLands, HoldsFrame
      <4>. QED  BY <4>2, <4>3
    <3>. QED  BY <2>3, <3>1 DEF HeldExits
  <2>6. Control'
    BY <1>5, <2>2, <2>3 DEF JumpLands, Control
  <2>7. LandsWhereAimed'
    BY <1>5, <1>c, <2>2, <2>3 DEF JumpLands, LandsWhereAimed
  <2>. QED
    BY <1>5, <2>3, <2>4, <2>5, <2>6, <2>7
    DEF JumpLands, IInv, ErrorsAreNotLost, MainConditionsKept
<1>6. CASE ContinueUnwind
  <2>1. /\ ctl' \in Ctl /\ ctl'.t = "jump" /\ ctl'.to = token
        /\ Depth > 1 /\ token \in Handlers(Depth - 1)
    BY <1>6, <1>b, <1>c DEF ContinueUnwind, Ctl, Handlers
  <2>2. /\ skipped' \in SUBSET Things /\ Steady
        /\ "token" \notin skipped' => "token" \notin skipped
    BY <1>6, <1>b DEF ContinueUnwind, Things, Steady
  <2>. QED  BY <1>6, <1>b, <1>c, <2>1, <2>2, PopThenJumps DEF ContinueUnwind
<1>7. CASE ContinueNowhere
  <2>1. stack' = <<RFrame(TRUE)>> /\ Init'
    BY <1>7 DEF ContinueNowhere, Init
  <2>. QED  BY <2>1, InitIInv, PTL
<1>. QED  BY <1>1, <1>2, <1>3, <1>4, <1>5, <1>6, <1>7 DEF Jumps

LEMMA DrainsPreserveIInv == IInv /\ Drains => IInv'
<1>. SUFFICES ASSUME IInv, Drains  PROVE IInv'
  OBVIOUS
<1>. USE StackBounds
<1>b. /\ seed \in 0..MaxDraws /\ rng \in 0..MaxDraws /\ failing \in BOOLEAN
      /\ token \in 0..MaxDepth /\ aim \in 0..MaxDepth /\ raised \in Whys \cup {"-"}
      /\ skipped \in SUBSET Things /\ ctl \in Ctl /\ Shape
  BY DEF IInv, TypeOK
<1>1. CASE DrainPrints
  <2>. PICK h : h = [ctl |-> ctl, aim |-> aim, raised |-> raised, failing |-> failing]
    OBVIOUS
  <2>1. h \in Held /\ Exiting /\ Depth < MaxDepth /\ Steady
    BY <1>1, <1>b DEF DrainPrints, Held, Steady
  <2>2. Holds(Depth, h)
    <3>1. CASE ctl = Cleanup
      BY <3>1 DEF Holds, IInv, Control, LandsWhereAimed
    <3>2. CASE ctl = Ret("value")
      BY <3>2 DEF Holds, IInv, ErrorsAreNotLost, Errors
    <3>3. CASE ctl.t = "panic"
      <4>1. /\ ctl.why \in Whys /\ Kept /\ (failing => ctl.why \in Errors)
        BY <2>1, <3>3 DEF IInv, Control, Exiting, Drainers
      <4>. QED  BY <2>1, <3>3, <4>1 DEF Holds, Kept
    <3>. QED  BY <2>1, <3>1, <3>2, <3>3 DEF Exiting
  <2>. PICK f : f = PrintFrame(h)
    OBVIOUS
  <2>3. f \in Frame /\ f.kind = "print" /\ ~f.rng /\ f.held = h
    BY <2>1 DEF PrintFrame, Frame, RustKinds, MainRust
  <2>4. stack' = Push(f) /\ Top.kind \in Drainers
    BY <1>1, <2>1 DEF DrainPrints, Exiting
  <2>5. stack' \in Seq(Frame) /\ Depth' \in 1..MaxDepth /\ Shape' /\ HeldExits'
    BY <2>1, <2>2, <2>3, <2>4, Pushed
  <2>6. ctl' = Run /\ aim' \in 0..MaxDepth /\ raised' \in Whys \cup {"-"}
    BY <1>1 DEF DrainPrints
  <2>7. ~failing' /\ failing' \in BOOLEAN
    BY <1>1, Zenon DEF DrainPrints
  <2>8. UNCHANGED <<token, seed, rng, skipped>>
    BY <1>1 DEF DrainPrints
  <2>. QED  BY <1>b, <2>5, <2>6, <2>7, <2>8, ThenRuns
<1>2. CASE DrainReturns
  <2>. PICK h : h = Top.held
    OBVIOUS
  <2>1. Depth > 1 /\ stack' = Pop /\ Top.kind = "print" /\ Steady
    BY <1>2 DEF DrainReturns, Steady
  <2>2. /\ stack' \in Seq(Frame) /\ Depth' = Depth - 1 /\ Depth' \in 1..MaxDepth
        /\ Top' = stack[Depth - 1] /\ Shape' /\ HeldExits'
        /\ Handlers(Depth)' = Handlers(Depth - 1)
    BY <2>1, PoppedTo
  <2>3. Top'.kind \in Drainers
    BY <2>1, <2>2 DEF IInv, Shape, Top
  <2>4. h \in Held /\ Holds(Depth - 1, h)
    BY <2>1, TopHolds DEF Frame
  <2>5. /\ ctl' = h.ctl /\ aim' = h.aim /\ raised' = h.raised /\ failing' = h.failing
        /\ token' = token /\ skipped' = skipped
    BY <1>2 DEF DrainReturns
  <2>6. TypeOK'
    BY <1>2, <1>b, <2>2, <2>4, <2>5 DEF DrainReturns, TypeOK, Held, Depth
  <2>7. CASE h.ctl = Cleanup
    <3>1. Control'
      BY <2>2, <2>3, <2>4, <2>5, <2>7 DEF Control, Holds, Drainers
    <3>2. LandsWhereAimed'
      BY <2>2, <2>4, <2>5, <2>7 DEF LandsWhereAimed, Holds
    <3>. QED
      BY <2>2, <2>5, <2>6, <2>7, <3>1, <3>2 DEF IInv, ErrorsAreNotLost, MainConditionsKept
  <2>8. CASE h.ctl = Ret("value")
    BY <2>2, <2>3, <2>4, <2>5, <2>6, <2>8
    DEF IInv, Control, LandsWhereAimed, ErrorsAreNotLost, MainConditionsKept, Holds,
        Errors, Drainers
  <2>9. CASE h.ctl.t = "panic" /\ h.ctl.why \in Whys
    <3>1. /\ ctl'.t = "panic" /\ ctl'.why \in Whys /\ (failing' => ctl'.why \in Errors)
          /\ Kept'
      BY <2>4, <2>5, <2>9 DEF Holds, Kept
    <3>. QED
      BY <2>2, <2>3, <2>6, <3>1
      DEF IInv, Control, LandsWhereAimed, ErrorsAreNotLost, MainConditionsKept, Drainers
  <2>. QED  BY <2>4, <2>7, <2>8, <2>9 DEF Holds
<1>3. CASE DrainFails
  <2>1. Depth > 1 /\ stack' = Pop /\ skipped' \in SUBSET Things /\ Steady
    BY <1>3, <1>b DEF DrainFails, Exiting, Drainers, Things, Steady
  <2>2. PICK i \in Handlers(Depth - 1) : ctl' = Jump(i) /\ aim' = i
    BY <1>3 DEF DrainFails
  <2>3. ctl' \in Ctl /\ i \in 0..MaxDepth
    BY <2>2 DEF Ctl, Handlers
  <2>. QED  BY <1>3, <1>b, <2>1, <2>2, <2>3, PopThenJumps DEF DrainFails
<1>. QED  BY <1>1, <1>2, <1>3 DEF Drains

\* The invariant holds in every state of every behaviour.
THEOREM Invariance == Spec => []IInv
<1>1. IInv /\ UNCHANGED vars => IInv'
  <2>. SUFFICES ASSUME IInv, UNCHANGED vars  PROVE IInv'
    OBVIOUS
  <2>1. Shape' /\ HeldExits' /\ Top' = Top /\ Handlers(Depth)' = Handlers(Depth) /\ Depth' = Depth
    BY Same DEF vars, Steady
  <2>. QED
    BY <2>1
    DEF vars, IInv, TypeOK, Control, LandsWhereAimed, ErrorsAreNotLost,
        MainConditionsKept, Kept
<1>2. IInv /\ [Next]_vars => IInv'
  BY <1>1, CallsPreserveIInv, PanicsPreserveIInv, JumpsPreserveIInv,
     DrainsPreserveIInv DEF Next
<1>. QED  BY InitIInv, <1>2, PTL DEF Spec

\* No Rust panic unwinds into a frame of R code.
THEOREM NoPanicInR == Spec => []PanicStaysInRust
<1>1. IInv => PanicStaysInRust
  BY DEF IInv, Control, PanicStaysInRust
<1>. QED  BY Invariance, <1>1, PTL

\* However often a jump is interrupted to unwind Rust frames, and whatever jumps
\* are caught in between, the shared token leads it where R had aimed it.
THEOREM JumpsArrive == Spec => []LandsWhereAimed
<1>1. IInv => LandsWhereAimed
  BY DEF IInv
<1>. QED  BY Invariance, <1>1, PTL

\* Between an error and the handler that sees it nobody runs or takes a value.
THEOREM FailuresSurface == Spec => []ErrorsAreNotLost
<1>1. IInv => ErrorsAreNotLost
  BY DEF IInv
<1>. QED  BY Invariance, <1>1, PTL

\* A condition raised on the main thread keeps its kind through any shims.
THEOREM MainConditions == Spec => []MainConditionsKept
<1>1. IInv => MainConditionsKept
  BY DEF IInv
<1>. QED  BY Invariance, <1>1, PTL

\* A frame that has gone was no rng function, or its state has been saved.
LEMMA RngStep == IInv /\ RngSavedUnlessJumped /\ [Next]_vars => RngSavedUnlessJumped'
<1>. SUFFICES ASSUME IInv, RngSavedUnlessJumped, [Next]_vars,
                     NoRngOnStack', "PutRNGstate" \notin skipped'
              PROVE  seed' = rng'
  BY DEF RngSavedUnlessJumped
<1>. USE StackBounds DEF RngSavedUnlessJumped
<1>a. ASSUME UNCHANGED <<stack, seed, rng>>,
             "PutRNGstate" \in skipped => "PutRNGstate" \in skipped'
      PROVE  seed' = rng'
  BY <1>a DEF NoRngOnStack, Depth
<1>b. ASSUME NEW f \in Frame, stack' = Push(f)
      PROVE  ~f.rng /\ NoRngOnStack
  <2>1. /\ Depth' = Depth + 1 /\ stack'[Depth + 1] = f
        /\ \A i \in 1..Depth : stack'[i] = stack[i]
    BY <1>b DEF Push, Depth
  <2>. QED  BY <2>1 DEF NoRngOnStack
<1>c. ASSUME Depth > 1, stack' = Pop, ~Top.rng
      PROVE  NoRngOnStack
  <2>1. /\ Depth' = Depth - 1
        /\ \A i \in 1..Depth - 1 : stack'[i] = stack[i]
    BY <1>c DEF Pop, Depth
  <2>2. ASSUME NEW i \in 1..Depth  PROVE i = Depth \/ i \in 1..Depth - 1
    OBVIOUS
  <2>. QED  BY <1>c, <2>1, <2>2 DEF NoRngOnStack, Top
<1>f. ASSUME Depth > 2, stack' = SubSeq(stack, 1, Depth - 2), ~Top.rng,
             ~stack[Depth - 1].rng
      PROVE  NoRngOnStack
  <2>1. /\ Depth' = Depth - 2
        /\ \A i \in 1..Depth - 2 : stack'[i] = stack[i]
    BY <1>f DEF Depth
  <2>2. ASSUME NEW i \in 1..Depth
        PROVE  i = Depth \/ i = Depth - 1 \/ i \in 1..Depth - 2
    OBVIOUS
  <2>. QED  BY <1>f, <2>1, <2>2 DEF NoRngOnStack, Top
<1>d. ASSUME NEW f \in Frame, stack' = [stack EXCEPT ![Depth] = f], f.rng = Top.rng
      PROVE  NoRngOnStack /\ ~Top.rng
  <2>1. /\ Depth' = Depth /\ stack'[Depth] = f
        /\ \A i \in 1..Depth - 1 : stack'[i] = stack[i]
    BY <1>d DEF Depth
  <2>2. ASSUME NEW i \in 1..Depth  PROVE i = Depth \/ i \in 1..Depth - 1
    OBVIOUS
  <2>. QED  BY <1>d, <2>1, <2>2 DEF NoRngOnStack, Top
<1>e. ASSUME stack' = Dropped, UNCHANGED <<seed, rng, skipped>>  PROVE seed' = rng'
  <2>. DEFINE f == [Top EXCEPT !.res = FALSE]
  <2>1. f \in Frame /\ f.rng = Top.rng
    BY DEF Frame
  <2>2. stack' = [stack EXCEPT ![Depth] = f]
    BY <1>e DEF Dropped, Top
  <2>. HIDE DEF f
  <2>. QED  BY <1>d, <1>e, <2>1, <2>2
<1>1. CASE Calls
  <2>1. ASSUME NEW k \in MainRust, NEW g \in BOOLEAN, Enter(k, g)  PROVE seed' = rng'
    <3>1. RustFrame(k, g) \in Frame /\ RustFrame(k, g).rng = g
      BY NoneHeldType DEF RustFrame, Frame, RustKinds
    <3>2. ~g /\ NoRngOnStack
      BY <2>1, <3>1, <1>b DEF Enter
    <3>. QED  BY <2>1, <3>2 DEF Enter
  <2>2. ASSUME NEW k \in FromRust, CallRust(k)  PROVE seed' = rng'
    <3>1. RustFrame(k, FALSE) \in Frame
      BY NoneHeldType DEF RustFrame, Frame, RustKinds, MainRust, Guarded, FromRust
    <3>. QED  BY <2>2, <3>1, <1>b DEF CallRust
  <2>3. ASSUME NEW c \in BOOLEAN, EvalR(c)  PROVE seed' = rng'
    <3>1. RFrame(c) \in Frame
      BY NoneHeldType DEF RFrame, Frame
    <3>. QED  BY <2>3, <3>1, <1>b DEF EvalR
  <2>4. CASE Dispatch
    <3>. DEFINE f == RustFrame("worker", Top.rng)
    <3>1. f \in Frame /\ f.rng = Top.rng
      BY NoneHeldType DEF RustFrame, Frame, RustKinds
    <3>2. stack' = [stack EXCEPT ![Depth] = f]
      BY <2>4 DEF Dispatch
    <3>. HIDE DEF f
    <3>. QED  BY <2>4, <3>1, <3>2, <1>d DEF Dispatch
  <2>5. CASE RReturns
    <3>1. ~Top.rng
      BY <2>5 DEF RReturns, RngKinds
    <3>. QED  BY <2>5, <3>1, <1>c DEF RReturns
  <2>6. CASE Acquire
    <3>. DEFINE f == [Top EXCEPT !.res = TRUE]
    <3>1. f \in Frame /\ f.rng = Top.rng
      BY DEF Frame
    <3>2. stack' = [stack EXCEPT ![Depth] = f]
      BY <2>6 DEF Acquire, Top
    <3>. HIDE DEF f
    <3>. QED  BY <2>6, <3>1, <3>2, <1>d DEF Acquire
  <2>7. CASE Draw
    <3>1. Top.rng /\ stack' = stack /\ Depth \in 1..Depth
      BY <2>7 DEF Draw
    <3>. QED  BY <3>1 DEF NoRngOnStack, Top, Depth
  <2>8. CASE BodyReturns
    BY <2>8, <1>e DEF BodyReturns
  <2>9. CASE ConvertResult
    <3>. DEFINE f == [Top EXCEPT !.kind = "call"]
    <3>1. f \in Frame /\ f.rng = Top.rng
      BY DEF Frame, RustKinds, MainRust, Guarded
    <3>2. stack' = [stack EXCEPT ![Depth] = f]
      BY <2>9 DEF ConvertResult, Top
    <3>. HIDE DEF f
    <3>. QED  BY <2>9, <3>1, <3>2, <1>d DEF ConvertResult
  <2>. QED
    BY <1>1, <2>1, <2>2, <2>3, <2>4, <2>5, <2>6, <2>7, <2>8, <2>9 DEF Calls
<1>2. CASE Panics
  <2>1. ASSUME NEW w \in {"panic", "error", "signal"}, BodyPanics(w)
        PROVE  seed' = rng'
    BY <2>1, <1>a DEF BodyPanics
  <2>2. CASE PanicToTag
    BY <2>2, <1>e DEF PanicToTag
  <2>3. CASE PanicToString
    BY <2>3, <1>e DEF PanicToString
  <2>4. CASE PanicToJump
    <3>1. ~Top.rng /\ Depth > 1
      BY <2>4 DEF PanicToJump, RngKinds
    <3>. QED  BY <2>4, <3>1, <1>c DEF PanicToJump
  <2>5. CASE PanicToFallback
    BY <2>5, <1>e DEF PanicToFallback
  <2>6. CASE ReturnToR
    <3>1. Depth > 1 /\ stack' = Pop
      BY <2>6 DEF ReturnToR, IInv, Control
    <3>. QED  BY <2>6, <3>1, <1>c DEF ReturnToR
  <2>7. CASE ReturnToRust
    <3>1. ~Top.rng /\ Depth > 1
      BY <2>7 DEF ReturnToRust, RngKinds, FromRust
    <3>. QED  BY <2>7, <3>1, <1>c DEF ReturnToRust
  <2>. QED  BY <1>2, <2>1, <2>2, <2>3, <2>4, <2>5, <2>6, <2>7 DEF Panics
<1>3. CASE Jumps
  <2>1. CASE RError
    BY <2>1, <1>a DEF RError
  <2>2. CASE JumpArrives
    <3>1. UNCHANGED <<stack, seed, rng>> /\ skipped' \in {skipped, skipped \ {"token"}}
      BY <2>2 DEF JumpArrives
    <3>. QED  BY <3>1, <1>a
  <2>3. CASE JumpPasses
    <3>1. ~Top.rng /\ skipped \subseteq skipped' /\ Depth > 1
      BY <2>3 DEF JumpPasses, IInv, Control, Handlers
    <3>. QED  BY <2>3, <3>1, <1>c DEF JumpPasses
  <2>4. CASE JumpLands
    BY <2>4, <1>a DEF JumpLands
  <2>5. CASE ContinueUnwind
    <3>1. ~Top.rng /\ skipped \subseteq skipped'
      BY <2>5 DEF ContinueUnwind
    <3>2. Depth > 1
      BY <2>5 DEF ContinueUnwind, IInv, Control
    <3>. QED  BY <2>5, <3>1, <3>2, <1>c DEF ContinueUnwind
  <2>6. CASE JumpPassesDrain
    <3>1. /\ ~stack[Depth - 1].rng /\ skipped \subseteq skipped'
          /\ stack' = SubSeq(stack, 1, Depth - 2)
      BY <2>6 DEF JumpPassesDrain
    <3>2. Top.kind = "print" /\ ~Top.rng
      BY <2>6 DEF JumpPassesDrain, RngKinds
    <3>3. Depth \in 2..Depth /\ stack[Depth - 1].kind \in Drainers
      BY <3>2 DEF IInv, Shape, Top
    <3>4. Depth > 2
      BY <3>3 DEF IInv, Shape, Drainers
    <3>. QED  BY <2>6, <3>1, <3>2, <3>4, <1>f DEF JumpPassesDrain
  <2>7. CASE ContinueNowhere
    BY <2>7 DEF ContinueNowhere
  <2>. QED  BY <1>3, <2>1, <2>2, <2>3, <2>4, <2>5, <2>6, <2>7 DEF Jumps
<1>4. CASE Drains
  <2>1. CASE DrainPrints
    <3>. PICK h : h = [ctl |-> ctl, aim |-> aim, raised |-> raised, failing |-> failing]
      OBVIOUS
    <3>1. h \in Held
      BY DEF Held, IInv, TypeOK
    <3>2. PrintFrame(h) \in Frame
      BY <3>1 DEF PrintFrame, Frame, RustKinds, MainRust
    <3>. QED  BY <2>1, <3>2, <1>b DEF DrainPrints
  <2>2. CASE DrainReturns
    <3>1. ~Top.rng /\ Depth > 1
      BY <2>2 DEF DrainReturns, RngKinds
    <3>. QED  BY <2>2, <3>1, <1>c DEF DrainReturns
  <2>3. CASE DrainFails
    <3>1. ~Top.rng /\ skipped \subseteq skipped' /\ Depth > 1
      BY <2>3 DEF DrainFails, Exiting, Drainers
    <3>. QED  BY <2>3, <3>1, <1>c DEF DrainFails
  <2>. QED  BY <1>4, <2>1, <2>2, <2>3 DEF Drains
<1>5. CASE UNCHANGED vars
  BY <1>5, <1>a DEF vars
<1>. QED  BY <1>1, <1>2, <1>3, <1>4, <1>5 DEF Next

\* Outside every rng function R has the generator's state, save after a jump.
THEOREM RngIsSaved == Spec => []RngSavedUnlessJumped
<1>1. Init => RngSavedUnlessJumped
  BY DEF Init, RngSavedUnlessJumped
<1>. QED  BY Invariance, RngStep, <1>1, PTL DEF Spec
=============================================================================
