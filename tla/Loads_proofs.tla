---------------------------- MODULE Loads_proofs ----------------------------
(***************************************************************************)
(* Proofs about Loads for any number of threads, inputs and nested calls.  *)
(*                                                                         *)
(* A call returns the value of its own input if no Python code runs while  *)
(* the view of the input is released.  The invariant that shows it says    *)
(* that a call that has parsed is the innermost one of its thread: all the *)
(* others are still borrowing their bytes and will parse later.            *)
(***************************************************************************)
EXTENDS Loads, SequenceTheorems, TLAPS

\* A call that called loads back, through its argument, is borrowing its bytes.
OuterCallsBorrow ==
  \A t \in Threads : \A n \in DOMAIN stack[t] :
    n # Depth(t) => stack[t][n].pc = "borrow"

IInv ==
  /\ TypeOK
  /\ OuterCallsBorrow
  /\ ParserHoldsInnermostInput
  /\ LoadsReturnsItsInput

-----------------------------------------------------------------------------
(* The stack of a thread *)

LEMMA StackLength ==
  ASSUME TypeOK, NEW t \in Threads
  PROVE  /\ stack[t] \in Seq(Frames)
         /\ Depth(t) \in Nat
         /\ DOMAIN stack[t] = 1 .. Depth(t)
         /\ Running(t) => Depth(t) \in 1 .. Depth(t) /\ Top(t) \in Frames
  <1>1. stack[t] \in Seq(Frames)
    BY DEF TypeOK
  <1>2. Depth(t) \in Nat /\ DOMAIN stack[t] = 1 .. Depth(t)
    BY <1>1, LenProperties DEF Depth
  <1>3. ASSUME Running(t) PROVE Depth(t) \in 1 .. Depth(t) /\ Top(t) \in Frames
    <2>1. Depth(t) \in Nat \ {0}
      BY <1>1, <1>3, EmptySeq DEF Running, Depth
    <2>. QED  BY <1>1, <2>1, ElementOfSeq DEF Top, Depth
  <1>. QED  BY <1>1, <1>2, <1>3

\* What a step leaves of a stack: the frames below n and, if it has one, frame n.
StackIs(t, n, frame) ==
  /\ stack' \in [Threads -> Seq(Frames)]
  /\ \A u \in Threads : u # t => stack'[u] = stack[u]
  /\ Len(stack'[t]) = n
  /\ DOMAIN stack'[t] = 1 .. n
  /\ \A k \in 1 .. n : stack'[t][k] = IF k = n THEN frame ELSE stack[t][k]

\* Going on changes the point of the innermost call and nothing else.
LEMMA GotoStack ==
  ASSUME TypeOK, NEW t \in Threads, Running(t),
         NEW point \in {"borrow", "parse", "release", "convert"}, Goto(t, point)
  PROVE  StackIs(t, Depth(t), [Top(t) EXCEPT !.pc = point])
  <1>. DEFINE frame == [Top(t) EXCEPT !.pc = point]
              changed == [stack[t] EXCEPT ![Depth(t)] = frame]
  <1>1. frame \in Frames
    BY StackLength DEF Frames
  <1>2. /\ changed \in Seq(Frames) /\ Len(changed) = Depth(t)
        /\ \A k \in 1 .. Depth(t) : changed[k] = IF k = Depth(t) THEN frame ELSE stack[t][k]
    BY <1>1, StackLength, ExceptSeq DEF Depth
  <1>3. stack' = [stack EXCEPT ![t] = changed]
    BY StackLength DEF Goto, TypeOK, Top
  <1>. HIDE DEF changed, frame
  <1>4. stack'[t] = changed /\ \A u \in Threads : u # t => stack'[u] = stack[u]
    BY <1>3 DEF TypeOK
  <1>5. stack' \in [Threads -> Seq(Frames)]
    BY <1>2, <1>3 DEF TypeOK
  <1>6. DOMAIN changed = 1 .. Depth(t)
    BY <1>2, LenProperties
  <1>. QED  BY <1>2, <1>4, <1>5, <1>6 DEF StackIs, frame

\* Leaving drops the innermost call.
LEMMA LeaveStack ==
  ASSUME TypeOK, NEW t \in Threads, Running(t), Leave(t)
  PROVE  /\ Depth(t) - 1 \in Nat
         /\ StackIs(t, Depth(t) - 1, stack[t][Depth(t) - 1])
  <1>. DEFINE rest == SubSeq(stack[t], 1, Depth(t) - 1)
  <1>1. Depth(t) \in Nat \ {0}
    BY StackLength
  <1>2. \A k \in 1 .. Depth(t) - 1 : stack[t][k] \in Frames
    BY <1>1, StackLength, ElementOfSeq DEF Depth
  <1>3. /\ rest \in Seq(Frames) /\ Len(rest) = Depth(t) - 1
        /\ \A k \in 1 .. Depth(t) - 1 : rest[k] = stack[t][k]
    <2>1. /\ rest \in Seq(Frames)
          /\ Len(rest) = IF 1 <= Depth(t) - 1 THEN (Depth(t) - 1) - 1 + 1 ELSE 0
          /\ \A k \in 1 .. (Depth(t) - 1) - 1 + 1 : rest[k] = stack[t][1 + k - 1]
      BY <1>1, <1>2, SubSeqProperties
    <2>. QED  BY <1>1, <2>1
  <1>4. stack' = [stack EXCEPT ![t] = rest]
    BY DEF Leave, TypeOK
  <1>. HIDE DEF rest
  <1>5. DOMAIN rest = 1 .. Depth(t) - 1
    BY <1>3, LenProperties
  <1>6. stack'[t] = rest /\ \A u \in Threads : u # t => stack'[u] = stack[u]
    BY <1>4 DEF TypeOK
  <1>7. stack' \in [Threads -> Seq(Frames)]
    BY <1>3, <1>4 DEF TypeOK
  <1>. QED  BY <1>1, <1>3, <1>5, <1>6, <1>7 DEF StackIs

\* Calling adds one.
LEMMA CallStack ==
  ASSUME TypeOK, NEW t \in Threads, NEW frame \in Frames,
         stack' = [stack EXCEPT ![t] = Append(@, frame)]
  PROVE  StackIs(t, Depth(t) + 1, frame)
  <1>1. stack[t] \in Seq(Frames) /\ Depth(t) \in Nat
    BY StackLength
  <1>2. /\ Append(stack[t], frame) \in Seq(Frames)
        /\ Len(Append(stack[t], frame)) = Depth(t) + 1
        /\ \A k \in 1 .. Depth(t) + 1 :
             Append(stack[t], frame)[k] = IF k = Depth(t) + 1 THEN frame ELSE stack[t][k]
    BY <1>1 DEF Depth
  <1>3. DOMAIN Append(stack[t], frame) = 1 .. Depth(t) + 1
    BY <1>2, LenProperties
  <1>. QED  BY <1>2, <1>3 DEF StackIs, TypeOK

-----------------------------------------------------------------------------
(* The invariant *)

LEMMA InitIInv == Init => IInv
  <1>. SUFFICES ASSUME Init PROVE IInv
    OBVIOUS
  <1>1. stack \in [Threads -> Seq(Frames)] /\ \A t \in Threads : DOMAIN stack[t] = {}
    BY DEF Init
  <1>2. TypeOK
    BY <1>1 DEF Init, TypeOK, Contents, Returns
  <1>. QED
    BY <1>1, <1>2 DEF Init, IInv, OuterCallsBorrow, ParserHoldsInnermostInput,
                      LoadsReturnsItsInput

\* All that has to be seen of a step: what it does to the stack and to the parser
\* of its thread, when no hook runs while a view is released.
LEMMA StackStep ==
  ASSUME IInv, NEW t \in Threads, NEW n \in Nat, NEW frame,
         StackIs(t, n, frame),
         n \in {Depth(t) - 1, Depth(t), Depth(t) + 1},
         n = Depth(t) + 1 => (Running(t) => Top(t).pc = "borrow"),
         n < Depth(t) => frame = stack[t][n],
         parser' \in [Threads -> Contents],
         \A u \in Threads : u # t => parser'[u] = parser[u],
         n \in 1 .. n /\ frame.pc \in {"release", "convert"} =>
           n >= Depth(t) /\ (frame.input \in Valid => parser'[t] = frame.input),
         n \in 1 .. n /\ frame.pc = "convert" => frame.input \in Valid
  PROVE  /\ OuterCallsBorrow'
         /\ ParserHoldsInnermostInput'
         /\ \A u \in Threads : \A k \in DOMAIN stack'[u] :
              stack'[u][k].pc = "convert" => stack'[u][k].input \in Valid
  <1>1. Depth(t) \in Nat /\ DOMAIN stack[t] = 1 .. Depth(t)
    BY StackLength DEF IInv
  <1>2. Depth(t)' = n
    BY DEF StackIs, Depth
  <1>3. \A k \in 1 .. n : k # n => stack'[t][k] = stack[t][k] /\ stack[t][k].pc = "borrow"
    <2>. TAKE k \in 1 .. n
    <2>. HAVE k # n
    <2>0. k \in 1 .. Depth(t)
      BY <1>1
    <2>1. stack'[t][k] = stack[t][k] /\ k \in 1 .. Depth(t)
      BY <2>0 DEF StackIs
    <2>2. CASE k # Depth(t)
      BY <1>1, <2>1, <2>2 DEF IInv, OuterCallsBorrow
    <2>3. CASE k = Depth(t)
      <3>1. n = Depth(t) + 1
        BY <1>1, <2>3
      <3>2. Running(t)
        BY <1>1, <2>1 DEF Running, Depth
      <3>. QED  BY <2>1, <2>3, <3>1, <3>2 DEF Top
    <2>. QED  BY <2>2, <2>3
  <1>4. \A u \in Threads : u # t => stack'[u] = stack[u] /\ Depth(u)' = Depth(u)
    BY DEF StackIs, Depth
  <1>5. DOMAIN stack'[t] = 1 .. n /\ (n \in 1 .. n => stack'[t][n] = frame)
    BY DEF StackIs
  <1>6. OuterCallsBorrow'
    <2>1. ASSUME NEW k \in DOMAIN stack'[t], k # Depth(t)'
          PROVE  stack'[t][k].pc = "borrow"
      BY <1>2, <1>3, <1>5, <2>1
    <2>2. ASSUME NEW u \in Threads, u # t, NEW k \in DOMAIN stack'[u], k # Depth(u)'
          PROVE  stack'[u][k].pc = "borrow"
      BY <1>4, <2>2 DEF IInv, OuterCallsBorrow
    <2>. QED  BY <2>1, <2>2 DEF OuterCallsBorrow
  <1>7. ParserHoldsInnermostInput'
    <2>1. ASSUME NEW k \in DOMAIN stack'[t], stack'[t][k].pc \in {"release", "convert"}
          PROVE  /\ k = Depth(t)'
                 /\ stack'[t][k].input \in Valid => parser'[t] = stack'[t][k].input
      BY <1>2, <1>3, <1>5, <2>1
    <2>2. ASSUME NEW u \in Threads, u # t, NEW k \in DOMAIN stack'[u],
                 stack'[u][k].pc \in {"release", "convert"}
          PROVE  /\ k = Depth(u)'
                 /\ stack'[u][k].input \in Valid => parser'[u] = stack'[u][k].input
      BY <1>4, <2>2 DEF IInv, ParserHoldsInnermostInput
    <2>. QED  BY <2>1, <2>2 DEF ParserHoldsInnermostInput
  <1>8. ASSUME NEW u \in Threads, NEW k \in DOMAIN stack'[u], stack'[u][k].pc = "convert"
        PROVE  stack'[u][k].input \in Valid
    <2>1. CASE u = t
      BY <1>3, <1>5, <1>8, <2>1
    <2>2. CASE u # t
      BY <1>4, <1>8, <2>2 DEF IInv, TypeOK
    <2>. QED  BY <2>1, <2>2
  <1>. QED  BY <1>6, <1>7, <1>8

\* The innermost call going on, and ending, are such steps.
LEMMA GotoStep ==
  ASSUME IInv, NEW t \in Threads, Running(t),
         NEW point \in {"borrow", "parse", "release", "convert"}, Goto(t, point),
         parser' \in [Threads -> Contents],
         \A u \in Threads : u # t => parser'[u] = parser[u],
         point \in {"release", "convert"} =>
           (Top(t).input \in Valid => parser'[t] = Top(t).input),
         point = "convert" => Top(t).input \in Valid
  PROVE  /\ stack' \in [Threads -> Seq(Frames)]
         /\ OuterCallsBorrow'
         /\ ParserHoldsInnermostInput'
         /\ \A u \in Threads : \A k \in DOMAIN stack'[u] :
              stack'[u][k].pc = "convert" => stack'[u][k].input \in Valid
  <1>. DEFINE frame == [Top(t) EXCEPT !.pc = point]
  <1>1. Depth(t) \in Nat /\ Top(t) \in Frames
    BY StackLength DEF IInv
  <1>2. StackIs(t, Depth(t), frame)
    BY GotoStack DEF IInv
  <1>3. frame.pc = point /\ frame.input = Top(t).input
    BY <1>1 DEF Frames
  <1>. HIDE DEF frame
  <1>4. stack' \in [Threads -> Seq(Frames)]
    BY <1>2 DEF StackIs
  <1>. QED  BY <1>1, <1>2, <1>3, <1>4, StackStep

LEMMA LeaveStep ==
  ASSUME IInv, NEW t \in Threads, Running(t), Leave(t),
         parser' \in [Threads -> Contents],
         \A u \in Threads : u # t => parser'[u] = parser[u]
  PROVE  /\ stack' \in [Threads -> Seq(Frames)]
         /\ OuterCallsBorrow'
         /\ ParserHoldsInnermostInput'
         /\ \A u \in Threads : \A k \in DOMAIN stack'[u] :
              stack'[u][k].pc = "convert" => stack'[u][k].input \in Valid
  <1>. DEFINE n == Depth(t) - 1
              frame == stack[t][n]
  <1>1. Depth(t) \in Nat /\ DOMAIN stack[t] = 1 .. Depth(t)
    BY StackLength DEF IInv
  <1>2. n \in Nat /\ StackIs(t, n, frame)
    BY LeaveStack DEF IInv
  <1>3. n \in 1 .. n => frame.pc = "borrow"
    BY <1>1, <1>2 DEF IInv, OuterCallsBorrow
  <1>4. /\ n \in {Depth(t) - 1, Depth(t), Depth(t) + 1}
        /\ n < Depth(t) /\ n # Depth(t) + 1 /\ frame = stack[t][n]
    BY <1>1
  <1>5. stack' \in [Threads -> Seq(Frames)]
    BY <1>2 DEF StackIs
  <1>. HIDE DEF n, frame
  <1>. QED  BY <1>2, <1>3, <1>4, <1>5, StackStep

LEMMA NextIInv ==
  ASSUME "release" \notin Hooks, IInv, [Next]_vars
  PROVE  IInv'
<1>1. ASSUME NEW t \in Threads, Call(t)
      PROVE  IInv'
  <2>1. PICK input \in Inputs, argument \in Arguments :
          stack' = [stack EXCEPT ![t] =
                      Append(@, [input |-> input, argument |-> argument,
                        pc |-> IF argument = "padded" THEN "parse" ELSE "borrow"])]
    BY <1>1 DEF Call
  <2>. DEFINE frame == [input |-> input, argument |-> argument,
                        pc |-> IF argument = "padded" THEN "parse" ELSE "borrow"]
  <2>2. frame \in Frames /\ frame.pc \in {"parse", "borrow"}
    BY DEF Frames, Arguments
  <2>0. stack' = [stack EXCEPT ![t] = Append(@, frame)]
    BY <2>1
  <2>. HIDE DEF frame
  <2>3. Depth(t) + 1 \in Nat /\ StackIs(t, Depth(t) + 1, frame)
    <3>1. TypeOK /\ Depth(t) \in Nat
      BY StackLength DEF IInv
    <3>2. StackIs(t, Depth(t) + 1, frame)
      BY <2>0, <2>2, <3>1, CallStack
    <3>. QED  BY <3>1, <3>2
  <2>4. Running(t) => Top(t).pc = "borrow"
    BY <1>1, HooksAssumption DEF Call
  <2>5. parser' = parser /\ returned' = returned
    BY <1>1 DEF Call
  <2>6. /\ OuterCallsBorrow' /\ ParserHoldsInnermostInput'
        /\ \A u \in Threads : \A k \in DOMAIN stack'[u] :
             stack'[u][k].pc = "convert" => stack'[u][k].input \in Valid
    <3>1. parser' \in [Threads -> Contents]
      BY <2>5 DEF IInv, TypeOK
    <3>2. ~ (Depth(t) + 1 < Depth(t))
      BY StackLength DEF IInv
    <3>. QED  BY <2>2, <2>3, <2>4, <2>5, <3>1, <3>2, StackStep
  <2>. QED
    BY <2>3, <2>5, <2>6 DEF StackIs, IInv, TypeOK, LoadsReturnsItsInput
<1>2. ASSUME NEW t \in Threads, Borrow(t)
      PROVE  IInv'
  <2>1. Running(t) /\ parser' = parser /\ returned' = returned
    BY <1>2 DEF Borrow
  <2>2. parser' \in [Threads -> Contents]
    BY <2>1 DEF IInv, TypeOK
  <2>3. CASE Goto(t, "parse")
    BY <2>1, <2>2, <2>3, GotoStep DEF IInv, TypeOK, LoadsReturnsItsInput
  <2>4. CASE Leave(t)
    BY <2>1, <2>2, <2>4, LeaveStep DEF IInv, TypeOK, LoadsReturnsItsInput
  <2>. QED  BY <1>2, <2>3, <2>4 DEF Borrow
<1>3. ASSUME NEW t \in Threads, Parse(t)
      PROVE  IInv'
  <2>. DEFINE input == Top(t).input
  <2>1. Running(t) /\ returned' = returned /\ input \in Inputs
    BY <1>3, StackLength DEF Parse, IInv, Frames
  <2>2. /\ parser' \in [Threads -> Contents]
        /\ \A u \in Threads : u # t => parser'[u] = parser[u]
        /\ input \in Valid => parser'[t] = input
    BY <1>3, <2>1 DEF Parse, ParserOf, IInv, TypeOK, Contents
  <2>. HIDE DEF input
  <2>3. CASE Goto(t, "release")
    BY <2>1, <2>2, <2>3, GotoStep DEF IInv, TypeOK, LoadsReturnsItsInput, input
  <2>4. CASE Goto(t, "convert") /\ input \in Valid
    BY <2>1, <2>2, <2>4, GotoStep DEF IInv, TypeOK, LoadsReturnsItsInput, input
  <2>5. CASE Leave(t)
    BY <2>1, <2>2, <2>5, LeaveStep DEF IInv, TypeOK, LoadsReturnsItsInput
  <2>. QED  BY <1>3, <2>3, <2>4, <2>5 DEF Parse, input
<1>4. ASSUME NEW t \in Threads, Release(t)
      PROVE  IInv'
  <2>1. Running(t) /\ parser' = parser /\ returned' = returned
    BY <1>4 DEF Release
  <2>2. parser' \in [Threads -> Contents]
    BY <2>1 DEF IInv, TypeOK
  <2>3. Top(t).input \in Valid => parser[t] = Top(t).input
    BY <1>4, StackLength DEF Release, IInv, ParserHoldsInnermostInput, Top
  <2>4. CASE Goto(t, "convert") /\ Top(t).input \in Valid
    BY <2>1, <2>2, <2>3, <2>4, GotoStep DEF IInv, TypeOK, LoadsReturnsItsInput
  <2>5. CASE Leave(t)
    BY <2>1, <2>2, <2>5, LeaveStep DEF IInv, TypeOK, LoadsReturnsItsInput
  <2>. QED  BY <1>4, <2>4, <2>5 DEF Release
<1>5. ASSUME NEW t \in Threads, Convert(t)
      PROVE  IInv'
  <2>1. Running(t) /\ Leave(t) /\ parser' = parser
    BY <1>5 DEF Convert
  <2>2. parser' \in [Threads -> Contents]
    BY <2>1 DEF IInv, TypeOK
  <2>3. Top(t).input \in Inputs /\ parser[t] = Top(t).input
    <3>1. /\ Depth(t) \in DOMAIN stack[t] /\ Top(t) \in Frames
          /\ stack[t][Depth(t)].pc = "convert"
      BY <1>5, <2>1, StackLength DEF Convert, IInv, Top
    <3>2. stack[t][Depth(t)].input \in Valid
      BY <3>1 DEF IInv, TypeOK
    <3>3. parser[t] = stack[t][Depth(t)].input
      BY <3>1, <3>2 DEF IInv, ParserHoldsInnermostInput
    <3>. QED  BY <3>1, <3>3 DEF Top, Frames
  <2>4. returned' = [returned EXCEPT ![t] = [input |-> Top(t).input,
                                             value |-> parser[t]]]
    BY <1>5 DEF Convert, ParserOf
  <2>5. returned' \in [Threads -> Returns] /\ LoadsReturnsItsInput'
    BY <2>3, <2>4 DEF IInv, TypeOK, LoadsReturnsItsInput, Returns, Contents
  <2>. QED  BY <2>1, <2>2, <2>5, LeaveStep DEF IInv, TypeOK
<1>6. CASE UNCHANGED vars
  BY <1>6 DEF vars, IInv, TypeOK, OuterCallsBorrow, ParserHoldsInnermostInput,
              LoadsReturnsItsInput, Depth
<1>. QED  BY <1>1, <1>2, <1>3, <1>4, <1>5, <1>6 DEF Next

-----------------------------------------------------------------------------
(* Theorems, for arguments that run no Python code when they are released *)

\* Frames are well formed, and only inputs that parsed are converted.
THEOREM LoadsTypeOK ==
  ASSUME "release" \notin Hooks PROVE Spec => []TypeOK
  <1>1. Spec => []IInv
    BY InitIInv, NextIInv, PTL DEF Spec
  <1>. QED  BY <1>1, PTL DEF IInv

\* A call of loads returns the value of its own input.
THEOREM LoadsReturnsOwnValue ==
  ASSUME "release" \notin Hooks PROVE Spec => []LoadsReturnsItsInput
  <1>1. Spec => []IInv
    BY InitIInv, NextIInv, PTL DEF Spec
  <1>. QED  BY <1>1, PTL DEF IInv

\* Between its parse and its conversion a call is the innermost of its thread, and
\* the thread's parser holds its document.
THEOREM LoadsParserHoldsInnermostInput ==
  ASSUME "release" \notin Hooks PROVE Spec => []ParserHoldsInnermostInput
  <1>1. Spec => []IInv
    BY InitIInv, NextIInv, PTL DEF Spec
  <1>. QED  BY <1>1, PTL DEF IInv
=============================================================================
