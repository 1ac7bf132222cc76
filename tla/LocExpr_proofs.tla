-------------------------- MODULE LocExpr_proofs --------------------------
(***************************************************************************)
(* Proofs about LocExpr for every input: any expressions, any run flags,   *)
(* any MAX_DEPTH and any process stack.                                    *)
(***************************************************************************)
EXTENDS LocExpr, FiniteSetTheorems, SequenceTheorems, TLAPS

\* Frame k of the stack is a print_expr_block call at depth k - 1, and
\* every frame below the top passed the recursion guard of line 196.
DepthInv ==
    \A k \in 1 .. Len(stack) :
        /\ stack[k].depth = k - 1
        /\ k < Len(stack) => stack[k].depth <= MaxDepth

LInv == TypeOK /\ DepthInv

\* A step that does not end the run makes progress (Progress).
Dec == status' = "running" => LexBelow(ToPrint', ToPrint)

\* What every print_expr step keeps and achieves.
StepOK == LInv' /\ Dec


USE LocExprAssumption

\* print_expr is about to print an opcode: the state Dispatch requires.
Ready ==
    /\ status = "running"
    /\ stack # << >>
    /\ Top.i <= Len(Code[Top.blk])
    /\ ~TooDeep(Top)

LEMMA DispatchReady == ASSUME NEW a, Dispatch(a) PROVE Ready
BY DEF Dispatch, Ready

\* What the type invariant says of the innermost frame and its opcode.
LEMMA TopFacts ==
    ASSUME TypeOK, Ready
    PROVE  /\ Len(stack) \in Nat \ {0}
           /\ Top \in Frame
           /\ Top.i \in 1 .. Len(Code[Top.blk])
           /\ CurOp \in Op
           /\ CurOp.ok /\ CurOp.atom \in Referring => CurOp.ref \in Blocks
           /\ \A m \in DOMAIN CurOp.list :
                 CurOp.list[m].kind = "range" => CurOp.list[m].blk \in Blocks
<1>1. Len(stack) \in Nat \ {0} /\ Top \in Frame
  BY DEF TypeOK, Ready, Top
<1>2. Top.i \in 1 .. Len(Code[Top.blk]) /\ Code[Top.blk] \in Seq(Op)
  BY <1>1 DEF Ready, Frame
<1>3. CurOp \in Op
  BY <1>2 DEF CurOp
<1>4. QED
  BY <1>1, <1>2, <1>3, RefAssumption DEF CurOp, Frame

\* The innermost frame after its opcode is printed, as a record.
Next_i(f) == [blk |-> f.blk, i |-> f.i + 1, attr |-> f.attr, addr |-> f.addr,
              depth |-> f.depth]

LEMMA FrameStep ==
    ASSUME NEW f \in Frame
    PROVE  /\ [f EXCEPT !.i = f.i + 1] = Next_i(f)
           /\ Next_i(f) \in Frame
<1>1. [f EXCEPT !.i = f.i + 1] = Next_i(f)
  BY DEF Frame, Next_i
<1>2. Next_i(f) \in Frame
  BY DEF Frame, Next_i
<1>3. QED
  BY <1>1, <1>2

\* The innermost frame moves to its next opcode (the loop of lines
\* 173-179).
LEMMA DoneStep == ASSUME LInv, Ready, Done PROVE StepOK
<1> DEFINE n == Len(stack)
           f == stack[n]
           g == Next_i(f)
<1>1. stack \in Seq(Frame) /\ n \in Nat \ {0} /\ f \in Frame
      /\ f.i <= Len(Code[f.blk]) /\ f.i \in Nat /\ Len(Code[f.blk]) \in Nat
  <2>1. stack \in Seq(Frame) /\ n \in Nat \ {0} /\ f \in Frame
        /\ f.i <= Len(Code[f.blk])
    BY TopFacts DEF LInv, TypeOK, Top
  <2>2. f.i \in Nat /\ Code[f.blk] \in Seq(Op)
    BY <2>1 DEF Frame
  <2>3. QED
    BY <2>1, <2>2
<1>2. /\ g \in Frame /\ g.blk = f.blk /\ g.depth = f.depth /\ g.i = f.i + 1
      /\ [f EXCEPT !.i = f.i + 1] = g
  BY <1>1, FrameStep DEF Next_i
<1>3. /\ stack' \in Seq(Frame) /\ Len(stack') = n /\ stack'[n] = g
      /\ DOMAIN stack' = 1 .. n
      /\ \A k \in 1 .. n - 1 : stack'[k] = stack[k]
  <2>1. stack' = [stack EXCEPT ![n] = [f EXCEPT !.i = f.i + 1]]
    BY DEF Done
  <2>2. stack' = [stack EXCEPT ![n] = g]
    BY <1>2, <2>1
  <2>3. QED
    BY <1>1, <1>2, <2>2
<1>4. TypeOK'
  <2>1. env' = env /\ status' = status
    BY DEF Done
  <2>2. ASSUME NEW k \in DOMAIN stack'
        PROVE  stack'[k].i <= Len(Code[stack'[k].blk]) + 1
    <3>1. k \in 1 .. n
      BY <1>1, <1>3
    <3>2. CASE k = n
      BY <1>1, <1>2, <1>3, <3>2
    <3>3. CASE k # n
      <4>1. k \in DOMAIN stack /\ stack'[k] = stack[k]
        BY <1>1, <1>3, <3>1, <3>3
      <4>2. QED
        BY <4>1 DEF LInv, TypeOK
    <3>4. QED
      BY <3>2, <3>3
  <2>3. QED
    BY <1>3, <2>1, <2>2 DEF LInv, TypeOK
<1>5. DepthInv'
  <2>1. ASSUME NEW k \in 1 .. Len(stack')
        PROVE  /\ stack'[k].depth = k - 1
               /\ k < Len(stack') => stack'[k].depth <= MaxDepth
    <3>1. k \in 1 .. n
      BY <1>1, <1>3
    <3>2. CASE k = n
      BY <1>1, <1>2, <1>3, <3>2 DEF LInv, DepthInv
    <3>3. CASE k # n
      <4>1. k \in 1 .. n - 1
        BY <1>1, <3>1, <3>3
      <4>2. k \in 1 .. n /\ k < n /\ stack'[k] = stack[k]
        BY <1>1, <1>3, <4>1
      <4>3. QED
        BY <1>3, <4>2 DEF LInv, DepthInv
    <3>4. QED
      BY <3>2, <3>3
  <2>2. QED
    BY <2>1 DEF DepthInv
<1>6. Dec
  <2>1. Len(ToPrint) = n /\ Len(ToPrint') = n
    BY <1>1, <1>3 DEF ToPrint
  <2>2. ToPrint'[n] < ToPrint[n]
    <3>1. ToPrint[n] = Len(Code[f.blk]) + 1 - f.i
      BY <1>1 DEF ToPrint
    <3>2. ToPrint'[n] = Len(Code[f.blk]) + 1 - (f.i + 1)
      <4>1. n \in 1 .. Len(stack')
        BY <1>1, <1>3
      <4>2. ToPrint'[n] = Len(Code[stack'[n].blk]) + 1 - stack'[n].i
        BY <4>1 DEF ToPrint
      <4>3. stack'[n].blk = f.blk /\ stack'[n].i = f.i + 1
        BY <1>2, <1>3
      <4>4. QED
        BY <4>2, <4>3
    <3>3. QED
      BY <1>1, <3>1, <3>2
  <2>3. \A m \in 1 .. n - 1 : ToPrint'[m] = ToPrint[m]
    BY <1>1, <1>3 DEF ToPrint
  <2>4. LexBelow(ToPrint', ToPrint)
    BY <1>1, <2>1, <2>2, <2>3 DEF LexBelow
  <2>5. QED
    BY <2>4 DEF Dec
<1>7. QED
  BY <1>4, <1>5, <1>6 DEF LInv, StepOK

\* error () or a failed assert: only the status changes.
LEMMA FailStep == ASSUME LInv, Fail PROVE StepOK
BY DEF Fail, LInv, TypeOK, DepthInv, StepOK, Dec

\* A nested print_expr_block call (or the stack overflowing on it).
LEMMA DescendStep ==
    ASSUME LInv, Ready, NEW b \in Blocks, NEW a \in BOOLEAN, NEW x \in Addrs,
           Descend(b, a, x)
    PROVE  StepOK
<1> DEFINE n == Len(stack)
           f == stack[n]
           g == Next_i(f)
           h == [blk |-> b, i |-> 1, attr |-> a, addr |-> x, depth |-> f.depth + 1]
<1>1. stack \in Seq(Frame) /\ n \in Nat \ {0} /\ f \in Frame
      /\ f.i <= Len(Code[f.blk]) /\ f.depth <= MaxDepth
      /\ f.i \in Nat /\ Len(Code[f.blk]) \in Nat /\ f.depth \in Nat
  <2>1. stack \in Seq(Frame) /\ n \in Nat \ {0} /\ f \in Frame
        /\ f.i <= Len(Code[f.blk])
    BY TopFacts DEF LInv, TypeOK, Top
  <2>2. f.depth \in Nat /\ ~(f.depth > MaxDepth)
    BY <2>1 DEF Ready, TooDeep, Top, Frame
  <2>3. f.i \in Nat /\ Code[f.blk] \in Seq(Op)
    BY <2>1 DEF Frame
  <2>4. QED
    BY <2>1, <2>2, <2>3
<1>2. CASE n >= MaxFrames
  BY <1>2 DEF Descend, LInv, TypeOK, DepthInv, StepOK, Dec
<1>3. CASE ~(n >= MaxFrames)
  <2>1. /\ g \in Frame /\ g.depth = f.depth /\ g.blk = f.blk /\ g.i = f.i + 1
        /\ [f EXCEPT !.i = f.i + 1] = g
    BY <1>1, FrameStep DEF Next_i
  <2>2. h \in Frame /\ h.i <= Len(Code[h.blk]) + 1
    BY <1>1 DEF Frame
  <2>3. /\ stack' = Append([stack EXCEPT ![n] = g], h)
        /\ status' = status /\ env' = env
    <3>1. /\ stack' = Append([stack EXCEPT ![n] = [f EXCEPT !.i = f.i + 1]], h)
          /\ status' = status /\ env' = env
      BY <1>3, Zenon DEF Descend, Top
    <3>2. QED
      BY <2>1, <3>1
  <2>4. /\ stack' \in Seq(Frame) /\ Len(stack') = n + 1
        /\ stack'[n] = g /\ stack'[n + 1] = h
        /\ \A k \in 1 .. n - 1 : stack'[k] = stack[k]
    BY <1>1, <2>1, <2>2, <2>3
  <2>5. TypeOK'
    <3>1. ASSUME NEW k \in DOMAIN stack'
          PROVE  stack'[k].i <= Len(Code[stack'[k].blk]) + 1
      <4>1. k \in 1 .. n + 1
        BY <1>1, <2>4
      <4>2. CASE k = n + 1
        BY <2>2, <2>4, <4>2
      <4>3. CASE k = n
        BY <1>1, <2>1, <2>4, <4>3
      <4>4. CASE k \in 1 .. n - 1
        <5>1. k \in DOMAIN stack /\ stack'[k] = stack[k]
          BY <1>1, <2>4, <4>4
        <5>2. QED
          BY <5>1 DEF LInv, TypeOK
      <4>5. QED
        BY <1>1, <4>1, <4>2, <4>3, <4>4
    <3>2. QED
      BY <2>3, <2>4, <3>1 DEF LInv, TypeOK
  <2>6. f.depth = n - 1
    BY <1>1 DEF LInv, DepthInv
  <2>7. DepthInv'
    <3>1. ASSUME NEW k \in 1 .. Len(stack')
          PROVE  /\ stack'[k].depth = k - 1
                 /\ k < Len(stack') => stack'[k].depth <= MaxDepth
      <4>1. k \in 1 .. n + 1
        BY <1>1, <2>4
      <4>2. CASE k = n + 1
        BY <1>1, <2>4, <2>6, <4>2
      <4>3. CASE k = n
        BY <1>1, <2>1, <2>4, <2>6, <4>3
      <4>4. CASE k \in 1 .. n - 1
        <5>1. k \in 1 .. n /\ k < n /\ stack'[k] = stack[k]
          BY <1>1, <2>4, <4>4
        <5>2. QED
          BY <5>1, <2>4 DEF LInv, DepthInv
      <4>5. QED
        BY <1>1, <4>1, <4>2, <4>3, <4>4
    <3>2. QED
      BY <3>1 DEF DepthInv
  <2>10. Dec
    <3>1. Len(ToPrint) = n /\ Len(ToPrint') = n + 1
      BY <1>1, <2>4 DEF ToPrint
    <3>2. ToPrint'[n] < ToPrint[n]
      <4>1. ToPrint[n] = Len(Code[f.blk]) + 1 - f.i
        BY <1>1 DEF ToPrint
      <4>2. ToPrint'[n] = Len(Code[f.blk]) + 1 - (f.i + 1)
        <5>1. n \in 1 .. Len(stack')
          BY <1>1, <2>4
        <5>2. ToPrint'[n] = Len(Code[stack'[n].blk]) + 1 - stack'[n].i
          BY <5>1 DEF ToPrint
        <5>3. stack'[n].blk = f.blk /\ stack'[n].i = f.i + 1
          BY <2>1, <2>4
        <5>4. QED
          BY <5>2, <5>3
      <4>3. QED
        BY <1>1, <4>1, <4>2
    <3>3. \A m \in 1 .. n - 1 : ToPrint'[m] = ToPrint[m]
      BY <1>1, <2>4 DEF ToPrint
    <3>4. LexBelow(ToPrint', ToPrint)
      BY <1>1, <3>1, <3>2, <3>3 DEF LexBelow
    <3>5. QED
      BY <3>4 DEF Dec
  <2>8. QED
    BY <2>5, <2>7, <2>10 DEF LInv, StepOK
<1>4. QED
  BY <1>2, <1>3

\* print_expr_block returns (lines 173-179).
LEMMA BlockEndStep == ASSUME LInv, BlockEnd PROVE StepOK
<1> DEFINE n == Len(stack)
<1>1. stack \in Seq(Frame) /\ n \in Nat \ {0}
  BY DEF BlockEnd, LInv, TypeOK
<1>2. /\ stack' = SubSeq(stack, 1, n - 1)
      /\ stack' \in Seq(Frame) /\ Len(stack') = n - 1
      /\ \A k \in 1 .. n - 1 : stack'[k] = stack[k]
  <2>1. stack' = SubSeq(stack, 1, n - 1)
    BY DEF BlockEnd
  <2>2. \A k \in 1 .. n - 1 : stack[k] \in Frame
    BY <1>1
  <2>3. /\ SubSeq(stack, 1, n - 1) \in Seq(Frame)
        /\ Len(SubSeq(stack, 1, n - 1)) = IF 1 <= n - 1 THEN n - 1 ELSE 0
        /\ \A k \in 1 .. n - 1 : SubSeq(stack, 1, n - 1)[k] = stack[1 + k - 1]
    BY <1>1, <2>2, SubSeqProperties
  <2>4. Len(stack') = n - 1
    <3>1. CASE n = 1
      <4>1. Len(SubSeq(stack, 1, n - 1)) = 0
        BY <2>3, <3>1
      <4>2. QED
        BY <2>1, <3>1, <4>1
    <3>2. CASE n # 1
      <4>0. 2 <= n
        <5>1. \A x \in Nat : x # 0 /\ x # 1 => 2 <= x
          OBVIOUS
        <5>2. QED
          BY <1>1, <3>2, <5>1
      <4>1. Len(SubSeq(stack, 1, n - 1)) = n - 1
        BY <2>3, <4>0
      <4>2. QED
        BY <2>1, <4>1
    <3>3. QED
      BY <3>1, <3>2
  <2>5. \A k \in 1 .. n - 1 : stack'[k] = stack[k]
    BY <1>1, <2>1, <2>3
  <2>6. QED
    BY <2>1, <2>3, <2>4, <2>5
<1>3. TypeOK'
  <2>1. env' = env /\ status' \in {"running", "ok", "error", "overflow"}
    BY DEF BlockEnd
  <2>2. ASSUME NEW k \in DOMAIN stack'
        PROVE  stack'[k].i <= Len(Code[stack'[k].blk]) + 1
    <3>1. k \in DOMAIN stack /\ stack'[k] = stack[k]
      BY <1>1, <1>2
    <3>2. QED
      BY <3>1 DEF LInv, TypeOK
  <2>3. QED
    BY <1>2, <2>1, <2>2 DEF LInv, TypeOK
<1>4. DepthInv'
  <2>1. ASSUME NEW k \in 1 .. Len(stack')
        PROVE  /\ stack'[k].depth = k - 1
               /\ k < Len(stack') => stack'[k].depth <= MaxDepth
    <3>1. k \in 1 .. n /\ k < n /\ stack'[k] = stack[k] /\ Len(stack') = n - 1
      BY <1>1, <1>2
    <3>2. QED
      BY <3>1 DEF LInv, DepthInv
  <2>2. QED
    BY <2>1 DEF DepthInv
<1>5. Dec
  <2>1. CASE n = 1
    BY <2>1 DEF BlockEnd, Dec
  <2>2. CASE n # 1
    <3>1. Len(ToPrint) = n /\ Len(ToPrint') = n - 1
      BY <1>1, <1>2 DEF ToPrint
    <3>2. \A k \in 1 .. n - 1 : ToPrint'[k] = ToPrint[k]
      BY <1>1, <1>2 DEF ToPrint
    <3>3. LexBelow(ToPrint', ToPrint)
      BY <1>1, <3>1, <3>2 DEF LexBelow
    <3>4. QED
      BY <3>3 DEF Dec
  <2>3. QED
    BY <2>1, <2>2
<1>6. QED
  BY <1>3, <1>4, <1>5 DEF LInv, StepOK

\* A location list lookup that finds exactly one covering range entry
\* names a block (lines 455-476 and 495-516 print its expression).
LEMMA LocatedBlock ==
    ASSUME NEW list, NEW x,
           \A m \in DOMAIN list : list[m].kind = "range" => list[m].blk \in Blocks,
           Locs(list, x) = 1
    PROVE  Located(list, x) \in Blocks
<1>1. Covering(list, x) # {}
  <2>1. Cardinality(Covering(list, x)) = 1
    BY DEF Locs
  <2>2. QED
    BY <2>1, FS_EmptySet
<1>2. \A k \in Covering(list, x) : list[k].blk \in Blocks
  BY DEF Covering
<1>3. QED
  BY <1>1, <1>2 DEF Located

\* The end of print_base_type.
LEMMA PrintBaseTypeStep ==
    ASSUME LInv, Ready, NEW op, PrintBaseType(op)
    PROVE  StepOK
BY DoneStep, FailStep DEF PrintBaseType

\* The value of a DIE at the current address: optimized out, its single
\* location printed one level deeper, or an error.
LEMMA LocatedValueStep ==
    ASSUME LInv, Ready, LocatedValue(CurOp)
    PROVE  StepOK
<1>1. /\ Top.addr \in Addrs
      /\ \A m \in DOMAIN CurOp.list :
            CurOp.list[m].kind = "range" => CurOp.list[m].blk \in Blocks
  BY TopFacts DEF LInv, Frame
<1>2. Locs(CurOp.list, Top.addr) = 1
        => Located(CurOp.list, Top.addr) \in Blocks
  BY <1>1, LocatedBlock
<1>3. QED
  BY <1>1, <1>2, DoneStep, FailStep, DescendStep DEF LocatedValue

\* Lines 196-197: the recursion guard fires.
LEMMA DepthExceededStep == ASSUME LInv, DepthExceeded PROVE StepOK
BY FailStep DEF DepthExceeded

\* Opcodes printed without a nested expression, by their print_expr case.
LEMMA PlainStep ==
    ASSUME LInv,
           \/ PrintPlain \/ PushObjectAddress \/ Fbreg \/ ImplicitValue
           \/ ParameterRef \/ IndexedOp \/ Unhandled
    PROVE  StepOK
<1>1. Ready
  BY DispatchReady DEF PrintPlain, PushObjectAddress, Fbreg, ImplicitValue,
                       ParameterRef, IndexedOp, Unhandled
<1>2. QED
  BY <1>1, DoneStep, FailStep DEF PrintPlain, PushObjectAddress, Fbreg,
     ImplicitValue, ParameterRef, IndexedOp, Unhandled

\* The opcodes that end in print_base_type (lines 563-665).
LEMMA TypedStep ==
    ASSUME LInv, \/ Convert \/ TypedOp \/ XderefType \/ ConstType
    PROVE  StepOK
<1>1. Ready
  BY DispatchReady DEF Convert, TypedOp, XderefType, ConstType
<1>2. QED
  BY <1>1, DoneStep, FailStep, PrintBaseTypeStep
  DEF Convert, TypedOp, XderefType, ConstType

\* DW_OP_implicit_pointer and DW_OP_GNU_variable_value (lines 425-517).
LEMMA ValueStep ==
    ASSUME LInv, \/ ImplicitPointer \/ VariableValue
    PROVE  StepOK
<1>1. Ready
  BY DispatchReady DEF ImplicitPointer, VariableValue
<1>2. QED
  BY <1>1, DoneStep, FailStep, LocatedValueStep DEF ImplicitPointer, VariableValue

\* The opcodes whose nested expression is printed one level deeper: the
\* lookup that succeeded names a block (RefAssumption).
LEMMA ReferringStep ==
    ASSUME LInv, \/ CallFrameCfa \/ CallOp \/ EntryValue
    PROVE  StepOK
<1>1. Ready /\ CurOp.atom \in Referring
  BY DispatchReady DEF CallFrameCfa, CallOp, EntryValue, Dispatch, Referring
<1>2. /\ CurOp.ok => CurOp.ref \in Blocks
      /\ Top.attr \in BOOLEAN /\ Top.addr \in Addrs
  BY <1>1, TopFacts DEF LInv, Frame
<1>3. CASE CallFrameCfa
  BY <1>1, <1>2, <1>3, DoneStep, FailStep, DescendStep DEF CallFrameCfa
<1>4. CASE CallOp
  BY <1>1, <1>2, <1>4, FailStep, DescendStep DEF CallOp
<1>5. CASE EntryValue
  BY <1>1, <1>2, <1>5, FailStep, DescendStep DEF EntryValue
<1>6. QED
  BY <1>3, <1>4, <1>5

\* Every print_expr step keeps the invariant and makes progress.
LEMMA NextStep == ASSUME LInv, Next PROVE StepOK
BY DepthExceededStep, PlainStep, TypedStep, ValueStep, ReferringStep,
   BlockEndStep DEF Next

\* Every step of print_expr_block, or a stutter, keeps the invariant.
LEMMA StepL == ASSUME LInv, [Next]_vars PROVE LInv'
<1>1. CASE UNCHANGED vars
  BY <1>1 DEF vars, LInv, TypeOK, DepthInv
<1>2. QED
  BY <1>1, NextStep DEF StepOK

\* The top-level call of print_expr_block (lines 182-190).
LEMMA InitL == Init => LInv
BY DEF Init, LInv, TypeOK, DepthInv, Env, Frame

\* The invariant bounds the stack: frame Len(stack) - 1 passed the guard.
LEMMA BoundedL == LInv => StackBounded
<1> SUFFICES ASSUME LInv PROVE StackBounded
  OBVIOUS
<1> DEFINE n == Len(stack)
<1>1. n \in Nat
  BY DEF LInv, TypeOK
<1>2. CASE n <= 1
  BY <1>1, <1>2 DEF StackBounded
<1>3. CASE n > 1
  <2>1. PICK k \in 1 .. n : k + 1 = n
    <3>1. \A x \in Nat : x > 1 => \E y \in 1 .. x : y + 1 = x
      OBVIOUS
    <3>2. QED
      BY <1>1, <1>3, <3>1
  <2>2. stack[k].depth = k - 1 /\ stack[k].depth <= MaxDepth
    BY <2>1 DEF LInv, DepthInv
  <2>3. QED
    BY <1>1, <2>1, <2>2 DEF StackBounded
<1>4. QED
  BY <1>1, <1>2, <1>3

\* Type correctness of the evaluator for every expression, flag and
\* MAX_DEPTH: each frame is a print_expr_block call positioned on an opcode
\* of its block or at its end.
THEOREM LocExprTypeOK == Spec => []TypeOK
<1>1. Init => LInv
  BY InitL
<1>2. LInv /\ [Next]_vars => LInv'
  BY StepL
<1>3. LInv => TypeOK
  BY DEF LInv
<1>4. QED
  BY <1>1, <1>2, <1>3, PTL DEF Spec

\* The recursion of print_expr and print_expr_block is bounded by the depth
\* counter of line 196 whatever the expressions refer to: at most
\* MaxDepth + 2 print_expr_block calls are ever active.
THEOREM LocExprStackBounded == Spec => []StackBounded
<1>1. Init => LInv
  BY InitL
<1>2. LInv /\ [Next]_vars => LInv'
  BY StepL
<1>3. QED
  BY <1>1, <1>2, BoundedL, PTL DEF Spec

\* print_expr makes progress on every expression graph, self-referring ones
\* included: each step that does not end the run lowers what the active
\* print_expr_block calls still have to print, in the lexicographic order
\* (the safety half of Terminates, whose liveness half TLC checks).
THEOREM LocExprProgress == Spec => Progress
<1>1. Init => LInv
  BY InitL
<1>2. LInv /\ [Next]_vars => LInv'
  BY StepL
<1>3. LInv /\ [Next]_vars =>
        [status' = "running" => LexBelow(ToPrint', ToPrint)]_vars
  BY NextStep DEF StepOK, Dec
<1>4. QED
  BY <1>1, <1>2, <1>3, PTL DEF Spec, Progress

=============================================================================
