------------------------------ MODULE LocExpr ------------------------------
(***************************************************************************)
(* print_expr and print_expr_block (tests/varlocs.c): the interpreter of a *)
(* DWARF location expression, one opcode at a time, recursing into the     *)
(* expressions an opcode refers to (a called DIE's location, a CFA         *)
(* expression, an entry-value sub-expression, the location an implicit     *)
(* pointer or a variable value resolves to at the current address).        *)
(*                                                                         *)
(* The C recursion is an explicit stack: a frame is one print_expr_block   *)
(* call, with its attribute (NULL for CFI-derived expressions), its        *)
(* address, its depth and the index of the opcode it prints next.  One     *)
(* step runs one print_expr call up to the nested print_expr_block it      *)
(* makes, if any.  What libdw answers (lookups, frames, base types) is     *)
(* data of the opcode; printing is left out.  error () and a failed        *)
(* assert both end the program: status "error".  A recursion deeper than   *)
(* the process stack holds ends it too: status "overflow".                 *)
(***************************************************************************)
EXTENDS Integers, Sequences, FiniteSets, LocLookup

CONSTANTS
    Blocks,      \* the location expressions of the input
    NoBlock,     \* no expression (an opcode that refers to none)
    Code,        \* [Blocks -> Seq(Op)]: the opcodes of each expression
    Envs,        \* the runs of varlocs: the tables it found and what it prints
    Addrs,       \* addresses, 0 included
    MaxDepth,    \* MAX_DEPTH (line 195)
    MaxFrames    \* print_expr_block frames the process stack holds

\* The opcode classes of the switch of print_expr.
Atoms == {"plain", "call_frame_cfa", "push_object_address", "call", "fbreg",
          "implicit_value", "implicit_pointer", "variable_value",
          "entry_value", "parameter_ref", "convert", "typed", "xderef_type",
          "const_type", "indexed", "unknown"}

\* What print_base_type finds at a type DIE.
BaseKinds == {"byte_size", "bit_size", "no_size", "no_encoding", "not_base"}

\* A location list entry (the Location List Resolver): a base address
\* entry, or a range relative to the current base with its expression.
Entry == [kind : {"base", "range"}, lo : Addrs, hi : Addrs, blk : Blocks \cup {NoBlock}]

\* An opcode with what libdw answers about it:
\*   ref     the expression it refers to (CFA, called DIE, entry value)
\*   ok      every dwarf_getlocation_* / dwarf_form* / dwarf_frame_cfa call
\*           it makes succeeds
\*   agree   the two sides of each cross-check assert are equal
\*   frame   dwarf_cfi_addrframe finds a frame at the address
\*   base    what print_base_type finds at the referenced type
\*   formal  the referenced DIE is a DW_TAG_formal_parameter
\*   off     expr->number of a convert (0: untyped)
\*   const   the referenced attribute is a DW_AT_const_value
\*   list    the location list of the referenced DIE
\*   fits    the constant's block is as long as its base type
Op == [atom : Atoms, ref : Blocks \cup {NoBlock}, ok : BOOLEAN,
       agree : BOOLEAN, frame : BOOLEAN, base : BaseKinds, formal : BOOLEAN,
       off : Nat, const : BOOLEAN, list : Seq(Entry), fits : BOOLEAN]

\* The globals of varlocs (lines 41-51) and what main prints: some CFI
\* table was found, --debug, an ET_REL file, has_frame_base, and the
\* expression printed with its address.
Env == [cfi : BOOLEAN, debug : BOOLEAN, etrel : BOOLEAN, fb : BOOLEAN,
        top : Blocks, addr : Addrs]

ASSUME LocExprAssumption ==
    /\ NoBlock \notin Blocks
    /\ Code \in [Blocks -> Seq(Op)]
    /\ Envs \subseteq Env
    /\ 0 \in Addrs /\ Addrs \subseteq Nat /\ CuBase \in Nat
    /\ MaxDepth \in Nat /\ MaxFrames \in Nat \ {0}

\* The opcodes whose nested expression print_expr prints: a called DIE's
\* location, an entry value's sub-expression, the frame's CFA expression.
Referring == {"call", "entry_value", "call_frame_cfa"}

\* A lookup that succeeds returns an expression (dwarf_getlocation_attr,
\* dwarf_getlocation and dwarf_frame_cfa fill in the block they are given),
\* and every range entry of a location list holds one.
ASSUME RefAssumption ==
    \A b \in Blocks : \A j \in DOMAIN Code[b] :
        /\ Code[b][j].ok /\ Code[b][j].atom \in Referring => Code[b][j].ref \in Blocks
        /\ \A m \in DOMAIN Code[b][j].list :
              Code[b][j].list[m].kind = "range" => Code[b][j].list[m].blk \in Blocks

VARIABLES
    env,      \* the run, fixed
    stack,    \* the print_expr_block calls in progress, innermost last
    status    \* "running", "ok", "error" or "overflow"

vars == <<env, stack, status>>

\* A print_expr_block call: attr is FALSE for the NULL attribute.
Frame == [blk : Blocks, i : Nat \ {0}, attr : BOOLEAN, addr : Addrs, depth : Nat]

-----------------------------------------------------------------------------
(* Helpers *)

Top == stack[Len(stack)]
CurOp == Code[Top.blk][Top.i]

\* Mutant: the guard rejects the depth the cap allows.
TooDeepAtCap(f) == f.depth >= MaxDepth

\* Line 196: the recursion guard.
TooDeep(f) == f.depth > MaxDepth

\* Lines 194-202: print_expr on the next opcode of the innermost block,
\* past the recursion guard, switching on the opcode's class.
Dispatch(a) ==
    /\ status = "running"
    /\ stack # << >>
    /\ Top.i <= Len(Code[Top.blk])
    /\ ~TooDeep(Top)
    /\ CurOp.atom = a

\* Mutant: the loop of print_expr_block does not advance.
DoneNoAdvance ==
    /\ stack' = stack
    /\ UNCHANGED <<env, status>>

\* The opcode is printed; the loop of print_expr_block goes on.
Done ==
    /\ stack' = [stack EXCEPT ![Len(stack)].i = @ + 1]
    /\ UNCHANGED <<env, status>>

\* error (EXIT_FAILURE, ...) or a failed assert.
Fail ==
    /\ status' = "error"
    /\ UNCHANGED <<env, stack>>

\* Mutant: the nested block gets the depth before the increment.
DescendSameDepth(b, a, x) ==
    /\ IF Len(stack) >= MaxFrames
       THEN status' = "overflow" /\ UNCHANGED stack
       ELSE /\ stack' = Append([stack EXCEPT ![Len(stack)].i = @ + 1],
                               [blk |-> b, i |-> 1, attr |-> a, addr |-> x,
                                depth |-> Top.depth])
            /\ UNCHANGED status
    /\ UNCHANGED env

\* Mutant: the opcode that made the nested call is not passed over, so it
\* is printed again once the nested block returns.
DescendNoAdvance(b, a, x) ==
    /\ IF Len(stack) >= MaxFrames
       THEN status' = "overflow" /\ UNCHANGED stack
       ELSE /\ stack' = Append(stack,
                               [blk |-> b, i |-> 1, attr |-> a, addr |-> x,
                                depth |-> Top.depth + 1])
            /\ UNCHANGED status
    /\ UNCHANGED env

\* print_expr_block (a, Code[b], ..., x, depth) called from print_expr
\* with its incremented depth; once it returns the opcode is done.
Descend(b, a, x) ==
    /\ IF Len(stack) >= MaxFrames
       THEN status' = "overflow" /\ UNCHANGED stack
       ELSE /\ stack' = Append([stack EXCEPT ![Len(stack)].i = @ + 1],
                               [blk |-> b, i |-> 1, attr |-> a, addr |-> x,
                                depth |-> Top.depth + 1])
            /\ UNCHANGED status
    /\ UNCHANGED env

\* Lines 121-148: print_base_type needs a base type DIE with an encoding
\* and a byte or a bit size.
BaseTypeDecodes(op) == op.base \in {"byte_size", "bit_size"}

\* The end of print_base_type: the opcode is done, or the program exits.
PrintBaseType(op) ==
    \/ BaseTypeDecodes(op) /\ Done
    \/ ~BaseTypeDecodes(op) /\ Fail

\* Lines 455-476 and 495-516: the location of the referenced DIE at the
\* current address: none (optimized out), one (printed), or an error.
LocatedValue(op) ==
    LET n == Locs(op.list, Top.addr)
    IN \/ n = 0 /\ Done
       \/ n = 1 /\ Descend(Located(op.list, Top.addr), TRUE, Top.addr)
       \/ n \notin {0, 1} /\ Fail

-----------------------------------------------------------------------------
(* Actions *)

\* Lines 182-190: print_expr_block_addrs, and the other top-level calls
\* of print_expr_block (lines 735, 748, 952), start at depth 0 with a DIE's
\* attribute.
Init ==
    /\ env \in Envs
    /\ stack = << [blk |-> env.top, i |-> 1, attr |-> TRUE, addr |-> env.addr,
                   depth |-> 0] >>
    /\ status = "running"

\* Lines 196-197: the recursion is too deep.
DepthExceeded ==
    /\ status = "running"
    /\ stack # << >>
    /\ Top.i <= Len(Code[Top.blk])
    /\ TooDeep(Top)
    /\ Fail

\* Lines 204-258: opcodes without arguments (and, alike, lines 309-327,
\* 359-369 and 382-393: opcodes with numeric arguments).
PrintPlain ==
    /\ Dispatch("plain")
    /\ Done

\* Lines 260-298: DW_OP_call_frame_cfa.  Not in CFI; some CFI table or
\* --debug; the frame's CFA expression is printed with a NULL attribute
\* at address 0; without a frame only ET_REL files and --debug get the
\* placeholder.
CallFrameCfa ==
    /\ Dispatch("call_frame_cfa")
    /\ LET op == CurOp
           found == env.cfi /\ op.frame
       IN \/ ~Top.attr /\ Fail
          \/ Top.attr /\ ~env.cfi /\ ~env.debug /\ Fail
          \/ /\ Top.attr /\ (env.cfi \/ env.debug)
             /\ \/ found /\ (~op.ok \/ Code[op.ref] = << >>) /\ Fail
                \/ found /\ op.ok /\ Code[op.ref] # << >> /\ Descend(op.ref, FALSE, 0)
                \/ ~found /\ (env.etrel \/ env.debug) /\ Done
                \/ ~found /\ ~env.etrel /\ ~env.debug /\ Fail

\* Lines 300-307: DW_OP_push_object_address, not in CFI.
PushObjectAddress ==
    /\ Dispatch("push_object_address")
    /\ \/ ~Top.attr /\ Fail
       \/ Top.attr /\ Done

\* Lines 329-357: DW_OP_call2/4/ref, not in CFI: the called DIE's location
\* is printed with its own attribute at the same address.
CallOp ==
    /\ Dispatch("call")
    /\ \/ ~Top.attr /\ Fail
       \/ Top.attr /\ ~CurOp.ok /\ Fail
       \/ Top.attr /\ CurOp.ok /\ Descend(CurOp.ref, TRUE, Top.addr)

\* Lines 371-380: DW_OP_fbreg, not in CFI and only with a frame base.
Fbreg ==
    /\ Dispatch("fbreg")
    /\ \/ ~Top.attr /\ Fail
       \/ Top.attr /\ ~env.fb /\ Fail
       \/ Top.attr /\ env.fb /\ Done

\* Lines 394-423: DW_OP_implicit_value; the block read two ways must agree
\* (lines 413-419).
ImplicitValue ==
    /\ Dispatch("implicit_value")
    /\ \/ (~CurOp.ok \/ ~CurOp.agree) /\ Fail
       \/ CurOp.ok /\ CurOp.agree /\ Done

\* Lines 425-477: DW_OP_implicit_pointer, not in CFI; the two lookups of
\* the referenced attribute must agree (lines 443-447).
ImplicitPointer ==
    /\ Dispatch("implicit_pointer")
    /\ \/ ~Top.attr /\ Fail
       \/ Top.attr /\ (~CurOp.ok \/ ~CurOp.agree) /\ Fail
       \/ Top.attr /\ CurOp.ok /\ CurOp.agree /\ CurOp.const /\ Done
       \/ Top.attr /\ CurOp.ok /\ CurOp.agree /\ ~CurOp.const /\ LocatedValue(CurOp)

\* Lines 479-517: DW_OP_GNU_variable_value, not in CFI.
VariableValue ==
    /\ Dispatch("variable_value")
    /\ \/ ~Top.attr /\ Fail
       \/ Top.attr /\ ~CurOp.ok /\ Fail
       \/ Top.attr /\ CurOp.ok /\ CurOp.const /\ Done
       \/ Top.attr /\ CurOp.ok /\ ~CurOp.const /\ LocatedValue(CurOp)

\* Mutant: the result of dwarf_getlocation (line 531) is not checked.
EntryValueIgnoresError ==
    /\ Dispatch("entry_value")
    /\ Descend(CurOp.ref, Top.attr, Top.addr)

\* Lines 519-541: DW_OP_entry_value: the sub-expression is printed with
\* the attribute of the enclosing expression (line 539).
EntryValue ==
    /\ Dispatch("entry_value")
    /\ \/ ~CurOp.ok /\ Fail
       \/ CurOp.ok /\ Descend(CurOp.ref, Top.attr, Top.addr)

\* Lines 543-561: DW_OP_GNU_parameter_ref: the DIE must be a formal
\* parameter at the offset the opcode names.
ParameterRef ==
    /\ Dispatch("parameter_ref")
    /\ \/ (~CurOp.ok \/ ~CurOp.agree \/ ~CurOp.formal) /\ Fail
       \/ CurOp.ok /\ CurOp.agree /\ CurOp.formal /\ Done

\* Lines 563-588: DW_OP_convert and DW_OP_reinterpret; offset 0 is the
\* generic type and looks nothing up.
Convert ==
    /\ Dispatch("convert")
    /\ \/ CurOp.off = 0 /\ Done
       \/ CurOp.off # 0 /\ (~CurOp.ok \/ ~CurOp.agree) /\ Fail
       \/ CurOp.off # 0 /\ CurOp.ok /\ CurOp.agree /\ PrintBaseType(CurOp)

\* Lines 590-620: DW_OP_regval_type and DW_OP_deref_type.
TypedOp ==
    /\ Dispatch("typed")
    /\ \/ (~CurOp.ok \/ ~CurOp.agree) /\ Fail
       \/ CurOp.ok /\ CurOp.agree /\ PrintBaseType(CurOp)

\* Lines 622-634: DW_OP_xderef_type: no offset cross-check.
XderefType ==
    /\ Dispatch("xderef_type")
    /\ \/ ~CurOp.ok /\ Fail
       \/ CurOp.ok /\ PrintBaseType(CurOp)

\* Lines 636-665: DW_OP_const_type: the type, then the constant's block;
\* the block's length is printed, never compared with the type's size.
ConstType ==
    /\ Dispatch("const_type")
    /\ \/ (~CurOp.ok \/ ~CurOp.agree) /\ Fail
       \/ CurOp.ok /\ CurOp.agree /\ PrintBaseType(CurOp)

\* Lines 667-701: DW_OP_addrx and DW_OP_constx read .debug_addr.
IndexedOp ==
    /\ Dispatch("indexed")
    /\ \/ ~CurOp.ok /\ Fail
       \/ CurOp.ok /\ Done

\* Lines 703-705: any other opcode is an error.
Unhandled ==
    /\ Dispatch("unknown")
    /\ Fail

\* Lines 173-179: print_expr_block has printed its last opcode and returns
\* to the print_expr that called it, or to the top level.
BlockEnd ==
    /\ status = "running"
    /\ stack # << >>
    /\ Top.i > Len(Code[Top.blk])
    /\ stack' = SubSeq(stack, 1, Len(stack) - 1)
    /\ status' = IF Len(stack) = 1 THEN "ok" ELSE "running"
    /\ UNCHANGED env

Next ==
    \/ DepthExceeded \/ PrintPlain \/ CallFrameCfa \/ PushObjectAddress
    \/ CallOp \/ Fbreg \/ ImplicitValue \/ ImplicitPointer \/ VariableValue
    \/ EntryValue \/ ParameterRef \/ Convert \/ TypedOp \/ XderefType
    \/ ConstType \/ IndexedOp \/ Unhandled \/ BlockEnd

\* varlocs is single-threaded and nothing in print_expr waits.
Spec == Init /\ [][Next]_vars /\ WF_vars(Next)

-----------------------------------------------------------------------------
(* Properties *)

\* The type invariant: every frame prints an opcode of its block or is at
\* its end.
TypeOK ==
    /\ env \in Envs
    /\ stack \in Seq(Frame)
    /\ \A k \in DOMAIN stack : stack[k].i <= Len(Code[stack[k].blk]) + 1
    /\ status \in {"running", "ok", "error", "overflow"}

\* The recursion is bounded by the depth counter, not by the process
\* stack (spec 5): however the expressions refer to one another (a DIE
\* whose location calls itself, an entry value of an entry value, a CFA
\* expression), at most MaxDepth + 2 print_expr_block calls are active.
StackBounded == Len(stack) <= MaxDepth + 2

\* What the active print_expr_block calls still have to print: frame k's
\* opcodes from its cursor on.
ToPrint == [k \in 1 .. Len(stack) |-> Len(Code[stack[k].blk]) + 1 - stack[k].i]

\* s comes before t: at the first place they differ s is smaller, or s is
\* a proper prefix of t.
LexBelow(s, t) ==
    \/ Len(s) < Len(t) /\ \A k \in 1 .. Len(s) : s[k] = t[k]
    \/ \E k \in 1 .. Len(s) :
          /\ k <= Len(t) /\ s[k] < t[k]
          /\ \A m \in 1 .. k - 1 : s[m] = t[m]

\* Every print_expr step that does not end the run makes progress, even on
\* expressions that refer to themselves: a nested print_expr_block is
\* entered only after its caller's cursor has passed the opcode that made
\* the call (lines 173-179), and a block that returns is gone.  ToPrint
\* decreases in an order with no infinite descent on stacks of at most
\* MaxDepth + 2 frames; this is the safety half of Terminates.
Progress == [][status' = "running" => LexBelow(ToPrint', ToPrint)]_vars

\* Printing finishes: every run of print_expr ends, printed or failed.
Terminates == <>(status # "running")

=============================================================================
