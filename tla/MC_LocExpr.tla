----------------------------- MODULE MC_LocExpr -----------------------------
(***************************************************************************)
(* An input for LocExpr: expressions exercising every opcode class and     *)
(* every exit of print_expr, a call chain as long as the depth cap allows  *)
(* and one longer, self-referring expressions, and location lists with a   *)
(* base entry and overlapping ranges.  MAX_DEPTH keeps its value, 64.      *)
(***************************************************************************)
EXTENDS LocExprRef, TLC

CONSTANT NoBlockV

\* An opcode that every lookup answers well.
Dflt == [atom |-> "plain", ref |-> NoBlockV, ok |-> TRUE, agree |-> TRUE,
         frame |-> TRUE, base |-> "byte_size", formal |-> TRUE, off |-> 1,
         const |-> FALSE, list |-> << >>, fits |-> TRUE]
A(a) == [Dflt EXCEPT !.atom = a]
R(a, b) == [Dflt EXCEPT !.atom = a, !.ref = b]
Rg(lo, hi, b) == [kind |-> "range", lo |-> lo, hi |-> hi, blk |-> b]
Bs(x) == [kind |-> "base", lo |-> x, hi |-> 0, blk |-> NoBlockV]

\* Blocks 1 .. 65 call the next one; block 66 is a plain opcode.  From
\* block 2 the chain makes 64 calls, from block 1 it makes 65.
ChainEnd == 66

\* Blocks 67 on.
Table == <<
  (* 67 *) << R("call", 67) >>,
  (* 68 *) << R("entry_value", 68) >>,
  (* 69 *) << A("plain"), R("call_frame_cfa", 70), A("fbreg") >>,
  (* 70 *) << A("plain"), A("plain") >>,
  (* 71 *) << R("call_frame_cfa", 72) >>,
  (* 72 *) << A("plain"), A("push_object_address") >>,
  (* 73 *) << [R("call_frame_cfa", 70) EXCEPT !.frame = FALSE] >>,
  (* 74 *) << [R("call_frame_cfa", 70) EXCEPT !.ok = FALSE] >>,
  (* 75 *) << R("call_frame_cfa", 76) >>,
  (* 76 *) << >>,
  (* 77 *) << [A("implicit_pointer") EXCEPT !.list = << Rg(0, 2, 78), Rg(1, 3, 79) >>] >>,
  (* 78 *) << A("fbreg") >>,
  (* 79 *) << A("push_object_address"), A("plain") >>,
  (* 80 *) << [A("variable_value") EXCEPT !.list = << Bs(2), Rg(0, 1, 79) >>] >>,
  (* 81 *) << R("entry_value", 79) >>,
  (* 82 *) << R("call_frame_cfa", 81) >>,
  (* 83 *) << R("call_frame_cfa", 77) >>,
  (* 84 *) << A("implicit_value"), [A("implicit_value") EXCEPT !.agree = FALSE] >>,
  (* 85 *) << A("parameter_ref"), [A("parameter_ref") EXCEPT !.formal = FALSE] >>,
  (* 86 *) << [A("convert") EXCEPT !.off = 0], A("convert"),
              [A("convert") EXCEPT !.base = "no_size"] >>,
  (* 87 *) << [A("typed") EXCEPT !.base = "bit_size"], [A("typed") EXCEPT !.agree = FALSE] >>,
  (* 88 *) << [A("xderef_type") EXCEPT !.base = "not_base"] >>,
  (* 89 *) << A("const_type"), [A("const_type") EXCEPT !.ok = FALSE] >>,
  (* 90 *) << A("indexed"), [A("indexed") EXCEPT !.ok = FALSE] >>,
  (* 91 *) << A("unknown") >>,
  (* 92 *) << [R("call", ChainEnd) EXCEPT !.ok = FALSE] >>,
  (* 93 *) << R("call", 79), [A("implicit_pointer") EXCEPT !.const = TRUE],
              [A("variable_value") EXCEPT !.const = TRUE],
              [A("variable_value") EXCEPT !.ok = FALSE] >>,
  (* 94 *) << [A("implicit_pointer") EXCEPT !.agree = FALSE] >>,
  (* 95 *) << [A("const_type") EXCEPT !.fits = FALSE] >>,
  (* 96 *) << [A("entry_value") EXCEPT !.ok = FALSE] >>,
  (* 97 *) << R("call_frame_cfa", 98) >>,
  (* 98 *) << A("variable_value") >>,
  (* 99 *) << R("call_frame_cfa", 78) >>,
  (* 100 *) << R("call_frame_cfa", 101) >>,
  (* 101 *) << R("call", ChainEnd) >>,
  (* 102 *) << [A("convert") EXCEPT !.ok = FALSE], A("plain") >>,
  (* 103 *) << A("xderef_type"), [A("xderef_type") EXCEPT !.ok = FALSE] >>,
  (* 104 *) << R("call_frame_cfa", 70) >>,
  (* 105 *) << R("call_frame_cfa", 104) >>,
  (* 106 *) << [A("typed") EXCEPT !.base = "no_encoding"] >>,
  (* 107 *) << [A("const_type") EXCEPT !.base = "not_base"] >>,
  (* 108 *) << [A("variable_value") EXCEPT !.list = << Rg(0, 2, 79), Rg(1, 3, 70) >>] >>
>>

MCBlocks == 1 .. ChainEnd + Len(Table)

MCCode == [b \in MCBlocks |->
             IF b < ChainEnd THEN << R("call", b + 1) >>
             ELSE IF b = ChainEnd THEN << A("plain") >>
             ELSE Table[b - ChainEnd]]

MCAddrs == 0 .. 3

\* The runs of varlocs on this input, printing the expression at top.
EnvsAt(tops, flags) ==
    {[cfi |-> f[1], debug |-> f[2], etrel |-> f[3], fb |-> f[4], top |-> t, addr |-> x] :
        f \in flags, t \in tops, x \in MCAddrs}

AllFlags == BOOLEAN \X BOOLEAN \X BOOLEAN \X BOOLEAN

\* An ET_REL file without any CFI table, not under --debug: see the
\* relaxed run.
NoCfiObject(f) == ~f[1] /\ ~f[2] /\ f[3]

\* Every expression but block 95 (see the const_type run), every run but
\* NoCfiObject.
PassEnvs == EnvsAt({1, 2} \cup (67 .. 94) \cup (96 .. 108),
                   {f \in AllFlags : ~NoCfiObject(f)})

\* Block 95: a DW_OP_const_type whose block is shorter than its type.
ConstTypeEnvs == EnvsAt({95}, AllFlags)

\* Block 69, which uses DW_OP_call_frame_cfa, in an ET_REL file without CFI.
RelaxedEnvs == EnvsAt({69}, {f \in AllFlags : NoCfiObject(f) /\ f[4]})

=============================================================================
