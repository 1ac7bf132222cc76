----------------------------- MODULE GetMacros -----------------------------
(***************************************************************************)
(* tests/dwarf-getmacros.c: the walk over the macro tables of the units of *)
(* a file.  mac () returns DWARF_CB_ABORT after every opcode, so each      *)
(* dwarf_getmacros[_off] call delivers one opcode and returns the token of *)
(* the next one (0 at the end of the table, -1 on an error).  A            *)
(* DW_MACRO_import makes mac () walk the imported table with include (),   *)
(* a nested loop in the middle of the caller's call: the C recursion is an *)
(* explicit stack of table walks, each with the position its token names.  *)
(* level is the static indentation counter of mac () (line 36); it lives   *)
(* across units.                                                           *)
(*                                                                         *)
(* dwarf_getmacros_off and the DWARF reader are libdw code outside src/;   *)
(* the file's tables are the input.  Printing is left out.  A recursion    *)
(* deeper than the process stack holds ends the program: pc "overflow".    *)
(***************************************************************************)
EXTENDS Integers, Sequences, Graphs

CONSTANTS
    Offs,        \* offsets of the macro tables of the file
    Files,       \* the inputs, each [Offs -> Seq(MacroOp)]: its tables
    Inputs,      \* the command lines: [mode, cus]
    NoMacros,    \* a unit without DW_AT_macro_info/GNU_macros/macros
    NoDie,       \* a unit offset dwarf_offdie cannot resolve
    MaxFrames    \* table walks the process stack holds

VARIABLES
    tables,      \* the macro tables of the file, fixed
    mode,        \* "all" (argv[2] empty, line 147) or "one" (a unit offset)
    cus,         \* the units main has still to walk
    stack,       \* the table walks in progress, innermost last
    level,       \* static int level of mac ()
    pc           \* "units", "macros", "done", "exit1", "crash", "overflow"

vars == <<tables, mode, cus, stack, level, pc>>

\* An opcode as mac () sees it: its kind, the table a DW_MACRO_import
\* names, and whether dwarf_macro_getsrcfiles succeeds for a start_file.
\* "bad" is an opcode dwarf_getmacros_off cannot decode.
MacroOp == [op : {"import", "start_file", "end_file", "define", "undef",
                  "other", "bad"},
            to : Offs, srcs : BOOLEAN]

\* The tables and the imports between them.
ImportGraph ==
    [node |-> Offs,
     edge |-> UNION {{<<t, tables[t][i].to>> :
                         i \in {j \in DOMAIN tables[t] : tables[t][j].op = "import"}} :
                      t \in Offs}]

Top == stack[Len(stack)]
CurOp == tables[Top.tbl][Top.pos]

\* The call of the innermost walk returns a token: it moves to the next
\* opcode.
Advance == stack' = [stack EXCEPT ![Len(stack)].pos = @ + 1]

\* mac () has handled the opcode and returned DWARF_CB_ABORT.
Delivered(op) ==
    /\ pc = "macros"
    /\ Top.pos \in DOMAIN tables[Top.tbl]
    /\ CurOp.op = op

\* The innermost walk ends.  getmacros () (lines 128-134) returns to main,
\* or include () (lines 117-122) returns into mac (), which restores level
\* (line 55) and returns DWARF_CB_ABORT to the caller's call.
Leave ==
    /\ stack' = SubSeq(stack, 1, Len(stack) - 1)
    /\ IF Len(stack) = 1
       THEN pc' = "units" /\ UNCHANGED level
       ELSE level' = level - 1 /\ UNCHANGED pc
    /\ UNCHANGED <<tables, mode, cus>>

Init ==
    /\ tables \in Files
    /\ \E in \in Inputs : mode = in.mode /\ cus = in.cus
    /\ stack = << >>
    /\ level = 0
    /\ pc = "units"

\* Lines 152-162, 174: a unit with a macro table is walked from its start.
UnitStart ==
    /\ pc = "units"
    /\ cus # << >>
    /\ Head(cus) \in Offs
    /\ stack' = << [tbl |-> Head(cus), pos |-> 1] >>
    /\ cus' = Tail(cus)
    /\ pc' = "macros"
    /\ UNCHANGED <<tables, mode, level>>

\* A unit with no macro attribute: with argv[2] empty it is skipped (lines
\* 157-160); named on the command line (line 174), dwarf_getmacros returns
\* -1 and the error is printed (lines 129-133).
UnitNoMacros ==
    /\ pc = "units"
    /\ cus # << >> /\ Head(cus) = NoMacros
    /\ cus' = Tail(cus)
    /\ UNCHANGED <<tables, mode, stack, level, pc>>

\* Lines 168-173: dwarf_offdie fails and main returns 1.
UnitNoDie ==
    /\ pc = "units"
    /\ cus # << >> /\ Head(cus) = NoDie
    /\ pc' = "exit1"
    /\ UNCHANGED <<tables, mode, cus, stack, level>>

\* Lines 177-179: every unit is done; main returns 0.
UnitsDone ==
    /\ pc = "units"
    /\ cus = << >>
    /\ pc' = "done"
    /\ UNCHANGED <<tables, mode, cus, stack, level>>

\* Lines 117 and 129: the call at the end of the table returns 0.
TableEnd ==
    /\ pc = "macros"
    /\ Top.pos \notin DOMAIN tables[Top.tbl]
    /\ Leave

\* Mutant: the loop does not break on -1 and calls again with token -1,
\* which fails again.
BadOpNoBreak ==
    /\ Delivered("bad")
    /\ UNCHANGED vars

\* Lines 118-121 and 130-133: the call returns -1; the error is printed
\* and the loop breaks.
BadOp ==
    /\ Delivered("bad")
    /\ Leave

\* Lines 42-57: DW_MACRO_import prints "include", raises level and walks
\* the imported table from its start, all inside the caller's call.
Import ==
    /\ Delivered("import")
    /\ Len(stack) < MaxFrames
    /\ stack' = Append([stack EXCEPT ![Len(stack)].pos = @ + 1],
                       [tbl |-> CurOp.to, pos |-> 1])
    /\ level' = level + 1
    /\ UNCHANGED <<tables, mode, cus, pc>>

\* The import when the process stack is full.
ImportOverflow ==
    /\ Delivered("import")
    /\ Len(stack) = MaxFrames
    /\ pc' = "overflow"
    /\ UNCHANGED <<tables, mode, cus, stack, level>>

\* Lines 60-75: DW_MACRO_start_file prints the file name and raises level.
\* When dwarf_macro_getsrcfiles fails (line 64) files is left
\* uninitialised and line 71 passes it to dwarf_filesrc: the program
\* crashes or prints whatever it finds and goes on.
StartFile ==
    /\ Delivered("start_file")
    /\ \/ /\ Advance
          /\ level' = level + 1
          /\ UNCHANGED <<tables, mode, cus, pc>>
       \/ /\ ~CurOp.srcs
          /\ pc' = "crash"
          /\ UNCHANGED <<tables, mode, cus, stack, level>>

\* Lines 77-82: DW_MACRO_end_file lowers level.
EndFile ==
    /\ Delivered("end_file")
    /\ Advance
    /\ level' = level - 1
    /\ UNCHANGED <<tables, mode, cus, pc>>

\* Lines 84-108: defines are printed, undefs ignored, other opcodes
\* printed with their argument count; level is not touched.
Plain ==
    /\ \E op \in {"define", "undef", "other"} : Delivered(op)
    /\ Advance
    /\ UNCHANGED <<tables, mode, cus, level, pc>>

Next ==
    \/ UnitStart \/ UnitNoMacros \/ UnitNoDie \/ UnitsDone
    \/ TableEnd \/ BadOp \/ Import \/ ImportOverflow
    \/ StartFile \/ EndFile \/ Plain

\* The program runs alone and nothing it does blocks.
Spec == Init /\ [][Next]_vars /\ WF_vars(Next)

-----------------------------------------------------------------------------
(* Properties *)

\* The program ends.
Ended == pc \in {"done", "exit1", "crash", "overflow"}

\* Every run of dwarf-getmacros on a file whose imports form no cycle ends
\* without overflowing the stack: each loop of include () and getmacros ()
\* breaks on -1 (lines 121, 133), moves on by the token the call returns,
\* and an import walks a table strictly lower in the import order.  Only an
\* import cycle (line 54 has no guard against one) can keep it from ending
\* normally.
Finishes == IsDag(ImportGraph) => <>(Ended /\ pc # "overflow")

=============================================================================
