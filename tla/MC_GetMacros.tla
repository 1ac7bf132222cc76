---------------------------- MODULE MC_GetMacros ----------------------------
(***************************************************************************)
(* Inputs for GetMacros: files with three macro tables whose imports form *)
(* a chain, a two-table cycle or a self-import, tables that fail part way *)
(* (after a start_file, inside an import), start_files whose source files *)
(* cannot be read, and command lines walking every unit or naming one.     *)
(***************************************************************************)
EXTENDS GetMacros, TLC

CONSTANTS NoMacrosV, NoDieV

O(k) == [op |-> k, to |-> 1, srcs |-> TRUE]
Imp(t) == [op |-> "import", to |-> t, srcs |-> TRUE]
NoSrcs == [op |-> "start_file", to |-> 1, srcs |-> FALSE]

\* Imports 1 -> 2 -> 3, files balanced.
Chain == [t \in 1 .. 3 |->
            CASE t = 1 -> << O("start_file"), Imp(2), O("define"), O("end_file"), Imp(3) >>
              [] t = 2 -> << O("define"), Imp(3), O("undef"), O("other") >>
              [] t = 3 -> << O("start_file"), O("define"), O("end_file") >>]

\* 1 imports 2, which imports 1; 3 imports itself after a define.
Cycle == [t \in 1 .. 3 |->
            CASE t = 1 -> << O("define"), Imp(2) >>
              [] t = 2 -> << O("start_file"), Imp(1), O("end_file") >>
              [] t = 3 -> << O("define"), Imp(3) >>]

\* Failures: unreadable source files, a table failing inside a file,
\* an import of a table that fails at once.
Broken == [t \in 1 .. 3 |->
            CASE t = 1 -> << NoSrcs, Imp(2), O("define"), O("end_file") >>
              [] t = 2 -> << O("start_file"), O("bad"), O("end_file") >>
              [] t = 3 -> << Imp(2), O("end_file"), O("bad"), O("define") >>]

MCFiles == {Chain, Cycle, Broken}

MCInputs ==
    {[mode |-> "all", cus |-> << 1, NoMacrosV, 3 >>],
     [mode |-> "all", cus |-> << 3, 2 >>],
     [mode |-> "one", cus |-> << 2 >>],
     [mode |-> "one", cus |-> << NoMacrosV >>],
     [mode |-> "one", cus |-> << NoDieV >>]}

=============================================================================
