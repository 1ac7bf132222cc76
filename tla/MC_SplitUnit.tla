--------------------------- MODULE MC_SplitUnit ---------------------------
(* Small instances of SplitUnit for TLC. *)
EXTENDS SplitUnit, TLC

CONSTANTS i1, i2, f1, f2, c1, t1, t2

\* A split unit with the skeleton's id (when the skeleton has id i1), a
\* split unit with the other id, and a non-split unit with id i1.
S1 == [type |-> "split_compile", id |-> i1]
S2 == [type |-> "split_compile", id |-> i2]
N1 == [type |-> "compile", id |-> i1]

\* .dwo files: absent, unreadable as DWARF, without units, a single unit
\* that matches or not, a mismatch before the match, a match before a
\* mismatch, two units with the same id.
MCContents ==
    {Missing, Corrupt, << >>, <<S1>>, <<N1>>, <<S2, S1>>, <<S1, S2>>,
     <<S1, S1>>}

MCIds == {i1, i2}
MCFiles == {f1, f2}
MCCUs == {c1}
OneThread == {t1}
TwoThreads == {t1, t2}
=============================================================================
