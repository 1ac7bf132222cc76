----------------------------- MODULE MC_LocList -----------------------------
(***************************************************************************)
(* An input for LocList: every location list of up to three entries built *)
(* from base entries at 0 and 2, ranges with bounds in 0 .. 3 (empty,      *)
(* reversed, adjacent, nested and overlapping ones) and a malformed entry. *)
(***************************************************************************)
EXTENDS LocList, TLC

\* Bounds an entry is written with.
MCBounds == 0 .. 3

\* Absolute addresses: a base of 2 plus a bound of 3.
MCAddrs == 0 .. 5

MCEntries ==
    {[kind |-> "base", lo |-> b, hi |-> 0] : b \in {0, 2}}
    \cup {[kind |-> "range", lo |-> l, hi |-> h] : l, h \in MCBounds}
    \cup {[kind |-> "bad", lo |-> 0, hi |-> 0]}

\* Lists of at most three entries.
MCLists == UNION {[1 .. n -> MCEntries] : n \in 0 .. 3}

=============================================================================
