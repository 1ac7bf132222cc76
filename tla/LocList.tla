------------------------------ MODULE LocList ------------------------------
(***************************************************************************)
(* The walk print_varlocs makes over the location list of a variable       *)
(* (tests/varlocs.c, lines 838-868): dwarf_getlocations yields the range   *)
(* entries one by one with the base applied; an empty range is reported,   *)
(* a non-empty one is printed and then checked with dwarf_getlocation_addr *)
(* at begin and at end - 1, each of which must find exactly one location   *)
(* (asserts of lines 859 and 863).  A malformed entry makes               *)
(* dwarf_getlocations return -1 and varlocs exit with an error.            *)
(*                                                                         *)
(* The expression an entry holds is printed by LocExpr; here an entry is   *)
(* its kind and its bounds.  A failed assert and error () both end the     *)
(* program: pc "abort" and "error".                                        *)
(***************************************************************************)
EXTENDS Integers, Sequences, LocLookup

CONSTANTS
    Lists,       \* the DW_AT_location lists of the input
    Addrs        \* the addresses entries are written with, 0 included

VARIABLES
    list,        \* the list of the variable being printed
    off,         \* the index of the last entry dwarf_getlocations returned
    pc           \* "walk", "done", "error" or "abort"

vars == <<list, off, pc>>

\* A location list entry: a base-address entry, a range relative to the
\* base, or an entry dwarf_getlocations cannot decode.
LEntry == [kind : {"base", "range", "bad"}, lo : Addrs, hi : Addrs]

\* Lists are sequences of entries; addresses and the CU base are unsigned
\* (Dwarf_Addr, read from the CU's DW_AT_low_pc).
ASSUME LocListAssumption ==
    /\ Lists \subseteq Seq(LEntry)
    /\ Addrs \subseteq Nat
    /\ CuBase \in Nat

\* The absolute bounds dwarf_getlocations gives range entry j.
Begin(j) == BaseAt(list, j) + list[j].lo
End(j) == BaseAt(list, j) + list[j].hi

\* The entries after off that dwarf_getlocations does not skip: base
\* entries only move the base.
Pending == {j \in off + 1 .. Len(list) : list[j].kind # "base"}

\* The entry the next call of dwarf_getlocations returns.
NextEntry == CHOOSE j \in Pending : \A m \in Pending : j <= m

Init ==
    /\ list \in Lists
    /\ off = 0
    /\ pc = "walk"

\* Lines 841 and 866: dwarf_getlocations returns 0, the loop ends, and the
\* attribute is done.
ListEnd ==
    /\ pc = "walk"
    /\ Pending = {}
    /\ pc' = "done"
    /\ UNCHANGED <<list, off>>

\* Lines 841 and 866-868: dwarf_getlocations returns -1 at an entry it
\* cannot decode and varlocs exits.
BadEntry ==
    /\ pc = "walk"
    /\ Pending # {}
    /\ list[NextEntry].kind = "bad"
    /\ pc' = "error"
    /\ UNCHANGED <<list, off>>

\* Lines 841-846: a range with begin >= end is reported as empty.
EmptyRange ==
    /\ pc = "walk"
    /\ Pending # {}
    /\ list[NextEntry].kind = "range"
    /\ Begin(NextEntry) >= End(NextEntry)
    /\ off' = NextEntry
    /\ UNCHANGED <<list, pc>>

\* Mutant: the second check asks at end instead of end - 1.
CheckedRangeAtEnd ==
    /\ pc = "walk"
    /\ Pending # {}
    /\ list[NextEntry].kind = "range"
    /\ Begin(NextEntry) < End(NextEntry)
    /\ off' = NextEntry
    /\ pc' = IF Locs(list, Begin(NextEntry)) = 1
                /\ Locs(list, End(NextEntry)) = 1
             THEN "walk" ELSE "abort"
    /\ UNCHANGED list

\* Lines 847-864: a non-empty range is printed (print_expr_block_addrs)
\* and dwarf_getlocation_addr is asked at begin (line 856) and at end - 1
\* (line 860); the first answer other than 1 fails its assert.
CheckedRange ==
    /\ pc = "walk"
    /\ Pending # {}
    /\ list[NextEntry].kind = "range"
    /\ Begin(NextEntry) < End(NextEntry)
    /\ off' = NextEntry
    /\ pc' = IF Locs(list, Begin(NextEntry)) = 1
                /\ Locs(list, End(NextEntry) - 1) = 1
             THEN "walk" ELSE "abort"
    /\ UNCHANGED list

Next == ListEnd \/ BadEntry \/ EmptyRange \/ CheckedRange

\* The walk ends: the program goes on to the next DIE or exits.
Spec == Init /\ [][Next]_vars

-----------------------------------------------------------------------------
(* Properties *)

\* Two non-empty ranges of the list share an address.
Overlap ==
    \E a, b \in DOMAIN list :
        /\ a # b
        /\ list[a].kind = "range" /\ list[b].kind = "range"
        /\ Begin(a) < End(a) /\ Begin(b) < End(b)
        /\ Begin(a) < End(b) /\ Begin(b) < End(a)

\* The sanity check of lines 852-863 ("must at least find one range for
\* begin and end-1") is exact: a list that the walk completes has no two
\* overlapping non-empty ranges, and the asserts fire only on a list that
\* has two (spec 4.2: overlapping ranges are invalid input), even though
\* they probe only two addresses of each range.
SanityCheckExact ==
    /\ pc = "done" => ~Overlap
    /\ pc = "abort" => Overlap

=============================================================================
