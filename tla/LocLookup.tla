----------------------------- MODULE LocLookup -----------------------------
(***************************************************************************)
(* The Location List Resolver (spec 4.2): dwarf_getlocation_addr and the   *)
(* base-address rule dwarf_getlocations shares with it.  They are libdw    *)
(* code outside src/, so they are written from the spec.  A list is a      *)
(* sequence of records with a kind ("base" for a base-address entry,       *)
(* "range" for a location) and lo/hi bounds; a range is relative to the    *)
(* base in effect where it stands.                                         *)
(***************************************************************************)
EXTENDS Integers, FiniteSets

CONSTANT
    CuBase       \* base address of location list entries before any base entry

\* The base address in effect at entry k: that of the last base entry
\* before it, or the unit's.
BaseAt(list, k) ==
    LET bs == {j \in 1 .. k - 1 : list[j].kind = "base"}
    IN IF bs = {} THEN CuBase
       ELSE list[CHOOSE j \in bs : \A m \in bs : m <= j].lo

\* The range entries whose half-open range [base+lo, base+hi) holds x.
Covering(list, x) ==
    {k \in DOMAIN list : /\ list[k].kind = "range"
                         /\ BaseAt(list, k) + list[k].lo <= x
                         /\ x < BaseAt(list, k) + list[k].hi}

\* dwarf_getlocation_addr (attr, x, ..., 1): the number of covering
\* entries, or -1 when more than one covers x.
Locs(list, x) ==
    IF Cardinality(Covering(list, x)) > 1 THEN -1
    ELSE Cardinality(Covering(list, x))

\* The expression of the one covering entry.
Located(list, x) == list[CHOOSE k \in Covering(list, x) : TRUE].blk

=============================================================================
