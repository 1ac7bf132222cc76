----------------------------- MODULE SplitLink -----------------------------
(***************************************************************************)
(* What the Split-Unit Resolver promises (spec 3, 4.1, 8), with no files,  *)
(* descriptors or scans: each unit's link starts unresolved and is         *)
(* resolved once, to NULL or to a split unit with the skeleton's id, and   *)
(* is never changed again; a call returns only the resolved link.          *)
(*                                                                         *)
(* A split unit is named by what identifies it to the skeleton: its        *)
(* unit_type and its unit_id8.                                             *)
(***************************************************************************)
CONSTANTS
    CUs,          \* the units of the main Dwarf
    Unresolved,   \* the link is not resolved yet
    NoSplit       \* resolved, and no split unit was found

VARIABLES
    unit,         \* the attributes of each unit, fixed
    split,        \* the link of each unit
    results       \* the values each unit's calls have returned

absvars == <<unit, split, results>>

\* The split units a unit may link to: none unless it is a skeleton.
Candidates(c) ==
    IF unit[c].type = "skeleton"
    THEN [type : {"split_compile"}, id : {unit[c].id}]
    ELSE {}

Init ==
    /\ split = [c \in CUs |-> Unresolved]
    /\ results = [c \in CUs |-> {}]

\* The link of c is resolved, to NULL or to one of its candidates.
Resolve(c) ==
    /\ split[c] = Unresolved
    /\ \E v \in {NoSplit} \cup Candidates(c) : split' = [split EXCEPT ![c] = v]
    /\ UNCHANGED <<unit, results>>

\* A call for c returns its resolved link.
Return(c) ==
    /\ split[c] # Unresolved
    /\ results' = [results EXCEPT ![c] = @ \cup {split[c]}]
    /\ UNCHANGED <<unit, split>>

Next == \E c \in CUs : Resolve(c) \/ Return(c)

Spec == Init /\ [][Next]_absvars

=============================================================================
