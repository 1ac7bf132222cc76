--------------------------- MODULE LocList_proofs ---------------------------
(***************************************************************************)
(* Proofs about the location-list walk of print_varlocs for every list,    *)
(* every CU base and every address width: the sanity check of lines        *)
(* 852-863 fails exactly on lists with two overlapping non-empty ranges.   *)
(*                                                                         *)
(* The argument: two non-empty ranges overlap exactly when the begin of    *)
(* one lies in the other, so the probe at the later begin finds two        *)
(* locations; and a probe inside a range that does not find exactly one   *)
(* location found a second range that holds the probed address.           *)
(***************************************************************************)
EXTENDS LocList, FiniteSetTheorems, WellFoundedInduction, TLAPS

USE LocListAssumption

-----------------------------------------------------------------------------
(* Lemmas about the operators *)

\* A non-empty set of naturals has a least element.
LEMMA MinExists ==
    ASSUME NEW T \in SUBSET Nat, T # {}
    PROVE  \E x \in T : \A y \in T : x <= y
<1>1. \E x \in T : \A y \in T : ~(<<y, x>> \in OpToRel(<, Nat))
  BY NatLessThanWellFounded, WFMin
<1>2. \A x, y \in Nat : y < x => <<y, x>> \in OpToRel(<, Nat)
  BY DEF OpToRel
<1>3. \E x \in T : \A y \in T : ~(y < x)
  BY <1>1, <1>2, Zenon
<1>4. QED
  BY <1>3

\* A non-empty set of naturals below n has a greatest element.
LEMMA MaxExists ==
    ASSUME NEW n \in Nat, NEW S \in SUBSET (0 .. n), S # {}
    PROVE  \E x \in S : \A y \in S : y <= x
<1> DEFINE T == {n - j : j \in S}
<1>1. T \in SUBSET Nat /\ T # {}
  <2>1. \A j \in S : n - j \in Nat
    OBVIOUS
  <2>2. QED
    BY <2>1
<1>2. PICK x \in T : \A y \in T : x <= y
  BY <1>1, MinExists
<1>3. PICK j0 \in S : x = n - j0
  BY <1>2
<1>4. \A y \in S : y <= j0
  <2>1. \A y \in S : n - y \in T
    OBVIOUS
  <2>2. TAKE y \in S
  <2>3. n - j0 <= n - y
    BY <1>2, <1>3, <2>1
  <2>4. QED
    BY <2>3
<1>5. QED
  BY <1>3, <1>4

\* The base in effect at entry k is the CU base or the operand of a base
\* entry before k, so it is an address.
LEMMA BaseAtNat ==
    ASSUME NEW lst, NEW k \in Nat,
           \A j \in 1 .. k - 1 : lst[j].kind = "base" => lst[j].lo \in Nat
    PROVE  BaseAt(lst, k) \in Nat
<1> DEFINE bs == {j \in 1 .. k - 1 : lst[j].kind = "base"}
<1>1. CASE bs = {}
  BY <1>1 DEF BaseAt
<1>2. CASE bs # {}
  <2>1. bs \in SUBSET (0 .. k)
    OBVIOUS
  <2>2. \E j \in bs : \A m \in bs : m <= j
    BY <1>2, <2>1, MaxExists
  <2>3. (CHOOSE j \in bs : \A m \in bs : m <= j) \in bs
    BY <2>2
  <2>4. QED
    BY <1>2, <2>3 DEF BaseAt
<1>3. QED
  BY <1>1, <1>2

-----------------------------------------------------------------------------
(* The inductive invariant *)

\* The walk's state: a list of the input, a cursor inside it, a status.
LTypeOK ==
    /\ list \in Lists
    /\ off \in 0 .. Len(list)
    /\ pc \in {"walk", "done", "error", "abort"}

\* Every non-empty range the walk has passed found exactly one location
\* at its begin (the assert of line 859).
Checked ==
    pc \in {"walk", "done"} =>
        \A j \in 1 .. off :
            list[j].kind = "range" /\ Begin(j) < End(j) =>
                Locs(list, Begin(j)) = 1

SInv ==
    /\ LTypeOK
    /\ Checked
    /\ pc = "done" => Pending = {}
    /\ pc = "abort" => Overlap

\* Entry j of a list of the input: an entry, its bounds and its base are
\* addresses.
LEMMA EntryFacts ==
    ASSUME LTypeOK, NEW j \in 1 .. Len(list)
    PROVE  /\ list \in Seq(LEntry)
           /\ list[j] \in LEntry
           /\ Begin(j) \in Nat /\ End(j) \in Nat
<1>1. list \in Seq(LEntry)
  BY DEF LTypeOK
<1>0. \A i \in 1 .. Len(list) : list[i] \in LEntry
  BY <1>1
<1>2. \A i \in 1 .. j - 1 : list[i].lo \in Nat
  <2>1. \A i \in 1 .. j - 1 : list[i] \in LEntry
    BY <1>0
  <2>2. QED
    BY <2>1 DEF LEntry
<1>3. BaseAt(list, j) \in Nat
  BY <1>2, BaseAtNat
<1>4. list[j].lo \in Nat /\ list[j].hi \in Nat
  <2>1. list[j] \in LEntry
    BY <1>0
  <2>2. QED
    BY <2>1 DEF LEntry
<1>5. QED
  BY <1>1, <1>3, <1>4 DEF Begin, End

\* The ranges that hold an address x are entries of the list, finitely
\* many, and exactly the range entries whose bounds enclose x.
LEMMA CoverFacts ==
    ASSUME LTypeOK, NEW x
    PROVE  /\ Covering(list, x) \subseteq 1 .. Len(list)
           /\ IsFiniteSet(Covering(list, x))
           /\ \A k \in 1 .. Len(list) :
                 k \in Covering(list, x) <=>
                    list[k].kind = "range" /\ Begin(k) <= x /\ x < End(k)
<1>1. list \in Seq(LEntry) /\ Len(list) \in Nat /\ DOMAIN list = 1 .. Len(list)
  BY DEF LTypeOK
<1>2. Covering(list, x) \subseteq 1 .. Len(list)
  BY <1>1 DEF Covering
<1>3. IsFiniteSet(1 .. Len(list))
  BY <1>1, FS_Interval
<1>4. IsFiniteSet(Covering(list, x))
  BY <1>2, <1>3, FS_Subset
<1>5. QED
  BY <1>1, <1>2, <1>4 DEF Covering, Begin, End

\* Two ranges hold x: dwarf_getlocation_addr does not find exactly one
\* location there.
LEMMA TwoCovered ==
    ASSUME LTypeOK, NEW x, NEW a, NEW b, a # b,
           a \in Covering(list, x), b \in Covering(list, x)
    PROVE  Locs(list, x) # 1
<1>1. IsFiniteSet(Covering(list, x))
  BY CoverFacts
<1>2. IsFiniteSet({a}) /\ Cardinality({a}) = 1
  BY FS_Singleton
<1>3. Cardinality({a} \cup {b}) = 2 /\ IsFiniteSet({a} \cup {b})
  <2>1. b \notin {a}
    OBVIOUS
  <2>2. /\ IsFiniteSet({a} \cup {b})
        /\ Cardinality({a} \cup {b}) =
              IF b \in {a} THEN Cardinality({a}) ELSE Cardinality({a}) + 1
    BY <1>2, FS_AddElement
  <2>3. Cardinality({a} \cup {b}) = Cardinality({a}) + 1
    BY <2>1, <2>2
  <2>4. QED
    BY <1>2, <2>2, <2>3
<1>4. IsFiniteSet({a} \cup {b})
  BY <1>3
<1>5. Cardinality({a} \cup {b}) <= Cardinality(Covering(list, x))
  BY <1>1, FS_Subset
<1>6. Cardinality(Covering(list, x)) > 1
  <2>1. Cardinality(Covering(list, x)) \in Nat
    BY <1>1, FS_CardinalityType
  <2>2. \A c, d \in Nat : c = 2 /\ c <= d => d > 1
    OBVIOUS
  <2>3. QED
    BY <1>3, <1>5, <2>1, <2>2
<1>7. QED
  BY <1>6 DEF Locs

\* A range holds x and the lookup at x does not find exactly one
\* location: a second range holds x.
LEMMA SecondCover ==
    ASSUME LTypeOK, NEW x, NEW j \in Covering(list, x), Locs(list, x) # 1
    PROVE  \E k \in Covering(list, x) : k # j
<1> SUFFICES ASSUME Covering(list, x) = {j} PROVE FALSE
  OBVIOUS
<1>1. Cardinality(Covering(list, x)) = 1
  BY FS_Singleton
<1>2. Locs(list, x) = 1
  BY <1>1 DEF Locs
<1>3. QED
  BY <1>2

\* Every non-empty range found one location at its begin: no two
\* non-empty ranges overlap, since of two that do, the later begin lies in
\* both.
LEMMA NoOverlap ==
    ASSUME LTypeOK,
           \A j \in 1 .. Len(list) :
              list[j].kind = "range" /\ Begin(j) < End(j) =>
                 Locs(list, Begin(j)) = 1
    PROVE  ~Overlap
<1> SUFFICES ASSUME Overlap PROVE FALSE
  OBVIOUS
<1>1. DOMAIN list = 1 .. Len(list)
  BY DEF LTypeOK
<1>2. PICK a, b \in 1 .. Len(list) :
          /\ a # b
          /\ list[a].kind = "range" /\ list[b].kind = "range"
          /\ Begin(a) < End(a) /\ Begin(b) < End(b)
          /\ Begin(a) < End(b) /\ Begin(b) < End(a)
  BY <1>1 DEF Overlap
<1>3. Begin(a) \in Nat /\ End(a) \in Nat /\ Begin(b) \in Nat /\ End(b) \in Nat
  BY EntryFacts
<1>4. CASE Begin(a) <= Begin(b)
  <2>1. a \in Covering(list, Begin(b)) /\ b \in Covering(list, Begin(b))
    BY <1>2, <1>3, <1>4, CoverFacts
  <2>2. Locs(list, Begin(b)) # 1
    BY <1>2, <2>1, TwoCovered
  <2>3. QED
    BY <1>2, <2>2
<1>5. CASE Begin(b) < Begin(a)
  <2>1. a \in Covering(list, Begin(a)) /\ b \in Covering(list, Begin(a))
    BY <1>2, <1>3, <1>5, CoverFacts
  <2>2. Locs(list, Begin(a)) # 1
    BY <1>2, <2>1, TwoCovered
  <2>3. QED
    BY <1>2, <2>2
<1>6. QED
  BY <1>3, <1>4, <1>5

\* A probe inside a non-empty range (at begin or at end - 1) that does not
\* find exactly one location has found an overlapping range.
LEMMA ProbeOverlap ==
    ASSUME LTypeOK, NEW j \in 1 .. Len(list),
           list[j].kind = "range", Begin(j) < End(j),
           NEW x \in {Begin(j), End(j) - 1}, Locs(list, x) # 1
    PROVE  Overlap
<1>1. Begin(j) \in Nat /\ End(j) \in Nat
  BY EntryFacts
<1>2. Begin(j) <= x /\ x < End(j)
  BY <1>1
<1>3. j \in Covering(list, x)
  BY <1>2, CoverFacts
<1>4. PICK k \in Covering(list, x) : k # j
  BY <1>3, SecondCover
<1>5. /\ k \in 1 .. Len(list)
      /\ list[k].kind = "range" /\ Begin(k) <= x /\ x < End(k)
  BY <1>4, CoverFacts
<1>6. Begin(k) \in Nat /\ End(k) \in Nat
  BY <1>5, EntryFacts
<1>7. DOMAIN list = 1 .. Len(list)
  BY DEF LTypeOK
<1>8. QED
  BY <1>1, <1>2, <1>4, <1>5, <1>6, <1>7 DEF Overlap

\* The entry dwarf_getlocations returns next is the first entry after off
\* that is not a base entry; the entries it skips are base entries.
LEMMA NextFacts ==
    ASSUME LTypeOK, Pending # {}
    PROVE  /\ NextEntry \in off + 1 .. Len(list)
           /\ list[NextEntry].kind # "base"
           /\ \A j \in off + 1 .. NextEntry - 1 : list[j].kind = "base"
<1>1. Pending \in SUBSET Nat
  BY DEF Pending, LTypeOK
<1>2. \E j \in Pending : \A m \in Pending : j <= m
  BY <1>1, MinExists
<1>3. NextEntry \in Pending /\ \A m \in Pending : NextEntry <= m
  BY <1>2 DEF NextEntry
<1>4. QED
  BY <1>3 DEF Pending, LTypeOK

-----------------------------------------------------------------------------
(* One lemma per step of the walk *)

\* No step changes the list, so bounds, lookups and overlaps are kept.
LEMMA ListFrame ==
    ASSUME list' = list
    PROVE  /\ \A j : Begin(j)' = Begin(j) /\ End(j)' = End(j)
           /\ \A x : Locs(list', x) = Locs(list, x)
           /\ Overlap' = Overlap
BY DEF Begin, End, Overlap

\* Checked for a cursor moved to entry n: the entries before n are
\* checked, skipped base entries, or n itself.
LEMMA CheckedMove ==
    ASSUME SInv, pc = "walk", Pending # {}, list' = list,
           off' = NextEntry, pc' \in {"walk", "done"},
           list[NextEntry].kind = "range" /\ Begin(NextEntry) < End(NextEntry)
              => Locs(list, Begin(NextEntry)) = 1
    PROVE  Checked'
<1> DEFINE n == NextEntry
<1>1. /\ n \in off + 1 .. Len(list)
      /\ \A j \in off + 1 .. n - 1 : list[j].kind = "base"
  BY NextFacts DEF SInv
<1>2. \A j \in 1 .. off :
         list[j].kind = "range" /\ Begin(j) < End(j) => Locs(list, Begin(j)) = 1
  BY DEF SInv, Checked
<1>3. off \in Nat
  BY DEF SInv, LTypeOK
<1>4. \A j \in 1 .. n :
         list[j].kind = "range" /\ Begin(j) < End(j) => Locs(list, Begin(j)) = 1
  BY <1>1, <1>2, <1>3
<1>5. QED
  BY <1>4, ListFrame DEF Checked

\* Lines 841 and 866: the list is exhausted and the walk ends.
LEMMA ListEndS == ASSUME SInv, ListEnd PROVE SInv'
<1>1. list' = list /\ off' = off /\ pc = "walk" /\ pc' = "done" /\ Pending = {}
  BY DEF ListEnd
<1>2. LTypeOK'
  BY <1>1 DEF SInv, LTypeOK
<1>3. Checked'
  BY <1>1, ListFrame DEF SInv, Checked
<1>4. Pending' = {}
  BY <1>1 DEF Pending
<1>5. QED
  BY <1>1, <1>2, <1>3, <1>4 DEF SInv

\* Lines 866-868: a malformed entry ends the program with an error.
LEMMA BadEntryS == ASSUME SInv, BadEntry PROVE SInv'
<1>1. list' = list /\ off' = off /\ pc' = "error"
  BY DEF BadEntry
<1>2. QED
  BY <1>1 DEF SInv, LTypeOK, Checked

\* Lines 841-846: an empty range is reported and the walk goes on.
LEMMA EmptyRangeS == ASSUME SInv, EmptyRange PROVE SInv'
<1>1. /\ list' = list /\ off' = NextEntry /\ pc' = "walk" /\ pc = "walk"
      /\ Pending # {} /\ Begin(NextEntry) >= End(NextEntry)
  BY DEF EmptyRange
<1>2. NextEntry \in 1 .. Len(list)
  BY <1>1, NextFacts DEF SInv, LTypeOK
<1>3. Begin(NextEntry) \in Nat /\ End(NextEntry) \in Nat
  BY <1>2, EntryFacts DEF SInv
<1>4. Checked'
  BY <1>1, <1>3, CheckedMove
<1>5. LTypeOK'
  BY <1>1, <1>2 DEF SInv, LTypeOK
<1>6. QED
  BY <1>1, <1>4, <1>5 DEF SInv

\* Lines 847-864: a non-empty range is printed and probed at begin and at
\* end - 1; a probe that does not find one location fails its assert.
LEMMA CheckedRangeS == ASSUME SInv, CheckedRange PROVE SInv'
<1> DEFINE n == NextEntry
           ok == Locs(list, Begin(n)) = 1 /\ Locs(list, End(n) - 1) = 1
<1>1. /\ list' = list /\ off' = n /\ pc = "walk" /\ Pending # {}
      /\ list[n].kind = "range" /\ Begin(n) < End(n)
      /\ pc' = IF ok THEN "walk" ELSE "abort"
  BY DEF CheckedRange
<1>2. n \in 1 .. Len(list)
  BY <1>1, NextFacts DEF SInv, LTypeOK
<1>3. LTypeOK'
  BY <1>1, <1>2 DEF SInv, LTypeOK
<1>4. CASE ok
  <2>1. Checked'
    BY <1>1, <1>4, CheckedMove
  <2>2. QED
    BY <1>1, <1>3, <1>4, <2>1 DEF SInv
<1>5. CASE ~ok
  <2>1. \E x \in {Begin(n), End(n) - 1} : Locs(list, x) # 1
    BY <1>5
  <2>2. Overlap
    BY <1>1, <1>2, <2>1, ProbeOverlap DEF SInv
  <2>3. QED
    BY <1>1, <1>3, <1>5, <2>2, ListFrame DEF SInv, Checked
<1>6. QED
  BY <1>4, <1>5

\* The walk starts before the first entry of a list of the input.
LEMMA InitS == Init => SInv
BY DEF Init, SInv, LTypeOK, Checked

\* Every step of the walk, or a stutter, keeps SInv.
LEMMA StepS == ASSUME SInv, [Next]_vars PROVE SInv'
<1>1. CASE UNCHANGED vars
  <2>1. list' = list /\ off' = off /\ pc' = pc
    BY <1>1 DEF vars
  <2>2. Pending' = Pending
    BY <2>1 DEF Pending
  <2>3. QED
    BY <2>1, <2>2, ListFrame DEF SInv, LTypeOK, Checked
<1>2. QED
  BY <1>1, ListEndS, BadEntryS, EmptyRangeS, CheckedRangeS DEF Next

\* SInv implies the sanity check is exact: a completed walk passed every
\* non-empty range (only base entries follow the cursor), so none
\* overlaps; an abort has found an overlap.
LEMMA SInvExact == SInv => SanityCheckExact
<1> SUFFICES ASSUME SInv PROVE SanityCheckExact
  OBVIOUS
<1>1. ASSUME pc = "done" PROVE ~Overlap
  <2>1. \A j \in 1 .. Len(list) :
           list[j].kind = "range" /\ Begin(j) < End(j) =>
              Locs(list, Begin(j)) = 1
    <3>1. TAKE j \in 1 .. Len(list)
    <3>2. off \in 0 .. Len(list) /\ Pending = {}
      BY <1>1 DEF SInv, LTypeOK
    <3>3. CASE j <= off
      BY <1>1, <3>3 DEF SInv, Checked
    <3>4. CASE j > off
      <4>1. j \notin Pending
        BY <3>2
      <4>2. list[j].kind = "base"
        BY <3>2, <3>4, <4>1 DEF Pending
      <4>3. QED
        BY <4>2
    <3>5. QED
      BY <3>2, <3>3, <3>4
  <2>2. QED
    BY <2>1, NoOverlap DEF SInv
<1>2. QED
  BY <1>1 DEF SInv, SanityCheckExact

\* The sanity check of varlocs (lines 852-863) is exact for every list,
\* CU base and address range: a walk that completes saw no overlapping
\* non-empty ranges, and its asserts fail only on a list that has two,
\* although they probe two addresses of each range.
THEOREM LocListSanityCheckExact == Spec => []SanityCheckExact
<1>1. Init => SInv
  BY InitS
<1>2. SInv /\ [Next]_vars => SInv'
  BY StepS
<1>3. QED
  BY <1>1, <1>2, SInvExact, PTL DEF Spec

=============================================================================
