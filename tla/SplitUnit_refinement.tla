------------------------ MODULE SplitUnit_refinement ------------------------
(***************************************************************************)
(* With a single caller, __libdw_find_split_unit implements SplitLink      *)
(* under the mapping of SplitUnit (a link <<d, i>> stands for unit i of    *)
(* Dwarf d).  With two callers it does not: TLC finds one overwriting the  *)
(* other's link (the race of lines 50 and 114), so the theorem assumes one *)
(* caller, as spec 5's exclusive access would give.                        *)
(*                                                                         *)
(* The proof strengthens IInv with RInv: every link names a unit that      *)
(* exists and is a candidate of the skeleton, a unit's calls have returned *)
(* only its current link, and while the caller is scanning or about to     *)
(* nullify, its unit is still unresolved.                                  *)
(***************************************************************************)
EXTENDS SplitUnit_proofs

\* A linked unit's link names a unit of a Dwarf that exists, and that unit
\* is one the skeleton may link to.
LinkOK ==
    \A c \in CUs : Linked(c) =>
        /\ split[c][1] \in 1 .. Len(dwarfs)
        /\ split[c][2] \in 1 .. Len(dwarfs[split[c][1]].units)
        /\ AbsVal(split[c]) \in Abs!Candidates(c)

\* The calls for a unit have returned its current link only.
ResultsOK == \A c \in CUs : results[c] \subseteq {split[c]}

\* From the check of line 50 to the scan's end, and at line 115, the
\* caller's unit is still unresolved; from line 56 on it is a skeleton.
Solo ==
    \A t \in Threads :
        /\ pc[t] \in {"open", "begin", "scan", "test"} =>
              split[cu[t]] = Unresolved /\ unit[cu[t]].type = "skeleton"
        /\ pc[t] = "nullify" => split[cu[t]] = Unresolved

RInv == IInv /\ LinkOK /\ ResultsOK /\ Solo

\* The sentinel and NULL stand for themselves.
LEMMA AbsValSentinels ==
    /\ AbsVal(Unresolved) = Unresolved
    /\ AbsVal(NoSplit) = NoSplit
BY SentinelsAssumption DEF AbsVal, Link

\* The initial state satisfies RInv and maps to the initial state of
\* SplitLink.
LEMMA InitRInv == Init => RInv /\ Abs!Init
<1> SUFFICES ASSUME Init PROVE RInv /\ Abs!Init
  OBVIOUS
<1>1. IInv
  BY InitIInv
<1>2. ~\E c \in CUs : Linked(c)
  BY SentinelsAssumption DEF Init, Linked, Link
<1>3. LinkOK /\ ResultsOK /\ Solo
  BY <1>2 DEF Init, LinkOK, ResultsOK, Solo
<1>4. Abs!Init
  BY AbsValSentinels DEF Init, Abs!Init, AbsSplit, AbsResults
<1>5. QED
  BY <1>1, <1>3, <1>4 DEF RInv

\* The mapped state does not change in a step that leaves the links and
\* the results alone and keeps the units of every existing Dwarf.
LEMMA AbsStable ==
    ASSUME LinkOK, ResultsOK,
           split' = split, results' = results,
           Len(dwarfs) <= Len(dwarfs'),
           \A e \in 1 .. Len(dwarfs) : dwarfs'[e].units = dwarfs[e].units
    PROVE  AbsSplit' = AbsSplit /\ AbsResults' = AbsResults
<1>1. \A c \in CUs : AbsVal(split[c])' = AbsVal(split[c])
  <2> TAKE c \in CUs
  <2>1. CASE split[c] \in Link
    <3>1. split[c][1] \in 1 .. Len(dwarfs)
      BY <2>1 DEF LinkOK, Linked
    <3>2. QED
      BY <2>1, <3>1 DEF AbsVal
  <2>2. CASE split[c] \notin Link
    BY <2>2 DEF AbsVal
  <2>3. QED
    BY <2>1, <2>2
<1>2. AbsSplit' = AbsSplit
  BY <1>1 DEF AbsSplit
<1>3. \A c \in CUs : \A v \in results[c] : AbsVal(v)' = AbsVal(v)
  BY <1>1 DEF ResultsOK
<1>4. AbsResults' = AbsResults
  BY <1>3 DEF AbsResults
<1>5. QED
  BY <1>2, <1>4


\* The unit a link names is unchanged by a step that keeps the units of
\* every existing Dwarf.
LEMMA AbsValStable ==
    ASSUME NEW v, v \in Link => v[1] \in 1 .. Len(dwarfs),
           Len(dwarfs) <= Len(dwarfs'),
           \A e \in 1 .. Len(dwarfs) : dwarfs'[e].units = dwarfs[e].units
    PROVE  AbsVal(v)' = AbsVal(v)
BY DEF AbsVal

\* A step that leaves the links, the results and the units alone, and keeps
\* the units of every existing Dwarf, keeps LinkOK and ResultsOK and is a
\* stutter of SplitLink.
LEMMA StutterStep ==
    ASSUME LinkOK, ResultsOK,
           split' = split, results' = results, unit' = unit,
           Len(dwarfs) <= Len(dwarfs'),
           \A e \in 1 .. Len(dwarfs) : dwarfs'[e].units = dwarfs[e].units
    PROVE  /\ LinkOK' /\ ResultsOK'
           /\ UNCHANGED Abs!absvars
<1>1. AbsSplit' = AbsSplit /\ AbsResults' = AbsResults
  BY AbsStable
<1>2. \A c \in CUs : Linked(c) => AbsVal(split[c])' = AbsVal(split[c])
  BY AbsValStable DEF LinkOK, Linked
<1>3. \A c \in CUs : Abs!Candidates(c)' = Abs!Candidates(c)
  BY DEF Abs!Candidates
<1>4. LinkOK'
  <2> SUFFICES ASSUME NEW c \in CUs, Linked(c)'
               PROVE  /\ split'[c][1] \in 1 .. Len(dwarfs')
                      /\ split'[c][2] \in 1 .. Len(dwarfs'[split'[c][1]].units)
                      /\ AbsVal(split[c])' \in Abs!Candidates(c)'
    BY DEF LinkOK
  <2>1. Linked(c)
    BY DEF Linked
  <2>2. QED
    BY <2>1, <1>2, <1>3 DEF LinkOK
<1>5. ResultsOK'
  BY DEF ResultsOK
<1>6. QED
  BY <1>1, <1>4, <1>5 DEF Abs!absvars

\* Call keeps RInv and is a stutter of SplitLink.
LEMMA CallR ==
    ASSUME RInv, NEW t \in Threads, \A s \in Threads : s = t, Call(t)
    PROVE  RInv' /\ [Abs!Next]_Abs!absvars
<1>1. IInv'
  BY CallIInv DEF RInv
<1>2. /\ split' = split /\ results' = results /\ unit' = unit
      /\ dwarfs' = dwarfs
  BY DEF Call, Unchanged
<1>3. LinkOK' /\ ResultsOK' /\ UNCHANGED Abs!absvars
  BY <1>2, StutterStep DEF RInv
<1>4. Solo'
  BY <1>2 DEF RInv, Solo, Call, Unchanged
<1>5. QED
  BY <1>1, <1>3, <1>4 DEF RInv

\* CheckSplit keeps RInv and is a stutter of SplitLink.
LEMMA CheckSplitR ==
    ASSUME RInv, NEW t \in Threads, \A s \in Threads : s = t, CheckSplit(t)
    PROVE  RInv' /\ [Abs!Next]_Abs!absvars
<1>1. IInv'
  BY CheckSplitIInv DEF RInv
<1>2. /\ split' = split /\ results' = results /\ unit' = unit
      /\ dwarfs' = dwarfs
  BY DEF CheckSplit, Unchanged
<1>3. LinkOK' /\ ResultsOK' /\ UNCHANGED Abs!absvars
  BY <1>2, StutterStep DEF RInv
<1>4. Solo'
  BY <1>2 DEF RInv, Solo, CheckSplit, Unchanged
<1>5. QED
  BY <1>1, <1>3, <1>4 DEF RInv

\* OpenDwo keeps RInv and is a stutter of SplitLink.
LEMMA OpenDwoR ==
    ASSUME RInv, NEW t \in Threads, \A s \in Threads : s = t, OpenDwo(t)
    PROVE  RInv' /\ [Abs!Next]_Abs!absvars
<1>1. IInv'
  BY OpenDwoIInv DEF RInv
<1>2. /\ split' = split /\ results' = results /\ unit' = unit
      /\ dwarfs' = dwarfs
  BY DEF OpenDwo, Unchanged
<1>3. LinkOK' /\ ResultsOK' /\ UNCHANGED Abs!absvars
  BY <1>2, StutterStep DEF RInv
<1>4. Solo'
  BY <1>2 DEF RInv, Solo, OpenDwo, Unchanged
<1>5. QED
  BY <1>1, <1>3, <1>4 DEF RInv

\* OpenFails keeps RInv and is a stutter of SplitLink.
LEMMA OpenFailsR ==
    ASSUME RInv, NEW t \in Threads, \A s \in Threads : s = t, OpenFails(t)
    PROVE  RInv' /\ [Abs!Next]_Abs!absvars
<1>1. IInv'
  BY OpenFailsIInv DEF RInv
<1>2. /\ split' = split /\ results' = results /\ unit' = unit
      /\ dwarfs' = dwarfs
  BY DEF OpenFails, Unchanged
<1>3. LinkOK' /\ ResultsOK' /\ UNCHANGED Abs!absvars
  BY <1>2, StutterStep DEF RInv
<1>4. Solo'
  BY <1>2 DEF RInv, Solo, OpenFails, Unchanged
<1>5. QED
  BY <1>1, <1>3, <1>4 DEF RInv

\* DwarfBeginFails keeps RInv and is a stutter of SplitLink.
LEMMA DwarfBeginFailsR ==
    ASSUME RInv, NEW t \in Threads, \A s \in Threads : s = t, DwarfBeginFails(t)
    PROVE  RInv' /\ [Abs!Next]_Abs!absvars
<1>1. IInv'
  BY DwarfBeginFailsIInv DEF RInv
<1>2. /\ split' = split /\ results' = results /\ unit' = unit
      /\ dwarfs' = dwarfs
  BY DEF DwarfBeginFails, Unchanged
<1>3. LinkOK' /\ ResultsOK' /\ UNCHANGED Abs!absvars
  BY <1>2, StutterStep DEF RInv
<1>4. Solo'
  BY <1>2 DEF RInv, Solo, DwarfBeginFails, Unchanged
<1>5. QED
  BY <1>1, <1>3, <1>4 DEF RInv

\* GetUnits keeps RInv and is a stutter of SplitLink.
LEMMA GetUnitsR ==
    ASSUME RInv, NEW t \in Threads, \A s \in Threads : s = t, GetUnits(t)
    PROVE  RInv' /\ [Abs!Next]_Abs!absvars
<1>1. IInv'
  BY GetUnitsIInv DEF RInv
<1>2. /\ split' = split /\ results' = results /\ unit' = unit
      /\ dwarfs' = dwarfs
  BY DEF GetUnits, Unchanged
<1>3. LinkOK' /\ ResultsOK' /\ UNCHANGED Abs!absvars
  BY <1>2, StutterStep DEF RInv
<1>4. Solo'
  BY <1>2 DEF RInv, Solo, GetUnits, Unchanged
<1>5. QED
  BY <1>1, <1>3, <1>4 DEF RInv

\* GetUnitsAfterEnd keeps RInv and is a stutter of SplitLink.
LEMMA GetUnitsAfterEndR ==
    ASSUME RInv, NEW t \in Threads, \A s \in Threads : s = t, GetUnitsAfterEnd(t)
    PROVE  RInv' /\ [Abs!Next]_Abs!absvars
<1>1. IInv'
  BY GetUnitsAfterEndIInv DEF RInv
<1>2. /\ split' = split /\ results' = results /\ unit' = unit
      /\ dwarfs' = dwarfs
  BY DEF GetUnitsAfterEnd, Unchanged
<1>3. LinkOK' /\ ResultsOK' /\ UNCHANGED Abs!absvars
  BY <1>2, StutterStep DEF RInv
<1>4. Solo'
  BY <1>2 DEF RInv, Solo, GetUnitsAfterEnd, Unchanged
<1>5. QED
  BY <1>1, <1>3, <1>4 DEF RInv

\* UseAfterEndCrash keeps RInv and is a stutter of SplitLink.
LEMMA UseAfterEndCrashR ==
    ASSUME RInv, NEW t \in Threads, \A s \in Threads : s = t, UseAfterEndCrash(t)
    PROVE  RInv' /\ [Abs!Next]_Abs!absvars
<1>1. IInv'
  BY UseAfterEndCrashIInv DEF RInv
<1>2. /\ split' = split /\ results' = results /\ unit' = unit
      /\ dwarfs' = dwarfs
  BY DEF UseAfterEndCrash, Unchanged
<1>3. LinkOK' /\ ResultsOK' /\ UNCHANGED Abs!absvars
  BY <1>2, StutterStep DEF RInv
<1>4. Solo'
  BY <1>2 DEF RInv, Solo, UseAfterEndCrash, Unchanged
<1>5. QED
  BY <1>1, <1>3, <1>4 DEF RInv

\* CloseFd keeps RInv and is a stutter of SplitLink.
LEMMA CloseFdR ==
    ASSUME RInv, NEW t \in Threads, \A s \in Threads : s = t, CloseFd(t)
    PROVE  RInv' /\ [Abs!Next]_Abs!absvars
<1>1. IInv'
  BY CloseFdIInv DEF RInv
<1>2. /\ split' = split /\ results' = results /\ unit' = unit
      /\ dwarfs' = dwarfs
  BY DEF CloseFd, Unchanged
<1>3. LinkOK' /\ ResultsOK' /\ UNCHANGED Abs!absvars
  BY <1>2, StutterStep DEF RInv
<1>4. Solo'
  BY <1>2 DEF RInv, Solo, CloseFd, Unchanged
<1>5. QED
  BY <1>1, <1>3, <1>4 DEF RInv

\* FinCheck keeps RInv and is a stutter of SplitLink.
LEMMA FinCheckR ==
    ASSUME RInv, NEW t \in Threads, \A s \in Threads : s = t, FinCheck(t)
    PROVE  RInv' /\ [Abs!Next]_Abs!absvars
<1>1. IInv'
  BY FinCheckIInv DEF RInv
<1>2. /\ split' = split /\ results' = results /\ unit' = unit
      /\ dwarfs' = dwarfs
  BY DEF FinCheck, Unchanged
<1>3. LinkOK' /\ ResultsOK' /\ UNCHANGED Abs!absvars
  BY <1>2, StutterStep DEF RInv
<1>4. Solo'
  BY <1>2 DEF RInv, Solo, FinCheck, Unchanged
<1>5. QED
  BY <1>1, <1>3, <1>4 DEF RInv


\* DwarfBegin keeps RInv and is a stutter of SplitLink: the new Dwarf is
\* appended, the existing ones keep their units.
LEMMA DwarfBeginR ==
    ASSUME RInv, NEW t \in Threads, \A s \in Threads : s = t, DwarfBegin(t)
    PROVE  RInv' /\ [Abs!Next]_Abs!absvars
<1>1. IInv'
  BY DwarfBeginIInv DEF RInv
<1>2. /\ split' = split /\ results' = results /\ unit' = unit
  BY DEF DwarfBegin, Unchanged
<1>3. /\ Len(dwarfs) <= Len(dwarfs')
      /\ \A e \in 1 .. Len(dwarfs) : dwarfs'[e].units = dwarfs[e].units
  BY DEF DwarfBegin, RInv, IInv, TypeOK
<1>4. LinkOK' /\ ResultsOK' /\ UNCHANGED Abs!absvars
  BY <1>2, <1>3, StutterStep DEF RInv
<1>5. Solo'
  BY <1>2 DEF RInv, Solo, DwarfBegin, Unchanged
<1>6. QED
  BY <1>1, <1>4, <1>5 DEF RInv

\* SkipUnit keeps RInv and is a stutter of SplitLink: dwarf_end only flags
\* the caller's Dwarf.
LEMMA SkipUnitR ==
    ASSUME RInv, NEW t \in Threads, \A s \in Threads : s = t, SkipUnit(t)
    PROVE  RInv' /\ [Abs!Next]_Abs!absvars
<1> DEFINE d == split_dwarf[t]
<1>1. IInv'
  BY SkipUnitIInv DEF RInv
<1>2. /\ split' = split /\ results' = results /\ unit' = unit
  BY DEF SkipUnit, Unchanged
<1>3. d \in 1 .. Len(dwarfs) /\ dwarfs[d] \in Dwarf /\ dwarfs \in Seq(Dwarf)
  BY DEF SkipUnit, RInv, IInv, TypeOK, Shape, Touching
<1>4. /\ Len(dwarfs) <= Len(dwarfs')
      /\ \A e \in 1 .. Len(dwarfs) : dwarfs'[e].units = dwarfs[e].units
  <2>1. CASE split[cu[t]] = Unresolved
    <3>1. dwarfs' = [dwarfs EXCEPT ![d] = [dwarfs[d] EXCEPT !.ended = TRUE]]
      BY <2>1 DEF SkipUnit
    <3>2. [dwarfs[d] EXCEPT !.ended = TRUE].units = dwarfs[d].units
      BY <1>3, DwarfUpdate
    <3>3. QED
      BY <1>3, <3>1, <3>2
  <2>2. CASE split[cu[t]] # Unresolved
    BY <2>2 DEF SkipUnit
  <2>3. QED
    BY <2>1, <2>2
<1>5. LinkOK' /\ ResultsOK' /\ UNCHANGED Abs!absvars
  BY <1>2, <1>4, StutterStep DEF RInv
<1>6. Solo'
  BY <1>2 DEF RInv, Solo, SkipUnit, Unchanged
<1>7. QED
  BY <1>1, <1>5, <1>6 DEF RInv

\* ElfFdDone keeps RInv and is a stutter of SplitLink: ELF_C_FDDONE only
\* flags the caller's Dwarf.
LEMMA ElfFdDoneR ==
    ASSUME RInv, NEW t \in Threads, \A s \in Threads : s = t, ElfFdDone(t)
    PROVE  RInv' /\ [Abs!Next]_Abs!absvars
<1> DEFINE d == split_dwarf[t]
<1>1. IInv'
  BY ElfFdDoneIInv DEF RInv
<1>2. /\ split' = split /\ results' = results /\ unit' = unit
  BY DEF ElfFdDone, Unchanged
<1>3. d \in 1 .. Len(dwarfs) /\ dwarfs[d] \in Dwarf /\ dwarfs \in Seq(Dwarf)
  BY DEF ElfFdDone, RInv, IInv, TypeOK, Shape, Touching
<1>4. /\ Len(dwarfs) <= Len(dwarfs')
      /\ \A e \in 1 .. Len(dwarfs) : dwarfs'[e].units = dwarfs[e].units
  <2>1. dwarfs' = [dwarfs EXCEPT ![d] = [dwarfs[d] EXCEPT !.fddone = TRUE]]
    BY DEF ElfFdDone
  <2>2. [dwarfs[d] EXCEPT !.fddone = TRUE].units = dwarfs[d].units
    BY <1>3, DwarfUpdate
  <2>3. QED
    BY <1>3, <2>1, <2>2
<1>5. LinkOK' /\ ResultsOK' /\ UNCHANGED Abs!absvars
  BY <1>2, <1>4, StutterStep DEF RInv
<1>6. Solo'
  BY <1>2 DEF RInv, Solo, ElfFdDone, Unchanged
<1>7. QED
  BY <1>1, <1>5, <1>6 DEF RInv


\* The sentinel is not a candidate: a candidate is a unit.
LEMMA CandidatesAreUnits ==
    ASSUME TypeOK, NEW c \in CUs
    PROVE  /\ Abs!Candidates(c) \subseteq Unit
           /\ Unresolved \notin Abs!Candidates(c)
<1>1. Abs!Candidates(c) \subseteq Unit
  BY DEF Abs!Candidates, Unit, UnitTypes, TypeOK, UnitInfo
<1>2. QED
  BY <1>1, SentinelsAssumption

\* A unit with no link has returned nothing yet: calls only return
\* resolved values.
LEMMA UnresolvedNoResults ==
    ASSUME IInv, ResultsOK, NEW c \in CUs, split[c] = Unresolved
    PROVE  results[c] = {}
BY SentinelsAssumption DEF IInv, TypeOK, ResultsOK, Link

\* MatchUnit keeps RInv and is a Resolve step of SplitLink: the skeleton's
\* unresolved link becomes the unit the scan is at, which the unit test of
\* lines 84-85 shows to be one of its candidates.
LEMMA MatchUnitR ==
    ASSUME RInv, NEW t \in Threads, \A s \in Threads : s = t, MatchUnit(t)
    PROVE  RInv' /\ [Abs!Next]_Abs!absvars
<1> DEFINE c == cu[t]
           d == split_dwarf[t]
           i == pos[t]
           u == dwarfs[d].units[i]
<1>1. IInv'
  BY MatchUnitIInv DEF RInv
<1>2. /\ c \in CUs /\ d \in 1 .. Len(dwarfs) /\ i \in 1 .. Len(dwarfs[d].units)
      /\ i \in DOMAIN dwarfs[d].back /\ dwarfs[d] \in Dwarf /\ dwarfs \in Seq(Dwarf)
  BY DEF MatchUnit, RInv, IInv, TypeOK, Shape, Touching
<1>3. split[c] = Unresolved /\ unit[c].type = "skeleton"
  BY DEF MatchUnit, RInv, Solo
<1>4. /\ Len(dwarfs') = Len(dwarfs)
      /\ \A e \in 1 .. Len(dwarfs) : dwarfs'[e].units = dwarfs[e].units
  <2>1. dwarfs' = [dwarfs EXCEPT ![d] = [dwarfs[d] EXCEPT !.back[i] = c]]
    BY <1>2 DEF MatchUnit
  <2>2. [dwarfs[d] EXCEPT !.back[i] = c].units = dwarfs[d].units
    BY <1>2, DwarfLinkBack
  <2>3. QED
    BY <1>2, <2>1, <2>2
<1>5. /\ split' = [split EXCEPT ![c] = <<d, i>>]
      /\ results' = results /\ unit' = unit
      /\ cu' = cu /\ split_dwarf' = split_dwarf /\ pos' = pos
      /\ split \in [CUs -> {Unresolved, NoSplit} \cup Link]
  BY DEF MatchUnit, Unchanged, RInv, IInv, TypeOK
<1>6. u \in Unit /\ Matches(u, c)
  BY <1>2 DEF MatchUnit, Dwarf
<1>7. u \in Abs!Candidates(c)
  BY <1>3, <1>6 DEF Abs!Candidates, Matches, Unit
<1>8. AbsVal(split[c])' = u
  <2>1. split'[cu'[t]] = <<d, i>> /\ <<d, i>> \in Link
    BY <1>2, <1>5 DEF Link
  <2>2. AbsVal(split[c])' = dwarfs'[d].units[i]
    BY <2>1 DEF AbsVal
  <2>3. QED
    BY <1>2, <1>4, <2>2
<1>9. \A c2 \in CUs \ {c} : AbsVal(split[c2])' = AbsVal(split[c2])
  BY <1>4, <1>5, AbsValStable DEF RInv, LinkOK, Linked
<1>10. results[c] = {}
  BY <1>2, <1>3, UnresolvedNoResults DEF RInv
<1>11. LinkOK'
  <2> SUFFICES ASSUME NEW c2 \in CUs, Linked(c2)'
               PROVE  /\ split'[c2][1] \in 1 .. Len(dwarfs')
                      /\ split'[c2][2] \in 1 .. Len(dwarfs'[split'[c2][1]].units)
                      /\ AbsVal(split[c2])' \in Abs!Candidates(c2)'
    BY DEF LinkOK
  <2>1. CASE c2 = c
    <3>1. split'[c] = <<d, i>>
      BY <1>2, <1>5
    <3>2. QED
      BY <2>1, <3>1, <1>2, <1>4, <1>5, <1>7, <1>8 DEF Abs!Candidates
  <2>2. CASE c2 # c
    <3>1. Linked(c2) /\ split'[c2] = split[c2]
      BY <2>2, <1>5 DEF Linked
    <3>2. QED
      BY <2>2, <3>1, <1>4, <1>5, <1>9 DEF RInv, LinkOK, Abs!Candidates
  <2>3. QED
    BY <2>1, <2>2
<1>12. ResultsOK'
  BY <1>5, <1>10 DEF RInv, ResultsOK
<1>13. Solo'
  BY <1>5 DEF RInv, IInv, TypeOK, Solo, MatchUnit, Unchanged
<1>14. Abs!Resolve(c)
  <2>1. AbsSplit[c] = Unresolved
    BY <1>2, <1>3, AbsValSentinels DEF AbsSplit
  <2>2. AbsSplit' = [AbsSplit EXCEPT ![c] = u]
    <3>1. AbsSplit' = [c2 \in CUs |-> AbsVal(split[c2])']
      BY DEF AbsSplit
    <3>2. [AbsSplit EXCEPT ![c] = u]
            = [c2 \in CUs |-> IF c2 = c THEN u ELSE AbsVal(split[c2])]
      BY <1>2 DEF AbsSplit
    <3>3. \A c2 \in CUs : AbsVal(split[c2])' = IF c2 = c THEN u ELSE AbsVal(split[c2])
      <4> TAKE c2 \in CUs
      <4>1. CASE c2 = c
        <5>1. AbsVal(split[c2])' = AbsVal(split[c])'
          BY <4>1, <1>5
        <5>2. QED
          BY <4>1, <5>1, <1>8
      <4>2. CASE c2 # c
        BY <4>2, <1>9
      <4>3. QED
        BY <4>1, <4>2
    <3>4. QED
      BY <3>1, <3>2, <3>3
  <2>3. AbsResults' = AbsResults
    <3>1. \A c2 \in CUs : \A v \in results[c2] : AbsVal(v)' = AbsVal(v)
      <4> TAKE c2 \in CUs
      <4> TAKE v \in results[c2]
      <4>1. v = split[c2]
        BY DEF RInv, ResultsOK
      <4>2. v \in Link => v[1] \in 1 .. Len(dwarfs)
        BY <4>1 DEF RInv, LinkOK, Linked
      <4>3. QED
        BY <4>2, <1>4, AbsValStable
    <3>2. QED
      BY <1>5, <3>1 DEF AbsResults
  <2>4. QED
    BY <1>5, <1>7, <2>1, <2>2, <2>3 DEF Abs!Resolve
<1>15. Abs!Next
  BY <1>2, <1>14 DEF Abs!Next
<1>16. QED
  BY <1>1, <1>11, <1>12, <1>13, <1>15 DEF RInv


\* Nullify keeps RInv and is a Resolve step of SplitLink: the unresolved
\* link becomes NULL (line 115).
LEMMA NullifyR ==
    ASSUME RInv, NEW t \in Threads, \A s \in Threads : s = t, Nullify(t)
    PROVE  RInv' /\ [Abs!Next]_Abs!absvars
<1> DEFINE c == cu[t]
<1>1. IInv'
  BY NullifyIInv DEF RInv
<1>2. /\ c \in CUs
      /\ split \in [CUs -> {Unresolved, NoSplit} \cup Link]
      /\ split[c] = Unresolved
  BY DEF Nullify, RInv, IInv, TypeOK, Solo
<1>3. /\ split' = [split EXCEPT ![c] = NoSplit]
      /\ results' = results /\ unit' = unit /\ dwarfs' = dwarfs /\ cu' = cu
  BY DEF Nullify, Unchanged
<1>4. results[c] = {}
  BY <1>2, UnresolvedNoResults DEF RInv
<1>5. NoSplit \notin Link
  BY SentinelsAssumption DEF Link
<1>6. LinkOK'
  BY <1>2, <1>3, <1>5 DEF RInv, LinkOK, Linked, AbsVal, Abs!Candidates
<1>7. ResultsOK'
  BY <1>2, <1>3, <1>4 DEF RInv, ResultsOK
<1>8. Solo'
  BY <1>3 DEF RInv, IInv, TypeOK, Solo, Nullify, Unchanged
<1>9. Abs!Resolve(c)
  <2>1. AbsSplit[c] = Unresolved
    BY <1>2, AbsValSentinels DEF AbsSplit
  <2>2. AbsSplit' = [AbsSplit EXCEPT ![c] = NoSplit]
    <3>1. \A c2 \in CUs : AbsVal(split[c2])' = IF c2 = c THEN NoSplit ELSE AbsVal(split[c2])
      BY <1>2, <1>3, <1>5 DEF AbsVal
    <3>2. QED
      BY <1>2, <3>1 DEF AbsSplit
  <2>3. AbsResults' = AbsResults
    BY <1>3 DEF AbsResults, AbsVal
  <2>4. QED
    BY <1>3, <2>1, <2>2, <2>3 DEF Abs!Resolve
<1>10. Abs!Next
  BY <1>2, <1>9 DEF Abs!Next
<1>11. QED
  BY <1>1, <1>6, <1>7, <1>8, <1>10 DEF RInv

\* A resolved link maps to something other than the sentinel: NULL, or a
\* unit.
LEMMA ResolvedMapsResolved ==
    ASSUME RInv, NEW c \in CUs, split[c] # Unresolved
    PROVE  AbsVal(split[c]) # Unresolved
<1>1. CASE split[c] \in Link
  <2>1. AbsVal(split[c]) \in Abs!Candidates(c)
    BY <1>1 DEF RInv, LinkOK, Linked
  <2>2. QED
    BY <2>1, CandidatesAreUnits DEF RInv, IInv
<1>2. CASE split[c] \notin Link
  BY <1>2, SentinelsAssumption DEF AbsVal, RInv, IInv, TypeOK
<1>3. QED
  BY <1>1, <1>2

\* A call that returns split[c] unchanged keeps RInv and is a Return step of
\* SplitLink.
LEMMA ReturnStep ==
    ASSUME RInv, NEW t \in Threads, \A s \in Threads : s = t,
           pc[t] \in {"check", "ret"}, split[cu[t]] # Unresolved,
           results' = [results EXCEPT ![cu[t]] = @ \cup {split[cu[t]]}],
           pc' = [pc EXCEPT ![t] = "idle"],
           UNCHANGED <<unit, split, dwarfs, cu>>
    PROVE  LinkOK' /\ ResultsOK' /\ Solo' /\ [Abs!Next]_Abs!absvars
<1> DEFINE c == cu[t]
<1>1. c \in CUs /\ results \in [CUs -> SUBSET ({NoSplit} \cup Link)]
      /\ pc \in [Threads -> PCs]
  BY DEF RInv, IInv, TypeOK
<1>2. LinkOK'
  BY DEF RInv, LinkOK, Linked, AbsVal, Abs!Candidates
<1>3. ResultsOK'
  BY <1>1 DEF RInv, ResultsOK
<1>4. Solo'
  BY <1>1 DEF RInv, Solo
<1>5. Abs!Return(c)
  <2>1. AbsSplit[c] # Unresolved
    BY <1>1, ResolvedMapsResolved DEF AbsSplit
  <2>2. AbsSplit' = AbsSplit
    BY DEF AbsSplit, AbsVal
  <2>3. AbsResults' = [AbsResults EXCEPT ![c] = @ \cup {AbsSplit[c]}]
    <3>1. \A c2 \in CUs : results'[c2] = IF c2 = c THEN results[c] \cup {split[c]}
                                                  ELSE results[c2]
      BY <1>1
    <3>2. \A c2 \in CUs : AbsResults'[c2] = IF c2 = c THEN AbsResults[c] \cup {AbsSplit[c]}
                                                     ELSE AbsResults[c2]
      BY <3>1 DEF AbsResults, AbsSplit, AbsVal
    <3>3. QED
      BY <1>1, <3>2 DEF AbsResults
  <2>4. QED
    BY <2>1, <2>2, <2>3 DEF Abs!Return
<1>6. QED
  BY <1>1, <1>2, <1>3, <1>4, <1>5 DEF Abs!Next

\* ReturnCached keeps RInv and is a Return step of SplitLink (line 51).
LEMMA ReturnCachedR ==
    ASSUME RInv, NEW t \in Threads, \A s \in Threads : s = t, ReturnCached(t)
    PROVE  RInv' /\ [Abs!Next]_Abs!absvars
<1>1. IInv'
  BY ReturnCachedIInv DEF RInv
<1>2. LinkOK' /\ ResultsOK' /\ Solo' /\ [Abs!Next]_Abs!absvars
  BY ReturnStep DEF ReturnCached, Unchanged
<1>3. QED
  BY <1>1, <1>2 DEF RInv

\* ReturnSplit keeps RInv and is a Return step of SplitLink (line 117).
LEMMA ReturnSplitR ==
    ASSUME RInv, NEW t \in Threads, \A s \in Threads : s = t, ReturnSplit(t)
    PROVE  RInv' /\ [Abs!Next]_Abs!absvars
<1>1. IInv'
  BY ReturnSplitIInv DEF RInv
<1>2. split[cu[t]] # Unresolved
  BY DEF ReturnSplit, RInv, IInv, Shape
<1>3. LinkOK' /\ ResultsOK' /\ Solo' /\ [Abs!Next]_Abs!absvars
  BY <1>2, ReturnStep DEF ReturnSplit, Unchanged
<1>4. QED
  BY <1>1, <1>3 DEF RInv


\* With one caller, every step keeps RInv and maps to a step of SplitLink or
\* to a stutter.
LEMMA StepR ==
    ASSUME NEW t0, Threads = {t0}, RInv, [Next]_vars
    PROVE  RInv' /\ [Abs!Next]_Abs!absvars
<1>1. CASE UNCHANGED vars
  <2>1. IInv'
    BY <1>1, StepIInv DEF RInv
  <2>2. LinkOK' /\ ResultsOK' /\ UNCHANGED Abs!absvars
    BY <1>1, StutterStep DEF vars, RInv
  <2>3. Solo'
    BY <1>1 DEF vars, RInv, Solo
  <2>4. QED
    BY <2>1, <2>2, <2>3 DEF RInv
<1>2. CASE Next
  <2>1. PICK t \in Threads : Call(t) \/ Step(t)
    BY <1>2 DEF Next
  <2>2. \A s \in Threads : s = t
    OBVIOUS
  <2>3. CASE Call(t)
    BY <2>2, <2>3, CallR
  <2>4. CASE Step(t)
    BY <2>2, <2>4, ReturnCachedR, CheckSplitR, OpenDwoR, OpenFailsR,
       DwarfBeginR, DwarfBeginFailsR, GetUnitsR, GetUnitsAfterEndR,
       UseAfterEndCrashR, MatchUnitR, SkipUnitR, ElfFdDoneR, CloseFdR,
       FinCheckR, NullifyR, ReturnSplitR DEF Step
  <2>5. QED
    BY <2>1, <2>3, <2>4
<1>3. QED
  BY <1>1, <1>2

\* Refinement: with a single caller, every behaviour of
\* __libdw_find_split_unit (lines 45-118), seen through the mapping
\* AbsSplit/AbsResults, is a behaviour of SplitLink: a unit's link is
\* resolved once, to NULL or to a split unit with the skeleton's id, and a
\* call returns only that link.
THEOREM SingleCallerRefinement ==
    ASSUME NEW t0, Threads = {t0}
    PROVE  Spec => AbsSpec
<1>1. Init => RInv /\ Abs!Init
  BY InitRInv
<1>2. RInv /\ [Next]_vars => RInv' /\ [Abs!Next]_Abs!absvars
  BY StepR
<1>3. QED
  BY <1>1, <1>2, PTL DEF Spec, AbsSpec, Abs!Spec

=============================================================================
