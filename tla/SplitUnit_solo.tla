--------------------------- MODULE SplitUnit_solo ---------------------------
(***************************************************************************)
(* What a single caller of __libdw_find_split_unit is promised, for any    *)
(* units, files and descriptor limits: the link of lines 84-89 is          *)
(* symmetric and names the first matching unit, a resolved cu->split is    *)
(* never changed (lines 49-51, 113-115), and all the calls for a unit      *)
(* return the same value.  With two callers none of these holds: the       *)
(* run split_race shows a second caller overwriting the first one's link,  *)
(* since the code takes no lock; spec 5 asks for exclusive access.         *)
(*                                                                         *)
(* LinkSymmetric is not inductive.  The step that links (MatchUnit)        *)
(* writes a back field of the Dwarf being scanned and the skeleton's       *)
(* split field, so the proof needs to know that the scanned Dwarf has no   *)
(* back field set yet, and that the units the scan passed did not match.   *)
(* Scanned says so; RInv (SplitUnit_refinement) says that the skeleton     *)
(* is still unresolved while it is scanned.                                *)
(***************************************************************************)
EXTENDS SplitUnit_refinement

\* While a caller scans the Dwarf it began (lines 81-100), no unit of that
\* Dwarf links back to a skeleton yet, the cursor is inside the Dwarf, and
\* no unit before the cursor is the skeleton's split unit.
Scanned ==
    \A t \in Threads :
        LET d == dwarfs[split_dwarf[t]]
        IN  /\ pc[t] \in {"scan", "test"} =>
                  \A i \in DOMAIN d.back : d.back[i] = Unresolved
            /\ pc[t] = "scan" =>
                  /\ pos[t] \in 0 .. Len(d.units)
                  /\ \A j \in 1 .. pos[t] : ~Matches(d.units[j], cu[t])
            /\ pc[t] = "test" =>
                  \A j \in 1 .. pos[t] - 1 : ~Matches(d.units[j], cu[t])

SymInv == RInv /\ LinkSymmetric /\ Scanned


\* A step keeps the links, the unit attributes, and the units and back
\* fields of every Dwarf; a Dwarf it adds links back to no skeleton.
LinkParts ==
    /\ split' = split /\ unit' = unit
    /\ Len(dwarfs) \in Nat /\ Len(dwarfs') \in Nat /\ Len(dwarfs) <= Len(dwarfs')
    /\ \A e \in 1 .. Len(dwarfs) :
          dwarfs'[e].units = dwarfs[e].units /\ dwarfs'[e].back = dwarfs[e].back
    /\ \A e \in 1 .. Len(dwarfs') \ 1 .. Len(dwarfs) :
          \A i \in DOMAIN dwarfs'[e].back : dwarfs'[e].back[i] = Unresolved

\* No link at the start, and no caller scanning.
LEMMA InitSym == Init => SymInv
<1> SUFFICES ASSUME Init PROVE SymInv
  OBVIOUS
<1>1. RInv
  BY InitRInv
<1>2. ~\E c \in CUs : Linked(c)
  BY SentinelsAssumption DEF Init, Linked, Link
<1>3. LinkSymmetric
  BY <1>2 DEF Init, LinkSymmetric
<1>4. Scanned
  BY DEF Init, Scanned
<1>5. QED
  BY <1>1, <1>3, <1>4 DEF SymInv

\* The two halves of LinkSymmetric, for one skeleton and for one back field.
LinkRight(c) ==
    /\ split[c][1] \in 1 .. Len(dwarfs)
    /\ split[c][2] \in 1 .. Len(dwarfs[split[c][1]].units)
    /\ dwarfs[split[c][1]].back[split[c][2]] = c
    /\ Matches(dwarfs[split[c][1]].units[split[c][2]], c)
    /\ \A j \in 1 .. split[c][2] - 1 : ~Matches(dwarfs[split[c][1]].units[j], c)

BackRight(d, i) == dwarfs[d].back[i] \in CUs => split[dwarfs[d].back[i]] = <<d, i>>

LEMMA SymmetricParts ==
    LinkSymmetric <=>
        /\ \A c \in CUs : Linked(c) => LinkRight(c)
        /\ \A d \in 1 .. Len(dwarfs) : \A i \in DOMAIN dwarfs[d].back : BackRight(d, i)
BY DEF LinkSymmetric, LinkRight, BackRight

\* The same, one state later.
LEMMA SymmetricPartsPrimed ==
    LinkSymmetric' <=>
        /\ \A c \in CUs : Linked(c)' => LinkRight(c)'
        /\ \A d \in 1 .. Len(dwarfs') : \A i \in DOMAIN dwarfs'[d].back : BackRight(d, i)'
BY DEF LinkSymmetric, LinkRight, BackRight, Linked

\* A step that keeps every link, every unit and every back field keeps
\* LinkSymmetric.
LEMMA SymmetricFrame == ASSUME LinkSymmetric, LinkParts PROVE LinkSymmetric'
<1>1. ASSUME NEW c \in CUs, Linked(c)' PROVE LinkRight(c)'
  <2>1. Linked(c) /\ split'[c] = split[c]
    BY <1>1 DEF LinkParts, Linked
  <2>2. LinkRight(c)
    BY <2>1, SymmetricParts
  <2>3. split[c][1] \in 1 .. Len(dwarfs)
    BY <2>2 DEF LinkRight
  <2>4. /\ split[c][1] \in 1 .. Len(dwarfs')
        /\ dwarfs'[split[c][1]].units = dwarfs[split[c][1]].units
        /\ dwarfs'[split[c][1]].back = dwarfs[split[c][1]].back
    BY <2>3 DEF LinkParts
  <2>5. \A u : Matches(u, c)' <=> Matches(u, c)
    BY DEF LinkParts, Matches
  <2>6. QED
    BY <2>1, <2>2, <2>4, <2>5 DEF LinkRight
<1>2. ASSUME NEW d \in 1 .. Len(dwarfs'), NEW i \in DOMAIN dwarfs'[d].back
      PROVE  BackRight(d, i)'
  <2>1. CASE d \in 1 .. Len(dwarfs)
    <3>1. dwarfs'[d].back = dwarfs[d].back
      BY <2>1 DEF LinkParts
    <3>2. BackRight(d, i)
      BY <2>1, <3>1, SymmetricParts
    <3>3. QED
      BY <3>1, <3>2 DEF BackRight, LinkParts
  <2>2. CASE d \notin 1 .. Len(dwarfs)
    <3>1. dwarfs'[d].back[i] = Unresolved
      BY <2>2 DEF LinkParts
    <3>2. QED
      BY <3>1, SentinelsAssumption DEF BackRight, Sentinels
  <2>3. QED
    BY <2>1, <2>2
<1>3. QED
  BY <1>1, <1>2, SymmetricPartsPrimed

\* With a single caller, a step that keeps the links and leaves the caller
\* outside the scan keeps LinkSymmetric and Scanned.
LEMMA QuietSym ==
    ASSUME NEW t \in Threads, Threads = {t}, SymInv, LinkParts,
           pc'[t] \notin {"scan", "test"}
    PROVE  (LinkSymmetric /\ Scanned)'
<1>1. LinkSymmetric'
  BY SymmetricFrame DEF SymInv
<1>2. Scanned'
  BY DEF Scanned
<1>3. QED
  BY <1>1, <1>2

\* A step that leaves every variable the two predicates read unchanged
\* keeps LinkSymmetric and Scanned.
LEMMA SymFrame ==
    ASSUME LinkSymmetric, Scanned,
           unit' = unit, split' = split, dwarfs' = dwarfs, pc' = pc,
           cu' = cu, split_dwarf' = split_dwarf, pos' = pos
    PROVE  (LinkSymmetric /\ Scanned)'
<1>1. LinkSymmetric'
  BY DEF LinkSymmetric, Linked, Matches
<1>2. Scanned'
  BY DEF Scanned, Matches
<1>3. QED
  BY <1>1, <1>2


\* Call keeps the links and leaves the caller outside the scan.
LEMMA CallSym ==
    ASSUME NEW t \in Threads, Threads = {t}, SymInv, Call(t)
    PROVE  (LinkSymmetric /\ Scanned)'
<1>1. LinkParts /\ pc'[t] \notin {"scan", "test"}
  BY DEF Call, Unchanged, LinkParts, SymInv, RInv, IInv, TypeOK
<1>2. QED
  BY <1>1, QuietSym

\* ReturnCached keeps the links and leaves the caller outside the scan.
LEMMA ReturnCachedSym ==
    ASSUME NEW t \in Threads, Threads = {t}, SymInv, ReturnCached(t)
    PROVE  (LinkSymmetric /\ Scanned)'
<1>1. LinkParts /\ pc'[t] \notin {"scan", "test"}
  BY DEF ReturnCached, Unchanged, LinkParts, SymInv, RInv, IInv, TypeOK
<1>2. QED
  BY <1>1, QuietSym

\* CheckSplit keeps the links and leaves the caller outside the scan.
LEMMA CheckSplitSym ==
    ASSUME NEW t \in Threads, Threads = {t}, SymInv, CheckSplit(t)
    PROVE  (LinkSymmetric /\ Scanned)'
<1>1. LinkParts /\ pc'[t] \notin {"scan", "test"}
  BY DEF CheckSplit, Unchanged, LinkParts, SymInv, RInv, IInv, TypeOK
<1>2. QED
  BY <1>1, QuietSym

\* OpenDwo keeps the links and leaves the caller outside the scan.
LEMMA OpenDwoSym ==
    ASSUME NEW t \in Threads, Threads = {t}, SymInv, OpenDwo(t)
    PROVE  (LinkSymmetric /\ Scanned)'
<1>1. LinkParts /\ pc'[t] \notin {"scan", "test"}
  BY DEF OpenDwo, Unchanged, LinkParts, SymInv, RInv, IInv, TypeOK
<1>2. QED
  BY <1>1, QuietSym

\* OpenFails keeps the links and leaves the caller outside the scan.
LEMMA OpenFailsSym ==
    ASSUME NEW t \in Threads, Threads = {t}, SymInv, OpenFails(t)
    PROVE  (LinkSymmetric /\ Scanned)'
<1>1. LinkParts /\ pc'[t] \notin {"scan", "test"}
  BY DEF OpenFails, Unchanged, LinkParts, SymInv, RInv, IInv, TypeOK
<1>2. QED
  BY <1>1, QuietSym

\* DwarfBeginFails keeps the links and leaves the caller outside the scan.
LEMMA DwarfBeginFailsSym ==
    ASSUME NEW t \in Threads, Threads = {t}, SymInv, DwarfBeginFails(t)
    PROVE  (LinkSymmetric /\ Scanned)'
<1>1. LinkParts /\ pc'[t] \notin {"scan", "test"}
  BY DEF DwarfBeginFails, Unchanged, LinkParts, SymInv, RInv, IInv, TypeOK
<1>2. QED
  BY <1>1, QuietSym

\* GetUnitsAfterEnd keeps the links and leaves the caller outside the scan.
LEMMA GetUnitsAfterEndSym ==
    ASSUME NEW t \in Threads, Threads = {t}, SymInv, GetUnitsAfterEnd(t)
    PROVE  (LinkSymmetric /\ Scanned)'
<1>1. LinkParts /\ pc'[t] \notin {"scan", "test"}
  BY DEF GetUnitsAfterEnd, Unchanged, LinkParts, SymInv, RInv, IInv, TypeOK
<1>2. QED
  BY <1>1, QuietSym

\* CloseFd keeps the links and leaves the caller outside the scan.
LEMMA CloseFdSym ==
    ASSUME NEW t \in Threads, Threads = {t}, SymInv, CloseFd(t)
    PROVE  (LinkSymmetric /\ Scanned)'
<1>1. LinkParts /\ pc'[t] \notin {"scan", "test"}
  BY DEF CloseFd, Unchanged, LinkParts, SymInv, RInv, IInv, TypeOK
<1>2. QED
  BY <1>1, QuietSym

\* FinCheck keeps the links and leaves the caller outside the scan.
LEMMA FinCheckSym ==
    ASSUME NEW t \in Threads, Threads = {t}, SymInv, FinCheck(t)
    PROVE  (LinkSymmetric /\ Scanned)'
<1>1. LinkParts /\ pc'[t] \notin {"scan", "test"}
  BY DEF FinCheck, Unchanged, LinkParts, SymInv, RInv, IInv, TypeOK
<1>2. QED
  BY <1>1, QuietSym

\* ReturnSplit keeps the links and leaves the caller outside the scan.
LEMMA ReturnSplitSym ==
    ASSUME NEW t \in Threads, Threads = {t}, SymInv, ReturnSplit(t)
    PROVE  (LinkSymmetric /\ Scanned)'
<1>1. LinkParts /\ pc'[t] \notin {"scan", "test"}
  BY DEF ReturnSplit, Unchanged, LinkParts, SymInv, RInv, IInv, TypeOK
<1>2. QED
  BY <1>1, QuietSym

\* ELF_C_FDDONE only flags the Dwarf.
LEMMA ElfFdDoneSym ==
    ASSUME NEW t \in Threads, Threads = {t}, SymInv, ElfFdDone(t)
    PROVE  (LinkSymmetric /\ Scanned)'
<1> DEFINE d == split_dwarf[t]
<1>1. d \in 1 .. Len(dwarfs) /\ dwarfs[d] \in Dwarf /\ dwarfs \in Seq(Dwarf)
  BY DEF ElfFdDone, SymInv, RInv, IInv, TypeOK, Shape, Touching
<1>2. /\ [dwarfs[d] EXCEPT !.fddone = TRUE].units = dwarfs[d].units
      /\ [dwarfs[d] EXCEPT !.fddone = TRUE].back = dwarfs[d].back
  BY <1>1, DwarfUpdate
<1>3. LinkParts
  BY <1>1, <1>2 DEF ElfFdDone, Unchanged, LinkParts
<1>4. pc'[t] \notin {"scan", "test"}
  BY DEF ElfFdDone, SymInv, RInv, IInv, TypeOK
<1>5. QED
  BY <1>3, <1>4, QuietSym

\* The crash changes nothing but the crash flag.
LEMMA UseAfterEndCrashSym ==
    ASSUME NEW t \in Threads, Threads = {t}, SymInv, UseAfterEndCrash(t)
    PROVE  (LinkSymmetric /\ Scanned)'
<1>1. /\ unit' = unit /\ split' = split /\ dwarfs' = dwarfs /\ pc' = pc
      /\ cu' = cu /\ split_dwarf' = split_dwarf /\ pos' = pos
  BY DEF UseAfterEndCrash
<1>2. LinkSymmetric /\ Scanned
  BY DEF SymInv
<1>3. QED
  BY <1>1, <1>2, SymFrame

\* dwarf_begin appends a Dwarf with no back link and starts its scan.
LEMMA DwarfBeginSym ==
    ASSUME NEW t \in Threads, Threads = {t}, SymInv, DwarfBegin(t)
    PROVE  (LinkSymmetric /\ Scanned)'
<1> DEFINE us == file[DwoPath(cu[t])]
           nd == [units |-> us, fd |-> split_fd[t], ended |-> FALSE,
                  fddone |-> FALSE, back |-> [i \in 1 .. Len(us) |-> Unresolved]]
<1>1. dwarfs \in Seq(Dwarf) /\ us \in Seq(Unit)
  BY DEF DwarfBegin, SymInv, RInv, IInv, TypeOK
<1>2. /\ dwarfs' = Append(dwarfs, nd)
      /\ Len(dwarfs') = Len(dwarfs) + 1
      /\ dwarfs'[Len(dwarfs) + 1] = nd
      /\ \A e \in 1 .. Len(dwarfs) : dwarfs'[e] = dwarfs[e]
  BY <1>1 DEF DwarfBegin
<1>3. LinkParts
  <2>1. 1 .. Len(dwarfs') \ 1 .. Len(dwarfs) = {Len(dwarfs) + 1}
    BY <1>1, <1>2
  <2>2. QED
    BY <1>1, <1>2, <2>1 DEF DwarfBegin, Unchanged, LinkParts
<1>4. LinkSymmetric'
  BY <1>3, SymmetricFrame DEF SymInv
<1>5. /\ pc'[t] = "scan" /\ split_dwarf'[t] = Len(dwarfs) + 1
      /\ pos'[t] = 0 /\ cu'[t] = cu[t]
  BY DEF DwarfBegin, Unchanged, SymInv, RInv, IInv, TypeOK
<1>6. Scanned'
  <2>1. \A i \in DOMAIN nd.back : nd.back[i] = Unresolved
    OBVIOUS
  <2>2. 0 \in 0 .. Len(nd.units)
    BY <1>1
  <2>3. QED
    BY <1>2, <1>5, <2>1, <2>2 DEF Scanned
<1>7. QED
  BY <1>4, <1>6


\* dwarf_get_units moves the cursor past a unit the scan has checked.
LEMMA GetUnitsSym ==
    ASSUME NEW t \in Threads, Threads = {t}, SymInv, GetUnits(t)
    PROVE  (LinkSymmetric /\ Scanned)'
<1> DEFINE d == dwarfs[split_dwarf[t]]
<1>1. /\ LinkParts /\ dwarfs' = dwarfs /\ split_dwarf' = split_dwarf /\ cu' = cu
      /\ pos[t] \in Nat
  BY DEF GetUnits, Unchanged, LinkParts, SymInv, RInv, IInv, TypeOK
<1>2. LinkSymmetric'
  BY <1>1, SymmetricFrame DEF SymInv
<1>3. /\ \A i \in DOMAIN d.back : d.back[i] = Unresolved
      /\ \A j \in 1 .. pos[t] : ~Matches(d.units[j], cu[t])
  BY DEF GetUnits, SymInv, Scanned
<1>4. Scanned'
  <2>1. CASE pos[t] < Len(d.units)
    <3>1. pc'[t] = "test" /\ pos'[t] = pos[t] + 1
      BY <2>1 DEF GetUnits, SymInv, RInv, IInv, TypeOK
    <3>2. 1 .. pos'[t] - 1 = 1 .. pos[t]
      BY <1>1, <3>1
    <3>3. QED
      BY <1>1, <1>3, <3>1, <3>2 DEF Scanned, Matches, LinkParts
  <2>2. CASE ~(pos[t] < Len(d.units))
    <3>1. pc'[t] = "close"
      BY <2>2 DEF GetUnits, SymInv, RInv, IInv, TypeOK
    <3>2. QED
      BY <3>1 DEF Scanned
  <2>3. QED
    BY <2>1, <2>2
<1>5. QED
  BY <1>2, <1>4

\* A unit that does not match: dwarf_end may free the Dwarf (it keeps its
\* units), and the scan goes on having checked one more unit.
LEMMA SkipUnitSym ==
    ASSUME NEW t \in Threads, Threads = {t}, SymInv, SkipUnit(t)
    PROVE  (LinkSymmetric /\ Scanned)'
<1> DEFINE k == split_dwarf[t]
<1>1. k \in 1 .. Len(dwarfs) /\ dwarfs[k] \in Dwarf /\ dwarfs \in Seq(Dwarf)
      /\ pos[t] \in 1 .. Len(dwarfs[k].units)
  BY DEF SkipUnit, SymInv, RInv, IInv, TypeOK, Shape, Touching
<1>2. /\ Len(dwarfs') = Len(dwarfs)
      /\ dwarfs'[k].units = dwarfs[k].units /\ dwarfs'[k].back = dwarfs[k].back
      /\ \A e \in 1 .. Len(dwarfs) \ {k} : dwarfs'[e] = dwarfs[e]
  <2>1. /\ [dwarfs[k] EXCEPT !.ended = TRUE].units = dwarfs[k].units
        /\ [dwarfs[k] EXCEPT !.ended = TRUE].back = dwarfs[k].back
    BY <1>1, DwarfUpdate
  <2>2. QED
    BY <1>1, <2>1 DEF SkipUnit
<1>3. LinkParts
  BY <1>1, <1>2 DEF SkipUnit, Unchanged, LinkParts
<1>4. LinkSymmetric'
  BY <1>3, SymmetricFrame DEF SymInv
<1>5. /\ pc'[t] = "scan" /\ split_dwarf' = split_dwarf /\ pos' = pos /\ cu' = cu
  BY DEF SkipUnit, Unchanged, SymInv, RInv, IInv, TypeOK
<1>6. /\ \A i \in DOMAIN dwarfs[k].back : dwarfs[k].back[i] = Unresolved
      /\ \A j \in 1 .. pos[t] - 1 : ~Matches(dwarfs[k].units[j], cu[t])
      /\ ~Matches(dwarfs[k].units[pos[t]], cu[t])
  BY DEF SkipUnit, SymInv, Scanned
<1>7. \A j \in 1 .. pos[t] : ~Matches(dwarfs[k].units[j], cu[t])
  BY <1>1, <1>6
<1>8. pos[t] \in 0 .. Len(dwarfs[k].units)
  BY <1>1
<1>9. Scanned'
  <2>1. \A i \in DOMAIN dwarfs'[k].back : dwarfs'[k].back[i] = Unresolved
    BY <1>2, <1>6
  <2>2. pos'[t] \in 0 .. Len(dwarfs'[k].units)
    BY <1>2, <1>5, <1>8
  <2>3. \A j \in 1 .. pos'[t] :
           ~(/\ dwarfs'[k].units[j].type = "split_compile"
             /\ dwarfs'[k].units[j].id = unit'[cu'[t]].id)
    BY <1>2, <1>3, <1>5, <1>7 DEF Matches, LinkParts
  <2>4. QED
    BY <1>5, <2>1, <2>2, <2>3 DEF Scanned, Matches
<1>10. QED
  BY <1>4, <1>9

\* Line 115 sets cu->split to NULL; with one caller the unit was still
\* unresolved, so no Dwarf links back to it.
LEMMA NullifySym ==
    ASSUME NEW t \in Threads, Threads = {t}, SymInv, Nullify(t)
    PROVE  (LinkSymmetric /\ Scanned)'
<1> DEFINE c0 == cu[t]
<1>1. /\ split[c0] = Unresolved /\ c0 \in CUs
      /\ split \in [CUs -> {Unresolved, NoSplit} \cup Link]
  BY DEF Nullify, SymInv, RInv, Solo, IInv, TypeOK
<1>2. /\ split' = [split EXCEPT ![c0] = NoSplit]
      /\ dwarfs' = dwarfs /\ unit' = unit
      /\ pc'[t] = "ret"
  BY DEF Nullify, Unchanged, SymInv, RInv, IInv, TypeOK
<1>3. ASSUME NEW c \in CUs, Linked(c)' PROVE LinkRight(c)'
  <2>1. c # c0
    BY <1>1, <1>2, <1>3, SentinelsAssumption DEF Linked, Link
  <2>2. split'[c] = split[c] /\ Linked(c)
    BY <1>1, <1>2, <1>3, <2>1 DEF Linked
  <2>3. LinkRight(c)
    BY <2>2, SymmetricParts DEF SymInv
  <2>4. QED
    BY <1>2, <2>2, <2>3 DEF LinkRight, Matches
<1>4. ASSUME NEW d \in 1 .. Len(dwarfs'), NEW i \in DOMAIN dwarfs'[d].back
      PROVE  BackRight(d, i)'
  <2>1. BackRight(d, i)
    BY <1>2, SymmetricParts DEF SymInv
  <2>2. CASE dwarfs[d].back[i] \in CUs
    <3>1. split[dwarfs[d].back[i]] = <<d, i>>
      BY <2>1, <2>2 DEF BackRight
    <3>2. d \in Nat /\ i \in Nat
      <4>1. dwarfs \in Seq(Dwarf) /\ d \in 1 .. Len(dwarfs)
        BY <1>2 DEF SymInv, RInv, IInv, TypeOK
      <4>2. dwarfs[d] \in Dwarf
        BY <4>1
      <4>3. dwarfs[d].back \in Seq(CUs \cup {Unresolved})
        BY <4>2 DEF Dwarf
      <4>4. i \in 1 .. Len(dwarfs[d].back)
        BY <1>2, <4>3
      <4>5. QED
        BY <4>1, <4>4
    <3>3. dwarfs[d].back[i] # c0
      <4>1. <<d, i>> \in Nat \X Nat
        BY <3>2
      <4>2. <<d, i>> # Unresolved
        BY <4>1, SentinelsAssumption
      <4>3. QED
        BY <1>1, <3>1, <4>2
    <3>4. QED
      BY <1>1, <1>2, <3>1, <3>3 DEF BackRight
  <2>3. QED
    BY <1>2, <2>2 DEF BackRight
<1>5. LinkSymmetric'
  BY <1>3, <1>4, SymmetricPartsPrimed
<1>6. Scanned'
  BY <1>2 DEF Scanned
<1>7. QED
  BY <1>5, <1>6


\* A skeleton that is still unresolved is no Dwarf's link back.
LEMMA UnresolvedNotBack ==
    ASSUME SymInv, NEW c \in CUs, split[c] = Unresolved,
           NEW d \in 1 .. Len(dwarfs), NEW i \in DOMAIN dwarfs[d].back
    PROVE  dwarfs[d].back[i] # c
<1>1. dwarfs \in Seq(Dwarf)
  BY DEF SymInv, RInv, IInv, TypeOK
<1>2. dwarfs[d] \in Dwarf
  BY <1>1
<1>3. <<d, i>> \in Nat \X Nat
  <2>1. dwarfs[d].back \in Seq(CUs \cup {Unresolved})
    BY <1>2 DEF Dwarf
  <2>2. QED
    BY <2>1
<1>4. <<d, i>> # Unresolved
  BY <1>3, SentinelsAssumption
<1>5. BackRight(d, i)
  BY SymmetricParts DEF SymInv
<1>6. QED
  BY <1>4, <1>5 DEF BackRight

\* Lines 84-89: the link is made in both directions, to the first unit of
\* the scanned Dwarf that matches; no other link is touched, because the
\* scanned Dwarf had no back link and the skeleton had no link yet.
LEMMA MatchUnitSym ==
    ASSUME NEW t \in Threads, Threads = {t}, SymInv, MatchUnit(t)
    PROVE  (LinkSymmetric /\ Scanned)'
<1> DEFINE k == split_dwarf[t]
           i == pos[t]
           c0 == cu[t]
           r == dwarfs[k]
           nr == [r EXCEPT !.back[i] = c0]
<1>1. /\ dwarfs \in Seq(Dwarf) /\ k \in 1 .. Len(dwarfs) /\ r \in Dwarf
      /\ i \in 1 .. Len(r.units) /\ DOMAIN r.back = DOMAIN r.units
      /\ c0 \in CUs /\ split \in [CUs -> {Unresolved, NoSplit} \cup Link]
  BY DEF MatchUnit, SymInv, RInv, IInv, TypeOK, Shape, Touching
<1>2. /\ split[c0] = Unresolved
      /\ \A m \in DOMAIN r.back : r.back[m] = Unresolved
      /\ \A j \in 1 .. i - 1 : ~Matches(r.units[j], c0)
      /\ Matches(r.units[i], c0)
  BY DEF MatchUnit, SymInv, RInv, Solo, Scanned
<1>3. /\ nr.units = r.units /\ DOMAIN nr.back = DOMAIN r.back
      /\ nr.back[i] = c0
      /\ \A m \in DOMAIN r.back \ {i} : nr.back[m] = r.back[m]
  <2>1. i \in DOMAIN r.back
    BY <1>1
  <2>2. nr.units = r.units /\ DOMAIN nr.back = DOMAIN r.back
    BY <1>1, <2>1, DwarfLinkBack
  <2>3. QED
    BY <2>1, <2>2
<1>4. /\ Len(dwarfs') = Len(dwarfs) /\ dwarfs'[k] = nr
      /\ \A e \in 1 .. Len(dwarfs) \ {k} : dwarfs'[e] = dwarfs[e]
  BY <1>1 DEF MatchUnit
<1>5. /\ split' = [split EXCEPT ![c0] = <<k, i>>]
      /\ unit' = unit /\ pc'[t] = "fddone"
  BY DEF MatchUnit, Unchanged, SymInv, RInv, IInv, TypeOK
<1>6. Unresolved \notin CUs
  BY SentinelsAssumption DEF Sentinels
<1>7. ASSUME NEW c \in CUs, Linked(c)' PROVE LinkRight(c)'
  <2>1. CASE c = c0
    <3>1. split'[c] = <<k, i>>
      BY <1>1, <1>5, <2>1
    <3>2. k \in 1 .. Len(dwarfs') /\ dwarfs'[k].units = r.units
      BY <1>1, <1>3, <1>4
    <3>3. dwarfs'[k].back[i] = c
      BY <1>3, <1>4, <2>1
    <3>4. \A u : Matches(u, c)' <=> Matches(u, c)
      BY <1>5 DEF Matches
    <3>5. QED
      BY <1>1, <1>2, <2>1, <3>1, <3>2, <3>3, <3>4 DEF LinkRight
  <2>2. CASE c # c0
    <3>1. split'[c] = split[c] /\ Linked(c)
      BY <1>1, <1>5, <1>7, <2>2 DEF Linked
    <3>2. LinkRight(c)
      BY <3>1, SymmetricParts DEF SymInv
    <3>3. split[c][1] # k
      <4>1. SUFFICES ASSUME split[c][1] = k PROVE FALSE
        OBVIOUS
      <4>2. split[c][2] \in DOMAIN r.back
        BY <1>1, <3>2, <4>1 DEF LinkRight
      <4>3. r.back[split[c][2]] = c
        BY <3>2, <4>1 DEF LinkRight
      <4>4. QED
        BY <1>2, <1>6, <4>2, <4>3
    <3>4. dwarfs'[split[c][1]] = dwarfs[split[c][1]]
      BY <1>4, <3>2, <3>3 DEF LinkRight
    <3>5. \A u : Matches(u, c)' <=> Matches(u, c)
      BY <1>5 DEF Matches
    <3>6. split[c][1] \in 1 .. Len(dwarfs')
      BY <1>4, <3>2 DEF LinkRight
    <3>7. QED
      BY <3>1, <3>2, <3>4, <3>5, <3>6 DEF LinkRight
  <2>3. QED
    BY <2>1, <2>2
<1>8. ASSUME NEW e \in 1 .. Len(dwarfs'), NEW m \in DOMAIN dwarfs'[e].back
      PROVE  BackRight(e, m)'
  <2>1. CASE e = k /\ m = i
    BY <1>1, <1>3, <1>4, <1>5, <2>1 DEF BackRight
  <2>2. CASE e = k /\ m # i
    BY <1>2, <1>3, <1>4, <1>6, <2>2 DEF BackRight
  <2>3. CASE e # k
    <3>1. e \in 1 .. Len(dwarfs) /\ dwarfs'[e] = dwarfs[e]
      BY <1>4, <2>3
    <3>2. BackRight(e, m)
      BY <3>1, SymmetricParts DEF SymInv
    <3>3. CASE dwarfs[e].back[m] \in CUs
      <4>1. dwarfs[e].back[m] # c0
        BY <1>1, <1>2, <3>1, UnresolvedNotBack
      <4>2. QED
        BY <1>1, <1>5, <3>1, <3>2, <3>3, <4>1 DEF BackRight
    <3>4. QED
      BY <3>1, <3>3 DEF BackRight
  <2>4. QED
    BY <2>1, <2>2, <2>3
<1>9. LinkSymmetric'
  BY <1>7, <1>8, SymmetricPartsPrimed
<1>10. Scanned'
  BY <1>5 DEF Scanned
<1>11. QED
  BY <1>9, <1>10


\* With a single caller, every step keeps SymInv.
LEMMA StepSym ==
    ASSUME NEW t0, Threads = {t0}, SymInv, [Next]_vars PROVE SymInv'
<1>1. RInv'
  BY StepR DEF SymInv
<1>2. (LinkSymmetric /\ Scanned)'
  <2>1. CASE UNCHANGED vars
    <3>1. /\ unit' = unit /\ split' = split /\ dwarfs' = dwarfs /\ pc' = pc
          /\ cu' = cu /\ split_dwarf' = split_dwarf /\ pos' = pos
      BY <2>1 DEF vars
    <3>2. LinkSymmetric /\ Scanned
      BY DEF SymInv
    <3>3. QED
      BY <3>1, <3>2, SymFrame
  <2>2. CASE Next
    <3>1. PICK t \in Threads : Call(t) \/ Step(t)
      BY <2>2 DEF Next
    <3>2. Threads = {t}
      OBVIOUS
    <3>3. CASE Call(t)
      BY <3>2, <3>3, CallSym
    <3>4. CASE Step(t)
      BY <3>2, <3>4, ReturnCachedSym, CheckSplitSym, OpenDwoSym, OpenFailsSym,
         DwarfBeginSym, DwarfBeginFailsSym, GetUnitsSym, GetUnitsAfterEndSym,
         UseAfterEndCrashSym, MatchUnitSym, SkipUnitSym, ElfFdDoneSym,
         CloseFdSym, FinCheckSym, NullifySym, ReturnSplitSym DEF Step
    <3>5. QED
      BY <3>1, <3>3, <3>4
  <2>3. QED
    BY <2>1, <2>2
<1>3. QED
  BY <1>1, <1>2 DEF SymInv

\* LinkSymmetric (lines 84-89), for a single caller and any units, files
\* and descriptor limits: a linked skeleton is its split unit's link back,
\* that unit is a split_compile unit with the skeleton's unit_id8 and the
\* first such unit of its file, and every link back is matched by the
\* skeleton's link.
THEOREM SoloLinkSymmetric ==
    ASSUME NEW t0, Threads = {t0} PROVE Spec => []LinkSymmetric
<1>1. Init => SymInv
  BY InitSym
<1>2. SymInv /\ [Next]_vars => SymInv'
  BY StepSym
<1>3. SymInv => LinkSymmetric
  BY DEF SymInv
<1>4. QED
  BY <1>1, <1>2, <1>3, PTL DEF Spec

\* With a single caller RInv holds in every state.
LEMMA SoloRInv == ASSUME NEW t0, Threads = {t0} PROVE Spec => []RInv
<1>1. Init => RInv
  BY InitRInv
<1>2. RInv /\ [Next]_vars => RInv'
  BY StepR
<1>3. QED
  BY <1>1, <1>2, PTL DEF Spec

\* ResultsConsistent, the idempotence of lines 49-51 for a single caller:
\* every call for a unit returns the same value, because a unit's calls
\* only ever returned its current link and that link, once resolved, stays.
THEOREM SoloResultsConsistent ==
    ASSUME NEW t0, Threads = {t0} PROVE Spec => []ResultsConsistent
<1>1. RInv => ResultsConsistent
  BY DEF RInv, ResultsOK, ResultsConsistent
<1>2. QED
  BY <1>1, SoloRInv, PTL

\* With one caller, the only steps that write cu->split (line 89 and line
\* 115) find it unresolved; every other step leaves it alone.
LEMMA ResolveStep ==
    ASSUME NEW t0, Threads = {t0}, RInv, [Next]_vars
    PROVE  \A c \in CUs : split[c] # Unresolved => split'[c] = split[c]
<1>1. CASE UNCHANGED vars
  BY <1>1 DEF vars
<1>2. CASE Next
  <2>1. PICK t \in Threads : Call(t) \/ Step(t)
    BY <1>2 DEF Next
  <2>2. split \in [CUs -> {Unresolved, NoSplit} \cup Link] /\ cu[t] \in CUs
    BY DEF RInv, IInv, TypeOK
  <2>3. CASE MatchUnit(t)
    <3>1. split[cu[t]] = Unresolved
      BY <2>3 DEF MatchUnit, RInv, Solo
    <3>2. split' = [split EXCEPT ![cu[t]] = <<split_dwarf[t], pos[t]>>]
      BY <2>3 DEF MatchUnit
    <3>3. QED
      BY <2>2, <3>1, <3>2
  <2>4. CASE Nullify(t)
    <3>1. split[cu[t]] = Unresolved
      BY <2>4 DEF Nullify, RInv, Solo
    <3>2. split' = [split EXCEPT ![cu[t]] = NoSplit]
      BY <2>4 DEF Nullify
    <3>3. QED
      BY <2>2, <3>1, <3>2
  <2>5. CASE ~MatchUnit(t) /\ ~Nullify(t)
    <3>1. split' = split
      BY <2>1, <2>5 DEF Call, Step, ReturnCached, CheckSplit, OpenDwo,
         OpenFails, DwarfBegin, DwarfBeginFails, GetUnits, GetUnitsAfterEnd,
         UseAfterEndCrash, SkipUnit, ElfFdDone, CloseFd, FinCheck, ReturnSplit
    <3>2. QED
      BY <3>1
  <2>6. QED
    BY <2>3, <2>4, <2>5
<1>3. QED
  BY <1>1, <1>2

\* ResolveOnce (lines 49-51 and 113-115), for a single caller: once
\* cu->split is resolved no step changes it.
THEOREM SoloResolveOnce ==
    ASSUME NEW t0, Threads = {t0} PROVE Spec => ResolveOnce
<1>1. RInv /\ [Next]_vars =>
        [\A c \in CUs : split[c] # Unresolved => split'[c] = split[c]]_vars
  BY ResolveStep
<1>2. QED
  BY <1>1, SoloRInv, PTL DEF Spec, ResolveOnce

=============================================================================
