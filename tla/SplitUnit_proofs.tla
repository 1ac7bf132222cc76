-------------------------- MODULE SplitUnit_proofs --------------------------
(***************************************************************************)
(* Proofs about SplitUnit for every value of the constants: any number of  *)
(* callers, units, files, ids and descriptors.                             *)
(*                                                                         *)
(* IInv (TypeOK /\ Shape /\ FdHygiene /\ FdDistinct) is inductive.  Shape  *)
(* is needed because the unit test and the link of lines 84-89 index the   *)
(* caller's Dwarf, and because line 117 must never return the sentinel.    *)
(* FdDistinct is needed because close (line 106) only removes the          *)
(* caller's own descriptor from the table if no other caller, and nothing  *)
(* the process had before, holds the same number.                          *)
(***************************************************************************)
EXTENDS SplitUnit, WellFoundedInduction, TLAPS

\* open(2) hands out a descriptor that is free: the least element of a
\* non-empty set of naturals exists.
LEMMA LowestFreeIsFree ==
    ASSUME fds \subseteq Nat, FreeFds # {}
    PROVE  /\ LowestFree \in FreeFds
           /\ LowestFree \notin fds
<1>1. FreeFds \subseteq Nat
  BY FdAssumption DEF FreeFds
<1>2. \E x \in FreeFds : \A y \in FreeFds : ~(<<y, x>> \in OpToRel(<, Nat))
  BY <1>1, NatLessThanWellFounded, WFMin
<1>3. \E x \in FreeFds : \A y \in FreeFds : x <= y
  <2>1. PICK x \in FreeFds : \A y \in FreeFds : ~(<<y, x>> \in OpToRel(<, Nat))
    BY <1>2
  <2>2. \A y \in FreeFds : x <= y
    <3> TAKE y \in FreeFds
    <3>1. <<y, x>> \in Nat \X Nat
      BY <1>1
    <3>2. ~(y < x)
      BY <2>1, <3>1 DEF OpToRel
    <3>3. QED
      BY <3>2, <1>1, SMT
  <2>3. QED
    BY <2>2
<1>4. LowestFree \in FreeFds
  BY <1>3 DEF LowestFree
<1>5. QED
  BY <1>4 DEF FreeFds


\* Writing one element of a sequence keeps its length and element type.
LEMMA SeqUpdate ==
    ASSUME NEW S, NEW q \in Seq(S), NEW k \in 1 .. Len(q), NEW x \in S
    PROVE  /\ [q EXCEPT ![k] = x] \in Seq(S)
           /\ Len([q EXCEPT ![k] = x]) = Len(q)
           /\ [q EXCEPT ![k] = x][k] = x
           /\ \A j \in 1 .. Len(q) \ {k} : [q EXCEPT ![k] = x][j] = q[j]
OBVIOUS

\* A Dwarf stays a Dwarf, with the same units and split fields, when
\* dwarf_end (line 100) or ELF_C_FDDONE (line 95) flags it.
LEMMA DwarfUpdate ==
    ASSUME NEW r \in Dwarf
    PROVE  /\ [r EXCEPT !.ended = TRUE] \in Dwarf
           /\ [r EXCEPT !.ended = TRUE].units = r.units
           /\ [r EXCEPT !.ended = TRUE].back = r.back
           /\ [r EXCEPT !.fddone = TRUE] \in Dwarf
           /\ [r EXCEPT !.fddone = TRUE].units = r.units
           /\ [r EXCEPT !.fddone = TRUE].back = r.back
<1>1. /\ [r EXCEPT !.ended = TRUE] \in Dwarf
      /\ [r EXCEPT !.ended = TRUE].units = r.units
      /\ [r EXCEPT !.ended = TRUE].back = r.back
  BY DEF Dwarf
<1>2. /\ [r EXCEPT !.fddone = TRUE] \in Dwarf
      /\ [r EXCEPT !.fddone = TRUE].units = r.units
      /\ [r EXCEPT !.fddone = TRUE].back = r.back
  BY DEF Dwarf
<1>3. QED
  BY <1>1, <1>2

\* A Dwarf stays a Dwarf, with the same units, when the split field of one
\* of its units is set to a unit of the main Dwarf (line 89).
LEMMA DwarfLinkBack ==
    ASSUME NEW r \in Dwarf, NEW i \in DOMAIN r.back, NEW c \in CUs
    PROVE  /\ [r EXCEPT !.back[i] = c] \in Dwarf
           /\ [r EXCEPT !.back[i] = c].units = r.units
           /\ DOMAIN [r EXCEPT !.back[i] = c].back = DOMAIN r.back
<1>1. [r.back EXCEPT ![i] = c] \in Seq(CUs \cup {Unresolved})
  BY DEF Dwarf
<1>2. [r EXCEPT !.back[i] = c] = [r EXCEPT !.back = [r.back EXCEPT ![i] = c]]
  OBVIOUS
<1>3. [r EXCEPT !.back = [r.back EXCEPT ![i] = c]] \in Dwarf
  BY <1>1 DEF Dwarf
<1>4. [r EXCEPT !.back = [r.back EXCEPT ![i] = c]].units = r.units
  BY DEF Dwarf
<1>5. DOMAIN [r.back EXCEPT ![i] = c] = DOMAIN r.back
  OBVIOUS
<1>6. QED
  BY <1>2, <1>3, <1>4, <1>5 DEF Dwarf

USE FdAssumption

\* The initial state satisfies the inductive invariant.
LEMMA InitIInv == Init => IInv
<1> SUFFICES ASSUME Init PROVE IInv
  OBVIOUS
<1>1. TypeOK
  <2>1. dwarfs \in Seq(Dwarf)
    BY DEF Init
  <2>2. split \in [CUs -> {Unresolved, NoSplit} \cup Link]
    BY DEF Init
  <2>3. results \in [CUs -> SUBSET ({NoSplit} \cup Link)]
    BY DEF Init
  <2>4. pc \in [Threads -> PCs]
    BY DEF Init, PCs
  <2>5. fds \subseteq Nat
    BY DEF Init
  <2>6. /\ split_fd \in [Threads -> Nat] /\ split_dwarf \in [Threads -> Nat]
        /\ pos \in [Threads -> Nat] /\ calls \in [Threads -> Nat]
    BY DEF Init
  <2>7. QED
    BY <2>1, <2>2, <2>3, <2>4, <2>5, <2>6 DEF Init, TypeOK
<1>2. Shape
  BY DEF Init, Shape, Touching
<1>3. {s \in Threads : pc[s] \in Holding} = {}
  BY DEF Init, Holding
<1>4. FdHygiene
  BY <1>3 DEF Init, FdHygiene
<1>5. FdDistinct
  BY DEF Init, FdDistinct, Holding
<1>6. QED
  BY <1>1, <1>2, <1>4, <1>5 DEF IInv

\* Holders: the callers that have split_fd open.
Holders == {s \in Threads : pc[s] \in Holding}

\* Call preserves the inductive invariant.
LEMMA CallIInv == ASSUME IInv, NEW t \in Threads, Call(t) PROVE IInv'
<1>1. TypeOK'
  BY DEF Call, Unchanged, IInv, TypeOK, PCs, Dwarf, Link
<1>2. Shape'
  BY DEF Call, Unchanged, IInv, TypeOK, Shape, Touching
<1>3. FdHygiene'
  BY DEF Call, Unchanged, IInv, TypeOK, FdHygiene, FdDistinct, Holding
<1>4. FdDistinct'
  BY DEF Call, Unchanged, IInv, TypeOK, FdDistinct, Holding
<1>5. QED
  BY <1>1, <1>2, <1>3, <1>4 DEF IInv

\* ReturnCached preserves the inductive invariant.
LEMMA ReturnCachedIInv == ASSUME IInv, NEW t \in Threads, ReturnCached(t) PROVE IInv'
<1>1. TypeOK'
  <2>1. cu[t] \in CUs /\ split[cu[t]] \in {NoSplit} \cup Link
    BY DEF ReturnCached, IInv, TypeOK
  <2>2. results' \in [CUs -> SUBSET ({NoSplit} \cup Link)]
    BY <2>1 DEF ReturnCached, IInv, TypeOK
  <2>3. pc' \in [Threads -> PCs]
    BY DEF ReturnCached, IInv, TypeOK, PCs
  <2>4. QED
    BY <2>2, <2>3 DEF ReturnCached, Unchanged, IInv, TypeOK
<1>2. Shape'
  BY DEF ReturnCached, Unchanged, IInv, TypeOK, Shape, Touching
<1>3. FdHygiene'
  BY DEF ReturnCached, Unchanged, IInv, TypeOK, FdHygiene, FdDistinct, Holding
<1>4. FdDistinct'
  BY DEF ReturnCached, Unchanged, IInv, TypeOK, FdDistinct, Holding
<1>5. QED
  BY <1>1, <1>2, <1>3, <1>4 DEF IInv

\* CheckSplit preserves the inductive invariant.
LEMMA CheckSplitIInv == ASSUME IInv, NEW t \in Threads, CheckSplit(t) PROVE IInv'
<1>1. TypeOK'
  BY DEF CheckSplit, Unchanged, IInv, TypeOK, PCs, Dwarf, Link
<1>2. Shape'
  BY DEF CheckSplit, Unchanged, IInv, TypeOK, Shape, Touching
<1>3. FdHygiene'
  BY DEF CheckSplit, Unchanged, IInv, TypeOK, FdHygiene, FdDistinct, Holding
<1>4. FdDistinct'
  BY DEF CheckSplit, Unchanged, IInv, TypeOK, FdDistinct, Holding
<1>5. QED
  BY <1>1, <1>2, <1>3, <1>4 DEF IInv

\* OpenDwo preserves the inductive invariant: the descriptor open(2) hands
\* out is free, so it is neither one the process had nor another caller's.
LEMMA OpenDwoIInv == ASSUME IInv, NEW t \in Threads, OpenDwo(t) PROVE IInv'
<1>1. /\ LowestFree \in FreeFds
      /\ LowestFree \notin fds
  BY LowestFreeIsFree DEF OpenDwo, IInv, TypeOK
<1>2. LowestFree \in Nat
  BY <1>1 DEF FreeFds
<1>3. TypeOK'
  BY <1>2 DEF OpenDwo, Unchanged, IInv, TypeOK, PCs
<1>4. Shape'
  BY DEF OpenDwo, Unchanged, IInv, TypeOK, Shape, Touching
<1>5. FdHygiene'
  BY DEF OpenDwo, Unchanged, IInv, TypeOK, FdHygiene, Holding
<1>6. LowestFree >= BaseFds
  BY <1>1, <1>2 DEF IInv, FdHygiene
<1>7. \A s \in Threads : pc[s] \in Holding => LowestFree # split_fd[s]
  BY <1>1 DEF IInv, FdHygiene
<1>8. FdDistinct'
  BY <1>6, <1>7 DEF OpenDwo, Unchanged, IInv, TypeOK, FdDistinct, Holding
<1>9. QED
  BY <1>3, <1>4, <1>5, <1>8 DEF IInv

\* OpenFails preserves the inductive invariant.
LEMMA OpenFailsIInv == ASSUME IInv, NEW t \in Threads, OpenFails(t) PROVE IInv'
<1>1. TypeOK'
  BY DEF OpenFails, Unchanged, IInv, TypeOK, PCs, Dwarf, Link
<1>2. Shape'
  BY DEF OpenFails, Unchanged, IInv, TypeOK, Shape, Touching
<1>3. FdHygiene'
  BY DEF OpenFails, Unchanged, IInv, TypeOK, FdHygiene, FdDistinct, Holding
<1>4. FdDistinct'
  BY DEF OpenFails, Unchanged, IInv, TypeOK, FdDistinct, Holding
<1>5. QED
  BY <1>1, <1>2, <1>3, <1>4 DEF IInv

\* DwarfBegin preserves the inductive invariant.
LEMMA DwarfBeginIInv == ASSUME IInv, NEW t \in Threads, DwarfBegin(t) PROVE IInv'
<1>1. TypeOK'
  BY DEF DwarfBegin, Unchanged, IInv, TypeOK, PCs, Dwarf, Link
<1>2. Shape'
  BY DEF DwarfBegin, Unchanged, IInv, TypeOK, Shape, Touching
<1>3. FdHygiene'
  BY DEF DwarfBegin, Unchanged, IInv, TypeOK, FdHygiene, FdDistinct, Holding
<1>4. FdDistinct'
  BY DEF DwarfBegin, Unchanged, IInv, TypeOK, FdDistinct, Holding
<1>5. QED
  BY <1>1, <1>2, <1>3, <1>4 DEF IInv

\* DwarfBeginFails preserves the inductive invariant.
LEMMA DwarfBeginFailsIInv == ASSUME IInv, NEW t \in Threads, DwarfBeginFails(t) PROVE IInv'
<1>1. TypeOK'
  BY DEF DwarfBeginFails, Unchanged, IInv, TypeOK, PCs, Dwarf, Link
<1>2. Shape'
  BY DEF DwarfBeginFails, Unchanged, IInv, TypeOK, Shape, Touching
<1>3. FdHygiene'
  BY DEF DwarfBeginFails, Unchanged, IInv, TypeOK, FdHygiene, FdDistinct, Holding
<1>4. FdDistinct'
  BY DEF DwarfBeginFails, Unchanged, IInv, TypeOK, FdDistinct, Holding
<1>5. QED
  BY <1>1, <1>2, <1>3, <1>4 DEF IInv

\* GetUnits preserves the inductive invariant: the cursor only moves onto a
\* unit of the caller's Dwarf.
LEMMA GetUnitsIInv == ASSUME IInv, NEW t \in Threads, GetUnits(t) PROVE IInv'
<1>1. split_dwarf[t] \in 1 .. Len(dwarfs)
  BY DEF GetUnits, IInv, Shape, Touching
<1> DEFINE n == Len(dwarfs[split_dwarf[t]].units)
<1>2. CASE pos[t] < n
  <2>1. pos' = [pos EXCEPT ![t] = @ + 1] /\ pc' = [pc EXCEPT ![t] = "test"]
    BY <1>2 DEF GetUnits
  <2>2. pos[t] + 1 \in 1 .. n
    BY <1>2 DEF IInv, TypeOK
  <2>3. TypeOK'
    BY <2>1 DEF GetUnits, Unchanged, IInv, TypeOK, PCs
  <2>4. Shape'
    BY <1>1, <2>1, <2>2 DEF GetUnits, Unchanged, IInv, TypeOK, Shape, Touching
  <2>5. (FdHygiene /\ FdDistinct)'
    BY <2>1 DEF GetUnits, Unchanged, IInv, TypeOK, FdHygiene, FdDistinct, Holding
  <2>6. QED
    BY <2>3, <2>4, <2>5 DEF IInv
<1>3. CASE ~(pos[t] < n)
  <2>1. pos' = pos /\ pc' = [pc EXCEPT ![t] = "close"]
    BY <1>3 DEF GetUnits
  <2>2. TypeOK'
    BY <2>1 DEF GetUnits, Unchanged, IInv, TypeOK, PCs
  <2>3. Shape'
    BY <2>1 DEF GetUnits, Unchanged, IInv, TypeOK, Shape, Touching
  <2>4. (FdHygiene /\ FdDistinct)'
    BY <2>1 DEF GetUnits, Unchanged, IInv, TypeOK, FdHygiene, FdDistinct, Holding
  <2>5. QED
    BY <2>2, <2>3, <2>4 DEF IInv
<1>4. QED
  BY <1>2, <1>3

\* GetUnitsAfterEnd preserves the inductive invariant.
LEMMA GetUnitsAfterEndIInv == ASSUME IInv, NEW t \in Threads, GetUnitsAfterEnd(t) PROVE IInv'
<1>1. TypeOK'
  BY DEF GetUnitsAfterEnd, Unchanged, IInv, TypeOK, PCs, Dwarf, Link
<1>2. Shape'
  BY DEF GetUnitsAfterEnd, Unchanged, IInv, TypeOK, Shape, Touching
<1>3. FdHygiene'
  BY DEF GetUnitsAfterEnd, Unchanged, IInv, TypeOK, FdHygiene, FdDistinct, Holding
<1>4. FdDistinct'
  BY DEF GetUnitsAfterEnd, Unchanged, IInv, TypeOK, FdDistinct, Holding
<1>5. QED
  BY <1>1, <1>2, <1>3, <1>4 DEF IInv

\* UseAfterEndCrash preserves the inductive invariant.
LEMMA UseAfterEndCrashIInv == ASSUME IInv, NEW t \in Threads, UseAfterEndCrash(t) PROVE IInv'
<1>1. TypeOK'
  BY DEF UseAfterEndCrash, Unchanged, IInv, TypeOK, PCs, Dwarf, Link
<1>2. Shape'
  BY DEF UseAfterEndCrash, Unchanged, IInv, TypeOK, Shape, Touching
<1>3. FdHygiene'
  BY DEF UseAfterEndCrash, Unchanged, IInv, TypeOK, FdHygiene, FdDistinct, Holding
<1>4. FdDistinct'
  BY DEF UseAfterEndCrash, Unchanged, IInv, TypeOK, FdDistinct, Holding
<1>5. QED
  BY <1>1, <1>2, <1>3, <1>4 DEF IInv

\* MatchUnit preserves the inductive invariant: the link back is written
\* into a unit of the caller's own Dwarf.
LEMMA MatchUnitIInv == ASSUME IInv, NEW t \in Threads, MatchUnit(t) PROVE IInv'
<1> DEFINE d == split_dwarf[t]
<1>1. d \in 1 .. Len(dwarfs) /\ pos[t] \in DOMAIN dwarfs[d].back
  BY DEF MatchUnit, IInv, TypeOK, Shape, Touching
<1>2. dwarfs[d] \in Dwarf /\ cu[t] \in CUs
  BY <1>1 DEF IInv, TypeOK
<1>3. /\ [dwarfs[d] EXCEPT !.back[pos[t]] = cu[t]] \in Dwarf
      /\ [dwarfs[d] EXCEPT !.back[pos[t]] = cu[t]].units = dwarfs[d].units
      /\ DOMAIN [dwarfs[d] EXCEPT !.back[pos[t]] = cu[t]].back
           = DOMAIN dwarfs[d].back
  BY <1>1, <1>2, DwarfLinkBack
<1>4. dwarfs' = [dwarfs EXCEPT ![d] = [dwarfs[d] EXCEPT !.back[pos[t]] = cu[t]]]
  BY <1>1 DEF MatchUnit
<1>5. dwarfs' \in Seq(Dwarf) /\ Len(dwarfs') = Len(dwarfs)
  BY <1>1, <1>3, <1>4, SeqUpdate DEF IInv, TypeOK
<1>6. \A e \in 1 .. Len(dwarfs) :
        /\ dwarfs'[e].units = dwarfs[e].units
        /\ DOMAIN dwarfs'[e].back = DOMAIN dwarfs[e].back
  BY <1>1, <1>3, <1>4, SeqUpdate DEF IInv, TypeOK
<1>7. TypeOK'
  BY <1>1, <1>5 DEF MatchUnit, Unchanged, IInv, TypeOK, PCs, Link
<1>8. Shape'
  <2>1. \A e \in 1 .. Len(dwarfs') : DOMAIN dwarfs'[e].back = DOMAIN dwarfs'[e].units
    BY <1>5, <1>6 DEF IInv, Shape
  <2>2. \A s \in Threads : pc'[s] \in Touching => split_dwarf'[s] \in 1 .. Len(dwarfs')
    BY <1>5 DEF MatchUnit, Unchanged, IInv, Shape, Touching
  <2>3. \A s \in Threads : pc'[s] = "test" =>
          pos'[s] \in 1 .. Len(dwarfs'[split_dwarf'[s]].units)
    BY <1>6 DEF MatchUnit, Unchanged, IInv, TypeOK, Shape, Touching
  <2>4. \A s \in Threads : pc'[s] = "ret" => split'[cu'[s]] # Unresolved
    BY SentinelsAssumption DEF MatchUnit, Unchanged, IInv, TypeOK, Shape
  <2>5. QED
    BY <2>1, <2>2, <2>3, <2>4 DEF Shape
<1>9. (FdHygiene /\ FdDistinct)'
  BY DEF MatchUnit, Unchanged, IInv, TypeOK, FdHygiene, FdDistinct, Holding
<1>10. QED
  BY <1>7, <1>8, <1>9 DEF IInv

\* SkipUnit preserves the inductive invariant: dwarf_end only marks the
\* caller's own Dwarf freed.
LEMMA SkipUnitIInv == ASSUME IInv, NEW t \in Threads, SkipUnit(t) PROVE IInv'
<1> DEFINE d == split_dwarf[t]
<1>1. d \in 1 .. Len(dwarfs) /\ dwarfs[d] \in Dwarf
  BY DEF SkipUnit, IInv, TypeOK, Shape, Touching
<1>2. /\ dwarfs' \in Seq(Dwarf) /\ Len(dwarfs') = Len(dwarfs)
      /\ \A e \in 1 .. Len(dwarfs) :
           /\ dwarfs'[e].units = dwarfs[e].units
           /\ dwarfs'[e].back = dwarfs[e].back
  <2>1. CASE split[cu[t]] = Unresolved
    <3>1. [dwarfs[d] EXCEPT !.ended = TRUE] \in Dwarf
      BY <1>1, DwarfUpdate
    <3>2. dwarfs' = [dwarfs EXCEPT ![d] = [dwarfs[d] EXCEPT !.ended = TRUE]]
      BY <2>1 DEF SkipUnit
    <3>3. /\ [dwarfs[d] EXCEPT !.ended = TRUE].units = dwarfs[d].units
          /\ [dwarfs[d] EXCEPT !.ended = TRUE].back = dwarfs[d].back
      BY <1>1, DwarfUpdate
    <3>4. dwarfs \in Seq(Dwarf)
      BY DEF IInv, TypeOK
    <3>5. QED
      BY <1>1, <3>1, <3>2, <3>3, <3>4, SeqUpdate
  <2>2. CASE split[cu[t]] # Unresolved
    BY <2>2 DEF SkipUnit, IInv, TypeOK
  <2>3. QED
    BY <2>1, <2>2
<1>3. TypeOK'
  BY <1>2 DEF SkipUnit, Unchanged, IInv, TypeOK, PCs
<1>4. Shape'
  BY <1>2 DEF SkipUnit, Unchanged, IInv, TypeOK, Shape, Touching
<1>5. (FdHygiene /\ FdDistinct)'
  BY DEF SkipUnit, Unchanged, IInv, TypeOK, FdHygiene, FdDistinct, Holding
<1>6. QED
  BY <1>3, <1>4, <1>5 DEF IInv

\* ElfFdDone preserves the inductive invariant: ELF_C_FDDONE only marks the
\* caller's own Dwarf detached.
LEMMA ElfFdDoneIInv == ASSUME IInv, NEW t \in Threads, ElfFdDone(t) PROVE IInv'
<1> DEFINE d == split_dwarf[t]
<1>1. d \in 1 .. Len(dwarfs) /\ dwarfs[d] \in Dwarf
  BY DEF ElfFdDone, IInv, TypeOK, Shape, Touching
<1>2. [dwarfs[d] EXCEPT !.fddone = TRUE] \in Dwarf
  BY <1>1, DwarfUpdate
<1>3. dwarfs' = [dwarfs EXCEPT ![d] = [dwarfs[d] EXCEPT !.fddone = TRUE]]
  BY DEF ElfFdDone
<1>4. /\ dwarfs' \in Seq(Dwarf) /\ Len(dwarfs') = Len(dwarfs)
      /\ \A e \in 1 .. Len(dwarfs) :
           /\ dwarfs'[e].units = dwarfs[e].units
           /\ dwarfs'[e].back = dwarfs[e].back
  <2>1. /\ [dwarfs[d] EXCEPT !.fddone = TRUE].units = dwarfs[d].units
        /\ [dwarfs[d] EXCEPT !.fddone = TRUE].back = dwarfs[d].back
    BY <1>1, DwarfUpdate
  <2>2. dwarfs \in Seq(Dwarf)
    BY DEF IInv, TypeOK
  <2>3. QED
    BY <1>1, <1>2, <1>3, <2>1, <2>2, SeqUpdate
<1>5. TypeOK'
  BY <1>4 DEF ElfFdDone, Unchanged, IInv, TypeOK, PCs
<1>6. Shape'
  BY <1>4 DEF ElfFdDone, Unchanged, IInv, TypeOK, Shape, Touching
<1>7. (FdHygiene /\ FdDistinct)'
  BY DEF ElfFdDone, Unchanged, IInv, TypeOK, FdHygiene, FdDistinct, Holding
<1>8. QED
  BY <1>5, <1>6, <1>7 DEF IInv

\* CloseFd preserves the inductive invariant.
LEMMA CloseFdIInv == ASSUME IInv, NEW t \in Threads, CloseFd(t) PROVE IInv'
<1>1. TypeOK'
  BY DEF CloseFd, Unchanged, IInv, TypeOK, PCs, Dwarf, Link
<1>2. Shape'
  BY DEF CloseFd, Unchanged, IInv, TypeOK, Shape, Touching
<1>3. FdHygiene'
  BY DEF CloseFd, Unchanged, IInv, TypeOK, FdHygiene, FdDistinct, Holding
<1>4. FdDistinct'
  BY DEF CloseFd, Unchanged, IInv, TypeOK, FdDistinct, Holding
<1>5. QED
  BY <1>1, <1>2, <1>3, <1>4 DEF IInv

\* FinCheck preserves the inductive invariant.
LEMMA FinCheckIInv == ASSUME IInv, NEW t \in Threads, FinCheck(t) PROVE IInv'
<1>1. TypeOK'
  BY DEF FinCheck, Unchanged, IInv, TypeOK, PCs, Dwarf, Link
<1>2. Shape'
  BY DEF FinCheck, Unchanged, IInv, TypeOK, Shape, Touching
<1>3. FdHygiene'
  BY DEF FinCheck, Unchanged, IInv, TypeOK, FdHygiene, FdDistinct, Holding
<1>4. FdDistinct'
  BY DEF FinCheck, Unchanged, IInv, TypeOK, FdDistinct, Holding
<1>5. QED
  BY <1>1, <1>2, <1>3, <1>4 DEF IInv

\* Nullify preserves the inductive invariant: NULL is not the sentinel, so
\* the caller returns a resolved value.
LEMMA NullifyIInv == ASSUME IInv, NEW t \in Threads, Nullify(t) PROVE IInv'
<1>1. TypeOK'
  BY DEF Nullify, Unchanged, IInv, TypeOK, PCs
<1>2. split'[cu[t]] # Unresolved
  BY SentinelsAssumption DEF Nullify, IInv, TypeOK
<1>3. Shape'
  BY <1>2 DEF Nullify, Unchanged, IInv, TypeOK, Shape, Touching
<1>4. (FdHygiene /\ FdDistinct)'
  BY DEF Nullify, Unchanged, IInv, TypeOK, FdHygiene, FdDistinct, Holding
<1>5. QED
  BY <1>1, <1>3, <1>4 DEF IInv

\* ReturnSplit preserves the inductive invariant: the value returned at
\* line 117 is resolved, so it is NULL or a link.
LEMMA ReturnSplitIInv == ASSUME IInv, NEW t \in Threads, ReturnSplit(t) PROVE IInv'
<1>1. split[cu[t]] \in {NoSplit} \cup Link
  BY DEF ReturnSplit, IInv, TypeOK, Shape
<1>2. TypeOK'
  BY <1>1 DEF ReturnSplit, Unchanged, IInv, TypeOK, PCs
<1>3. Shape'
  BY DEF ReturnSplit, Unchanged, IInv, TypeOK, Shape, Touching
<1>4. (FdHygiene /\ FdDistinct)'
  BY DEF ReturnSplit, Unchanged, IInv, TypeOK, FdHygiene, FdDistinct, Holding
<1>5. QED
  BY <1>2, <1>3, <1>4 DEF IInv


\* Every step of the callers, and every stutter, preserves the inductive
\* invariant.
LEMMA StepIInv == IInv /\ [Next]_vars => IInv'
<1> SUFFICES ASSUME IInv, [Next]_vars PROVE IInv'
  OBVIOUS
<1>1. CASE UNCHANGED vars
  BY <1>1 DEF vars, IInv, TypeOK, Shape, FdHygiene, FdDistinct
<1>2. CASE Next
  <2>1. PICK t \in Threads : Call(t) \/ Step(t)
    BY <1>2 DEF Next
  <2>2. CASE Call(t)
    BY <2>2, CallIInv
  <2>3. CASE Step(t)
    BY <2>3, ReturnCachedIInv, CheckSplitIInv, OpenDwoIInv, OpenFailsIInv,
       DwarfBeginIInv, DwarfBeginFailsIInv, GetUnitsIInv,
       GetUnitsAfterEndIInv, UseAfterEndCrashIInv, MatchUnitIInv,
       SkipUnitIInv, ElfFdDoneIInv, CloseFdIInv, FinCheckIInv, NullifyIInv,
       ReturnSplitIInv DEF Step
  <2>4. QED
    BY <2>1, <2>2, <2>3
<1>3. QED
  BY <1>1, <1>2

\* The inductive invariant holds in every state of every behaviour.
THEOREM InvariantHolds == Spec => []IInv
<1>1. Init => IInv
  BY InitIInv
<1>2. IInv /\ [Next]_vars => IInv'
  BY StepIInv
<1>3. QED
  BY <1>1, <1>2, PTL DEF Spec

\* Type correctness, for any number of callers, units and descriptors: in
\* particular __libdw_find_split_unit never returns the (Dwarf_CU *) -1
\* sentinel of lines 50 and 114, whatever the callers interleave.
THEOREM TypeCorrect == Spec => []TypeOK
<1>1. IInv => TypeOK
  BY DEF IInv
<1>2. QED
  BY <1>1, InvariantHolds, PTL

\* Descriptor hygiene (lines 74-106), for any number of callers and any
\* descriptor limit: the open descriptors are exactly those the process had
\* and one per caller between its open and its close, so no path through
\* the function leaks split_fd or closes a descriptor it does not own.
THEOREM DescriptorHygiene == Spec => []FdHygiene
<1>1. IInv => FdHygiene
  BY DEF IInv
<1>2. QED
  BY <1>1, InvariantHolds, PTL

=============================================================================
