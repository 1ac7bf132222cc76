-------------------------- MODULE SplitUnit_links --------------------------
(***************************************************************************)
(* For any number of unsynchronised callers: the Dwarf that holds a linked *)
(* split unit is detached from its descriptor (ELF_C_FDDONE, line 95)      *)
(* before that descriptor is closed (line 106).                            *)
(*                                                                         *)
(* LinkedDwarfDetached is not inductive: the caller it names may be any    *)
(* caller holding a descriptor.  The strengthening names the caller: a     *)
(* link points into dwarfs, and its Dwarf is detached or the caller that   *)
(* made the link is at line 95 with that Dwarf.  No step but ElfFdDone     *)
(* moves a caller off line 95, and it detaches the Dwarf as it does.       *)
(***************************************************************************)
EXTENDS SplitUnit_proofs

\* A link names a Dwarf that exists.
LinkIn == \A c \in CUs : Linked(c) => split[c][1] \in 1 .. Len(dwarfs)

\* A linked Dwarf is detached, or the caller that linked it is about to
\* detach it.
Detach ==
    \A c \in CUs : Linked(c) =>
        \/ dwarfs[split[c][1]].fddone
        \/ \E t \in Threads : pc[t] = "fddone" /\ split_dwarf[t] = split[c][1]

LinkInv == LinkIn /\ Detach


\* No link in the initial state.
LEMMA InitLinks == Init => LinkInv
BY SentinelsAssumption DEF Init, LinkInv, LinkIn, Detach, Linked, Link

\* A step of caller t that is not at line 95, that removes links or keeps
\* them, keeps every Dwarf and its detached flag, and moves no other
\* caller, keeps LinkInv.
LEMMA DetachFrame ==
    ASSUME LinkInv, NEW t \in Threads, pc[t] # "fddone",
           \A c \in CUs : split'[c] \in Link => split'[c] = split[c],
           Len(dwarfs) \in Nat, Len(dwarfs') \in Nat,
           Len(dwarfs) <= Len(dwarfs'),
           \A e \in 1 .. Len(dwarfs) : dwarfs[e].fddone => dwarfs'[e].fddone,
           \A s \in Threads : s # t => pc'[s] = pc[s] /\ split_dwarf'[s] = split_dwarf[s]
    PROVE  LinkInv'
<1> SUFFICES ASSUME NEW c \in CUs, Linked(c)'
             PROVE  /\ split'[c][1] \in 1 .. Len(dwarfs')
                    /\ \/ dwarfs'[split'[c][1]].fddone
                       \/ \E s \in Threads : pc'[s] = "fddone" /\ split_dwarf'[s] = split'[c][1]
  BY DEF LinkInv, LinkIn, Detach
<1>1. split'[c] = split[c] /\ Linked(c)
  BY DEF Linked
<1>2. split[c][1] \in 1 .. Len(dwarfs)
  BY <1>1 DEF LinkInv, LinkIn
<1>3. split'[c][1] \in 1 .. Len(dwarfs')
  BY <1>1, <1>2
<1>4. CASE dwarfs[split[c][1]].fddone
  BY <1>1, <1>2, <1>3, <1>4
<1>5. CASE \E s \in Threads : pc[s] = "fddone" /\ split_dwarf[s] = split[c][1]
  <2>1. PICK s \in Threads : pc[s] = "fddone" /\ split_dwarf[s] = split[c][1]
    BY <1>5
  <2>2. s # t
    BY <2>1
  <2>3. QED
    BY <1>1, <1>3, <2>1, <2>2
<1>6. QED
  BY <1>1, <1>3, <1>4, <1>5 DEF LinkInv, Detach


\* The steps that touch no link and no Dwarf keep LinkInv.
LEMMA QuietLinks ==
    ASSUME IInv, LinkInv, NEW t \in Threads, pc[t] # "fddone",
           split' = split, dwarfs' = dwarfs, split_dwarf' = split_dwarf,
           \A s \in Threads : s # t => pc'[s] = pc[s]
    PROVE  LinkInv'
<1>1. Len(dwarfs) \in Nat
  BY DEF IInv, TypeOK
<1>2. QED
  BY <1>1, DetachFrame

\* Call keeps LinkInv.
LEMMA CallLinks == ASSUME IInv, LinkInv, NEW t \in Threads, Call(t) PROVE LinkInv'
<1>1. /\ pc[t] # "fddone"
      /\ split' = split /\ dwarfs' = dwarfs /\ split_dwarf' = split_dwarf
      /\ \A s \in Threads : s # t => pc'[s] = pc[s]
  BY DEF Call, Unchanged, IInv, TypeOK
<1>2. QED
  BY <1>1, QuietLinks

\* ReturnCached keeps LinkInv.
LEMMA ReturnCachedLinks == ASSUME IInv, LinkInv, NEW t \in Threads, ReturnCached(t) PROVE LinkInv'
<1>1. /\ pc[t] # "fddone"
      /\ split' = split /\ dwarfs' = dwarfs /\ split_dwarf' = split_dwarf
      /\ \A s \in Threads : s # t => pc'[s] = pc[s]
  BY DEF ReturnCached, Unchanged, IInv, TypeOK
<1>2. QED
  BY <1>1, QuietLinks

\* CheckSplit keeps LinkInv.
LEMMA CheckSplitLinks == ASSUME IInv, LinkInv, NEW t \in Threads, CheckSplit(t) PROVE LinkInv'
<1>1. /\ pc[t] # "fddone"
      /\ split' = split /\ dwarfs' = dwarfs /\ split_dwarf' = split_dwarf
      /\ \A s \in Threads : s # t => pc'[s] = pc[s]
  BY DEF CheckSplit, Unchanged, IInv, TypeOK
<1>2. QED
  BY <1>1, QuietLinks

\* OpenDwo keeps LinkInv.
LEMMA OpenDwoLinks == ASSUME IInv, LinkInv, NEW t \in Threads, OpenDwo(t) PROVE LinkInv'
<1>1. /\ pc[t] # "fddone"
      /\ split' = split /\ dwarfs' = dwarfs /\ split_dwarf' = split_dwarf
      /\ \A s \in Threads : s # t => pc'[s] = pc[s]
  BY DEF OpenDwo, Unchanged, IInv, TypeOK
<1>2. QED
  BY <1>1, QuietLinks

\* OpenFails keeps LinkInv.
LEMMA OpenFailsLinks == ASSUME IInv, LinkInv, NEW t \in Threads, OpenFails(t) PROVE LinkInv'
<1>1. /\ pc[t] # "fddone"
      /\ split' = split /\ dwarfs' = dwarfs /\ split_dwarf' = split_dwarf
      /\ \A s \in Threads : s # t => pc'[s] = pc[s]
  BY DEF OpenFails, Unchanged, IInv, TypeOK
<1>2. QED
  BY <1>1, QuietLinks

\* DwarfBeginFails keeps LinkInv.
LEMMA DwarfBeginFailsLinks == ASSUME IInv, LinkInv, NEW t \in Threads, DwarfBeginFails(t) PROVE LinkInv'
<1>1. /\ pc[t] # "fddone"
      /\ split' = split /\ dwarfs' = dwarfs /\ split_dwarf' = split_dwarf
      /\ \A s \in Threads : s # t => pc'[s] = pc[s]
  BY DEF DwarfBeginFails, Unchanged, IInv, TypeOK
<1>2. QED
  BY <1>1, QuietLinks

\* GetUnits keeps LinkInv.
LEMMA GetUnitsLinks == ASSUME IInv, LinkInv, NEW t \in Threads, GetUnits(t) PROVE LinkInv'
<1>1. /\ pc[t] # "fddone"
      /\ split' = split /\ dwarfs' = dwarfs /\ split_dwarf' = split_dwarf
      /\ \A s \in Threads : s # t => pc'[s] = pc[s]
  BY DEF GetUnits, Unchanged, IInv, TypeOK
<1>2. QED
  BY <1>1, QuietLinks

\* GetUnitsAfterEnd keeps LinkInv.
LEMMA GetUnitsAfterEndLinks == ASSUME IInv, LinkInv, NEW t \in Threads, GetUnitsAfterEnd(t) PROVE LinkInv'
<1>1. /\ pc[t] # "fddone"
      /\ split' = split /\ dwarfs' = dwarfs /\ split_dwarf' = split_dwarf
      /\ \A s \in Threads : s # t => pc'[s] = pc[s]
  BY DEF GetUnitsAfterEnd, Unchanged, IInv, TypeOK
<1>2. QED
  BY <1>1, QuietLinks

\* CloseFd keeps LinkInv.
LEMMA CloseFdLinks == ASSUME IInv, LinkInv, NEW t \in Threads, CloseFd(t) PROVE LinkInv'
<1>1. /\ pc[t] # "fddone"
      /\ split' = split /\ dwarfs' = dwarfs /\ split_dwarf' = split_dwarf
      /\ \A s \in Threads : s # t => pc'[s] = pc[s]
  BY DEF CloseFd, Unchanged, IInv, TypeOK
<1>2. QED
  BY <1>1, QuietLinks

\* FinCheck keeps LinkInv.
LEMMA FinCheckLinks == ASSUME IInv, LinkInv, NEW t \in Threads, FinCheck(t) PROVE LinkInv'
<1>1. /\ pc[t] # "fddone"
      /\ split' = split /\ dwarfs' = dwarfs /\ split_dwarf' = split_dwarf
      /\ \A s \in Threads : s # t => pc'[s] = pc[s]
  BY DEF FinCheck, Unchanged, IInv, TypeOK
<1>2. QED
  BY <1>1, QuietLinks

\* ReturnSplit keeps LinkInv.
LEMMA ReturnSplitLinks == ASSUME IInv, LinkInv, NEW t \in Threads, ReturnSplit(t) PROVE LinkInv'
<1>1. /\ pc[t] # "fddone"
      /\ split' = split /\ dwarfs' = dwarfs /\ split_dwarf' = split_dwarf
      /\ \A s \in Threads : s # t => pc'[s] = pc[s]
  BY DEF ReturnSplit, Unchanged, IInv, TypeOK
<1>2. QED
  BY <1>1, QuietLinks

\* Nullify removes a link and keeps LinkInv.
LEMMA NullifyLinks == ASSUME IInv, LinkInv, NEW t \in Threads, Nullify(t) PROVE LinkInv'
<1>1. /\ pc[t] # "fddone"
      /\ dwarfs' = dwarfs /\ split_dwarf' = split_dwarf
      /\ \A s \in Threads : s # t => pc'[s] = pc[s]
      /\ Len(dwarfs) \in Nat
  BY DEF Nullify, Unchanged, IInv, TypeOK
<1>2. \A c \in CUs : split'[c] \in Link => split'[c] = split[c]
  BY SentinelsAssumption DEF Nullify, IInv, TypeOK, Link
<1>3. QED
  BY <1>1, <1>2, DetachFrame

\* DwarfBegin appends a Dwarf and keeps LinkInv.
LEMMA DwarfBeginLinks == ASSUME IInv, LinkInv, NEW t \in Threads, DwarfBegin(t) PROVE LinkInv'
<1>1. /\ pc[t] # "fddone" /\ split' = split
      /\ \A s \in Threads : s # t => pc'[s] = pc[s] /\ split_dwarf'[s] = split_dwarf[s]
  BY DEF DwarfBegin, Unchanged, IInv, TypeOK
<1>2. /\ Len(dwarfs) \in Nat /\ Len(dwarfs') \in Nat
      /\ Len(dwarfs) <= Len(dwarfs')
      /\ \A e \in 1 .. Len(dwarfs) : dwarfs'[e] = dwarfs[e]
  BY DEF DwarfBegin, IInv, TypeOK
<1>3. QED
  BY <1>1, <1>2, DetachFrame

\* SkipUnit may free the caller's Dwarf; it keeps LinkInv.
LEMMA SkipUnitLinks == ASSUME IInv, LinkInv, NEW t \in Threads, SkipUnit(t) PROVE LinkInv'
<1> DEFINE d == split_dwarf[t]
<1>1. /\ pc[t] # "fddone" /\ split' = split /\ split_dwarf' = split_dwarf
      /\ \A s \in Threads : s # t => pc'[s] = pc[s]
  BY DEF SkipUnit, Unchanged, IInv, TypeOK
<1>2. d \in 1 .. Len(dwarfs) /\ dwarfs[d] \in Dwarf /\ dwarfs \in Seq(Dwarf)
  BY DEF SkipUnit, IInv, TypeOK, Shape, Touching
<1>3. [dwarfs[d] EXCEPT !.ended = TRUE].fddone = dwarfs[d].fddone
  BY <1>2 DEF Dwarf
<1>4. /\ Len(dwarfs) \in Nat /\ Len(dwarfs') = Len(dwarfs)
      /\ \A e \in 1 .. Len(dwarfs) : dwarfs'[e].fddone = dwarfs[e].fddone
  BY <1>2, <1>3 DEF SkipUnit
<1>5. QED
  BY <1>1, <1>4, DetachFrame

\* ElfFdDone moves its caller off line 95 and detaches the caller's
\* Dwarf: the links that rested on the caller now rest on the flag.
LEMMA ElfFdDoneLinks == ASSUME IInv, LinkInv, NEW t \in Threads, ElfFdDone(t) PROVE LinkInv'
<1> DEFINE d == split_dwarf[t]
<1>1. /\ split' = split /\ split_dwarf' = split_dwarf
      /\ \A s \in Threads : s # t => pc'[s] = pc[s]
  BY DEF ElfFdDone, Unchanged, IInv, TypeOK
<1>2. d \in 1 .. Len(dwarfs) /\ dwarfs[d] \in Dwarf /\ dwarfs \in Seq(Dwarf)
  BY DEF ElfFdDone, IInv, TypeOK, Shape, Touching
<1>3. /\ Len(dwarfs') = Len(dwarfs)
      /\ dwarfs'[d].fddone
      /\ \A e \in 1 .. Len(dwarfs) : dwarfs[e].fddone => dwarfs'[e].fddone
  <2>1. dwarfs' = [dwarfs EXCEPT ![d].fddone = TRUE]
    BY DEF ElfFdDone
  <2>2. Len(dwarfs') = Len(dwarfs) /\ DOMAIN dwarfs' = DOMAIN dwarfs
    BY <1>2, <2>1
  <2>3. dwarfs'[d].fddone
    BY <1>2, <2>1
  <2>4. \A e \in 1 .. Len(dwarfs) : e # d => dwarfs'[e] = dwarfs[e]
    BY <1>2, <2>1
  <2>5. QED
    BY <2>2, <2>3, <2>4
<1> SUFFICES ASSUME NEW c \in CUs, Linked(c)'
             PROVE  /\ split'[c][1] \in 1 .. Len(dwarfs')
                    /\ \/ dwarfs'[split'[c][1]].fddone
                       \/ \E s \in Threads : pc'[s] = "fddone" /\ split_dwarf'[s] = split'[c][1]
  BY DEF LinkInv, LinkIn, Detach
<1>4. Linked(c) /\ split'[c] = split[c] /\ split[c][1] \in 1 .. Len(dwarfs)
  BY <1>1 DEF Linked, LinkInv, LinkIn
<1>5. CASE dwarfs[split[c][1]].fddone
  BY <1>3, <1>4, <1>5
<1>6. CASE \E s \in Threads : pc[s] = "fddone" /\ split_dwarf[s] = split[c][1]
  <2>1. PICK s \in Threads : pc[s] = "fddone" /\ split_dwarf[s] = split[c][1]
    BY <1>6
  <2>2. CASE s = t
    BY <1>3, <1>4, <2>1, <2>2
  <2>3. CASE s # t
    BY <1>1, <1>3, <1>4, <2>1, <2>3
  <2>4. QED
    BY <2>2, <2>3
<1>7. QED
  BY <1>4, <1>5, <1>6 DEF LinkInv, Detach

\* MatchUnit makes a link to the caller's Dwarf and puts the caller at
\* line 95 with it.
LEMMA MatchUnitLinks == ASSUME IInv, LinkInv, NEW t \in Threads, MatchUnit(t) PROVE LinkInv'
<1> DEFINE d == split_dwarf[t]
           i == pos[t]
           c0 == cu[t]
<1>1. /\ split_dwarf' = split_dwarf /\ cu' = cu /\ pos' = pos
      /\ pc'[t] = "fddone"
      /\ \A s \in Threads : s # t => pc'[s] = pc[s]
  BY DEF MatchUnit, Unchanged, IInv, TypeOK
<1>2. /\ d \in 1 .. Len(dwarfs) /\ dwarfs[d] \in Dwarf /\ dwarfs \in Seq(Dwarf)
      /\ i \in DOMAIN dwarfs[d].back /\ c0 \in CUs
  BY DEF MatchUnit, IInv, TypeOK, Shape, Touching
<1>3. /\ Len(dwarfs') = Len(dwarfs)
      /\ \A e \in 1 .. Len(dwarfs) : dwarfs'[e].fddone = dwarfs[e].fddone
  BY <1>2 DEF MatchUnit, Dwarf
<1>4. split' = [split EXCEPT ![c0] = <<d, i>>]
  BY DEF MatchUnit
<1> SUFFICES ASSUME NEW c \in CUs, Linked(c)'
             PROVE  /\ split'[c][1] \in 1 .. Len(dwarfs')
                    /\ \/ dwarfs'[split'[c][1]].fddone
                       \/ \E s \in Threads : pc'[s] = "fddone" /\ split_dwarf'[s] = split'[c][1]
  BY DEF LinkInv, LinkIn, Detach
<1>5. CASE c = c0
  <2>1. split'[c][1] = d
    BY <1>2, <1>4, <1>5 DEF IInv, TypeOK
  <2>2. QED
    BY <1>1, <1>2, <1>3, <2>1
<1>6. CASE c # c0
  <2>1. split'[c] = split[c] /\ Linked(c)
    BY <1>4, <1>6 DEF Linked, IInv, TypeOK
  <2>2. split[c][1] \in 1 .. Len(dwarfs)
    BY <2>1 DEF LinkInv, LinkIn
  <2>3. CASE dwarfs[split[c][1]].fddone
    BY <1>3, <2>1, <2>2, <2>3
  <2>4. CASE \E s \in Threads : pc[s] = "fddone" /\ split_dwarf[s] = split[c][1]
    <3>1. PICK s \in Threads : pc[s] = "fddone" /\ split_dwarf[s] = split[c][1]
      BY <2>4
    <3>2. s # t
      BY <3>1 DEF MatchUnit
    <3>3. QED
      BY <1>1, <1>3, <2>1, <2>2, <3>1, <3>2
  <2>5. QED
    BY <2>1, <2>3, <2>4 DEF LinkInv, Detach
<1>7. QED
  BY <1>5, <1>6

\* The crash changes nothing else.
LEMMA UseAfterEndCrashLinks ==
    ASSUME IInv, LinkInv, NEW t \in Threads, UseAfterEndCrash(t) PROVE LinkInv'
BY DEF UseAfterEndCrash, LinkInv, LinkIn, Detach, Linked


\* Every step keeps LinkInv, given IInv.
LEMMA StepLinks == IInv /\ LinkInv /\ [Next]_vars => LinkInv'
<1> SUFFICES ASSUME IInv, LinkInv, [Next]_vars PROVE LinkInv'
  OBVIOUS
<1>1. CASE UNCHANGED vars
  BY <1>1 DEF vars, LinkInv, LinkIn, Detach, Linked
<1>2. CASE Next
  <2>1. PICK t \in Threads : Call(t) \/ Step(t)
    BY <1>2 DEF Next
  <2>2. CASE Call(t)
    BY <2>2, CallLinks
  <2>3. CASE Step(t)
    BY <2>3, ReturnCachedLinks, CheckSplitLinks, OpenDwoLinks, OpenFailsLinks,
       DwarfBeginLinks, DwarfBeginFailsLinks, GetUnitsLinks,
       GetUnitsAfterEndLinks, UseAfterEndCrashLinks, MatchUnitLinks,
       SkipUnitLinks, ElfFdDoneLinks, CloseFdLinks, FinCheckLinks,
       NullifyLinks, ReturnSplitLinks DEF Step
  <2>4. QED
    BY <2>1, <2>2, <2>3
<1>3. QED
  BY <1>1, <1>2

\* LinkedDwarfDetached (lines 91-101): whatever the number of callers and
\* however their statements interleave, a Dwarf that some unit's split
\* field points into is detached from its descriptor (ELF_C_FDDONE), or its
\* caller has just matched and is about to detach it; so close (split_fd)
\* at line 106 never leaves a linked Dwarf reading a closed descriptor.
THEOREM LinkDetachment == Spec => []LinkedDwarfDetached
<1>1. Init => IInv /\ LinkInv
  BY InitIInv, InitLinks
<1>2. IInv /\ LinkInv /\ [Next]_vars => IInv' /\ LinkInv'
  BY StepIInv, StepLinks
<1>3. LinkInv => LinkedDwarfDetached
  BY DEF LinkInv, Detach, LinkedDwarfDetached, Holding
<1>4. QED
  BY <1>1, <1>2, <1>3, PTL DEF Spec

=============================================================================
