----------------------------- MODULE SplitUnit -----------------------------
(***************************************************************************)
(* __libdw_find_split_unit (libdw/libdw_find_split_unit.c): the lazy,      *)
(* memoised link from a skeleton unit to its split unit in a .dwo file.    *)
(*                                                                         *)
(* Each caller is a thread whose pc walks the statements of the function;  *)
(* a step is one access to shared state (cu->split, a Dwarf, the           *)
(* descriptor table).  The code takes no lock, so callers on different     *)
(* threads interleave freely.  The contents of the .dwo files, the unit    *)
(* attributes and what the path builder returns are chosen in Init and     *)
(* never change: they are the world the program runs in.                   *)
(*                                                                         *)
(* Reading a Dwarf after dwarf_end has freed it is undefined behaviour.    *)
(* The model lets such a read act on the stale memory as if it were still  *)
(* there, end the unit iteration, or crash the process.                    *)
(***************************************************************************)
EXTENDS Naturals, Sequences, FiniteSets

CONSTANTS
    Threads,      \* the callers of __libdw_find_split_unit
    CUs,          \* the units of the main Dwarf
    Ids,          \* values of unit_id8
    Files,        \* the .dwo files a path can name
    Contents,     \* what a .dwo file may hold: Missing, Corrupt or its units
    NoPath,       \* __libdw_filepath returned NULL
    Missing,      \* open fails on the file
    Corrupt,      \* dwarf_begin fails on the file
    Unresolved,   \* the value (Dwarf_CU *) -1 of a split field
    NoSplit,      \* the value NULL of a split field
    BaseFds,      \* descriptors already open in the process: 0 .. BaseFds-1
    MaxFds,       \* RLIMIT_NOFILE: descriptors are 0 .. MaxFds-1
    MaxCalls      \* calls each thread makes

UnitTypes == {"skeleton", "compile", "split_compile"}

\* A unit as the scan sees it: its unit_type and its unit_id8.
Unit == [type : UnitTypes, id : Ids]

\* The DW_AT_dwo_name / DW_AT_comp_dir attributes of a unit, and what
\* __libdw_filepath returns without and with the comp_dir.
UnitInfo == [type : {"skeleton", "compile"}, id : Ids,
             dwo_name : BOOLEAN, comp_dir : BOOLEAN,
             plain : Files \cup {NoPath}, in_comp_dir : Files \cup {NoPath}]

Sentinels == {NoPath, Missing, Corrupt, Unresolved, NoSplit}

ASSUME SentinelsAssumption ==
    /\ Sentinels \cap (Files \cup Ids \cup CUs) = {}
    /\ NoPath \notin {Missing, Corrupt, Unresolved, NoSplit}
    /\ Missing \notin {Corrupt, Unresolved, NoSplit}
    /\ Corrupt \notin {Unresolved, NoSplit}
    /\ Unresolved # NoSplit
    /\ \A x \in {Unresolved, NoSplit} : x \notin Nat \X Nat
    /\ Unresolved \notin Unit
ASSUME ContentsAssumption == Contents \subseteq {Missing, Corrupt} \cup Seq(Unit)
ASSUME FdAssumption ==
    /\ BaseFds \in Nat /\ MaxFds \in Nat /\ BaseFds <= MaxFds
    /\ MaxCalls \in Nat

VARIABLES
    unit,         \* [CUs -> UnitInfo], fixed
    file,         \* [Files -> Contents], fixed
    split,        \* cu->split of each unit of the main Dwarf
    dwarfs,       \* the Dwarfs created by dwarf_begin, in creation order
    fds,          \* the open descriptors of the process
    pc,           \* where each caller is in the function
    cu,           \* the argument of each caller's current call
    split_fd,     \* each caller's local split_fd
    split_dwarf,  \* each caller's local split_dwarf (an index into dwarfs)
    pos,          \* each caller's iteration cursor (the local 'split')
    calls,        \* calls made by each caller
    results,      \* the values each unit's calls have returned
    crashed       \* the process died in undefined behaviour

vars == <<unit, file, split, dwarfs, fds, pc, cu, split_fd, split_dwarf,
          pos, calls, results, crashed>>

\* A link to unit i of dwarfs[d] is the pair <<d, i>>.
Link == Nat \X Nat

\* A Dwarf: its units, the descriptor it was begun on, whether dwarf_end
\* freed it, whether ELF_C_FDDONE detached it from the descriptor, and the
\* split field of each of its units.
Dwarf == [units : Seq(Unit), fd : Nat, ended : BOOLEAN, fddone : BOOLEAN,
          back : Seq(CUs \cup {Unresolved})]

PCs == {"idle", "check", "open", "begin", "scan", "test", "fddone",
        "close", "fin", "nullify", "ret"}

\* The pcs at which a caller has split_fd open.
Holding == {"begin", "scan", "test", "fddone", "close"}

\* The pcs at which a caller's next step reads or writes its Dwarf.
Touching == {"scan", "test", "fddone"}

-----------------------------------------------------------------------------
(* Helpers *)

\* Lines 62-71: the path of the .dwo file.  The comp_dir is only tried when
\* the plain path could not be built.
DwoPath(c) ==
    CASE ~unit[c].dwo_name          -> NoPath
      [] unit[c].plain # NoPath     -> unit[c].plain
      [] unit[c].comp_dir           -> unit[c].in_comp_dir
      [] OTHER                      -> NoPath

\* open(2) returns the lowest descriptor that is not open.
FreeFds == (0 .. MaxFds - 1) \ fds
LowestFree == CHOOSE n \in FreeFds : \A m \in FreeFds : n <= m

\* Line 84-85: the unit is the split unit of skeleton c.
Matches(u, c) == u.type = "split_compile" /\ u.id = unit[c].id

Linked(c) == split[c] \in Link

\* What no statement inside a call changes.
Unchanged(t) == UNCHANGED <<unit, file, calls, cu, crashed>>

-----------------------------------------------------------------------------
(* Actions *)

Init ==
    /\ unit \in [CUs -> UnitInfo]
    /\ file \in [Files -> Contents]
    /\ split = [c \in CUs |-> Unresolved]
    /\ dwarfs = << >>
    /\ fds = 0 .. BaseFds - 1
    /\ pc = [t \in Threads |-> "idle"]
    /\ cu \in [Threads -> CUs]
    /\ split_fd = [t \in Threads |-> 0]
    /\ split_dwarf = [t \in Threads |-> 0]
    /\ pos = [t \in Threads |-> 0]
    /\ calls = [t \in Threads |-> 0]
    /\ results = [c \in CUs |-> {}]
    /\ crashed = FALSE

\* Lines 45-47: a caller enters __libdw_find_split_unit (cu).
Call(t) ==
    /\ pc[t] = "idle"
    /\ calls[t] < MaxCalls
    /\ \E c \in CUs : cu' = [cu EXCEPT ![t] = c]
    /\ pc' = [pc EXCEPT ![t] = "check"]
    /\ calls' = [calls EXCEPT ![t] = @ + 1]
    /\ UNCHANGED <<unit, file, split, dwarfs, fds, split_fd, split_dwarf,
                   pos, results, crashed>>

\* Lines 49-51: only try once; a resolved link is returned as it is.
ReturnCached(t) ==
    /\ pc[t] = "check"
    /\ split[cu[t]] # Unresolved
    /\ results' = [results EXCEPT ![cu[t]] = @ \cup {split[cu[t]]}]
    /\ pc' = [pc EXCEPT ![t] = "idle"]
    /\ Unchanged(t)
    /\ UNCHANGED <<split, dwarfs, fds, split_fd, split_dwarf, pos>>

\* Mutant: the "only try once" test of line 50 dropped.
CheckSplitNoOnce(t) ==
    /\ pc[t] = "check"
    /\ pc' = [pc EXCEPT ![t] =
                IF unit[cu[t]].type = "skeleton" /\ DwoPath(cu[t]) # NoPath
                THEN "open" ELSE "fin"]
    /\ Unchanged(t)
    /\ UNCHANGED <<split, dwarfs, fds, split_fd, split_dwarf, pos, results>>

\* Lines 56-72: a skeleton with a dwo name and a buildable path goes on to
\* open the file; anything else goes to the end of the function.
CheckSplit(t) ==
    /\ pc[t] = "check"
    /\ split[cu[t]] = Unresolved
    /\ pc' = [pc EXCEPT ![t] =
                IF unit[cu[t]].type = "skeleton" /\ DwoPath(cu[t]) # NoPath
                THEN "open" ELSE "fin"]
    /\ Unchanged(t)
    /\ UNCHANGED <<split, dwarfs, fds, split_fd, split_dwarf, pos, results>>

\* Lines 74-75: open succeeds and takes the lowest free descriptor.
OpenDwo(t) ==
    /\ pc[t] = "open"
    /\ file[DwoPath(cu[t])] # Missing
    /\ FreeFds # {}
    /\ split_fd' = [split_fd EXCEPT ![t] = LowestFree]
    /\ fds' = fds \cup {LowestFree}
    /\ pc' = [pc EXCEPT ![t] = "begin"]
    /\ Unchanged(t)
    /\ UNCHANGED <<split, dwarfs, split_dwarf, pos, results>>

\* Lines 74-75: open fails (no such file, or EMFILE); nothing to close.
OpenFails(t) ==
    /\ pc[t] = "open"
    /\ file[DwoPath(cu[t])] = Missing \/ FreeFds = {}
    /\ pc' = [pc EXCEPT ![t] = "fin"]
    /\ Unchanged(t)
    /\ UNCHANGED <<split, dwarfs, fds, split_fd, split_dwarf, pos, results>>

\* Lines 77-78: dwarf_begin reads the file into a new Dwarf.
DwarfBegin(t) ==
    /\ pc[t] = "begin"
    /\ file[DwoPath(cu[t])] \in Seq(Unit)
    /\ LET us == file[DwoPath(cu[t])]
       IN dwarfs' = Append(dwarfs,
                      [units |-> us, fd |-> split_fd[t], ended |-> FALSE,
                       fddone |-> FALSE,
                       back |-> [i \in 1 .. Len(us) |-> Unresolved]])
    /\ split_dwarf' = [split_dwarf EXCEPT ![t] = Len(dwarfs) + 1]
    /\ pos' = [pos EXCEPT ![t] = 0]
    /\ pc' = [pc EXCEPT ![t] = "scan"]
    /\ Unchanged(t)
    /\ UNCHANGED <<split, fds, split_fd, results>>

\* Mutant: a failed dwarf_begin returns without closing split_fd.
DwarfBeginFailsNoClose(t) ==
    /\ pc[t] = "begin"
    /\ file[DwoPath(cu[t])] = Corrupt
    /\ pc' = [pc EXCEPT ![t] = "fin"]
    /\ Unchanged(t)
    /\ UNCHANGED <<split, dwarfs, fds, split_fd, split_dwarf, pos, results>>

\* Lines 77-78: dwarf_begin fails; the descriptor is still closed.
DwarfBeginFails(t) ==
    /\ pc[t] = "begin"
    /\ file[DwoPath(cu[t])] = Corrupt
    /\ pc' = [pc EXCEPT ![t] = "close"]
    /\ Unchanged(t)
    /\ UNCHANGED <<split, dwarfs, fds, split_fd, split_dwarf, pos, results>>

\* Mutant: the iteration hands back the same unit again.
GetUnitsNoAdvance(t) ==
    /\ pc[t] = "scan"
    /\ LET d == split_dwarf[t]
       IN IF pos[t] < Len(dwarfs[d].units)
          THEN /\ pos' = [pos EXCEPT ![t] = IF @ = 0 THEN 1 ELSE @]
               /\ pc' = [pc EXCEPT ![t] = "test"]
          ELSE /\ pc' = [pc EXCEPT ![t] = "close"]
               /\ UNCHANGED pos
    /\ Unchanged(t)
    /\ UNCHANGED <<split, dwarfs, fds, split_fd, split_dwarf, results>>

\* Lines 81-82: dwarf_get_units yields the next unit, or ends the loop.  On
\* a freed Dwarf this is the stale-memory outcome.
GetUnits(t) ==
    /\ pc[t] = "scan"
    /\ LET d == split_dwarf[t]
       IN IF pos[t] < Len(dwarfs[d].units)
          THEN /\ pos' = [pos EXCEPT ![t] = @ + 1]
               /\ pc' = [pc EXCEPT ![t] = "test"]
          ELSE /\ pc' = [pc EXCEPT ![t] = "close"]
               /\ UNCHANGED pos
    /\ Unchanged(t)
    /\ UNCHANGED <<split, dwarfs, fds, split_fd, split_dwarf, results>>

\* Lines 81-82 on a freed Dwarf: the garbage read ends the loop.
GetUnitsAfterEnd(t) ==
    /\ pc[t] = "scan"
    /\ dwarfs[split_dwarf[t]].ended
    /\ pc' = [pc EXCEPT ![t] = "close"]
    /\ Unchanged(t)
    /\ UNCHANGED <<split, dwarfs, fds, split_fd, split_dwarf, pos, results>>

\* Lines 81-100 on a freed Dwarf: the access crashes the process.
UseAfterEndCrash(t) ==
    /\ pc[t] \in Touching
    /\ dwarfs[split_dwarf[t]].ended
    /\ crashed' = TRUE
    /\ UNCHANGED <<unit, file, split, dwarfs, fds, pc, cu, split_fd,
                   split_dwarf, pos, calls, results>>

\* Mutant: the unit_type test of line 84 dropped; any unit with the id is
\* taken.
MatchUnitIdOnly(t) ==
    /\ pc[t] = "test"
    /\ LET d == split_dwarf[t]
       IN /\ dwarfs[d].units[pos[t]].id = unit[cu[t]].id
          /\ split' = [split EXCEPT ![cu[t]] = <<d, pos[t]>>]
          /\ dwarfs' = [dwarfs EXCEPT ![d].back[pos[t]] = cu[t]]
    /\ pc' = [pc EXCEPT ![t] = "fddone"]
    /\ Unchanged(t)
    /\ UNCHANGED <<fds, split_fd, split_dwarf, pos, results>>

\* Lines 84-90: the unit is the split unit; link both directions.
MatchUnit(t) ==
    /\ pc[t] = "test"
    /\ LET d == split_dwarf[t]
       IN /\ Matches(dwarfs[d].units[pos[t]], cu[t])
          /\ split' = [split EXCEPT ![cu[t]] = <<d, pos[t]>>]
          /\ dwarfs' = [dwarfs EXCEPT ![d].back[pos[t]] = cu[t]]
    /\ pc' = [pc EXCEPT ![t] = "fddone"]
    /\ Unchanged(t)
    /\ UNCHANGED <<fds, split_fd, split_dwarf, pos, results>>

\* Lines 99-100: not the split unit.  While cu->split is still unresolved
\* the Dwarf is freed by dwarf_end, inside the loop, and the loop goes on.
SkipUnit(t) ==
    /\ pc[t] = "test"
    /\ LET d == split_dwarf[t]
       IN /\ ~Matches(dwarfs[d].units[pos[t]], cu[t])
          /\ dwarfs' = IF split[cu[t]] = Unresolved
                       THEN [dwarfs EXCEPT ![d].ended = TRUE]
                       ELSE dwarfs
    /\ pc' = [pc EXCEPT ![t] = "scan"]
    /\ Unchanged(t)
    /\ UNCHANGED <<split, fds, split_fd, split_dwarf, pos, results>>

\* Mutant: the elf_cntl (ELF_C_FDDONE) call dropped.
ElfFdDoneDropped(t) ==
    /\ pc[t] = "fddone"
    /\ pc' = [pc EXCEPT ![t] = "close"]
    /\ Unchanged(t)
    /\ UNCHANGED <<split, dwarfs, fds, split_fd, split_dwarf, pos, results>>

\* Lines 91-96: elf_cntl (ELF_C_FDDONE) detaches the Elf from split_fd,
\* then the loop breaks.
ElfFdDone(t) ==
    /\ pc[t] = "fddone"
    /\ dwarfs' = [dwarfs EXCEPT ![split_dwarf[t]].fddone = TRUE]
    /\ pc' = [pc EXCEPT ![t] = "close"]
    /\ Unchanged(t)
    /\ UNCHANGED <<split, fds, split_fd, split_dwarf, pos, results>>

\* Lines 102-106: split_fd is always closed.
CloseFd(t) ==
    /\ pc[t] = "close"
    /\ fds' = fds \ {split_fd[t]}
    /\ pc' = [pc EXCEPT ![t] = "fin"]
    /\ Unchanged(t)
    /\ UNCHANGED <<split, dwarfs, split_fd, split_dwarf, pos, results>>

\* Mutant: lines 113-115 dropped; the sentinel is returned as it is.
FinCheckNoNullify(t) ==
    /\ pc[t] = "fin"
    /\ pc' = [pc EXCEPT ![t] = "ret"]
    /\ Unchanged(t)
    /\ UNCHANGED <<split, dwarfs, fds, split_fd, split_dwarf, pos, results>>

\* Mutant: the test of line 114 dropped; cu->split is always set to NULL.
FinCheckAlwaysNullify(t) ==
    /\ pc[t] = "fin"
    /\ pc' = [pc EXCEPT ![t] = "nullify"]
    /\ Unchanged(t)
    /\ UNCHANGED <<split, dwarfs, fds, split_fd, split_dwarf, pos, results>>

\* Line 114: is cu->split still unresolved?
FinCheck(t) ==
    /\ pc[t] = "fin"
    /\ pc' = [pc EXCEPT ![t] =
                IF split[cu[t]] = Unresolved THEN "nullify" ELSE "ret"]
    /\ Unchanged(t)
    /\ UNCHANGED <<split, dwarfs, fds, split_fd, split_dwarf, pos, results>>

\* Line 115: if we found nothing, make sure we don't try again.
Nullify(t) ==
    /\ pc[t] = "nullify"
    /\ split' = [split EXCEPT ![cu[t]] = NoSplit]
    /\ pc' = [pc EXCEPT ![t] = "ret"]
    /\ Unchanged(t)
    /\ UNCHANGED <<dwarfs, fds, split_fd, split_dwarf, pos, results>>

\* Line 117: return cu->split.
ReturnSplit(t) ==
    /\ pc[t] = "ret"
    /\ results' = [results EXCEPT ![cu[t]] = @ \cup {split[cu[t]]}]
    /\ pc' = [pc EXCEPT ![t] = "idle"]
    /\ Unchanged(t)
    /\ UNCHANGED <<split, dwarfs, fds, split_fd, split_dwarf, pos>>

\* One statement of a call in progress.
Step(t) ==
    \/ ReturnCached(t) \/ CheckSplit(t)
    \/ OpenDwo(t) \/ OpenFails(t)
    \/ DwarfBegin(t) \/ DwarfBeginFails(t)
    \/ GetUnits(t) \/ GetUnitsAfterEnd(t) \/ UseAfterEndCrash(t)
    \/ MatchUnit(t) \/ SkipUnit(t) \/ ElfFdDone(t)
    \/ CloseFd(t) \/ FinCheck(t) \/ Nullify(t) \/ ReturnSplit(t)

Next == ~crashed /\ \E t \in Threads : Call(t) \/ Step(t)

\* The scheduler keeps running a thread that is inside a call: nothing in
\* the function blocks except local file I/O.
Spec == Init /\ [][Next]_vars /\ \A t \in Threads : WF_vars(~crashed /\ Step(t))

-----------------------------------------------------------------------------
(* Properties *)

\* The type invariant.  A returned value is NULL or a split unit, never the
\* (Dwarf_CU *) -1 sentinel of lines 50 and 114.
TypeOK ==
    /\ unit \in [CUs -> UnitInfo]
    /\ file \in [Files -> Contents]
    /\ split \in [CUs -> {Unresolved, NoSplit} \cup Link]
    /\ dwarfs \in Seq(Dwarf)
    /\ fds \subseteq Nat
    /\ pc \in [Threads -> PCs]
    /\ cu \in [Threads -> CUs]
    /\ split_fd \in [Threads -> Nat]
    /\ split_dwarf \in [Threads -> Nat]
    /\ pos \in [Threads -> Nat]
    /\ calls \in [Threads -> Nat]
    /\ results \in [CUs -> SUBSET ({NoSplit} \cup Link)]
    /\ crashed \in BOOLEAN

\* Descriptor hygiene (lines 74-106): the open descriptors are exactly the
\* ones the process had before and one split_fd per caller between its
\* open and its close, whatever path the call took (open, dwarf_begin or
\* the scan failing, a match, no match).  In particular no descriptor is
\* left open once every call has returned.
FdHygiene ==
    fds = (0 .. BaseFds - 1) \cup {split_fd[t] : t \in {s \in Threads : pc[s] \in Holding}}

\* The skeleton/split link (lines 84-89) is symmetric and correct: a
\* skeleton linked to unit i of a Dwarf is that unit's link back, unit i
\* is a split_compile unit with the skeleton's unit_id8 and no earlier
\* unit of the file is one; and every link back from a split unit is
\* matched by the skeleton's link.
LinkSymmetric ==
    /\ \A c \in CUs : Linked(c) =>
          LET d == split[c][1]
              i == split[c][2]
          IN /\ d \in 1 .. Len(dwarfs)
             /\ i \in 1 .. Len(dwarfs[d].units)
             /\ dwarfs[d].back[i] = c
             /\ Matches(dwarfs[d].units[i], c)
             /\ \A j \in 1 .. i - 1 : ~Matches(dwarfs[d].units[j], c)
    /\ \A d \in 1 .. Len(dwarfs) : \A i \in DOMAIN dwarfs[d].back :
          dwarfs[d].back[i] \in CUs => split[dwarfs[d].back[i]] = <<d, i>>

\* The Dwarf that holds a linked split unit is kept for later lookups, so
\* it must not be left reading a closed descriptor (lines 91-95): once its
\* split_fd is closed, ELF_C_FDDONE has detached it.
LinkedDwarfDetached ==
    \A c \in CUs : Linked(c) =>
        \/ dwarfs[split[c][1]].fddone
        \/ \E t \in Threads : pc[t] \in Holding /\ split_dwarf[t] = split[c][1]

\* Idempotence (line 50): all the calls for one unit return the same value.
ResultsConsistent ==
    \A c \in CUs : \A r1, r2 \in results[c] : r1 = r2

\* Only try once (lines 49-51, 113-115): once cu->split is resolved no step
\* changes it.
ResolveOnce ==
    [][\A c \in CUs : split[c] # Unresolved => split'[c] = split[c]]_vars

\* Every call returns, unless the process died: the scan of a .dwo file is
\* finite and nothing in the function waits.
CallsReturn ==
    \A t \in Threads : pc[t] # "idle" ~> (pc[t] = "idle" \/ crashed)

\* No caller's next step reads or frees a Dwarf that dwarf_end has already
\* freed (lines 81-100).
NoUseAfterEnd ==
    \A t \in Threads : pc[t] \in Touching => ~dwarfs[split_dwarf[t]].ended

\* A Dwarf that no caller is working on is either freed or holds the
\* linked split unit: a scan that finds nothing discards what it opened
\* (lines 99-100).
NoOrphanDwarf ==
    \A d \in 1 .. Len(dwarfs) :
        ( /\ ~dwarfs[d].ended
          /\ \A t \in Threads : ~(pc[t] \in Touching \cup {"close"} /\ split_dwarf[t] = d) )
        => \E i \in DOMAIN dwarfs[d].back : dwarfs[d].back[i] \in CUs

\* A caller that reads its Dwarf reads inside it: split_dwarf names a Dwarf
\* that exists, the cursor of a unit test names one of its units, and each
\* Dwarf has a split field per unit.  A caller about to return has resolved
\* cu->split.
Shape ==
    /\ \A d \in 1 .. Len(dwarfs) :
          DOMAIN dwarfs[d].back = DOMAIN dwarfs[d].units
    /\ \A t \in Threads : pc[t] \in Touching => split_dwarf[t] \in 1 .. Len(dwarfs)
    /\ \A t \in Threads : pc[t] = "test" =>
          pos[t] \in 1 .. Len(dwarfs[split_dwarf[t]].units)
    /\ \A t \in Threads : pc[t] = "ret" => split[cu[t]] # Unresolved

\* Every split_fd held by a caller is above the descriptors the process
\* already had, and no two callers hold the same one.
FdDistinct ==
    \A t, s \in Threads :
        /\ pc[t] \in Holding => split_fd[t] >= BaseFds
        /\ (t # s /\ pc[t] \in Holding /\ pc[s] \in Holding)
              => split_fd[t] # split_fd[s]

\* The inductive invariant behind TypeOK and FdHygiene.
IInv == TypeOK /\ Shape /\ FdHygiene /\ FdDistinct


-----------------------------------------------------------------------------
(* Refinement of SplitLink *)

\* A link <<d, i>> stands for the unit it points to; NULL and the sentinel
\* stand for themselves.
AbsVal(v) == IF v \in Link THEN dwarfs[v[1]].units[v[2]] ELSE v

AbsSplit == [c \in CUs |-> AbsVal(split[c])]

AbsResults == [c \in CUs |-> {AbsVal(v) : v \in results[c]}]

Abs == INSTANCE SplitLink WITH split <- AbsSplit, results <- AbsResults

\* __libdw_find_split_unit implements the resolver of spec 3 and 4.1: a
\* unit's cu->split is set once (line 88 or line 115), to NULL or to a
\* split_compile unit with the skeleton's unit_id8, never changed after,
\* and every call (line 51 or line 117) returns the link as resolved.
AbsSpec == Abs!Spec

=============================================================================
