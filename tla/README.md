# Formal models of elfutils' split-unit resolution, location printing and macro walking

This directory holds TLA+ models of three files of the repository, the TLC
configurations that check them on small instances, and TLAPS proofs:

| Source | What it does | Modules |
|---|---|---|
| `src/libdw/libdw_find_split_unit.c` | `__libdw_find_split_unit`: links a skeleton unit to its split unit in a `.dwo` file, once, memoised in `cu->split` | `SplitUnit`, `SplitUnit_proofs`, `SplitUnit_links`, `SplitUnit_refinement`, `MC_SplitUnit`; abstract spec `SplitLink` |
| `src/tests/varlocs.c` | `print_expr`, `print_expr_block`, `print_base_type`: the recursive printer of DWARF location expressions | `LocExpr`, `LocExprRef`, `MC_LocExpr` |
| `src/tests/varlocs.c` | lines 838-868 of `print_varlocs`: the walk over a variable's location list and its sanity check | `LocList`, `MC_LocList` |
| (libdw, outside `src/`) | `dwarf_getlocation_addr`, from spec 4.2 | `LocLookup` |
| `src/tests/dwarf-getmacros.c` | the macro walker test: `main`, `getmacros`, `include`, `mac` | `GetMacros`, `MC_GetMacros` |

`PROJECT.json` lists the components, the runs, the mutants, the map from every
definition to the source lines it models, the findings, the hazards and the
theorems.

## The system

The spec (`spec.md`) names three core parts and four external ones.

- **Split-Unit Resolver**. This is `__libdw_find_split_unit`.
  - The first call for a skeleton unit builds the `.dwo` path from
    `DW_AT_dwo_name` and, if needed, `DW_AT_comp_dir`.
  - It then opens the file, runs `dwarf_begin` on it and scans its units
    with `dwarf_get_units`.
  - On the first `split_compile` unit whose `unit_id8` equals the skeleton's,
    it links the two units both ways and detaches the Elf from the
    descriptor (`ELF_C_FDDONE`).
  - It always closes the descriptor.
  - If nothing was found it stores NULL, so that later calls return at
    line 50.
- **Location Expression Evaluator**. This is `print_expr` in `varlocs.c`, a
  switch over roughly sixty opcodes. Several opcodes print another
  expression through `print_expr_block` at depth + 1:
  - `DW_OP_call*` prints the called DIE's location;
  - `DW_OP_entry_value` prints its sub-expression;
  - `DW_OP_call_frame_cfa` prints the frame's CFA expression from CFI, with
    a NULL attribute;
  - `DW_OP_implicit_pointer` and `DW_OP_GNU_variable_value` print the
    location of the referenced DIE at the current address.

  The depth is capped at `MAX_DEPTH` (64). Errors exit the program.
- **Location List Resolver**. This is `dwarf_getlocation_addr` (and the
  base-address rule `dwarf_getlocations` shares with it), which is libdw
  code outside `src/`. `LocLookup` models it from the spec: base-address
  entries, half-open ranges, and the count of covering entries. `LocExpr`
  and `LocList` both extend it, so the printer and the sanity check ask the
  same resolver.
- **The macro test** `dwarf-getmacros.c` is outside the spec's scope. It
  walks the macro tables of every unit (or of one named unit), following
  `DW_MACRO_import` into nested walks, and indents its output by a static
  counter.
- **External collaborators**: the Debug-Info Accessor, the Debug File
  Locator, the Frame Resolver and the Container. Their answers are inputs of
  the models (the attributes of a unit, the contents of a file, the fields
  of an op record, the CFI flags). They are not state machines of their own.

The evaluator consults split units through libdw's lookups. The two models
meet only at those lookups, which `LocExpr` treats as answers (`ok`, `agree`),
so the models are not composed.

## SplitUnit: the resolver with concurrent callers

**State.**
- `unit` and `file` describe the world, chosen in `Init` and fixed: the
  attributes of each unit, and the contents of each `.dwo` file (`Missing`,
  `Corrupt`, or a sequence of units).
- `split` is `cu->split`: `Unresolved` for `(Dwarf_CU *)-1`, `NoSplit` for
  NULL, or a link `<<d, i>>` to unit `i` of Dwarf `d`.
- `dwarfs` holds every Dwarf created by `dwarf_begin`. Each records:
  - its units;
  - the descriptor it was begun on;
  - whether `dwarf_end` freed it (`ended`);
  - whether `ELF_C_FDDONE` detached it (`fddone`);
  - the `split` field of each of its units (`back`).
- `fds` is the process's descriptor table.
- Each caller thread has:
  - a program counter `pc`;
  - its argument `cu`;
  - its locals `split_fd` and `split_dwarf`;
  - `pos`, the cursor of the local `split` in the scan.
- `results` collects what the calls for each unit returned.
- `crashed` records a crash.

**Actions.** Each action is one statement of the function that touches shared
state:

| Action | Lines |
|---|---|
| `Call` | 45-47 |
| `ReturnCached` | 50-51 |
| `CheckSplit` | 56-72 |
| `OpenDwo` / `OpenFails` | 74-75 |
| `DwarfBegin` / `DwarfBeginFails` | 77-78 |
| `GetUnits` | 81 |
| `MatchUnit` | 84-90 |
| `SkipUnit` | 99-100 |
| `ElfFdDone` | 95 |
| `CloseFd` | 106 |
| `FinCheck` | 114 |
| `Nullify` | 115 |
| `ReturnSplit` | 117 |

`open` takes the lowest free descriptor and fails with EMFILE when none is
free.

The code takes no lock, so the threads interleave freely at statement
boundaries. `SkipUnit` frees the Dwarf inside the loop, and the next
`dwarf_get_units` then reads freed memory. That read is undefined behaviour,
so the model offers each outcome a build can produce:
- act on the stale contents (`GetUnits`);
- end the scan (`GetUnitsAfterEnd`);
- crash (`UseAfterEndCrash`).

**Fairness.** There is weak fairness on each thread's steps inside a call.
The function never waits except on local file I/O (spec 5), so a thread that
is inside a call keeps being scheduled. No fairness applies to `Call`,
because callers may stop calling.

**Runs** (`MC_SplitUnit`). The instance has one skeleton unit, two ids and two
`.dwo` files. Each file's contents range over eight shapes:
- missing;
- corrupt;
- no unit;
- a matching split unit;
- a non-split unit with the same id;
- a mismatch before the match;
- the match before a mismatch;
- two matches.

Paths cover every combination of `dwo_name`/`comp_dir`/path-builder result.

| Run | Instance | Checks |
|---|---|---|
| `split_seq` (pass) | one thread making two calls | `TypeOK`, `FdHygiene`, `LinkSymmetric`, `LinkedDwarfDetached`, `ResultsConsistent`, `ResolveOnce` (an action property), `CallsReturn` (liveness) |
| `split_refine` (pass) | one thread making two calls | `AbsSpec`: the refinement of `SplitLink` |
| `split_conc` (pass) | two threads, one call each; the table has one free descriptor, so one open can meet EMFILE while the other holds its descriptor | the inductive invariant `IInv`, `LinkedDwarfDetached`, `CallsReturn` |
| `split_uaf` (violation) | | `NoUseAfterEnd` |
| `split_orphan` (violation) | | `NoOrphanDwarf` |
| `split_race` (violation) | | `ResultsConsistent` under two threads |

What the three violation runs show:
- **`split_uaf`**: a file whose first unit does not match makes line 100
  free the Dwarf, and line 81 reads it next. This is a use after free in
  the code.
- **`split_orphan`**: a file with no units, or a scan ended by a garbage
  read, leaves a Dwarf that is neither freed nor linked. This is a leak.
- **`split_race`**: two unsynchronised callers of the same skeleton both
  pass line 50 while it is unresolved, and both open and scan the .dwo
  file. The first links the skeleton to the unit of its Dwarf and returns
  it. The second then overwrites `cu->split` at lines 88-89 with the equal
  unit of its own Dwarf. Every later call returns that second link from
  the cache, so the calls for one skeleton return two different split
  units. The first Dwarf stays open but unlinked. Spec 5 requires
  exclusive access during resolution, and the code provides none.

The bounds are small, but each property needs only one skeleton. Two files
and eight contents give every order of match and mismatch, and two threads
with one descriptor slot give every race on `cu->split` and on the table.

## SplitLink: what the resolver promises, and the refinement

`SplitLink` is the resolver with no files, descriptors or scans, written from
spec 3, 4.1 and 8. Each unit's link starts `Unresolved`. `Resolve(c)` sets it
once, to `NoSplit` or to one of its `Candidates`: a `split_compile` unit with
the skeleton's id, and only for a skeleton. `Return(c)` adds the resolved link
to what the calls for `c` have returned. A link never changes after it is
set.

`SplitUnit` defines the refinement mapping:
- `AbsVal` maps a link `<<d, i>>` to the unit record `dwarfs[d].units[i]`;
  the sentinels map to themselves;
- `AbsSplit` and `AbsResults` apply it to `split` and `results`;
- `Abs == INSTANCE SplitLink WITH split <- AbsSplit, results <- AbsResults`,
  and `AbsSpec == Abs!Spec`.

`MatchUnit` (line 88) is `Resolve` to the matched unit, `Nullify` (line 115)
is `Resolve` to NULL, and `ReturnCached`/`ReturnSplit` (lines 51, 117) are
`Return`. Every other step is a stutter of `SplitLink`: it touches no link
and no result, and it keeps the units of every existing Dwarf.

This holds only for one caller. With two, one caller's `Nullify` can
overwrite the other's link, which is the `split_race` finding. The run
`split_refine` checks `AbsSpec` for one caller making two calls, on the
`split_seq` instance. The theorem `SingleCallerRefinement` proves it for any
units and files.

## LocExpr: the expression printer

**State.**
- `env` holds the globals of `varlocs`:
  - whether some CFI table was found;
  - `is_debug`;
  - `is_ET_REL`;
  - `has_frame_base`;
  - the expression printed at top level, and its address.
- `stack` is the active `print_expr_block` calls. Each frame holds:
  - the block;
  - the index of the next opcode;
  - whether the attribute is non-NULL (it is NULL in CFI);
  - the address;
  - the depth.
- `status` is `running`, `ok`, `error` or `overflow`.

**Opcodes.** An opcode is a record. Its `atom` is one of the classes of the
switch. The other fields are the answers of the libdw lookups the case makes:
- `ok`: the lookup succeeded;
- `agree`: the two derivations of a value agree (the asserts of lines 413-419,
  444-448, 580, ...);
- `base`: what `print_base_type` finds;
- `const`: the referenced attribute is a constant;
- `list`: the referenced location list;
- `frame`: a CFI frame exists at the address;
- `ref`: the block a nested print uses.

Operand values and the stack-arithmetic opcodes are abstracted to "prints
and goes on" (`PrintPlain`). No property tells them apart, and they contain
no control flow.

**Actions.**
- There is one action per case of the switch.
- `DepthExceeded` is the guard of line 196.
- `Descend` pushes a frame for a nested `print_expr_block` at depth + 1.
- `BlockEnd` pops a frame; popping the last frame ends the run with `ok`.
- `Fail` models `error (EXIT_FAILURE, ...)` and the failing asserts.

**Fairness.** The program is single-threaded and nothing waits, so
`WF_vars(Next)` applies.

**Assumptions.** `LocExprAssumption` types the constants. `RefAssumption`
says that an opcode of a referring class (`call`, `entry_value`,
`call_frame_cfa`, the set `Referring`) whose lookup succeeded refers to a
block, and that every `range` entry of a location list holds one. In the
code, a successful `dwarf_getlocation`, `dwarf_frame_cfa` or
`dwarf_getlocation_addr` fills in an operation array (lines 347-352,
531-538, 274-285, 462-470), so a nested `print_expr_block` always gets an
expression. Opcodes whose lookup failed may carry `NoBlock`, and they do
in the runs.

**Reference.** `LocExprRef` defines `RefFrom`, a recursive definition of when
an expression prints without error. It is written from spec 4.3, 7 and 8:
- depth 64 succeeds and depth 65 fails;
- attribute-relative opcodes fail in CFI;
- CFA without a frame gives the placeholder in relaxed mode;
- overlapping ranges and cross-check mismatches are errors;
- a base type needs an encoding and a size;
- a `const_type` constant must fit its type.

The recursion is well founded because of the depth cap. `SpecAgreement` says
that a finished run succeeded exactly when `RefFrom` holds.

**Runs** (`MC_LocExpr`). The expression table contains:
- a chain of 66 blocks, each calling the next, which reaches depth 64 and
  depth 65;
- a self call;
- an entry-value loop;
- CFA with and without a frame, and CFA inside CFA;
- implicit pointers and variable values whose location lists have gaps,
  boundaries, base entries and overlaps;
- every failing lookup of every case.

Addresses are 0..3, which covers each side of every range boundary. The
environments range over all settings of the CFI, `--debug`, ET_REL and
frame-base flags.

| Run | Checks | Result |
|---|---|---|
| `locexpr_pass` (pass) | `TypeOK`, `StackBounded` (at most MaxDepth + 2 frames), `SpecAgreement`, `Terminates` (liveness), `Progress` (action property: each step that does not end the run lowers the work left, lexicographically) | passes, about 26,000 states, with `MaxDepth` at its real value of 64 |
| `locexpr_consttype` (violation) | `SpecAgreement` | `DW_OP_const_type` with a block shorter than its base type prints successfully. The code (line 660) prints the length and never compares it. |
| `locexpr_relaxed` (violation) | `SpecAgreement` | `DW_OP_call_frame_cfa` in an ET_REL file with no CFI table exits at line 271. Spec 8 wants the placeholder, which the code prints only at line 289, when some table exists. |

## LocList: the location-list walk and its sanity check

`LocList` models lines 838-868 of `print_varlocs`, which run for a variable
whose `DW_AT_location` is a list.

**State.**
- `list` is the list: a sequence of base, range and malformed entries.
- `off` is the index of the last entry `dwarf_getlocations` returned.
- `pc` is `walk`, `done`, `error` or `abort`.

**Actions.** Each call of `dwarf_getlocations` returns the next entry that is
not a base entry (`NextEntry`), with the base applied (`Begin`, `End`):
- `EmptyRange` (lines 844-846): `begin >= end` is printed as empty.
- `CheckedRange` (lines 847-864): the expression is printed, then
  `dwarf_getlocation_addr` is asked at `begin` and at `end - 1`. An answer
  other than 1 fails the assert (`abort`).
- `BadEntry` (lines 866-868): a malformed entry; the program exits.
- `ListEnd`: the list is done.

The expression itself is `LocExpr`'s business, so here an entry is only its
kind and its bounds.

`LocListAssumption` says that lists are sequences of entries and that
addresses and the CU base are naturals. In the code they are `Dwarf_Addr`
values, unsigned, and the base comes from the CU's `DW_AT_low_pc`.

**Property.** `SanityCheckExact`: the walk completes only on lists with no two
overlapping non-empty ranges, and the asserts fire only on lists that have
two. The check probes just two addresses of each range; the property says
that is enough. The argument is that of two overlapping ranges, one begins
inside the other. The same argument shows that the `end - 1` probe never
decides the outcome on its own. It would only matter if `dwarf_getlocations`
and `dwarf_getlocation_addr` disagreed on bases, and in this model they
share `BaseAt`.

**Run** `loclist_check` (`MC_LocList`): every list of at most three entries.
Entries are base entries at 0 and 2, ranges with bounds in 0..3 (empty,
reversed, adjacent, nested and overlapping), and a malformed entry, with the
unit base at 1. That is 7,240 lists and about 28,000 states. Three entries
are enough for a base entry between two ranges and for overlaps in both
orders.

## GetMacros: the macro walker

`mac` returns `DWARF_CB_ABORT` after every opcode, so each
`dwarf_getmacros[_off]` call delivers one opcode and returns a token for the
next. A `DW_MACRO_import` runs `include`, a whole nested loop, inside the
caller's call.

**State.**
- `tables` is the file's macro tables, an input fixed in `Init`.
- `mode` and `cus` come from the command line: all units, or one named
  unit.
- `stack` is the nested table walks, each at the position its token names.
- `level` is the static counter of `mac` (line 36), shared by all units.
- `pc` is `units`, `macros`, or one of the ends: `done`, `exit1` (no DIE at
  the named offset), `crash`, `overflow`.

**Actions.**
- `UnitStart`, `UnitNoMacros`, `UnitNoDie` and `UnitsDone` model `main`.
- `Import` pushes a walk and raises `level`. `ImportOverflow` is that push
  with the stack full: the C recursion has no cycle check.
- `TableEnd` (token 0) and `BadOp` (token -1, printed, break) pop a walk
  through `Leave`. For an import, `Leave` restores `level` (line 55).
- `StartFile` raises `level`, and `EndFile` lowers it.
- `StartFile` with failed `dwarf_macro_getsrcfiles` reads the uninitialised
  `files` (line 71). That is undefined behaviour, so the model either
  crashes or goes on.
- `Plain` covers defines, undefs and other opcodes.

**Fairness.** The program is single-threaded and never waits, so
`WF_vars(Next)`.

**Property.** `Finishes`: if the imports of the file form no cycle
(`IsDag(ImportGraph)`, from the community `Graphs` module), every run ends,
and ends without overflowing the stack. This needs three things of the code:
each loop breaks on -1, each resumes at the token it was given, and each
import enters a table lower in the import order.

**Run** `getmacros` (`MC_GetMacros`). The inputs are:
- three files of three tables each: an import chain, a two-table cycle with
  a self-import, and failing tables;
- five command lines.

The stack holds three walks, as many as the longest acyclic chain needs, so
an overflow can only come from a cycle. Every action fires, the overflow and
the crash included.

What the model shows but no property claims: a table that fails after a
`start_file` leaves `level` raised. Because `level` is static, every later
line is mis-indented, in the next unit too. Nothing states the expected
output after an error.

## Mutants

Each property of each passing run is broken by a mutant defined in the
module next to the code it changes:
- the memo test dropped;
- a failed `dwarf_begin` that does not close the descriptor;
- `dwarf_get_units` not advancing;
- matching on the id only;
- `ELF_C_FDDONE` dropped;
- the NULL fallback dropped, or made unconditional;
- the depth guard at `>=`;
- the nested depth not incremented;
- the opcode loop not advancing;
- the caller's cursor left on the referring opcode after a nested call;
- the `dwarf_getlocation` result ignored;
- the sanity check probing `end` instead of `end - 1`;
- the macro loop not breaking on -1.

`AbsSpec` is broken by matching on the id only: the linked unit is then
not a candidate of `SplitLink`.

TLC finds each one under the run's own configuration.

## Proofs

`SplitUnit_proofs` proves the following for all values of the constants.
The assumptions are that the sentinels are distinct from each other and from
real values, that file contents are `Missing`, `Corrupt` or unit sequences,
and that `BaseFds <= MaxFds` are naturals:

- `InvariantHolds`: `Spec => []IInv`;
- `TypeCorrect`: `Spec => []TypeOK` (so no call ever returns the
  `(Dwarf_CU *)-1` sentinel);
- `DescriptorHygiene`: `Spec => []FdHygiene`, however many threads
  interleave.

`TypeOK` and `FdHygiene` are not inductive on their own. `IInv` adds two
conjuncts:
- `Shape`: a thread that reads its Dwarf reads one that exists, at a unit
  index inside it; each Dwarf has one `back` field per unit; a thread about
  to return has resolved `cu->split`.
- `FdDistinct`: the descriptors held by threads lie above the baseline and
  are pairwise distinct. Without this, `CloseFd` of one thread could remove
  another thread's descriptor from `fds`.

`split_conc` checks `IInv` with TLC. The proof shows `Init => IInv`, then one
lemma per action for `IInv /\ A(t) => IInv'`, split into the conjuncts the
action can disturb, then combines them by PTL. Helper lemmas cover:
- updates of a record inside a sequence (`DwarfUpdate`, `DwarfLinkBack`,
  `SeqUpdate`);
- `LowestFree` being free.

`SplitUnit_refinement` proves `SingleCallerRefinement`: with
`Threads = {t0}`, `Spec => AbsSpec`. It rests on `RInv`, which is `IInv` and
three more conjuncts:
- `LinkOK`: a link names a unit of an existing Dwarf, and that unit is a
  candidate of the skeleton. `MatchUnit` keeps it because of the match
  test of lines 84-85. Every other step keeps it because Dwarfs are only
  appended and their units never change.
- `ResultsOK`: a unit's calls have returned only its current link. This is
  why a `Return` adds nothing new.
- `Solo`: from the check of line 50 up to `MatchUnit` or `Nullify`, the
  caller's unit is still unresolved, and from line 56 on it is a skeleton.
  It is what makes `MatchUnit` and `Nullify` `Resolve` steps, since
  `Resolve` needs an unresolved link. It needs the single caller: with a
  second caller it is false, and so is the refinement.

One lemma per action shows `RInv /\ A(t) => RInv' /\ [Abs!Next]`. For
`MatchUnit` this includes the pointwise equality of the mapped `split`
function. `StepR` combines them, and PTL gives the theorem.

`SplitUnit_links` proves `LinkDetachment`: `Spec => []LinkedDwarfDetached`,
for any number of callers. `LinkedDwarfDetached` is not inductive. It allows
any caller that holds a descriptor to stand for the link, and that caller
can close its descriptor without detaching anything. The strengthening
`LinkInv` names the caller that made the link:
- `LinkIn`: a link points into `dwarfs`.
- `Detach`: the linked Dwarf has `fddone` set, or some caller is at line 95
  (`pc = "fddone"`) with that Dwarf.

`MatchUnit` makes a link and puts its caller at line 95 with the linked
Dwarf. `ElfFdDone` is the only step that moves a caller off line 95, and it
sets `fddone` on that caller's Dwarf as it does. Every other step keeps both
conjuncts:
- `fddone` is never cleared: `SkipUnit` only sets `ended`, and `DwarfBegin`
  only appends.
- `Nullify` only removes a link.

The generic part of this argument is the lemma `DetachFrame`. One lemma per
action and `StepLinks` cover the rest, and `IInv` supplies the facts about
`split_dwarf` that they need.

`SplitUnit_solo` proves three theorems. Each holds with a single caller
(`Threads = {t0}`), for any units, files and descriptor limits:
- `SoloLinkSymmetric`: `Spec => []LinkSymmetric`;
- `SoloResultsConsistent`: `Spec => []ResultsConsistent`;
- `SoloResolveOnce`: `Spec => ResolveOnce`, an action property.

With two callers all three fail: `split_race` shows it for
`ResultsConsistent`. `ResultsConsistent` follows from `ResultsOK` in `RInv`.
`ResolveOnce` follows because under `RInv` the only steps that write
`split` (`MatchUnit`, `Nullify`) find it unresolved.

`LinkSymmetric` is not inductive. `MatchUnit` sets both the skeleton's
`split` and a `back` field of the Dwarf being scanned. The first conjunct
needs to know that no earlier unit of that Dwarf matched. The second
needs to know that no other `back` field of that Dwarf is set. The
strengthening `SymInv` is `RInv /\ LinkSymmetric /\ Scanned`, where
`Scanned` says:
- while a caller scans its Dwarf, no `back` field of it is set;
- the cursor `pos` is inside the Dwarf;
- no unit before the cursor matches the skeleton.

TLC checked `SymInv` on two units with `MaxCalls = 2` (about 42 million
states). The proof uses `LinkParts`, the frame condition of the steps that
touch neither link: units and `back` fields of existing Dwarfs are kept,
and new Dwarfs have no `back` field set. It has one lemma per action.

`LocExpr_proofs` proves two theorems. Each holds for every expression
graph, cyclic ones included, every set of flags, every `MaxDepth` and every
bound on the process stack:
- `LocExprTypeOK`: `Spec => []TypeOK`;
- `LocExprStackBounded`: `Spec => []StackBounded`, so at most
  `MaxDepth + 2` `print_expr_block` calls are ever active.

The strengthening is `LInv == TypeOK /\ DepthInv`. `DepthInv` says two
things:
- frame `k` has depth `k - 1`;
- every frame below the top has passed the guard of line 196
  (`depth <= MaxDepth`).

`Descend` pushes only from a frame that passed the guard, so the new
next-to-top frame satisfies the bound. `StackBounded` follows from it for
frame `Len(stack) - 1`.

`TypeOK` needs `RefAssumption`: a nested frame's block must be a block.
For the referring opcodes this is `TopFacts`. For implicit pointers and
variable values it is `LocatedBlock`: a lookup that finds exactly one
covering entry (`Locs = 1`) has a non-empty `Covering` set, and a range
entry of it names a block.

Effect lemmas cover the four ways a step changes the stack: `DoneStep`,
`DescendStep`, `FailStep` and `BlockEndStep`. The opcode lemmas are grouped by
the effect the opcodes have.

The third theorem, `LocExprProgress`: `Spec => Progress`, is the safety half
of `Terminates`. `ToPrint` lists, for each active `print_expr_block` call,
how many opcodes it still has to print. Every step that leaves the run going
lowers `ToPrint` in the lexicographic order `LexBelow`:
- printing an opcode lowers the top entry;
- a nested call lowers the caller's entry, since its cursor moves past the
  referring opcode, and appends one entry;
- the end of a nested block drops the top entry, which leaves a proper
  prefix.

Each effect lemma proves `StepOK == LInv' /\ Dec`, where `Dec` is that
decrease. `StackBounded` bounds the length of `ToPrint` by `MaxDepth + 2`.
The lexicographic order on sequences of at most that length, over naturals,
is well-founded, so no run goes on for ever. That last step is induction
over data, and the provers cannot do it, so `Terminates` itself stays with
TLC. The mutant `DescendNoAdvance` leaves the caller's cursor on the
referring opcode and breaks `Progress`.

`LocList_proofs` proves `LocListSanityCheckExact`: `Spec =>
[]SanityCheckExact`, for every list, every set of addresses and every CU
base. The strengthening `SInv` adds three things:
- `Checked`: in `walk` and `done`, every non-empty range up to the cursor
  is found exactly once at its own `begin` (`Locs = 1`);
- `done` means no range is pending;
- `abort` means `Overlap`.

`CheckedRange` preserves `Checked` when both probes answer 1. It aborts
only when a probe inside a non-empty range does not find exactly one
location (`ProbeOverlap`). The range itself covers the probe, so another
range does too, and the two overlap. The converse is
`NoOverlap`: when the walk ends, take two overlapping ranges, pick the one
with the larger `begin` (`MaxExists`, `MinExists`, from `WFMin` of
`WellFoundedInduction`), and that `begin` lies in both ranges. So its
probe would have answered 2, which `Checked` rules out.

**Only model-checked**:
- the liveness properties (`CallsReturn`, `Terminates`), since TLAPS does not
  handle ENABLED or fairness;
- `LinkSymmetric`, `ResultsConsistent` and `ResolveOnce` with several
  callers. There they are not claimed: `split_seq` checks them on a single
  caller, and `split_race` breaks `ResultsConsistent` with two;
- `SpecAgreement` of `LocExpr`. It compares the run with `RefFrom`, a
  RECURSIVE reference, and a proof module cannot reach RECURSIVE
  definitions. What `RefFrom` computes would also need induction over the
  expression graph, which the provers cannot instantiate;
- `Terminates` beyond `Progress`: the well-foundedness of the
  lexicographic order is induction over data;
- `Finishes`, which is liveness and rests on the recursive `ConnectionsIn`
  of `Graphs`.

## Not modelled

- The DIE traversal of `varlocs.c` (`handle_attr`, `handle_die`,
  `handle_function`, `print_varlocs` outside the list walk, `main`: lines
  707-837 and 869-1166). It picks DIEs and calls the two modelled parts,
  and has no state of its own apart from the frame-base flag, which
  `LocExpr` takes as input. A model of it would be a loop over an input
  tree.
- The single-expression branch of `print_varlocs` (lines 806-836). It
  calls `dwarf_ranges` and prints, and has no check of its own.
- The external collaborators, which enter only as inputs.
- libdw itself: only `libdw_find_split_unit.c` is in the repository. The
  map covers that function whole (lines 45-117). The rest of the file is
  the licence and the includes.

## Plan

1. A refinement of `LocExpr` onto a non-recursive reference, so that part
   of `SpecAgreement` can be proved.
2. A safety property for `GetMacros` stating what the indentation should be
   after a failed table, if the test's expected output is ever pinned down.
