# A verification of mold in TLA+

mold is a linker: it reads object files, archives and shared libraries, decides
which definition every symbol name stands for, throws away what nobody needs,
folds and merges what is equal, gives everything an address and writes the
result. Nearly every pass is a parallel loop over files or sections, and the
threads meet in lock-free data structures. The output must not depend on how
they are scheduled.

The modules here model the passes where that is hardest to get right. They are
checked with TLC on small instances; what matters most is proved with TLAPS for
every value of the constants. `PROJECT.json` lists the components, the lines
each definition stands for, the runs, the mutants each property is tested with,
the hazards and the theorems.

## The system

A link runs through these parts (`src/src/main.cc`, `mold_main`), in this order.

| part | code | state | what makes it hard |
|---|---|---|---|
| process | `main.cc`, `subprocess-unix.cc`, `jobs-unix.cc`, `output-file-unix.cc`, `signal-unix.cc`, `error.cc` | a parent and a child joined by a pipe; the MOLD_JOBS lock; a temporary file; the debug file and its lock | the parent may return before the child has finished; any call can fail; signals; several runs on the same files |
| reading input | `input-files.cc`, `main.cc`, `filetype.cc`, `archive-file.cc` | files and their priorities | read in parallel, but ordered by the command line |
| symbol resolution, archive extraction, COMDAT groups | `passes.cc`, `input-files.cc` | `Symbol::file`, `is_reachable`, group owners | choices made before the set of files is final must be made again |
| link-time optimisation | `lto-unix.cc` | files with IR, files made from them | resolution runs twice |
| merged strings | `input-sections.cc`, `output-chunks.cc`, `lib.h` | a lock-free map, fragments with alignment, offset, liveness | the layout must be deterministic; the output buffer holds stale bytes |
| garbage collection | `gc-sections.cc` | visited and alive flags of sections, fragments and DSOs | parallel marking, nested parallel loops |
| identical code folding | `icf.cc` | digests, a lock-free digest table, leaders | a fixed point detected by counting; leader election by compare-and-swap |
| visibility, versions, import/export | `passes.cc`, `linker-script.cc`, `glob.cc`, `aho-corasick.cc` | version, visibility and flags of symbols | three passes overwrite each other's versions; six matchers must agree; files race for undefined symbols |
| dynamic symbol table | `passes.cc`, `output-chunks.cc` | `.dynsym`, version and hash sections | four tables describe one order of symbols |
| relocation scanning | `passes.cc`, `input-sections.cc`, `arch-*.cc` | NEEDS flags, GOT, PLT, dynamic relocations | decided in one pass and again in another, for 15 targets |
| layout, relaxation, thunks | `passes.cc`, `main.cc`, `shrink-sections.cc`, `thunks.cc` | addresses, deltas, thunks | sizes depend on addresses and the other way round |
| output | `output-chunks.cc` | the mapped output file | disjoint writes in parallel |

## Modules

| module | models | extends |
|---|---|---|
| `InternTable` | what a concurrent map promises: an atomic "insert unless present" | |
| `ConcurrentMap` | `ConcurrentMap::insert` of `lib.h`, one action per atomic access | |
| `MergedSection` | resolving, laying out and writing one merged output section | `ConcurrentMap` |
| `GcSections` | `gc_sections` | |
| `DigestMap` | the digest table of ICF | |
| `Icf` | `icf_sections` | `DigestMap` |
| `SymbolResolution` | `resolve_symbols`, with LTO | |
| `Passes` | resolution, garbage collection and folding, one after the other on the same files | `GcSections`, instances of `SymbolResolution` and `Icf` |
| `LinkProcess` | processes, files and locks of several mold runs | |
| `RelocCommon` | the questions asked of a symbol, and the decision tables of `input-sections.cc` | |
| `ArchX86_64`, `ArchI386`, `ArchArm64`, `ArchArm32`, `ArchRiscv`, `ArchLoongarch`, `ArchPpc32`, `ArchPpc64v1`, `ArchPpc64v2`, `ArchS390x`, `ArchSparc64`, `ArchM68k`, `ArchSh4` | what each relocation type of a target requests and what it writes | `RelocCommon` |
| `Relocations` | scanning, slots, dynamic relocations and applying, for all targets | `RelocCommon`, instances of `Arch*` |
| `Segments` | the order of chunks, addresses, file offsets, program headers | |
| `Branches` | range extension thunks and relaxation | `Segments` |
| `Layout` | from input sections to the laid out file | `Branches` |
| `Globs` | `Glob` and `AhoCorasick` | |
| `Dynsym` | versions, imports, exports, `.dynsym` and its tables | `Globs` |
| `ResolutionInputs` | links to resolve, shared by two instances | |
| `MC*` | instances for TLC | the module named |
| `ConcurrentMapProofs` | theorems about `ConcurrentMap` | `ConcurrentMap` |
| `GcRootsProofs`, `GcSectionsProofs`, `GcUseProofs` | theorems about `GcSections`, in three parts | each other, `GcSections` |

A definition whose comment begins with "mutant" (or "Mutant of") is not part of a
specification. It is a plausible mistake in the definition that follows it,
kept so that one can see that a property notices the mistake.

### ConcurrentMap

`key` and `ready` are the buckets (`ready` is the release store of the key's
length), `pc`, `arg` and `retry` the state of each call. A shard is chosen by
the hash, and probing wraps around within it. The actions are the load of a
bucket (`LoadOccupied`, `LoadVacant`), the compare-and-swap (`Claim`,
`LoseClaim`), the construction of the value, its publication, the spin loop
(`Awake`) and the abort after `MaxRetry` probes. `MergedSection` uses the same
actions, so the two are composed and not modelled twice; the run `merged` checks
the properties of both.

`InternTable` is the abstract specification. The refinement mapping takes a
claimed bucket to an entry that exists and whose inserter has not returned yet;
the insertion takes effect at the compare-and-swap.

### MergedSection

The input (the strings of each section, their alignments, lengths and entry size)
is a record chosen at the start. Each mergeable section inserts its fragments in order and raises the fragment's
alignment by `update_maximum`, modelled as load and compare-and-swap. Then the
fragments die or live (arbitrarily: garbage collection is modelled elsewhere),
`compute_section_size` sorts each shard and adds shard offsets,
`sort_debug_info_sections` may separate strings of 32-bit and 64-bit DWARF, and
`write_to` clears and copies shard by shard into a buffer of stale bytes, without
the clearing where the code takes it that there are no gaps (`Clears`). Keys are
numbers that order as `memcmp` does.

### GcSections

The references of sections, FDEs, CIEs and root symbols are constants. The
actions collect the roots, take sections from the feeder, follow one reference
at a time (recursing up to a depth limit, queueing beyond it), run the nested
loops that `__start_foo` symbols start, sweep, and drop as-needed DSOs that are
not reachable. `scans` counts the scans of a section. That `kill()` also clears
the `is_alive` flags of FDEs is left out: only `EhFrameSection::construct` reads
them.

### DigestMap and Icf

A digest is represented by the set of sections that have it: SipHash is taken
to have no collisions, as the code takes it. Home slot and tag of a digest are
an arbitrary function of it, chosen anew in each round. An insertion is one
action per atomic access: probe, claim, fill, publish, wait, and lowering the
leader. `propagate` is one action because it reads one buffer and writes the
other. `Batch` stands for the three propagations between two counts. The members
of a class raise their leader's alignment at the same time, by load and
compare-and-swap (`LoadAlignment`, `UpdateAlignment`).

### SymbolResolution

The input (files, symbols, options) is a record chosen at the start. Each file
goes through its symbols one at a time, interleaved with all others, in every
parallel loop: choice of definitions, marking of reachable files, and so on. The
phases are those of `resolve_symbols`: first choice, extraction, retry for
hidden symbols that ended in a DSO, parsing and COMDAT selection, final choice;
`do_lto` runs all of it again.

### Passes

`Passes` runs the three modules above in the order of `main.cc`: `resolve_symbols`
with `do_lto`, the removal of files that are not reachable, `gc_sections`,
`icf_sections`. Its state is theirs and the pass that runs. `GcSections` and `Icf`
take the program they work on as constants; `OutputIsClosed` requires that these
constants are what the pass before leaves behind, and that in the end every
global symbol an output section refers to is defined in a section of the output,
in the leader that stands for it, or in a DSO that is kept.

### LinkProcess

Each run has a parent and a child. The child's actions are its system calls,
from taking the lock to `_exit`. A file is abstracted to the run that wrote it
and whether it is complete. `Fatal`, `Error` with `checkpoint()`, caught signals
and uncaught ones may strike at every point where they can, up to `MaxFaults`
times. Locks are released by the kernel when a process dies. When
`open_or_create_file` fails, the old output may be gone already: it was renamed to
be overwritten and unlinked.

### RelocCommon, Arch* and Relocations

One symbol is accessed by two object files; each access is a sequence of
relocations that the target's ABI allows (`TlsSequences`, `AddressSequences`).
Besides, words in a read-only and in a writable output section may hold its
address, a CIE and debug information may refer to it. `Relocations` scans the
files in every order and the two output sections in every order, collects the
NEEDS flags, assigns slots (`AssignSlots`, the last loop of `scan_relocations`), counts dynamic
relocations, writes them and applies every relocation. A value is abstracted to
the set of its terms (S, P, GOT, TP, a slot, ...): bits of instructions and
addends are left out, the choice of the terms is all there. Each `Arch*` module
has the `switch` statements of its target's `scan_relocations`,
`apply_reloc_alloc`, `apply_reloc_nonalloc` and `apply_eh_reloc`, and its PLT
entries.

### Segments, Branches and Layout

`Layout` follows `mold_main` from `create_output_sections` to the last
`set_osec_offsets`. Its state is the list of chunks with addresses and offsets,
the members and thunks of every output section, `r_deltas`, the program headers
and the values of synthetic symbols. Input sections are assigned to output
sections by one thread per file, in every order. On ARM32 `.ARM.exidx` gets a
sentinel and loses an arbitrary number of entries once the thunks are final
(`RemoveDuplicateEntries`). `Segments` has the pure part:
ranks, order of chunks, both ways to assign addresses, file offsets, segments.
`Branches` has the sliding window of `thunks.cc` and the shrinking of RISC-V and
LoongArch sections. A loader is the other side of the properties: it maps
segments by pages and must find every byte.

### Globs and Dynsym

`Globs` translates the pattern compiler, the backtracking matcher, the
bit-parallel NFA with its words and carries, the Aho-Corasick automaton and the
choice among the literal forms, on sequences of byte values. `NfaMin` (64 in
the code) and `WordBits` (64) are parameters so that small pattern sets reach the
NFA and its words. `Generates` is the reference: the strings a pattern means.

`Dynsym` starts from resolved symbols and runs the passes of `mold_main` from
`apply_version_script` to the writing of `.dynsym`, `.gnu.version*`, `.hash` and
`.gnu.hash`. Only `claim_unresolved_symbols` is split into its critical sections:
`parse_symbol_version` touches only symbols its file owns, and the loops of
`compute_import_export` set flags, of symbols of their own file or under a lock.
Hashes are computed as in the code, with 32-bit words in two halves. The dynamic linker's lookup is the other side of the properties.

## Runs

| run | result | what it shows |
|---|---|---|
| `merged` | holds | the map: one entry per string, nobody gets an entry under construction, aborts only when the shard is full, `InternTable` is implemented, every insertion returns or aborts; the section: order independent of the schedule, alignment for every user, no overlap, all strings written, no stale byte |
| `merged_dwarf` | violated | finding: 64-bit strings of shard 0 stay among the 32-bit ones |
| `passes` | holds | resolution: the outcome of the parallel rounds is the best definition in the final set of files, no reference is left open, extraction is closed, one copy per group; collection: the least closed set is kept, fragments are kept exactly when a kept section, a root or a CIE refers to them, as-needed DSOs when a kept section does; folding: each digest is counted once, the leader is the section of the lowest priority and has the strictest alignment, sections are folded exactly when their unfoldings are equal; together: nothing that the output refers to is lost between the passes, and the passes end |
| `resolution_hidden` | violated | finding: a hidden symbol is resolved to a DSO |
| `process` | holds | the output is never partial, a child that ends in order removes its temporary file (unless `fchmod` or `ftruncate` failed), the exit status tells what happened, the debug file belongs to the output, MOLD_JOBS admits one at a time, every run ends |
| `relocs` | holds | on all targets, for the accesses named under Bounds: what applying reads, scanning has requested; an imported symbol's address is known; nothing written to the code of a position-independent output moves with the load base; `.rela.dyn` is filled exactly; the pieces of a TLS access agree; a symbol has one address; PLT entries do not loop |
| `relocs_order` | violated | finding: whether a word gets a dynamic relocation depends on the order in which output sections are scanned |
| `layout` | holds | for the links each property covers (see Bounds): a loader finds every byte of every chunk at its address with the right permissions; RELRO is exact; TLS blocks are right; every branch of a target with thunks has a way to its target; the layout loop ends |
| `layout_android` | violated | finding: the last layout moves chunks after synthetic symbols got their values |
| `layout_relax` | violated | finding: padding takes up the bytes that relaxation removed, and a shortened call misses its target |
| `dynsym` | holds | versions are what script and suffixes mean, whichever matcher decides; undefined symbols end with the first file that refers to them, whatever the schedule; a loader finds exactly the exports, with their versions |
| `dynsym_defs` | violated | finding: with `-z defs` a link succeeds although a reference that is not weak has no definition, because an earlier file's weak reference claims the symbol |

The findings are described in `PROJECT.json`, each with the sentence of a
comment or document it contradicts. Type invariants (`TypeOK`) are stated in six
modules. No run checks them; those of `ConcurrentMap` and `GcSections` are
proved, the other four document the variables and are not checked.

### Bounds

- `merged`: six inputs on two shards of four buckets. Two sections share strings that
  collide and wrap around their shard, aligned to 2 and 4 so that gaps occur, and
  with no alignment or entries as wide as the alignment, where nothing is cleared;
  DWARF32 and DWARF64 strings occur together. In two more three
  sections race: two insert the same string and the third one that collides
  with it, and five strings meet a shard of four buckets, so that one aborts. That
  is enough for one thread to claim a bucket, one to wait for it and one to pass by.
  `MaxRetry` is the shard size; in the code both are large.
  No full shard is laid out (see "Observations"), and `NoStaleBytes` says nothing
  of a section whose DWARF32 and DWARF64 strings were separated and that is not
  cleared: there the finding of `merged_dwarf` leaves bytes of the previous file.
- `passes`: seven handwritten links (archives, versions, retry, COMDAT, LTO,
  options, a hidden weak reference) and 576 combinations of the kinds of one symbol
  in an object, two members and a DSO, in two orders of the command line, are
  resolved. One more, a program of two objects and three DSOs, goes on to the other
  passes. Its twelve sections have a cycle, a shared target, nested fan-outs, a target
  at the depth limit (`MaxDepth` is 1), a dead section with references, a
  section without `SHF_ALLOC` and a discarded COMDAT copy. Six of them are eligible
  for folding: a class of three with three alignments, a function that
  differs only after two propagations, and two exception tables; digests share a home
  slot and a tag, two insertions run at a time (`Workers`), and `RoundLimit` is 3
  (2^15 in the code), so that the round number wraps before the last count.
- `process`: two runs that share every combination of options, together or one
  after the other, and at most two faults.
- `relocs`: the accesses of all 15 targets, alone and beside one
  representative of each class of accesses with the same requests, eight sets
  of options and eleven kinds of symbols. A second file suffices because flags
  only accumulate: a file sees others through the union of their requests. Two
  kinds of accesses are left out, and the properties say nothing of them:
  `LocalTypes`, which need a symbol's address and which `scan_relocations` lets
  pass for an imported symbol, and in position-independent outputs `PdeTypes`,
  whose value moves with the load base without a diagnosis. Compilers do not
  emit the former for symbols of other modules.
- `layout`: 1540 links. A page has 4 bytes and an entry of a header table one,
  so that page boundaries fall within and between sections of a few bytes. The links
  come in families, one for each mechanism (segments, RELRO, TLS, placing
  options, `--section-order`, thunks, `.ARM.exidx`, relaxation, packed relocations); within a
  family sizes and alignments vary. `ThunksReach` is about
  code that is aligned to no more than a thunk (`AlignedLikeThunks`; see
  "Observations"). `layout_relax` has links of three sections, the first and the
  last of which may be aligned to more than what a relaxation removes. `ImageIsRight` leaves out
  `--nmagic`, and `-z norelro` with NOBITS chunks that are RELRO by name;
  `RelroIsExact` and `TlsIsRight` leave out `--section-order`, and the latter also
  `--section-start`.
- `dynsym`: names of up to four letters over an alphabet of two, so that
  patterns overlap; fourteen patterns, each paired with several of them, with
  `NfaMin` 2 and three-bit words so that NFA states cross words; three objects that race for two symbols
  under six settings of the options about undefined symbols; visibilities, `-Bsymbolic` and
  dynamic lists; and enough symbols for two hash buckets, two versioned DSOs
  and copied data. `VersionsFollowScript` compares the matchers
  with `Means` on these names and patterns only. `DynamicBindingIsSound` leaves open
  an imported symbol to which the first file refers weakly and another one not
  weakly while undefined symbols are errors, the subject of `dynsym_defs`.

### Fairness

Threads of a pool and processes are scheduled by the operating system, which
does not suspend a runnable one for ever. `passes` and `layout` need only that some
step is taken while one is possible (weak fairness of the whole next-state
relation; `Layout` writes it as a disjunction in `Spec`): every step of those
passes is progress, and a wait that nobody ends would be a deadlock. `merged` and
`process` assume weak fairness of each thread or process, because one that waits
depends on another. Safety properties do not depend on fairness. The spin
loops of `ConcurrentMap` and `DigestMap` are modelled by actions that are enabled
when the awaited bucket is published, so waiting is no progress. No action has
strong fairness, and an error or a signal is never required to happen.

## What is proved

All theorems hold for every value of the constants that satisfies the named
assumptions; they are not limited to the instances above.

**ConcurrentMap** (`ConcurrentMapProofs`, from `MapAssumption`: the sizes are
positive and hashes are numbers). The inductive invariant `IInv` strengthens the
type invariant by: a bucket between its claim and its publication has exactly one
owner (`OneOwner`); a bucket that somebody waits for has been claimed
(`WaitsForClaimed`); the buckets a caller has passed hold other keys
(`ProbedPrefix`); and a published key is constructed and the first of its probe
sequence, with only other keys before it (`FirstOfItsProbe`). The last is
what makes keys unique: a second inserter of the key walks the same path and
cannot pass the first copy. From it follow `KeysAreUnique`,
`ReturnsAreConstructed`, `PublishedForEver`, `AbortsOnlyWhenFull` (which also
assumes that a shard is not larger than `MAX_RETRY`) and
`MapImplementsInternTable`, the safety part of the refinement.

**GcSections** (`GcRootsProofs`, `GcSectionsProofs`, `GcUseProofs`). The
inductive invariant is that of a tri-colour marking. Its parts: roots are marked
by the loop that collects them (`RootsMarked`); a section with `SHF_ALLOC` is
queued, running or done iff it is visited (`Colours`); what the references
before `pos` of a running section and all references of a finished one name is
visited, or waits in a nested loop (`Progress`); and whatever is visited belongs to every closed set (`Sound`). At
the end nothing is queued or running, so the visited sections are closed, and
`Sound` makes them the least closed set: `ExactlyReachableIsKept`. The theorem
`ExactlyReferencedIsKept` says the same of fragments and DSOs, DSOs that only
CIEs name excepted; `EachScannedOnce` follows from `Colours`.

Both invariants were model-checked before they were proved.

## What is only model-checked

- Liveness: the prover has no fairness or `ENABLED`.
- `MergedSection`, `Icf`, `SymbolResolution`, `Passes` and `LinkProcess`: no theorem
  yet.
- `Globs` and `Dynsym` use recursive operators and bitwise arithmetic, which the
  prover does not handle. `Segments`, `Branches` and `Layout` fold over sequences,
  and what a fold computes needs induction. `Relocations` has no theorem yet.

## Observations

Behaviour of the code met while modelling that no run of the project reports.
The first three are at odds with a property one would expect.

- If every bucket of a shard of the string map is occupied,
  `get_sorted_entries` takes all entries in its first loop (`lib.h:561`) and sorts
  none, so that their order depends on the schedule.
- A DSO that only a CIE refers to (a personality routine) is dropped under
  `--as-needed`: `enqueue_symbol` (`gc-sections.cc:74`) ignores symbols of DSOs,
  while the comment at `gc-sections.cc:110` says "We just keep all CIEs and
  everything that are referenced by them". `KeepsExactlyReferenced` leaves such a DSO
  open.
- Thunks: shrinking thunks moves sections, and padding before a section that is
  aligned to more than a thunk can take up more than the margin of
  `branch_distance`. A branch that needed no thunk may then be out of reach; it is
  not cut off silently, since `get_thunk_addr` finds no thunk and ends the link
  with a fatal error, but the comment at `thunks.cc:240` excludes it.
- Exports of one name with different versions compare equal in the unstable sort
  of `sort_dynsyms` (`passes.cc:2175`), so their order in `.dynsym` is not
  determined. Both orders are in the model, and a loader finds both symbols.
- Version suffixes are parsed only when a shared object is linked.

## What is not modelled

- Byte formats, relocation arithmetic and instruction encodings of the targets:
  data without control.
- Command line, map file, demangling, statistics, compression: sequential code
  or wrappers of libraries.
- Reading of files and archives: I/O whose result is a list in command line
  order, which is where the models start.
- `-r`, `.gdb_index`, `.eh_frame` contents, section headers: sequential or
  byte-level code.
- Windows variants and the compiler wrapper: stubs and a preloaded shim.
- The LTO plugin itself: external; its effect on resolution is modelled.
- Weak memory: each module assumes the acquire and release pairs of the code,
  under which the modelled accesses are ordered as the actions are.
- Within the modelled parts: `PROJECT.json` names what each module leaves out.

## Plan

Theorems, in this order: `CountsEachDigestOnce` and `LeaderIsFirst` of
`DigestMap` by an invariant like that of `ConcurrentMap`; that equal counts mean
a stable partition, which the comment in `icf.cc` states without proof;
`NeverPartialOutput`, `ZeroMeansLinked` and `OneLinkAtATime` of `LinkProcess`;
`AlignedForEverySection` of `MergedSection`; `BestDefinitionWins` of
`SymbolResolution`.
