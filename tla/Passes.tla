------------------------------- MODULE Passes -------------------------------
(***************************************************************************)
(* The passes of link() in main.cc that decide what the output consists    *)
(* of, one after the other on the same files: resolve_symbols (and do_lto) *)
(* chooses the files, the definitions and the COMDAT copies, gc_sections   *)
(* the sections and DSOs that are needed, icf_sections the sections that   *)
(* stand for several.  Each is a module of its own; this one runs them in  *)
(* the order of the code.                                                  *)
(*                                                                         *)
(* GcSections and Icf take the program they work on as constants: the      *)
(* sections of the input Program, the one that is linked with              *)
(* --gc-sections and --icf.  That these constants are what the pass before *)
(* leaves behind is part of the property OutputIsClosed.                   *)
(***************************************************************************)
EXTENDS GcSections

CONSTANTS
    Inputs, Names,                  \* of SymbolResolution
    Program,      \* the input that is linked with --gc-sections and --icf
    FileOf,       \* the file of each section
    GroupOf,      \* its COMDAT group, or None
    SecOf,        \* the section each symbol of an object file is defined in
    RefSyms,      \* the global symbols that Rels refers to, or None
    LiveSections, Secs, Priority, NumSlots, RoundLimit, Hashes, Kind,
    AddressTaken, IcfAll, IgnoreDataAddressEquality, Body, IcfRefs, SymSec,
    Imported, Value, Align, Batch, Workers                \* of Icf

VARIABLES
    stage,        \* the pass that runs
    in, objs, rphase, final, at, sym, bind, reach, parsed, dead, irClaim, afterLto,
    digest, hash, round, hi, lo, leader, ipc, slot, cur, inserted,
    iphase, step, num_classes, itodo, icf_leader, p2align, old, status

R == INSTANCE SymbolResolution WITH phase <- rphase
I == INSTANCE Icf WITH
       Sections <- LiveSections, Refs <- IcfRefs, NoSec <- None,
       phase <- iphase, todo <- itodo, pc <- ipc, at <- slot

ASSUME IcfInstance == I!DigestMapAssumption /\ I!IcfAssumption

resolveVars == <<in, objs, rphase, final, at, sym, bind, reach, parsed, dead,
                 irClaim, afterLto>>
icfVars == <<digest, hash, round, hi, lo, leader, ipc, slot, cur, inserted,
             iphase, step, num_classes, itodo, icf_leader, p2align, old, status>>
passesVars == <<stage, resolveVars, vars, icfVars>>

PassesInit ==
    /\ stage = "resolve"
    /\ R!Init /\ Init /\ I!Init
-----------------------------------------------------------------------------
Resolve ==
    /\ stage = "resolve"
    /\ R!Step
    /\ UNCHANGED <<stage, vars, icfVars>>

\* Files that are not in the output are removed.  The other inputs are linked
\* with neither --gc-sections nor --icf.
EndResolve ==
    /\ stage = "resolve" /\ rphase = "resolved" /\ (afterLto \/ reach \cap in.ir = {})
    /\ objs' = objs \cap reach
    /\ stage' = IF in = Program THEN "gc" ELSE "end"
    /\ UNCHANGED <<in, rphase, final, at, sym, bind, reach, parsed, dead, irClaim,
                   afterLto, vars, icfVars>>

Collect ==
    /\ stage = "gc"
    /\ Step
    /\ UNCHANGED <<stage, resolveVars, icfVars>>

\* Mutant of EndCollect: the sweep goes on in the background.
EndCollectEarly ==
    /\ stage = "gc" /\ phase = "sweep"
    /\ stage' = "icf"
    /\ UNCHANGED <<resolveVars, icfVars, vars>>
\* When gc_sections returns, nothing is left of its visits.
EndCollect ==
    /\ stage = "gc" /\ phase = "done"
    /\ stage' = "icf"
    /\ phase' = "returned"
    /\ depth' = [s \in Sections |-> 0] /\ up' = [s \in Sections |-> None]
    /\ UNCHANGED <<resolveVars, icfVars, todo, alive, visited, fragAlive,
                   dsoReach, act, pos, pc, fan, scans, dsos>>

Fold ==
    /\ stage = "icf"
    /\ I!Step
    /\ UNCHANGED <<stage, resolveVars, vars>>

EndFold ==
    /\ stage = "icf" /\ iphase = "done"
    /\ stage' = "end"
    /\ UNCHANGED <<resolveVars, vars, icfVars>>

PassesStep == Resolve \/ EndResolve \/ Collect \/ EndCollect \/ Fold \/ EndFold

PassesDone == stage = "end" /\ UNCHANGED passesVars

PassesNext == PassesStep \/ PassesDone

\* Some worker thread always makes progress.
PassesSpec ==
    PassesInit /\ [][PassesNext]_passesVars /\ WF_passesVars(PassesStep)
-----------------------------------------------------------------------------
\* resolve_symbols gives every symbol its best definition and leaves no
\* reference open that a file could satisfy, whatever the schedule.
SymbolsAreResolved == stage = "resolve" => R!SymbolsAreResolved

\* When marking ends, what every reachable file refers to is reachable too.
ReachableIsClosed == R!ReachableIsClosed

\* Of the copies of a COMDAT group in the files of the output just one is kept,
\* the same in every run.
OneCopyPerGroup == stage = "resolve" => R!OneCopyPerGroup

\* The leaders that icf_sections elects do not depend on the schedule, and take
\* the place of their classes.
LeadersAreRight == I!LeadersAreRight

\* icf_sections folds two sections iff their unfoldings into trees are equal.
FoldsExactlyEqualTrees == I!FoldsExactlyEqualTrees

\* What resolve_symbols leaves to the later passes.
IsKept(s) == FileOf[s] \in reach \cap objs /\ GroupOf[s] \notin dead[FileOf[s]]

\* A section of the output, or the leader that stands for it, is there.
InOutput(s) ==
    IF s \in Secs THEN icf_leader[s] \in alive /\ status[icf_leader[s]] = "leader"
    ELSE s \in alive

\* The three passes agree: each starts from what the one before left, and in
\* the end whatever a section of the output refers to by a global symbol is in
\* the output.  The definition that resolve_symbols chose is in a section that
\* is neither a discarded COMDAT copy nor collected nor folded away without a
\* leader, or in a DSO that the output will name.
OutputIsClosed ==
    /\ stage = "gc" => /\ InitAlive = {s \in Sections : IsKept(s)}
                       /\ Dsos = reach \cap in.dsos
    /\ stage = "icf" => LiveSections = alive
    /\ stage = "end" /\ in = Program =>
         \A s \in alive \cap Alloc : \A i \in DOMAIN RefSyms[s] :
           LET y == sym[RefSyms[s][i]] IN
             RefSyms[s][i] # None =>
               IF y.file \in in.dsos THEN y.file \in dsos
               ELSE InOutput(SecOf[y.file][y.idx])

\* The passes come to an end: resolve_symbols although it starts over for
\* hidden symbols, no visit of gc_sections waits for ever for another one, the
\* rounds of icf_sections end and no insertion waits for ever.
PassesEnd == <>(stage = "end")
=============================================================================
