-------------------------- MODULE SymbolResolution --------------------------
(***************************************************************************)
(* resolve_symbols of passes.cc with the methods of ObjectFile and         *)
(* SharedFile it runs on all files in parallel: choose a definition for    *)
(* every symbol, extract the archive members and DSOs that are referred    *)
(* to, redo the choice for hidden symbols that ended in a DSO, select one  *)
(* copy of each COMDAT group and choose again among the files that stay.   *)
(* After link-time optimisation (do_lto) all of it runs once more.         *)
(*                                                                         *)
(* The linker's input is a record `in', chosen initially from Inputs:      *)
(*   files      all files, including those the LTO plugin will make        *)
(*   dsos       the shared ones                                            *)
(*   asNeeded   archive members, and DSOs after --as-needed                *)
(*   prio       InputFile::priority, distinct                              *)
(*   esyms      each file's global ELF symbols: records with name, kind    *)
(*              ("undef", "wundef", "def", "weak", "common"), visibility,  *)
(*              COMDAT group (or None) and, for a default-versioned        *)
(*              symbol of a DSO, its second name foo@VER (or None)         *)
(*   undefined  symbols given by -u and --require-defined                  *)
(*   glob       symbols that match --undefined-glob                        *)
(*   shlibUndef --allow-shlib-undefined                                    *)
(*   excl       files with exclude_libs                                    *)
(*   ir, lto    the files with compiler IR; the files made from them       *)
(***************************************************************************)
EXTENDS Integers, Sequences, FiniteSets

CONSTANTS Inputs, Names, None

VARIABLES
    in,           \* the input
    objs,         \* ctx.objs and ctx.dsos
    phase,        \* the step of resolve_symbols
    final,        \* it is the final choice
    at,           \* each file's position in the current parallel loop; 0: out
    sym,          \* the Symbol objects
    bind,         \* InputFile::symbols
    reach,        \* is_reachable
    parsed,       \* sections_parsed
    dead,         \* the discarded COMDAT groups of each file
    irClaim,      \* comdat_claimed_by_ir
    afterLto      \* do_lto has run

vars == <<in, objs, phase, final, at, sym, bind, reach, parsed, dead, irClaim,
          afterLto>>

Unresolved == [file |-> None, idx |-> -1, weak |-> FALSE, vdef |-> FALSE,
               origin |-> None, vis |-> "default", skip |-> FALSE]

Esym(f, i) == in.esyms[f][i]
IsUndef(e) == e.kind \in {"undef", "wundef"}
IsDso(f) == f \in in.dsos
Groups(f) == {in.esyms[f][i].group : i \in DOMAIN in.esyms[f]} \ {None}

Defined(f) == {Esym(f, i).name : i \in {j \in DOMAIN in.esyms[f] : ~IsUndef(Esym(f, j))}}

Starting(S) == [f \in in.files |-> IF f \in S THEN 1 ELSE 0]
Running(f) == at[f] \in DOMAIN in.esyms[f]
LoopDone == \A f \in in.files : ~Running(f)
Advance(f) == at' = [at EXCEPT ![f] = @ + 1]

Init ==
    /\ in \in Inputs
    /\ objs = in.files \ in.lto
    /\ phase = "resolve" /\ final = FALSE /\ afterLto = FALSE
    /\ at = Starting(objs)
    /\ sym = [n \in Names |-> Unresolved]
    /\ bind = [f \in in.files |-> [i \in DOMAIN in.esyms[f] |-> in.esyms[f][i].name]]
    /\ reach = {} /\ parsed = {} /\ irClaim = {}
    /\ dead = [f \in in.files |-> {}]
-----------------------------------------------------------------------------
\* get_rank of a definition.  A file that is not (yet) reachable counts as an
\* archive member.
SymRank(f, e, inArchive) ==
    CASE e.kind = "common" -> IF inArchive THEN 6 ELSE 5
      [] e.kind # "common" /\ (IsDso(f) \/ inArchive) -> IF e.kind = "weak" THEN 4 ELSE 3
      [] OTHER -> IF e.kind = "weak" THEN 2 ELSE 1

Rank(f, e, inArchive) == SymRank(f, e, inArchive) * 2^24 + in.prio[f]

CurrentRank(n) ==
    IF sym[n].file = None THEN 7 * 2^24
    ELSE Rank(sym[n].file, Esym(sym[n].file, sym[n].idx), sym[n].file \notin reach)

\* The definition lies in a section that was discarded.
Discarded(f, e) == f \in parsed /\ e.kind # "common" /\ e.group \in dead[f]

\* Mutant of ResolveInObject: the first definition to arrive stays.
FirstDefinitionStays(f) ==
    /\ phase = "resolve" /\ Running(f) /\ ~IsDso(f)
    /\ LET e == Esym(f, at[f])
           n == bind[f][at[f]]
       IN  sym' = IF ~IsUndef(e) /\ ~Discarded(f, e) /\ sym[n].file = None
                    THEN [sym EXCEPT ![n] = [@ EXCEPT
                            !.file = f, !.idx = at[f], !.origin = None,
                            !.weak = (e.kind = "weak"), !.vdef = FALSE]]
                    ELSE sym
    /\ Advance(f)
    /\ UNCHANGED <<in, objs, phase, final, bind, reach, parsed, dead, irClaim, afterLto>>

\* ObjectFile::resolve_symbols, one symbol: a critical section of sym.mu.
ResolveInObject(f) ==
    /\ phase = "resolve" /\ Running(f) /\ ~IsDso(f)
    /\ LET e == Esym(f, at[f])
           n == bind[f][at[f]]
       IN  sym' = IF ~IsUndef(e) /\ ~Discarded(f, e)
                       /\ Rank(f, e, f \notin reach) < CurrentRank(n)
                    THEN [sym EXCEPT ![n] = [@ EXCEPT
                            !.file = f, !.idx = at[f], !.origin = None,
                            !.weak = (e.kind = "weak"), !.vdef = FALSE]]
                    ELSE sym
    /\ Advance(f)
    /\ UNCHANGED <<in, objs, phase, final, bind, reach, parsed, dead, irClaim, afterLto>>

\* SharedFile::resolve_symbols, one symbol; sym.mu is held while foo@VER,
\* the proxy of a default-versioned foo, is resolved under its own mutex.
ResolveInDso(f) ==
    /\ phase = "resolve" /\ Running(f) /\ IsDso(f)
    /\ LET e == Esym(f, at[f])
           n == bind[f][at[f]]
           take == Rank(f, e, FALSE) < CurrentRank(n)
           proxy == e.name2 # None /\ e.name2 # n
                      /\ Rank(f, e, FALSE) < CurrentRank(e.name2)
           real == [sym[n] EXCEPT !.file = f, !.idx = at[f], !.origin = None,
                                  !.weak = TRUE, !.vdef = FALSE]
       IN  sym' = IF IsUndef(e) \/ sym[n].skip THEN sym
                  ELSE [m \in Names |->
                          CASE m = n /\ take -> real
                            [] proxy /\ m = e.name2 ->
                                 [sym[m] EXCEPT !.file = f, !.idx = at[f],
                                                !.origin = n, !.vdef = TRUE]
                            [] OTHER -> sym[m]]
    /\ Advance(f)
    /\ UNCHANGED <<in, objs, phase, final, bind, reach, parsed, dead, irClaim, afterLto>>

\* resolve_default_symver, after the loop above has ended: references to
\* foo@VER become references to foo.
Redirect(n) == IF sym[n].vdef THEN sym[n].origin ELSE n

ResolveDefaultSymver ==
    /\ phase = "resolve" /\ LoopDone /\ ~final
    /\ bind' = [f \in in.files |->
                  IF f \in objs THEN [i \in DOMAIN bind[f] |-> Redirect(bind[f][i])]
                                ELSE bind[f]]
    /\ phase' = "roots"
    /\ UNCHANGED <<in, objs, final, at, sym, reach, parsed, dead, irClaim, afterLto>>

\* mark_live_objects, up to its parallel loop: the files it starts from.
MarkRoots ==
    /\ phase = "roots"
    /\ reach' = reach \cup {sym[n].file : n \in {m \in in.undefined : sym[m].file # None}}
                      \cup {f \in objs \ in.dsos : \E i \in DOMAIN bind[f] :
                               bind[f][i] \in in.glob /\ sym[bind[f][i]].file = f}
                      \cup (objs \ in.asNeeded)
    /\ at' = Starting(reach' \cap objs)
    /\ phase' = "mark"
    /\ UNCHANGED <<in, objs, final, sym, bind, parsed, dead, irClaim, afterLto>>

\* merge_visibility: the most restrictive one wins.
Restrictive(a, b) ==
    CASE "hidden" \in {a, b} -> "hidden"
      [] {a, b} = {"protected"} \/ {a, b} = {"protected", "default"} -> "protected"
      [] OTHER -> "default"

\* Whether a reference from f by e keeps the file that defines the symbol.
Keeps(f, e, s) ==
    IF IsDso(f)
      THEN e.kind = "undef" /\ (~IsDso(s.file) \/ ~in.shlibUndef)
      ELSE \/ e.kind = "undef"
           \/ e.kind = "wundef" /\ IsDso(s.file)
           \/ e.kind = "common" /\ Esym(s.file, s.idx).kind # "common"

\* Mutant of Fed: a file that is reached is not handed to the feeder.
FedNone(g) == {}

\* The files of g that mark_live_objects is to visit.
Fed(g) == g

\* mark_live_objects of a file, one symbol.  A file that is reached for the
\* first time (test_and_set) is handed to the feeder.
MarkLive(f) ==
    /\ phase = "mark" /\ Running(f)
    /\ LET e == Esym(f, at[f])
           n == bind[f][at[f]]
           vis == IF ~IsUndef(e) /\ f \in in.excl THEN "hidden" ELSE e.vis
           s == sym[n]
           g == IF s.file # None /\ Keeps(f, e, s) /\ s.file \notin reach
                  THEN {s.file} ELSE {}
       IN  /\ sym' = IF IsDso(f) THEN sym
                     ELSE [sym EXCEPT ![n].vis = Restrictive(@, vis)]
           /\ reach' = reach \cup g
           /\ at' = [h \in in.files |-> CASE h \in Fed(g) -> 1
                                          [] h = f -> at[f] + 1
                                          [] OTHER -> at[h]]
    /\ UNCHANGED <<in, objs, phase, final, bind, parsed, dead, irClaim, afterLto>>

\* clear_symbols leaves visibility, skip_dso and is_versioned_default alone.
Clear(tab) ==
    [n \in Names |->
       IF tab[n].file = None THEN tab[n]
       ELSE [tab[n] EXCEPT !.file = None, !.origin = None, !.idx = -1, !.weak = FALSE]]

HiddenInDso(n) ==
    /\ sym[n].file # None /\ IsDso(sym[n].file)
    /\ sym[n].file \in reach /\ sym[n].vis = "hidden"

\* Mutant of Skip: skip_dso is not set.
SkipNone(n) == sym[n].skip

Skip(n) == sym[n].skip \/ HiddenInDso(n)

\* The test that ends the loop of resolve_symbols, or repeats it.
CheckHidden ==
    /\ phase = "mark" /\ LoopDone
    /\ LET redo == {n \in Names : HiddenInDso(n)} IN
         /\ sym' = Clear([n \in Names |-> [sym[n] EXCEPT !.skip = Skip(n)]])
         /\ phase' = IF redo = {} THEN "comdat" ELSE "resolve"
         /\ at' = Starting(IF redo = {} THEN (reach \cap objs) \ (in.dsos \cup in.ir)
                                        ELSE objs)
    /\ UNCHANGED <<in, objs, final, bind, reach, parsed, dead, irClaim, afterLto>>
-----------------------------------------------------------------------------
(***************************************************************************)
(* parse_input_sections.                                                   *)
(***************************************************************************)

\* Mutant of MayOwn: the claim of an IR file is forgotten.
AnyoneMayOwn(f, g) == TRUE

\* A group claimed by an IR file belongs to the LTO result.
MayOwn(f, g) == g \notin irClaim \/ f \in in.lto

\* record_comdat_owner for the group of f's next symbol: a compare-exchange
\* loop that leaves the least priority in the signature's sym_idx.
RecordComdatOwner(f) ==
    /\ phase = "comdat" /\ Running(f)
    /\ LET g == Esym(f, at[f]).group IN
         sym' = IF /\ g # None
                   /\ MayOwn(f, g)
                   /\ sym[g].idx = -1 \/ in.prio[f] < sym[g].idx
                  THEN [sym EXCEPT ![g].idx = in.prio[f]]
                  ELSE sym
    /\ Advance(f)
    /\ UNCHANGED <<in, objs, phase, final, bind, reach, parsed, dead, irClaim, afterLto>>

\* The rest of parse_input_sections: reachable files learn which groups they
\* own, IR files claim the groups nobody has, sym_idx is restored, sections
\* are made, and the members of lost groups are killed or revived.
SelectComdats ==
    /\ phase = "comdat" /\ LoopDone
    /\ LET regular == (reach \cap objs) \ (in.dsos \cup in.ir) IN
         /\ dead' = [f \in in.files |->
                       IF f \in regular
                         THEN {g \in Groups(f) : sym[g].idx # in.prio[f]}
                         ELSE dead[f]]
         /\ parsed' = parsed \cup regular
    /\ irClaim' = irClaim \cup {g \in UNION {Groups(f) : f \in reach \cap objs \cap in.ir} :
                                  sym[g].idx = -1}
    /\ sym' = [n \in Names |-> [sym[n] EXCEPT !.idx = -1]]
    /\ final' = TRUE
    /\ phase' = "resolve"
    /\ at' = Starting(reach \cap objs)
    /\ UNCHANGED <<in, objs, bind, reach, afterLto>>

Resolved ==
    /\ phase = "resolve" /\ LoopDone /\ final
    /\ phase' = "resolved"
    /\ UNCHANGED <<in, objs, final, at, sym, bind, reach, parsed, dead, irClaim, afterLto>>

\* do_lto: the plugin's objects replace the IR files, archive members are to
\* be extracted anew, and name resolution is redone.  add_input_file has
\* already resolved the new objects' symbols, which claims the definitions.
DoLto ==
    /\ phase = "resolved" /\ ~afterLto /\ reach \cap in.ir # {}
    /\ afterLto' = TRUE
    /\ objs' = (objs \ in.ir) \cup in.lto
    /\ LET new == UNION {Defined(f) : f \in in.lto} IN
         sym' = [n \in Names |-> [Clear(sym)[n] EXCEPT !.vdef = @ /\ n \notin new]]
    /\ reach' = ((reach \ in.ir) \ (in.asNeeded \ in.dsos)) \cup in.lto
    /\ final' = FALSE
    /\ phase' = "resolve"
    /\ at' = Starting(objs')
    /\ UNCHANGED <<in, bind, parsed, dead, irClaim>>

Finished ==
    /\ phase = "resolved" /\ (afterLto \/ reach \cap in.ir = {})
    /\ UNCHANGED vars

Step ==
    \/ \E f \in in.files :
         \/ ResolveInObject(f) \/ ResolveInDso(f) \/ MarkLive(f) \/ RecordComdatOwner(f)
    \/ ResolveDefaultSymver \/ MarkRoots \/ CheckHidden \/ SelectComdats
    \/ Resolved \/ DoLto

Next == Step \/ Finished

Spec == Init /\ [][Next]_vars
-----------------------------------------------------------------------------
TypeOK ==
    /\ objs \subseteq in.files /\ reach \subseteq in.files /\ parsed \subseteq in.files
    /\ phase \in {"resolve", "roots", "mark", "comdat", "resolved"}
    /\ \A f \in in.files : at[f] \in 0 .. Len(in.esyms[f]) + 1
    /\ \A n \in Names : /\ sym[n].file \in in.files \cup {None}
                        /\ sym[n].file # None => sym[n].idx \in DOMAIN in.esyms[sym[n].file]
    /\ \A f \in in.files : \A i \in DOMAIN bind[f] : bind[f][i] \in Names

\* The definitions of n in the files of the output, in sections that were kept
Definitions(n) ==
    {c \in {<<f, i>> : f \in reach \cap objs, i \in 1 .. 5} :
       /\ c[2] \in DOMAIN in.esyms[c[1]]
       /\ LET e == Esym(c[1], c[2])
          IN  ~IsUndef(e) /\ ~Discarded(c[1], e) /\ n \in {bind[c[1]][c[2]], e.name2}}

\* The definition is a DSO's and the symbol is hidden.
IsBarred(c) == IsDso(c[1]) /\ sym[bind[c[1]][c[2]]].vis = "hidden"

\* The definitions that compete for n: a hidden symbol needs one within the
\* output.
Candidates(n) == {c \in Definitions(n) : ~IsBarred(c)}

\* Every symbol ends with the definition of the highest priority among those
\* of the files in the output, and is unresolved only if there is none: the
\* order in which threads took the mutexes, the earlier rounds and the
\* extraction of archive members leave no trace.  A hidden symbol that only
\* DSOs define is the subject of HiddenIsInside, and nothing is said of it here.
BestDefinitionWins ==
    phase = "resolved" =>
      \A n \in Names :
        IF Candidates(n) = {}
          THEN sym[n].file = None \/ \E c \in Definitions(n) : IsBarred(c)
          ELSE /\ <<sym[n].file, sym[n].idx>> \in Candidates(n)
               /\ \A c \in Candidates(n) :
                    CurrentRank(n) <= Rank(c[1], Esym(c[1], c[2]), FALSE)

\* What the comment in resolve_symbols says: a hidden symbol is resolved within
\* the output file, not to a DSO.
HiddenIsInside ==
    phase = "resolved" =>
      \A n \in Names : sym[n].vis = "hidden" /\ sym[n].file # None => ~IsDso(sym[n].file)

\* No file is marked reachable and then forgotten: when marking ends, what
\* every reachable file refers to is reachable too.
ReachableIsClosed ==
    phase = "mark" /\ LoopDone =>
      \A f \in reach \cap objs : \A i \in DOMAIN bind[f] :
        LET s == sym[bind[f][i]] IN
          s.file # None /\ Keeps(f, Esym(f, i), s) => s.file \in reach

\* A strong reference from a file of the output is resolved if any input file
\* has a usable definition, be it an archive member that was extracted only
\* in a later round, or one whose COMDAT group was discarded in favour of
\* another file's.  A DSO's definition is not usable for a hidden symbol.
ReferencesAreResolved ==
    phase = "resolved" =>
      \A f \in (reach \cap objs) \ in.dsos : \A i \in DOMAIN bind[f] :
        LET n == bind[f][i] IN
          Esym(f, i).kind = "undef"
            /\ (\E g \in objs : n \in Defined(g) /\ ~(IsDso(g) /\ sym[n].vis = "hidden"))
          => sym[n].file # None

\* resolve_symbols gives every symbol its best definition and leaves no
\* reference open that a file could satisfy, whatever the schedule.
SymbolsAreResolved == BestDefinitionWins /\ ReferencesAreResolved

\* Of the copies of a COMDAT group in the regular files of the output just one
\* is kept, the one of the file with the least priority; a group that an IR
\* file has claimed is kept only by the LTO result.
OneCopyPerGroup ==
    phase = "resolved" =>
      \A g \in Names :
        LET regular == (reach \cap objs) \ (in.dsos \cup in.ir)
            rivals == {f \in regular : g \in Groups(f) /\ (g \notin irClaim \/ f \in in.lto)}
        IN  {f \in regular : g \in Groups(f) \ dead[f]}
              = {f \in rivals : \A h \in rivals : in.prio[f] <= in.prio[h]}
=============================================================================
