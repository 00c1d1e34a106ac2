----------------------------- MODULE GcSections -----------------------------
(***************************************************************************)
(* The mark-sweep garbage collector of gc-sections.cc (--gc-sections).     *)
(* Vertices are input sections and edges are relocations.  The root set is *)
(* collected and marked in parallel: a thread that marks a section visits  *)
(* it by recursion, up to a depth, and otherwise leaves it to a work queue *)
(* (TBB's feeder); a reference to __start_foo or __stop_foo marks every    *)
(* section named foo in a nested parallel loop.                            *)
(*                                                                         *)
(* A section's visit is an activation record, indexed by the section; any  *)
(* number of threads may run.                                              *)
(***************************************************************************)
EXTENDS Integers, Sequences, FiniteSets

CONSTANTS
    Sections,     \* the input sections of all object files
    Frags,        \* section fragments of SHF_ALLOC merged sections
    Dsos,         \* ctx.dsos
    Alloc,        \* the sections with SHF_ALLOC
    InitAlive,    \* the sections that are alive when the pass starts
    ShouldKeep,   \* should_keep(isec)
    Name,         \* a section's name if it is a C identifier, or None
    Rels,         \* references of a section: its FDEs', then its relocations,
                  \* then (as "fde") the .ARM.exidx section that goes with it
    RootSyms,     \* what gc_root or exported symbols are defined in
    CieRefs,      \* what the relocations of CIEs refer to
    NeededDsos,   \* not as_needed, or defines a -u or --require-defined symbol
    MaxDepth,     \* 3: how deep visit_section recurses
    None

\* A reference is to a section, from a relocation ("sec") or from an FDE
\* ("fde"), to a fragment or to a DSO.  ss is the `foo' of a symbol named
\* __start_foo or __stop_foo.
Refs == [kind : {"sec", "fde"}, to : Sections \cup {None},
         ss : {Name[s] : s \in Sections} \cup {None}]
          \cup [kind : {"frag"}, to : Frags, ss : {None}]
          \cup [kind : {"dso"}, to : Dsos, ss : {None}]

ASSUME GcAssumption ==
    /\ Alloc \subseteq Sections /\ InitAlive \subseteq Sections
    /\ ShouldKeep \subseteq Sections
    /\ NeededDsos \subseteq Dsos
    /\ None \notin Sections
    /\ \A s \in Sections : Rels[s] \in Seq(Refs)
    /\ RootSyms \subseteq Refs /\ CieRefs \subseteq Refs
    /\ MaxDepth \in Nat

VARIABLES
    phase,        \* the parallel loop that is running
    todo,         \* its items that no thread has taken (the root loops)
    alive,        \* IS_ALIVE
    visited,      \* IS_VISITED
    fragAlive,    \* SectionFragment::is_alive
    dsoReach,     \* SharedFile::is_reachable
    act,          \* state of the section's visit
    pos,          \* the reference it is at
    pc,           \* what it does there: mark(), the start/stop test, the loop
    depth,        \* its recursion depth
    up,           \* the visit that waits for it, or None
    fan,          \* sections the nested loop has yet to take
    scans,        \* how often visit_section was called for the section
    dsos          \* ctx.dsos

rootVars == <<phase, todo>>
visitVars == <<pos, pc, depth, up, fan, scans>>
vars == <<phase, todo, alive, visited, fragAlive, dsoReach, act, pos, pc, depth,
          up, fan, scans, dsos>>

\* build_start_stop_map
StartStop(n) == {s \in InitAlive \cap Alloc : Name[s] = n /\ n # None}

\* Mutant of ResetDsos: as-needed DSOs are not reset.
KeepAllDsos == Dsos

\* The start of gc_sections: as-needed DSOs are to be reached anew.
ResetDsos == NeededDsos

Init ==
    /\ phase = "keep" /\ todo = Sections
    /\ alive = InitAlive
    /\ visited = {} /\ fragAlive = {}
    /\ dsoReach = ResetDsos
    /\ act = [s \in Sections |-> "none"]
    /\ pos = [s \in Sections |-> 1]
    /\ pc = [s \in Sections |-> "mark"]
    /\ depth = [s \in Sections |-> 0]
    /\ up = [s \in Sections |-> None]
    /\ fan = [s \in Sections |-> {}]
    /\ scans = [s \in Sections |-> 0]
    /\ dsos = Dsos
-----------------------------------------------------------------------------

\* mark_section's condition: the fetch_or of IS_VISITED is an atomic
\* test-and-set.
Markable(s) == s \in alive /\ s \notin visited

\* enqueue_section: mark a section and append it to the root set.
EnqueueSection(s) ==
    IF Markable(s)
      THEN visited' = visited \cup {s} /\ act' = [act EXCEPT ![s] = "queued"]
      ELSE UNCHANGED <<visited, act>>

\* collect_root_set, the loop over sections.
KeepSection(s) ==
    /\ phase = "keep" /\ s \in todo
    /\ todo' = todo \ {s}
    /\ CASE s \in alive /\ s \notin Alloc ->
              visited' = visited \cup {s} /\ UNCHANGED act
         [] s \in alive /\ s \in Alloc /\ s \in ShouldKeep -> EnqueueSection(s)
         [] OTHER -> UNCHANGED <<visited, act>>
    /\ UNCHANGED <<phase, alive, fragAlive, dsoReach, visitVars, dsos>>

\* collect_root_set, the loops over symbols and over CIEs.  enqueue_symbol
\* ignores symbols that a DSO defines.
EnqueueSymbol(r) ==
    /\ phase \in {"symbols", "cies"} /\ r \in todo
    /\ todo' = todo \ {r}
    /\ CASE r.kind = "frag" ->
              fragAlive' = fragAlive \cup {r.to} /\ UNCHANGED <<visited, act>>
         [] r.kind = "sec" -> UNCHANGED fragAlive /\ EnqueueSection(r.to)
         [] OTHER -> UNCHANGED <<fragAlive, visited, act>>
    /\ UNCHANGED <<phase, alive, dsoReach, visitVars, dsos>>

\* The barrier at the end of a parallel loop.
NextLoop ==
    /\ todo = {}
    /\ \/ phase = "keep" /\ phase' = "symbols" /\ todo' = RootSyms
       \/ phase = "symbols" /\ phase' = "cies" /\ todo' = CieRefs
       \/ phase = "cies" /\ phase' = "mark" /\ todo' = {}
    /\ UNCHANGED <<alive, visited, fragAlive, dsoReach, act, visitVars, dsos>>
-----------------------------------------------------------------------------
\* Mutant of Take: the loop body marks a section that is marked already, and
\* so does not visit it.
TakeUnmarked(s) ==
    /\ phase = "mark" /\ act[s] = "queued"
    /\ act' = [act EXCEPT ![s] = IF Markable(s) THEN "running" ELSE "done"]
    /\ UNCHANGED <<rootVars, alive, visited, fragAlive, dsoReach, visitVars, dsos>>

\* mark()'s loop takes a section from the root set or the feeder.
Take(s) ==
    /\ phase = "mark" /\ act[s] = "queued"
    /\ act' = [act EXCEPT ![s] = "running"]
    /\ scans' = [scans EXCEPT ![s] = @ + 1]
    /\ UNCHANGED <<rootVars, alive, visited, fragAlive, dsoReach, pos, pc, depth,
                   up, fan, dsos>>

\* The visit of s is not inside a call of visit_section.
Free(s) == act[s] = "running" /\ \A t \in Sections : act[t] = "running" => up[t] # s

\* Mark t and visit it from s with the given depth.
MarkAndVisit(s, t, d) ==
    /\ visited' = visited \cup {t}
    /\ act' = [act EXCEPT ![t] = "running"]
    /\ depth' = [depth EXCEPT ![t] = d]
    /\ up' = [up EXCEPT ![t] = s]
    /\ scans' = [scans EXCEPT ![t] = @ + 1]

\* The lambda mark() of visit_section.
MarkTarget(s, t) ==
    IF ~Markable(t) THEN UNCHANGED <<visited, act, depth, up, scans>>
    ELSE IF depth[s] < MaxDepth THEN MarkAndVisit(s, t, depth[s] + 1)
    ELSE /\ visited' = visited \cup {t}
         /\ act' = [act EXCEPT ![t] = "queued"]
         /\ UNCHANGED <<depth, up, scans>>

\* The next relocation of s, up to the return of its call of mark().
VisitRel(s) ==
    /\ Free(s) /\ pc[s] = "mark" /\ pos[s] \in DOMAIN Rels[s]
    /\ LET r == Rels[s][pos[s]] IN
         /\ dsoReach' = IF r.kind = "dso" THEN dsoReach \cup {r.to} ELSE dsoReach
         /\ fragAlive' = IF r.kind = "frag" THEN fragAlive \cup {r.to} ELSE fragAlive
         /\ IF r.kind \in {"sec", "fde"}
              THEN MarkTarget(s, r.to)
              ELSE UNCHANGED <<visited, act, depth, up, scans>>
         /\ IF r.kind = "sec"
              THEN pc' = [pc EXCEPT ![s] = "marked"] /\ UNCHANGED pos
              ELSE pos' = [pos EXCEPT ![s] = @ + 1] /\ UNCHANGED pc
    /\ UNCHANGED <<rootVars, alive, fan, dsos>>

\* The relocation's symbol may be __start_foo: fan out over all of foo.
TestStartStop(s) ==
    /\ Free(s) /\ pc[s] = "marked"
    /\ LET foo == StartStop(Rels[s][pos[s]].ss) IN
         IF foo # {}
           THEN /\ fan' = [fan EXCEPT ![s] = foo]
                /\ pc' = [pc EXCEPT ![s] = "fan"]
                /\ UNCHANGED pos
           ELSE /\ pos' = [pos EXCEPT ![s] = @ + 1]
                /\ pc' = [pc EXCEPT ![s] = "mark"]
                /\ UNCHANGED fan
    /\ UNCHANGED <<rootVars, alive, visited, fragAlive, dsoReach, act, depth, up,
                   scans, dsos>>

\* One iteration of the nested parallel loop, possibly on another thread.
FanOut(s, t) ==
    /\ pc[s] = "fan" /\ t \in fan[s]
    /\ fan' = [fan EXCEPT ![s] = @ \ {t}]
    /\ IF Markable(t) THEN MarkAndVisit(s, t, 0)
                      ELSE UNCHANGED <<visited, act, depth, up, scans>>
    /\ UNCHANGED <<rootVars, alive, fragAlive, dsoReach, pos, pc, dsos>>

\* The nested loop ends when all its iterations have.
Join(s) ==
    /\ Free(s) /\ pc[s] = "fan" /\ fan[s] = {}
    /\ pos' = [pos EXCEPT ![s] = @ + 1]
    /\ pc' = [pc EXCEPT ![s] = "mark"]
    /\ UNCHANGED <<rootVars, alive, visited, fragAlive, dsoReach, act, depth, up,
                   fan, scans, dsos>>

EndVisit(s) ==
    /\ Free(s) /\ pc[s] = "mark" /\ pos[s] \notin DOMAIN Rels[s]
    /\ act' = [act EXCEPT ![s] = "done"]
    /\ UNCHANGED <<rootVars, alive, visited, fragAlive, dsoReach, visitVars, dsos>>

EndMark ==
    /\ phase = "mark"
    /\ \A s \in Sections : act[s] \in {"none", "done"}
    /\ phase' = "sweep"
    /\ UNCHANGED <<todo, alive, visited, fragAlive, dsoReach, act, visitVars, dsos>>

\* kill() also clears the is_alive flags of the section's FDEs, which only
\* EhFrameSection::construct reads.
Sweep(s) ==
    /\ phase = "sweep" /\ s \in alive \ visited
    /\ alive' = alive \ {s}
    /\ UNCHANGED <<rootVars, visited, fragAlive, dsoReach, act, visitVars, dsos>>

\* gc_sections ends by dropping the DSOs that nothing refers to.
EraseDsos ==
    /\ phase = "sweep" /\ alive \subseteq visited
    /\ phase' = "done"
    /\ dsos' = dsos \cap dsoReach
    /\ UNCHANGED <<todo, alive, visited, fragAlive, dsoReach, act, visitVars>>

VisitStep(s) ==
    \/ Take(s) \/ VisitRel(s) \/ TestStartStop(s) \/ Join(s) \/ EndVisit(s)
    \/ \E t \in Sections : FanOut(s, t)

Step ==
    \/ \E s \in Sections : KeepSection(s) \/ VisitStep(s) \/ Sweep(s)
    \/ \E r \in RootSyms \cup CieRefs : EnqueueSymbol(r)
    \/ NextLoop \/ EndMark \/ EraseDsos

Done == phase = "done" /\ UNCHANGED vars

Next == Step \/ Done

Spec == Init /\ [][Next]_vars
-----------------------------------------------------------------------------
TypeOK ==
    /\ phase \in {"keep", "symbols", "cies", "mark", "sweep", "done"}
    /\ todo \subseteq (IF phase = "keep" THEN Sections ELSE Refs)
    /\ alive \subseteq InitAlive /\ visited \subseteq InitAlive
    /\ fragAlive \subseteq Frags /\ dsoReach \subseteq Dsos /\ dsos \subseteq Dsos
    /\ act \in [Sections -> {"none", "queued", "running", "done"}]
    /\ pos \in [Sections -> Nat \ {0}]
    /\ pc \in [Sections -> {"mark", "marked", "fan"}]
    /\ depth \in [Sections -> 0 .. MaxDepth]
    /\ up \in [Sections -> Sections \cup {None}]
    /\ fan \in [Sections -> SUBSET Sections]
    /\ scans \in [Sections -> Nat]

\* What a reference keeps alive, and what the relocations and FDEs of s do.
RefTargets(r) == CASE r.kind = "fde" -> {r.to}
                   [] r.kind = "sec" -> {r.to} \cup StartStop(r.ss)
                   [] OTHER -> {}
Targets(s) == UNION {RefTargets(Rels[s][i]) : i \in DOMAIN Rels[s]}

\* The sections that are kept whatever refers to them.
Roots ==
    InitAlive \cap (  (Sections \ Alloc) \cup ShouldKeep
                      \cup {r.to : r \in {q \in RootSyms \cup CieRefs : q.kind = "sec"}})

ClosedUnderRefs(C) ==
    /\ Roots \subseteq C
    /\ \A s \in C \cap Alloc : Targets(s) \cap InitAlive \subseteq C

\* The pass leaves alive exactly the sections of the least set that holds the
\* roots and what its SHF_ALLOC members refer to, whichever threads reached
\* them first: "any section that is reachable from a root section".
KeepsExactlyReachable ==
    phase = "done" =>
      /\ ClosedUnderRefs(alive)
      /\ \A C \in SUBSET InitAlive : ClosedUnderRefs(C) => alive \subseteq C

\* visit_section is called at most once for a section: the test-and-set of
\* IS_VISITED elects one visitor however many threads reach it together.
ScannedOnce == \A s \in Sections : scans[s] <= 1

\* What the relocations of the SHF_ALLOC sections of S name.
Named(S, kind) ==
    UNION {{Rels[s][i].to : i \in {j \in DOMAIN Rels[s] : Rels[s][j].kind = kind}}
           : s \in S \cap Alloc}

\* What the relocations of CIEs name.
NamedByCies(kind) == {r.to : r \in {q \in CieRefs : q.kind = kind}}

\* A fragment survives iff a live section, a root symbol or a CIE refers to
\* it.  Of the as-needed DSOs those survive that a live section refers to, and
\* dead sections count for nothing.  A DSO that only CIEs refer to is left
\* open: "We just keep all CIEs and everything that are referenced by them",
\* while enqueue_symbol ignores the symbols of DSOs.
KeepsExactlyReferenced ==
    phase = "done" =>
      /\ fragAlive = Named(alive, "frag") \cup NamedByCies("frag")
           \cup {r.to : r \in {q \in RootSyms : q.kind = "frag"}}
      /\ Named(alive, "dso") \cup NeededDsos \subseteq dsos
      /\ dsos \subseteq Named(alive, "dso") \cup NeededDsos \cup NamedByCies("dso")
=============================================================================
