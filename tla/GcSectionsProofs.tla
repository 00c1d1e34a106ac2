-------------------------- MODULE GcSectionsProofs --------------------------
(***************************************************************************)
(* Marking and sweeping preserve the inductive invariant of GcRootsProofs, *)
(* from which the theorems on what the collector keeps follow.             *)
(***************************************************************************)
EXTENDS GcRootsProofs

LEMMA TakeInv ==
    ASSUME IInv, NEW s \in Sections, Take(s)
    PROVE  IInv'
<1>0. /\ TypeOK /\ phase = "mark" /\ act[s] = "queued"
      /\ UNCHANGED <<phase, todo, alive, visited, fragAlive, dsoReach, pos, pc, depth, up, fan, dsos>>
      /\ act' = [act EXCEPT ![s] = "running"]
      /\ scans' = [scans EXCEPT ![s] = @ + 1]
  BY DEF IInv, Take, rootVars
<1>1. /\ act'[s] = "running" /\ scans'[s] = scans[s] + 1
      /\ \A u \in Sections : u # s => act'[u] = act[u] /\ scans'[u] = scans[u]
      /\ act' \in [Sections -> {"none", "queued", "running", "done"}]
      /\ scans' \in [Sections -> Nat]
  BY <1>0 DEF TypeOK
<1>2. TypeOK' /\ Phases'
  BY <1>0, <1>1 DEF TypeOK, Phases, IInv
<1>3. RootsMarked' /\ Sound'
  BY <1>0 DEF RootsMarked, Sound, IInv
<1>4. Colours'
  BY <1>0, <1>1 DEF Colours, IInv
<1>5. Progress'
  BY <1>0, <1>1 DEF Progress, IInv
<1> QED BY <1>2, <1>3, <1>4, <1>5 DEF IInv

\* What the call of mark() inside a visit does: nothing, or t is marked and
\* either visited at once or left to the feeder.
LEMMA MarkTargetStep ==
    ASSUME IInv, NEW s \in Sections, act[s] = "running",
           NEW t, t \in RefTargets(Rels[s][pos[s]]),
           pos[s] \in DOMAIN Rels[s], alive' = alive,
           \/ MarkTarget(s, t)
           \/ Markable(t) /\ MarkAndVisit(s, t, 0)
           \/ ~Markable(t) /\ UNCHANGED <<visited, act, depth, up, scans>>
    PROVE  /\ Colours' /\ Sound'
           /\ visited \subseteq visited' /\ {t} \cap InitAlive \subseteq visited'
           /\ visited' \subseteq InitAlive
           /\ act' \in [Sections -> {"none", "queued", "running", "done"}]
           /\ \A u \in Sections : \/ act'[u] = act[u]
                                  \/ act[u] = "none" /\ act'[u] \in {"queued", "running"}
           /\ depth' \in [Sections -> 0 .. MaxDepth]
           /\ up' \in [Sections -> Sections \cup {None}]
           /\ scans' \in [Sections -> Nat]
<1>0. /\ TypeOK /\ phase = "mark" /\ alive = InitAlive /\ s \in visited \cap Alloc
  BY DEF IInv, Phases, Colours
<1>1. CASE ~Markable(t)
  <2>1. UNCHANGED <<visited, act, depth, up, scans>>
    BY <1>1 DEF MarkTarget
  <2>2. Colours' /\ Sound'
    BY <2>1 DEF Colours, Sound, IInv
  <2>3. {t} \cap InitAlive \subseteq visited
    BY <1>0, <1>1 DEF Markable
  <2> QED BY <1>0, <2>1, <2>2, <2>3 DEF TypeOK
<1>2. CASE Markable(t)
  <2>1. t \in InitAlive \ visited /\ t \in Alloc /\ t \in Sections
    BY <1>0, <1>2, MarkableIsAlloc
  <2>2. PICK a \in {"queued", "running"} :
          /\ visited' = visited \cup {t}
          /\ act' = [act EXCEPT ![t] = a]
          /\ scans' = IF a = "running" THEN [scans EXCEPT ![t] = @ + 1] ELSE scans
    BY <1>2 DEF MarkTarget, MarkAndVisit
  <2>3. /\ Colours'
        /\ act[t] = "none" /\ act'[t] = a
        /\ \A u \in Sections : u # t => act'[u] = act[u]
        /\ act' \in [Sections -> {"none", "queued", "running", "done"}]
        /\ visited' \subseteq InitAlive
        /\ scans' \in [Sections -> Nat]
    BY Zenon, <2>1, <2>2, MarkOne
  <2>4. \A C \in SUBSET InitAlive : ClosedUnderRefs(C) => t \in C
    BY <1>0, <2>1, TargetIsNeeded
  <2>5. Sound'
    BY <2>2, <2>4, MarkSound
  <2>6. /\ depth' \in [Sections -> 0 .. MaxDepth]
        /\ up' \in [Sections -> Sections \cup {None}]
    <3>1. \/ depth' = depth /\ up' = up
          \/ \E d \in 0 .. MaxDepth : /\ depth' = [depth EXCEPT ![t] = d]
                                       /\ up' = [up EXCEPT ![t] = s]
      <4>1. depth[s] \in 0 .. MaxDepth
        BY <1>0 DEF TypeOK
      <4>2. CASE MarkAndVisit(s, t, 0)
        <5>1. 0 \in 0 .. MaxDepth
          BY GcAssumption
        <5>2. depth' = [depth EXCEPT ![t] = 0] /\ up' = [up EXCEPT ![t] = s]
          BY <4>2 DEF MarkAndVisit
        <5> QED BY Zenon, <5>1, <5>2
      <4>3. CASE MarkTarget(s, t)
        <5>1. CASE depth[s] < MaxDepth
          <6>1. MarkAndVisit(s, t, depth[s] + 1) /\ depth[s] + 1 \in 0 .. MaxDepth
            BY <1>2, <4>1, <4>3, <5>1, GcAssumption DEF MarkTarget
          <6> QED BY Zenon, <6>1 DEF MarkAndVisit
        <5>2. CASE ~(depth[s] < MaxDepth)
          BY <1>2, <4>3, <5>2 DEF MarkTarget
        <5> QED BY <5>1, <5>2
      <4> QED BY <1>2, <4>2, <4>3
    <3> QED BY <1>0, <2>1, <3>1 DEF TypeOK
  <2> QED BY <2>2, <2>3, <2>5, <2>6
<1> QED BY <1>1, <1>2

\* A relocation of a visited section, up to the return of mark().
LEMMA VisitRelInv ==
    ASSUME IInv, NEW s \in Sections, VisitRel(s)
    PROVE  IInv'
<1> DEFINE r == Rels[s][pos[s]]
<1>0. /\ TypeOK /\ act[s] = "running" /\ phase = "mark" /\ alive = InitAlive
      /\ pc[s] = "mark" /\ pos[s] \in DOMAIN Rels[s] /\ r \in Refs
      /\ s \in visited \cap Alloc
      /\ UNCHANGED <<phase, todo, alive, fan, dsos>>
  BY RelsShape DEF IInv, VisitRel, Free, rootVars, Phases, Colours
<1>1. fragAlive' \subseteq Frags /\ dsoReach' \subseteq Dsos
  BY SMTT(30), <1>0, RefShape DEF VisitRel, TypeOK
<1>2. /\ Colours' /\ Sound'
      /\ visited \subseteq visited'
      /\ r.kind \in {"sec", "fde"} => {r.to} \cap InitAlive \subseteq visited'
      /\ visited' \subseteq InitAlive
      /\ act' \in [Sections -> {"none", "queued", "running", "done"}]
      /\ \A u \in Sections : \/ act'[u] = act[u]
                             \/ act[u] = "none" /\ act'[u] \in {"queued", "running"}
      /\ depth' \in [Sections -> 0 .. MaxDepth]
      /\ up' \in [Sections -> Sections \cup {None}]
      /\ scans' \in [Sections -> Nat]
  <2>1. CASE r.kind \in {"sec", "fde"}
    <3>1. r.to \in RefTargets(r) /\ MarkTarget(s, r.to)
      BY <2>1 DEF RefTargets, VisitRel
    <3> QED BY <1>0, <3>1, MarkTargetStep
  <2>2. CASE r.kind \notin {"sec", "fde"}
    <3>1. UNCHANGED <<visited, act, depth, up, scans>>
      BY <2>2 DEF VisitRel
    <3>2. Colours' /\ Sound'
      BY <3>1 DEF Colours, Sound, IInv
    <3> QED BY SMTT(30), <1>0, <2>2, <3>1, <3>2 DEF TypeOK
  <2> QED BY <2>1, <2>2
<1>3. /\ pos' \in [Sections -> Nat \ {0}] /\ pc' \in [Sections -> {"mark", "marked", "fan"}]
      /\ \A u \in Sections : u # s => pos'[u] = pos[u] /\ pc'[u] = pc[u]
      /\ IF r.kind = "sec" THEN pc'[s] = "marked" /\ pos'[s] = pos[s]
                           ELSE pc'[s] = "mark" /\ pos'[s] = pos[s] + 1
  BY <1>0 DEF VisitRel, TypeOK
<1>4. TypeOK' /\ Phases'
  BY <1>0, <1>1, <1>2, <1>3 DEF TypeOK, Phases, IInv
<1>5. RootsMarked'
  BY <1>0, <1>2, MarkingIsMonotone
<1>6. Progress'
  <2> SUFFICES ASSUME NEW u \in Sections
               PROVE  /\ pc'[u] # "mark" => /\ act'[u] = "running" /\ pos'[u] \in DOMAIN Rels[u]
                                            /\ Rels[u][pos'[u]].kind = "sec"
                                            /\ {Rels[u][pos'[u]].to} \cap InitAlive \subseteq visited'
                      /\ pc'[u] = "fan" => /\ fan'[u] \subseteq StartStop(Rels[u][pos'[u]].ss)
                                           /\ StartStop(Rels[u][pos'[u]].ss) \subseteq visited' \cup fan'[u]
                      /\ act'[u] = "done" => pos'[u] \notin DOMAIN Rels[u]
                      /\ \A i \in DOMAIN Rels[u] :
                           i < pos'[u] => RefTargets(Rels[u][i]) \cap InitAlive \subseteq visited'
    BY DEF Progress, StartStop, RefTargets
  <2>1. CASE u # s
    BY <1>0, <1>2, <1>3, <2>1 DEF IInv, Progress
  <2>2. CASE u = s
    <3>1. act'[s] = "running"
      BY SMTT(30), <1>0, <1>2
    <3>2. \A i \in DOMAIN Rels[s] :
             i < pos[s] => RefTargets(Rels[s][i]) \cap InitAlive \subseteq visited'
      BY <1>2 DEF IInv, Progress
    <3>3. CASE r.kind = "sec"
      BY <1>0, <1>2, <1>3, <2>2, <3>1, <3>2, <3>3
    <3>4. CASE r.kind # "sec"
      <4>1. RefTargets(r) \cap InitAlive \subseteq visited'
        BY <1>0, <1>2, <3>4 DEF RefTargets
      <4>2. \A i \in DOMAIN Rels[s] : i < pos[s] + 1 => i < pos[s] \/ i = pos[s]
        BY SMTT(30), <1>0, RelsShape DEF TypeOK
      <4> QED BY <1>3, <2>2, <3>1, <3>2, <3>4, <4>1, <4>2
    <3> QED BY <3>3, <3>4
  <2> QED BY <2>1, <2>2
<1> QED BY <1>2, <1>4, <1>5, <1>6 DEF IInv

\* Moving on after a relocation whose targets are all marked.
LEMMA AdvanceInv ==
    ASSUME IInv, NEW s \in Sections, act[s] = "running", pc[s] # "mark",
           StartStop(Rels[s][pos[s]].ss) \subseteq visited,
           pos' = [pos EXCEPT ![s] = @ + 1], pc' = [pc EXCEPT ![s] = "mark"],
           UNCHANGED <<phase, todo, alive, visited, fragAlive, dsoReach, act, depth, up,
                       fan, scans, dsos>>
    PROVE  IInv'
<1>0. /\ TypeOK
      /\ pos'[s] = pos[s] + 1 /\ pc'[s] = "mark"
      /\ \A u \in Sections : u # s => pos'[u] = pos[u] /\ pc'[u] = pc[u]
      /\ pos' \in [Sections -> Nat \ {0}] /\ pc' \in [Sections -> {"mark", "marked", "fan"}]
  BY SMTT(30) DEF IInv, TypeOK
<1>1. TypeOK' /\ Phases' /\ RootsMarked' /\ Colours' /\ Sound'
  BY SMTT(30), <1>0 DEF TypeOK, Phases, RootsMarked, Colours, Sound, IInv
<1>2. Progress'
  <2>1. RefTargets(Rels[s][pos[s]]) \cap InitAlive \subseteq visited
    BY DEF IInv, Progress, RefTargets
  <2>2. \A i \in DOMAIN Rels[s] : i < pos[s] + 1 => i < pos[s] \/ i = pos[s]
    BY <1>0, RelsShape DEF TypeOK
  <2>3. \A i \in DOMAIN Rels[s] :
           i < pos'[s] => RefTargets(Rels[s][i]) \cap InitAlive \subseteq visited
    BY <1>0, <2>1, <2>2 DEF IInv, Progress
  <2> QED BY <1>0, <2>3 DEF IInv, Progress
<1> QED BY <1>1, <1>2 DEF IInv

\* __start_foo: the nested loop is given the sections named foo.
LEMMA TestStartStopInv ==
    ASSUME IInv, NEW s \in Sections, TestStartStop(s)
    PROVE  IInv'
<1> DEFINE foo == StartStop(Rels[s][pos[s]].ss)
<1>0. /\ TypeOK /\ act[s] = "running" /\ pc[s] = "marked"
      /\ UNCHANGED <<phase, todo, alive, visited, fragAlive, dsoReach, act, depth, up, scans, dsos>>
  BY DEF IInv, TestStartStop, Free, rootVars
<1>1. CASE foo = {}
  BY <1>0, <1>1, AdvanceInv DEF TestStartStop
<1>2. CASE foo # {}
  <2>1. /\ fan' = [fan EXCEPT ![s] = foo] /\ pc' = [pc EXCEPT ![s] = "fan"] /\ pos' = pos
        /\ foo \subseteq Sections
    BY <1>2, GcAssumption DEF TestStartStop, StartStop
  <2>2. /\ fan'[s] = foo /\ pc'[s] = "fan"
        /\ \A u \in Sections : u # s => fan'[u] = fan[u] /\ pc'[u] = pc[u]
        /\ fan' \in [Sections -> SUBSET Sections] /\ pc' \in [Sections -> {"mark", "marked", "fan"}]
    BY SMTT(30), <1>0, <2>1 DEF TypeOK
  <2>3. TypeOK' /\ Phases'
    BY SMTT(30), <1>0, <2>1, <2>2 DEF TypeOK, Phases, IInv
  <2>4. RootsMarked' /\ Colours' /\ Sound'
    BY SMTT(30), <1>0 DEF RootsMarked, Colours, Sound, IInv
  <2>5. Progress'
    BY <1>0, <2>1, <2>2 DEF IInv, Progress
  <2> QED BY <2>3, <2>4, <2>5 DEF IInv
<1> QED BY <1>1, <1>2

\* An iteration of the nested loop.
LEMMA FanOutInv ==
    ASSUME IInv, NEW s \in Sections, NEW t \in Sections, FanOut(s, t)
    PROVE  IInv'
<1> DEFINE r == Rels[s][pos[s]]
<1>0. /\ TypeOK /\ act[s] = "running" /\ phase = "mark"
      /\ pc[s] = "fan" /\ pos[s] \in DOMAIN Rels[s] /\ t \in fan[s]
      /\ t \in StartStop(r.ss) /\ r.kind = "sec"
      /\ UNCHANGED <<phase, todo, alive, fragAlive, dsoReach, pos, pc, dsos>>
  BY DEF IInv, FanOut, rootVars, Progress, Phases
<1>1. t \in RefTargets(r) /\ t \in InitAlive
  BY SMTT(30), <1>0 DEF RefTargets, StartStop
<1>2. /\ Colours' /\ Sound'
      /\ visited \subseteq visited' /\ t \in visited'
      /\ visited' \subseteq InitAlive
      /\ act' \in [Sections -> {"none", "queued", "running", "done"}]
      /\ \A u \in Sections : \/ act'[u] = act[u]
                             \/ act[u] = "none" /\ act'[u] \in {"queued", "running"}
      /\ depth' \in [Sections -> 0 .. MaxDepth]
      /\ up' \in [Sections -> Sections \cup {None}]
      /\ scans' \in [Sections -> Nat]
  <2>1. \/ Markable(t) /\ MarkAndVisit(s, t, 0)
        \/ ~Markable(t) /\ UNCHANGED <<visited, act, depth, up, scans>>
    BY DEF FanOut
  <2> QED BY SMTT(30), <1>0, <1>1, <2>1, MarkTargetStep
<1>3. /\ fan'[s] = fan[s] \ {t}
      /\ \A u \in Sections : u # s => fan'[u] = fan[u]
      /\ fan' \in [Sections -> SUBSET Sections]
  BY SMTT(30), <1>0 DEF FanOut, TypeOK
<1>4. TypeOK' /\ Phases'
  BY SMTT(30), <1>0, <1>2, <1>3 DEF TypeOK, Phases, IInv
<1>5. RootsMarked'
  BY ZenonT(30), <1>0, <1>2, MarkingIsMonotone
<1>6. Progress'
  BY SMTT(30), <1>0, <1>2, <1>3 DEF IInv, Progress
<1> QED BY SMTT(30), <1>2, <1>4, <1>5, <1>6 DEF IInv

LEMMA JoinInv ==
    ASSUME IInv, NEW s \in Sections, Join(s)
    PROVE  IInv'
<1>1. StartStop(Rels[s][pos[s]].ss) \subseteq visited
  BY Zenon DEF IInv, Progress, Join
<1> QED BY Zenon, <1>1, AdvanceInv DEF Join, Free, rootVars

LEMMA EndVisitInv ==
    ASSUME IInv, NEW s \in Sections, EndVisit(s)
    PROVE  IInv'
<1>0. /\ TypeOK /\ act[s] = "running" /\ pc[s] = "mark" /\ pos[s] \notin DOMAIN Rels[s]
      /\ act' = [act EXCEPT ![s] = "done"]
      /\ UNCHANGED <<phase, todo, alive, visited, fragAlive, dsoReach, pos, pc, depth, up, fan, scans, dsos>>
  BY DEF IInv, EndVisit, Free, rootVars, visitVars
<1>1. /\ act'[s] = "done"
      /\ \A u \in Sections : u # s => act'[u] = act[u]
      /\ act' \in [Sections -> {"none", "queued", "running", "done"}]
  BY SMTT(30), <1>0 DEF TypeOK
<1>2. TypeOK' /\ Phases'
  BY SMTT(30), <1>0, <1>1 DEF TypeOK, Phases, IInv
<1>3. RootsMarked' /\ Sound'
  BY Zenon, <1>0 DEF RootsMarked, Sound, IInv
<1>4. Colours' /\ Progress'
  BY <1>0, <1>1 DEF Colours, Progress, IInv
<1> QED BY <1>2, <1>3, <1>4 DEF IInv

\* The end of marking, the sweep and the removal of DSOs.
LEMMA SweepInv ==
    ASSUME IInv, EndMark \/ EraseDsos \/ \E s \in Sections : Sweep(s)
    PROVE  IInv'
<1>0. /\ TypeOK
      /\ UNCHANGED <<todo, visited, fragAlive, dsoReach, act, pos, pc, depth, up, fan, scans>>
  BY DEF IInv, EndMark, EraseDsos, Sweep, rootVars, visitVars
<1>1. /\ phase \in {"mark", "sweep"} /\ phase' \in {"sweep", "done"}
      /\ alive' \subseteq alive /\ visited \subseteq alive' /\ dsos' \subseteq dsos
      /\ \A s \in Sections : act[s] \in {"none", "done"}
      /\ phase' = "done" => alive' \subseteq visited
  BY DEF IInv, TypeOK, Phases, EndMark, EraseDsos, Sweep, rootVars
<1>2. TypeOK' /\ Phases' /\ RootsMarked'
  BY SMTT(30), <1>0, <1>1 DEF TypeOK, Phases, RootsMarked, IInv
<1>3. Colours' /\ Progress' /\ Sound'
  BY SMTT(30), <1>0 DEF Colours, Progress, Sound, IInv
<1> QED BY <1>2, <1>3 DEF IInv

LEMMA GcStutterInv ==
    ASSUME IInv, UNCHANGED vars
    PROVE  IInv'
BY ZenonT(30) DEF vars, IInv, TypeOK, Phases, RootsMarked, Colours, Progress, Sound

\* Every step of the pass preserves the inductive invariant.
LEMMA GcNextInv == IInv /\ [Next]_vars => IInv'
<1> SUFFICES ASSUME IInv, [Next]_vars PROVE IInv'
  OBVIOUS
<1>1. ASSUME NEW s \in Sections, KeepSection(s) \/ VisitStep(s) \/ Sweep(s)
      PROVE  IInv'
  BY <1>1, KeepSectionInv, TakeInv, VisitRelInv, TestStartStopInv, FanOutInv, JoinInv,
     EndVisitInv, SweepInv DEF VisitStep
<1>2. ASSUME NEW r \in RootSyms \cup CieRefs, EnqueueSymbol(r)
      PROVE  IInv'
  BY <1>2, EnqueueSymbolInv
<1>3. CASE NextLoop \/ EndMark \/ EraseDsos
  BY <1>3, NextLoopInv, SweepInv
<1>4. CASE UNCHANGED vars
  BY <1>4, GcStutterInv
<1> QED BY <1>1, <1>2, <1>3, <1>4 DEF Next, Step, Done
-----------------------------------------------------------------------------
\* The inductive invariant holds in every reachable state.
THEOREM GcInductive == Spec => []IInv
BY GcInitInv, GcNextInv, PTL DEF Spec

\* The collector's variables keep their types; in particular visit_section
\* never recurses deeper than its limit.
THEOREM GcTypeCorrect == Spec => []TypeOK
<1>1. IInv => TypeOK
  BY DEF IInv
<1> QED BY <1>1, GcInductive, PTL

\* visit_section scans no section twice, however threads interleave.
THEOREM EachScannedOnce == Spec => []ScannedOnce
<1>1. IInv => ScannedOnce
  BY DEF IInv, Colours, ScannedOnce
<1> QED BY <1>1, GcInductive, PTL

\* gc_sections leaves alive exactly what is reachable from the roots, for
\* every reference graph, cycles and start/stop references included.
THEOREM ExactlyReachableIsKept == Spec => []KeepsExactlyReachable
<1>1. ASSUME IInv, phase = "done"
      PROVE  /\ ClosedUnderRefs(alive)
             /\ \A C \in SUBSET InitAlive : ClosedUnderRefs(C) => alive \subseteq C
  <2>0. TypeOK /\ alive = visited
    BY <1>1 DEF IInv, Phases
  <2>1. Roots \subseteq alive
    BY <1>1, <2>0 DEF IInv, RootsMarked, Roots, AlwaysKept, SecTargets
  <2>2. ASSUME NEW s \in alive \cap Alloc
        PROVE  Targets(s) \cap InitAlive \subseteq alive
    <3>1. s \in Sections /\ act[s] = "done"
      BY <1>1, <2>0, GcAssumption DEF IInv, Phases, Colours, TypeOK
    <3>2. \A i \in DOMAIN Rels[s] : i < pos[s]
      BY SMTT(30), <1>1, <2>0, <3>1, RelsShape DEF IInv, Progress, TypeOK
    <3>3. \A i \in DOMAIN Rels[s] : RefTargets(Rels[s][i]) \cap InitAlive \subseteq alive
      BY <1>1, <2>0, <3>1, <3>2 DEF IInv, Progress
    <3> QED BY <3>3 DEF Targets
  <2>3. ClosedUnderRefs(alive)
    BY <2>1, <2>2 DEF ClosedUnderRefs
  <2> QED BY <1>1, <2>0, <2>3 DEF IInv, Sound
<1>2. IInv => KeepsExactlyReachable
  BY <1>1 DEF KeepsExactlyReachable
<1> QED BY <1>2, GcInductive, PTL
=============================================================================
