--------------------------- MODULE GcRootsProofs ---------------------------
(***************************************************************************)
(* Proofs about the garbage collector, for every set of sections and every *)
(* reference graph.                                                        *)
(*                                                                         *)
(* It is the argument for a tri-colour marker.  A section of SHF_ALLOC is  *)
(* marked iff it has been given to somebody to visit (Colours), what a     *)
(* visit has passed is marked (Progress), and nothing is marked that a     *)
(* closed set could do without (Sound).  Since a marked section is queued, *)
(* running or done, the end of the loop leaves only done ones.             *)
(*                                                                         *)
(* This module has the inductive invariant and the root set; marking is in *)
(* GcSectionsProofs.                                                       *)
(***************************************************************************)
EXTENDS GcSections, TLAPS

SecTargets(R) == {r.to : r \in {q \in R : q.kind = "sec"}}
AlwaysKept == InitAlive \cap ((Sections \ Alloc) \cup ShouldKeep)

\* What the phase says about the other variables.
Phases ==
    /\ phase = "keep" => todo \subseteq Sections
    /\ phase = "symbols" => todo \subseteq RootSyms
    /\ phase = "cies" => todo \subseteq CieRefs
    /\ phase \notin {"sweep", "done"} => alive = InitAlive
    /\ phase \in {"sweep", "done"} =>
         visited \subseteq alive /\ \A s \in Sections : act[s] \in {"none", "done"}
    /\ phase = "done" => alive \subseteq visited
    /\ \A s \in Sections : act[s] = "running" => phase = "mark"

\* The roots that the finished loops, and the finished part of the running
\* one, have marked.
RootsMarked ==
    /\ (IF phase = "keep" THEN AlwaysKept \ todo ELSE AlwaysKept) \subseteq visited
    /\ phase # "keep" =>
         InitAlive \cap SecTargets(IF phase = "symbols" THEN RootSyms \ todo ELSE RootSyms)
           \subseteq visited
    /\ phase \notin {"keep", "symbols"} =>
         InitAlive \cap SecTargets(IF phase = "cies" THEN CieRefs \ todo ELSE CieRefs)
           \subseteq visited

\* A marked section is visited by somebody, unless it is not SHF_ALLOC; a
\* section is scanned when its visit starts.
Colours ==
    \A s \in Sections :
        /\ act[s] # "none" <=> s \in visited \cap Alloc
        /\ scans[s] = IF act[s] \in {"running", "done"} THEN 1 ELSE 0

\* What a visit has passed is marked.
Progress ==
    \A s \in Sections :
        /\ pc[s] # "mark" => /\ act[s] = "running" /\ pos[s] \in DOMAIN Rels[s]
                             /\ Rels[s][pos[s]].kind = "sec"
                             /\ {Rels[s][pos[s]].to} \cap InitAlive \subseteq visited
        /\ pc[s] = "fan" => /\ fan[s] \subseteq StartStop(Rels[s][pos[s]].ss)
                            /\ StartStop(Rels[s][pos[s]].ss) \subseteq visited \cup fan[s]
        /\ act[s] = "done" => pos[s] \notin DOMAIN Rels[s]
        /\ \A i \in DOMAIN Rels[s] :
             i < pos[s] => RefTargets(Rels[s][i]) \cap InitAlive \subseteq visited

\* Nothing is marked in vain.
Sound == \A C \in SUBSET InitAlive : ClosedUnderRefs(C) => visited \subseteq C

IInv == TypeOK /\ Phases /\ RootsMarked /\ Colours /\ Progress /\ Sound
-----------------------------------------------------------------------------
\* The shape of references.
LEMMA RefShape ==
    ASSUME NEW r \in Refs
    PROVE  /\ r.kind \in {"sec", "fde", "frag", "dso"}
           /\ r.kind \in {"sec", "fde"} => r.to \in Sections \cup {None}
           /\ r.kind = "frag" => r.to \in Frags
           /\ r.kind = "dso" => r.to \in Dsos
BY DEF Refs

\* The references of a section are a sequence.
LEMMA RelsShape ==
    ASSUME NEW s \in Sections
    PROVE  /\ Len(Rels[s]) \in Nat
           /\ DOMAIN Rels[s] = 1 .. Len(Rels[s])
           /\ \A i \in DOMAIN Rels[s] : Rels[s][i] \in Refs
BY GcAssumption

LEMMA GcInitInv == Init => IInv
<1> SUFFICES ASSUME Init PROVE IInv
  OBVIOUS
<1>1. TypeOK
  BY GcAssumption DEF Init, TypeOK, ResetDsos
<1>2. Phases /\ RootsMarked /\ Sound
  BY GcAssumption DEF Init, Phases, RootsMarked, AlwaysKept, Sound
<1>3. Colours
  BY DEF Init, Colours
<1>4. Progress
  BY RelsShape DEF Init, Progress
<1> QED BY <1>1, <1>2, <1>3, <1>4 DEF IInv

\* Marking more keeps what has been achieved.
LEMMA MarkingIsMonotone ==
    ASSUME IInv, visited \subseteq visited', UNCHANGED <<phase, todo>>
    PROVE  RootsMarked'
BY DEF IInv, RootsMarked

\* Marking one section of SHF_ALLOC and giving it to a visit.
LEMMA MarkOne ==
    ASSUME IInv, NEW t \in InitAlive \ visited, t \in Alloc,
           NEW a \in {"queued", "running"},
           visited' = visited \cup {t},
           act' = [act EXCEPT ![t] = a],
           scans' = IF a = "running" THEN [scans EXCEPT ![t] = @ + 1] ELSE scans
    PROVE  /\ Colours'
           /\ act[t] = "none" /\ act'[t] = a
           /\ \A u \in Sections : u # t => act'[u] = act[u]
           /\ act' \in [Sections -> {"none", "queued", "running", "done"}]
           /\ visited' \subseteq InitAlive
           /\ scans' \in [Sections -> Nat]
<1>0. TypeOK /\ t \in Sections
  BY GcAssumption DEF IInv
<1>1. /\ act[t] = "none" /\ act'[t] = a /\ scans[t] = 0
      /\ \A u \in Sections : u # t => act'[u] = act[u]
      /\ act' \in [Sections -> {"none", "queued", "running", "done"}]
      /\ visited' \subseteq InitAlive
  BY <1>0 DEF TypeOK, IInv, Colours
<1>2. /\ scans' \in [Sections -> Nat]
      /\ scans'[t] = IF a = "running" THEN 1 ELSE 0
      /\ \A u \in Sections : u # t => scans'[u] = scans[u]
  BY <1>0, <1>1 DEF TypeOK
<1>3. Colours'
  BY <1>0, <1>1, <1>2 DEF Colours, IInv
<1> QED BY <1>1, <1>2, <1>3

\* Once the first loop is over, only SHF_ALLOC sections are left to mark.
LEMMA MarkableIsAlloc ==
    ASSUME IInv, phase # "keep", NEW t, Markable(t)
    PROVE  t \in InitAlive \ visited /\ t \in Alloc /\ t \in Sections
BY GcAssumption DEF IInv, TypeOK, Markable, RootsMarked, AlwaysKept

\* Marking a section that every closed set holds is sound.
LEMMA MarkSound ==
    ASSUME IInv, NEW t, visited' \subseteq visited \cup {t},
           \A C \in SUBSET InitAlive : ClosedUnderRefs(C) => t \in C
    PROVE  Sound'
BY DEF IInv, Sound, ClosedUnderRefs, Roots, Targets, RefTargets, StartStop

\* Roots, and what a marked section refers to, are in every closed set.
LEMMA RootIsNeeded ==
    ASSUME NEW t \in Roots, NEW C, ClosedUnderRefs(C)
    PROVE  t \in C
BY DEF ClosedUnderRefs

LEMMA TargetIsNeeded ==
    ASSUME IInv, NEW s \in visited \cap Alloc, NEW i \in DOMAIN Rels[s],
           NEW t \in RefTargets(Rels[s][i]) \cap InitAlive,
           NEW C \in SUBSET InitAlive, ClosedUnderRefs(C)
    PROVE  t \in C
<1>1. s \in C
  BY DEF IInv, Sound
<1>2. t \in Targets(s)
  BY DEF Targets
<1> QED BY <1>1, <1>2 DEF ClosedUnderRefs

\* The first loop of collect_root_set.
LEMMA KeepSectionInv ==
    ASSUME IInv, NEW s \in Sections, KeepSection(s)
    PROVE  IInv'
<1>0. /\ TypeOK /\ phase = "keep" /\ s \in todo /\ alive = InitAlive
      /\ todo' = todo \ {s}
      /\ UNCHANGED <<phase, alive, fragAlive, dsoReach, pos, pc, depth, up, fan, scans, dsos>>
  BY DEF IInv, Phases, KeepSection, visitVars
<1>1. CASE s \in AlwaysKept /\ s \in Alloc /\ s \notin visited
  <2>1. visited' = visited \cup {s} /\ act' = [act EXCEPT ![s] = "queued"]
    BY <1>0, <1>1 DEF KeepSection, EnqueueSection, Markable, AlwaysKept
  <2>2. /\ Colours'
        /\ act'[s] = "queued" /\ act[s] = "none"
        /\ \A u \in Sections : u # s => act'[u] = act[u]
        /\ act' \in [Sections -> {"none", "queued", "running", "done"}]
        /\ visited' \subseteq InitAlive
    BY ZenonT(30), <1>0, <1>1, <2>1, MarkOne DEF AlwaysKept
  <2>3. TypeOK' /\ Phases'
    BY <1>0, <2>2 DEF TypeOK, Phases, IInv
  <2>4. RootsMarked'
    BY <1>0, <2>1 DEF RootsMarked, IInv
  <2>5. Progress'
    BY <1>0, <2>1, <2>2 DEF Progress, IInv
  <2>6. Sound'
    BY <1>1, <2>1, MarkSound, RootIsNeeded DEF AlwaysKept, Roots
  <2> QED BY <2>2, <2>3, <2>4, <2>5, <2>6 DEF IInv
<1>2. CASE s \in AlwaysKept /\ s \notin Alloc
  <2>1. visited' = visited \cup {s} /\ act' = act
    BY <1>0, <1>2 DEF KeepSection, AlwaysKept
  <2>2. TypeOK' /\ Phases' /\ RootsMarked' /\ Colours'
    BY <1>0, <1>2, <2>1 DEF TypeOK, Phases, RootsMarked, Colours, AlwaysKept, IInv
  <2>3. Progress'
    BY <1>0, <2>1 DEF Progress, IInv
  <2>4. Sound'
    BY <1>2, <2>1, MarkSound, RootIsNeeded DEF AlwaysKept, Roots
  <2> QED BY <2>2, <2>3, <2>4 DEF IInv
<1>3. CASE s \notin AlwaysKept \/ (s \in Alloc /\ s \in visited)
  <2>1. visited' = visited /\ act' = act
    BY <1>0, <1>3 DEF KeepSection, EnqueueSection, Markable, AlwaysKept
  <2>2. TypeOK' /\ Phases' /\ RootsMarked' /\ Colours'
    BY <1>0, <1>3, <2>1 DEF TypeOK, Phases, RootsMarked, Colours, IInv
  <2>3. Progress' /\ Sound'
    BY <1>0, <2>1 DEF Progress, Sound, IInv
  <2> QED BY <2>2, <2>3 DEF IInv
<1> QED BY <1>1, <1>2, <1>3

\* Its loops over symbols and CIEs.
LEMMA EnqueueSymbolInv ==
    ASSUME IInv, NEW r \in RootSyms \cup CieRefs, EnqueueSymbol(r)
    PROVE  IInv'
<1>0. /\ TypeOK /\ phase \in {"symbols", "cies"} /\ r \in todo /\ alive = InitAlive
      /\ todo' = todo \ {r} /\ r \in Refs
      /\ UNCHANGED <<phase, alive, dsoReach, pos, pc, depth, up, fan, scans, dsos>>
  BY GcAssumption DEF IInv, Phases, EnqueueSymbol, visitVars
<1>1. fragAlive' \subseteq Frags
  BY <1>0, RefShape DEF EnqueueSymbol, TypeOK
<1>2. CASE r.kind = "sec" /\ Markable(r.to)
  <2>1. visited' = visited \cup {r.to} /\ act' = [act EXCEPT ![r.to] = "queued"]
    BY <1>2 DEF EnqueueSymbol, EnqueueSection
  <2>2. r.to \in InitAlive \ visited /\ r.to \in Alloc /\ r.to \in Sections
    BY <1>0, <1>2, MarkableIsAlloc
  <2>3. /\ Colours'
        /\ act'[r.to] = "queued" /\ act[r.to] = "none"
        /\ \A u \in Sections : u # r.to => act'[u] = act[u]
        /\ act' \in [Sections -> {"none", "queued", "running", "done"}]
        /\ visited' \subseteq InitAlive
    BY Zenon, <1>0, <2>1, <2>2, MarkOne
  <2>4. TypeOK' /\ Phases'
    BY <1>0, <1>1, <2>3 DEF TypeOK, Phases, IInv
  <2>5. RootsMarked'
    BY <1>0, <2>1 DEF RootsMarked, IInv, SecTargets
  <2>6. Progress'
    BY <1>0, <2>1, <2>3 DEF Progress, IInv
  <2>7. r.to \in Roots
    BY <1>2, <2>2 DEF Roots
  <2>8. Sound'
    BY <2>1, <2>7, MarkSound, RootIsNeeded
  <2> QED BY <2>3, <2>4, <2>5, <2>6, <2>8 DEF IInv
<1>3. CASE ~(r.kind = "sec" /\ Markable(r.to))
  <2>1. visited' = visited /\ act' = act
    BY <1>3 DEF EnqueueSymbol, EnqueueSection
  <2>2. TypeOK' /\ Phases' /\ Colours'
    BY <1>0, <1>1, <2>1 DEF TypeOK, Phases, Colours, IInv
  <2>3. r.kind = "sec" /\ r.to \in InitAlive => r.to \in visited
    BY <1>0, <1>3 DEF Markable
  <2>4. RootsMarked'
    BY <1>0, <2>1, <2>3 DEF RootsMarked, IInv, SecTargets
  <2>5. Progress' /\ Sound'
    BY <1>0, <2>1 DEF Progress, Sound, IInv
  <2> QED BY <2>2, <2>4, <2>5 DEF IInv
<1> QED BY <1>2, <1>3

LEMMA NextLoopInv ==
    ASSUME IInv, NextLoop
    PROVE  IInv'
<1>0. /\ TypeOK /\ todo = {}
      /\ UNCHANGED <<alive, visited, fragAlive, dsoReach, act, pos, pc, depth, up, fan, scans, dsos>>
  BY DEF IInv, NextLoop, visitVars
<1>1. TypeOK' /\ Phases'
  BY <1>0, GcAssumption DEF TypeOK, Phases, IInv, NextLoop
<1>2. RootsMarked'
  BY <1>0 DEF RootsMarked, IInv, NextLoop, SecTargets
<1>3. Colours' /\ Progress' /\ Sound'
  BY <1>0 DEF Colours, Progress, Sound, IInv
<1> QED BY <1>1, <1>2, <1>3 DEF IInv
=============================================================================
