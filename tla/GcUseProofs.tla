---------------------------- MODULE GcUseProofs ----------------------------
(***************************************************************************)
(* Proof that the garbage collector keeps exactly the fragments and DSOs   *)
(* that something live names.  It adds one invariant, MarkedForUse, to the *)
(* one of GcSectionsProofs.                                                *)
(***************************************************************************)
EXTENDS GcSectionsProofs

\* Fragments and DSOs are marked for a reason, and those that visits and
\* finished loops have passed are marked.
MarkedForUse ==
    /\ \A f \in fragAlive : \/ f \in Named(visited, "frag")
                            \/ \E r \in RootSyms \cup CieRefs : r.kind = "frag" /\ r.to = f
    /\ \A d \in dsoReach : d \in NeededDsos \/ d \in Named(visited, "dso")
    /\ NeededDsos \subseteq dsoReach
    /\ \A s \in Sections : \A i \in DOMAIN Rels[s] : i < pos[s] =>
         /\ Rels[s][i].kind = "frag" => Rels[s][i].to \in fragAlive
         /\ Rels[s][i].kind = "dso" => Rels[s][i].to \in dsoReach
    /\ phase # "keep" => \A r \in RootSyms :
         r.kind = "frag" /\ ~(phase = "symbols" /\ r \in todo) => r.to \in fragAlive
    /\ phase \notin {"keep", "symbols"} => \A r \in CieRefs :
         r.kind = "frag" /\ ~(phase = "cies" /\ r \in todo) => r.to \in fragAlive
    /\ dsos = IF phase = "done" THEN Dsos \cap dsoReach ELSE Dsos

\* A marked section names what its references name.
LEMMA NamedHas ==
    ASSUME NEW S, NEW T, S \subseteq T
    PROVE  /\ \A kind : Named(S, kind) \subseteq Named(T, kind)
           /\ \A s \in T \cap Alloc : \A i \in DOMAIN Rels[s] :
                Rels[s][i].to \in Named(T, Rels[s][i].kind)
<1>1. ASSUME NEW s \in T \cap Alloc, NEW i \in DOMAIN Rels[s]
      PROVE  Rels[s][i].to \in Named(T, Rels[s][i].kind)
  <2>1. i \in {j \in DOMAIN Rels[s] : Rels[s][j].kind = Rels[s][i].kind}
    BY <1>1
  <2> QED BY <2>1 DEF Named
<1>2. ASSUME NEW kind PROVE Named(S, kind) \subseteq Named(T, kind)
  BY DEF Named
<1> QED BY <1>1, <1>2

LEMMA UseInit == Init => MarkedForUse
BY RelsShape DEF Init, MarkedForUse, ResetDsos

\* Steps that mark no fragment and no DSO and finish no relocation that
\* names one.
LEMMA UseKept ==
    ASSUME IInv, MarkedForUse, visited \subseteq visited',
           UNCHANGED <<phase, todo, fragAlive, dsoReach, dsos>>,
           \A s \in Sections : \A i \in DOMAIN Rels[s] :
              i < pos'[s] => i < pos[s] \/ Rels[s][i].kind \in {"sec", "fde"}
    PROVE  MarkedForUse'
BY ZenonT(30), NamedHas DEF MarkedForUse

LEMMA UseVisitRel ==
    ASSUME IInv, MarkedForUse, NEW s \in Sections, VisitRel(s)
    PROVE  MarkedForUse'
<1> DEFINE r == Rels[s][pos[s]]
<1>0. /\ TypeOK /\ pos[s] \in DOMAIN Rels[s] /\ s \in visited \cap Alloc
      /\ visited \subseteq visited'
      /\ UNCHANGED <<phase, todo, dsos>> /\ phase = "mark"
  BY DEF IInv, VisitRel, Free, rootVars, Colours, MarkTarget, MarkAndVisit, Phases
<1>1. \A u \in Sections : \A i \in DOMAIN Rels[u] :
        i < pos'[u] => i < pos[u] \/ (u = s /\ i = pos[s] /\ r.kind # "sec")
  BY SMTT(30), <1>0, RelsShape DEF VisitRel, TypeOK
<1>2. /\ fragAlive' = IF r.kind = "frag" THEN fragAlive \cup {r.to} ELSE fragAlive
      /\ dsoReach' = IF r.kind = "dso" THEN dsoReach \cup {r.to} ELSE dsoReach
  BY SMTT(30) DEF VisitRel
<1>3. /\ r.kind = "frag" => r.to \in Named(visited', "frag")
      /\ r.kind = "dso" => r.to \in Named(visited', "dso")
      /\ Named(visited, "frag") \subseteq Named(visited', "frag")
      /\ Named(visited, "dso") \subseteq Named(visited', "dso")
  BY Zenon, <1>0, NamedHas
<1>4. \A u \in Sections : \A i \in DOMAIN Rels[u] : i < pos'[u] =>
         /\ Rels[u][i].kind = "frag" => Rels[u][i].to \in fragAlive'
         /\ Rels[u][i].kind = "dso" => Rels[u][i].to \in dsoReach'
  BY <1>1, <1>2 DEF MarkedForUse
<1> QED BY <1>0, <1>2, <1>3, <1>4 DEF MarkedForUse

LEMMA UseEnqueue ==
    ASSUME IInv, MarkedForUse, NEW r \in RootSyms \cup CieRefs, EnqueueSymbol(r)
    PROVE  MarkedForUse'
<1>0. /\ visited \subseteq visited' /\ todo' = todo \ {r}
      /\ UNCHANGED <<phase, dsoReach, pos, dsos>> /\ phase \in {"symbols", "cies"}
      /\ fragAlive' = IF r.kind = "frag" THEN fragAlive \cup {r.to} ELSE fragAlive
  BY DEF EnqueueSymbol, EnqueueSection, visitVars
<1>1. /\ Named(visited, "frag") \subseteq Named(visited', "frag")
      /\ Named(visited, "dso") \subseteq Named(visited', "dso")
  BY ZenonT(30), <1>0, NamedHas
<1> QED BY <1>0, <1>1 DEF MarkedForUse

LEMMA UseNext == IInv /\ MarkedForUse /\ [Next]_vars => MarkedForUse'
<1> SUFFICES ASSUME IInv, MarkedForUse, [Next]_vars PROVE MarkedForUse'
  OBVIOUS
<1>0. TypeOK
  BY DEF IInv
<1>1. ASSUME NEW s \in Sections, KeepSection(s)
      PROVE  MarkedForUse'
  <2>1. /\ visited \subseteq visited' /\ phase = "keep"
        /\ UNCHANGED <<phase, fragAlive, dsoReach, pos, dsos>>
    BY <1>1 DEF KeepSection, EnqueueSection, visitVars
  <2> QED BY Zenon, <2>1, NamedHas DEF MarkedForUse
<1>2. ASSUME NEW s \in Sections, VisitStep(s)
      PROVE  MarkedForUse'
  <2>1. CASE VisitRel(s)
    BY <2>1, UseVisitRel
  <2>2. CASE ~VisitRel(s)
    <3>1. /\ visited \subseteq visited'
          /\ UNCHANGED <<phase, todo, fragAlive, dsoReach, dsos>>
      BY SMTT(30), <1>2, <2>2 DEF VisitStep, Take, TestStartStop, Join, EndVisit, FanOut, MarkAndVisit, rootVars
    <3>2. \/ pos' = pos
          \/ pc[s] # "mark" /\ pos' = [pos EXCEPT ![s] = @ + 1]
      BY SMTT(30), <1>2, <2>2 DEF VisitStep, Take, TestStartStop, Join, EndVisit, FanOut, visitVars
    <3>3. pc[s] # "mark" => Rels[s][pos[s]].kind = "sec"
      BY DEF IInv, Progress
    <3>4. \A u \in Sections : \A i \in DOMAIN Rels[u] :
             i < pos'[u] => i < pos[u] \/ Rels[u][i].kind \in {"sec", "fde"}
      <4> SUFFICES ASSUME NEW u \in Sections, NEW i \in DOMAIN Rels[u], i < pos'[u], ~(i < pos[u])
                   PROVE  Rels[u][i].kind \in {"sec", "fde"}
        OBVIOUS
      <4>1. i \in Nat /\ pos[u] \in Nat
        BY <1>0, RelsShape DEF TypeOK
      <4>2. u = s /\ i = pos[s] /\ pc[s] # "mark"
        BY <1>0, <3>2, <4>1 DEF TypeOK
      <4> QED BY <3>3, <4>2
    <3> QED BY <3>1, <3>4, UseKept
  <2> QED BY <2>1, <2>2
<1>3. ASSUME NEW r \in RootSyms \cup CieRefs, EnqueueSymbol(r)
      PROVE  MarkedForUse'
  BY SMTT(30), <1>3, UseEnqueue
<1>4. CASE NextLoop
  BY SMTT(30), <1>4 DEF NextLoop, MarkedForUse, visitVars
<1>5. CASE EndMark \/ EraseDsos \/ \E s \in Sections : Sweep(s)
  BY <1>5 DEF EndMark, EraseDsos, Sweep, MarkedForUse, visitVars, rootVars
<1>6. CASE UNCHANGED vars
  BY <1>6 DEF vars, MarkedForUse
<1> QED BY <1>1, <1>2, <1>3, <1>4, <1>5, <1>6 DEF Next, Step, Done

\* A fragment survives iff a live section, a root symbol or a CIE names it;
\* a DSO stays in ctx.dsos if it is needed anyway or a live section names it,
\* and does not stay if nothing live names it, CIEs included.
THEOREM ExactlyReferencedIsKept == Spec => []KeepsExactlyReferenced
<1>1. Spec => []MarkedForUse
  BY UseInit, UseNext, GcInductive, PTL DEF Spec
<1>2. ASSUME IInv, MarkedForUse, phase = "done"
      PROVE  /\ fragAlive = Named(alive, "frag") \cup NamedByCies("frag")
                  \cup {r.to : r \in {q \in RootSyms : q.kind = "frag"}}
             /\ dsos = Named(alive, "dso") \cup NeededDsos
  <2>0. TypeOK /\ alive = visited
    BY SMTT(30), <1>2 DEF IInv, Phases
  <2>1. \A s \in alive \cap Alloc : \A i \in DOMAIN Rels[s] : i < pos[s]
    <3> SUFFICES ASSUME NEW s \in alive \cap Alloc PROVE \A i \in DOMAIN Rels[s] : i < pos[s]
      OBVIOUS
    <3>1. s \in Sections /\ act[s] = "done"
      BY SMTT(30), <1>2, <2>0, GcAssumption DEF IInv, Phases, Colours, TypeOK
    <3> QED BY <1>2, <2>0, <3>1, RelsShape DEF IInv, Progress, TypeOK
  <2>2. ASSUME NEW kind, NEW x \in Named(alive, kind)
        PROVE  \E s \in Sections : \E i \in DOMAIN Rels[s] :
                  i < pos[s] /\ Rels[s][i].kind = kind /\ Rels[s][i].to = x
    <3>1. PICK s \in alive \cap Alloc :
            x \in {Rels[s][i].to : i \in {j \in DOMAIN Rels[s] : Rels[s][j].kind = kind}}
      BY Zenon, <2>2 DEF Named
    <3>2. PICK i \in DOMAIN Rels[s] : Rels[s][i].kind = kind /\ Rels[s][i].to = x
      BY <3>1
    <3>3. i < pos[s] /\ s \in Sections
      BY <2>0, <2>1, GcAssumption DEF TypeOK
    <3> QED BY SMTT(30), <3>2, <3>3
  <2>3. Named(alive, "frag") \subseteq fragAlive
    BY <1>2, <2>2 DEF MarkedForUse
  <2>4. Named(alive, "dso") \subseteq dsoReach
    BY <1>2, <2>2 DEF MarkedForUse
  <2>5. fragAlive = Named(alive, "frag") \cup NamedByCies("frag")
                  \cup {r.to : r \in {q \in RootSyms : q.kind = "frag"}}
    BY SMTT(30), <1>2, <2>0, <2>3 DEF MarkedForUse, NamedByCies
  <2>6. dsos = Named(alive, "dso") \cup NeededDsos
    BY SMTT(30), <1>2, <2>0, <2>4 DEF MarkedForUse, TypeOK
  <2> QED BY <2>5, <2>6
<1>3. IInv /\ MarkedForUse => KeepsExactlyReferenced
  <2> SUFFICES ASSUME IInv, MarkedForUse, phase = "done"
               PROVE  /\ fragAlive = Named(alive, "frag") \cup NamedByCies("frag")
                           \cup {r.to : r \in {q \in RootSyms : q.kind = "frag"}}
                      /\ Named(alive, "dso") \cup NeededDsos \subseteq dsos
                      /\ dsos \subseteq Named(alive, "dso") \cup NeededDsos \cup NamedByCies("dso")
    BY Zenon DEF KeepsExactlyReferenced
  <2>1. fragAlive = Named(alive, "frag") \cup NamedByCies("frag")
                      \cup {r.to : r \in {q \in RootSyms : q.kind = "frag"}}
    BY Zenon, <1>2
  <2>2. dsos = Named(alive, "dso") \cup NeededDsos
    BY Zenon, <1>2
  <2> QED BY <2>1, <2>2
<1> QED BY <1>1, <1>3, GcInductive, PTL
=============================================================================
