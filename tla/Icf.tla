-------------------------------- MODULE Icf --------------------------------
(***************************************************************************)
(* Identical code folding, icf.cc: sections with equal contents whose      *)
(* references lead to equal sections are folded into one.  Digests of ever *)
(* deeper trees are computed until the number of distinct ones, counted    *)
(* every few rounds in a DigestMap, stops growing.                         *)
(***************************************************************************)
EXTENDS DigestMap, Sequences

CONSTANTS
    Sections,     \* the live input sections
    Kind,         \* what the flags and the name of a section make of it
    AddressTaken, \* the sections whose address is significant
    IcfAll,       \* --icf=all
    IgnoreDataAddressEquality,
    Body,         \* contents and flags of a section, its FDEs and their CIEs
    Refs,         \* its references, those of its FDEs first: a sequence of
                  \* records with a symbol, whether it is an FDE's, and an
                  \* attr (offset, type, addend)
    SymSec,       \* the section or fragment a symbol is in, or NoSec
    Imported,     \* the symbols that are undefined or imported
    Value,        \* a symbol's value
    Align,        \* p2align of the sections
    Batch,        \* 3: propagations between two counts
    Workers       \* bound: insertions that run at the same time

\* Kind is "other" for sections that are empty, not SHF_ALLOC, of type
\* SHT_NOBITS, named like a C identifier, .init or .fini, or writable and not
\* RELRO.
is_eligible(s) ==
    \/ Kind[s] = "exec" /\ (IcfAll \/ s \notin AddressTaken)
    \/ Kind[s] = "except_table"
    \/ Kind[s] \in {"readonly", "relro"} /\ (IgnoreDataAddressEquality \/ s \notin AddressTaken)

gather_sections == {s \in Sections : is_eligible(s)}

\* The pass works on the sections of a linker run, so these hold of any
\* instance; Passes assumes them of its own.
IcfAssumption ==
    /\ Secs = gather_sections
    /\ \A s \in Secs : DOMAIN Refs[s] = 1 .. Len(Refs[s]) /\ Len(Refs[s]) \in Nat
    /\ Align \in [Secs -> Nat]
    /\ Batch \in Nat /\ Batch > 0 /\ Workers \in Nat /\ Workers > 0

VARIABLES
    phase,        \* the stage of icf_sections
    step,         \* propagations since the last count
    num_classes,
    todo,         \* iterations of the current parallel loop
    icf_leader,
    p2align,
    old,          \* update_maximum's old_val; -1 before its load
    status        \* "folded": IS_ICF_REMOVED is set, the section and its FDEs
                  \* are dead; "leader": it lives and its offset is -1

passVars == <<phase, step, num_classes>>
resultVars == <<icf_leader, p2align, old, status>>
vars == <<digest, hash, round, slotVars, insertVars, passVars, todo, resultVars>>

\* hash_symbol: an eligible section counts by its digest only, any other
\* target by its identity.
hash_symbol(y) ==
    <<CASE y \in Imported -> <<"1", y>>
        [] y \notin Imported /\ SymSec[y] = NoSec -> <<"3">>
        [] y \notin Imported /\ SymSec[y] \in Secs -> <<"4">>
        [] OTHER -> <<"5", SymSec[y]>>, Value[y]>>

compute_digest(s) ==
    <<Body[s], [n \in DOMAIN Refs[s] |-> <<Refs[s][n].attr, hash_symbol(Refs[s][n].sym)>>]>>

\* Mutant of Edges: the references of FDEs are not edges.
EdgesWithoutFdes(s) == {n \in DOMAIN Refs[s] : SymSec[Refs[s][n].sym] \in Secs /\ ~Refs[s][n].fde}

\* gather_edges: the references to eligible sections, imported symbols
\* included.  An edge is known by the position of its reference: sections
\* with equal digests have their edges at the same positions.
Edges(s) == {n \in DOMAIN Refs[s] : SymSec[Refs[s][n].sym] \in Secs}
Edge(s, n) == SymSec[Refs[s][n].sym]

Init ==
    /\ digest = [s \in Secs |-> {t \in Secs : compute_digest(t) = compute_digest(s)}]
    /\ hash \in Hashes
    /\ round = 1
    /\ EmptyTable
    /\ pc = [s \in Secs |-> "todo"]
    /\ at = [s \in Secs |-> 0]
    /\ cur = [s \in Secs |-> NoSec]
    /\ inserted = {}
    /\ phase = "propagate" /\ step = 0 /\ num_classes = -1
    /\ todo = {}
    /\ icf_leader = [s \in Secs |-> NoSec]
    /\ p2align = Align
    /\ old = [s \in Secs |-> -1]
    /\ status = [s \in Secs |-> "live"]
-----------------------------------------------------------------------------
\* s and t have the same digest and refer to sections that have.
SameNext(s, t) ==
    /\ digest[s] = digest[t]
    /\ Edges(s) = Edges(t)
    /\ \A n \in Edges(s) : digest[Edge(s, n)] = digest[Edge(t, n)]

\* propagate() reads one buffer and writes the other: no iteration sees the
\* result of another.
propagate ==
    /\ phase = "propagate" /\ step < Batch
    /\ step' = step + 1
    /\ digest' = [s \in Secs |-> {t \in Secs : SameNext(s, t)}]
    /\ UNCHANGED <<hash, round, slotVars, insertVars, phase, num_classes, todo, resultVars>>

BeginCount ==
    /\ phase = "propagate" /\ step = Batch
    /\ next_round
    /\ hash' \in Hashes
    /\ phase' = "count" /\ step' = 0
    /\ pc' = [s \in Secs |-> "todo"] /\ inserted' = {}
    /\ UNCHANGED <<digest, lo, leader, at, cur, num_classes, todo, resultVars>>

Running == {s \in Secs : pc[s] \notin {"todo", "done"}}

CountStep(s) ==
    /\ phase = "count"
    /\ pc[s] = "todo" => Cardinality(Running) < Workers
    /\ Insert(s)
    /\ UNCHANGED <<digest, hash, round, passVars, todo, resultVars>>

\* The loop ends when the number of classes has not grown.
EndCount ==
    /\ phase = "count" /\ \A s \in Secs : pc[s] = "done"
    /\ phase' = IF Cardinality(inserted) = num_classes THEN "group" ELSE "propagate"
    /\ num_classes' = Cardinality(inserted)
    /\ UNCHANGED <<digest, hash, round, slotVars, insertVars, step, todo, resultVars>>

\* Lookups only read the table.  It is not used after them, and its contents
\* are forgotten.
Group ==
    /\ phase = "group"
    /\ icf_leader' = [s \in Secs |-> find(s)]
    /\ phase' = "align" /\ todo' = Secs
    /\ hi' = VacantSlots /\ lo' = [i \in Slots |-> {}] /\ leader' = [i \in Slots |-> NoSec]
    /\ inserted' = {}
    /\ UNCHANGED <<digest, hash, round, pc, at, cur, step, num_classes, p2align, old, status>>

\* update_maximum(isec->icf_leader->p2align, isec->p2align): the load, ...
LoadAlignment(s) ==
    /\ phase = "align" /\ s \in todo /\ old[s] = -1
    /\ IF s = icf_leader[s]
         THEN todo' = todo \ {s} /\ UNCHANGED old
         ELSE old' = [old EXCEPT ![s] = p2align[icf_leader[s]]] /\ UNCHANGED todo
    /\ UNCHANGED <<digest, hash, round, slotVars, insertVars, passVars, icf_leader, p2align, status>>

\* ... and one turn of the loop: nothing to raise, a compare-exchange that
\* succeeds, or one that fails because another section has raised it since.
UpdateAlignment(s) ==
    /\ phase = "align" /\ old[s] # -1
    /\ LET l == icf_leader[s]
           fails == old[s] < p2align[s] /\ p2align[l] # old[s]
       IN  /\ p2align' = IF old[s] < p2align[s] /\ ~fails
                           THEN [p2align EXCEPT ![l] = p2align[s]] ELSE p2align
           /\ old' = [old EXCEPT ![s] = IF fails THEN p2align[l] ELSE -1]
           /\ todo' = IF fails THEN todo ELSE todo \ {s}
    /\ UNCHANGED <<digest, hash, round, slotVars, insertVars, passVars, icf_leader, status>>

Sweep(s) ==
    /\ phase = "sweep" /\ s \in todo
    /\ todo' = todo \ {s}
    /\ status' = [status EXCEPT ![s] = IF s # icf_leader[s] THEN "folded" ELSE "leader"]
    /\ UNCHANGED <<digest, hash, round, slotVars, insertVars, passVars, icf_leader, p2align, old>>

EndLoop ==
    /\ phase \in {"align", "sweep"} /\ todo = {}
    /\ phase' = IF phase = "align" THEN "sweep" ELSE "done"
    /\ todo' = IF phase = "align" THEN Secs ELSE {}
    /\ UNCHANGED <<digest, hash, round, slotVars, insertVars, step, num_classes, resultVars>>

Done == phase = "done" /\ UNCHANGED vars

Step ==
    \/ propagate \/ BeginCount \/ EndCount \/ Group \/ EndLoop
    \/ \E s \in Secs : CountStep(s) \/ LoadAlignment(s) \/ UpdateAlignment(s) \/ Sweep(s)

Next == Step \/ Done

Spec == Init /\ [][Next]_vars
-----------------------------------------------------------------------------
TypeOK ==
    /\ digest \in [Secs -> SUBSET Secs]
    /\ hash \in Hashes
    /\ round \in 1 .. RoundLimit - 1
    /\ \A i \in Slots : hi[i].round \in 0 .. RoundLimit - 1 /\ hi[i].busy \in BOOLEAN
    /\ lo \in [Slots -> SUBSET Secs]
    /\ leader \in [Slots -> Secs \cup {NoSec}]
    /\ pc \in [Secs -> {"todo", "probe", "claim", "fill", "publish", "wait", "lead", "done"}]
    /\ at \in [Secs -> Slots]
    /\ cur \in [Secs -> Secs \cup {NoSec}]
    /\ inserted \subseteq Secs
    /\ phase \in {"propagate", "count", "group", "align", "sweep", "done"}
    /\ step \in 0 .. Batch /\ num_classes \in -1 .. Cardinality(Secs)
    /\ todo \subseteq Secs
    /\ icf_leader \in [Secs -> Secs \cup {NoSec}]
    /\ p2align \in [Secs -> Nat]
    /\ old \in [Secs -> Nat \cup {-1}]
    /\ status \in [Secs -> {"live", "folded", "leader"}]

\* However the insertions of a round interleave, insert() returns true
\* exactly once for each distinct digest.
CountsEachDigestOnce ==
    phase = "count" /\ (\A s \in Secs : pc[s] = "done") =>
      \A s \in Secs : \E t \in inserted : inserted \cap digest[s] = {t}

\* After every round of insertions the table leads from each digest to the
\* section of the lowest priority among those that have it, which then is the
\* leader: the result does not depend on the order of insertions.
LeaderIsFirst ==
    /\ phase = "count" /\ (\A s \in Secs : pc[s] = "done") =>
         \A s \in Secs : \A i \in Slots : Holds(i, s) => leader[i] = First(digest[s])
    /\ phase \in {"align", "sweep", "done"} =>
         \A s \in Secs : icf_leader[s] = First(digest[s])

\* f takes each section to the representative of its class; the sections of a
\* class have equal contents, and their references lead, one by one, into
\* equal classes.
Consistent(f) ==
    \A s, t \in Secs : f[s] = f[t] =>
      /\ compute_digest(s) = compute_digest(t)
      /\ \A n \in DOMAIN Refs[s] : Edge(s, n) \in Secs => f[Edge(s, n)] = f[Edge(t, n)]

ConsistentGroupings ==
    {f \in [Secs -> Secs] : (\A s \in Secs : f[f[s]] = f[s]) /\ Consistent(f)}

\* The folding is consistent, so the loop never stops before the partition is
\* stable, and any two sections that some consistent grouping puts together
\* are folded: sections are folded iff their unfoldings into trees are equal.
FoldsExactlyEqualTrees ==
    phase = "done" =>
      /\ Consistent(icf_leader)
      /\ \A f \in ConsistentGroupings : \A s, t \in Secs :
           f[s] = f[t] => icf_leader[s] = icf_leader[t]

\* What survives is a leader, and it is as strictly aligned as any section
\* that was folded into it.
LeadersStandIn ==
    phase = "done" =>
      /\ \A s \in Secs : status[icf_leader[s]] = "leader"
      /\ \A s \in Secs : status[s] = "folded" <=> icf_leader[s] # s
      /\ \A s \in Secs : Align[s] <= p2align[icf_leader[s]]

\* The leaders of the classes do not depend on the schedule: insert() counts
\* and elects the same sections in any order, and the leader elected takes the
\* place of its class in the output.
LeadersAreRight == CountsEachDigestOnce /\ LeaderIsFirst /\ LeadersStandIn
=============================================================================
