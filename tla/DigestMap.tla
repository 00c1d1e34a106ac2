----------------------------- MODULE DigestMap -----------------------------
(***************************************************************************)
(* DigestMap<E> of icf.cc: the lock-free table in which ICF's threads      *)
(* count the distinct digests of a round and elect, for each of them, the  *)
(* section with the lowest priority.  It is never cleared between rounds:  *)
(* a slot that carries another round's stamp is vacant.                    *)
(*                                                                         *)
(* A digest is represented by the set of sections that have it, so equal   *)
(* digests are equal sets; SipHash is taken to be free of collisions, as   *)
(* the code takes it.  Where a digest lands in the table (its home slot    *)
(* and its 48-bit tag) is an arbitrary function of it, new in every round. *)
(***************************************************************************)
EXTENDS Integers, FiniteSets

CONSTANTS
    Secs,         \* the sections that are inserted: the eligible ones
    Priority,     \* get_priority()
    NumSlots,     \* mask + 1
    RoundLimit,   \* 1 << 15
    Hashes,       \* the ways digests may be spread: home and tag of each
                  \* digest, given for its section of the lowest priority
    NoSec

\* bit_ceil(2n) slots: the table is never full.
DigestMapAssumption ==
    /\ IsFiniteSet(Secs) /\ NoSec \notin Secs
    /\ \A s, t \in Secs : Priority[s] \in Nat /\ (Priority[s] = Priority[t] => s = t)
    /\ NumSlots \in Nat /\ NumSlots >= 2 * Cardinality(Secs) /\ NumSlots > 0
    /\ RoundLimit \in Nat /\ RoundLimit > 2
    /\ Hashes # {}
    /\ \A h \in Hashes : \A s \in Secs : h[s].home \in 0 .. NumSlots - 1

VARIABLES
    digest,       \* the digest of each section
    hash,         \* where this round's digests land
    round,
    hi,           \* the first word of each slot: round stamp, busy bit, tag
    lo,           \* its second word: the rest of the digest
    leader,       \* its section
    pc,           \* where the insertion of each section is
    at,           \* the slot it examines
    cur,          \* the leader it last read
    inserted      \* the sections whose insert() returned true

slotVars == <<hi, lo, leader>>
insertVars == <<pc, at, cur, inserted>>

Slots == 0 .. NumSlots - 1
First(d) == CHOOSE s \in d : \A t \in d : Priority[s] <= Priority[t]
Home(s) == hash[First(digest[s])].home
Tag(s) == hash[First(digest[s])].tag

VacantSlots == [i \in Slots |-> [round |-> 0, busy |-> FALSE, tag |-> 0]]

\* The slots before the first insertion.  Time begins in round 1, so that
\* they read as vacant.
EmptyTable ==
    /\ hi = VacantSlots
    /\ lo = [i \in Slots |-> {}]
    /\ leader = [i \in Slots |-> NoSec]

\* (i + 1) & mask
NextSlot(i) == (i + 1) % NumSlots

\* The round number has 15 bits; stale stamps are removed when it wraps.
next_round ==
    IF round + 1 = RoundLimit
      THEN round' = 1 /\ hi' = VacantSlots
      ELSE round' = round + 1 /\ UNCHANGED hi
-----------------------------------------------------------------------------
Begin(s) ==
    /\ pc[s] = "todo"
    /\ pc' = [pc EXCEPT ![s] = "probe"]
    /\ at' = [at EXCEPT ![s] = Home(s)]
    /\ UNCHANGED <<slotVars, cur, inserted>>

Vacant(i) == hi[i].round # round

GoTo(s, p) == pc' = [pc EXCEPT ![s] = p] /\ UNCHANGED at
\* insert() returns, and its locals are gone.
Return(s) ==
    /\ pc' = [pc EXCEPT ![s] = "done"]
    /\ at' = [at EXCEPT ![s] = 0] /\ cur' = [cur EXCEPT ![s] = NoSec]
Advance(s) == pc' = [pc EXCEPT ![s] = "probe"] /\ at' = [at EXCEPT ![s] = NextSlot(@)]

\* The tags matched and the slot is published: compare the second word, and
\* read the leader if it is the same digest.
CompareLo(s) ==
    IF lo[at[s]] = digest[s]
      THEN GoTo(s, "lead") /\ cur' = [cur EXCEPT ![s] = leader[at[s]]]
      ELSE Advance(s) /\ UNCHANGED cur

\* insert() has read the first word of a slot that is taken in this round.
CompareHi(s) ==
    IF hi[at[s]].tag # Tag(s) THEN Advance(s) /\ UNCHANGED cur
    ELSE IF hi[at[s]].busy THEN GoTo(s, "wait") /\ UNCHANGED cur
    ELSE CompareLo(s)

Probe(s) ==
    /\ pc[s] = "probe"
    /\ IF Vacant(at[s]) THEN GoTo(s, "claim") /\ UNCHANGED cur ELSE CompareHi(s)
    /\ UNCHANGED <<slotVars, inserted>>

\* The compare-and-swap succeeds if nobody has claimed the slot since.
Claim(s) ==
    /\ pc[s] = "claim"
    /\ IF Vacant(at[s])
         THEN /\ hi' = [hi EXCEPT ![at[s]] = [round |-> round, busy |-> TRUE, tag |-> Tag(s)]]
              /\ GoTo(s, "fill")
              /\ UNCHANGED cur
         ELSE UNCHANGED hi /\ CompareHi(s)
    /\ UNCHANGED <<lo, leader, inserted>>

Fill(s) ==
    /\ pc[s] = "fill"
    /\ lo' = [lo EXCEPT ![at[s]] = digest[s]]
    /\ leader' = [leader EXCEPT ![at[s]] = s]
    /\ GoTo(s, "publish")
    /\ UNCHANGED <<hi, cur, inserted>>

Publish(s) ==
    /\ pc[s] = "publish"
    /\ hi' = [hi EXCEPT ![at[s]].busy = FALSE]
    /\ inserted' = inserted \cup {s}
    /\ Return(s)
    /\ UNCHANGED <<lo, leader>>

\* One turn of the spin loop that sees the slot published.
Wait(s) ==
    /\ pc[s] = "wait" /\ ~hi[at[s]].busy
    /\ CompareLo(s)
    /\ UNCHANGED <<slotVars, inserted>>

\* Mutant of Lead: a failed compare-and-swap is not repeated.
LeadOnce(s) ==
    /\ pc[s] = "lead"
    /\ IF Priority[s] < Priority[cur[s]] /\ leader[at[s]] = cur[s]
         THEN leader' = [leader EXCEPT ![at[s]] = s]
         ELSE UNCHANGED leader
    /\ Return(s)
    /\ UNCHANGED <<hi, lo, inserted>>

\* One turn of the loop that lowers the leader.
Lead(s) ==
    /\ pc[s] = "lead"
    /\ IF Priority[s] >= Priority[cur[s]]
         THEN Return(s) /\ UNCHANGED leader
       ELSE IF leader[at[s]] = cur[s]
         THEN /\ leader' = [leader EXCEPT ![at[s]] = s]
              /\ Return(s)
         ELSE /\ cur' = [cur EXCEPT ![s] = leader[at[s]]]
              /\ GoTo(s, "lead")
              /\ UNCHANGED leader
    /\ UNCHANGED <<hi, lo, inserted>>

\* A step of insert(digest[s], s).
Insert(s) ==
    \/ Begin(s) \/ Probe(s) \/ Claim(s) \/ Fill(s) \/ Publish(s) \/ Wait(s) \/ Lead(s)

\* find(): the leader of the first slot that holds the digest.
Holds(i, s) ==
    hi[i] = [round |-> round, busy |-> FALSE, tag |-> Tag(s)] /\ lo[i] = digest[s]
find(s) ==
    LET hits == {n \in Slots : Holds((Home(s) + n) % NumSlots, s)}
    IN  leader[(Home(s) + (CHOOSE n \in hits : \A m \in hits : n <= m)) % NumSlots]
=============================================================================
