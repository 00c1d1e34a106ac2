--------------------------- MODULE ConcurrentMap ---------------------------
(***************************************************************************)
(* ConcurrentMap<T> of lib/lib.h: the insert-only open-addressing hash     *)
(* table that mold's worker threads fill without locks.  The buckets are   *)
(* split into shards and a probe never leaves the shard it starts in.      *)
(*                                                                         *)
(* A bucket's `key' word is the only synchronisation: nullptr (NoKey), -1  *)
(* (Claimed: some thread is constructing the value) or a key.  Every       *)
(* action below is one atomic access to that word, or the construction     *)
(* between the claim and the publication.                                  *)
(***************************************************************************)
EXTENDS Integers

CONSTANTS
    Callers,      \* the worker threads that call insert()
    Keys,         \* the keys they insert
    NumShards,    \* NUM_SHARDS
    ShardSize,    \* nbuckets / NUM_SHARDS
    MaxRetry,     \* MAX_RETRY
    Hash,         \* the hash each key is inserted with
    NoKey,        \* nullptr
    Claimed       \* (char *)-1

ASSUME MapAssumption ==
    /\ NumShards \in Nat \ {0}
    /\ ShardSize \in Nat \ {0}
    /\ MaxRetry \in Nat \ {0}
    /\ \A k \in Keys : Hash[k] \in Nat
    /\ NoKey \notin Keys
    /\ Claimed \notin Keys
    /\ NoKey # Claimed

VARIABLES
    key,          \* entries[s].key
    ready,        \* entries[s].value and entries[s].keylen are constructed
    pc,           \* where each caller is in insert_entry
    arg,          \* the key it was called with
    retry,        \* its loop counter i
    fresh,        \* the bool of the pair it returns
    aborted       \* abort() was called: the process is gone

mapVars == <<key, ready, pc, arg, retry, fresh, aborted>>

nbuckets == NumShards * ShardSize
Slots == 0 .. nbuckets - 1

\* The i-th bucket examined for k: the low bits wrap inside the shard.
ProbeIdx(k, i) ==
    LET begin == Hash[k] % nbuckets
    IN  ((begin \div ShardSize) * ShardSize) + ((begin + i) % ShardSize)

Idx(c) == ProbeIdx(arg[c], retry[c])

MapInit ==
    /\ key = [s \in Slots |-> NoKey]
    /\ ready = [s \in Slots |-> FALSE]
    /\ pc = [c \in Callers |-> "idle"]
    /\ arg \in [Callers -> Keys]
    /\ retry = [c \in Callers |-> 0]
    /\ fresh = [c \in Callers |-> FALSE]
    /\ aborted = FALSE
-----------------------------------------------------------------------------
Call(c, k) ==
    /\ pc[c] = "idle"
    /\ pc' = [pc EXCEPT ![c] = "load"]
    /\ arg' = [arg EXCEPT ![c] = k]
    /\ retry' = [retry EXCEPT ![c] = 0]
    /\ fresh' = [fresh EXCEPT ![c] = FALSE]
    /\ UNCHANGED <<key, ready, aborted>>

\* Mutant of Compare: any occupied bucket is taken for the caller's own.
CompareNothing(c) ==
    /\ pc' = [pc EXCEPT ![c] = "ret"]
    /\ UNCHANGED <<key, ready, arg, retry, fresh, aborted>>

\* The caller has read a published key: return its entry if the keys are
\* equal, else go to the next bucket.
Compare(c) ==
    /\ IF key[Idx(c)] = arg[c]
         THEN pc' = [pc EXCEPT ![c] = "ret"] /\ UNCHANGED retry
         ELSE /\ pc' = [pc EXCEPT ![c] = "load"]
              /\ retry' = [retry EXCEPT ![c] = @ + 1]
    /\ UNCHANGED <<key, ready, arg, fresh, aborted>>

\* The plain acquire load that avoids an atomic update of an occupied bucket.
LoadOccupied(c) ==
    /\ pc[c] = "load" /\ retry[c] < MaxRetry
    /\ key[Idx(c)] \in Keys
    /\ Compare(c)

LoadVacant(c) ==
    /\ pc[c] = "load" /\ retry[c] < MaxRetry
    /\ key[Idx(c)] \notin Keys
    /\ pc' = [pc EXCEPT ![c] = "cas"]
    /\ UNCHANGED <<key, ready, arg, retry, fresh, aborted>>

\* The compare-exchange of nullptr by -1 succeeds ...
Claim(c) ==
    /\ pc[c] = "cas"
    /\ key[Idx(c)] = NoKey
    /\ key' = [key EXCEPT ![Idx(c)] = Claimed]
    /\ pc' = [pc EXCEPT ![c] = "construct"]
    /\ UNCHANGED <<ready, arg, retry, fresh, aborted>>

\* Mutant of LoseClaim: skip a bucket that is being filled, do not wait.
LoseClaimWithoutWaiting(c) ==
    /\ pc[c] = "cas"
    /\ key[Idx(c)] # NoKey
    /\ Compare(c)

\* ... or fails because another thread is, or was, faster.
LoseClaim(c) ==
    /\ pc[c] = "cas"
    /\ key[Idx(c)] # NoKey
    /\ IF key[Idx(c)] = Claimed
         THEN /\ pc' = [pc EXCEPT ![c] = "wait"]
              /\ UNCHANGED <<key, ready, arg, retry, fresh, aborted>>
         ELSE Compare(c)

\* new (&ent.value) T(val); ent.keylen = initialize(ent.value)
Construct(c) ==
    /\ pc[c] = "construct"
    /\ ready' = [ready EXCEPT ![Idx(c)] = TRUE]
    /\ pc' = [pc EXCEPT ![c] = "publish"]
    /\ UNCHANGED <<key, arg, retry, fresh, aborted>>

\* Mutant of Publish: the creator is told that the entry existed.
PublishAsFound(c) ==
    /\ pc[c] = "publish"
    /\ key' = [key EXCEPT ![Idx(c)] = arg[c]]
    /\ pc' = [pc EXCEPT ![c] = "ret"]
    /\ UNCHANGED <<ready, arg, retry, fresh, aborted>>

\* ent.key.store(key, release)
Publish(c) ==
    /\ pc[c] = "publish"
    /\ key' = [key EXCEPT ![Idx(c)] = arg[c]]
    /\ fresh' = [fresh EXCEPT ![c] = TRUE]
    /\ pc' = [pc EXCEPT ![c] = "ret"]
    /\ UNCHANGED <<ready, arg, retry, aborted>>

\* Mutant of Awake: wait for the caller's own key.
AwakeOnOwnKey(c) ==
    /\ pc[c] = "wait"
    /\ key[Idx(c)] = arg[c]
    /\ Compare(c)

\* One turn of the spin loop that sees the bucket published.
Awake(c) ==
    /\ pc[c] = "wait"
    /\ key[Idx(c)] # Claimed
    /\ Compare(c)

\* Mutant of Abort: gives up with one bucket unexamined.
AbortEarly(c) ==
    /\ pc[c] = "load" /\ retry[c] >= MaxRetry - 1
    /\ aborted' = TRUE
    /\ UNCHANGED <<key, ready, pc, arg, retry, fresh>>

\* "ConcurrentMap is full"
Abort(c) ==
    /\ pc[c] = "load" /\ retry[c] >= MaxRetry
    /\ aborted' = TRUE
    /\ UNCHANGED <<key, ready, pc, arg, retry, fresh>>

Return(c) ==
    /\ pc[c] = "ret"
    /\ pc' = [pc EXCEPT ![c] = "idle"]
    /\ UNCHANGED <<key, ready, arg, retry, fresh, aborted>>

\* The steps inside insert_entry.
InsertStep(c) ==
    /\ ~aborted
    /\ \/ LoadOccupied(c) \/ LoadVacant(c) \/ Claim(c) \/ LoseClaim(c)
       \/ Construct(c) \/ Publish(c) \/ Awake(c) \/ Abort(c)

CallerStep(c) ==
    /\ ~aborted
    /\ (\E k \in Keys : Call(c, k)) \/ Return(c)

Terminated == aborted /\ UNCHANGED mapVars

MapNext == (\E c \in Callers : InsertStep(c) \/ CallerStep(c)) \/ Terminated

MapSpec == MapInit /\ [][MapNext]_mapVars
-----------------------------------------------------------------------------
TypeOK ==
    /\ key \in [Slots -> Keys \cup {NoKey, Claimed}]
    /\ ready \in [Slots -> BOOLEAN]
    /\ pc \in [Callers -> {"idle", "load", "cas", "construct", "publish",
                           "wait", "ret"}]
    /\ arg \in [Callers -> Keys]
    /\ retry \in [Callers -> 0 .. MaxRetry]
    /\ fresh \in [Callers -> BOOLEAN]
    /\ aborted \in BOOLEAN

\* No key ever occupies two buckets, however the inserters interleave:
\* insert_entry gives every distinct key one entry.
UniqueKeys ==
    \A s1, s2 \in Slots : key[s1] \in Keys /\ key[s1] = key[s2] => s1 = s2

\* What insert_entry returns is the caller's own key's entry, fully
\* constructed: nobody is handed a bucket between its claim and its release
\* store.
ReturnsConstructedEntry ==
    \A c \in Callers : pc[c] = "ret" => key[Idx(c)] = arg[c] /\ ready[Idx(c)]

\* When a shard has no more buckets than MAX_RETRY (as the comment on
\* MIN_NBUCKETS arranges for the smallest map), "ConcurrentMap is full" is
\* reported only if every bucket of the caller's shard is taken.
AbortOnlyWhenFull ==
    aborted => \E c \in Callers :
                 \A i \in 0 .. ShardSize - 1 : key[ProbeIdx(arg[c], i)] \in Keys \ {arg[c]}

\* A published bucket never changes again: pointers to entries stay valid.
PublishedIsFinal ==
    [][\A s \in Slots : key[s] \in Keys => key'[s] = key[s] /\ ready'[s]]_mapVars

\* The spin loop on -1 ends: every insertion returns, unless the map is full.
InsertTerminates ==
    \A c \in Callers : pc[c] = "load" ~> (pc[c] = "ret" \/ aborted)

\* The abstract table this map implements.  An insertion takes effect when
\* its key is published, or when the caller finds the key published.
Content == {k \in Keys : \E s \in Slots : key[s] = k}
Status == [c \in Callers |-> CASE pc[c] = "idle" -> "idle"
                               [] pc[c] = "ret" -> "done"
                               [] OTHER -> "busy"]

Intern == INSTANCE InternTable WITH
    content <- Content, status <- Status, item <- arg, created <- fresh, full <- aborted

\* ConcurrentMap::insert behaves as an atomic "insert unless present": one
\* caller per key is told that it created the entry, all the others find it.
ImplementsInternTable == Intern!InternSpec
=============================================================================
