------------------------ MODULE ConcurrentMapProofs ------------------------
(***************************************************************************)
(* Proofs about ConcurrentMap, for any number of threads, keys and         *)
(* buckets and for any hash function.                                      *)
(*                                                                         *)
(* The argument: a thread moves past a bucket only when it has seen        *)
(* another key published there, and a published bucket never changes.  So  *)
(* the buckets before the one a thread is working on hold other keys for   *)
(* good (ProbedPrefix), and every published key is the first of its probe  *)
(* sequence (FirstOfItsProbe).                                             *)
(***************************************************************************)
EXTENDS ConcurrentMap, TLAPS

Owns(c) == pc[c] \in {"construct", "publish"}
Inside(c) == pc[c] \in {"load", "cas", "construct", "publish", "wait"}

\* Buckets a caller has passed hold other keys.
ProbedPrefix ==
    \A c \in Callers : Inside(c) =>
        \A j \in 0 .. retry[c] - 1 : key[ProbeIdx(arg[c], j)] \in Keys \ {arg[c]}

\* A caller past the loop test is within its retries.
WithinRetries ==
    \A c \in Callers :
        pc[c] \in {"cas", "construct", "publish", "wait"} => retry[c] < MaxRetry

\* A bucket between its claim and its publication has one owner.
OneOwner ==
    /\ \A c \in Callers : Owns(c) => key[Idx(c)] = Claimed
    /\ \A c, d \in Callers : Owns(c) /\ Owns(d) /\ Idx(c) = Idx(d) => c = d
    /\ \A c \in Callers : pc[c] = "publish" => ready[Idx(c)]

\* A bucket that somebody waits for has been claimed.
WaitsForClaimed ==
    \A c \in Callers : pc[c] = "wait" => key[Idx(c)] # NoKey

\* The d-th bucket of its key's probe sequence is s, and the buckets before
\* it hold other keys.
FirstAt(s, d) ==
    /\ ProbeIdx(key[s], d) = s
    /\ \A j \in 0 .. d - 1 : key[ProbeIdx(key[s], j)] \in Keys \ {key[s]}

\* A published key is constructed, and the first of its probe sequence.
FirstOfItsProbe ==
    \A s \in Slots : key[s] \in Keys => ready[s] /\ \E d \in Nat : FirstAt(s, d)

\* The caller that gave up is still in its loop.
AbortedAtEnd ==
    aborted => \E c \in Callers : pc[c] = "load" /\ retry[c] = MaxRetry

IInv ==
    /\ TypeOK /\ ProbedPrefix /\ WithinRetries /\ OneOwner
    /\ WaitsForClaimed /\ FirstOfItsProbe /\ ReturnsConstructedEntry /\ AbortedAtEnd
-----------------------------------------------------------------------------
\* A probe stays inside the table (and inside the shard it starts in),
\* whatever the hash and the number of retries.
LEMMA ProbeInTable ==
    ASSUME NEW k \in Keys, NEW i \in Nat
    PROVE  ProbeIdx(k, i) \in Slots
<1> DEFINE begin == Hash[k] % nbuckets
           q == begin \div ShardSize
           x == (begin + i) % ShardSize
<1>1. nbuckets \in Nat \ {0}
  BY MapAssumption DEF nbuckets
<1>2. begin \in 0 .. nbuckets - 1
  BY <1>1, MapAssumption
<1>3. q \in Nat /\ q * ShardSize <= begin
  <2> HIDE DEF begin
  <2> QED BY <1>2, MapAssumption
<1>4. x \in 0 .. ShardSize - 1
  <2> HIDE DEF begin
  <2> QED BY <1>2, MapAssumption
<1>5. q < NumShards
  <2> HIDE DEF begin, q
  <2> SUFFICES ASSUME q >= NumShards PROVE FALSE
    BY <1>3, MapAssumption
  <2>1. q * ShardSize >= NumShards * ShardSize
    BY <1>3, MapAssumption
  <2> QED BY <2>1, <1>2, <1>3, MapAssumption DEF nbuckets
<1>6. q * ShardSize + ShardSize <= NumShards * ShardSize
  <2> HIDE DEF begin, q
  <2>1. (q + 1) * ShardSize <= NumShards * ShardSize
    BY <1>3, <1>5, MapAssumption
  <2>2. (q + 1) * ShardSize = q * ShardSize + ShardSize
    BY <1>3, MapAssumption
  <2> QED BY <2>1, <2>2
<1>7. q * ShardSize \in Nat
  <2> HIDE DEF begin, q
  <2> QED BY <1>3, MapAssumption
<1>8. ProbeIdx(k, i) = (q * ShardSize) + x
  BY DEF ProbeIdx
<1> HIDE DEF begin, q, x
<1> DEFINE y == q * ShardSize
<1>9. y + x \in 0 .. nbuckets - 1
  <2>1. y \in Nat /\ y + ShardSize <= nbuckets /\ nbuckets \in Nat
    BY <1>1, <1>6, <1>7 DEF nbuckets
  <2> HIDE DEF y
  <2> QED BY <2>1, <1>4, MapAssumption
<1> QED BY <1>8, <1>9 DEF Slots
-----------------------------------------------------------------------------
\* The bucket a caller looks at is a bucket of the table.
LEMMA IdxInTable ==
    ASSUME TypeOK
    PROVE  \A c \in Callers : Idx(c) \in Slots /\ retry[c] \in Nat /\ arg[c] \in Keys
BY ProbeInTable, MapAssumption DEF TypeOK, Idx

\* Calls start with an empty table.
LEMMA InitInv == MapInit => IInv
<1> SUFFICES ASSUME MapInit PROVE IInv
  OBVIOUS
<1>1. TypeOK
  <2>1. /\ ready \in [Slots -> BOOLEAN] /\ fresh \in [Callers -> BOOLEAN]
        /\ aborted \in BOOLEAN
    BY Zenon DEF MapInit
  <2> QED BY <2>1, MapAssumption DEF MapInit, TypeOK
<1>2. OneOwner /\ WaitsForClaimed /\ ReturnsConstructedEntry /\ WithinRetries
  BY DEF MapInit, OneOwner, Owns, WaitsForClaimed, ReturnsConstructedEntry, WithinRetries
<1>3. ProbedPrefix /\ AbortedAtEnd
  BY DEF MapInit, ProbedPrefix, Inside, AbortedAtEnd
<1>4. FirstOfItsProbe
  BY MapAssumption DEF MapInit, FirstOfItsProbe
<1> QED BY <1>1, <1>2, <1>3, <1>4 DEF IInv

\* A caller that has read a published key either returns that entry, or
\* leaves one more bucket with another key behind.
LEMMA CompareInv ==
    ASSUME IInv, NEW c \in Callers, pc[c] \in {"load", "cas", "wait"},
           retry[c] < MaxRetry, key[Idx(c)] \in Keys, ~aborted, Compare(c)
    PROVE  IInv'
<1>0. /\ \A d \in Callers : Idx(d) \in Slots /\ retry[d] \in Nat /\ arg[d] \in Keys
      /\ UNCHANGED <<key, ready, arg, fresh, aborted>>
      /\ TypeOK
  BY IdxInTable DEF IInv, Compare
<1>1. CASE key[Idx(c)] = arg[c]
  <2>1. /\ pc' = [pc EXCEPT ![c] = "ret"] /\ UNCHANGED retry
        /\ ready[Idx(c)]
    BY <1>0, <1>1 DEF Compare, IInv, FirstOfItsProbe
  <2>2. \A d \in Callers : Idx(d)' = Idx(d)
    BY <1>0, <2>1 DEF Idx
  <2>3. /\ \A d \in Callers : d # c => pc'[d] = pc[d]
        /\ pc'[c] = "ret"
    BY <1>0, <2>1 DEF TypeOK
  <2>4. TypeOK'
    BY <1>0, <2>1 DEF TypeOK
  <2>5. ProbedPrefix'
    BY <1>0, <2>1, <2>3 DEF IInv, ProbedPrefix, Inside
  <2>6. WithinRetries' /\ WaitsForClaimed' /\ ReturnsConstructedEntry'
    BY <1>0, <1>1, <2>1, <2>2, <2>3 DEF IInv, WithinRetries, WaitsForClaimed, ReturnsConstructedEntry
  <2>7. OneOwner'
    BY <1>0, <2>1, <2>2, <2>3 DEF IInv, OneOwner, Owns
  <2>8. FirstOfItsProbe' /\ AbortedAtEnd'
    BY <1>0 DEF IInv, FirstOfItsProbe, FirstAt, AbortedAtEnd
  <2> QED BY <2>4, <2>5, <2>6, <2>7, <2>8 DEF IInv
<1>2. CASE key[Idx(c)] # arg[c]
  <2>1. /\ pc' = [pc EXCEPT ![c] = "load"]
        /\ retry' = [retry EXCEPT ![c] = @ + 1]
    BY <1>2 DEF Compare
  <2>2. /\ \A d \in Callers : d # c => pc'[d] = pc[d] /\ retry'[d] = retry[d] /\ Idx(d)' = Idx(d)
        /\ pc'[c] = "load" /\ retry'[c] = retry[c] + 1
    BY <1>0, <2>1 DEF TypeOK, Idx
  <2>3. TypeOK'
    BY <1>0, <2>1, MapAssumption DEF TypeOK
  <2>4. ProbedPrefix'
    <3> SUFFICES ASSUME NEW d \in Callers, Inside(d)', NEW j \in 0 .. retry'[d] - 1
                 PROVE  key[ProbeIdx(arg[d], j)] \in Keys \ {arg[d]}
      BY <1>0 DEF ProbedPrefix
    <3>1. CASE d # c
      BY <1>0, <2>2, <3>1 DEF IInv, ProbedPrefix, Inside
    <3>2. CASE d = c /\ j = retry[c]
      BY <1>2, <3>2 DEF Idx
    <3>3. CASE d = c /\ j # retry[c]
      <4>1. j \in 0 .. retry[c] - 1
        BY <1>0, <2>2, <3>3
      <4>2. Inside(c)
        BY DEF Inside
      <4> QED BY <4>1, <4>2, <3>3 DEF IInv, ProbedPrefix
    <3> QED BY <3>1, <3>2, <3>3
  <2>5. WithinRetries' /\ WaitsForClaimed' /\ ReturnsConstructedEntry'
    BY <1>0, <2>2 DEF IInv, WithinRetries, WaitsForClaimed, ReturnsConstructedEntry
  <2>6. OneOwner'
    BY <1>0, <2>2 DEF IInv, OneOwner, Owns
  <2>7. FirstOfItsProbe' /\ AbortedAtEnd'
    BY <1>0 DEF IInv, FirstOfItsProbe, FirstAt, AbortedAtEnd
  <2> QED BY <2>3, <2>4, <2>5, <2>6, <2>7 DEF IInv
<1> QED BY <1>1, <1>2

\* Claiming and publishing change one bucket that holds no key; what is
\* known of published buckets stays true.
LEMMA OneBucketChanges ==
    ASSUME IInv, NEW c \in Callers, NEW v \in Keys \cup {Claimed},
           key[Idx(c)] \notin Keys, key' = [key EXCEPT ![Idx(c)] = v],
           UNCHANGED <<arg, retry>>,
           \A d \in Callers : Inside(d)' => Inside(d)
    PROVE  /\ key' \in [Slots -> Keys \cup {NoKey, Claimed}]
           /\ key'[Idx(c)] = v
           /\ \A s \in Slots : s # Idx(c) => key'[s] = key[s]
           /\ \A d \in Callers : Idx(d)' = Idx(d)
           /\ ProbedPrefix'
           /\ \A s \in Slots : key[s] \in Keys => \E d \in Nat : FirstAt(s, d)'
<1>0. /\ \A d \in Callers : Idx(d) \in Slots /\ retry[d] \in Nat /\ arg[d] \in Keys
      /\ TypeOK
  BY IdxInTable DEF IInv
<1>1. /\ key' \in [Slots -> Keys \cup {NoKey, Claimed}]
      /\ key'[Idx(c)] = v
      /\ \A s \in Slots : s # Idx(c) => key'[s] = key[s]
  BY <1>0 DEF TypeOK
<1>2. \A d \in Callers : Idx(d)' = Idx(d)
  BY DEF Idx
<1>3. ProbedPrefix'
  <2> SUFFICES ASSUME NEW d \in Callers, Inside(d), NEW j \in 0 .. retry[d] - 1
               PROVE  key'[ProbeIdx(arg[d], j)] \in Keys \ {arg[d]}
    BY DEF ProbedPrefix
  <2>1. ProbeIdx(arg[d], j) \in Slots
    BY <1>0, ProbeInTable
  <2>2. key[ProbeIdx(arg[d], j)] \in Keys \ {arg[d]}
    BY <1>0 DEF IInv, ProbedPrefix
  <2> QED BY <1>1, <2>1, <2>2
<1>4. ASSUME NEW s \in Slots, key[s] \in Keys
      PROVE  \E d \in Nat : FirstAt(s, d)'
  <2>1. PICK d \in Nat : FirstAt(s, d)
    BY <1>4 DEF IInv, FirstOfItsProbe
  <2>2. key'[s] = key[s]
    BY <1>1, <1>4
  <2>3. \A j \in 0 .. d - 1 : key'[ProbeIdx(key[s], j)] = key[ProbeIdx(key[s], j)]
    BY <1>1, <1>4, <2>1, ProbeInTable DEF FirstAt
  <2>4. FirstAt(s, d)'
    BY <2>1, <2>2, <2>3 DEF FirstAt
  <2> QED BY <2>4
<1> QED BY <1>1, <1>2, <1>3, <1>4

LEMMA ClaimInv ==
    ASSUME IInv, ~aborted, NEW c \in Callers, Claim(c)
    PROVE  IInv'
<1>0. /\ \A d \in Callers : Idx(d) \in Slots /\ retry[d] \in Nat /\ arg[d] \in Keys
      /\ UNCHANGED <<ready, arg, retry, fresh, aborted>>
      /\ pc' = [pc EXCEPT ![c] = "construct"]
      /\ key' = [key EXCEPT ![Idx(c)] = Claimed]
      /\ pc[c] = "cas" /\ key[Idx(c)] = NoKey
      /\ TypeOK
  BY IdxInTable DEF IInv, Claim
<1>1. /\ \A d \in Callers : d # c => pc'[d] = pc[d]
      /\ pc'[c] = "construct"
  BY <1>0 DEF TypeOK
<1>2. \A d \in Callers : Inside(d)' => Inside(d)
  BY <1>0, <1>1 DEF Inside
<1>3. /\ key' \in [Slots -> Keys \cup {NoKey, Claimed}]
      /\ key'[Idx(c)] = Claimed
      /\ \A s \in Slots : s # Idx(c) => key'[s] = key[s]
      /\ \A d \in Callers : Idx(d)' = Idx(d)
      /\ ProbedPrefix'
      /\ \A s \in Slots : key[s] \in Keys => \E d \in Nat : FirstAt(s, d)'
  BY Zenon, <1>0, <1>2, OneBucketChanges, MapAssumption
<1>4. TypeOK'
  BY <1>0, <1>3 DEF TypeOK
<1>5. WithinRetries' /\ WaitsForClaimed' /\ ReturnsConstructedEntry' /\ AbortedAtEnd'
  BY <1>0, <1>1, <1>3, MapAssumption
  DEF IInv, WithinRetries, WaitsForClaimed, ReturnsConstructedEntry, AbortedAtEnd
<1>6. OneOwner'
  BY <1>0, <1>1, <1>3, MapAssumption DEF IInv, OneOwner, Owns
<1>7. FirstOfItsProbe'
  BY <1>0, <1>3, MapAssumption DEF IInv, FirstOfItsProbe
<1> QED BY <1>3, <1>4, <1>5, <1>6, <1>7 DEF IInv

LEMMA PublishInv ==
    ASSUME IInv, ~aborted, NEW c \in Callers, Publish(c)
    PROVE  IInv'
<1>0. /\ \A d \in Callers : Idx(d) \in Slots /\ retry[d] \in Nat /\ arg[d] \in Keys
      /\ UNCHANGED <<ready, arg, retry, aborted>>
      /\ pc' = [pc EXCEPT ![c] = "ret"]
      /\ key' = [key EXCEPT ![Idx(c)] = arg[c]]
      /\ pc[c] = "publish" /\ key[Idx(c)] = Claimed /\ ready[Idx(c)]
      /\ TypeOK
  BY IdxInTable DEF IInv, Publish, OneOwner, Owns
<1>1. /\ \A d \in Callers : d # c => pc'[d] = pc[d]
      /\ pc'[c] = "ret"
  BY <1>0 DEF TypeOK
<1>2. \A d \in Callers : Inside(d)' => Inside(d)
  BY <1>0, <1>1 DEF Inside
<1>3. /\ key' \in [Slots -> Keys \cup {NoKey, Claimed}]
      /\ key'[Idx(c)] = arg[c]
      /\ \A s \in Slots : s # Idx(c) => key'[s] = key[s]
      /\ \A d \in Callers : Idx(d)' = Idx(d)
      /\ ProbedPrefix'
      /\ \A s \in Slots : key[s] \in Keys => \E d \in Nat : FirstAt(s, d)'
  BY Zenon, <1>0, <1>2, OneBucketChanges, MapAssumption
<1>4. TypeOK'
  <2>1. fresh' \in [Callers -> BOOLEAN]
    BY <1>0 DEF Publish, TypeOK
  <2> QED BY Zenon, <1>0, <1>3, <2>1 DEF TypeOK
<1>5. WithinRetries' /\ WaitsForClaimed' /\ AbortedAtEnd'
  BY <1>0, <1>1, <1>3, MapAssumption DEF IInv, WithinRetries, WaitsForClaimed, AbortedAtEnd
<1>6. ReturnsConstructedEntry'
  BY <1>0, <1>1, <1>3, MapAssumption DEF IInv, ReturnsConstructedEntry
<1>7. OneOwner'
  BY <1>0, <1>1, <1>3, MapAssumption DEF IInv, OneOwner, Owns
<1>8. FirstOfItsProbe'
  <2> SUFFICES ASSUME NEW s \in Slots, key'[s] \in Keys
               PROVE  ready'[s] /\ \E d \in Nat : FirstAt(s, d)'
    BY DEF FirstOfItsProbe
  <2>1. CASE s = Idx(c)
    <3>1. \A j \in 0 .. retry[c] - 1 : key'[ProbeIdx(arg[c], j)] \in Keys \ {arg[c]}
      <4> TAKE j \in 0 .. retry[c] - 1
      <4>1. ProbeIdx(arg[c], j) \in Slots
        BY <1>0, ProbeInTable
      <4>2. key[ProbeIdx(arg[c], j)] \in Keys \ {arg[c]}
        BY <1>0 DEF IInv, ProbedPrefix, Inside
      <4> QED BY <1>0, <1>3, <4>1, <4>2, MapAssumption
    <3>2. FirstAt(s, retry[c])'
      BY <1>0, <1>3, <2>1, <3>1 DEF FirstAt, Idx
    <3> QED BY <1>0, <2>1, <3>2
  <2>2. CASE s # Idx(c)
    BY <1>0, <1>3, <2>2 DEF IInv, FirstOfItsProbe
  <2> QED BY <2>1, <2>2
<1> QED BY <1>3, <1>4, <1>5, <1>6, <1>7, <1>8 DEF IInv

\* Steps of one caller that only move its program counter.
LEMMA MoveInv ==
    ASSUME IInv, ~aborted, NEW c \in Callers,
           \/ LoadVacant(c)
           \/ LoseClaim(c) /\ key[Idx(c)] = Claimed
           \/ Return(c)
    PROVE  IInv'
<1> DEFINE p == pc'[c]
<1>0. /\ \A d \in Callers : Idx(d) \in Slots /\ retry[d] \in Nat /\ arg[d] \in Keys
      /\ UNCHANGED <<key, ready, arg, retry, fresh, aborted>>
      /\ TypeOK
  BY IdxInTable DEF IInv, LoadVacant, LoseClaim, Return
<1>1. \A d \in Callers : d # c => pc'[d] = pc[d]
  BY <1>0 DEF TypeOK, LoadVacant, LoseClaim, Return
<1>2. \A d \in Callers : Idx(d)' = Idx(d)
  BY <1>0 DEF Idx
<1>3. /\ pc' \in [Callers -> {"idle", "load", "cas", "construct", "publish", "wait", "ret"}]
      /\ p \in {"cas", "wait", "idle"}
      /\ p # "idle" => Inside(c) /\ retry[c] < MaxRetry
      /\ p = "wait" => key[Idx(c)] = Claimed
  BY <1>0, MapAssumption DEF TypeOK, LoadVacant, LoseClaim, Return, Inside, IInv, WithinRetries
<1>4. TypeOK'
  BY <1>0, <1>3 DEF TypeOK
<1>5. ProbedPrefix'
  BY <1>0, <1>1, <1>3 DEF IInv, ProbedPrefix, Inside
<1>6. WithinRetries' /\ WaitsForClaimed' /\ ReturnsConstructedEntry'
  BY <1>0, <1>1, <1>2, <1>3, MapAssumption
  DEF IInv, WithinRetries, WaitsForClaimed, ReturnsConstructedEntry
<1>7. OneOwner'
  BY <1>0, <1>1, <1>2, <1>3 DEF IInv, OneOwner, Owns
<1>8. FirstOfItsProbe' /\ AbortedAtEnd'
  BY <1>0 DEF IInv, FirstOfItsProbe, FirstAt, AbortedAtEnd
<1> QED BY <1>4, <1>5, <1>6, <1>7, <1>8 DEF IInv

LEMMA CallInv ==
    ASSUME IInv, ~aborted, NEW c \in Callers, NEW k \in Keys, Call(c, k)
    PROVE  IInv'
<1>0. /\ \A d \in Callers : Idx(d) \in Slots /\ retry[d] \in Nat /\ arg[d] \in Keys
      /\ UNCHANGED <<key, ready, aborted>>
      /\ TypeOK
  BY IdxInTable DEF IInv, Call
<1>1. /\ \A d \in Callers : d # c => /\ pc'[d] = pc[d] /\ retry'[d] = retry[d]
                                     /\ arg'[d] = arg[d] /\ Idx(d)' = Idx(d)
      /\ pc'[c] = "load" /\ retry'[c] = 0
  BY <1>0 DEF TypeOK, Call, Idx
<1>2. TypeOK'
  <2>1. fresh' \in [Callers -> BOOLEAN]
    BY <1>0 DEF Call, TypeOK
  <2> QED BY <1>0, <2>1, MapAssumption DEF TypeOK, Call
<1>3. ProbedPrefix'
  BY <1>0, <1>1 DEF IInv, ProbedPrefix, Inside
<1>4. WithinRetries' /\ WaitsForClaimed' /\ ReturnsConstructedEntry'
  BY <1>0, <1>1 DEF IInv, WithinRetries, WaitsForClaimed, ReturnsConstructedEntry
<1>5. OneOwner'
  BY <1>0, <1>1 DEF IInv, OneOwner, Owns
<1>6. FirstOfItsProbe' /\ AbortedAtEnd'
  BY <1>0 DEF IInv, FirstOfItsProbe, FirstAt, AbortedAtEnd
<1> QED BY <1>2, <1>3, <1>4, <1>5, <1>6 DEF IInv

LEMMA ConstructInv ==
    ASSUME IInv, ~aborted, NEW c \in Callers, Construct(c)
    PROVE  IInv'
<1>0. /\ \A d \in Callers : Idx(d) \in Slots /\ retry[d] \in Nat /\ arg[d] \in Keys
      /\ UNCHANGED <<key, arg, retry, fresh, aborted>>
      /\ pc[c] = "construct"
      /\ TypeOK
  BY IdxInTable DEF IInv, Construct
<1>1. /\ \A d \in Callers : d # c => pc'[d] = pc[d]
      /\ pc'[c] = "publish"
  BY <1>0 DEF TypeOK, Construct
<1>2. \A d \in Callers : Idx(d)' = Idx(d)
  BY <1>0 DEF Idx
<1>3. /\ ready' \in [Slots -> BOOLEAN]
      /\ ready'[Idx(c)]
      /\ \A s \in Slots : ready[s] => ready'[s]
  BY <1>0 DEF TypeOK, Construct
<1>4. TypeOK'
  BY <1>0, <1>3 DEF TypeOK, Construct
<1>5. ProbedPrefix'
  BY <1>0, <1>1 DEF IInv, ProbedPrefix, Inside
<1>6. WithinRetries' /\ WaitsForClaimed' /\ ReturnsConstructedEntry'
  BY <1>0, <1>1, <1>2, <1>3 DEF IInv, WithinRetries, WaitsForClaimed, ReturnsConstructedEntry
<1>7. OneOwner'
  BY <1>0, <1>1, <1>2, <1>3 DEF IInv, OneOwner, Owns
<1>8. FirstOfItsProbe' /\ AbortedAtEnd'
  BY <1>0, <1>3 DEF IInv, FirstOfItsProbe, FirstAt, AbortedAtEnd
<1> QED BY <1>4, <1>5, <1>6, <1>7, <1>8 DEF IInv

LEMMA AbortInv ==
    ASSUME IInv, NEW c \in Callers, Abort(c)
    PROVE  IInv'
<1>0. /\ UNCHANGED <<key, ready, pc, arg, retry, fresh>>
      /\ aborted' = TRUE /\ pc[c] = "load" /\ retry[c] = MaxRetry
  BY MapAssumption DEF IInv, TypeOK, Abort
<1>1. TypeOK' /\ AbortedAtEnd'
  BY <1>0 DEF IInv, TypeOK, AbortedAtEnd
<1>2. ProbedPrefix' /\ WithinRetries' /\ WaitsForClaimed' /\ FirstOfItsProbe'
  BY <1>0 DEF IInv, ProbedPrefix, Inside, WithinRetries, WaitsForClaimed, FirstOfItsProbe, FirstAt, Idx
<1>3. OneOwner' /\ ReturnsConstructedEntry'
  BY <1>0 DEF IInv, OneOwner, Owns, ReturnsConstructedEntry, Idx
<1> QED BY <1>1, <1>2, <1>3 DEF IInv

LEMMA StutterInv ==
    ASSUME IInv, UNCHANGED mapVars
    PROVE  IInv'
BY DEF mapVars, IInv, TypeOK, ProbedPrefix, Inside, WithinRetries, WaitsForClaimed,
       FirstOfItsProbe, FirstAt, OneOwner, Owns, ReturnsConstructedEntry, AbortedAtEnd, Idx

\* Every step of the map preserves the inductive invariant.
LEMMA NextInv == IInv /\ [MapNext]_mapVars => IInv'
<1> SUFFICES ASSUME IInv, MapNext PROVE IInv'
  BY StutterInv
<1>1. ASSUME NEW c \in Callers, InsertStep(c)
      PROVE  IInv'
  <2>0. ~aborted /\ Idx(c) \in Slots /\ key[Idx(c)] \in Keys \cup {NoKey, Claimed}
    BY <1>1, IdxInTable DEF InsertStep, IInv, TypeOK
  <2>1. CASE LoadOccupied(c)
    BY <2>0, <2>1, CompareInv DEF LoadOccupied
  <2>2. CASE LoadVacant(c)
    BY <2>0, <2>2, MoveInv
  <2>3. CASE Claim(c)
    BY <2>0, <2>3, ClaimInv
  <2>4. CASE LoseClaim(c)
    <3>1. CASE key[Idx(c)] = Claimed
      BY <2>0, <2>4, <3>1, MoveInv
    <3>2. CASE key[Idx(c)] # Claimed
      <4>1. key[Idx(c)] \in Keys /\ Compare(c) /\ pc[c] = "cas" /\ retry[c] < MaxRetry
        BY <2>0, <2>4, <3>2 DEF LoseClaim, IInv, WithinRetries
      <4> QED BY <2>0, <4>1, CompareInv
    <3> QED BY <3>1, <3>2
  <2>5. CASE Construct(c)
    BY <2>0, <2>5, ConstructInv
  <2>6. CASE Publish(c)
    BY <2>0, <2>6, PublishInv
  <2>7. CASE Awake(c)
    <3>1. key[Idx(c)] \in Keys /\ Compare(c) /\ pc[c] = "wait" /\ retry[c] < MaxRetry
      BY <2>0, <2>7 DEF Awake, IInv, WithinRetries, WaitsForClaimed
    <3> QED BY <2>0, <3>1, CompareInv
  <2>8. CASE Abort(c)
    BY <2>8, AbortInv
  <2> QED BY <1>1, <2>1, <2>2, <2>3, <2>4, <2>5, <2>6, <2>7, <2>8 DEF InsertStep
<1>2. ASSUME NEW c \in Callers, CallerStep(c)
      PROVE  IInv'
  BY <1>2, CallInv, MoveInv DEF CallerStep
<1>3. CASE Terminated
  BY <1>3, StutterInv DEF Terminated
<1> QED BY <1>1, <1>2, <1>3 DEF MapNext
-----------------------------------------------------------------------------
\* The inductive invariant holds in every reachable state.
THEOREM Inductive == MapSpec => []IInv
BY InitInv, NextInv, PTL DEF MapSpec

\* The variables of the map keep their types; in particular no probe index
\* leaves the table and no loop counter passes MAX_RETRY.
THEOREM TypeCorrect == MapSpec => []TypeOK
<1>1. IInv => TypeOK
  BY DEF IInv
<1> QED BY <1>1, Inductive, PTL

\* insert_entry never gives a key two buckets, whatever the number of
\* threads, the size of the shards and the hash function.
THEOREM KeysAreUnique == MapSpec => []UniqueKeys
<1>1. ASSUME IInv PROVE UniqueKeys
  <2> SUFFICES ASSUME NEW s1 \in Slots, NEW s2 \in Slots, key[s1] \in Keys, key[s1] = key[s2]
               PROVE  s1 = s2
    BY DEF UniqueKeys
  <2>1. PICK d1 \in Nat : FirstAt(s1, d1)
    BY <1>1 DEF IInv, FirstOfItsProbe
  <2>2. PICK d2 \in Nat : FirstAt(s2, d2)
    BY <1>1 DEF IInv, FirstOfItsProbe
  <2>3. ~(d1 < d2)
    BY <2>1, <2>2 DEF FirstAt
  <2>4. ~(d2 < d1)
    BY <2>1, <2>2 DEF FirstAt
  <2> QED BY <2>1, <2>2, <2>3, <2>4 DEF FirstAt
<1> QED BY <1>1, Inductive, PTL

\* insert_entry returns the constructed entry of the key it was called with.
THEOREM ReturnsAreConstructed == MapSpec => []ReturnsConstructedEntry
<1>1. IInv => ReturnsConstructedEntry
  BY DEF IInv
<1> QED BY <1>1, Inductive, PTL

\* If MAX_RETRY covers a shard, insert_entry aborts only when all buckets of
\* the caller's shard hold other keys.
THEOREM AbortsOnlyWhenFull ==
    ASSUME ShardSize <= MaxRetry
    PROVE  MapSpec => []AbortOnlyWhenFull
<1>1. IInv => AbortOnlyWhenFull
  BY MapAssumption DEF IInv, AbortedAtEnd, AbortOnlyWhenFull, ProbedPrefix, Inside
<1> QED BY <1>1, Inductive, PTL

\* What a step does to a bucket: only an empty or a claimed one changes, and
\* nothing constructed is taken apart.
LEMMA PublishedStays ==
    ASSUME IInv, [MapNext]_mapVars, NEW s \in Slots, key[s] \in Keys
    PROVE  key'[s] = key[s] /\ ready'[s]
<1>0. /\ ready[s] /\ TypeOK
      /\ \A d \in Callers : Idx(d) \in Slots
  BY IdxInTable DEF IInv, FirstOfItsProbe
<1>1. ASSUME NEW c \in Callers, Claim(c) \/ Publish(c)
      PROVE  key'[s] = key[s] /\ ready'[s]
  <2>1. key[Idx(c)] \notin Keys
    BY <1>1, MapAssumption DEF Claim, Publish, IInv, OneOwner, Owns
  <2> QED BY <1>0, <1>1, <2>1 DEF Claim, Publish, TypeOK
<1>2. ASSUME NEW c \in Callers, Construct(c)
      PROVE  key'[s] = key[s] /\ ready'[s]
  BY SMTT(30), <1>0, <1>2 DEF Construct, TypeOK
<1>3. ASSUME NEW c \in Callers, InsertStep(c) \/ CallerStep(c),
             ~Claim(c), ~Publish(c), ~Construct(c)
      PROVE  key'[s] = key[s] /\ ready'[s]
  BY <1>0, <1>3 DEF InsertStep, CallerStep, LoadOccupied, LoadVacant, LoseClaim, Awake,
                    Abort, Compare, Call, Return
<1>4. CASE UNCHANGED mapVars
  BY <1>0, <1>4 DEF mapVars
<1> QED BY <1>1, <1>2, <1>3, <1>4 DEF MapNext, Terminated

\* A published bucket never changes, so pointers to entries stay valid.
THEOREM PublishedForEver == MapSpec => PublishedIsFinal
<1>1. IInv /\ [MapNext]_mapVars =>
        [\A s \in Slots : key[s] \in Keys => key'[s] = key[s] /\ ready'[s]]_mapVars
  BY PublishedStays
<1> QED BY <1>1, Inductive, PTL DEF MapSpec, PublishedIsFinal
-----------------------------------------------------------------------------
\* A caller's move between program points is the same move of its status.
LEMMA StatusMoves ==
    ASSUME TypeOK, NEW c \in Callers, NEW p, pc' = [pc EXCEPT ![c] = p]
    PROVE  /\ Status' = [Status EXCEPT ![c] = CASE p = "idle" -> "idle"
                                               [] p = "ret" -> "done"
                                               [] OTHER -> "busy"]
           /\ Status[c] = CASE pc[c] = "idle" -> "idle"
                             [] pc[c] = "ret" -> "done"
                             [] OTHER -> "busy"
BY Zenon DEF TypeOK, Status

\* Comparing keys is a lookup of the abstract table, or nothing.
LEMMA CompareRefines ==
    ASSUME IInv, NEW c \in Callers, pc[c] \in {"load", "cas", "wait"},
           key[Idx(c)] \in Keys, ~aborted, Compare(c), fresh[c] = FALSE
    PROVE  Intern!InternNext \/ UNCHANGED Intern!internVars
<1>0. /\ TypeOK /\ Idx(c) \in Slots /\ arg[c] \in Keys
      /\ UNCHANGED <<key, ready, arg, fresh, aborted>>
  BY IdxInTable DEF IInv, Compare
<1>1. Content' = Content
  BY <1>0 DEF Content
<1>2. CASE key[Idx(c)] = arg[c]
  <2>1. pc' = [pc EXCEPT ![c] = "ret"]
    BY <1>2 DEF Compare
  <2>2. Status[c] = "busy" /\ Status' = [Status EXCEPT ![c] = "done"]
    BY Zenon, <1>0, <2>1, StatusMoves
  <2>3. arg[c] \in Content
    BY <1>0, <1>2 DEF Content
  <2>4. fresh' = [fresh EXCEPT ![c] = arg[c] \notin Content]
    BY <1>0, <2>3 DEF TypeOK
  <2>5. Intern!Insert(c)
    BY Zenon, <1>0, <1>1, <2>2, <2>3, <2>4 DEF Intern!Insert
  <2> QED BY <1>0, <2>5 DEF Intern!InternNext
<1>3. CASE key[Idx(c)] # arg[c]
  <2>1. pc' = [pc EXCEPT ![c] = "load"]
    BY <1>3 DEF Compare
  <2>2. Status' = Status
    BY <1>0, <2>1 DEF Status, TypeOK
  <2> QED BY <1>0, <1>1, <2>2 DEF Intern!internVars
<1> QED BY <1>2, <1>3

\* Until it returns, a caller's `inserted' result is false.
NotYetFresh == \A c \in Callers : Inside(c) => fresh[c] = FALSE

LEMMA NotYetFreshInv == MapSpec => []NotYetFresh
<1>1. MapInit => NotYetFresh
  BY DEF MapInit, NotYetFresh, Inside
<1>2. IInv /\ NotYetFresh /\ [MapNext]_mapVars => NotYetFresh'
  <2> SUFFICES ASSUME IInv, NotYetFresh, [MapNext]_mapVars, NEW d \in Callers, Inside(d)'
               PROVE  fresh'[d] = FALSE
    BY Zenon DEF NotYetFresh
  <2>1. TypeOK
    BY DEF IInv
  <2>2. ASSUME NEW c \in Callers, InsertStep(c) PROVE fresh'[d] = FALSE
    <3>1. \/ c # d /\ pc'[d] = pc[d] /\ fresh'[d] = fresh[d]
          \/ c = d /\ Inside(d) /\ fresh' = fresh
          \/ c = d /\ pc'[d] = "ret"
      BY <2>1, <2>2 DEF TypeOK, InsertStep, LoadOccupied, LoadVacant, Claim, LoseClaim,
                        Construct, Publish, Awake, Abort, Compare, Inside
    <3> QED BY <3>1 DEF NotYetFresh, Inside
  <2>3. ASSUME NEW c \in Callers, CallerStep(c) PROVE fresh'[d] = FALSE
    BY <2>1, <2>3 DEF TypeOK, CallerStep, Call, Return, NotYetFresh, Inside
  <2>4. CASE UNCHANGED mapVars
    BY <2>4 DEF mapVars, NotYetFresh, Inside
  <2> QED BY Zenon, <2>2, <2>3, <2>4 DEF MapNext, Terminated
<1> QED BY <1>1, <1>2, Inductive, PTL DEF MapSpec

\* Publishing a key is the abstract insertion of a key that was absent.
LEMMA PublishRefines ==
    ASSUME IInv, IInv', ~aborted, NEW c \in Callers, Publish(c)
    PROVE  Intern!InternNext
<1>0. /\ TypeOK /\ Idx(c) \in Slots /\ arg[c] \in Keys /\ retry[c] \in Nat
      /\ key[Idx(c)] = Claimed
  BY IdxInTable DEF IInv, OneOwner, Owns, Publish
<1>1. Status[c] = "busy" /\ Status' = [Status EXCEPT ![c] = "done"]
  BY Zenon, <1>0, StatusMoves DEF Publish
<1>2. arg[c] \notin Content
  <2> SUFFICES ASSUME NEW s \in Slots, key[s] = arg[c] PROVE FALSE
    BY DEF Content
  <2>1. PICK d \in Nat : FirstAt(s, d)
    BY <1>0 DEF IInv, FirstOfItsProbe
  <2>2. \A j \in 0 .. retry[c] - 1 : key[ProbeIdx(arg[c], j)] # arg[c]
    BY DEF IInv, ProbedPrefix, Inside, Publish
  <2>3. ~(d < retry[c])
    BY <1>0, <2>1, <2>2 DEF FirstAt
  <2>4. ~(d > retry[c])
    BY <1>0, <2>1, MapAssumption DEF FirstAt, Idx
  <2>5. d = retry[c]
    BY <1>0, <2>3, <2>4
  <2> QED BY <1>0, <2>1, <2>5, MapAssumption DEF FirstAt, Idx
<1>3. Content' = Content \cup {arg[c]}
  <2>1. /\ key'[Idx(c)] = arg[c]
        /\ \A s \in Slots : s # Idx(c) => key'[s] = key[s]
    BY <1>0 DEF Publish, TypeOK
  <2>2. Content' = {k \in Keys : \E s \in Slots : key'[s] = k}
    BY DEF Content
  <2> QED BY <1>0, <2>1, <2>2, MapAssumption DEF Content
<1>4. fresh' = [fresh EXCEPT ![c] = arg[c] \notin Content]
  BY Zenon, <1>0, <1>2 DEF Publish, TypeOK
<1>5. Intern!Insert(c)
  BY Zenon, <1>1, <1>3, <1>4 DEF Intern!Insert, Publish
<1> QED BY <1>5 DEF Intern!InternNext

\* The steps that change no status and no published key are invisible.
LEMMA InvisibleSteps ==
    ASSUME IInv, NEW c \in Callers,
           \/ LoadVacant(c) \/ Claim(c) \/ Construct(c)
           \/ LoseClaim(c) /\ key[Idx(c)] = Claimed
    PROVE  UNCHANGED Intern!internVars
<1>0. TypeOK /\ Idx(c) \in Slots
  BY IdxInTable DEF IInv
<1>1. UNCHANGED <<arg, fresh, aborted>>
  BY DEF LoadVacant, Claim, Construct, LoseClaim
<1>2. Status' = Status
  BY <1>0 DEF Status, TypeOK, LoadVacant, Claim, Construct, LoseClaim
<1>3. Content' = Content
  <2>1. \/ key' = key
        \/ key[Idx(c)] = NoKey /\ key' = [key EXCEPT ![Idx(c)] = Claimed]
    BY DEF LoadVacant, Claim, Construct, LoseClaim
  <2>2. \A s \in Slots, k \in Keys : key'[s] = k <=> key[s] = k
    BY <1>0, <2>1, MapAssumption DEF TypeOK
  <2> QED BY <2>2 DEF Content
<1> QED BY <1>1, <1>2, <1>3 DEF Intern!internVars

\* ConcurrentMap::insert implements the atomic table: every key is created
\* by exactly one caller, at one moment, and all other insertions find it.
THEOREM MapImplementsInternTable == MapSpec => ImplementsInternTable
<1>1. MapInit => Intern!InternInit
  <2> SUFFICES ASSUME MapInit PROVE Intern!InternInit
    OBVIOUS
  <2>1. Content = {}
    BY MapAssumption DEF MapInit, Content
  <2>2. Status = [c \in Callers |-> "idle"]
    BY DEF MapInit, Status
  <2> QED BY <2>1, <2>2 DEF MapInit, Intern!InternInit
<1>2. IInv /\ IInv' /\ NotYetFresh /\ [MapNext]_mapVars
        => [Intern!InternNext]_(Intern!internVars)
  <2> SUFFICES ASSUME IInv, IInv', NotYetFresh, [MapNext]_mapVars
               PROVE  Intern!InternNext \/ UNCHANGED Intern!internVars
    OBVIOUS
  <2>0. TypeOK
    BY DEF IInv
  <2>1. ASSUME NEW c \in Callers, InsertStep(c)
        PROVE  Intern!InternNext \/ UNCHANGED Intern!internVars
    <3>0. /\ ~aborted /\ Idx(c) \in Slots /\ key[Idx(c)] \in Keys \cup {NoKey, Claimed}
          /\ Inside(c) => fresh[c] = FALSE
      BY <2>0, <2>1, IdxInTable DEF InsertStep, TypeOK, NotYetFresh
    <3>1. CASE LoadOccupied(c)
      BY Zenon, <3>0, <3>1, CompareRefines DEF LoadOccupied, Inside
    <3>2. CASE LoseClaim(c) /\ key[Idx(c)] # Claimed
      BY Zenon, <3>0, <3>2, CompareRefines DEF LoseClaim, Inside
    <3>3. CASE Awake(c)
      <4>1. key[Idx(c)] \in Keys /\ pc[c] = "wait" /\ Compare(c)
        BY <3>0, <3>3 DEF Awake, IInv, WaitsForClaimed
      <4> QED BY Zenon, <3>0, <4>1, CompareRefines DEF Inside
    <3>4. CASE Publish(c)
      BY <3>0, <3>4, PublishRefines
    <3>5. CASE LoadVacant(c) \/ Claim(c) \/ Construct(c) \/ (LoseClaim(c) /\ key[Idx(c)] = Claimed)
      BY <3>5, InvisibleSteps
    <3>6. CASE Abort(c)
      <4>1. Status[c] = "busy" /\ Status' = Status /\ Content' = Content
        BY <3>6 DEF Abort, Status, Content
      <4>2. Intern!GiveUp(c)
        BY <3>6, <4>1 DEF Abort, Intern!GiveUp
      <4> QED BY <3>0, <4>2 DEF Intern!InternNext
    <3> QED BY <2>1, <3>1, <3>2, <3>3, <3>4, <3>5, <3>6 DEF InsertStep
  <2>2. ASSUME NEW c \in Callers, NEW k \in Keys, ~aborted, Call(c, k)
        PROVE  Intern!InternNext
    <3>0. pc[c] = "idle" /\ pc' = [pc EXCEPT ![c] = "load"] /\ key' = key
      BY <2>2 DEF Call
    <3>1. Status[c] = "idle" /\ Status' = [Status EXCEPT ![c] = "busy"]
      BY Zenon, <2>0, <3>0 DEF Status, TypeOK
    <3>2. Content' = Content
      BY <3>0 DEF Content
    <3>3. Intern!Invoke(c, k)
      BY <2>2, <3>1, <3>2 DEF Call, Intern!Invoke
    <3> QED BY <2>2, <3>3 DEF Intern!InternNext
  <2>3. ASSUME NEW c \in Callers, ~aborted, Return(c)
        PROVE  Intern!InternNext
    <3>1. Status[c] = "done" /\ Status' = [Status EXCEPT ![c] = "idle"] /\ Content' = Content
      BY Zenon, <2>0, <2>3, StatusMoves DEF Return, Content
    <3>2. Intern!Respond(c)
      BY <2>3, <3>1 DEF Return, Intern!Respond
    <3> QED BY <2>3, <3>2 DEF Intern!InternNext
  <2>4. CASE UNCHANGED mapVars
    BY <2>4 DEF mapVars, Intern!internVars, Content, Status
  <2> QED BY <2>1, <2>2, <2>3, <2>4 DEF MapNext, CallerStep, Terminated
<1> QED BY <1>1, <1>2, Inductive, NotYetFreshInv, PTL
    DEF MapSpec, ImplementsInternTable, Intern!InternSpec
=============================================================================
