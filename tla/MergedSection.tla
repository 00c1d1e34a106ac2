--------------------------- MODULE MergedSection ---------------------------
(***************************************************************************)
(* MergedSection<E> of output-chunks.cc: one output section of merged      *)
(* strings.  Its mergeable input sections are resolved in parallel: each   *)
(* inserts its fragments into the section's ConcurrentMap and raises the   *)
(* fragment's alignment.  Later passes drop the garbage-collected          *)
(* fragments and give the others offsets shard by shard; for debug         *)
(* sections sort_debug_info_sections (passes.cc) may ask for the fragments *)
(* that 32-bit DWARF uses to come first and compute the offsets again.     *)
(*                                                                         *)
(* Keys are natural numbers that order as memcmp orders the strings.       *)
(***************************************************************************)
EXTENDS ConcurrentMap, SequencesExt

CONSTANT Inputs   \* the merged sections that are considered: records with
                  \*   contents  the fragments of each mergeable section, in order
                  \*   p2align   p2align of each mergeable section
                  \*   dwarf32   the sections whose file has DWARF32 debug info
                  \*   keylen    the length of each fragment
                  \*   entsize   sh_entsize

Sections == Callers

ASSUME MergedAssumption ==
    /\ Keys \subseteq Nat
    /\ \A n \in Inputs :
         /\ \A m \in Sections : n.contents[m] \in Seq(Keys) /\ n.p2align[m] \in Nat
         /\ n.dwarf32 \subseteq Sections
         /\ n.entsize \in Nat \ {0}
         /\ \A k \in Keys : n.keylen[k] \in Nat \ {0} /\ n.keylen[k] % n.entsize = 0

VARIABLES
    in,           \* the merged section
    fragments,    \* MergeableSection::fragments, as bucket indices
    p2align,      \* SectionFragment::p2align of each bucket
    old,          \* update_maximum's old_val; -1 before its load
    phase,        \* the pass that is running
    isAlloc,      \* the section has SHF_ALLOC (and --gc-sections is given)
    alive,        \* SectionFragment::is_alive
    is32,         \* SectionFragment::is_32bit
    offset,       \* SectionFragment::offset
    sizes,        \* the vector of shard sizes
    shardOffsets, \* shard_offsets
    shardsDone,   \* iterations of the current parallel_for that have run
    cleared,      \* iterations of write_to that have passed their memset
    buf           \* the section in the output buffer: <<k, n>> is byte n of k

layoutVars == <<alive, is32, offset, sizes, shardOffsets, shardsDone>>
writeVars == <<cleared, buf>>
mergeVars == <<in, fragments, p2align, old, phase, isAlloc, layoutVars, writeVars>>
vars == <<mapVars, mergeVars>>

Contents == in.contents
P2Align == in.p2align
Dwarf32 == in.dwarf32
KeyLen == in.keylen
EntSize == in.entsize

Shards == 0 .. NumShards - 1
ShardSlots(i) == i * ShardSize .. (i + 1) * ShardSize - 1
Align(n, p) == ((n + 2^p - 1) \div 2^p) * 2^p

Init ==
    /\ in \in Inputs
    /\ MapInit
    /\ arg = [m \in Sections |-> CHOOSE k \in Keys : TRUE]
    /\ fragments = [m \in Sections |-> <<>>]
    /\ p2align = [s \in Slots |-> 0]
    /\ old = [m \in Sections |-> -1]
    /\ phase = "resolve"
    /\ isAlloc \in BOOLEAN
    /\ alive = [s \in Slots |-> FALSE]
    /\ is32 = [s \in Slots |-> FALSE]
    /\ offset = [s \in Slots |-> -1]
    /\ sizes = [i \in 0 .. 2 * NumShards - 1 |-> 0]
    /\ shardOffsets = [i \in 0 .. 2 * NumShards |-> 0]
    /\ shardsDone = {}
    /\ cleared = {}
    /\ buf = <<>>
-----------------------------------------------------------------------------
(***************************************************************************)
(* resolve(): the sections insert their fragments.                         *)
(***************************************************************************)
InsertFragment(m) ==
    /\ phase = "resolve" /\ Len(fragments[m]) < Len(Contents[m])
    /\ Call(m, Contents[m][Len(fragments[m]) + 1])
    /\ UNCHANGED mergeVars

MapStep(m) ==
    /\ phase = "resolve"
    /\ InsertStep(m)
    /\ UNCHANGED mergeVars

\* update_maximum(frag->p2align, p2align): the load, ...
LoadMaximum(m) ==
    /\ pc[m] = "ret" /\ old[m] = -1
    /\ old' = [old EXCEPT ![m] = p2align[Idx(m)]]
    /\ UNCHANGED <<in, mapVars, fragments, p2align, phase, isAlloc, layoutVars,
                   writeVars>>

\* ... a compare-exchange that fails (and reloads), ...
RetryMaximum(m) ==
    /\ pc[m] = "ret" /\ old[m] # -1
    /\ old[m] < P2Align[m] /\ p2align[Idx(m)] # old[m]
    /\ old' = [old EXCEPT ![m] = p2align[Idx(m)]]
    /\ UNCHANGED <<in, mapVars, fragments, p2align, phase, isAlloc, layoutVars,
                   writeVars>>

\* Mutant of EndMaximum: a plain store where the code has compare-exchange.
EndMaximumByStore(m) ==
    /\ old[m] # -1
    /\ p2align' = IF old[m] < P2Align[m]
                    THEN [p2align EXCEPT ![Idx(m)] = P2Align[m]]
                    ELSE p2align
    /\ old' = [old EXCEPT ![m] = -1]
    /\ fragments' = [fragments EXCEPT ![m] = Append(@, Idx(m))]
    /\ Return(m)
    /\ UNCHANGED <<in, phase, isAlloc, layoutVars, writeVars>>

\* ... or the end of the loop; then fragments.push_back(get_idx(frag)).
EndMaximum(m) ==
    /\ old[m] # -1
    /\ old[m] >= P2Align[m] \/ p2align[Idx(m)] = old[m]
    /\ p2align' = IF old[m] < P2Align[m]
                    THEN [p2align EXCEPT ![Idx(m)] = P2Align[m]]
                    ELSE p2align
    /\ old' = [old EXCEPT ![m] = -1]
    /\ fragments' = [fragments EXCEPT ![m] = Append(@, Idx(m))]
    /\ Return(m)
    /\ UNCHANGED <<in, phase, isAlloc, layoutVars, writeVars>>

\* The end of resolve().  A fragment of an SHF_ALLOC section lives on only if
\* gc_sections marks it; the others are alive from their insertion.
Resolved ==
    /\ phase = "resolve" /\ ~aborted
    /\ \A m \in Sections : Len(fragments[m]) = Len(Contents[m])
    /\ phase' = "sizes"
    /\ \E live \in SUBSET {s \in Slots : key[s] \in Keys} :
         /\ isAlloc \/ live = {s \in Slots : key[s] \in Keys}
         /\ alive' = [s \in Slots |-> s \in live]
    /\ UNCHANGED <<in, mapVars, fragments, p2align, old, isAlloc, is32, offset,
                   sizes, shardOffsets, shardsDone, writeVars>>
-----------------------------------------------------------------------------
(***************************************************************************)
(* get_sorted_entries(i): the runs of adjacent occupied buckets, each      *)
(* sorted by length and contents.  A shard is circular: the run at its end *)
(* is sorted together with the run at its beginning.  The loop that sorts  *)
(* stops at `end', which the loop over the tail has moved down.            *)
(***************************************************************************)
Less(t, a, b) ==
    \/ KeyLen[t[a]] < KeyLen[t[b]]
    \/ KeyLen[t[a]] = KeyLen[t[b]] /\ t[a] < t[b]

\* Mutant of SortedRun: the run is left in bucket order.
BucketOrderRun(t, S) == SetToSortSeq(S, <)

SortedRun(t, S) == SetToSortSeq(S, LAMBDA a, b : Less(t, a, b))

get_sorted_entries(t, i) ==
    LET begin == i * ShardSize
        top == begin + ShardSize
        occupied(s) == t[s] # NoKey
        tail == {s \in ShardSlots(i) : \A r \in s .. top - 1 : occupied(r)}
        end == top - Cardinality(tail)
        runAt(s) == {r \in s .. end - 1 : \A q \in s .. r : occupied(q)}
        starts == {s \in begin + 1 .. end - 1 : occupied(s) /\ ~occupied(s - 1)}
        head == IF end > begin /\ occupied(begin) THEN runAt(begin) ELSE {}
        rest == SetToSortSeq(starts, <)
    IN  IF end = begin
          THEN [j \in 1 .. ShardSize |-> top - j]
          ELSE SortedRun(t, tail \cup head)
                 \o FlattenSeq([j \in DOMAIN rest |-> SortedRun(t, runAt(rest[j]))])

\* The two offsets and the fragment offsets after the entries of one shard.
PlaceFragment(acc, s) ==
    IF ~alive[s] THEN acc
    ELSE LET half == IF is32[s] THEN 1 ELSE 2
             at == Align(acc.end[half], p2align[s])
         IN  [end |-> [acc.end EXCEPT ![half] = at + KeyLen[key[s]]],
              off |-> [acc.off EXCEPT ![s] = at]]

\* The first parallel_for of compute_section_size, iteration i.
LayOutShard(i) ==
    /\ phase = "sizes" /\ i \notin shardsDone
    /\ LET r == FoldLeft(PlaceFragment, [end |-> <<0, 0>>, off |-> offset],
                         get_sorted_entries(key, i))
       IN  /\ offset' = r.off
           /\ sizes' = [sizes EXCEPT ![i] = r.end[1], ![i + NumShards] = r.end[2]]
    /\ shardsDone' = shardsDone \cup {i}
    /\ UNCHANGED <<in, mapVars, fragments, p2align, old, phase, isAlloc, alive, is32,
                   shardOffsets, writeVars>>

\* sh_addralign is the largest alignment of any member section.
AddrP2Align == CHOOSE p \in {P2Align[m] : m \in Sections} :
                 \A m \in Sections : P2Align[m] <= p

PrefixSums ==
    LET off[i \in 0 .. 2 * NumShards] ==
          IF i = 0 THEN 0 ELSE Align(off[i - 1] + sizes[i - 1], AddrP2Align)
    IN  off

SumShards ==
    /\ phase = "sizes" /\ shardsDone = Shards
    /\ shardOffsets' = PrefixSums
    /\ phase' = "adjust"
    /\ shardsDone' = {}
    /\ UNCHANGED <<in, mapVars, fragments, p2align, old, isAlloc, alive, is32,
                   offset, sizes, writeVars>>

\* Mutant of AdjustShards: off by one.
AdjustShardsFromTwo == 2 .. NumShards - 1

\* The second parallel_for, which starts at shard 1.
AdjustShards == 1 .. NumShards - 1

AdjustShard(i) ==
    /\ phase = "adjust" /\ i \in AdjustShards \ shardsDone
    /\ offset' = [s \in Slots |->
          IF s \in ShardSlots(i) /\ alive[s]
            THEN offset[s] + shardOffsets[IF is32[s] THEN i ELSE i + NumShards]
            ELSE offset[s]]
    /\ shardsDone' = shardsDone \cup {i}
    /\ UNCHANGED <<in, mapVars, fragments, p2align, old, phase, isAlloc, alive, is32,
                   sizes, shardOffsets, writeVars>>

LaidOut ==
    /\ phase = "adjust" /\ shardsDone = AdjustShards
    /\ phase' = "laidout"
    /\ shardsDone' = {}
    /\ UNCHANGED <<in, mapVars, fragments, p2align, old, isAlloc, alive, is32,
                   offset, sizes, shardOffsets, writeVars>>

\* sort_debug_info_sections: does nothing unless some files have DWARF32 and
\* some DWARF64 debug info.  It runs once.
SortDebugInfo ==
    /\ phase = "laidout" /\ ~isAlloc
    /\ Dwarf32 # {} /\ Dwarf32 # Sections
    /\ \A s \in Slots : ~is32[s]
    /\ is32' = [s \in Slots |-> \E m \in Dwarf32 : s \in Range(fragments[m])]
    /\ phase' = "sizes"
    /\ UNCHANGED <<in, mapVars, fragments, p2align, old, isAlloc, alive, offset,
                   sizes, shardOffsets, shardsDone, writeVars>>

(***************************************************************************)
(* write_to(): the shards are written in parallel, each clearing its two   *)
(* ranges of the buffer before it copies its fragments.  The buffer may    *)
(* hold the previous output file.                                          *)
(***************************************************************************)
StartWrite ==
    /\ phase = "laidout"
    /\ phase' = "write"
    /\ buf' = [b \in 0 .. shardOffsets[2 * NumShards] - 1 |-> <<"stale">>]
    /\ UNCHANGED <<in, mapVars, fragments, p2align, old, isAlloc, layoutVars, cleared>>

\* Mutants of ShardRange: the range is a byte too long; the range is empty.
ShardRangeInclusive(i) == shardOffsets[i] .. shardOffsets[i + 1]
ShardRangeNone(i) == {}

ShardRange(i) == shardOffsets[i] .. shardOffsets[i + 1] - 1

\* The memset is skipped where fragments leave no gaps.
Clears == 2^AddrP2Align > 1 /\ 2^AddrP2Align # EntSize

ClearShard(i) ==
    /\ phase = "write" /\ i \notin cleared
    /\ cleared' = cleared \cup {i}
    /\ buf' = IF Clears
                THEN [b \in DOMAIN buf |->
                        IF b \in ShardRange(i) \cup ShardRange(NumShards + i)
                          THEN <<"zero">> ELSE buf[b]]
                ELSE buf
    /\ UNCHANGED <<in, mapVars, fragments, p2align, old, phase, isAlloc, layoutVars>>

Bytes(s) == offset[s] .. offset[s] + KeyLen[key[s]] - 1

CopyShard(i) ==
    /\ phase = "write" /\ i \in cleared \ shardsDone
    /\ shardsDone' = shardsDone \cup {i}
    /\ LET copied == [b \in DOMAIN buf |->
                         {s \in ShardSlots(i) : alive[s] /\ b \in Bytes(s)}]
       IN  buf' = [b \in DOMAIN buf |->
                     IF copied[b] = {} THEN buf[b]
                     ELSE LET s == CHOOSE s \in copied[b] :
                                     \A r \in copied[b] : r <= s
                          IN  <<key[s], b - offset[s]>>]
    /\ UNCHANGED <<in, mapVars, fragments, p2align, old, phase, isAlloc, alive, is32,
                   offset, sizes, shardOffsets, cleared>>

Written ==
    /\ phase = "write" /\ shardsDone = Shards
    /\ phase' = "written"
    /\ UNCHANGED <<in, mapVars, fragments, p2align, old, isAlloc, layoutVars, writeVars>>

Done ==
    /\ phase = "written" \/ aborted
    /\ UNCHANGED vars

Next ==
    \/ /\ ~aborted
       /\ \E m \in Sections :
            \/ InsertFragment(m) \/ MapStep(m)
            \/ LoadMaximum(m) \/ RetryMaximum(m) \/ EndMaximum(m)
    \/ Resolved
    \/ \E i \in Shards :
         \/ LayOutShard(i) \/ AdjustShard(i)
         \/ ClearShard(i) \/ CopyShard(i)
    \/ SumShards \/ LaidOut \/ SortDebugInfo \/ StartWrite \/ Written \/ Done

Spec == Init /\ [][Next]_vars

\* TBB's workers are operating-system threads: one that can take a step of
\* insert_entry is not suspended for ever.
FairSpec == Spec /\ \A m \in Sections : WF_vars(MapStep(m))
-----------------------------------------------------------------------------
MergedTypeOK ==
    /\ TypeOK
    /\ \A m \in Sections : Range(fragments[m]) \subseteq Slots
    /\ p2align \in [Slots -> Nat]
    /\ old \in [Sections -> Nat \cup {-1}]
    /\ phase \in {"resolve", "sizes", "adjust", "laidout", "write", "written"}
    /\ alive \in [Slots -> BOOLEAN] /\ is32 \in [Slots -> BOOLEAN]
    /\ offset \in [Slots -> Nat \cup {-1}]
    /\ shardsDone \subseteq Shards /\ cleared \subseteq Shards

\* The table one thread would build, inserting the keys in increasing order.
AllKeys == UNION {Range(Contents[m]) : m \in Sections}

SequentialInsert(t, k) ==
    LET i == CHOOSE i \in 0 .. ShardSize - 1 :
               /\ t[ProbeIdx(k, i)] = NoKey
               /\ \A j \in 0 .. i - 1 : t[ProbeIdx(k, j)] # NoKey
    IN  [t EXCEPT ![ProbeIdx(k, i)] = k]

SequentialTable ==
    FoldLeft(SequentialInsert, [s \in Slots |-> NoKey], SetToSortSeq(AllKeys, <))

KeysOf(t, i) ==
    LET ents == get_sorted_entries(t, i) IN [j \in DOMAIN ents |-> t[ents[j]]]

\* get_sorted_entries returns the entries in an order that does not depend on
\* how the threads interleaved their insertions: it is the order of a table
\* filled by one thread.  The linker's output is reproducible only if so.
DeterministicOrder ==
    phase # "resolve" =>
      \A i \in Shards : KeysOf(key, i) = KeysOf(SequentialTable, i)

\* A fragment is placed at an address aligned for every input section that
\* contains it, although the sections raise its alignment concurrently and
\* its shard is relocated after it was placed.
AlignedForEverySection ==
    phase = "laidout" =>
      \A m \in Sections : \A s \in Range(fragments[m]) :
        alive[s] => offset[s] % 2^P2Align[m] = 0

\* Two fragments of one DWARF class share no byte, and none lies outside
\* sh_size, whatever part of the map they live in.
NoOverlapInClass ==
    phase = "laidout" =>
      \A s, t \in {q \in Slots : alive[q]} :
        /\ Bytes(s) \subseteq 0 .. shardOffsets[2 * NumShards] - 1
        /\ s # t /\ is32[s] = is32[t] => Bytes(s) \cap Bytes(t) = {}

\* After sort_debug_info_sections the strings that 32-bit DWARF refers to
\* precede all the others.
Dwarf32First ==
    phase = "laidout" =>
      \A s, t \in {q \in Slots : alive[q]} :
        is32[s] /\ ~is32[t] => offset[s] < offset[t]

\* Unless DWARF32 and DWARF64 strings are separated, every piece of data of
\* every input section is found, intact, where its fragment's offset says:
\* neither a merge, a shard's relocation nor another shard's memset or copy
\* has damaged it.
EveryPieceWritten ==
    phase = "written" /\ (\A s \in Slots : ~is32[s]) =>
      \A m \in Sections : \A j \in DOMAIN Contents[m] :
        LET s == fragments[m][j] IN
          alive[s] => \A n \in 0 .. KeyLen[Contents[m][j]] - 1 :
                        buf[offset[s] + n] = <<Contents[m][j], n>>

\* Nothing of the file that is overwritten shows through the gaps that
\* alignment leaves between fragments, also where write_to takes it that there
\* are none and skips the memset.  Only where it skips it and DWARF32 and
\* DWARF64 strings are separated nothing is said: the strings that are then out
\* of place (Dwarf32First) leave bytes unwritten.
NoStaleBytes ==
    phase = "written" /\ (Clears \/ \A s \in Slots : ~is32[s]) =>
      \A b \in DOMAIN buf : buf[b] # <<"stale">>
=============================================================================
