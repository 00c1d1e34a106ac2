-------------------------- MODULE MCMergedSection --------------------------
EXTENDS MergedSection

\* Two shards of four buckets.  Keys 3 and 4 collide in shard 1, the others at
\* the end of shard 0, and wrap to its beginning.
MCKeys == 1 .. 7
MCHash == [k \in MCKeys |-> IF k \in {3, 4} THEN 5 ELSE 3]
Length == <<2, 3, 1, 1, 1, 2, 2>>

MCSections == {"a", "b", "c"}
Section(a, b, c) == [a |-> a, b |-> b, c |-> c]

\* A debug section of mixed DWARF whose sections are aligned to 2 and 4.
Aligned ==
    [contents |-> Section(<<1, 5, 3>>, <<2, 4, 1>>, <<>>), p2align |-> Section(1, 2, 0),
     dwarf32 |-> {"a"}, keylen |-> Length, entsize |-> 1]

\* The usual .debug_str: no alignment, so that there are no gaps to clear.
Packed(d) == [Aligned EXCEPT !.p2align = Section(0, 0, 0), !.dwarf32 = d]

\* Strings of two-byte characters, aligned to 2: no gaps either.
Wide ==
    [Aligned EXCEPT !.contents = Section(<<1, 5, 3>>, <<2>>, <<1>>), !.p2align = Section(1, 0, 1),
                    !.dwarf32 = {}, !.keylen = [k \in MCKeys |-> 2 * Length[k]], !.entsize = 2]

\* Two sections insert the same key while a third inserts one that collides
\* with it.
Racing == [Aligned EXCEPT !.contents = Section(<<1, 3>>, <<1>>, <<2, 1>>), !.p2align = Section(1, 2, 3)]

\* Five keys for the four buckets of shard 0.
Overflowing == [Aligned EXCEPT !.contents = Section(<<1, 2>>, <<5, 6>>, <<7>>)]

MCMerged == {Aligned, Packed({}), Packed({"a"}), Wide, Racing, Overflowing}
DwarfMerged == {Aligned}
=============================================================================
