------------------------------ MODULE Segments ------------------------------
(***************************************************************************)
(* The arithmetic of the output layout: the order of the chunks, their     *)
(* virtual addresses, their file offsets and the program header made from  *)
(* them (passes.cc and output-chunks.cc).  A chunk is a record             *)
(*                                                                         *)
(*   name   a sequence of the name's dot-separated parts                   *)
(*   kind   "header" (ELF, program, section header), "osec" or "synth"     *)
(*   type   the section type, as far as the layout tells types apart       *)
(*   flags  a subset of {"A", "W", "X", "T"}: SHF_ALLOC, SHF_WRITE,        *)
(*          SHF_EXECINSTR and SHF_TLS                                      *)
(*   relro, align, size, addr, off  the fields of the same meaning         *)
(*   order  sect_order, the rank --section-order gives it                  *)
(*                                                                         *)
(* and o holds the command line options.  Addresses and sizes are small    *)
(* numbers: PageSize and PhdrEntry are scaled with them.                   *)
(***************************************************************************)
EXTENDS Integers, Sequences, SequencesExt

CONSTANTS PageSize,    \* ctx.page_size
          PhdrEntry,   \* sizeof(ElfPhdr<E>)
          ShdrEntry,   \* sizeof(ElfShdr<E>)
          NameOrder    \* the chunk names in string order

Alloc(c) == "A" \in c.flags
is_bss(c) == c.type = "NOBITS"
is_tls(c) == "T" \in c.flags
is_tbss(c) == is_bss(c) /\ is_tls(c)
is_note(c) == c.type = "NOTE"
IsRelroPadding(c) == c.name = <<"relro_padding">>

align_to(val, align) == ((val + align - 1) \div align) * align
align_down(val, align) == (val \div align) * align
align_with_skew(val, align, skew) == val + ((skew - val) % align)

NameIdx(name) == CHOOSE i \in DOMAIN NameOrder : NameOrder[i] = name
LexLess(s, t) ==
  \E k \in DOMAIN s : s[k] < t[k] /\ \A m \in 1..k - 1 : s[m] = t[m]

\* std::ranges::stable_sort by keys, a sequence of numbers for every element
StableSort(seq, keys) ==
  LET key == [i \in DOMAIN seq |-> Append(keys[i], i)]
      perm == SortSeq([i \in DOMAIN seq |-> i],
                      LAMBDA i, j : LexLess(key[i], key[j]))
  IN [i \in DOMAIN seq |-> seq[perm[i]]]

-----------------------------------------------------------------------------
(* The order of the chunks.                                                *)

FirstChunks ==
  << <<"EHDR">>, <<"PHDR">>, <<"interp">>, <<"note">>, <<"hash">>,
     <<"gnu_hash">>, <<"dynsym">>, <<"dynstr">>, <<"versym">>, <<"verneed">>,
     <<"reldyn">>, <<"relplt">> >>
IntMax == 2147483647

\* Mutant of get_rank1: RELRO chunks are not kept together.
get_rank1_NoRelro(c) ==
  LET Bit(b, n) == IF b THEN n ELSE 0
      front == IF is_note(c) /\ Alloc(c) THEN <<"note">> ELSE c.name
  IN IF front \in ToSet(FirstChunks)
     THEN (CHOOSE i \in DOMAIN FirstChunks : FirstChunks[i] = front) - 1
     ELSE IF c.name = <<"SHDR">> THEN IntMax - 1
     ELSE IF c.name = <<"gdb_index">> THEN IntMax
     ELSE 1024 + Bit(~Alloc(c), 512) + Bit("W" \in c.flags, 256)
               + Bit("X" \in c.flags, 128) + Bit(~is_tls(c), 64)
               + Bit(is_bss(c), 16)
get_rank1(c) ==
  LET Bit(b, n) == IF b THEN n ELSE 0
      front == IF is_note(c) /\ Alloc(c) THEN <<"note">> ELSE c.name
  IN IF front \in ToSet(FirstChunks)
     THEN (CHOOSE i \in DOMAIN FirstChunks : FirstChunks[i] = front) - 1
     ELSE IF c.name = <<"SHDR">> THEN IntMax - 1
     ELSE IF c.name = <<"gdb_index">> THEN IntMax
     ELSE 1024 + Bit(~Alloc(c), 512) + Bit("W" \in c.flags, 256)
               + Bit("X" \in c.flags, 128) + Bit(~is_tls(c), 64)
               + Bit(~c.relro, 32) + Bit(is_bss(c), 16)

get_rank2(c) ==
  IF is_note(c) THEN -c.align
  ELSE IF c.name = <<"got">> THEN 2
  ELSE IF c.name = <<"toc">> THEN 3
  ELSE IF IsRelroPadding(c) THEN IntMax
  ELSE 0

sort_output_sections_regular(cs) ==
  StableSort(cs, [i \in DOMAIN cs |->
                   <<get_rank1(cs[i]), get_rank2(cs[i]), NameIdx(cs[i].name)>>])

get_section_order_group(c) ==
  IF is_bss(c) THEN <<"BSS">>
  ELSE IF "X" \in c.flags THEN <<"TEXT">>
  ELSE IF "W" \in c.flags THEN <<"DATA">>
  ELSE <<"RODATA">>

\* The rank of c in --section-order.  A chunk the option does not name gets the
\* rank of the first token and an error.
SectOrder(o, c) ==
  LET Named == {j \in DOMAIN o.order : o.order[j].type = "SECTION"
                                        /\ o.order[j].name = c.name}
      Grouped == {j \in DOMAIN o.order :
                    o.order[j].type = "GROUP"
                    /\ o.order[j].name = get_section_order_group(c)}
      First(S) == CHOOSE j \in S : \A k \in S : j <= k
  IN IF c.name = <<"EHDR">> /\ ~Alloc(c) THEN -2
     ELSE IF c.name = <<"PHDR">> /\ ~Alloc(c) THEN -1
     ELSE IF c.name = <<"SHDR">> THEN IntMax
     ELSE IF ~Alloc(c) THEN IntMax - 1
     ELSE IF Named # {} THEN First(Named)
     ELSE IF Grouped # {} THEN First(Grouped)
     ELSE 1
MissingInOrder(o, c) ==
  /\ Alloc(c)
  /\ c.name # <<"SHDR">>
  /\ \A j \in DOMAIN o.order :
       \/ o.order[j].type = "SECTION" /\ o.order[j].name # c.name
       \/ o.order[j].type = "GROUP" /\ o.order[j].name # get_section_order_group(c)
       \/ o.order[j].type \notin {"SECTION", "GROUP"}

sort_output_sections_by_order(o, cs) ==
  LET ranked == [i \in DOMAIN cs |-> [cs[i] EXCEPT !.order = SectOrder(o, cs[i])]]
  IN StableSort(ranked, [i \in DOMAIN cs |-> <<ranked[i].order>>])

sort_output_sections(o, cs) ==
  IF o.order = <<>> THEN sort_output_sections_regular(cs)
                    ELSE sort_output_sections_by_order(o, cs)

-----------------------------------------------------------------------------
(* Virtual addresses.                                                      *)

to_phdr_flags(o, c) ==
  LET write == "W" \in c.flags
      exec == "X" \in c.flags
  IN IF o.omagic THEN {"R", "W", "X"}
     ELSE IF exec /\ o.execute_only THEN {"X"}
     ELSE {"R"} \cup (IF write THEN {"W"} ELSE {})
                \cup (IF exec \/ (~write /\ ~o.rosegment) THEN {"X"} ELSE {})

\* Mutant of get_tls_segment_alignment: that of the first TLS chunk.
get_tls_segment_alignment_First(cs) ==
  cs[Min({j \in DOMAIN cs : is_tls(cs[j])})].align
get_tls_segment_alignment(cs) ==
  Max({1} \cup {cs[i].align : i \in {j \in DOMAIN cs : is_tls(cs[j])}})

\* Mutant of PadPages: segments that share a page of the file share it in memory.
PadPages_Dense(o, f1, f2, addr) ==
  IF o.nmagic \/ f1 = f2 THEN addr
  ELSE IF \/ o.separate = "loadable"
          \/ o.separate = "code" /\ ("X" \in f1[1]) # ("X" \in f2[1])
       THEN align_to(addr, PageSize)
       ELSE addr
\* The padding between two chunks with different memory attributes
PadPages(o, f1, f2, addr) ==
  IF o.nmagic \/ f1 = f2 THEN addr
  ELSE IF \/ o.separate = "loadable"
          \/ o.separate = "code" /\ ("X" \in f1[1]) # ("X" \in f2[1])
       THEN align_to(addr, PageSize)
       ELSE IF addr % PageSize # 0 THEN addr + PageSize ELSE addr

\* addr is the running address.  tbss is the running address of a sequence of
\* .tbss chunks, which take no room, and -1 outside of one.
set_virtual_addresses_regular(o, cs) ==
  LET n == Len(cs)
      get_flags(c) == <<to_phdr_flags(o, c), o.relro /\ c.relro>>
      Put(s, c, at, next, tb) ==
        [cs |-> Append(s.cs, [c EXCEPT !.addr = at]), addr |-> next, tbss |-> tb]
      st[i \in 0..n] ==
        IF i = 0 THEN [cs |-> <<>>, addr |-> o.base, tbss |-> -1]
        ELSE
          LET s == st[i - 1]
              c == cs[i]
              padded == IF i = 1 \/ IsRelroPadding(cs[i - 1]) THEN s.addr
                        ELSE PadPages(o, get_flags(cs[i - 1]), get_flags(c), s.addr)
              start == IF is_tls(c) /\ (i = 1 \/ ~is_tls(cs[i - 1]))
                       THEN align_to(padded, get_tls_segment_alignment(cs))
                       ELSE padded
              cursor == align_to(IF s.tbss # -1 /\ i # n THEN s.tbss ELSE start,
                                 c.align)
              room == align_to(s.addr, PageSize) - s.addr
              at == align_to(start, c.align)
          IN IF ~Alloc(c)
             THEN [s EXCEPT !.cs = Append(@, c), !.tbss = -1]
             ELSE IF IsRelroPadding(c)
             THEN Put(s, [c EXCEPT !.size = room], s.addr, s.addr + PageSize, -1)
             ELSE IF is_tbss(c) /\ s.tbss # -1 /\ i # n
             THEN Put(s, c, cursor, s.addr, cursor + c.size)
             ELSE IF c.name \in DOMAIN o.start
             THEN Put(s, c, o.start[c.name], o.start[c.name] + c.size, -1)
             ELSE IF is_tbss(c)
             THEN Put(s, c, cursor, start, cursor + c.size)
             ELSE Put(s, c, at, at + c.size, -1)
  IN st[n].cs

\* Tokens of --section-order in turn; vec is the sequence of the indices of the
\* allocated chunks and s.i the number of those placed so far.
set_virtual_addresses_by_order(o, cs) ==
  LET vec == SelectSeq([i \in DOMAIN cs |-> i], LAMBDA i : Alloc(cs[i]))
      Gap(i, addr) ==
        LET f1 == to_phdr_flags(o, cs[vec[i - 1]])
            f2 == to_phdr_flags(o, cs[vec[i]])
        IN IF \/ o.separate = "loadable" /\ f1 # f2
              \/ o.separate = "code" /\ ("X" \in f1) # ("X" \in f2)
           THEN align_to(addr, PageSize) ELSE addr
      Place(s) ==
        LET i == s.i + 1
            gap == IF i = 1 THEN s.addr ELSE Gap(i, s.addr)
            at == align_to(gap, cs[vec[i]].align)
        IN [s EXCEPT !.i = i, !.addr = at + s.cs[vec[i]].size,
                     !.cs[vec[i]].addr = at]
      Here(j) == {i \in DOMAIN vec : cs[vec[i]].order = j}
      placed[j \in 0..Len(o.order), k \in 0..Len(vec)] ==
        IF j = 0
        THEN [cs |-> cs, addr |-> o.base, i |-> 0, err |-> FALSE, syms |-> <<>>]
        ELSE IF k > 0 THEN Place(placed[j, k - 1])
        ELSE LET s == placed[j - 1, Cardinality(Here(j - 1))]
                 ord == o.order[j]
             IN CASE ord.type = "ADDR" ->
                       [s EXCEPT !.addr = ord.value,
                                 !.err = @ \/ (s.addr # o.base /\ ord.value < s.addr)]
                  [] ord.type = "ALIGN" -> [s EXCEPT !.addr = align_to(@, ord.value)]
                  [] ord.type = "SYMBOL" ->
                       [s EXCEPT !.syms = Append(@, <<ord.name, s.addr>>)]
                  [] OTHER -> s
  IN placed[Len(o.order), Cardinality(Here(Len(o.order)))]

-----------------------------------------------------------------------------
(* File offsets.                                                           *)

\* first is the chunk a run of chunks contiguous in memory starts with (0 if
\* there is none), base its offset, and off the end of the file so far.
set_file_offsets(cs) ==
  LET Continues(s, i) ==
        /\ s.first # 0
        /\ cs[i].addr >= cs[s.first].addr
        /\ ~(cs[i].align > PageSize /\ cs[i].align > cs[i - 1].align)
        /\ cs[i].addr - cs[i - 1].addr - cs[i - 1].size < PageSize
      st[i \in 0..Len(cs)] ==
        IF i = 0 THEN [cs |-> <<>>, off |-> 0, first |-> 0, base |-> 0]
        ELSE
          LET s == st[i - 1]
              c == cs[i]
              Put(at, end, first, base) ==
                [cs |-> Append(s.cs, [c EXCEPT !.off = at]), off |-> end,
                 first |-> first, base |-> base]
              packed == align_to(s.off, c.align)
              fresh == IF c.align > PageSize THEN packed
                       ELSE align_with_skew(s.off, PageSize, c.addr)
              at == s.base + c.addr - cs[s.first].addr
          IN IF ~Alloc(c) THEN Put(packed, packed + c.size, 0, 0)
             ELSE IF is_bss(c) THEN Put(s.off, s.off, 0, 0)
             ELSE IF Continues(s, i) THEN Put(at, at + c.size, s.first, s.base)
             ELSE Put(fresh, fresh + c.size, i, fresh)
  IN st[Len(cs)]

-----------------------------------------------------------------------------
(* The program header.                                                     *)

Define(type, flags, c) ==
  [type |-> type, flags |-> flags, align |-> c.align, vaddr |-> c.addr,
   paddr |-> c.addr,
   offset |-> IF is_bss(c) THEN c.addr % PageSize ELSE c.off,
   filesz |-> IF is_bss(c) THEN 0 ELSE c.size,
   memsz |-> IF Alloc(c) THEN c.size ELSE 0]

AppendChunk(p, c) ==
  LET memsz == c.addr + c.size - p.vaddr
  IN [p EXCEPT !.align = Max({@, c.align}), !.memsz = memsz,
               !.filesz = IF is_bss(c) THEN @ ELSE memsz]

AppendLast(segs, c) == [segs EXCEPT ![Len(segs)] = AppendChunk(@, c)]

\* Runs of elements of cs that are chosen, each a segment
Runs(cs, chosen, type, flags) ==
  LET st[i \in 0..Len(cs)] ==
        IF i = 0 THEN <<>>
        ELSE IF cs[i] \notin chosen THEN st[i - 1]
        ELSE IF i > 1 /\ cs[i - 1] \in chosen THEN AppendLast(st[i - 1], cs[i])
        ELSE Append(st[i - 1], Define(type, flags, cs[i]))
  IN st[Len(cs)]

\* The chunks of PT_LOAD segments in ascending order of their addresses
LoadChunks(cs) ==
  LET loaded == SelectSeq(cs, LAMBDA c : Alloc(c) /\ ~is_tbss(c))
  IN StableSort(loaded, [i \in DOMAIN loaded |-> <<loaded[i].addr>>])

\* The inner loop reads ctx.chunks with an index into the sorted list.
NoteSegments(o, cs) ==
  LET chunks == LoadChunks(cs)
      st[i \in 0..Len(chunks)] ==
        IF i = 0 THEN [segs |-> <<>>, open |-> FALSE]
        ELSE
          LET s == st[i - 1]
              flags == to_phdr_flags(o, chunks[i])
          IN IF /\ s.open
                /\ is_note(cs[i])
                /\ to_phdr_flags(o, cs[i]) = Last(s.segs).flags
             THEN [s EXCEPT !.segs = AppendLast(@, cs[i])]
             ELSE IF is_note(chunks[i])
             THEN [segs |-> Append(s.segs, Define("NOTE", flags, chunks[i])),
                   open |-> TRUE]
             ELSE [s EXCEPT !.open = FALSE]
  IN st[Len(chunks)].segs

\* bss tells that the segment being built has reached its NOBITS tail.
LoadSegments(o, cs) ==
  LET chunks == LoadChunks(cs)
      st[i \in 0..Len(chunks)] ==
        IF i = 0 THEN [segs |-> <<>>, bss |-> FALSE]
        ELSE
          LET s == st[i - 1]
              c == chunks[i]
              flags == to_phdr_flags(o, c)
              p == Last(s.segs)
              def == Define("LOAD", flags, c)
          IN IF /\ i > 1
                /\ p.flags = flags
                /\ \/ is_bss(c)
                   \/ ~s.bss /\ c.off - p.offset = c.addr - p.vaddr
             THEN [segs |-> AppendLast(s.segs, c), bss |-> is_bss(c)]
             ELSE [segs |-> Append(s.segs,
                              IF o.nmagic \/ o.omagic THEN def
                              ELSE [def EXCEPT !.align = Max({@, PageSize})]),
                   bss |-> is_bss(c)]
  IN st[Len(chunks)].segs

TlsSegments(cs) == Runs(cs, {c \in ToSet(cs) : is_tls(c)}, "TLS", {"R"})

RelroSegments(o, cs) ==
  IF ~o.relro THEN <<>>
  ELSE LET segs == Runs(LoadChunks(cs), {c \in ToSet(cs) : c.relro}, "RELRO", {"R"})
       IN [i \in DOMAIN segs |-> [segs[i] EXCEPT !.align = 1]]

\* Segments of one chunk each
Single(o, type, name, cs) ==
  LET found == SelectSeq(cs, LAMBDA c : c.name = name)
      flags(c) == IF type = "DYNAMIC" THEN to_phdr_flags(o, c) ELSE {"R"}
  IN [i \in DOMAIN found |-> Define(type, flags(found[i]), found[i])]

\* --physical-image-base: ROM addresses in step with the virtual ones as long
\* as the gaps are less than two pages
PhysicalAddresses(o, segs) ==
  LET st[i \in 0..Len(segs)] ==
        IF i = 0 THEN [segs |-> <<>>, addr |-> o.phys, sync |-> TRUE]
        ELSE
          LET s == st[i - 1]
              p == segs[i]
              keep == /\ s.sync
                      /\ \/ i = 1 /\ p.vaddr = s.addr
                         \/ i > 1 /\ s.addr <= p.vaddr
                                  /\ p.vaddr < s.addr + 2 * PageSize
              at == IF keep THEN p.vaddr ELSE s.addr
          IN [segs |-> Append(s.segs, [p EXCEPT !.paddr = at]),
              addr |-> at + p.memsz, sync |-> keep]
  IN IF o.phys = -1 THEN segs ELSE st[Len(segs)].segs

Stack == [type |-> "STACK", flags |-> {"R", "W"}, align |-> 1, vaddr |-> 0,
          paddr |-> 0, offset |-> 0, filesz |-> 0, memsz |-> 0]

create_phdr(o, cs) ==
  Single(o, "PHDR", <<"PHDR">>, SelectSeq(cs, Alloc))
    \o Single(o, "INTERP", <<"interp">>, cs)
    \o NoteSegments(o, cs)
    \o PhysicalAddresses(o, LoadSegments(o, cs))
    \o TlsSegments(cs)
    \o Single(o, "DYNAMIC", <<"dynamic">>, cs)
    \o Single(o, "EH_FRAME", <<"eh_frame_hdr">>, cs)
    \o Single(o, "SFRAME", <<"sframe">>, cs)
    \o <<Stack>>
    \o RelroSegments(o, cs)
    \o Single(o, "ARM_EXIDX", <<"ARM", "exidx">>, cs)
    \o [i \in 1..o.spare |-> [Stack EXCEPT !.type = "NULL"]]
=============================================================================
