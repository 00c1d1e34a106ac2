------------------------------- MODULE Layout -------------------------------
(***************************************************************************)
(* From input sections to a laid out file: the part of mold_main that      *)
(* creates the output sections, sorts and sizes the chunks, gives them     *)
(* addresses and file offsets until the layout converges, and shrinks what *)
(* can be shrunk once addresses are known (main.cc, passes.cc).            *)
(*                                                                         *)
(* link is the input: opt, the options; files, the input sections of every *)
(* object file; sizes, the sizes and alignments that the other passes give *)
(* the synthesized chunks (the ones not in it are empty); syms, the        *)
(* symbols that branches refer to; dynrels, the base relocations; and      *)
(* target, the machine: "arm64", "arm32", "ppc", "riscv", "loongarch" or   *)
(* "x86".                                                                  *)
(***************************************************************************)
EXTENDS Branches

CONSTANTS Links,      \* the links to lay out
          LebBits,    \* bits of a number in one byte of SLEB128 (7)
          Deadbeef,   \* the dummy value of synthetic symbols
          TpWords,    \* the two words that ARM keeps before the TLS block
          TpBias,     \* 0x7000 of PowerPC and m68k
          DtpBias,    \* their 0x8000, and the 0x800 of RISC-V and of its gp
          Compressed, \* the sizes a section may be compressed to
          ExidxEntry  \* the size of an entry of .ARM.exidx

VARIABLES pc,         \* the pass to run
          todo,       \* the passes left once the layout has converged
          next,       \* per file, the number of input sections assigned so far
          pool,       \* ctx.osec_pool
          chunks,     \* ctx.chunks
          secs,       \* per output section, its input sections and thunks
          syms,       \* the symbols, whose values shrink_sections changes
          deltas,     \* r_deltas of the input sections
          phdrs,      \* ctx.phdr->phdrs
          keep,       \* keep_android_size
          fixed,      \* the values of the synthetic symbols
          thunkAddrs  \* SymbolAux::thunk_addrs

vars == <<link, pc, todo, next, pool, chunks, secs, syms, deltas, phdrs, keep,
          fixed, thunkAddrs>>

opt == link.opt
Base == [n \in {chunks[i].name : i \in DOMAIN chunks} |->
           (CHOOSE c \in ToSet(chunks) : c.name = n).addr]
IsExec(c) == c.kind = "osec" /\ "X" \in c.flags
Text == [n \in {c.name : c \in {x \in ToSet(chunks) : IsExec(x)}} |-> secs[n]]

\* The chunks with the sizes of the output sections in s
Resize(cs, s) ==
  [i \in DOMAIN cs |-> IF cs[i].name \in DOMAIN s
                       THEN [cs[i] EXCEPT !.size = s[cs[i].name].size] ELSE cs[i]]

-----------------------------------------------------------------------------
(* Output sections and synthesized chunks.                                 *)

\* The chunks that exist under the options o, in the order of their creation; a
\* chunk without contents is removed later
create_synthetic_sections(o, sizes) ==
  LET Chunk(name, kind, type, flags, relro) ==
        [name |-> name, kind |-> kind, type |-> type, flags |-> flags, relro |-> relro,
         size |-> IF name \in DOMAIN sizes THEN sizes[name].size ELSE 0,
         align |-> IF name \in DOMAIN sizes THEN sizes[name].align ELSE 1,
         addr |-> 0, off |-> 0, order |-> 0]
      Header(name) ==
        Chunk(<<name>>, "header", "HDR",
              IF \/ o.order = <<>>
                 \/ \E ord \in ToSet(o.order) : ord.type = "SECTION" /\ ord.name = <<name>>
              THEN {"A"} ELSE {}, FALSE)
      Bits(name, flags, relro) == Chunk(<<name>>, "synth", "PROGBITS", flags, relro)
      If(b, c) == IF b THEN <<c>> ELSE <<>>
      ro == {"A"}
      rw == {"A", "W"}
  IN <<Header("EHDR"), Header("PHDR"),
       [Chunk(<<"SHDR">>, "header", "HDR", {}, FALSE) EXCEPT !.size = 1],
       Bits("got", rw, TRUE), Bits("gotplt", rw, o.now), Bits("reldyn", ro, FALSE),
       Bits("relplt", ro, FALSE), Bits("relrdyn", ro, FALSE),
       Bits("strtab", {}, FALSE), Bits("plt", {"A", "X"}, FALSE),
       Bits("pltgot", {"A", "X"}, FALSE), Bits("symtab", {}, FALSE),
       Bits("dynsym", ro, FALSE), Bits("dynstr", ro, FALSE),
       Bits("eh_frame", ro, FALSE), Bits("sframe", ro, FALSE),
       Chunk(<<"copyrel">>, "synth", "NOBITS", rw, FALSE),
       Chunk(<<"copyrel", "rel", "ro">>, "synth", "NOBITS", rw, TRUE),
       Bits("shstrtab", {}, FALSE), Bits("interp", ro, FALSE),
       Chunk(<<"note", "gnu", "build-id">>, "synth", "NOTE", ro, FALSE),
       Bits("eh_frame_hdr", ro, FALSE)>>
     \o If(o.gdb_index, Bits("gdb_index", {}, FALSE))
     \o If(o.relro /\ o.order = <<>>,
           [Chunk(<<"relro_padding">>, "synth", "NOBITS", rw, TRUE) EXCEPT !.size = 1])
     \o <<Bits("hash", ro, FALSE), Bits("gnu_hash", ro, FALSE), Bits("verdef", ro, FALSE),
          Bits("dynamic", rw, TRUE), Bits("versym", ro, FALSE), Bits("verneed", ro, FALSE),
          Chunk(<<"note", "package">>, "synth", "NOTE", ro, FALSE)>>

\* A name is the sequence of its parts: .data.rel.ro.x is <<"data", "rel",
\* "ro", "x">>.  The stems are in the order in which the code tries them; only
\* ARM32 has sections of the first two.
Stems == << <<"ARM", "exidx">>, <<"ARM", "extab">>,
            <<"text">>, <<"data", "rel", "ro">>, <<"data">>, <<"rodata">>,
            <<"bss", "rel", "ro">>, <<"bss">>, <<"init_array">>, <<"fini_array">>,
            <<"tbss">>, <<"tdata">>, <<"gcc_except_table">>, <<"ctors">>, <<"dtors">>,
            <<"gnu", "warning">>, <<"openbsd", "randomdata">>, <<"sdata">>,
            <<"sbss">>, <<"srodata">>, <<"gnu", "build", "attributes">> >>
get_output_name(o, name) ==
  LET fit == {i \in DOMAIN Stems : IsPrefix(Stems[i], name)}
  IN IF name \in o.unique \/ fit = {} THEN name ELSE Stems[Min(fit)]

\* Some old assemblers create these sections as SHT_PROGBITS.
canonicalize_type(name, type) ==
  IF type # "PROGBITS" THEN type
  ELSE IF name[1] = "init_array" THEN "INIT_ARRAY"
  ELSE IF name[1] = "fini_array" THEN "FINI_ARRAY"
  ELSE type

has_ctors_and_init_array ==
  LET Has(part) == \E f \in DOMAIN link.files : \E isec \in ToSet(link.files[f]) :
                     isec.name[1] = part
  IN Has("ctors") /\ Has("init_array")

\* .ctors and .dtors with relocations go with .init_array and .fini_array if
\* those exist.
get_output_section_key(o, isec) ==
  LET first == isec.name[1]
      name == get_output_name(o, isec.name)
  IN IF first \in {"ctors", "dtors"} /\ isec.rels # <<>> /\ has_ctors_and_init_array
     THEN IF first = "ctors" THEN << <<"init_array">>, "INIT_ARRAY">>
                             ELSE << <<"fini_array">>, "FINI_ARRAY">>
     ELSE <<name, canonicalize_type(name, isec.type)>>

is_relro(name, type, flags) ==
  \/ name = <<"toc">>
  \/ \E s \in { <<"rel", "ro">>, <<"rel", "ro", "hot">>, <<"rel", "ro", "unlikely">> } :
       IsSuffix(s, name) /\ s # name
  \/ type \in {"INIT_ARRAY", "FINI_ARRAY"}
  \/ "T" \in flags

\* One step of the thread that handles file f.  The per-thread caches only
\* save a lock: they hold what the map holds.
AssignSection(f) ==
  /\ pc = "create"
  /\ next[f] < Len(link.files[f])
  /\ LET isec == link.files[f][next[f] + 1]
         key == get_output_section_key(opt, isec)
         known == {k \in DOMAIN pool : pool[k].key = key}
         new == [key |-> key, flags |-> {},
                 members |-> [g \in DOMAIN link.files |-> <<>>]]
         all == IF known = {} THEN Append(pool, new) ELSE pool
         k == IF known = {} THEN Len(all) ELSE CHOOSE x \in known : TRUE
     IN pool' = [all EXCEPT ![k].flags = @ \cup isec.flags,
                            ![k].members[f] = Append(@, isec)]
  /\ next' = [next EXCEPT ![f] = @ + 1]
  /\ UNCHANGED <<link, pc, todo, chunks, secs, syms, deltas, phdrs, keep, fixed,
                 thunkAddrs>>

TypeNo(type) == CHOOSE i \in 1..6 :
  <<"PROGBITS", "NOTE", "NOBITS", "INIT_ARRAY", "FINI_ARRAY", "ARM_EXIDX">>[i] = type

\* On ARM32 a synthesized chunk takes the place of .ARM.exidx.
create_arm_exidx_section(cs) ==
  [i \in DOMAIN cs |->
     IF cs[i].type = "ARM_EXIDX"
     THEN [cs[i] EXCEPT !.kind = "synth", !.flags = {"A"}, !.relro = FALSE,
                        !.align = ExidxEntry \div 2]
     ELSE cs[i]]

\* The end of create_output_sections and apply_section_align
CreateChunks ==
  /\ pc = "create"
  /\ \A f \in DOMAIN link.files : next[f] = Len(link.files[f])
  /\ LET Members(k) == FlattenSeq(pool[k].members)
         Name(k) == pool[k].key[1]
         Type(k) == pool[k].key[2]
         Align(k) == IF Name(k) \in DOMAIN opt.align THEN opt.align[Name(k)]
                     ELSE Max({m.align : m \in ToSet(Members(k))})
         osecs == [k \in DOMAIN pool |->
                     [name |-> Name(k), kind |-> "osec", type |-> Type(k),
                      flags |-> pool[k].flags, align |-> Align(k), size |-> 0,
                      relro |-> is_relro(Name(k), Type(k), pool[k].flags),
                      addr |-> 0, off |-> 0, order |-> 0]]
         Body(k) == [i \in DOMAIN Members(k) |->
                       [size |-> Members(k)[i].size, off |-> -1,
                        align |-> Members(k)[i].align, rels |-> Members(k)[i].rels]]
     IN /\ chunks' = create_synthetic_sections(opt, link.sizes)
                       \o create_arm_exidx_section(
                            StableSort(osecs, [k \in DOMAIN pool |->
                                                 <<NameIdx(Name(k)), TypeNo(Type(k))>>]))
        /\ secs' = [n \in {Name(k) : k \in DOMAIN pool} |->
                      [ms |-> Body(CHOOSE k \in DOMAIN pool : Name(k) = n),
                       th |-> <<>>, size |-> 0]]
  /\ pc' = "sort"
  /\ pool' = <<>>
  /\ UNCHANGED <<link, todo, next, syms, deltas, phdrs, keep, fixed, thunkAddrs>>

-----------------------------------------------------------------------------
(* Sorting and sizing.                                                     *)

\* --separate-debug-file takes the debug sections out of the list.  The name of
\* .debug_info is <<"debug", "info">>.
IsDebugSection(c) ==
  ~Alloc(c) /\ c.name[1] \in {"gdb_index", "symtab", "strtab", "debug"}
separate_debug_sections(o, cs) ==
  IF o.debug_file THEN SelectSeq(cs, LAMBDA c : ~IsDebugSection(c)) ELSE cs

Sort ==
  /\ pc = "sort"
  /\ chunks' = separate_debug_sections(opt, sort_output_sections(opt, chunks))
  /\ pc' = "sizes"
  /\ UNCHANGED <<link, todo, next, pool, secs, syms, deltas, phdrs, keep, fixed,
                 thunkAddrs>>

\* The assertion on the size of a thunk aborts the link.
compute_section_sizes ==
  LET WithThunks(s) == [ms |-> s.ms, th |-> s.th, size |-> s.offset, ok |-> s.ok]
      WithoutThunks(s) == [ms |-> s.ms, th |-> <<>>, size |-> s.size, ok |-> TRUE]
  IN [n \in DOMAIN secs |->
        IF needs_thunk /\ n \in DOMAIN Text
        THEN WithThunks(create_range_extension_thunks(Base, syms, n, Text))
        ELSE WithoutThunks(compute_section_size(secs[n].ms))]

\* .ARM.exidx gets a sentinel.
AddSentinel(cs) ==
  [i \in DOMAIN cs |-> IF cs[i].type = "ARM_EXIDX"
                       THEN [cs[i] EXCEPT !.size = @ + ExidxEntry] ELSE cs[i]]

ComputeSizes ==
  /\ pc = "sizes"
  /\ \E s \in {compute_section_sizes} :
        /\ secs' = [n \in DOMAIN s |-> [ms |-> s[n].ms, th |-> s[n].th, size |-> s[n].size]]
        /\ chunks' = AddSentinel(Resize(chunks, s))
        /\ pc' = IF \A n \in DOMAIN s : s[n].ok THEN "headers" ELSE "failed"
  /\ UNCHANGED <<link, todo, next, pool, syms, deltas, phdrs, keep, fixed, thunkAddrs>>

-----------------------------------------------------------------------------
(* Headers.                                                                *)

\* The length of a signed LEB128 number (of at most 8 bytes)
SlebLen(val) ==
  Min({n \in 1..8 : LET half == 2^(LebBits * n - 1) IN -half <= val /\ val < half})

\* The size of the APS2 encoding of rels, base relocations [off, addend] in the
\* order of their offsets.  A group is a run of relocations whose offsets grow
\* by the same amount; all relocations have the same r_info here.
encode_android(rels) ==
  LET n == Len(rels)
      Delta(i) == rels[i].off - IF i = 1 THEN 0 ELSE rels[i - 1].off
      Addend(i) == rels[i].addend - IF i = 1 THEN 0 ELSE rels[i - 1].addend
      st[i \in 0..n] ==
        IF i = 0 THEN [size |-> 4 + SlebLen(n) + SlebLen(0), first |-> 0]
        ELSE LET s == st[i - 1]
                 joins == s.first # 0 /\ Delta(i) = Delta(s.first)
                 next_i == {j \in i + 1..n : Delta(j) # Delta(i)}
                 len == (IF next_i = {} THEN n + 1 ELSE Min(next_i)) - i
                 group == SlebLen(len) + SlebLen(IF len > 1 THEN 11 ELSE 8)
                            + SlebLen(Delta(i)) + SlebLen(1)
             IN [size |-> s.size + SlebLen(Addend(i)) + IF joins THEN 0 ELSE group,
                 first |-> IF joins THEN s.first ELSE i]
  IN st[n].size

\* The relocations write_relocs writes.  A relocation refers to a synthetic
\* symbol (syn) or to a place in a chunk.
write_relocs(base, values) ==
  LET Rel(d) == [off |-> base[d.osec] + d.off,
                 addend |-> IF d.syn # "" THEN values[d.syn] ELSE base[d.to] + d.val]
      rels == [i \in DOMAIN link.dynrels |-> Rel(link.dynrels[i])]
  IN SortSeq(rels, LAMBDA x, y : x.off < y.off)

\* Mutant of UpdateReldyn: the size always follows the encoding.
UpdateReldyn_NoKeep(base, values, size) ==
  [keep |-> FALSE, size |-> encode_android(write_relocs(base, values))]
\* RelDynSection::update_shdr for --pack-dyn-relocs=android.  size is the old
\* sh_size.
UpdateReldyn(base, values, size) ==
  LET encoded == encode_android(write_relocs(base, values))
      kept == keep \/ (size # 0 /\ size < encoded)
  IN [keep |-> kept, size |-> IF kept THEN Max({size, encoded}) ELSE encoded]

SetSize(cs, name, size) ==
  [i \in DOMAIN cs |-> IF cs[i].name = name THEN [cs[i] EXCEPT !.size = size] ELSE cs[i]]
SizeOf(cs, name) == (CHOOSE c \in ToSet(cs) : c.name = name).size

\* Every update_shdr runs twice.  The first size of the program header only
\* tells that it is not empty: there is always a PT_GNU_STACK.
compute_section_headers ==
  LET zero == [n \in DOMAIN Base |-> 0]
      reldyn == UpdateReldyn(zero, fixed, 0).size
      cs1 == IF opt.android THEN SetSize(chunks, <<"reldyn">>, reldyn) ELSE chunks
      cs2 == SetSize(cs1, <<"PHDR">>, PhdrEntry)
      cs3 == SelectSeq(cs2, LAMBDA c : \/ c.kind = "osec"
                                       \/ c.name = <<"gdb_index">>
                                       \/ c.size # 0)
      shndx == Len(SelectSeq(cs3, LAMBDA c : c.kind # "header")) + 1
      cs4 == SetSize(cs3, <<"SHDR">>, shndx * ShdrEntry)
  IN SetSize(cs4, <<"PHDR">>, Len(create_phdr(opt, cs4)) * PhdrEntry)

ComputeHeaders ==
  /\ pc = "headers"
  /\ chunks' = compute_section_headers
  /\ phdrs' = create_phdr(opt, chunks')
  /\ pc' = "address"
  /\ UNCHANGED <<link, todo, next, pool, secs, syms, deltas, keep, fixed, thunkAddrs>>

-----------------------------------------------------------------------------
(* set_osec_offsets: addresses, then offsets, until nothing grows.         *)

Addressed == IF opt.order = <<>>
             THEN [cs |-> set_virtual_addresses_regular(opt, chunks), err |-> FALSE]
             ELSE set_virtual_addresses_by_order(opt, chunks)

\* Errors reported so far stop the link at the checkpoint.
Errors ==
  \/ opt.order # <<>> /\ \E c \in ToSet(chunks) : MissingInOrder(opt, c)
  \/ Addressed.err
  \/ opt.execute_only /\ \E c \in ToSet(chunks) : {"W", "X"} \subseteq c.flags

SetVirtualAddresses ==
  /\ pc = "address"
  /\ LET cs == Addressed.cs
         base == [n \in DOMAIN Base |-> (CHOOSE c \in ToSet(cs) : c.name = n).addr]
         size == SizeOf(cs, <<"reldyn">>)
         reldyn == UpdateReldyn(base, fixed, size)
     IN IF opt.android
        THEN /\ chunks' = SetSize(cs, <<"reldyn">>, reldyn.size)
             /\ keep' = reldyn.keep
             /\ pc' = IF reldyn.size = size
                      THEN IF Errors THEN "failed" ELSE "offsets" ELSE "address"
        ELSE /\ chunks' = cs
             /\ pc' = IF Errors THEN "failed" ELSE "offsets"
             /\ UNCHANGED keep
  /\ UNCHANGED <<link, todo, next, pool, secs, syms, deltas, phdrs, fixed, thunkAddrs>>

\* OutputPhdr::update_shdr also runs when the header does not grow; a smaller
\* header leaves a gap.
SetFileOffsets ==
  /\ pc = "offsets"
  /\ LET cs == set_file_offsets(chunks).cs
         size == SizeOf(cs, <<"PHDR">>)
         new == create_phdr(opt, cs)
     IN /\ phdrs' = new
        /\ chunks' = SetSize(cs, <<"PHDR">>, Len(new) * PhdrEntry)
        /\ pc' = IF size < Len(new) * PhdrEntry THEN "address" ELSE "pass"
  /\ UNCHANGED <<link, todo, next, pool, secs, syms, deltas, keep, fixed, thunkAddrs>>

-----------------------------------------------------------------------------
(* The passes of mold_main after the first layout.  Those that change a    *)
(* size call set_osec_offsets again.                                       *)

Passes ==
  LET If(b, p) == IF b THEN <<p>> ELSE <<>>
  IN If(link.target \in {"riscv", "loongarch"}, "shrink")
     \o If(needs_thunk, "redundant") \o If(link.target = "arm32", "exidx") \o <<"symbols">> \o If(opt.compress, "compress")
     \o If(needs_thunk, "gather") \o If(opt.android, "refinalize") \o <<"copy">>

Pass(p) == pc = "pass" /\ Head(todo) = p /\ todo' = Tail(todo)

ShrinkSections ==
  /\ Pass("shrink")
  /\ LET new == shrink_sections(Base, Text, syms)
     IN /\ secs' = new.text @@ secs
        /\ chunks' = Resize(chunks, new.text)
        /\ syms' = new.syms
        /\ deltas' = new.deltas
  /\ pc' = "address"
  /\ UNCHANGED <<link, next, pool, phdrs, keep, fixed, thunkAddrs>>

RemoveRedundantThunks ==
  /\ Pass("redundant")
  /\ LET new == remove_redundant_thunks(Base, Text, syms)
     IN /\ secs' = new @@ secs
        /\ chunks' = Resize(chunks, new)
  /\ pc' = "address"
  /\ UNCHANGED <<link, next, pool, syms, deltas, phdrs, keep, fixed, thunkAddrs>>

\* Of adjacent functions with the same unwind information one entry is kept; how
\* many are left depends on the contents.
RemoveDuplicateEntries ==
  /\ Pass("exidx")
  /\ LET exidx == {c \in ToSet(chunks) : c.type = "ARM_EXIDX"}
     IN IF exidx = {} THEN UNCHANGED <<pc, chunks>>
        ELSE /\ \E c \in exidx : \E n \in 1..c.size \div ExidxEntry :
                  chunks' = SetSize(chunks, c.name, n * ExidxEntry)
             /\ pc' = "address"
  /\ UNCHANGED <<link, next, pool, secs, syms, deltas, phdrs, keep, fixed, thunkAddrs>>

\* The address of TP if the TLS block were at its initialization image
get_tp_addr(p) ==
  CASE link.target = "x86" -> align_to(p.vaddr + p.memsz, p.align)
    [] link.target \in {"arm64", "arm32"} -> align_down(p.vaddr - TpWords, p.align)
    [] link.target = "ppc" -> p.vaddr + TpBias
    [] link.target \in {"riscv", "loongarch"} -> p.vaddr

\* What __tls_get_addr returns for offset 0
get_dtp_addr(p) ==
  IF link.target \in {"ppc", "riscv"} THEN p.vaddr + DtpBias ELSE p.vaddr

\* tls_begin, tp_addr and dtp_addr are those of the first PT_TLS segment.
TlsSegment == SelectSeq(phdrs, LAMBDA p : p.type = "TLS")
dtp_addr == IF TlsSegment = <<>> THEN 0 ELSE get_dtp_addr(TlsSegment[1])

to_paddr(vaddr) ==
  LET in == {p \in ToSet(phdrs) : p.type = "LOAD" /\ p.vaddr <= vaddr
                                                  /\ vaddr < p.vaddr + p.memsz}
  IN IF in = {} THEN 0
     ELSE LET p == CHOOSE x \in in : TRUE IN p.paddr + (vaddr - p.vaddr)

SyntheticNames == {"__bss_start", "__ehdr_start", "__dso_handle", "__init_array_start",
                   "__init_array_end", "__fini_array_start", "__fini_array_end",
                   "_end", "_etext", "_edata", "_DYNAMIC", "_GLOBAL_OFFSET_TABLE_",
                   "_TLS_MODULE_BASE_", "__global_pointer$", "__start_meta",
                   "__stop_meta", "__phys_start_meta", "__phys_stop_meta"}

\* A symbol that nothing sets keeps its dummy value.  Find sets a symbol to a
\* bound of the last of the sections that P selects; Of takes a synthesized
\* chunk, which has no address if it was removed because it is empty.  The
\* symbols of one target only are left out but for __global_pointer$, and so
\* are those of --defsym and --section-order.
fix_synthetic_symbols(cs) ==
  LET sections == SelectSeq(cs, LAMBDA c : c.kind # "header" /\ Alloc(c))
      Pick(P(_), f(_), none) == LET s == SelectSeq(sections, P)
                                IN IF s = <<>> THEN none ELSE f(Last(s))
      Find(P(_), f(_)) == Pick(P, f, Deadbeef)
      start(c) == c.addr
      stop(c) == c.addr + c.size
      Of(name) == Pick(LAMBDA c : c.name = name, start, 0)
      ehdr == SelectSeq(cs, LAMBDA c : c.name = <<"EHDR">> /\ Alloc(c))
      IsInit(c) == c.type = "INIT_ARRAY"
      IsFini(c) == c.type = "FINI_ARRAY"
      IsMeta(c) == c.name = <<"meta">>
      paddr(c) == to_paddr(c.addr)
      Phys(f(_)) == IF opt.phys = -1 THEN Deadbeef ELSE Find(IsMeta, f)
  IN [n \in SyntheticNames |->
        CASE n = "__bss_start" -> Find(LAMBDA c : c.name = <<"bss">>, start)
          [] n = "__ehdr_start" -> IF ehdr = <<>> THEN Deadbeef ELSE ehdr[1].addr
          [] n = "__dso_handle" -> sections[1].addr
          [] n = "__init_array_start" -> Find(IsInit, start)
          [] n = "__init_array_end" -> Find(IsInit, stop)
          [] n = "__fini_array_start" -> Find(IsFini, start)
          [] n = "__fini_array_end" -> Find(IsFini, stop)
          [] n = "_end" -> Find(LAMBDA c : TRUE, stop)
          [] n = "_etext" -> Find(LAMBDA c : "X" \in c.flags, stop)
          [] n = "_edata" -> Find(LAMBDA c : ~is_bss(c), stop)
          [] n = "_DYNAMIC" -> Of(<<"dynamic">>)
          [] n = "_GLOBAL_OFFSET_TABLE_" ->
               Of(IF link.target = "x86" THEN <<"gotplt">> ELSE <<"got">>)
          [] n = "_TLS_MODULE_BASE_" -> dtp_addr
          [] n = "__global_pointer$" ->
               Pick(LAMBDA c : c.name = <<"sdata">>, LAMBDA c : c.addr + DtpBias, 0)
          [] n = "__start_meta" -> Find(IsMeta, start)
          [] n = "__stop_meta" -> Find(IsMeta, stop)
          [] n = "__phys_start_meta" -> Phys(paddr)
          [] n = "__phys_stop_meta" -> Phys(LAMBDA c : paddr(c) + c.size)]

FixSyntheticSymbols ==
  /\ Pass("symbols")
  /\ fixed' = fix_synthetic_symbols(chunks)
  /\ UNCHANGED <<link, pc, next, pool, chunks, secs, syms, deltas, phdrs, keep, thunkAddrs>>

\* What a section is compressed to depends on its contents.
CompressDebugSections ==
  /\ Pass("compress")
  /\ \E size \in Compressed :
       chunks' = [i \in DOMAIN chunks |->
                    IF ~Alloc(chunks[i]) /\ chunks[i].size # 0 /\ chunks[i].name[1] = "debug"
                    THEN [chunks[i] EXCEPT !.size = size, !.align = 1] ELSE chunks[i]]
  /\ pc' = "address"
  /\ UNCHANGED <<link, next, pool, secs, syms, deltas, phdrs, keep, fixed, thunkAddrs>>

GatherThunkAddresses ==
  /\ Pass("gather")
  /\ thunkAddrs' = gather_thunk_addresses(Base, Text, syms)
  /\ UNCHANGED <<link, pc, next, pool, chunks, secs, syms, deltas, phdrs, keep, fixed>>

\* The last layout of --pack-dyn-relocs=android
Refinalize ==
  /\ Pass("refinalize")
  /\ pc' = "address"
  /\ UNCHANGED <<link, next, pool, chunks, secs, syms, deltas, phdrs, keep, fixed,
                 thunkAddrs>>

Copy ==
  /\ Pass("copy")
  /\ pc' = "done"
  /\ UNCHANGED <<link, next, pool, chunks, secs, syms, deltas, phdrs, keep, fixed,
                 thunkAddrs>>

Init ==
  /\ link \in Links
  /\ pc = "create"
  /\ todo = Passes
  /\ next = [f \in DOMAIN link.files |-> 0]
  /\ pool = <<>>
  /\ chunks = <<>>
  /\ secs = <<>>
  /\ syms = link.syms
  /\ deltas = <<>>
  /\ phdrs = <<>>
  /\ keep = FALSE
  /\ fixed = [n \in SyntheticNames |-> Deadbeef]
  /\ thunkAddrs = <<>>

Stopped == pc \in {"done", "failed"}

Next ==
  \/ \E f \in DOMAIN link.files : AssignSection(f)
  \/ CreateChunks \/ Sort \/ ComputeSizes \/ ComputeHeaders
  \/ SetVirtualAddresses \/ SetFileOffsets
  \/ ShrinkSections \/ RemoveRedundantThunks \/ RemoveDuplicateEntries
  \/ FixSyntheticSymbols
  \/ CompressDebugSections \/ GatherThunkAddresses \/ Refinalize \/ Copy
  \/ Stopped /\ UNCHANGED vars

\* The threads run to completion and the main thread runs the passes in turn.
\* Some step is possible until the link has stopped, so that this is the weak
\* fairness of Next.
Spec == Init /\ [][Next]_vars /\ ([]<>Stopped \/ []<><<TRUE>>_vars)

-----------------------------------------------------------------------------
(* The program loader.  It maps the PT_LOAD segments in their order, whole *)
(* pages of the file each; a later mapping replaces an earlier one.  The   *)
(* memory past the end of the file image is zero if the segment has any    *)
(* such memory.  A byte of memory is the set of the bytes <<chunk, offset>>*)
(* written to the place of the file it comes from, and {} is a zero.       *)

Bytes(c) == 0..c.size - 1
Written == SelectSeq(chunks, LAMBDA c : ~is_bss(c) /\ c.size > 0)
FileByte(off) ==
  {<<c.name, off - c.off>> : c \in {x \in ToSet(Written) : x.off <= off
                                                          /\ off < x.off + x.size}}

Maps(p, a) ==
  /\ p.type = "LOAD"
  /\ align_down(p.vaddr, PageSize) <= a
  /\ a < align_to(p.vaddr + p.memsz, PageSize)

Loaded(a) ==
  LET in == {i \in DOMAIN phdrs : Maps(phdrs[i], a)}
      p == phdrs[Max(in)]
      past == p.vaddr + p.filesz
      zero == a >= past /\ (p.memsz > p.filesz \/ a >= align_to(past, PageSize))
  IN IF in = {} THEN [byte |-> { <<>> }, flags |-> {}]
     ELSE [byte |-> IF zero THEN {} ELSE FileByte(p.offset + a - p.vaddr),
           flags |-> p.flags]

\* The chunks whose contents must be in memory
InImage == {c \in ToSet(chunks) : Alloc(c) /\ ~is_tbss(c)}

\* Links whose segments can be mapped as the loader does: --nmagic does not
\* align them to pages, and -z norelro puts no padding after NOBITS chunks that
\* are RELRO by name.
Mappable ==
  /\ ~opt.nmagic
  /\ opt.relro \/ \A c \in ToSet(chunks) : ~(c.relro /\ is_bss(c) /\ ~is_tls(c))

\* The tables that are written after the layout fit the room they have.
TablesFit ==
  /\ \A c \in ToSet(chunks) : c.name = <<"PHDR">> => c.size >= Len(phdrs) * PhdrEntry
  /\ opt.android => encode_android(write_relocs(Base, fixed)) <= SizeOf(chunks, <<"reldyn">>)

\* Whatever the options that place the chunks, --nmagic and -z norelro with
\* NOBITS RELRO chunks excepted (Mappable), a loaded program finds every byte of
\* every allocated chunk where the chunk's address says it is, with zeros in
\* the NOBITS ones, and on a page with the access rights of that chunk: virtual
\* addresses, file offsets, program headers and packed relocations are computed
\* in turn and agree (set_osec_offsets, create_phdr).
ImageIsRight ==
  pc = "done" /\ Mappable =>
    /\ TablesFit
    /\ \A c \in InImage : \A k \in Bytes(c) :
         Loaded(c.addr + k) = [byte |-> IF is_bss(c) THEN {} ELSE {<<c.name, k>>},
                               flags |-> to_phdr_flags(opt, c)]

\* The range the dynamic linker write-protects after relocation is made of whole
\* pages of the last PT_GNU_RELRO segment; it holds every RELRO chunk and no byte
\* that the program may still write to (sort_output_sections, .relro_padding).
RelroIsExact ==
  pc = "done" /\ opt.relro /\ opt.order = <<>> =>
    LET relro == SelectSeq(phdrs, LAMBDA p : p.type = "RELRO")
        p == relro[1]
        lo == align_down(p.vaddr, PageSize)
        hi == align_down(p.vaddr + p.memsz, PageSize)
    IN /\ Len(relro) = 1
       /\ \A c \in InImage : \A k \in Bytes(c) :
            "W" \in c.flags => (lo <= c.addr + k /\ c.addr + k < hi <=> c.relro)

\* Thread-local storage has one segment that holds all TLS chunks without
\* overlap; in the block the runtime copies it to, aligned like the segment,
\* every chunk has its alignment, and the offset from TP that the linker computes
\* leads to it (set_virtual_addresses_regular, get_tp_addr).
TlsIsRight ==
  LET tls == {c \in ToSet(chunks) : is_tls(c)}
      p == TlsSegment[1]
      block == 4 * PageSize * p.align
      tp == block + (CASE link.target = "x86" -> align_to(p.memsz, p.align)
                       [] link.target \in {"arm64", "arm32"} -> -align_to(TpWords, p.align)
                       [] link.target = "ppc" -> TpBias
                       [] OTHER -> 0)
  IN pc = "done" /\ opt.order = <<>> /\ opt.start = <<>> /\ tls # {} =>
       /\ Len(TlsSegment) = 1
       /\ \A c \in tls :
            /\ p.vaddr <= c.addr /\ c.addr + c.size <= p.vaddr + p.memsz
            /\ (block + c.addr - p.vaddr) % c.align = 0
            /\ tp + (c.addr - get_tp_addr(p)) = block + (c.addr - p.vaddr)
            /\ \A d \in tls \ {c} : c.addr + c.size <= d.addr \/ d.addr + d.size <= c.addr

\* The place of relocation r of input section i of osec in the output
Place(osec, i, r) ==
  Base[osec] + Text[osec].ms[i].off + r.off
    - (IF deltas = <<>> THEN 0 ELSE get_r_delta(deltas[osec][i], r.off))

AlignedLikeThunks ==
  \A o \in DOMAIN Text : \A i \in DOMAIN Text[o].ms : Text[o].ms[i].align <= ThunkAlign

\* Every branch of a target with thunks has a way to its target: the instruction
\* encodes the distance, or an entry of a range extension thunk is where
\* get_thunk_addr looks for it; and a thunk entry that was shortened still spans
\* the distance it was shortened for.  Thunks are placed before any address is
\* known and shrunk before the last layout (create_range_extension_thunks,
\* remove_redundant_thunks, Thunk::shrink_size).  The property is about code that
\* is aligned to no more than a thunk: padding before a section with a larger
\* alignment can take up the bytes that a thunk lost, and more than the margin of
\* branch_distance.
ThunksReach ==
  pc = "done" /\ needs_thunk /\ AlignedLikeThunks =>
    /\ \A o \in DOMAIN Text : \A i \in DOMAIN Text[o].ms : \A r \in Rels(Text[o].ms[i]) :
         LET P == Place(o, i, r)
             sym == syms[r.sym]
         IN \/ ~NeedsThunkAnyway(r, sym) /\ is_int(SymAddr(Base, Text, sym) - P)
            \/ get_thunk_addr(thunkAddrs[r.sym], P) # -1
    /\ \A o \in DOMAIN Text : \A t \in ToSet(Text[o].th) : \A k \in DOMAIN t.syms :
         LET S == SymAddr(Base, Text, syms[t.syms[k]])
             P == Base[o] + t.off + t.offsets[k]
             pages == S \div PageSize - P \div PageSize
         IN t.offsets[k + 1] - t.offsets[k] = ThunkSmallSize =>
              -NearDistance <= pages /\ pages < NearDistance

\* What the comments of shrink_section and compute_distance say: a call is made
\* short if its target is close enough, so the short instruction reaches it in
\* the output.  Distances are measured once, before anything shrinks.
ShortCallsReach ==
  pc = "done" =>
    \A o \in DOMAIN deltas : \A i \in DOMAIN deltas[o] : \A r \in Rels(Text[o].ms[i]) :
      r.kind = "relax" /\ (\E d \in ToSet(deltas[o][i]) : d.off = r.off) =>
        LET dist == SymAddr(Base, Text, syms[r.sym]) - Place(o, i, r)
        IN -RelaxDistance <= dist /\ dist < RelaxDistance

\* The link ends: assigning addresses again and again because the program header
\* or .rela.dyn changed its size comes to a fixed point (set_osec_offsets).
LayoutEnds == <>Stopped

\* What main.cc says of the values set by fix_synthetic_symbols and of the
\* thunks: they are the final ones.
AddressesAreFinal ==
  pc = "done" => /\ fixed = fix_synthetic_symbols(chunks)
                 /\ needs_thunk => thunkAddrs = gather_thunk_addresses(Base, Text, syms)
=============================================================================
