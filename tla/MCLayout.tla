------------------------------ MODULE MCLayout ------------------------------
(***************************************************************************)
(* Small links: a page has 4 bytes, an entry of a header table one.        *)
(***************************************************************************)
EXTENDS Layout

MCNameOrder ==
  << <<"bss">>, <<"bss", "rel", "ro">>, <<"copyrel">>, <<"copyrel", "rel", "ro">>,
     <<"ctors">>, <<"data">>, <<"data", "rel", "ro">>, <<"debug", "info">>,
     <<"dtors">>, <<"dynamic">>, <<"dynstr">>, <<"dynsym">>, <<"eh_frame">>,
     <<"eh_frame_hdr">>, <<"fini_array">>, <<"gdb_index">>, <<"gnu_hash">>, <<"versym">>, <<"verdef">>, <<"verneed">>,
     <<"got">>, <<"gotplt">>, <<"hash">>, <<"init">>, <<"init_array">>,
     <<"interp">>, <<"note", "abi">>, <<"note", "gnu", "build-id">>,
     <<"note", "package">>, <<"plt">>, <<"pltgot">>, <<"relrdyn">>,
     <<"reldyn">>, <<"relplt">>, <<"relro_padding">>, <<"rodata">>, <<"sframe">>, <<"shstrtab">>,
     <<"strtab">>, <<"symtab">>, <<"tbss">>, <<"tdata">>, <<"text">>,
     <<"text", "hot">>, <<"toc">>, <<"EHDR">>, <<"PHDR">>, <<"SHDR">>, <<"meta">>,
     <<"ARM", "exidx">> >>

NoOpt == [order |-> <<>>, omagic |-> FALSE, nmagic |-> FALSE, execute_only |-> FALSE,
          rosegment |-> TRUE, relro |-> TRUE, separate |-> "loadable", base |-> 8,
          start |-> <<>>, phys |-> -1, spare |-> 0, now |-> FALSE, gdb_index |-> FALSE,
          debug_file |-> FALSE, unique |-> {}, align |-> <<>>, compress |-> FALSE,
          android |-> FALSE]

Sec(name, type, flags, size, align) ==
  [name |-> name, type |-> type, flags |-> flags, size |-> size, align |-> align,
   rels |-> <<>>]
Ro(name, size, align) == Sec(name, "PROGBITS", {"A"}, size, align)
Rw(name, size, align) == Sec(name, "PROGBITS", {"A", "W"}, size, align)
Rx(name, size, align) == Sec(name, "PROGBITS", {"A", "X"}, size, align)
Bss(name, size, align) == Sec(name, "NOBITS", {"A", "W"}, size, align)
Tls(name, type, size, align) == Sec(name, type, {"A", "W", "T"}, size, align)

At(size, align) == [size |-> size, align |-> align]
Headers == (<<"EHDR">> :> At(1, 1)) @@ (<<"PHDR">> :> At(0, 1)) @@ (<<"got">> :> At(1, 1))

Link(o, files, sizes) ==
  [opt |-> o, files |-> files, sizes |-> sizes @@ Headers, syms |-> <<>>,
   dynrels |-> <<>>, target |-> "x86"]

SegmentLinks ==
  {Link([NoOpt EXCEPT !.separate = sep, !.relro = relro, !.rosegment = ros],
        << <<Rx(<<"text">>, 3, 1), Ro(<<"rodata">>, 1, ra), Rw(<<"data">>, ds, da)>>,
           <<Bss(<<"bss">>, bs, 1), Tls(<<"tdata">>, "PROGBITS", 1, 1),
             Tls(<<"tbss">>, "NOBITS", 2, ta)>> >>,
        <<"note", "gnu", "build-id">> :> At(1, 2)) :
     sep \in {"loadable", "code", "none"}, relro \in BOOLEAN, ros \in BOOLEAN,
     ra \in {1, 2}, ds \in {1, 4}, da \in {1, 8}, bs \in {1, 5}, ta \in {1, 8}}

\* RELRO: initialized and NOBITS chunks, .got.plt on either side, copy relocations
RelroLinks ==
  {Link([NoOpt EXCEPT !.separate = sep, !.now = now, !.relro = relro],
        << <<Rx(<<"text">>, 1, 1), Rw(<<"data", "rel", "ro", "x">>, ds, 2),
             Sec(<<"init_array", "1">>, "PROGBITS", {"A", "W"}, 1, 1)>>,
           <<Bss(<<"bss", "rel", "ro">>, bs, ba), Rw(<<"toc">>, 1, 1)>> >>,
        (<<"gotplt">> :> At(2, 1)) @@ (<<"copyrel", "rel", "ro">> :> At(cs, 1))
          @@ (<<"copyrel">> :> At(2, 1)) @@ (<<"dynamic">> :> At(1, 2))) :
     sep \in {"loadable", "none"}, now \in BOOLEAN, relro \in BOOLEAN, ds \in {1, 2},
     bs \in {1, 5}, ba \in {1, 8}, cs \in {0, 3}}

\* The block of thread-local variables on every kind of target
TlsLinks ==
  {[Link(NoOpt, << <<Tls(<<"tdata">>, "PROGBITS", ds, da), Rx(<<"text">>, 3, 1)>>,
                   <<Tls(<<"tbss">>, "NOBITS", 1, ba), Tls(<<"tbss", "x">>, "NOBITS", 3, 2),
                     Bss(<<"bss">>, 1, 1)>> >>, <<>>)
     EXCEPT !.target = t] :
     t \in {"x86", "arm64", "ppc", "riscv"}, ds \in {1, 3}, da \in {1, 4}, ba \in {1, 8}}

\* Options that place chunks, each on its own
Special ==
  {[NoOpt EXCEPT !.omagic = TRUE, !.nmagic = TRUE, !.relro = FALSE],
   [NoOpt EXCEPT !.nmagic = TRUE, !.relro = FALSE],
   [NoOpt EXCEPT !.execute_only = TRUE],
   [NoOpt EXCEPT !.phys = 8], [NoOpt EXCEPT !.phys = 100],
   [NoOpt EXCEPT !.spare = 2],
   [NoOpt EXCEPT !.align = <<"rodata">> :> 8],
   [NoOpt EXCEPT !.unique = { <<"text", "hot">> }],
   [NoOpt EXCEPT !.gdb_index = TRUE, !.compress = TRUE],
   [NoOpt EXCEPT !.debug_file = TRUE]}
  \cup {[NoOpt EXCEPT !.start = <<"data">> :> at, !.separate = sep] :
          at \in {64, 65}, sep \in {"loadable", "none"}}
  \cup {[NoOpt EXCEPT !.start = (<<"text">> :> 64) @@ (<<"note", "abi">> :> 40)]}
SpecialLinks ==
  {Link(o, << <<Rx(<<"text">>, 3, 1), Rx(<<"text", "hot">>, 2, 2), Rw(<<"data">>, 2, 1),
                Sec(<<"debug", "info">>, "PROGBITS", {}, 5, 1)>>,
              <<Ro(<<"rodata">>, 2, 1), Bss(<<"bss">>, 3, 1), Ro(<<"meta">>, 1, 1),
                Sec(<<"note", "abi">>, "NOTE", {"A"}, 1, 2)>> >>,
        (<<"note", "gnu", "build-id">> :> At(2, 1)) @@ (<<"symtab">> :> At(1, 1))
          @@ (<<"eh_frame_hdr">> :> At(1, 1)) @@ (<<"pltgot">> :> At(1, 1))) :
     o \in Special}
  \cup {Link([NoOpt EXCEPT !.execute_only = TRUE],
             << <<Sec(<<"text">>, "PROGBITS", {"A", "W", "X"}, 1, 1)>> >>, <<>>)}

\* --section-order
Tok(type, name, value) == [type |-> type, name |-> name, value |-> value]
Orders ==
  {<<Tok("SECTION", <<"EHDR">>, 0), Tok("SECTION", <<"PHDR">>, 0), Tok("GROUP", <<"RODATA">>, 0),
     Tok("GROUP", <<"TEXT">>, 0), Tok("ALIGN", <<>>, 8), Tok("GROUP", <<"DATA">>, 0),
     Tok("SYMBOL", <<"edata">>, 0), Tok("GROUP", <<"BSS">>, 0)>>,
   <<Tok("ADDR", <<>>, 64), Tok("GROUP", <<"TEXT">>, 0), Tok("SECTION", <<"data">>, 0),
     Tok("ADDR", <<>>, 96), Tok("GROUP", <<"RODATA">>, 0), Tok("GROUP", <<"DATA">>, 0),
     Tok("GROUP", <<"BSS">>, 0)>>,
   <<Tok("ADDR", <<>>, 64), Tok("GROUP", <<"TEXT">>, 0), Tok("ADDR", <<>>, 32),
     Tok("GROUP", <<"RODATA">>, 0), Tok("GROUP", <<"DATA">>, 0), Tok("GROUP", <<"BSS">>, 0)>>,
   <<Tok("GROUP", <<"TEXT">>, 0), Tok("GROUP", <<"DATA">>, 0)>>}
OrderLinks ==
  {Link([NoOpt EXCEPT !.order = ord, !.relro = FALSE],
        << <<Rx(<<"text">>, 3, 1), Rw(<<"data">>, 2, 1), Bss(<<"bss">>, 3, ba),
             Tls(<<"tdata">>, "PROGBITS", 1, 1), Tls(<<"tbss">>, "NOBITS", 2, 1)>>,
           <<Ro(<<"rodata">>, 2, ra)>> >>, <<>>) :
     ord \in Orders, ba \in {1, 8}, ra \in {1, 2}}

-----------------------------------------------------------------------------
(* Branches.  A text of 12 input sections spans more than two times the    *)
(* reach of a branch.  Symbol 1 is at its beginning, 2 at its end, 3 in    *)
(* the PLT before it, and 4 in .init.                                      *)

Sym(osec, idx, plt) == [osec |-> osec, idx |-> idx, val |-> 0, plt |-> plt]
Rel(off, kind, sym) == [off |-> off, kind |-> kind, sym |-> sym]
Text0 == <<"text">>

CallsTo(S, off, kind) == LET seq == SetToSortSeq(S, <)
                         IN [i \in DOMAIN seq |-> Rel(off, kind, seq[i])]

\* Sections 0, 1 and 2 of every three call the symbols in calls[0..2].
ThunkLink(t, calls, kind, Size(_), align) ==
  [Link(NoOpt,
        << [i \in 1..12 |->
              [Rx(Text0, Size(i), align) EXCEPT
                 !.rels = CallsTo(calls[i % 3], Size(i) - 2, kind)]],
           <<Rx(<<"init">>, 4, 2)>> >>, <<"plt">> :> At(4, 1))
     EXCEPT !.target = t,
            !.syms = <<Sym(Text0, 1, -1), Sym(Text0, 12, -1), Sym(Text0, 3, 0),
                       Sym(<<"init">>, 1, -1)>>]

Calls == {c \in [0..2 -> {{}, {1}, {2}, {1, 3}, {2, 4}, {1, 2, 3}}] : c[1] # {} }
ThunkLinks ==
  {ThunkLink("arm64", c, "call", LAMBDA i : 13, 2) : c \in Calls}
  \cup {ThunkLink("ppc", c, "call", LAMBDA i : IF i = 5 THEN 3 ELSE 14, 1) : c \in Calls}
  \cup {ThunkLink("arm32", c, "switch", LAMBDA i : 12, 2) :
          c \in {x \in Calls : x[0] = {}}}

\* The thunk of section 1 loses its entries, which shifts a call from section k;
\* its target is about as far away as the branch reaches.
ThunkEdgeLinks ==
  {[ThunkLink("arm64", [j \in 0..2 |-> {}], "call", LAMBDA i : 13, 1)
      EXCEPT !.files[1][1].rels = CallsTo({3, 4}, 0, "call"),
             !.files[1][k].rels = <<Rel(off, "call", 2)>>,
             !.files[1][12].align = al] : k \in {6, 7}, off \in 0..12, al \in {1, 2}}

\* .ARM.exidx is before the code and gets shorter once the thunks are final.
ExidxLinks ==
  {[ThunkLink("arm32", c, "switch", LAMBDA i : 12, 2)
      EXCEPT !.files[1] = @ \o <<Sec(<<"ARM", "exidx">>, "ARM_EXIDX", {"A"}, 4, 1)>>,
             !.opt.separate = sep] :
     c \in {x \in Calls : x[0] = {} /\ x[2] = {2, 4}},
     sep \in {"loadable", "none"}}

\* Code of four sections, each with padding and a call; removing bytes from any
\* of them moves the symbols.
RelaxLinks ==
  {[Link(NoOpt,
         << [i \in 1..4 |->
               [Rx(Text0, 10, al) EXCEPT
                  !.rels = (IF i = pad THEN <<Rel(0, "align", 3)>> ELSE <<>>)
                             \o <<Rel(4, "relax", IF i < 3 THEN y ELSE z)>>]] >>, <<>>)
      EXCEPT !.target = t,
             !.syms = <<Sym(Text0, 1, -1), [Sym(Text0, 2, -1) EXCEPT !.val = 8],
                        Sym(Text0, 4, -1), [Sym(<<>>, 0, -1) EXCEPT !.val = 20]>>] :
     t \in {"riscv", "loongarch"}, al \in {1, 2}, pad \in 0..4, y \in 1..4, z \in 1..4}

\* A section aligned to 8 that gets shorter, and a call from the next one to a
\* target that is aligned to al.
EdgeLinks ==
  {[Link(NoOpt,
         << <<[Rx(Text0, 10, 8) EXCEPT !.rels = <<Rel(4, "relax", 1)>>],
              [Rx(Text0, n, 1) EXCEPT !.rels = <<Rel(0, "relax", 2)>>],
              Rx(Text0, 4, al)>> >>, <<>>)
      EXCEPT !.target = t, !.syms = <<Sym(Text0, 1, -1), Sym(Text0, 3, -1)>>] :
     t \in {"riscv", "loongarch"}, n \in 10..16, al \in {1, 2, 4, 8}}

-----------------------------------------------------------------------------
(* --pack-dyn-relocs=android: two base relocations in .data.               *)

To(osec, val) == [osec |-> <<"data">>, off |-> 0, syn |-> "", to |-> osec, val |-> val]
ToSyn(name) == [To(<<"data">>, 0) EXCEPT !.syn = name]
AndroidLink(o, ro, x, y) ==
  [Link([o EXCEPT !.android = TRUE],
        << <<Ro(<<"rodata">>, ro, 1), Rx(Text0, 3, 1), Rw(<<"data">>, 4, 1)>> >>, <<>>)
     EXCEPT !.dynrels = <<x, [y EXCEPT !.off = 2]>>]
AndroidLinks ==
  {AndroidLink([NoOpt EXCEPT !.base = base, !.separate = sep], ro, x, y) :
     base \in {0, 8, 16}, sep \in {"loadable", "none"}, ro \in 0..3,
     x \in {To(<<"rodata">>, 0), To(Text0, 2)},
     y \in {To(<<"rodata">>, 0), To(Text0, 0), To(<<"data">>, 0), ToSyn("_end")}}

MCLinks == SegmentLinks \cup RelroLinks \cup TlsLinks \cup SpecialLinks \cup OrderLinks
             \cup ThunkLinks \cup ThunkEdgeLinks \cup ExidxLinks \cup RelaxLinks \cup AndroidLinks

\* Four words of .data hold the addresses of __ehdr_start and _end in turn.  The
\* four have the same dummy value in the first layouts.
FinalLinks ==
  {[AndroidLink(NoOpt, ro, ToSyn("_end"), ToSyn("_end"))
      EXCEPT !.dynrels = [i \in 1..4 |->
                            [ToSyn(IF i % 2 = 0 THEN "_end" ELSE "__ehdr_start")
                               EXCEPT !.off = i - 1]]] : ro \in 0..3}
=============================================================================
