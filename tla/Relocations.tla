---------------------------- MODULE Relocations -----------------------------
(***************************************************************************)
(* From the relocations that refer to one symbol to the words written in   *)
(* the output: scan_relocations (passes.cc) and what it leads to in .got,  *)
(* .plt, .rela.dyn and the sections themselves (output-chunks.cc), for     *)
(* every target.                                                           *)
(*                                                                         *)
(* Two object files are scanned by two threads.  Each has one access to    *)
(* the symbol, a sequence of relocations; besides, the output section      *)
(* "R" (read-only) and "W" (writable) may hold a word with its address.    *)
(* Output sections are scanned in parallel too.  A CIE of the first file   *)
(* and a section of debug information may refer to the symbol as well.     *)
(*                                                                         *)
(* in: what is linked, a record made by Link.                              *)
(* pc: "scan", "abs", "size", "write", then "done" or "failed".            *)
(* scanned: the files already scanned.                                     *)
(* flags: the NEEDS_ flags of the symbol and those of __tls_get_addr.      *)
(* ctx: what is recorded globally: "TLSLD", "ERROR", "TEXTREL".            *)
(* promoted: section R has passed the loop that sets NEEDS_CANONICAL.      *)
(* kind: AbsRel::kind of the word in each section, "?" before it is known. *)
(* aux: what SymbolAux and the bits of Symbol say the two symbols have:    *)
(*      slots, "GOTPLT" for an entry in .plt, "CANON", "COPYREL".          *)
(* rels: num_dynrels and num_relrs summed over the chunks, and the dynamic *)
(*       relocations that write_dynrels made.                              *)
(* out: the terms written for each relocation, by place: the two files,    *)
(*      the CIE, the debug information, the PLT entry and the thunk.       *)
(***************************************************************************)
EXTENDS RelocCommon, FiniteSets

CONSTANTS Targets,   \* the targets to link for
          Options,   \* the options to link with
          Symbols    \* the symbols to refer to

VARIABLES in, pc, scanned, flags, ctx, promoted, kind, aux, rels, out

vars == <<in, pc, scanned, flags, ctx, promoted, kind, aux, rels, out>>

Files == {"a", "b"}
Places == Files \union {"cie", "debug", "plt", "thunk"}
MaxLen == 7    \* the longest access has seven relocations
Sections == {"R", "W"}

X86_64 == INSTANCE ArchX86_64
I386 == INSTANCE ArchI386
ARM64 == INSTANCE ArchArm64
ARM32 == INSTANCE ArchArm32
RV64 == INSTANCE ArchRiscv WITH is_64 <- TRUE
RV32 == INSTANCE ArchRiscv WITH is_64 <- FALSE
LA64 == INSTANCE ArchLoongarch WITH is_64 <- TRUE
LA32 == INSTANCE ArchLoongarch WITH is_64 <- FALSE
PPC32 == INSTANCE ArchPpc32
PPC64V1 == INSTANCE ArchPpc64v1
PPC64V2 == INSTANCE ArchPpc64v2
S390X == INSTANCE ArchS390x
SPARC64 == INSTANCE ArchSparc64
M68K == INSTANCE ArchM68k
SH4 == INSTANCE ArchSh4

-----------------------------------------------------------------------------
(* The functions a target defines. *)

Scan(t, o, s, r) ==
  CASE t = "x86_64" -> X86_64!scan_relocations(o, s, r)
    [] t = "i386" -> I386!scan_relocations(o, s, r)
    [] t = "arm64" -> ARM64!scan_relocations(o, s, r)
    [] t = "arm32" -> ARM32!scan_relocations(o, s, r)
    [] t = "rv64" -> RV64!scan_relocations(o, s, r)
    [] t = "rv32" -> RV32!scan_relocations(o, s, r)
    [] t = "la64" -> LA64!scan_relocations(o, s, r)
    [] t = "la32" -> LA32!scan_relocations(o, s, r)
    [] t = "ppc32" -> PPC32!scan_relocations(o, s, r)
    [] t = "ppc64v1" -> PPC64V1!scan_relocations(o, s, r)
    [] t = "ppc64v2" -> PPC64V2!scan_relocations(o, s, r)
    [] t = "s390x" -> S390X!scan_relocations(o, s, r)
    [] t = "sparc64" -> SPARC64!scan_relocations(o, s, r)
    [] t = "m68k" -> M68K!scan_relocations(o, s, r)
    [] t = "sh4" -> SH4!scan_relocations(o, s, r)

Apply(t, o, s, r, has) ==
  CASE t = "x86_64" -> X86_64!apply_reloc_alloc(o, s, r, has)
    [] t = "i386" -> I386!apply_reloc_alloc(o, s, r, has)
    [] t = "arm64" -> ARM64!apply_reloc_alloc(o, s, r, has)
    [] t = "arm32" -> ARM32!apply_reloc_alloc(o, s, r, has)
    [] t = "rv64" -> RV64!apply_reloc_alloc(o, s, r, has)
    [] t = "rv32" -> RV32!apply_reloc_alloc(o, s, r, has)
    [] t = "la64" -> LA64!apply_reloc_alloc(o, s, r, has)
    [] t = "la32" -> LA32!apply_reloc_alloc(o, s, r, has)
    [] t = "ppc32" -> PPC32!apply_reloc_alloc(o, s, r, has)
    [] t = "ppc64v1" -> PPC64V1!apply_reloc_alloc(o, s, r, has)
    [] t = "ppc64v2" -> PPC64V2!apply_reloc_alloc(o, s, r, has)
    [] t = "s390x" -> S390X!apply_reloc_alloc(o, s, r, has)
    [] t = "sparc64" -> SPARC64!apply_reloc_alloc(o, s, r, has)
    [] t = "m68k" -> M68K!apply_reloc_alloc(o, s, r, has)
    [] t = "sh4" -> SH4!apply_reloc_alloc(o, s, r, has)

ApplyNonalloc(t, r) ==
  CASE t = "x86_64" -> X86_64!apply_reloc_nonalloc(r) [] t = "i386" -> I386!apply_reloc_nonalloc(r)
    [] t = "arm64" -> ARM64!apply_reloc_nonalloc(r) [] t = "arm32" -> ARM32!apply_reloc_nonalloc(r)
    [] t = "rv64" -> RV64!apply_reloc_nonalloc(r) [] t = "rv32" -> RV32!apply_reloc_nonalloc(r)
    [] t = "la64" -> LA64!apply_reloc_nonalloc(r) [] t = "la32" -> LA32!apply_reloc_nonalloc(r)
    [] t = "ppc32" -> PPC32!apply_reloc_nonalloc(r) [] t = "ppc64v1" -> PPC64V1!apply_reloc_nonalloc(r)
    [] t = "ppc64v2" -> PPC64V2!apply_reloc_nonalloc(r) [] t = "s390x" -> S390X!apply_reloc_nonalloc(r)
    [] t = "sparc64" -> SPARC64!apply_reloc_nonalloc(r) [] t = "m68k" -> M68K!apply_reloc_nonalloc(r)
    [] t = "sh4" -> SH4!apply_reloc_nonalloc(r)

ApplyEh(t, r) ==
  CASE t = "x86_64" -> X86_64!apply_eh_reloc(r) [] t = "i386" -> I386!apply_eh_reloc(r)
    [] t = "arm64" -> ARM64!apply_eh_reloc(r) [] t = "arm32" -> ARM32!apply_eh_reloc(r)
    [] t = "rv64" -> RV64!apply_eh_reloc(r) [] t = "rv32" -> RV32!apply_eh_reloc(r)
    [] t = "la64" -> LA64!apply_eh_reloc(r) [] t = "la32" -> LA32!apply_eh_reloc(r)
    [] t = "ppc32" -> PPC32!apply_eh_reloc(r) [] t = "ppc64v1" -> PPC64V1!apply_eh_reloc(r)
    [] t = "ppc64v2" -> PPC64V2!apply_eh_reloc(r) [] t = "s390x" -> S390X!apply_eh_reloc(r)
    [] t = "sparc64" -> SPARC64!apply_eh_reloc(r) [] t = "m68k" -> M68K!apply_eh_reloc(r)
    [] t = "sh4" -> SH4!apply_eh_reloc(r)

PltEntry(t, o, canonical) ==
  CASE t = "x86_64" -> X86_64!write_plt_entry(o, canonical) [] t = "i386" -> I386!write_plt_entry(o)
    [] t = "arm64" -> ARM64!write_plt_entry(o) [] t = "arm32" -> ARM32!write_plt_entry(o)
    [] t = "rv64" -> RV64!write_plt_entry(o) [] t = "rv32" -> RV32!write_plt_entry(o)
    [] t = "la64" -> LA64!write_plt_entry(o) [] t = "la32" -> LA32!write_plt_entry(o)
    [] t = "ppc32" -> PPC32!write_plt_entry(o) [] t = "ppc64v1" -> PPC64V1!write_plt_entry(o)
    [] t = "ppc64v2" -> PPC64V2!write_plt_entry(o) [] t = "s390x" -> S390X!write_plt_entry(o)
    [] t = "sparc64" -> SPARC64!write_plt_entry(o) [] t = "m68k" -> M68K!write_plt_entry(o)
    [] t = "sh4" -> SH4!write_plt_entry(o)

PltGotEntry(t, o) ==
  CASE t = "x86_64" -> X86_64!write_pltgot_entry(o) [] t = "i386" -> I386!write_pltgot_entry(o)
    [] t = "arm64" -> ARM64!write_pltgot_entry(o) [] t = "arm32" -> ARM32!write_pltgot_entry(o)
    [] t = "rv64" -> RV64!write_pltgot_entry(o) [] t = "rv32" -> RV32!write_pltgot_entry(o)
    [] t = "la64" -> LA64!write_pltgot_entry(o) [] t = "la32" -> LA32!write_pltgot_entry(o)
    [] t = "ppc32" -> PPC32!write_pltgot_entry(o) [] t = "ppc64v1" -> PPC64V1!write_pltgot_entry(o)
    [] t = "ppc64v2" -> PPC64V2!write_pltgot_entry(o) [] t = "s390x" -> S390X!write_pltgot_entry(o)
    [] t = "sparc64" -> SPARC64!write_pltgot_entry(o) [] t = "m68k" -> M68K!write_pltgot_entry(o)
    [] t = "sh4" -> SH4!write_pltgot_entry(o)

PltHeader(t, o) ==
  CASE t = "x86_64" -> X86_64!write_plt_header(o) [] t = "i386" -> I386!write_plt_header(o)
    [] t = "arm64" -> ARM64!write_plt_header(o) [] t = "arm32" -> ARM32!write_plt_header(o)
    [] t = "rv64" -> RV64!write_plt_header(o) [] t = "rv32" -> RV32!write_plt_header(o)
    [] t = "la64" -> LA64!write_plt_header(o) [] t = "la32" -> LA32!write_plt_header(o)
    [] t = "ppc32" -> PPC32!write_plt_header(o) [] t = "ppc64v1" -> PPC64V1!write_plt_header(o)
    [] t = "ppc64v2" -> PPC64V2!write_plt_header(o) [] t = "s390x" -> S390X!write_plt_header(o)
    [] t = "sparc64" -> SPARC64!write_plt_header(o) [] t = "m68k" -> M68K!write_plt_header(o)
    [] t = "sh4" -> SH4!write_plt_header(o)

\* A thunk, for the targets whose branches may not reach.
ThunkEntry(t, has, near) ==
  CASE t \in {"arm64", "arm32"} -> {"S", "P"}
    [] t = "ppc32" -> PPC32!thunk_copy_buf(has)
    [] t = "ppc64v1" -> PPC64V1!thunk_copy_buf(has)
    [] t = "ppc64v2" -> PPC64V2!thunk_copy_buf(has, near)
    [] OTHER -> {}

AddressSequences(t) ==
  CASE t = "x86_64" -> X86_64!AddressSequences [] t = "i386" -> I386!AddressSequences
    [] t = "arm64" -> ARM64!AddressSequences [] t = "arm32" -> ARM32!AddressSequences
    [] t = "rv64" -> RV64!AddressSequences [] t = "rv32" -> RV32!AddressSequences
    [] t = "la64" -> LA64!AddressSequences [] t = "la32" -> LA32!AddressSequences
    [] t = "ppc32" -> PPC32!AddressSequences [] t = "ppc64v1" -> PPC64V1!AddressSequences
    [] t = "ppc64v2" -> PPC64V2!AddressSequences [] t = "s390x" -> S390X!AddressSequences
    [] t = "sparc64" -> SPARC64!AddressSequences [] t = "m68k" -> M68K!AddressSequences
    [] t = "sh4" -> SH4!AddressSequences

TlsSequences(t) ==
  CASE t = "x86_64" -> X86_64!TlsSequences [] t = "i386" -> I386!TlsSequences
    [] t = "arm64" -> ARM64!TlsSequences [] t = "arm32" -> ARM32!TlsSequences
    [] t = "rv64" -> RV64!TlsSequences [] t = "rv32" -> RV32!TlsSequences
    [] t = "la64" -> LA64!TlsSequences [] t = "la32" -> LA32!TlsSequences
    [] t = "ppc32" -> PPC32!TlsSequences [] t = "ppc64v1" -> PPC64V1!TlsSequences
    [] t = "ppc64v2" -> PPC64V2!TlsSequences [] t = "s390x" -> S390X!TlsSequences
    [] t = "sparc64" -> SPARC64!TlsSequences [] t = "m68k" -> M68K!TlsSequences
    [] t = "sh4" -> SH4!TlsSequences


\* E::R_ABS, the word-size absolute relocation.
R_ABS(t) ==
  CASE t \in {"x86_64", "rv64", "la64", "s390x", "sparc64"} -> "64"
    [] t \in {"i386", "rv32", "la32", "m68k"} -> "32"
    [] t = "arm64" -> "ABS64"
    [] t = "arm32" -> "ABS32"
    [] t = "ppc32" -> "ADDR32"
    [] t \in {"ppc64v1", "ppc64v2"} -> "ADDR64"
    [] t = "sh4" -> "DIR32"

-----------------------------------------------------------------------------
(* The relocations of an access, in the order the loops visit them. *)

\* The function of libc that general- and local-dynamic accesses call.
tls_get_addr(o) == [type |-> "FUNC", imported |-> ~o.static, undefweak |-> FALSE,
                    origin |-> IF o.static THEN "section" ELSE "none"]

Types(i, f) == i.seq[f]

\* A call in the middle of a TLS access refers to __tls_get_addr.
IsCall(i, f, j) == i.sym.type = "TLS" /\ <<Types(i, f)[j]>> \in AddressSequences(i.target)

SymbolAt(i, f, j) == IF IsCall(i, f, j) THEN tls_get_addr(i.opt) ELSE i.sym

RelAt(i, f, j) ==
  [type |-> Types(i, f)[j], ok |-> i.ok, near |-> i.near, pair |-> Types(i, f)[1],
   next |-> IF j < Len(Types(i, f)) THEN Types(i, f)[j + 1] ELSE "NONE"]

\* result[j] is {} for a relocation that the one before it makes the loop skip.
Visit(each) ==
  LET result[j \in DOMAIN each] ==
        IF j > 1 /\ "SKIP" \in result[j - 1] THEN {} ELSE each[j]
  IN  result

ScanAt(i, f, j) == Scan(i.target, i.opt, SymbolAt(i, f, j), RelAt(i, f, j))

\* Word relocations are looked at by the loop over relocations as well.
WordRel(i) == [type |-> R_ABS(i.target), ok |-> FALSE, near |-> FALSE, pair |-> "NONE", next |-> "NONE"]

WordRequests(i) == IF i.words = {} THEN {} ELSE Scan(i.target, i.opt, i.sym, WordRel(i))

\* The requests of a file for the symbol, and for __tls_get_addr.
Requests(i, f, who) ==
  LET result == Visit([j \in DOMAIN Types(i, f) |-> ScanAt(i, f, j)])
  IN  UNION {result[j] : j \in {k \in DOMAIN result : IsCall(i, f, k) = (who = "tga")}}

CieRequests_NoPlt(i) ==
  IF i.cie /= "NONE" /\ pic(i.opt) /\ i.cie = R_ABS(i.target) THEN {"ERROR"} ELSE {}

\* The personality routine that a CIE names is called through its PLT entry.
CieRequests(i) ==
  IF i.cie = "NONE" THEN {}
  ELSE (IF pic(i.opt) /\ i.cie = R_ABS(i.target) THEN {"ERROR"} ELSE {}) \union
       (IF i.sym.imported THEN IF i.sym.type = "FUNC" THEN {"PLT"} ELSE {"FATAL"} ELSE {})

Global == {"TLSLD", "ERROR", "FATAL", "SKIP", "TGA"}

-----------------------------------------------------------------------------
(* passes.cc, scan_relocations. *)

\* Every section of the file, in one task; flags are atomic.
ScanRelocations(f) ==
  /\ pc = "scan"
  /\ f \notin scanned
  /\ LET req == Requests(in, f, "sym") \union IF f = "a" THEN WordRequests(in) \union CieRequests(in) ELSE {}
         tga == Requests(in, f, "tga")
     IN  /\ flags' = [flags EXCEPT !.sym = @ \union (req \ Global),
                                   !.tga = @ \union (tga \ Global) \union (IF "TGA" \in req THEN {"PLT"} ELSE {})]
         /\ ctx' = ctx \union ((req \union tga) \intersect {"TLSLD", "ERROR", "FATAL"})
  /\ scanned' = scanned \union {f}
  /\ UNCHANGED <<in, pc, promoted, kind, aux, rels, out>>

\* The two calls of ctx.checkpoint.
Failed == {"ERROR", "FATAL"} \intersect ctx /= {}

CheckScan ==
  /\ pc = "scan"
  /\ scanned = Files
  /\ pc' = IF Failed THEN "failed" ELSE "abs"
  /\ UNCHANGED <<in, scanned, flags, ctx, promoted, kind, aux, rels, out>>

get_abs_rel_kind_Local(i, fl) ==
  CASE is_ifunc(i.sym) -> IF is_pde_ifunc(i.target, i.opt, i.sym) THEN "NONE" ELSE "IFUNC"
    [] ~is_ifunc(i.sym) /\ is_absolute(i.sym) -> "NONE"
    [] OTHER -> IF pic(i.opt) THEN "BASEREL" ELSE "NONE"

\* The symbol's address is in the output file once it is promoted.
get_abs_rel_kind(i, fl) ==
  CASE is_ifunc(i.sym) -> IF is_pde_ifunc(i.target, i.opt, i.sym) THEN "NONE" ELSE "IFUNC"
    [] ~is_ifunc(i.sym) /\ is_absolute(i.sym) -> "NONE"
    [] OTHER -> IF i.sym.imported /\ "CANONICAL" \notin fl THEN "DYNREL"
                ELSE IF pic(i.opt) THEN "BASEREL" ELSE "NONE"

\* Read-only sections avoid dynamic relocations by promoting the symbol.
PromoteSymbols ==
  /\ pc = "abs"
  /\ "R" \in in.words
  /\ ~promoted
  /\ promoted' = TRUE
  /\ flags' = IF ~pic(in.opt) /\ in.sym.imported /\ ~is_absolute(in.sym)
              THEN [flags EXCEPT !.sym = @ \union {"CANONICAL"}] ELSE flags
  /\ UNCHANGED <<in, pc, scanned, ctx, kind, aux, rels, out>>

\* The rest of OutputSection::scan_abs_relocations.
ScanAbsRelocations(c) ==
  /\ pc = "abs"
  /\ c \in in.words
  /\ kind[c] = "?"
  /\ c = "R" => promoted
  /\ kind' = [kind EXCEPT ![c] = get_abs_rel_kind(in, flags.sym)]
  /\ ctx' = IF c = "W" \/ kind'[c] = "NONE" THEN ctx
            ELSE ctx \union {"TEXTREL"} \union (IF in.ztext THEN {"ERROR"} ELSE {})
  /\ UNCHANGED <<in, pc, scanned, flags, promoted, aux, rels, out>>

\* A copy relocation needs a shared library that has the data.
CopyrelFails(s) == s.undefweak

AssignSlots_PltGot(t, s, fl) ==
  (fl \intersect {"GOT", "GOTTP", "TLSGD", "TLSDESC"}) \union
  (IF "CANONICAL" \in fl /\ s.type = "FUNC" THEN {"PLT", "GOTPLT", "CANON"} ELSE fl \intersect {"PLT"}) \union
  (IF "CANONICAL" \in fl /\ s.type /= "FUNC" THEN {"COPYREL"} ELSE {}) \union
  (IF t = "ppc64v1" THEN fl \intersect {"OPD"} ELSE {})

AssignSlots_CanonicalPltGot(t, s, fl) ==
  (fl \intersect {"GOT", "GOTTP", "TLSGD", "TLSDESC"}) \union
  (IF "CANONICAL" \in fl /\ s.type = "FUNC" THEN {"PLT", "CANON"} ELSE fl \intersect {"PLT"}) \union
  (IF fl \intersect {"CANONICAL", "PLT"} /= {} /\ "GOT" \notin fl THEN {"GOTPLT"} ELSE {}) \union
  (IF "CANONICAL" \in fl /\ s.type /= "FUNC" THEN {"COPYREL"} ELSE {}) \union
  (IF t = "ppc64v1" THEN fl \intersect {"OPD"} ELSE {})

\* What the tables get for a symbol with these flags.  A canonical PLT entry is
\* never in .plt.got, which would jump to itself through .got.
AssignSlots(t, s, fl) ==
  (fl \intersect {"GOT", "GOTTP", "TLSGD", "TLSDESC"}) \union
  (IF "CANONICAL" \in fl /\ s.type = "FUNC" THEN {"PLT", "GOTPLT", "CANON"}
   ELSE IF "PLT" \notin fl THEN {}
   ELSE IF "GOT" \in fl THEN {"PLT"} ELSE {"PLT", "GOTPLT"}) \union
  (IF "CANONICAL" \in fl /\ s.type /= "FUNC" THEN {"COPYREL"} ELSE {}) \union
  (IF t = "ppc64v1" THEN fl \intersect {"OPD"} ELSE {})

\* The second checkpoint, and the loop over the symbols that makes the tables.
AssignOffsets ==
  /\ pc = "abs"
  /\ \A c \in in.words : kind[c] /= "?"
  /\ IF Failed THEN pc' = "failed" /\ UNCHANGED <<ctx, aux>>
     ELSE /\ aux' = [sym |-> AssignSlots(in.target, in.sym, flags.sym),
                     tga |-> AssignSlots(in.target, tls_get_addr(in.opt), flags.tga)]
          /\ IF "COPYREL" \in aux'.sym /\ CopyrelFails(in.sym)
             THEN pc' = "failed" /\ ctx' = ctx \union {"ERROR"}
             ELSE pc' = "size" /\ UNCHANGED ctx
  /\ UNCHANGED <<in, scanned, flags, promoted, kind, rels, out>>

-----------------------------------------------------------------------------
(* What .got, .rela.dyn and the words hold. *)

\* Symbol::get_addr as the place the address is in: "OWN" is the definition (or
\* the value of an absolute symbol), "COPY" the copy, "OPD" the descriptor.
get_addr(i, has, no_plt) ==
  CASE "COPYREL" \in has -> "COPY"
    [] "COPYREL" \notin has /\ "OPD" \in has -> "OPD"
    [] {"COPYREL", "OPD"} \intersect has = {} /\ "PLT" \in has /\ ~no_plt -> "PLT"
    [] OTHER -> "OWN"

GotEntry(slot, val, r_type, sym) == [slot |-> slot, val |-> val, r_type |-> r_type, sym |-> sym]

\* Entries by slot; a slot of two words is written <<slot, 1>> and <<slot, 2>>.
GotEntriesOfSymbol(i, has) ==
  CASE is_ifunc(i.sym) ->
         IF is_pde_ifunc(i.target, i.opt, i.sym)
         THEN {GotEntry(<<"GOT", 1>>, "PLT", "NONE", FALSE),
               GotEntry(<<"GOT", 2>>, get_addr(i, has, TRUE), "IRELATIVE", FALSE)}
         ELSE {GotEntry(<<"GOT", 1>>, get_addr(i, has, TRUE), "IRELATIVE", FALSE)}
    [] ~is_ifunc(i.sym) /\ i.sym.imported -> {GotEntry(<<"GOT", 1>>, "0", "GLOB_DAT", TRUE)}
    [] OTHER ->
         {GotEntry(<<"GOT", 1>>, get_addr(i, has, TRUE),
                   IF pic(i.opt) /\ ~is_absolute(i.sym) THEN "RELATIVE" ELSE "NONE", FALSE)}

GotEntriesOfTlsgd(i) ==
  IF i.sym.imported THEN {GotEntry(<<"TLSGD", 1>>, "0", "DTPMOD", TRUE), GotEntry(<<"TLSGD", 2>>, "0", "DTPOFF", TRUE)}
  ELSE {GotEntry(<<"TLSGD", 1>>, IF i.opt.shared THEN "0" ELSE "1", IF i.opt.shared THEN "DTPMOD" ELSE "NONE", FALSE),
        GotEntry(<<"TLSGD", 2>>, "S-DTP", "NONE", FALSE)}

GotEntriesOfTlsdesc(i) ==
  {IF i.sym.imported THEN GotEntry(<<"TLSDESC", 1>>, "0", "TLSDESC", TRUE)
   ELSE GotEntry(<<"TLSDESC", 1>>, "S-TLSBEGIN", "TLSDESC", FALSE)}

GotEntriesOfGottp(i) ==
  {IF i.sym.imported THEN GotEntry(<<"GOTTP", 1>>, "0", "TPOFF", TRUE)
   ELSE IF i.opt.shared THEN GotEntry(<<"GOTTP", 1>>, "S-TLSBEGIN", "TPOFF", FALSE)
   ELSE GotEntry(<<"GOTTP", 1>>, "S-TP", "NONE", FALSE)}

GotEntriesOfTlsld(i) ==
  {IF i.opt.shared THEN GotEntry(<<"TLSLD", 1>>, "0", "DTPMOD", FALSE)
   ELSE GotEntry(<<"TLSLD", 1>>, "1", "NONE", FALSE)}

get_got_entries(i, has, c) ==
  (IF "GOT" \in has THEN GotEntriesOfSymbol(i, has) ELSE {}) \union
  (IF "TLSGD" \in has THEN GotEntriesOfTlsgd(i) ELSE {}) \union
  (IF "TLSDESC" \in has THEN GotEntriesOfTlsdesc(i) ELSE {}) \union
  (IF "GOTTP" \in has THEN GotEntriesOfGottp(i) ELSE {}) \union
  (IF "TLSLD" \in c THEN GotEntriesOfTlsld(i) ELSE {})

get_num_dynrels_NoTlsld(i, has, c) ==
  LET got == IF "GOT" \notin has THEN 0
             ELSE IF is_ifunc(i.sym) \/ i.sym.imported \/ (pic(i.opt) /\ ~is_absolute(i.sym)) THEN 1 ELSE 0
      tlsgd == IF "TLSGD" \notin has THEN 0
               ELSE IF i.sym.imported THEN 2 ELSE IF i.opt.shared THEN 1 ELSE 0
      tlsdesc == IF "TLSDESC" \in has THEN 1 ELSE 0
      gottp == IF "GOTTP" \in has /\ (i.sym.imported \/ i.opt.shared) THEN 1 ELSE 0
  IN  got + tlsgd + tlsdesc + gottp

\* .rela.dyn is sized without making the entries.
get_num_dynrels(i, has, c) ==
  LET got == IF "GOT" \notin has THEN 0
             ELSE IF is_ifunc(i.sym) \/ i.sym.imported \/ (pic(i.opt) /\ ~is_absolute(i.sym)) THEN 1 ELSE 0
      tlsgd == IF "TLSGD" \notin has THEN 0
               ELSE IF i.sym.imported THEN 2 ELSE IF i.opt.shared THEN 1 ELSE 0
      tlsdesc == IF "TLSDESC" \in has THEN 1 ELSE 0
      gottp == IF "GOTTP" \in has /\ (i.sym.imported \/ i.opt.shared) THEN 1 ELSE 0
      tlsld == IF "TLSLD" \in c /\ i.opt.shared THEN 1 ELSE 0
  IN  got + tlsgd + tlsdesc + gottp + tlsld

\* Slots of .got that .relr.dyn covers.
get_relr_offsets(i, has) ==
  IF pic(i.opt) /\ "GOT" \in has /\ ~is_ifunc(i.sym) /\ ~i.sym.imported /\ ~is_absolute(i.sym)
  THEN {<<"GOT", 1>>} ELSE {}

\* OutputSection::get_relr_offsets, which also turns ABS_REL_BASEREL of an aligned
\* word into ABS_REL_RELR.
RelrKind(i, k) == IF i.relr /\ i.ok /\ k = "BASEREL" THEN "RELR" ELSE k

\* construct_relr, which runs once, and RelDynSection::update_shdr.
SizeReldyn ==
  /\ pc = "size"
  /\ pc' = "write"
  /\ kind' = [c \in Sections |-> RelrKind(in, kind[c])]
  /\ rels' = [num |-> get_num_dynrels(in, aux.sym, ctx)
                        + Cardinality({c \in in.words : kind[c] /= "NONE"})
                        + (IF "COPYREL" \in aux.sym THEN 1 ELSE 0),
              relr |-> IF ~in.relr THEN 0
                       ELSE Cardinality(get_relr_offsets(in, aux.sym)) + Cardinality({c \in in.words : kind'[c] = "RELR"}),
              written |-> {}]
  /\ UNCHANGED <<in, scanned, flags, ctx, promoted, aux, out>>

\* What the chunks write to .rela.dyn: the slots of .got, the words, the copy.
GotDynrels(i, has, c) ==
  {e.slot : e \in {x \in get_got_entries(i, has, c) : x.r_type /= "NONE" /\ ~(i.relr /\ x.r_type = "RELATIVE")}}

WordDynrels(i) == {<<"WORD", w>> : w \in {x \in i.words : kind[x] \in {"BASEREL", "IFUNC", "DYNREL"}}}

CopyDynrels(has) == IF "COPYREL" \in has THEN {<<"COPY", 1>>} ELSE {}

write_dynrels(i, has, c) == GotDynrels(i, has, c) \union WordDynrels(i) \union CopyDynrels(has)

\* The value that the dynamic symbol gives to its uses by name: st_value if the
\* entry has one, or the definition the dynamic linker finds.
to_output_esym(i, has) ==
  CASE "COPYREL" \in has -> "COPY"
    [] "COPYREL" \notin has /\ "CANON" \in has -> "PLT"
    [] OTHER -> "DSO"

\* A GOT entry once the dynamic linker has run.
GotAtRuntime(i, has) ==
  LET e == CHOOSE x \in GotEntriesOfSymbol(i, has) : x.slot = <<"GOT", 1>>
  IN  CASE e.r_type = "IRELATIVE" -> "RESOLVED"
        [] e.r_type = "GLOB_DAT" -> to_output_esym(i, has)
        [] OTHER -> e.val

\* Where an entry of .plt.got jumps to: the slot of the symbol, or the second one of
\* an ifunc in a position-dependent executable.
get_got_pltgot_addr(i, has) ==
  IF is_pde_ifunc(i.target, i.opt, i.sym) THEN "RESOLVED" ELSE GotAtRuntime(i, has)

\* A word of an output section, written by write_dynrels and copy_buf.
WordAtRuntime(i, has, k) ==
  CASE k \in {"NONE", "BASEREL", "RELR"} -> get_addr(i, has, FALSE)
    [] k = "IFUNC" -> "RESOLVED"
    [] k = "DYNREL" -> to_output_esym(i, has)

-----------------------------------------------------------------------------
(* Writing the output. *)

HasAt(i, f, j) ==
  (IF f \in Files /\ IsCall(i, f, j) THEN aux.tga ELSE aux.sym) \union (ctx \intersect {"TLSLD"})

ApplyAt(i, f, j) == Apply(i.target, i.opt, SymbolAt(i, f, j), RelAt(i, f, j), HasAt(i, f, j))

WordTerms(i) == IF i.words = {} THEN {} ELSE Apply(i.target, i.opt, i.sym, WordRel(i), aux.sym)

\* The entry of .plt, with the header of the section, or of .plt.got.
PltTerms(i) ==
  IF "PLT" \notin aux.sym THEN <<>>
  ELSE IF "GOTPLT" \in aux.sym THEN <<PltEntry(i.target, i.opt, "CANON" \in aux.sym), PltHeader(i.target, i.opt)>>
  ELSE <<PltGotEntry(i.target, i.opt)>>

\* Branches to functions that are here or have a PLT entry may go through a thunk.
ThunkTerms(i) ==
  IF i.sym.type = "FUNC" /\ (~i.sym.imported \/ "PLT" \in aux.sym)
  THEN <<ThunkEntry(i.target, aux.sym, i.near)>> ELSE <<>>

Written(place) ==
  CASE place \in Files -> Visit([j \in DOMAIN Types(in, place) |-> ApplyAt(in, place, j)])
    [] place = "cie" -> IF in.cie = "NONE" THEN <<>> ELSE <<ApplyEh(in.target, [type |-> in.cie])>>
    [] place = "debug" -> IF in.debug = "NONE" THEN <<>> ELSE <<ApplyNonalloc(in.target, [type |-> in.debug])>>
    [] place = "plt" -> PltTerms(in)
    [] place = "thunk" -> ThunkTerms(in)

PositionsOf(o) == {x \in Places \X (1..MaxLen) : x[2] \in DOMAIN o[x[1]]}

\* A fatal error, or an assertion or an unreachable line, ends the link here too.
WriteOutput ==
  /\ pc = "write"
  /\ out' = [place \in Places |-> Written(place)]
  /\ rels' = [rels EXCEPT !.written = write_dynrels(in, aux.sym, ctx)]
  /\ pc' = IF \E x \in PositionsOf(out') : out'[x[1]][x[2]] \intersect {"ASSERT", "FATAL", "UNREACHABLE"} /= {}
           THEN "failed"
           ELSE IF "ASSERT" \in WordTerms(in) THEN "failed" ELSE "done"
  /\ UNCHANGED <<in, scanned, flags, ctx, promoted, kind, aux>>

-----------------------------------------------------------------------------
(* What is linked: an access in each of two files and words in the sections. *)

Link(t, o, s, q, q2) ==
  [target |-> t, opt |-> o, sym |-> s, seq |-> [a |-> q, b |-> q2], ok |-> FALSE, near |-> FALSE,
   words |-> {}, ztext |-> FALSE, relr |-> FALSE, cie |-> "NONE", debug |-> "NONE"]

\* Types that scan_relocations lets pass for an imported symbol although they
\* need its address: compilers emit them for symbols of the same module.
LocalTypes(t) ==
  CASE t = "x86_64" -> {"GOTOFF64", "DTPOFF32", "TPOFF32", "TPOFF64"}
    [] t = "i386" -> {"GOTOFF", "TLS_LDO_32", "TLS_LE"}
    [] t = "arm64" -> ARM64!PrelTypes \union ARM64!MovwPrelTypes \union ARM64!LeTypes
    [] t = "arm32" -> {"REL32", "GOTOFF32", "TLS_LDO32", "TLS_LE32"} \union ARM32!ShortTypes
    [] t \in {"rv64", "rv32"} -> RV64!BranchTypes \union RV64!DiffTypes \union {"TPREL_HI20"}
    [] t \in {"la64", "la32"} -> LA64!AbsTypes \union LA64!DiffTypes \union LA64!LeTypes \union {"B16", "B21"}
    [] t = "ppc32" -> PPC32!DtpTypes \union PPC32!LeTypes \union {"LOCAL24PC"}
    [] t = "ppc64v1" -> PPC64V1!PcTypes \union PPC64V1!TocTypes \union PPC64V1!DtpTypes \union PPC64V1!LeTypes
    [] t = "ppc64v2" -> PPC64V2!PcTypes \union PPC64V2!TocTypes \union PPC64V2!DtpTypes \union PPC64V2!LeTypes
    [] t = "s390x" -> S390X!GotOffTypes \union {"TLS_LDO32", "TLS_LDO64", "TLS_LE32", "TLS_LE64"}
    [] t = "sparc64" -> {"GOTDATA_HIX22", "TLS_LDO_HIX22", "TLS_LE_HIX22"}
    [] t = "m68k" -> M68K!LdoTypes \union M68K!LeTypes
    [] t = "sh4" -> {"GOTOFF", "TLS_LDO_32", "TLS_LE_32"}

\* Types that it lets pass in a position-independent output although the value
\* written moves with the load base (R_390_PLT32, the R_PPC64_GOT16 family and
\* SPARC's PLT32, PLT64, HIPLT22 and LOPLT10 are given such a value by mold only).
PdeTypes(t) ==
  CASE t = "i386" -> {"TLS_IE"}
    [] t \in {"la64", "la32"} -> LA64!AbsTypes \union LA64!GotAbsTypes \union LA64!IeAbsTypes \union LA64!GdAbsTypes
    [] t = "ppc64v1" -> {"GOT16"}
    [] t = "ppc64v2" -> PPC64V2!GotTypes
    [] t = "s390x" -> {"PLT32"}
    [] t = "sparc64" -> SPARC64!PltAbsTypes
    [] OTHER -> {}

Accesses(t, o, s) ==
  LET without == (IF s.imported THEN LocalTypes(t) ELSE {}) \union (IF pic(o) THEN PdeTypes(t) ELSE {})
  IN  {q \in IF s.type = "TLS" THEN TlsSequences(t) ELSE AddressSequences(t) :
         \A j \in DOMAIN q : q[j] \notin without}

\* A static link has no shared library to import from.
Cases == {x \in Targets \X Options \X Symbols : x[2].static => ~x[3].imported}

\* One access for each thing an access can ask for: the first file sees the
\* second only through the flags.
Representatives ==
  [x \in Cases |->
     LET Req == [q \in Accesses(x[1], x[2], x[3]) |->
                   Requests([Link(x[1], x[2], x[3], q, <<>>) EXCEPT !.ok = TRUE], "a", "sym")]
         Legal == {q \in DOMAIN Req : Req[q] \intersect {"ERROR", "FATAL"} = {}}
     IN  {<<>>} \union {CHOOSE q \in Legal : Req[q] = R : R \in {Req[q] : q \in Legal}}]

\* Whether instructions have the form a relaxation needs, and whether the
\* target is near.
Forms(t) ==
  CASE t \in {"rv64", "rv32", "la64", "la32"} -> {<<TRUE, TRUE>>, <<TRUE, FALSE>>, <<FALSE, FALSE>>}
    [] t \in {"x86_64", "i386", "arm64", "s390x"} -> {<<TRUE, FALSE>>, <<FALSE, FALSE>>}
    [] t = "ppc64v2" -> {<<FALSE, TRUE>>, <<FALSE, FALSE>>}
    [] OTHER -> {<<FALSE, FALSE>>}

\* An access beside one that asks for something else: otherwise it is as if alone.
InitAccesses ==
  \E x \in Cases : \E q \in Accesses(x[1], x[2], x[3]), f \in Forms(x[1]), q2 \in Representatives[x] :
    LET i == [Link(x[1], x[2], x[3], q, q2) EXCEPT !.ok = f[1], !.near = f[2]]
    IN  /\ q2 = <<>> \/ ~(Requests(i, "b", "sym") \subseteq Requests(i, "a", "sym"))
        /\ in = i

\* Only position-independent outputs have base relocations for .relr.dyn, and only
\* words of R can be text relocations.
InitWords ==
  \E x \in {y \in Cases : y[3].type /= "TLS"} :
    \E q \in Representatives[x], w \in SUBSET Sections \ {{}}, relr \in {"no", "aligned", "unaligned"}, z \in BOOLEAN :
      /\ relr = "no" \/ pic(x[2])
      /\ z => "R" \in w
      /\ in = [Link(x[1], x[2], x[3], q, <<>>) EXCEPT !.words = w, !.ztext = z, !.relr = relr /= "no", !.ok = relr = "aligned"]

\* The relocations of a CIE, beside another access, and of debug sections.  Only
\* E::R_ABS is diagnosed in a CIE, so the other absolute types are left out of
\* position-independent outputs.
InitRecords ==
  \E x \in {y \in Cases : y[3].type \in {"FUNC", "OBJECT"}} :
    \E r \in {y \in Accesses(x[1], x[2], x[3]) : Len(y) = 1} :
      \/ in = [Link(x[1], x[2], x[3], <<>>, <<>>) EXCEPT !.debug = r[1]]
      \/ /\ ApplyEh(x[1], [type |-> r[1]]) \intersect {"P", "DIFF"} /= {} \/ r[1] = R_ABS(x[1])
         /\ \E q \in Representatives[x] :
              in = [Link(x[1], x[2], x[3], <<>>, q) EXCEPT !.cie = r[1]]

Init ==
  /\ InitAccesses \/ InitWords \/ InitRecords
  /\ pc = "scan"
  /\ scanned = {f \in Files : in.seq[f] = <<>> /\ (f = "b" \/ (in.words = {} /\ in.cie = "NONE"))}
  /\ flags = [sym |-> {}, tga |-> {}]
  /\ ctx = {}
  /\ promoted = FALSE
  /\ kind = [c \in Sections |-> "?"]
  /\ aux = [sym |-> {}, tga |-> {}]
  /\ rels = [num |-> 0, relr |-> 0, written |-> {}]
  /\ out = [place \in Places |-> <<>>]

Finished == pc \in {"done", "failed"} /\ UNCHANGED vars

Next ==
  \/ \E f \in Files : ScanRelocations(f)
  \/ CheckScan
  \/ PromoteSymbols
  \/ \E c \in Sections : ScanAbsRelocations(c)
  \/ AssignOffsets
  \/ SizeReldyn
  \/ WriteOutput
  \/ Finished

Spec == Init /\ [][Next]_vars

-----------------------------------------------------------------------------
(* Properties. *)

Positions == PositionsOf(out)

Terms(p) == out[p[1]][p[2]]

SymbolOf(p) == IF p[1] \in Files THEN SymbolAt(in, p[1], p[2]) ELSE in.sym

\* What is written with a table slot is written for a slot the symbol has: in every
\* target scan_relocations and apply_reloc_alloc decide alike (relaxed or not, in
\* which TLS model), also when the flags come from another file or from a CIE; so do
\* the PLT entries and thunks.  The call of __tls_get_addr that SPARC makes
\* without a relocation has its PLT entry.
SlotsExist ==
  pc = "done" =>
    \A p \in Positions :
      /\ Terms(p) \intersect (Slots \union {"GOTPLT"}) \subseteq HasAt(in, p[1], p[2])
      /\ "TGA" \in Terms(p) => in.opt.static \/ "PLT" \in aux.tga

\* A value computed from the address of an imported symbol uses an address that the
\* output has: scan_pcrel, scan_absrel and the scan of the CIEs gave the symbol a PLT
\* entry or a copy (on PPC64v1 a descriptor), or the link has failed.
AddressKnown ==
  pc = "done" =>
    \A p \in Positions :
      "S" \in Terms(p) /\ p[1] /= "debug" /\ SymbolOf(p).imported
        => {"PLT", "COPYREL", "OPD"} \intersect HasAt(in, p[1], p[2]) /= {}

\* The parts of a value that move with the load base, added and subtracted.
Added(s, terms) ==
  (terms \intersect (Slots \union {"GOTBASE", "GOTPLT", "TLSBEGIN", "TGA"})) \union
  (IF is_absolute(s) THEN {} ELSE terms \intersect {"S"})
Subtracted(terms) == terms \intersect {"P", "GP", "TOC", "TP", "DTP"}

\* Relocations for a GOT slot.  s390x and SPARC also ask for a slot when the
\* distance of the symbol from .got is wanted.
IsGotAccess(p) ==
  /\ p[1] \in Files
  /\ RelAt(in, p[1], p[2]).type \notin IF in.target = "s390x" THEN S390X!GotOffTypes ELSE {"GOTDATA_HIX22"}
  /\ "GOT" \in Scan(in.target, in.opt, [in.sym EXCEPT !.imported = TRUE], RelAt(in, p[1], p[2]))

\* What is written to the code of a position-independent output does not depend on
\* where it is loaded: nothing there gets a dynamic relocation.  In particular a GOT
\* load is not relaxed to a PC-relative address of an absolute symbol, whose
\* distance changes with the load base.  Direct uses of an absolute symbol are
\* not diagnosed by the linker.
PositionIndependent ==
  pc = "done" /\ pic(in.opt) =>
    \A p \in {x \in Positions : x[1] /= "debug"} :
      LET t == Terms(p)
      IN  \/ t \intersect {"LO", "DIFF", "SIZE"} /= {}
          \/ is_absolute(SymbolOf(p)) /\ ~IsGotAccess(p)
          \/ Cardinality(Added(SymbolOf(p), t)) = Cardinality(Subtracted(t))

\* .rela.dyn is filled exactly: GotSection::get_num_dynrels "must mirror"
\* get_got_entries, and what .relr.dyn takes over is left out of both the size and
\* the contents, so write_dynrels neither overruns its part nor leaves a hole.
DynrelsCounted == pc = "done" => rels.num - rels.relr = Cardinality(rels.written)

TlsModel(terms) ==
  (terms \intersect {"TLSGD", "GOTTP", "TLSDESC", "TLSLD"}) \union
  (IF "TP" \in terms THEN {"LE"} ELSE {})

\* The relocations of one access to a thread-local variable are rewritten to one TLS
\* model, although each is rewritten by itself from what the symbol was given for
\* all its accesses; the call in the middle stays in exactly the models that call.
PiecesAgree ==
  pc = "done" /\ in.sym.type = "TLS" =>
    \A f \in Files :
      LET J == DOMAIN out[f]
          models == UNION {TlsModel(out[f][j]) : j \in J}
          calls == {j \in J : IsCall(in, f, j)}
          kept == \E j \in J : \/ j \in calls /\ out[f][j] /= {}
                              \/ out[f][j] \intersect {"CALLDESC", "TGA"} /= {}
      IN  /\ Cardinality(models) <= 1
          /\ kept => models \subseteq {"TLSGD", "TLSLD", "TLSDESC"}
          /\ calls /= {} /\ models \intersect {"TLSGD", "TLSLD"} /= {} => kept

\* Code of an executable that computes the address of the symbol, as opposed to
\* calling it; scan_pcrel cannot tell the two apart in a shared library.  Every
\* access to an ifunc requests a PLT entry, so that the address of an ifunc that
\* code computes is left out: it is that of the entry, while the words of an output
\* that is not position-dependent hold the resolved one.
TakesAddress(p) ==
  /\ p[1] \in Files
  /\ ~in.opt.shared
  /\ "S" \in Terms(p)
  /\ "PLT" \notin Requests(in, p[1], "sym")

\* A function or variable has one address at run time: the words that hold it, its
\* GOT slot and the code that computes it agree, whichever section was scanned
\* first (canonical PLT entries and copies are what the other modules see too).
\* PPC64v1 may give an imported function a descriptor of its own.
PointersAgree ==
  pc = "done" /\ in.target /= "ppc64v1" /\ in.sym.type /= "TLS" =>
    Cardinality({WordAtRuntime(in, aux.sym, kind[c]) : c \in in.words} \union
                {GotAtRuntime(in, aux.sym) : x \in {"GOT"} \intersect aux.sym} \union
                {get_addr(in, aux.sym, FALSE) : p \in {x \in Positions : TakesAddress(x)}}) <= 1

\* An entry of .plt.got does not jump to itself: a canonical PLT entry is in .plt even
\* when the symbol has a GOT slot, which then holds the address of the entry.
PltReachesFunction ==
  pc = "done" /\ "PLT" \in aux.sym /\ "GOTPLT" \notin aux.sym
    => get_got_pltgot_addr(in, aux.sym) /= "PLT"

\* The kind of a word's relocation is a function of the input, not of the order in
\* which output sections are scanned: it is the kind the final flags give.
DeterministicKinds ==
  pc = "size" => \A c \in in.words : kind[c] = get_abs_rel_kind(in, flags.sym)
=============================================================================
