----------------------------- MODULE ArchRiscv ------------------------------
(***************************************************************************)
(* Relocations of RISC-V (arch-riscv.cc).  See RelocCommon for the words.  *)
(* A low part names, through a label, the relocation of the high part it   *)
(* belongs to: r.pair is that relocation's type.  r.ok stands for an       *)
(* R_RISCV_RELAX beside the relocation (and its partner) on instructions   *)
(* of the expected form, r.near for a value that fits the short form.      *)
(***************************************************************************)
EXTENDS RelocCommon

CONSTANT is_64

DiffTypes == {"ADD8", "ADD16", "ADD32", "ADD64", "SUB6", "SUB8", "SUB16", "SUB32", "SUB64",
              "SET6", "SET8", "SET16", "SET32", "SET_ULEB128", "SUB_ULEB128"}
BranchTypes == {"BRANCH", "JAL", "RVC_BRANCH", "RVC_JUMP"}
CallTypes == {"CALL", "CALL_PLT", "PLT32"}
PcrelLoTypes == {"PCREL_LO12_I", "PCREL_LO12_S"}
DescLoTypes == {"TLSDESC_LOAD_LO12", "TLSDESC_ADD_LO12", "TLSDESC_CALL"}

scan_relocations(o, s, r) ==
  scan_ifunc(s) \union
  CASE r.type = "32" -> IF is_64 THEN scan_absrel(o, s) ELSE {}
    [] r.type = "HI20" -> scan_absrel(o, s)
    [] r.type \in CallTypes -> scan_call(s)
    [] r.type \in {"GOT_HI20", "GOT32_PCREL"} -> {"GOT"}
    [] r.type = "TLS_GOT_HI20" -> {"GOTTP"}
    [] r.type = "TLS_GD_HI20" -> {"TLSGD"}
    [] r.type = "TLSDESC_HI20" -> scan_tlsdesc(o, s)
    [] r.type \in {"32_PCREL", "PCREL_HI20"} -> scan_pcrel(o, s)
    [] r.type = "TPREL_HI20" -> check_tlsle(o)
    [] r.type \in {"64", "LO12_I", "LO12_S", "TPREL_LO12_I", "TPREL_LO12_S", "TPREL_ADD", "ALIGN", "RELAX"}
                  \union BranchTypes \union PcrelLoTypes \union DescLoTypes \union DiffTypes -> {}
    [] OTHER -> {"ERROR"}

\* An AUIPC and an LD with one register between them.
is_got_load_pair(r) == r.type = "GOT_HI20" /\ r.next = "PCREL_LO12_I" /\ r.ok

\* Whether shrink_section removes bytes at the relocation.
shrink_section(o, s, r, has) ==
  /\ o.relax /\ r.ok
  /\ \/ r.type \in {"CALL", "CALL_PLT"} /\ r.near /\ ~is_absolute(s)
     \/ r.type = "GOT_HI20" /\ is_absolute(s) /\ is_got_load_pair(r) /\ r.near
     \/ r.type \in {"HI20", "TPREL_HI20", "TPREL_ADD"} /\ r.near
     \/ r.type \in {"TLSDESC_HI20", "TLSDESC_LOAD_LO12"} /\ "TLSDESC" \notin has
     \/ r.type = "TLSDESC_ADD_LO12" /\ {"TLSDESC", "GOTTP"} \intersect has = {} /\ r.near

\* The low part of a value whose high part is relative to the pair's place.
apply_pcrel_lo12(r) ==
  CASE r.pair = "GOT_HI20" -> {"GOT", "P", "LO"}
    [] r.pair = "TLS_GOT_HI20" -> {"GOTTP", "P", "LO"}
    [] r.pair = "TLS_GD_HI20" -> {"TLSGD", "P", "LO"}
    [] r.pair = "PCREL_HI20" -> {"S", "P", "LO"}

apply_tlsdesc(o, s, r, has) ==
  CASE "TLSDESC" \in has ->
         IF r.type = "TLSDESC_HI20" THEN {"TLSDESC", "P"}
         ELSE IF r.type = "TLSDESC_CALL" THEN {"CALLDESC"} ELSE {"TLSDESC", "P", "LO"}
    [] r.type \in {"TLSDESC_HI20", "TLSDESC_LOAD_LO12"} -> {}
    [] OTHER ->
         IF "GOTTP" \in has
         THEN IF r.type = "TLSDESC_ADD_LO12" THEN {"GOTTP", "P"} ELSE {"GOTTP", "P", "LO"}
         ELSE IF shrink_section(o, s, r, has) THEN {} ELSE {"S", "TP"}

apply_got_hi20(o, s, r, has) ==
  IF shrink_section(o, s, r, has) THEN {"S", "SKIP"}
  ELSE IF o.relax /\ is_pcrel_linktime_const(o, s) /\ is_got_load_pair(r) THEN {"S", "P", "SKIP"}
  ELSE {"GOT", "P"}

\* `loc += S + A` moves the pointer and leaves the byte alone, so the 8-bit
\* differences write nothing here.
apply_reloc_alloc(o, s, r, has) ==
  CASE r.type = "32" -> IF is_64 THEN {"S"} ELSE {}
    [] r.type \in {"64", "RELAX", "ALIGN", "TPREL_ADD", "ADD8", "SUB8"} -> {}
    [] r.type \in BranchTypes \union CallTypes \union {"PCREL_HI20", "32_PCREL"} -> {"S", "P"}
    [] r.type = "GOT_HI20" -> apply_got_hi20(o, s, r, has)
    [] r.type = "TLS_GOT_HI20" -> {"GOTTP", "P"}
    [] r.type = "TLS_GD_HI20" -> {"TLSGD", "P"}
    [] r.type \in PcrelLoTypes -> apply_pcrel_lo12(r)
    [] r.type = "HI20" -> IF shrink_section(o, s, r, has) THEN {} ELSE {"S"}
    [] r.type \in {"LO12_I", "LO12_S"} -> {"S", "LO"}
    [] r.type = "TPREL_HI20" -> IF shrink_section(o, s, r, has) THEN {} ELSE {"S", "TP"}
    [] r.type \in {"TPREL_LO12_I", "TPREL_LO12_S"} -> {"S", "TP"}
    [] r.type \in {"TLSDESC_HI20"} \union DescLoTypes -> apply_tlsdesc(o, s, r, has)
    [] r.type = "GOT32_PCREL" -> {"GOT", "P"}
    [] r.type \in DiffTypes -> {"S", "DIFF"}

apply_reloc_nonalloc(r) ==
  CASE r.type \in {"32", "64"} -> {"S"}
    [] r.type \in {"TLS_DTPREL32", "TLS_DTPREL64"} -> {"S", "DTP"}
    [] r.type \in DiffTypes -> {"S", "DIFF"}
    [] OTHER -> {"FATAL"}

apply_eh_reloc(r) ==
  CASE r.type \in {"ADD32", "SUB6", "SUB8", "SUB16", "SUB32", "SET6", "SET8", "SET16", "SET32"} -> {"S", "DIFF"}
    [] r.type = "32_PCREL" -> {"S", "P"}
    [] OTHER -> {"FATAL"}

write_plt_header(o) == {"GOTBASE", "P"}
write_plt_entry(o) == {"GOTPLT", "P"}
write_pltgot_entry(o) == {"GOT", "P"}

\* Symbols with a high part are read through its low part.
TlsSequences ==
  { <<"TLS_GOT_HI20", "PCREL_LO12_I">>, <<"TLS_GD_HI20", "PCREL_LO12_I">>,
    <<"TPREL_HI20", "TPREL_ADD", "TPREL_LO12_I">>, <<"TPREL_HI20", "TPREL_ADD", "TPREL_LO12_S">>,
    <<"TLSDESC_HI20", "TLSDESC_LOAD_LO12", "TLSDESC_ADD_LO12", "TLSDESC_CALL">> }
AddressSequences ==
  {<<"PCREL_HI20", l>> : l \in PcrelLoTypes} \union {<<"HI20", l>> : l \in {"LO12_I", "LO12_S"}}
    \union {<<t>> : t \in BranchTypes \union CallTypes \union DiffTypes \union
                          {"32", "64", "GOT32_PCREL", "32_PCREL", "ALIGN"}}
    \union { <<"GOT_HI20", "PCREL_LO12_I">> }
=============================================================================
