--------------------------- MODULE ArchLoongarch ----------------------------
(***************************************************************************)
(* Relocations of LoongArch (arch-loongarch.cc).  See RelocCommon for the  *)
(* words.  r.ok stands for R_LARCH_RELAX on instructions of the expected   *)
(* form, r.near for a value that fits the short form.                      *)
(***************************************************************************)
EXTENDS RelocCommon

CONSTANT is_64

DiffTypes == {"ADD6", "ADD8", "ADD16", "ADD32", "ADD64", "ADD_ULEB128",
              "SUB6", "SUB8", "SUB16", "SUB32", "SUB64", "SUB_ULEB128"}
MarkTypes == {"RELAX", "MARK_LA", "MARK_PCREL", "ALIGN"}
AbsTypes == {"ABS_HI20", "ABS_LO12", "ABS64_LO20", "ABS64_HI12"}
Pcala64Types == {"PCALA64_LO20", "PCALA64_HI12"}
Got64PcTypes == {"GOT64_PC_LO20", "GOT64_PC_HI12"}
GotAbsTypes == {"GOT_LO12", "GOT_HI20", "GOT64_LO20", "GOT64_HI12"}
IePcTypes == {"TLS_IE_PC_HI20", "TLS_IE64_PC_LO20", "TLS_IE64_PC_HI12"}
IeAbsTypes == {"TLS_IE_LO12", "TLS_IE_HI20", "TLS_IE64_LO20", "TLS_IE64_HI12"}
LeTypes == {"TLS_LE_HI20", "TLS_LE_LO12", "TLS_LE64_LO20", "TLS_LE64_HI12", "TLS_LE_HI20_R", "TLS_LE_LO12_R"}
GdPcTypes == {"TLS_GD_PC_HI20", "TLS_LD_PC_HI20"}
GdAbsTypes == {"TLS_GD_HI20", "TLS_LD_HI20"}
DescTypes == {"TLS_DESC_PC_HI20", "TLS_DESC_PC_LO12", "TLS_DESC_LD", "TLS_DESC_CALL"}

\* LD is treated like GD.  Marks are passed over before anything else.
scan_relocations(o, s, r) ==
  IF r.type \in MarkTypes THEN {} ELSE
  scan_ifunc(s) \union
  CASE r.type = "32" -> IF is_64 THEN scan_absrel(o, s) ELSE {}
    [] r.type \in {"B26", "PCALA_HI20", "CALL36"} -> scan_call(s)
    [] r.type \in {"GOT_HI20", "GOT_PC_HI20"} -> {"GOT"}
    [] r.type \in {"TLS_IE_HI20", "TLS_IE_PC_HI20"} -> {"GOTTP"}
    [] r.type \in GdPcTypes \union GdAbsTypes -> {"TLSGD"}
    [] r.type \in {"32_PCREL", "64_PCREL"} -> scan_pcrel(o, s)
    [] r.type \in LeTypes -> check_tlsle(o)
    [] r.type = "TLS_DESC_CALL" -> scan_tlsdesc(o, s)
    [] r.type \in {"64", "B16", "B21", "PCALA_LO12", "GOT_PC_LO12", "TLS_IE_PC_LO12", "TLS_LE_ADD_R"}
                  \union AbsTypes \union Pcala64Types \union Got64PcTypes \union GotAbsTypes
                  \union IePcTypes \union IeAbsTypes \union DiffTypes \union DescTypes -> {}
    [] OTHER -> {"ERROR"}

\* A PCALAU12I and an LD.D with one register between them.
is_relaxable_got_load(o, s, r) ==
  o.relax /\ is_pcrel_linktime_const(o, s) /\ r.next = "GOT_PC_LO12" /\ r.ok

\* Whether shrink_section removes bytes at the relocation.
shrink_section(o, s, r, has) ==
  /\ o.relax /\ r.ok
  /\ \/ r.type \in {"TLS_LE_HI20_R", "TLS_LE_ADD_R"} /\ r.near
     \/ r.type = "PCALA_HI20" /\ r.next = "PCALA_LO12" /\ r.near /\ ~is_absolute(s)
     \/ r.type = "CALL36" /\ r.near /\ ~is_absolute(s)
     \/ r.type = "GOT_PC_HI20" /\ is_relaxable_got_load(o, s, r) /\ r.near /\ ~is_absolute(s)
     \/ r.type = "TLS_DESC_PC_HI20" /\ ("TLSDESC" \in has => r.near)
     \/ r.type = "TLS_DESC_PC_LO12" /\ "TLSDESC" \notin has
     \/ r.type = "TLS_DESC_LD" /\ {"TLSDESC", "GOTTP"} \intersect has = {} /\ r.near

\* G is the slot of the TLSGD entry if the symbol has one.
got_idx(has) == IF "TLSGD" \in has THEN "TLSGD" ELSE "GOT"

apply_got(o, s, r, has) ==
  CASE r.type = "GOT_PC_LO12" -> {got_idx(has), "LO"}
    [] r.type = "GOT_PC_HI20" ->
         IF shrink_section(o, s, r, has) \/ (is_relaxable_got_load(o, s, r) /\ ~is_absolute(s))
         THEN {"S", "P", "SKIP"} ELSE {got_idx(has), "P"}
    [] r.type \in Got64PcTypes -> {got_idx(has), "P"}
    [] r.type = "GOT_LO12" -> {got_idx(has), "LO"}
    [] r.type \in GotAbsTypes -> {got_idx(has)}

apply_tls(o, s, r, has) ==
  CASE r.type \in LeTypes -> IF shrink_section(o, s, r, has) THEN {} ELSE {"S", "TP"}
    [] r.type \in {"TLS_IE_PC_LO12", "TLS_IE_LO12"} -> {"GOTTP", "LO"}
    [] r.type \in IePcTypes -> {"GOTTP", "P"}
    [] r.type \in IeAbsTypes -> {"GOTTP"}
    [] r.type \in GdPcTypes -> {"TLSGD", "P"}
    [] r.type \in GdAbsTypes -> {"TLSGD"}
    [] r.type = "TLS_LE_ADD_R" -> {}

\* When the descriptor is near, the low part alone holds the whole distance.
apply_tlsdesc(o, s, r, has) ==
  CASE r.type = "TLS_DESC_PC_HI20" ->
         IF "TLSDESC" \in has /\ ~shrink_section(o, s, r, has) THEN {"TLSDESC", "P"} ELSE {}
    [] r.type = "TLS_DESC_PC_LO12" ->
         IF "TLSDESC" \notin has THEN {} ELSE IF r.near THEN {"TLSDESC", "P"} ELSE {"TLSDESC", "LO"}
    [] r.type = "TLS_DESC_LD" ->
         IF "TLSDESC" \in has \/ shrink_section(o, s, r, has) THEN {}
         ELSE IF "GOTTP" \in has THEN {"GOTTP", "P"} ELSE {"S", "TP"}
    [] r.type = "TLS_DESC_CALL" ->
         IF "TLSDESC" \in has THEN {"CALLDESC"}
         ELSE IF "GOTTP" \in has THEN {"GOTTP", "LO"} ELSE {"S", "TP"}

\* R_LARCH_32 asserts a 64-bit target although a 32-bit one stores pointers
\* with it.
apply_reloc_alloc(o, s, r, has) ==
  CASE r.type \in MarkTypes \union {"64"} -> {}
    [] r.type = "32" -> IF is_64 THEN {"S"} ELSE {"S", "ASSERT"}
    [] r.type \in {"B16", "B21", "B26", "CALL36", "32_PCREL", "64_PCREL"} \union Pcala64Types -> {"S", "P"}
    [] r.type \in AbsTypes -> {"S"}
    [] r.type = "PCALA_LO12" -> {"S", "LO"}
    [] r.type = "PCALA_HI20" -> IF shrink_section(o, s, r, has) THEN {"S", "P", "SKIP"} ELSE {"S", "P"}
    [] r.type \in {"GOT_PC_LO12", "GOT_PC_HI20"} \union Got64PcTypes \union GotAbsTypes -> apply_got(o, s, r, has)
    [] r.type \in DescTypes -> apply_tlsdesc(o, s, r, has)
    [] r.type \in DiffTypes -> {"S", "DIFF"}
    [] OTHER -> apply_tls(o, s, r, has)

apply_reloc_nonalloc(r) ==
  CASE r.type \in {"32", "64"} -> {"S"}
    [] r.type \in {"TLS_DTPREL32", "TLS_DTPREL64"} -> {"S", "DTP"}
    [] r.type \in DiffTypes -> {"S", "DIFF"}
    [] OTHER -> {"FATAL"}

apply_eh_reloc(r) ==
  CASE r.type \in DiffTypes \ {"ADD_ULEB128", "SUB_ULEB128"} -> {"S", "DIFF"}
    [] r.type \in {"32_PCREL", "64_PCREL"} -> {"S", "P"}
    [] OTHER -> {"FATAL"}

write_plt_header(o) == {"GOTBASE", "P"}
write_plt_entry(o) == {"GOTPLT", "P"}
write_pltgot_entry(o) == {"GOT", "P"}

TlsSequences ==
  {<<h, "GOT_PC_LO12">> : h \in GdPcTypes} \union {<<h, "GOT_LO12">> : h \in GdAbsTypes}
    \union { <<"TLS_IE_PC_HI20", "TLS_IE_PC_LO12">>, <<"TLS_IE_HI20", "TLS_IE_LO12">>,
             <<"TLS_IE_PC_HI20", "TLS_IE_PC_LO12", "TLS_IE64_PC_LO20", "TLS_IE64_PC_HI12">>,
             <<"TLS_IE_HI20", "TLS_IE_LO12", "TLS_IE64_LO20", "TLS_IE64_HI12">>,
             <<"TLS_LE_HI20", "TLS_LE_LO12", "TLS_LE64_LO20", "TLS_LE64_HI12">>,
             <<"TLS_LE_HI20_R", "TLS_LE_ADD_R", "TLS_LE_LO12_R">>,
             <<"TLS_DESC_PC_HI20", "TLS_DESC_PC_LO12", "TLS_DESC_LD", "TLS_DESC_CALL">> }
AddressSequences ==
  {<<t>> : t \in DiffTypes \union MarkTypes \union {"32", "64", "B16", "B21", "B26", "CALL36", "32_PCREL", "64_PCREL"}}
    \union { <<"PCALA_HI20", "PCALA_LO12">>, <<"PCALA_HI20", "PCALA_LO12", "PCALA64_LO20", "PCALA64_HI12">>,
             <<"ABS_HI20", "ABS_LO12", "ABS64_LO20", "ABS64_HI12">>,
             <<"GOT_PC_HI20", "GOT_PC_LO12">>, <<"GOT_PC_HI20", "GOT_PC_LO12", "GOT64_PC_LO20", "GOT64_PC_HI12">>,
             <<"GOT_HI20", "GOT_LO12", "GOT64_LO20", "GOT64_HI12">> }
=============================================================================
