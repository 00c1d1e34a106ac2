---------------------------- MODULE ArchPpc64v2 -----------------------------
(***************************************************************************)
(* Relocations of 64-bit PowerPC with the ELFv2 ABI (arch-ppc64v2.cc).     *)
(* See RelocCommon for the words.                                          *)
(***************************************************************************)
EXTENDS RelocCommon

TocTypes == {"TOC16_HA", "TOC16_LO", "TOC16_DS", "TOC16_LO_DS"}
GotTypes == {"GOT16", "GOT16_LO", "GOT16_HI", "GOT16_HA"}
PltTypes == {"PLT16_HA", "PLT16_HI", "PLT16_LO", "PLT16_LO_DS"}
GotPcTypes == {"PLT_PCREL34", "PLT_PCREL34_NOTOC", "GOT_PCREL34"}
CallTypes == {"REL24", "REL24_NOTOC"}
PcTypes == {"REL14", "REL32", "REL64", "REL16_HA", "REL16_LO", "PCREL34"}
GdTypes == {"GOT_TLSGD16_HA", "GOT_TLSGD16_LO"}
LdTypes == {"GOT_TLSLD16_HA", "GOT_TLSLD16_LO"}
IeTypes == {"GOT_TPREL16_HA", "GOT_TPREL16_LO_DS"}
LeTypes == {"TPREL16_HA", "TPREL16_LO", "TPREL16_LO_DS", "TPREL34"}
DtpTypes == {"DTPREL16_HA", "DTPREL16_LO", "DTPREL16_LO_DS", "DTPREL34"}
MarkTypes == {"PLTSEQ", "PLTSEQ_NOTOC", "PLTCALL", "PLTCALL_NOTOC", "TLS", "TLSGD", "TLSLD", "ENTRY"}

\* An R_PPC64_REL24_NOTOC also records that the thunks may be Power10 code.
scan_relocations(o, s, r) ==
  (IF is_ifunc(s) THEN {"GOT", "PLT"} ELSE {}) \union
  CASE r.type \in {"GOT_TPREL16_HA", "GOT_TPREL_PCREL34"} -> {"GOTTP"}
    [] r.type \in CallTypes -> scan_call(s)
    [] r.type \in GotTypes \union GotPcTypes \union {"PLT16_HA"} -> {"GOT"}
    [] r.type \in {"GOT_TLSGD16_HA", "GOT_TLSGD_PCREL34"} -> {"TLSGD"}
    [] r.type \in {"GOT_TLSLD16_HA", "GOT_TLSLD_PCREL34"} -> {"TLSLD"}
    [] r.type \in {"TPREL16_HA", "TPREL34"} -> check_tlsle(o)
    [] r.type \in {"ADDR64", "GOT_TPREL16_LO_DS", "GOT_TLSGD16_LO", "GOT_TLSLD16_LO",
                   "TPREL16_LO", "TPREL16_LO_DS"}
                  \union TocTypes \union (PltTypes \ {"PLT16_HA"}) \union PcTypes
                  \union DtpTypes \union MarkTypes -> {}
    [] OTHER -> {"ERROR"}

\* The R_PPC64_GOT16 family does not add the address of .got to G.
apply_reloc_alloc(o, s, r, has) ==
  CASE r.type \in {"ADDR64"} \union MarkTypes -> {}
    [] r.type \in TocTypes -> {"S", "TOC"}
    [] r.type \in PcTypes \union CallTypes -> {"S", "P"}
    [] r.type \in GotTypes -> {"GOT", "GP", "TOC"}
    [] r.type \in PltTypes -> {"GOT", "TOC"}
    [] r.type \in GotPcTypes -> {"GOT", "P"}
    [] r.type \in IeTypes -> {"GOTTP", "TOC"}
    [] r.type = "GOT_TPREL_PCREL34" -> {"GOTTP", "P"}
    [] r.type \in GdTypes -> {"TLSGD", "TOC"}
    [] r.type = "GOT_TLSGD_PCREL34" -> {"TLSGD", "P"}
    [] r.type \in LdTypes -> {"TLSLD", "TOC"}
    [] r.type = "GOT_TLSLD_PCREL34" -> {"TLSLD", "P"}
    [] r.type \in DtpTypes -> {"S", "DTP"}
    [] r.type \in LeTypes -> {"S", "TP"}

apply_reloc_nonalloc(r) ==
  CASE r.type \in {"ADDR64", "ADDR32"} -> {"S"}
    [] r.type = "DTPREL64" -> {"S", "DTP"}
    [] OTHER -> {"FATAL"}

apply_eh_reloc(r) ==
  CASE r.type = "ADDR64" -> {"S"}
    [] r.type \in {"REL32", "REL64"} -> {"S", "P"}
    [] OTHER -> {"FATAL"}

\* The caller's TOC register is only live when no caller is Power10 code.
thunk_copy_buf(has, is_power10) ==
  { IF "PLT" \notin has THEN "S" ELSE IF "GOT" \in has THEN "GOT" ELSE "GOTPLT",
    IF is_power10 THEN "P" ELSE "TOC" }

\* Entries of .plt number the symbol for the resolver; .plt.got has none.
write_plt_header(o) == {"GOTBASE", "P"}
write_plt_entry(o) == {}
write_pltgot_entry(o) == {}

TlsSequences ==
  { <<"GOT_TLSGD16_HA", "GOT_TLSGD16_LO", "TLSGD", "REL24">>,
    <<"GOT_TLSGD_PCREL34", "TLSGD", "REL24_NOTOC">>,
    <<"GOT_TLSLD16_HA", "GOT_TLSLD16_LO", "TLSLD", "REL24", "DTPREL16_HA", "DTPREL16_LO">>,
    <<"GOT_TLSLD_PCREL34", "TLSLD", "REL24_NOTOC", "DTPREL34">>,
    <<"GOT_TPREL16_HA", "GOT_TPREL16_LO_DS", "TLS">>, <<"GOT_TPREL_PCREL34", "TLS">>,
    <<"TPREL16_HA", "TPREL16_LO">>, <<"TPREL16_HA", "TPREL16_LO_DS">>, <<"TPREL34">>,
    <<"DTPREL16_HA", "DTPREL16_LO_DS">> }
AddressSequences ==
  {<<t>> : t \in {"ADDR64", "REL24", "REL24_NOTOC", "REL14", "REL32", "REL64", "PCREL34", "TOC16_DS",
                  "GOT16", "GOT_PCREL34", "PLT_PCREL34", "ENTRY"}}
    \union { <<"TOC16_HA", "TOC16_LO">>, <<"TOC16_HA", "TOC16_LO_DS">>, <<"REL16_HA", "REL16_LO">>,
             <<"GOT16_HA", "GOT16_LO">>, <<"GOT16_HI", "GOT16_LO">>,
             <<"PLT16_HA", "PLT16_LO_DS", "PLTSEQ", "PLTCALL">>, <<"PLT16_HA", "PLT16_HI">>,
             <<"PLT16_HA", "PLT16_LO">>, <<"PLT_PCREL34_NOTOC", "PLTSEQ_NOTOC", "PLTCALL_NOTOC">> }
=============================================================================
