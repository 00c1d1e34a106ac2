---------------------------- MODULE ArchPpc64v1 -----------------------------
(***************************************************************************)
(* Relocations and function descriptors of big-endian 64-bit PowerPC       *)
(* (arch-ppc64v1.cc).  See RelocCommon for the words.                      *)
(***************************************************************************)
EXTENDS RelocCommon

TocTypes == {"TOC16_HA", "TOC16_LO", "TOC16_DS", "TOC16_LO_DS"}
PltTypes == {"PLT16_HA", "PLT16_HI", "PLT16_LO", "PLT16_LO_DS"}
PcTypes == {"REL32", "REL64", "REL16_HA", "REL16_LO"}
GdTypes == {"GOT_TLSGD16_HA", "GOT_TLSGD16_LO"}
LdTypes == {"GOT_TLSLD16_HA", "GOT_TLSLD16_LO"}
IeTypes == {"GOT_TPREL16_HA", "GOT_TPREL16_LO_DS"}
LeTypes == {"TPREL16_HA", "TPREL16_LO", "TPREL16_LO_DS"}
DtpTypes == {"DTPREL16_HA", "DTPREL16_LO", "DTPREL16_LO_DS"}
MarkTypes == {"PLTSEQ", "PLTCALL", "TLS", "TLSGD", "TLSLD"}

\* A function whose address is taken needs a descriptor.
scan_opd(s, r) ==
  (IF is_ifunc(s) THEN {"GOT", "PLT", "OPD"} ELSE {}) \union
  (IF r.type /= "REL24" /\ s.type = "FUNC" THEN {"OPD"} ELSE {})

scan_relocations(o, s, r) ==
  scan_opd(s, r) \union
  CASE r.type = "GOT_TPREL16_HA" -> {"GOTTP"}
    [] r.type = "REL24" -> scan_call(s)
    [] r.type \in {"GOT16", "PLT16_HA"} -> {"GOT"}
    [] r.type = "GOT_TLSGD16_HA" -> {"TLSGD"}
    [] r.type = "GOT_TLSLD16_HA" -> {"TLSLD"}
    [] r.type \in LeTypes -> check_tlsle(o)
    [] r.type \in {"ADDR64", "TOC", "GOT_TPREL16_LO_DS", "GOT_TLSGD16_LO", "GOT_TLSLD16_LO"}
                  \union TocTypes \union (PltTypes \ {"PLT16_HA"}) \union PcTypes
                  \union DtpTypes \union MarkTypes -> {}
    [] OTHER -> {"ERROR"}

\* G is an offset within .got.  R_PPC64_GOT16 does not add the address of .got
\* to it; every other use does.
apply_reloc_alloc(o, s, r, has) ==
  CASE r.type \in {"TOC", "ADDR64"} \union MarkTypes -> {}
    [] r.type \in TocTypes -> {"S", "TOC"}
    [] r.type \in PcTypes \union {"REL24"} -> {"S", "P"}
    [] r.type = "GOT16" -> {"GOT", "GP", "TOC"}
    [] r.type \in PltTypes -> {"GOT", "TOC"}
    [] r.type \in IeTypes -> {"GOTTP", "TOC"}
    [] r.type \in GdTypes -> {"TLSGD", "TOC"}
    [] r.type \in LdTypes -> {"TLSLD", "TOC"}
    [] r.type \in DtpTypes -> {"S", "DTP"}
    [] r.type \in LeTypes -> {"S", "TP"}

apply_reloc_nonalloc(r) ==
  CASE r.type \in {"ADDR64", "ADDR32"} -> {"S"}
    [] r.type = "DTPREL64" -> {"S", "DTP"}
    [] OTHER -> {"FATAL"}

apply_eh_reloc(r) ==
  CASE r.type = "ADDR64" -> {"S"}
    [] r.type \in {"REL32", "REL64"} -> {"S", "P"}
    [] OTHER -> {"FATAL"}

\* A call loads the descriptor through the GOT, or finds it in .got.plt.
thunk_copy_buf(has) ==
  IF "GOT" \in has THEN {"GOT", "TOC"} ELSE IF "PLT" \in has THEN {"GOTPLT", "TOC"} ELSE {"S", "TOC"}

\* Entries of .plt number the symbol for the resolver; .plt.got has none.
write_plt_header(o) == {"GOTBASE", "P"}
write_plt_entry(o) == {}
write_pltgot_entry(o) == {}

TlsSequences ==
  { <<"GOT_TLSGD16_HA", "GOT_TLSGD16_LO", "TLSGD", "REL24">>,
    <<"GOT_TLSLD16_HA", "GOT_TLSLD16_LO", "TLSLD", "REL24", "DTPREL16_HA", "DTPREL16_LO">>,
    <<"GOT_TPREL16_HA", "GOT_TPREL16_LO_DS", "TLS">>, <<"TPREL16_HA", "TPREL16_LO">>,
    <<"TPREL16_HA", "TPREL16_LO_DS">>, <<"DTPREL16_HA", "DTPREL16_LO_DS">> }
AddressSequences ==
  {<<t>> : t \in {"ADDR64", "TOC", "REL24", "REL32", "REL64", "GOT16", "TOC16_DS"}}
    \union { <<"TOC16_HA", "TOC16_LO">>, <<"TOC16_HA", "TOC16_LO_DS">>, <<"REL16_HA", "REL16_LO">>,
             <<"PLT16_HA", "PLT16_LO">>, <<"PLT16_HA", "PLT16_LO_DS", "PLTSEQ", "PLTCALL">>,
             <<"PLT16_HA", "PLT16_HI">> }
=============================================================================
