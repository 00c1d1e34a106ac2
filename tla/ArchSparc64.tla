---------------------------- MODULE ArchSparc64 -----------------------------
(***************************************************************************)
(* Relocations of SPARC V9 (arch-sparc64.cc).  See RelocCommon for the     *)
(* words; "TGA" is the PLT entry of __tls_get_addr as a request and its    *)
(* address as a term, since SPARC's calls of it have no relocation.        *)
(***************************************************************************)
EXTENDS RelocCommon

LoTypes == {"LO10", "OLO10", "LOX10", "L44"}
AbsTypes == {"8", "5", "6", "7", "10", "11", "13", "16", "22", "32", "REGISTER", "UA16", "UA32",
             "HM10", "M44", "HIX22", "LM22", "HI22", "H44", "HH22"} \union LoTypes
PltAbsTypes == {"PLT32", "HIPLT22", "LOPLT10", "PLT64"}
PltPcTypes == {"WPLT30", "WDISP30", "PCPLT32", "PCPLT22", "PCPLT10"}
PcTypes == {"DISP16", "DISP32", "DISP64", "DISP8", "PC10", "PC22", "PC_LM22",
            "WDISP16", "WDISP19", "WDISP22", "PC_HH22"}
GotTypes == {"GOT13", "GOT10", "GOT22"}
OpTypes == {"GOTDATA_OP_HIX22", "GOTDATA_OP_LOX10"}
MarkTypes == {"TLS_LDO_ADD", "TLS_IE_LD", "TLS_IE_LDX", "TLS_IE_ADD"}

scan_reloc(o, s, r) ==
  CASE r.type \in AbsTypes \union {"PC_HM10"} -> scan_absrel(o, s)
    [] r.type \in PltAbsTypes \union PltPcTypes -> scan_call(s)
    [] r.type \in GotTypes \union {"GOTDATA_HIX22"} -> {"GOT"}
    [] r.type = "GOTDATA_OP_HIX22" -> IF s.imported THEN {"GOT"} ELSE {}
    [] r.type \in PcTypes -> scan_pcrel(o, s)
    [] r.type = "TLS_GD_HI22" ->
         IF relaxes_to_le(o, s) THEN {}
         ELSE IF relaxes_to_ie(o, s) THEN {"GOTTP"} ELSE {"TLSGD"}
    [] r.type = "TLS_LDM_HI22" ->
         IF o.static \/ (o.relax /\ ~o.shared) THEN {} ELSE {"TLSLD"}
    [] r.type = "TLS_IE_HI22" -> {"GOTTP"}
    [] r.type \in {"TLS_LE_HIX22", "TLS_LE_LOX10"} -> check_tlsle(o)
    [] r.type \in {"64", "UA64", "GOTDATA_OP_LOX10", "GOTDATA_OP", "GOTDATA_LOX10", "TLS_GD_LO10",
                   "TLS_GD_ADD", "TLS_GD_CALL", "TLS_LDM_LO10", "TLS_LDM_ADD", "TLS_LDM_CALL",
                   "TLS_LDO_HIX22", "TLS_LDO_LOX10", "TLS_IE_LO10", "SIZE32"} \union MarkTypes -> {}
    [] OTHER -> {"ERROR"}

\* After the loop, __tls_get_addr gets a PLT entry if it is imported and called.
scan_relocations(o, s, r) ==
  LET req == scan_ifunc(s) \union scan_reloc(o, s, r)
  IN  IF ~o.static /\ req \intersect {"TLSGD", "TLSLD"} /= {} THEN req \union {"TGA"} ELSE req

apply_tls_gd(r, has) ==
  CASE r.type \in {"TLS_GD_HI22", "TLS_GD_LO10"} ->
         IF "TLSGD" \in has THEN {"TLSGD", "GP"}
         ELSE IF "GOTTP" \in has THEN {"GOTTP", "GP"} ELSE {"S", "TP"}
    [] r.type = "TLS_GD_ADD" -> {}
    [] r.type = "TLS_GD_CALL" -> IF "TLSGD" \in has THEN {"TGA", "P"} ELSE {}

apply_tls_ld(r, has) ==
  CASE r.type \in {"TLS_LDM_HI22", "TLS_LDM_LO10"} ->
         IF "TLSLD" \in has THEN {"TLSLD", "GP"} ELSE {"TLSBEGIN", "TP"}
    [] r.type = "TLS_LDM_ADD" -> {}
    [] r.type = "TLS_LDM_CALL" -> IF "TLSLD" \in has THEN {"TGA", "P"} ELSE {}
    [] r.type \in {"TLS_LDO_HIX22", "TLS_LDO_LOX10"} -> {"S", "DTP"}

apply_tls(r, has) ==
  CASE r.type \in {"TLS_GD_HI22", "TLS_GD_LO10", "TLS_GD_ADD", "TLS_GD_CALL"} -> apply_tls_gd(r, has)
    [] r.type \in {"TLS_IE_HI22", "TLS_IE_LO10"} -> {"GOTTP", "GP"}
    [] r.type \in {"TLS_LE_HIX22", "TLS_LE_LOX10"} -> {"S", "TP"}
    [] r.type \in MarkTypes -> {}
    [] OTHER -> apply_tls_ld(r, has)

\* A GOT load of a constant becomes a computation of it.
apply_gotdata_op(o, s) ==
  CASE is_absolute(s) -> {"S"}
    [] ~is_absolute(s) /\ is_pcrel_linktime_const(o, s) -> {"S", "GP"}
    [] OTHER -> {"GOT", "GP"}

apply_reloc_alloc(o, s, r, has) ==
  CASE r.type \in {"64", "UA64", "GOTDATA_OP"} -> {}
    [] r.type \in LoTypes \union {"LOPLT10"} -> {"S", "LO"}
    [] r.type \in (AbsTypes \ LoTypes) \union (PltAbsTypes \ {"LOPLT10"}) -> {"S"}
    [] r.type \in PcTypes \union PltPcTypes \union {"PC_HM10"} -> {"S", "P"}
    [] r.type \in GotTypes -> {"GOT", "GP"}
    [] r.type \in {"GOTDATA_HIX22", "GOTDATA_LOX10"} -> {"S", "GP"}
    [] r.type \in OpTypes -> apply_gotdata_op(o, s)
    [] r.type = "SIZE32" -> {"SIZE"}
    [] OTHER -> apply_tls(r, has)

apply_reloc_nonalloc(r) ==
  CASE r.type \in {"64", "UA64", "32", "UA32"} -> {"S"}
    [] r.type \in {"TLS_DTPOFF32", "TLS_DTPOFF64"} -> {"S", "DTP"}
    [] OTHER -> {"FATAL"}

apply_eh_reloc(r) ==
  CASE r.type \in {"64", "UA64"} -> {"S"}
    [] r.type = "DISP32" -> {"S", "P"}
    [] OTHER -> {"FATAL"}

\* The dynamic linker rewrites the entries of .plt; they need no slot.
write_plt_header(o) == {}
write_plt_entry(o) == {}
write_pltgot_entry(o) == {"GOT", "P"}

TlsSequences ==
  { <<"TLS_GD_HI22", "TLS_GD_LO10", "TLS_GD_ADD", "TLS_GD_CALL">>,
    <<"TLS_LDM_HI22", "TLS_LDM_LO10", "TLS_LDM_ADD", "TLS_LDM_CALL", "TLS_LDO_HIX22", "TLS_LDO_LOX10", "TLS_LDO_ADD">>,
    <<"TLS_IE_HI22", "TLS_IE_LO10", "TLS_IE_LDX", "TLS_IE_ADD">>, <<"TLS_IE_HI22", "TLS_IE_LO10", "TLS_IE_LD", "TLS_IE_ADD">>,
    <<"TLS_LE_HIX22", "TLS_LE_LOX10">> }
AddressSequences ==
  {<<t>> : t \in {"64", "UA64", "SIZE32", "GOT13"} \union (AbsTypes \ LoTypes) \union PltPcTypes \union PcTypes \union PltAbsTypes}
    \union { <<"HI22", "LO10">>, <<"HI22", "OLO10">>, <<"HIX22", "LOX10">>, <<"HH22", "HM10", "LM22", "LO10">>,
             <<"H44", "M44", "L44">>, <<"PC22", "PC10">>, <<"PC_HH22", "PC_HM10", "PC_LM22", "PC10">>,
             <<"GOT22", "GOT10">>, <<"GOTDATA_HIX22", "GOTDATA_LOX10">>,
             <<"GOTDATA_OP_HIX22", "GOTDATA_OP_LOX10", "GOTDATA_OP">> }
=============================================================================
