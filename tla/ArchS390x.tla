----------------------------- MODULE ArchS390x ------------------------------
(***************************************************************************)
(* Relocations of s390x (arch-s390x.cc).  See RelocCommon for the words.   *)
(***************************************************************************)
EXTENDS RelocCommon

AbsTypes == {"8", "12", "16", "20", "32"}
PcTypes == {"PC12DBL", "PC16", "PC16DBL", "PC24DBL", "PC32", "PC32DBL", "PC64"}
GotTypes == {"GOT12", "GOT16", "GOT20", "GOT32", "GOT64",
             "GOTPLT12", "GOTPLT16", "GOTPLT20", "GOTPLT32", "GOTPLT64"}
GotOffTypes == {"GOTOFF16", "GOTOFF32", "GOTOFF64"}
PltOffTypes == {"PLTOFF16", "PLTOFF32", "PLTOFF64"}
PltPcTypes == {"PLT12DBL", "PLT16DBL", "PLT24DBL", "PLT32DBL", "PLT64"}

scan_relocations(o, s, r) ==
  scan_ifunc(s) \union
  CASE r.type \in AbsTypes -> scan_absrel(o, s)
    [] r.type \in PcTypes -> scan_pcrel(o, s)
    [] r.type \in GotTypes \union GotOffTypes \union {"GOTPC", "GOTPCDBL", "GOTENT"} -> {"GOT"}
    [] r.type \in PltPcTypes \union PltOffTypes \union {"PLT32"} -> scan_call(s)
    [] r.type \in {"TLS_GOTIE20", "TLS_IEENT"} -> {"GOTTP"}
    [] r.type \in {"TLS_GD32", "TLS_GD64"} ->
         IF relaxes_to_le(o, s) THEN {}
         ELSE IF relaxes_to_ie(o, s) THEN {"GOTTP"} ELSE {"TLSGD"}
    [] r.type \in {"TLS_LDM32", "TLS_LDM64"} ->
         IF o.static \/ (o.relax /\ ~o.shared) THEN {} ELSE {"TLSLD"}
    [] r.type \in {"TLS_LE32", "TLS_LE64"} -> check_tlsle(o)
    [] r.type \in {"64", "TLS_LDO32", "TLS_LDO64", "TLS_GDCALL", "TLS_LDCALL"} -> {}
    [] OTHER -> {"ERROR"}

relax_gotent_AnyLocal(o, s, r) == o.relax /\ ~s.imported /\ ~is_ifunc(s) /\ r.ok

\* The load becomes an address computation if the operands allow it.
relax_gotent(o, s, r) == o.relax /\ is_pcrel_linktime_const(o, s) /\ r.ok

apply_tls(r, has) ==
  CASE r.type \in {"TLS_LE32", "TLS_LE64"} -> {"S", "TP"}
    [] r.type = "TLS_GOTIE20" -> {"GOTTP", "GP"}
    [] r.type = "TLS_IEENT" -> {"GOTTP", "P"}
    [] r.type \in {"TLS_GD32", "TLS_GD64"} ->
         IF "TLSGD" \in has THEN {"TLSGD", "GP"}
         ELSE IF "GOTTP" \in has THEN {"GOTTP", "GP"} ELSE {"S", "TP"}
    [] r.type = "TLS_GDCALL" -> IF "TLSGD" \in has THEN {"CALLDESC"} ELSE {}
    [] r.type \in {"TLS_LDM32", "TLS_LDM64"} ->
         IF "TLSLD" \in has THEN {"TLSLD", "GP"} ELSE {"TLSBEGIN", "TP"}
    [] r.type = "TLS_LDCALL" -> IF "TLSLD" \in has THEN {"CALLDESC"} ELSE {}
    [] r.type \in {"TLS_LDO32", "TLS_LDO64"} -> {"S", "DTP"}

\* R_390_PLT32 is written as R_390_32 is; the other PLT types are PC-relative.
apply_reloc_alloc(o, s, r, has) ==
  CASE r.type = "64" -> {}
    [] r.type \in AbsTypes \union {"PLT32"} -> {"S"}
    [] r.type \in PcTypes \union PltPcTypes -> {"S", "P"}
    [] r.type \in GotTypes -> {"GOT", "GP"}
    [] r.type \in GotOffTypes \union PltOffTypes -> {"S", "GP"}
    [] r.type \in {"GOTPC", "GOTPCDBL"} -> {"GOTBASE", "P"}
    [] r.type = "GOTENT" -> IF relax_gotent(o, s, r) THEN {"S", "P"} ELSE {"GOT", "P"}
    [] OTHER -> apply_tls(r, has)

apply_reloc_nonalloc(r) ==
  CASE r.type \in {"32", "64"} -> {"S"}
    [] r.type = "TLS_LDO64" -> {"S", "DTP"}
    [] OTHER -> {"FATAL"}

apply_eh_reloc(r) ==
  CASE r.type = "64" -> {"S"}
    [] r.type = "PC32" -> {"S", "P"}
    [] OTHER -> {"FATAL"}

write_plt_header(o) == {"GOTBASE", "P"}
write_plt_entry(o) == {"GOTPLT", "P"}
write_pltgot_entry(o) == {"GOT", "P"}

TlsSequences ==
  {<<"TLS_GD32", "TLS_GDCALL">>, <<"TLS_GD64", "TLS_GDCALL">>, <<"TLS_LDM32", "TLS_LDCALL", "TLS_LDO32">>,
   <<"TLS_LDM64", "TLS_LDCALL", "TLS_LDO64">>, <<"TLS_GOTIE20">>, <<"TLS_IEENT">>, <<"TLS_LE32">>, <<"TLS_LE64">>}
AddressSequences ==
  {<<t>> : t \in AbsTypes \union PcTypes \union GotTypes \union GotOffTypes \union PltOffTypes
                 \union PltPcTypes \union {"PLT32", "64", "GOTPC", "GOTPCDBL", "GOTENT"}}
=============================================================================
