------------------------------ MODULE ArchM68k ------------------------------
(***************************************************************************)
(* Relocations of m68k (arch-m68k.cc).  See RelocCommon for the words.     *)
(***************************************************************************)
EXTENDS RelocCommon

AbsTypes == {"16", "8"}
PcTypes == {"PC32", "PC16", "PC8"}
GotPcTypes == {"GOTPCREL32", "GOTPCREL16", "GOTPCREL8"}
GotTypes == {"GOTOFF32", "GOTOFF16", "GOTOFF8"}
PltTypes == {"PLT32", "PLT16", "PLT8"}
GdTypes == {"TLS_GD32", "TLS_GD16", "TLS_GD8"}
LdmTypes == {"TLS_LDM32", "TLS_LDM16", "TLS_LDM8"}
LdoTypes == {"TLS_LDO32", "TLS_LDO16", "TLS_LDO8"}
IeTypes == {"TLS_IE32", "TLS_IE16", "TLS_IE8"}
LeTypes == {"TLS_LE32", "TLS_LE16", "TLS_LE8"}

scan_relocations(o, s, r) ==
  (IF is_ifunc(s) THEN {"ERROR"} ELSE {}) \union
  CASE r.type \in AbsTypes -> scan_absrel(o, s)
    [] r.type \in PcTypes -> scan_pcrel(o, s)
    [] r.type \in GotPcTypes \union GotTypes -> {"GOT"}
    [] r.type \in PltTypes -> scan_call(s)
    [] r.type \in GdTypes -> {"TLSGD"}
    [] r.type \in LdmTypes -> {"TLSLD"}
    [] r.type \in IeTypes -> {"GOTTP"}
    [] r.type \in LeTypes -> check_tlsle(o)
    [] r.type \in {"32"} \union LdoTypes -> {}
    [] OTHER -> {"ERROR"}

apply_reloc_alloc(o, s, r, has) ==
  CASE r.type = "32" -> {}
    [] r.type \in AbsTypes -> {"S"}
    [] r.type \in PcTypes \union PltTypes -> {"S", "P"}
    [] r.type \in GotPcTypes -> {"GOTBASE", "P"}
    [] r.type \in GotTypes -> {"GOT", "GP"}
    [] r.type \in GdTypes -> {"TLSGD", "GP"}
    [] r.type \in LdmTypes -> {"TLSLD", "GP"}
    [] r.type \in LdoTypes -> {"S", "DTP"}
    [] r.type \in IeTypes -> {"GOTTP", "GP"}
    [] r.type \in LeTypes -> {"S", "TP"}

apply_reloc_nonalloc(r) ==
  CASE r.type = "32" -> {"S"}
    [] r.type = "TLS_LDO32" -> {"S", "DTP"}
    [] OTHER -> {"FATAL"}

apply_eh_reloc(r) ==
  CASE r.type = "32" -> {"S"}
    [] r.type = "PC32" -> {"S", "P"}
    [] OTHER -> {"FATAL"}

write_plt_header(o) == {"GOTBASE", "P"}
write_plt_entry(o) == {"GOTPLT", "P"}
write_pltgot_entry(o) == {"GOT", "P"}

TlsSequences ==
  {<<t>> : t \in GdTypes \union IeTypes \union LeTypes} \union {<<m, l>> : m \in LdmTypes, l \in LdoTypes}
AddressSequences ==
  {<<t>> : t \in {"32"} \union AbsTypes \union PcTypes \union GotPcTypes \union GotTypes \union PltTypes}
=============================================================================
