------------------------------- MODULE ArchSh4 ------------------------------
(***************************************************************************)
(* Relocations of SH-4 (arch-sh4.cc).  See RelocCommon for the words.      *)
(***************************************************************************)
EXTENDS RelocCommon

scan_relocations(o, s, r) ==
  (IF is_ifunc(s) THEN {"ERROR"} ELSE {}) \union
  CASE r.type = "REL32" -> scan_pcrel(o, s)
    [] r.type = "GOT32" -> {"GOT"}
    [] r.type = "PLT32" -> scan_call(s)
    [] r.type = "TLS_GD_32" -> {"TLSGD"}
    [] r.type = "TLS_LD_32" -> {"TLSLD"}
    [] r.type = "TLS_IE_32" -> {"GOTTP"}
    [] r.type = "TLS_LE_32" -> check_tlsle(o)
    [] r.type \in {"DIR32", "GOTPC", "GOTOFF", "TLS_LDO_32"} -> {}
    [] OTHER -> {"FATAL"}

apply_reloc_alloc(o, s, r, has) ==
  CASE r.type = "DIR32" -> {}
    [] r.type \in {"REL32", "PLT32"} -> {"S", "P"}
    [] r.type = "GOT32" -> {"GOT", "GP"}
    [] r.type = "GOTPC" -> {"GOTBASE", "P"}
    [] r.type = "GOTOFF" -> {"S", "GP"}
    [] r.type = "TLS_GD_32" -> {"TLSGD", "GP"}
    [] r.type = "TLS_LD_32" -> {"TLSLD", "GP"}
    [] r.type = "TLS_LDO_32" -> {"S", "DTP"}
    [] r.type = "TLS_IE_32" -> {"GOTTP", "GP"}
    [] r.type = "TLS_LE_32" -> {"S", "TP"}

apply_reloc_nonalloc(r) ==
  CASE r.type = "DIR32" -> {"S"}
    [] r.type = "TLS_LDO_32" -> {"S", "DTP"}
    [] OTHER -> {"FATAL"}

apply_eh_reloc(r) ==
  CASE r.type = "DIR32" -> {"S"}
    [] r.type = "REL32" -> {"S", "P"}
    [] OTHER -> {"FATAL"}

\* Position-independent entries find their slot through r12, which holds the
\* address of .got.
write_plt_header(o) == IF pic(o) THEN {"GOTBASE", "GP"} ELSE {"GOTBASE"}
write_plt_entry(o) == IF pic(o) THEN {"GOTPLT", "GP"} ELSE {"GOTPLT"}
write_pltgot_entry(o) == IF pic(o) THEN {"GOT", "GP"} ELSE {"GOT"}

TlsSequences ==
  {<<"TLS_GD_32">>, <<"TLS_LD_32", "TLS_LDO_32">>, <<"TLS_IE_32">>, <<"TLS_LE_32">>}
AddressSequences ==
  {<<t>> : t \in {"DIR32", "REL32", "PLT32", "GOT32", "GOTPC", "GOTOFF"}}
=============================================================================
