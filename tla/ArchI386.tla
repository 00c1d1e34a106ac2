------------------------------ MODULE ArchI386 ------------------------------
(***************************************************************************)
(* Relocations of i386 (arch-i386.cc).  See RelocCommon for the words.     *)
(***************************************************************************)
EXTENDS RelocCommon

AbsTypes == {"8", "16"}
PcTypes == {"PC8", "PC16", "PC32"}

\* __tls_get_addr may be called through any of these.
CallTypes == {"PLT32", "PC32", "GOT32", "GOT32X"}

\* Whether the instruction is one of those listed by the function.
relax_got32x(r) == r.ok
relax_tlsdesc_to_ie(r) == r.ok
relax_tlsdesc_to_le(r) == r.ok

scan_relocations(o, s, r) ==
  scan_ifunc(s) \union
  CASE r.type \in {"TLS_GD", "TLS_LDM"} /\ r.next \notin CallTypes -> {"FATAL"}
    [] r.type \in AbsTypes -> scan_absrel(o, s)
    [] r.type \in PcTypes -> scan_pcrel(o, s)
    [] r.type \in {"GOT32", "GOTPC"} -> {"GOT"}
    [] r.type = "GOT32X" ->
         IF is_pcrel_linktime_const(o, s) /\ relax_got32x(r) THEN {} ELSE {"GOT"}
    [] r.type = "PLT32" -> scan_call(s)
    [] r.type \in {"TLS_GOTIE", "TLS_IE"} -> {"GOTTP"}
    [] r.type = "TLS_GD" -> IF relaxes_to_le(o, s) THEN {"SKIP"} ELSE {"TLSGD"}
    [] r.type = "TLS_LDM" ->
         IF o.static \/ (o.relax /\ ~o.shared) THEN {"SKIP"} ELSE {"TLSLD"}
    [] r.type = "TLS_GOTDESC" -> scan_tlsdesc(o, s)
    [] r.type = "TLS_LE" -> check_tlsle(o)
    [] r.type \in {"32", "GOTOFF", "TLS_LDO_32", "SIZE32", "TLS_DESC_CALL"} -> {}
    [] OTHER -> {"ERROR"}

\* These rewrite the call of ___tls_get_addr as well.
relax_gd_to_le == {"S", "TP", "SKIP"}
relax_ld_to_le == {"TP", "TLSBEGIN", "SKIP"}

apply_tls(o, s, r, has) ==
  CASE r.type = "TLS_GOTIE" -> {"GOTTP", "GP"}
    [] r.type = "TLS_LE" -> {"S", "TP"}
    [] r.type = "TLS_IE" -> {"GOTTP"}
    [] r.type = "TLS_GD" -> IF "TLSGD" \in has THEN {"TLSGD", "GP"} ELSE relax_gd_to_le
    [] r.type = "TLS_LDM" -> IF "TLSLD" \in has THEN {"TLSLD", "GP"} ELSE relax_ld_to_le
    [] r.type = "TLS_LDO_32" -> {"S", "DTP"}
    [] r.type = "TLS_GOTDESC" ->
         IF "TLSDESC" \in has THEN {"TLSDESC", "GP"}
         ELSE IF "GOTTP" \in has
         THEN IF relax_tlsdesc_to_ie(r) THEN {"GOTTP", "GP"} ELSE {"FATAL"}
         ELSE IF relax_tlsdesc_to_le(r) THEN {"S", "TP"} ELSE {"FATAL"}
    [] r.type = "TLS_DESC_CALL" -> IF "TLSDESC" \in has THEN {"CALLDESC"} ELSE {}

apply_reloc_alloc(o, s, r, has) ==
  CASE r.type = "32" -> {}
    [] r.type \in AbsTypes -> {"S"}
    [] r.type \in PcTypes \union {"PLT32"} -> {"S", "P"}
    [] r.type = "GOT32" -> {"GOT", "GP"}
    [] r.type = "GOT32X" -> IF "GOT" \in has THEN {"GOT", "GP"} ELSE {"S", "GP"}
    [] r.type = "GOTOFF" -> {"S", "GP"}
    [] r.type = "GOTPC" -> {"GOTBASE", "P"}
    [] r.type = "SIZE32" -> {"SIZE"}
    [] OTHER -> apply_tls(o, s, r, has)

\* The default case is unreachable() rather than an error message.
apply_reloc_nonalloc(r) ==
  CASE r.type \in AbsTypes \union {"32"} -> {"S"}
    [] r.type \in PcTypes -> {"S", "P"}
    [] r.type = "GOTPC" -> {"GOTBASE"}
    [] r.type = "GOTOFF" -> {"S", "GP"}
    [] r.type = "TLS_LDO_32" -> {"S", "DTP"}
    [] r.type = "SIZE32" -> {"SIZE"}
    [] OTHER -> {"UNREACHABLE"}

apply_eh_reloc(r) ==
  CASE r.type = "32" -> {"S"}
    [] r.type = "PC32" -> {"S", "P"}
    [] OTHER -> {"FATAL"}

\* Position-independent entries find their slot through ebx, which holds the
\* address of .got.
write_plt_header(o) == IF pic(o) THEN {"GOTBASE", "GP"} ELSE {"GOTBASE"}
write_plt_entry(o) == IF pic(o) THEN {"GOTPLT", "GP"} ELSE {"GOTPLT"}
write_pltgot_entry(o) == IF pic(o) THEN {"GOT", "GP"} ELSE {"GOT"}

\* The three accesses to a variable of a TLS model that take several
\* relocations, and the other types.
TlsSequences ==
  {<<"TLS_GD", c>> : c \in CallTypes} \union {<<"TLS_LDM", c, "TLS_LDO_32">> : c \in CallTypes}
    \union {<<"TLS_GOTDESC", "TLS_DESC_CALL">>, <<"TLS_GOTIE">>, <<"TLS_IE">>, <<"TLS_LE">>}
AddressSequences ==
  {<<t>> : t \in AbsTypes \union PcTypes \union
                 {"GOT32", "GOT32X", "GOTPC", "PLT32", "32", "GOTOFF", "SIZE32"}}
=============================================================================
