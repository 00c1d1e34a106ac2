----------------------------- MODULE ArchX86_64 -----------------------------
(***************************************************************************)
(* Relocations of x86-64 (arch-x86-64.cc).  See RelocCommon for the words. *)
(***************************************************************************)
EXTENDS RelocCommon

AbsTypes == {"8", "16", "32", "32S"}
PcTypes == {"PC8", "PC16", "PC32", "PC64"}
GotTypes == {"GOT32", "GOT64", "GOTPC32", "GOTPC64", "GOTPCREL", "GOTPCREL64"}
GotXTypes == {"GOTPCRELX", "REX_GOTPCRELX", "CODE_4_GOTPCRELX"}
DescTypes == {"GOTPC32_TLSDESC", "CODE_4_GOTPC32_TLSDESC"}

\* __tls_get_addr may be called through any of these.
CallTypes == {"PLT32", "PC32", "PLTOFF64", "GOTPCREL", "GOTPCRELX"}

\* Whether the instruction is one of those listed by the function.
relax_gotpcrelx(r) == r.ok
relax_gottpoff(r) == r.ok
relax_tlsdesc_to_ie(r) == r.ok
relax_tlsdesc_to_le(r) == r.ok

scan_tls(o, s, r) ==
  CASE r.type = "TLSGD" ->
         IF relaxes_to_le(o, s) THEN {"SKIP"}
         ELSE IF relaxes_to_ie(o, s) THEN {"GOTTP", "SKIP"} ELSE {"TLSGD"}
    [] r.type = "TLSLD" ->
         IF o.static \/ (o.relax /\ ~o.shared) THEN {"SKIP"} ELSE {"TLSLD"}
    [] r.type \in {"GOTTPOFF", "CODE_4_GOTTPOFF"} ->
         IF ~o.relax \/ ~is_tprel_linktime_const(o, s) \/ ~relax_gottpoff(r)
         THEN {"GOTTP"} ELSE {}
    [] r.type = "CODE_6_GOTTPOFF" -> {"GOTTP"}
    [] r.type = "TLSDESC_CALL" -> scan_tlsdesc(o, s)
    [] r.type \in {"TPOFF32", "TPOFF64"} -> check_tlsle(o)
    [] r.type \in {"DTPOFF32", "DTPOFF64"} \union DescTypes -> {}
    [] OTHER -> {"ERROR"}

scan_relocations(o, s, r) ==
  scan_ifunc(s) \union
  CASE r.type \in {"TLSGD", "TLSLD"} /\ r.next \notin CallTypes -> {"FATAL"}
    [] r.type \in AbsTypes -> scan_absrel(o, s)
    [] r.type \in PcTypes -> scan_pcrel(o, s)
    [] r.type \in GotTypes \union GotXTypes -> {"GOT"}
    [] r.type \in {"PLT32", "PLTOFF64"} -> scan_call(s)
    [] r.type \in {"64", "GOTOFF64", "SIZE32", "SIZE64"} -> {}
    [] OTHER -> scan_tls(o, s, r)

relax_gd_to_ie_KeepsCall == {"GOTTP", "P"}

\* These rewrite the call of __tls_get_addr as well.
relax_gd_to_le == {"S", "TP", "SKIP"}
relax_gd_to_ie == {"GOTTP", "P", "SKIP"}
relax_ld_to_le == {"TP", "TLSBEGIN", "SKIP"}

apply_tls(o, s, r, has) ==
  CASE r.type = "TLSGD" ->
         IF "TLSGD" \in has THEN {"TLSGD", "P"}
         ELSE IF "GOTTP" \in has THEN relax_gd_to_ie ELSE relax_gd_to_le
    [] r.type = "TLSLD" -> IF "TLSLD" \in has THEN {"TLSLD", "P"} ELSE relax_ld_to_le
    [] r.type \in {"DTPOFF32", "DTPOFF64"} -> {"S", "DTP"}
    [] r.type \in {"TPOFF32", "TPOFF64"} -> {"S", "TP"}
    [] r.type \in {"GOTTPOFF", "CODE_4_GOTTPOFF"} ->
         IF "GOTTP" \in has THEN {"GOTTP", "P"} ELSE {"S", "TP"}
    [] r.type = "CODE_6_GOTTPOFF" -> {"GOTTP", "P"}
    [] r.type \in DescTypes ->
         IF "TLSDESC" \in has THEN {"TLSDESC", "P"}
         ELSE IF "GOTTP" \in has
         THEN IF relax_tlsdesc_to_ie(r) THEN {"GOTTP", "P"} ELSE {"FATAL"}
         ELSE IF relax_tlsdesc_to_le(r) THEN {"S", "TP"} ELSE {"FATAL"}
    [] r.type = "TLSDESC_CALL" -> IF "TLSDESC" \in has THEN {"CALLDESC"} ELSE {}

apply_reloc_alloc(o, s, r, has) ==
  CASE r.type = "64" -> {}
    [] r.type \in AbsTypes -> {"S"}
    [] r.type \in PcTypes \union {"PLT32"} -> {"S", "P"}
    [] r.type \in {"GOT32", "GOT64"} -> {"GOT", "GP"}
    [] r.type \in {"GOTOFF64", "PLTOFF64"} -> {"S", "GP"}
    [] r.type \in {"GOTPC32", "GOTPC64"} -> {"GOTBASE", "P"}
    [] r.type \in {"GOTPCREL", "GOTPCREL64"} -> {"GOT", "P"}
    [] r.type \in GotXTypes ->
         IF is_pcrel_linktime_const(o, s) /\ relax_gotpcrelx(r) THEN {"S", "P"} ELSE {"GOT", "P"}
    [] r.type \in {"SIZE32", "SIZE64"} -> {"SIZE"}
    [] OTHER -> apply_tls(o, s, r, has)

apply_reloc_nonalloc(r) ==
  CASE r.type \in AbsTypes \union {"64"} -> {"S"}
    [] r.type \in {"DTPOFF32", "DTPOFF64"} -> {"S", "DTP"}
    [] r.type = "GOTOFF64" -> {"S", "GP"}
    [] r.type = "GOTPC64" -> {"GOTBASE"}
    [] r.type \in {"SIZE32", "SIZE64"} -> {"SIZE"}
    [] OTHER -> {"FATAL"}

apply_eh_reloc(r) ==
  CASE r.type \in {"32", "64"} -> {"S"}
    [] r.type \in {"PC32", "PC64"} -> {"S", "P"}
    [] OTHER -> {"FATAL"}

\* The index in .rela.plt and the slot of .got.plt.  Only the entry that stands
\* for the function's address begins with an endbr64.
write_plt_header(o) == {"GOTBASE", "P"}
write_plt_entry(o, canonical) ==
  IF canonical THEN {"GOTPLT", "P", "ENDBR"} ELSE {"GOTPLT", "P"}
write_pltgot_entry(o) == {"GOT", "P"}

TlsSequences ==
  {<<"TLSGD", c>> : c \in CallTypes} \union {<<"TLSLD", c, "DTPOFF32">> : c \in CallTypes}
    \union {<<d, "TLSDESC_CALL">> : d \in DescTypes}
    \union {<<t>> : t \in {"GOTTPOFF", "CODE_4_GOTTPOFF", "CODE_6_GOTTPOFF", "TPOFF32", "TPOFF64"}}
AddressSequences ==
  {<<t>> : t \in AbsTypes \union PcTypes \union GotTypes \union GotXTypes \union
                 {"PLT32", "PLTOFF64", "64", "GOTOFF64", "SIZE32", "SIZE64"}}
=============================================================================
