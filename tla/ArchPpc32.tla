----------------------------- MODULE ArchPpc32 ------------------------------
(***************************************************************************)
(* Relocations of 32-bit PowerPC (arch-ppc32.cc).  See RelocCommon for the *)
(* words.                                                                  *)
(***************************************************************************)
EXTENDS RelocCommon

AbsTypes == {"ADDR14", "ADDR16", "UADDR16", "ADDR16_LO", "ADDR16_HI", "ADDR16_HA", "ADDR24", "ADDR30"}
PcTypes == {"REL14", "REL16", "REL16_LO", "REL16_HI", "REL16_HA", "REL32"}
GotTypes == {"GOT16", "GOT16_LO", "GOT16_HI", "GOT16_HA"}
PltTypes == {"PLT16_LO", "PLT16_HI", "PLT16_HA", "PLT32"}
CallTypes == {"REL24", "PLTREL24", "PLTREL32"}
LeTypes == {"TPREL16_LO", "TPREL16_HI", "TPREL16_HA"}
DtpTypes == {"DTPREL16_LO", "DTPREL16_HI", "DTPREL16_HA"}
MarkTypes == {"TLS", "TLSGD", "TLSLD", "PLTSEQ", "PLTCALL"}

scan_relocations(o, s, r) ==
  scan_ifunc(s) \union
  CASE r.type \in AbsTypes -> scan_absrel(o, s)
    [] r.type \in PcTypes -> scan_pcrel(o, s)
    [] r.type \in GotTypes \union PltTypes -> {"GOT"}
    [] r.type \in CallTypes -> scan_call(s)
    [] r.type = "GOT_TLSGD16" -> {"TLSGD"}
    [] r.type = "GOT_TLSLD16" -> {"TLSLD"}
    [] r.type = "GOT_TPREL16" -> {"GOTTP"}
    [] r.type \in LeTypes -> check_tlsle(o)
    [] r.type \in {"ADDR32", "UADDR32", "LOCAL24PC"} \union DtpTypes \union MarkTypes -> {}
    [] OTHER -> {"ERROR"}

\* A call to a PLT entry or out of reach goes through a thunk.  R_PPC_UADDR32
\* is left to the absolute relocations of the output section.
apply_reloc_alloc(o, s, r, has) ==
  CASE r.type \in AbsTypes -> {"S"}
    [] r.type \in PltTypes -> {"GOT", "GP"}
    [] r.type \in PcTypes \union CallTypes \union {"LOCAL24PC"} -> {"S", "P"}
    [] r.type \in GotTypes -> {"GOT", "GP"}
    [] r.type \in LeTypes -> {"S", "TP"}
    [] r.type \in DtpTypes -> {"S", "DTP"}
    [] r.type = "GOT_TLSGD16" -> {"TLSGD", "GP"}
    [] r.type = "GOT_TLSLD16" -> {"TLSLD", "GP"}
    [] r.type = "GOT_TPREL16" -> {"GOTTP", "GP"}
    [] r.type \in {"ADDR32", "UADDR32"} \union MarkTypes -> {}

apply_reloc_nonalloc(r) ==
  CASE r.type = "ADDR32" -> {"S"}
    [] r.type = "DTPREL32" -> {"S", "DTP"}
    [] OTHER -> {"FATAL"}

apply_eh_reloc(r) ==
  CASE r.type = "ADDR32" -> {"S"}
    [] r.type = "REL32" -> {"S", "P"}
    [] OTHER -> {"FATAL"}

\* A thunk jumps through the slot of a PLT entry, or to the symbol.
thunk_copy_buf(has) ==
  IF "PLT" \notin has THEN {"S", "P"} ELSE IF "GOT" \in has THEN {"GOT", "P"} ELSE {"GOTPLT", "P"}

write_plt_header(o) == {"GOTBASE", "P"}
write_plt_entry(o) == {"GOTPLT", "P"}
write_pltgot_entry(o) == {"GOT", "P"}

TlsSequences ==
  { <<"GOT_TLSGD16", "TLSGD", "REL24">>, <<"GOT_TLSGD16", "TLSGD", "PLTREL24">>,
    <<"GOT_TLSLD16", "TLSLD", "PLTREL24", "DTPREL16_HA", "DTPREL16_LO">>,
    <<"GOT_TPREL16", "TLS">>, <<"TPREL16_HA", "TPREL16_LO">>, <<"TPREL16_HI", "TPREL16_LO">> }
AddressSequences ==
  {<<t>> : t \in CallTypes \union {"ADDR14", "ADDR16", "UADDR16", "ADDR24", "ADDR30", "REL14", "REL16", "REL32",
                                   "GOT16", "PLT32", "ADDR32", "UADDR32", "LOCAL24PC"}}
    \union { <<"ADDR16_HA", "ADDR16_LO">>, <<"ADDR16_HI", "ADDR16_LO">>, <<"REL16_HA", "REL16_LO">>,
             <<"REL16_HI", "REL16_LO">>, <<"GOT16_HA", "GOT16_LO">>, <<"GOT16_HI", "GOT16_LO">>,
             <<"PLT16_HA", "PLT16_LO", "PLTSEQ", "PLTCALL">>, <<"PLT16_HI", "PLT16_LO">> }
=============================================================================
