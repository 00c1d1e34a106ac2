----------------------------- MODULE ArchArm64 ------------------------------
(***************************************************************************)
(* Relocations of AArch64 (arch-arm64.cc).  See RelocCommon for the words. *)
(* The page of an address and its low twelve bits are two values; a load   *)
(* base is a whole number of pages.                                        *)
(***************************************************************************)
EXTENDS RelocCommon

Lo12Types == {"ADD_ABS_LO12_NC", "LDST8_ABS_LO12_NC", "LDST16_ABS_LO12_NC",
              "LDST32_ABS_LO12_NC", "LDST64_ABS_LO12_NC", "LDST128_ABS_LO12_NC"}
MovwAbsTypes == {"MOVW_UABS_G0", "MOVW_UABS_G0_NC", "MOVW_UABS_G1", "MOVW_UABS_G1_NC",
                 "MOVW_UABS_G2", "MOVW_UABS_G2_NC", "MOVW_UABS_G3"}
MovwPrelTypes == {"MOVW_PREL_G0", "MOVW_PREL_G0_NC", "MOVW_PREL_G1", "MOVW_PREL_G1_NC",
                  "MOVW_PREL_G2", "MOVW_PREL_G2_NC", "MOVW_PREL_G3"}
PageTypes == {"ADR_PREL_PG_HI21", "ADR_PREL_PG_HI21_NC"}
PrelTypes == {"ADR_PREL_LO21", "CONDBR19", "LD_PREL_LO19", "PREL16", "PREL32", "PREL64"}
CallTypes == {"CALL26", "JUMP26", "PLT32"}
LeTypes == {"TLSLE_MOVW_TPREL_G0", "TLSLE_MOVW_TPREL_G0_NC", "TLSLE_MOVW_TPREL_G1",
            "TLSLE_MOVW_TPREL_G1_NC", "TLSLE_MOVW_TPREL_G2", "TLSLE_ADD_TPREL_HI12",
            "TLSLE_ADD_TPREL_LO12", "TLSLE_ADD_TPREL_LO12_NC"}

\* An ADRP and an LDR with one register between them.
is_adrp_ldr(r) == r.next = "LD64_GOT_LO12_NC" /\ r.ok

\* Only the types that begin a sequence are looked at.
scan_relocations(o, s, r) ==
  scan_ifunc(s) \union
  CASE r.type = "MOVW_UABS_G3" -> scan_absrel(o, s)
    [] r.type = "ADR_GOT_PAGE" ->
         IF o.relax /\ is_pcrel_linktime_const(o, s) /\ is_adrp_ldr(r) THEN {"SKIP"} ELSE {"GOT"}
    [] r.type \in {"LD64_GOT_LO12_NC", "LD64_GOTPAGE_LO15", "GOTPCREL32"} -> {"GOT"}
    [] r.type \in CallTypes -> scan_call(s)
    [] r.type \in {"TLSIE_ADR_GOTTPREL_PAGE21", "TLSIE_LD64_GOTTPREL_LO12_NC"} -> {"GOTTP"}
    [] r.type \in PageTypes -> scan_pcrel(o, s)
    [] r.type = "TLSGD_ADR_PAGE21" -> {"TLSGD"}
    [] r.type = "TLSDESC_CALL" -> scan_tlsdesc(o, s)
    [] r.type \in {"TLSLE_MOVW_TPREL_G2", "TLSLE_ADD_TPREL_LO12", "TLSLE_ADD_TPREL_LO12_NC"} ->
         check_tlsle(o)
    [] r.type \in {"ABS64", "TLSGD_ADD_LO12_NC", "TLSDESC_ADR_PAGE21", "TLSDESC_LD64_LO12",
                   "TLSDESC_ADD_LO12"} \union Lo12Types \union (MovwAbsTypes \ {"MOVW_UABS_G3"})
                  \union MovwPrelTypes \union PrelTypes \union LeTypes -> {}
    [] OTHER -> {"ERROR"}

apply_tls(o, s, r, has) ==
  CASE r.type = "TLSIE_ADR_GOTTPREL_PAGE21" -> {"GOTTP", "P"}
    [] r.type = "TLSIE_LD64_GOTTPREL_LO12_NC" -> {"GOTTP", "LO"}
    [] r.type \in LeTypes -> {"S", "TP"}
    [] r.type = "TLSGD_ADR_PAGE21" -> {"TLSGD", "P"}
    [] r.type = "TLSGD_ADD_LO12_NC" -> {"TLSGD", "LO"}
    [] r.type = "TLSDESC_ADR_PAGE21" -> IF "TLSDESC" \in has THEN {"TLSDESC", "P"} ELSE {}
    [] r.type = "TLSDESC_LD64_LO12" -> IF "TLSDESC" \in has THEN {"TLSDESC", "LO"} ELSE {}
    [] r.type = "TLSDESC_ADD_LO12" ->
         IF "TLSDESC" \in has THEN {"TLSDESC", "LO"}
         ELSE IF "GOTTP" \in has THEN {"GOTTP", "P"} ELSE {"S", "TP"}
    [] r.type = "TLSDESC_CALL" ->
         IF "TLSDESC" \in has THEN {"CALLDESC"}
         ELSE IF "GOTTP" \in has THEN {"GOTTP", "LO"} ELSE {"S", "TP"}

\* A call that is out of reach goes through a thunk, which jumps to S; one to
\* an undefined weak symbol becomes a nop.
apply_reloc_alloc(o, s, r, has) ==
  CASE r.type = "ABS64" -> {}
    [] r.type \in Lo12Types -> {"S", "LO"}
    [] r.type \in MovwAbsTypes -> {"S"}
    [] r.type \in MovwPrelTypes \union PrelTypes \union {"PLT32"} -> {"S", "P"}
    [] r.type = "ADR_GOT_PAGE" -> IF "GOT" \in has THEN {"GOT", "P"} ELSE {"S", "P", "SKIP"}
    [] r.type \in PageTypes ->
         IF o.relax /\ is_pcrel_linktime_const(o, s) /\ r.next = "ADD_ABS_LO12_NC" /\ r.ok
         THEN {"S", "P", "SKIP"} ELSE {"S", "P"}
    [] r.type \in {"CALL26", "JUMP26"} -> IF is_remaining_undef_weak(s) THEN {} ELSE {"S", "P"}
    [] r.type = "GOTPCREL32" -> {"GOT", "P"}
    [] r.type = "LD64_GOT_LO12_NC" -> {"GOT", "LO"}
    [] r.type = "LD64_GOTPAGE_LO15" -> {"GOT", "GP"}
    [] OTHER -> apply_tls(o, s, r, has)

apply_reloc_nonalloc(r) ==
  CASE r.type \in {"ABS64", "ABS32"} -> {"S"}
    [] r.type = "TLS_DTPREL64" -> {"S", "DTP"}
    [] OTHER -> {"FATAL"}

apply_eh_reloc(r) ==
  CASE r.type = "ABS64" -> {"S"}
    [] r.type \in {"PREL32", "PREL64"} -> {"S", "P"}
    [] OTHER -> {"FATAL"}

write_plt_header(o) == {"GOTBASE", "P"}
write_plt_entry(o) == {"GOTPLT", "P"}
write_pltgot_entry(o) == {"GOT", "P"}

TlsSequences ==
  { <<"TLSIE_ADR_GOTTPREL_PAGE21", "TLSIE_LD64_GOTTPREL_LO12_NC">>,
    <<"TLSLE_MOVW_TPREL_G2", "TLSLE_MOVW_TPREL_G1_NC", "TLSLE_MOVW_TPREL_G0_NC">>,
    <<"TLSLE_ADD_TPREL_HI12", "TLSLE_ADD_TPREL_LO12_NC">>, <<"TLSLE_ADD_TPREL_LO12">>,
    <<"TLSGD_ADR_PAGE21", "TLSGD_ADD_LO12_NC">>,
    <<"TLSDESC_ADR_PAGE21", "TLSDESC_LD64_LO12", "TLSDESC_ADD_LO12", "TLSDESC_CALL">> }
AddressSequences ==
  {<<p, l>> : p \in PageTypes, l \in Lo12Types} \union {<<t>> : t \in PrelTypes \union CallTypes}
    \union { <<"MOVW_UABS_G3", "MOVW_UABS_G2_NC", "MOVW_UABS_G1_NC", "MOVW_UABS_G0_NC">>,
             <<"MOVW_PREL_G3", "MOVW_PREL_G2_NC", "MOVW_PREL_G1_NC", "MOVW_PREL_G0_NC">>,
             <<"ADR_GOT_PAGE", "LD64_GOT_LO12_NC">>, <<"ADR_GOT_PAGE", "LD64_GOTPAGE_LO15">>,
             <<"GOTPCREL32">>, <<"ABS64">> }
=============================================================================
