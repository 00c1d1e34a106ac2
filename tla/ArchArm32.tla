----------------------------- MODULE ArchArm32 ------------------------------
(***************************************************************************)
(* Relocations of 32-bit ARM (arch-arm32.cc).  See RelocCommon for the     *)
(* words.                                                                  *)
(***************************************************************************)
EXTENDS RelocCommon

WordTypes == {"ABS32", "TARGET1"}
BranchTypes == {"THM_CALL", "CALL", "JUMP24", "PLT32", "THM_JUMP24"}
ShortTypes == {"THM_JUMP8", "THM_JUMP11", "THM_JUMP19"}
MovAbsTypes == {"MOVW_ABS_NC", "THM_MOVW_ABS_NC", "MOVT_ABS", "THM_MOVT_ABS"}
MovPrelTypes == {"MOVW_PREL_NC", "THM_MOVW_PREL_NC", "MOVT_PREL", "THM_MOVT_PREL"}
DescCallTypes == {"TLS_CALL", "THM_TLS_CALL"}

scan_relocations(o, s, r) ==
  scan_ifunc(s) \union
  CASE r.type \in {"MOVW_ABS_NC", "THM_MOVW_ABS_NC"} -> scan_absrel(o, s)
    [] r.type \in BranchTypes -> scan_call(s)
    [] r.type \in {"GOT_PREL", "GOT_BREL", "TARGET2"} -> {"GOT"}
    [] r.type \in {"MOVT_PREL", "THM_MOVT_PREL", "PREL31"} -> scan_pcrel(o, s)
    [] r.type = "TLS_GD32" -> {"TLSGD"}
    [] r.type = "TLS_LDM32" -> {"TLSLD"}
    [] r.type = "TLS_IE32" -> {"GOTTP"}
    [] r.type \in DescCallTypes -> scan_tlsdesc(o, s)
    [] r.type = "TLS_LE32" -> check_tlsle(o)
    [] r.type \in {"MOVT_ABS", "THM_MOVT_ABS", "MOVW_PREL_NC", "THM_MOVW_PREL_NC", "REL32",
                   "BASE_PREL", "GOTOFF32", "TLS_LDO32", "V4BX", "TLS_GOTDESC"}
                  \union WordTypes \union ShortTypes -> {}
    [] OTHER -> {"ERROR"}

\* A relaxed call loads the offset or becomes a nop: it writes no value.
apply_tls(o, s, r, has) ==
  CASE r.type = "TLS_GD32" -> {"TLSGD", "P"}
    [] r.type = "TLS_LDM32" -> {"TLSLD", "P"}
    [] r.type = "TLS_LDO32" -> {"S", "DTP"}
    [] r.type = "TLS_IE32" -> {"GOTTP", "P"}
    [] r.type = "TLS_LE32" -> {"S", "TP"}
    [] r.type = "TLS_GOTDESC" ->
         IF "TLSDESC" \in has THEN {"TLSDESC", "P"}
         ELSE IF "GOTTP" \in has THEN {"GOTTP", "P"} ELSE {"S", "TP"}
    [] r.type \in DescCallTypes -> IF "TLSDESC" \in has THEN {"CALLDESC"} ELSE {}

\* A branch to Thumb code that the instruction cannot make, or one that is out
\* of reach, goes through a thunk, which jumps to S.
apply_reloc_alloc(o, s, r, has) ==
  CASE r.type \in WordTypes \union {"V4BX"} -> {}
    [] r.type \in BranchTypes -> IF is_remaining_undef_weak(s) THEN {} ELSE {"S", "P"}
    [] r.type \in ShortTypes \union MovPrelTypes \union {"REL32", "PREL31"} -> {"S", "P"}
    [] r.type = "BASE_PREL" -> {"GOTBASE", "P"}
    [] r.type = "GOTOFF32" -> {"S", "GP"}
    [] r.type \in {"GOT_PREL", "TARGET2"} -> {"GOT", "P"}
    [] r.type = "GOT_BREL" -> {"GOT", "GP"}
    [] r.type \in MovAbsTypes -> {"S"}
    [] OTHER -> apply_tls(o, s, r, has)

apply_reloc_nonalloc(r) ==
  CASE r.type = "ABS32" -> {"S"}
    [] r.type = "TLS_LDO32" -> {"S", "DTP"}
    [] OTHER -> {"FATAL"}

apply_eh_reloc(r) ==
  CASE r.type = "ABS32" -> {"S"}
    [] r.type = "REL32" -> {"S", "P"}
    [] OTHER -> {"FATAL"}

write_plt_header(o) == {"GOTBASE", "P"}
write_plt_entry(o) == {"GOTPLT", "P"}
write_pltgot_entry(o) == {"GOT", "P"}

TlsSequences ==
  {<<"TLS_GOTDESC", c>> : c \in DescCallTypes}
    \union { <<"TLS_GD32">>, <<"TLS_LDM32", "TLS_LDO32">>, <<"TLS_IE32">>, <<"TLS_LE32">> }
AddressSequences ==
  {<<t>> : t \in WordTypes \union BranchTypes \union ShortTypes \union
                 {"V4BX", "REL32", "PREL31", "BASE_PREL", "GOTOFF32", "GOT_PREL", "GOT_BREL", "TARGET2"}}
    \union { <<"MOVW_ABS_NC", "MOVT_ABS">>, <<"THM_MOVW_ABS_NC", "THM_MOVT_ABS">>,
             <<"MOVW_PREL_NC", "MOVT_PREL">>, <<"THM_MOVW_PREL_NC", "THM_MOVT_PREL">> }
=============================================================================
