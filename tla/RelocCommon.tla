---------------------------- MODULE RelocCommon ----------------------------
(***************************************************************************)
(* What the relocation code of every target shares: the questions asked of *)
(* a symbol (mold.h) and the decision tables of InputSection               *)
(* (input-sections.cc).                                                    *)
(*                                                                         *)
(* Scanning or applying a relocation is described by a set of words.       *)
(*   Scanning requests    "GOT" "PLT" "CANONICAL" "GOTTP" "TLSGD"          *)
(*                        "TLSDESC" "OPD" (the NEEDS_ flags of the symbol) *)
(*                        and "TLSLD" (ctx.needs_tlsld); "ERROR" and       *)
(*                        "FATAL" end the link; "SKIP" is the `i++` that   *)
(*                        leaves out the next relocation.                  *)
(*    Applying yields      the terms of the value written.  Added: a slot, *)
(*                         "GOTPLT" (the slot in .got.plt), "S"            *)
(*                         (Symbol::get_addr), "GOTBASE" (the address of   *)
(*                         .got or .got.plt), "TLSBEGIN", "TGA" (the       *)
(*                         address of __tls_get_addr).  Subtracted: "P"    *)
(*                         (the place), "GP" and "TOC" (the GOT or TOC     *)
(*                         base a register holds), "TP", "DTP".  "SIZE",   *)
(*                         "LO" (low bits only), "DIFF" (the difference of *)
(*                         two labels) and "ENDBR" as they say; "CALLDESC" *)
(*                         is a descriptor call that stays; "ASSERT",      *)
(*                         "UNREACHABLE" and "FATAL" end the link; {}      *)
(*                         writes nothing.                                 *)
(*                                                                         *)
(* o: the options [shared, pie, static, relax, dlopen].                    *)
(* s: a symbol [type, imported, undefweak, origin], where origin is        *)
(*    "section" for one defined in an input section and "none" otherwise.  *)
(* r: a relocation [type, ok, next, pair, near]: its type, whether the     *)
(*    instruction at its place is one the linker can rewrite, the type of  *)
(*    the relocation that follows it and of the one that starts its        *)
(*    sequence, and whether the target is within reach of a short form.    *)
(***************************************************************************)
EXTENDS Naturals, Sequences

Slots == {"GOT", "GOTTP", "TLSGD", "TLSDESC", "TLSLD", "PLT", "OPD"}

-----------------------------------------------------------------------------
(* Questions asked of a symbol. *)

pic(o) == o.shared \/ o.pie

is_ifunc(s) == s.type = "IFUNC"

is_remaining_undef_weak(s) == ~s.imported /\ s.undefweak

is_absolute(s) ==
  is_remaining_undef_weak(s) \/ (~s.imported /\ s.origin = "none")

is_pde_ifunc(a, o, s) ==
  is_ifunc(s) /\ ~pic(o) /\ a \notin {"ppc64v1", "ppc64v2"}

is_pcrel_linktime_const(o, s) ==
  ~s.imported /\ ~is_ifunc(s) /\ (~is_absolute(s) \/ ~pic(o))

is_tprel_linktime_const(o, s) == ~o.shared /\ ~s.imported

is_tprel_runtime_const(o, s) == ~(o.shared /\ o.dlopen)

-----------------------------------------------------------------------------
(* The decision tables. *)

\* The row of a table: the kind of output file.
get_output_type(o) == IF o.shared THEN 1 ELSE IF o.pie THEN 2 ELSE 3

\* The column of a table: the kind of symbol.
get_sym_type(s) ==
  IF is_absolute(s) THEN 1
  ELSE IF ~s.imported THEN 2
  ELSE IF s.type /= "FUNC" THEN 3 ELSE 4

do_action(action) == IF action = "NONE" THEN {} ELSE {action}

\* PC-relative relocations.
scan_pcrel(o, s) ==
  LET table == << <<"ERROR", "NONE", "ERROR",     "PLT">>,
                  <<"ERROR", "NONE", "CANONICAL", "CANONICAL">>,
                  <<"NONE",  "NONE", "CANONICAL", "CANONICAL">> >>
  IN  do_action(table[get_output_type(o)][get_sym_type(s)])

\* Absolute relocations narrower than a word.
scan_absrel(o, s) ==
  LET table == << <<"NONE", "ERROR", "ERROR",     "ERROR">>,
                  <<"NONE", "ERROR", "ERROR",     "ERROR">>,
                  <<"NONE", "NONE",  "CANONICAL", "CANONICAL">> >>
  IN  do_action(table[get_output_type(o)][get_sym_type(s)])

\* The general-dynamic and descriptor models are given up for local-exec when
\* the offset from TP is known now, and for initial-exec when it is known at
\* start-up.
relaxes_to_le(o, s) == o.static \/ (o.relax /\ is_tprel_linktime_const(o, s))

relaxes_to_ie(o, s) == o.relax /\ is_tprel_runtime_const(o, s)

scan_tlsdesc(o, s) ==
  IF relaxes_to_le(o, s) THEN {}
  ELSE IF relaxes_to_ie(o, s) THEN {"GOTTP"} ELSE {"TLSDESC"}

check_tlsle(o) == IF o.shared THEN {"ERROR"} ELSE {}

\* Calls through the PLT.
scan_call(s) == IF s.imported THEN {"PLT"} ELSE {}

\* What every target's loop does before it looks at the type.
scan_ifunc(s) == IF is_ifunc(s) THEN {"GOT", "PLT"} ELSE {}
=============================================================================
