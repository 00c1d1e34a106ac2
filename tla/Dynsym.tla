------------------------------- MODULE Dynsym -------------------------------
(***************************************************************************)
(* From resolved symbols to the dynamic symbol table: the version script   *)
(* (linker-script.cc, apply_version_script), version suffixes              *)
(* (parse_symbol_version), imports and exports (compute_import_export,     *)
(* claim_unresolved_symbols), .dynsym (scan_relocations, sort_dynsyms),    *)
(* its hash tables .hash and .gnu.hash, and its versions .gnu.version,     *)
(* .gnu.version_d and .gnu.version_r.                                      *)
(*                                                                         *)
(* A name is a sequence of bytes.  The key of a Symbol is <<name, "">> for *)
(* foo and foo@@VER and <<name, VER>> for foo@VER.  The input `in' has     *)
(*   objs, dsos  the files, in the order of their priorities               *)
(*   esyms       each file's global symbols: records with name, at ("",    *)
(*               "@", "@@"), ver, undef, weak, vis and type                *)
(*   vers        the version strings of each DSO, from index 2 on          *)
(*   excl        the objects of excluded archives (--exclude-libs)         *)
(*   script      the version nodes of the version script: records with the *)
(*               version ("" if anonymous) and its commands, records with  *)
(*               global, cpp and pat                                       *)
(*   dynlist     --dynamic-list and similar: records with pat and cpp      *)
(*   need        keys -> what relocations ask for: "canonical" or "plt"    *)
(*   opt         the options                                               *)
(* Commands of a script are a tree here; the text is not modelled.         *)
(***************************************************************************)
EXTENDS Globs, Bitwise

CONSTANTS Inputs, Demangle

VARIABLES
    in,        \* the input
    phase,     \* the next pass
    at,        \* each object's position in claim_unresolved_symbols
    sym,       \* the Symbols: key -> record
    dynsym,    \* ctx.dynsym->symbols, without the null symbol
    errors,    \* what was reported
    undefs,    \* ctx.undef_errors
    image      \* the sections written

vars == <<in, phase, at, sym, dynsym, errors, undefs, image>>

VER_NDX_LOCAL == 0
VER_NDX_GLOBAL == 1
VER_NDX_LAST_RESERVED == 1
VER_NDX_UNSPECIFIED == 65535
VERSYM_HIDDEN == 32768
IsHiddenVer(v) == v >= VERSYM_HIDDEN
BaseVer(v) == v % VERSYM_HIDDEN

opt == in.opt
Objs == ToSet(in.objs)
Dsos == ToSet(in.dsos)
Files == in.objs \o in.dsos
Esym(f, i) == in.esyms[f][i]

\* register_global_symbols: foo@@VER is found as foo.  In a DSO a default
\* version is, too.
KeyOf(e) == <<e.name, IF e.at = "@" THEN e.ver ELSE "">>
has_symver(e) == e.at # ""
Keys == UNION {{KeyOf(in.esyms[f][i]) : i \in DOMAIN in.esyms[f]} : f \in Objs \cup Dsos}
Uses(k) == {<<f, i>> \in UNION {{<<f, i>> : i \in DOMAIN in.esyms[f]} : f \in Objs \cup Dsos} :
              KeyOf(Esym(f, i)) = k}

IsDso(k) == sym[k].file \in Dsos
OwnEsym(k) == Esym(sym[k].file, sym[k].idx)
OwnedByObj(k) == sym[k].file \in Objs
GetType(k) == IF OwnEsym(k).type = "ifunc" /\ IsDso(k) THEN "func" ELSE OwnEsym(k).type
Position(f) == CHOOSE i \in DOMAIN Files : Files[i] = f

demangle_cpp(name) == IF name \in DOMAIN Demangle THEN Demangle[name] ELSE name
-----------------------------------------------------------------------------
(* The version script *)

\* read_version_script_commands, for the node of version index v.
Commands(cmds, v, st) ==
    FoldLeft(LAMBDA s, c :
                IF c.pat = <<StarCh>>
                  THEN [s EXCEPT !.default = IF c.global THEN v ELSE VER_NDX_LOCAL]
                  ELSE [s EXCEPT !.patterns = Append(@,
                          [pat |-> c.pat, cpp |-> c.cpp,
                           ver |-> IF c.global THEN v ELSE VER_NDX_LOCAL])],
             st, cmds)

\* read_version_script: ctx.version_patterns, ctx.default_version and
\* ctx.arg.version_definitions, to which --default-symver may have added one.
read_version_script(script, defs) ==
    FoldLeft(LAMBDA s, node :
                IF node.ver = "" THEN Commands(node.cmds, VER_NDX_GLOBAL, s)
                ELSE Commands(node.cmds, VER_NDX_LAST_RESERVED + Len(s.defs) + 1,
                              [s EXCEPT !.defs = Append(@, node.ver)]),
             [patterns |-> <<>>, default |-> VER_NDX_UNSPECIFIED, defs |-> defs],
             script)

Script == read_version_script(in.script, IF opt.default_symver THEN <<"base">> ELSE <<>>)

has_wildcard(pat) == \E i \in DOMAIN pat : pat[i] \in {StarCh, QuestionCh, OpenCh}

\* apply_version_script: "local:" patterns come first, and so count less.
PatternOrder(patterns) ==
    SelectSeq(patterns, LAMBDA p : p.ver = VER_NDX_LOCAL)
      \o SelectSeq(patterns, LAMBDA p : p.ver # VER_NDX_LOCAL)

\* The Glob of the chosen ones of the patterns, with their positions.
GlobOf(patterns, chosen) ==
    FoldLeft(LAMBDA g, i : IF patterns[i] \in chosen THEN add(g, patterns[i].pat, i) ELSE g,
             NoGlob, [i \in DOMAIN patterns |-> i])

WildMatcher(patterns) == GlobOf(patterns, {p \in ToSet(patterns) : ~p.cpp /\ has_wildcard(p.pat)})
CppMatcher(patterns) == GlobOf(patterns, {p \in ToSet(patterns) : p.cpp})

\* The matchers' answer for a name; the C++ patterns see demangled names.
FindMatch(matcher, cpp, name) ==
    Upto(find(matcher, name), {find(c, demangle_cpp(name)) : c \in cpp})

Fail(what) ==
    /\ phase' = "failed" /\ errors' = errors \cup {what}
    /\ UNCHANGED <<in, at, sym, dynsym, undefs, image>>

apply_version_script ==
    LET patterns == PatternOrder(Script.patterns)
        wild == WildMatcher(patterns)
        cpp == CppMatcher(patterns)
        matcher == Prepared(wild)
        cpps == IF cpp.empty THEN {} ELSE {Prepared(cpp)}
        globbed == [k \in Keys |->
            LET m == FindMatch(matcher, cpps, k[1])
            IN  IF OwnedByObj(k) /\ m # -1 THEN [sym[k] EXCEPT !.ver = patterns[m].ver]
                ELSE sym[k]]
        exact == SelectSeq(patterns, LAMBDA p : ~p.cpp /\ ~has_wildcard(p.pat))
    IN  /\ phase = "apply_version_script"
        /\ IF ~(wild.ok /\ cpp.ok) THEN Fail("invalid version pattern")
           ELSE /\ sym' = FoldLeft(LAMBDA s, p :
                              IF <<p.pat, "">> \in Keys /\ OwnedByObj(<<p.pat, "">>)
                                THEN [s EXCEPT ![<<p.pat, "">>].ver = p.ver] ELSE s,
                            IF wild.empty /\ cpp.empty THEN sym ELSE globbed, exact)
                /\ phase' = "parse_symbol_version"
                /\ UNCHANGED <<in, at, dynsym, errors, undefs, image>>
-----------------------------------------------------------------------------
(* Version suffixes *)

\* parse_symbol_version for one symbol of one file; st has sym and errors.
ParseVersion(st, f, i) ==
    LET e == Esym(f, i)
        k == KeyOf(e)
        plain == <<e.name, "">>
        idx == {j \in DOMAIN Script.defs : Script.defs[j] = e.ver}
        ver == Max(idx) + VER_NDX_LAST_RESERVED + (IF e.at = "@" THEN VERSYM_HIDDEN ELSE 0)
        s1 == [st.sym EXCEPT ![k].ver = ver]
        hides == /\ plain # k /\ plain \in Keys /\ s1[plain].file = f
                 /\ ~has_symver(Esym(f, s1[plain].idx))
                 /\ \/ s1[plain].ver = Script.default
                    \/ BaseVer(s1[plain].ver) = BaseVer(ver)
    IN  CASE ~has_symver(e) \/ st.sym[k].file # f -> st
          [] has_symver(e) /\ st.sym[k].file = f /\ e.ver = "" ->
               [st EXCEPT !.sym[k].ver = VER_NDX_GLOBAL]
          [] has_symver(e) /\ st.sym[k].file = f /\ e.ver # "" /\ idx = {} ->
               [st EXCEPT !.errors = @ \cup {"undefined version"}]
          [] OTHER -> [st EXCEPT !.sym = IF hides THEN [s1 EXCEPT ![plain].ver = VER_NDX_LOCAL]
                                                  ELSE s1]

\* The files run in parallel and touch only symbols they own, so their order
\* does not show.
parse_symbol_version ==
    LET file(st, f) == FoldLeft(LAMBDA t, i : ParseVersion(t, f, i), st,
                                [i \in DOMAIN in.esyms[f] |-> i])
        st == FoldLeft(file, [sym |-> sym, errors |-> errors], in.objs)
    IN  /\ phase = "parse_symbol_version"
        /\ IF opt.shared THEN sym' = st.sym /\ errors' = st.errors
                         ELSE UNCHANGED <<sym, errors>>
        /\ phase' = "compute_import_export"
        /\ UNCHANGED <<in, at, dynsym, undefs, image>>
-----------------------------------------------------------------------------
(* Imports and exports *)

should_export(k) ==
    LET s == sym[k]
    IN  /\ s.vis # "hidden" /\ s.ver # VER_NDX_LOCAL
        /\ \/ s.ver # VER_NDX_UNSPECIFIED
           \/ opt.dynamic_list_data /\ GetType(k) \notin {"func", "ifunc"}
           \/ IF opt.shared THEN s.file \notin in.excl ELSE opt.export_dynamic

is_protected(k) ==
    \/ sym[k].vis = "protected"
    \/ opt.Bsymbolic = "all"
    \/ opt.Bsymbolic = "functions" /\ GetType(k) = "func"
    \/ opt.Bsymbolic = "non-weak" /\ ~sym[k].weak
    \/ opt.Bsymbolic = "non-weak-functions" /\ ~sym[k].weak /\ GetType(k) = "func"

\* The two parallel loops: DSOs export what they use from an executable, and
\* objects import from DSOs and export what they define.  A loop only sets
\* flags it does not read.
ImportsAndExports ==
    LET usedBy(k, F) == \E u \in Uses(k) : u[1] \in F
    IN  [k \in Keys |->
           CASE IsDso(k) -> [sym[k] EXCEPT !.imported = @ \/ usedBy(k, Objs)]
             [] OwnedByObj(k) ->
                  [sym[k] EXCEPT
                     !.exported = \/ ~opt.shared /\ usedBy(k, Dsos) /\ sym[k].vis # "hidden"
                                       /\ sym[k].ver # VER_NDX_LOCAL
                                  \/ should_export(k),
                     !.imported = should_export(k) /\ opt.shared /\ ~is_protected(k)]
             [] OTHER -> sym[k]]

\* handle_match of compute_import_export.
handle_match(s) ==
    IF opt.shared THEN [s EXCEPT !.imported = @ \/ s.exported]
    ELSE [s EXCEPT !.exported = @ \/ (s.file \in Objs /\ s.vis # "hidden")]

compute_import_export ==
    LET wild == WildMatcher(in.dynlist)
        cpp == CppMatcher(in.dynlist)
        matcher == Prepared(wild)
        cpps == IF cpp.empty THEN {} ELSE {Prepared(cpp)}
        exact == {<<p.pat, "">> : p \in {p \in ToSet(in.dynlist) : ~p.cpp /\ ~has_wildcard(p.pat)}}
        s1 == ImportsAndExports
        s2 == [k \in Keys |-> IF k \in exact THEN handle_match(s1[k]) ELSE s1[k]]
        globs(k) == /\ ~(wild.empty /\ cpp.empty) /\ OwnedByObj(k)
                    /\ opt.shared => s2[k].exported
                    /\ FindMatch(matcher, cpps, k[1]) # -1
    IN  /\ phase = "compute_import_export"
        /\ IF ~(wild.ok /\ cpp.ok) THEN Fail("invalid dynamic list entry")
           ELSE /\ sym' = [k \in Keys |-> IF globs(k) THEN handle_match(s2[k]) ELSE s2[k]]
                /\ phase' = "claim_unresolved_symbols"
                /\ UNCHANGED <<in, at, dynsym, errors, undefs, image>>

\* Mutant of MayClaim: the first file to arrive keeps the symbol.
MayClaim_First(f, k) == sym[k].file = "none"

\* claim_unresolved_symbols: nobody defines the symbol, and no file of a
\* higher priority has claimed it.
MayClaim(f, k) ==
    \/ sym[k].file = "none"
    \/ OwnEsym(k).undef /\ Position(f) < Position(sym[k].file)

\* The undefined symbol becomes an import; otherwise it is 0.
ClaimImports(e, vis) ==
    /\ vis # "hidden"
    /\ IF e.weak THEN opt.z_dynamic_undefined_weak
       ELSE opt.shared /\ opt.unresolved_symbols # "error"

\* One symbol of one file: a critical section of sym.mu.
Claim(f) ==
    /\ phase = "claim_unresolved_symbols" /\ at[f] \in DOMAIN in.esyms[f]
    /\ LET e == Esym(f, at[f])
           k == KeyOf(e)
           imp == ClaimImports(e, sym[k].vis)
       IN  sym' = IF ~e.undef \/ ~MayClaim(f, k) THEN sym
                  ELSE [sym EXCEPT ![k] = [@ EXCEPT
                          !.file = f, !.idx = at[f], !.weak = FALSE,
                          !.imported = imp, !.exported = FALSE,
                          !.ver = IF imp THEN VER_NDX_UNSPECIFIED ELSE Script.default]]
    /\ at' = [at EXCEPT ![f] = @ + 1]
    /\ UNCHANGED <<in, phase, dynsym, errors, undefs, image>>

EndClaim ==
    /\ phase = "claim_unresolved_symbols"
    /\ \A f \in Objs : at[f] \notin DOMAIN in.esyms[f]
    /\ phase' = "scan_relocations"
    /\ UNCHANGED <<in, at, sym, dynsym, errors, undefs, image>>
-----------------------------------------------------------------------------
(* .dynsym *)

\* InputSection::record_undef_error, for a reference of file f to symbol i.
Unsupplied(f, i) ==
    LET e == Esym(f, i)
        k == KeyOf(e)
    IN  /\ e.undef /\ ~e.weak /\ OwnEsym(k).undef
        /\ \/ opt.unresolved_symbols = "error" /\ ~sym[k].imported
           \/ opt.unresolved_symbols = "warn"

\* DynsymSection::add_symbol.
AddDyn(st, k) == IF k \in ToSet(st.dynsym) THEN st ELSE [st EXCEPT !.dynsym = Append(@, k)]

\* SharedFile::get_symbols_at: the DSO's symbols at the same address.
get_symbols_at(k) ==
    LET f == sym[k].file
        ks == [i \in DOMAIN in.esyms[f] |-> KeyOf(Esym(f, i))]
    IN  SelectSeq(ks, LAMBDA j : sym[j].file = f /\ OwnEsym(j).val = OwnEsym(k).val)

\* CopyrelSection::add_symbol.
AddCopyrel(st, k) ==
    IF st.sym[k].copyrel THEN st
    ELSE IF ~IsDso(k) \/ OwnEsym(k).vis = "protected" \/ ~opt.z_copyreloc
      THEN [st EXCEPT !.errors = @ \cup {"cannot create a copy relocation"}]
    ELSE FoldLeft(LAMBDA t, j :
                    AddDyn([t EXCEPT !.sym[j] = [@ EXCEPT !.imported = TRUE, !.exported = TRUE,
                                                          !.copyrel = TRUE]], j),
                  st, get_symbols_at(k))

\* The last loop of scan_relocations, for one symbol.
NeedOf(k) == IF k \in DOMAIN in.need THEN in.need[k] ELSE "none"
AssignTables(st, k) ==
    LET dyn == IF st.sym[k].imported \/ st.sym[k].exported THEN AddDyn(st, k) ELSE st
    IN  CASE NeedOf(k) = "canonical" /\ GetType(k) = "func" ->
               AddDyn([dyn EXCEPT !.sym[k].exported = TRUE], k)
          [] NeedOf(k) = "canonical" /\ GetType(k) # "func" -> AddCopyrel(dyn, k)
          [] NeedOf(k) = "plt" -> AddDyn(dyn, k)
          [] OTHER -> dyn

scan_relocations ==
    LET mine(f) == SelectSeq([i \in DOMAIN in.esyms[f] |-> KeyOf(Esym(f, i))],
                      LAMBDA k : /\ sym[k].file = f
                                 /\ NeedOf(k) # "none" \/ sym[k].imported \/ sym[k].exported)
        syms == FlattenSeq([n \in DOMAIN Files |-> mine(Files[n])])
        st == FoldLeft(AssignTables, [sym |-> sym, dynsym |-> <<>>, errors |-> errors], syms)
        refs == UNION {{<<f, i>> : i \in DOMAIN in.esyms[f]} : f \in Objs}
    IN  /\ phase = "scan_relocations"
        /\ undefs' = {KeyOf(Esym(u[1], u[2])) : u \in {u \in refs : Unsupplied(u[1], u[2])}}
        /\ IF errors # {} THEN phase' = "failed" /\ UNCHANGED <<sym, dynsym, errors>>
           ELSE /\ sym' = st.sym /\ dynsym' = st.dynsym /\ errors' = st.errors
                /\ phase' = "check_symbol_version_conflicts"
        /\ UNCHANGED <<in, at, image>>

\* check_symbol_version_conflicts: foo@VER beside foo@@VER.
VersionConflict(k) ==
    /\ ~IsDso(k) /\ ~sym[k].weak /\ sym[k].ver # VER_NDX_UNSPECIFIED /\ IsHiddenVer(sym[k].ver)
    /\ <<k[1], "">> \in Keys \ {k} /\ sym[<<k[1], "">>].file \in Objs
    /\ ~sym[<<k[1], "">>].weak /\ sym[<<k[1], "">>].ver = BaseVer(sym[k].ver)

check_symbol_version_conflicts ==
    LET bad == ~opt.allow_multiple_definition /\ \E k \in ToSet(dynsym) : VersionConflict(k)
        errs == errors \cup (IF bad THEN {"duplicate symbol"} ELSE {})
    IN  /\ phase = "check_symbol_version_conflicts"
        /\ errors' = errs
        /\ phase' = IF errs # {} /\ ~opt.allow_multiple_definition THEN "failed"
                    ELSE "compute_imported_symbol_weakness"
        /\ UNCHANGED <<in, at, sym, dynsym, undefs, image>>

\* A reference that is not weak makes an import from a DSO not weak.
compute_imported_symbol_weakness ==
    /\ phase = "compute_imported_symbol_weakness"
    /\ sym' = [k \in Keys |->
                 IF IsDso(k) /\ \E u \in Uses(k) : /\ u[1] \in Objs /\ Esym(u[1], u[2]).undef
                                                   /\ ~Esym(u[1], u[2]).weak
                   THEN [sym[k] EXCEPT !.weak = FALSE] ELSE sym[k]]
    /\ phase' = "sort_dynsyms"
    /\ UNCHANGED <<in, at, dynsym, errors, undefs, image>>
-----------------------------------------------------------------------------
(* Hash functions; a u32 is <<high half, low half>>                        *)

djb_hash(name) ==
    FoldLeft(LAMBDA h, c : LET lo == h[2] * 33 + c
                           IN  <<(h[1] * 33 + lo \div 65536) % 65536, lo % 65536>>,
             <<0, 5381>>, name)

Mod(h, n) == ((h[1] % n) * (65536 % n) + h[2]) % n

\* elf_hash stays below 2^28; the bits shifted out are xored back in.
elf_hash(name) ==
    FoldLeft(LAMBDA h, c : LET low == (h % 2^24) * 16 + c
                               g == (h \div 2^24 + low \div 2^28) % 16
                           IN  IF g = 0 THEN low % 2^28 ELSE (low % 2^28) ^^ (g * 16),
             0, name)

is_local(k) == sym[k].vis = "hidden" \/ sym[k].ver = VER_NDX_LOCAL

RECURSIVE LexLess(_, _)
LexLess(a, b) ==
    /\ b # <<>>
    /\ a = <<>> \/ a[1] < b[1] \/ (a[1] = b[1] /\ LexLess(Tail(a), Tail(b)))

LOAD_FACTOR == 8
BLOOM_SHIFT == 26

\* sort_dynsyms: locals, globals that are not exported, and, for .gnu.hash,
\* exports by bucket and name.  The sort may leave equal ones in either order.
SortedDynsyms(reversed) ==
    LET locals == SelectSeq(dynsym, is_local)
        globals == SelectSeq(dynsym, LAMBDA k : ~is_local(k))
        rest == SelectSeq(globals, LAMBDA k : ~sym[k].exported)
        exports == SelectSeq(globals, LAMBDA k : sym[k].exported)
        in_order == IF reversed THEN Reverse(exports) ELSE exports
        nb == Len(exports) \div LOAD_FACTOR + 1
        bucket == [k \in ToSet(exports) |-> Mod(djb_hash(k[1]), nb)]
        before(i, j) ==
            LET a == in_order[i]
                b == in_order[j]
            IN  \/ bucket[a] < bucket[b]
                \/ bucket[a] = bucket[b] /\ LexLess(a[1], b[1])
                \/ bucket[a] = bucket[b] /\ a[1] = b[1] /\ i < j
        order == SortSeq([i \in DOMAIN in_order |-> i], before)
    IN  IF ~opt.gnu_hash THEN locals \o globals
        ELSE locals \o rest \o [i \in DOMAIN order |-> in_order[order[i]]]

sort_dynsyms ==
    /\ phase = "sort_dynsyms"
    /\ \E reversed \in BOOLEAN : dynsym' = SortedDynsyms(reversed)
    /\ phase' = "report_undef_errors"
    /\ UNCHANGED <<in, at, sym, errors, undefs, image>>

\* report_undef_errors is called here if undefined symbols are errors, and in
\* copy_chunks, which may warn.
report_undef_errors ==
    /\ phase = "report_undef_errors"
    /\ IF opt.unresolved_symbols = "error" /\ undefs # {} THEN Fail("undefined symbol")
       ELSE phase' = "verdef" /\ UNCHANGED <<in, at, sym, dynsym, errors, undefs, image>>
-----------------------------------------------------------------------------
(* Versions *)

Exported(k) == ~is_local(k) /\ sym[k].exported
IndexOf(k) == CHOOSE i \in DOMAIN dynsym : dynsym[i] = k

\* VerdefSection::construct.  versym is indexed like .dynsym, the null symbol
\* at 0; <<>> is an empty section.
verdef ==
    LET own(k) == ~IsDso(k)
        ver(k) == IF /\ opt.default_symver /\ own(k) /\ ~OwnEsym(k).undef
                     /\ sym[k].ver \in {VER_NDX_GLOBAL, VER_NDX_UNSPECIFIED}
                    THEN VER_NDX_LAST_RESERVED + 1 ELSE sym[k].ver
        symOf(i) == dynsym[i]
    IN  /\ phase = "verdef"
        /\ IF Script.defs = <<>> THEN UNCHANGED <<sym, image>>
           ELSE /\ sym' = [k \in Keys |-> IF k \in ToSet(dynsym)
                                            THEN [sym[k] EXCEPT !.ver = ver(k)] ELSE sym[k]]
                /\ image' = [image EXCEPT
                     !.versym = [i \in 0..Len(dynsym) |->
                         IF i = 0 THEN VER_NDX_LOCAL
                         ELSE CASE ~own(symOf(i)) -> VER_NDX_GLOBAL
                                [] own(symOf(i)) /\ ver(symOf(i)) # VER_NDX_UNSPECIFIED -> ver(symOf(i))
                                [] OTHER -> IF OwnEsym(symOf(i)).undef THEN VER_NDX_LOCAL
                                                                       ELSE VER_NDX_GLOBAL],
                     !.verdef = <<[ndx |-> 1, name |-> "soname"]>>
                        \o [j \in DOMAIN Script.defs |->
                              [ndx |-> VER_NDX_LAST_RESERVED + j, name |-> Script.defs[j]]]]
        /\ phase' = "verneed"
        /\ UNCHANGED <<in, at, dynsym, errors, undefs>>

\* Symbol::get_version.
get_version(k) == in.vers[sym[k].file][sym[k].ver - VER_NDX_LAST_RESERVED]

\* Mutant of NewVersion: only a new version starts an entry, not a new file.
NewVersion_NoFile(syms, i) == i = 1 \/ sym[syms[i - 1]].ver # sym[syms[i]].ver

\* The i-th versioned import needs an entry of its own.
NewVersion(syms, i) ==
    \/ i = 1
    \/ sym[syms[i - 1]].file # sym[syms[i]].file
    \/ sym[syms[i - 1]].ver # sym[syms[i]].ver

\* VerneedSection::construct: the imports with a version, by DSO and version.
\* An entry is <<DSO, version, index>>; soname order is the order of in.dsos.
verneed ==
    LET imports == SelectSeq(dynsym, LAMBDA k : IsDso(k) /\ sym[k].ver > VER_NDX_LAST_RESERVED)
        key(k) == <<Position(sym[k].file), sym[k].ver>>
        before(i, j) ==
            LET a == key(imports[i])
                b == key(imports[j])
            IN  a[1] < b[1] \/ (a[1] = b[1] /\ (a[2] < b[2] \/ (a[2] = b[2] /\ i < j)))
        order == SortSeq([i \in DOMAIN imports |-> i], before)
        syms == [i \in DOMAIN order |-> imports[order[i]]]
        relr(f) == opt.pack_dyn_relocs_relr /\ f \in in.glibc
        start == [needs |-> <<>>, versym |-> image.versym, idx |-> VER_NDX_LAST_RESERVED + Len(Script.defs)]
        AddEntry(st, f, v) == [st EXCEPT !.idx = @ + 1, !.needs = Append(@, <<f, v, st.idx + 1>>)]
        step(st, i) ==
            LET f == sym[syms[i]].file
                new == i = 1 \/ sym[syms[i - 1]].file # f
                st1 == IF new /\ relr(f) THEN AddEntry(st, f, "GLIBC_ABI_DT_RELR") ELSE st
                st2 == IF NewVersion(syms, i) THEN AddEntry(st1, f, get_version(syms[i])) ELSE st1
            IN  [st2 EXCEPT !.versym[IndexOf(syms[i])] = st2.idx]
        base == IF image.versym # <<>> THEN start
                ELSE [start EXCEPT !.versym = [i \in 0..Len(dynsym) |->
                                                 IF i = 0 THEN VER_NDX_LOCAL ELSE VER_NDX_GLOBAL]]
        done == FoldLeft(step, base, [i \in DOMAIN syms |-> i])
    IN  /\ phase = "verneed"
        /\ image' = IF syms = <<>> THEN image
                    ELSE [image EXCEPT !.versym = done.versym, !.verneed = done.needs]
        /\ phase' = "copy_buf"
        /\ UNCHANGED <<in, at, sym, dynsym, errors, undefs>>
-----------------------------------------------------------------------------
(* Hash tables *)

bit_ceil(n) == IF n = 0 THEN 1 ELSE Min({2^i : i \in {i \in 0..12 : 2^i >= n}})

\* HashSection::copy_buf: symbols are pushed to the fronts of their chains.
HashTable ==
    LET n == Len(dynsym) + 1
        push(t, i) == LET b == elf_hash(dynsym[i][1]) % n
                      IN  [buckets |-> [t.buckets EXCEPT ![b] = i],
                           chains |-> [t.chains EXCEPT ![i] = t.buckets[b]]]
        zero == [i \in 0..n - 1 |-> 0]
    IN  FoldLeft(push, [buckets |-> zero, chains |-> zero], [i \in DOMAIN dynsym |-> i])

\* The bits of the bloom filter for hash h, in words of w bits.
BloomWord(h, w, n) == (h[1] * (65536 \div w) + h[2] \div w) % n
BloomBits(h, w) == {h[2] % w, (h[1] \div 2^(BLOOM_SHIFT - 16)) % w}

\* The i-th export is the last one of its bucket.
ChainEnds(buckets, i) == i = Len(buckets) \/ buckets[i] # buckets[i + 1]

\* GnuHashSection::update_shdr and copy_buf.  An entry of the table is a hash
\* without its lowest bit, and that bit, which marks the end of a chain.
GnuHashTable ==
    LET num_exported == Cardinality({k \in ToSet(dynsym) : Exported(k)})
        first == Len(dynsym) + 1 - num_exported
        num_buckets == num_exported \div LOAD_FACTOR + 1
        num_bloom == bit_ceil((num_exported * 12) \div opt.word_bits)
        h == [i \in 1..num_exported |-> djb_hash(dynsym[first + i - 1][1])]
        indices == [i \in 1..num_exported |-> Mod(h[i], num_buckets)]
    IN  [first |-> first, num_buckets |-> num_buckets, num_bloom |-> num_bloom,
         bloom |-> [w \in 0..num_bloom - 1 |->
                      UNION {BloomBits(h[i], opt.word_bits) :
                               i \in {i \in DOMAIN h : BloomWord(h[i], opt.word_bits, num_bloom) = w}}],
         buckets |-> [b \in 0..num_buckets - 1 |->
                        LET S == {i \in DOMAIN h : indices[i] = b}
                        IN  IF S = {} THEN 0 ELSE first + Min(S) - 1],
         table |-> [i \in DOMAIN h |-> [hash |-> <<h[i][1], h[i][2] \div 2>>,
                                        end |-> ChainEnds(indices, i)]]]

copy_buf ==
    /\ phase = "copy_buf"
    /\ image' = [image EXCEPT !.hash = IF opt.sysv_hash THEN <<HashTable>> ELSE <<>>,
                              !.gnu_hash = IF opt.gnu_hash THEN <<GnuHashTable>> ELSE <<>>]
    /\ phase' = "done"
    /\ UNCHANGED <<in, at, sym, dynsym, errors, undefs>>
-----------------------------------------------------------------------------
\* The symbols as resolve_symbols leaves them: the strongest definition owns a
\* symbol, and the visibilities of the objects' symbols are merged.
VisOf(k) ==
    LET v == {IF ~Esym(u[1], u[2]).undef /\ u[1] \in in.excl THEN "hidden" ELSE Esym(u[1], u[2]).vis :
                u \in {u \in Uses(k) : u[1] \in Objs}}
    IN  IF "hidden" \in v THEN "hidden" ELSE IF "protected" \in v THEN "protected" ELSE "default"

Resolved(k) ==
    LET class(u) == (IF u[1] \in Dsos THEN 3 ELSE 1) + (IF Esym(u[1], u[2]).weak THEN 1 ELSE 0)
        defs == {u \in Uses(k) : /\ ~Esym(u[1], u[2]).undef
                                 /\ u[1] \in Dsos => VisOf(k) # "hidden"}
        rank(u) == class(u) * 100 + Position(u[1])
        best == CHOOSE u \in defs : \A v \in defs : rank(u) <= rank(v)
        e == Esym(best[1], best[2])
        dso == best[1] \in Dsos
        verOf == IF e.ver = "" THEN VER_NDX_GLOBAL
                 ELSE VER_NDX_LAST_RESERVED
                        + (CHOOSE i \in DOMAIN in.vers[best[1]] : in.vers[best[1]][i] = e.ver)
        none == [file |-> "none", idx |-> 0, ver |-> VER_NDX_UNSPECIFIED, weak |-> FALSE,
                 imported |-> FALSE, exported |-> FALSE, copyrel |-> FALSE, vis |-> VisOf(k)]
    IN  IF defs = {} THEN none
        ELSE [none EXCEPT !.file = best[1], !.idx = best[2], !.weak = dso \/ e.weak,
                          !.ver = IF dso THEN verOf ELSE Script.default]

Init ==
    /\ in \in Inputs
    /\ phase = "apply_version_script"
    /\ at = [f \in Objs |-> 1]
    /\ sym = [k \in Keys |-> Resolved(k)]
    /\ dynsym = <<>> /\ errors = {} /\ undefs = {}
    /\ image = [versym |-> <<>>, verdef |-> <<>>, verneed |-> <<>>, hash |-> <<>>, gnu_hash |-> <<>>]

Stopped == phase \in {"done", "failed"} /\ UNCHANGED vars

Next ==
    \/ apply_version_script \/ parse_symbol_version \/ compute_import_export
    \/ \E f \in Objs : Claim(f)
    \/ EndClaim \/ scan_relocations \/ check_symbol_version_conflicts
    \/ compute_imported_symbol_weakness \/ sort_dynsyms \/ report_undef_errors
    \/ verdef \/ verneed \/ copy_buf \/ Stopped

Spec == Init /\ [][Next]_vars
-----------------------------------------------------------------------------
(* What a version script means *)

\* Pattern p applies to symbol k by its exact name, or otherwise.
IsExact(p) == ~p.cpp /\ ~has_wildcard(p.pat)
Applies(p, k) ==
    IF IsExact(p) THEN k = <<p.pat, "">>
    ELSE Means(p.pat, IF p.cpp THEN demangle_cpp(k[1]) ELSE k[1])

\* Exact names before other patterns, versions before "local:", and then the
\* last one in the script.
ScriptVersion(k) ==
    LET P == Script.patterns
        hits(exact, local) == {i \in DOMAIN P : /\ Applies(P[i], k) /\ IsExact(P[i]) = exact
                                                /\ (P[i].ver = VER_NDX_LOCAL) = local}
        choices == <<hits(TRUE, FALSE), hits(TRUE, TRUE), hits(FALSE, FALSE), hits(FALSE, TRUE)>>
        some == {n \in DOMAIN choices : choices[n] # {}}
    IN  IF some = {} THEN Script.default ELSE P[Max(choices[Min(some)])].ver

VersionIndex(v) == VER_NDX_LAST_RESERVED + Max({i \in DOMAIN Script.defs : Script.defs[i] = v})
Known(e) == e.ver \in ToSet(Script.defs)

\* A definition foo@VER in the same file displaces k = foo.
Displaced(k) ==
    /\ ~has_symver(OwnEsym(k))
    /\ \E i \in DOMAIN in.esyms[sym[k].file] :
          LET e == Esym(sym[k].file, i)
          IN  /\ e.name = k[1] /\ e.at = "@" /\ sym[KeyOf(e)].file = sym[k].file /\ Known(e)
              /\ ScriptVersion(k) = Script.default \/ ScriptVersion(k) = VersionIndex(e.ver)

\* Versions follow the script: when the version script and the suffixes have
\* been applied (passes.cc, apply_version_script and parse_symbol_version),
\* every symbol that an object defines has the version the script means for
\* it, whichever of the six matchers of Glob decided, unless its own suffix
\* gives it one or a versioned definition in its file displaces it.
VersionsFollowScript ==
    phase = "compute_import_export" =>
    \A k \in {k \in Keys : OwnedByObj(k)} :
       LET e == OwnEsym(k)
       IN  sym[k].ver = CASE opt.shared /\ e.at = "@@" /\ e.ver = "" -> VER_NDX_GLOBAL
                          [] opt.shared /\ has_symver(e) /\ Known(e) ->
                               VersionIndex(e.ver) + (IF e.at = "@" THEN VERSYM_HIDDEN ELSE 0)
                          [] opt.shared /\ Displaced(k) -> VER_NDX_LOCAL
                          [] OTHER -> ScriptVersion(k)
-----------------------------------------------------------------------------
(* What the dynamic linker binds *)

Defs(k) == {u \in Uses(k) : ~Esym(u[1], u[2]).undef /\ (u[1] \in Dsos => sym[k].vis # "hidden")}
Undefined(k) == Defs(k) = {}
Refs(k) == {u \in Uses(k) : u[1] \in Objs /\ Esym(u[1], u[2]).undef}
FirstRef(k) == CHOOSE u \in Refs(k) : \A v \in Refs(k) : Position(u[1]) <= Position(v[1])

IsStrong(u) == ~Esym(u[1], u[2]).weak

\* Undefined symbols are errors, and the file that claims k refers to it only
\* weakly while another file needs it.
IsMixed(k) ==
    /\ opt.unresolved_symbols = "error"
    /\ ~IsStrong(FirstRef(k)) /\ \E u \in Refs(k) : IsStrong(u)

\* What the manual says of -z defs and --no-undefined, "Report undefined symbols
\* (even with --shared)": a link with the option does not succeed if a file
\* has a reference, not a weak one, to a symbol that no file defines.
UndefinedIsReported ==
    phase = "done" /\ opt.unresolved_symbols = "error" =>
      \A k \in Keys : Undefined(k) => \A u \in Refs(k) : ~IsStrong(u)

\* Dynamic binding is sound.  Whatever the order in which the files claim
\* undefined symbols (passes.cc, claim_unresolved_symbols): such a symbol goes
\* to the first file that refers to it, and is imported by that file's rule.
\* Where undefined symbols are errors a link succeeds only if every reference
\* that is not weak has a definition; a symbol with mixed references that is
\* imported is the subject of UndefinedIsReported, and nothing is said of it
\* here.  An executable exports what its DSOs use, hidden and localised symbols
\* are never exported, only a copied or canonical definition of a DSO is
\* exported with all its aliases, and an import from a DSO is weak exactly if
\* all references to it are.
DynamicBindingIsSound ==
    /\ phase \notin {"apply_version_script", "parse_symbol_version", "compute_import_export",
                     "claim_unresolved_symbols", "failed"} =>
         \A k \in Keys : Undefined(k) /\ Refs(k) # {} =>
            LET u == FirstRef(k)
                e == Esym(u[1], u[2])
            IN  /\ sym[k].file = u[1] /\ ~sym[k].exported
                /\ ~IsMixed(k) => (sym[k].imported <=>
                     /\ sym[k].vis # "hidden"
                     /\ e.weak => opt.z_dynamic_undefined_weak
                     /\ ~e.weak => opt.shared /\ opt.unresolved_symbols # "error")
    /\ phase = "done" =>
         \A k \in Keys :
            /\ opt.unresolved_symbols = "error" /\ Undefined(k) /\ Refs(k) # {} =>
                 (IsMixed(k) /\ sym[k].imported) \/ \A u \in Refs(k) : ~IsStrong(u)
            /\ /\ ~opt.shared /\ OwnedByObj(k) /\ ~Undefined(k) /\ ~is_local(k)
               /\ \E u \in Uses(k) : u[1] \in Dsos
               => sym[k].exported
            /\ sym[k].vis = "hidden" => ~sym[k].exported /\ ~sym[k].imported
            /\ IsDso(k) /\ sym[k].exported =>
                 \E j \in DOMAIN in.need : /\ sym[j].file = sym[k].file
                                           /\ j = k \/ (sym[j].copyrel /\ OwnEsym(j).val = OwnEsym(k).val)
            /\ IsDso(k) /\ sym[k].copyrel =>
                 \A j \in Keys : sym[j].file = sym[k].file /\ OwnEsym(j).val = OwnEsym(k).val
                                   => sym[j].exported /\ sym[j].copyrel
            /\ IsDso(k) /\ Refs(k) # {} =>
                 /\ sym[k].imported
                 /\ sym[k].weak <=> \A u \in Refs(k) : Esym(u[1], u[2]).weak
-----------------------------------------------------------------------------
(* The dynamic linker's side: how it looks a name up (external)            *)

\* The symbols of that name in the chain that .gnu.hash gives for it.
GnuLookup(t, name) ==
    LET h == djb_hash(name)
        from == t.buckets[Mod(h, t.num_buckets)]
        entry(i) == t.table[i - t.first + 1]
        chain == {i \in from..Len(dynsym) : \A j \in from..i - 1 : ~entry(j).end}
    IN  IF from = 0 \/ ~(BloomBits(h, opt.word_bits)
                           \subseteq t.bloom[BloomWord(h, opt.word_bits, t.num_bloom)])
          THEN {}
          ELSE {i \in chain : entry(i).hash = <<h[1], h[2] \div 2>> /\ dynsym[i][1] = name}

\* No chain of .gnu.hash runs past the end of the table.
GnuChainsEnd(t) ==
    \A b \in DOMAIN t.buckets : t.buckets[b] # 0 =>
        \E i \in t.buckets[b]..Len(dynsym) : t.table[i - t.first + 1].end

\* The symbols of that name in the chain that .hash gives for it.
SysvLookup(t, name) ==
    LET after(S) == S \cup {t.chains[i] : i \in S}
        all == FoldLeft(LAMBDA S, i : after(S),
                        {t.buckets[elf_hash(name) % (Len(dynsym) + 1)]}, dynsym)
    IN  {i \in all \ {0} : dynsym[i][1] = name}

\* The version of the i-th symbol: where it is defined, and its name.
VersionSeen(i) ==
    LET v == BaseVer(image.versym[i])
        defs == {d \in ToSet(image.verdef) : d.ndx = v}
        needs == {n \in ToSet(image.verneed) : n[3] = v}
    IN  IF image.versym = <<>> \/ v <= VER_NDX_GLOBAL THEN {<<"", "">>}
        ELSE {<<"def", d.name>> : d \in defs} \cup {<<n[1], n[2]>> : n \in needs}

VersionMeant(k) ==
    LET e == OwnEsym(k)
    IN  IF IsDso(k) THEN IF e.ver = "" THEN <<"", "">> ELSE <<sym[k].file, e.ver>>
        ELSE IF e.undef \/ sym[k].ver = VER_NDX_UNSPECIFIED \/ BaseVer(sym[k].ver) <= VER_NDX_GLOBAL
          THEN <<"", "">>
        ELSE <<"def", Script.defs[BaseVer(sym[k].ver) - VER_NDX_LAST_RESERVED]>>

\* The loader finds the exports: in the written image (sort_dynsyms,
\* GnuHashSection, HashSection, VerdefSection and VerneedSection) a lookup of
\* any name through .gnu.hash meets exactly the exports of that name and
\* through .hash all dynamic symbols of that name; locals come first; each
\* symbol has one version, the one it was given or its DSO gives it, hidden
\* exactly if it is not the default; and a DSO has no two definitions of one
\* name and version that are not weak.
LoaderFindsExports ==
    phase = "done" =>
    LET idx == DOMAIN dynsym
        own(i) == OwnedByObj(dynsym[i]) /\ ~OwnEsym(dynsym[i]).undef
    IN  /\ \A n \in {k[1] : k \in Keys} :
              /\ \A t \in ToSet(image.gnu_hash) :
                    GnuChainsEnd(t) /\ GnuLookup(t, n) = {i \in idx : Exported(dynsym[i]) /\ dynsym[i][1] = n}
              /\ \A t \in ToSet(image.hash) : SysvLookup(t, n) = {i \in idx : dynsym[i][1] = n}
        /\ \A i, j \in idx : i < j /\ is_local(dynsym[j]) => is_local(dynsym[i])
        /\ \A i \in idx : ~is_local(dynsym[i]) => VersionSeen(i) = {VersionMeant(dynsym[i])}
        /\ opt.shared /\ image.versym # <<>> =>
              \A i \in idx : own(i) /\ Exported(dynsym[i]) =>
                  (IsHiddenVer(image.versym[i]) <=> OwnEsym(dynsym[i]).at = "@")
        /\ opt.shared /\ ~opt.allow_multiple_definition =>
              \A i, j \in {x \in idx : own(x) /\ Exported(dynsym[x]) /\ ~sym[dynsym[x]].weak} :
                 i # j /\ dynsym[i][1] = dynsym[j][1] => VersionSeen(i) # VersionSeen(j)
=============================================================================
