--------------------------- MODULE MCRelocations ----------------------------
(***************************************************************************)
(* Every access of every target, alone and beside one of the other         *)
(* accesses to the same symbol, for every kind of output and of symbol.    *)
(***************************************************************************)
EXTENDS Relocations

Opt(k, relax, dlopen) ==
  [shared |-> k = "shared", pie |-> k \in {"pie", "static_pie"},
   static |-> k \in {"static", "static_pie"}, relax |-> relax, dlopen |-> dlopen]

MCOptions ==
  {Opt(k, TRUE, FALSE) : k \in {"exec", "pie", "shared"}} \union {Opt(k, FALSE, FALSE) : k \in {"exec", "pie"}}
    \union {Opt("static", TRUE, FALSE), Opt("static_pie", TRUE, FALSE), Opt("shared", TRUE, TRUE)}

Sym(type, imported, undefweak, origin) ==
  [type |-> type, imported |-> imported, undefweak |-> undefweak, origin |-> origin]

\* A definition in a section, one in a shared library, an undefined weak symbol
\* that is left to the dynamic linker or (of functions) stays undefined, and an
\* absolute symbol.
Section(type) == Sym(type, FALSE, FALSE, "section")
Imported(type) == Sym(type, TRUE, FALSE, "none")
ImportedWeak(type) == Sym(type, TRUE, TRUE, "none")

MCSymbols ==
  {Section(t) : t \in {"FUNC", "OBJECT", "TLS", "IFUNC"}}
    \union {Imported(t) : t \in {"FUNC", "OBJECT", "TLS"}}
    \union {ImportedWeak(t) : t \in {"FUNC", "OBJECT"}}
    \union {Sym("FUNC", FALSE, TRUE, "none"), Sym("FUNC", FALSE, FALSE, "none")}

====
