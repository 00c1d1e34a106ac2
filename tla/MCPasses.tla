------------------------------ MODULE MCPasses ------------------------------
(***************************************************************************)
(* The program that goes through all the passes is made of two object      *)
(* files and three DSOs.  In both objects there is a copy of the COMDAT    *)
(* group g: section d, and section gone, which does not survive.           *)
(*                                                                         *)
(* Garbage collection: main is a root by its symbol and a CIE refers to it *)
(* too, foo1 is kept by its name; main and foo1 both fan out over the      *)
(* sections named foo, foo1 and foo2; visits race for a and ls, which form *)
(* a cycle.  dead refers to much but nothing refers to it; dbg is not      *)
(* SHF_ALLOC; a CIE too names a symbol of the DSO d1.                      *)
(*                                                                         *)
(* ICF: functions a, c, d and e have equal contents, and so have the       *)
(* exception tables ls and lt their FDEs refer to.  ls refers to a         *)
(* function and lt to itself; that sets them apart after one propagation,  *)
(* and e from the others after another.  memcpy, in a, can be interposed.  *)
(***************************************************************************)
EXTENDS Passes, ResolutionInputs

MCProgram ==
    Link(<<"main", "x", "d1", "d2", "d3">>,
         [main |-> <<E("memcpy", "def"), E("foo", "def"), InGroup(E("g", "weak"), "g"),
                     E("bar", "undef")>>,
          x |-> <<E("foo", "undef"), InGroup(E("g", "weak"), "g"), E("q", "undef"),
                  E("memcpy", "undef"), E("bar", "undef")>>,
          d1 |-> <<E("bar", "def")>>, d2 |-> <<E("q", "def")>>, d3 |-> <<>>],
         {"d1", "d2", "d3"}, {"d1", "d2"})

PassesInputs == MCInputs \cup {MCProgram}
PassesNames == MCNames \cup {"memcpy", "q"}

MCSecs == {"a", "c", "d", "e", "ls", "lt"}
MCSections == MCSecs \cup {"main", "foo1", "foo2", "dead", "dbg", "gone"}
MCAlloc == MCSections \ {"dbg"}
MCAlive == MCSections \ {"gone"}
MCName == [s \in MCSections |-> IF s \in {"foo1", "foo2"} THEN "foo" ELSE "none"]
MCFileOf == [s \in MCSections |->
               IF s \in {"main", "a", "c", "d", "ls"} THEN "main" ELSE "x"]
MCGroupOf == [s \in MCSections |-> IF s \in {"d", "gone"} THEN "g" ELSE "none"]
MCSecOf == [main |-> <<"a", "c", "d", "none">>, x |-> <<"none", "gone", "none", "none", "none">>]

Sec(s) == [kind |-> "sec", to |-> s, ss |-> "none"]
Fde(s) == [kind |-> "fde", to |-> s, ss |-> "none"]
StartFoo == [kind |-> "sec", to |-> "none", ss |-> "foo"]
Frag(f) == [kind |-> "frag", to |-> f, ss |-> "none"]
Dso(d) == [kind |-> "dso", to |-> d, ss |-> "none"]

MCRels == [s \in MCSections |->
    CASE s = "main" -> <<Frag("f1"), StartFoo>>
      [] s \in {"a", "c", "d"} -> <<Fde("ls"), Dso("d1")>>
      [] s = "e" -> <<Fde("lt"), Dso("d1")>>
      [] s = "ls" -> <<Sec("a"), Sec("a")>>
      [] s = "lt" -> <<Sec("lt"), Sec("a")>>
      [] s = "foo1" -> <<Sec("c"), StartFoo>>
      [] s = "foo2" -> <<Sec("d"), Sec("e")>>
      [] s = "dead" -> <<Sec("a"), Frag("f2"), Dso("d2")>>
      [] s = "dbg" -> <<Sec("dead")>>
      [] OTHER -> <<>>]
MCRefSyms == [s \in MCSections |->
    CASE s \in {"a", "c", "d", "e"} -> <<"none", "bar">>
      [] s \in {"ls", "lt"} -> <<"none", "memcpy">>
      [] s = "foo1" -> <<"foo", "none">>
      [] s = "foo2" -> <<"g", "none">>
      [] s = "dead" -> <<"memcpy", "none", "q">>
      [] OTHER -> <<>>]

MCRootSyms == {Sec("main"), Frag("f3")}
MCCieRefs == {Sec("main"), Sec("gone"), Dso("d1")}

MCLive == MCSections \ {"dead", "gone"}
MCKind == [s \in MCLive |-> CASE s \in {"ls", "lt"} -> "except_table"
                              [] s \in {"foo1", "foo2", "dbg"} -> "other"
                              [] OTHER -> "exec"]
MCPriority == [a |-> 5, c |-> 2, d |-> 4, e |-> 3, ls |-> 1, lt |-> 6]
MCBody == [s \in MCLive |-> MCKind[s]]
MCIcfRefs == [s \in MCSecs |-> [n \in DOMAIN MCRels[s] |->
                [sym |-> IF MCRefSyms[s][n] # "none" THEN MCRefSyms[s][n] ELSE MCRels[s][n].to,
                 fde |-> MCRels[s][n].kind = "fde", attr |-> MCRels[s][n].kind]]]
MCSyms == MCLive \cup {"memcpy", "bar"}
MCSymSec == [y \in MCSyms |-> CASE y = "memcpy" -> "a" [] y = "bar" -> "none" [] OTHER -> y]
MCValue == [y \in MCSyms |-> 0]
MCAlign == [s \in MCSecs |-> CASE s = "a" -> 4 [] s = "d" -> 3 [] OTHER -> 2]

\* The functions have the table's last slot as their home, with equal tags; a
\* probe that goes on from there finds the slot of ls, with another tag.
Colliding ==
    [s \in MCSecs |-> [home |-> CASE s = "lt" -> 8 [] s = "ls" -> 0 [] OTHER -> 15,
                       tag |-> IF s = "ls" THEN 1 ELSE 2]]
MCHashes == {Colliding}
=============================================================================
