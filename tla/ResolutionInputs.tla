-------------------------- MODULE ResolutionInputs --------------------------
(***************************************************************************)
(* Inputs of resolve_symbols, in the form SymbolResolution takes them.     *)
(***************************************************************************)
EXTENDS Integers, Sequences

MCNames == {"foo", "foo@V", "bar", "g"}

E(n, k) == [name |-> n, kind |-> k, vis |-> "default", group |-> "none", name2 |-> "none"]
Hidden(e) == [e EXCEPT !.vis = "hidden"]
InGroup(e, g) == [e EXCEPT !.group = g]
Versioned(e, n2) == [e EXCEPT !.name2 = n2]

\* Files in command-line order; priorities are their positions.
Link(order, esyms, dsos, asNeeded) ==
    [files |-> {order[i] : i \in DOMAIN order}, dsos |-> dsos, asNeeded |-> asNeeded,
     prio |-> [f \in {order[i] : i \in DOMAIN order} |->
                 10000 + (CHOOSE i \in DOMAIN order : order[i] = f)],
     esyms |-> esyms, undefined |-> {}, glob |-> {}, shlibUndef |-> TRUE,
     excl |-> {}, ir |-> {}, lto |-> {}]

\* An archive member that defines foo comes before a DSO that does, and needs
\* bar from a second member; a third object wants foo@V, the DSO's default.
Archive ==
    Link(<<"main", "liba", "libb", "so", "x">>,
         [main |-> <<E("foo", "undef")>>,
          liba |-> <<E("foo", "weak"), E("bar", "undef")>>,
          libb |-> <<E("bar", "def")>>,
          so |-> <<Versioned(E("foo", "def"), "foo@V"), E("bar", "undef")>>,
          x |-> <<E("foo@V", "undef")>>],
         {"so"}, {"liba", "libb", "so"})

\* foo is hidden in main but first found in a DSO, so that resolution is
\* redone; then liba, which comes last, defines it, and defines bar as well.
Redo ==
    Link(<<"main", "so", "x", "liba">>,
         [main |-> <<Hidden(E("foo", "undef")), E("bar", "wundef")>>,
          so |-> <<Versioned(E("foo", "def"), "foo@V"), E("bar", "def")>>,
          x |-> <<E("foo@V", "undef")>>,
          liba |-> <<E("foo", "def"), E("bar", "def")>>],
         {"so"}, {"liba"})

\* Three copies of the group g, one in an archive member that precedes main;
\* bar is common in main and defined in liba.
Comdat ==
    Link(<<"liba", "main", "x">>,
         [liba |-> <<InGroup(E("g", "weak"), "g"), E("foo", "def"), E("bar", "def")>>,
          main |-> <<InGroup(E("g", "weak"), "g"), E("foo", "undef"), E("bar", "common")>>,
          x |-> <<InGroup(E("g", "weak"), "g"), E("bar", "common")>>],
         {}, {"liba"})

\* Two IR files, one of which has the group g to itself; after LTO the result
\* no longer needs bar, and so liba's copy of g is gone, but needs foo, whose
\* definer libb brings its own copy of g.
Lto ==
    [Link(<<"out", "ir", "liba", "libb">>,
          [out |-> <<InGroup(E("g", "def"), "g"), E("foo", "undef")>>,
           ir |-> <<InGroup(E("g", "weak"), "g"), E("bar", "undef")>>,
           liba |-> <<E("bar", "def")>>,
           libb |-> <<InGroup(E("g", "weak"), "g"), E("foo", "def")>>],
          {}, {"liba", "libb"})
     EXCEPT !.ir = {"ir"}, !.lto = {"out"}]

\* The same with a compiler that emits the claimed group's contents without a
\* group: nobody may own it any more.
LtoWithoutGroup == [Lto EXCEPT !.esyms["out"][1].group = "none"]

\* -u extracts liba; --undefined-glob libb; --exclude-libs hides bar, which
\* then must not come from the DSO.
Options ==
    [Link(<<"main", "liba", "so", "libb">>,
          [main |-> <<E("bar", "undef")>>,
           liba |-> <<E("foo", "common")>>,
           so |-> <<E("bar", "def"), E("foo", "undef")>>,
           libb |-> <<E("bar", "weak"), E("g", "def")>>],
          {"so"}, {"liba", "libb"})
     EXCEPT !.undefined = {"foo"}, !.glob = {"g"}, !.shlibUndef = FALSE, !.excl = {"libb"}]

\* Every combination of kinds of foo in an object, two archive members and a
\* DSO, in two orders; liba also needs bar from libb.
NoSym == E("g", "wundef")
Orders == {<<"main", "liba", "so", "libb">>, <<"libb", "so", "liba", "main">>}

Kinds ==
    {Link(o, [main |-> <<m>>, liba |-> <<a, E("bar", "undef")>>,
              libb |-> <<E("bar", "def"), b>>, so |-> <<d>>],
          {"so"}, {"liba", "libb", "so"})
     : o \in Orders,
       m \in {E("foo", "undef"), E("foo", "wundef"), Hidden(E("foo", "undef")),
              Hidden(E("foo", "wundef")), E("foo", "common"), E("foo", "weak")},
       a \in {E("foo", "def"), E("foo", "weak"), E("foo", "common"), NoSym},
       b \in {E("foo", "def"), E("foo", "weak"), Hidden(E("foo", "undef")), NoSym},
       d \in {E("foo", "def"), E("foo", "weak"),
              Versioned(E("foo", "def"), "foo@V")}}

\* foo is hidden and weakly referred to; liba would define it but nothing
\* extracts liba; the DSO is needed for bar.
WeakHidden ==
    Link(<<"main", "liba", "so">>,
         [main |-> <<Hidden(E("foo", "wundef")), E("bar", "undef")>>,
          liba |-> <<E("foo", "def")>>,
          so |-> <<E("foo", "def"), E("bar", "def")>>],
         {"so"}, {"liba"})

MCInputs == {Archive, Redo, Comdat, Lto, LtoWithoutGroup, Options, WeakHidden} \cup Kinds
=============================================================================
