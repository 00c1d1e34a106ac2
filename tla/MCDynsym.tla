------------------------------ MODULE MCDynsym ------------------------------
(***************************************************************************)
(* Instances of Dynsym.  Names are made of the letters a and b, so that    *)
(* many patterns meet the same name.  ScriptLinks pair the commands of a   *)
(* version script, ClaimLinks let three objects refer to and define the    *)
(* same symbols under all options about undefined symbols, ExportLinks mix *)
(* visibilities, -Bsymbolic and dynamic lists, and TableLinks have enough  *)
(* symbols for two buckets, two versioned DSOs, and copied data.           *)
(***************************************************************************)
EXTENDS Dynsym, TLC

a == 97
b == 98

Options ==
    [shared |-> TRUE, export_dynamic |-> FALSE, Bsymbolic |-> "none",
     dynamic_list_data |-> FALSE, z_dynamic_undefined_weak |-> TRUE,
     unresolved_symbols |-> "ignore", gnu_hash |-> TRUE, sysv_hash |-> TRUE,
     default_symver |-> FALSE, allow_multiple_definition |-> FALSE,
     pack_dyn_relocs_relr |-> FALSE, z_copyreloc |-> TRUE, word_bits |-> 64]

Exe == [Options EXCEPT !.shared = FALSE, !.z_dynamic_undefined_weak = FALSE,
                       !.unresolved_symbols = "error"]

Link == [objs |-> <<"o1">>, dsos |-> <<>>, esyms |-> [f \in {} |-> <<>>],
         vers |-> [f \in {} |-> <<>>], excl |-> {}, glibc |-> {}, script |-> <<>>,
         dynlist |-> <<>>, need |-> [k \in {} |-> ""], opt |-> Options]

Def(n) == [name |-> n, at |-> "", ver |-> "", undef |-> FALSE, weak |-> FALSE,
           vis |-> "default", type |-> "func", val |-> 0]
Und(n) == [Def(n) EXCEPT !.undef = TRUE]
WeakDef(n) == [Def(n) EXCEPT !.weak = TRUE]
WeakUnd(n) == [Und(n) EXCEPT !.weak = TRUE]
At(e, suffix, v) == [e EXCEPT !.at = suffix, !.ver = v]
Vis(e, v) == [e EXCEPT !.vis = v]
Data(e, v) == [e EXCEPT !.type = "object", !.val = v]

\* The mangled name bbb stands for a.
MCDemangle == <<b, b, b>> :> <<a>>
-----------------------------------------------------------------------------
Patterns == {<<StarCh>>, <<a>>, <<a, b>>, <<a, StarCh>>, <<StarCh, b>>,
             <<StarCh, a, a, b, StarCh>>, <<StarCh, b, a, StarCh>>, <<a, QuestionCh>>,
             <<OpenCh, a, DashCh, b, CloseCh, b>>, <<OpenCh, 33, a, CloseCh, StarCh>>,
             <<a, StarCh, QuestionCh, b>>, <<StarCh, StarCh>>, <<a, EscapeCh, b, StarCh>>,
             <<a, OpenCh, b>>}

Cmd(p, g, c) == [pat |-> p, global |-> g, cpp |-> c]
Cmds == {Cmd(p, g, FALSE) : p \in Patterns, g \in BOOLEAN}
CppCmds == {Cmd(<<a>>, g, TRUE) : g \in BOOLEAN} \cup {Cmd(<<StarCh, b>>, TRUE, TRUE)}

ScriptSyms ==
    [i \in 1..9 |-> Def(<<<<a>>, <<b>>, <<a, b>>, <<b, a>>, <<a, a>>, <<a, a, b>>, <<a, b, a>>,
                          <<a, a, a, b>>, <<b, b, b>>>>[i])]
      \o <<At(Def(<<b, b>>), "@@", "V1"), At(Def(<<a>>), "@", "V2"), At(Def(<<b, b>>), "@", "V2"),
           At(Def(<<b, b, a>>), "@@", "")>>

ScriptLinks ==
    {[Link EXCEPT !.esyms = "o1" :> ScriptSyms,
                  !.script = <<[ver |-> "V1", cmds |-> <<c>>], [ver |-> "V2", cmds |-> <<d>>]>>,
                  !.opt.word_bits = 32] :
       c \in Cmds, d \in {x \in Cmds : x.pat \in {<<a>>, <<a, StarCh>>, <<a, QuestionCh>>,
                                                   <<StarCh, a, a, b, StarCh>>}} \cup CppCmds}
    \cup {[Link EXCEPT !.esyms = "o1" :> SubSeq(ScriptSyms, 1, 9),
                       !.script = <<[ver |-> "", cmds |-> <<c, Cmd(<<StarCh>>, FALSE, FALSE)>>]>>,
                       !.opt.shared = sh, !.opt.export_dynamic = TRUE] :
            c \in Cmds \cup CppCmds, sh \in BOOLEAN}
-----------------------------------------------------------------------------
ClaimOpts ==
    {[Options EXCEPT !.shared = t[1], !.unresolved_symbols = t[2], !.z_dynamic_undefined_weak = t[3]] :
       t \in {<<TRUE, "ignore", TRUE>>, <<TRUE, "error", TRUE>>, <<TRUE, "error", FALSE>>,
              <<FALSE, "error", FALSE>>, <<FALSE, "error", TRUE>>, <<FALSE, "warn", FALSE>>}}

ClaimLinks ==
    {[Link EXCEPT !.objs = <<"o1", "o2", "o3">>, !.opt = o,
                  !.esyms = "o1" :> <<x, v>> @@ "o2" :> <<WeakUnd(<<b>>), y>> @@ "o3" :> <<z>>] :
       x \in {Und(<<a>>), WeakUnd(<<a>>)}, y \in {Und(<<a>>), WeakUnd(<<a>>), Def(<<a>>)},
       z \in {Und(<<a>>), WeakUnd(<<a>>), WeakDef(<<a>>), Vis(Und(<<a>>), "hidden")},
       v \in {Und(<<b>>), Vis(Und(<<b>>), "hidden"), WeakUnd(<<b>>)}, o \in ClaimOpts}
-----------------------------------------------------------------------------
\* o1 defines a and ab, o2 comes from an excluded archive; d1 uses a, ba and
\* bb, and defines b and aa.
ExportLinks ==
    {[Link EXCEPT !.objs = <<"o1", "o2">>, !.dsos = <<"d1">>, !.opt = o, !.excl = x,
                  !.vers = "d1" :> <<>>, !.dynlist = l,
                  !.script = IF s = "" THEN <<>>
                             ELSE <<[ver |-> "", cmds |-> <<Cmd(<<b, StarCh>>, FALSE, FALSE)>>]>>,
                  !.esyms = "o1" :> <<Vis(Def(<<a>>), v), Data(WeakDef(<<a, b>>), 0), Und(<<b>>),
                                      WeakUnd(<<a, a>>)>>
                         @@ "o2" :> <<Def(<<b, a>>), Def(<<b, b>>), WeakUnd(<<b>>)>>
                         @@ "d1" :> <<Und(<<a>>), Und(<<b, a>>), Def(<<b>>), Def(<<a, a>>), Und(<<b, b>>)>>] :
       v \in {"default", "protected", "hidden"}, x \in {{}, {"o2"}}, s \in {"", "local"},
       l \in {<<>>, <<[pat |-> <<a>>, cpp |-> FALSE], [pat |-> <<StarCh, b>>, cpp |-> FALSE]>>,
              <<[pat |-> <<b, b>>, cpp |-> TRUE]>>, <<[pat |-> <<OpenCh, a>>, cpp |-> FALSE]>>},
       o \in {[Options EXCEPT !.Bsymbolic = y] :
                y \in {"none", "all", "functions", "non-weak", "non-weak-functions"}}
             \cup {[Exe EXCEPT !.export_dynamic = e, !.dynamic_list_data = d] :
                     e \in BOOLEAN, d \in BOOLEAN}}
-----------------------------------------------------------------------------
\* Data at one address of d1 has two names; d1 and d2 have a version each
\* with the same index.
Many == [i \in 1..8 |-> Def(<<<<a, a>>, <<a, b>>, <<b, a>>, <<b, b>>, <<a, a, a>>, <<a, a, b>>,
                              <<b, b, a>>, <<b, a, b>>>>[i])]

TableLinks ==
    {[Link EXCEPT !.dsos = <<"d1", "d2">>, !.glibc = {"d1"}, !.opt = o,
                  !.vers = "d1" :> <<"G1", "G2">> @@ "d2" :> <<"G1">>,
                  !.script = s, !.need = n,
                  !.esyms = "o1" :> Many \o m \o <<Und(<<a>>), Und(<<b>>), At(Und(<<b>>), "@", "G1")>>
                         @@ "d1" :> <<At(Data(Def(<<a>>), 8), "@@", "G1"), At(Data(Def(<<a, b, b>>), 8), "@@", "G2"),
                                      At(Def(<<b>>), "@", "G1")>>
                         @@ "d2" :> <<At(Def(<<b>>), "@@", "G1"), Und(<<a, b>>)>>] :
       n \in {[k \in {} |-> ""], <<<<a>>, "">> :> "canonical" @@ <<<<b>>, "">> :> "canonical",
              <<<<a, a>>, "">> :> "plt"},
       m \in {<<>>, <<Def(<<b, b, b>>)>>, <<At(Def(<<a, a>>), "@", "V1")>>, <<At(Def(<<a, a>>), "@", "V2")>>},
       s \in {<<>>, <<[ver |-> "V1", cmds |-> <<Cmd(<<a, a>>, TRUE, FALSE), Cmd(<<b, a>>, FALSE, FALSE)>>]>>},
       o \in {[Options EXCEPT !.default_symver = d, !.gnu_hash = g, !.allow_multiple_definition = al] :
                d \in BOOLEAN, g \in BOOLEAN, al \in BOOLEAN}
             \cup {[Exe EXCEPT !.export_dynamic = TRUE, !.pack_dyn_relocs_relr = r, !.z_copyreloc = z] :
                     r \in BOOLEAN, z \in BOOLEAN}}

\* Relocations ask for a canonical address only in executables, and for a PLT
\* entry of a symbol the output defines.
Sensible(l) == \A k \in DOMAIN l.need : l.need[k] = "canonical" => ~l.opt.shared

\* Two definitions of one versioned name in two files.
ConflictLinks ==
    {[Link EXCEPT !.objs = <<"o1", "o2">>, !.opt.allow_multiple_definition = al,
                  !.script = <<[ver |-> "V1", cmds |-> c]>>,
                  !.esyms = "o1" :> <<At(x, "@", "V1")>> @@ "o2" :> <<y>>] :
       x \in {Def(<<a>>), WeakDef(<<a>>)}, y \in {Def(<<a>>), At(Def(<<a>>), "@@", "V1")},
       c \in {<<>>, <<Cmd(<<a>>, TRUE, FALSE)>>, <<Cmd(<<StarCh>>, TRUE, FALSE)>>}, al \in BOOLEAN}

\* Shared objects linked with -z defs.
DefsLinks == {l \in ClaimLinks : l.opt.shared /\ l.opt.unresolved_symbols = "error"}

MCInputs == ScriptLinks \cup ClaimLinks \cup ExportLinks
              \cup {l \in TableLinks : Sensible(l)} \cup ConflictLinks
=============================================================================
