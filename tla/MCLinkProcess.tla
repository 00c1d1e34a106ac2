--------------------------- MODULE MCLinkProcess ---------------------------
(* Two runs that write the same files, at the same time or one after the    *)
(* other, with every combination of the options that matter.                *)
EXTENDS LinkProcess, TLC

CONSTANTS r1, r2

Options ==
  [debug : BOOLEAN, detach : BOOLEAN, overwrite : BOOLEAN, jobs : BOOLEAN]

MCRuns == {r1, r2}

MCWorlds ==
  {[opt |-> [r \in MCRuns |-> o], after |-> a] :
     o \in Options,
     a \in {[r \in MCRuns |-> {}], (r1 :> {}) @@ (r2 :> {r1})}}
=============================================================================
