------------------------ MODULE MCArchitecturePlane -------------------------
(* Small AS-IS models for TLC.                                              *)
EXTENDS ArchitecturePlane, TLC

ClientSymmetry == Permutations(Clients)

Part(parent, maps) == [text |-> "before", parent |-> parent, maps |-> maps]

(* A component with a mapping below two that were created later, and a      *)
(* relation in each direction between the first and the others.             *)
MCNested ==
  {[comps |-> <<Part(2, Entities), Part(3, {}), Part(None, {})>>,
    rels |-> [r \in {4, 5} |-> IF r = 4 THEN [kind |-> "USES", src |-> 1, dst |-> 3]
                               ELSE [kind |-> "CALLS", src |-> 2, dst |-> 1]]]}

(* Two components side by side.                                             *)
MCBeside == {[comps |-> <<Part(None, {}), Part(None, {})>>, rels |-> <<>>]}
==============================================================================
