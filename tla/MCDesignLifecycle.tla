------------------------- MODULE MCDesignLifecycle -------------------------
(* Model-checking instance of DesignLifecycle. *)
EXTENDS DesignLifecycle, TLC

ClientSymmetry == Permutations(Clients)
=============================================================================
