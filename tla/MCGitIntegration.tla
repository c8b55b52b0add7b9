-------------------------- MODULE MCGitIntegration --------------------------
(* Model-checking instance of GitIntegration. *)
EXTENDS GitIntegration, TLC

(* Integrations are alike; every property treats them alike. *)
IntegrationSymmetry == Permutations(Integrations)
=============================================================================
