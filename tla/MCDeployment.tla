------------------------------ MODULE MCDeployment ------------------------------
(***************************************************************************)
(* Deployment for TLC: clients of a kind are alike.                        *)
(***************************************************************************)
EXTENDS DeploymentInvariant, TLC

Symmetry == Permutations(Migrators) \cup Permutations(Requests)
=================================================================================
