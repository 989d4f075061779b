---------------------------- MODULE MCRiskBuild ----------------------------
(* Small instances of RiskBuild for TLC. *)
EXTENDS RiskBuild, TLC

Symmetric == Permutations(Coordinators)
=============================================================================
