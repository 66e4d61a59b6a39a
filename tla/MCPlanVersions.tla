---------------------------- MODULE MCPlanVersions ----------------------------
(* A small instance of PlanVersions for TLC.                               *)
EXTENDS PlanVersions, TLC

VersionSymmetry == Permutations(Versions)

=============================================================================
