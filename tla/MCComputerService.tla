-------------------------- MODULE MCComputerService --------------------------
(***************************************************************************)
(* Instances of ComputerService for TLC.                                   *)
(***************************************************************************)
EXTENDS ComputerService, TLC

CONSTANTS p, f, g

MCPaths == {NoPath, Root, p}
Symmetry == Permutations(Accounts)

=============================================================================
