----------------------------- MODULE MCJnsRuntime -----------------------------
(***************************************************************************)
(* Instances of JnsRuntime for TLC.                                         *)
(***************************************************************************)
EXTENDS JnsRuntime

CONSTANTS alice, bob, w1, w2

Symmetry == Permutations({alice, bob}) \cup Permutations({w1, w2})

=============================================================================
