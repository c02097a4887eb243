---------------------------- MODULE MCProvisioning ----------------------------
(* Instances of Provisioning for TLC. *)
EXTENDS Provisioning

CONSTANTS tab1, tab2, alice, bob, carol

=============================================================================
