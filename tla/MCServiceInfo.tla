---------------------------- MODULE MCServiceInfo ----------------------------
(***************************************************************************)
(* Lengths on both sides of each change of the prefix.                     *)
(***************************************************************************)
EXTENDS ServiceInfo

SomeLengths == (0..2) \cup (60..100) \cup (16380..16390) \cup {65535, 65536, 1048576}
=============================================================================
