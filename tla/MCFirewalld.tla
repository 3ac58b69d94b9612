---------------------------- MODULE MCFirewalld ----------------------------
(***************************************************************************)
(* Instances of Firewalld for TLC.                                         *)
(***************************************************************************)
EXTENDS Firewalld

CONSTANTS attacker, other
=============================================================================
