------------------------------- MODULE Server -------------------------------
(***************************************************************************)
(* The server the module is loaded into: worker processes that share       *)
(* nothing but files and the clock.                                        *)
(***************************************************************************)
CONSTANT Workers
VARIABLE clock   \* the second it is
=============================================================================
