----------------------------- MODULE MCShmTable -----------------------------
(***************************************************************************)
(* Three slots, four keys; three of the keys collide on the last slot, so  *)
(* that probing wraps around.                                              *)
(***************************************************************************)
EXTENDS ShmTable, TLC

CONSTANTS a, b, c, d

MCHash == (a :> 2) @@ (b :> 2) @@ (c :> 2) @@ (d :> 0)
=============================================================================
