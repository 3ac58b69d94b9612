---------------------------- MODULE MCRateLimit ----------------------------
(***************************************************************************)
(* Instances of RateLimit for TLC.                                         *)
(***************************************************************************)
EXTENDS RateLimit, TLC

CONSTANTS alice, bob

Rule(requests, burst, action) ==
  [requests |-> requests, window |-> 1, burst |-> burst, action |-> action]

(***************************************************************************)
(* Limits of two requests (one and a burst of one, given or by default).   *)
(***************************************************************************)
EveryAction ==
  {Rule(1, 1, "throttle"), Rule(1, 0, "deny"), Rule(1, 1, "log")}

WorkerSymmetry == Permutations(Workers)
ClientSymmetry == WorkerSymmetry \cup Permutations(IPs)
=============================================================================
