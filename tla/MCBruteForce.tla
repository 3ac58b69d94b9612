---------------------------- MODULE MCBruteForce ----------------------------
(***************************************************************************)
(* Instances of BruteForce for TLC.                                        *)
(***************************************************************************)
EXTENDS BruteForce, TLC

CONSTANTS attacker, proxy

MCIPs == {attacker, proxy}

Rule(action, allowed) ==
  [enabled |-> TRUE, allowed |-> allowed, window |-> 2, action |-> action,
   xff |-> FALSE, proxies |-> {}, whitelist |-> {}, paths |-> {}]

From(ip, post, policy) ==
  [peer |-> ip, xff |-> NoHeader, post |-> post, path |-> "login",
   policy |-> policy]

(***************************************************************************)
(* One blocking policy, GET and POST, one address.                         *)
(***************************************************************************)
BlockAfter2 == {From(attacker, post, Rule("block", 2)) : post \in BOOLEAN}

(***************************************************************************)
(* Every action and every way around the check, with one threshold.        *)
(***************************************************************************)
Trusting == [Rule("block", 2) EXCEPT !.xff = TRUE, !.proxies = {proxy}]

EveryAction ==
  {From(attacker, TRUE, Rule(action, 2)) : action \in Actions}
  \cup {From(attacker, FALSE, Rule("block", 2))}
  \cup {[From(proxy, TRUE, Trusting) EXCEPT !.xff = attacker]}
  \cup {From(proxy, TRUE, [Rule("block", 2) EXCEPT !.whitelist = {proxy}])}
  \cup {From(proxy, TRUE, [Rule("block", 2) EXCEPT !.paths = {"admin"}])}
  \cup {From(proxy, TRUE, Rule("block", 2))}

WorkerSymmetry == Permutations(Workers)
=============================================================================
