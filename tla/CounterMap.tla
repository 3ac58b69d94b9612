----------------------------- MODULE CounterMap -----------------------------
(***************************************************************************)
(* What the callers of src/htaccess_shm.c rely on: a map from keys to      *)
(* records in which a written record is the one found, nothing but a stale *)
(* record ever disappears, and a write may fail only for a new key.        *)
(***************************************************************************)
EXTENDS Integers

CONSTANTS Keys, Records, Staleness

VARIABLES
  now,    \* The clock.
  map     \* What is stored under each key.

Absent == [present |-> FALSE, record |-> [count |-> 0, first |-> 0]]
Stored(r) == [present |-> TRUE, record |-> r]

Init == map = [k \in Keys |-> Absent]

Put(k, r) == map' = [map EXCEPT ![k] = Stored(r)]

Reject(k) == ~ map[k].present /\ UNCHANGED map

Stale(k) == map[k].present /\ now - map[k].record.first > Staleness

Expire == map' = [k \in Keys |-> IF Stale(k) THEN Absent ELSE map[k]]

Clear == map' = [k \in Keys |-> Absent]

Next ==
  \/ \E k \in Keys, r \in Records : Put(k, r)
  \/ \E k \in Keys : Reject(k)
  \/ Expire
  \/ Clear

Spec == Init /\ [][Next]_map
=============================================================================
