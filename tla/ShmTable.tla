------------------------------ MODULE ShmTable ------------------------------
(***************************************************************************)
(* The built-in table of src/htaccess_shm.c ("mode 2"): open addressing    *)
(* with linear probing and tombstones, used by a single-threaded process   *)
(* when OLS's shared hash is not available.                                *)
(*                                                                         *)
(* A slot holds a key (records[i].ip), a record, and its state             *)
(* (occupied[i]).  blocked_until is left out: every caller writes 0, so    *)
(* only the staleness test of the cleanup can expire a record.             *)
(***************************************************************************)
EXTENDS Integers, FiniteSets

CONSTANTS
  Keys,       \* The keys, "b:<ip>" and "r:<ip>".
  NoKey,      \* The zeroed key of a slot that never held one.
  Capacity,   \* max_records of shm_init.
  Hash,       \* hash_ip: a function from keys to slots.
  Staleness,  \* Seconds after which the cleanup drops a record (600).
  MaxTime,    \* Bound on the clock.
  MaxCount    \* Bound on an attempt count.

Slots   == 0 .. Capacity - 1
Offsets == 0 .. Capacity - 1
Time    == 1 .. MaxTime

ASSUME ShmTableAssumption ==
  /\ Capacity \in Nat \ {0}
  /\ Hash \in [Keys -> Slots]
  /\ NoKey \notin Keys
  /\ Staleness \in Nat
  /\ MaxTime \in Nat \ {0}
  /\ MaxCount \in Nat \ {0}

Records == [count : 1 .. MaxCount, first : Time]
Zero    == [count |-> 0, first |-> 0]

VARIABLES
  state,    \* occupied[i]: "empty", "occupied" or "tombstone".
  key,      \* records[i].ip
  record,   \* The rest of records[i].
  count,    \* g_store->count
  now       \* The clock of the callers.

table == <<state, key, record, count>>
vars  == <<table, now>>

(***************************************************************************)
(* Probing: the slots a key visits, in order, as offsets from its hash.    *)
(***************************************************************************)
Probe(k, i) == (Hash[k] + i) % Capacity

Holds(s, k) == state[s] = "occupied" /\ key[s] = k

Match(k, i) == Holds(Probe(k, i), k)

StateAt(k, i) == state[Probe(k, i)]

(***************************************************************************)
(* The loops walk on while they see neither the key nor an empty slot.     *)
(***************************************************************************)
Clear(k, i) == \A j \in Offsets : j < i => StateAt(k, j) # "empty"

FoundAt(k, i) ==
  Clear(k, i) /\ Match(k, i) /\ \A j \in Offsets : j < i => ~ Match(k, j)

Missing(k) == \A i \in Offsets : Clear(k, i) => ~ Match(k, i)

\* Mutants of InsertAt: the first free slot, without looking for the key
\* behind it; only a slot that was never used.
InsertAtFirstFree(k, i) ==
  /\ Clear(k, i)
  /\ StateAt(k, i) # "occupied"
  /\ \A j \in Offsets : j < i => StateAt(k, j) # "tombstone"

InsertAtEmpty(k, i) == Missing(k) /\ Clear(k, i) /\ StateAt(k, i) = "empty"

(***************************************************************************)
(* Where a key that is missing goes: the first tombstone the walk sees,    *)
(* else the empty slot at which it stops.                                  *)
(***************************************************************************)
InsertAt(k, i) ==
  /\ Missing(k)
  /\ Clear(k, i)
  /\ StateAt(k, i) # "occupied"
  /\ \A j \in Offsets : j < i => StateAt(k, j) # "tombstone"

(***************************************************************************)
(* builtin_shm_get: the record stored under k, by probing.                 *)
(***************************************************************************)
Get(k) ==
  IF Missing(k) THEN Zero
                ELSE record[Probe(k, CHOOSE i \in Offsets : FoundAt(k, i))]

(***************************************************************************)
(* What the callers write: a fresh record, or the one they got with one    *)
(* more attempt.                                                           *)
(***************************************************************************)
Fresh == [count |-> 1, first |-> now]

Writes(k) ==
  {Fresh} \cup {r \in {[Get(k) EXCEPT !.count = @ + 1]} : ~ Missing(k)}

----------------------------------------------------------------------------
Init ==
  /\ state = [s \in Slots |-> "empty"]
  /\ key = [s \in Slots |-> NoKey]
  /\ record = [s \in Slots |-> Zero]
  /\ count = 0
  /\ now = 1

(***************************************************************************)
(* builtin_shm_update.                                                     *)
(***************************************************************************)
Overwrite(k, r) ==
  /\ \E i \in Offsets :
       /\ FoundAt(k, i)
       /\ record' = [record EXCEPT ![Probe(k, i)] = r]
  /\ UNCHANGED <<state, key, count>>

\* Mutant of Insert: the key is not written.
InsertNoKey(k, r) ==
  /\ \E i \in Offsets :
       LET s == Probe(k, i) IN
       /\ InsertAt(k, i)
       /\ state' = [state EXCEPT ![s] = "occupied"]
       /\ record' = [record EXCEPT ![s] = r]
  /\ count' = count + 1
  /\ UNCHANGED key

Insert(k, r) ==
  /\ \E i \in Offsets :
       LET s == Probe(k, i) IN
       /\ InsertAt(k, i)
       /\ state' = [state EXCEPT ![s] = "occupied"]
       /\ key' = [key EXCEPT ![s] = k]
       /\ record' = [record EXCEPT ![s] = r]
  /\ count' = count + 1

Full(k) ==
  /\ \A i \in Offsets : ~ FoundAt(k, i) /\ ~ InsertAt(k, i)
  /\ UNCHANGED table

Store(k, r) == Overwrite(k, r) \/ Insert(k, r) \/ Full(k)

Update(k) ==
  /\ \E r \in Writes(k) : r \in Records /\ Store(k, r)
  /\ UNCHANGED now

(***************************************************************************)
(* builtin_shm_atomic_increment: bump in place, or store a fresh record.   *)
(***************************************************************************)
Bump(k) ==
  /\ \E i \in Offsets :
       /\ FoundAt(k, i)
       /\ record[Probe(k, i)].count < MaxCount
       /\ record' = [record EXCEPT ![Probe(k, i)].count = @ + 1]
  /\ UNCHANGED <<state, key, count>>

AtomicIncrement(k) ==
  /\ Bump(k) \/ (Missing(k) /\ Store(k, Fresh))
  /\ UNCHANGED now

\* Mutant of Stale: a record is dropped one second early.
StaleEarly(s) ==
  /\ state[s] = "occupied"
  /\ record[s].first > 0
  /\ now - record[s].first >= Staleness

(***************************************************************************)
(* builtin_shm_cleanup: every stale slot becomes a tombstone.              *)
(***************************************************************************)
Stale(s) ==
  /\ state[s] = "occupied"
  /\ record[s].first > 0
  /\ now - record[s].first > Staleness

StaleSlots == {s \in Slots : Stale(s)}

\* Mutants of Cleanup: the slot becomes empty; the count is left alone.
Wiped ==
  /\ key' = [s \in Slots |-> IF Stale(s) THEN NoKey ELSE key[s]]
  /\ record' = [s \in Slots |-> IF Stale(s) THEN Zero ELSE record[s]]
  /\ UNCHANGED now

CleanupEmpties ==
  /\ state' = [s \in Slots |-> IF Stale(s) THEN "empty" ELSE state[s]]
  /\ count' = count - Cardinality(StaleSlots)
  /\ Wiped

CleanupUncounted ==
  /\ state' = [s \in Slots |-> IF Stale(s) THEN "tombstone" ELSE state[s]]
  /\ UNCHANGED count
  /\ Wiped

Cleanup ==
  /\ state' = [s \in Slots |-> IF Stale(s) THEN "tombstone" ELSE state[s]]
  /\ key' = [s \in Slots |-> IF Stale(s) THEN NoKey ELSE key[s]]
  /\ record' = [s \in Slots |-> IF Stale(s) THEN Zero ELSE record[s]]
  /\ count' = count - Cardinality(StaleSlots)
  /\ UNCHANGED now

(***************************************************************************)
(* shm_destroy and shm_init on a module reload.                            *)
(***************************************************************************)
Reload ==
  /\ state' = [s \in Slots |-> "empty"]
  /\ key' = [s \in Slots |-> NoKey]
  /\ record' = [s \in Slots |-> Zero]
  /\ count' = 0
  /\ UNCHANGED now

Tick == now < MaxTime /\ now' = now + 1 /\ UNCHANGED table

Next ==
  \/ \E k \in Keys : Update(k) \/ AtomicIncrement(k)
  \/ Cleanup
  \/ Reload
  \/ Tick

Spec == Init /\ [][Next]_vars
----------------------------------------------------------------------------
(***************************************************************************)
(* Type invariant.  A key and a record are there exactly in the occupied   *)
(* slots.                                                                  *)
(***************************************************************************)
TypeOK ==
  /\ state \in [Slots -> {"empty", "occupied", "tombstone"}]
  /\ key \in [Slots -> Keys \cup {NoKey}]
  /\ record \in [Slots -> Records \cup {Zero}]
  /\ count \in Int
  /\ now \in Time
  /\ \A s \in Slots : state[s] = "occupied" =>
       /\ key[s] \in Keys
       /\ record[s] \in Records

(***************************************************************************)
(* No key is stored twice: an insertion that reuses a tombstone has first  *)
(* looked for the key behind it.                                           *)
(***************************************************************************)
OneSlotPerKey ==
  \A s, t \in Slots : \A k \in Keys : Holds(s, k) /\ Holds(t, k) => s = t

(***************************************************************************)
(* Whatever is stored can be found: no empty slot lies between the hash of *)
(* a key and its slot, so the walk of builtin_shm_get arrives there.       *)
(***************************************************************************)
Reachable ==
  \A s \in Slots : state[s] = "occupied" =>
    \E i \in Offsets :
      /\ Probe(key[s], i) = s
      /\ \A j \in Offsets : j < i => StateAt(key[s], j) # "empty"

(***************************************************************************)
(* g_store->count is the number of records.                                *)
(***************************************************************************)
CountExact == count = Cardinality({s \in Slots : state[s] = "occupied"})

(***************************************************************************)
(* A new key is turned away only when every slot holds another one.        *)
(***************************************************************************)
NoFalseFull ==
  \A k \in Keys :
    (\A i \in Offsets : ~ FoundAt(k, i) /\ ~ InsertAt(k, i)) =>
      \A s \in Slots : state[s] = "occupied" /\ key[s] # k

(***************************************************************************)
(* The table implements a map: what is stored under a key, wherever it     *)
(* lies, changes only as CounterMap allows.                                *)
(***************************************************************************)
Contents(k) ==
  IF \E s \in Slots : Holds(s, k)
    THEN [present |-> TRUE, record |-> record[CHOOSE s \in Slots : Holds(s, k)]]
    ELSE [present |-> FALSE, record |-> Zero]

Map == INSTANCE CounterMap WITH map <- [k \in Keys |-> Contents(k)]

ImplementsMap == Map!Spec
=============================================================================
