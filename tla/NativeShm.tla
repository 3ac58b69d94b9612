----------------------------- MODULE NativeShm -----------------------------
(***************************************************************************)
(* The counters that the workers of the web server share: OLS's            *)
(* ls_shmhash as src/htaccess_shm.c uses it in "mode 1".  A table maps a   *)
(* key to one fixed-size record.  Every operation below is one critical    *)
(* section of the hash lock (shmhash_lock ... shmhash_unlock), so each is  *)
(* atomic; what is NOT atomic is a get followed by an update.              *)
(*                                                                         *)
(* A table is a function from keys to records.  An entry that was never    *)
(* created reads as NoRecord: native_shm_get answers NULL for a missing    *)
(* entry and for one without the magic number.  There is no delete: the    *)
(* hash API has none, and shm_cleanup_expired does nothing in this mode.   *)
(***************************************************************************)
EXTENDS Integers, FiniteSets

CONSTANT
  PoolEntries   \* Records that fit in the pool (SHM_POOL_SIZE, one megabyte).

ASSUME PoolAssumption == PoolEntries \in Nat \ {0}

NoRecord == [magic |-> FALSE, count |-> 0, first |-> 0]

Records(Times) == [magic : BOOLEAN, count : Nat, first : Times]

FreshRecord(now) == [magic |-> TRUE, count |-> 1, first |-> now]

(***************************************************************************)
(* native_shm_get: the record is copied under the lock into a buffer of    *)
(* the calling worker, so a later change of the table is not seen by it.   *)
(***************************************************************************)
Get(table, key) == table[key]

(***************************************************************************)
(* shmhash_get with LSI_SHM_INIT finds the entry or allocates it; only the *)
(* allocation can fail, when the pool is exhausted.                        *)
(***************************************************************************)
HasRoom(table, key) ==
  \/ table[key].magic
  \/ Cardinality({k \in DOMAIN table : table[k].magic}) < PoolEntries

(***************************************************************************)
(* native_shm_update: overwrite the entry, whatever it holds by now.       *)
(***************************************************************************)
Update(table, key, record) ==
  IF HasRoom(table, key)
    THEN [table EXCEPT ![key] = [record EXCEPT !.magic = TRUE]]
    ELSE table

\* Mutants of Incremented: the count goes down; it stays.
Decremented(record, now) ==
  IF record.magic THEN [record EXCEPT !.count = @ - 1] ELSE FreshRecord(now)

Uncounted(record, now) == IF record.magic THEN record ELSE FreshRecord(now)

(***************************************************************************)
(* native_shm_atomic_increment: the read-modify-write under one lock.      *)
(***************************************************************************)
Incremented(record, now) ==
  IF record.magic THEN [record EXCEPT !.count = @ + 1] ELSE FreshRecord(now)

AtomicIncrement(table, key, now) ==
  IF HasRoom(table, key)
    THEN [table EXCEPT ![key] = Incremented(@, now)]
    ELSE table
=============================================================================
