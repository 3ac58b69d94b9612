--------------------------- MODULE ShmTableProofs ---------------------------
(***************************************************************************)
(* Proofs about ShmTable, for every capacity, every set of keys and every  *)
(* hash function.                                                          *)
(***************************************************************************)
EXTENDS ShmTable, FiniteSetTheorems, WellFoundedInduction, TLAPS

USE ShmTableAssumption

\* A remainder is less than the divisor.
LEMMA ModuloRange == \A n \in Nat, c \in Nat \ {0} : n % c \in 0 .. c - 1
  OBVIOUS

\* A probe hits a slot.
LEMMA ProbeType ==
  \A k \in Keys, i \in Offsets : Hash[k] \in Slots /\ Probe(k, i) \in Slots
  <1> SUFFICES ASSUME NEW k \in Keys, NEW i \in Offsets
               PROVE  Hash[k] \in Slots /\ Probe(k, i) \in Slots
    OBVIOUS
  <1>1. Hash[k] \in Slots
    OBVIOUS
  <1>2. Hash[k] + i \in Nat
    BY <1>1 DEF Slots, Offsets
  <1> QED
    BY <1>1, <1>2, ModuloRange DEF Probe, Slots

\* Any set of slots is finite.
LEMMA SlotsFinite == \A T \in SUBSET Slots :
                      IsFiniteSet(T) /\ Cardinality(T) \in Nat
  <1>1. IsFiniteSet(Slots)
    BY FS_Interval DEF Slots
  <1> QED
    BY <1>1, FS_Subset, FS_CardinalityType

(***************************************************************************)
(* What a step does to the states and the keys of the slots.               *)
(***************************************************************************)
Inserts(k, i) ==
  /\ InsertAt(k, i)
  /\ state' = [state EXCEPT ![Probe(k, i)] = "occupied"]
  /\ key' = [key EXCEPT ![Probe(k, i)] = k]
  /\ count' = count + 1

\* A step writes one slot, cleans up, reloads, bumps a record or leaves the keys alone.
LEMMA StepCases ==
  ASSUME [Next]_vars
  PROVE  \/ UNCHANGED <<state, key, count>>
         \/ \E k \in Keys, i \in Offsets : Inserts(k, i)
         \/ Cleanup
         \/ Reload
  BY DEF Next, Update, AtomicIncrement, Store, Overwrite, Insert, Full, Bump,
         Tick, vars, table, Inserts

(***************************************************************************)
(* An occupied slot always holds a key of the callers and a whole record,  *)
(* whatever is inserted, bumped or cleaned up.                             *)
(***************************************************************************)
THEOREM TypeCorrect == Spec => []TypeOK
  <1>1. Init => TypeOK
    BY DEF Init, TypeOK, Time
  <1>2. TypeOK /\ [Next]_vars => TypeOK'
    <2> SUFFICES ASSUME TypeOK, [Next]_vars PROVE TypeOK'
      OBVIOUS
    <2>0. now \in Time /\ now' \in Time
      BY DEF TypeOK, Next, Update, AtomicIncrement, Cleanup, Reload, Tick,
             vars, Time
    <2>f. Fresh \in Records
      BY <2>0 DEF Fresh, Records
    <2>1. ASSUME NEW k \in Keys, NEW r \in Records, Overwrite(k, r)
          PROVE  TypeOK'
      <3>1. PICK i \in Offsets :
              FoundAt(k, i) /\ record' = [record EXCEPT ![Probe(k, i)] = r]
        BY <2>1 DEF Overwrite
      <3>2. Probe(k, i) \in Slots
        BY ProbeType
      <3> QED
        BY <2>0, <2>1, <3>1, <3>2 DEF Overwrite, TypeOK
    <2>2. ASSUME NEW k \in Keys, NEW r \in Records, Insert(k, r)
          PROVE  TypeOK'
      <3>1. PICK i \in Offsets :
              /\ state' = [state EXCEPT ![Probe(k, i)] = "occupied"]
              /\ key' = [key EXCEPT ![Probe(k, i)] = k]
              /\ record' = [record EXCEPT ![Probe(k, i)] = r]
        BY <2>2 DEF Insert
      <3>2. Probe(k, i) \in Slots
        BY ProbeType
      <3>3. count' = count + 1
        BY <2>2 DEF Insert
      <3>4. /\ state' \in [Slots -> {"empty", "occupied", "tombstone"}]
            /\ key' \in [Slots -> Keys \cup {NoKey}]
            /\ record' \in [Slots -> Records \cup {Zero}]
            /\ count' \in Int
        BY <3>1, <3>2, <3>3 DEF TypeOK
      <3>5. ASSUME NEW s \in Slots, state'[s] = "occupied"
            PROVE  key'[s] \in Keys /\ record'[s] \in Records
        BY <3>1, <3>2, <3>5 DEF TypeOK
      <3> QED
        BY <2>0, <3>4, <3>5 DEF TypeOK
    <2>3. ASSUME NEW k \in Keys, Bump(k) PROVE TypeOK'
      <3>1. PICK i \in Offsets :
              /\ FoundAt(k, i)
              /\ record[Probe(k, i)].count < MaxCount
              /\ record' = [record EXCEPT ![Probe(k, i)].count = @ + 1]
        BY <2>3 DEF Bump
      <3> DEFINE s == Probe(k, i)
      <3>2. s \in Slots /\ record[s] \in Records
        BY <3>1, ProbeType DEF FoundAt, Match, Holds, TypeOK
      <3>3. [record[s] EXCEPT !.count = @ + 1] \in Records
        BY <3>1, <3>2 DEF Records
      <3> QED
        BY <2>0, <2>3, <3>1, <3>2, <3>3 DEF Bump, TypeOK
    <2>4. ASSUME UNCHANGED table PROVE TypeOK'
      BY <2>0, <2>4 DEF table, TypeOK
    <2>5. ASSUME Cleanup PROVE TypeOK'
      <3>1. Cardinality(StaleSlots) \in Nat
        BY SlotsFinite DEF StaleSlots
      <3>2. count' \in Int
        BY <2>5, <3>1 DEF Cleanup, TypeOK
      <3> QED
        BY <2>0, <2>5, <3>2 DEF Cleanup, TypeOK
    <2>6. ASSUME Reload PROVE TypeOK'
      BY <2>0, <2>6 DEF Reload, TypeOK
    <2> QED
      BY <2>1, <2>2, <2>3, <2>4, <2>5, <2>6, <2>f
      DEF Next, Update, AtomicIncrement, Store, Full, Tick, vars, table
  <1> QED
    BY <1>1, <1>2, PTL DEF Spec

(***************************************************************************)
(* OneSlotPerKey and Reachable are inductive together: that a key which    *)
(* the walk missed is stored nowhere follows from Reachable, and so the    *)
(* slot that is taken for it is its only one.                              *)
(***************************************************************************)
ProbeInv == TypeOK /\ OneSlotPerKey /\ Reachable

\* A key is inserted only if no slot holds it.
LEMMA MissingIsAbsent ==
  ASSUME ProbeInv, NEW k \in Keys, NEW i \in Offsets, InsertAt(k, i),
         NEW s \in Slots, Holds(s, k)
  PROVE  FALSE
  <1>1. PICK j \in Offsets :
          /\ Probe(k, j) = s
          /\ \A l \in Offsets : l < j => StateAt(k, l) # "empty"
    BY DEF ProbeInv, Reachable, Holds
  <1> QED
    BY <1>1 DEF InsertAt, Missing, Match, Clear

\* The empty table.
LEMMA InitProbeInv == Init => ProbeInv
  BY DEF Init, ProbeInv, TypeOK, OneSlotPerKey, Reachable, Holds, Time

\* Every step keeps each key in one slot that probing finds.
LEMMA StepProbeInv ==
  ASSUME ProbeInv, TypeOK', [Next]_vars
  PROVE  ProbeInv'
  <1>t. TypeOK
    BY DEF ProbeInv
  <1>1. CASE UNCHANGED <<state, key, count>>
    BY <1>1
    DEF ProbeInv, OneSlotPerKey, Reachable, Holds, StateAt, Probe
  <1>2. ASSUME NEW k \in Keys, NEW i \in Offsets, Inserts(k, i)
        PROVE  ProbeInv'
    <2> DEFINE p == Probe(k, i)
    <2>1. /\ p \in Slots
          /\ InsertAt(k, i)
          /\ state' = [state EXCEPT ![p] = "occupied"]
          /\ key' = [key EXCEPT ![p] = k]
      BY <1>2, ProbeType DEF Inserts
    <2>2. \A s \in Slots : ~ Holds(s, k)
      BY <2>1, MissingIsAbsent
    <2>3. OneSlotPerKey'
      <3>1. ASSUME NEW s \in Slots, NEW l \in Keys
            PROVE  Holds(s, l)' <=> IF s = p THEN l = k ELSE Holds(s, l)
        BY <1>t, <2>1 DEF Holds, TypeOK
      <3> QED
        BY <2>2, <3>1 DEF ProbeInv, OneSlotPerKey
    <2>4. Reachable'
      <3> SUFFICES ASSUME NEW s \in Slots, state'[s] = "occupied"
                   PROVE  \E j \in Offsets :
                            /\ Probe(key'[s], j) = s
                            /\ \A l \in Offsets :
                                 l < j => state'[Probe(key'[s], l)] # "empty"
        BY DEF Reachable, Probe, StateAt
      <3>1. \A t \in Slots : state[t] # "empty" => state'[t] # "empty"
        BY <1>t, <2>1 DEF TypeOK
      <3>2. CASE s = p
        <4>1. key'[s] = k
          BY <1>t, <2>1, <3>2 DEF TypeOK
        <4>2. \A l \in Offsets : l < i => state[Probe(k, l)] # "empty"
          BY <2>1 DEF InsertAt, Clear, StateAt
        <4> QED
          BY <3>1, <3>2, <4>1, <4>2, ProbeType
      <3>3. CASE s # p
        <4>1. state[s] = "occupied" /\ key'[s] = key[s] /\ key[s] \in Keys
          BY <1>t, <2>1, <3>3 DEF TypeOK
        <4>2. PICK j \in Offsets :
                /\ Probe(key[s], j) = s
                /\ \A l \in Offsets :
                     l < j => state[Probe(key[s], l)] # "empty"
          BY <4>1 DEF ProbeInv, Reachable, StateAt
        <4> QED
          BY <3>1, <4>1, <4>2, ProbeType
      <3> QED
        BY <3>2, <3>3
    <2> QED
      BY <2>3, <2>4 DEF ProbeInv
  <1>3. CASE Cleanup
    <2>1. \A s \in Slots :
            /\ state'[s] = "occupied" => /\ state[s] = "occupied"
                                         /\ key'[s] = key[s]
            /\ state[s] # "empty" => state'[s] # "empty"
      BY <1>3, <1>t DEF Cleanup, TypeOK
    <2>2. OneSlotPerKey'
      BY <2>1 DEF ProbeInv, OneSlotPerKey, Holds
    <2>3. Reachable'
      <3> SUFFICES ASSUME NEW s \in Slots, state'[s] = "occupied"
                   PROVE  \E j \in Offsets :
                            /\ Probe(key'[s], j) = s
                            /\ \A l \in Offsets :
                                 l < j => state'[Probe(key'[s], l)] # "empty"
        BY DEF Reachable, Probe, StateAt
      <3>1. state[s] = "occupied" /\ key'[s] = key[s] /\ key[s] \in Keys
        BY <1>t, <2>1 DEF TypeOK
      <3>2. PICK j \in Offsets :
              /\ Probe(key[s], j) = s
              /\ \A l \in Offsets :
                   l < j => state[Probe(key[s], l)] # "empty"
        BY <3>1 DEF ProbeInv, Reachable, StateAt
      <3> QED
        BY <2>1, <3>1, <3>2, ProbeType
    <2> QED
      BY <2>2, <2>3 DEF ProbeInv
  <1>4. CASE Reload
    BY <1>4 DEF Reload, ProbeInv, OneSlotPerKey, Reachable, Holds
  <1> QED
    BY <1>1, <1>2, <1>3, <1>4, StepCases

(***************************************************************************)
(* No key is ever stored twice.                                            *)
(***************************************************************************)
THEOREM NeverStoredTwice == Spec => []OneSlotPerKey
  <1>1. ProbeInv => OneSlotPerKey
    BY DEF ProbeInv
  <1>2. TypeOK' /\ ProbeInv /\ [Next]_vars => ProbeInv'
    BY StepProbeInv
  <1> QED
    BY <1>1, <1>2, InitProbeInv, TypeCorrect, PTL DEF Spec

(***************************************************************************)
(* Whatever is stored can be found.                                        *)
(***************************************************************************)
THEOREM AlwaysReachable == Spec => []Reachable
  <1>1. ProbeInv => Reachable
    BY DEF ProbeInv
  <1>2. TypeOK' /\ ProbeInv /\ [Next]_vars => ProbeInv'
    BY StepProbeInv
  <1> QED
    BY <1>1, <1>2, InitProbeInv, TypeCorrect, PTL DEF Spec

(***************************************************************************)
(* g_store->count is exact: an insertion takes a slot that was not         *)
(* occupied, and the cleanup subtracts what it frees.                      *)
(***************************************************************************)
Occupied == {s \in Slots : state[s] = "occupied"}

\* The counter of the store is the number of records, over inserts and cleanups.
THEOREM CountIsExact == Spec => []CountExact
  <1>1. Init => CountExact
    <2> SUFFICES ASSUME Init PROVE CountExact
      OBVIOUS
    <2>1. {s \in Slots : state[s] = "occupied"} = {}
      BY DEF Init
    <2> QED
      BY <2>1, FS_EmptySet DEF Init, CountExact
  <1>2. TypeOK /\ CountExact /\ [Next]_vars => CountExact'
    <2> SUFFICES ASSUME TypeOK, CountExact, [Next]_vars PROVE CountExact'
      OBVIOUS
    <2>0. /\ IsFiniteSet(Occupied) /\ Cardinality(Occupied) \in Nat
          /\ count = Cardinality(Occupied)
      BY SlotsFinite DEF Occupied, CountExact
    <2> SUFFICES count' = Cardinality(Occupied')
      BY DEF CountExact, Occupied
    <2>1. CASE UNCHANGED <<state, key, count>>
      BY <2>0, <2>1 DEF Occupied
    <2>2. ASSUME NEW k \in Keys, NEW i \in Offsets, Inserts(k, i)
          PROVE  count' = Cardinality(Occupied')
      <3> DEFINE p == Probe(k, i)
      <3>1. /\ p \in Slots /\ p \notin Occupied /\ count' = count + 1
            /\ state' = [state EXCEPT ![p] = "occupied"]
        BY <2>2, ProbeType DEF Inserts, InsertAt, StateAt, Occupied
      <3>2. Occupied' = Occupied \cup {p}
        BY <3>1 DEF Occupied, TypeOK
      <3> QED
        BY <2>0, <3>1, <3>2, FS_AddElement
    <2>3. CASE Cleanup
      <3>1. Occupied' = Occupied \ StaleSlots
        BY <2>3 DEF Cleanup, Occupied, StaleSlots, Stale, TypeOK
      <3>2. Occupied \cap StaleSlots = StaleSlots
        BY DEF Occupied, StaleSlots, Stale
      <3> QED
        BY <2>0, <2>3, <3>1, <3>2, FS_Difference DEF Cleanup
    <2>4. CASE Reload
      <3>1. Occupied' = {}
        BY <2>4 DEF Reload, Occupied
      <3> QED
        BY <2>4, <3>1, FS_EmptySet DEF Reload
    <2> QED
      BY <2>1, <2>2, <2>3, <2>4, StepCases
  <1> QED
    BY <1>1, <1>2, TypeCorrect, PTL DEF Spec

(***************************************************************************)
(* The table implements the map.  Since a key has one slot, what is stored *)
(* under it is the record of any slot that holds it.                       *)
(***************************************************************************)
LEMMA ContentsOfSlot ==
  ASSUME ProbeInv, NEW s \in Slots, NEW k \in Keys, Holds(s, k)
  PROVE  Contents(k) = [present |-> TRUE, record |-> record[s]]
  BY DEF Contents, ProbeInv, OneSlotPerKey

\* What is stored under a key that no slot holds.
LEMMA ContentsOfNone ==
  ASSUME NEW k \in Keys, \A s \in Slots : ~ Holds(s, k)
  PROVE  Contents(k) = [present |-> FALSE, record |-> Zero]
  BY DEF Contents

(***************************************************************************)
(* Two tables with the same holders and records store the same.            *)
(***************************************************************************)
LEMMA ContentsKept ==
  ASSUME ProbeInv, ProbeInv', NEW k \in Keys,
         \A s \in Slots : /\ Holds(s, k)' <=> Holds(s, k)
                          /\ Holds(s, k) => record'[s] = record[s]
  PROVE  Contents(k)' = Contents(k)
  <1>1. ASSUME NEW s \in Slots, Holds(s, k) PROVE Contents(k)' = Contents(k)
    <2>1. Contents(k) = [present |-> TRUE, record |-> record[s]]
      BY <1>1, ContentsOfSlot
    <2>2. Contents(k)' = [present |-> TRUE, record |-> record'[s]]
      BY <1>1 DEF Contents, ProbeInv, OneSlotPerKey
    <2> QED
      BY <1>1, <2>1, <2>2
  <1>2. CASE \A s \in Slots : ~ Holds(s, k)
    BY <1>2 DEF Contents
  <1> QED
    BY <1>1, <1>2

(***************************************************************************)
(* A step that writes r under k in one slot, and nothing else, is a Put.   *)
(***************************************************************************)
LEMMA WriteIsPut ==
  ASSUME ProbeInv, ProbeInv', NEW k \in Keys, NEW r, NEW p \in Slots,
         Holds(p, k)', record' = [record EXCEPT ![p] = r],
         \A s \in Slots \ {p}, l \in Keys : Holds(s, l)' <=> Holds(s, l),
         \A l \in Keys : l # k => ~ Holds(p, l)
  PROVE  Map!Put(k, r)
  <1>1. record'[p] = r /\ \A s \in Slots \ {p} : record'[s] = record[s]
    BY DEF ProbeInv, TypeOK
  <1>2. Contents(k)' = [present |-> TRUE, record |-> r]
    BY <1>1 DEF Contents, ProbeInv, OneSlotPerKey
  <1>3. ASSUME NEW l \in Keys, l # k PROVE Contents(l)' = Contents(l)
    <2>1. ~ Holds(p, l)'
      BY <1>3 DEF Holds
    <2>2. \A s \in Slots : /\ Holds(s, l)' <=> Holds(s, l)
                           /\ Holds(s, l) => record'[s] = record[s]
      BY <1>1, <1>3, <2>1
    <2> QED
      BY <2>2, ContentsKept
  <1> QED
    BY <1>2, <1>3 DEF Map!Put, Map!Stored

\* A step of the table is a step of the map or changes nothing in it.
LEMMA StepImplementsMap ==
  ASSUME ProbeInv, ProbeInv', [Next]_vars
  PROVE  [Map!Next]_[k \in Keys |-> Contents(k)]
  <1> DEFINE map == [k \in Keys |-> Contents(k)]
  <1>t. TypeOK /\ TypeOK'
    BY DEF ProbeInv
  <1>1. ASSUME NEW k \in Keys, NEW r \in Records, NEW i \in Offsets,
               FoundAt(k, i), UNCHANGED <<state, key>>,
               record' = [record EXCEPT ![Probe(k, i)] = r]
        PROVE  Map!Put(k, r)
    <2>1. Probe(k, i) \in Slots /\ Holds(Probe(k, i), k)
      BY <1>1, ProbeType DEF FoundAt, Match
    <2> QED
      BY <1>1, <2>1, WriteIsPut DEF Holds
  <1>2. ASSUME NEW k \in Keys, NEW r \in Records, Insert(k, r)
        PROVE  Map!Put(k, r)
    <2>1. PICK i \in Offsets :
            /\ InsertAt(k, i)
            /\ state' = [state EXCEPT ![Probe(k, i)] = "occupied"]
            /\ key' = [key EXCEPT ![Probe(k, i)] = k]
            /\ record' = [record EXCEPT ![Probe(k, i)] = r]
      BY <1>2 DEF Insert
    <2> DEFINE p == Probe(k, i)
    <2>2. p \in Slots /\ \A l \in Keys : ~ Holds(p, l)
      BY <2>1, ProbeType DEF InsertAt, StateAt, Holds
    <2>3. /\ Holds(p, k)'
          /\ \A s \in Slots \ {p}, l \in Keys : Holds(s, l)' <=> Holds(s, l)
      BY <1>t, <2>1, <2>2 DEF Holds, TypeOK
    <2> QED
      BY <2>1, <2>2, <2>3, WriteIsPut
  <1>3. ASSUME NEW k \in Keys, Bump(k)
        PROVE  \E r \in Records : Map!Put(k, r)
    <2>1. PICK i \in Offsets :
            /\ FoundAt(k, i)
            /\ record[Probe(k, i)].count < MaxCount
            /\ record' = [record EXCEPT ![Probe(k, i)].count = @ + 1]
      BY <1>3 DEF Bump
    <2> DEFINE p == Probe(k, i)
               r == [record[p] EXCEPT !.count = @ + 1]
    <2>2. p \in Slots /\ record[p] \in Records
      BY <1>t, <2>1, ProbeType DEF FoundAt, Match, Holds, TypeOK
    <2>3. r \in Records /\ record' = [record EXCEPT ![p] = r]
      BY <2>1, <2>2 DEF Records
    <2> QED
      BY <1>1, <1>3, <2>1, <2>3 DEF Bump
  <1>4. CASE UNCHANGED table
    BY <1>4, ContentsKept DEF table, Holds
  <1>5. CASE Cleanup
    <2>1. ASSUME NEW k \in Keys
          PROVE  Contents(k)' = IF Map!Stale(k) THEN Map!Absent ELSE map[k]
      <3>1. ASSUME NEW s \in Slots, Holds(s, k)
            PROVE  Contents(k)' = IF Map!Stale(k) THEN Map!Absent ELSE map[k]
        <4>1. Contents(k) = [present |-> TRUE, record |-> record[s]]
          BY <3>1, ContentsOfSlot
        <4>2. record[s] \in Records /\ record[s].first > 0
          BY <1>t, <3>1 DEF Holds, TypeOK, Records, Time
        <4>3. Map!Stale(k) <=> Stale(s)
          BY <3>1, <4>1, <4>2 DEF Map!Stale, Stale, Holds
        <4>4. CASE Stale(s)
          <5>1. \A t \in Slots : ~ Holds(t, k)'
            BY <1>5, <1>t, <3>1, <4>4
            DEF Cleanup, Holds, TypeOK, ProbeInv, OneSlotPerKey
          <5> QED
            BY <4>3, <4>4, <5>1 DEF Contents, Map!Absent, Zero
        <4>5. CASE ~ Stale(s)
          <5>1. Holds(s, k)' /\ record'[s] = record[s]
            BY <1>5, <1>t, <3>1, <4>5 DEF Cleanup, Holds, TypeOK
          <5>2. Contents(k)' = [present |-> TRUE, record |-> record'[s]]
            BY <5>1 DEF Contents, ProbeInv, OneSlotPerKey
          <5> QED
            BY <4>1, <4>3, <4>5, <5>1, <5>2
        <4> QED
          BY <4>4, <4>5
      <3>2. CASE \A s \in Slots : ~ Holds(s, k)
        <4>1. \A s \in Slots : ~ Holds(s, k)'
          BY <1>5, <1>t, <3>2 DEF Cleanup, Holds, TypeOK
        <4> QED
          BY <3>2, <4>1 DEF Contents, Map!Stale
      <3> QED
        BY <3>1, <3>2
    <2>2. Map!Expire
      BY <2>1 DEF Map!Expire
    <2> QED
      BY <2>2 DEF Map!Next
  <1>6. CASE Reload
    <2>1. \A k \in Keys : Contents(k)' = Map!Absent
      BY <1>6 DEF Reload, Contents, Holds, Map!Absent, Zero
    <2>2. Map!Clear
      BY <2>1 DEF Map!Clear
    <2> QED
      BY <2>2 DEF Map!Next
  <1>7. ASSUME NEW k \in Keys, NEW r \in Records, Store(k, r)
        PROVE  Map!Put(k, r) \/ UNCHANGED table
    BY <1>1, <1>2, <1>7 DEF Store, Overwrite, Full
  <1>8. Fresh \in Records
    BY <1>t DEF Fresh, Records, TypeOK
  <1> QED
    <2>1. \/ \E k \in Keys, r \in Records : Map!Put(k, r)
          \/ UNCHANGED table \/ Cleanup \/ Reload
      BY <1>3, <1>7, <1>8
      DEF Next, Update, AtomicIncrement, Tick, vars
    <2>2. ASSUME NEW k \in Keys, NEW r \in Records, Map!Put(k, r)
          PROVE  Map!Next
      BY <2>2 DEF Map!Next
    <2> QED
      BY <1>4, <1>5, <1>6, <2>1, <2>2

(***************************************************************************)
(* A written record is the one found, nothing but a stale record ever      *)
(* disappears (or all of them, on a reload), and a write fails only for a  *)
(* new key.                                                                *)
(***************************************************************************)
THEOREM TableImplementsMap == Spec => ImplementsMap
  <1>1. Init => Map!Init
    BY DEF Init, Map!Init, Contents, Holds, Map!Absent, Zero
  <1>2. ProbeInv /\ ProbeInv' /\ [Next]_vars
          => [Map!Next]_[k \in Keys |-> Contents(k)]
    BY StepImplementsMap
  <1>3. TypeOK' /\ ProbeInv /\ [Next]_vars => ProbeInv'
    BY StepProbeInv
  <1> QED
    BY <1>1, <1>2, <1>3, InitProbeInv, TypeCorrect, PTL
    DEF Spec, ImplementsMap, Map!Spec

(***************************************************************************)
(* A nonempty set of offsets has a first one.                              *)
(***************************************************************************)
LEMMA FirstOffset ==
  ASSUME NEW S \in SUBSET Offsets, S # {}
  PROVE  \E i \in S : \A j \in Offsets : j < i => j \notin S
  <1>1. S \subseteq Nat
    BY DEF Offsets
  <1>2. PICK i \in S : \A j \in S : ~ (<<j, i>> \in OpToRel(<, Nat))
    BY <1>1, NatLessThanWellFounded, WFMin
  <1>3. \A j \in S : ~ (j < i)
    BY <1>1, <1>2 DEF OpToRel
  <1> QED
    BY <1>3

(***************************************************************************)
(* A walk of Capacity steps visits every slot.                             *)
(***************************************************************************)
LEMMA ProbeReaches ==
  ASSUME NEW k \in Keys, NEW s \in Slots
  PROVE  \E i \in Offsets : Probe(k, i) = s
  <1> DEFINE h == Hash[k]
  <1>1. /\ h \in Nat /\ h < Capacity /\ s \in Nat /\ s < Capacity
        /\ Capacity \in Nat \ {0}
    BY ProbeType DEF Slots
  <1>2. CASE h <= s
    <2>1. s - h \in Offsets /\ h + (s - h) = s
      BY <1>1, <1>2 DEF Offsets
    <2>2. s % Capacity = s
      BY <1>1
    <2> QED
      BY <2>1, <2>2 DEF Probe
  <1>3. CASE s < h
    <2>1. s + Capacity - h \in Offsets /\ h + (s + Capacity - h) = s + Capacity
      BY <1>1, <1>3 DEF Offsets
    <2>2. (s + Capacity) % Capacity = s
      BY <1>1
    <2> QED
      BY <2>1, <2>2 DEF Probe
  <1> QED
    BY <1>1, <1>2, <1>3

(***************************************************************************)
(* Full is answered only for a key that is not stored when every slot      *)
(* holds another one: were there a free slot on the walk, the first of     *)
(* them would be taken, and the walk meets every slot.                     *)
(***************************************************************************)
THEOREM FullMeansFull == Spec => []NoFalseFull
  <1>1. TypeOK => NoFalseFull
    <2> SUFFICES ASSUME TypeOK, NEW k \in Keys,
                        \A i \in Offsets : ~ FoundAt(k, i) /\ ~ InsertAt(k, i),
                        NEW s \in Slots
                 PROVE  state[s] = "occupied" /\ key[s] # k
      BY DEF NoFalseFull
    <2>1. Missing(k)
      <3> SUFFICES ASSUME NEW l \in Offsets, Clear(k, l), Match(k, l)
                   PROVE  FALSE
        BY DEF Missing
      <3> DEFINE Matches == {i \in Offsets : Match(k, i)}
      <3>1. PICK i \in Matches : \A j \in Offsets : j < i => j \notin Matches
        BY FirstOffset
      <3>2. ~ (l < i)
        BY <3>1
      <3>3. Clear(k, i)
        BY <3>1, <3>2 DEF Clear, Offsets
      <3> QED
        BY <3>1, <3>3 DEF FoundAt
    <2>2. \A i \in Offsets : StateAt(k, i) = "occupied"
      <3> SUFFICES ASSUME NEW l \in Offsets, StateAt(k, l) # "occupied"
                   PROVE  FALSE
        OBVIOUS
      <3> DEFINE Free == {i \in Offsets : StateAt(k, i) # "occupied"}
      <3>1. PICK i \in Free : \A j \in Offsets : j < i => j \notin Free
        BY FirstOffset
      <3>2. \A j \in Offsets : j < i => StateAt(k, j) = "occupied"
        BY <3>1
      <3> QED
        BY <2>1, <3>1, <3>2 DEF InsertAt, Clear
    <2>3. PICK i \in Offsets : Probe(k, i) = s
      BY ProbeReaches
    <2>4. ~ Match(k, i)
      BY <2>1, <2>2 DEF Missing, Clear
    <2> QED
      BY <2>2, <2>3, <2>4 DEF Match, Holds, StateAt
  <1> QED
    BY <1>1, TypeCorrect, PTL
=============================================================================
