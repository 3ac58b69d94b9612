-------------------------- MODULE BruteForceProofs --------------------------
(***************************************************************************)
(* Proofs about BruteForce, for any number of workers, clients, policies   *)
(* and restarts, and any clock.                                            *)
(***************************************************************************)
EXTENDS BruteForce, TLAPS

USE BruteForceAssumption, PoolAssumption

(***************************************************************************)
(* Lemmas about the operators.                                             *)
(***************************************************************************)
LEMMA EffectiveIPType == \A r \in Requests : EffectiveIP(r) \in IPs
  BY DEF EffectiveIP, Request, Policy

\* What the assumption says of the policy of a request.
LEMMA PolicyType ==
  \A r \in Requests : /\ r.policy.allowed \in Nat \ {0}
                      /\ r.policy.window \in Nat \ {0}
                      /\ r.policy.action \in Actions
  BY DEF Request, Policy

\* Clock readings are natural numbers.
LEMMA TimeType == Time \subseteq Nat /\ 0 \in Time
  BY DEF Time

(***************************************************************************)
(* The record a worker writes is well-typed, carries the magic number, and *)
(* is either one attempt later than the worker's copy or a fresh window.   *)
(***************************************************************************)
LEMMA NewRecordType ==
  ASSUME NEW r \in Requests, NEW t \in Time, NEW record \in Records(Time)
  PROVE  /\ NewRecord(r, t, record) \in Records(Time)
         /\ NewRecord(r, t, record).magic
         /\ \/ /\ NewRecord(r, t, record).first = record.first
               /\ NewRecord(r, t, record).count = record.count + 1
               /\ InWindow(r, t, record)
            \/ /\ NewRecord(r, t, record).first = t
               /\ NewRecord(r, t, record).count = 1
               /\ ~ InWindow(r, t, record)
  BY DEF NewRecord, FreshRecord, Records, InWindow

\* Where a call goes after its update; it is refused only over the threshold.
LEMMA AfterWriteType ==
  ASSUME NEW r \in Requests, NEW t \in Time, NEW record \in Records(Time)
  PROVE  /\ AfterWrite(r, t, record) \in {"ok", "asleep", "notify", "denied"}
         /\ AfterWrite(r, t, record) # "ok" => Over(r, t, record)
         /\ AfterWrite(r, t, record) = "denied" =>
              record.count # r.policy.allowed
  BY PolicyType DEF AfterWrite, Actions

(***************************************************************************)
(* Charging a counter adds one to one cell.                                *)
(***************************************************************************)
LEMMA ChargeType ==
  ASSUME NEW counter \in Counters, NEW ip \in IPs, NEW f \in Time
  PROVE  /\ Charge(counter, ip, f) \in Counters
         /\ Charge(counter, ip, f)[ip][f] = counter[ip][f] + 1
         /\ \A i \in IPs, t \in Time :
              Charge(counter, ip, f)[i][t] >= counter[i][t]
  BY DEF Charge, Counters

(***************************************************************************)
(* TypeOK is an invariant: no step of a worker leaves the domain of the    *)
(* table, of the clock or of the control states.                           *)
(***************************************************************************)
LEMMA InitTypeOK == Init => TypeOK
  <1> SUFFICES ASSUME Init PROVE TypeOK
    OBVIOUS
  <1>1. (CHOOSE r \in Requests : TRUE) \in Requests
    OBVIOUS
  <1>2. NoRecord \in Records(Time)
    BY TimeType DEF NoRecord, Records
  <1> QED
    BY <1>1, <1>2, TimeType DEF Init, TypeOK, Ready, Busy, Counters

\* Every step keeps the types.
LEMMA StepTypeOK == TypeOK /\ [Next]_vars => TypeOK'
  <1> SUFFICES ASSUME TypeOK, [Next]_vars PROVE TypeOK'
    OBVIOUS
  <1>0. NoRecord \in Records(Time)
    BY TimeType DEF NoRecord, Records
  <1>1. ASSUME NEW w \in Workers, NEW r \in Requests, Start(w, r)
        PROVE  TypeOK'
    BY <1>0, <1>1 DEF Start, TypeOK, Ready, Busy, history
  <1>2. ASSUME NEW w \in Workers, Lookup(w) PROVE TypeOK'
    <2>1. shm[Key(w)] \in Records(Time)
      BY EffectiveIPType DEF TypeOK, Key
    <2> QED
      BY <1>2, <2>1 DEF Lookup, Get, TypeOK, Ready, Busy, history
  <1>3. ASSUME NEW w \in Workers, Write(w) PROVE TypeOK'
    <2> DEFINE new == NewRecord(req[w], at[w], buf[w])
    <2>1. /\ Key(w) \in IPs /\ req[w] \in Requests /\ at[w] \in Time
          /\ buf[w] \in Records(Time)
      BY EffectiveIPType DEF TypeOK, Key
    <2>2. new \in Records(Time)
      BY <2>1, NewRecordType
    <2>3. shm' \in [IPs -> Records(Time)]
      <3>1. [new EXCEPT !.magic = TRUE] \in Records(Time)
        BY <2>2 DEF Records
      <3> QED
        BY <1>3, <2>1, <3>1 DEF Write, Update, TypeOK
    <2>4. new.first \in Time
      BY <2>2 DEF Records
    <2>5. made' \in Counters /\ admitted' \in Counters
      BY <1>3, <2>1, <2>4, ChargeType DEF Write, TypeOK
    <2>6. pc' \in [Workers -> Ready \cup Busy]
      BY <1>3, <2>1, AfterWriteType DEF Write, TypeOK, Ready, Busy
    <2> QED
      BY <1>3, <2>3, <2>5, <2>6 DEF Write, TypeOK
  <1>4. ASSUME NEW w \in Workers, FailOpen(w) PROVE TypeOK'
    BY <1>4 DEF FailOpen, TypeOK, Ready, Busy, history
  <1>5. ASSUME NEW w \in Workers, Notify(w) PROVE TypeOK'
    <2>1. Key(w) \in IPs /\ buf[w].first \in Time
      BY EffectiveIPType DEF TypeOK, Key, Records
    <2> QED
      BY <1>5, <2>1, ChargeType DEF Notify, TypeOK, Ready, Busy
  <1>6. ASSUME NEW w \in Workers, Wake(w) PROVE TypeOK'
    BY <1>6 DEF Wake, TypeOK, Ready, Busy, history
  <1>7. ASSUME NEW w \in Workers, Restart(w) PROVE TypeOK'
    BY <1>0, <1>7 DEF Restart, TypeOK, Ready, Busy, history
  <1>8. ASSUME Tick PROVE TypeOK'
    BY <1>8 DEF Tick, TypeOK, Time, worker, history
  <1>9. ASSUME UNCHANGED vars PROVE TypeOK'
    BY <1>9 DEF vars, worker, history, TypeOK
  <1> QED
    BY <1>1, <1>2, <1>3, <1>4, <1>5, <1>6, <1>7, <1>8, <1>9
    DEF Next, Serve

\* Whatever the workers do, tables, copies and counters keep their types.
THEOREM TypeCorrect == Spec => []TypeOK
  BY InitTypeOK, StepTypeOK, PTL DEF Spec

(***************************************************************************)
(* Why nobody is refused too early.  Updates get lost, so the count of a   *)
(* record may be smaller than the number of updates written to its window; *)
(* it is never larger, and neither is the count in any worker's copy, old  *)
(* as that copy may be.  A worker on its way to a refusal still holds the  *)
(* copy it judged.                                                         *)
(***************************************************************************)
Backed(record, ip) == record.count <= made[ip][record.first]

TableBacked   == \A ip \in IPs : Backed(shm[ip], ip)
CopiesBacked  == \A w \in Workers : Backed(buf[w], Key(w))
RefusalsJudged ==
  \A w \in Workers :
    pc[w] \in {"notify", "asleep", "denied"} =>
      buf[w].count >= req[w].policy.allowed

\* ... and its own attempt came on top of those the copy counts.
RefusalsCounted ==
  \A w \in Workers :
    pc[w] \in {"notify", "asleep", "denied"} =>
      made[Key(w)][buf[w].first] > buf[w].count

CountInv ==
  /\ TypeOK
  /\ TableBacked
  /\ CopiesBacked
  /\ RefusalsJudged
  /\ RefusalsCounted

\* With empty tables there is nothing to back.
LEMMA InitCountInv == Init => CountInv
  <1> SUFFICES ASSUME Init PROVE CountInv
    OBVIOUS
  <1>1. TypeOK
    BY InitTypeOK
  <1>2. \A ip \in IPs : Backed(NoRecord, ip)
    BY TimeType DEF Init, Backed, NoRecord
  <1>3. \A w \in Workers : Key(w) \in IPs
    BY <1>1, EffectiveIPType DEF Key, TypeOK
  <1> QED
    BY <1>1, <1>2, <1>3
    DEF Init, CountInv, TableBacked, CopiesBacked, RefusalsJudged,
        RefusalsCounted

(***************************************************************************)
(* The number of updates written to a window only grows.                   *)
(***************************************************************************)
LEMMA MadeGrows ==
  ASSUME TypeOK, NEW ip \in IPs, NEW f \in Time, made' = Charge(made, ip, f)
  PROVE  /\ made'[ip][f] = made[ip][f] + 1
         /\ \A i \in IPs, t \in Time : /\ made[i][t] \in Nat
                                      /\ made'[i][t] \in Nat
                                      /\ made'[i][t] >= made[i][t]
  <1>1. made \in Counters
    BY DEF TypeOK
  <1>2. /\ made' \in Counters
        /\ made'[ip][f] = made[ip][f] + 1
        /\ \A i \in IPs, t \in Time : made'[i][t] >= made[i][t]
    BY <1>1, ChargeType
  <1> QED
    BY <1>1, <1>2 DEF Counters

\* Every step leaves every count backed by the history of its window.
LEMMA StepCountInv == CountInv /\ [Next]_vars => CountInv'
  <1> SUFFICES ASSUME CountInv, [Next]_vars PROVE CountInv'
    OBVIOUS
  <1>t. TypeOK /\ TypeOK'
    BY StepTypeOK DEF CountInv
  <1>k. \A w \in Workers : Key(w) \in IPs /\ buf[w] \in Records(Time)
    BY <1>t, EffectiveIPType DEF Key, TypeOK
  <1>0. \A ip \in IPs : (made' = made) => Backed(NoRecord, ip)'
    BY <1>t, TimeType DEF Backed, NoRecord, TypeOK, Counters
  <1>1. ASSUME NEW w \in Workers, NEW r \in Requests, Start(w, r)
        PROVE  CountInv'
    <2>1. TableBacked'
      BY <1>1 DEF Start, history, CountInv, TableBacked, Backed
    <2>2. CopiesBacked'
      <3>1. ASSUME NEW v \in Workers PROVE Backed(buf[v], Key(v))'
        <4>1. CASE v = w
          <5>1. Key(w)' \in IPs /\ buf'[w] = NoRecord
            BY <1>1, <1>t, EffectiveIPType DEF Start, Key, TypeOK
          <5> QED
            BY <1>1, <1>0, <4>1, <5>1 DEF Start, history, Backed
        <4>2. CASE v # w
          BY <1>1, <1>t, <4>2
          DEF Start, history, CountInv, CopiesBacked, Backed, Key, TypeOK
        <4> QED
          BY <4>1, <4>2
      <3> QED
        BY <3>1 DEF CopiesBacked
    <2>3. RefusalsJudged'
      BY <1>1, <1>t DEF Start, CountInv, RefusalsJudged, TypeOK
    <2>4. RefusalsCounted'
      BY <1>1, <1>t
      DEF Start, Ready, history, CountInv, RefusalsCounted, Key, TypeOK
    <2> QED
      BY <1>t, <2>1, <2>2, <2>3, <2>4 DEF CountInv
  <1>2. ASSUME NEW w \in Workers, Lookup(w) PROVE CountInv'
    <2>1. TableBacked'
      BY <1>2 DEF Lookup, history, CountInv, TableBacked, Backed
    <2>2. CopiesBacked'
      BY <1>2, <1>t, <1>k
      DEF Lookup, Get, history, CountInv, TableBacked, CopiesBacked, Backed,
          Key, TypeOK
    <2>3. RefusalsJudged'
      BY <1>2, <1>t DEF Lookup, CountInv, RefusalsJudged, TypeOK
    <2>4. RefusalsCounted'
      BY <1>2, <1>t
      DEF Lookup, history, CountInv, RefusalsCounted, Key, TypeOK
    <2> QED
      BY <1>t, <2>1, <2>2, <2>3, <2>4 DEF CountInv
  <1>3. ASSUME NEW w \in Workers, Write(w) PROVE CountInv'
    <2> DEFINE new == NewRecord(req[w], at[w], buf[w])
    <2>1. /\ Key(w) \in IPs /\ req[w] \in Requests /\ at[w] \in Time
          /\ buf[w] \in Records(Time)
      BY <1>t, <1>k DEF TypeOK
    <2>2. /\ new \in Records(Time) /\ new.magic
          /\ \/ new.first = buf[w].first /\ new.count = buf[w].count + 1
             \/ new.count = 1
      BY <2>1, NewRecordType
    <2>3. new.first \in Time /\ made' = Charge(made, Key(w), new.first)
      BY <1>3, <2>2 DEF Write, Records
    <2>4. new.count <= made'[Key(w)][new.first]
      <3>1. made'[Key(w)][new.first] = made[Key(w)][new.first] + 1
        BY <1>t, <2>1, <2>3, MadeGrows
      <3>2. /\ made[Key(w)][new.first] \in Nat /\ new.count \in Nat
            /\ buf[w].count \in Nat
        BY <1>t, <2>1, <2>2, <2>3, MadeGrows DEF Records
      <3>3. buf[w].count <= made[Key(w)][buf[w].first]
        BY DEF CountInv, CopiesBacked, Backed
      <3> QED
        BY <2>2, <3>1, <3>2, <3>3
    <2>5. shm'[Key(w)] = new
      <3>1. [new EXCEPT !.magic = TRUE] = new
        BY <2>2 DEF Records
      <3> QED
        BY <1>3, <1>t, <2>1, <3>1 DEF Write, Update, TypeOK
    <2>6. TableBacked'
      <3>1. ASSUME NEW ip \in IPs PROVE Backed(shm[ip], ip)'
        <4>1. CASE ip = Key(w)
          BY <2>4, <2>5, <4>1 DEF Backed
        <4>2. CASE ip # Key(w)
          <5>1. shm'[ip] = shm[ip]
            BY <1>3, <1>t, <2>1, <4>2 DEF Write, Update, TypeOK
          <5>2. Backed(shm[ip], ip) /\ shm[ip] \in Records(Time)
            BY <1>t DEF CountInv, TableBacked, TypeOK
          <5>3. shm[ip].count <= made'[ip][shm[ip].first]
            <6>1. shm[ip].first \in Time /\ shm[ip].count \in Nat
              BY <5>2 DEF Records
            <6>2. /\ made[ip][shm[ip].first] \in Nat
                  /\ made'[ip][shm[ip].first] \in Nat
                  /\ made'[ip][shm[ip].first] >= made[ip][shm[ip].first]
              BY <1>t, <2>1, <2>3, <6>1, MadeGrows
            <6> QED
              BY <5>2, <6>1, <6>2 DEF Backed
          <5> QED
            BY <5>1, <5>3 DEF Backed
        <4> QED
          BY <4>1, <4>2
      <3> QED
        BY <3>1 DEF TableBacked
    <2>7. CopiesBacked'
      <3>1. ASSUME NEW v \in Workers PROVE Backed(buf[v], Key(v))'
        <4>1. Key(v)' = Key(v) /\ buf'[v] = buf[v]
          BY <1>3 DEF Write, Key
        <4>2. buf[v].first \in Time /\ buf[v].count \in Nat
          BY <1>k DEF Records
        <4>3. /\ made[Key(v)][buf[v].first] \in Nat
              /\ made'[Key(v)][buf[v].first] \in Nat
              /\ made'[Key(v)][buf[v].first] >= made[Key(v)][buf[v].first]
          BY <1>t, <1>k, <2>1, <2>3, <4>2, MadeGrows
        <4> QED
          BY <4>1, <4>2, <4>3 DEF CountInv, CopiesBacked, Backed
      <3> QED
        BY <3>1 DEF CopiesBacked
    <2>8. RefusalsJudged'
      <3>1. AfterWrite(req[w], at[w], buf[w]) # "ok" =>
              buf[w].count >= req[w].policy.allowed
        BY <2>1, AfterWriteType DEF Over
      <3> QED
        BY <1>3, <1>t, <3>1 DEF Write, CountInv, RefusalsJudged, TypeOK
    <2>9. RefusalsCounted'
      <3> SUFFICES ASSUME NEW v \in Workers,
                          pc'[v] \in {"notify", "asleep", "denied"}
                   PROVE  made'[Key(v)][buf[v].first] > buf[v].count
        BY <1>3 DEF RefusalsCounted, Write, Key
      <3>1. /\ buf[v].first \in Time /\ buf[v].count \in Nat
            /\ Key(v) \in IPs
        BY <1>k DEF Records
      <3>2. /\ made[Key(v)][buf[v].first] \in Nat
            /\ made'[Key(v)][buf[v].first] \in Nat
            /\ made'[Key(v)][buf[v].first] >= made[Key(v)][buf[v].first]
        BY <1>t, <2>1, <2>3, <3>1, MadeGrows
      <3>3. CASE v = w
        <4>1. Over(req[w], at[w], buf[w])
          BY <1>3, <1>t, <2>1, <3>3, AfterWriteType DEF Write, TypeOK
        <4>2. new.first = buf[w].first
          BY <2>1, <4>1 DEF Over, NewRecord, Records
        <4>3. made'[Key(w)][buf[w].first] = made[Key(w)][buf[w].first] + 1
          BY <1>t, <2>1, <2>3, <4>2, MadeGrows
        <4>4. buf[w].count <= made[Key(w)][buf[w].first]
          BY DEF CountInv, CopiesBacked, Backed
        <4> QED
          BY <3>1, <3>2, <3>3, <4>3, <4>4
      <3>4. CASE v # w
        <4>1. pc[v] \in {"notify", "asleep", "denied"}
          BY <1>3, <1>t, <3>4 DEF Write, TypeOK
        <4>2. made[Key(v)][buf[v].first] > buf[v].count
          BY <4>1 DEF CountInv, RefusalsCounted
        <4> QED
          BY <3>1, <3>2, <4>2
      <3> QED
        BY <3>3, <3>4
    <2> QED
      BY <1>t, <2>6, <2>7, <2>8, <2>9 DEF CountInv
  <1>4. ASSUME NEW w \in Workers, FailOpen(w) PROVE CountInv'
    BY <1>4, <1>t
    DEF FailOpen, history, CountInv, TableBacked, CopiesBacked,
        RefusalsJudged, RefusalsCounted, Backed, Key, TypeOK
  <1>5. ASSUME NEW w \in Workers, Notify(w) PROVE CountInv'
    BY <1>5, <1>t
    DEF Notify, history, CountInv, TableBacked, CopiesBacked,
        RefusalsJudged, RefusalsCounted, Backed, Key, TypeOK
  <1>6. ASSUME NEW w \in Workers, Wake(w) PROVE CountInv'
    BY <1>6, <1>t
    DEF Wake, history, CountInv, TableBacked, CopiesBacked,
        RefusalsJudged, RefusalsCounted, Backed, Key, TypeOK
  <1>7. ASSUME NEW w \in Workers, Restart(w) PROVE CountInv'
    <2>1. TableBacked' /\ RefusalsJudged'
      BY <1>7, <1>t
      DEF Restart, history, CountInv, TableBacked, RefusalsJudged, Backed,
          TypeOK
    <2>2. ASSUME NEW v \in Workers PROVE Backed(buf[v], Key(v))'
      <3>1. CASE v = w
        BY <1>7, <1>0, <1>t, <1>k, <3>1
        DEF Restart, history, Backed, Key, TypeOK
      <3>2. CASE v # w
        BY <1>7, <1>t, <3>2
        DEF Restart, history, CountInv, CopiesBacked, Backed, Key, TypeOK
      <3> QED
        BY <3>1, <3>2
    <2>3. RefusalsCounted'
      BY <1>7, <1>t
      DEF Restart, Busy, history, CountInv, RefusalsCounted, Key, TypeOK
    <2> QED
      BY <1>t, <2>1, <2>2, <2>3 DEF CountInv, CopiesBacked
  <1>8. ASSUME Tick PROVE CountInv'
    BY <1>8, <1>t
    DEF Tick, worker, history, CountInv, TableBacked, CopiesBacked,
        RefusalsJudged, RefusalsCounted, Backed, Key
  <1>9. ASSUME UNCHANGED vars PROVE CountInv'
    BY <1>9, <1>t
    DEF vars, worker, history, CountInv, TableBacked, CopiesBacked,
        RefusalsJudged, RefusalsCounted, Backed, Key
  <1> QED
    BY <1>1, <1>2, <1>3, <1>4, <1>5, <1>6, <1>7, <1>8, <1>9
    DEF Next, Serve

(***************************************************************************)
(* A 403 or 429 is answered only to a client with more than                *)
(* allowed_attempts counted attempts in that window, whatever the workers  *)
(* interleave.                                                             *)
(***************************************************************************)
THEOREM NeverBlocksTooEarly == Spec => []NoPrematureBlock
  <1>1. CountInv => NoPrematureBlock
    <2> SUFFICES ASSUME CountInv, NEW w \in Workers, pc[w] = "denied"
                 PROVE  made[Key(w)][buf[w].first] > req[w].policy.allowed
      BY DEF NoPrematureBlock
    <2>1. /\ buf[w].count >= req[w].policy.allowed
          /\ buf[w].count < made[Key(w)][buf[w].first]
      BY DEF CountInv, RefusalsJudged, RefusalsCounted
    <2>2. /\ buf[w].count \in Nat /\ req[w].policy.allowed \in Nat
          /\ made[Key(w)][buf[w].first] \in Nat
      BY EffectiveIPType, PolicyType
      DEF CountInv, TypeOK, Key, Records, Counters
    <2> QED
      BY <2>1, <2>2
  <1> QED
    BY <1>1, InitCountInv, StepCountInv, PTL DEF Spec

(***************************************************************************)
(* Why the daemon is not skipped.  If every scope blocks, with the same    *)
(* threshold, then whoever raises a count beyond the threshold read the    *)
(* threshold itself, and so goes on to send.                               *)
(***************************************************************************)
UniformBlocking ==
  \A r, q \in Requests :
    r.policy.action = "block" /\ r.policy.allowed = q.policy.allowed

Beyond(record) == \E r \in Requests : record.count > r.policy.allowed

TableEscalated ==
  \A ip \in IPs : Beyond(shm[ip]) => Escalating(ip, shm[ip].first)

CopiesEscalated ==
  \A w \in Workers : Beyond(buf[w]) => Escalating(Key(w), buf[w].first)

DenialsEscalated ==
  \A w \in Workers : pc[w] = "denied" => Escalating(Key(w), buf[w].first)

NobodyThrottled == \A w \in Workers : pc[w] # "asleep"

SendInv ==
  /\ TypeOK
  /\ NobodyThrottled
  /\ restarts = 0 => TableEscalated /\ CopiesEscalated /\ DenialsEscalated

\* At the start no count is beyond the threshold.
LEMMA InitSendInv == Init => SendInv
  <1> SUFFICES ASSUME Init PROVE SendInv
    OBVIOUS
  <1>1. TypeOK
    BY InitTypeOK
  <1>2. ~ Beyond(NoRecord)
    BY PolicyType DEF Beyond, NoRecord
  <1> QED
    BY <1>1, <1>2
    DEF Init, SendInv, NobodyThrottled, TableEscalated, CopiesEscalated,
        DenialsEscalated

(***************************************************************************)
(* An escalation under way ends in a send, unless a worker dies.           *)
(***************************************************************************)
LEMMA EscalationStays ==
  ASSUME TypeOK, [Next]_vars, restarts' = 0,
         NEW ip \in IPs, NEW f \in Time, Escalating(ip, f)
  PROVE  Escalating(ip, f)'
  <1>0. restarts \in Nat /\ sends \in Counters
    BY DEF TypeOK
  <1>n. sends[ip][f] \in Nat
    BY <1>0 DEF Counters
  <1>1. CASE sends[ip][f] > 0
    <2>1. sends'[ip][f] >= sends[ip][f] /\ sends'[ip][f] \in Nat
      <3>1. ASSUME NEW w \in Workers, Notify(w)
            PROVE  sends'[ip][f] >= sends[ip][f] /\ sends'[ip][f] \in Nat
        <4>1. Key(w) \in IPs /\ buf[w].first \in Time
          BY EffectiveIPType DEF TypeOK, Key, Records
        <4>2. sends' \in Counters /\ sends'[ip][f] >= sends[ip][f]
          BY <1>0, <3>1, <4>1, ChargeType DEF Notify
        <4> QED
          BY <4>2 DEF Counters
      <3>2. CASE UNCHANGED sends
        BY <1>n, <3>2
      <3> QED
        BY <3>1, <3>2
        DEF Next, Serve, Start, Lookup, Write, FailOpen, Wake, Restart, Tick,
            vars, history
    <2> QED
      BY <1>1, <1>n, <2>1 DEF Escalating
  <1>2. ASSUME NEW v \in Workers,
               pc[v] = "notify", Key(v) = ip, buf[v].first = f
        PROVE  Escalating(ip, f)'
    <2>1. CASE Notify(v)
      <3>1. sends'[ip][f] = sends[ip][f] + 1
        BY <1>0, <1>2, <2>1, ChargeType DEF Notify
      <3> QED
        BY <1>n, <3>1 DEF Escalating
    <2>2. CASE UNCHANGED <<pc[v], req[v], buf[v]>>
      BY <1>2, <2>2 DEF Escalating, Key
    <2>3. Notify(v) \/ UNCHANGED <<pc[v], req[v], buf[v]>>
      <3>1. ASSUME NEW w \in Workers, NEW r \in Requests, Start(w, r)
            PROVE  UNCHANGED <<pc[v], req[v], buf[v]>>
        BY <1>2, <3>1 DEF Start, Ready, TypeOK
      <3>2. ASSUME NEW w \in Workers, Lookup(w) \/ Write(w) \/ FailOpen(w)
            PROVE  UNCHANGED <<pc[v], req[v], buf[v]>>
        BY <1>2, <3>2 DEF Lookup, Write, FailOpen, TypeOK
      <3>3. ASSUME NEW w \in Workers, Notify(w)
            PROVE  Notify(v) \/ UNCHANGED <<pc[v], req[v], buf[v]>>
        BY <1>2, <3>3 DEF Notify, TypeOK
      <3>4. ASSUME NEW w \in Workers, Wake(w)
            PROVE  UNCHANGED <<pc[v], req[v], buf[v]>>
        BY <1>2, <3>4 DEF Wake, TypeOK
      <3>5. ASSUME NEW w \in Workers PROVE ~ Restart(w)
        BY <1>0 DEF Restart
      <3> QED
        BY <3>1, <3>2, <3>3, <3>4, <3>5 DEF Next, Serve, Tick, vars, worker
    <2> QED
      BY <2>1, <2>2, <2>3
  <1> QED
    BY <1>1, <1>2 DEF Escalating

\* Every step leaves every count beyond the threshold escalated.
LEMMA StepSendInv ==
  ASSUME UniformBlocking, SendInv, [Next]_vars
  PROVE  SendInv'
  <1>t. TypeOK /\ TypeOK'
    BY StepTypeOK DEF SendInv
  <1>k. \A w \in Workers : /\ Key(w) \in IPs /\ req[w] \in Requests
                           /\ at[w] \in Time /\ buf[w] \in Records(Time)
                           /\ buf[w].first \in Time /\ buf[w].count \in Nat
    BY <1>t, EffectiveIPType DEF Key, TypeOK, Records
  <1>0. ~ Beyond(NoRecord)
    BY PolicyType DEF Beyond, NoRecord
  <1>1. NobodyThrottled'
    <2>1. ASSUME NEW w \in Workers, Write(w) PROVE NobodyThrottled'
      <3>1. AfterWrite(req[w], at[w], buf[w]) # "asleep"
        BY <1>k DEF AfterWrite, UniformBlocking
      <3> QED
        BY <1>t, <2>1, <3>1 DEF Write, SendInv, NobodyThrottled, TypeOK
    <2>2. ASSUME NEW w \in Workers,
                 \/ \E r \in Requests : Start(w, r)
                 \/ Lookup(w) \/ FailOpen(w) \/ Notify(w) \/ Wake(w)
                 \/ Restart(w)
          PROVE  NobodyThrottled'
      BY <1>t, <2>2
      DEF Start, Lookup, FailOpen, Notify, Wake, Restart, SendInv,
          NobodyThrottled, TypeOK
    <2> QED
      BY <2>1, <2>2 DEF Next, Serve, Tick, vars, worker, SendInv, NobodyThrottled
  <1>2. ASSUME restarts' = 0
        PROVE  TableEscalated' /\ CopiesEscalated' /\ DenialsEscalated'
    <2>0. restarts = 0
      BY <1>2, <1>t
      DEF Next, Serve, Start, Lookup, Write, FailOpen, Notify, Wake, Restart,
          Tick, vars, TypeOK
    <2>i. TableEscalated /\ CopiesEscalated /\ DenialsEscalated
      BY <2>0 DEF SendInv
    <2>s. \A ip \in IPs, f \in Time : Escalating(ip, f) => Escalating(ip, f)'
      BY <1>t, <1>2, EscalationStays
    <2>1. ASSUME NEW ip \in IPs, Beyond(shm'[ip])
          PROVE  Escalating(ip, shm[ip].first)'
      <3>1. CASE shm'[ip] = shm[ip]
        <4>1. shm[ip].first \in Time /\ Escalating(ip, shm[ip].first)
          BY <1>t, <2>1, <2>i, <3>1 DEF TableEscalated, TypeOK, Records
        <4>2. PICK f \in Time : f = shm[ip].first /\ Escalating(ip, f)'
          BY <2>s, <4>1
        <4> QED
          BY <3>1, <4>2 DEF Escalating
      <3>2. ASSUME NEW w \in Workers, Write(w), ip = Key(w)
            PROVE  Escalating(ip, shm[ip].first)'
        <4> DEFINE new == NewRecord(req[w], at[w], buf[w])
        <4>1. /\ new \in Records(Time) /\ new.magic
              /\ \/ /\ new.first = buf[w].first
                    /\ new.count = buf[w].count + 1
                    /\ InWindow(req[w], at[w], buf[w])
                 \/ new.count = 1
          BY <1>k, NewRecordType
        <4>2. shm'[ip] = new
          <5>1. [new EXCEPT !.magic = TRUE] = new
            BY <4>1 DEF Records
          <5> QED
            BY <1>t, <1>k, <3>2, <5>1 DEF Write, Update, TypeOK
        <4>3. /\ new.first = buf[w].first
              /\ buf[w].count >= req[w].policy.allowed
              /\ InWindow(req[w], at[w], buf[w])
          <5>1. PICK r \in Requests : new.count > r.policy.allowed
            BY <2>1, <4>2 DEF Beyond
          <5>2. r.policy.allowed = req[w].policy.allowed
            BY <1>k DEF UniformBlocking
          <5> QED
            BY <1>k, <4>1, <5>1, <5>2, PolicyType
        <4>4. CASE buf[w].count = req[w].policy.allowed
          <5>1. AfterWrite(req[w], at[w], buf[w]) = "notify"
            BY <1>k, <4>3, <4>4, PolicyType
            DEF AfterWrite, Over, UniformBlocking
          <5>2. pc'[w] = "notify" /\ Key(w)' = ip
            BY <1>t, <3>2, <5>1 DEF Write, Key, TypeOK
          <5> QED
            BY <3>2, <4>2, <4>3, <5>2 DEF Escalating, Write
        <4>5. CASE buf[w].count # req[w].policy.allowed
          <5>1. Beyond(buf[w])
            BY <1>k, <4>3, <4>5, PolicyType DEF Beyond
          <5>2. Escalating(ip, buf[w].first)
            BY <2>i, <3>2, <5>1 DEF CopiesEscalated
          <5>3. PICK f \in Time : f = buf[w].first /\ Escalating(ip, f)'
            BY <1>k, <2>s, <5>2
          <5> QED
            BY <3>2, <4>2, <4>3, <5>3 DEF Escalating, Write
        <4> QED
          BY <4>4, <4>5
      <3>3. \/ shm'[ip] = shm[ip]
            \/ \E w \in Workers : Write(w) /\ ip = Key(w)
        BY <1>t, <1>k
        DEF Next, Serve, Start, Lookup, Write, FailOpen, Notify, Wake,
            Restart, Tick, vars, Update, TypeOK
      <3> QED
        BY <3>1, <3>2, <3>3
    <2>2. ASSUME NEW w \in Workers, Beyond(buf'[w])
          PROVE  Escalating(Key(w), buf[w].first)'
      <3>1. CASE UNCHANGED <<buf[w], req[w]>>
        BY <1>k, <2>2, <2>i, <2>s, <3>1
        DEF CopiesEscalated, Escalating, Key
      <3>2. CASE Lookup(w)
        <4>1. /\ buf'[w] = shm[Key(w)] /\ Key(w)' = Key(w)
              /\ shm[Key(w)].first \in Time
          BY <1>t, <1>k, <3>2 DEF Lookup, Get, Key, TypeOK, Records
        <4>2. Escalating(Key(w), shm[Key(w)].first)
          BY <1>k, <2>2, <2>i, <4>1 DEF TableEscalated
        <4>3. PICK f \in Time :
                f = shm[Key(w)].first /\ Escalating(Key(w), f)
          BY <4>1, <4>2
        <4>4. PICK ip \in IPs : ip = Key(w) /\ Escalating(ip, f)'
          BY <1>k, <2>s, <4>3
        <4> QED
          BY <4>1, <4>3, <4>4 DEF Escalating
      <3>3. CASE buf'[w] = NoRecord
        BY <1>0, <2>2, <3>3
      <3>4. \/ UNCHANGED <<buf[w], req[w]>>
            \/ Lookup(w)
            \/ buf'[w] = NoRecord
        BY <1>t
        DEF Next, Serve, Start, Lookup, Write, FailOpen, Notify, Wake,
            Restart, Tick, vars, worker, TypeOK
      <3> QED
        BY <3>1, <3>2, <3>3, <3>4
    <2>3. ASSUME NEW w \in Workers, pc'[w] = "denied"
          PROVE  Escalating(Key(w), buf[w].first)'
      <3>1. CASE UNCHANGED <<pc[w], buf[w], req[w]>>
        BY <1>k, <2>3, <2>i, <2>s, <3>1
        DEF DenialsEscalated, Escalating, Key
      <3>2. CASE Write(w)
        <4>1. /\ buf[w].count >= req[w].policy.allowed
              /\ buf[w].count # req[w].policy.allowed
          BY <1>t, <1>k, <2>3, <3>2, AfterWriteType DEF Write, Over, TypeOK
        <4>2. Beyond(buf'[w])
          BY <1>k, <3>2, <4>1, PolicyType DEF Beyond, Write
        <4> QED
          BY <2>2, <4>2
      <3>3. CASE Notify(w)
        <4>1. sends'[Key(w)][buf[w].first] = sends[Key(w)][buf[w].first] + 1
          BY <1>t, <1>k, <3>3, ChargeType DEF Notify, TypeOK
        <4>2. sends[Key(w)][buf[w].first] \in Nat
          BY <1>t, <1>k DEF TypeOK, Counters
        <4> QED
          BY <3>3, <4>1, <4>2 DEF Notify, Escalating, Key
      <3>4. \/ UNCHANGED <<pc[w], buf[w], req[w]>>
            \/ Write(w) \/ Notify(w)
        <4>1. pc[w] # "asleep"
          BY DEF SendInv, NobodyThrottled
        <4> QED
          BY <1>t, <2>3, <4>1
          DEF Next, Serve, Start, Lookup, Write, FailOpen, Notify, Wake,
              Restart, Tick, vars, worker, TypeOK
      <3> QED
        BY <3>1, <3>2, <3>3, <3>4
    <2> QED
      BY <2>1, <2>2, <2>3
      DEF TableEscalated, CopiesEscalated, DenialsEscalated, Beyond
  <1> QED
    BY <1>t, <1>1, <1>2 DEF SendInv

(***************************************************************************)
(* If every scope blocks with the same threshold, no 403 beyond the        *)
(* threshold is answered without a block command sent or about to be sent  *)
(* for that window, as long as no worker died.                             *)
(***************************************************************************)
THEOREM DaemonIsNotSkipped ==
  ASSUME UniformBlocking PROVE Spec => []EscalationNotSkipped
  <1>1. SendInv => EscalationNotSkipped
    BY DEF SendInv, DenialsEscalated, EscalationNotSkipped
  <1>2. SendInv /\ [Next]_vars => SendInv'
    BY StepSendInv
  <1> QED
    BY <1>1, <1>2, InitSendInv, PTL DEF Spec

(***************************************************************************)
(* One worker alone.  Between its lookup and its write nobody else writes, *)
(* so the copy it writes back is the record of that moment.  The records   *)
(* then lag behind nothing: a count is the number of updates written, and  *)
(* no update was ever written to a window younger than the current one.    *)
(***************************************************************************)
OneWorker == \A v, w \in Workers : v = w

CopyIsCurrent ==
  \A w \in Workers : pc[w] = "write" =>
    /\ buf[w] = shm[Key(w)]
    /\ Counts(req[w], at[w], buf[w])

NoneAhead ==
  \A ip \in IPs, t \in Time :
    made[ip][t] > 0 => shm[ip].magic /\ t <= shm[ip].first

AloneInv == TypeOK /\ CopyIsCurrent /\ NoLostCount /\ NoneAhead

(***************************************************************************)
(* What a worker needs to know of its own variables.                       *)
(***************************************************************************)
LEMMA WorkerType ==
  ASSUME TypeOK, NEW w \in Workers
  PROVE  /\ Key(w) \in IPs /\ req[w] \in Requests /\ at[w] \in Time
         /\ buf[w] \in Records(Time) /\ shm[Key(w)] \in Records(Time)
  BY EffectiveIPType DEF TypeOK, Key

(***************************************************************************)
(* Every step leaves the table alone, or is a Write with room.             *)
(***************************************************************************)
LEMMA TableCases ==
  ASSUME [Next]_vars
  PROVE  UNCHANGED <<shm, made>> \/ \E w \in Workers : Write(w)
  BY DEF Next, Serve, Start, Lookup, FailOpen, Notify, Wake, Restart, Tick,
         vars, history

(***************************************************************************)
(* What a lone worker's write does: it counts one more attempt in the      *)
(* current window, or replaces a window that is over by a younger one.     *)
(***************************************************************************)
LEMMA LoneWrite ==
  ASSUME TypeOK, CopyIsCurrent, NEW w \in Workers, Write(w)
  PROVE  LET k == Key(w) IN
         /\ k \in IPs /\ shm'[k].magic /\ shm'[k] \in Records(Time)
         /\ \A ip \in IPs : ip # k => shm'[ip] = shm[ip]
         /\ made' = Charge(made, k, shm'[k].first)
         /\ \/ /\ InWindow(req[w], at[w], shm[k]) /\ shm[k].magic
               /\ shm'[k].first = shm[k].first
               /\ shm'[k].count = shm[k].count + 1
            \/ /\ shm[k].magic =>
                    shm'[k].first >= shm[k].first + req[w].policy.window
               /\ ~ InWindow(req[w], at[w], shm[k])
               /\ shm'[k].first = at[w]
               /\ shm'[k].count = 1
  <1> DEFINE k == Key(w)
             new == NewRecord(req[w], at[w], buf[w])
  <1>1. /\ k \in IPs /\ req[w] \in Requests /\ at[w] \in Time
        /\ buf[w] \in Records(Time) /\ buf[w] = shm[k]
    BY WorkerType DEF Write, CopyIsCurrent
  <1>2. /\ new \in Records(Time) /\ new.magic
        /\ \/ /\ new.first = buf[w].first /\ new.count = buf[w].count + 1
              /\ InWindow(req[w], at[w], buf[w])
           \/ /\ new.first = at[w] /\ new.count = 1
              /\ ~ InWindow(req[w], at[w], buf[w])
    BY <1>1, NewRecordType
  <1>3. [new EXCEPT !.magic = TRUE] = new
    BY <1>2 DEF Records
  <1>4. shm' = [shm EXCEPT ![k] = new] /\ made' = Charge(made, k, new.first)
    BY <1>3 DEF Write, Update
  <1>5. shm'[k] = new /\ \A ip \in IPs : ip # k => shm'[ip] = shm[ip]
    BY <1>1, <1>4 DEF TypeOK
  <1>6. InWindow(req[w], at[w], shm[k]) => shm[k].magic
    BY DEF InWindow
  <1>7. ~ InWindow(req[w], at[w], shm[k]) /\ shm[k].magic =>
          at[w] >= shm[k].first + req[w].policy.window
    <2>1. /\ at[w] \in Nat /\ shm[k].first \in Nat
          /\ req[w].policy.window \in Nat
      BY <1>1, TimeType, PolicyType DEF Records
    <2> QED
      BY <2>1 DEF InWindow
  <1> QED
    BY <1>1, <1>2, <1>4, <1>5, <1>6, <1>7

\* At the start nothing is counted.
LEMMA InitAloneInv == Init => AloneInv
  <1> SUFFICES ASSUME Init PROVE AloneInv
    OBVIOUS
  <1>1. TypeOK
    BY InitTypeOK
  <1> QED
    BY <1>1
    DEF Init, AloneInv, CopyIsCurrent, NoLostCount, NoneAhead, NoRecord

\* A lone worker's steps keep the counts exact.
LEMMA StepAloneInv ==
  ASSUME OneWorker, AloneInv, [Next]_vars
  PROVE  AloneInv'
  <1>t. TypeOK /\ TypeOK'
    BY StepTypeOK DEF AloneInv
  <1>1. CopyIsCurrent'
    <2> SUFFICES ASSUME NEW w \in Workers, pc'[w] = "write"
                 PROVE  /\ buf'[w] = shm'[Key(w)']
                        /\ Counts(req'[w], at'[w], buf'[w])
      BY DEF CopyIsCurrent
    <2>1. CASE Lookup(w)
      <3>1. Key(w)' = Key(w) /\ req' = req /\ at' = at /\ shm' = shm
        BY <2>1 DEF Lookup, Key
      <3>2. buf'[w] = shm[Key(w)]
        BY <1>t, <2>1 DEF Lookup, Get, TypeOK
      <3>3. pc'[w] = IF Counts(req[w], at[w], shm[Key(w)])
                       THEN "write" ELSE "ok"
        BY <1>t, <2>1 DEF Lookup, Get, TypeOK
      <3> QED
        BY <3>1, <3>2, <3>3
    <2>2. CASE UNCHANGED <<pc[w], req[w], at[w], buf[w], shm>>
      BY <2>2 DEF AloneInv, CopyIsCurrent, Key
    <2>3. Lookup(w) \/ UNCHANGED <<pc[w], req[w], at[w], buf[w], shm>>
      <3>1. ASSUME NEW v \in Workers, NEW r \in Requests, Start(v, r)
            PROVE  FALSE
        BY <1>t, <3>1 DEF OneWorker, Start, TypeOK
      <3>2. ASSUME NEW v \in Workers,
                   Write(v) \/ FailOpen(v) \/ Notify(v) \/ Wake(v) \/ Restart(v)
            PROVE  FALSE
        <4>1. v = w
          BY DEF OneWorker
        <4>2. pc'[w] # "write"
          <5>1. CASE Write(w)
            BY <1>t, <5>1, WorkerType, AfterWriteType DEF Write, TypeOK
          <5>2. CASE FailOpen(w) \/ Notify(w) \/ Wake(w) \/ Restart(w)
            BY <1>t, <5>2 DEF FailOpen, Notify, Wake, Restart, TypeOK
          <5> QED
            BY <3>2, <4>1, <5>1, <5>2
        <4> QED
          BY <4>2
      <3>3. ASSUME NEW v \in Workers, Lookup(v) PROVE Lookup(w)
        BY <3>3 DEF OneWorker
      <3> QED
        BY <3>1, <3>2, <3>3 DEF Next, Serve, Tick, vars, worker
    <2> QED
      BY <2>1, <2>2, <2>3
  <1>2. NoLostCount' /\ NoneAhead'
    <2>1. CASE UNCHANGED <<shm, made>>
      BY <2>1 DEF AloneInv, NoLostCount, NoneAhead
    <2>2. ASSUME NEW w \in Workers, Write(w)
          PROVE  NoLostCount' /\ NoneAhead'
      <3> DEFINE k == Key(w)
                 f == shm'[k].first
      <3>1. /\ k \in IPs /\ shm'[k].magic /\ shm'[k] \in Records(Time)
            /\ \A ip \in IPs : ip # k => shm'[ip] = shm[ip]
            /\ made' = Charge(made, k, f)
        BY <1>t, <2>2, LoneWrite DEF AloneInv
      <3>2. /\ made'[k][f] = made[k][f] + 1
            /\ \A ip \in IPs, t \in Time :
                 <<ip, t>> # <<k, f>> => made'[ip][t] = made[ip][t]
        BY <1>t, <3>1 DEF Charge, TypeOK, Counters, Records
      <3>3. /\ f \in Nat /\ shm[k].first \in Nat /\ shm[k].count \in Nat
            /\ at[w] \in Nat /\ f \in Time /\ shm[k].first \in Time
            /\ req[w].policy.window \in Nat \ {0}
            /\ \A t \in Time : made[k][t] \in Nat /\ t \in Nat
        <4>1. /\ req[w] \in Requests /\ at[w] \in Time
              /\ shm[k] \in Records(Time)
          BY <1>t, WorkerType
        <4>2. made[k] \in [Time -> Nat]
          BY <1>t, <3>1 DEF TypeOK, Counters
        <4>3. f \in Time /\ shm[k].first \in Time /\ shm[k].count \in Nat
          BY <3>1, <4>1 DEF Records
        <4> QED
          BY <4>1, <4>2, <4>3, TimeType, PolicyType
      <3>4. CASE /\ shm[k].magic
                 /\ f = shm[k].first
                 /\ shm'[k].count = shm[k].count + 1
        <4>1. shm'[k].count = made'[k][f]
          BY <3>1, <3>2, <3>3, <3>4 DEF AloneInv, NoLostCount
        <4>2. NoLostCount'
          BY <3>1, <3>2, <4>1, <1>t, SMTT(40)
          DEF AloneInv, NoLostCount, TypeOK, Records
        <4>3. NoneAhead'
          BY <3>1, <3>2, <3>3, <3>4 DEF AloneInv, NoneAhead
        <4> QED
          BY <4>2, <4>3
      <3>5. CASE /\ shm[k].magic =>
                      f >= shm[k].first + req[w].policy.window
                 /\ shm'[k].count = 1
        <4>1. \A t \in Time : t >= f => made[k][t] = 0
          BY <3>1, <3>3, <3>5 DEF AloneInv, NoneAhead
        <4>2. made'[k][f] = 1
          BY <3>2, <3>3, <4>1
        <4>3. NoLostCount'
          BY <3>1, <3>2, <3>5, <4>2, <1>t
          DEF AloneInv, NoLostCount, TypeOK, Records
        <4>4. NoneAhead'
          BY <3>1, <3>2, <3>3, <4>1 DEF AloneInv, NoneAhead
        <4> QED
          BY <4>3, <4>4
      <3> QED
        BY <1>t, <2>2, <3>4, <3>5, LoneWrite DEF AloneInv
    <2> QED
      BY <2>1, <2>2, TableCases
  <1> QED
    BY <1>t, <1>1, <1>2 DEF AloneInv

(***************************************************************************)
(* With one worker no update is lost: the count of a record is the number  *)
(* of updates written to its window, for any policies and any restarts.    *)
(***************************************************************************)
THEOREM CountsAreExact ==
  ASSUME OneWorker PROVE Spec => []NoLostCount
  <1>1. AloneInv => NoLostCount
    BY DEF AloneInv
  <1>2. AloneInv /\ [Next]_vars => AloneInv'
    BY StepAloneInv
  <1> QED
    BY <1>1, <1>2, InitAloneInv, PTL DEF Spec

(***************************************************************************)
(* With one worker a window is replaced only when the window that the      *)
(* replacing request's policy asks for is over, never by an older one.     *)
(***************************************************************************)
THEOREM WindowsRunTheirTime ==
  ASSUME OneWorker PROVE Spec => WindowNotCutShort
  <1> DEFINE NotCutShort ==
        \A ip \in IPs : (shm[ip].magic /\ shm'[ip].first # shm[ip].first) =>
          \E r \in Requests : shm'[ip].first >= shm[ip].first + r.policy.window
  <1>1. AloneInv /\ [Next]_vars => NotCutShort
    <2> SUFFICES ASSUME AloneInv, [Next]_vars, NEW ip \in IPs,
                        shm[ip].magic, shm'[ip].first # shm[ip].first
                 PROVE  \E r \in Requests :
                          shm'[ip].first >= shm[ip].first + r.policy.window
      OBVIOUS
    <2>1. PICK w \in Workers : Write(w)
      BY TableCases
    <2>2. ip = Key(w) /\ req[w] \in Requests
      BY <2>1, LoneWrite, WorkerType DEF AloneInv
    <2> QED
      BY <2>1, <2>2, LoneWrite DEF AloneInv
  <1>2. AloneInv /\ [Next]_vars => AloneInv'
    BY StepAloneInv
  <1> QED
    BY <1>1, <1>2, InitAloneInv, PTL DEF Spec, WindowNotCutShort

(***************************************************************************)
(* What one worker lets through: an update is admitted only while the      *)
(* count, which is exact, is below the threshold of the request's policy.  *)
(***************************************************************************)
AdmitsAtMost(m) ==
  \A ip \in IPs, t \in Time :
    admitted[ip][t] <= made[ip][t] /\ admitted[ip][t] <= m

\* A lone worker's steps admit no update beyond the largest threshold.
LEMMA StepAdmits ==
  ASSUME OneWorker, AloneInv, [Next]_vars,
         NEW m \in Nat, \A r \in Requests : r.policy.allowed <= m,
         AdmitsAtMost(m)
  PROVE  AdmitsAtMost(m)'
  <1>t. TypeOK
    BY DEF AloneInv
  <1>n. \A ip \in IPs, t \in Time :
          made[ip][t] \in Nat /\ admitted[ip][t] \in Nat
    BY <1>t DEF TypeOK, Counters
  <1>1. CASE UNCHANGED <<made, admitted>>
    BY <1>1 DEF AdmitsAtMost
  <1>2. ASSUME NEW w \in Workers, Write(w) PROVE AdmitsAtMost(m)'
    <2> DEFINE k == Key(w)
               f == shm'[k].first
    <2>1. /\ k \in IPs /\ f \in Time /\ req[w] \in Requests /\ at[w] \in Time
          /\ buf[w] = shm[k] /\ shm[k].count \in Nat /\ shm[k].first \in Nat
          /\ f \in Nat
      <3>1. k \in IPs /\ shm'[k] \in Records(Time)
        BY <1>2, LoneWrite DEF AloneInv
      <3>2. /\ req[w] \in Requests /\ at[w] \in Time
            /\ shm[k] \in Records(Time)
        BY <1>t, WorkerType
      <3>3. buf[w] = shm[k]
        BY <1>2 DEF AloneInv, CopyIsCurrent, Write
      <3> QED
        BY <3>1, <3>2, <3>3, TimeType DEF Records
    <2>2. \A ip \in IPs, t \in Time :
            made'[ip][t] = IF ip = k /\ t = f THEN made[k][f] + 1
                                              ELSE made[ip][t]
      <3>1. made' = Charge(made, k, f)
        BY <1>2, LoneWrite DEF AloneInv
      <3> QED
        BY <1>t, <2>1, <3>1 DEF Charge, TypeOK, Counters
    <2>3. CASE Over(req[w], at[w], shm[k])
      <3>1. admitted' = admitted
        BY <1>2, <2>1, <2>3 DEF Write
      <3> QED
        BY <1>n, <2>1, <2>2, <3>1 DEF AdmitsAtMost
    <2>4. CASE ~ Over(req[w], at[w], shm[k])
      <3>1. \A ip \in IPs, t \in Time :
              admitted'[ip][t] = IF ip = k /\ t = f THEN admitted[k][f] + 1
                                                    ELSE admitted[ip][t]
        <4>1. NewRecord(req[w], at[w], buf[w]).first = f
          <5>1. HasRoom(shm, k) /\ shm' = Update(shm, k,
                                    NewRecord(req[w], at[w], buf[w]))
            BY <1>2 DEF Write
          <5>2. buf[w] \in Records(Time)
            BY <1>t, WorkerType
          <5>3. NewRecord(req[w], at[w], buf[w]) \in Records(Time)
            BY <2>1, <5>2, NewRecordType
          <5> QED
            BY <1>t, <2>1, <5>1, <5>3 DEF Update, TypeOK, Records
        <4>2. admitted' = Charge(admitted, k, f)
          BY <1>2, <2>1, <2>4, <4>1 DEF Write
        <4> QED
          BY <1>t, <2>1, <4>2 DEF Charge, TypeOK, Counters
      <3>2. made[k][f] + 1 <= m
        <4>1. CASE /\ InWindow(req[w], at[w], shm[k]) /\ shm[k].magic
                   /\ f = shm[k].first
          <5>1. shm[k].count < req[w].policy.allowed
            BY <2>1, <2>4, <4>1, PolicyType DEF Over
          <5>2. made[k][f] = shm[k].count
            BY <2>1, <4>1 DEF AloneInv, NoLostCount
          <5> QED
            BY <2>1, <5>1, <5>2, PolicyType
        <4>2. CASE shm[k].magic => f >= shm[k].first + req[w].policy.window
          <5>1. made[k][f] = 0
            BY <1>n, <2>1, <4>2, PolicyType DEF AloneInv, NoneAhead
          <5>2. req[w].policy.allowed >= 1
            BY <2>1, PolicyType
          <5> QED
            BY <2>1, <5>1, <5>2, PolicyType
        <4> QED
          BY <1>2, <4>1, <4>2, LoneWrite DEF AloneInv
      <3> QED
        BY <1>n, <2>1, <2>2, <3>1, <3>2 DEF AdmitsAtMost
    <2> QED
      BY <2>3, <2>4
  <1>3. UNCHANGED <<made, admitted>> \/ \E w \in Workers : Write(w)
    BY DEF Next, Serve, Start, Lookup, FailOpen, Notify, Wake, Restart, Tick,
           vars, history
  <1> QED
    BY <1>1, <1>2, <1>3

(***************************************************************************)
(* With one worker no more attempts of one client are let through in one   *)
(* window than the largest allowed_attempts of any policy.                 *)
(***************************************************************************)
THEOREM AdmitsNoMoreThanAllowed ==
  ASSUME OneWorker, NEW m \in Nat,
         \A r \in Requests : r.policy.allowed <= m
  PROVE  Spec => [](\A ip \in IPs, t \in Time : admitted[ip][t] <= m)
  <1> DEFINE Bounded == \A ip \in IPs, t \in Time : admitted[ip][t] <= m
  <1>1. Init => AdmitsAtMost(m)
    <2> SUFFICES ASSUME Init PROVE AdmitsAtMost(m)
      OBVIOUS
    <2>1. \A ip \in IPs, t \in Time : made[ip][t] = 0 /\ admitted[ip][t] = 0
      BY DEF Init
    <2> QED
      BY <2>1 DEF AdmitsAtMost
  <1>2. AloneInv /\ [Next]_vars => AloneInv'
    BY StepAloneInv
  <1>3. AloneInv /\ AdmitsAtMost(m) /\ [Next]_vars => AdmitsAtMost(m)'
    BY StepAdmits
  <1>4. AdmitsAtMost(m) => Bounded
    BY DEF AdmitsAtMost
  <1>5. Spec => []Bounded
    <2> HIDE DEF Bounded
    <2> QED
      BY <1>1, <1>2, <1>3, <1>4, InitAloneInv, PTL DEF Spec
  <1> QED
    BY <1>5

(***************************************************************************)
(* Why a lone worker tells the daemon once per window.  If the scopes that *)
(* block share one threshold, the command goes out for the one update that *)
(* raises the count beyond it; after that update the pair of client and    *)
(* window is spent, because counts only rise and windows only get younger. *)
(***************************************************************************)
OneBlockThreshold ==
  \A r, q \in Requests :
    r.policy.action = "block" /\ q.policy.action = "block" =>
      r.policy.allowed = q.policy.allowed

Spent(ip, t) ==
  /\ shm[ip].magic
  /\ \/ t < shm[ip].first
     \/ /\ t = shm[ip].first
        /\ \A r \in Requests :
             r.policy.action = "block" => shm[ip].count > r.policy.allowed

SentIsSpent == \A ip \in IPs, t \in Time : sends[ip][t] > 0 => Spent(ip, t)

NotifiesUnsent ==
  \A w \in Workers : pc[w] = "notify" =>
    /\ sends[Key(w)][buf[w].first] = 0
    /\ Spent(Key(w), buf[w].first)

OnceInv == AloneInv /\ EscalateOncePerWindow /\ SentIsSpent /\ NotifiesUnsent

\* At the start nothing is sent.
LEMMA InitOnceInv == Init => OnceInv
  <1> SUFFICES ASSUME Init PROVE OnceInv
    OBVIOUS
  <1>1. AloneInv
    BY InitAloneInv
  <1>2. \A ip \in IPs, t \in Time : sends[ip][t] = 0
    BY DEF Init
  <1> QED
    BY <1>1, <1>2
    DEF Init, OnceInv, EscalateOncePerWindow, SentIsSpent, NotifiesUnsent

\* What is spent stays spent.
LEMMA SpentStays ==
  ASSUME OneWorker, AloneInv, [Next]_vars,
         NEW ip \in IPs, NEW t \in Time, Spent(ip, t)
  PROVE  Spent(ip, t)'
  <1>1. CASE UNCHANGED shm
    BY <1>1 DEF Spent
  <1>2. ASSUME NEW w \in Workers, Write(w) PROVE Spent(ip, t)'
    <2>t. TypeOK
      BY DEF AloneInv
    <2>1. CASE ip # Key(w)
      BY <1>2, <2>1, LoneWrite DEF AloneInv, Spent
    <2>2. CASE ip = Key(w)
      <3>1. /\ shm[ip] \in Records(Time) /\ shm'[ip] \in Records(Time)
            /\ req[w] \in Requests /\ shm'[ip].magic
        BY <1>2, <2>t, <2>2, LoneWrite, WorkerType DEF AloneInv
      <3>2. /\ t \in Nat /\ shm[ip].first \in Nat /\ shm'[ip].first \in Nat
            /\ shm[ip].count \in Nat /\ req[w].policy.window \in Nat \ {0}
        BY <3>1, TimeType, PolicyType DEF Records
      <3>3. CASE /\ shm'[ip].first = shm[ip].first
                 /\ shm'[ip].count = shm[ip].count + 1
        BY <3>1, <3>2, <3>3, PolicyType DEF Spent
      <3>4. CASE shm'[ip].first >= shm[ip].first + req[w].policy.window
        BY <3>1, <3>2, <3>4 DEF Spent
      <3> QED
        BY <1>2, <2>2, <3>3, <3>4, LoneWrite DEF AloneInv, Spent
    <2> QED
      BY <2>1, <2>2
  <1> QED
    BY <1>1, <1>2, TableCases

\* A lone worker's steps send once for each window.
LEMMA StepOnceInv ==
  ASSUME OneWorker, OneBlockThreshold, OnceInv, [Next]_vars
  PROVE  OnceInv'
  <1>a. AloneInv /\ AloneInv'
    BY StepAloneInv DEF OnceInv
  <1>t. TypeOK /\ TypeOK'
    BY <1>a DEF AloneInv
  <1>s. \A ip \in IPs, t \in Time : Spent(ip, t) => Spent(ip, t)'
    BY <1>a, SpentStays
  <1>n. \A ip \in IPs, t \in Time : sends[ip][t] \in Nat
    BY <1>t DEF TypeOK, Counters
  <1>1. EscalateOncePerWindow' /\ SentIsSpent'
    <2>1. CASE UNCHANGED sends
      BY <1>s, <2>1 DEF OnceInv, EscalateOncePerWindow, SentIsSpent
    <2>2. ASSUME NEW w \in Workers, Notify(w)
          PROVE  EscalateOncePerWindow' /\ SentIsSpent'
      <3> DEFINE k == Key(w)
                 f == buf[w].first
      <3>1. k \in IPs /\ f \in Time
        BY <1>t, WorkerType DEF Records
      <3>2. \A ip \in IPs, t \in Time :
              sends'[ip][t] = IF ip = k /\ t = f THEN sends[k][f] + 1
                                                ELSE sends[ip][t]
        BY <1>t, <2>2, <3>1 DEF Notify, Charge, TypeOK, Counters
      <3>3. sends[k][f] = 0 /\ Spent(k, f)
        BY <2>2 DEF OnceInv, NotifiesUnsent, Notify
      <3> QED
        BY <1>s, <3>1, <3>2, <3>3
        DEF OnceInv, EscalateOncePerWindow, SentIsSpent
    <2>3. UNCHANGED sends \/ \E w \in Workers : Notify(w)
      BY DEF Next, Serve, Start, Lookup, Write, FailOpen, Wake, Restart, Tick,
             vars, history
    <2> QED
      BY <2>1, <2>2, <2>3
  <1>2. NotifiesUnsent'
    <2> SUFFICES ASSUME NEW w \in Workers, pc'[w] = "notify"
                 PROVE  /\ sends'[Key(w)'][buf'[w].first] = 0
                        /\ Spent(Key(w), buf[w].first)'
      BY DEF NotifiesUnsent
    <2>k. /\ Key(w) \in IPs /\ req[w] \in Requests /\ at[w] \in Time
          /\ buf[w] \in Records(Time) /\ buf[w].first \in Time
      BY <1>t, WorkerType DEF Records
    <2>1. CASE UNCHANGED <<pc[w], req[w], buf[w], sends>>
      <3>1. /\ Key(w)' = Key(w) /\ buf'[w] = buf[w]
            /\ sends'[Key(w)][buf[w].first] = 0
            /\ Spent(Key(w), buf[w].first)
        BY <2>1 DEF OnceInv, NotifiesUnsent, Key
      <3>2. PICK ip \in IPs, t \in Time :
              ip = Key(w) /\ t = buf[w].first /\ Spent(ip, t)'
        BY <1>s, <2>k, <3>1
      <3> QED
        BY <3>1, <3>2 DEF Spent
    <2>2. CASE Write(w)
      <3> DEFINE k == Key(w)
                 f == buf[w].first
      <3>1. /\ buf[w] = shm[k] /\ k \in IPs
            /\ buf' = buf /\ Key(w)' = k /\ sends' = sends
        BY <1>a, <1>t, <2>2, WorkerType DEF AloneInv, CopyIsCurrent, Write, Key
      <3>2. AfterWrite(req[w], at[w], buf[w]) = "notify"
        BY <1>t, <2>2 DEF Write, TypeOK
      <3>3. /\ req[w].policy.action = "block"
            /\ Over(req[w], at[w], buf[w])
            /\ buf[w].count = req[w].policy.allowed
        BY <2>k, <3>2, PolicyType DEF AfterWrite, Actions
      <3>4. /\ shm'[k].magic /\ shm[k].magic
            /\ shm'[k].first = f
            /\ shm'[k].count = buf[w].count + 1
        BY <1>a, <1>t, <2>2, <3>1, <3>3, LoneWrite DEF AloneInv, Over
      <3>5. \A r \in Requests :
              r.policy.action = "block" => shm'[k].count > r.policy.allowed
        BY <2>k, <3>3, <3>4, PolicyType DEF OneBlockThreshold
      <3>6. Spent(k, f)'
        BY <2>k, <3>1, <3>4, <3>5 DEF Spent
      <3>7. ~ Spent(k, f)
        <4>0. shm[k].first \in Nat
          BY <2>k, <3>1, TimeType
        <4>1. ~ (shm[k].first < shm[k].first)
          BY <4>0
        <4>2. ~ (shm[k].count > req[w].policy.allowed)
          BY <2>k, <3>1, <3>3, PolicyType
        <4> QED
          BY <2>k, <3>1, <3>3, <4>1, <4>2 DEF Spent
      <3>8. sends[k][f] = 0
        BY <1>n, <2>k, <3>1, <3>7 DEF OnceInv, SentIsSpent
      <3> QED
        BY <3>1, <3>6, <3>8 DEF Spent
    <2>3. Write(w) \/ UNCHANGED <<pc[w], req[w], buf[w], sends>>
      <3>1. ASSUME NEW v \in Workers,
                   \/ \E r \in Requests : Start(v, r)
                   \/ Lookup(v) \/ FailOpen(v) \/ Notify(v) \/ Wake(v)
                   \/ Restart(v)
            PROVE  FALSE
        <4>1. v = w
          BY DEF OneWorker
        <4> QED
          BY <1>t, <3>1, <4>1
          DEF Start, Lookup, FailOpen, Notify, Wake, Restart, TypeOK
      <3>2. ASSUME NEW v \in Workers, Write(v) PROVE Write(w)
        BY <3>2 DEF OneWorker
      <3> QED
        BY <3>1, <3>2 DEF Next, Serve, Tick, vars, worker, history
    <2> QED
      BY <2>1, <2>2, <2>3
  <1> QED
    BY <1>a, <1>1, <1>2 DEF OnceInv

(***************************************************************************)
(* One UDS send per attacker per window, with one worker and one threshold *)
(* among the scopes that block; scopes that throttle or log may have any.  *)
(***************************************************************************)
THEOREM EscalatesOnce ==
  ASSUME OneWorker, OneBlockThreshold
  PROVE  Spec => []EscalateOncePerWindow
  <1>1. OnceInv => EscalateOncePerWindow
    BY DEF OnceInv
  <1>2. OnceInv /\ [Next]_vars => OnceInv'
    BY StepOnceInv
  <1> QED
    BY <1>1, <1>2, InitOnceInv, PTL DEF Spec

(***************************************************************************)
(* The refinement.  A lone worker's call is judged in the step that puts   *)
(* its update back, or in its lookup if there is nothing to count; the     *)
(* block command and the sleep of a throttled client come after the        *)
(* verdict and change nothing.                                             *)
(***************************************************************************)
AbstractTable == [ip \in IPs |-> [open  |-> shm[ip].magic,
                                  start |-> shm[ip].first,
                                  tries |-> shm[ip].count]]

AbstractCall == [w \in Workers |-> [state |-> Verdict(w),
                                    req   |-> req[w],
                                    at    |-> at[w]]]

\* The abstract limiter starts with every window closed and nobody asking.
LEMMA InitAtomic == Init => Atomic!Init
  <1> SUFFICES ASSUME Init PROVE Atomic!Init
    OBVIOUS
  <1>1. AbstractTable = [ip \in IPs |-> Atomic!Closed]
    BY DEF Init, NoRecord, AbstractTable, Atomic!Closed
  <1>2. AbstractCall \in
          [Workers -> [state : {"idle"}, req : Requests, at : {0}]]
    <2>1. (CHOOSE r \in Requests : TRUE) \in Requests
      OBVIOUS
    <2>2. \A w \in Workers :
            Verdict(w) = "idle" /\ req[w] \in Requests /\ at[w] = 0
      BY <2>1 DEF Init, Verdict
    <2> QED
      BY <2>2 DEF AbstractCall
  <1> QED
    BY <1>1, <1>2 DEF Init, Atomic!Init, AbstractTable, AbstractCall

(***************************************************************************)
(* The abstract guards read the concrete record.                           *)
(***************************************************************************)
LEMMA AbstractGuards ==
  ASSUME TypeOK, NEW w \in Workers
  PROVE  /\ Atomic!Current(req[w], at[w])
              <=> InWindow(req[w], at[w], shm[Key(w)])
         /\ Atomic!Spent(req[w], at[w])
              <=> Over(req[w], at[w], shm[Key(w)])
  <1> DEFINE k == Key(w)
  <1>1. /\ k \in IPs /\ at[w] \in Nat /\ shm[k].first \in Nat
        /\ req[w].policy.window \in Nat
    BY WorkerType, TimeType, PolicyType DEF Records
  <1>2. /\ AbstractTable[k].open = shm[k].magic
        /\ AbstractTable[k].start = shm[k].first
        /\ AbstractTable[k].tries = shm[k].count
    BY <1>1 DEF AbstractTable
  <1>3. Atomic!Current(req[w], at[w]) <=>
          shm[k].magic /\ at[w] < shm[k].first + req[w].policy.window
    BY <1>2 DEF Atomic!Current, AbstractTable, Key
  <1>4. Atomic!Current(req[w], at[w]) <=> InWindow(req[w], at[w], shm[k])
    BY <1>1, <1>3 DEF InWindow
  <1>5. Atomic!Spent(req[w], at[w]) <=>
          /\ Atomic!Current(req[w], at[w])
          /\ shm[k].count >= req[w].policy.allowed
    BY <1>2 DEF Atomic!Spent, AbstractTable, Key
  <1> QED
    BY <1>4, <1>5 DEF Over

(***************************************************************************)
(* A step that changes one worker's control state, and none of its other   *)
(* variables, answers that worker's call.                                  *)
(***************************************************************************)
LEMMA AbstractAnswer ==
  ASSUME NEW w \in Workers, UNCHANGED <<req, at>>,
         \A u \in Workers : u # w => pc'[u] = pc[u]
  PROVE  /\ Verdict(w)' = "refused" => Atomic!Answer(w, "refused")
         /\ Verdict(w)' = "let"     => Atomic!Answer(w, "let")
         /\ Verdict(w)' = "idle"    => Atomic!Answer(w, "idle")
  <1>1. \A u \in Workers : u # w => Verdict(u)' = Verdict(u)
    BY DEF Verdict
  <1>2. AbstractCall' = [AbstractCall EXCEPT ![w].state = Verdict(w)']
    BY <1>1 DEF AbstractCall
  <1> QED
    BY <1>2 DEF Atomic!Answer, AbstractCall

(***************************************************************************)
(* A verdict on the request that a worker serves, at the time it read, is  *)
(* a verdict on its call.                                                  *)
(***************************************************************************)
LEMMA AbstractJudge ==
  ASSUME NEW w \in Workers, pc[w] \in {"lookup", "write"}, UNCHANGED now,
         \/ Atomic!Refuse(w, req[w], at[w])
         \/ Atomic!LetThrough(w, req[w], at[w])
         \/ Atomic!NoRoom(w, req[w])
  PROVE  Atomic!Judge(w)
  <1>1. /\ AbstractCall[w].state = "asked"
        /\ AbstractCall[w].req = req[w] /\ AbstractCall[w].at = at[w]
    BY DEF AbstractCall, Verdict
  <1> QED
    BY <1>1
    DEF AbstractCall, Atomic!Judge, Atomic!Refuse, Atomic!LetThrough,
        Atomic!NoRoom, Atomic!OneMoreTry, Atomic!Tried,
        Atomic!Spent, Atomic!Current,
        Atomic!Answer

\* A lone worker's write is one more try of its client.
LEMMA AbstractTry ==
  ASSUME AloneInv, NEW w \in Workers, Write(w)
  PROVE  Atomic!OneMoreTry(req[w], at[w])
  <1> DEFINE k == Key(w)
             tried == Atomic!Tried(req[w], at[w])
  <1>t. TypeOK
    BY DEF AloneInv
  <1>1. /\ k \in IPs /\ shm'[k].magic = TRUE
        /\ \A ip \in IPs : ip # k => shm'[ip] = shm[ip]
    <2>1. k \in IPs /\ shm'[k].magic /\ shm'[k] \in Records(Time)
      BY LoneWrite DEF AloneInv
    <2>2. \A ip \in IPs : ip # k => shm'[ip] = shm[ip]
      BY LoneWrite DEF AloneInv
    <2> QED
      BY <2>1, <2>2 DEF Records
  <1>2. AbstractTable[k] = [open |-> shm[k].magic, start |-> shm[k].first,
                            tries |-> shm[k].count]
    BY <1>1 DEF AbstractTable
  <1>3. /\ Atomic!Current(req[w], at[w]) =>
             tried = [AbstractTable[k] EXCEPT
                        !.tries = AbstractTable[k].tries + 1]
        /\ ~ Atomic!Current(req[w], at[w]) =>
             tried = [open |-> TRUE, start |-> at[w], tries |-> 1]
    BY DEF Atomic!Tried, Atomic!Opened, AbstractTable, Key
  <1>4. [open |-> shm'[k].magic, start |-> shm'[k].first,
         tries |-> shm'[k].count] = tried
    <2>1. CASE InWindow(req[w], at[w], shm[k])
      <3>1. /\ shm[k].magic = TRUE /\ shm'[k].first = shm[k].first
            /\ shm'[k].count = shm[k].count + 1
        <4>1. shm[k].magic /\ shm[k] \in Records(Time)
          BY <1>t, <2>1, WorkerType DEF InWindow
        <4> QED
          BY <2>1, <4>1, LoneWrite DEF AloneInv, Records
      <3>2. Atomic!Current(req[w], at[w])
        BY <1>t, <2>1, AbstractGuards
      <3>3. tried = [AbstractTable[k] EXCEPT
                       !.tries = AbstractTable[k].tries + 1]
        BY <1>3, <3>2
      <3>4. tried = [open |-> shm[k].magic, start |-> shm[k].first,
                     tries |-> shm[k].count + 1]
        BY <1>2, <3>3
      <3> QED
        BY <1>1, <3>1, <3>4
    <2>2. CASE ~ InWindow(req[w], at[w], shm[k])
      <3>1. shm'[k].first = at[w] /\ shm'[k].count = 1
        BY <2>2, LoneWrite DEF AloneInv
      <3>2. ~ Atomic!Current(req[w], at[w])
        BY <1>t, <2>2, AbstractGuards
      <3> QED
        BY <1>1, <1>3, <3>1, <3>2
    <2> QED
      BY <2>1, <2>2
  <1>5. AbstractTable' = [AbstractTable EXCEPT ![k] = tried]
    <2> HIDE DEF tried
    <2>1. AbstractTable'[k] = tried
      BY <1>1, <1>4 DEF AbstractTable
    <2> QED
      BY <1>1, <2>1 DEF AbstractTable
  <1> QED
    BY <1>5 DEF Atomic!OneMoreTry, AbstractTable, Key

\* A lone worker's write is a verdict of the abstract limiter.
LEMMA WriteJudges ==
  ASSUME AloneInv, NEW w \in Workers, Write(w)
  PROVE  Atomic!Judge(w)
  <1> DEFINE r == req[w]
             t == at[w]
  <1>t. TypeOK
    BY DEF AloneInv
  <1>k. r \in Requests /\ t \in Time /\ buf[w] \in Records(Time)
    BY <1>t, WorkerType
  <1>0. pc[w] \in {"lookup", "write"} /\ UNCHANGED now
    BY DEF Write
  <1>1. Atomic!OneMoreTry(r, t)
    BY AbstractTry
  <1>2. buf[w] = shm[Key(w)] /\ Counts(r, t, buf[w])
    BY DEF AloneInv, CopyIsCurrent, Write
  <1>3. Atomic!Spent(r, t) <=> Over(r, t, buf[w])
    BY <1>t, <1>2, AbstractGuards
  <1>4. pc'[w] = AfterWrite(r, t, buf[w])
    BY <1>t DEF Write, TypeOK
  <1>5. /\ Verdict(w)' = "refused" => Atomic!Answer(w, "refused")
        /\ Verdict(w)' = "let"     => Atomic!Answer(w, "let")
    <2>1. \A u \in Workers : u # w => pc'[u] = pc[u]
      BY <1>t DEF Write, TypeOK
    <2>2. UNCHANGED <<req, at>>
      BY DEF Write
    <2> QED
      BY <2>1, <2>2, AbstractAnswer
  <1>6. CASE Atomic!Spent(r, t) /\ r.policy.action # "log"
    <2>1. pc'[w] \in {"asleep", "notify", "denied"}
      BY <1>k, <1>3, <1>4, <1>6, PolicyType DEF AfterWrite, Actions
    <2>2. Verdict(w)' = "refused"
      BY <2>1 DEF Verdict
    <2>3. Atomic!Refuse(w, r, t)
      BY <1>1, <1>5, <1>6, <2>2 DEF Atomic!Refuse
    <2> QED
      BY <1>0, <2>3, AbstractJudge
  <1>7. CASE ~ (Atomic!Spent(r, t) /\ r.policy.action # "log")
    <2>1. pc'[w] = "ok"
      BY <1>k, <1>3, <1>4, <1>7, PolicyType DEF AfterWrite, Actions
    <2>2. Verdict(w)' = "let"
      BY <2>1 DEF Verdict
    <2>3. r.post \/ Atomic!Spent(r, t)
      BY <1>2, <1>3 DEF Counts
    <2>4. Atomic!LetThrough(w, r, t)
      BY <1>1, <1>5, <1>7, <2>2, <2>3 DEF Atomic!LetThrough
    <2> QED
      BY <1>0, <2>4, AbstractJudge
  <1> QED
    BY <1>6, <1>7

\* Every step of a lone worker is a step of the abstract limiter, or none.
LEMMA StepAtomic ==
  ASSUME OneWorker, AloneInv, [Next]_vars
  PROVE  [Atomic!Next]_<<now, AbstractTable, AbstractCall>>
  <1> DEFINE avars == <<now, AbstractTable, AbstractCall>>
  <1>t. TypeOK
    BY DEF AloneInv
  <1>a. ASSUME UNCHANGED shm PROVE UNCHANGED AbstractTable
    BY <1>a DEF AbstractTable
  <1>1. ASSUME NEW w \in Workers, NEW r \in Requests, Start(w, r)
        PROVE  Atomic!Next
    <2>1. AbstractCall[w].state # "asked"
      BY <1>1 DEF AbstractCall, Verdict, Start, Ready
    <2>2. AbstractCall' = [AbstractCall EXCEPT ![w] =
                             [state |-> IF Unguarded(r) THEN "let" ELSE "asked",
                              req |-> r, at |-> now]]
      <3>1. \A u \in Workers : u # w =>
              /\ Verdict(u)' = Verdict(u)
              /\ req'[u] = req[u] /\ at'[u] = at[u]
        BY <1>t, <1>1 DEF Verdict, Start, TypeOK
      <3>2. /\ Verdict(w)' = IF Unguarded(r) THEN "let" ELSE "asked"
            /\ req'[w] = r /\ at'[w] = now
        BY <1>t, <1>1 DEF Verdict, Unguarded, Start, TypeOK
      <3> QED
        BY <3>1, <3>2 DEF AbstractCall
    <2>3. UNCHANGED <<now, AbstractTable>>
      BY <1>1, <1>a DEF Start
    <2>4. Atomic!Begin(w, r)
      BY <2>1, <2>2, <2>3 DEF Atomic!Begin, AbstractCall, AbstractTable
    <2> QED
      BY <2>4 DEF Atomic!Next
  <1>2. ASSUME NEW w \in Workers, Lookup(w) PROVE [Atomic!Next]_avars
    <2>0. UNCHANGED <<now, shm, req, at>> /\ UNCHANGED AbstractTable
      BY <1>2, <1>a DEF Lookup
    <2>1. pc' = [pc EXCEPT ![w] =
                   IF Counts(req[w], at[w], shm[Key(w)]) THEN "write" ELSE "ok"]
      BY <1>2 DEF Lookup, Get
    <2>2. CASE Counts(req[w], at[w], shm[Key(w)])
      <3>1. \A u \in Workers : Verdict(u)' = Verdict(u)
        BY <1>t, <1>2, <2>1, <2>2 DEF Verdict, Lookup, TypeOK
      <3> QED
        BY <2>0, <3>1 DEF AbstractCall
    <2>3. CASE ~ Counts(req[w], at[w], shm[Key(w)])
      <3>1. pc'[w] = "ok" /\ \A u \in Workers : u # w => pc'[u] = pc[u]
        BY <1>t, <2>1, <2>3 DEF TypeOK
      <3>2. Atomic!Answer(w, "let")
        <4>1. Verdict(w)' = "let"
          BY <3>1 DEF Verdict
        <4> QED
          BY <2>0, <3>1, <4>1, AbstractAnswer
      <3>3. ~ Atomic!Spent(req[w], at[w]) /\ ~ req[w].post
        BY <1>t, <2>3, AbstractGuards DEF Counts
      <3>4. Atomic!LetThrough(w, req[w], at[w])
        BY <2>0, <3>2, <3>3 DEF Atomic!LetThrough, AbstractTable
      <3>5. Atomic!Judge(w)
        BY <1>2, <2>0, <3>4, AbstractJudge DEF Lookup
      <3> QED
        BY <3>5 DEF Atomic!Next
    <2> QED
      BY <2>2, <2>3
  <1>3. ASSUME NEW w \in Workers, Write(w) PROVE Atomic!Next
    BY <1>3, WriteJudges DEF Atomic!Next
  <1>4. ASSUME NEW w \in Workers, FailOpen(w) PROVE Atomic!Next
    <2>0. UNCHANGED <<now, req, at>> /\ UNCHANGED AbstractTable
      BY <1>4, <1>a DEF FailOpen
    <2>1. ~ AbstractTable[Key(w)].open
      BY <1>t, <1>4, WorkerType DEF FailOpen, HasRoom, AbstractTable
    <2>2. Atomic!Answer(w, "let")
      <3>1. Verdict(w)' = "let"
        BY <1>t, <1>4 DEF FailOpen, Verdict, TypeOK
      <3>2. \A u \in Workers : u # w => pc'[u] = pc[u]
        BY <1>t, <1>4 DEF FailOpen, TypeOK
      <3> QED
        BY <2>0, <3>1, <3>2, AbstractAnswer
    <2>3. Atomic!NoRoom(w, req[w])
      BY <2>0, <2>1, <2>2 DEF Atomic!NoRoom, AbstractTable, Key
    <2>4. Atomic!Judge(w)
      BY <1>4, <2>0, <2>3, AbstractJudge DEF FailOpen
    <2> QED
      BY <2>4 DEF Atomic!Next
  <1>5. ASSUME NEW w \in Workers, Notify(w) \/ Wake(w) PROVE UNCHANGED avars
    <2>1. UNCHANGED <<now, shm, req, at>>
      BY <1>5 DEF Notify, Wake
    <2>2. \A u \in Workers : Verdict(u)' = Verdict(u)
      BY <1>t, <1>5 DEF Notify, Wake, Verdict, TypeOK
    <2> QED
      BY <1>a, <2>1, <2>2 DEF AbstractCall
  <1>6. ASSUME NEW w \in Workers, Restart(w) PROVE Atomic!Next
    <2>0. UNCHANGED <<now, req, at>> /\ UNCHANGED AbstractTable
      BY <1>6, <1>a DEF Restart
    <2>1. Atomic!Answer(w, "idle")
      <3>1. Verdict(w)' = "idle"
        BY <1>t, <1>6 DEF Restart, Verdict, TypeOK
      <3>2. \A u \in Workers : u # w => pc'[u] = pc[u]
        BY <1>t, <1>6 DEF Restart, TypeOK
      <3> QED
        BY <2>0, <3>1, <3>2, AbstractAnswer
    <2>2. Atomic!Abandon(w)
      BY <2>0, <2>1 DEF Atomic!Abandon, AbstractTable
    <2> QED
      BY <2>2 DEF Atomic!Next
  <1>7. ASSUME Tick PROVE Atomic!Next
    <2>1. AbstractTable' = AbstractTable /\ AbstractCall' = AbstractCall
      BY <1>7 DEF Tick, worker, AbstractTable, AbstractCall, Verdict
    <2>2. Atomic!Tick
      BY <1>7, <2>1 DEF Tick, Atomic!Tick, AbstractTable, AbstractCall
    <2> QED
      BY <2>2 DEF Atomic!Next
  <1>8. ASSUME UNCHANGED vars PROVE UNCHANGED avars
    BY <1>8 DEF vars, worker, AbstractTable, AbstractCall, Verdict
  <1> QED
    BY <1>1, <1>2, <1>3, <1>4, <1>5, <1>6, <1>7, <1>8 DEF Next, Serve

(***************************************************************************)
(* One worker judges every request as if lookup, update and verdict were   *)
(* a single step, whatever policies, addresses, pool and restarts.         *)
(***************************************************************************)
THEOREM OneWorkerIsAtomic ==
  ASSUME OneWorker PROVE Spec => JudgesAtomically
  <1>1. AloneInv /\ [Next]_vars => AloneInv'
    BY StepAloneInv
  <1>2. AloneInv /\ [Next]_vars =>
          [Atomic!Next]_<<now, AbstractTable, AbstractCall>>
    BY StepAtomic
  <1> QED
    BY <1>1, <1>2, InitAloneInv, InitAtomic, PTL
    DEF Spec, JudgesAtomically, Atomic!Spec, AbstractTable, AbstractCall

(***************************************************************************)
(* What two workers let through, when every scope has the same threshold   *)
(* and the same window.  The bound is a potential argument.  Fix a client  *)
(* and a window t.  The table has Reached some count of the window, up to  *)
(* the threshold; a worker about to add an attempt to it holds a copy of   *)
(* some Level, at which its write sets the table.  Future(k) is twice the  *)
(* number of attempts still to be let through when the table stands at k   *)
(* and nobody holds a copy: the threshold - k that are counted, and for    *)
(* each of them those that are counted again after an old copy was put     *)
(* back.                                                                   *)
(***************************************************************************)
Threshold == (CHOOSE r \in Requests : TRUE).policy.allowed

Length == (CHOOSE r \in Requests : TRUE).policy.window

OneRule ==
  \A r, q \in Requests : /\ r.policy.allowed = q.policy.allowed
                         /\ r.policy.window = q.policy.window

TwoWorkers == \E u, v \in Workers : u # v /\ Workers = {u, v}

\* With one rule that of any request is the rule.
LEMMA RuleType ==
  ASSUME OneRule
  PROVE  /\ Threshold \in Nat \ {0} /\ Length \in Nat \ {0}
         /\ \A r \in Requests : /\ r.policy.allowed = Threshold
                                /\ r.policy.window = Length
  <1>1. (CHOOSE r \in Requests : TRUE) \in Requests
    OBVIOUS
  <1> QED
    BY <1>1, PolicyType DEF OneRule, Threshold, Length

Least(j, k) == IF j <= k THEN j ELSE k

Most(j, k) == IF j <= k THEN k ELSE j

Future(k) == (Threshold - k) * (Threshold - k + 3)

Budget == Threshold * (Threshold + 5)

Levels == 0 .. Threshold

(***************************************************************************)
(* Twice what is to come when the table stands at c and the oldest copy    *)
(* that somebody is about to put back at k (the threshold stands for no    *)
(* copy).                                                                  *)
(***************************************************************************)
Promise(c, k) ==
  IF c <= k THEN Future(c) ELSE 2 * (Threshold - c) + 2 + Future(k + 1)

(***************************************************************************)
(* n attempts are let through, the table stands at c, the workers hold     *)
(* copies of level j and k, and what is to come fits in the budget.        *)
(***************************************************************************)
Calm(n, c, j, k) ==
  /\ c <= Most(j, k)
  /\ 2 * n + Promise(c, Least(j, k)) <= Budget

(***************************************************************************)
(* The same when one of the workers read the clock before t, so that its   *)
(* write may leave an older window in the table and let t start again; it  *)
(* can do so once, and until then the other worker writes alone.           *)
(***************************************************************************)
Tense(n, c, k) ==
  /\ k \in {c, Threshold}
  /\ 2 * n + 2 * (Threshold - c) + Future(0) <= Budget

\* Future, one count at a time.
LEMMA FutureFacts ==
  ASSUME OneRule
  PROVE  /\ \A k \in Levels : Future(k) \in Nat
         /\ Future(Threshold) = 0
         /\ Future(0) + 2 * Threshold = Budget
         /\ \A k \in Levels : k < Threshold =>
              Future(k) = 2 * (Threshold - k) + 2 + Future(k + 1)
  <1>0. Threshold \in Nat
    BY RuleType
  <1>1. \A m \in Nat : m * (m + 3) \in Nat
    OBVIOUS
  <1>2. \A m \in Nat : (m + 1) * (m + 1 + 3) = 2 * (m + 1) + 2 + m * (m + 3)
    OBVIOUS
  <1>3. \A m \in Nat : m * (m + 3) + 2 * m = m * (m + 5)
    OBVIOUS
  <1>4. ASSUME NEW k \in Levels PROVE Future(k) \in Nat
    <2>1. Threshold - k \in Nat
      BY <1>0 DEF Levels
    <2> QED
      BY <1>1, <2>1 DEF Future
  <1>5. ASSUME NEW k \in Levels, k < Threshold
        PROVE  Future(k) = 2 * (Threshold - k) + 2 + Future(k + 1)
    <2> DEFINE m == Threshold - (k + 1)
    <2>1. m \in Nat /\ Threshold - k = m + 1
      BY <1>0, <1>5 DEF Levels
    <2>2. Future(k) = (m + 1) * (m + 1 + 3)
      BY <2>1 DEF Future
    <2>3. Future(k + 1) = m * (m + 3)
      BY DEF Future
    <2> HIDE DEF m
    <2> QED
      BY <1>2, <2>1, <2>2, <2>3
  <1>6. Future(Threshold) = 0
    BY <1>0 DEF Future
  <1>7. Future(0) + 2 * Threshold = Budget
    <2>1. Threshold - 0 = Threshold
      BY <1>0
    <2> QED
      BY <1>0, <1>3, <2>1 DEF Future, Budget
  <1> QED
    BY <1>4, <1>5, <1>6, <1>7

\* The higher the table stands, the less is to come.
LEMMA FutureFalls ==
  ASSUME OneRule, NEW j \in Levels, NEW k \in Levels, j <= k
  PROVE  Future(k) <= Future(j)
  <1>0. Threshold \in Nat
    BY RuleType
  <1>1. \A m, d \in Nat :
          m * (m + 3) + (d * (d + 3) + 2 * (m * d)) = (m + d) * (m + d + 3)
    OBVIOUS
  <1>2. \A m, d \in Nat : m * (m + 3) <= (m + d) * (m + d + 3)
    <2> SUFFICES ASSUME NEW m \in Nat, NEW d \in Nat
                 PROVE  m * (m + 3) <= (m + d) * (m + d + 3)
      OBVIOUS
    <2>1. m * (m + 3) \in Nat /\ d * (d + 3) + 2 * (m * d) \in Nat
      OBVIOUS
    <2> QED
      BY <1>1, <2>1
  <1>3. /\ Threshold - k \in Nat /\ k - j \in Nat
        /\ Threshold - j = (Threshold - k) + (k - j)
    BY <1>0 DEF Levels
  <1> QED
    BY <1>2, <1>3 DEF Future

(***************************************************************************)
(* What the lemmas below need of Promise, for a table at c and copies at j *)
(* and k.                                                                  *)
(***************************************************************************)
LEMMA PromiseFacts ==
  ASSUME OneRule, NEW c \in Levels, NEW j \in Levels
  PROVE  /\ Promise(c, j) \in Nat
         /\ Promise(c, c) = Future(c)
         /\ Promise(c, Threshold) = Future(c)
         /\ Promise(Threshold, j) <= Promise(c, j)
         /\ Future(c) <= Promise(c, j)
         /\ Promise(c, j) <= 2 * (Threshold - j) + Future(0)
         /\ c <= Threshold /\ j <= Threshold
  <1>0. /\ Threshold \in Nat \ {0} /\ c \in Nat /\ j \in Nat
        /\ c <= Threshold /\ j <= Threshold
        /\ 0 \in Levels /\ Threshold \in Levels
    BY RuleType DEF Levels
  <1>1. /\ Future(c) \in Nat /\ Future(j) \in Nat /\ Future(0) \in Nat
        /\ Future(Threshold) = 0
    BY <1>0, FutureFacts
  <1>2. c < Threshold => Future(c) = 2 * (Threshold - c) + 2 + Future(c + 1)
    BY FutureFacts
  <1>3. j < Threshold => Future(j) = 2 * (Threshold - j) + 2 + Future(j + 1)
    BY FutureFacts
  <1>4. c + 1 \in Levels <=> c < Threshold
    BY <1>0 DEF Levels
  <1>5. j + 1 \in Levels <=> j < Threshold
    BY <1>0 DEF Levels
  <1>6. /\ c < Threshold => Future(c + 1) \in Nat
        /\ j < Threshold => Future(j + 1) \in Nat
    BY <1>4, <1>5, FutureFacts
  <1>7. /\ c <= j => Future(j) <= Future(c)
        /\ j < c => Future(c) <= Future(j + 1)
        /\ Future(c) <= Future(0) /\ Future(j) <= Future(0)
    <2>1. /\ c <= j => Future(j) <= Future(c)
          /\ Future(c) <= Future(0) /\ Future(j) <= Future(0)
      BY <1>0, FutureFalls
    <2>2. ASSUME j < c PROVE Future(c) <= Future(j + 1)
      BY <1>0, <1>5, <2>2, FutureFalls
    <2> QED
      BY <2>1, <2>2
  <1>8. /\ Promise(c, j) \in Nat
        /\ Promise(c, c) = Future(c)
        /\ Promise(c, Threshold) = Future(c)
    BY <1>0, <1>1, <1>6 DEF Promise
  <1>9. Promise(Threshold, j) <= Promise(c, j)
    <2>1. CASE j = Threshold
      BY <1>0, <1>1, <2>1 DEF Promise
    <2>2. CASE j < Threshold
      BY <1>0, <1>1, <1>3, <1>6, <1>7, <2>2 DEF Promise
    <2> QED
      BY <1>0, <2>1, <2>2
  <1>10. Future(c) <= Promise(c, j)
    <2>1. CASE c <= j
      BY <1>0, <1>1, <2>1 DEF Promise
    <2>2. CASE j < c
      <3>1. Promise(c, j) = 2 * (Threshold - c) + 2 + Future(j + 1)
        BY <1>0, <2>2 DEF Promise
      <3> QED
        BY <1>0, <1>1, <1>6, <1>7, <2>2, <3>1
    <2> QED
      BY <1>0, <2>1, <2>2
  <1>11. Promise(c, j) <= 2 * (Threshold - j) + Future(0)
    <2>1. CASE c <= j
      BY <1>0, <1>1, <1>7, <2>1 DEF Promise
    <2>2. CASE j < c
      <3>1. Promise(c, j) = 2 * (Threshold - c) + 2 + Future(j + 1)
        BY <1>0, <2>2 DEF Promise
      <3>2. Future(j + 1) <= Future(j)
        BY <1>0, <1>3, <1>6, <2>2
      <3> QED
        BY <1>0, <1>1, <1>6, <1>7, <2>2, <3>1, <3>2
    <2> QED
      BY <1>0, <2>1, <2>2
  <1> QED
    BY <1>0, <1>8, <1>9, <1>10, <1>11

\* Setting the table at one more than a copy takes one attempt of the promise.
LEMMA PromiseKept ==
  ASSUME OneRule, NEW c \in Levels, NEW j \in Levels, NEW k \in Levels,
         j < Threshold, c <= Most(j, k)
  PROVE  2 + Promise(j + 1, k) <= Promise(c, Least(j, k))
  <1>0. /\ Threshold \in Nat \ {0} /\ c \in Nat /\ j \in Nat /\ k \in Nat
        /\ c <= Threshold /\ k <= Threshold
    BY RuleType DEF Levels
  <1>1. j + 1 \in Levels
    BY <1>0 DEF Levels
  <1>2. /\ Future(c) \in Nat /\ Future(j) \in Nat /\ Future(k) \in Nat
        /\ Future(j + 1) \in Nat
        /\ Future(j) = 2 * (Threshold - j) + 2 + Future(j + 1)
    BY <1>1, FutureFacts
  <1>3. CASE j < k
    <2>1. Promise(j + 1, k) = Future(j + 1) /\ Least(j, k) = j
      BY <1>0, <1>3 DEF Promise, Least
    <2>2. CASE c <= j
      <3>1. Promise(c, j) = Future(c) /\ Future(j) <= Future(c)
        BY <2>2, FutureFalls DEF Promise
      <3> QED
        BY <1>0, <1>2, <2>1, <3>1
    <2>3. CASE j < c
      <3>1. Promise(c, j) = 2 * (Threshold - c) + 2 + Future(j + 1)
        BY <1>0, <2>3 DEF Promise
      <3> QED
        BY <1>0, <1>2, <2>1, <3>1
    <2> QED
      BY <1>0, <2>2, <2>3
  <1>4. CASE k <= j
    <2>1. Least(j, k) = k /\ c <= j
      BY <1>0, <1>4 DEF Least, Most
    <2>2. k + 1 \in Levels
      BY <1>0, <1>4 DEF Levels
    <2>3. /\ Promise(j + 1, k) = 2 * (Threshold - (j + 1)) + 2 + Future(k + 1)
          /\ Future(k) = 2 * (Threshold - k) + 2 + Future(k + 1)
          /\ Future(k + 1) \in Nat
      BY <1>0, <1>4, <2>2, FutureFacts DEF Promise
    <2>4. CASE c <= k
      <3>1. Promise(c, k) = Future(c) /\ Future(k) <= Future(c)
        BY <2>4, FutureFalls DEF Promise
      <3> QED
        BY <1>0, <1>2, <1>4, <2>1, <2>3, <3>1
    <2>5. CASE k < c
      <3>1. Promise(c, k) = 2 * (Threshold - c) + 2 + Future(k + 1)
        BY <1>0, <2>5 DEF Promise
      <3> QED
        BY <1>0, <2>1, <2>3, <3>1
    <2> QED
      BY <1>0, <2>4, <2>5
  <1> QED
    BY <1>0, <1>3, <1>4

\* The two workers are interchangeable.
LEMMA CalmSymmetric ==
  ASSUME NEW n, NEW c, NEW j \in Levels, NEW k \in Levels
  PROVE  Calm(n, c, j, k) <=> Calm(n, c, k, j)
  <1>1. j \in Int /\ k \in Int
    BY DEF Levels
  <1>2. Least(j, k) = Least(k, j) /\ Most(j, k) = Most(k, j)
    BY <1>1 DEF Least, Most
  <1> QED
    BY <1>2 DEF Calm

(***************************************************************************)
(* What one worker does while nobody is late: it lets its copy go, takes a *)
(* copy, puts a copy back with its attempt added, or shuts the window.     *)
(***************************************************************************)
LEMMA CalmSteps ==
  ASSUME OneRule, NEW n \in Nat,
         NEW c \in Levels, NEW j \in Levels, NEW k \in Levels, Calm(n, c, j, k)
  PROVE  /\ Calm(n, c, Threshold, k)
         /\ j = Threshold => Calm(n, c, c, k)
         /\ j < Threshold => Calm(n + 1, j + 1, Threshold, k)
         /\ j = Threshold => Calm(n, Threshold, Threshold, k)
  <1>0. /\ Threshold \in Nat \ {0} /\ c \in Nat /\ j \in Nat /\ k \in Nat
        /\ c <= Threshold /\ k <= Threshold /\ j <= Threshold
        /\ Threshold \in Levels /\ Budget \in Nat
    BY RuleType DEF Levels, Budget
  <1>1. Least(Threshold, k) = k /\ Most(Threshold, k) = Threshold
    BY <1>0 DEF Least, Most
  <1>2. /\ Promise(c, k) \in Nat /\ Promise(Threshold, k) \in Nat
        /\ Promise(c, Least(j, k)) \in Nat
        /\ 2 * n + Promise(c, Least(j, k)) <= Budget
    BY <1>0, PromiseFacts DEF Calm, Least
  <1>3. Promise(c, k) <= Promise(c, Least(j, k))
    <2>1. CASE k <= j
      <3>1. Least(j, k) = k
        BY <1>0, <2>1 DEF Least
      <3> QED
        BY <1>2, <3>1
    <2>2. CASE j < k
      <3>1. Least(j, k) = j
        BY <1>0, <2>2 DEF Least
      <3>2. CASE c <= j
        BY <1>0, <1>2, <2>2, <3>1, <3>2 DEF Promise
      <3>3. CASE j < c /\ c <= k
        <4>1. Promise(c, k) = Future(c)
          BY <1>0, <3>3 DEF Promise
        <4> QED
          BY <3>1, <4>1, PromiseFacts
      <3>4. CASE k < c
        <4>1. j + 1 \in Levels /\ k + 1 \in Levels /\ j + 1 <= k + 1
          BY <1>0, <2>2, <3>4 DEF Levels
        <4>2. /\ Future(k + 1) <= Future(j + 1)
              /\ Future(k + 1) \in Nat /\ Future(j + 1) \in Nat
          BY <4>1, FutureFalls, FutureFacts
        <4>3. /\ Promise(c, k) = 2 * (Threshold - c) + 2 + Future(k + 1)
              /\ Promise(c, j) = 2 * (Threshold - c) + 2 + Future(j + 1)
          BY <1>0, <2>2, <3>4 DEF Promise
        <4> QED
          BY <1>0, <3>1, <4>2, <4>3
      <3> QED
        BY <1>0, <3>2, <3>3, <3>4
    <2> QED
      BY <1>0, <2>1, <2>2
  <1>4. Calm(n, c, Threshold, k)
    BY <1>0, <1>1, <1>2, <1>3 DEF Calm
  <1>5. ASSUME j = Threshold PROVE Calm(n, c, c, k)
    <2>1. CASE k <= c
      <3>1. Least(c, k) = k /\ Most(c, k) = c
        BY <1>0, <2>1 DEF Least, Most
      <3> QED
        BY <1>0, <1>1, <1>2, <1>5, <3>1 DEF Calm
    <2>2. CASE c < k
      <3>1. Least(c, k) = c /\ Most(c, k) = k
        BY <1>0, <2>2 DEF Least, Most
      <3>2. Promise(c, c) <= Promise(c, k) /\ Promise(c, c) \in Nat
        BY PromiseFacts
      <3> QED
        BY <1>0, <1>1, <1>2, <1>5, <2>2, <3>1, <3>2 DEF Calm
    <2> QED
      BY <1>0, <2>1, <2>2
  <1>6. ASSUME j < Threshold PROVE Calm(n + 1, j + 1, Threshold, k)
    <2>1. 2 + Promise(j + 1, k) <= Promise(c, Least(j, k))
      BY <1>6, PromiseKept DEF Calm
    <2>2. j + 1 \in Levels
      BY <1>0, <1>6 DEF Levels
    <2>3. Promise(j + 1, k) \in Nat /\ j + 1 <= Threshold
      BY <1>0, <2>2, PromiseFacts
    <2> QED
      BY <1>0, <1>1, <1>2, <2>1, <2>3 DEF Calm
  <1>7. ASSUME j = Threshold PROVE Calm(n, Threshold, Threshold, k)
    <2>1. Promise(Threshold, k) <= Promise(c, k)
      BY PromiseFacts
    <2> QED
      BY <1>0, <1>1, <1>2, <1>7, <2>1 DEF Calm
  <1> QED
    BY <1>4, <1>5, <1>6, <1>7

(***************************************************************************)
(* What the other worker does while one is late, the same four steps.      *)
(***************************************************************************)
LEMMA TenseSteps ==
  ASSUME OneRule, NEW n \in Nat,
         NEW c \in Levels, NEW j \in Levels, Tense(n, c, j)
  PROVE  /\ Tense(n, c, Threshold)
         /\ Tense(n, c, c)
         /\ j < Threshold => Tense(n + 1, j + 1, Threshold)
         /\ Tense(n, Threshold, Threshold)
  <1>0. /\ Threshold \in Nat \ {0} /\ c \in Nat /\ j \in Nat
        /\ c <= Threshold /\ j <= Threshold
        /\ 0 \in Levels /\ Budget \in Nat
    BY RuleType DEF Levels, Budget
  <1>1. Future(0) \in Nat
    BY <1>0, FutureFacts
  <1> QED
    BY <1>0, <1>1 DEF Tense

(***************************************************************************)
(* What the late worker does: whatever its write leaves in the table, and  *)
(* if it takes a copy instead, there is still room.                        *)
(***************************************************************************)
LEMMA TenseEnds ==
  ASSUME OneRule, NEW n \in Nat,
         NEW c \in Levels, NEW k \in Levels, NEW d \in Levels, Tense(n, c, k)
  PROVE  /\ Calm(n, c, c, k)
         /\ Calm(n, d, Threshold, k)
  <1>0. /\ Threshold \in Nat \ {0} /\ c \in Nat /\ k \in Nat /\ d \in Nat
        /\ c <= Threshold /\ k <= Threshold /\ d <= Threshold
        /\ 0 \in Levels /\ Threshold \in Levels /\ Budget \in Nat
    BY RuleType DEF Levels, Budget
  <1>1. Future(0) \in Nat /\ Future(c) \in Nat
    BY <1>0, FutureFacts
  <1>2. Least(Threshold, k) = k /\ Most(Threshold, k) = Threshold
    BY <1>0 DEF Least, Most
  <1>3. /\ k \in {c, Threshold}
        /\ 2 * n + 2 * (Threshold - c) + Future(0) <= Budget
    BY DEF Tense
  <1>4. /\ Promise(d, k) <= 2 * (Threshold - k) + Future(0)
        /\ Promise(d, k) \in Nat
    BY PromiseFacts
  <1>5. Calm(n, d, Threshold, k)
    BY <1>0, <1>1, <1>2, <1>3, <1>4 DEF Calm
  <1>6. Calm(n, c, c, k)
    <2>1. Least(c, k) = c /\ c <= Most(c, k)
      BY <1>0, <1>3 DEF Least, Most
    <2>2. Promise(c, c) = Future(c) /\ Future(c) <= Future(0)
      BY <1>0, PromiseFacts, FutureFalls
    <2> QED
      BY <1>0, <1>1, <1>3, <2>1, <2>2 DEF Calm
  <1> QED
    BY <1>5, <1>6

(***************************************************************************)
(* Where a worker stands towards client ip and window t.  It Adds when its *)
(* next write counts an attempt that is let through in that window; it is  *)
(* Late when it read the clock before t and is not among them.             *)
(***************************************************************************)
Adds(w, ip, t) ==
  /\ pc[w] = "write"
  /\ Key(w) = ip
  /\ ~ Over(req[w], at[w], buf[w])
  /\ NewRecord(req[w], at[w], buf[w]).first = t

Level(w, ip, t) ==
  IF ~ Adds(w, ip, t) THEN Threshold
  ELSE IF InWindow(req[w], at[w], buf[w]) THEN buf[w].count
  ELSE 0

Late(w, ip, t) ==
  /\ at[w] < t
  /\ Key(w) = ip
  /\ pc[w] \in {"lookup", "write"}
  /\ ~ Adds(w, ip, t)

(***************************************************************************)
(* Where the table stands for a request of time t: at 0 when the request   *)
(* would open the window, at the threshold when the window is full, or     *)
(* hidden behind another one that is not over at t.                        *)
(***************************************************************************)
Reached(ip, t) ==
  IF ~ shm[ip].magic THEN 0
  ELSE IF shm[ip].first = t THEN Least(shm[ip].count, Threshold)
  ELSE IF shm[ip].first + Length <= t THEN 0
  ELSE Threshold

(***************************************************************************)
(* Until some worker has read a clock of t or later, nothing is named t.   *)
(***************************************************************************)
Opened(t) == \E w \in Workers : at[w] >= t

Unopened(ip, t) ==
  /\ admitted[ip][t] = 0
  /\ shm[ip].magic => shm[ip].first # t
  /\ \A w \in Workers :
       pc[w] = "write" /\ Key(w) = ip /\ buf[w].magic => buf[w].first # t

Room(ip, t, u, v) ==
  /\ Late(u, ip, t) => /\ ~ Late(v, ip, t)
                       /\ Tense(admitted[ip][t], Reached(ip, t), Level(v, ip, t))
  /\ Late(v, ip, t) => Tense(admitted[ip][t], Reached(ip, t), Level(u, ip, t))
  /\ ~ Late(u, ip, t) /\ ~ Late(v, ip, t) =>
       Calm(admitted[ip][t], Reached(ip, t), Level(u, ip, t), Level(v, ip, t))

ClocksPast == \A w \in Workers : at[w] <= now

Within(ip, t) ==
  /\ ~ Opened(t) => Unopened(ip, t)
  /\ Opened(t) => \A u, v \in Workers : u # v => Room(ip, t, u, v)

AdmissionInv ==
  /\ TypeOK
  /\ ClocksPast
  /\ \A ip \in IPs, t \in Time : Within(ip, t)

\* The numbers the potential is made of.
LEMMA StandingType ==
  ASSUME OneRule, TypeOK, NEW ip \in IPs, NEW t \in Time
  PROVE  /\ admitted[ip][t] \in Nat
         /\ Reached(ip, t) \in Levels
         /\ \A w \in Workers : Level(w, ip, t) \in Levels
         /\ \A w \in Workers : Adds(w, ip, t) => Level(w, ip, t) < Threshold
         /\ \A w \in Workers : ~ Adds(w, ip, t) => Level(w, ip, t) = Threshold
  <1>0. Threshold \in Nat \ {0} /\ Length \in Nat \ {0}
    BY RuleType
  <1>1. admitted[ip][t] \in Nat
    BY DEF TypeOK, Counters
  <1>2. Reached(ip, t) \in Levels
    <2>1. shm[ip].count \in Nat
      BY DEF TypeOK, Records
    <2> QED
      BY <1>0, <2>1 DEF Reached, Least, Levels
  <1>3. ASSUME NEW w \in Workers
        PROVE  /\ Adds(w, ip, t) =>
                    Level(w, ip, t) \in Levels /\ Level(w, ip, t) < Threshold
               /\ ~ Adds(w, ip, t) => Level(w, ip, t) = Threshold
    <2>1. /\ req[w] \in Requests /\ buf[w].count \in Nat
          /\ req[w].policy.allowed = Threshold
      BY WorkerType, RuleType DEF Records
    <2>2. ASSUME Adds(w, ip, t), InWindow(req[w], at[w], buf[w])
          PROVE  Level(w, ip, t) = buf[w].count /\ buf[w].count < Threshold
      BY <1>0, <2>1, <2>2 DEF Level, Adds, Over
    <2>3. ASSUME Adds(w, ip, t), ~ InWindow(req[w], at[w], buf[w])
          PROVE  Level(w, ip, t) = 0
      BY <2>3 DEF Level
    <2>4. ~ Adds(w, ip, t) => Level(w, ip, t) = Threshold
      BY DEF Level
    <2> QED
      BY <1>0, <2>1, <2>2, <2>3, <2>4 DEF Levels
  <1>4. Threshold \in Levels
    BY <1>0 DEF Levels
  <1> QED
    BY <1>1, <1>2, <1>3, <1>4

(***************************************************************************)
(* What a step of a worker may do to a window, of which the five cases     *)
(* correspond to the lemmas above.                                         *)
(***************************************************************************)
Steady(ip, t) ==
  admitted'[ip][t] = admitted[ip][t] /\ Reached(ip, t)' = Reached(ip, t)

Leaves(w, ip, t) ==
  /\ Steady(ip, t)
  /\ Level(w, ip, t)' = Threshold
  /\ Late(w, ip, t)' => Late(w, ip, t) /\ Level(w, ip, t) = Threshold

Reads(w, ip, t) ==
  /\ Steady(ip, t)
  /\ Level(w, ip, t) = Threshold
  /\ Level(w, ip, t)' = Reached(ip, t)
  /\ ~ Late(w, ip, t)'

AddsOne(w, ip, t) ==
  /\ Level(w, ip, t) < Threshold
  /\ ~ Late(w, ip, t)
  /\ admitted'[ip][t] = admitted[ip][t] + 1
  /\ Reached(ip, t)' = Level(w, ip, t) + 1
  /\ Level(w, ip, t)' = Threshold
  /\ ~ Late(w, ip, t)'

Shuts(w, ip, t) ==
  /\ Level(w, ip, t) = Threshold
  /\ ~ Late(w, ip, t)
  /\ admitted'[ip][t] = admitted[ip][t]
  /\ Reached(ip, t)' = Threshold
  /\ Level(w, ip, t)' = Threshold
  /\ ~ Late(w, ip, t)'

Overwrites(w, ip, t) ==
  /\ Late(w, ip, t)
  /\ admitted'[ip][t] = admitted[ip][t]
  /\ Reached(ip, t)' \in Levels
  /\ Level(w, ip, t)' = Threshold
  /\ ~ Late(w, ip, t)'

Moves(w, ip, t) ==
  \/ Leaves(w, ip, t)
  \/ Reads(w, ip, t)
  \/ AddsOne(w, ip, t)
  \/ Shuts(w, ip, t)
  \/ Overwrites(w, ip, t)

\* Each of them leaves room for what is to come.
LEMMA MovesKeepRoom ==
  ASSUME OneRule, TypeOK, NEW ip \in IPs, NEW t \in Time,
         NEW w \in Workers, NEW o \in Workers, Room(ip, t, w, o),
         Moves(w, ip, t), Level(o, ip, t)' = Level(o, ip, t),
         Late(o, ip, t)' <=> Late(o, ip, t)
  PROVE  Room(ip, t, w, o)'
  <1> DEFINE n == admitted[ip][t]
             c == Reached(ip, t)
             j == Level(w, ip, t)
             k == Level(o, ip, t)
  <1>1. n \in Nat /\ c \in Levels /\ j \in Levels /\ k \in Levels
    BY StandingType
  <1>2. /\ Late(w, ip, t) => ~ Late(o, ip, t) /\ Tense(n, c, k)
        /\ Late(o, ip, t) => Tense(n, c, j)
        /\ ~ Late(w, ip, t) /\ ~ Late(o, ip, t) => Calm(n, c, j, k)
    BY DEF Room
  <1>3. /\ Late(w, ip, t)' => ~ Late(o, ip, t)'
               /\ Tense(admitted'[ip][t], Reached(ip, t)', k)
        /\ Late(o, ip, t) =>
             Tense(admitted'[ip][t], Reached(ip, t)', Level(w, ip, t)')
        /\ ~ Late(w, ip, t)' /\ ~ Late(o, ip, t) =>
             Calm(admitted'[ip][t], Reached(ip, t)', Level(w, ip, t)', k)
    <2>1. CASE Leaves(w, ip, t)
      <3>1. Late(o, ip, t) => Tense(n, c, Threshold)
        BY <1>1, <1>2, TenseSteps
      <3>2. ~ Late(o, ip, t) => Calm(n, c, Threshold, k)
        BY <1>1, <1>2, CalmSteps, TenseEnds
      <3> HIDE DEF n, c, j, k
      <3>3. /\ admitted'[ip][t] = n /\ Reached(ip, t)' = c
            /\ Level(w, ip, t)' = Threshold
            /\ Late(w, ip, t)' => Late(w, ip, t)
        BY <2>1 DEF Leaves, Steady, n, c
      <3> QED
        BY <1>2, <3>1, <3>2, <3>3
    <2>2. CASE Reads(w, ip, t)
      <3>1. Late(o, ip, t) => Tense(n, c, c)
        BY <1>1, <1>2, TenseSteps
      <3>2. ~ Late(o, ip, t) => Calm(n, c, c, k)
        BY <1>1, <1>2, <2>2, CalmSteps, TenseEnds DEF Reads
      <3> HIDE DEF n, c, j, k
      <3>3. /\ admitted'[ip][t] = n /\ Reached(ip, t)' = c
            /\ Level(w, ip, t)' = c
            /\ ~ Late(w, ip, t)'
        BY <2>2 DEF Reads, Steady, n, c
      <3> QED
        BY <3>1, <3>2, <3>3
    <2>3. CASE AddsOne(w, ip, t)
      <3>0. j < Threshold /\ ~ Late(w, ip, t)
        BY <2>3 DEF AddsOne
      <3>1. Late(o, ip, t) => Tense(n + 1, j + 1, Threshold)
        BY <1>1, <1>2, <3>0, TenseSteps
      <3>2. ~ Late(o, ip, t) => Calm(n + 1, j + 1, Threshold, k)
        BY <1>1, <1>2, <3>0, CalmSteps
      <3> HIDE DEF n, c, j, k
      <3>3. /\ admitted'[ip][t] = n + 1 /\ Reached(ip, t)' = j + 1
            /\ Level(w, ip, t)' = Threshold
            /\ ~ Late(w, ip, t)'
        BY <2>3 DEF AddsOne, n, j
      <3> QED
        BY <3>1, <3>2, <3>3
    <2>4. CASE Shuts(w, ip, t)
      <3>0. j = Threshold /\ ~ Late(w, ip, t)
        BY <2>4 DEF Shuts
      <3>1. Late(o, ip, t) => Tense(n, Threshold, Threshold)
        BY <1>1, <1>2, TenseSteps
      <3>2. ~ Late(o, ip, t) => Calm(n, Threshold, Threshold, k)
        BY <1>1, <1>2, <3>0, CalmSteps
      <3> HIDE DEF n, c, j, k
      <3>3. /\ admitted'[ip][t] = n /\ Reached(ip, t)' = Threshold
            /\ Level(w, ip, t)' = Threshold
            /\ ~ Late(w, ip, t)'
        BY <2>4 DEF Shuts, n
      <3> QED
        BY <3>1, <3>2, <3>3
    <2>5. CASE Overwrites(w, ip, t)
      <3>1. ~ Late(o, ip, t) /\ Calm(n, Reached(ip, t)', Threshold, k)
        BY <1>1, <1>2, <2>5, TenseEnds DEF Overwrites
      <3> HIDE DEF n, c, j, k
      <3>2. /\ admitted'[ip][t] = n
            /\ Level(w, ip, t)' = Threshold
            /\ ~ Late(w, ip, t)'
        BY <2>5 DEF Overwrites, n
      <3> QED
        BY <3>1, <3>2
    <2> QED
      BY <2>1, <2>2, <2>3, <2>4, <2>5 DEF Moves
  <1> QED
    BY <1>3 DEF Room

(***************************************************************************)
(* One worker's step, as its own variables see it.                         *)
(***************************************************************************)
Step(w) == (\E r \in Requests : Start(w, r)) \/ Serve(w) \/ Restart(w)

\* The others do not move.
LEMMA OthersStay ==
  ASSUME TypeOK, NEW w \in Workers, Step(w),
         NEW o \in Workers, o # w
  PROVE  /\ pc'[o] = pc[o] /\ req'[o] = req[o]
         /\ at'[o] = at[o] /\ buf'[o] = buf[o]
  BY DEF Step, Serve, Start, Lookup, Write, FailOpen, Notify, Wake, Restart,
         TypeOK

\* A worker whose variables stay stands where it stood.
LEMMA StandingStays ==
  ASSUME NEW o \in Workers, NEW ip \in IPs, NEW t \in Time,
         pc'[o] = pc[o], req'[o] = req[o], at'[o] = at[o], buf'[o] = buf[o]
  PROVE  /\ Level(o, ip, t)' = Level(o, ip, t)
         /\ Late(o, ip, t)' <=> Late(o, ip, t)
  <1>1. Key(o)' = Key(o)
    BY DEF Key
  <1>2. Adds(o, ip, t)' <=> Adds(o, ip, t)
    BY <1>1 DEF Adds
  <1> QED
    BY <1>1, <1>2 DEF Level, Late

\* A worker that is not about to write holds no copy.
LEMMA NotWriting ==
  ASSUME NEW w \in Workers, NEW ip \in IPs, NEW t \in Time, pc'[w] # "write"
  PROVE  /\ Level(w, ip, t)' = Threshold
         /\ pc'[w] # "lookup" => ~ Late(w, ip, t)'
  BY DEF Level, Late, Adds

\* Where the table stands for every window of a client depends on its record.
LEMMA ReachedStays ==
  ASSUME NEW ip \in IPs, NEW t \in Time, shm'[ip] = shm[ip]
  PROVE  Reached(ip, t)' = Reached(ip, t)
  BY DEF Reached

(***************************************************************************)
(* A lookup takes a copy of what the table has reached, or none.           *)
(***************************************************************************)
LEMMA LookupMoves ==
  ASSUME OneRule, TypeOK, NEW w \in Workers, Lookup(w),
         NEW ip \in IPs, NEW t \in Time
  PROVE  Moves(w, ip, t)
  <1> DEFINE record == shm[Key(w)]
  <1>1. /\ req' = req /\ at' = at /\ shm' = shm /\ admitted' = admitted
        /\ Key(w)' = Key(w) /\ pc[w] = "lookup"
    BY DEF Lookup, Key, history
  <1>2. /\ buf'[w] = record
        /\ pc'[w] = IF Counts(req[w], at[w], record) THEN "write" ELSE "ok"
    BY DEF Lookup, Get, TypeOK
  <1>3. Steady(ip, t)
    BY <1>1, ReachedStays DEF Steady
  <1>4. Level(w, ip, t) = Threshold
    BY <1>1 DEF Level, Adds
  <1>5. CASE Adds(w, ip, t)'
    <2>1. /\ ip = Key(w) /\ ~ Over(req[w], at[w], record)
          /\ NewRecord(req[w], at[w], record).first = t
          /\ pc'[w] = "write"
      BY <1>1, <1>2, <1>5 DEF Adds
    <2>2. Level(w, ip, t)' =
            IF InWindow(req[w], at[w], record) THEN record.count ELSE 0
      BY <1>1, <1>2, <1>5 DEF Level
    <2>3. /\ record \in Records(Time) /\ req[w] \in Requests
          /\ at[w] \in Nat /\ t \in Nat /\ Threshold \in Nat \ {0}
          /\ record.first \in Nat /\ record.count \in Nat
          /\ Length \in Nat \ {0}
          /\ req[w].policy.window = Length
          /\ req[w].policy.allowed = Threshold
      BY WorkerType, TimeType, RuleType DEF Records
    <2>4. CASE InWindow(req[w], at[w], record)
      <3>1. record.magic /\ record.count < Threshold
        BY <2>1, <2>3, <2>4 DEF Over, InWindow
      <3>2. record.first = t
        BY <2>1, <2>3, <2>4 DEF NewRecord, Records
      <3> QED
        BY <1>3, <1>4, <1>5, <2>1, <2>2, <2>3, <2>4, <3>1, <3>2
        DEF Moves, Reads, Reached, Least, Late
    <2>5. CASE ~ InWindow(req[w], at[w], record)
      <3>1. at[w] = t
        BY <2>1, <2>5 DEF NewRecord, FreshRecord
      <3>2. record.magic => record.first + Length <= t
        BY <2>3, <2>5, <3>1 DEF InWindow
      <3>3. Reached(ip, t) = 0
        <4>1. record.magic => record.first # t
          BY <2>3, <3>2
        <4> QED
          BY <2>1, <3>2, <4>1 DEF Reached
      <3> QED
        BY <1>3, <1>4, <1>5, <2>2, <2>5, <3>3 DEF Moves, Reads, Late
    <2> QED
      BY <2>4, <2>5
  <1>6. CASE ~ Adds(w, ip, t)'
    <2>1. Level(w, ip, t)' = Threshold
      BY <1>6 DEF Level
    <2>2. Late(w, ip, t)' => Late(w, ip, t)
      BY <1>1 DEF Late, Adds
    <2> QED
      BY <1>3, <1>4, <2>1, <2>2 DEF Moves, Leaves
  <1> QED
    BY <1>5, <1>6

(***************************************************************************)
(* A write adds an attempt, shuts the window behind another one, or, when  *)
(* it is late, leaves anything at all in the table.                        *)
(***************************************************************************)
LEMMA WriteMoves ==
  ASSUME OneRule, TypeOK, NEW w \in Workers, Write(w),
         NEW ip \in IPs, NEW t \in Time
  PROVE  Moves(w, ip, t)
  <1> DEFINE r == req[w]
             record == buf[w]
             new == NewRecord(r, at[w], record)
  <1>1. /\ r \in Requests /\ record \in Records(Time) /\ Key(w) \in IPs
        /\ at[w] \in Time
        /\ at[w] \in Nat /\ t \in Nat /\ Threshold \in Nat \ {0}
        /\ record.first \in Nat /\ record.count \in Nat
        /\ Length \in Nat \ {0}
        /\ r.policy.window = Length /\ r.policy.allowed = Threshold
    BY WorkerType, TimeType, RuleType DEF Records
  <1>2. /\ new \in Records(Time) /\ new.magic
        /\ \/ /\ new.first = record.first /\ new.count = record.count + 1
              /\ InWindow(r, at[w], record)
           \/ /\ new.first = at[w] /\ new.count = 1
              /\ ~ InWindow(r, at[w], record)
    BY <1>1, NewRecordType
  <1>3. shm' = [shm EXCEPT ![Key(w)] = new]
    <2>1. [new EXCEPT !.magic = TRUE] = new
      BY <1>2 DEF Records
    <2> QED
      BY <2>1 DEF Write, Update
  <1>4. admitted' = IF Over(r, at[w], record)
                      THEN admitted ELSE Charge(admitted, Key(w), new.first)
    BY DEF Write
  <1>5. pc[w] = "write" /\ pc'[w] # "write" /\ pc'[w] # "lookup"
    <2>1. pc'[w] = AfterWrite(r, at[w], record)
      BY DEF Write, TypeOK
    <2> QED
      BY <1>1, <2>1, AfterWriteType DEF Write
  <1>6. Level(w, ip, t)' = Threshold /\ ~ Late(w, ip, t)'
    BY <1>5, NotWriting
  <1>7. /\ shm'[Key(w)] = new
        /\ ip # Key(w) => shm'[ip] = shm[ip]
        /\ admitted'[ip][t] =
             IF ~ Over(r, at[w], record) /\ ip = Key(w) /\ t = new.first
               THEN admitted[ip][t] + 1 ELSE admitted[ip][t]
    <2>1. /\ shm'[Key(w)] = new
          /\ ip # Key(w) => shm'[ip] = shm[ip]
      BY <1>1, <1>3 DEF TypeOK
    <2>2. new.first \in Time
      BY <1>2 DEF Records
    <2>3. Charge(admitted, Key(w), new.first)[ip][t] =
            IF ip = Key(w) /\ t = new.first
              THEN admitted[ip][t] + 1 ELSE admitted[ip][t]
      BY <1>1, <2>2 DEF Charge, TypeOK, Counters
    <2> QED
      BY <1>4, <2>1, <2>3
  <1> HIDE DEF new
  <1>8. CASE ip # Key(w)
    <2>1. Steady(ip, t)
      BY <1>7, <1>8, ReachedStays DEF Steady
    <2>2. Level(w, ip, t) = Threshold
      BY <1>8 DEF Level, Adds
    <2> QED
      BY <1>6, <2>1, <2>2 DEF Moves, Leaves
  <1>9. CASE ip = Key(w) /\ Adds(w, ip, t)
    <2>1. ~ Over(r, at[w], record) /\ new.first = t
      BY <1>9 DEF Adds, new
    <2>2. /\ Level(w, ip, t) = new.count - 1
          /\ Level(w, ip, t) < Threshold
      <3>1. Level(w, ip, t) =
              IF InWindow(r, at[w], record) THEN record.count ELSE 0
        BY <1>9 DEF Level
      <3>2. Level(w, ip, t) < Threshold
        BY <1>9, StandingType
      <3> QED
        BY <1>1, <1>2, <3>1, <3>2
    <2>3. new.count \in Nat /\ new.count <= Threshold
      BY <1>1, <1>2, <2>2 DEF Records
    <2>4. Reached(ip, t)' = new.count
      <3>1. Reached(ip, t)' = Least(new.count, Threshold)
        BY <1>2, <1>7, <1>9, <2>1 DEF Reached
      <3> QED
        BY <2>3, <3>1 DEF Least
    <2>5. admitted'[ip][t] = admitted[ip][t] + 1
      BY <1>7, <1>9, <2>1
    <2>6. ~ Late(w, ip, t)
      BY <1>9 DEF Late
    <2> QED
      BY <1>6, <2>2, <2>3, <2>4, <2>5, <2>6 DEF Moves, AddsOne
  <1>10. CASE ip = Key(w) /\ ~ Adds(w, ip, t)
    <2>1. Level(w, ip, t) = Threshold
      BY <1>10 DEF Level
    <2>2. Over(r, at[w], record) \/ new.first # t
      BY <1>5, <1>10 DEF Adds, new
    <2>3. admitted'[ip][t] = admitted[ip][t]
      BY <1>7, <2>2
    <2>4. new.first \in Nat /\ new.count \in Nat
      BY <1>2, TimeType DEF Records
    <2>5. CASE at[w] < t
      <3>1. Late(w, ip, t)
        BY <1>5, <1>10, <2>5 DEF Late
      <3>2. Reached(ip, t)' \in Levels
        BY <1>1, <1>2, <1>7, <1>10, <2>4 DEF Reached, Least, Levels
      <3> QED
        BY <1>6, <2>3, <3>1, <3>2 DEF Moves, Overwrites
    <2>6. CASE at[w] >= t
      <3>1. ~ Late(w, ip, t)
        BY <1>1, <2>6 DEF Late
      <3>2. Reached(ip, t)' = Threshold
        <4>1. CASE Over(r, at[w], record)
          <5>1. /\ record.count >= Threshold
                /\ at[w] - record.first < Length
                /\ new.first = record.first /\ new.count = record.count + 1
            BY <1>1, <1>2, <4>1 DEF Over, InWindow
          <5>2. ~ (new.first + Length <= t)
            BY <1>1, <2>6, <5>1
          <5>3. Least(new.count, Threshold) = Threshold
            BY <1>1, <5>1 DEF Least
          <5> QED
            BY <1>2, <1>7, <1>10, <5>2, <5>3 DEF Reached
        <4>2. CASE ~ Over(r, at[w], record)
          <5>1. new.first # t
            BY <2>2, <4>2
          <5>2. ~ (new.first + Length <= t)
            BY <1>1, <1>2, <2>6 DEF InWindow
          <5> QED
            BY <1>2, <1>7, <1>10, <5>1, <5>2 DEF Reached
        <4> QED
          BY <4>1, <4>2
      <3> QED
        BY <1>6, <2>1, <2>3, <3>1, <3>2 DEF Moves, Shuts
    <2> QED
      BY <1>1, <2>5, <2>6
  <1> QED
    BY <1>8, <1>9, <1>10

(***************************************************************************)
(* Every step of a worker is one of the five moves, for every window that  *)
(* is not in the future.                                                   *)
(***************************************************************************)
LEMMA StepMoves ==
  ASSUME OneRule, TypeOK, NEW w \in Workers, Step(w),
         NEW ip \in IPs, NEW t \in Time, t <= now
  PROVE  Moves(w, ip, t)
  <1>1. ASSUME NEW r \in Requests, Start(w, r) PROVE Moves(w, ip, t)
    <2>1. /\ shm' = shm /\ admitted' = admitted
          /\ pc[w] # "write" /\ pc'[w] # "write" /\ at'[w] = now
      BY <1>1 DEF Start, Ready, history, TypeOK
    <2>2. Steady(ip, t)
      BY <2>1, ReachedStays DEF Steady
    <2>3. ~ Late(w, ip, t)'
      <3>1. now \in Nat /\ t \in Nat
        BY TimeType DEF TypeOK
      <3> QED
        BY <2>1, <3>1 DEF Late
    <2> QED
      BY <2>1, <2>2, <2>3, NotWriting DEF Moves, Leaves
  <1>2. ASSUME FailOpen(w) \/ Notify(w) \/ Wake(w) \/ Restart(w)
        PROVE  Moves(w, ip, t)
    <2>1. /\ shm' = shm /\ admitted' = admitted
          /\ pc'[w] # "write" /\ pc'[w] # "lookup"
      BY <1>2 DEF FailOpen, Notify, Wake, Restart, history, TypeOK
    <2>2. Steady(ip, t)
      BY <2>1, ReachedStays DEF Steady
    <2> QED
      BY <2>1, <2>2, NotWriting DEF Moves, Leaves
  <1> QED
    BY <1>1, <1>2, LookupMoves, WriteMoves DEF Step, Serve

\* A window nobody has read the clock of stays untouched until then.
LEMMA StepUnopened ==
  ASSUME TypeOK, NEW w \in Workers, Step(w),
         NEW ip \in IPs, NEW t \in Time, ~ Opened(t), Unopened(ip, t)
  PROVE  Unopened(ip, t)'
  <1>0. \A v \in Workers : at[v] \in Nat /\ t \in Nat /\ at[v] < t
    <2> SUFFICES ASSUME NEW v \in Workers
                 PROVE  at[v] \in Nat /\ t \in Nat /\ at[v] < t
      OBVIOUS
    <2>1. at[v] \in Nat /\ t \in Nat
      BY TimeType DEF TypeOK
    <2> QED
      BY <2>1 DEF Opened
  <1>1. admitted[ip][t] = 0 /\ (shm[ip].magic => shm[ip].first # t)
    BY DEF Unopened
  <1>c. \A v \in Workers :
          pc[v] = "write" /\ Key(v) = ip /\ buf[v].magic => buf[v].first # t
    BY DEF Unopened
  <1>2. ASSUME NEW o \in Workers, o # w,
               pc'[o] = "write", Key(o)' = ip, buf'[o].magic
        PROVE  buf'[o].first # t
    <2>1. pc'[o] = pc[o] /\ req'[o] = req[o] /\ buf'[o] = buf[o]
      BY <1>2, OthersStay
    <2> QED
      BY <1>2, <1>c, <2>1 DEF Key
  <1>3. CASE UNCHANGED <<shm, admitted>> /\ pc'[w] # "write"
    BY <1>1, <1>2, <1>3 DEF Unopened
  <1>4. CASE Lookup(w)
    <2>1. shm' = shm /\ admitted' = admitted /\ Key(w)' = Key(w)
      BY <1>4 DEF Lookup, history, Key
    <2>2. buf'[w] = shm[Key(w)]
      BY <1>4 DEF Lookup, Get, TypeOK
    <2> QED
      BY <1>1, <1>2, <2>1, <2>2 DEF Unopened
  <1>5. CASE Write(w)
    <2> DEFINE new == NewRecord(req[w], at[w], buf[w])
    <2>1. /\ req[w] \in Requests /\ at[w] \in Time /\ Key(w) \in IPs
          /\ buf[w] \in Records(Time) /\ pc[w] = "write"
      BY <1>5, WorkerType DEF Write
    <2>2. /\ new \in Records(Time)
          /\ \/ new.first = buf[w].first /\ InWindow(req[w], at[w], buf[w])
             \/ new.first = at[w]
      BY <2>1, NewRecordType
    <2>3. Key(w) = ip => new.first # t
      BY <1>0, <1>c, <2>1, <2>2 DEF InWindow
    <2>4. [new EXCEPT !.magic = TRUE].first = new.first
      BY <2>2 DEF Records
    <2> HIDE DEF new
    <2>5. shm'[ip].magic => shm'[ip].first # t
      <3>1. shm' = [shm EXCEPT ![Key(w)] = [new EXCEPT !.magic = TRUE]]
        BY <1>5 DEF Write, Update, new
      <3>2. CASE Key(w) = ip
        BY <2>3, <2>4, <3>1, <3>2 DEF TypeOK
      <3>3. CASE Key(w) # ip
        BY <1>1, <3>1, <3>3 DEF TypeOK
      <3> QED
        BY <3>2, <3>3
    <2>6. admitted'[ip][t] = 0
      <3>1. \/ admitted' = admitted
            \/ admitted' = Charge(admitted, Key(w), new.first)
        BY <1>5 DEF Write, new
      <3>2. new.first \in Time
        BY <2>2 DEF Records
      <3>3. Charge(admitted, Key(w), new.first)[ip][t] = admitted[ip][t]
        BY <2>1, <2>3, <3>2 DEF Charge, TypeOK, Counters
      <3> QED
        BY <1>1, <3>1, <3>3
    <2>7. pc'[w] # "write"
      <3>1. pc'[w] = AfterWrite(req[w], at[w], buf[w])
        BY <1>5 DEF Write, TypeOK
      <3> QED
        BY <2>1, <3>1, AfterWriteType
    <2> QED
      BY <1>2, <2>5, <2>6, <2>7 DEF Unopened
  <1>6. \/ UNCHANGED <<shm, admitted>> /\ pc'[w] # "write"
        \/ Lookup(w) \/ Write(w)
    <2>1. ASSUME NEW r \in Requests, Start(w, r)
          PROVE  UNCHANGED <<shm, admitted>> /\ pc'[w] # "write"
      BY <2>1 DEF Start, history, TypeOK
    <2>2. ASSUME FailOpen(w) \/ Notify(w) \/ Wake(w) \/ Restart(w)
          PROVE  UNCHANGED <<shm, admitted>> /\ pc'[w] # "write"
      BY <2>2 DEF FailOpen, Notify, Wake, Restart, history, TypeOK
    <2> QED
      BY <2>1, <2>2 DEF Step, Serve
  <1> QED
    BY <1>3, <1>4, <1>5, <1>6

(***************************************************************************)
(* The moment a window can be opened: the whole budget is still there.     *)
(***************************************************************************)
LEMMA OpeningHasRoom ==
  ASSUME OneRule, TypeOK, NEW ip \in IPs, NEW t \in Time, Unopened(ip, t),
         NEW u \in Workers, NEW v \in Workers,
         ~ Adds(u, ip, t), ~ Adds(v, ip, t), ~ Late(u, ip, t) \/ ~ Late(v, ip, t)
  PROVE  Room(ip, t, u, v)
  <1> DEFINE c == Reached(ip, t)
  <1>1. /\ Level(u, ip, t) = Threshold /\ Level(v, ip, t) = Threshold
        /\ admitted[ip][t] = 0 /\ c \in Levels
    BY StandingType DEF Unopened
  <1>2. /\ Threshold \in Nat \ {0} /\ c \in Nat /\ c <= Threshold
        /\ 0 \in Levels /\ Threshold \in Levels
    BY <1>1, RuleType DEF Levels
  <1>3. /\ Promise(c, Threshold) = Future(c) /\ Future(c) <= Future(0)
        /\ Future(c) \in Nat /\ Future(0) \in Nat
        /\ Future(0) + 2 * Threshold = Budget
    BY <1>1, <1>2, PromiseFacts, FutureFalls, FutureFacts
  <1>4. Least(Threshold, Threshold) = Threshold
        /\ Most(Threshold, Threshold) = Threshold
    BY DEF Least, Most
  <1>5. Tense(0, c, Threshold)
    BY <1>2, <1>3 DEF Tense
  <1>6. Calm(0, c, Threshold, Threshold)
    BY <1>2, <1>3, <1>4 DEF Calm
  <1> QED
    BY <1>1, <1>5, <1>6 DEF Room

\* The two workers of Room are interchangeable.
LEMMA RoomSymmetric ==
  ASSUME OneRule, TypeOK, NEW ip \in IPs, NEW t \in Time,
         NEW u \in Workers, NEW v \in Workers, Room(ip, t, u, v)
  PROVE  Room(ip, t, v, u)
  <1>1. Level(u, ip, t) \in Levels /\ Level(v, ip, t) \in Levels
    BY StandingType
  <1>2. Calm(admitted[ip][t], Reached(ip, t), Level(u, ip, t), Level(v, ip, t))
          <=> Calm(admitted[ip][t], Reached(ip, t), Level(v, ip, t),
                   Level(u, ip, t))
    BY <1>1, CalmSymmetric
  <1> QED
    BY <1>2 DEF Room

(***************************************************************************)
(* The same two facts of the state that a step leads to.                   *)
(***************************************************************************)
Orderless ==
  \A ip \in IPs, t \in Time, u, v \in Workers :
    Room(ip, t, u, v) => Room(ip, t, v, u)

Ample ==
  \A ip \in IPs, t \in Time, u, v \in Workers :
    /\ Unopened(ip, t)
    /\ ~ Adds(u, ip, t) /\ ~ Adds(v, ip, t)
    /\ ~ Late(u, ip, t) \/ ~ Late(v, ip, t)
    => Room(ip, t, u, v)

\* They follow from the types alone, so they hold after every step.
LEMMA RoomAfterStep ==
  ASSUME OneRule
  PROVE  TypeOK' => Orderless' /\ Ample'
  <1>1. TypeOK => Orderless
    BY RoomSymmetric DEF Orderless
  <1>2. TypeOK => Ample
    BY OpeningHasRoom DEF Ample
  <1> QED
    BY <1>1, <1>2, PTL

\* Nobody reads a clock that is ahead.
LEMMA StepClocks ==
  ASSUME TypeOK, ClocksPast, [Next]_vars
  PROVE  ClocksPast'
  <1>0. now \in Nat /\ \A w \in Workers : at[w] \in Nat /\ at[w] <= now
    BY TimeType DEF TypeOK, ClocksPast
  <1>1. ASSUME NEW w \in Workers, NEW r \in Requests, Start(w, r)
        PROVE  ClocksPast'
    BY <1>0, <1>1 DEF Start, ClocksPast, TypeOK
  <1>2. ASSUME Tick PROVE ClocksPast'
    BY <1>0, <1>2 DEF Tick, worker, ClocksPast
  <1>3. ASSUME UNCHANGED <<now, at>> PROVE ClocksPast'
    BY <1>3 DEF ClocksPast
  <1> QED
    BY <1>1, <1>2, <1>3
    DEF Next, Serve, Lookup, Write, FailOpen, Notify, Wake, Restart, vars,
        worker

(***************************************************************************)
(* A step of a worker keeps every window within its budget.                *)
(***************************************************************************)
LEMMA StepWithin ==
  ASSUME OneRule, TwoWorkers, AdmissionInv, TypeOK', NEW w \in Workers, Step(w),
         NEW ip \in IPs, NEW t \in Time
  PROVE  Within(ip, t)'
  <1>t. TypeOK /\ ClocksPast /\ Within(ip, t)
    BY DEF AdmissionInv
  <1>0. /\ t \in Nat /\ now \in Nat
        /\ \A v \in Workers : at[v] \in Nat /\ at'[v] \in Nat /\ at[v] <= now
    BY <1>t, TimeType DEF TypeOK, ClocksPast
  <1>1. PICK o \in Workers : o # w /\ Workers = {w, o}
    BY DEF TwoWorkers
  <1>2. /\ pc'[o] = pc[o] /\ req'[o] = req[o]
        /\ at'[o] = at[o] /\ buf'[o] = buf[o]
    BY <1>t, <1>1, OthersStay
  <1>3. at'[w] = at[w] \/ at'[w] = now
    BY <1>t
    DEF Step, Serve, Start, Lookup, Write, FailOpen, Notify, Wake, Restart,
        TypeOK
  <1>4. CASE Opened(t)
    <2>1. t <= now
      BY <1>0, <1>4 DEF Opened
    <2>2. Opened(t)'
      BY <1>0, <1>1, <1>2, <1>3, <1>4, <2>1 DEF Opened
    <2>3. Room(ip, t, w, o)
      BY <1>t, <1>1, <1>4 DEF Within
    <2>4. Moves(w, ip, t)
      BY <1>t, <2>1, StepMoves
    <2>5. /\ Level(o, ip, t)' = Level(o, ip, t)
          /\ Late(o, ip, t)' <=> Late(o, ip, t)
      BY <1>2, StandingStays
    <2>6. Room(ip, t, w, o)'
      BY <1>t, <2>3, <2>4, <2>5, MovesKeepRoom
    <2>7. Room(ip, t, o, w)'
      BY <1>1, <2>6, RoomAfterStep DEF Orderless
    <2> QED
      BY <1>1, <2>2, <2>6, <2>7 DEF Within
  <1>5. CASE ~ Opened(t)
    <2>1. Unopened(ip, t)'
      BY <1>t, <1>5, StepUnopened DEF Within
    <2>2. ASSUME Opened(t)' PROVE Room(ip, t, w, o)' /\ Room(ip, t, o, w)'
      <3>1. at'[w] >= t
        BY <1>0, <1>1, <1>2, <1>5, <2>2 DEF Opened
      <3>2. ~ Late(w, ip, t)'
        BY <1>0, <3>1 DEF Late
      <3>3. pc'[w] # "write"
        <4>1. PICK r \in Requests : Start(w, r)
          <5>1. at'[w] # at[w]
            BY <1>0, <1>5, <3>1 DEF Opened
          <5> QED
            BY <5>1
            DEF Step, Serve, Lookup, Write, FailOpen, Notify, Wake, Restart
        <4> QED
          BY <1>t, <4>1 DEF Start, TypeOK
      <3>4. ~ Adds(w, ip, t)'
        BY <3>3 DEF Adds
      <3>5. ~ Adds(o, ip, t)'
        <4> SUFFICES ASSUME Adds(o, ip, t)' PROVE FALSE
          OBVIOUS
        <4>1. /\ pc'[o] = "write" /\ Key(o)' = ip
              /\ NewRecord(req'[o], at'[o], buf'[o]).first = t
          BY DEF Adds
        <4>2. /\ buf[o] \in Records(Time) /\ req[o] \in Requests
              /\ at[o] \in Time
          BY <1>t, WorkerType
        <4>3. \/ /\ NewRecord(req[o], at[o], buf[o]).first = buf[o].first
                 /\ InWindow(req[o], at[o], buf[o])
              \/ NewRecord(req[o], at[o], buf[o]).first = at[o]
          BY <4>2, NewRecordType
        <4>4. at[o] # t
          BY <1>0, <1>5 DEF Opened
        <4>5. buf'[o].magic => buf'[o].first # t
          BY <2>1, <4>1 DEF Unopened
        <4> QED
          BY <1>2, <4>1, <4>3, <4>4, <4>5 DEF InWindow
      <3>6. Room(ip, t, w, o)'
        BY <2>1, <3>2, <3>4, <3>5, RoomAfterStep DEF Ample
      <3> QED
        BY <3>6, RoomAfterStep DEF Orderless
    <2> QED
      BY <1>1, <2>1, <2>2 DEF Within
  <1> QED
    BY <1>4, <1>5

\* At the start no window but the first has begun, and no attempt is counted.
LEMMA InitAdmissionInv ==
  ASSUME OneRule, Init
  PROVE  AdmissionInv
  <1>t. TypeOK
    BY InitTypeOK
  <1>1. ClocksPast
    BY DEF Init, ClocksPast
  <1>2. ASSUME NEW ip \in IPs, NEW t \in Time PROVE Within(ip, t)
    <2>1. Unopened(ip, t)
      BY DEF Init, Unopened, NoRecord
    <2>2. \A w \in Workers : ~ Adds(w, ip, t) /\ ~ Late(w, ip, t)
      BY DEF Init, Adds, Late
    <2>3. \A u, v \in Workers : Room(ip, t, u, v)
      BY <1>t, <2>1, <2>2, OpeningHasRoom
    <2> QED
      BY <2>1, <2>3 DEF Within
  <1> QED
    BY <1>t, <1>1, <1>2 DEF AdmissionInv

\* Every step keeps every window within its budget.
LEMMA StepAdmissionInv ==
  ASSUME OneRule, TwoWorkers, AdmissionInv, [Next]_vars
  PROVE  AdmissionInv'
  <1>t. TypeOK /\ ClocksPast /\ TypeOK' /\ ClocksPast'
    BY StepTypeOK, StepClocks DEF AdmissionInv
  <1>1. ASSUME NEW ip \in IPs, NEW t \in Time PROVE Within(ip, t)'
    <2>1. ASSUME NEW w \in Workers, Step(w) PROVE Within(ip, t)'
      BY <1>t, <2>1, StepWithin
    <2>2. ASSUME UNCHANGED <<shm, worker, admitted>> PROVE Within(ip, t)'
      <3>1. UNCHANGED <<shm, pc, req, at, buf, admitted>>
        BY <2>2 DEF worker
      <3>2. Reached(ip, t)' = Reached(ip, t)
        BY <3>1, ReachedStays
      <3>3. \A w \in Workers : /\ Level(w, ip, t)' = Level(w, ip, t)
                               /\ Late(w, ip, t)' <=> Late(w, ip, t)
        BY <3>1, StandingStays
      <3>4. \A u, v \in Workers : Room(ip, t, u, v)' <=> Room(ip, t, u, v)
        BY <3>1, <3>2, <3>3 DEF Room
      <3>5. (Opened(t)' <=> Opened(t)) /\ (Unopened(ip, t)' <=> Unopened(ip, t))
        BY <3>1 DEF Opened, Unopened, Key
      <3>6. Within(ip, t)
        BY DEF AdmissionInv
      <3> QED
        BY <3>4, <3>5, <3>6 DEF Within
    <2>3. (\E w \in Workers : Step(w)) \/ UNCHANGED <<shm, worker, admitted>>
      BY DEF Next, Step, Tick, vars, worker, history
    <2> QED
      BY <2>1, <2>2, <2>3
  <1> QED
    BY <1>t, <1>1 DEF AdmissionInv

(***************************************************************************)
(* Two workers under one rule let at most a * (a + 5) / 2 attempts of one  *)
(* client through in one window of threshold a, however the lookups and    *)
(* the writes interleave, whichever workers die, whatever the clock does   *)
(* between two steps.                                                      *)
(***************************************************************************)
THEOREM LostUpdatesAreBounded ==
  ASSUME OneRule, TwoWorkers
  PROVE  Spec => []AdmissionBound
  <1>1. AdmissionInv => AdmissionBound
    <2> SUFFICES ASSUME AdmissionInv,
                        NEW ip \in IPs, NEW t \in Time, NEW r \in Requests
                 PROVE  admitted[ip][t] <=
                          (r.policy.allowed * (r.policy.allowed + 5)) \div 2
      BY DEF AdmissionBound
    <2>1. TypeOK /\ Within(ip, t)
      BY DEF AdmissionInv
    <2>2. r.policy.allowed = Threshold /\ Threshold \in Nat
      BY RuleType
    <2>3. admitted[ip][t] \in Nat /\ Budget \in Nat
      BY <2>1, <2>2, StandingType DEF Budget
    <2>4. 2 * admitted[ip][t] <= Budget
      <3>1. CASE ~ Opened(t)
        BY <2>1, <2>3, <3>1 DEF Within, Unopened
      <3>2. CASE Opened(t)
        <4>1. PICK u, v \in Workers : u # v
          BY DEF TwoWorkers
        <4>2. Room(ip, t, u, v)
          BY <2>1, <3>2, <4>1 DEF Within
        <4>3. /\ Reached(ip, t) \in Levels
              /\ Level(u, ip, t) \in Levels /\ Level(v, ip, t) \in Levels
          BY <2>1, StandingType
        <4>4. /\ \A c \in Levels, k \in Levels :
                   Tense(admitted[ip][t], c, k) =>
                     2 * admitted[ip][t] <= Budget
              /\ \A c, j, k \in Levels :
                   Calm(admitted[ip][t], c, j, k) =>
                     2 * admitted[ip][t] <= Budget
          <5>1. 0 \in Levels
            BY <2>2 DEF Levels
          <5>2. Future(0) \in Nat
            BY <5>1, FutureFacts
          <5>3. ASSUME NEW c \in Levels, NEW k \in Levels,
                       Tense(admitted[ip][t], c, k)
                PROVE  2 * admitted[ip][t] <= Budget
            BY <2>2, <2>3, <5>2, <5>3 DEF Tense, Levels
          <5>4. ASSUME NEW c \in Levels, NEW j \in Levels, NEW k \in Levels,
                       Calm(admitted[ip][t], c, j, k)
                PROVE  2 * admitted[ip][t] <= Budget
            <6>1. Promise(c, Least(j, k)) \in Nat
              BY PromiseFacts DEF Least
            <6> QED
              BY <2>3, <5>4, <6>1 DEF Calm
          <5> QED
            BY <5>3, <5>4
        <4> QED
          BY <4>2, <4>3, <4>4 DEF Room
      <3> QED
        BY <3>1, <3>2
    <2>5. \A n, b \in Nat : 2 * n <= b => n <= b \div 2
      OBVIOUS
    <2> QED
      BY <2>2, <2>3, <2>4, <2>5 DEF Budget
  <1>2. Init => AdmissionInv
    BY InitAdmissionInv
  <1>3. AdmissionInv /\ [Next]_vars => AdmissionInv'
    BY StepAdmissionInv
  <1> QED
    BY <1>1, <1>2, <1>3, PTL DEF Spec
=============================================================================
