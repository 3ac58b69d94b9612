-------------------------- MODULE RateLimitProofs --------------------------
(***************************************************************************)
(* Proofs about RateLimit, for any number of workers, clients and          *)
(* directives, and any clock.                                              *)
(***************************************************************************)
EXTENDS RateLimit, TLAPS

USE RateLimitAssumption, PoolAssumption

\* Clock readings are natural numbers.
LEMMA TimeType == Time \subseteq Nat /\ 0 \in Time
  BY DEF Time

\* A limit is a natural number.
LEMMA LimitType == \A d \in Directives : Limit(d) \in Nat
  BY DEF Limit, Requests, Burst, DefaultRequests

\* The records that are written are well-typed.
LEMMA RecordTypes ==
  /\ NoRecord \in Records(Time)
  /\ \A t \in Time : FreshRecord(t) \in Records(Time)
  /\ \A t \in Time, r \in Records(Time) : Incremented(r, t) \in Records(Time)
  BY TimeType DEF NoRecord, FreshRecord, Incremented, Records

\* A verdict other than "ok" needs a count over the limit.
LEMMA JudgeType ==
  ASSUME NEW d \in Directives, NEW r \in Records(Time)
  PROVE  /\ Judge(d, r) \in {"ok", "denied", "throttled"}
         /\ Judge(d, r) # "ok" => r.count > Limit(d)
  BY LimitType DEF Judge, Records, Actions

(***************************************************************************)
(* Charging a counter adds one to one cell and leaves the others alone.    *)
(***************************************************************************)
LEMMA ChargeType ==
  ASSUME NEW counter \in Counters, NEW ip \in IPs, NEW f \in Time
  PROVE  /\ Charge(counter, ip, f) \in Counters
         /\ Charge(counter, ip, f)[ip][f] = counter[ip][f] + 1
  BY DEF Charge, Counters

\* The other cells of a charged counter.
LEMMA ChargeOther ==
  ASSUME NEW counter \in Counters, NEW ip \in IPs, NEW f \in Time,
         NEW i \in IPs, NEW t \in Time, i # ip \/ t # f
  PROVE  Charge(counter, ip, f)[i][t] = counter[i][t]
  BY DEF Charge, Counters

(***************************************************************************)
(* The record of a worker's client, when the worker counts.                *)
(***************************************************************************)
Counted(w) == Incremented(shm[client[w]], at[w])

\* What a count does to the table, the worker and the history.
LEMMA CountStep ==
  ASSUME TypeOK, NEW w \in Workers, Count(w), HasRoom(shm, client[w])
  PROVE  /\ Counted(w) \in Records(Time) /\ Counted(w).first \in Time
         /\ shm' = [shm EXCEPT ![client[w]] = Counted(w)]
         /\ out' = [out EXCEPT ![w] = Counted(w)]
         /\ pc' = [pc EXCEPT ![w] = Judge(dir[w], Counted(w))]
         /\ made' = Charge(made, client[w], Counted(w).first)
  <1>1. client[w] \in IPs /\ at[w] \in Time /\ shm[client[w]] \in Records(Time)
    BY DEF TypeOK
  <1>2. Counted(w) \in Records(Time)
    BY <1>1, RecordTypes DEF Counted
  <1>3. shm' = [shm EXCEPT ![client[w]] = Counted(w)]
    BY DEF Count, AtomicIncrement, Counted
  <1>4. shm'[client[w]] = Counted(w)
    BY <1>1, <1>3 DEF TypeOK
  <1> QED
    BY <1>2, <1>3, <1>4 DEF Count, Records

(***************************************************************************)
(* The inductive invariant.  A worker that is about to increment has seen  *)
(* the entry, which is never deleted; a count never runs ahead of its      *)
(* window, in the table or in a worker's result; a window that nobody      *)
(* opened counts nothing, and one that was opened once counts everything.  *)
(***************************************************************************)
EntrySeen == \A w \in Workers : pc[w] = "count" => shm[client[w]].magic

TableBacked == \A ip \in IPs : shm[ip].count <= made[ip][shm[ip].first]

ResultsBacked ==
  \A w \in Workers : out[w].count <= made[client[w]][out[w].first]

RefusalsJudged ==
  \A w \in Workers :
    pc[w] \in {"denied", "throttled"} => out[w].count > Limit(dir[w])

WindowsOpened ==
  /\ \A ip \in IPs, t \in Time : opened[ip][t] = 0 => made[ip][t] = 0
  /\ \A ip \in IPs : shm[ip].magic => opened[ip][shm[ip].first] > 0

CountInv ==
  /\ TypeOK
  /\ EntrySeen
  /\ TableBacked
  /\ ResultsBacked
  /\ RefusalsJudged
  /\ WindowsOpened
  /\ LossOnlyByReopening

\* With an empty table there is nothing to back.
LEMMA InitCountInv == Init => CountInv
  <1> SUFFICES ASSUME Init PROVE CountInv
    OBVIOUS
  <1>1. /\ (CHOOSE ip \in IPs : TRUE) \in IPs
        /\ (CHOOSE d \in Directives : TRUE) \in Directives
    OBVIOUS
  <1>2. NoRecord.count = 0 /\ NoRecord.first = 0 /\ ~ NoRecord.magic
    BY DEF NoRecord
  <1>3. TypeOK
    BY <1>1, TimeType, RecordTypes DEF Init, TypeOK, Ready, Busy, Counters
  <1>4. TableBacked /\ ResultsBacked
    BY <1>2, <1>3, TimeType DEF Init, TableBacked, ResultsBacked, TypeOK
  <1> QED
    BY <1>2, <1>3, <1>4
    DEF Init, CountInv, EntrySeen, RefusalsJudged, WindowsOpened,
        LossOnlyByReopening

(***************************************************************************)
(* Steps that leave the table and the history alone.                       *)
(***************************************************************************)
LEMMA QuietStep ==
  ASSUME CountInv, TypeOK', UNCHANGED <<shm, history>>,
         EntrySeen', ResultsBacked', RefusalsJudged'
  PROVE  CountInv'
  BY DEF CountInv, TableBacked, WindowsOpened, LossOnlyByReopening, history

\* Every step keeps the types.
LEMMA StepTypeOK == CountInv /\ [Next]_vars => TypeOK'
  <1> SUFFICES ASSUME CountInv, [Next]_vars PROVE TypeOK'
    OBVIOUS
  <1>t. TypeOK /\ EntrySeen
    BY DEF CountInv
  <1>1. ASSUME NEW w \in Workers, NEW ip \in IPs, NEW d \in Directives,
               Start(w, ip, d)
        PROVE  TypeOK'
    BY <1>1, <1>t, RecordTypes DEF Start, TypeOK, Ready, Busy, history
  <1>2. ASSUME NEW w \in Workers, Look(w) PROVE TypeOK'
    BY <1>2, <1>t DEF Look, Get, TypeOK, Ready, Busy, history
  <1>3. ASSUME NEW w \in Workers, Open(w) PROVE TypeOK'
    <2>1. client[w] \in IPs /\ at[w] \in Time
      BY <1>t DEF TypeOK
    <2>2. [FreshRecord(at[w]) EXCEPT !.magic = TRUE] \in Records(Time)
      BY <2>1, RecordTypes DEF FreshRecord, Records
    <2>3. shm' \in [IPs -> Records(Time)]
      BY <1>3, <1>t, <2>1, <2>2 DEF Open, Update, TypeOK
    <2>4. made' \in Counters /\ opened' \in Counters /\ admitted' \in Counters
      BY <1>3, <1>t, <2>1, ChargeType DEF Open, ChargeIf, TypeOK, history
    <2> QED
      BY <1>3, <1>t, <2>3, <2>4 DEF Open, TypeOK, Ready, Busy
  <1>4. ASSUME NEW w \in Workers, Count(w) PROVE TypeOK'
    <2>1. client[w] \in IPs /\ HasRoom(shm, client[w])
      BY <1>4, <1>t DEF Count, EntrySeen, HasRoom, TypeOK
    <2>2. /\ Counted(w) \in Records(Time) /\ Counted(w).first \in Time
          /\ shm' = [shm EXCEPT ![client[w]] = Counted(w)]
          /\ out' = [out EXCEPT ![w] = Counted(w)]
          /\ pc' = [pc EXCEPT ![w] = Judge(dir[w], Counted(w))]
          /\ made' = Charge(made, client[w], Counted(w).first)
      BY <1>4, <1>t, <2>1, CountStep
    <2>3. shm'[client[w]] = Counted(w)
      BY <1>t, <2>1, <2>2 DEF TypeOK
    <2>4. made' \in Counters /\ admitted' \in Counters
      BY <1>4, <1>t, <2>1, <2>2, <2>3, ChargeType DEF Count, ChargeIf, TypeOK
    <2>5. pc' \in [Workers -> Ready \cup Busy]
      BY <1>t, <2>2, JudgeType DEF TypeOK, Ready
    <2> QED
      BY <1>4, <1>t, <2>2, <2>4, <2>5 DEF Count, TypeOK
  <1>5. ASSUME Tick PROVE TypeOK'
    BY <1>5, <1>t DEF Tick, TypeOK, Time, worker, history
  <1>6. ASSUME UNCHANGED vars PROVE TypeOK'
    BY <1>6, <1>t DEF vars, worker, history, TypeOK
  <1> QED
    BY <1>1, <1>2, <1>3, <1>4, <1>5, <1>6 DEF Next

\* Every step leaves every count backed by the history of its window.
LEMMA StepCountInv == CountInv /\ [Next]_vars => CountInv'
  <1> SUFFICES ASSUME CountInv, [Next]_vars PROVE CountInv'
    OBVIOUS
  <1>t. TypeOK /\ TypeOK'
    BY StepTypeOK DEF CountInv
  <1>c. made \in Counters /\ opened \in Counters /\ made' \in Counters
    BY <1>t DEF TypeOK
  <1>n. \A ip \in IPs, t \in Time : made[ip][t] \in Nat /\ opened[ip][t] \in Nat
    BY <1>c DEF Counters
  <1>o. \A v \in Workers : /\ out[v].first \in Time /\ out[v].count \in Nat
                           /\ client[v] \in IPs /\ at[v] \in Time
    BY <1>t DEF TypeOK, Records
  <1>s. \A ip \in IPs : shm[ip].first \in Time /\ shm[ip].count \in Nat
    BY <1>t DEF TypeOK, Records
  <1>1. ASSUME NEW w \in Workers, NEW ip \in IPs, NEW d \in Directives,
               Start(w, ip, d)
        PROVE  CountInv'
    <2>1. UNCHANGED <<shm, history>>
      BY <1>1 DEF Start
    <2>2. EntrySeen' /\ RefusalsJudged'
      BY <1>1, <1>t DEF Start, CountInv, EntrySeen, RefusalsJudged, TypeOK
    <2>3. ResultsBacked'
      <3>1. NoRecord.count = 0 /\ NoRecord.first \in Time
        BY TimeType DEF NoRecord
      <3> QED
        BY <1>1, <1>t, <1>n, <3>1
        DEF Start, history, CountInv, ResultsBacked, TypeOK
    <2> QED
      BY <1>t, <2>1, <2>2, <2>3, QuietStep
  <1>2. ASSUME NEW w \in Workers, Look(w) PROVE CountInv'
    <2>1. UNCHANGED <<shm, history>>
      BY <1>2 DEF Look
    <2>2. EntrySeen'
      BY <1>2, <1>t DEF Look, Get, CountInv, EntrySeen, TypeOK
    <2>3. RefusalsJudged' /\ ResultsBacked'
      BY <1>2, <1>t
      DEF Look, history, CountInv, RefusalsJudged, ResultsBacked, TypeOK
    <2> QED
      BY <1>t, <2>1, <2>2, <2>3, QuietStep
  <1>3. ASSUME NEW w \in Workers, Open(w) PROVE CountInv'
    <2>1. CASE ~ HasRoom(shm, client[w])
      <3>1. UNCHANGED <<shm, history>>
        BY <1>3, <2>1 DEF Open
      <3>2. EntrySeen' /\ RefusalsJudged' /\ ResultsBacked'
        BY <1>3, <1>t, <3>1
        DEF Open, history, CountInv, EntrySeen, RefusalsJudged,
            ResultsBacked, TypeOK
      <3> QED
        BY <1>t, <3>1, <3>2, QuietStep
    <2>2. CASE HasRoom(shm, client[w])
      <3> DEFINE ip == client[w]
                 t  == at[w]
      <3>1. ip \in IPs /\ t \in Time
        BY <1>o
      <3>2. /\ shm' = [shm EXCEPT ![ip] = FreshRecord(t)]
            /\ made' = Charge(made, ip, t) /\ opened' = Charge(opened, ip, t)
        <4>1. FreshRecord(t) \in Records(Time) /\ FreshRecord(t).magic
          BY <3>1, RecordTypes DEF FreshRecord
        <4>2. [FreshRecord(t) EXCEPT !.magic = TRUE] = FreshRecord(t)
          BY <4>1 DEF Records
        <4> QED
          BY <1>3, <2>2, <4>2 DEF Open, Update
      <3>3. /\ made'[ip][t] = made[ip][t] + 1
            /\ opened'[ip][t] = opened[ip][t] + 1
            /\ \A i \in IPs, f \in Time :
                 i # ip \/ f # t => /\ made'[i][f] = made[i][f]
                                   /\ opened'[i][f] = opened[i][f]
        <4>1. ASSUME NEW counter \in Counters, NEW i \in IPs, NEW f \in Time,
                     i # ip \/ f # t
              PROVE  Charge(counter, ip, t)[i][f] = counter[i][f]
          BY <3>1, <4>1, ChargeOther
        <4>2. ASSUME NEW counter \in Counters
              PROVE  Charge(counter, ip, t)[ip][t] = counter[ip][t] + 1
          BY <3>1, ChargeType
        <4> QED
          BY <1>c, <3>2, <4>1, <4>2
      <3>4. /\ shm'[ip].magic /\ shm'[ip].count = 1 /\ shm'[ip].first = t
            /\ \A i \in IPs : i # ip => shm'[i] = shm[i]
        BY <1>t, <3>1, <3>2 DEF FreshRecord, TypeOK
      <3>5. EntrySeen'
        BY <1>3, <1>t, <3>4 DEF Open, CountInv, EntrySeen, TypeOK
      <3>6. TableBacked'
        BY <1>n, <1>s, <3>1, <3>3, <3>4 DEF CountInv, TableBacked
      <3>7. ResultsBacked'
        <4>1. \A v \in Workers : out'[v] = out[v] /\ client'[v] = client[v]
          BY <1>3 DEF Open
        <4> QED
          BY <1>n, <1>o, <3>3, <4>1 DEF CountInv, ResultsBacked
      <3>8. RefusalsJudged'
        BY <1>3, <1>t DEF Open, CountInv, RefusalsJudged, TypeOK
      <3>9. WindowsOpened'
        BY <1>n, <1>s, <3>1, <3>3, <3>4 DEF CountInv, WindowsOpened
      <3>10. LossOnlyByReopening'
        <4>1. ASSUME NEW i \in IPs, shm'[i].magic,
                     opened'[i][shm'[i].first] = 1
              PROVE  shm'[i].count = made'[i][shm'[i].first]
          <5>1. CASE i = ip
            <6>1. opened[ip][t] + 1 = 1
              BY <3>3, <3>4, <4>1, <5>1
            <6>2. opened[ip][t] = 0
              BY <1>n, <3>1, <6>1
            <6>3. made[ip][t] = 0
              BY <3>1, <6>2 DEF CountInv, WindowsOpened
            <6> QED
              BY <3>3, <3>4, <5>1, <6>3
          <5>2. CASE i # ip
            BY <1>s, <3>3, <3>4, <4>1, <5>2 DEF CountInv, LossOnlyByReopening
          <5> QED
            BY <5>1, <5>2
        <4> QED
          BY <4>1 DEF LossOnlyByReopening
      <3> QED
        BY <1>t, <3>5, <3>6, <3>7, <3>8, <3>9, <3>10 DEF CountInv
    <2> QED
      BY <2>1, <2>2
  <1>4. ASSUME NEW w \in Workers, Count(w) PROVE CountInv'
    <2> DEFINE ip == client[w]
               f  == shm[ip].first
    <2>1. /\ ip \in IPs /\ shm[ip].magic /\ f \in Time
          /\ HasRoom(shm, ip)
      BY <1>4, <1>o, <1>s DEF Count, CountInv, EntrySeen, HasRoom
    <2>2. /\ shm' = [shm EXCEPT ![ip] = Counted(w)]
          /\ out' = [out EXCEPT ![w] = Counted(w)]
          /\ pc' = [pc EXCEPT ![w] = Judge(dir[w], Counted(w))]
          /\ made' = Charge(made, ip, Counted(w).first)
          /\ Counted(w) \in Records(Time)
      BY <1>4, <1>t, <2>1, CountStep
    <2>3. /\ Counted(w).magic /\ Counted(w).first = f
          /\ Counted(w).count = shm[ip].count + 1
      BY <1>t, <2>1 DEF Counted, Incremented, TypeOK, Records
    <2>4. /\ made'[ip][f] = made[ip][f] + 1
          /\ \A i \in IPs, t \in Time :
               /\ i # ip \/ t # f => made'[i][t] = made[i][t]
               /\ opened'[i][t] = opened[i][t]
      <3>1. made' = Charge(made, ip, f) /\ UNCHANGED opened
        BY <1>4, <2>2, <2>3 DEF Count
      <3>2. ASSUME NEW i \in IPs, NEW t \in Time, i # ip \/ t # f
            PROVE  Charge(made, ip, f)[i][t] = made[i][t]
        BY <1>c, <2>1, <3>2, ChargeOther
      <3>3. Charge(made, ip, f)[ip][f] = made[ip][f] + 1
        BY <1>c, <2>1, ChargeType
      <3> QED
        BY <3>1, <3>2, <3>3
    <2>5. /\ shm'[ip] = Counted(w)
          /\ \A i \in IPs : i # ip => shm'[i] = shm[i]
      BY <1>t, <2>1, <2>2 DEF TypeOK
    <2>6. EntrySeen'
      BY <1>t, <2>2, <2>3, <2>5, JudgeType, <1>4
      DEF CountInv, EntrySeen, TypeOK, Count
    <2>7. TableBacked'
      BY <1>n, <1>s, <2>1, <2>3, <2>4, <2>5 DEF CountInv, TableBacked
    <2>8. ResultsBacked'
      <3>1. ASSUME NEW v \in Workers
            PROVE  out'[v].count <= made'[client'[v]][out'[v].first]
        <4>1. client'[v] = client[v]
          BY <1>4 DEF Count
        <4>2. CASE v = w
          <5>1. out'[v] = Counted(w)
            BY <1>t, <2>2, <4>2 DEF TypeOK
          <5> QED
            BY <1>n, <1>s, <2>1, <2>3, <2>4, <4>1, <4>2, <5>1
            DEF CountInv, TableBacked
        <4>3. CASE v # w
          <5>1. out'[v] = out[v]
            BY <1>t, <2>2, <4>3 DEF TypeOK
          <5> QED
            BY <1>n, <1>o, <2>1, <2>4, <4>1, <5>1 DEF CountInv, ResultsBacked
        <4> QED
          BY <4>2, <4>3
      <3> QED
        BY <3>1 DEF ResultsBacked
    <2>9. RefusalsJudged'
      BY <1>4, <1>t, <2>2, JudgeType
      DEF Count, CountInv, RefusalsJudged, TypeOK
    <2>10. WindowsOpened'
      BY <1>n, <1>s, <2>1, <2>3, <2>4, <2>5 DEF CountInv, WindowsOpened
    <2>11. LossOnlyByReopening'
      BY <1>n, <1>s, <2>1, <2>3, <2>4, <2>5 DEF CountInv, LossOnlyByReopening
    <2> QED
      BY <1>t, <2>6, <2>7, <2>8, <2>9, <2>10, <2>11 DEF CountInv
  <1>5. CASE Tick \/ UNCHANGED vars
    <2>1. UNCHANGED <<shm, pc, client, dir, out, made, opened, admitted>>
      BY <1>5 DEF Tick, vars, worker, history
    <2>2. EntrySeen' /\ RefusalsJudged' /\ ResultsBacked'
      BY <2>1 DEF CountInv, EntrySeen, RefusalsJudged, ResultsBacked
    <2> QED
      BY <1>t, <2>1, <2>2, QuietStep DEF history
  <1> QED
    BY <1>1, <1>2, <1>3, <1>4, <1>5 DEF Next

(***************************************************************************)
(* Nobody is turned away before Limit(d) requests were counted in the      *)
(* window, whatever the workers interleave.                                *)
(***************************************************************************)
THEOREM NeverRefusesEarly == Spec => []NoEarlyRefusal
  <1>1. CountInv => NoEarlyRefusal
    <2> SUFFICES ASSUME CountInv, NEW w \in Workers,
                        pc[w] \in {"denied", "throttled"}
                 PROVE  made[client[w]][out[w].first] > Limit(dir[w])
      BY DEF NoEarlyRefusal
    <2>1. /\ out[w].count > Limit(dir[w])
          /\ out[w].count <= made[client[w]][out[w].first]
      BY DEF CountInv, RefusalsJudged, ResultsBacked
    <2>2. /\ out[w].count \in Nat /\ Limit(dir[w]) \in Nat
          /\ made[client[w]][out[w].first] \in Nat
      BY LimitType DEF CountInv, TypeOK, Records, Counters
    <2> QED
      BY <2>1, <2>2
  <1> QED
    BY <1>1, InitCountInv, StepCountInv, PTL DEF Spec

(***************************************************************************)
(* The shared count is exact in every window that was opened once.         *)
(***************************************************************************)
THEOREM LosesOnlyByReopening == Spec => []LossOnlyByReopening
  <1>1. CountInv => LossOnlyByReopening
    BY DEF CountInv
  <1> QED
    BY <1>1, InitCountInv, StepCountInv, PTL DEF Spec

(***************************************************************************)
(* The types hold, and the increment always finds its entry.               *)
(***************************************************************************)
THEOREM TypeCorrect == Spec => []TypeOK
  <1>1. CountInv => TypeOK
    BY DEF CountInv
  <1> QED
    BY <1>1, InitCountInv, StepCountInv, PTL DEF Spec

(***************************************************************************)
(* The admission bound.  For the window that is open the bound has to say  *)
(* more than Within: what was let through since the last opening is at     *)
(* most the count.  Then the next one let through, as number count + 1,    *)
(* fits under the limit, and the next opening adds a whole limit.          *)
(***************************************************************************)
OpenWithin(limit) ==
  \A ip \in IPs :
    shm[ip].magic =>
      admitted[ip][shm[ip].first] + limit
        <= opened[ip][shm[ip].first] * limit + shm[ip].count

AdmitInv(limit) == Within(limit) /\ OpenWithin(limit)

\* One opening more.
LEMMA OneMore == \A n, limit \in Nat : (n + 1) * limit = n * limit + limit
  OBVIOUS

\* A limit that covers an enforced directive is not below one.
LEMMA CoverIsPositive ==
  ASSUME NEW limit \in Nat, Covers(limit), NEW d \in Directives, Enforced(d)
  PROVE  limit >= 1 /\ Limit(d) <= limit
  BY LimitType DEF Covers, Limit, Requests, Burst, DefaultRequests

\* A request under an enforced directive gets through only up to the limit.
LEMMA JudgeAdmits ==
  ASSUME NEW d \in Directives, NEW r \in Records(Time),
         Judge(d, r) = "ok", Enforced(d)
  PROVE  r.count <= Limit(d)
  BY LimitType DEF Judge, Records, Actions, Enforced

\* Nothing is admitted before the first request.
LEMMA InitAdmit == \A limit \in Nat : Init => AdmitInv(limit)
  <1> SUFFICES ASSUME NEW limit \in Nat, Init PROVE AdmitInv(limit)
    OBVIOUS
  <1>1. ~ NoRecord.magic
    BY DEF NoRecord
  <1>2. 0 <= 0 * limit
    OBVIOUS
  <1> QED
    BY <1>1, <1>2 DEF Init, AdmitInv, Within, OpenWithin

\* Every step keeps the admissions within any limit that covers the directives.
LEMMA StepAdmit ==
  ASSUME NEW limit \in Nat, Covers(limit),
         CountInv, CountInv', AdmitInv(limit), [Next]_vars
  PROVE  AdmitInv(limit)'
  <1>t. TypeOK /\ TypeOK' /\ EntrySeen
    BY DEF CountInv
  <1>c. /\ opened \in Counters /\ admitted \in Counters
        /\ opened' \in Counters /\ admitted' \in Counters
    BY <1>t DEF TypeOK
  <1>n. \A ip \in IPs, t \in Time :
          /\ opened[ip][t] \in Nat /\ admitted[ip][t] \in Nat
          /\ opened'[ip][t] \in Nat /\ admitted'[ip][t] \in Nat
    BY <1>c DEF Counters
  <1>p. \A ip \in IPs, t \in Time : opened[ip][t] * limit \in Nat
    BY <1>n
  <1>s. \A ip \in IPs : shm[ip].first \in Time /\ shm[ip].count \in Nat
    BY <1>t DEF TypeOK, Records
  <1>a. Within(limit) /\ OpenWithin(limit)
    BY DEF AdmitInv
  <1>0. ASSUME UNCHANGED <<shm, opened, admitted>> PROVE AdmitInv(limit)'
    BY <1>0, <1>a DEF AdmitInv, Within, OpenWithin
  <1>1. ASSUME NEW w \in Workers, NEW i \in IPs, NEW d \in Directives,
               Start(w, i, d) \/ Look(w)
        PROVE  AdmitInv(limit)'
    BY <1>0, <1>1 DEF Start, Look, history
  <1>2. ASSUME NEW w \in Workers, Open(w) PROVE AdmitInv(limit)'
    <2>1. CASE ~ HasRoom(shm, client[w])
      BY <1>0, <1>2, <2>1 DEF Open, history
    <2>2. CASE HasRoom(shm, client[w])
      <3> DEFINE ip == client[w]
                 t  == at[w]
                 e  == Enforced(dir[w])
      <3>1. ip \in IPs /\ t \in Time /\ dir[w] \in Directives
        BY <1>t DEF TypeOK
      <3>2. /\ opened' = Charge(opened, ip, t)
            /\ admitted' = ChargeIf(e, admitted, ip, t)
        BY <1>2, <2>2 DEF Open
      <3>3. /\ shm'[ip].magic /\ shm'[ip].count = 1 /\ shm'[ip].first = t
            /\ \A i \in IPs : i # ip => shm'[i] = shm[i]
        BY <1>2, <1>t, <2>2, <3>1 DEF Open, Update, FreshRecord, TypeOK
      <3>4. /\ opened'[ip][t] = opened[ip][t] + 1
            /\ admitted'[ip][t] = admitted[ip][t] + 1 \/ admitted' = admitted
            /\ e \/ admitted' = admitted
        BY <1>c, <3>1, <3>2, ChargeType DEF ChargeIf
      <3>5. \A i \in IPs, f \in Time :
              i # ip \/ f # t => /\ opened'[i][f] = opened[i][f]
                                /\ admitted'[i][f] = admitted[i][f]
        <4>1. ASSUME NEW counter \in Counters, NEW i \in IPs, NEW f \in Time,
                     i # ip \/ f # t
              PROVE  Charge(counter, ip, t)[i][f] = counter[i][f]
          BY <3>1, <4>1, ChargeOther
        <4> QED
          BY <1>c, <3>2, <4>1 DEF ChargeIf
      <3>6. opened'[ip][t] * limit = opened[ip][t] * limit + limit
        BY <1>n, <3>1, <3>4, OneMore
      <3>7. /\ admitted[ip][t] <= opened[ip][t] * limit
            /\ e => limit >= 1
        BY <1>a, <3>1, CoverIsPositive DEF Within
      <3>8. /\ admitted'[ip][t] <= opened'[ip][t] * limit
            /\ admitted'[ip][t] + limit <= opened'[ip][t] * limit + 1
        <4> DEFINE o == opened[ip][t] * limit
        <4>1. o \in Nat /\ admitted[ip][t] \in Nat /\ admitted'[ip][t] \in Nat
          BY <1>n, <1>p, <3>1
        <4>2. \/ admitted'[ip][t] = admitted[ip][t]
              \/ admitted'[ip][t] = admitted[ip][t] + 1 /\ limit >= 1
          BY <3>4, <3>7
        <4> QED
          BY <3>6, <3>7, <4>1, <4>2
      <3>9. Within(limit)'
        <4>1. ASSUME NEW i \in IPs, NEW f \in Time
              PROVE  admitted'[i][f] <= opened'[i][f] * limit
          <5>1. CASE i = ip /\ f = t
            BY <3>8, <5>1
          <5>2. CASE i # ip \/ f # t
            BY <1>a, <3>5, <5>2 DEF Within
          <5> QED
            BY <5>1, <5>2
        <4> QED
          BY <4>1 DEF Within
      <3>10. OpenWithin(limit)'
        <4>1. ASSUME NEW i \in IPs, shm'[i].magic
              PROVE  admitted'[i][shm'[i].first] + limit
                       <= opened'[i][shm'[i].first] * limit + shm'[i].count
          <5>1. CASE i = ip
            BY <3>3, <3>8, <5>1
          <5>2. CASE i # ip
            BY <1>a, <1>s, <3>3, <3>5, <4>1, <5>2 DEF OpenWithin
          <5> QED
            BY <5>1, <5>2
        <4> QED
          BY <4>1 DEF OpenWithin
      <3> QED
        BY <3>9, <3>10 DEF AdmitInv
    <2> QED
      BY <2>1, <2>2
  <1>3. ASSUME NEW w \in Workers, Count(w) PROVE AdmitInv(limit)'
    <2> DEFINE ip == client[w]
               f  == shm[ip].first
               ok == Judge(dir[w], Counted(w)) = "ok" /\ Enforced(dir[w])
    <2>1. /\ ip \in IPs /\ shm[ip].magic /\ f \in Time /\ HasRoom(shm, ip)
          /\ dir[w] \in Directives
      BY <1>3, <1>t, <1>s DEF Count, EntrySeen, HasRoom, TypeOK
    <2>2. /\ Counted(w) \in Records(Time)
          /\ shm' = [shm EXCEPT ![ip] = Counted(w)]
      BY <1>3, <1>t, <2>1, CountStep
    <2>3. /\ Counted(w).first = f /\ Counted(w).count = shm[ip].count + 1
      BY <1>t, <2>1 DEF Counted, Incremented, TypeOK, Records
    <2>4. /\ shm'[ip] = Counted(w)
          /\ \A i \in IPs : i # ip => shm'[i] = shm[i]
      BY <1>t, <2>1, <2>2 DEF TypeOK
    <2>5. UNCHANGED opened /\ admitted' = ChargeIf(ok, admitted, ip, f)
      BY <1>3, <2>3, <2>4 DEF Count
    <2>6. /\ ok => admitted'[ip][f] = admitted[ip][f] + 1
          /\ ~ ok => admitted' = admitted
          /\ \A i \in IPs, t \in Time :
               i # ip \/ t # f => admitted'[i][t] = admitted[i][t]
      <3>1. ASSUME NEW i \in IPs, NEW t \in Time, i # ip \/ t # f
            PROVE  Charge(admitted, ip, f)[i][t] = admitted[i][t]
        BY <1>c, <2>1, <3>1, ChargeOther
      <3>2. Charge(admitted, ip, f)[ip][f] = admitted[ip][f] + 1
        BY <1>c, <2>1, ChargeType
      <3> QED
        BY <2>5, <3>1, <3>2 DEF ChargeIf
    <2>7. ok => shm[ip].count + 1 <= limit
      <3>1. ok => /\ Counted(w).count <= Limit(dir[w])
                  /\ Limit(dir[w]) <= limit
        BY <2>1, <2>2, JudgeAdmits, CoverIsPositive
      <3>2. Limit(dir[w]) \in Nat /\ shm[ip].count \in Nat
        BY <1>s, <2>1, LimitType
      <3> QED
        BY <2>3, <3>1, <3>2
    <2>8. /\ admitted[ip][f] <= opened[ip][f] * limit
          /\ admitted[ip][f] + limit <= opened[ip][f] * limit + shm[ip].count
      BY <1>a, <2>1 DEF Within, OpenWithin
    <2>9. /\ admitted'[ip][f] <= opened[ip][f] * limit
          /\ admitted'[ip][f] + limit
               <= opened[ip][f] * limit + (shm[ip].count + 1)
      <3>1. /\ opened[ip][f] * limit \in Nat /\ shm[ip].count \in Nat
            /\ admitted[ip][f] \in Nat /\ admitted'[ip][f] \in Nat
        BY <1>n, <1>p, <1>s, <2>1
      <3>2. CASE ok
        BY <2>6, <2>7, <2>8, <3>1, <3>2
      <3>3. CASE ~ ok
        BY <2>6, <2>8, <3>1, <3>3
      <3> QED
        BY <3>2, <3>3
    <2>10. Within(limit)'
      <3>1. ASSUME NEW i \in IPs, NEW t \in Time
            PROVE  admitted'[i][t] <= opened'[i][t] * limit
        <4>1. CASE i = ip /\ t = f
          BY <2>5, <2>9, <4>1
        <4>2. CASE i # ip \/ t # f
          BY <1>a, <2>5, <2>6, <4>2 DEF Within
        <4> QED
          BY <4>1, <4>2
      <3> QED
        BY <3>1 DEF Within
    <2>11. OpenWithin(limit)'
      <3>1. ASSUME NEW i \in IPs, shm'[i].magic
            PROVE  admitted'[i][shm'[i].first] + limit
                     <= opened'[i][shm'[i].first] * limit + shm'[i].count
        <4>1. CASE i = ip
          BY <2>3, <2>4, <2>5, <2>9, <4>1
        <4>2. CASE i # ip
          BY <1>a, <1>s, <2>4, <2>5, <2>6, <3>1, <4>2 DEF OpenWithin
        <4> QED
          BY <4>1, <4>2
      <3> QED
        BY <3>1 DEF OpenWithin
    <2> QED
      BY <2>10, <2>11 DEF AdmitInv
  <1>4. CASE Tick \/ UNCHANGED vars
    BY <1>0, <1>4 DEF Tick, vars, worker, history
  <1> QED
    BY <1>1, <1>2, <1>3, <1>4 DEF Next

(***************************************************************************)
(* However the workers mix, the requests let through in a window are at    *)
(* most the largest limit for each time it was opened.                     *)
(***************************************************************************)
AdmitBounded ==
  \A d \in Directives : Covers(Limit(d)) => AdmitInv(Limit(d))

THEOREM AdmitsWithinLimit == Spec => []AdmittedPerOpening
  <1>1. Init => CountInv /\ AdmitBounded
    BY InitCountInv, InitAdmit, LimitType DEF AdmitBounded
  <1>2. CountInv /\ AdmitBounded /\ [Next]_vars => (CountInv /\ AdmitBounded)'
    <2> SUFFICES ASSUME CountInv, AdmitBounded, [Next]_vars
                 PROVE  CountInv' /\ AdmitBounded'
      OBVIOUS
    <2>1. CountInv'
      BY StepCountInv
    <2>2. ASSUME NEW d \in Directives, Covers(Limit(d))
          PROVE  AdmitInv(Limit(d))'
      <3>1. Limit(d) \in Nat /\ AdmitInv(Limit(d))
        BY <2>2, LimitType DEF AdmitBounded
      <3> QED
        BY <2>1, <2>2, <3>1, StepAdmit
    <2> QED
      BY <2>1, <2>2 DEF AdmitBounded, Covers
  <1>3. AdmitBounded => AdmittedPerOpening
    BY DEF AdmitBounded, AdmittedPerOpening, AdmitInv
  <1> QED
    BY <1>1, <1>2, <1>3, PTL DEF Spec
=============================================================================
