------------------------------ MODULE RateLimit ------------------------------
(***************************************************************************)
(* Per-client rate limiting: exec_ratelimit() of                           *)
(* src/htaccess_exec_ratelimit.c, run by every worker against the shared   *)
(* table (NativeShm; its keys are "r:<ip>", apart from the "b:<ip>" ones   *)
(* of BruteForce).                                                         *)
(*                                                                         *)
(* A call reads the clock and gets the record (Look), and then either      *)
(* opens a window with a plain update (Open) or bumps the record with the  *)
(* atomic increment and judges the result (Count).  The increment is one   *)
(* critical section; the decision which of the two to do is older.         *)
(*                                                                         *)
(* made, opened and admitted are history variables: for each client and    *)
(* window, the requests counted in it, how often it was opened, and the    *)
(* requests that a directive with a limit let through.  What a refusal     *)
(* says (status, Retry-After) is left out.                                 *)
(***************************************************************************)
EXTENDS NativeShm

CONSTANTS
  Workers,      \* Worker processes of the server.
  IPs,          \* Client addresses.
  Directives,   \* The RateLimit directives in use, as written.
  MaxTime,      \* Bound on the clock, in seconds.
  MaxRequests   \* Bound on the number of requests.

Time == 0 .. MaxTime

Actions == {"deny", "throttle", "log"}

(***************************************************************************)
(* "N/M burst=B action=A": the numbers as atoi reads them, 0 for a number  *)
(* that is absent or no number.                                            *)
(***************************************************************************)
ASSUME RateLimitAssumption ==
  /\ \A d \in Directives :
       /\ d.requests \in Nat
       /\ d.window \in Nat
       /\ d.burst \in Nat
       /\ d.action \in Actions
  /\ Directives # {}
  /\ IPs # {}
  /\ MaxTime \in Nat
  /\ MaxRequests \in Nat

DefaultRequests == 100
DefaultWindow   == 60

(***************************************************************************)
(* ratelimit_parse: what the executor makes of a directive.                *)
(***************************************************************************)
Requests(d) == IF d.requests = 0 THEN DefaultRequests ELSE d.requests
Window(d)   == IF d.window = 0 THEN DefaultWindow ELSE d.window
Burst(d)    == IF d.burst = 0 THEN Requests(d) ELSE d.burst
Limit(d)    == Requests(d) + Burst(d)

VARIABLES
  now,        \* time(NULL)
  shm,        \* The shared table, IPs -> record.
  pc,         \* Where each worker is in exec_ratelimit.
  client,     \* The client each worker serves or served last.
  dir,        \* The directive it applies.
  at,         \* The clock as that call read it.
  rec,        \* g_shm_get_buf: the worker's copy of the record.
  out,        \* The record as the atomic increment returned it.
  served,     \* Number of requests so far.
  made,       \* History: requests counted per client and window.
  opened,     \* History: openings per client and window.
  admitted    \* History: limited requests let through, per client and window.

worker  == <<pc, client, dir, at, rec, out>>
history == <<made, opened, admitted>>
vars    == <<now, shm, worker, served, history>>

Ready == {"idle", "ok", "denied", "throttled"}
Busy  == {"look", "open", "count"}

Expired(d, t, record) == t - record.first > Window(d)

Charge(counter, ip, first) == [counter EXCEPT ![ip][first] = @ + 1]
ChargeIf(b, counter, ip, first) ==
  IF b THEN Charge(counter, ip, first) ELSE counter

\* "log" lets everybody through.
Enforced(d) == d.action # "log"

\* Mutant of Judge: the last request allowed is refused.
JudgeStrict(d, record) ==
  CASE record.count < Limit(d) \/ d.action = "log" -> "ok"
    [] record.count >= Limit(d) /\ d.action = "deny" -> "denied"
    [] record.count >= Limit(d) /\ d.action = "throttle" -> "throttled"

(***************************************************************************)
(* The answer to a request that was counted as number record.count.        *)
(***************************************************************************)
Judge(d, record) ==
  CASE record.count <= Limit(d) \/ d.action = "log" -> "ok"
    [] record.count > Limit(d) /\ d.action = "deny" -> "denied"
    [] record.count > Limit(d) /\ d.action = "throttle" -> "throttled"

----------------------------------------------------------------------------
Init ==
  /\ now = 0
  /\ shm = [ip \in IPs |-> NoRecord]
  /\ pc = [w \in Workers |-> "idle"]
  /\ client \in [Workers -> {CHOOSE ip \in IPs : TRUE}]
  /\ dir \in [Workers -> {CHOOSE d \in Directives : TRUE}]
  /\ at = [w \in Workers |-> 0]
  /\ rec = [w \in Workers |-> NoRecord]
  /\ out = rec
  /\ served = 0
  /\ made = [ip \in IPs |-> [t \in Time |-> 0]]
  /\ opened = made
  /\ admitted = made

(***************************************************************************)
(* A request reaches the hook; the clock is read.                          *)
(***************************************************************************)
Start(w, ip, d) ==
  /\ pc[w] \in Ready
  /\ served < MaxRequests
  /\ served' = served + 1
  /\ pc' = [pc EXCEPT ![w] = "look"]
  /\ client' = [client EXCEPT ![w] = ip]
  /\ dir' = [dir EXCEPT ![w] = d]
  /\ at' = [at EXCEPT ![w] = now]
  /\ rec' = [rec EXCEPT ![w] = NoRecord]
  /\ out' = [out EXCEPT ![w] = NoRecord]
  /\ UNCHANGED <<now, shm, history>>

(***************************************************************************)
(* shm_get_record, and the test of the window.                             *)
(***************************************************************************)
Look(w) ==
  /\ pc[w] = "look"
  /\ LET record == Get(shm, client[w]) IN
       /\ rec' = [rec EXCEPT ![w] = record]
       /\ pc' = [pc EXCEPT ![w] =
                   IF record.magic /\ ~ Expired(dir[w], at[w], record)
                     THEN "count" ELSE "open"]
  /\ UNCHANGED <<now, shm, client, dir, at, out, served, history>>

(***************************************************************************)
(* shm_update_record with a count of one: the first request of a client,   *)
(* or the first after its window.  A failure (the pool is full) is         *)
(* ignored; either way the request is served.                              *)
(***************************************************************************)
Open(w) ==
  /\ pc[w] = "open"
  /\ IF HasRoom(shm, client[w])
       THEN /\ shm' = Update(shm, client[w], FreshRecord(at[w]))
            /\ made' = Charge(made, client[w], at[w])
            /\ opened' = Charge(opened, client[w], at[w])
            /\ admitted' = ChargeIf(Enforced(dir[w]), admitted, client[w], at[w])
       ELSE UNCHANGED <<shm, history>>
  /\ pc' = [pc EXCEPT ![w] = "ok"]
  /\ UNCHANGED <<now, client, dir, at, rec, out, served>>

\* Mutant of Count: the worker writes back its copy of the record, plus one.
CountFromCopy(w) ==
  /\ pc[w] = "count"
  /\ shm' = Update(shm, client[w], Incremented(rec[w], at[w]))
  /\ LET record  == shm'[client[w]]
         verdict == Judge(dir[w], record)
     IN  /\ out' = [out EXCEPT ![w] = record]
         /\ pc' = [pc EXCEPT ![w] = verdict]
         /\ made' = Charge(made, client[w], record.first)
         /\ admitted' = ChargeIf(verdict = "ok" /\ Enforced(dir[w]),
                                 admitted, client[w], record.first)
  /\ UNCHANGED <<now, client, dir, at, rec, served, opened>>

(***************************************************************************)
(* shm_atomic_increment and the verdict.  The entry was seen, and entries  *)
(* are never deleted, so the increment finds it.                           *)
(***************************************************************************)
Count(w) ==
  /\ pc[w] = "count"
  /\ shm' = AtomicIncrement(shm, client[w], at[w])
  /\ LET record  == shm'[client[w]]
         verdict == Judge(dir[w], record)
     IN  /\ out' = [out EXCEPT ![w] = record]
         /\ pc' = [pc EXCEPT ![w] = verdict]
         /\ made' = Charge(made, client[w], record.first)
         /\ admitted' = ChargeIf(verdict = "ok" /\ Enforced(dir[w]),
                                 admitted, client[w], record.first)
  /\ UNCHANGED <<now, client, dir, at, rec, served, opened>>

Tick ==
  /\ now < MaxTime
  /\ now' = now + 1
  /\ UNCHANGED <<shm, worker, served, history>>

Next ==
  \/ \E w \in Workers, ip \in IPs, d \in Directives : Start(w, ip, d)
  \/ \E w \in Workers : Look(w) \/ Open(w) \/ Count(w)
  \/ Tick

Spec == Init /\ [][Next]_vars
----------------------------------------------------------------------------
(***************************************************************************)
(* Type invariant.                                                         *)
(***************************************************************************)
Counters == [IPs -> [Time -> Nat]]

TypeOK ==
  /\ now \in Time
  /\ shm \in [IPs -> Records(Time)]
  /\ pc \in [Workers -> Ready \cup Busy]
  /\ client \in [Workers -> IPs]
  /\ dir \in [Workers -> Directives]
  /\ at \in [Workers -> Time]
  /\ rec \in [Workers -> Records(Time)]
  /\ out \in [Workers -> Records(Time)]
  /\ served \in Nat
  /\ made \in Counters
  /\ opened \in Counters
  /\ admitted \in Counters

(***************************************************************************)
(* A client is turned away only after more requests than the directive     *)
(* allows, all of them counted in the window it is turned away in.         *)
(***************************************************************************)
NoEarlyRefusal ==
  \A w \in Workers :
    pc[w] \in {"denied", "throttled"} =>
      made[client[w]][out[w].first] > Limit(dir[w])

(***************************************************************************)
(* The atomic increment loses nothing: a count falls behind the requests   *)
(* of its window only if two workers both opened that window.              *)
(***************************************************************************)
LossOnlyByReopening ==
  \A ip \in IPs :
    LET first == shm[ip].first IN
    shm[ip].magic /\ opened[ip][first] = 1 => shm[ip].count = made[ip][first]

(***************************************************************************)
(* Each time a window is opened, no more requests get through than the     *)
(* most generous limit allows, however the workers' resets and increments  *)
(* mix: twice the traffic needs two workers that both open the window.     *)
(* (A client for whom the table has no room has no window.)                *)
(***************************************************************************)
Covers(limit) == \A d \in Directives : Enforced(d) => Limit(d) <= limit

Within(limit) ==
  \A ip \in IPs, t \in Time : admitted[ip][t] <= opened[ip][t] * limit

AdmittedPerOpening ==
  \A d \in Directives : Covers(Limit(d)) => Within(Limit(d))
=============================================================================
