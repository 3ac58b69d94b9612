----------------------------- MODULE BruteForce -----------------------------
(***************************************************************************)
(* Brute-force protection: exec_brute_force() of                           *)
(* src/htaccess_exec_brute_force.c, run by every worker process of the     *)
(* server against the counters they share (NativeShm).                     *)
(*                                                                         *)
(* One call of exec_brute_force is several steps here, because it takes    *)
(* the hash lock twice: Start reads the clock, Lookup copies the record    *)
(* out under the lock, Write puts a changed copy back under the lock, and  *)
(* Notify talks to the firewall daemon.  Between any two of them the other *)
(* workers run.                                                            *)
(*                                                                         *)
(* made, admitted and sends are history variables.  They count, for each   *)
(* client and each window (a window is named by its first attempt), the    *)
(* updates that were written, those among them whose request was let       *)
(* through, and the block commands sent to the daemon.                     *)
(***************************************************************************)
EXTENDS NativeShm

CONSTANTS
  Workers,      \* Worker processes of the server.
  IPs,          \* Client addresses; the key of a client is "b:<ip>".
  Requests,     \* The requests a client may make, each with its policy.
  NoHeader,     \* A request without a usable X-Forwarded-For token.
  MaxTime,      \* Bound on the clock, in seconds.
  MaxRequests,  \* Bound on the number of calls of exec_brute_force.
  MaxRestarts   \* Bound on the number of worker restarts.

Time == 0 .. MaxTime

Actions == {"block", "throttle", "log"}

(***************************************************************************)
(* A policy is what the scan of the directives leaves in the locals of     *)
(* exec_brute_force; a list of directives is a set here, and {} stands for *)
(* a directive that is absent.                                             *)
(***************************************************************************)
Policy(p) ==
  /\ p.enabled \in BOOLEAN
  /\ p.allowed \in Nat \ {0}
  /\ p.window \in Nat \ {0}
  /\ p.action \in Actions
  /\ p.xff \in BOOLEAN
  /\ p.proxies \subseteq IPs
  /\ p.whitelist \subseteq IPs

Request(r) ==
  /\ r.peer \in IPs
  /\ r.xff \in IPs \cup {NoHeader}
  /\ r.post \in BOOLEAN
  /\ Policy(r.policy)

ASSUME BruteForceAssumption ==
  /\ \A r \in Requests : Request(r)
  /\ Requests # {}
  /\ NoHeader \notin IPs
  /\ MaxTime \in Nat
  /\ MaxRequests \in Nat
  /\ MaxRestarts \in Nat

VARIABLES
  now,        \* time(NULL)
  shm,        \* The shared table, IPs -> record.
  pc,         \* Where each worker is in exec_brute_force.
  req,        \* The request each worker serves or served last.
  at,         \* The clock as that call of exec_brute_force read it.
  buf,        \* g_shm_get_buf: the worker's copy of the record.
  served,     \* Number of calls so far.
  restarts,   \* Number of restarts so far.
  made,       \* History: updates written per client and window.
  admitted,   \* History: updates whose POST was let through.
  sends       \* History: block commands sent per client and window.

worker  == <<pc, req, at, buf>>
history == <<made, admitted, sends>>
vars    == <<now, shm, worker, served, restarts, history>>

(***************************************************************************)
(* A worker that is Ready has answered its last request, if any: "ok" is   *)
(* LSI_OK, "denied" is LSI_ERROR after a 403 or a 429.                     *)
(***************************************************************************)
Ready == {"idle", "ok", "denied"}
Busy  == {"lookup", "write", "notify", "asleep"}

(***************************************************************************)
(* Who the request is charged to: X-Forwarded-For counts only when it is   *)
(* turned on and the direct peer is a trusted proxy.                       *)
(***************************************************************************)
EffectiveIP(r) ==
  IF r.policy.xff /\ r.peer \in r.policy.proxies /\ r.xff # NoHeader
    THEN r.xff
    ELSE r.peer

IsProtectedPath(r) == r.policy.paths = {} \/ r.path \in r.policy.paths

Guarded(r) ==
  /\ r.policy.enabled
  /\ EffectiveIP(r) \notin r.policy.whitelist
  /\ IsProtectedPath(r)

Key(w) == EffectiveIP(req[w])

\* Mutant of InWindow: the window ends one second early.
InWindowShort(r, t, record) ==
  record.magic /\ t - record.first < r.policy.window - 1

(***************************************************************************)
(* What the code decides for request r at time t from its copy of the      *)
(* record.  t - record.first may be negative: another worker may have      *)
(* written the record after this one read the clock.                       *)
(***************************************************************************)
InWindow(r, t, record) == record.magic /\ t - record.first < r.policy.window

\* Mutant of Over: one attempt too early.
OverEarly(r, t, record) ==
  InWindow(r, t, record) /\ record.count >= r.policy.allowed - 1

Over(r, t, record) ==
  InWindow(r, t, record) /\ record.count >= r.policy.allowed

Counts(r, t, record) == Over(r, t, record) \/ r.post

\* Mutants of NewRecord: the attempt is not counted; the window is dated back.
NewRecordUncounted(r, t, record) ==
  IF InWindow(r, t, record) THEN record ELSE FreshRecord(t)

NewRecordBackdated(r, t, record) ==
  IF InWindow(r, t, record)
    THEN [record EXCEPT !.count = @ + 1]
    ELSE FreshRecord(t - r.policy.window)

NewRecord(r, t, record) ==
  IF InWindow(r, t, record)
    THEN [record EXCEPT !.count = @ + 1]
    ELSE FreshRecord(t)

\* Mutants of AfterWrite: the daemon is told one request late, or every time.
Refusal(r, next) ==
  CASE r.policy.action = "log"      -> "ok"
    [] r.policy.action = "throttle" -> "asleep"
    [] r.policy.action = "block"    -> next

AfterWriteLate(r, t, record) ==
  CASE ~ Over(r, t, record)                -> "ok"
    [] record.count = r.policy.allowed + 1 -> Refusal(r, "notify")
    [] OTHER                               -> Refusal(r, "denied")

AfterWriteAlways(r, t, record) ==
  IF Over(r, t, record) THEN Refusal(r, "notify") ELSE "ok"

(***************************************************************************)
(* Where the call goes once its update is done.  Only the request that     *)
(* reads exactly the threshold goes to the daemon.                         *)
(***************************************************************************)
AfterWrite(r, t, record) ==
  CASE ~ Over(r, t, record)              -> "ok"
    [] OTHER ->
       CASE r.policy.action = "log"      -> "ok"
         [] r.policy.action = "throttle" -> "asleep"
         [] r.policy.action = "block"    ->
              IF record.count = r.policy.allowed THEN "notify" ELSE "denied"

Charge(counter, ip, first) == [counter EXCEPT ![ip][first] = @ + 1]

----------------------------------------------------------------------------
Init ==
  /\ now = 0
  /\ shm = [ip \in IPs |-> NoRecord]
  /\ pc = [w \in Workers |-> "idle"]
  /\ req \in [Workers -> {CHOOSE r \in Requests : TRUE}]
  /\ at = [w \in Workers |-> 0]
  /\ buf = [w \in Workers |-> NoRecord]
  /\ served = 0
  /\ restarts = 0
  /\ made = [ip \in IPs |-> [t \in Time |-> 0]]
  /\ admitted = made
  /\ sends = made

(***************************************************************************)
(* A request reaches the hook.  Unguarded ones return at once; the others  *)
(* read the clock and go on to the table.                                  *)
(***************************************************************************)
Start(w, r) ==
  /\ pc[w] \in Ready
  /\ served < MaxRequests
  /\ served' = served + 1
  /\ req' = [req EXCEPT ![w] = r]
  /\ at' = [at EXCEPT ![w] = now]
  /\ buf' = [buf EXCEPT ![w] = NoRecord]
  /\ pc' = [pc EXCEPT ![w] = IF Guarded(r) THEN "lookup" ELSE "ok"]
  /\ UNCHANGED <<now, shm, restarts, history>>

(***************************************************************************)
(* shm_get_record.                                                         *)
(***************************************************************************)
Lookup(w) ==
  /\ pc[w] = "lookup"
  /\ LET record == Get(shm, Key(w)) IN
       /\ buf' = [buf EXCEPT ![w] = record]
       /\ pc' = [pc EXCEPT ![w] =
                   IF Counts(req[w], at[w], record) THEN "write" ELSE "ok"]
  /\ UNCHANGED <<now, shm, req, at, served, restarts, history>>

(***************************************************************************)
(* shm_update_record.  Its failure is possible only when the record has to *)
(* be created and the pool is full; the request is then let through.       *)
(***************************************************************************)
Write(w) ==
  /\ pc[w] = "write"
  /\ HasRoom(shm, Key(w))
  /\ LET new == NewRecord(req[w], at[w], buf[w]) IN
       /\ shm' = Update(shm, Key(w), new)
       /\ made' = Charge(made, Key(w), new.first)
       /\ admitted' = IF Over(req[w], at[w], buf[w])
                        THEN admitted
                        ELSE Charge(admitted, Key(w), new.first)
  /\ pc' = [pc EXCEPT ![w] = AfterWrite(req[w], at[w], buf[w])]
  /\ UNCHANGED <<now, req, at, buf, served, restarts, sends>>

FailOpen(w) ==
  /\ pc[w] = "write"
  /\ ~ HasRoom(shm, Key(w))
  /\ pc' = [pc EXCEPT ![w] = "ok"]
  /\ UNCHANGED <<now, shm, req, at, buf, served, restarts, history>>

(***************************************************************************)
(* fw_client_block, bounded by its 100 ms timeouts.  Its result only       *)
(* decides whether a line is logged; the 403 follows either way.           *)
(***************************************************************************)
Notify(w) ==
  /\ pc[w] = "notify"
  /\ sends' = Charge(sends, Key(w), buf[w].first)
  /\ pc' = [pc EXCEPT ![w] = "denied"]
  /\ UNCHANGED <<now, shm, req, at, buf, served, restarts, made, admitted>>

(***************************************************************************)
(* The throttle action sleeps in the worker, at most 30 s, then answers    *)
(* 429; the length of the sleep is abstracted to any number of ticks.      *)
(***************************************************************************)
Wake(w) ==
  /\ pc[w] = "asleep"
  /\ pc' = [pc EXCEPT ![w] = "denied"]
  /\ UNCHANGED <<now, shm, req, at, buf, served, restarts, history>>

(***************************************************************************)
(* A worker dies and is started again; the table outlives it.              *)
(***************************************************************************)
Restart(w) ==
  /\ pc[w] \in Busy
  /\ restarts < MaxRestarts
  /\ restarts' = restarts + 1
  /\ pc' = [pc EXCEPT ![w] = "idle"]
  /\ buf' = [buf EXCEPT ![w] = NoRecord]
  /\ UNCHANGED <<now, shm, req, at, served, history>>

Tick ==
  /\ now < MaxTime
  /\ now' = now + 1
  /\ UNCHANGED <<shm, worker, served, restarts, history>>

Serve(w) == Lookup(w) \/ Write(w) \/ FailOpen(w) \/ Notify(w) \/ Wake(w)

Next ==
  \/ \E w \in Workers, r \in Requests : Start(w, r)
  \/ \E w \in Workers : Serve(w)
  \/ \E w \in Workers : Restart(w)
  \/ Tick

Spec == Init /\ [][Next]_vars

----------------------------------------------------------------------------
(***************************************************************************)
(* Type invariant.                                                         *)
(***************************************************************************)
Counters == [IPs -> [Time -> Nat]]

TypeOK ==
  /\ now \in Time
  /\ shm \in [IPs -> Records(Time)]
  /\ pc \in [Workers -> Ready \cup Busy]
  /\ req \in [Workers -> Requests]
  /\ at \in [Workers -> Time]
  /\ buf \in [Workers -> Records(Time)]
  /\ served \in Nat
  /\ restarts \in Nat
  /\ made \in Counters
  /\ admitted \in Counters
  /\ sends \in Counters

(***************************************************************************)
(* A client is refused only after that many attempts: when a worker has    *)
(* answered 403 or 429 under a policy, it counted this attempt and at      *)
(* least allowed_attempts others in the window it refused in.  With        *)
(* several workers the shared count may lag behind the truth (updates get  *)
(* lost), never run ahead of it.                                           *)
(***************************************************************************)
NoPrematureBlock ==
  \A w \in Workers :
    pc[w] = "denied" =>
      made[Key(w)][buf[w].first] > req[w].policy.allowed

(***************************************************************************)
(* The daemon is never skipped: a 403 from a count beyond the threshold    *)
(* means that the block command of that window was sent, or that a worker  *)
(* which read the threshold is about to write or to send.  (A worker that  *)
(* dies in between takes the command with it, hence the condition.)        *)
(***************************************************************************)
Escalating(ip, first) ==
  \/ sends[ip][first] > 0
  \/ \E v \in Workers :
       pc[v] = "notify" /\ Key(v) = ip /\ buf[v].first = first

EscalationNotSkipped ==
  restarts = 0 =>
    \A w \in Workers :
      pc[w] = "denied" => Escalating(Key(w), buf[w].first)

(***************************************************************************)
(* One UDS send per attacker per window, as the comment above the          *)
(* escalation test promises.                                               *)
(***************************************************************************)
EscalateOncePerWindow ==
  \A ip \in IPs, t \in Time : sends[ip][t] <= 1

(***************************************************************************)
(* Every attempt is in the count: no update is lost.                       *)
(***************************************************************************)
NoLostCount ==
  \A ip \in IPs : shm[ip].magic => shm[ip].count = made[ip][shm[ip].first]

(***************************************************************************)
(* How much of an attack the lost updates let through: two workers admit   *)
(* at most a * (a + 5) / 2 POSTs of one client in one window of threshold  *)
(* a, instead of the a that one worker admits.  (One worker sleeps on an   *)
(* old copy while the other one counts; its write then sets the count      *)
(* back, once for every value of the count, and twice more for a window    *)
(* that a slow creator opens again.)                                       *)
(***************************************************************************)
AdmissionBound ==
  \A ip \in IPs, t \in Time, r \in Requests :
    LET a == r.policy.allowed IN admitted[ip][t] <= (a * (a + 5)) \div 2

(***************************************************************************)
(* A window is neither reopened nor cut short: its record is replaced only *)
(* once the shortest window that any policy asks for is over, and always   *)
(* by a younger one.                                                       *)
(***************************************************************************)
WindowNotCutShort ==
  [][\A ip \in IPs :
       (shm[ip].magic /\ shm'[ip].first # shm[ip].first) =>
         \E r \in Requests : shm'[ip].first >= shm[ip].first + r.policy.window
    ]_vars

(***************************************************************************)
(* One worker alone judges every request as if lookup, update and verdict  *)
(* were a single step: no request is counted in a window or refused on a   *)
(* count that is not the current one.                                      *)
(***************************************************************************)
Unguarded(r) == ~ Guarded(r)

Verdict(w) ==
  CASE pc[w] \in {"lookup", "write"}            -> "asked"
    [] pc[w] \in {"notify", "asleep", "denied"} -> "refused"
    [] pc[w] = "ok"                             -> "let"
    [] pc[w] = "idle"                           -> "idle"

Atomic == INSTANCE AtomicLimiter WITH
  Client <- EffectiveIP,
  Exempt <- Unguarded,
  table  <- [ip \in IPs |-> [open  |-> shm[ip].magic,
                             start |-> shm[ip].first,
                             tries |-> shm[ip].count]],
  call   <- [w \in Workers |-> [state |-> Verdict(w),
                                req   |-> req[w],
                                at    |-> at[w]]]

JudgesAtomically == Atomic!Spec
=============================================================================
