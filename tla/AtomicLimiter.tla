---------------------------- MODULE AtomicLimiter ----------------------------
(***************************************************************************)
(* What brute-force protection promises, as if every request were judged   *)
(* in one step: a client opens a window with its first attempt, each       *)
(* attempt is counted, and from the attempt after the allowed ones on the  *)
(* client is refused until the window is over.                             *)
(***************************************************************************)
EXTENDS Integers

CONSTANTS
  Workers, IPs, Requests,
  Client(_),    \* The address a request is charged to.
  Exempt(_),    \* Requests that the protection does not look at.
  MaxTime

VARIABLES
  now,      \* The clock.
  table,    \* The window of each client.
  call      \* What each worker is doing.

Closed == [open |-> FALSE, start |-> 0, tries |-> 0]
Opened(t) == [open |-> TRUE, start |-> t, tries |-> 1]

Current(r, t) ==
  LET e == table[Client(r)] IN e.open /\ t < e.start + r.policy.window

Spent(r, t) == Current(r, t) /\ table[Client(r)].tries >= r.policy.allowed

Tried(r, t) ==
  LET e == table[Client(r)] IN
  IF Current(r, t) THEN [e EXCEPT !.tries = e.tries + 1] ELSE Opened(t)

OneMoreTry(r, t) == table' = [table EXCEPT ![Client(r)] = Tried(r, t)]

Answer(w, verdict) == call' = [call EXCEPT ![w].state = verdict]

Init ==
  /\ now = 0
  /\ table = [ip \in IPs |-> Closed]
  /\ call \in [Workers -> [state : {"idle"}, req : Requests, at : {0}]]

Begin(w, r) ==
  /\ call[w].state # "asked"
  /\ call' = [call EXCEPT ![w] =
                [state |-> IF Exempt(r) THEN "let" ELSE "asked",
                 req |-> r, at |-> now]]
  /\ UNCHANGED <<now, table>>

Refuse(w, r, t) ==
  /\ Spent(r, t)
  /\ r.policy.action # "log"
  /\ OneMoreTry(r, t)
  /\ Answer(w, "refused")

LetThrough(w, r, t) ==
  /\ Spent(r, t) => r.policy.action = "log"
  /\ IF r.post \/ Spent(r, t) THEN OneMoreTry(r, t) ELSE UNCHANGED table
  /\ Answer(w, "let")

NoRoom(w, r) ==
  /\ ~ table[Client(r)].open
  /\ UNCHANGED table
  /\ Answer(w, "let")

Judge(w) ==
  /\ call[w].state = "asked"
  /\ LET r == call[w].req
         t == call[w].at
     IN  Refuse(w, r, t) \/ LetThrough(w, r, t) \/ NoRoom(w, r)
  /\ UNCHANGED now

Abandon(w) == Answer(w, "idle") /\ UNCHANGED <<now, table>>

Tick ==
  /\ now < MaxTime
  /\ now' = now + 1
  /\ UNCHANGED <<table, call>>

Next ==
  \/ \E w \in Workers, r \in Requests : Begin(w, r)
  \/ \E w \in Workers : Judge(w) \/ Abandon(w)
  \/ Tick

Spec == Init /\ [][Next]_<<now, table, call>>
=============================================================================
