----------------------------- MODULE Firewalld -----------------------------
(***************************************************************************)
(* litehttpd-firewalld, the daemon that turns the block commands of the    *)
(* web server's workers into firewall rules: firewalld/src/main.rs,        *)
(* backend.rs and persist.rs, and the client side of the socket,           *)
(* src/htaccess_firewall_client.c.                                         *)
(*                                                                         *)
(* The daemon keeps a table of blocked addresses under one mutex; a thread *)
(* per connection executes commands, and a sweeper thread drops lapsed     *)
(* entries and writes the table to a file.  The rules themselves live in   *)
(* the kernel, which outlives the daemon and not the machine.  A worker    *)
(* waits at most 100 ms for an answer and ignores it, so a command is a    *)
(* message here: it may be executed late, and commands overtake each       *)
(* other.                                                                  *)
(*                                                                         *)
(* Time is kept as what remains of every timer (now itself never matters); *)
(* the timers run while the daemon is down, for the file holds time stamps.*)
(***************************************************************************)
EXTENDS Integers, FiniteSets

CONSTANTS
  IPs,           \* The addresses that occur, all of them valid.
  TTLs,          \* The times to live that the workers ask for, in seconds.
  Forever,       \* The time to live of a block without one.
  Backends,      \* What detect() may find on this machine.
  NftRefreshes,  \* Does nft restart the timeout of an element added again?
  MaxCommands,   \* Bound on the commands sent.
  MaxCrashes,    \* Bound on the crashes of the daemon.
  MaxReboots,    \* Bound on the reboots of the machine.
  MaxFailures    \* Bound on the failing calls of the backend and of save.

ASSUME FirewalldAssumption ==
  /\ IsFiniteSet(IPs)
  /\ TTLs \subseteq Nat \ {0}
  /\ Forever \notin Int
  /\ Backends \subseteq {"nftables", "iptables", "noop"}
  /\ Backends # {}
  /\ NftRefreshes \in BOOLEAN
  /\ MaxCommands \in Nat /\ MaxCrashes \in Nat
  /\ MaxReboots \in Nat /\ MaxFailures \in Nat

(***************************************************************************)
(* A BlockEntry: its ttl, and expires_at as the seconds left until then.   *)
(***************************************************************************)
Entries == [ttl : TTLs \cup {Forever}, left : Int]
NoEntry == [ttl |-> 0, left |-> -1]

NewEntry(ttl) == [ttl |-> ttl, left |-> IF ttl = Forever THEN 0 ELSE ttl]

Present(entry) == entry.ttl # 0

\* Mutant of Lapsed: the test of the missing expiry is the wrong way round.
LapsedForever(entry) == Present(entry) /\ entry.ttl = Forever /\ entry.left < 0

(***************************************************************************)
(* expires_at < now, and its negation away from the boundary.              *)
(***************************************************************************)
Lapsed(entry) == Present(entry) /\ entry.ttl # Forever /\ entry.left < 0
Live(entry)   == Present(entry) /\ (entry.ttl = Forever \/ entry.left > 0)

Aged(entry) ==
  IF entry.ttl = Forever \/ entry.left < 0
    THEN entry
    ELSE [entry EXCEPT !.left = @ - 1]

(***************************************************************************)
(* What the kernel holds for an address: the DROP rules that name it (the  *)
(* elements of a set are at most one) and the element's timeout.           *)
(***************************************************************************)
Rules  == [copies : Nat, timer : (Nat \ {0}) \cup {Forever}]
NoRule == [copies |-> 0, timer |-> Forever]

RuleAged(rule) ==
  CASE rule.timer = Forever -> rule
    [] rule.timer = 1       -> NoRule
    [] OTHER                -> [rule EXCEPT !.timer = @ - 1]

(***************************************************************************)
(* The lines a worker writes on the socket: "b,<ip>[,ttl]" and "u,<ip>".   *)
(***************************************************************************)
Commands == [op : {"block"}, ip : IPs, ttl : TTLs \cup {Forever}]
              \cup [op : {"unblock"}, ip : IPs, ttl : {Forever}]

VARIABLES
  backend,   \* The backend that detect() chose.
  phase,     \* Where the daemon is.
  todo,      \* The addresses of the file still to be restored.
  blocked,   \* State.blocked
  dirty,     \* State.dirty
  db,        \* firewall.db
  kernel,    \* The rules in force.
  inbox,     \* How many of each command are waiting in the sockets.
  sent, crashes, reboots, failures,   \* What the bounds bound.
  unsure,    \* History: the addresses whose last backend call failed.
  unsaved,   \* History: the last save did not replace the whole file.
  torn       \* History: a line of the file was cut short.

daemon  == <<phase, todo, blocked, dirty>>
budget  == <<sent, crashes, reboots, failures>>
history == <<unsure, unsaved, torn>>
vars    == <<backend, daemon, db, kernel, inbox, budget, history>>

Phases == {"down", "restoring", "serving", "saving"}

\* Mutants of Block: a timeout is never restarted; it is not handed to nft.
BlockOnce(rule, ttl) ==
  CASE backend = "nftables" ->
         IF rule.copies > 0 THEN rule ELSE [copies |-> 1, timer |-> ttl]
    [] backend = "iptables" -> [rule EXCEPT !.copies = @ + 1]
    [] backend = "noop"     -> rule

BlockUntimed(rule, ttl) ==
  IF backend = "noop" THEN rule ELSE [copies |-> rule.copies + 1, timer |-> Forever]

(***************************************************************************)
(* FirewallBackend::block and ::unblock when they succeed.  nft adds an    *)
(* element that carries the ttl; iptables inserts one more rule, without a *)
(* ttl, and deletes one.                                                   *)
(***************************************************************************)
Block(rule, ttl) ==
  CASE backend = "nftables" ->
         IF rule.copies > 0 /\ ~ NftRefreshes
           THEN rule
           ELSE [copies |-> 1, timer |-> ttl]
    [] backend = "iptables" -> [rule EXCEPT !.copies = @ + 1]
    [] backend = "noop"     -> rule

\* Mutants of Unblock: a rule that is not there is deleted; nft deletes none.
UnblockBlindly(rule) == [rule EXCEPT !.copies = @ - 1]

UnblockIptablesOnly(rule) ==
  IF backend = "iptables" /\ rule.copies > 0
    THEN [rule EXCEPT !.copies = @ - 1]
    ELSE rule

Unblock(rule) ==
  IF backend = "iptables" /\ rule.copies > 1
    THEN [rule EXCEPT !.copies = @ - 1]
    ELSE NoRule

Enforced(ip) == kernel[ip].copies > 0

(***************************************************************************)
(* A backend call for an address; one that fails changes no rule.          *)
(***************************************************************************)
Call(ip, rule, ok) ==
  /\ ok \/ (failures < MaxFailures /\ backend # "noop")
  /\ kernel' = IF ok THEN [kernel EXCEPT ![ip] = rule] ELSE kernel
  /\ unsure' = IF ok THEN unsure \ {ip} ELSE unsure \cup {ip}
  /\ failures' = IF ok THEN failures ELSE failures + 1

(***************************************************************************)
(* What fs::write may leave behind when it is interrupted or the disk is   *)
(* full: some of the lines, and one that ends before its ttl; load reads   *)
(* that one as a block without a ttl.                                      *)
(***************************************************************************)
CutLine(entry) == IF Present(entry) THEN NewEntry(Forever) ELSE NoEntry

Truncated(table, whole, cut) ==
  [ip \in IPs |-> CASE ip \in whole       -> table[ip]
                    [] ip \in cut \ whole -> CutLine(table[ip])
                    [] OTHER              -> NoEntry]

Fragments(table) ==
  {Truncated(table, whole, cut) :
     whole \in SUBSET IPs, cut \in {{}} \cup {{ip} : ip \in IPs}}

Empty == [ip \in IPs |-> NoEntry]

----------------------------------------------------------------------------
Init ==
  /\ backend \in Backends
  /\ phase = "down"
  /\ todo = {}
  /\ blocked = Empty
  /\ dirty = FALSE
  /\ db = Empty
  /\ kernel = [ip \in IPs |-> NoRule]
  /\ inbox = [c \in Commands |-> 0]
  /\ sent = 0 /\ crashes = 0 /\ reboots = 0 /\ failures = 0
  /\ unsure = {}
  /\ unsaved = FALSE
  /\ torn = FALSE

(***************************************************************************)
(* fw_client_block and fw_client_unblock.  The socket accepts connections  *)
(* from the moment it is bound, before anything is restored.               *)
(***************************************************************************)
Send(c) ==
  /\ phase # "down"
  /\ sent < MaxCommands
  /\ sent' = sent + 1
  /\ inbox' = [inbox EXCEPT ![c] = @ + 1]
  /\ UNCHANGED <<backend, daemon, db, kernel, crashes, reboots, failures, history>>

(***************************************************************************)
(* The start of main: bind the socket, choose the backend, load the file.  *)
(***************************************************************************)
Boot ==
  /\ phase = "down"
  /\ phase' = "restoring"
  /\ todo' = {ip \in IPs : Present(db[ip])}
  /\ unsaved' = FALSE
  /\ UNCHANGED <<backend, blocked, dirty, db, kernel, inbox, budget, unsure, torn>>

\* Mutant of WithRestored: an entry that the backend refused is left out.
WithRestoredIfBlocked(ip, ok) ==
  IF ok THEN [blocked EXCEPT ![ip] = db[ip]] ELSE blocked

WithRestored(ip, ok) == [blocked EXCEPT ![ip] = db[ip]]

(***************************************************************************)
(* One turn of the loop that restores the blocks.  The backend gets the    *)
(* whole ttl again; the entry keeps its expiry, and is kept even when the  *)
(* backend fails.                                                          *)
(***************************************************************************)
Restore(ip, ok) ==
  /\ phase = "restoring"
  /\ ip \in todo
  /\ todo' = todo \ {ip}
  /\ Call(ip, Block(kernel[ip], db[ip].ttl), ok)
  /\ blocked' = WithRestored(ip, ok)
  /\ UNCHANGED <<backend, phase, dirty, db, inbox, sent, crashes, reboots,
                 unsaved, torn>>

Serve ==
  /\ phase = "restoring"
  /\ todo = {}
  /\ phase' = "serving"
  /\ UNCHANGED <<backend, todo, blocked, dirty, db, kernel, inbox, budget, history>>

(***************************************************************************)
(* process_command, under the mutex: the table changes whether or not the  *)
(* backend succeeded.                                                      *)
(***************************************************************************)
Execute(c, rule, entry, ok) ==
  /\ phase = "serving"
  /\ inbox[c] > 0
  /\ inbox' = [inbox EXCEPT ![c] = @ - 1]
  /\ Call(c.ip, rule, ok)
  /\ blocked' = [blocked EXCEPT ![c.ip] = entry]
  /\ dirty' = TRUE
  /\ UNCHANGED <<backend, phase, todo, db, sent, crashes, reboots, unsaved, torn>>

ProcessBlock(c, ok) ==
  c.op = "block" /\ Execute(c, Block(kernel[c.ip], c.ttl), NewEntry(c.ttl), ok)

ProcessUnblock(c, ok) ==
  c.op = "unblock" /\ Execute(c, Unblock(kernel[c.ip]), NoEntry, ok)

(***************************************************************************)
(* One round of the sweeper, up to the write: the entries that lapsed are  *)
(* dropped and their rules removed (refused: those the backend failed to). *)
(* The mutex is held until the file is written.                            *)
(***************************************************************************)
LapsedIPs == {ip \in IPs : Lapsed(blocked[ip])}

Sweep(refused) ==
  /\ phase = "serving"
  /\ refused \subseteq LapsedIPs
  /\ backend = "noop" => refused = {}
  /\ failures + Cardinality(refused) <= MaxFailures
  /\ dirty \/ LapsedIPs # {}
  /\ kernel' = [ip \in IPs |-> IF ip \in LapsedIPs \ refused
                                 THEN Unblock(kernel[ip]) ELSE kernel[ip]]
  /\ blocked' = [ip \in IPs |-> IF ip \in LapsedIPs THEN NoEntry ELSE blocked[ip]]
  /\ unsure' = (unsure \ LapsedIPs) \cup refused
  /\ failures' = failures + Cardinality(refused)
  /\ dirty' = TRUE
  /\ phase' = "saving"
  /\ UNCHANGED <<backend, todo, db, inbox, sent, crashes, reboots, unsaved, torn>>

(***************************************************************************)
(* persist::save ignores its errors, and the table counts as saved.        *)
(***************************************************************************)
Save ==
  /\ phase = "saving"
  /\ phase' = "serving"
  /\ db' = blocked
  /\ dirty' = FALSE
  /\ unsaved' = FALSE
  /\ UNCHANGED <<backend, todo, blocked, kernel, inbox, budget, unsure, torn>>

FailSave(left) ==
  /\ phase = "saving"
  /\ failures < MaxFailures
  /\ failures' = failures + 1
  /\ phase' = "serving"
  /\ db' = left
  /\ dirty' = FALSE
  /\ unsaved' = TRUE
  /\ torn' = TRUE
  /\ UNCHANGED <<backend, todo, blocked, kernel, inbox, sent, crashes, reboots, unsure>>

(***************************************************************************)
(* The daemon dies (a SIGTERM is no different: nothing is flushed).  What  *)
(* was waiting in its sockets is lost; a write under way leaves the file   *)
(* truncated.                                                              *)
(***************************************************************************)
Die(left) ==
  /\ phase # "down"
  /\ crashes < MaxCrashes
  /\ crashes' = crashes + 1
  /\ phase' = "down"
  /\ todo' = {}
  /\ blocked' = Empty
  /\ dirty' = FALSE
  /\ inbox' = [c \in Commands |-> 0]
  /\ db' = left
  /\ UNCHANGED <<backend, kernel, sent, reboots, failures, unsure, unsaved>>

Crash == Die(db) /\ UNCHANGED torn

CrashWhileSaving(left) == phase = "saving" /\ Die(left) /\ torn' = TRUE

(***************************************************************************)
(* The machine starts again: no rule survives it.                          *)
(***************************************************************************)
Reboot ==
  /\ phase = "down"
  /\ reboots < MaxReboots
  /\ reboots' = reboots + 1
  /\ kernel' = [ip \in IPs |-> NoRule]
  /\ UNCHANGED <<backend, daemon, db, inbox, sent, crashes, failures, history>>

Tick ==
  /\ blocked' = [ip \in IPs |-> Aged(blocked[ip])]
  /\ db' = [ip \in IPs |-> Aged(db[ip])]
  /\ kernel' = [ip \in IPs |-> RuleAged(kernel[ip])]
  /\ UNCHANGED <<backend, phase, todo, dirty, inbox, budget, history>>

Sweeping   == \E refused \in SUBSET IPs : Sweep(refused)
FailSaving == \E left \in {db} \cup Fragments(blocked) : FailSave(left)
Restoring  == \E ip \in IPs, ok \in BOOLEAN : Restore(ip, ok)

Next ==
  \/ \E c \in Commands : Send(c)
  \/ Boot
  \/ Restoring
  \/ Serve
  \/ \E c \in Commands, ok \in BOOLEAN : ProcessBlock(c, ok) \/ ProcessUnblock(c, ok)
  \/ Sweeping
  \/ Save
  \/ FailSaving
  \/ Crash
  \/ \E left \in Fragments(blocked) : CrashWhileSaving(left)
  \/ Reboot
  \/ Tick

Spec == Init /\ [][Next]_vars

(***************************************************************************)
(* Time passes; the sweeper loops for ever and its write returns; systemd  *)
(* starts the daemon again (Restart=always).                               *)
(***************************************************************************)
FairSpec ==
  /\ Spec
  /\ WF_vars(Tick)
  /\ WF_vars(Sweeping)
  /\ WF_vars(Save \/ FailSaving)
  /\ WF_vars(Boot)
  /\ WF_vars(Restoring)
  /\ WF_vars(Serve)

----------------------------------------------------------------------------
(***************************************************************************)
(* Type invariant.                                                         *)
(***************************************************************************)
Cells  == {e \in Entries : e.ttl # Forever => e.left <= e.ttl} \cup {NoEntry}
Tables == [IPs -> Cells]

TypeOK ==
  /\ backend \in Backends
  /\ phase \in Phases
  /\ todo \in SUBSET {ip \in IPs : phase = "restoring" /\ Present(db[ip])}
  /\ blocked \in Tables
  /\ dirty \in BOOLEAN
  /\ db \in Tables
  /\ kernel \in [IPs -> Rules]
  /\ inbox \in [Commands -> Nat]
  /\ sent \in Nat /\ crashes \in Nat /\ reboots \in Nat /\ failures \in Nat
  /\ unsure \in SUBSET IPs
  /\ unsaved \in BOOLEAN
  /\ torn \in BOOLEAN

(***************************************************************************)
(* The dirty flag is never lost: when it is down, the file says exactly    *)
(* what the table says, whatever commands came in while the file was being *)
(* written, read or restored.  Only a write that failed breaks this, until *)
(* the next one.                                                           *)
(***************************************************************************)
CleanMeansSaved ==
  (phase = "serving" /\ ~ dirty /\ ~ unsaved) => db = blocked

(***************************************************************************)
(* What the daemon lists as blocked is blocked: after any sequence of      *)
(* commands, sweeps, crashes and reboots, an entry with time left has a    *)
(* rule in the kernel, unless the last backend call for it failed.  For    *)
(* nftables this takes a kernel that restarts the timeout of an element    *)
(* added again.                                                            *)
(***************************************************************************)
EntryIsEnforced ==
  \A ip \in IPs \ unsure :
    (backend # "noop" /\ Live(blocked[ip])) => Enforced(ip)

(***************************************************************************)
(* The converse: no rule outlives its entry while the daemon runs.  The    *)
(* comment in IptablesBackend::block promises it for iptables too: "the    *)
(* daemon's expiry sweep removes the rule when the block entry lapses".    *)
(***************************************************************************)
RuleGoneWithEntry(b) ==
  (backend = b /\ crashes = 0) =>
    \A ip \in IPs \ unsure : Enforced(ip) => Present(blocked[ip])

NoOrphanElement == RuleGoneWithEntry("nftables")
NoOrphanRule    == RuleGoneWithEntry("iptables")

(***************************************************************************)
(* Every temporary entry leaves the table, across the restarts of the      *)
(* daemon, unless it is made permanent (by a command, or by a file that    *)
(* was cut short).                                                         *)
(***************************************************************************)
Temporary(entry) == Present(entry) /\ entry.ttl # Forever

EntryLapses ==
  \A ip \in IPs : Temporary(blocked[ip]) ~> ~ Temporary(blocked[ip])

(***************************************************************************)
(* With nftables "the kernel ages rules out even if this daemon dies": an  *)
(* address blocked for a time is let go in the end, though the daemon may  *)
(* have crashed, lost the entry and restored another one.                  *)
(***************************************************************************)
Permanent(ip) == torn \/ blocked[ip].ttl = Forever \/ db[ip].ttl = Forever

AddressIsLetGo ==
  \A ip \in IPs :
    (backend = "nftables" /\ Temporary(blocked[ip]))
      ~> (~ Enforced(ip) \/ ip \in unsure \/ Permanent(ip))
=============================================================================
