-------------------------- MODULE FirewalldProofs --------------------------
(***************************************************************************)
(* Theorems about Firewalld, for any addresses, times to live, backends    *)
(* and bounds.                                                             *)
(***************************************************************************)
EXTENDS Firewalld, FiniteSetTheorems, TLAPS

USE FirewalldAssumption

(***************************************************************************)
(* The helpers stay within their types.                                    *)
(***************************************************************************)
LEMMA NewEntryType ==
  ASSUME NEW ttl \in TTLs \cup {Forever}
  PROVE  NewEntry(ttl) \in Cells
  BY DEF NewEntry, Cells, Entries

\* No entry is a cell of the table.
LEMMA NoEntryType == NoEntry \in Cells
  BY DEF Cells

\* A cell that ages stays a cell.
LEMMA AgedType ==
  ASSUME NEW e \in Cells
  PROVE  Aged(e) \in Cells
  BY DEF Aged, Cells, Entries, NoEntry

\* A cell that is present is an entry with at most its TTL left.
LEMMA PresentType ==
  ASSUME NEW e \in Cells, Present(e)
  PROVE  /\ e \in Entries
         /\ e.ttl # Forever => e.left <= e.ttl
  BY DEF Present, Cells, NoEntry

\* Blocking yields a rule.
LEMMA BlockType ==
  ASSUME NEW rule \in Rules, NEW ttl \in TTLs \cup {Forever}, backend \in Backends
  PROVE  Block(rule, ttl) \in Rules
  BY DEF Block, Rules

\* Unblocking yields a rule.
LEMMA UnblockType ==
  ASSUME NEW rule \in Rules
  PROVE  Unblock(rule) \in Rules
  BY DEF Unblock, Rules, NoRule

\* A rule that ages stays a rule.
LEMMA RuleAgedType ==
  ASSUME NEW rule \in Rules
  PROVE  RuleAged(rule) \in Rules
  BY DEF RuleAged, Rules, NoRule

\* A cut line is read as a cell.
LEMMA CutLineType ==
  ASSUME NEW e \in Cells
  PROVE  CutLine(e) \in Cells
  BY NewEntryType, NoEntryType DEF CutLine

\* A file that was cut short is read as a table.
LEMMA FragmentType ==
  ASSUME NEW table \in Tables, NEW left \in Fragments(table)
  PROVE  left \in Tables
  <1>1. PICK whole \in SUBSET IPs, cut \in {{}} \cup {{ip} : ip \in IPs} :
          left = Truncated(table, whole, cut)
    BY DEF Fragments
  <1>2. ASSUME NEW ip \in IPs
        PROVE  /\ table[ip] \in Cells
               /\ CutLine(table[ip]) \in Cells
               /\ NoEntry \in Cells
    BY CutLineType, NoEntryType DEF Tables
  <1> QED
    BY <1>1, <1>2 DEF Truncated, Tables

\* The empty table is a table.
LEMMA EmptyType == Empty \in Tables
  BY NoEntryType DEF Empty, Tables

----------------------------------------------------------------------------
(***************************************************************************)
(* Type correctness.                                                       *)
(***************************************************************************)
LEMMA InitTypeOK == Init => TypeOK
  <1> SUFFICES ASSUME Init PROVE TypeOK
    OBVIOUS
  <1>1. [ip \in IPs |-> NoRule] \in [IPs -> Rules]
    BY DEF NoRule, Rules
  <1> QED
    BY <1>1, EmptyType DEF Init, TypeOK, Phases

\* A backend call keeps the types of what it changes.
LEMMA CallType ==
  ASSUME TypeOK, NEW ip \in IPs, NEW rule \in Rules, NEW ok \in BOOLEAN,
         Call(ip, rule, ok)
  PROVE  /\ kernel' \in [IPs -> Rules]
         /\ unsure' \in SUBSET IPs
         /\ failures' \in Nat
  BY DEF Call, TypeOK

\* A command keeps the types.
LEMMA ExecuteType ==
  ASSUME TypeOK, NEW c \in Commands, NEW rule \in Rules, NEW entry \in Cells,
         NEW ok \in BOOLEAN, Execute(c, rule, entry, ok)
  PROVE  TypeOK'
  <1>1. c.ip \in IPs
    BY DEF Commands
  <1>2. /\ kernel' \in [IPs -> Rules]
        /\ unsure' \in SUBSET IPs
        /\ failures' \in Nat
    BY <1>1, CallType DEF Execute
  <1>3. inbox' \in [Commands -> Nat]
    BY DEF Execute, TypeOK
  <1>4. blocked' \in Tables
    BY <1>1 DEF Execute, TypeOK, Tables
  <1> QED
    BY <1>2, <1>3, <1>4 DEF Execute, TypeOK

\* A crash keeps the types, whatever file it leaves behind.
LEMMA DieType ==
  ASSUME TypeOK, NEW left \in Tables, Die(left), torn' \in BOOLEAN
  PROVE  TypeOK'
  <1>1. inbox' \in [Commands -> Nat]
    BY DEF Die
  <1>2. blocked' \in Tables /\ db' \in Tables
    BY EmptyType DEF Die
  <1>3. todo' \in SUBSET {ip \in IPs : phase = "restoring" /\ Present(db[ip])}'
    BY DEF Die
  <1>4. dirty' \in BOOLEAN /\ unsaved' \in BOOLEAN
    BY DEF Die, TypeOK
  <1>5. crashes' \in Nat /\ phase' \in Phases
    BY DEF Die, TypeOK, Phases
  <1> QED
    BY <1>1, <1>2, <1>3, <1>4, <1>5 DEF Die, TypeOK

\* Every step keeps the types.
LEMMA StepTypeOK == TypeOK /\ [Next]_vars => TypeOK'
  <1> SUFFICES ASSUME TypeOK, [Next]_vars PROVE TypeOK'
    OBVIOUS
  <1> USE DEF daemon, budget, history
  <1>1. ASSUME NEW c \in Commands, Send(c) PROVE TypeOK'
    BY <1>1 DEF Send, TypeOK
  <1>2. CASE Boot
    BY <1>2 DEF Boot, TypeOK, Phases
  <1>3. ASSUME NEW ip \in IPs, NEW ok \in BOOLEAN, Restore(ip, ok) PROVE TypeOK'
    <2>1. db[ip] \in Entries
      BY <1>3, PresentType DEF Restore, WithRestored, TypeOK, Tables
    <2>2. Block(kernel[ip], db[ip].ttl) \in Rules
      BY <2>1, BlockType DEF TypeOK, Entries
    <2>3. /\ kernel' \in [IPs -> Rules]
          /\ unsure' \in SUBSET IPs
          /\ failures' \in Nat
      BY <1>3, <2>2, CallType DEF Restore, WithRestored
    <2>4. blocked' \in Tables
      BY <1>3 DEF Restore, WithRestored, TypeOK, Tables
    <2> QED
      BY <1>3, <2>3, <2>4 DEF Restore, WithRestored, TypeOK
  <1>4. CASE Serve
    BY <1>4 DEF Serve, TypeOK, Phases
  <1>5. ASSUME NEW c \in Commands, NEW ok \in BOOLEAN, ProcessBlock(c, ok)
        PROVE  TypeOK'
    <2>1. c.ip \in IPs /\ c.ttl \in TTLs \cup {Forever}
      BY DEF Commands
    <2>2. Block(kernel[c.ip], c.ttl) \in Rules
      BY <2>1, BlockType DEF TypeOK
    <2> QED
      BY <1>5, <2>1, <2>2, NewEntryType, ExecuteType DEF ProcessBlock
  <1>6. ASSUME NEW c \in Commands, NEW ok \in BOOLEAN, ProcessUnblock(c, ok)
        PROVE  TypeOK'
    <2>1. Unblock(kernel[c.ip]) \in Rules
      BY UnblockType DEF TypeOK, Commands
    <2> QED
      BY <1>6, <2>1, NoEntryType, ExecuteType DEF ProcessUnblock
  <1>7. ASSUME NEW refused \in SUBSET IPs, Sweep(refused) PROVE TypeOK'
    <2>1. kernel' \in [IPs -> Rules]
      BY <1>7, UnblockType DEF Sweep, TypeOK
    <2>2. blocked' \in Tables
      BY <1>7, NoEntryType DEF Sweep, TypeOK, Tables
    <2>3. Cardinality(refused) \in Nat
      BY FS_Subset, FS_CardinalityType
    <2> QED
      BY <1>7, <2>1, <2>2, <2>3 DEF Sweep, TypeOK, Phases
  <1>8. CASE Save
    BY <1>8 DEF Save, TypeOK, Phases
  <1>9. ASSUME NEW left \in {db} \cup Fragments(blocked), FailSave(left)
        PROVE  TypeOK'
    <2>1. left \in Tables
      BY FragmentType DEF TypeOK
    <2>2. todo = {}
      BY <1>9 DEF FailSave, TypeOK
    <2>3. dirty' \in BOOLEAN /\ unsaved' \in BOOLEAN /\ torn' \in BOOLEAN
      BY <1>9 DEF FailSave
    <2>4. todo' \in SUBSET {ip \in IPs : phase = "restoring" /\ Present(db[ip])}'
      BY <1>9, <2>2 DEF FailSave
    <2>5. db' \in Tables
      BY <1>9, <2>1 DEF FailSave
    <2> QED
      BY <1>9, <2>3, <2>4, <2>5 DEF FailSave, TypeOK, Phases
  <1>10. CASE Crash
    BY <1>10, DieType DEF Crash, TypeOK
  <1>11. ASSUME NEW left \in Fragments(blocked), CrashWhileSaving(left)
         PROVE  TypeOK'
    BY <1>11, FragmentType, DieType DEF CrashWhileSaving, TypeOK
  <1>12. CASE Reboot
    <2>1. NoRule \in Rules
      BY DEF NoRule, Rules
    <2> QED
      BY <1>12, <2>1 DEF Reboot, TypeOK
  <1>13. CASE Tick
    <2>1. \A ip \in todo : Present(Aged(db[ip]))
      BY DEF TypeOK, Aged, Present
    <2>2. todo' \in SUBSET {ip \in IPs : phase = "restoring" /\ Present(db[ip])}'
      BY <1>13, <2>1 DEF Tick, TypeOK
    <2>3. blocked' \in Tables /\ db' \in Tables
      BY <1>13, AgedType DEF Tick, TypeOK, Tables
    <2>4. kernel' \in [IPs -> Rules]
      BY <1>13, RuleAgedType DEF Tick, TypeOK
    <2> QED
      BY <1>13, <2>2, <2>3, <2>4 DEF Tick, TypeOK
  <1>14. CASE UNCHANGED vars
    BY <1>14 DEF vars, TypeOK
  <1> QED
    BY <1>1, <1>2, <1>3, <1>4, <1>5, <1>6, <1>7, <1>8, <1>9, <1>10, <1>11,
       <1>12, <1>13, <1>14 DEF Next, Sweeping, FailSaving, Restoring

(***************************************************************************)
(* Every variable keeps its type.                                          *)
(***************************************************************************)
THEOREM TypeCorrect == Spec => []TypeOK
  BY InitTypeOK, StepTypeOK, PTL DEF Spec

----------------------------------------------------------------------------
(***************************************************************************)
(* The dirty flag.  CleanMeansSaved speaks of the phase "serving" only;    *)
(* the daemon gets there from a restoration, so the invariant says as well *)
(* how far the table agrees with the file while it is being restored, and  *)
(* that nothing is in the table of a daemon that is down.                  *)
(***************************************************************************)
RestoredSoFar ==
  phase = "restoring" => \A ip \in IPs \ todo : blocked[ip] = db[ip]

DownHoldsNothing == phase = "down" => blocked = Empty

CleanInv == TypeOK /\ CleanMeansSaved /\ RestoredSoFar /\ DownHoldsNothing

\* A cell without an entry is NoEntry.
LEMMA NotPresent ==
  ASSUME NEW e \in Cells, ~ Present(e)
  PROVE  e = NoEntry
  BY DEF Present, Cells, Entries

\* Tables are equal if their cells are.
LEMMA SameTables ==
  ASSUME NEW s \in Tables, NEW t \in Tables, \A ip \in IPs : s[ip] = t[ip]
  PROVE  s = t
  BY DEF Tables

\* The empty table does not age.
LEMMA AgedNothing == [ip \in IPs |-> Aged(Empty[ip])] = Empty
  BY DEF Empty, Aged, NoEntry

\* Every step keeps a clean table equal to the file.
LEMMA StepCleanInv == CleanInv /\ [Next]_vars => CleanInv'
  <1> SUFFICES ASSUME CleanInv, [Next]_vars
               PROVE  (CleanMeansSaved /\ RestoredSoFar /\ DownHoldsNothing)'
    BY StepTypeOK DEF CleanInv
  <1> USE DEF daemon, budget, history
  <1>1. ASSUME NEW c \in Commands, Send(c)
        PROVE  (CleanMeansSaved /\ RestoredSoFar /\ DownHoldsNothing)'
    BY <1>1 DEF Send, CleanInv, CleanMeansSaved, RestoredSoFar, DownHoldsNothing
  <1>2. CASE Boot
    <2>1. \A ip \in IPs \ todo' : db[ip] = NoEntry
      BY <1>2, NotPresent DEF Boot, CleanInv, TypeOK, Tables
    <2>2. \A ip \in IPs : blocked[ip] = NoEntry
      BY <1>2 DEF Boot, CleanInv, DownHoldsNothing, Empty
    <2> QED
      BY <1>2, <2>1, <2>2 DEF Boot, CleanMeansSaved, RestoredSoFar, DownHoldsNothing
  <1>3. ASSUME NEW ip \in IPs, NEW ok \in BOOLEAN, Restore(ip, ok)
        PROVE  (CleanMeansSaved /\ RestoredSoFar /\ DownHoldsNothing)'
    <2>1. \A other \in IPs \ todo' : blocked'[other] = db[other]
      BY <1>3 DEF Restore, WithRestored, CleanInv, RestoredSoFar, TypeOK, Tables
    <2> QED
      BY <1>3, <2>1 DEF Restore, WithRestored, CleanMeansSaved, RestoredSoFar, DownHoldsNothing
  <1>4. CASE Serve
    <2>1. blocked = db
      BY <1>4, SameTables DEF Serve, CleanInv, RestoredSoFar, TypeOK
    <2> QED
      BY <1>4, <2>1 DEF Serve, CleanMeansSaved, RestoredSoFar, DownHoldsNothing
  <1>5. ASSUME NEW c \in Commands, NEW ok \in BOOLEAN,
               ProcessBlock(c, ok) \/ ProcessUnblock(c, ok)
        PROVE  (CleanMeansSaved /\ RestoredSoFar /\ DownHoldsNothing)'
    BY <1>5 DEF ProcessBlock, ProcessUnblock, Execute,
                CleanMeansSaved, RestoredSoFar, DownHoldsNothing
  <1>6. ASSUME NEW refused \in SUBSET IPs, Sweep(refused)
        PROVE  (CleanMeansSaved /\ RestoredSoFar /\ DownHoldsNothing)'
    BY <1>6 DEF Sweep, CleanMeansSaved, RestoredSoFar, DownHoldsNothing
  <1>7. CASE Save
    BY <1>7 DEF Save, CleanMeansSaved, RestoredSoFar, DownHoldsNothing
  <1>8. ASSUME NEW left \in {db} \cup Fragments(blocked), FailSave(left)
        PROVE  (CleanMeansSaved /\ RestoredSoFar /\ DownHoldsNothing)'
    BY <1>8 DEF FailSave, CleanMeansSaved, RestoredSoFar, DownHoldsNothing
  <1>9. ASSUME Crash \/ (\E left \in Fragments(blocked) : CrashWhileSaving(left))
        PROVE  (CleanMeansSaved /\ RestoredSoFar /\ DownHoldsNothing)'
    BY <1>9 DEF Crash, CrashWhileSaving, Die,
                CleanMeansSaved, RestoredSoFar, DownHoldsNothing, Empty
  <1>10. CASE Reboot
    BY <1>10 DEF Reboot, CleanInv, CleanMeansSaved, RestoredSoFar, DownHoldsNothing
  <1>11. CASE Tick
    <2>1. phase = "down" => blocked' = Empty
      BY <1>11, AgedNothing DEF Tick, CleanInv, DownHoldsNothing
    <2>2. CleanMeansSaved'
      BY <1>11 DEF Tick, CleanInv, CleanMeansSaved
    <2>3. RestoredSoFar'
      BY <1>11 DEF Tick, CleanInv, RestoredSoFar
    <2> QED
      BY <1>11, <2>1, <2>2, <2>3 DEF Tick, DownHoldsNothing, Empty
  <1>12. CASE UNCHANGED vars
    BY <1>12 DEF vars, CleanInv, CleanMeansSaved, RestoredSoFar, DownHoldsNothing, Empty
  <1> QED
    BY <1>1, <1>2, <1>3, <1>4, <1>5, <1>6, <1>7, <1>8, <1>9, <1>10, <1>11, <1>12
       DEF Next, Sweeping, FailSaving, Restoring

(***************************************************************************)
(* When the dirty flag is down and no write has failed, the file holds     *)
(* exactly the table, at every moment the mutex is free.                   *)
(***************************************************************************)
THEOREM CleanTableIsSaved == Spec => []CleanMeansSaved
  <1>1. Init => CleanInv
    BY InitTypeOK DEF Init, CleanInv, CleanMeansSaved, RestoredSoFar, DownHoldsNothing
  <1>2. CleanInv => CleanMeansSaved
    BY DEF CleanInv
  <1> QED
    BY <1>1, <1>2, StepCleanInv, PTL DEF Spec

----------------------------------------------------------------------------
(***************************************************************************)
(* Enforcement.  That an entry has a rule is not inductive: a rule may age *)
(* out.  Its timeout must not be shorter than what the entry has left, and *)
(* with iptables it must have none; such a rule covers the entry.          *)
(***************************************************************************)
Covers(rule, entry) ==
  /\ backend = "nftables" =>
       (Live(entry) => /\ rule.copies > 0
                       /\ \/ rule.timer = Forever
                          \/ entry.ttl # Forever /\ rule.timer >= entry.left)
  /\ backend = "iptables" => (Live(entry) => rule.copies > 0)

IptablesUntimed == backend = "iptables" => \A ip \in IPs : kernel[ip].timer = Forever

CoverInv ==
  /\ CleanInv
  /\ IptablesUntimed
  /\ \A ip \in IPs \ unsure : Covers(kernel[ip], blocked[ip])

\* Any rule covers an address without an entry.
LEMMA NothingIsCovered ==
  ASSUME NEW rule
  PROVE  Covers(rule, NoEntry)
  BY DEF Covers, Live, Present, NoEntry

\* A block with the TTL of an entry covers it.
LEMMA BlockCovers ==
  ASSUME NftRefreshes, TypeOK, NEW rule \in Rules, NEW entry \in Cells, Present(entry)
  PROVE  Covers(Block(rule, entry.ttl), entry)
  <1>1. entry \in Entries /\ (entry.ttl # Forever => entry.left <= entry.ttl)
    BY PresentType
  <1> QED
    BY <1>1 DEF Covers, Block, Rules, Live, Entries, TypeOK

\* An iptables rule never gets a timer.
LEMMA BlockStaysUntimed ==
  ASSUME NEW rule \in Rules, NEW ttl, backend = "iptables", rule.timer = Forever
  PROVE  Block(rule, ttl).timer = Forever /\ Unblock(rule).timer = Forever
  BY DEF Block, Unblock, Rules, NoRule

\* A rule and the entry it covers age alike.
LEMMA AgedCovers ==
  ASSUME NEW rule \in Rules, NEW entry \in Cells, Covers(rule, entry),
         backend = "iptables" => rule.timer = Forever
  PROVE  Covers(RuleAged(rule), Aged(entry))
  BY DEF Covers, RuleAged, Aged, Rules, NoRule, Live, Present, Cells, Entries, NoEntry

(***************************************************************************)
(* What the steps that call the backend for one address have in common.    *)
(***************************************************************************)
LEMMA CallCovers ==
  ASSUME CoverInv, backend' = backend,
         NEW ip \in IPs, NEW rule \in Rules, NEW entry \in Cells, NEW ok \in BOOLEAN,
         Call(ip, rule, ok), blocked' = [blocked EXCEPT ![ip] = entry],
         Covers(rule, entry), backend = "iptables" => rule.timer = Forever
  PROVE  /\ IptablesUntimed'
         /\ \A i \in IPs \ unsure' : Covers(kernel'[i], blocked'[i])
  <1>1. kernel \in [IPs -> Rules] /\ blocked \in [IPs -> Cells]
    BY DEF CoverInv, CleanInv, TypeOK, Tables
  <1>2. CASE ok
    <2>1. /\ kernel' = [kernel EXCEPT ![ip] = rule]
          /\ unsure' = unsure \ {ip}
      BY <1>2 DEF Call
    <2>2. kernel'[ip] = rule /\ blocked'[ip] = entry
      BY <1>1, <2>1
    <2>3. \A i \in IPs \ {ip} : kernel'[i] = kernel[i] /\ blocked'[i] = blocked[i]
      BY <1>1, <2>1
    <2>4. IptablesUntimed'
      BY <2>2, <2>3 DEF CoverInv, IptablesUntimed
    <2> QED
      BY <2>1, <2>2, <2>3, <2>4 DEF CoverInv
  <1>3. CASE ~ ok
    <2>1. kernel' = kernel /\ unsure' = unsure \cup {ip}
      BY <1>3 DEF Call
    <2>2. \A i \in IPs \ {ip} : blocked'[i] = blocked[i]
      BY <1>1
    <2> QED
      BY <2>1, <2>2 DEF CoverInv, IptablesUntimed
  <1> QED
    BY <1>2, <1>3

\* Every step leaves every entry covered by its rule.
LEMMA StepCoverInv ==
  ASSUME NftRefreshes
  PROVE  CoverInv /\ [Next]_vars => CoverInv'
  <1> SUFFICES ASSUME CoverInv, [Next]_vars
               PROVE  /\ IptablesUntimed'
                      /\ (\A ip \in IPs \ unsure : Covers(kernel[ip], blocked[ip]))'
    BY StepCleanInv DEF CoverInv
  <1> USE DEF daemon, budget, history
  <1>a. TypeOK /\ kernel \in [IPs -> Rules] /\ blocked \in [IPs -> Cells]
        /\ db \in [IPs -> Cells]
    BY DEF CoverInv, CleanInv, TypeOK, Tables
  <1>1. CASE UNCHANGED <<backend, kernel, blocked, unsure>>
    BY <1>1 DEF CoverInv, IptablesUntimed, Covers
  <1>2. ASSUME NEW ip \in IPs, NEW ok \in BOOLEAN, Restore(ip, ok)
        PROVE  /\ IptablesUntimed'
               /\ (\A i \in IPs \ unsure : Covers(kernel[i], blocked[i]))'
    <2>1. Present(db[ip]) /\ db[ip] \in Cells /\ db[ip].ttl \in TTLs \cup {Forever}
      BY <1>2, <1>a, PresentType DEF Restore, WithRestored, TypeOK, Entries
    <2>2. Block(kernel[ip], db[ip].ttl) \in Rules
      BY <1>a, <2>1, BlockType DEF TypeOK
    <2>3. Covers(Block(kernel[ip], db[ip].ttl), db[ip])
      BY <1>a, <2>1, BlockCovers
    <2>4. backend = "iptables" => Block(kernel[ip], db[ip].ttl).timer = Forever
      BY <1>a, BlockStaysUntimed DEF CoverInv, IptablesUntimed
    <2>5. /\ backend' = backend
          /\ Call(ip, Block(kernel[ip], db[ip].ttl), ok)
          /\ blocked' = [blocked EXCEPT ![ip] = db[ip]]
      BY <1>2 DEF Restore, WithRestored
    <2>6. /\ IptablesUntimed'
          /\ \A i \in IPs \ unsure' : Covers(kernel'[i], blocked'[i])
      BY <2>1, <2>2, <2>3, <2>4, <2>5, CallCovers
    <2> QED
      BY <2>5, <2>6 DEF Covers
  <1>3. ASSUME NEW c \in Commands, NEW ok \in BOOLEAN, ProcessBlock(c, ok)
        PROVE  /\ IptablesUntimed'
               /\ (\A i \in IPs \ unsure : Covers(kernel[i], blocked[i]))'
    <2>1. c.ip \in IPs /\ c.ttl \in TTLs \cup {Forever}
      BY DEF Commands
    <2>2. /\ NewEntry(c.ttl) \in Cells
          /\ NewEntry(c.ttl).ttl = c.ttl
          /\ Present(NewEntry(c.ttl))
      <3>1. NewEntry(c.ttl).ttl = c.ttl
        BY DEF NewEntry
      <3>2. c.ttl # 0
        BY <2>1
      <3> QED
        BY <2>1, <3>1, <3>2, NewEntryType DEF Present
    <2>3. Block(kernel[c.ip], c.ttl) \in Rules
      BY <1>a, <2>1, BlockType DEF TypeOK
    <2>4. Covers(Block(kernel[c.ip], c.ttl), NewEntry(c.ttl))
      BY <1>a, <2>1, <2>2, BlockCovers
    <2>5. backend = "iptables" => Block(kernel[c.ip], c.ttl).timer = Forever
      BY <1>a, <2>1, BlockStaysUntimed DEF CoverInv, IptablesUntimed
    <2>6. /\ backend' = backend
          /\ Call(c.ip, Block(kernel[c.ip], c.ttl), ok)
          /\ blocked' = [blocked EXCEPT ![c.ip] = NewEntry(c.ttl)]
      BY <1>3 DEF ProcessBlock, Execute
    <2>7. /\ IptablesUntimed'
          /\ \A i \in IPs \ unsure' : Covers(kernel'[i], blocked'[i])
      BY <2>1, <2>2, <2>3, <2>4, <2>5, <2>6, CallCovers
    <2> QED
      BY <2>6, <2>7 DEF Covers
  <1>4. ASSUME NEW c \in Commands, NEW ok \in BOOLEAN, ProcessUnblock(c, ok)
        PROVE  /\ IptablesUntimed'
               /\ (\A i \in IPs \ unsure : Covers(kernel[i], blocked[i]))'
    <2>1. c.ip \in IPs
      BY DEF Commands
    <2>2. Unblock(kernel[c.ip]) \in Rules
      BY <1>a, <2>1, UnblockType
    <2>3. backend = "iptables" => Unblock(kernel[c.ip]).timer = Forever
      BY <1>a, <2>1, BlockStaysUntimed DEF CoverInv, IptablesUntimed
    <2>4. /\ backend' = backend
          /\ Call(c.ip, Unblock(kernel[c.ip]), ok)
          /\ blocked' = [blocked EXCEPT ![c.ip] = NoEntry]
      BY <1>4 DEF ProcessUnblock, Execute
    <2>5. /\ IptablesUntimed'
          /\ \A i \in IPs \ unsure' : Covers(kernel'[i], blocked'[i])
      BY <2>1, <2>2, <2>3, <2>4, NoEntryType, NothingIsCovered, CallCovers
    <2> QED
      BY <2>4, <2>5 DEF Covers
  <1>5. ASSUME NEW refused \in SUBSET IPs, Sweep(refused)
        PROVE  /\ IptablesUntimed'
               /\ (\A i \in IPs \ unsure : Covers(kernel[i], blocked[i]))'
    <2>1. IptablesUntimed'
      BY <1>5, <1>a, BlockStaysUntimed DEF Sweep, CoverInv, IptablesUntimed
    <2>2. ASSUME NEW i \in IPs \ unsure'
          PROVE  Covers(kernel'[i], blocked'[i])
      <3>1. CASE i \in LapsedIPs
        BY <1>5, <3>1, NothingIsCovered DEF Sweep
      <3>2. CASE i \notin LapsedIPs
        <4>1. i \notin unsure /\ kernel'[i] = kernel[i] /\ blocked'[i] = blocked[i]
          BY <1>5, <3>2 DEF Sweep
        <4> QED
          BY <4>1 DEF CoverInv
      <3> QED
        BY <3>1, <3>2
    <2>3. backend' = backend
      BY <1>5 DEF Sweep
    <2> QED
      BY <2>1, <2>2, <2>3 DEF Covers
  <1>6. ASSUME Crash \/ (\E left \in Fragments(blocked) : CrashWhileSaving(left))
        PROVE  /\ IptablesUntimed'
               /\ (\A i \in IPs \ unsure : Covers(kernel[i], blocked[i]))'
    <2>1. backend' = backend /\ kernel' = kernel /\ blocked' = Empty
      BY <1>6 DEF Crash, CrashWhileSaving, Die
    <2>2. \A i \in IPs : Covers(kernel'[i], blocked'[i])
      BY <2>1, NothingIsCovered DEF Empty
    <2> QED
      BY <2>1, <2>2 DEF CoverInv, IptablesUntimed, Covers
  <1>7. CASE Reboot
    <2>1. backend' = backend /\ blocked' = Empty
      BY <1>7 DEF Reboot, CoverInv, CleanInv, DownHoldsNothing
    <2>2. \A i \in IPs : Covers(kernel'[i], blocked'[i])
      BY <2>1, NothingIsCovered DEF Empty
    <2>3. IptablesUntimed'
      BY <1>7 DEF Reboot, IptablesUntimed, NoRule
    <2> QED
      BY <2>1, <2>2, <2>3 DEF Covers
  <1>8. CASE Tick
    <2>1. backend' = backend /\ unsure' = unsure
      BY <1>8 DEF Tick
    <2>2. \A i \in IPs \ unsure : Covers(kernel'[i], blocked'[i])
      BY <1>8, <1>a, AgedCovers DEF Tick, CoverInv, IptablesUntimed
    <2>3. IptablesUntimed'
      BY <1>8 DEF Tick, CoverInv, IptablesUntimed, RuleAged
    <2> QED
      BY <2>1, <2>2, <2>3 DEF Covers
  <1> QED
    BY <1>1, <1>2, <1>3, <1>4, <1>5, <1>6, <1>7, <1>8
       DEF Next, Sweeping, FailSaving, Restoring, vars,
           Send, Boot, Serve, Save, FailSave

(***************************************************************************)
(* What the daemon lists as blocked is blocked, over any commands, sweeps, *)
(* crashes and reboots, provided nft restarts the timeout of an element    *)
(* that is added again.                                                    *)
(***************************************************************************)
THEOREM EntriesAreEnforced ==
  ASSUME NftRefreshes
  PROVE  Spec => []EntryIsEnforced
  <1>1. Init => CoverInv
    <2> SUFFICES ASSUME Init PROVE CoverInv
      OBVIOUS
    <2>1. CleanInv
      BY InitTypeOK DEF Init, CleanInv, CleanMeansSaved, RestoredSoFar, DownHoldsNothing
    <2>2. IptablesUntimed
      BY DEF Init, IptablesUntimed, NoRule
    <2>3. \A ip \in IPs : Covers(kernel[ip], blocked[ip])
      BY NothingIsCovered DEF Init, Empty
    <2> QED
      BY <2>1, <2>2, <2>3 DEF CoverInv
  <1>2. CoverInv => EntryIsEnforced
    <2> SUFFICES ASSUME CoverInv, NEW ip \in IPs \ unsure,
                        backend # "noop", Live(blocked[ip])
                 PROVE  Enforced(ip)
      BY DEF EntryIsEnforced
    <2>1. backend \in {"nftables", "iptables"}
      BY DEF CoverInv, CleanInv, TypeOK
    <2> QED
      BY <2>1 DEF CoverInv, Covers, Enforced
  <1> QED
    BY <1>1, <1>2, StepCoverInv, PTL DEF Spec

----------------------------------------------------------------------------
(***************************************************************************)
(* With nftables, while the daemon has not crashed, an element is in the   *)
(* kernel only if its address is in the table (or a call for it failed).   *)
(***************************************************************************)
LEMMA AgedPresent ==
  ASSUME NEW entry
  PROVE  Present(Aged(entry)) <=> Present(entry)
  BY DEF Present, Aged

\* A backend call that leaves a rule only with an entry makes no orphan.
LEMMA CallOrphan ==
  ASSUME TypeOK, NoOrphanElement, backend' = backend, crashes' = crashes,
         NEW ip \in IPs, NEW rule \in Rules, NEW entry \in Cells, NEW ok \in BOOLEAN,
         Call(ip, rule, ok), blocked' = [blocked EXCEPT ![ip] = entry],
         backend = "nftables" /\ rule.copies > 0 => Present(entry)
  PROVE  NoOrphanElement'
  <1> SUFFICES ASSUME backend = "nftables", crashes = 0, NEW i \in IPs \ unsure',
                      kernel'[i].copies > 0
               PROVE  Present(blocked'[i])
    BY DEF NoOrphanElement, RuleGoneWithEntry, Enforced
  <1>1. kernel \in [IPs -> Rules] /\ blocked \in [IPs -> Cells]
    BY DEF TypeOK, Tables
  <1>2. CASE i = ip
    BY <1>1, <1>2 DEF Call
  <1>3. CASE i # ip
    <2>1. kernel'[i] = kernel[i] /\ blocked'[i] = blocked[i] /\ i \notin unsure
      BY <1>1, <1>3 DEF Call
    <2> QED
      BY <2>1 DEF NoOrphanElement, RuleGoneWithEntry, Enforced
  <1> QED
    BY <1>2, <1>3

\* No step makes an orphan.
LEMMA StepNoOrphan == TypeOK /\ NoOrphanElement /\ [Next]_vars => NoOrphanElement'
  <1> SUFFICES ASSUME TypeOK, NoOrphanElement, [Next]_vars
               PROVE  NoOrphanElement'
    OBVIOUS
  <1> USE DEF daemon, budget, history
  <1>a. /\ kernel \in [IPs -> Rules] /\ blocked \in [IPs -> Cells]
        /\ db \in [IPs -> Cells] /\ crashes \in Nat /\ backend \in Backends
    BY DEF TypeOK, Tables
  <1>1. CASE UNCHANGED <<backend, crashes, kernel, blocked, unsure>>
    BY <1>1 DEF NoOrphanElement, RuleGoneWithEntry, Enforced
  <1>2. ASSUME NEW ip \in IPs, NEW ok \in BOOLEAN, Restore(ip, ok)
        PROVE  NoOrphanElement'
    <2>1. Present(db[ip]) /\ db[ip].ttl \in TTLs \cup {Forever}
      BY <1>2, <1>a, PresentType DEF Restore, WithRestored, TypeOK, Entries
    <2>2. Block(kernel[ip], db[ip].ttl) \in Rules
      BY <1>a, <2>1, BlockType
    <2> QED
      BY <1>2, <1>a, <2>1, <2>2, CallOrphan DEF Restore, WithRestored
  <1>3. ASSUME NEW c \in Commands, NEW ok \in BOOLEAN, ProcessBlock(c, ok)
        PROVE  NoOrphanElement'
    <2>1. c.ip \in IPs /\ c.ttl \in TTLs \cup {Forever}
      BY DEF Commands
    <2>2. NewEntry(c.ttl).ttl = c.ttl
      BY DEF NewEntry
    <2>3. c.ttl # 0
      BY <2>1
    <2>4. Block(kernel[c.ip], c.ttl) \in Rules
      BY <1>a, <2>1, BlockType
    <2> QED
      BY <1>3, <2>1, <2>2, <2>3, <2>4, NewEntryType, CallOrphan
         DEF ProcessBlock, Execute, Present
  <1>4. ASSUME NEW c \in Commands, NEW ok \in BOOLEAN, ProcessUnblock(c, ok)
        PROVE  NoOrphanElement'
    <2>1. c.ip \in IPs
      BY DEF Commands
    <2>2. Unblock(kernel[c.ip]) \in Rules
      BY <1>a, <2>1, UnblockType
    <2>3. backend = "nftables" => Unblock(kernel[c.ip]).copies = 0
      BY DEF Unblock, NoRule
    <2>4. /\ Call(c.ip, Unblock(kernel[c.ip]), ok)
          /\ blocked' = [blocked EXCEPT ![c.ip] = NoEntry]
          /\ backend' = backend /\ crashes' = crashes
      BY <1>4 DEF ProcessUnblock, Execute
    <2>5. ~ (backend = "nftables" /\ Unblock(kernel[c.ip]).copies > 0)
      BY <2>3
    <2> QED
      BY <2>1, <2>2, <2>4, <2>5, NoEntryType, CallOrphan
  <1>5. ASSUME NEW refused \in SUBSET IPs, Sweep(refused)
        PROVE  NoOrphanElement'
    <2> SUFFICES ASSUME backend = "nftables", crashes = 0, NEW i \in IPs \ unsure',
                        kernel'[i].copies > 0
                 PROVE  Present(blocked'[i])
      BY <1>5 DEF Sweep, NoOrphanElement, RuleGoneWithEntry, Enforced
    <2>1. i \notin LapsedIPs
      BY <1>5 DEF Sweep, Unblock, NoRule
    <2> QED
      BY <1>5, <2>1 DEF Sweep, NoOrphanElement, RuleGoneWithEntry, Enforced
  <1>6. ASSUME Crash \/ (\E left \in Fragments(blocked) : CrashWhileSaving(left))
        PROVE  NoOrphanElement'
    <2>1. crashes' # 0
      BY <1>6, <1>a DEF Crash, CrashWhileSaving, Die
    <2> QED
      BY <2>1 DEF NoOrphanElement, RuleGoneWithEntry
  <1>7. CASE Reboot
    BY <1>7 DEF Reboot, NoOrphanElement, RuleGoneWithEntry, Enforced, NoRule
  <1>8. CASE Tick
    <2>1. \A i \in IPs : kernel'[i].copies > 0 => kernel[i].copies > 0
      BY <1>8, <1>a DEF Tick, RuleAged, NoRule, Rules
    <2>2. \A i \in IPs : Present(blocked'[i]) <=> Present(blocked[i])
      BY <1>8, AgedPresent DEF Tick
    <2> QED
      BY <1>8, <2>1, <2>2 DEF Tick, NoOrphanElement, RuleGoneWithEntry, Enforced
  <1> QED
    BY <1>1, <1>2, <1>3, <1>4, <1>5, <1>6, <1>7, <1>8
       DEF Next, Sweeping, FailSaving, Restoring, vars,
           Send, Boot, Serve, Save, FailSave

(***************************************************************************)
(* With nftables no rule outlives its entry while the daemon lives; what   *)
(* the comment on the sweep says, for the backend that has timeouts.       *)
(***************************************************************************)
THEOREM NftLeavesNoOrphan == Spec => []NoOrphanElement
  <1>1. Init => NoOrphanElement
    BY DEF Init, NoOrphanElement, RuleGoneWithEntry, Enforced, NoRule
  <1> QED
    BY <1>1, InitTypeOK, StepTypeOK, StepNoOrphan, PTL DEF Spec
=============================================================================
