---------------------- MODULE SessionWithdrawalProofs ----------------------
(***************************************************************************)
(* What TLAPS shows of SessionWithdrawal, for any tree of sessions, any    *)
(* files, drivers and bounds: children are withdrawn first, a session is   *)
(* deleted and recorded once, cleaners run over a quiet session, and a     *)
(* completed receipt is true and stays.                                    *)
(***************************************************************************)
EXTENDS SessionWithdrawal, FiniteSetTheorems, TLAPS

\* What the store says of a session hangs together: a receipt exists from the moment it
\* closes, nothing executes a session that is gone or was never there, its deletion is
\* recorded once, and it went with its rows and after its children.
StoreOK(s) ==
  /\ receipt[s] = "none" <=> row[s] \in {"none", "active"}
  /\ executing[s] => row[s] \in {"active", "deleting"}
  /\ audits[s] = IF row[s] = "gone" THEN 1 ELSE 0
  /\ receipt[s] = "completed" => row[s] = "gone" /\ s \notin cites
  /\ row[s] = "gone" =>
       /\ \A f \in Files : Owner[f] = s => entry[f] = "none" /\ f \notin proposals
       /\ \A c \in Sessions : Parent[c] = s =>
            row[c] = "none" \/ (row[c] = "gone" /\ receipt[c] = "completed")

Cleaning == {"sandbox", "vault", "forget_sandbox", "forget_vault"}

\* What a driver at work may rely on: it works on closed sessions, cleans a quiet one, and
\* completes one that is gone and no longer cited.
DriverOK(rec) ==
  rec.pc # "idle" =>
    /\ rec.root \in Sessions /\ rec.cur \in Sessions
    /\ receipt[rec.root] # "none" /\ receipt[rec.cur] # "none"
    /\ rec.pc \in Cleaning => ~executing[rec.cur] /\ PendingChildren(rec.cur) = {}
    /\ rec.pc \in {"complete", "finish", "unfinish"} => row[rec.cur] = "gone"
    /\ rec.pc = "finish" => rec.cur \notin cites

StoresOK == \A s \in Sessions : StoreOK(s)
DriversOK == \A d \in Drivers : DriverOK(driver[d])

IInv == TypeOK /\ StoresOK /\ DriversOK

\* What no step undoes, and so what drivers rely on between their transactions: a receipt
\* and its completion, the deletion, the silence around a closed session, and that no
\* belief cites a session that is gone.
Kept ==
  \A s \in Sessions :
    /\ receipt[s] # "none" => receipt'[s] # "none"
    /\ receipt[s] # "none" /\ executing'[s] => executing[s]
    /\ receipt[s] = "completed" => receipt'[s] = "completed" /\ retained'[s] = retained[s]
    /\ row[s] = "gone" => row'[s] = "gone"
    /\ row[s] = "gone" /\ s \notin cites => s \notin cites'
    /\ row[s] = "none" /\ Parent[s] \in Sessions /\ row[Parent[s]] # "active" =>
         row'[s] = "none" /\ receipt'[s] = "none"

-----------------------------------------------------------------------------
\* What a driver relies on outlives the steps of everyone else.
LEMMA DriverStable ==
  ASSUME TypeOK, StoresOK, TypeOK', Kept, NEW rec \in DriverRecs, DriverOK(rec)
  PROVE  DriverOK(rec)'
<1> SUFFICES ASSUME rec.pc # "idle"
             PROVE  DriverOK(rec)'
  BY DEF DriverOK
<1>1. /\ rec.root \in Sessions /\ rec.cur \in Sessions
      /\ receipt[rec.root] # "none" /\ receipt[rec.cur] # "none"
      /\ rec.pc \in Cleaning => ~executing[rec.cur] /\ PendingChildren(rec.cur) = {}
      /\ rec.pc \in {"complete", "finish", "unfinish"} => row[rec.cur] = "gone"
      /\ rec.pc = "finish" => rec.cur \notin cites
  BY DEF DriverOK
<1>2. /\ receipt'[rec.root] # "none" /\ receipt'[rec.cur] # "none"
      /\ rec.pc \in Cleaning => ~executing'[rec.cur]
      /\ rec.pc \in {"complete", "finish", "unfinish"} => row'[rec.cur] = "gone"
      /\ rec.pc = "finish" => rec.cur \notin cites'
  BY <1>1 DEF Kept
<1>3. ASSUME rec.pc \in Cleaning, NEW c \in Sessions, Parent[c] = rec.cur
      PROVE  row'[c] \notin {"active", "deleting"}
             /\ receipt'[c] \notin {"quiescing", "failed_external"}
  <2>1. row[c] \notin {"active", "deleting"}
        /\ receipt[c] \notin {"quiescing", "failed_external"}
    BY <1>1, <1>3 DEF PendingChildren, Children, Unfinished
  <2>2. row[rec.cur] # "active"
    BY <1>1 DEF StoresOK, StoreOK
  <2>3. row[c] \in {"none", "active", "deleting", "gone"}
        /\ receipt[c] \in {"none", "quiescing", "failed_external", "completed"}
    BY DEF TypeOK
  <2>4. CASE row[c] = "none"
    BY <1>1, <1>3, <2>2, <2>4 DEF Kept
  <2>5. CASE row[c] = "gone"
    <3>1. receipt[c] = "completed"
      BY <2>1, <2>3, <2>5 DEF StoresOK, StoreOK
    <3> QED BY <3>1, <2>5 DEF Kept
  <2> QED BY <2>1, <2>3, <2>4, <2>5
<1>4. rec.pc \in Cleaning => PendingChildren(rec.cur)' = {}
  BY <1>3 DEF PendingChildren, Children, Unfinished
<1> QED BY <1>1, <1>2, <1>4 DEF DriverOK

\* Where no driver moves, all of them keep what they rely on.
LEMMA NoneMoves ==
  ASSUME TypeOK, StoresOK, DriversOK, TypeOK', Kept, driver' = driver
  PROVE  DriversOK'
<1> SUFFICES ASSUME NEW e \in Drivers
             PROVE  DriverOK(driver[e])'
  BY DEF DriversOK
<1>1. PICK rec \in DriverRecs : rec = driver[e]
  BY DEF TypeOK
<1>2. DriverOK(rec)
  BY <1>1 DEF DriversOK
<1>3. DriverOK(rec)'
  BY <1>2, DriverStable
<1>4. rec = driver'[e]
  BY <1>1
<1> QED BY <1>3, <1>4 DEF DriverOK

\* Where one moves, the others do, and it only has to answer for its new place.
LEMMA OneMoves ==
  ASSUME TypeOK, StoresOK, DriversOK, TypeOK', Kept,
         NEW d \in Drivers, NEW rec \in DriverRecs,
         driver' = [driver EXCEPT ![d] = rec], DriverOK(rec)'
  PROVE  DriversOK'
<1> SUFFICES ASSUME NEW e \in Drivers
             PROVE  DriverOK(driver[e])'
  BY DEF DriversOK
<1>1. CASE e = d
  <2>1. rec = driver'[e]
    BY <1>1 DEF TypeOK
  <2> QED BY <2>1 DEF DriverOK
<1>2. CASE e # d
  <2>1. PICK old \in DriverRecs : old = driver[e]
    BY DEF TypeOK
  <2>2. DriverOK(old)
    BY <2>1 DEF DriversOK
  <2>3. DriverOK(old)'
    BY <2>2, DriverStable
  <2>4. old = driver'[e]
    BY <2>1, <1>2 DEF TypeOK
  <2> QED BY <2>3, <2>4 DEF DriverOK
<1> QED BY <1>1, <1>2

LEMMA IdleIsRest == Idle \in DriverRecs /\ Idle.pc = "idle"
  BY DEF Idle, DriverRecs, Pcs

LEMMA Resting ==
  ASSUME NEW rec \in DriverRecs
  PROVE  /\ ToRest(rec) \in DriverRecs
         /\ ToRest(rec).pc \in {"advance", "child"}
         /\ ToRest(rec).root = rec.root
         /\ ToRest(rec).cur = rec.root
<1>1. /\ rec.root \in Sessions \cup {NoSession}
      /\ rec.todo \in SUBSET Sessions
      /\ rec = [pc |-> rec.pc, root |-> rec.root, cur |-> rec.cur, todo |-> rec.todo,
                failed |-> rec.failed, unfinal |-> rec.unfinal]
  BY DEF DriverRecs
<1> QED BY <1>1, Zenon DEF ToRest, DriverRecs, Pcs

\* Leaving a session ends in the root or in rest, which ask for less.
LEMMA Leaving ==
  ASSUME TypeOK, NEW d \in Drivers, DriverOK(driver[d]), driver[d].pc # "idle", Leave(d)
  PROVE  \E rec \in DriverRecs : driver' = [driver EXCEPT ![d] = rec] /\ DriverOK(rec)
<1>1. PICK old \in DriverRecs : old = driver[d]
  BY DEF TypeOK
<1>2. PICK rec : rec = IF old.cur = old.root THEN Idle ELSE ToRest(old)
  OBVIOUS
<1>3. driver' = [driver EXCEPT ![d] = rec]
  BY <1>1, <1>2 DEF Leave
<1>4. rec \in DriverRecs
  BY <1>2, IdleIsRest, Resting
<1>5. old.root \in Sessions /\ receipt[old.root] # "none"
  BY <1>1 DEF DriverOK
<1>6. DriverOK(rec)
  BY <1>2, <1>5, IdleIsRest, Resting DEF DriverOK, Cleaning
<1> QED BY <1>3, <1>4, <1>6, Zenon

-----------------------------------------------------------------------------
\* What every step shows.
Holds == TypeOK' /\ StoresOK' /\ DriversOK' /\ Kept

\* Steps that touch rows of files, proposals and beliefs only: a session that is gone has
\* no rows and takes no new citation.
LEMMA FilesMove ==
  ASSUME TypeOK, StoresOK,
         UNCHANGED <<row, executing, receipt, retained, audits>>,
         \A f \in Files : row[Owner[f]] = "gone" => entry'[f] = "none" /\ f \notin proposals',
         \A s \in Sessions : row[s] = "gone" /\ s \notin cites => s \notin cites'
  PROVE  StoresOK' /\ Kept
<1>1. StoresOK'
  <2> SUFFICES ASSUME NEW s \in Sessions
               PROVE  StoreOK(s)'
    BY DEF StoresOK
  <2>1. StoreOK(s)
    BY DEF StoresOK
  <2> QED BY <2>1 DEF StoreOK
<1>2. Kept
  BY DEF Kept, StoresOK, StoreOK
<1> QED BY <1>1, <1>2

\* Steps that leave all of the store alone.
LEMMA StoreStays ==
  ASSUME TypeOK, StoresOK,
         UNCHANGED <<row, executing, receipt, retained, audits, entry, proposals, cites>>
  PROVE  StoresOK' /\ Kept
<1>1. \A f \in Files : row[Owner[f]] = "gone" => entry[f] = "none" /\ f \notin proposals
  BY FileAssumption DEF StoresOK, StoreOK
<1> QED BY <1>1, FilesMove

\* An advance that stops at a gate, and a recorded failure: the open receipt stays open.
LEMMA ReceiptMoves ==
  ASSUME TypeOK, StoresOK, NEW s \in Sessions, NEW v \in {"quiescing", "failed_external"},
         receipt[s] \notin {"none", "completed"},
         receipt' = [receipt EXCEPT ![s] = v],
         UNCHANGED <<row, executing, retained, audits, proposals, cites>>,
         \A f \in Files : row[Owner[f]] = "gone" => entry'[f] = "none"
  PROVE  StoresOK' /\ Kept
<1>1. \A x \in Sessions : /\ receipt'[x] = "none" <=> receipt[x] = "none"
                          /\ receipt'[x] = "completed" <=> receipt[x] = "completed"
  BY DEF TypeOK
<1>2. StoresOK'
  <2> SUFFICES ASSUME NEW x \in Sessions
               PROVE  StoreOK(x)'
    BY DEF StoresOK
  <2>1. StoreOK(x)
    BY DEF StoresOK
  <2> QED BY <1>1, <2>1 DEF StoreOK
<1>3. Kept
  BY <1>1 DEF Kept, StoresOK, StoreOK
<1> QED BY <1>2, <1>3

-----------------------------------------------------------------------------
\* Runs and tool calls.

LEMMA CreateChildHolds ==
  ASSUME IInv, NEW c \in Sessions, CreateChild(c)
  PROVE  Holds
<1>1. /\ Parent[c] \in Sessions
      /\ row[c] = "none" /\ row[Parent[c]] = "active"
      /\ row' = [row EXCEPT ![c] = "active"]
      /\ UNCHANGED <<executing, overdue, receipt, retained, audits, entry, bound, disk,
                     writer, writes, proposals, cites, driver, faults>>
  BY TreeAssumption DEF CreateChild, receiptVars, fileVars, writerVars, memoryVars
<1>2. TypeOK'
  BY <1>1 DEF IInv, TypeOK
<1>3. \A x \in Sessions : x # c => row'[x] = row[x]
  BY <1>1 DEF IInv, TypeOK
<1>4. row'[c] = "active"
  BY <1>1 DEF IInv, TypeOK
<1>5. StoresOK'
  <2> SUFFICES ASSUME NEW x \in Sessions
               PROVE  StoreOK(x)'
    BY DEF StoresOK
  <2>1. StoreOK(x) /\ StoreOK(c)
    BY DEF IInv, StoresOK
  <2>2. CASE x = c
    BY <1>1, <1>4, <2>1, <2>2 DEF StoreOK
  <2>3. CASE x # c
    BY <1>1, <1>3, <2>1, <2>3 DEF StoreOK
  <2> QED BY <2>2, <2>3
<1>6. Kept
  BY <1>1, <1>3, <1>4 DEF Kept, IInv, StoresOK, StoreOK
<1>7. DriversOK'
  BY <1>1, <1>2, <1>6, NoneMoves DEF IInv
<1> QED BY <1>2, <1>5, <1>6, <1>7 DEF Holds

LEMMA ExecutionHolds ==
  ASSUME IInv, NEW s \in Sessions, StartExecution(s) \/ ExitExecution(s)
  PROVE  Holds
<1>1. /\ executing' \in [Sessions -> BOOLEAN]
      /\ \A x \in Sessions : executing'[x] => executing[x] \/ row[x] = "active"
      /\ UNCHANGED <<row, overdue, receipt, retained, audits, entry, bound, disk,
                     writer, proposals, cites, driver, faults>>
  BY Zenon DEF StartExecution, ExitExecution, receiptVars, fileVars, writerVars, memoryVars, IInv, TypeOK
<1>2. writes' \in [Files -> 0..MaxWrites]
  BY BoundAssumption DEF StartExecution, ExitExecution, writerVars, IInv, TypeOK
<1>3. TypeOK'
  BY <1>1, <1>2 DEF IInv, TypeOK
<1>4. StoresOK'
  <2> SUFFICES ASSUME NEW x \in Sessions
               PROVE  StoreOK(x)'
    BY DEF StoresOK
  <2>1. StoreOK(x)
    BY DEF IInv, StoresOK
  <2> QED BY <1>1, <2>1 DEF StoreOK
<1>5. Kept
  BY <1>1 DEF Kept, IInv, StoresOK, StoreOK
<1>6. DriversOK'
  BY <1>1, <1>3, <1>5, NoneMoves DEF IInv
<1> QED BY <1>3, <1>4, <1>5, <1>6 DEF Holds

LEMMA GoneIsEmpty ==
  ASSUME StoresOK, NEW f \in Files, row[Owner[f]] = "gone"
  PROVE  entry[f] = "none" /\ f \notin proposals
  BY FileAssumption DEF StoresOK, StoreOK

LEMMA FileSteps ==
  ASSUME IInv, TypeOK',
         UNCHANGED <<row, executing, receipt, retained, audits, driver>>,
         \A f \in Files : row[Owner[f]] = "gone" => entry'[f] = "none" /\ f \notin proposals',
         \A s \in Sessions : row[s] = "gone" /\ s \notin cites => s \notin cites'
  PROVE  Holds
<1>1. StoresOK' /\ Kept
  BY FilesMove DEF IInv
<1> QED BY <1>1, NoneMoves DEF IInv, Holds

LEMMA QuietSteps ==
  ASSUME IInv, TypeOK',
         UNCHANGED <<row, executing, receipt, retained, audits, entry, proposals, cites, driver>>
  PROVE  Holds
  BY FileSteps, GoneIsEmpty DEF IInv

LEMMA DeadlineHolds ==
  ASSUME IInv, NEW s \in Sessions, DeadlinePasses(s)
  PROVE  Holds
<1>1. /\ overdue' = [overdue EXCEPT ![s] = TRUE]
      /\ UNCHANGED <<row, executing, receipt, retained, audits, entry, bound, disk, writer,
                     writes, proposals, cites, driver, faults>>
  BY DEF DeadlinePasses, receiptVars, fileVars, writerVars, memoryVars
<1>2. TypeOK'
  BY <1>1 DEF IInv, TypeOK
<1> QED BY <1>1, <1>2, QuietSteps

LEMMA BytesHold ==
  ASSUME IInv, NEW f \in Files, InstallWrite(f) \/ LoseReport(f) \/ UserRemoves(f)
  PROVE  Holds
<1>1. /\ writer' \in [Files -> {"idle", "create", "update", "installed"}]
      /\ disk' \subseteq Files
      /\ faults' \in 0..MaxFaults
      /\ UNCHANGED <<row, executing, overdue, receipt, retained, audits, entry, bound,
                     writes, proposals, cites, driver>>
  BY BoundAssumption DEF InstallWrite, LoseReport, UserRemoves, Fault, sessionVars, receiptVars,
       fileVars, writerVars, memoryVars, IInv, TypeOK
<1>2. TypeOK'
  BY <1>1 DEF IInv, TypeOK
<1> QED BY <1>1, <1>2, QuietSteps

\* Only an active session admits a write, and a row that is gone is not written again.
LEMMA WritesHold ==
  ASSUME IInv, NEW f \in Files, ReserveWrite(f) \/ FailWrite(f) \/ FinalizeWrite(f)
  PROVE  Holds
<1>1. /\ writer' \in [Files -> {"idle", "create", "update", "installed"}]
      /\ entry' \in [Files -> {"none", "writing", "ready", "delete_failed"}]
      /\ \A g \in Files : g # f => entry'[g] = entry[g]
      /\ entry'[f] = "none" \/ entry[f] # "none" \/ row[Owner[f]] = "active"
  BY DEF ReserveWrite, FailWrite, FinalizeWrite, IInv, TypeOK
<1>2. UNCHANGED <<row, executing, overdue, receipt, retained, audits, bound, disk,
                  proposals, cites, driver, faults>>
  BY DEF ReserveWrite, FailWrite, FinalizeWrite, sessionVars, receiptVars, memoryVars
<1>3. writes' \in [Files -> 0..MaxWrites]
  BY BoundAssumption DEF ReserveWrite, FailWrite, FinalizeWrite, IInv, TypeOK
<1>4. TypeOK'
  BY <1>1, <1>2, <1>3 DEF IInv, TypeOK
<1>5. \A g \in Files : row[Owner[g]] = "gone" => entry'[g] = "none" /\ g \notin proposals
  BY <1>1, GoneIsEmpty DEF IInv
<1> QED BY <1>2, <1>4, <1>5, FileSteps

\* A note is recorded, or given up, over a row that is still there.
LEMMA NotesHold ==
  ASSUME IInv, NEW f \in Files, RecordNote(f) \/ AbandonNote(f)
  PROVE  Holds
<1>1. /\ writer' \in [Files -> {"idle", "create", "update", "installed"}]
      /\ entry' \in [Files -> {"none", "writing", "ready", "delete_failed"}]
      /\ \A g \in Files : g # f => entry'[g] = entry[g]
      /\ entry'[f] = "none" \/ entry[f] # "none"
  BY DEF RecordNote, AbandonNote, fileVars, IInv, TypeOK
<1>2. /\ proposals' \subseteq Files
      /\ \A g \in proposals' : g \in proposals \/ (g = f /\ entry[f] # "none")
  BY DEF RecordNote, AbandonNote, memoryVars, IInv, TypeOK
<1>3. bound' \subseteq Files /\ disk' \subseteq Files
  BY DEF RecordNote, AbandonNote, fileVars, IInv, TypeOK
<1>4. faults' \in 0..MaxFaults
  BY BoundAssumption DEF RecordNote, AbandonNote, Fault, IInv, TypeOK
<1>5. UNCHANGED <<row, executing, overdue, receipt, retained, audits, writes, cites, driver>>
  BY DEF RecordNote, AbandonNote, sessionVars, receiptVars, memoryVars
<1>6. TypeOK'
  BY <1>1, <1>2, <1>3, <1>4, <1>5 DEF IInv, TypeOK
<1>7. \A g \in Files : row[Owner[g]] = "gone" => entry'[g] = "none" /\ g \notin proposals'
  BY <1>1, <1>2, GoneIsEmpty DEF IInv
<1> QED BY <1>5, <1>6, <1>7, FileSteps

\* A decision is made while the session is active.
LEMMA DecisionsHold ==
  ASSUME IInv, NEW f \in Files, Promote(f) \/ Reject(f)
  PROVE  Holds
<1>0. Decided(f)
  BY DEF Promote, Reject
<1>1. /\ row[Owner[f]] = "active"
      /\ entry' \in [Files -> {"none", "writing", "ready", "delete_failed"}]
      /\ \A g \in Files : g # f => entry'[g] = entry[g]
      /\ proposals' \subseteq proposals
  BY <1>0 DEF Decided, IInv, TypeOK
<1>2. bound' \subseteq Files /\ disk' \subseteq Files
  BY <1>0 DEF Decided, IInv, TypeOK
<1>3. faults' \in 0..MaxFaults
  BY <1>0, BoundAssumption DEF Decided, Fault, NoFault, IInv, TypeOK
<1>4. /\ cites' \subseteq cites \cup {Owner[f]}
      /\ UNCHANGED <<row, executing, overdue, receipt, retained, audits, writer, writes, driver>>
  BY DEF Promote, Reject, sessionVars, receiptVars, writerVars
<1>5. Owner[f] \in Sessions
  BY FileAssumption
<1>6. TypeOK'
  BY <1>1, <1>2, <1>3, <1>4, <1>5 DEF IInv, TypeOK
<1>7. \A g \in Files : row[Owner[g]] = "gone" => entry'[g] = "none" /\ g \notin proposals'
  BY <1>1, GoneIsEmpty DEF IInv
<1>8. \A s \in Sessions : row[s] = "gone" /\ s \notin cites => s \notin cites'
  BY <1>1, <1>4
<1> QED BY <1>4, <1>6, <1>7, <1>8, FileSteps

\* A reconcile binds rows that are there and drops others.
LEMMA ReconcileKeeps ==
  ASSUME TypeOK, StoresOK, ReconcileVault
  PROVE  /\ entry' \in [Files -> {"none", "writing", "ready", "delete_failed"}]
         /\ bound' \subseteq Files
         /\ proposals' \subseteq Files
         /\ cites' \subseteq Sessions
         /\ \A f \in Files : row[Owner[f]] = "gone" => entry'[f] = "none" /\ f \notin proposals'
         /\ \A s \in Sessions : row[s] = "gone" => s \notin cites'
<1>1. /\ \A f \in Files : entry[f] \in {"none", "writing", "ready", "delete_failed"}
      /\ Landed \subseteq Files /\ \A f \in Landed : entry[f] # "none"
  BY DEF TypeOK, Landed
<1>2. /\ entry' \in [Files -> {"none", "writing", "ready", "delete_failed"}]
      /\ \A f \in Files : entry'[f] = "none" \/ entry[f] # "none"
  BY <1>1 DEF ReconcileVault
<1>3. bound' \subseteq Files /\ proposals' \subseteq proposals /\ cites' \subseteq cites
  BY <1>1 DEF ReconcileVault, TypeOK
<1>4. \A s \in Sessions : row[s] = "gone" => s \notin cites'
  BY DEF ReconcileVault
<1> QED BY <1>2, <1>3, <1>4, GoneIsEmpty DEF TypeOK

LEMMA ReconcileHolds ==
  ASSUME IInv, Reconcile
  PROVE  Holds
<1>1. UNCHANGED <<row, executing, overdue, receipt, retained, audits, disk, writer, writes,
                  driver, faults>>
  BY DEF Reconcile, sessionVars, receiptVars, writerVars
<1>2. TypeOK'
  BY <1>1, ReconcileKeeps DEF Reconcile, IInv, TypeOK
<1> QED BY <1>1, <1>2, ReconcileKeeps, FileSteps DEF Reconcile, IInv

-----------------------------------------------------------------------------
\* Drivers.

\* A deletion begins over an active session; one that has a receipt is left as it is.
LEMMA BeginKeeps ==
  ASSUME TypeOK, StoresOK, NEW s \in Sessions, BeginDeletion(s),
         UNCHANGED <<executing, retained, audits, entry, proposals, cites>>
  PROVE  /\ row' \in [Sessions -> {"none", "active", "deleting", "gone"}]
         /\ receipt' \in [Sessions -> {"none", "quiescing", "failed_external", "completed"}]
         /\ receipt'[s] # "none"
         /\ StoresOK' /\ Kept
<1>0. /\ row \in [Sessions -> {"none", "active", "deleting", "gone"}]
      /\ receipt \in [Sessions -> {"none", "quiescing", "failed_external", "completed"}]
  BY DEF TypeOK
<1>1. /\ row[s] # "none"
      /\ row' = [row EXCEPT ![s] = IF receipt[s] = "none" THEN "deleting" ELSE row[s]]
      /\ receipt' = [receipt EXCEPT ![s] = IF receipt[s] = "none" THEN "quiescing" ELSE receipt[s]]
  BY DEF BeginDeletion
<1>2. /\ row' \in [Sessions -> {"none", "active", "deleting", "gone"}]
      /\ receipt' \in [Sessions -> {"none", "quiescing", "failed_external", "completed"}]
      /\ receipt'[s] # "none"
      /\ \A x \in Sessions : x # s \/ receipt[s] # "none" =>
           row'[x] = row[x] /\ receipt'[x] = receipt[x]
      /\ receipt[s] = "none" => row'[s] = "deleting" /\ receipt'[s] = "quiescing"
  BY <1>0, <1>1
<1>3. receipt[s] = "none" => row[s] = "active"
  BY <1>1 DEF StoresOK, StoreOK
<1>4. StoresOK'
  <2> SUFFICES ASSUME NEW x \in Sessions
               PROVE  StoreOK(x)'
    BY DEF StoresOK
  <2>1. StoreOK(x) /\ StoreOK(s)
    BY DEF StoresOK
  <2>2. CASE x = s /\ receipt[s] = "none"
    BY <1>2, <1>3, <2>1, <2>2 DEF StoreOK
  <2>3. CASE x # s \/ receipt[s] # "none"
    <3>1. row'[x] = row[x] /\ receipt'[x] = receipt[x]
      BY <1>2, <2>3
    <3>2. ASSUME row[x] = "gone", NEW c \in Sessions, Parent[c] = x
          PROVE  row'[c] = "none" \/ (row'[c] = "gone" /\ receipt'[c] = "completed")
      <4>1. row[c] = "none" \/ (row[c] = "gone" /\ receipt[c] = "completed")
        BY <2>1, <3>2 DEF StoreOK
      <4> QED BY <4>1, <1>1, <1>2, <1>3
    <3> QED BY <2>1, <3>1, <3>2 DEF StoreOK
  <2> QED BY <2>2, <2>3
<1>5. Kept
  BY <1>1, <1>2, <1>3 DEF Kept, StoresOK, StoreOK
<1> QED BY <1>2, <1>4, <1>5

LEMMA WithdrawHolds ==
  ASSUME IInv, NEW d \in Drivers, NEW s \in Sessions, Withdraw(d, s)
  PROVE  Holds
<1> DEFINE rec == [Idle EXCEPT !.pc = "children", !.root = s, !.cur = s]
<1>1. /\ BeginDeletion(s)
      /\ driver' = [driver EXCEPT ![d] = rec]
      /\ UNCHANGED <<executing, overdue, retained, audits, entry, bound, disk, writer, writes,
                     proposals, cites, faults>>
  BY DEF Withdraw, fileVars, writerVars, memoryVars
<1>2. rec \in DriverRecs /\ rec.pc = "children" /\ rec.root = s /\ rec.cur = s
  BY Zenon DEF Idle, DriverRecs, Pcs
<1>3. /\ row' \in [Sessions -> {"none", "active", "deleting", "gone"}]
      /\ receipt' \in [Sessions -> {"none", "quiescing", "failed_external", "completed"}]
      /\ receipt'[s] # "none"
      /\ StoresOK' /\ Kept
  BY <1>1, BeginKeeps DEF IInv
<1> HIDE DEF rec
<1>4. TypeOK'
  BY <1>1, <1>2, <1>3 DEF IInv, TypeOK
<1>5. DriverOK(rec)'
  BY <1>2, <1>3 DEF DriverOK, Cleaning
<1>6. DriversOK'
  BY <1>1, <1>2, <1>3, <1>4, <1>5, OneMoves, Zenon DEF IInv
<1> QED BY <1>3, <1>4, <1>6 DEF Holds

LEMMA WithdrawChildHolds ==
  ASSUME IInv, NEW d \in Drivers, NEW c \in Sessions, WithdrawChild(d, c)
  PROVE  Holds
<1>0. PICK old \in DriverRecs : old = driver[d]
  BY DEF IInv, TypeOK
<1> DEFINE rec == [old EXCEPT !.pc = "advance", !.cur = c, !.todo = old.todo \ {c}]
<1>1. /\ old.pc = "child"
      /\ BeginDeletion(c)
      /\ driver' = [driver EXCEPT ![d] = rec]
      /\ UNCHANGED <<executing, overdue, retained, audits, entry, bound, disk, writer, writes,
                     proposals, cites, faults>>
  <2>1. driver' = [driver EXCEPT ![d] = rec]
    BY <1>0 DEF WithdrawChild, IInv, TypeOK, DriverRecs
  <2> QED BY <1>0, <2>1, Zenon DEF WithdrawChild, At, fileVars, writerVars, memoryVars
<1>2. rec \in DriverRecs /\ rec.pc = "advance" /\ rec.root = old.root /\ rec.cur = c
  BY <1>0, Zenon DEF DriverRecs, Pcs
<1>3. /\ row' \in [Sessions -> {"none", "active", "deleting", "gone"}]
      /\ receipt' \in [Sessions -> {"none", "quiescing", "failed_external", "completed"}]
      /\ receipt'[c] # "none"
      /\ StoresOK' /\ Kept
  BY <1>1, BeginKeeps DEF IInv
<1>4. old.root \in Sessions /\ receipt[old.root] # "none"
  BY <1>0, <1>1 DEF IInv, DriversOK, DriverOK
<1> HIDE DEF rec
<1>5. TypeOK'
  BY <1>1, <1>2, <1>3 DEF IInv, TypeOK
<1>6. DriverOK(rec)'
  BY <1>2, <1>3, <1>4 DEF DriverOK, Cleaning, Kept
<1>7. DriversOK'
  BY <1>1, <1>2, <1>3, <1>5, <1>6, OneMoves, Zenon DEF IInv
<1> QED BY <1>3, <1>5, <1>7 DEF Holds

\* A driver's step over a store that holds, to a place it may be in before the step.
LEMMA DriverSteps ==
  ASSUME IInv, TypeOK', StoresOK', Kept, NEW d \in Drivers, NEW rec \in DriverRecs,
         driver' = [driver EXCEPT ![d] = rec], DriverOK(rec)
  PROVE  Holds
  BY DriverStable, OneMoves, Zenon DEF IInv, Holds

\* A driver's step that ends its work on the session at hand.
LEMMA LeaveSteps ==
  ASSUME IInv, StoresOK', Kept, NEW d \in Drivers, driver[d].pc # "idle", Leave(d),
         driver' \in [Drivers -> DriverRecs] => TypeOK'
  PROVE  Holds
<1>1. PICK rec \in DriverRecs : driver' = [driver EXCEPT ![d] = rec] /\ DriverOK(rec)
  BY Leaving DEF IInv, DriversOK
<1>2. TypeOK'
  BY <1>1 DEF IInv, TypeOK
<1> QED BY <1>1, <1>2, DriverSteps, Zenon

LEMMA ListChildrenHolds ==
  ASSUME IInv, NEW d \in Drivers, ListChildren(d)
  PROVE  Holds
<1>0. PICK old \in DriverRecs : old = driver[d]
  BY DEF IInv, TypeOK
<1>1. PICK todo : todo = PendingChildren(driver[d].root)
  OBVIOUS
<1> DEFINE listed == [old EXCEPT !.todo = todo]
<1>2. /\ old.pc = "children"
      /\ driver' = [driver EXCEPT ![d] = ToRest(listed)]
      /\ UNCHANGED <<row, executing, overdue, receipt, retained, audits, entry, bound, disk,
                     writer, writes, proposals, cites, faults>>
  BY <1>0, <1>1 DEF ListChildren, At, sessionVars, receiptVars, fileVars, writerVars, memoryVars
<1>3. todo \subseteq Sessions
  BY <1>1 DEF PendingChildren, Children
<1>4. listed \in DriverRecs /\ listed.root = old.root
  BY <1>0, <1>3 DEF DriverRecs
<1>5. old.root \in Sessions /\ receipt[old.root] # "none"
  BY <1>0, <1>2 DEF IInv, DriversOK, DriverOK
<1> HIDE DEF listed
<1>6. ToRest(listed) \in DriverRecs
  BY <1>4, Resting
<1>7. DriverOK(ToRest(listed))
  BY <1>4, <1>5, Resting DEF DriverOK, Cleaning
<1>8. TypeOK'
  BY <1>2, <1>6 DEF IInv, TypeOK
<1>9. StoresOK' /\ Kept
  BY <1>2, StoreStays DEF IInv
<1> QED BY <1>2, <1>6, <1>7, <1>8, <1>9, DriverSteps, Zenon

\* The session at hand of an advance or of a mark has a receipt, and so is closed.
LEMMA AtHand ==
  ASSUME IInv, NEW d \in Drivers, driver[d].pc # "idle"
  PROVE  /\ driver[d].cur \in Sessions
         /\ receipt[driver[d].cur] # "none"
         /\ row[driver[d].cur] \in {"deleting", "gone"}
<1>1. driver[d].cur \in Sessions /\ receipt[driver[d].cur] # "none"
  BY DEF IInv, DriversOK, DriverOK
<1> QED BY <1>1 DEF IInv, StoresOK, StoreOK, TypeOK

LEMMA AdvanceCompletedHolds ==
  ASSUME IInv, NEW d \in Drivers, AdvanceCompleted(d)
  PROVE  Holds
<1>1. /\ driver[d].pc # "idle" /\ Leave(d)
      /\ UNCHANGED <<row, executing, overdue, receipt, retained, audits, entry, bound, disk,
                     writer, writes, proposals, cites, faults>>
  BY DEF AdvanceCompleted, Advancing, sessionVars, receiptVars, fileVars, writerVars, memoryVars
<1>2. StoresOK' /\ Kept
  BY <1>1, StoreStays DEF IInv
<1>3. driver' \in [Drivers -> DriverRecs] => TypeOK'
  BY <1>1 DEF IInv, TypeOK
<1> QED BY <1>1, <1>2, <1>3, LeaveSteps

\* The gates that are closed: an executor, or a child.
LEMMA AdvanceStoppedHolds ==
  ASSUME IInv, NEW d \in Drivers, AdvanceExecuting(d) \/ AdvanceChildPending(d)
  PROVE  Holds
<1>1. PICK s \in Sessions : s = driver[d].cur /\ receipt[s] # "none"
  BY AtHand DEF AdvanceExecuting, AdvanceChildPending, Advancing
<1>2. PICK v \in {"quiescing", "failed_external"} : receipt' = [receipt EXCEPT ![s] = v]
  BY <1>1 DEF AdvanceExecuting, AdvanceChildPending
<1>3. /\ receipt[s] # "completed"
      /\ driver[d].pc # "idle" /\ Leave(d)
      /\ UNCHANGED <<row, executing, overdue, retained, audits, entry, bound, disk,
                     writer, writes, proposals, cites, faults>>
  BY <1>1 DEF AdvanceExecuting, AdvanceChildPending, Advancing, sessionVars, fileVars,
       writerVars, memoryVars
<1>4. StoresOK' /\ Kept
  BY <1>1, <1>2, <1>3, ReceiptMoves, GoneIsEmpty, Zenon DEF IInv
<1>5. driver' \in [Drivers -> DriverRecs] => TypeOK'
  BY <1>2, <1>3 DEF IInv, TypeOK
<1> QED BY <1>3, <1>4, <1>5, LeaveSteps

\* The cleaners start over a session found quiet in the transaction that sends them.
LEMMA ArtifactPendingHolds ==
  ASSUME IInv, NEW d \in Drivers, AdvanceArtifactPending(d)
  PROVE  Holds
<1>1. PICK s \in Sessions : s = driver[d].cur /\ receipt[s] # "none"
  BY AtHand DEF AdvanceArtifactPending, Advancing
<1>2. /\ receipt[s] # "completed"
      /\ driver[d].pc \in {"advance", "again"}
      /\ row[s] = "gone" \/ ~executing[s]
      /\ PendingChildren(s) = {}
      /\ receipt' = [receipt EXCEPT ![s] = "failed_external"]
      /\ IF driver[d].pc = "advance" THEN driver' = [driver EXCEPT ![d].pc = "sandbox"] ELSE Leave(d)
      /\ UNCHANGED <<row, executing, overdue, retained, audits, entry, bound, disk,
                     writer, writes, proposals, cites, faults>>
  BY <1>1 DEF AdvanceArtifactPending, Advancing, At, GoTo, Quiet, sessionVars, fileVars,
       writerVars, memoryVars
<1>3. StoresOK' /\ Kept
  BY <1>1, <1>2, ReceiptMoves, GoneIsEmpty, Zenon DEF IInv
<1>4. driver' \in [Drivers -> DriverRecs] => TypeOK'
  BY <1>2 DEF IInv, TypeOK
<1>5. CASE driver[d].pc = "again"
  BY <1>2, <1>3, <1>4, <1>5, LeaveSteps
<1>6. CASE driver[d].pc = "advance"
  <2>1. PICK old \in DriverRecs : old = driver[d]
    BY DEF IInv, TypeOK
  <2> DEFINE rec == [old EXCEPT !.pc = "sandbox"]
  <2>2. driver' = [driver EXCEPT ![d] = rec]
    BY <1>2, <1>6, <2>1
  <2>3. rec \in DriverRecs /\ rec.pc = "sandbox" /\ rec.cur = s /\ rec.root = old.root
    BY <1>1, <2>1 DEF DriverRecs, Pcs
  <2>4. ~executing[s]
    BY <1>2 DEF IInv, StoresOK, StoreOK
  <2>5. old.root \in Sessions /\ receipt[old.root] # "none"
    BY <1>6, <2>1 DEF IInv, DriversOK, DriverOK
  <2> HIDE DEF rec
  <2>6. DriverOK(rec)
    BY <1>1, <1>2, <2>3, <2>4, <2>5 DEF DriverOK
  <2>7. TypeOK'
    BY <1>4, <2>2, <2>3 DEF IInv, TypeOK
  <2> QED BY <1>3, <2>2, <2>3, <2>6, <2>7, DriverSteps, Zenon
<1> QED BY <1>2, <1>5, <1>6

\* The cascade removes the row of a session whose children are all gone and completed.
LEMMA AdvanceCascadeHolds ==
  ASSUME IInv, NEW d \in Drivers, AdvanceCascade(d)
  PROVE  Holds
<1>1. PICK s \in Sessions :
        s = driver[d].cur /\ receipt[s] # "none" /\ row[s] \in {"deleting", "gone"}
  BY AtHand DEF AdvanceCascade, Advancing
<1>2. PICK removed : removed = {x \in {s} \cup Children(s) : row[s] = "deleting" /\ row[x] # "none"}
  BY Zenon
<1>3. /\ driver[d].pc \in {"advance", "again"}
      /\ receipt[s] # "completed"
      /\ row[s] = "gone" \/ ~executing[s]
      /\ PendingChildren(s) = {}
      /\ retained' = [retained EXCEPT ![s] = RetainedCount(s)]
      /\ row' = [x \in Sessions |-> IF x \in removed THEN "gone" ELSE row[x]]
      /\ entry' = [f \in Files |-> IF Owner[f] \in removed THEN "none" ELSE entry[f]]
      /\ bound' = {f \in bound : Owner[f] \notin removed}
      /\ proposals' = {f \in proposals : Owner[f] \notin removed}
      /\ audits' = [audits EXCEPT ![s] = IF row[s] = "deleting" THEN audits[s] + 1 ELSE audits[s]]
      /\ driver' = [driver EXCEPT ![d].pc = "complete"]
      /\ UNCHANGED <<executing, overdue, receipt, disk, writer, writes, cites, faults>>
  BY <1>1, <1>2 DEF AdvanceCascade, Advancing, GoTo, Quiet, DeletionRecords, writerVars
<1>4. \A c \in Sessions : Parent[c] = s =>
        row[c] = "none" \/ (row[c] = "gone" /\ receipt[c] = "completed")
  <2>1. \A c \in Sessions : Parent[c] = s =>
          row[c] \notin {"active", "deleting"} /\ receipt[c] \notin {"quiescing", "failed_external"}
    BY <1>3 DEF PendingChildren, Children, Unfinished
  <2> QED BY <2>1 DEF IInv, StoresOK, StoreOK, TypeOK
<1>5. /\ row'[s] = "gone"
      /\ \A x \in Sessions : x # s => row'[x] = row[x]
  <2>1. row'[s] = "gone"
    BY <1>1, <1>2, <1>3
  <2>2. ASSUME NEW x \in Sessions, x # s
        PROVE  row'[x] = row[x]
    <3>1. CASE x \in removed
      BY <1>2, <1>3, <1>4, <2>2, <3>1 DEF Children
    <3>2. CASE x \notin removed
      BY <1>3, <3>2
    <3> QED BY <3>1, <3>2
  <2> QED BY <2>1, <2>2
<1>6. RetainedCount(s) \in Nat
  <2>1. IsFiniteSet(Rows(s, "legacy"))
    BY FileAssumption, FS_Subset DEF Rows, FilesOf
  <2>2. Cardinality(Rows(s, "legacy")) \in Nat
    BY <2>1, FS_CardinalityType
  <2> QED BY <1>1, <2>2 DEF RetainedCount, IInv, TypeOK
<1>7. PICK old \in DriverRecs : old = driver[d]
  BY DEF IInv, TypeOK
<1> DEFINE rec == [old EXCEPT !.pc = "complete"]
<1>8. driver' = [driver EXCEPT ![d] = rec]
  BY <1>3, <1>7
<1>9. rec \in DriverRecs /\ rec.pc = "complete" /\ rec.cur = s /\ rec.root = old.root
  BY <1>1, <1>7 DEF DriverRecs, Pcs
<1> HIDE DEF rec
<1>10. TypeOK'
  <2>1. row' \in [Sessions -> {"none", "active", "deleting", "gone"}]
    BY <1>3 DEF IInv, TypeOK
  <2>2. entry' \in [Files -> {"none", "writing", "ready", "delete_failed"}]
    BY <1>3 DEF IInv, TypeOK
  <2>3. audits' \in [Sessions -> Nat] /\ retained' \in [Sessions -> Nat]
    BY <1>1, <1>3, <1>6 DEF IInv, TypeOK
  <2>4. bound' \subseteq Files /\ proposals' \subseteq Files
    BY <1>3 DEF IInv, TypeOK
  <2> QED BY <1>3, <1>8, <1>9, <2>1, <2>2, <2>3, <2>4 DEF IInv, TypeOK
<1>11. /\ row[s] = "deleting" => audits'[s] = audits[s] + 1
       /\ row[s] = "gone" => audits'[s] = audits[s]
       /\ \A x \in Sessions : x # s => audits'[x] = audits[x] /\ retained'[x] = retained[x]
  BY <1>1, <1>3 DEF IInv, TypeOK
<1>12. \A f \in Files : row'[Owner[f]] = "gone" => entry'[f] = "none" /\ f \notin proposals'
  <2> SUFFICES ASSUME NEW f \in Files, row'[Owner[f]] = "gone"
               PROVE  entry'[f] = "none" /\ f \notin proposals'
    OBVIOUS
  <2>1. CASE Owner[f] \in removed
    BY <1>3, <2>1
  <2>2. CASE Owner[f] \notin removed
    <3>1. row[Owner[f]] = "gone"
      BY <1>3, <2>2, FileAssumption
    <3>2. entry[f] = "none" /\ f \notin proposals
      BY <3>1, GoneIsEmpty DEF IInv
    <3> QED BY <1>3, <2>2, <3>2
  <2> QED BY <2>1, <2>2
<1>13. StoresOK'
  <2> SUFFICES ASSUME NEW x \in Sessions
               PROVE  StoreOK(x)'
    BY DEF StoresOK
  <2>1. StoreOK(x) /\ StoreOK(s)
    BY DEF IInv, StoresOK
  <2>2. ASSUME row'[x] = "gone", NEW c \in Sessions, Parent[c] = x
        PROVE  row'[c] = "none" \/ (row'[c] = "gone" /\ receipt[c] = "completed")
    <3>1. row[c] = "none" \/ (row[c] = "gone" /\ receipt[c] = "completed")
      BY <1>4, <1>5, <2>1, <2>2 DEF StoreOK
    <3>2. c # s
      BY <1>1, <1>3, <3>1
    <3> QED BY <1>5, <3>1, <3>2
  <2>3. \A f \in Files : Owner[f] = x /\ row'[x] = "gone" => entry'[f] = "none" /\ f \notin proposals'
    BY <1>12
  <2>4. CASE x = s
    <3>1. audits'[s] = 1
      BY <1>1, <1>11, <2>1 DEF StoreOK
    <3>2. ~executing[s]
      BY <1>3, <2>1 DEF StoreOK
    <3> QED BY <1>1, <1>3, <1>5, <2>2, <2>3, <2>4, <3>1, <3>2 DEF StoreOK
  <2>5. CASE x # s
    <3>1. row'[x] = row[x] /\ audits'[x] = audits[x]
      BY <1>5, <1>11, <2>5
    <3> QED BY <1>3, <2>1, <2>2, <2>3, <3>1 DEF StoreOK
  <2> QED BY <2>4, <2>5
<1>14. Kept
  BY <1>1, <1>3, <1>5, <1>11 DEF Kept, IInv, StoresOK, StoreOK
<1>15. old.root \in Sessions /\ receipt[old.root] # "none"
  BY <1>3, <1>7 DEF IInv, DriversOK, DriverOK
<1>16. DriverOK(rec)'
  BY <1>1, <1>3, <1>5, <1>9, <1>15 DEF DriverOK, Cleaning
<1>17. DriversOK'
  BY <1>8, <1>9, <1>10, <1>14, <1>16, OneMoves, Zenon DEF IInv
<1> QED BY <1>10, <1>13, <1>14, <1>17 DEF Holds

\* A new place in the same withdrawal.
LEMMA PcMoves ==
  ASSUME NEW old \in DriverRecs, NEW pc \in Pcs
  PROVE  /\ [old EXCEPT !.pc = pc] \in DriverRecs
         /\ [old EXCEPT !.pc = pc].pc = pc
         /\ [old EXCEPT !.pc = pc].root = old.root
         /\ [old EXCEPT !.pc = pc].cur = old.cur
  BY DEF DriverRecs

LEMMA UnfinalGrows ==
  ASSUME NEW old \in DriverRecs, NEW unfinal \in SUBSET {"sandbox", "vault"}
  PROVE  LET rec == [old EXCEPT !.unfinal = unfinal] IN
         rec \in DriverRecs /\ rec.root = old.root /\ rec.cur = old.cur
  BY DEF DriverRecs

\* Completion reconciles the vault, after which no belief cites the session.
LEMMA CompleteHolds ==
  ASSUME IInv, NEW d \in Drivers, Complete(d)
  PROVE  Holds
<1>0. PICK old \in DriverRecs : old = driver[d]
  BY DEF IInv, TypeOK
<1>1. /\ old.pc = "complete"
      /\ UNCHANGED <<row, executing, overdue, receipt, retained, audits, disk, writer, writes>>
  BY <1>0 DEF Complete, At, sessionVars, receiptVars, writerVars
<1>2. /\ old.root \in Sessions /\ old.cur \in Sessions
      /\ receipt[old.root] # "none" /\ receipt[old.cur] # "none"
      /\ row[old.cur] = "gone"
  BY <1>0, <1>1 DEF IInv, DriversOK, DriverOK
<1>3. CASE ReconcileVault /\ NoFault /\ GoTo(d, "finish")
  <2>1. PICK rec : rec = [old EXCEPT !.pc = "finish"]
    BY Zenon
  <2>2. driver' = [driver EXCEPT ![d] = rec]
    BY <1>0, <1>3, <2>1 DEF GoTo
  <2>3. rec \in DriverRecs /\ rec.pc = "finish" /\ rec.root = old.root /\ rec.cur = old.cur
    BY <2>1, PcMoves, Zenon DEF Pcs
  <2>4. TypeOK'
    BY <1>1, <1>3, <2>2, <2>3, ReconcileKeeps DEF NoFault, IInv, TypeOK
  <2>5. StoresOK' /\ Kept
    BY <1>1, <1>3, ReconcileKeeps, FilesMove DEF IInv
  <2>6. old.cur \notin cites'
    BY <1>2, <1>3, ReconcileKeeps DEF IInv
  <2>7. DriverOK(rec)'
    BY <1>1, <1>2, <2>3, <2>6 DEF DriverOK, Cleaning
  <2>8. DriversOK'
    BY <2>2, <2>3, <2>4, <2>5, <2>7, OneMoves, Zenon DEF IInv
  <2> QED BY <2>4, <2>5, <2>8 DEF Holds
<1>4. CASE Fault /\ GoTo(d, "unfinish") /\ UNCHANGED <<entry, bound, memoryVars>>
  <2>1. PICK rec : rec = [old EXCEPT !.pc = "unfinish"]
    BY Zenon
  <2>2. driver' = [driver EXCEPT ![d] = rec]
    BY <1>0, <1>4, <2>1 DEF GoTo
  <2>3. rec \in DriverRecs /\ rec.pc = "unfinish" /\ rec.root = old.root /\ rec.cur = old.cur
    BY <2>1, PcMoves, Zenon DEF Pcs
  <2>4. TypeOK'
    BY <1>1, <1>4, <2>2, <2>3, BoundAssumption DEF Fault, memoryVars, IInv, TypeOK
  <2>5. StoresOK' /\ Kept
    BY <1>1, <1>4, StoreStays DEF memoryVars, IInv
  <2>6. DriverOK(rec)
    BY <1>2, <2>3 DEF DriverOK, Cleaning
  <2> QED BY <2>2, <2>3, <2>4, <2>5, <2>6, DriverSteps, Zenon
<1> QED BY <1>3, <1>4 DEF Complete

\* The receipt completes over a session that is gone and not cited.
LEMMA FinishHolds ==
  ASSUME IInv, NEW d \in Drivers, Finish(d)
  PROVE  Holds
<1>1. PICK s : s = driver[d].cur
  OBVIOUS
<1>2. /\ driver[d].pc = "finish" /\ Leave(d)
      /\ receipt' = [receipt EXCEPT ![s] = "completed"]
      /\ UNCHANGED <<row, executing, overdue, retained, audits, entry, bound, disk,
                     writer, writes, proposals, cites, faults>>
  BY <1>1 DEF Finish, At, sessionVars, fileVars, writerVars, memoryVars
<1>3. s \in Sessions /\ receipt[s] # "none" /\ row[s] = "gone" /\ s \notin cites
  BY <1>1, <1>2 DEF IInv, DriversOK, DriverOK
<1>4. /\ receipt'[s] = "completed"
      /\ \A x \in Sessions : x # s => receipt'[x] = receipt[x]
  BY <1>2, <1>3 DEF IInv, TypeOK
<1>5. StoresOK'
  <2> SUFFICES ASSUME NEW x \in Sessions
               PROVE  StoreOK(x)'
    BY DEF StoresOK
  <2>1. StoreOK(x) /\ StoreOK(s)
    BY <1>3 DEF IInv, StoresOK
  <2>2. CASE x = s
    BY <1>2, <1>3, <1>4, <2>1, <2>2 DEF StoreOK
  <2>3. CASE x # s
    BY <1>2, <1>3, <1>4, <2>1, <2>3 DEF StoreOK
  <2> QED BY <2>2, <2>3
<1>6. Kept
  BY <1>2, <1>3, <1>4 DEF Kept, IInv, StoresOK, StoreOK
<1>7. driver' \in [Drivers -> DriverRecs] => TypeOK'
  BY <1>2, Zenon DEF IInv, TypeOK
<1> QED BY <1>2, <1>5, <1>6, <1>7, LeaveSteps

\* A failure is recorded on a receipt that is open; a completed one stays as it is.
LEMMA MarkKeeps ==
  ASSUME TypeOK, StoresOK, NEW s \in Sessions, receipt[s] # "none", MarkFailed(s),
         UNCHANGED <<row, executing, retained, audits, proposals, cites>>,
         \A f \in Files : row[Owner[f]] = "gone" => entry'[f] = "none"
  PROVE  /\ receipt' \in [Sessions -> {"none", "quiescing", "failed_external", "completed"}]
         /\ StoresOK' /\ Kept
<1>1. CASE receipt[s] = "completed"
  <2>1. receipt' = receipt
    BY <1>1 DEF MarkFailed, TypeOK
  <2> QED BY <2>1, FilesMove, GoneIsEmpty DEF TypeOK
<1>2. CASE receipt[s] # "completed"
  <2>1. receipt' = [receipt EXCEPT ![s] = "failed_external"]
    BY <1>2 DEF MarkFailed
  <2> QED BY <1>2, <2>1, ReceiptMoves, Zenon DEF TypeOK
<1> QED BY <1>1, <1>2

LEMMA RecordHolds ==
  ASSUME IInv, NEW d \in Drivers, RecordOnReceipt(d)
  PROVE  Holds
<1>1. PICK s \in Sessions : s = driver[d].cur /\ receipt[s] # "none"
  BY AtHand DEF RecordOnReceipt
<1>2. /\ driver[d].pc # "idle" /\ Leave(d) /\ MarkFailed(s)
      /\ UNCHANGED <<row, executing, overdue, retained, audits, entry, bound, disk,
                     writer, writes, proposals, cites, faults>>
  BY <1>1 DEF RecordOnReceipt, sessionVars, fileVars, writerVars, memoryVars
<1>3. /\ receipt' \in [Sessions -> {"none", "quiescing", "failed_external", "completed"}]
      /\ StoresOK' /\ Kept
  BY <1>1, <1>2, MarkKeeps, GoneIsEmpty DEF IInv
<1>4. driver' \in [Drivers -> DriverRecs] => TypeOK'
  BY <1>2, <1>3 DEF IInv, TypeOK
<1> QED BY <1>2, <1>3, <1>4, LeaveSteps

\* Marking a cleaner's rows marks only rows that are there.
LEMMA MarksHold ==
  ASSUME IInv, NEW d \in Drivers, MarkSandbox(d) \/ MarkVault(d)
  PROVE  Holds
<1>1. PICK s \in Sessions : s = driver[d].cur /\ receipt[s] # "none"
  BY AtHand, Zenon DEF MarkSandbox, MarkVault, At
<1>2. PICK kind : MarkScope(s, kind)
  BY <1>1 DEF MarkSandbox, MarkVault
<1>3. /\ entry' \in [Files -> {"none", "writing", "ready", "delete_failed"}]
      /\ \A f \in Files : entry'[f] = "none" \/ entry[f] # "none"
  BY <1>2 DEF MarkScope, Rows, IInv, TypeOK
<1>4. /\ driver[d].pc \in {"mark_sandbox", "mark_vault"}
      /\ GoTo(d, "mark_vault") \/ Leave(d)
      /\ UNCHANGED <<row, executing, overdue, retained, audits, bound, disk,
                     writer, writes, proposals, cites, faults>>
  BY ZenonT(30) DEF MarkSandbox, MarkVault, At, sessionVars, writerVars, memoryVars
<1>5. /\ receipt' \in [Sessions -> {"none", "quiescing", "failed_external", "completed"}]
      /\ StoresOK' /\ Kept
  BY <1>1, <1>2, <1>3, <1>4, MarkKeeps, GoneIsEmpty DEF MarkScope, IInv
<1>6. driver' \in [Drivers -> DriverRecs] => TypeOK'
  BY <1>3, <1>4, <1>5 DEF IInv, TypeOK
<1>7. CASE Leave(d)
  BY <1>4, <1>5, <1>6, <1>7, LeaveSteps
<1>8. CASE GoTo(d, "mark_vault")
  <2>1. PICK old \in DriverRecs : old = driver[d]
    BY DEF IInv, TypeOK
  <2>2. PICK rec : rec = [old EXCEPT !.pc = "mark_vault"]
    BY Zenon
  <2>3. driver' = [driver EXCEPT ![d] = rec]
    BY <1>8, <2>1, <2>2 DEF GoTo
  <2>4. rec \in DriverRecs /\ rec.pc = "mark_vault" /\ rec.root = old.root /\ rec.cur = old.cur
    BY <2>2, PcMoves, Zenon DEF Pcs
  <2>5. DriverOK(rec)
    BY <1>4, <2>1, <2>4, ZenonT(30) DEF DriverOK, Cleaning, IInv, DriversOK
  <2>6. TypeOK'
    BY <1>6, <2>3, <2>4 DEF IInv, TypeOK
  <2> QED BY <1>5, <2>3, <2>4, <2>5, <2>6, DriverSteps, Zenon
<1> QED BY <1>4, <1>7, <1>8

\* The cleaners: from one place to the next over the same session, dropping or marking
\* rows that are there.
LEMMA CleanerSteps ==
  ASSUME IInv, NEW d \in Drivers, NEW rec \in DriverRecs,
         driver[d].pc \in Cleaning,
         rec.pc \in Cleaning \cup {"again", "mark_sandbox", "mark_vault", "mark_receipt"},
         rec.root = driver[d].root, rec.cur = driver[d].cur,
         driver' = [driver EXCEPT ![d] = rec],
         entry' \in [Files -> {"none", "writing", "ready", "delete_failed"}],
         \A f \in Files : entry'[f] = "none" \/ entry[f] # "none",
         bound' \subseteq Files, disk' \subseteq Files, faults' \in 0..MaxFaults,
         UNCHANGED <<row, executing, overdue, receipt, retained, audits, writer, writes,
                     proposals, cites>>
  PROVE  Holds
<1>1. TypeOK'
  BY DEF IInv, TypeOK
<1>2. \A f \in Files : row[Owner[f]] = "gone" => entry'[f] = "none" /\ f \notin proposals
  BY GoneIsEmpty DEF IInv
<1>3. StoresOK' /\ Kept
  BY <1>2, FilesMove DEF IInv
<1>4. DriverOK(rec)
  BY DEF DriverOK, Cleaning, IInv, DriversOK
<1> QED BY <1>1, <1>3, <1>4, DriverSteps, Zenon

LEMMA CleanSandboxHolds ==
  ASSUME IInv, NEW d \in Drivers, CleanSandbox(d)
  PROVE  Holds
<1>1. PICK old \in DriverRecs : old = driver[d]
  BY DEF IInv, TypeOK
<1>2. /\ old.pc = "sandbox"
      /\ disk' \subseteq Files
      /\ faults' \in 0..MaxFaults
      /\ UNCHANGED <<row, executing, overdue, receipt, retained, audits, entry, bound,
                     writer, writes, proposals, cites>>
  BY <1>1, BoundAssumption DEF CleanSandbox, At, Fault, NoFault, sessionVars, receiptVars, writerVars,
       memoryVars, IInv, TypeOK
<1>3. \/ driver' = [driver EXCEPT ![d] = [old EXCEPT !.pc = "vault"]]
      \/ driver' = [driver EXCEPT ![d] = [old EXCEPT !.pc = "vault", !.failed = {"sandbox"}]]
  BY <1>1 DEF CleanSandbox, GoTo, IInv, TypeOK, DriverRecs
<1>4. PICK rec \in DriverRecs :
        driver' = [driver EXCEPT ![d] = rec] /\ rec.pc = "vault"
        /\ rec.root = old.root /\ rec.cur = old.cur
  <2> DEFINE plain == [old EXCEPT !.pc = "vault"]
  <2> DEFINE marked == [old EXCEPT !.pc = "vault", !.failed = {"sandbox"}]
  <2>1. plain \in DriverRecs /\ plain.pc = "vault" /\ plain.root = old.root /\ plain.cur = old.cur
    BY PcMoves, Zenon DEF Pcs
  <2>2. marked \in DriverRecs /\ marked.pc = "vault" /\ marked.root = old.root /\ marked.cur = old.cur
    <3>1. "vault" \in Pcs /\ {"sandbox"} \in SUBSET {"sandbox", "vault"}
      BY DEF Pcs
    <3> QED BY <3>1, Zenon DEF DriverRecs
  <2>3. driver' = [driver EXCEPT ![d] = plain] \/ driver' = [driver EXCEPT ![d] = marked]
    BY <1>3
  <2> HIDE DEF plain, marked
  <2> QED BY <2>1, <2>2, <2>3
<1>5. /\ entry' \in [Files -> {"none", "writing", "ready", "delete_failed"}]
      /\ bound' \subseteq Files
      /\ \A f \in Files : entry'[f] = "none" \/ entry[f] # "none"
  BY <1>2 DEF IInv, TypeOK
<1> QED BY <1>1, <1>2, <1>4, <1>5, CleanerSteps, Zenon DEF Cleaning

LEMMA PurgeKeeps ==
  ASSUME TypeOK, NEW s, NEW failing \in SUBSET Rows(s, "note"), NEW dropped \in BOOLEAN,
         Purge(s, failing, dropped)
  PROVE  /\ entry' \in [Files -> {"none", "writing", "ready", "delete_failed"}]
         /\ \A f \in Files : entry'[f] = "none" \/ entry[f] # "none"
         /\ bound' \subseteq Files /\ disk' \subseteq Files
         /\ faults' \in 0..MaxFaults
<1>1. \A f \in failing : f \in Files /\ entry[f] # "none"
  BY DEF Rows, FilesOf
<1>2. /\ entry' \in [Files -> {"none", "writing", "ready", "delete_failed"}]
      /\ \A f \in Files : entry'[f] = "none" \/ entry[f] # "none"
  BY <1>1 DEF Purge, TypeOK
<1>3. bound' \subseteq Files /\ disk' \subseteq Files
  BY DEF Purge, TypeOK
<1>4. faults' \in 0..MaxFaults
  BY BoundAssumption DEF Purge, Fault, NoFault, TypeOK
<1> QED BY <1>2, <1>3, <1>4

LEMMA CleanVaultHolds ==
  ASSUME IInv, NEW d \in Drivers, CleanVault(d)
  PROVE  Holds
<1>1. PICK old \in DriverRecs : old = driver[d]
  BY DEF IInv, TypeOK
<1>2. PICK failing \in SUBSET Rows(old.cur, "note"), dropped \in BOOLEAN :
        /\ Purge(old.cur, failing, dropped)
        /\ driver' = [driver EXCEPT ![d].pc = "forget_sandbox",
             ![d].failed = IF failing # {} /\ dropped THEN @ \cup {"vault"} ELSE @]
  BY <1>1, Zenon DEF CleanVault
<1>3. /\ old.pc = "vault"
      /\ UNCHANGED <<row, executing, overdue, receipt, retained, audits, writer, writes,
                     proposals, cites>>
  BY <1>1 DEF CleanVault, At, sessionVars, receiptVars, writerVars, memoryVars
<1>4. PICK failed \in SUBSET {"sandbox", "vault"} :
        driver' = [driver EXCEPT ![d] = [old EXCEPT !.pc = "forget_sandbox", !.failed = failed]]
  <2>1. PICK failed : failed = IF failing # {} /\ dropped THEN old.failed \cup {"vault"} ELSE old.failed
    BY Zenon
  <2>2. failed \in SUBSET {"sandbox", "vault"}
    BY <2>1 DEF DriverRecs
  <2>3. driver' = [driver EXCEPT ![d] = [old EXCEPT !.pc = "forget_sandbox", !.failed = failed]]
    BY <1>1, <1>2, <2>1, Zenon DEF IInv, TypeOK, DriverRecs
  <2> QED BY <2>2, <2>3, Zenon
<1>5. PICK rec \in DriverRecs :
        driver' = [driver EXCEPT ![d] = rec] /\ rec.pc = "forget_sandbox"
        /\ rec.root = old.root /\ rec.cur = old.cur
  <2> DEFINE rec == [old EXCEPT !.pc = "forget_sandbox", !.failed = failed]
  <2>1. rec \in DriverRecs /\ rec.pc = "forget_sandbox" /\ rec.root = old.root /\ rec.cur = old.cur
    <3>1. "forget_sandbox" \in Pcs
      BY DEF Pcs
    <3> QED BY <3>1, Zenon DEF DriverRecs
  <2>2. driver' = [driver EXCEPT ![d] = rec]
    BY <1>4
  <2> HIDE DEF rec
  <2> QED BY <2>1, <2>2, Zenon
<1>6. /\ entry' \in [Files -> {"none", "writing", "ready", "delete_failed"}]
      /\ \A f \in Files : entry'[f] = "none" \/ entry[f] # "none"
      /\ bound' \subseteq Files /\ disk' \subseteq Files
      /\ faults' \in 0..MaxFaults
  BY <1>2, PurgeKeeps DEF IInv
<1> QED BY <1>1, <1>3, <1>5, <1>6, CleanerSteps, Zenon DEF Cleaning

LEMMA ForgetSandboxHolds ==
  ASSUME IInv, NEW d \in Drivers, ForgetSandbox(d)
  PROVE  Holds
<1>1. PICK old \in DriverRecs : old = driver[d]
  BY DEF IInv, TypeOK
<1>2. /\ old.pc = "forget_sandbox"
      /\ UNCHANGED <<row, executing, overdue, receipt, retained, audits, bound, disk,
                     writer, writes, proposals, cites>>
  BY <1>1 DEF ForgetSandbox, At, sessionVars, receiptVars, writerVars, memoryVars
<1>3. /\ entry' \in [Files -> {"none", "writing", "ready", "delete_failed"}]
      /\ \A f \in Files : entry'[f] = "none" \/ entry[f] # "none"
  BY DEF ForgetSandbox, IInv, TypeOK
<1>4. faults' \in 0..MaxFaults /\ bound' \subseteq Files /\ disk' \subseteq Files
  BY <1>2, BoundAssumption DEF ForgetSandbox, Fault, NoFault, IInv, TypeOK
<1>5. \/ driver' = [driver EXCEPT ![d] = [old EXCEPT !.pc = "forget_vault"]]
      \/ driver' = [driver EXCEPT ![d] = [old EXCEPT !.pc = "forget_vault", !.unfinal = {"sandbox"}]]
  BY <1>1 DEF ForgetSandbox, GoTo, IInv, TypeOK, DriverRecs
<1>6. PICK rec \in DriverRecs :
        driver' = [driver EXCEPT ![d] = rec] /\ rec.pc = "forget_vault"
        /\ rec.root = old.root /\ rec.cur = old.cur
  <2> DEFINE plain == [old EXCEPT !.pc = "forget_vault"]
  <2> DEFINE marked == [old EXCEPT !.pc = "forget_vault", !.unfinal = {"sandbox"}]
  <2>1. plain \in DriverRecs /\ plain.pc = "forget_vault" /\ plain.root = old.root /\ plain.cur = old.cur
    BY PcMoves, Zenon DEF Pcs
  <2>2. marked \in DriverRecs /\ marked.pc = "forget_vault" /\ marked.root = old.root /\ marked.cur = old.cur
    <3>1. "forget_vault" \in Pcs /\ {"sandbox"} \in SUBSET {"sandbox", "vault"}
      BY DEF Pcs
    <3> QED BY <3>1, Zenon DEF DriverRecs
  <2>3. driver' = [driver EXCEPT ![d] = plain] \/ driver' = [driver EXCEPT ![d] = marked]
    BY <1>5
  <2> HIDE DEF plain, marked
  <2> QED BY <2>1, <2>2, <2>3
<1> QED BY <1>1, <1>2, <1>3, <1>4, <1>6, CleanerSteps, Zenon DEF Cleaning

LEMMA Judging ==
  ASSUME NEW rec \in DriverRecs
  PROVE  /\ Judged(rec) \in DriverRecs
         /\ Judged(rec).pc \in {"again", "mark_sandbox", "mark_vault", "mark_receipt"}
         /\ Judged(rec).root = rec.root /\ Judged(rec).cur = rec.cur
<1>1. PICK pc \in {"again", "mark_sandbox", "mark_vault", "mark_receipt"} :
        Judged(rec) = [rec EXCEPT !.pc = pc]
  BY DEF Judged
<1>2. pc \in Pcs
  BY DEF Pcs
<1> QED BY <1>1, <1>2, PcMoves

LEMMA ForgetVaultHolds ==
  ASSUME IInv, NEW d \in Drivers, ForgetVault(d)
  PROVE  Holds
<1>1. PICK old \in DriverRecs : old = driver[d]
  BY DEF IInv, TypeOK
<1>2. /\ old.pc = "forget_vault"
      /\ UNCHANGED <<row, executing, overdue, receipt, retained, audits, writer, writes,
                     proposals, cites>>
  BY <1>1 DEF ForgetVault, At, sessionVars, receiptVars, writerVars, memoryVars
<1>3. CASE /\ driver' = [driver EXCEPT ![d] = Judged(old)]
           /\ UNCHANGED <<fileVars, faults>>
  <2>1. /\ entry' \in [Files -> {"none", "writing", "ready", "delete_failed"}]
        /\ \A f \in Files : entry'[f] = "none" \/ entry[f] # "none"
        /\ bound' \subseteq Files /\ disk' \subseteq Files
        /\ faults' \in 0..MaxFaults
    BY <1>3 DEF fileVars, IInv, TypeOK
  <2> QED BY <1>1, <1>2, <1>3, <2>1, Judging, CleanerSteps, Zenon DEF Cleaning
<1>4. CASE \E failing \in SUBSET Rows(old.cur, "note"), dropped \in BOOLEAN :
             /\ Purge(old.cur, failing, dropped)
             /\ \E late \in SUBSET {"vault"} :
                  driver' = [driver EXCEPT ![d] =
                               Judged([old EXCEPT !.unfinal = old.unfinal \cup late])]
  <2>1. /\ entry' \in [Files -> {"none", "writing", "ready", "delete_failed"}]
        /\ \A f \in Files : entry'[f] = "none" \/ entry[f] # "none"
        /\ bound' \subseteq Files /\ disk' \subseteq Files
        /\ faults' \in 0..MaxFaults
    BY <1>4, PurgeKeeps DEF IInv
  <2>2. PICK late \in SUBSET {"vault"} :
          driver' = [driver EXCEPT ![d] = Judged([old EXCEPT !.unfinal = old.unfinal \cup late])]
    BY <1>4, Zenon
  <2>3. PICK rec \in DriverRecs :
          rec = [old EXCEPT !.unfinal = old.unfinal \cup late]
          /\ rec.root = old.root /\ rec.cur = old.cur
    <3>1. old.unfinal \cup late \in SUBSET {"sandbox", "vault"}
      BY Zenon DEF DriverRecs
    <3> QED BY <3>1, UnfinalGrows, Zenon
  <2>4. driver' = [driver EXCEPT ![d] = Judged(rec)]
    BY <2>2, <2>3
  <2> QED BY <1>1, <1>2, <2>1, <2>3, <2>4, Judging, CleanerSteps, Zenon DEF Cleaning
<1> QED BY <1>1, <1>3, <1>4, Zenon DEF ForgetVault

\* A withdrawal is given up where it is, or one of its children is.
LEMMA GiveUpHolds ==
  ASSUME IInv, NEW d \in Drivers, GiveUp(d)
  PROVE  Holds
<1>1. PICK old \in DriverRecs : old = driver[d]
  BY DEF IInv, TypeOK
<1>2. /\ old.pc # "idle"
      /\ faults' \in 0..MaxFaults
      /\ UNCHANGED <<row, executing, overdue, receipt, retained, audits, entry, bound, disk,
                     writer, writes, proposals, cites>>
  BY <1>1, BoundAssumption DEF GiveUp, At, Fault, sessionVars, receiptVars, fileVars, writerVars,
       memoryVars, IInv, TypeOK
<1>3. StoresOK' /\ Kept
  BY <1>2, StoreStays DEF IInv
<1>4. driver' \in [Drivers -> DriverRecs] => TypeOK'
  BY <1>2 DEF IInv, TypeOK
<1>5. CASE Leave(d)
  BY <1>1, <1>2, <1>3, <1>4, <1>5, LeaveSteps
<1>6. CASE \E c \in old.todo :
             driver' = [driver EXCEPT ![d] = ToRest([old EXCEPT !.todo = old.todo \ {c}])]
  <2>1. PICK c \in old.todo :
          driver' = [driver EXCEPT ![d] = ToRest([old EXCEPT !.todo = old.todo \ {c}])]
    BY <1>6, Zenon
  <2> DEFINE left == [old EXCEPT !.todo = old.todo \ {c}]
  <2>2. left \in DriverRecs /\ left.root = old.root
    BY DEF DriverRecs
  <2>3. driver' = [driver EXCEPT ![d] = ToRest(left)]
    BY <2>1
  <2>4. old.root \in Sessions /\ receipt[old.root] # "none"
    BY <1>1, <1>2 DEF IInv, DriversOK, DriverOK
  <2> HIDE DEF left
  <2>5. ToRest(left) \in DriverRecs /\ DriverOK(ToRest(left))
    BY <2>2, <2>4, Resting DEF DriverOK, Cleaning
  <2>6. TypeOK'
    BY <1>4, <2>3, <2>5, Zenon DEF IInv, TypeOK
  <2> QED BY <1>3, <2>3, <2>5, <2>6, DriverSteps, Zenon
<1> QED BY <1>1, <1>5, <1>6 DEF GiveUp

\* A crash leaves the store, and no driver to rely on it.
LEMMA CrashHolds ==
  ASSUME IInv, Crash
  PROVE  Holds
<1>1. /\ driver' = [d \in Drivers |-> Idle]
      /\ faults' \in 0..MaxFaults
      /\ UNCHANGED <<row, executing, overdue, receipt, retained, audits, entry, bound, disk,
                     writes, proposals, cites>>
  BY BoundAssumption DEF Crash, Fault, sessionVars, receiptVars, fileVars, memoryVars, IInv, TypeOK
<1>2. writer' \in [Files -> {"idle", "create", "update", "installed"}]
  BY DEF Crash, IInv, TypeOK
<1>3. TypeOK'
  BY <1>1, <1>2, IdleIsRest DEF IInv, TypeOK
<1>4. StoresOK' /\ Kept
  BY <1>1, StoreStays DEF IInv
<1>5. DriversOK'
  BY <1>1, IdleIsRest DEF DriversOK, DriverOK
<1> QED BY <1>3, <1>4, <1>5 DEF Holds

-----------------------------------------------------------------------------
LEMMA InitHolds == Init => IInv
<1> SUFFICES ASSUME Init
             PROVE  IInv
  OBVIOUS
<1>1. TypeOK
  BY BoundAssumption, IdleIsRest DEF Init, TypeOK
<1>2. StoresOK
  BY DEF Init, StoresOK, StoreOK
<1>3. DriversOK
  BY IdleIsRest DEF Init, DriversOK, DriverOK
<1> QED BY <1>1, <1>2, <1>3 DEF IInv

\* Each action keeps the invariant and what drivers rely on.
LEMMA NextHolds == IInv /\ [Next]_vars => Holds
<1> SUFFICES ASSUME IInv, [Next]_vars
             PROVE  Holds
  OBVIOUS
<1>1. ASSUME NEW s \in Sessions,
             CreateChild(s) \/ StartExecution(s) \/ ExitExecution(s) \/ DeadlinePasses(s)
      PROVE  Holds
  BY <1>1, CreateChildHolds, ExecutionHolds, DeadlineHolds
<1>2. ASSUME NEW f \in Files,
             ReserveWrite(f) \/ WriterStep(f) \/ Promote(f) \/ Reject(f) \/ UserRemoves(f)
      PROVE  Holds
  BY <1>2, BytesHold, WritesHold, NotesHold, DecisionsHold DEF WriterStep
<1>3. ASSUME NEW d \in Drivers, DriverStep(d)
      PROVE  Holds
  BY <1>3, ListChildrenHolds, WithdrawChildHolds, AdvanceCompletedHolds, AdvanceStoppedHolds,
     ArtifactPendingHolds, AdvanceCascadeHolds, CompleteHolds, FinishHolds, RecordHolds,
     CleanSandboxHolds, CleanVaultHolds, ForgetSandboxHolds, ForgetVaultHolds, MarksHold
     DEF DriverStep
<1>4. CASE UNCHANGED vars
  <2>1. UNCHANGED <<row, executing, overdue, receipt, retained, audits, entry, bound, disk,
                    writer, writes, proposals, cites, driver, faults>>
    BY <1>4 DEF vars, sessionVars, receiptVars, fileVars, writerVars, memoryVars
  <2>2. TypeOK'
    BY <2>1 DEF IInv, TypeOK
  <2> QED BY <2>1, <2>2, QuietSteps
<1> QED BY <1>1, <1>2, <1>3, <1>4, ReconcileHolds, WithdrawHolds, GiveUpHolds, CrashHolds DEF Next

LEMMA Inductive == Spec => []IInv
<1>1. IInv /\ [Next]_vars => IInv'
  BY NextHolds DEF Holds, IInv
<1> QED BY InitHolds, <1>1, PTL DEF Spec

\* Whatever the tree, the files, the drivers and the faults: when a chat's row is gone,
\* each of its delegation sessions went first, through a withdrawal of its own that
\* completed and was audited once (AdvanceSessionDeletion's gate on children).
THEOREM ChildrenAlwaysFirst == Spec => []ChildrenFirst
<1>1. IInv => ChildrenFirst
  BY DEF IInv, StoresOK, StoreOK, ChildrenFirst, Children
<1> QED BY Inductive, <1>1, PTL

\* A session is deleted once and for good: one session.deleted record however many
\* drivers and retries there are, and a completed receipt that no late driver reopens.
THEOREM DeletionIsOnce == Spec => DeletedOnce
<1>1. IInv => OneDeletionRecord
  BY DEF IInv, StoresOK, StoreOK, OneDeletionRecord
<1>2. IInv /\ [Next]_vars =>
        [\A s \in Sessions : receipt[s] = "completed" =>
           receipt'[s] = "completed" /\ retained'[s] = retained[s]]_vars
  BY NextHolds DEF Holds, Kept
<1> QED BY Inductive, <1>1, <1>2, PTL DEF Spec, DeletedOnce, CompletedIsFinal

\* The cleaners only ever run over a session that is closed, quiet and without pending
\* children, and stays so while they run; and a completed receipt tells the truth.
THEOREM CleanedQuietly == Spec => []QuietAndGone
<1>1. IInv => CleanersRunQuiet
  <2> SUFFICES ASSUME IInv, NEW d \in Drivers, driver[d].pc \in Cleaning
               PROVE  LET s == driver[d].cur IN
                      row[s] \in {"deleting", "gone"} /\ ~executing[s] /\ PendingChildren(s) = {}
    BY DEF CleanersRunQuiet, Cleaning
  <2>1. driver[d].pc # "idle"
    BY DEF Cleaning
  <2>2. ~executing[driver[d].cur] /\ PendingChildren(driver[d].cur) = {}
    BY <2>1 DEF IInv, DriversOK, DriverOK
  <2> QED BY <2>1, <2>2, AtHand
<1>2. IInv => CompletedMeansGone
  BY DEF IInv, StoresOK, StoreOK, CompletedMeansGone
<1>3. IInv => QuietAndGone
  BY <1>1, <1>2 DEF QuietAndGone, IInv
<1> QED BY Inductive, <1>3, PTL
=============================================================================
