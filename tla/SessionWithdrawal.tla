------------------------- MODULE SessionWithdrawal -------------------------
(***************************************************************************)
(* The withdrawal of a conversation: what DeleteSession and the deletion   *)
(* ticker do to a session, to the delegation sessions under it, and to the *)
(* files its runs left in the tool sandbox and in the user's vault.        *)
(*                                                                         *)
(* A driver is one call of withdrawSessionTree (service/sessions): the RPC *)
(* of a client or a round of ResumePendingDeletions.  Several may work on  *)
(* the same receipt at once.  Every transaction of the repository and      *)
(* every call of a cleaner is one step, so a driver can be overtaken, or   *)
(* die, between any two of them.                                           *)
(*                                                                         *)
(* A file stands for one manifest row: one path written by one run.  It is *)
(* "owned" (inside the session's sandbox namespace), "legacy" (a sandbox   *)
(* path outside it, which is kept and only counted) or a "note" (a         *)
(* proposal in the vault's inbox).  The vault is attached and within its   *)
(* scan bound.                                                             *)
(***************************************************************************)
EXTENDS Naturals, FiniteSets

CONSTANTS
  Sessions,    \* sessions.id
  NoSession,   \* the parent of a chat
  Parent,      \* sessions.parent_session_id
  Files,       \* manifest rows that may come to exist
  Owner,       \* the session each belongs to
  Kind,        \* "owned", "legacy" or "note"
  Drivers,     \* concurrent calls of withdrawSessionTree
  MaxWrites,   \* bound: tool calls of one run that write one path
  MaxFaults,   \* bound: failed calls, lost answers and crashes
  LateWrites   \* whether a tool server's write can outlive its run's executor

ASSUME TreeAssumption ==
  /\ NoSession \notin Sessions
  /\ Parent \in [Sessions -> Sessions \cup {NoSession}]
  \* A delegation session hangs under a chat, never under another.
  /\ \A s \in Sessions : Parent[s] # NoSession => Parent[Parent[s]] = NoSession

ASSUME FileAssumption ==
  /\ IsFiniteSet(Files)
  /\ Owner \in [Files -> Sessions]
  /\ Kind \in [Files -> {"owned", "legacy", "note"}]

ASSUME BoundAssumption ==
  /\ MaxWrites \in Nat
  /\ MaxFaults \in Nat
  /\ LateWrites \in BOOLEAN

VARIABLES
  row,        \* sessions: none, active, deleting, or gone after the cascade
  executing,  \* some run of the session has execution_active
  overdue,    \* session_deletions.quiesce_deadline_at has passed
  receipt,    \* session_deletions.state, "none" while there is no row
  retained,   \* session_deletions.retained_legacy_artifact_count
  audits,     \* number of session.deleted rows in the audit log
  entry,      \* state of the sandbox_artifacts or vault_artifacts row
  bound,      \* vault rows that name the bytes they own
  disk,       \* files whose bytes are on disk
  writer,     \* the tool call writing the file, if one is in flight
  writes,     \* tool calls that wrote the path so far
  proposals,  \* notes with a pending memory_candidates row
  cites,      \* sessions that a belief in the vault cites
  driver,     \* where each driver is
  faults      \* faults spent

sessionVars == <<row, executing, overdue>>
receiptVars == <<receipt, retained, audits>>
fileVars == <<entry, bound, disk>>
writerVars == <<writer, writes>>
memoryVars == <<proposals, cites>>
vars == <<sessionVars, receiptVars, fileVars, writerVars, memoryVars, driver, faults>>

Pcs == {"idle", "children", "child", "advance", "sandbox", "vault",
        "forget_sandbox", "forget_vault", "mark_sandbox", "mark_vault",
        "mark_receipt", "again", "complete", "finish", "unfinish"}

\* What a driver keeps: its place, the chat, the session at hand, the children to come,
\* the cleaners that failed and those whose rows could not be dropped.
DriverRecs == [pc : Pcs, root : Sessions \cup {NoSession}, cur : Sessions \cup {NoSession},
               todo : SUBSET Sessions, failed : SUBSET {"sandbox", "vault"},
               unfinal : SUBSET {"sandbox", "vault"}]

Idle == [pc |-> "idle", root |-> NoSession, cur |-> NoSession,
         todo |-> {}, failed |-> {}, unfinal |-> {}]

\* Every column, file and program counter keeps a value of its domain; faults and
\* repeated writes stay within their bounds.
TypeOK ==
  /\ row \in [Sessions -> {"none", "active", "deleting", "gone"}]
  /\ executing \in [Sessions -> BOOLEAN]
  /\ overdue \in [Sessions -> BOOLEAN]
  /\ receipt \in [Sessions -> {"none", "quiescing", "failed_external", "completed"}]
  /\ retained \in [Sessions -> Nat]
  /\ audits \in [Sessions -> Nat]
  /\ entry \in [Files -> {"none", "writing", "ready", "delete_failed"}]
  /\ bound \subseteq Files
  /\ disk \subseteq Files
  /\ writer \in [Files -> {"idle", "create", "update", "installed"}]
  /\ writes \in [Files -> 0..MaxWrites]
  /\ proposals \subseteq Files
  /\ cites \subseteq Sessions
  /\ driver \in [Drivers -> DriverRecs]
  /\ faults \in 0..MaxFaults

Init ==
  /\ row = [s \in Sessions |-> IF Parent[s] = NoSession THEN "active" ELSE "none"]
  /\ executing = [s \in Sessions |-> FALSE]
  /\ overdue = [s \in Sessions |-> FALSE]
  /\ receipt = [s \in Sessions |-> "none"]
  /\ retained = [s \in Sessions |-> 0]
  /\ audits = [s \in Sessions |-> 0]
  /\ entry = [f \in Files |-> "none"]
  /\ bound = {}
  /\ disk = {}
  /\ writer = [f \in Files |-> "idle"]
  /\ writes = [f \in Files |-> 0]
  /\ proposals = {}
  /\ cites = {}
  /\ driver = [d \in Drivers |-> Idle]
  /\ faults = 0

-----------------------------------------------------------------------------
\* What the queries read.

Children(s) == {c \in Sessions : Parent[c] = s}
Unfinished(s) == receipt[s] \in {"quiescing", "failed_external"}

\* Faulty: a child is forgotten with its row, its receipt still unfinished.
FaultyPendingChildren(s) == {c \in Children(s) : row[c] \in {"active", "deleting"}}

\* DelegationChildSessionIDs, and the set AdvanceSessionDeletion's gate counts.
PendingChildren(s) ==
  {c \in Children(s) : row[c] \in {"active", "deleting"} \/ Unfinished(c)}

FilesOf(s, kind) == {f \in Files : Owner[f] = s /\ Kind[f] = kind}
Rows(s, kind) == {f \in FilesOf(s, kind) : entry[f] # "none"}

Fault == faults < MaxFaults /\ faults' = faults + 1
NoFault == UNCHANGED faults

-----------------------------------------------------------------------------
\* Runs, and the tool calls that leave files behind.

\* CreateDelegation: the calling run must execute and its session be active.
CreateChild(c) ==
  /\ Parent[c] # NoSession
  /\ row[c] = "none"
  /\ row[Parent[c]] = "active"
  /\ executing[Parent[c]]
  /\ row' = [row EXCEPT ![c] = "active"]
  /\ UNCHANGED <<executing, overdue, receiptVars, fileVars, writerVars, memoryVars, driver, faults>>

StartExecution(s) ==
  /\ row[s] = "active"
  /\ ~executing[s]
  /\ executing' = [executing EXCEPT ![s] = TRUE]
  /\ UNCHANGED <<row, overdue, receiptVars, fileVars, writerVars, memoryVars, driver, faults>>

\* The worker acknowledges that the executor is gone.  A tool call it had in
\* flight may still be running in the tool server.  A later run has manifest
\* rows of its own, so this run's files are written no more.
ExitExecution(s) ==
  /\ executing[s]
  /\ LateWrites \/ \A f \in Files : Owner[f] = s => writer[f] = "idle"
  /\ executing' = [executing EXCEPT ![s] = FALSE]
  /\ writes' = [f \in Files |-> IF Owner[f] = s /\ writes[f] > 0 THEN MaxWrites ELSE writes[f]]
  /\ UNCHANGED <<row, overdue, receiptVars, fileVars, writer, memoryVars, driver, faults>>

DeadlinePasses(s) ==
  /\ row[s] = "deleting"
  /\ ~overdue[s]
  /\ overdue' = [overdue EXCEPT ![s] = TRUE]
  /\ UNCHANGED <<row, executing, receiptVars, fileVars, writerVars, memoryVars, driver, faults>>

\* ReserveSandboxArtifact and ReserveVaultArtifact: only an active session
\* admits a write, and a path this run already reserved keeps its row.  A
\* create needs the path free and an update needs it taken; a note is always
\* created, under a fresh path.
ReserveWrite(f) ==
  /\ row[Owner[f]] = "active"
  /\ executing[Owner[f]]
  /\ writer[f] = "idle"
  /\ writes[f] < MaxWrites
  /\ Kind[f] = "note" => writes[f] = 0
  /\ writer' = [writer EXCEPT ![f] = IF f \in disk THEN "update" ELSE "create"]
  /\ writes' = [writes EXCEPT ![f] = @ + 1]
  /\ entry' = [entry EXCEPT ![f] = IF @ = "none" THEN "writing" ELSE @]
  /\ UNCHANGED <<sessionVars, receiptVars, bound, disk, memoryVars, driver, faults>>

\* The new bytes are linked or renamed into place.  The rename of an update
\* needs its target still there.
InstallWrite(f) ==
  /\ writer[f] = "create" \/ (writer[f] = "update" /\ f \in disk)
  /\ writer' = [writer EXCEPT ![f] = "installed"]
  /\ disk' = disk \cup {f}
  /\ UNCHANGED <<sessionVars, receiptVars, entry, bound, writes, memoryVars, driver, faults>>

\* The write fails before the bytes land.  mcp-files then releases the
\* reservation, which ReleaseSandboxArtifactReservation does to a row in
\* "writing" only; a vault reservation is left as it is.
FailWrite(f) ==
  /\ writer[f] \in {"create", "update"}
  /\ writer' = [writer EXCEPT ![f] = "idle"]
  /\ entry' = [entry EXCEPT ![f] = IF @ = "writing" /\ Kind[f] # "note" THEN "none" ELSE @]
  /\ UNCHANGED <<sessionVars, receiptVars, bound, disk, writes, memoryVars, driver, faults>>

\* FinalizeSandboxArtifact: whatever the session's state, a row that is still
\* there becomes ready; a row that is gone is an error to the tool call.
FinalizeWrite(f) ==
  /\ Kind[f] # "note"
  /\ writer[f] = "installed"
  /\ writer' = [writer EXCEPT ![f] = "idle"]
  /\ entry' = [entry EXCEPT ![f] = IF @ = "none" THEN "none" ELSE "ready"]
  /\ UNCHANGED <<sessionVars, receiptVars, bound, disk, writes, memoryVars, driver, faults>>

\* The tool server dies, or its report or release is lost: the row stays as
\* the reservation left it.
LoseReport(f) ==
  /\ Kind[f] # "note"
  /\ writer[f] # "idle"
  /\ Fault
  /\ writer' = [writer EXCEPT ![f] = "idle"]
  /\ UNCHANGED <<sessionVars, receiptVars, fileVars, writes, memoryVars, driver>>

\* recordMemoryCandidate: the reservation is closed over the bytes that
\* landed, unless reconcile has already done exactly that.
RecordNote(f) ==
  /\ Kind[f] = "note"
  /\ writer[f] = "installed"
  /\ entry[f] = "writing" \/ (entry[f] = "ready" /\ f \in bound)
  /\ writer' = [writer EXCEPT ![f] = "idle"]
  /\ entry' = [entry EXCEPT ![f] = "ready"]
  /\ bound' = bound \cup {f}
  /\ proposals' = proposals \cup {f}
  /\ UNCHANGED <<sessionVars, receiptVars, disk, writes, cites, driver, faults>>

\* abandonWrittenCandidate: the record failed, because the reservation is gone
\* or marked or because the database refused, so the note is removed again.  A
\* removal that leaves a copy behind binds and marks the row; any other failed
\* removal leaves the row alone.
AbandonNote(f) ==
  /\ Kind[f] = "note"
  /\ writer[f] = "installed"
  /\ writer' = [writer EXCEPT ![f] = "idle"]
  /\ \/ /\ entry[f] \in {"none", "delete_failed"} \/ faults < MaxFaults
        /\ faults' = IF entry[f] \in {"none", "delete_failed"} THEN faults ELSE faults + 1
        /\ disk' = disk \ {f}
        /\ UNCHANGED <<entry, bound>>
     \/ /\ Fault
        /\ entry[f] # "none"
        /\ entry' = [entry EXCEPT ![f] = "delete_failed"]
        /\ bound' = bound \cup {f}
        /\ UNCHANGED disk
     \/ /\ Fault
        /\ UNCHANGED fileVars
  /\ UNCHANGED <<sessionVars, receiptVars, writes, memoryVars, driver>>

\* The user decides about a proposal.  The decision holds the session's decision
\* lock throughout, which BeginSessionDeletion takes as well.  The inbox file
\* goes, and its rows with it; or a copy is left and the row is marked, the
\* proposal decided or still pending; or the file goes and the transaction that
\* should record it does not.
Decided(f) ==
  /\ row[Owner[f]] = "active"
  /\ f \in proposals \cap disk
  /\ \/ /\ entry' = [entry EXCEPT ![f] = "none"]
        /\ bound' = bound \ {f}
        /\ disk' = disk \ {f}
        /\ proposals' = proposals \ {f}
        /\ NoFault
     \/ /\ Fault
        /\ entry' = [entry EXCEPT ![f] = "delete_failed"]
        /\ bound' = bound \cup {f}
        /\ proposals' \in {proposals, proposals \ {f}}
        /\ UNCHANGED disk
     \/ /\ Fault
        /\ disk' = disk \ {f}
        /\ UNCHANGED <<entry, bound, proposals>>

\* An accepted proposal becomes a belief that cites the session.
Promote(f) ==
  /\ Decided(f)
  /\ cites' = cites \cup {Owner[f]}
  /\ UNCHANGED <<sessionVars, receiptVars, writerVars, driver>>

Reject(f) ==
  /\ Decided(f)
  /\ UNCHANGED <<sessionVars, receiptVars, writerVars, cites, driver>>

\* The user deletes a proposal in their own vault.
UserRemoves(f) ==
  /\ Kind[f] = "note"
  /\ f \in disk
  /\ writer[f] = "idle"
  /\ disk' = disk \ {f}
  /\ UNCHANGED <<sessionVars, receiptVars, entry, bound, writerVars, memoryVars, driver, faults>>

\* ReconcileMemoryVault: no belief cites a session that is gone, a proposal whose
\* file is gone is retired, a finalized row whose file is gone is released, and
\* a landed write is bound to its row.
Landed == {f \in disk \ bound : Kind[f] = "note" /\ entry[f] \in {"writing", "delete_failed"}}
Stale == {f \in Files \ disk : Kind[f] = "note" /\ entry[f] = "ready"}
ReconcileVault ==
  /\ entry' = [f \in Files |-> IF f \in Landed THEN "ready"
                               ELSE IF f \in Stale THEN "none" ELSE entry[f]]
  /\ bound' = (bound \cup Landed) \ Stale
  /\ proposals' = proposals \cap disk
  /\ cites' = {s \in cites : row[s] # "gone"}

\* At startup, and whenever the memory page is read.
Reconcile ==
  /\ ReconcileVault
  /\ UNCHANGED <<sessionVars, receiptVars, disk, writerVars, driver, faults>>

-----------------------------------------------------------------------------
\* Drivers.

At(d, pc) == driver[d].pc = pc
GoTo(d, pc) == driver' = [driver EXCEPT ![d].pc = pc]

\* A driver is done with the session at hand: with the root, or with a child,
\* after which come the other children and then the root.
ToRest(rec) == [rec EXCEPT !.pc = IF rec.todo = {} THEN "advance" ELSE "child",
                           !.cur = rec.root, !.failed = {}, !.unfinal = {}]
Leave(d) ==
  driver' = [driver EXCEPT ![d] = IF @.cur = @.root THEN Idle ELSE ToRest(@)]

\* beginSessionDeletion: an existing receipt is returned as it is; otherwise
\* the session closes and its receipt opens in one transaction.
BeginDeletion(s) ==
  /\ row[s] # "none"
  /\ row' = [row EXCEPT ![s] = IF receipt[s] = "none" THEN "deleting" ELSE @]
  /\ receipt' = [receipt EXCEPT ![s] = IF @ = "none" THEN "quiescing" ELSE @]

Withdraw(d, s) ==
  /\ At(d, "idle")
  /\ Parent[s] = NoSession
  /\ BeginDeletion(s)
  /\ driver' = [driver EXCEPT ![d] = [Idle EXCEPT !.pc = "children", !.root = s, !.cur = s]]
  /\ UNCHANGED <<executing, overdue, retained, audits, fileVars, writerVars, memoryVars, faults>>

ListChildren(d) ==
  /\ At(d, "children")
  /\ driver' = [driver EXCEPT ![d] = ToRest([@ EXCEPT !.todo = PendingChildren(driver[d].root)])]
  /\ UNCHANGED <<sessionVars, receiptVars, fileVars, writerVars, memoryVars, faults>>

WithdrawChild(d, c) ==
  /\ At(d, "child")
  /\ c \in driver[d].todo
  /\ BeginDeletion(c)
  /\ driver' = [driver EXCEPT ![d].pc = "advance", ![d].cur = c, ![d].todo = @ \ {c}]
  /\ UNCHANGED <<executing, overdue, retained, audits, fileVars, writerVars, memoryVars, faults>>

\* AdvanceSessionDeletion up to the commit of the cascade: one transaction,
\* which stops at the first gate that is closed.
Advancing(d) == driver[d].pc \in {"advance", "again"}
Quiet(s) == row[s] = "gone" \/ ~executing[s]
Drained(s) == Rows(s, "owned") = {} /\ Rows(s, "note") = {}

AdvanceCompleted(d) ==
  /\ Advancing(d)
  /\ receipt[driver[d].cur] = "completed"
  /\ Leave(d)
  /\ UNCHANGED <<sessionVars, receiptVars, fileVars, writerVars, memoryVars, faults>>

AdvanceExecuting(d) ==
  LET s == driver[d].cur IN
  /\ Advancing(d)
  /\ receipt[s] # "completed"
  /\ ~Quiet(s)
  /\ receipt' = [receipt EXCEPT ![s] = IF overdue[s] THEN "failed_external" ELSE "quiescing"]
  /\ Leave(d)
  /\ UNCHANGED <<sessionVars, retained, audits, fileVars, writerVars, memoryVars, faults>>

AdvanceChildPending(d) ==
  LET s == driver[d].cur IN
  /\ Advancing(d)
  /\ receipt[s] # "completed"
  /\ Quiet(s)
  /\ PendingChildren(s) # {}
  /\ receipt' = [receipt EXCEPT ![s] = "failed_external"]
  /\ Leave(d)
  /\ UNCHANGED <<sessionVars, retained, audits, fileVars, writerVars, memoryVars, faults>>

\* The first advance of a driver dispatches the cleaners, the second does not.
AdvanceArtifactPending(d) ==
  LET s == driver[d].cur IN
  /\ Advancing(d)
  /\ receipt[s] # "completed"
  /\ Quiet(s)
  /\ PendingChildren(s) = {}
  /\ ~Drained(s)
  /\ receipt' = [receipt EXCEPT ![s] = "failed_external"]
  /\ IF At(d, "advance") THEN GoTo(d, "sandbox") ELSE Leave(d)
  /\ UNCHANGED <<sessionVars, retained, audits, fileVars, writerVars, memoryVars, faults>>

\* The count of kept files is only ever raised: a retry no longer sees the rows.
RetainedCount(s) ==
  LET observed == Cardinality(Rows(s, "legacy"))
  IN  IF observed > retained[s] THEN observed ELSE retained[s]

\* The advance that removed the row audits the deletion.
DeletionRecords(s) == IF row[s] = "deleting" THEN audits[s] + 1 ELSE audits[s]

\* The row goes with everything that cascades from it: its manifests, its
\* proposals, and any child row.
AdvanceCascade(d) ==
  LET s == driver[d].cur
      removed == {x \in {s} \cup Children(s) : row[s] = "deleting" /\ row[x] # "none"}
  IN
  /\ Advancing(d)
  /\ receipt[s] # "completed"
  /\ Quiet(s)
  /\ PendingChildren(s) = {}
  /\ Drained(s)
  /\ retained' = [retained EXCEPT ![s] = RetainedCount(s)]
  /\ row' = [x \in Sessions |-> IF x \in removed THEN "gone" ELSE row[x]]
  /\ entry' = [f \in Files |-> IF Owner[f] \in removed THEN "none" ELSE entry[f]]
  /\ bound' = {f \in bound : Owner[f] \notin removed}
  /\ proposals' = {f \in proposals : Owner[f] \notin removed}
  /\ audits' = [audits EXCEPT ![s] = DeletionRecords(s)]
  /\ GoTo(d, "complete")
  /\ UNCHANGED <<executing, overdue, receipt, disk, writerVars, cites, faults>>

\* Faulty: the receipt is marked over a vault pass that did not happen.
FaultyComplete(d) ==
  /\ At(d, "complete")
  /\ GoTo(d, "finish")
  /\ UNCHANGED <<sessionVars, receiptVars, fileVars, writerVars, memoryVars, faults>>

\* The completion is a vault pass after the cascade; the receipt is marked
\* afterwards, outside the transaction.
Complete(d) ==
  /\ At(d, "complete")
  /\ \/ ReconcileVault /\ NoFault /\ GoTo(d, "finish")
     \/ Fault /\ GoTo(d, "unfinish") /\ UNCHANGED <<entry, bound, memoryVars>>
  /\ UNCHANGED <<sessionVars, receiptVars, disk, writerVars>>

Finish(d) ==
  /\ At(d, "finish")
  /\ receipt' = [receipt EXCEPT ![driver[d].cur] = "completed"]
  /\ Leave(d)
  /\ UNCHANGED <<sessionVars, retained, audits, fileVars, writerVars, memoryVars, faults>>

\* Faulty: a late driver marks whatever it finds.
FaultyMarkFailed(s) == receipt' = [receipt EXCEPT ![s] = "failed_external"]

\* markSessionDeletionFailedTx and markSessionDeletionCompletionFailure: a
\* completed receipt is never reopened.
MarkFailed(s) == receipt' = [receipt EXCEPT ![s] = IF @ = "completed" THEN @ ELSE "failed_external"]

\* markSessionDeletionCompletionFailure and MarkSessionDeletionReceiptFailure.
RecordOnReceipt(d) ==
  /\ driver[d].pc \in {"unfinish", "mark_receipt"}
  /\ MarkFailed(driver[d].cur)
  /\ Leave(d)
  /\ UNCHANGED <<sessionVars, retained, audits, fileVars, writerVars, memoryVars, faults>>

\* The sandbox cleaner: mcp-files removes the session's namespace.  A failed
\* call may have removed any part of it, or all of it with the answer lost.
CleanSandbox(d) ==
  LET namespace == FilesOf(driver[d].cur, "owned") IN
  /\ At(d, "sandbox")
  /\ \/ /\ disk' = disk \ namespace
        /\ NoFault
        /\ GoTo(d, "vault")
     \/ /\ Fault
        /\ \E gone \in SUBSET (namespace \cap disk) : disk' = disk \ gone
        /\ driver' = [driver EXCEPT ![d].pc = "vault", ![d].failed = {"sandbox"}]
  /\ UNCHANGED <<sessionVars, receiptVars, entry, bound, writerVars, memoryVars>>

\* PurgeSessionVaultArtifacts: each row is attempted.  A row that names no
\* bytes drains only if nothing is under its path.  The rows of the files that
\* went are dropped together, which can fail; the rows that failed are marked.
Unproven(s) == Rows(s, "note") \cap (disk \ bound)
Purge(s, failing, dropped) ==
  LET cleared == Rows(s, "note") \ failing IN
  /\ Unproven(s) \subseteq failing
  /\ cleared = {} => dropped
  /\ disk' = disk \ cleared
  /\ entry' = [f \in Files |-> IF f \in failing THEN "delete_failed"
                               ELSE IF f \in cleared /\ dropped THEN "none" ELSE entry[f]]
  /\ bound' = IF dropped THEN bound \ cleared ELSE bound
  /\ IF failing = Unproven(s) /\ dropped THEN NoFault ELSE Fault

\* The vault cleaner reports kept rows of removed notes as no failure of its own.
CleanVault(d) ==
  LET s == driver[d].cur IN
  /\ At(d, "vault")
  /\ \E failing \in SUBSET Rows(s, "note"), dropped \in BOOLEAN :
       /\ Purge(s, failing, dropped)
       /\ driver' = [driver EXCEPT
            ![d].pc = "forget_sandbox",
            ![d].failed = IF failing # {} /\ dropped THEN @ \cup {"vault"} ELSE @]
  /\ UNCHANGED <<sessionVars, receiptVars, writerVars, memoryVars>>

\* forgetSandboxArtifacts drops the rows of a cleaned namespace one by one.
ForgetSandbox(d) ==
  LET tracked == Rows(driver[d].cur, "owned") IN
  /\ At(d, "forget_sandbox")
  /\ \/ /\ "sandbox" \in driver[d].failed
        /\ GoTo(d, "forget_vault")
        /\ UNCHANGED <<entry, faults>>
     \/ /\ "sandbox" \notin driver[d].failed
        /\ entry' = [f \in Files |-> IF f \in tracked THEN "none" ELSE entry[f]]
        /\ GoTo(d, "forget_vault")
        /\ NoFault
     \/ /\ "sandbox" \notin driver[d].failed
        /\ Fault
        /\ \E some \in SUBSET tracked :
             entry' = [f \in Files |-> IF f \in some THEN "none" ELSE entry[f]]
        /\ driver' = [driver EXCEPT ![d].pc = "forget_vault", ![d].unfinal = {"sandbox"}]
  /\ UNCHANGED <<sessionVars, receiptVars, bound, disk, writerVars, memoryVars>>

\* A finished vault cleaner runs its purge again.  What the pass observed then
\* decides whether the receipt advances or a failure is recorded, and where.
Judged(rec) == [rec EXCEPT !.pc =
  IF rec.failed = {} /\ rec.unfinal = {} THEN "again"
  ELSE IF "sandbox" \in rec.failed THEN "mark_sandbox"
  ELSE IF "vault" \in rec.failed THEN "mark_vault"
  ELSE "mark_receipt"]
ForgetVault(d) ==
  LET s == driver[d].cur IN
  /\ At(d, "forget_vault")
  /\ \/ /\ "vault" \in driver[d].failed
        /\ driver' = [driver EXCEPT ![d] = Judged(@)]
        /\ UNCHANGED <<fileVars, faults>>
     \/ /\ "vault" \notin driver[d].failed
        /\ \E failing \in SUBSET Rows(s, "note"), dropped \in BOOLEAN :
             /\ Purge(s, failing, dropped)
             /\ LET late == IF failing = {} /\ dropped THEN {} ELSE {"vault"} IN
                driver' = [driver EXCEPT ![d] =
                  Judged([@ EXCEPT !.unfinal = driver[d].unfinal \cup late])]
  /\ UNCHANGED <<sessionVars, receiptVars, writerVars, memoryVars>>

MarkScope(s, kind) ==
  /\ MarkFailed(s)
  /\ entry' = [f \in Files |->
       IF f \in Rows(s, kind) /\ receipt[s] # "completed" THEN "delete_failed" ELSE entry[f]]

MarkSandbox(d) ==
  /\ At(d, "mark_sandbox")
  /\ MarkScope(driver[d].cur, "owned")
  /\ IF "vault" \in driver[d].failed THEN GoTo(d, "mark_vault") ELSE Leave(d)
  /\ UNCHANGED <<sessionVars, retained, audits, bound, disk, writerVars, memoryVars, faults>>

MarkVault(d) ==
  /\ At(d, "mark_vault")
  /\ MarkScope(driver[d].cur, "note")
  /\ Leave(d)
  /\ UNCHANGED <<sessionVars, retained, audits, bound, disk, writerVars, memoryVars, faults>>

\* A statement fails or the caller's context ends: the withdrawal of the
\* session at hand is given up where it is, or a child is skipped.
GiveUp(d) ==
  /\ ~At(d, "idle")
  /\ Fault
  /\ IF At(d, "child")
       THEN \E c \in driver[d].todo :
              driver' = [driver EXCEPT ![d] = ToRest([@ EXCEPT !.todo = driver[d].todo \ {c}])]
       ELSE Leave(d)
  /\ UNCHANGED <<sessionVars, receiptVars, fileVars, writerVars, memoryVars>>

\* The orchestrator dies, and with it every driver and every note in the
\* writing; the tool server and the workers live on.
Crash ==
  /\ Fault
  /\ driver' = [d \in Drivers |-> Idle]
  /\ writer' = [f \in Files |-> IF Kind[f] = "note" THEN "idle" ELSE writer[f]]
  /\ UNCHANGED <<sessionVars, receiptVars, fileVars, writes, memoryVars>>

DriverStep(d) ==
  \/ ListChildren(d) \/ \E c \in Sessions : WithdrawChild(d, c)
  \/ AdvanceCompleted(d) \/ AdvanceExecuting(d) \/ AdvanceChildPending(d)
  \/ AdvanceArtifactPending(d) \/ AdvanceCascade(d)
  \/ Complete(d) \/ Finish(d) \/ RecordOnReceipt(d)
  \/ CleanSandbox(d) \/ CleanVault(d) \/ ForgetSandbox(d) \/ ForgetVault(d)
  \/ MarkSandbox(d) \/ MarkVault(d)

WriterStep(f) ==
  \/ InstallWrite(f) \/ FailWrite(f) \/ FinalizeWrite(f) \/ LoseReport(f)
  \/ RecordNote(f) \/ AbandonNote(f)

Next ==
  \/ \E s \in Sessions :
       CreateChild(s) \/ StartExecution(s) \/ ExitExecution(s) \/ DeadlinePasses(s)
  \/ \E f \in Files : ReserveWrite(f) \/ WriterStep(f) \/ Promote(f) \/ Reject(f) \/ UserRemoves(f)
  \/ Reconcile
  \/ \E d \in Drivers : (\E s \in Sessions : Withdraw(d, s)) \/ DriverStep(d) \/ GiveUp(d)
  \/ Crash

Spec == Init /\ [][Next]_vars

\* The ticker of app.New comes round to every unfinished chat receipt, whatever
\* happened to it before; a driver that is not interrupted goes on; an executor
\* told to stop exits; a tool call ends.  Faults are finitely many.
Fairness ==
  /\ \A d \in Drivers : WF_vars(DriverStep(d))
  /\ \A d \in Drivers, s \in Sessions : SF_vars(Unfinished(s) /\ Withdraw(d, s))
  /\ \A s \in Sessions : WF_vars(ExitExecution(s))
  /\ \A f \in Files : WF_vars(WriterStep(f))

-----------------------------------------------------------------------------
\* A completed receipt tells the truth (AdvanceSessionDeletion): the session's
\* row is gone, no manifest row or proposal of it is left, no executor of it is
\* alive, and no belief in the vault still cites it.
CompletedMeansGone ==
  \A s \in Sessions : receipt[s] = "completed" =>
    /\ row[s] = "gone"
    /\ ~executing[s]
    /\ s \notin cites
    /\ \A f \in Files : Owner[f] = s => entry[f] = "none" /\ f \notin proposals

\* The cascade of a chat never takes a delegation session out from under its
\* worker or past its own cleaners: when the chat's row is gone, every child
\* it had went through a withdrawal of its own, audited and completed.
ChildrenFirst ==
  \A p \in Sessions : row[p] = "gone" =>
    \A c \in Children(p) :
      row[c] = "none" \/ (row[c] = "gone" /\ receipt[c] = "completed" /\ audits[c] = 1)

\* One session.deleted row is audited for a deleted session, however often its
\* withdrawal is retried and whoever drives it.
OneDeletionRecord ==
  \A s \in Sessions : audits[s] = IF row[s] = "gone" THEN 1 ELSE 0

\* The cleaners run only over a session that is closed, whose executors are
\* gone and whose children are finished, and stay so while they run.
CleanersRunQuiet ==
  \A d \in Drivers :
    driver[d].pc \in {"sandbox", "vault", "forget_sandbox", "forget_vault"} =>
      LET s == driver[d].cur IN
      row[s] \in {"deleting", "gone"} /\ ~executing[s] /\ PendingChildren(s) = {}

\* A file of the session on disk is named by a manifest row, so that the
\* withdrawal cannot complete over a file nothing accounts for.  (A legacy
\* file outlives its row, and is counted instead.)
FilesTracked ==
  \A f \in disk : Kind[f] # "legacy" => entry[f] # "none"

\* The receipt's count of files left behind covers every legacy file that is
\* on disk when it completes, also after retries that no longer see the rows.
RetainedTruthful ==
  \A s \in Sessions : receipt[s] = "completed" =>
    Cardinality(FilesOf(s, "legacy") \cap disk) <= retained[s]

\* A completed receipt is a durable tombstone: no late driver reopens it or
\* changes what it reports.
CompletedIsFinal ==
  [][\A s \in Sessions : receipt[s] = "completed" =>
       receipt'[s] = "completed" /\ retained'[s] = retained[s]]_vars

\* A session is deleted once and for good: one record, and a receipt that stands,
\* whichever drivers, retries and failures come together.
DeletedOnce == []OneDeletionRecord /\ CompletedIsFinal

\* While cleaners run nothing else touches the session, and a completed receipt
\* tells the truth.
QuietAndGone == TypeOK /\ CleanersRunQuiet /\ CompletedMeansGone

\* A note on disk that no row can prove to be Turing's: only a reconcile binds
\* it, and the purge refuses it until then.
Stranded == \E f \in disk \ bound : Kind[f] = "note" /\ entry[f] # "none"

\* A withdrawal that has begun completes, through any finite number of crashes
\* and failures and for the delegation sessions as well, unless a note waits
\* forever for the reconcile that would bind it.
AllFinished ==
  \A s \in Sessions : row[s] \in {"deleting", "gone"} => receipt[s] = "completed"
WithdrawalFinishes == <>[](~Stranded) => []<>AllFinished
=============================================================================
