----------------------------- MODULE FileWrites -----------------------------
(***************************************************************************)
(* Approved file writes of mcp-files and the manifest the orchestrator     *)
(* keeps of them: files.create, files.update and files.read of the runs of *)
(* one session on one logical path, and the withdrawal of the session.     *)
(*                                                                         *)
(* Physical paths: 0 is the file at the root of the sandbox, which no      *)
(* session made; r is the copy in the directory of run r.  Run ids are in  *)
(* the order of time.  A content is a value; None is no file.  An approval *)
(* is bound to the path and the content the person was shown.              *)
(*                                                                         *)
(* A call holds the lock of its path from its check to its end.  Every     *)
(* request to the orchestrator and every change of a directory is a step;  *)
(* the lookup of a path is one.  The withdrawal's sweep takes no such lock.*)
(* Only mcp-files writes the sandbox.                                      *)
(***************************************************************************)
EXTENDS Integers, FiniteSets, FiniteSetsExt

CONSTANTS
  Calls,        \* tool calls, each with an approval of its own
  RunOf,        \* the run that makes a call
  Op,           \* "create", "update" or "read"
  After,        \* the content a call writes
  Runs,         \* run ids
  RootContent,  \* the content at the root of the sandbox, or None
  None,
  NoCall,
  MaxAttempts,  \* times a call may be sent
  MaxFaults,    \* calls cancelled or failing before their file is in place
  MaxInterrupts,\* calls cancelled or failing after
  MaxCrashes    \* restarts of mcp-files

VARIABLES
  session,   \* "active", "deleting" or "gone"
  disk,      \* content by physical path
  dirs,      \* runs whose directory exists
  stage,     \* calls whose staging file exists
  row,       \* manifest: row[r][p] is run r's row for path p
  approval,  \* "none", "approved", "expired" or "consumed"
  binding,   \* what was shown to the person who approved
  call,      \* where a call is
  holder,    \* holder of the lock of a path
  used,      \* attempts, faults, interruptions and crashes so far
  sweep      \* "idle", "clean" or "forget"

vars == <<session, disk, dirs, stage, row, approval, binding, call, holder, used, sweep>>

Paths == {0} \cup Runs
Fresh == [pc |-> "idle", path |-> 0, created |-> FALSE, others |-> {}, got |-> None, reply |-> "none"]

Init ==
  /\ session = "active"
  /\ disk = [p \in Paths |-> IF p = 0 THEN RootContent ELSE None]
  /\ dirs = {}
  /\ stage = {}
  /\ row = [r \in Runs |-> [p \in Paths |-> "none"]]
  /\ approval = [c \in Calls |-> "none"]
  /\ binding = [c \in Calls |-> [path |-> 0, before |-> None]]
  /\ call = [c \in Calls |-> Fresh]
  /\ holder = [p \in Paths |-> NoCall]
  /\ used = [sent |-> [c \in Calls |-> 0], faults |-> 0, interrupts |-> 0, crashes |-> 0]
  /\ sweep = "idle"

Exists(p) == disk[p] # None
At(c, pc) == call[c].pc = pc
GoTo(c, pc) == call' = [call EXCEPT ![c].pc = pc]

\* resolveRead: the run's own copy, then that of the latest other run of the
\* session, then the file at the root.
Fallback(r) == LET others == {q \in Runs \ {r} : Exists(q)} IN IF others = {} THEN 0 ELSE Max(others)
ResolveRead(r) == IF Exists(r) THEN r ELSE Fallback(r)

\* resolveWrite: a new file is the run's own; an update follows the file.
ResolveWrite(c) ==
  LET r == RunOf[c] found == ResolveRead(RunOf[c]) IN
  IF Op[c] = "create" \/ ~Exists(found) THEN r ELSE found

\* lockContext: one holder of a path at a time.
Free(p) == holder[p] = NoCall

(* Approval ****************************************************************)

\* PreparePreview under the path's lock, then the person's approval.
Review(c) ==
  LET p == ResolveWrite(c) IN
  /\ Op[c] # "read"
  /\ approval[c] = "none"
  /\ session = "active"
  /\ Free(p)
  /\ Exists(p) <=> Op[c] = "update"
  /\ binding' = [binding EXCEPT ![c] = [path |-> p, before |-> disk[p]]]
  /\ approval' = [approval EXCEPT ![c] = "approved"]
  /\ UNCHANGED <<session, disk, dirs, stage, row, call, holder, used, sweep>>

Expire(c) ==
  /\ approval[c] = "approved"
  /\ approval' = [approval EXCEPT ![c] = "expired"]
  /\ UNCHANGED <<session, disk, dirs, stage, row, binding, call, holder, used, sweep>>

(* A call ******************************************************************)

\* CallRequestContext up to the wait for the path's lock.
Begin(c) ==
  /\ At(c, "idle")
  /\ used.sent[c] < MaxAttempts
  /\ Op[c] = "read" => session = "active"
  /\ Op[c] # "read" => approval[c] # "none"
  /\ used' = [used EXCEPT !.sent[c] = @ + 1]
  /\ call' = [call EXCEPT ![c] = [Fresh EXCEPT
       !.pc = "lock", !.path = IF Op[c] = "read" THEN ResolveRead(RunOf[c]) ELSE ResolveWrite(c),
       !.others = {q \in Runs : Exists(q)}]]
  /\ UNCHANGED <<session, disk, dirs, stage, row, approval, binding, holder, sweep>>

Lock(c) ==
  /\ At(c, "lock")
  /\ Free(call[c].path)
  /\ holder' = [holder EXCEPT ![call[c].path] = c]
  /\ GoTo(c, IF Op[c] = "read" THEN "read" ELSE "check")
  /\ UNCHANGED <<session, disk, dirs, stage, row, approval, binding, used, sweep>>

\* A call ends: the deferred unlock runs whatever the answer.
Unlocked(c) == [p \in Paths |-> IF holder[p] = c THEN NoCall ELSE holder[p]]
End(c, answer) ==
  /\ call' = [call EXCEPT ![c] = [@ EXCEPT !.pc = "idle", !.reply = answer]]
  /\ holder' = Unlocked(c)

\* A call that fails before it holds a reservation.
Refuse(c) == End(c, "error") /\ UNCHANGED <<session, disk, dirs, stage, row, approval, binding, sweep>>

\* ReleaseSandboxArtifactReservation: only a row still being written goes.
Released(state) == IF state = "writing" THEN "none" ELSE state
Release(c) == row' = [row EXCEPT ![RunOf[c]][call[c].path] = Released(@)]

\* A reserved write that fails before its file is in place: the staging file
\* is removed and the reservation released.
Abort(c) ==
  /\ End(c, "error")
  /\ stage' = stage \ {c}
  /\ Release(c)
  /\ UNCHANGED <<session, disk, dirs, approval, binding, sweep>>

\* The preconditions and writeBinding: the target and its content are those shown.
AsShown(c) == disk[call[c].path] = binding[c].before
AsReviewed(c) == binding[c].path = call[c].path /\ AsShown(c)

Check(c) ==
  /\ At(c, "check")
  /\ UNCHANGED used
  /\ \/ /\ AsReviewed(c)
        /\ GoTo(c, "reserve")
        /\ UNCHANGED <<session, disk, dirs, stage, row, approval, binding, holder, sweep>>
     \/ ~AsReviewed(c) /\ Refuse(c)

\* ReserveSandboxArtifact: a row that is there is left as it is.
Reserved(state) == IF state = "none" THEN "writing" ELSE state

\* ConsumeApproval reserves the row of this run and path before the approval
\* is spent.
Reserve(c) ==
  LET r == RunOf[c] p == call[c].path IN
  /\ At(c, "reserve")
  /\ UNCHANGED used
  /\ \/ /\ session = "active"
        /\ row' = [row EXCEPT ![r][p] = Reserved(@)]
        /\ call' = [call EXCEPT ![c].pc = "consume", ![c].created = row[r][p] = "none"]
        /\ UNCHANGED <<session, disk, dirs, stage, approval, binding, holder, sweep>>
     \/ session # "active" /\ Refuse(c)

\* The approval is spent.  A repeated request that finds the earlier one's
\* reservation is answered again; any other failure undoes a reservation this
\* request made.
Answers(c) == approval[c] = "approved" \/ (approval[c] = "consumed" /\ ~call[c].created)
Consume(c) ==
  /\ At(c, "consume")
  /\ UNCHANGED used
  /\ \/ /\ Answers(c)
        /\ approval' = [approval EXCEPT ![c] = "consumed"]
        /\ GoTo(c, "stage")
        /\ UNCHANGED <<session, disk, dirs, stage, row, binding, holder, sweep>>
     \/ /\ ~Answers(c)
        /\ End(c, "error")
        /\ row' = IF call[c].created THEN [row EXCEPT ![RunOf[c]][call[c].path] = Released(@)] ELSE row
        /\ UNCHANGED <<session, disk, dirs, stage, approval, binding, sweep>>

\* openDirectoryPathContext makes the directories of a new file.
WithDirectory(p) == dirs \cup ({p} \cap Runs)
\* createTemporaryFile: a name of its own beside the target.
WithStaging(c) == stage \cup {c}

\* The content goes to a staging file; an update may find its directory gone.
Stage(c) ==
  LET p == call[c].path IN
  /\ At(c, "stage")
  /\ UNCHANGED used
  /\ \/ /\ Op[c] = "update" => p \in dirs \cup {0}
        /\ dirs' = WithDirectory(p)
        /\ stage' = WithStaging(c)
        /\ GoTo(c, "boundary")
        /\ UNCHANGED <<session, disk, row, approval, binding, holder, sweep>>
     \/ Op[c] = "update" /\ p \notin dirs \cup {0} /\ Abort(c)

\* checkWriteBoundary: the session still takes work, the path is still the one.
WithinBoundary(c) == session = "active" /\ ResolveWrite(c) = call[c].path
Boundary(c) ==
  /\ At(c, "boundary")
  /\ UNCHANGED used
  /\ \/ /\ WithinBoundary(c)
        /\ GoTo(c, IF Op[c] = "update" THEN "compare" ELSE "install")
        /\ UNCHANGED <<session, disk, dirs, stage, row, approval, binding, holder, sweep>>
     \/ ~WithinBoundary(c) /\ Abort(c)

\* An update compares content and identity once more.
Compare(c) ==
  /\ At(c, "compare")
  /\ UNCHANGED used
  /\ \/ /\ AsShown(c)
        /\ GoTo(c, "install")
        /\ UNCHANGED <<session, disk, dirs, stage, row, approval, binding, holder, sweep>>
     \/ ~AsShown(c) /\ Abort(c)

\* The staging file is linked or renamed to the target, in one directory.
Install(c) ==
  LET p == call[c].path IN
  /\ At(c, "install")
  /\ UNCHANGED used
  /\ \/ /\ c \in stage
        /\ disk' = [disk EXCEPT ![p] = After[c]]
        /\ stage' = stage \ {c}
        /\ GoTo(c, "record")
        /\ UNCHANGED <<session, dirs, row, approval, binding, holder, sweep>>
     \/ c \notin stage /\ Abort(c)

\* commitWrite and FinalizeSandboxArtifact: the row is marked before the
\* session is looked at.
Record(c) ==
  LET r == RunOf[c] p == call[c].path IN
  /\ At(c, "record")
  /\ UNCHANGED used
  /\ \/ /\ row[r][p] # "none"
        /\ row' = [row EXCEPT ![r][p] = "ready"]
        /\ GoTo(c, "answer")
        /\ UNCHANGED <<session, disk, dirs, stage, approval, binding, holder, sweep>>
     \/ row[r][p] = "none" /\ Refuse(c)

Answer(c) ==
  /\ At(c, "answer")
  /\ End(c, IF session = "active" THEN "ok" ELSE "error")
  /\ UNCHANGED <<session, disk, dirs, stage, row, approval, binding, used, sweep>>

\* readContext: the content, then the session once more.
Read(c) ==
  /\ At(c, "read")
  /\ UNCHANGED used
  /\ \/ /\ Exists(call[c].path)
        /\ call' = [call EXCEPT ![c].pc = "answer", ![c].got = disk[call[c].path]]
        /\ UNCHANGED <<session, disk, dirs, stage, row, approval, binding, holder, sweep>>
     \/ ~Exists(call[c].path) /\ Refuse(c)

Step(c) ==
  \/ Lock(c) \/ Check(c) \/ Reserve(c) \/ Consume(c) \/ Stage(c) \/ Boundary(c)
  \/ Compare(c) \/ Install(c) \/ Record(c) \/ Answer(c) \/ Read(c)

\* The caller goes away, or an operation on the file system fails.  A failure
\* while the orchestrator is asked leaves what the request did there.
Fail(c) ==
  /\ used.faults < MaxFaults
  /\ used' = [used EXCEPT !.faults = @ + 1]
  /\ \/ call[c].pc \in {"lock", "check", "consume", "read"} /\ Refuse(c)
     \/ call[c].pc \in {"stage", "boundary", "compare", "install"} /\ Abort(c)

Stands(c) == UNCHANGED row
Interrupt(c) ==
  /\ At(c, "record")
  /\ used.interrupts < MaxInterrupts
  /\ used' = [used EXCEPT !.interrupts = @ + 1]
  /\ End(c, "error")
  /\ Stands(c)
  /\ UNCHANGED <<session, disk, dirs, stage, approval, binding, sweep>>

Crash ==
  /\ used.crashes < MaxCrashes
  /\ \E c \in Calls : ~At(c, "idle")
  /\ used' = [used EXCEPT !.crashes = @ + 1]
  /\ call' = [c \in Calls |-> IF At(c, "idle") THEN call[c] ELSE [call[c] EXCEPT !.pc = "idle", !.reply = "error"]]
  /\ holder' = [p \in Paths |-> NoCall]
  /\ UNCHANGED <<session, disk, dirs, stage, row, approval, binding, sweep>>

(* The withdrawal **********************************************************)

Withdraw ==
  /\ session = "active"
  /\ session' = "deleting"
  /\ UNCHANGED <<disk, dirs, stage, row, approval, binding, call, holder, used, sweep>>

OwnedRows == {rp \in Runs \X Runs : row[rp[1]][rp[2]] # "none"}
Round ==
  /\ session = "deleting"
  /\ sweep = "idle"
  /\ IF OwnedRows # {} THEN sweep' = "clean" /\ UNCHANGED session
                       ELSE session' = "gone" /\ UNCHANGED sweep
  /\ UNCHANGED <<disk, dirs, stage, row, approval, binding, call, holder, used>>

\* removeDirectoryTree: one entry after another, then the empty directory.
StagedIn(r) == {c \in stage : call[c].path = r}
Unlink(r) ==
  /\ sweep = "clean"
  /\ \/ Exists(r) /\ disk' = [disk EXCEPT ![r] = None] /\ UNCHANGED stage
     \/ \E c \in StagedIn(r) : stage' = stage \ {c} /\ UNCHANGED disk
  /\ UNCHANGED <<session, dirs, row, approval, binding, call, holder, used, sweep>>

Rmdir(r) ==
  /\ sweep = "clean"
  /\ r \in dirs
  /\ ~Exists(r)
  /\ StagedIn(r) = {}
  /\ dirs' = dirs \ {r}
  /\ UNCHANGED <<session, disk, stage, row, approval, binding, call, holder, used, sweep>>

\* The cleanup is done, or gives up and is tried again.
Cleaned ==
  /\ sweep = "clean"
  /\ \/ dirs = {} /\ sweep' = "forget" /\ UNCHANGED used
     \/ used.faults < MaxFaults /\ used' = [used EXCEPT !.faults = @ + 1] /\ sweep' = "idle"
  /\ UNCHANGED <<session, disk, dirs, stage, row, approval, binding, call, holder>>

Forgotten == [r \in Runs |-> [p \in Paths |-> IF p = 0 THEN row[r][p] ELSE "none"]]
Forget ==
  /\ sweep = "forget"
  /\ row' = Forgotten
  /\ sweep' = "idle"
  /\ UNCHANGED <<session, disk, dirs, stage, approval, binding, call, holder, used>>

Sweep == Round \/ Cleaned \/ Forget \/ \E r \in Runs : Unlink(r) \/ Rmdir(r)

Next ==
  \/ \E c \in Calls : Review(c) \/ Expire(c) \/ Begin(c) \/ Step(c) \/ Fail(c) \/ Interrupt(c)
  \/ Crash
  \/ Withdraw
  \/ Sweep

Spec == Init /\ [][Next]_vars

\* The server works on the calls it has; the withdrawal is driven again and again.
Fairness ==
  /\ \A c \in Calls : WF_vars(Step(c))
  /\ WF_vars(Sweep)

(* Properties **************************************************************)

\* A staging file belongs to a call past the check, and a lock to a call at work.
TypeOK ==
  /\ session \in {"active", "deleting", "gone"}
  /\ dirs \subseteq Runs
  /\ row \in [Runs -> [Paths -> {"none", "writing", "ready"}]]
  /\ sweep \in {"idle", "clean", "forget"}
  /\ \A p \in Paths : holder[p] # NoCall => call[holder[p]].path = p /\ ~At(holder[p], "idle")

\* A write takes effect over exactly the path and content its approver was
\* shown; only a withdrawal may have emptied the path in between.
ReviewedReplaced ==
  [][\A c \in Calls : At(c, "install") /\ call'[c].pc = "record" =>
       /\ binding[c].path = call[c].path
       /\ disk[call[c].path] = binding[c].before \/ session # "active"]_vars

\* Every file in the session's directories is in the manifest.
Accounted == \A r \in Runs : Exists(r) => \E q \in Runs : row[q][r] # "none"

\* Once the session is gone none of its files is there, however late a write
\* that was allowed before comes to its end.
NothingLeft == session = "gone" => \A r \in Runs : ~Exists(r)

\* A read is answered from the root's file only if no run of the session had
\* a copy of its own when the read began.
ServesOwnCopy ==
  \A c \in Calls : Op[c] = "read" /\ call[c].got # None /\ call[c].path = 0 => call[c].others = {}

\* A withdrawal that was begun ends, whatever writes are under way.
NotDeleting == session # "deleting"
WithdrawalEnds == []<>NotDeleting

\* A call that was begun is answered.
AllAnswered == \A c \in Calls : At(c, "idle")
CallsEnd == []<>AllAnswered
=============================================================================
