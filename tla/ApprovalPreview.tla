--------------------------- MODULE ApprovalPreview ---------------------------
(***************************************************************************)
(* The decision on one pending approval of a file mutation: two or more    *)
(* people look at its details, refresh its preview, approve or deny it,    *)
(* and an automation's grant approves it without being asked, while the    *)
(* file changes, the deadline passes and the session is withdrawn.         *)
(*                                                                         *)
(* A preview is the content of the file it was made of, or Unavailable;    *)
(* its hash covers that snapshot, so equal hashes are equal previews.      *)
(* Each read, each transaction and each request to mcp-files is a step.    *)
(* The arguments of the call are stored with it and do not change.         *)
(***************************************************************************)
EXTENDS Integers, FiniteSets

CONSTANTS
  People, Automation,      \* who may decide; Automation is the automation's grant
  None, Unavailable,
  MaxChanges,        \* changes of the file by others
  MaxOpens,          \* requests of one person
  MaxGrants          \* requests of the automation

Actors == People \cup {Automation}
Contents == 0..MaxChanges
Views == Contents \cup {None, Unavailable}

ASSUME ValuesAssumption ==
  /\ MaxChanges \in Nat
  /\ Automation \notin People
  /\ None \notin Contents \cup {Unavailable}
  /\ None \notin [before : Views, by : Actors]

VARIABLES
  file,      \* the content under the path
  status,    \* of the approval
  preview,   \* the stored preview, or None
  token,     \* the token of the approval and who it was made for, or None
  late,      \* the deadline has passed
  session,   \* "active" or "deleting"
  req,       \* the request of an actor
  shown,     \* what an actor's details last showed, or None
  during,    \* contents of the file since an actor's request began
  audited,   \* the automation's approval is in the audit log
  notice     \* the chat says nobody was asked

vars == <<file, status, preview, token, late, session, req, shown, during, audited, notice>>
world == <<file, late, session>>
record == <<status, preview, token, audited, notice>>

Idle == [pc |-> "idle", op |-> "open", refresh |-> FALSE, made |-> None, got |-> None, ready |-> FALSE, opens |-> 0]

Init ==
  /\ file = 0
  /\ status = "pending"
  /\ preview = None
  /\ token = None
  /\ late = FALSE
  /\ session = "active"
  /\ req = [a \in Actors |-> Idle]
  /\ shown = [a \in Actors |-> None]
  /\ during = [a \in Actors |-> {}]
  /\ audited = FALSE
  /\ notice = FALSE

At(a, pc) == req[a].pc = pc
GoTo(a, pc) == req' = [req EXCEPT ![a].pc = pc]
Leave(a) == req' = [req EXCEPT ![a] = [Idle EXCEPT !.opens = req[a].opens]]
Open == status \in {"pending", "approved"}

(* The world ***************************************************************)

Change ==
  /\ file < MaxChanges
  /\ file' = file + 1
  /\ during' = [a \in Actors |-> IF At(a, "idle") THEN during[a] ELSE during[a] \cup {file + 1}]
  /\ UNCHANGED <<record, late, session, req, shown>>

Deadline == ~late /\ late' = TRUE /\ UNCHANGED <<record, file, session, req, shown, during>>

\* A withdrawal stops the run: nothing is decided from here on.
Withdraw ==
  /\ session = "active"
  /\ session' = "deleting"
  /\ UNCHANGED <<record, file, late, req, shown, during>>

\* ExpireApprovalWithEvent: the token goes with it.
Expired == status' = "expired" /\ token' = None /\ UNCHANGED <<preview, audited, notice>>
GetApprovalForRuntime ==
  /\ late /\ Open
  /\ Expired
  /\ UNCHANGED <<world, req, shown, during>>

(* Requests ****************************************************************)

Begin(a, op, refresh) ==
  /\ At(a, "idle")
  /\ req[a].opens < IF a = Automation THEN MaxGrants ELSE MaxOpens
  /\ req' = [req EXCEPT ![a] = [Idle EXCEPT !.pc = "look", !.op = op, !.refresh = refresh, !.opens = req[a].opens + 1]]
  /\ during' = [during EXCEPT ![a] = {file}]
  /\ UNCHANGED <<world, record, shown>>

\* A person opens the details, refreshes them, or approves what was shown.
OpenDetails(a) == \E refresh \in BOOLEAN : Begin(a, "open", refresh)
ApproveApproval(a) == shown[a] # None /\ Begin(a, "approve", FALSE)
\* The grant refreshes the preview itself.
GrantUnattended == Begin(Automation, "grant", TRUE)

\* The first reads of GetApprovalDetails and of its callers.  A decision
\* past the deadline expires the approval.
Look(a) ==
  /\ At(a, "look")
  /\ \/ /\ session = "active" /\ ~late /\ Open /\ (req[a].refresh => status = "pending")
        /\ GoTo(a, "find")
        /\ UNCHANGED record
     \/ /\ late /\ Open /\ req[a].op # "open"
        /\ Expired
        /\ Leave(a)
     \/ /\ session # "active" \/ ~Open \/ (req[a].refresh /\ status # "pending") \/ (late /\ req[a].op = "open")
        /\ Leave(a)
        /\ UNCHANGED record
  /\ UNCHANGED <<world, shown, during>>

\* With no preview stored, or a refresh, one is made; the stored one is read
\* otherwise.
Find(a) ==
  /\ At(a, "find")
  /\ \/ /\ preview = None \/ req[a].refresh
        /\ GoTo(a, "make")
     \/ /\ preview # None /\ ~req[a].refresh
        /\ req' = [req EXCEPT ![a].pc = "check", ![a].got = preview]
  /\ UNCHANGED <<world, record, shown, during>>

\* preparePreview: mcp-files answers with what is there, or not at all.
Make(a) ==
  /\ At(a, "make")
  /\ \E p \in {file, Unavailable} : req' = [req EXCEPT ![a].pc = "store", ![a].made = p]
  /\ UNCHANGED <<world, record, shown, during>>

\* StoreApprovalPreview: the first one stays unless a refresh replaces it.
Storable == status = "pending" /\ ~late /\ session = "active"
Store(a) ==
  /\ At(a, "store")
  /\ \/ /\ Storable
        /\ preview' = IF preview = None \/ req[a].refresh THEN req[a].made ELSE preview
        /\ GoTo(a, "reread")
     \/ ~Storable /\ Leave(a) /\ UNCHANGED preview
  /\ UNCHANGED <<world, status, token, audited, notice, shown, during>>

Reread(a) ==
  /\ At(a, "reread")
  /\ \/ session = "active" /\ req' = [req EXCEPT ![a].pc = "check", ![a].got = preview]
     \/ session # "active" /\ Leave(a)
  /\ UNCHANGED <<world, record, shown, during>>

MustCheck(a) == req[a].got # Unavailable /\ req[a].made # req[a].got
Check(a) ==
  /\ At(a, "check")
  /\ \/ /\ MustCheck(a)
        /\ \E answered \in BOOLEAN :
             req' = [req EXCEPT ![a].pc = "confirm", ![a].ready = answered /\ file = req[a].got]
     \/ /\ ~MustCheck(a)
        /\ req' = [req EXCEPT ![a].pc = "confirm", ![a].ready = req[a].got # Unavailable]
  /\ UNCHANGED <<world, record, shown, during>>

\* The last reads: the session and the approval once more.  What is shown is
\* shown; an approval goes on only over the very preview the caller names.
\* Fault: the caller's hash is not compared.
FaultyNamesShown(a) == TRUE
NamesShown(a) == req[a].got = shown[a]
Confirm(a) ==
  LET usable == Open /\ ~late /\ req[a].ready IN
  /\ At(a, "confirm")
  /\ \/ /\ session = "active" /\ req[a].op = "open"
        /\ shown' = [shown EXCEPT ![a] = IF usable THEN req[a].got ELSE None]
        /\ Leave(a)
     \/ /\ session = "active" /\ req[a].op = "approve" /\ usable /\ NamesShown(a)
        /\ GoTo(a, "decide")
        /\ UNCHANGED shown
     \/ /\ session = "active" /\ req[a].op = "grant" /\ usable /\ status = "pending"
        /\ shown' = [shown EXCEPT ![a] = req[a].got]
        /\ GoTo(a, "audit")
     \/ /\ \/ session # "active"
           \/ req[a].op = "approve" /\ ~(usable /\ NamesShown(a))
           \/ req[a].op = "grant" /\ ~(usable /\ status = "pending")
        /\ Leave(a)
        /\ UNCHANGED shown
  /\ UNCHANGED <<world, record, during>>

\* An approval that is there already is the answer; one past its deadline expires.
Decide(a) ==
  /\ At(a, "decide")
  /\ \/ status = "pending" /\ ~late /\ session = "active" /\ GoTo(a, "commit") /\ UNCHANGED record
     \/ late /\ Open /\ Expired /\ Leave(a)
     \/ /\ ~Open \/ (~late /\ (status = "approved" \/ session # "active"))
        /\ Leave(a) /\ UNCHANGED record
  /\ UNCHANGED <<world, shown, during>>

\* The grant is written to the audit log before a token exists.
Recorded(ok) == ok
Audit(a) ==
  /\ At(a, "audit")
  /\ \E ok \in BOOLEAN :
       /\ audited' = (audited \/ ok)
       /\ IF Recorded(ok) THEN GoTo(a, "commit") ELSE Leave(a)
  /\ UNCHANGED <<world, status, preview, token, notice, shown, during>>

\* ApproveApprovalWithEvent: the stored preview is the one decided on.  A
\* grant that finds the approval given goes on to its notice all the same.
\* Fault: the stored preview is not compared.
FaultyDecidable(a) == session = "active" /\ Open
Decidable(a) == session = "active" /\ preview = req[a].got /\ Open
Commit(a) ==
  /\ At(a, "commit")
  /\ \/ /\ Decidable(a) /\ (late => status = "approved")
        /\ status' = "approved"
        /\ token' = IF status = "approved" THEN token ELSE [before |-> req[a].got, by |-> a]
        /\ notice' = (notice \/ a = Automation)
        /\ UNCHANGED <<preview, audited>>
     \/ Decidable(a) /\ late /\ status = "pending" /\ Expired
     \/ ~Decidable(a) /\ UNCHANGED record
  /\ Leave(a)
  /\ UNCHANGED <<world, shown, during>>

\* DenyApproval: one transaction; past the deadline it is an expiry.
Deniable == status = "pending"
DenyApproval ==
  /\ Deniable
  /\ session = "active"
  /\ IF late THEN Expired ELSE status' = "denied" /\ UNCHANGED <<token, preview, audited, notice>>
  /\ UNCHANGED <<world, req, shown, during>>

Step(a) ==
  \/ Look(a) \/ Find(a) \/ Make(a) \/ Store(a) \/ Reread(a) \/ Check(a) \/ Confirm(a)
  \/ Decide(a) \/ Audit(a) \/ Commit(a)

Next ==
  \/ Change \/ Deadline \/ Withdraw \/ GetApprovalForRuntime \/ DenyApproval
  \/ \E a \in People : OpenDetails(a) \/ ApproveApproval(a)
  \/ GrantUnattended
  \/ \E a \in Actors : Step(a)

Spec == Init /\ [][Next]_vars

(* Properties **************************************************************)

\* A token stands exactly while the approval is given.
TypeOK ==
  /\ status \in {"pending", "approved", "denied", "expired"}
  /\ preview \in Views
  /\ token # None <=> status = "approved"

\* A token is bound to the content its approver was shown, and that is the
\* preview that stays on record, through refreshes and other people's details.
BoundToShown ==
  token # None => preview = token.before

\* What a token is given for is what the approver had been shown, and was
\* the content of the file at some moment of the request that gave it.
ShownAndLive ==
  [][token = None /\ token' # None =>
       LET a == token'.by IN shown[a] = token'.before /\ token'.before \in during[a]]_vars

\* A preview that was decided on is not replaced.
PreviewFixed == [][status # "pending" => preview' = preview]_vars

\* Nothing is approved unattended without a record of it.
GrantRecorded == token # None => (token.by = Automation => audited)

\* What is approved stays what was shown, and an unattended approval is on record.
ShownIsGranted == TypeOK /\ BoundToShown /\ GrantRecorded

\* An approval is given for what its approver was shown and the file held, and the
\* preview it was given for is not replaced afterwards.
PreviewHolds == ShownAndLive /\ PreviewFixed
=============================================================================
