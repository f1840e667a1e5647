--------------------------- MODULE BeliefPromotion ---------------------------
(***************************************************************************)
(* Accepting a proposed belief.  The note is installed under beliefs/,     *)
(* made durable there, and only then taken out of inbox/; one transaction  *)
(* records it.  Whatever stops this halfway is undone, or is left for the  *)
(* reconcile pass to finish.  The user edits and removes both files, may   *)
(* delete the conversation the note cites, and the process may die.        *)
(*                                                                         *)
(* Each directory keeps what a crash might leave of it: the set of entries *)
(* its unflushed operations allow.  How a file is taken off its name is in *)
(* InboxRemoval; here it happens or it does not.                           *)
(***************************************************************************)
EXTENDS Naturals, FiniteSets

CONSTANTS
  MaxEdits,   \* bound: what the user does to the two files
  MaxFaults,  \* bound: failed calls and crashes
  MaxTries    \* bound: promotions attempted

None == 0
Versions == 1..(MaxEdits + 1)
Holdings == {None} \cup Versions
Pcs == {"idle", "checked", "install", "installed", "unlink", "gone", "undo", "moved"}

VARIABLES
  inbox, belief,   \* the two files
  disk,            \* what a crash may leave of them
  row,             \* memory_candidates: the proposal is still pending
  artifact,        \* vault_artifacts: its manifest row
  note,            \* memory_notes: the indexed version, and whether it is withdrawn
  live,            \* the conversation it cites
  op,              \* the promotion, under the decision lock
  accepted,        \* versions the user has accepted
  written,         \* versions the user wrote under beliefs/
  warned,          \* a failed call or a crash may have left both files
  owed,            \* the user has not removed the note
  newest, tries, faults

files == <<inbox, belief, disk>>
rows == <<row, artifact, note, live>>
ghosts == <<accepted, written, warned, owed>>
vars == <<files, rows, op, ghosts, newest, tries, faults>>

Resting == [pc |-> "idle", decided |-> None, content |-> None]

\* One decision at a time holds the proposal, and a pending one has its manifest
\* row unless reconcile released it.
TypeOK ==
  /\ inbox \in Holdings /\ belief \in Holdings
  /\ disk \in [inbox : SUBSET Holdings, belief : SUBSET Holdings]
  /\ inbox \in disk.inbox /\ belief \in disk.belief
  /\ row \in BOOLEAN /\ live \in BOOLEAN /\ warned \in BOOLEAN /\ owed \in BOOLEAN
  /\ artifact \in {"ready", "delete_failed", "gone"}
  /\ note \in [version : Holdings, withdrawn : BOOLEAN]
  /\ op \in [pc : Pcs, decided : Holdings, content : Holdings]
  /\ accepted \subseteq Versions /\ written \subseteq Versions
  /\ newest \in Versions /\ tries \in 0..MaxTries /\ faults \in 0..MaxFaults

Init ==
  /\ inbox = 1 /\ belief = None
  /\ disk = [inbox |-> {1}, belief |-> {None}]
  /\ row = TRUE /\ artifact = "ready" /\ live = TRUE
  /\ note = [version |-> None, withdrawn |-> FALSE]
  /\ op = Resting
  /\ accepted = {} /\ written = {} /\ warned = FALSE /\ owed = TRUE
  /\ newest = 1 /\ tries = 0 /\ faults = 0

-----------------------------------------------------------------------------

At(pc) == op.pc = pc
GoTo(pc) == op' = [op EXCEPT !.pc = pc]
Fault == faults < MaxFaults /\ faults' = faults + 1
NoFault == UNCHANGED faults
RowsKept == UNCHANGED <<rows, accepted, written, owed, newest, tries>>

SetInbox(v) == inbox' = v /\ disk' = [disk EXCEPT !.inbox = @ \cup {v}] /\ UNCHANGED belief
SetBelief(v) == belief' = v /\ disk' = [disk EXCEPT !.belief = @ \cup {v}] /\ UNCHANGED inbox
FlushInbox == disk' = [disk EXCEPT !.inbox = {inbox}] /\ UNCHANGED <<inbox, belief>>
FlushBelief == disk' = [disk EXCEPT !.belief = {belief}] /\ UNCHANGED <<inbox, belief>>

\* beginCandidateDecision and decideAboutCandidateFile, for the version the user
\* was shown.
Check ==
  /\ At("idle")
  /\ row /\ live /\ inbox # None
  /\ tries < MaxTries
  /\ tries' = tries + 1
  /\ op' = [pc |-> "checked", decided |-> inbox, content |-> None]
  /\ accepted' = accepted \cup {inbox}
  /\ UNCHANGED <<files, rows, written, warned, owed, newest, faults>>

\* PromoteToBeliefs reads the proposal again, under its path lock.
Reread ==
  /\ At("checked")
  /\ op' = IF inbox = op.decided THEN [op EXCEPT !.pc = "install", !.content = inbox] ELSE Resting
  /\ UNCHANGED <<files, warned>> /\ RowsKept /\ NoFault

\* installStagedFile links the copy, refuses a name that is taken, and undoes a
\* link it cannot finish, if it can.
Install ==
  /\ At("install")
  /\ \/ belief = None /\ SetBelief(op.content) /\ GoTo("installed") /\ UNCHANGED warned /\ NoFault
     \/ belief # None /\ op' = Resting /\ UNCHANGED <<files, warned>> /\ NoFault
     \/ /\ belief = None /\ Fault
        /\ disk' = [disk EXCEPT !.belief = @ \cup {op.content}] /\ UNCHANGED <<inbox, belief, warned>>
        /\ op' = Resting
     \/ belief = None /\ Fault /\ SetBelief(op.content) /\ warned' = TRUE /\ op' = Resting
  /\ RowsKept

\* The destination's directories.
SyncCopy ==
  /\ At("installed")
  /\ \/ FlushBelief /\ GoTo("unlink") /\ NoFault
     \/ Fault /\ GoTo("undo") /\ UNCHANGED files
  /\ UNCHANGED warned /\ RowsKept

\* unlinkPromotedSource: gone, changed or immovable, the promotion is undone.
Unlink ==
  /\ At("unlink")
  /\ \/ inbox = op.content /\ SetInbox(None) /\ GoTo("gone") /\ NoFault
     \/ inbox # op.content /\ GoTo("undo") /\ UNCHANGED files /\ NoFault
     \/ Fault /\ GoTo("undo") /\ UNCHANGED files
  /\ UNCHANGED warned /\ RowsKept

\* Its directory.  The belief stays whether or not this succeeds; a failure is
\* reported, and marks the manifest row.
SyncSource ==
  /\ At("gone")
  /\ \/ FlushInbox /\ GoTo("moved") /\ UNCHANGED artifact /\ NoFault
     \/ Fault /\ op' = Resting /\ artifact' = "delete_failed" /\ UNCHANGED files
  /\ UNCHANGED <<row, note, live, ghosts, newest, tries>>

\* removeInstalledCopy takes away the copy this promotion made, and nothing else.
Undo ==
  /\ At("undo")
  /\ \/ belief = op.content /\ SetBelief(None) /\ UNCHANGED warned /\ NoFault
     \/ belief # op.content /\ UNCHANGED files /\ warned' = TRUE /\ NoFault
     \/ Fault /\ UNCHANGED files /\ warned' = TRUE
  /\ op' = Resting
  /\ RowsKept

\* The transaction: the note, its live citations, the proposal and its manifest
\* row, together or not at all.
Record ==
  /\ At("moved")
  /\ \/ /\ note' = [version |-> op.content, withdrawn |-> ~live]
        /\ row' = FALSE
        /\ artifact' = "gone"
        /\ NoFault
     \/ Fault /\ UNCHANGED <<note, row, artifact>>
  /\ op' = Resting
  /\ UNCHANGED <<files, live, ghosts, newest, tries>>

-----------------------------------------------------------------------------
\* The other decision, the withdrawal of the conversation, and the pass.

Reject ==
  /\ At("idle")
  /\ row /\ live
  /\ inbox' = None /\ disk' = [disk EXCEPT !.inbox = {None}]
  /\ row' = FALSE /\ artifact' = "gone"
  /\ owed' = FALSE
  /\ UNCHANGED <<belief, note, live, op, accepted, written, warned, newest, tries, faults>>

\* Under the conversation's lock, so never inside a decision.
DeleteSession ==
  /\ At("idle")
  /\ live
  /\ live' = FALSE
  /\ inbox' = None /\ disk' = [disk EXCEPT !.inbox = {None}]
  /\ row' = FALSE /\ artifact' = "gone"
  /\ note' = [note EXCEPT !.withdrawn = @ \/ note.version # None]
  /\ owed' = (owed /\ ~row)
  /\ UNCHANGED <<belief, op, accepted, written, warned, newest, tries, faults>>

\* applyMemoryIndex, for this note: a new row cites what is live, and an existing
\* one that was withdrawn stays so.
IndexBelief ==
  /\ belief # None
  /\ note.version # belief
  /\ note' = [version |-> belief, withdrawn |-> note.withdrawn \/ ~live]
  /\ UNCHANGED <<files, row, artifact, live, op, ghosts, newest, tries, faults>>

\* removeVanishedNotesTx.
RemoveVanished ==
  /\ belief = None
  /\ note.version # None
  /\ note' = [version |-> None, withdrawn |-> FALSE]
  /\ UNCHANGED <<files, row, artifact, live, op, ghosts, newest, tries, faults>>

\* retireOrphanCandidate, under the decision lock, once the absence is durable.
RetireOrphan ==
  /\ At("idle")
  /\ row /\ inbox = None
  /\ FlushInbox
  /\ row' = FALSE
  /\ UNCHANGED <<artifact, note, live, op, ghosts, newest, tries, faults>>

\* releaseStaleReservation; a marked row is left to the withdrawal.
ReleaseReservation ==
  /\ At("idle")
  /\ ~row /\ inbox = None /\ artifact = "ready"
  /\ FlushInbox
  /\ artifact' = "gone"
  /\ UNCHANGED <<row, note, live, op, ghosts, newest, tries, faults>>

-----------------------------------------------------------------------------
\* The user's editor, which flushes what it writes, and the crash.

EditInbox ==
  /\ newest <= MaxEdits
  /\ inbox # None
  /\ newest' = newest + 1
  /\ inbox' = newest' /\ disk' = [disk EXCEPT !.inbox = {newest'}]
  /\ UNCHANGED <<belief, rows, op, ghosts, tries, faults>>

EditBelief ==
  /\ newest <= MaxEdits
  /\ belief # None
  /\ newest' = newest + 1
  /\ belief' = newest' /\ disk' = [disk EXCEPT !.belief = {newest'}]
  /\ written' = written \cup {newest'}
  /\ UNCHANGED <<inbox, rows, op, accepted, warned, owed, tries, faults>>

Remove ==
  /\ newest <= MaxEdits
  /\ newest' = newest + 1
  /\ \/ inbox # None /\ inbox' = None /\ disk' = [disk EXCEPT !.inbox = {None}] /\ UNCHANGED belief
     \/ belief # None /\ belief' = None /\ disk' = [disk EXCEPT !.belief = {None}] /\ UNCHANGED inbox
  /\ owed' = FALSE
  /\ UNCHANGED <<rows, op, accepted, written, warned, tries, faults>>

Crash ==
  /\ Fault
  /\ inbox' \in disk.inbox /\ belief' \in disk.belief
  /\ disk' = [inbox |-> {inbox'}, belief |-> {belief'}]
  /\ op' = Resting
  /\ warned' = TRUE
  /\ UNCHANGED <<rows, accepted, written, owed, newest, tries>>

Promoting == Reread \/ Install \/ SyncCopy \/ Unlink \/ SyncSource \/ Undo \/ Record
Reconciling == IndexBelief \/ RemoveVanished \/ RetireOrphan \/ ReleaseReservation
Editing == EditInbox \/ EditBelief \/ Remove

Next == Check \/ Promoting \/ Reject \/ DeleteSession \/ Reconciling \/ Editing \/ Crash

Spec == Init /\ [][Next]_vars

\* A request runs to its end, and passes keep running.
Fairness ==
  /\ WF_vars(Promoting)
  /\ WF_vars(IndexBelief) /\ WF_vars(RemoveVanished)
  /\ WF_vars(RetireOrphan) /\ WF_vars(ReleaseReservation)

-----------------------------------------------------------------------------

\* A note the user has not removed survives every crash: wherever the promotion
\* stands, one of its two files is durably there.
NoteNeverLost == owed => None \notin disk.inbox \/ None \notin disk.belief

\* What Turing puts under beliefs/ is a text the user accepted, never the one the
\* proposal was changed into meanwhile.
OnlyAcceptedBelieved == belief \in {None} \cup accepted \cup written

\* A proposal is not open for decision beside a belief made from it, unless a
\* failure the user was told of, or a crash, left both.
OneFate == At("idle") /\ row /\ inbox # None /\ belief # None => warned

\* An indexed note that cites a deleted conversation is withdrawn, also when the
\* pass met its file after the conversation was gone.
GroundedOrWithdrawn == note.version # None /\ ~live => note.withdrawn

\* A promotion that stopped after the move is finished by the passes: the note is
\* indexed as the file says, and nothing pending is left of the proposal.
Moved == inbox = None => ~row /\ artifact # "ready" /\ note.version = belief
MoveIsFinished == <>[]Moved
=============================================================================
