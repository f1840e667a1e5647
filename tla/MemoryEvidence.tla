--------------------------- MODULE MemoryEvidence ---------------------------
(***************************************************************************)
(* What a belief rests on.  A managed note cites the sessions it was drawn *)
(* from in its frontmatter; the sidecar table records the ones that still  *)
(* exist.  Deleting a session takes its evidence away, and a note that     *)
(* loses the last of it is withdrawn from reading.  A pass over the vault  *)
(* reads the note, gives it an identity if it has none, brings the row in  *)
(* line, and then brings the file's citations in line with the sidecar.    *)
(*                                                                         *)
(* One place under beliefs/.  Each step of the pass is separate; sessions  *)
(* are deleted and the user edits, removes and restores the note between   *)
(* them.                                                                   *)
(***************************************************************************)
EXTENDS Naturals, FiniteSets

CONSTANTS
  Sessions,
  MaxEdits,   \* bound: what the user does to the file
  MaxIds,     \* bound: identities handed out
  MaxCrashes  \* bound: passes that end early

\* A note: its identity or 0, whether it is Turing's, and what it cites, or
\* the mark in its place that says that what it cited is gone.
NoFile == [id |-> 0, managed |-> FALSE, refs |-> {}, mark |-> TRUE]
NoteFiles ==
  {f \in [id : 0..MaxIds, managed : BOOLEAN, refs : SUBSET Sessions, mark : BOOLEAN] :
     f.mark => f.managed /\ f.refs = {}} \cup {NoFile}

VARIABLES
  file,      \* the note in the vault
  backup,    \* an earlier copy of it the user has kept
  row,       \* memory_notes: identity, status and the content last indexed
  evidence,  \* memory_evidence of that row
  live,      \* the sessions that exist
  pass,      \* the running pass: its step and what it read
  ids, edits, crashes

vars == <<file, backup, row, evidence, live, pass, ids, edits, crashes>>

NoRow == [id |-> 0, status |-> "none", content |-> NoFile]
Idle == [at |-> "idle", note |-> NoFile]

\* The file, the row, the record and the running pass; the evidence is of live
\* sessions, which the database's foreign key sees to.
TypeOK ==
  /\ file \in NoteFiles /\ backup \in NoteFiles
  /\ row \in [id : 0..MaxIds, status : {"none", "managed", "unmanaged", "withdrawn"}, content : NoteFiles]
  /\ evidence \subseteq live /\ live \subseteq Sessions
  /\ pass \in [at : {"idle", "scan", "identity", "apply", "refs", "record"}, note : NoteFiles]
  /\ ids \in 0..MaxIds /\ edits \in 0..MaxEdits /\ crashes \in 0..MaxCrashes

\* A promoted note that cites every session, indexed.
Init ==
  /\ file = [id |-> 1, managed |-> TRUE, refs |-> Sessions, mark |-> FALSE]
  /\ backup = file
  /\ row = [id |-> 1, status |-> "managed", content |-> file]
  /\ evidence = Sessions /\ live = Sessions
  /\ pass = Idle
  /\ ids = 1 /\ edits = 0 /\ crashes = 0

-----------------------------------------------------------------------------
\* The pass.

Begin ==
  /\ pass.at = "idle"
  /\ pass' = [Idle EXCEPT !.at = "scan"]
  /\ UNCHANGED <<file, backup, row, evidence, live, ids, edits, crashes>>

Scan ==
  /\ pass.at = "scan"
  /\ pass' = [at |-> "identity", note |-> file]
  /\ UNCHANGED <<file, backup, row, evidence, live, ids, edits, crashes>>

\* RewriteFrontmatterRefs replaces the file only if it is still the one read.
Rewritten(note, as) ==
  file' = IF file = note THEN as ELSE file

\* assignMissingIdentities: a note that could not be rewritten keeps waiting.
AssignIdentity ==
  /\ pass.at = "identity"
  /\ IF pass.note # NoFile /\ pass.note.id = 0
     THEN /\ ids < MaxIds
          /\ LET named == [pass.note EXCEPT !.id = ids + 1]
             IN  /\ Rewritten(pass.note, named)
                 /\ pass' = [at |-> "apply", note |-> IF file = pass.note THEN named ELSE pass.note]
          /\ ids' = ids + 1
     ELSE pass' = [pass EXCEPT !.at = "apply"] /\ UNCHANGED <<file, ids>>
  /\ UNCHANGED <<backup, row, evidence, live, edits, crashes>>

Status(note) == IF note.managed THEN "managed" ELSE "unmanaged"

\* indexMemoryNoteTx of a note with no row: it rests on the sessions that are
\* still there, and if there were any and none is left it starts withdrawn.
NewRow(note) ==
  LET rests == IF note.managed THEN note.refs \cap live ELSE {}
      gone == note.managed /\ (note.mark \/ (note.refs # {} /\ rests = {}))
  IN  [row |-> [id |-> note.id, status |-> IF gone THEN "withdrawn" ELSE Status(note), content |-> note],
       evidence |-> rests]

\* ... and of one that has its row: withdrawn is for good, and a note that
\* cites what no evidence is left of is withdrawn.
KeptStatus(note) ==
  IF row.status = "withdrawn" \/ (note.managed /\ note.refs # {} /\ evidence = {})
  THEN "withdrawn" ELSE Status(note)

\* applyMemoryIndex: the row of a file that is gone, or that has become another
\* note, is removed with its evidence.
Apply ==
  /\ pass.at = "apply"
  /\ LET note == pass.note
     IN  CASE note = NoFile ->
                /\ row' = NoRow /\ evidence' = {}
           [] note # NoFile /\ note.id = 0 ->
                UNCHANGED <<row, evidence>>
           [] note.id # 0 /\ note.id = row.id ->
                /\ row' = [row EXCEPT !.status = KeptStatus(note), !.content = note]
                /\ UNCHANGED evidence
           [] note.id # 0 /\ note.id # row.id ->
                /\ row' = NewRow(note).row
                /\ evidence' = NewRow(note).evidence
  /\ pass' = [pass EXCEPT !.at = "refs"]
  /\ UNCHANGED <<file, backup, live, ids, edits, crashes>>

\* refsRewriteFor: cite what the record holds, or say that it is gone.
RefsFor(note) ==
  CASE ~note.managed \/ note.id = 0 \/ note.id # row.id -> note
    [] note.managed /\ note.id # 0 /\ note.id = row.id /\ evidence # {} /\ note.refs # evidence ->
         [note EXCEPT !.refs = evidence, !.mark = FALSE]
    [] note.managed /\ note.id # 0 /\ note.id = row.id /\ evidence = {} /\ note.refs # {} ->
         [note EXCEPT !.refs = {}, !.mark = TRUE]
    [] OTHER -> note

\* rewriteRefsFromSidecar; the row's copy follows in a transaction of its own.
RewriteRefs ==
  /\ pass.at = "refs"
  /\ LET desired == RefsFor(pass.note)
     IN  /\ Rewritten(pass.note, desired)
         /\ pass' = IF desired # pass.note /\ file = pass.note
                   THEN [at |-> "record", note |-> desired] ELSE Idle
  /\ UNCHANGED <<backup, row, evidence, live, ids, edits, crashes>>

RecordRefs ==
  /\ pass.at = "record"
  /\ row' = IF row.id = pass.note.id THEN [row EXCEPT !.content = pass.note] ELSE row
  /\ pass' = Idle
  /\ UNCHANGED <<file, backup, evidence, live, ids, edits, crashes>>

\* The process ends, or the pass's context does.
Crash ==
  /\ pass.at # "idle" /\ crashes < MaxCrashes
  /\ crashes' = crashes + 1
  /\ pass' = Idle
  /\ UNCHANGED <<file, backup, row, evidence, live, ids, edits>>

-----------------------------------------------------------------------------

\* Deleting a session: withdrawMemoryNotesLosingLastEvidenceTx, then the
\* evidence goes with the session's row.
DeleteSession(s) ==
  /\ s \in live
  /\ live' = live \ {s}
  /\ evidence' = evidence \ {s}
  /\ row' = IF evidence = {s} THEN [row EXCEPT !.status = "withdrawn"] ELSE row
  /\ UNCHANGED <<file, backup, pass, ids, edits, crashes>>

\* The user saves another note there, removes it, or puts the kept copy back.
UserEdits ==
  /\ edits < MaxEdits
  /\ edits' = edits + 1
  /\ \/ file # NoFile /\ \E f \in NoteFiles : f.id \in {0, file.id} /\ file' = f
     \/ file' = NoFile
     \/ file' = backup
  /\ file' # file
  /\ backup' \in {backup, file}
  /\ UNCHANGED <<row, evidence, live, pass, ids, crashes>>

Next ==
  \/ Begin \/ Scan \/ AssignIdentity \/ Apply \/ RewriteRefs \/ RecordRefs
  \/ Crash \/ UserEdits
  \/ \E s \in Sessions : DeleteSession(s)

Spec == Init /\ [][Next]_vars

\* Every listing of what is remembered runs a pass to its end.
Fairness ==
  /\ WF_vars(Begin)
  /\ WF_vars(Scan \/ AssignIdentity \/ Apply \/ RewriteRefs \/ RecordRefs)

-----------------------------------------------------------------------------

\* What may be searched and read as a managed belief and cites sessions rests
\* on one that still exists, also after the note was removed and put back, its
\* citations were edited, or a session was deleted half way through a pass.
CitedMeansGrounded ==
  row.status = "managed" /\ row.content.refs # {} => evidence # {}

\* A withdrawn note does not come back by being indexed again: while its file
\* still says what it rested on, or that this is gone, only a live session it
\* cites can make it readable again.
WithdrawnStaysSo ==
  [][row.status = "withdrawn" /\ row'.status = "managed"
     => /\ row'.id # row.id
        /\ row'.content.refs # {} => evidence' # {}
        /\ ~row'.content.mark]_vars

\* In the end a managed note cites exactly the sessions its evidence is of, so
\* that a deleted session is not named in the vault either.
CitesItsEvidence ==
  file # NoFile /\ file.managed /\ file.id # 0 => row.id = file.id /\ file.refs = evidence
CitationsFollow == <>[]CitesItsEvidence
=============================================================================
