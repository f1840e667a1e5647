---------------------------- MODULE ProfileApply ----------------------------
(***************************************************************************)
(* Accepting a proposed edit of profile.md.  The proposal's row is claimed *)
(* with the text that is being replaced and the text that replaces it, the *)
(* document is rewritten in place, and the row is retired; a pass that     *)
(* finds a claim nobody is working on reads the document to tell which     *)
(* side of the write it was left on.  The user saves the same document     *)
(* through the application and in an editor, and edits or removes the      *)
(* proposal.                                                               *)
(*                                                                         *)
(* A text stands for its hash.  The process may die between any two steps; *)
(* what it wrote stays.  A write that dies before its truncation leaves a  *)
(* text that is neither the old nor the new one.                           *)
(***************************************************************************)
EXTENDS Naturals, FiniteSets, TLC

CONSTANTS
  Candidates, Texts,
  Absent,      \* there is no profile.md
  Nobody,
  User,
  MaxApplies,  \* bound: applies of one proposal
  MaxEdits,    \* bound: what the user does to the document and the proposals
  MaxFaults    \* bound: failed calls and crashes

Writers == Candidates \cup {User}
Torn(w) == [torn |-> w]
Documents == Texts \cup {Absent} \cup {Torn(w) : w \in Writers}

\* A proposal's file: as proposed, rewritten by the user, or not there.
Files == {"proposed", "edited", "gone"}
States == {"pending", "applying", "promoted", "rejected"}
Pcs == {"idle", "checked", "claimed", "waiting", "compared", "installing", "cut", "sync",
        "stale", "failed", "written", "tidied", "untidied", "recovering"}

NoClaim == [base |-> Absent, result |-> Absent]

VARIABLES
  doc,        \* profile.md
  author,     \* whose write it last was
  lock,       \* who holds the document's path lock
  file,       \* the proposals' files
  row,        \* memory_candidates: state, apply_base_hash, apply_result_hash
  tracked,    \* the proposals whose manifest row is kept
  op,         \* what is being done under each proposal's decision lock
  saver,      \* the save through the application
  carried,    \* the claims whose result the document has read as
  applies, edits, faults

docVars == <<doc, author, carried>>
vars == <<docVars, lock, file, row, tracked, op, saver, applies, edits, faults>>

Resting == [pc |-> "idle", base |-> Absent, result |-> Absent, decided |-> "proposed"]
NoSave == [pc |-> "idle", base |-> Absent, text |-> Absent]

\* The rows and the operations have the shape the code gives them, and the path
\* lock has one holder, which is at work.
TypeOK ==
  /\ doc \in Documents
  /\ author \in Writers
  /\ file \in [Candidates -> Files]
  /\ row \in [Candidates -> [state : States, base : Documents, result : Documents]]
  /\ tracked \subseteq Candidates
  /\ op \in [Candidates -> [pc : Pcs, base : Documents, result : Documents, decided : Files]]
  /\ saver \in [pc : {"idle", "compared", "cut"}, base : Documents, text : Documents]
  /\ carried \subseteq Candidates
  /\ \A c \in Candidates : op[c].pc \in {"compared", "installing", "cut", "sync"} <=> lock = c
  /\ saver.pc # "idle" <=> lock = User
  /\ edits \in 0..MaxEdits /\ faults \in 0..MaxFaults

Init ==
  /\ doc \in Texts \cup {Absent}
  /\ author = User
  /\ lock = Nobody
  /\ file = [c \in Candidates |-> "proposed"]
  /\ row = [c \in Candidates |-> [state |-> "pending", base |-> Absent, result |-> Absent]]
  /\ tracked = Candidates
  /\ op = [c \in Candidates |-> Resting]
  /\ saver = NoSave
  /\ carried = {}
  /\ applies = [c \in Candidates |-> 0]
  /\ edits = 0 /\ faults = 0

-----------------------------------------------------------------------------

At(c, pc) == op[c].pc = pc
GoTo(c, pc) == op' = [op EXCEPT ![c].pc = pc]
End(c) == op' = [op EXCEPT ![c] = Resting]
Fault == faults < MaxFaults /\ faults' = faults + 1
NoFault == UNCHANGED faults

\* The document comes to read as t.
Becomes(t, w) ==
  /\ doc' = t
  /\ author' = IF t = doc THEN author ELSE w
  /\ carried' = carried \cup {c \in Candidates : row[c].state = "applying" /\ row[c].result = t}

StoreUnchanged == UNCHANGED <<file, row, tracked>>
UserIdle == UNCHANGED <<saver, edits>>

-----------------------------------------------------------------------------
\* ApplyMemoryProfileCandidate, under the decision lock.

\* The pre-check of the proposal and of the document.
Check(c) ==
  /\ At(c, "idle")
  /\ row[c].state = "pending"
  /\ file[c] # "gone"
  /\ applies[c] < MaxApplies
  /\ applies' = [applies EXCEPT ![c] = @ + 1]
  /\ \E t \in Texts :
       op' = [op EXCEPT ![c] = [pc |-> "checked", base |-> doc, result |-> t, decided |-> file[c]]]
  /\ UNCHANGED <<docVars, lock, faults>> /\ StoreUnchanged /\ UserIdle

\* claimProfileApply.
Claim(c) ==
  /\ At(c, "checked")
  /\ \/ /\ row' = [row EXCEPT ![c] = [state |-> "applying", base |-> op[c].base, result |-> op[c].result]]
        /\ carried' = IF doc = op[c].result THEN carried \cup {c} ELSE carried \ {c}
        /\ GoTo(c, "claimed")
        /\ NoFault
     \/ Fault /\ End(c) /\ UNCHANGED <<row, carried>>
  /\ UNCHANGED <<doc, author, lock, file, tracked, applies>> /\ UserIdle

\* ApplyProfileEdit reads the proposal again: one that changed is stale, one that
\* cannot be read is a failure.
Reread(c) ==
  /\ At(c, "claimed")
  /\ GoTo(c, IF file[c] = "gone" THEN "failed" ELSE IF file[c] # op[c].decided THEN "stale" ELSE "waiting")
  /\ UNCHANGED <<docVars, lock, applies, faults>> /\ StoreUnchanged /\ UserIdle

\* The document's own lock, and the comparison through the descriptor that will be
\* written.
Compare(c) ==
  /\ At(c, "waiting")
  /\ lock = Nobody
  /\ LET next == IF doc # op[c].base THEN "stale" ELSE IF doc = Absent THEN "installing" ELSE "compared"
     IN  GoTo(c, next) /\ lock' = IF next = "stale" THEN Nobody ELSE c
  /\ UNCHANGED <<docVars, applies, faults>> /\ StoreUnchanged /\ UserIdle

\* installStagedFile: the link refuses a name that has been taken.
Install(c) ==
  /\ At(c, "installing")
  /\ \/ doc = Absent /\ Becomes(op[c].result, c) /\ GoTo(c, "sync") /\ UNCHANGED lock /\ NoFault
     \/ doc # Absent /\ GoTo(c, "failed") /\ lock' = Nobody /\ UNCHANGED docVars /\ NoFault
     \/ Fault /\ GoTo(c, "failed") /\ lock' = Nobody /\ UNCHANGED docVars
  /\ UNCHANGED applies /\ StoreUnchanged /\ UserIdle

\* WriteAt: over a longer text it leaves a tail.  A failed one may have written.
WriteAt(c) ==
  /\ At(c, "compared")
  /\ \/ /\ \E t \in {op[c].result} \cup (IF op[c].result = doc THEN {} ELSE {Torn(c)}) : Becomes(t, c)
        /\ GoTo(c, "cut")
        /\ UNCHANGED lock /\ NoFault
     \/ /\ Fault
        /\ Becomes(doc, c) \/ Becomes(Torn(c), c)
        /\ GoTo(c, "failed") /\ lock' = Nobody
  /\ UNCHANGED applies /\ StoreUnchanged /\ UserIdle

Truncate(c) ==
  /\ At(c, "cut")
  /\ \/ Becomes(op[c].result, c) /\ GoTo(c, "sync") /\ UNCHANGED lock /\ NoFault
     \/ Fault /\ GoTo(c, "failed") /\ lock' = Nobody /\ UNCHANGED docVars
  /\ UNCHANGED applies /\ StoreUnchanged /\ UserIdle

\* The flushes, and the request still being there.
Sync(c) ==
  /\ At(c, "sync")
  /\ lock' = Nobody
  /\ (GoTo(c, "written") /\ NoFault) \/ (Fault /\ GoTo(c, "failed"))
  /\ UNCHANGED <<docVars, applies>> /\ StoreUnchanged /\ UserIdle

\* resetProfileApplyClaim.
Reset(c) == row' = [row EXCEPT ![c] = [state |-> "pending"] @@ NoClaim]

\* profileApplyLeftNothingBehind.
LeftNothingBehind(c) == At(c, "stale") \/ doc = op[c].base

\* abandonProfileApplyClaim.
Abandon(c) ==
  /\ At(c, "stale") \/ At(c, "failed")
  /\ \/ LeftNothingBehind(c) /\ Reset(c) /\ NoFault
     \/ ~LeftNothingBehind(c) /\ UNCHANGED row /\ NoFault
     \/ LeftNothingBehind(c) /\ Fault /\ UNCHANGED row
  /\ End(c)
  /\ UNCHANGED <<docVars, lock, file, tracked, applies>> /\ UserIdle

\* finishProfileApply removes the file, if it is still the one that was applied.
Tidy(c) ==
  /\ At(c, "written")
  /\ \/ /\ file[c] \in {op[c].decided, "gone"}
        /\ file' = [file EXCEPT ![c] = "gone"]
        /\ GoTo(c, "tidied")
        /\ NoFault
     \/ /\ file[c] \notin {op[c].decided, "gone"}
        /\ GoTo(c, "untidied") /\ UNCHANGED file /\ NoFault
     \/ Fault /\ GoTo(c, "untidied") /\ UNCHANGED file
  /\ UNCHANGED <<docVars, lock, row, tracked, applies>> /\ UserIdle

\* consumeMemoryCandidateTx, for an apply.
Retire(c, removed) ==
  /\ row' = [row EXCEPT ![c].state = "promoted"]
  /\ tracked' = IF removed THEN tracked \ {c} ELSE tracked

\* ... and retires the row.
Finish(c) ==
  /\ At(c, "tidied") \/ At(c, "untidied")
  /\ \/ Retire(c, At(c, "tidied")) /\ NoFault
     \/ Fault /\ UNCHANGED <<row, tracked>>
  /\ End(c)
  /\ UNCHANGED <<docVars, lock, file, applies>> /\ UserIdle

-----------------------------------------------------------------------------
\* RejectMemoryCandidate, as far as this protocol sees it.
Reject(c) ==
  /\ At(c, "idle")
  /\ row[c].state = "pending"
  /\ row' = [row EXCEPT ![c].state = "rejected"]
  /\ file' = [file EXCEPT ![c] = "gone"]
  /\ tracked' = tracked \ {c}
  /\ UNCHANGED <<docVars, lock, op, applies, faults>> /\ UserIdle

\* recoverOneProfileApply reads the document, without its lock.
Recover(c) ==
  /\ At(c, "idle")
  /\ row[c].state = "applying"
  /\ op' = [op EXCEPT ![c] = [Resting EXCEPT !.pc = "recovering", !.base = doc]]
  /\ UNCHANGED <<docVars, lock, applies, faults>> /\ StoreUnchanged /\ UserIdle

\* finalizeRecoveredApply: a file that still proves it is Turing's goes, whatever
\* it says now; a rewritten one may have lost the proof.
FinalizeRecovered(c) ==
  /\ At(c, "recovering")
  /\ op[c].base = row[c].result
  /\ \/ file' = [file EXCEPT ![c] = "gone"] /\ Retire(c, TRUE) /\ NoFault
     \/ file[c] = "edited" /\ Retire(c, FALSE) /\ UNCHANGED file /\ NoFault
     \/ file[c] # "gone" /\ Fault /\ Retire(c, FALSE) /\ UNCHANGED file
     \/ Fault /\ StoreUnchanged
  /\ End(c)
  /\ UNCHANGED <<docVars, lock, applies>> /\ UserIdle

ResetRecovered(c) ==
  /\ At(c, "recovering")
  /\ op[c].base = row[c].base
  /\ op[c].base # row[c].result
  /\ (Reset(c) /\ NoFault) \/ (Fault /\ UNCHANGED row)
  /\ End(c)
  /\ UNCHANGED <<docVars, lock, file, tracked, applies>> /\ UserIdle

\* Someone has been in the document since.
LeaveClaim(c) ==
  /\ At(c, "recovering")
  /\ op[c].base \notin {row[c].base, row[c].result}
  /\ End(c)
  /\ UNCHANGED <<docVars, lock, applies, faults>> /\ StoreUnchanged /\ UserIdle

-----------------------------------------------------------------------------
\* The user.

Edit == edits < MaxEdits /\ edits' = edits + 1

\* saveAuthoredDocument, over the text the user was shown.
SaveProfile ==
  /\ saver.pc = "idle"
  /\ lock = Nobody
  /\ doc # Absent
  /\ Edit
  /\ lock' = User
  /\ \E t \in Texts : saver' = [pc |-> "compared", base |-> doc, text |-> t]
  /\ UNCHANGED <<docVars, op, applies, faults>> /\ StoreUnchanged

SaveWrites ==
  /\ saver.pc = "compared"
  /\ \E t \in {saver.text} \cup (IF saver.text = doc THEN {} ELSE {Torn(User)}) : Becomes(t, User)
  /\ saver' = [saver EXCEPT !.pc = "cut"]
  /\ UNCHANGED <<lock, op, applies, edits, faults>> /\ StoreUnchanged

SaveEnds ==
  /\ saver.pc = "cut"
  /\ Becomes(saver.text, User)
  /\ saver' = NoSave
  /\ lock' = Nobody
  /\ UNCHANGED <<op, applies, edits, faults>> /\ StoreUnchanged

\* The editor knows nothing of the lock, but does not save inside an in-place write.
Saved ==
  /\ Edit
  /\ \E t \in (Texts \cup {Absent}) \ {doc} : Becomes(t, User)
  /\ UNCHANGED <<lock, op, saver, applies, faults>> /\ StoreUnchanged

EditorSaves ==
  /\ saver.pc = "idle"
  /\ \A c \in Candidates : op[c].pc \notin {"compared", "cut"}
  /\ Saved

EditProposal(c) ==
  /\ Edit
  /\ file[c] = "proposed"
  /\ file' = [file EXCEPT ![c] = "edited"]
  /\ UNCHANGED <<docVars, lock, row, tracked, op, saver, applies, faults>>

RemoveProposal(c) ==
  /\ Edit
  /\ file[c] # "gone"
  /\ file' = [file EXCEPT ![c] = "gone"]
  /\ UNCHANGED <<docVars, lock, row, tracked, op, saver, applies, faults>>

Crash ==
  /\ Fault
  /\ op' = [c \in Candidates |-> Resting]
  /\ saver' = NoSave
  /\ lock' = Nobody
  /\ UNCHANGED <<docVars, applies, edits>> /\ StoreUnchanged

-----------------------------------------------------------------------------

Applying(c) ==
  \/ Claim(c) \/ Reread(c) \/ Compare(c) \/ Install(c) \/ WriteAt(c) \/ Truncate(c) \/ Sync(c)
  \/ Abandon(c) \/ Tidy(c) \/ Finish(c)

Recovering(c) == Recover(c) \/ FinalizeRecovered(c) \/ ResetRecovered(c) \/ LeaveClaim(c)

Saving == SaveWrites \/ SaveEnds

Common ==
  \/ \E c \in Candidates :
       Check(c) \/ Applying(c) \/ Reject(c) \/ Recovering(c) \/ EditProposal(c) \/ RemoveProposal(c)
  \/ SaveProfile \/ Saving
  \/ Crash

Next == Common \/ EditorSaves

Spec == Init /\ [][Next]_vars

\* A request runs to its end, and every listing of the memory page and every
\* withdrawal runs the recovery pass.
Fairness ==
  /\ \A c \in Candidates : WF_vars(Applying(c)) /\ WF_vars(Recovering(c))
  /\ WF_vars(Saving)

-----------------------------------------------------------------------------

\* A proposal the user may refuse, or has refused, is not what the profile says:
\* a claim is handed back only when its words are not the last ones written, so no
\* refusal stands beside a document that was rewritten from it.
RefusableIsUnwritten ==
  \A c \in Candidates : row[c].state \in {"pending", "rejected"} => author # c

\* A proposal retired as applied was applied: since its claim, the document has
\* read as the text the user accepted.
AppliedWasWritten ==
  \A c \in Candidates : row[c].state = "promoted" => c \in carried

\* A retired proposal whose file is still in the inbox keeps the manifest row
\* that lets the session's withdrawal find it.
LeftFileIsTracked ==
  \A c \in Candidates : row[c].state = "promoted" /\ file[c] # "gone" => c \in tracked

\* An in-place write replaces the text its caller was shown, and no other: neither
\* an apply nor a save through the application silently overwrites another one.
NothingOverwrittenUnread ==
  [][/\ \A c \in Candidates : op[c].pc = "compared" /\ doc' # doc /\ op' # op => doc = op[c].base
     /\ saver.pc = "compared" /\ doc' # doc /\ saver' # saver => doc = saver.base]_vars

\* A claim is not left standing over a document that says what became of it.
NoStaleClaim ==
  \A c \in Candidates : row[c].state = "applying" => doc \notin {row[c].base, row[c].result}
ClaimsSettle == <>[]NoStaleClaim
=============================================================================
