--------------------------- MODULE ApprovalResume ---------------------------
(***************************************************************************)
(* How a run continues after an approval: the worker's half of the         *)
(* handshake (the executor inside resumeApproval, the command loop, and    *)
(* the outbound writer) and the service's half, over one stream.           *)
(*                                                                         *)
(* row       the run's lifecycle and state version                         *)
(* approval  what the user, or an automation's grant, has decided          *)
(* stream    up or down; a broken stream takes the wires with it           *)
(* entry     the worker's activeRun                                        *)
(* slot      the worker's approvalResume                                   *)
(* req       the Ready as the outbound writer sees it                      *)
(* answer    the version of the policy answer its beacon was given         *)
(* pc        where the executor is                                         *)
(***************************************************************************)
EXTENDS Naturals, Sequences

CONSTANTS Grants,       \* who decides: the user, or an automation's standing grant
          Events        \* of cancel, deny, deadline, timeout, break, mute

VARIABLES row, approval, stream, down, up, entry, slot, req, answer, pc, spent

vars == <<row, approval, stream, down, up, entry, slot, req, answer, pc, spent>>

NoSlot == [held |-> FALSE, owned |-> FALSE, decided |-> FALSE, armed |-> FALSE,
           outcome |-> "pending", version |-> 0]

Init ==
    /\ row = [status |-> "running", version |-> 1]
    /\ approval = "none"
    /\ stream = "up"
    /\ down = <<>> /\ up = <<>>
    /\ entry \in [version: {1}, paused: {FALSE} \union {"mute" \in Events}, stop: {"none"}, active: {TRUE}]
    /\ slot = NoSlot
    /\ req = "none"
    /\ answer = 0
    /\ pc = "beacon"
    /\ spent = FALSE

Later(v, w) == IF v >= w THEN v ELSE w
Ended == {"cancelled", "failed"}

-----------------------------------------------------------------------------
(* The service                                                             *)

Msg(kind, v) == [kind |-> kind, version |-> v]
Tell(m) == down' = IF stream = "up" THEN Append(down, m) ELSE down

\* handleToolBefore: the run waits, and the answer names the approval.  The
\* decision of an automation's grant is queued ahead of that answer.
RequireApproval ==
    /\ approval = "none" /\ row.status = "running" /\ stream = "up"
    /\ row' = [status |-> "waiting", version |-> row.version + 1]
    /\ \/ /\ "user" \in Grants
          /\ approval' = "pending"
          /\ down' = Append(down, Msg("required", row'.version))
       \/ /\ "automation" \in Grants
          /\ approval' = "approved"
          /\ down' = down \o <<Msg("approved", row'.version), Msg("required", row'.version)>>
    /\ UNCHANGED <<stream, up, entry, slot, req, answer, pc, spent>>

\* NotifyApprovalUpdated after the user's decision.
Approve ==
    /\ approval = "pending" /\ row.status = "waiting"
    /\ approval' = "approved"
    /\ Tell(Msg("approved", row.version))
    /\ UNCHANGED <<row, stream, up, entry, slot, req, answer, pc, spent>>

\* A denial, or the deadline of the approval: the run ends with it.
Deny ==
    /\ "deny" \in Events
    /\ approval = "pending" /\ row.status = "waiting"
    /\ approval' = "denied"
    /\ row' = [status |-> "failed", version |-> row.version + 1]
    /\ Tell(Msg("denied", row'.version))
    /\ UNCHANGED <<stream, up, entry, slot, req, answer, pc, spent>>

Cancel ==
    /\ "cancel" \in Events
    /\ row.status \notin Ended
    /\ row' = [status |-> "cancelled", version |-> row.version + 1]
    /\ Tell(Msg("cancelled", row'.version))
    /\ UNCHANGED <<approval, stream, up, entry, slot, req, answer, pc, spent>>

\* Ownership is lost with the stream: an active run is fenced.
Fenced == IF row.status \in {"running", "waiting"}
          THEN [status |-> "recovering", version |-> row.version + 1] ELSE row

Break ==
    /\ stream' = "down"
    /\ down' = <<>> /\ up' = <<>>
    /\ row' = Fenced

StreamBreaks ==
    /\ "break" \in Events
    /\ stream = "up"
    /\ Break
    /\ UNCHANGED <<approval, entry, slot, req, answer, pc, spent>>

\* resumeApprovedRun commits the resume this Ready asks for, and the acceptance
\* follows at once.  Its delivery may fail, which fences the run.
ResumeApprovedRun ==
    /\ stream = "up" /\ up # <<>> /\ Head(up).kind = "ready"
    /\ row.status = "waiting" /\ approval = "approved" /\ Head(up).version = row.version
    /\ \/ /\ row' = [status |-> "running", version |-> row.version + 1]
          /\ up' = Tail(up)
          /\ down' = Append(down, Msg("accepted", row'.version))
          /\ UNCHANGED stream
       \/ /\ "break" \in Events
          /\ stream' = "down" /\ up' = <<>> /\ down' = <<>>
          /\ row' = [status |-> "recovering", version |-> row.version + 2]
    /\ UNCHANGED <<approval, entry, slot, req, answer, pc, spent>>

\* A Ready that lost to a cancellation is answered with the stop.
ApprovalResumeLostToCancellation ==
    /\ stream = "up" /\ up # <<>> /\ Head(up).kind = "ready"
    /\ row.status \in Ended
    /\ up' = Tail(up)
    /\ Tell(Msg("cancelled", row.version))
    /\ UNCHANGED <<row, approval, stream, entry, slot, req, answer, pc, spent>>

\* Terminal reports: committed at the version they name, otherwise only the
\* repetition of an outcome the row has already.
ApplyReport ==
    /\ stream = "up" /\ up # <<>> /\ Head(up).kind \in {"failed", "ack"}
    /\ IF row.status \in Ended
       THEN up' = Tail(up) /\ UNCHANGED <<row, stream, down>>
       ELSE IF Head(up).version = row.version /\ Head(up).kind = "failed"
       THEN /\ row' = [status |-> "failed", version |-> row.version + 1]
            /\ up' = Tail(up)
            /\ UNCHANGED <<stream, down>>
       ELSE Break
    /\ UNCHANGED <<approval, entry, slot, req, answer, pc, spent>>

-----------------------------------------------------------------------------
(* The command loop of the worker                                          *)

Command(kind) == stream = "up" /\ down # <<>> /\ Head(down).kind = kind /\ down' = Tail(down)

\* The slot is opened when the requirement is learned, or adopted if the
\* decision came first.
rememberApproval ==
    IF slot.held THEN [slot EXCEPT !.owned = TRUE]
    ELSE [NoSlot EXCEPT !.held = TRUE, !.owned = TRUE]

deliverDecision ==
    /\ Command("required")
    /\ slot' = rememberApproval
    /\ answer' = Head(down).version
    /\ UNCHANGED <<row, approval, stream, up, entry, req, pc, spent>>

markApprovalDecided ==
    /\ Command("approved")
    /\ slot' = [slot EXCEPT !.held = TRUE, !.decided = TRUE]
    /\ entry' = IF slot.owned THEN [entry EXCEPT !.version = Later(Head(down).version, @)] ELSE entry
    /\ UNCHANGED <<row, approval, stream, up, req, answer, pc, spent>>

\* Only a Ready that has begun, and a resume nobody has given up, can be
\* accepted.
recordAccepted(v) ==
    slot' = IF slot.armed /\ slot.outcome = "pending"
            THEN [slot EXCEPT !.outcome = "accepted", !.version = v] ELSE slot

deliverResumeAcceptance ==
    /\ Command("accepted")
    /\ IF slot.owned /\ entry.active /\ Head(down).version >= entry.version
       THEN recordAccepted(Head(down).version) ELSE UNCHANGED slot
    /\ UNCHANGED <<row, approval, stream, up, entry, req, answer, pc, spent>>

\* cancelRunWithCause, for a cancelled run or a refused approval.  A stop that
\* is older than what the run was told is refused.
StopCommand ==
    /\ entry.active
    /\ \/ Command("cancelled") /\ Head(down).version >= entry.version
       \/ Command("denied")
    /\ entry' = [entry EXCEPT !.version = Later(Head(down).version, @),
                             !.stop = IF @ = "none" THEN "command" ELSE @]
    /\ UNCHANGED <<row, approval, stream, up, slot, req, answer, pc, spent>>

\* A run that is no longer there: its cancellation is acknowledged as it is,
\* and a refusal has nothing left to stop.
acknowledgeFinishedCancellation ==
    /\ ~entry.active
    /\ \/ Command("cancelled") /\ up' = Append(up, Msg("ack", Head(down).version))
       \/ Command("denied") /\ UNCHANGED up
    /\ UNCHANGED <<row, approval, stream, entry, slot, req, answer, pc, spent>>

\* The stream is gone: whatever executes is told to stop and reports nothing.
cancelActiveRuns ==
    /\ stream = "down" /\ entry.active /\ entry.stop = "none"
    /\ entry' = [entry EXCEPT !.stop = "stream"]
    /\ UNCHANGED <<row, approval, stream, down, up, slot, req, answer, pc, spent>>

-----------------------------------------------------------------------------
(* The executor                                                            *)

\* The context of the wait is over: its deadline, or the run's cancellation.
Done == spent \/ entry.stop # "none"

DeadlinePasses ==
    /\ "deadline" \in Events
    /\ ~spent
    /\ spent' = TRUE
    /\ UNCHANGED <<row, approval, stream, down, up, entry, slot, req, answer, pc>>

\* failApprovalResume.  What may be said depends on whether the Ready began.
\* A run something else has begun to stop is left to that.
Fail(readySent) ==
    /\ pc' = "failed"
    /\ IF entry.stop # "none" THEN UNCHANGED <<entry, stream, down, up, row>>
       ELSE /\ entry' = [entry EXCEPT !.stop = "local"]
            /\ IF readySent THEN Break
               ELSE /\ up' = IF stream = "up" THEN Append(up, Msg("failed", entry.version)) ELSE up
                    /\ UNCHANGED <<stream, down, row>>

BeaconFails ==
    /\ pc = "beacon" /\ entry.stop # "none"
    /\ pc' = "failed"
    /\ UNCHANGED <<row, approval, stream, down, up, entry, slot, req, answer, spent>>

\* postToolBeacon returns the decision and its version to the tool runner.
BeaconAnswered ==
    /\ pc = "beacon" /\ answer # 0
    /\ entry' = [entry EXCEPT !.version = Later(answer, @)]
    /\ pc' = "wait"
    /\ UNCHANGED <<row, approval, stream, down, up, slot, req, answer, spent>>

\* The decision releases the wait; a paused run may not ask for its resume.
DecisionArrives ==
    /\ pc = "wait" /\ slot.decided
    /\ IF entry.paused
       THEN pc' = "unsent" /\ UNCHANGED req
       ELSE pc' = "sending" /\ req' = IF stream = "up" THEN "queued" ELSE "abandoned"
    /\ UNCHANGED <<row, approval, stream, down, up, entry, slot, answer, spent>>

WaitEnds ==
    /\ pc = "wait" /\ Done
    /\ Fail(FALSE)
    /\ UNCHANGED <<approval, slot, req, answer, spent>>

\* The outbound writer reaches the Ready.  From here on it may be received.
beginReadySend ==
    /\ req = "queued" /\ stream = "up"
    /\ IF Done THEN req' = "abandoned" /\ UNCHANGED slot
       ELSE req' = "started" /\ slot' = [slot EXCEPT !.armed = TRUE]
    /\ UNCHANGED <<row, approval, stream, down, up, entry, answer, pc, spent>>

WriterSends ==
    /\ req = "started"
    /\ req' = IF stream = "up" THEN "sent" ELSE "lost"
    /\ up' = IF stream = "up" THEN Append(up, Msg("ready", entry.version)) ELSE up
    /\ UNCHANGED <<row, approval, stream, down, entry, slot, answer, pc, spent>>

\* The send is answered, or given up while queued or under way; an error
\* withholds the run's narration.
SendReturns ==
    /\ pc = "sending"
    /\ \/ req = "sent" /\ pc' = "final" /\ UNCHANGED <<req, entry>>
       \/ /\ req \in {"queued", "abandoned"}
          /\ req = "queued" => "timeout" \in Events \/ Done \/ stream = "down"
          /\ req' = "abandoned" /\ pc' = "unsent"
          /\ entry' = [entry EXCEPT !.paused = TRUE]
       \/ /\ req \in {"started", "lost"}
          /\ req = "started" => "timeout" \in Events \/ Done
          /\ pc' = "doubt"
          /\ entry' = [entry EXCEPT !.paused = TRUE]
          /\ UNCHANGED req
    /\ UNCHANGED <<row, approval, stream, down, up, slot, answer, spent>>

FinalWait ==
    /\ pc = "final" /\ (slot.outcome = "accepted" \/ Done)
    /\ pc' = "doubt"
    /\ UNCHANGED <<row, approval, stream, down, up, entry, slot, req, answer, spent>>

completeAcceptedResume ==
    entry' = [entry EXCEPT !.version = Later(slot.version, @), !.paused = FALSE]

\* Fault: a resume that nobody accepted continues when its wait ends.
FaultyabandonOrClaim ==
    /\ pc \in {"unsent", "doubt"}
    /\ completeAcceptedResume /\ pc' = "tool"
    /\ UNCHANGED <<stream, down, up, row, slot>>
    /\ UNCHANGED <<approval, req, answer, spent>>

\* The one place where a resume is settled: an acceptance on record wins,
\* whatever the send said.
abandonOrClaim ==
    /\ pc \in {"unsent", "doubt"}
    /\ \/ /\ slot.outcome = "accepted"
          /\ completeAcceptedResume /\ pc' = "tool"
          /\ UNCHANGED <<stream, down, up, row, slot>>
       \/ /\ slot.outcome # "accepted"
          /\ slot' = [slot EXCEPT !.outcome = "abandoned"]
          /\ pc' = IF pc = "doubt" THEN "drop" ELSE "report"
          /\ UNCHANGED <<entry, stream, down, up, row>>
    /\ UNCHANGED <<approval, req, answer, spent>>

GiveUp ==
    /\ pc \in {"drop", "report"}
    /\ Fail(pc = "drop")
    /\ UNCHANGED <<approval, slot, req, answer, spent>>

\* The approved call and the rest of the run; a stop ends it here too.
ToolEnds ==
    /\ pc = "tool" /\ entry.stop # "none"
    /\ pc' = "failed"
    /\ UNCHANGED <<row, approval, stream, down, up, entry, slot, req, answer, spent>>

\* The executor has unwound: the entry and its slot go, and a run stopped by a
\* command is acknowledged.
deleteActiveEntry ==
    /\ pc = "failed" /\ entry.active
    /\ entry' = [entry EXCEPT !.active = FALSE]
    /\ slot' = NoSlot
    /\ pc' = "gone"
    /\ up' = IF stream = "up" /\ entry.stop = "command" THEN Append(up, Msg("ack", entry.version)) ELSE up
    /\ UNCHANGED <<row, approval, stream, down, req, answer, spent>>

-----------------------------------------------------------------------------
CommandLoop == deliverDecision \/ markApprovalDecided \/ deliverResumeAcceptance \/ StopCommand
               \/ acknowledgeFinishedCancellation \/ cancelActiveRuns

Executor == BeaconFails \/ BeaconAnswered \/ DecisionArrives \/ WaitEnds \/ SendReturns \/ FinalWait
            \/ abandonOrClaim \/ GiveUp \/ ToolEnds \/ deleteActiveEntry

Writer == beginReadySend \/ WriterSends

Service == RequireApproval \/ Approve \/ ResumeApprovedRun \/ ApprovalResumeLostToCancellation \/ ApplyReport

Next == CommandLoop \/ Executor \/ Writer \/ Service \/ Deny \/ Cancel \/ StreamBreaks \/ DeadlinePasses

Spec == Init /\ [][Next]_vars

\* Goroutines run, and the wait has a deadline.  Nothing is assumed of users.
Fairness ==
    /\ WF_vars(CommandLoop) /\ WF_vars(Executor) /\ WF_vars(Writer)
    /\ WF_vars(Service) /\ WF_vars(DeadlinePasses)

-----------------------------------------------------------------------------
(* Properties                                                              *)

\* The executor is where the code can be, and the versions are those the
\* service can have committed.
TypeOK ==
    /\ row.status \in {"running", "waiting", "recovering", "cancelled", "failed"}
    /\ row.version \in 1..6 /\ entry.version \in 1..row.version
    /\ approval \in {"none", "pending", "approved", "denied"}
    /\ req \in {"none", "queued", "started", "abandoned", "sent", "lost"}
    /\ slot.outcome \in {"pending", "accepted", "abandoned"}
    /\ pc \in {"beacon", "wait", "sending", "unsent", "doubt", "report", "drop", "final", "tool", "failed", "gone"}

\* The approved call is executed only on a resume the service has committed: no
\* lost Ready, late decision or deadline lets the executor continue a run that
\* is, or was last, waiting.
ToolNeedsCommit == pc = "tool" => approval = "approved" /\ slot.outcome = "accepted" /\ row.version >= slot.version

\* The worker reports a delivery failure only while the service cannot have
\* committed the resume: the report never meets a run that is running again.
FailureNeverContradicts ==
    \A i \in DOMAIN up : up[i].kind = "failed" => row.status # "running"

\* A resumed run is never left mute by the failed send its acceptance overtook.
ResumedCanSpeak == pc = "tool" => ~entry.paused

\* Whichever of acceptance and abandonment comes first stays: once the executor
\* acts on one, the other cannot replace it.
SettledOnce ==
    [][slot.outcome # "pending" => slot'.outcome = slot.outcome \/ ~entry'.active]_vars

\* An executor that waits for an approval leaves the wait: it runs the call, or
\* it unwinds and its place in the worker is free again.
WaitIsBounded == pc \in {"wait", "sending", "final", "doubt", "unsent", "report", "drop"}
                 ~> pc \in {"tool", "gone"}

\* A decision that has reached the worker is known to the slot the executor
\* waits on, in whichever order decision and requirement came: otherwise the
\* run would wait out its deadline for something it was sent.
DecisionKept ==
    approval = "approved" /\ slot.owned /\ stream = "up" /\ (\A i \in DOMAIN down : down[i].kind # "approved")
        => slot.decided

=============================================================================
