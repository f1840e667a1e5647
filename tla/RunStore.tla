------------------------------ MODULE RunStore ------------------------------
(***************************************************************************)
(* The durable store of the orchestrator: agent_runs, jobs, tool_calls and *)
(* approvals, and every repository operation that writes them.  SQLite     *)
(* gives the store one writer and every operation is one transaction, so   *)
(* an operation is one action.  The model is open: any caller may invoke   *)
(* any operation at any time, naming any assignment, stale ones included;  *)
(* an operation that refuses or finds a duplicate writes nothing and is    *)
(* therefore a stuttering step.  A command that names a state version      *)
(* commits only if it names the current one, so the version it names is    *)
(* not a parameter here.                                                   *)
(***************************************************************************)
EXTENDS Naturals, FiniteSets

CONSTANTS
    Runs,         \* run ids; a smaller id is an earlier turn (messages.sequence)
    SessionOf,    \* the session a run is a turn of
    Workers,
    NoWorker,     \* a NULL worker_id or lease_owner
    Calls,        \* tool call ids; a call has at most one approval
    RunOf,        \* the run a tool call id belongs to
    MaxVersion,   \* the exhaustion bound of state_version (math.MaxInt64)
    MaxAttempts,  \* the job attempt budget
    GlobalLimit,  \* bound on concurrently executing runs
    ReportedFailures  \* the normalized failure reasons reports may carry

ASSUME RunsAssumption == Runs \subseteq Nat /\ IsFiniteSet(Runs)
ASSUME WorkersAssumption == NoWorker \notin Workers
ASSUME BoundsAssumption ==
    /\ MaxVersion \in Nat \ {0}
    /\ MaxAttempts \in Nat \ {0}
    /\ GlobalLimit \in Nat \ {0}
ASSUME CallsAssumption == RunOf \in [Calls -> Runs]

VARIABLES
    run,      \* agent_runs: the public state of each run
    exec,     \* agent_runs: the execution columns (owner, delivery, lease)
    job,      \* jobs: the queue entry of each run
    call,     \* tool_calls joined with approvals
    attempts, \* how many assignment attempt ids have been generated
    sweep     \* the recovery pass in progress and what it has still to visit

vars == <<run, exec, job, call, attempts, sweep>>

-----------------------------------------------------------------------------
(* Vocabulary                                                              *)

Executing == {"running", "waiting_approval", "recovering"}
Terminal == {"completed", "failed", "cancelled"}
Lifecycles == {"queued"} \union Executing \union Terminal

FailureReasons ==
    {"expired", "context_limit", "provider_failure", "tool_failure",
     "policy_denied", "retries_exhausted", "recovery_interrupted",
     "side_effect_uncertain", "approval_delivery_failed", "internal_failure"}
ASSUME FailuresAssumption == ReportedFailures \subseteq FailureReasons

allowedOutcomeReasons ==
    [s \in Lifecycles |->
        IF s = "completed" THEN {"none", "completed_no_content"}
        ELSE IF s = "failed" THEN FailureReasons
        ELSE IF s = "cancelled" THEN {"user_cancelled", "abandoned"}
        ELSE {"none"}]

QueueWaits == {"none", "no_compatible_worker", "queue_timeout"}
Deliveries ==
    {"none", "pending_send", "sending", "delivered", "uncertain", "fenced", "exited"}

\* A lease is live, or it lapsed after the cutoff of the sweep in progress, or
\* it had lapsed by that cutoff.
Leases == {"null", "live", "lapsed", "overdue"}

OpenTool == {"requested", "allowed", "approval_required"}
\* cut_off is status 'failed' stamped with the finishing time of the run, which
\* is how the code recognizes a call that the end of its run closed.
ClosedTool == {"completed", "failed", "cut_off", "denied"}
Authorized == {"approved", "consumed"}
Approvals == {"none", "pending", "denied", "expired"} \union Authorized

Assignments ==
    [run: Runs, worker: Workers, attempt: 1..attempts]

Unowned ==
    [worker |-> NoWorker, attempt |-> 0, active |-> FALSE,
     delivery |-> "none", lease |-> "null"]

RunRow ==
    [status: Lifecycles \union {"absent"},
     reason: FailureReasons \union
        {"none", "completed_no_content", "user_cancelled", "abandoned"},
     version: 0..MaxVersion, wait: QueueWaits]
ExecRow ==
    [worker: Workers \union {NoWorker}, attempt: 0..attempts,
     active: BOOLEAN, delivery: Deliveries, lease: Leases]
JobRow ==
    [status: {"none", "pending", "in_progress"} \union Terminal,
     owner: Workers \union {NoWorker}, attemptId: 0..attempts, attempt: Nat]
CallRow ==
    [tool: {"none", "checked"} \union OpenTool \union ClosedTool,
     appr: Approvals, due: BOOLEAN]
Candidate == [run: Runs, worker: Workers \union {NoWorker}, attempt: 0..attempts]

\* Every column of the store holds a value of its domain, and no version passes
\* the exhaustion bound that applyRunTransitionTx checks.
TypeOK ==
    /\ run \in [Runs -> RunRow]
    /\ exec \in [Runs -> ExecRow]
    /\ job \in [Runs -> JobRow]
    /\ call \in [Calls -> CallRow]
    /\ attempts \in Nat
    /\ sweep \in [mode: {"idle", "cutoff", "startup"}, todo: SUBSET Candidate]

-----------------------------------------------------------------------------
\* Crossing the queue boundary clears the reason for waiting unless the
\* transition asserts one.
nextQueueWaitReason(row, to, asserted) ==
    IF asserted # "inherit" THEN asserted
    ELSE IF row.status = "queued" \/ to = "queued" THEN "none"
    ELSE row.wait

Moved(row, to, why, asserted, steps) ==
    [row EXCEPT !.status = to, !.reason = why, !.version = @ + steps,
                !.wait = nextQueueWaitReason(row, to, asserted)]

\* Fault: the version counter is not checked for exhaustion.
FaultyRunTransition(r, from, to, why, asserted) ==
    /\ why \in allowedOutcomeReasons[to]
    /\ run[r].status \in from
    /\ run' = [run EXCEPT ![r] = Moved(@, to, why, asserted, 1)]

\* The refusals of applyRunTransitionTx come first, then its single UPDATE.
\* The delegation hooks at its end find nothing to do for a run without
\* delegated tasks.
applyRunTransition(r, from, to, why, asserted) ==
    /\ why \in allowedOutcomeReasons[to]
    /\ run[r].status \in from
    /\ run[r].version < MaxVersion
    /\ run' = [run EXCEPT ![r] = Moved(@, to, why, asserted, 1)]

Owns(a) ==
    /\ exec[a.run].worker = a.worker
    /\ exec[a.run].attempt = a.attempt

HoldsJob(a) ==
    /\ job[a.run].status = "in_progress"
    /\ job[a.run].owner = a.worker
    /\ job[a.run].attemptId = a.attempt

-----------------------------------------------------------------------------
(* What the end of a run does to its other rows                            *)

Exited(e) == [e EXCEPT !.active = FALSE, !.delivery = "exited", !.lease = "null"]

\* PreserveExecution: an executor that has not acknowledged its exit stays.
Contained(e) == IF e.active THEN [e EXCEPT !.delivery = "uncertain"] ELSE Exited(e)

\* Fault: a job nobody has claimed yet stays in the queue.
FaultyClosedJob(j, to) ==
    IF j.status = "in_progress" THEN [j EXCEPT !.status = to, !.owner = NoWorker] ELSE j

ClosedJob(j, to) ==
    IF j.status \in {"pending", "in_progress"}
    THEN [j EXCEPT !.status = to, !.owner = NoWorker]
    ELSE j

\* Fault: only calls that wait for an approval are closed.
FaultyToolCutOff(c) ==
    [c EXCEPT !.appr = IF @ \in {"pending", "approved"} THEN "expired" ELSE @,
              !.tool = IF @ = "approval_required" THEN "cut_off" ELSE @]

CutOff(c) ==
    [c EXCEPT !.appr = IF @ \in {"pending", "approved"} THEN "expired" ELSE @,
              !.tool = IF @ \in OpenTool THEN "cut_off" ELSE @]

failPendingApprovalLifecycle(calls, r) ==
    [t \in Calls |-> IF RunOf[t] = r THEN CutOff(calls[t]) ELSE calls[t]]

\* completeRunTx, failRunTx and cancelRunTx: the transition, the job and the
\* open calls in one transaction.  calls is the call table the transaction has
\* written so far, e the execution columns the writer sets.
Terminate(r, from, to, why, asserted, e, calls) ==
    /\ applyRunTransition(r, from, to, why, asserted)
    /\ exec' = [exec EXCEPT ![r] = e]
    /\ job' = [job EXCEPT ![r] = ClosedJob(@, to)]
    /\ call' = failPendingApprovalLifecycle(calls, r)

\* The two ways back to the queue.
Released(j, increment) ==
    [j EXCEPT !.status = "pending", !.owner = NoWorker, !.attemptId = 0,
              !.attempt = @ + increment]

ToQueue(r, steps, increment) ==
    /\ run[r].version + steps <= MaxVersion
    /\ run' = [run EXCEPT ![r] = Moved(@, "queued", "none", "inherit", steps)]
    /\ exec' = [exec EXCEPT ![r] = Unowned]
    /\ job' = [job EXCEPT ![r] = Released(@, increment)]
    /\ UNCHANGED call

\* One version from running or recovering: no executor can exist.
RequeueUnsent(r, increment) ==
    /\ run[r].status \in {"running", "recovering"}
    /\ job[r].status = "in_progress"
    /\ ToQueue(r, 1, increment)

\* Through recovering: two versions when the run still claims to be owned, one
\* when it was fenced earlier.
RequeueThroughRecovery(r) ==
    /\ run[r].status \in Executing
    /\ job[r].status = "in_progress"
    /\ job[r].attemptId = exec[r].attempt
    /\ ToQueue(r, IF run[r].status = "recovering" THEN 1 ELSE 2, 1)

-----------------------------------------------------------------------------
(* Enqueue and claim                                                       *)

Init ==
    /\ run = [r \in Runs |-> [status |-> "absent", reason |-> "none",
                              version |-> 0, wait |-> "none"]]
    /\ exec = [r \in Runs |-> Unowned]
    /\ job = [r \in Runs |-> [status |-> "none", owner |-> NoWorker,
                              attemptId |-> 0, attempt |-> 0]]
    /\ call = [t \in Calls |-> [tool |-> "none", appr |-> "none", due |-> FALSE]]
    /\ attempts = 0
    /\ sweep = [mode |-> "idle", todo |-> {}]

EnqueueUserMessage(r) ==
    /\ run[r].status = "absent"
    /\ \A q \in Runs : q < r => run[q].status # "absent"
    /\ run' = [run EXCEPT ![r] = [status |-> "queued", reason |-> "none",
                                  version |-> 1, wait |-> "none"]]
    /\ job' = [job EXCEPT ![r] = [status |-> "pending", owner |-> NoWorker,
                                  attemptId |-> 0, attempt |-> 1]]
    /\ UNCHANGED <<exec, call, attempts, sweep>>

Active == {r \in Runs : exec[r].active}

\* Fault: an earlier turn blocks only while it executes, not while it waits to
\* be sent again.
FaultyBlockedBy(r) ==
    {q \in Runs : q < r /\ SessionOf[q] = SessionOf[r] /\ exec[q].active}

\* An earlier turn of the session that is unfinished in any of its three rows.
BlockedBy(r) ==
    {q \in Runs : /\ q < r
                  /\ run[q].status # "absent"
                  /\ SessionOf[q] = SessionOf[r]
                  /\ \/ exec[q].active
                     \/ run[q].status \notin Terminal
                     \/ job[q].status \notin Terminal}

\* Fault: the limit is off by one.
FaultyHasCapacity == Cardinality(Active) <= GlobalLimit

HasCapacity == Cardinality(Active) < GlobalLimit

\* Which of the eligible runs a worker gets depends on its capabilities, so any
\* of them may be the oldest one it can serve.
ClaimNextCompatibleJob(r, w) ==
    /\ HasCapacity
    /\ job[r].status = "pending"
    /\ BlockedBy(r) = {}
    /\ applyRunTransition(r, {"queued"}, "running", "none", "inherit")
    /\ attempts' = attempts + 1
    /\ exec' = [exec EXCEPT ![r] = [worker |-> w, attempt |-> attempts + 1, active |-> TRUE,
                                    delivery |-> "pending_send", lease |-> "live"]]
    /\ job' = [job EXCEPT ![r].status = "in_progress", ![r].owner = w,
                          ![r].attemptId = attempts + 1]
    /\ UNCHANGED <<call, sweep>>

\* The queue observer records that no live worker can serve the route, or that
\* one can again: the only self-edge of the lifecycle.
ObserveQueuedRunRouting(r, w) ==
    /\ job[r].status = "pending"
    /\ w \in {"none", "no_compatible_worker"}
    /\ w # run[r].wait
    /\ applyRunTransition(r, {"queued"}, "queued", "none", w)
    /\ UNCHANGED <<exec, job, call, attempts, sweep>>

\* One of the two queue bounds ran out; the operator's policy picks the outcome.
ExpireQueuedRun(r, policy, w) ==
    /\ job[r].status = "pending"
    /\ run[r].status = "queued"
    /\ w \in {"no_compatible_worker", "queue_timeout"}
    /\ \/ /\ policy = "cancel"
          /\ Terminate(r, {"queued"}, "cancelled", "abandoned", w, exec[r], call)
       \/ /\ policy = "fail"
          /\ Terminate(r, {"queued"}, "failed", "expired", w, Exited(exec[r]), call)
    /\ UNCHANGED <<attempts, sweep>>

-----------------------------------------------------------------------------
(* Delivery of the assignment command, and its lease                       *)

Deliver(a, from, to) ==
    /\ Owns(a)
    /\ exec[a.run].active
    /\ exec[a.run].delivery \in from
    /\ exec' = [exec EXCEPT ![a.run].delivery = to]
    /\ UNCHANGED <<run, job, call, attempts, sweep>>

BeginAssignmentSend(a) ==
    /\ run[a.run].status = "running"
    /\ HoldsJob(a)
    /\ Deliver(a, {"pending_send"}, "sending")

MarkAssignmentDelivered(a) == Deliver(a, {"sending"}, "delivered")

MarkAssignmentDeliveryUncertain(a) == Deliver(a, {"sending", "delivered"}, "uncertain")

\* AbortPendingAssignment and AbortUnsentAssignment.
AbortAssignment(a) ==
    /\ exec[a.run].attempt = a.attempt
    /\ exec[a.run].delivery \in {"pending_send", "sending"}
    /\ RequeueUnsent(a.run, 0)
    /\ UNCHANGED <<attempts, sweep>>

RenewAssignment(a) ==
    /\ run[a.run].status \in {"running", "waiting_approval"}
    /\ exec[a.run].active
    /\ Owns(a)
    /\ HoldsJob(a)
    /\ exec' = [exec EXCEPT ![a.run].lease = "live"]
    /\ UNCHANGED <<run, job, call, attempts, sweep>>

\* Time passes without a renewal.
LeaseLapses(r) ==
    /\ exec[r].lease = "live"
    /\ exec' = [exec EXCEPT ![r].lease = "lapsed"]
    /\ UNCHANGED <<run, job, call, attempts, sweep>>

-----------------------------------------------------------------------------
(* Ownership proofs                                                        *)

FenceRunOwnership(a) ==
    /\ Owns(a)
    /\ applyRunTransition(a.run, {"running", "waiting_approval"}, "recovering", "none", "inherit")
    /\ exec' = [exec EXCEPT ![a.run].delivery = "uncertain"]
    /\ UNCHANGED <<job, call, attempts, sweep>>

ResumeRecoveringRun(a) ==
    /\ Owns(a)
    /\ applyRunTransition(a.run, {"recovering"}, "running", "none", "inherit")
    /\ exec' = [exec EXCEPT ![a.run].delivery = "delivered"]
    /\ UNCHANGED <<job, call, attempts, sweep>>

-----------------------------------------------------------------------------
(* Terminal reports                                                        *)

\* Only a worker that the command was sent to can report on the run.
Reached(r) == exec[r].delivery \notin {"none", "pending_send"}

CompleteRun(r, why) ==
    /\ Reached(r)
    /\ Terminate(r, Executing, "completed", why, "inherit", Exited(exec[r]), call)
    /\ UNCHANGED <<attempts, sweep>>

FailRun(r, why) ==
    /\ Reached(r)
    /\ Terminate(r, {"queued"} \union Executing, "failed", why, "inherit", Exited(exec[r]), call)
    /\ UNCHANGED <<attempts, sweep>>

\* The handler of a tool beacon ends the run, whose executor it has not heard
\* stop.  It reads the version just before, so whatever attempt it finds.
FailRunPreservingExecution(r, why) ==
    /\ \E t \in Calls : RunOf[t] = r /\ call[t].tool # "none"
    /\ Terminate(r, {"queued"} \union Executing, "failed", why, "inherit", Contained(exec[r]), call)
    /\ UNCHANGED <<attempts, sweep>>

\* Fault: a late cancellation overwrites the outcome of a finished run.
FaultyCancelRun(r, why) ==
    /\ Terminate(r, Lifecycles, "cancelled", why, "inherit", exec[r], call)
    /\ UNCHANGED <<attempts, sweep>>

\* CancelRunCanonical for a client that went away, CancelUserRun for an explicit
\* stop; neither touches the execution columns.
CancelRun(r, why) ==
    /\ Terminate(r, {"queued"} \union Executing, "cancelled", why, "inherit", exec[r], call)
    /\ UNCHANGED <<attempts, sweep>>

\* Fault: the last attempt is retried as well.
FaultyRequeueOrFail(a) ==
    /\ run[a.run].status = "running"
    /\ Reached(a.run)
    /\ Owns(a)
    /\ HoldsJob(a)
    /\ job[a.run].attempt <= MaxAttempts
    /\ RequeueUnsent(a.run, 1)
    /\ UNCHANGED <<attempts, sweep>>

\* The confirmed release of RequeueOrFailRetryableRun: the owner hands its run
\* back, and the run is requeued or, with its budget spent, failed.
RequeueOrFailRetryableRun(a) ==
    /\ run[a.run].status = "running"
    /\ Reached(a.run)
    /\ Owns(a)
    /\ HoldsJob(a)
    /\ \/ /\ job[a.run].attempt < MaxAttempts
          /\ RequeueUnsent(a.run, 1)
       \/ /\ job[a.run].attempt >= MaxAttempts
          /\ Terminate(a.run, {"running"}, "failed", "retries_exhausted", "inherit",
                       Exited(exec[a.run]), call)
    /\ UNCHANGED <<attempts, sweep>>

AcknowledgeExecutionExit(r) ==
    /\ run[r].status \in Terminal
    /\ exec[r].active
    /\ exec' = [exec EXCEPT ![r] = Exited(@)]
    /\ UNCHANGED <<run, job, call, attempts, sweep>>

-----------------------------------------------------------------------------
(* Reconciliation of an assignment.  mode is the caller: "lost" when the    *)
(* worker's stream ended, "heartbeat" when a live worker no longer reports  *)
(* the run, "cutoff" for the periodic sweep, "startup" after a restart.     *)

CallsOf(r) == {t \in Calls : RunOf[t] = r}
HasPending(r) == \E t \in CallsOf(r) : call[t].appr = "pending"
\* Fault: a token that was used no longer counts as an authorization.
FaultyHasAuthorized(r) == \E t \in CallsOf(r) : call[t].appr = "approved"

HasAuthorized(r) == \E t \in CallsOf(r) : call[t].appr \in Authorized

committedStop(r) == run[r].status = "cancelled" /\ run[r].reason = "user_cancelled"

LeaseLive(r, mode) ==
    IF mode = "cutoff" THEN exec[r].lease \in {"live", "lapsed"} ELSE exec[r].lease = "live"

fenceExecution(r) ==
    /\ exec' = [exec EXCEPT ![r].delivery = "uncertain"]
    /\ UNCHANGED <<run, job, call>>

\* Fault: only the periodic sweep knows about committed stops.
FaultyAwaitsExit(r, mode) ==
    /\ exec[r].active
    /\ committedStop(r)
    /\ mode = "cutoff" /\ exec[r].delivery # "pending_send" /\ LeaseLive(r, mode)

\* The early returns that leave a delivered stop, or a lease that is not over,
\* in place.
AwaitsExit(r, mode) ==
    /\ exec[r].active
    /\ committedStop(r)
    /\ \/ mode = "heartbeat"
       \/ mode # "lost" /\ exec[r].delivery # "pending_send" /\ LeaseLive(r, mode)

BeforeCutoff(r, mode) ==
    /\ mode = "cutoff"
    /\ exec[r].active
    /\ run[r].status \in Executing
    /\ exec[r].delivery # "fenced"
    /\ LeaseLive(r, mode)

ReconcileAwaitingExit(r, mode) ==
    /\ AwaitsExit(r, mode)
    /\ IF mode = "heartbeat" THEN UNCHANGED <<run, exec, job, call>> ELSE fenceExecution(r)

ReconcileTerminal(r, mode) ==
    /\ run[r].status \in Terminal
    /\ IF mode = "lost" /\ exec[r].active
       THEN fenceExecution(r)
       ELSE /\ exec' = [exec EXCEPT ![r] = Exited(@)]
            /\ UNCHANGED <<run, job, call>>

\* An undecided approval can no longer be delivered to anybody: the newest one
\* is denied, open calls fail, and the run fails with them.
reconcileWaitingApproval(r, mode) ==
    \E denied \in SUBSET {t \in CallsOf(r) : call[t].appr = "pending"} :
        /\ Cardinality(denied) = IF HasPending(r) THEN 1 ELSE 0
        /\ Terminate(r, {"waiting_approval", "recovering"}, "failed",
                     "approval_delivery_failed", "inherit",
                     IF mode = "lost" /\ exec[r].active
                     THEN Contained(exec[r]) ELSE Exited(exec[r]),
                     [t \in Calls |->
                        IF RunOf[t] # r THEN call[t]
                        ELSE [call[t] EXCEPT
                                !.appr = IF t \in denied THEN "denied" ELSE @,
                                !.tool = IF @ \in OpenTool THEN "failed" ELSE @]])

\* A token that was minted may have been used: nothing can prove otherwise.
terminalizeStaleApprovedAuthorization(r) ==
    /\ HasAuthorized(r)
    /\ Terminate(r, {"queued"} \union Executing, "failed", "side_effect_uncertain", "inherit",
                 Exited(exec[r]),
                 [t \in Calls |->
                    IF RunOf[t] # r THEN call[t]
                    ELSE [call[t] EXCEPT
                            !.appr = IF @ \in Authorized THEN "expired" ELSE @,
                            !.tool = IF @ \in OpenTool THEN "failed" ELSE @]])

terminalizeExhaustedAssignment(r) ==
    /\ job[r].status = "in_progress"
    /\ job[r].attemptId = exec[r].attempt
    /\ job[r].attempt >= MaxAttempts
    /\ Terminate(r, {"queued"} \union Executing, "failed", "recovery_interrupted", "inherit",
                 Exited(exec[r]), call)

Undecided(r) ==
    \/ run[r].status = "waiting_approval" /\ ~HasAuthorized(r)
    \/ run[r].status = "recovering" /\ HasPending(r)

ReconcileExecuting(r, mode) ==
    /\ run[r].status \in Executing
    /\ \/ /\ Undecided(r)
          /\ reconcileWaitingApproval(r, mode)
       \/ /\ ~Undecided(r)
          /\ mode = "lost"
          /\ exec[r].delivery # "pending_send"
          /\ exec[r].active
          /\ run[r].status # "recovering"    \* a repeated fence writes nothing
          /\ applyRunTransition(r, {"running", "waiting_approval"}, "recovering", "none", "inherit")
          /\ exec' = [exec EXCEPT ![r].delivery = "uncertain"]
          /\ UNCHANGED <<job, call>>
       \/ /\ ~Undecided(r)
          /\ mode # "lost"
          /\ terminalizeStaleApprovedAuthorization(r)
       \/ /\ ~Undecided(r)
          /\ mode = "lost" \/ ~HasAuthorized(r)
          /\ exec[r].delivery = "pending_send"
          /\ job[r].attemptId = exec[r].attempt
          /\ RequeueUnsent(r, 0)
       \/ /\ ~Undecided(r)
          /\ mode # "lost"
          /\ ~HasAuthorized(r)
          /\ exec[r].delivery # "pending_send"
          /\ \/ terminalizeExhaustedAssignment(r)
             \/ job[r].attempt < MaxAttempts /\ RequeueThroughRecovery(r)

\* A row that has moved on to another attempt or worker is left alone.
reconcileAssignment(a, mode) ==
    LET r == a.run IN
    /\ Owns(a)
    /\ \/ ReconcileAwaitingExit(r, mode)
       \/ /\ ~AwaitsExit(r, mode)
          /\ ~BeforeCutoff(r, mode)
          /\ ReconcileTerminal(r, mode) \/ ReconcileExecuting(r, mode)

ReconcileAssignment(a) ==
    /\ reconcileAssignment(a, "lost")
    /\ UNCHANGED <<attempts, sweep>>

ReconcileHeartbeatAssignment(a) ==
    /\ reconcileAssignment(a, "heartbeat")
    /\ UNCHANGED <<attempts, sweep>>

-----------------------------------------------------------------------------
(* Recovery passes: a list read in one transaction, visited in later ones   *)

RowAssignment(r) == [run |-> r, worker |-> exec[r].worker, attempt |-> exec[r].attempt]

Recoverable(r) ==
    /\ exec[r].active
    /\ \/ run[r].status = "queued"
       \/ /\ run[r].status \in Terminal
          /\ exec[r].delivery # "uncertain" \/ exec[r].lease # "live"
       \/ /\ run[r].status \in Executing
          /\ exec[r].delivery = "fenced" \/ exec[r].lease # "live"

RecoverableAssignments == {RowAssignment(r) : r \in {q \in Runs : Recoverable(q)}}

\* RecoverOrphanedAssignments fixes its cutoff, then reads the list.
BeginSweep ==
    /\ sweep.mode = "idle"
    /\ sweep' = [mode |-> "cutoff", todo |-> RecoverableAssignments]
    /\ exec' = [r \in Runs |-> IF exec[r].lease = "lapsed"
                               THEN [exec[r] EXCEPT !.lease = "overdue"] ELSE exec[r]]
    /\ UNCHANGED <<run, job, call, attempts>>

Visited(a) == [sweep EXCEPT !.todo = @ \ {a}]

\* The candidate was overtaken, is early, or is held by a connected worker.
SkipCandidate(a) ==
    /\ a \in sweep.todo
    /\ sweep.mode = "cutoff"
    /\ sweep' = Visited(a)
    /\ UNCHANGED <<run, exec, job, call, attempts>>

RecoverAssignment(a) ==
    /\ a \in sweep.todo
    /\ reconcileAssignment(a, sweep.mode)
    /\ sweep' = Visited(a)
    /\ UNCHANGED attempts

\* The pass is over, or was cut short by its timeout or an error.
EndSweep ==
    /\ sweep.mode = "cutoff" \/ (sweep.mode = "startup" /\ sweep.todo = {})
    /\ sweep' = [mode |-> "idle", todo |-> {}]
    /\ UNCHANGED <<run, exec, job, call, attempts>>

startupRecoveryAssignments ==
    {RowAssignment(r) : r \in {q \in Runs : exec[q].active \/ run[q].status \in Executing}}

\* A crash and the first transaction of RecoverAllActiveAssignmentsWithLimit:
\* handlers in flight are gone, whatever was executing is fenced, and the visit
\* starts over.
Restart ==
    /\ exec' = [r \in Runs |-> IF run[r].status \in Executing
                               THEN [exec[r] EXCEPT !.delivery = "fenced"] ELSE exec[r]]
    /\ sweep' = [mode |-> "startup", todo |-> startupRecoveryAssignments]
    /\ call' = [t \in Calls |-> IF call[t].tool = "checked"
                                THEN [call[t] EXCEPT !.tool = "none"] ELSE call[t]]
    /\ UNCHANGED <<run, job, attempts>>

-----------------------------------------------------------------------------
(* Tool calls and approvals                                                 *)

\* handleToolBeaconForWorker reads the run, and only a later transaction
\* inserts the call.
CheckBeacon(t) ==
    /\ call[t].tool = "none"
    /\ Reached(RunOf[t])
    /\ run[RunOf[t]].status \in {"running", "waiting_approval"}
    /\ call' = [call EXCEPT ![t].tool = "checked"]
    /\ UNCHANGED <<run, exec, job, attempts, sweep>>

RecordToolCallBefore(t, s) ==
    /\ call[t].tool = "checked"
    /\ s \in {"requested", "allowed", "denied"}
    /\ call' = [call EXCEPT ![t].tool = s]
    /\ UNCHANGED <<run, exec, job, attempts, sweep>>

\* running -> waiting_approval; a run that already waits keeps its version.
CreateApproval(t) ==
    LET r == RunOf[t] IN
    /\ call[t].tool = "requested"
    /\ call[t].appr = "none"
    /\ \/ applyRunTransition(r, {"running"}, "waiting_approval", "none", "inherit")
       \/ run[r].status = "waiting_approval" /\ UNCHANGED run
    /\ call' = [call EXCEPT ![t].tool = "approval_required", ![t].appr = "pending"]
    /\ UNCHANGED <<exec, job, attempts, sweep>>

DeadlinePasses(t) ==
    /\ call[t].appr \in {"pending", "approved"}
    /\ ~call[t].due
    /\ call' = [call EXCEPT ![t].due = TRUE]
    /\ UNCHANGED <<run, exec, job, attempts, sweep>>

ApproveApproval(t) ==
    /\ call[t].appr = "pending"
    /\ ~call[t].due
    /\ run[RunOf[t]].status \in {"running", "waiting_approval"}
    /\ call' = [call EXCEPT ![t].appr = "approved"]
    /\ UNCHANGED <<run, exec, job, attempts, sweep>>

\* Ready from the worker: only now does the run leave waiting_approval.
ResumeApprovedRun(a, t) ==
    /\ RunOf[t] = a.run
    /\ call[t].appr \in Authorized
    /\ Owns(a)
    /\ applyRunTransition(a.run, {"waiting_approval"}, "running", "none", "inherit")
    /\ UNCHANGED <<exec, job, call, attempts, sweep>>

\* terminalizeApproval: the decision, its call and its run, execution untouched.
terminalizeApproval(t, from, appr, tool, why) ==
    /\ Terminate(RunOf[t], from, "failed", why, "inherit", exec[RunOf[t]],
                 [call EXCEPT ![t].appr = appr,
                              ![t].tool = IF @ \in OpenTool THEN tool ELSE @])
    /\ UNCHANGED <<attempts, sweep>>

AwaitingDecision == {"waiting_approval", "recovering"}

ExpireApproval(t) ==
    /\ call[t].due
    /\ \/ /\ call[t].appr = "pending"
          /\ terminalizeApproval(t, AwaitingDecision, "expired", "failed", "expired")
       \/ /\ call[t].appr = "approved"
          /\ terminalizeApproval(t, AwaitingDecision \union {"running"}, "expired", "failed", "expired")

DenyApproval(t) ==
    /\ call[t].appr = "pending"
    /\ IF call[t].due
       THEN terminalizeApproval(t, AwaitingDecision, "expired", "failed", "expired")
       ELSE terminalizeApproval(t, AwaitingDecision, "denied", "denied", "policy_denied")

FailApprovalDelivery(t) ==
    /\ call[t].appr = "pending"
    /\ terminalizeApproval(t, AwaitingDecision, "denied", "failed", "approval_delivery_failed")

\* The single use of the token, by the tool server.
ConsumeApproval(t) ==
    /\ call[t].appr = "approved"
    /\ ~call[t].due
    /\ call' = [call EXCEPT ![t].appr = "consumed"]
    /\ UNCHANGED <<run, exec, job, attempts, sweep>>

\* Fault: an approval that was granted counts as one that was used.
FaultyToolCallAfter(t, w, s) ==
    LET r == RunOf[t] IN
    /\ exec[r].worker = w
    /\ call[t].tool \in OpenTool
    /\ run[r].status \in Executing
    /\ s = "completed" => \/ call[t].tool = "allowed"
                          \/ call[t].tool = "approval_required" /\ call[t].appr \in Authorized
    /\ call' = [call EXCEPT ![t].tool = s]
    /\ UNCHANGED <<run, exec, job, attempts, sweep>>

\* The worker's report on a call.  A call cut off by the end of its run may
\* still be corrected to completed when its token was consumed.
RecordToolCallAfter(t, w, s) ==
    LET r == RunOf[t] IN
    /\ exec[r].worker = w
    /\ \/ /\ call[t].tool = "cut_off"
          /\ call[t].appr = "consumed"
          /\ run[r].status \in Terminal
          /\ s = "completed"
       \/ /\ call[t].tool \in OpenTool
          /\ run[r].status \in Executing
          /\ s = "completed" => \/ call[t].tool = "allowed"
                                \/ call[t].tool = "approval_required" /\ call[t].appr = "consumed"
    /\ call' = [call EXCEPT ![t].tool = s]
    /\ UNCHANGED <<run, exec, job, attempts, sweep>>

-----------------------------------------------------------------------------
(* The store                                                                *)

RunStep(r) ==
    \/ EnqueueUserMessage(r)
    \/ \E w \in Workers : ClaimNextCompatibleJob(r, w)
    \/ \E w \in QueueWaits : ObserveQueuedRunRouting(r, w)
    \/ \E p \in {"cancel", "fail"}, w \in QueueWaits : ExpireQueuedRun(r, p, w)
    \/ \E why \in {"none", "completed_no_content"} : CompleteRun(r, why)
    \/ \E why \in ReportedFailures : FailRun(r, why) \/ FailRunPreservingExecution(r, why)
    \/ \E why \in {"user_cancelled", "abandoned"} : CancelRun(r, why)
    \/ AcknowledgeExecutionExit(r)

AssignmentStep(a) ==
    \/ BeginAssignmentSend(a)
    \/ MarkAssignmentDelivered(a)
    \/ MarkAssignmentDeliveryUncertain(a)
    \/ AbortAssignment(a)
    \/ RenewAssignment(a)
    \/ FenceRunOwnership(a)
    \/ ResumeRecoveringRun(a)
    \/ RequeueOrFailRetryableRun(a)
    \/ ReconcileAssignment(a)
    \/ ReconcileHeartbeatAssignment(a)
    \/ \E t \in CallsOf(a.run) : ResumeApprovedRun(a, t)

CallStep(t) ==
    \/ CheckBeacon(t)
    \/ \E s \in {"requested", "allowed", "denied"} : RecordToolCallBefore(t, s)
    \/ CreateApproval(t)
    \/ ApproveApproval(t)
    \/ ExpireApproval(t)
    \/ DenyApproval(t)
    \/ FailApprovalDelivery(t)
    \/ ConsumeApproval(t)
    \/ \E w \in Workers, s \in {"completed", "failed", "denied"} : RecordToolCallAfter(t, w, s)

\* The listeners open only after startup recovery has returned.
Serve ==
    /\ sweep.mode # "startup"
    /\ \/ \E r \in Runs : RunStep(r)
       \/ \E a \in Assignments : AssignmentStep(a)
       \/ \E t \in Calls : CallStep(t)
       \/ BeginSweep

Recover ==
    \/ \E a \in sweep.todo : RecoverAssignment(a) \/ SkipCandidate(a)
    \/ EndSweep
    \/ Restart

TimePasses ==
    \/ \E r \in Runs : LeaseLapses(r)
    \/ \E t \in Calls : DeadlinePasses(t)

Next == Serve \/ Recover \/ TimePasses

Spec == Init /\ [][Next]_vars

-----------------------------------------------------------------------------
(* Safety                                                                   *)

\* The three rows of a run agree: a queued run is owned by nobody and its job
\* is pending; an executing run has exactly the owner and attempt that hold its
\* job; the job of an ended run is closed with the same outcome.  Every writer
\* updates the rows with separate statements, each with its own guard.
RowsAgree(r) ==
    /\ run[r].status = "absent" => exec[r] = Unowned /\ job[r].status = "none"
    /\ run[r].status = "queued" =>
         exec[r] = Unowned /\ job[r].status = "pending" /\ job[r].owner = NoWorker
    /\ run[r].status \in Executing =>
         /\ exec[r].active
         /\ exec[r].worker \in Workers
         /\ job[r].status = "in_progress"
         /\ job[r].owner = exec[r].worker
         /\ job[r].attemptId = exec[r].attempt
    /\ run[r].status \in Terminal => job[r].status = run[r].status
JobRunAgreement == \A r \in Runs : RowsAgree(r)

\* A turn executes only when every earlier turn of its session has ended and
\* the executor of that turn is known to be gone, whatever cancellations,
\* restarts and lost workers came in between.
SessionTurnOrder ==
    \A q, r \in Runs :
        q < r /\ SessionOf[q] = SessionOf[r] /\ exec[r].active =>
            run[q].status \in Terminal /\ ~exec[q].active

\* No more executors than the operator's limit exist, counting the ones that
\* belong to ended runs and have not acknowledged their exit.
ConcurrencyLimit == Cardinality(Active) <= GlobalLimit

\* No mix of worker releases, lost streams, sweeps and restarts gives a run more
\* attempts than its budget.
AttemptBudget == \A r \in Runs : job[r].attempt <= MaxAttempts

\* An ended run holds no approval that could still be decided or used, even
\* when the end raced the request or the decision.
ApprovalsSettled ==
    \A t \in Calls : run[RunOf[t]].status \in Terminal => call[t].appr \notin {"pending", "approved"}

\* A call that needed an approval is completed only by a token that was used;
\* the authorization may be withdrawn afterwards only by a recovery that names
\* the uncertainty as the outcome of the run.
CompletionNeedsConsumption ==
    \A t \in Calls :
        call[t].tool = "completed" /\ call[t].appr # "none" =>
            \/ call[t].appr = "consumed"
            \/ /\ call[t].appr = "expired"
               /\ run[RunOf[t]].status = "failed"
               /\ run[RunOf[t]].reason = "side_effect_uncertain"

\* Approvals bind what they authorize: a gated call completes on a used token, and
\* an ended run leaves none to use.
ApprovalsBind == ApprovalsSettled /\ CompletionNeedsConsumption

\* A reason for waiting is attached to a run only while it waits, or when the
\* queue bound it names is what ended it.
QueueReasonHonest ==
    \A r \in Runs :
        run[r].wait # "none" =>
            \/ run[r].status = "queued" /\ run[r].wait = "no_compatible_worker"
            \/ /\ <<run[r].status, run[r].reason>> \in
                    {<<"failed", "expired">>, <<"cancelled", "abandoned">>}
               /\ exec[r].worker = NoWorker

-----------------------------------------------------------------------------
(* What a step may never do                                                 *)

Lifecycle == INSTANCE RunLifecycle WITH
    status <- [r \in Runs |-> run[r].status],
    version <- [r \in Runs |-> run[r].version]

\* The store implements the public lifecycle: terminal states are final, every
\* change moves the version forward by the transitions it commits, and only the
\* edges of the lifecycle are taken.
ImplementsLifecycle == Lifecycle!Spec

\* The transaction that ends a run closes every tool call the run has recorded.
EndClosesCalls ==
    [][\A t \in Calls :
          /\ run[RunOf[t]].status \notin Terminal
          /\ run'[RunOf[t]].status \in Terminal
          => call'[t].tool \notin OpenTool]_vars

\* Put back in the queue although an executor may exist: two transitions in one
\* step, or out of recovering after the command began to be sent.
Replayed(r) ==
    /\ run[r].status \in Executing
    /\ run'[r].status = "queued"
    /\ \/ run'[r].version = run[r].version + 2
       \/ run[r].status = "recovering" /\ exec[r].delivery \notin {"pending_send", "sending"}

\* A run is never replayed when one of its calls was authorized: the call may
\* have happened.
AuthorizedNotReplayed ==
    [][\A r \in Runs : Replayed(r) => \A t \in CallsOf(r) : call[t].appr \notin Authorized]_vars

\* While its lease lasts, a user's stop that was on its way to a worker is over
\* only when the worker acknowledges it: not by a heartbeat, a lost stream, a
\* sweep or a restart.
StopHeldUntilExit ==
    [][\A r \in Runs :
          /\ committedStop(r)
          /\ exec[r].active /\ ~exec'[r].active
          /\ exec[r].delivery # "pending_send"
          /\ exec[r].lease = "live"
          => AcknowledgeExecutionExit(r)]_vars

\* A sweep that reaches a candidate after its worker renewed the lease, or after
\* the run went to another attempt, leaves the run alone.
SweepSparesRenewed ==
    [][\A a \in sweep.todo \ sweep'.todo :
          /\ sweep.mode = "cutoff"
          /\ run[a.run].status \in Executing
          /\ exec[a.run].delivery # "fenced"
          /\ exec[a.run].lease \in {"live", "lapsed"} \/ ~Owns(a)
          => run'[a.run] = run[a.run]]_vars

\* When startup recovery returns and the listeners open, no run is executing,
\* and the only executors left are those of user stops that still have a lease.
StartupSettlesAll ==
    [][sweep.mode = "startup" /\ sweep'.mode = "idle" =>
          \A r \in Runs :
              /\ run'[r].status \notin Executing
              /\ exec'[r].active => committedStop(r)]_vars

\* Recovery, by sweep or at startup, settles what was lost, spares what is alive
\* and repeats nothing that may have happened.
RecoveryIsExact == AuthorizedNotReplayed /\ SweepSparesRenewed /\ StartupSettlesAll

-----------------------------------------------------------------------------
\* reconcileAssignment: a decision that was authorized leaves an uncertainty
\* that belongs on exactly the path a stale approved authorization takes, so a
\* reconciliation never reports it as a mere delivery failure.
AuthorizedEndsUncertain ==
    [][\A r \in Runs :
          /\ run[r].status \in Executing
          /\ run'[r].reason = "approval_delivery_failed"
          /\ exec'[r].delivery = "exited"
          => \A t \in CallsOf(r) : call[t].appr \notin Authorized]_vars

=============================================================================
