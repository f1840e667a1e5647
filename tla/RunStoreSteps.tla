--------------------------- MODULE RunStoreSteps ----------------------------
(***************************************************************************)
(* What one step of RunStore can do.  The lemmas go from the writers that  *)
(* many operations share to the operations, and end in StepRelations: the  *)
(* only fact about the actions that the theorems of RunStoreProofs use.    *)
(***************************************************************************)
EXTENDS RunStore, TLAPS

-----------------------------------------------------------------------------
(* The rows the writers build are rows                                      *)

\* A version that the exhaustion check of applyRunTransitionTx lets through stays
\* within the bound.
LEMMA VersionStep ==
    ASSUME NEW v \in 0..MaxVersion, NEW steps \in {1, 2}, v + steps <= MaxVersion
    PROVE  v + steps \in 0..MaxVersion
  BY BoundsAssumption

\* The row the UPDATE of applyRunTransitionTx writes is a row of agent_runs, with
\* the status, reason, version and queue wait reason it was given.
LEMMA MovedType ==
    ASSUME NEW row \in RunRow, NEW to, to \in Lifecycles, NEW why, why \in allowedOutcomeReasons[to],
           NEW asserted \in QueueWaits \union {"inherit"}, NEW steps \in {1, 2},
           row.version + steps <= MaxVersion
    PROVE  /\ Moved(row, to, why, asserted, steps) \in RunRow
           /\ Moved(row, to, why, asserted, steps).status = to
           /\ Moved(row, to, why, asserted, steps).reason = why
           /\ Moved(row, to, why, asserted, steps).version = row.version + steps
           /\ Moved(row, to, why, asserted, steps).wait = nextQueueWaitReason(row, to, asserted)
<1>1. why \in FailureReasons \union {"none", "completed_no_content", "user_cancelled", "abandoned"}
  BY DEF allowedOutcomeReasons, Lifecycles, FailureReasons
<1>2. nextQueueWaitReason(row, to, asserted) \in QueueWaits
  BY DEF nextQueueWaitReason, RunRow, QueueWaits
<1>3. row.version + steps \in 0..MaxVersion
  BY VersionStep DEF RunRow
<1> QED
  BY <1>1, <1>2, <1>3, Zenon DEF Moved, RunRow

\* What a committed transition leaves in the run rows.
Transitioned(r, from, to, why, asserted) ==
    /\ run' \in [Runs -> RunRow]
    /\ run[r].status \in from
    /\ run'[r].status = to
    /\ run'[r].reason = why
    /\ run'[r].version = run[r].version + 1
    /\ run'[r].wait = nextQueueWaitReason(run[r], to, asserted)
    /\ \A q \in Runs \ {r} : run'[q] = run[q]

\* A transition that commits changes one run only, from an allowed state and by
\* one version.
LEMMA TransitionType ==
    ASSUME TypeOK, NEW r \in Runs, NEW from, NEW to \in Lifecycles, NEW why,
           NEW asserted \in QueueWaits \union {"inherit"},
           applyRunTransition(r, from, to, why, asserted)
    PROVE  Transitioned(r, from, to, why, asserted)
<1>1. run[r] \in RunRow /\ run[r].version + 1 <= MaxVersion
  <2>1. run[r] \in RunRow /\ run[r].version \in 0..MaxVersion /\ run[r].version < MaxVersion
    BY DEF TypeOK, applyRunTransition, RunRow
  <2> QED
    BY <2>1, BoundsAssumption
<1>2. why \in allowedOutcomeReasons[to] /\ run' = [run EXCEPT ![r] = Moved(run[r], to, why, asserted, 1)]
  BY DEF applyRunTransition
<1>3. /\ Moved(run[r], to, why, asserted, 1) \in RunRow
      /\ Moved(run[r], to, why, asserted, 1).status = to
      /\ Moved(run[r], to, why, asserted, 1).reason = why
      /\ Moved(run[r], to, why, asserted, 1).version = run[r].version + 1
      /\ Moved(run[r], to, why, asserted, 1).wait = nextQueueWaitReason(run[r], to, asserted)
  BY <1>1, <1>2, MovedType
<1>4. run[r].status \in from
  BY DEF applyRunTransition
<1> QED
  BY <1>2, <1>3, <1>4 DEF TypeOK, Transitioned

-----------------------------------------------------------------------------
(* What a step does to one run and to one call.  The proofs of the theorems  *)
(* reason about these relations; StepRelations shows that every action of    *)
(* the store satisfies them.                                                 *)

Kept(r) == run'[r] = run[r] /\ exec'[r] = exec[r] /\ job'[r] = job[r]

Enqueued(r) ==
    /\ run[r].status = "absent"
    /\ \A q \in Runs : q < r => run[q].status # "absent"
    /\ run'[r] = [status |-> "queued", reason |-> "none", version |-> 1, wait |-> "none"]
    /\ job'[r] = [status |-> "pending", owner |-> NoWorker, attemptId |-> 0, attempt |-> 1]
    /\ exec'[r] = exec[r]

Claimed(r) ==
    /\ HasCapacity /\ BlockedBy(r) = {}
    /\ run[r].status = "queued" /\ run'[r].status = "running"
    /\ run'[r].version = run[r].version + 1 /\ run'[r].wait = "none"
    /\ exec'[r].active /\ exec'[r].worker \in Workers
    /\ job'[r].status = "in_progress" /\ job'[r].attempt = job[r].attempt
    /\ job'[r].owner = exec'[r].worker /\ job'[r].attemptId = exec'[r].attempt

ShiftEdge(f, to) ==
    \/ f = "queued" /\ to = "queued"
    \/ f = "running" /\ to \in {"waiting_approval", "recovering"}
    \/ f = "waiting_approval" /\ to \in {"running", "recovering"}
    \/ f = "recovering" /\ to = "running"

AssertsWait(f, asserted) ==
    IF f = "queued" THEN asserted \in {"none", "no_compatible_worker"} ELSE asserted = "inherit"

\* A lifecycle change that keeps the owner, if there is one.
Shifted(r) ==
    /\ ShiftEdge(run[r].status, run'[r].status)
    /\ run'[r].version = run[r].version + 1
    /\ IF run[r].status = "queued" THEN run'[r].wait \in {"none", "no_compatible_worker"}
                                   ELSE run'[r].wait = run[r].wait
    /\ job'[r] = job[r]
    /\ exec'[r] = [exec[r] EXCEPT !.delivery = exec'[r].delivery]
    /\ run[r].status = "queued" => exec'[r] = exec[r]

SameOwner(r) ==
    /\ exec'[r].worker = exec[r].worker
    /\ exec'[r].attempt = exec[r].attempt
    /\ exec'[r].active => exec[r].active

Ended(r) ==
    /\ run[r].status \in {"queued"} \union Executing /\ run'[r].status \in Terminal
    /\ run'[r].status = "completed" => run[r].status # "queued"
    /\ run'[r].version = run[r].version + 1
    /\ \/ run'[r].wait = nextQueueWaitReason(run[r], run'[r].status, "inherit")
       \/ /\ run[r].status = "queued"
          /\ <<run'[r].status, run'[r].reason>> \in {<<"failed", "expired">>, <<"cancelled", "abandoned">>}
    /\ SameOwner(r)
    /\ job'[r] = ClosedJob(job[r], run'[r].status)

Requeued(r) ==
    /\ \/ run[r].status \in {"running", "recovering"} /\ run'[r].version = run[r].version + 1
       \/ run[r].status \in {"running", "waiting_approval"} /\ run'[r].version = run[r].version + 2
    /\ run'[r].status = "queued" /\ run'[r].wait = "none"
    /\ exec'[r] = Unowned
    /\ \/ job'[r] = Released(job[r], 0)
       \/ job'[r] = Released(job[r], 1) /\ job[r].attempt < MaxAttempts

\* Only the execution columns of a claimed run change.
Tracked(r) ==
    /\ run'[r] = run[r] /\ job'[r] = job[r]
    /\ SameOwner(r)
    /\ run[r].status \in {"absent", "queued"} => exec[r] # Unowned
    /\ run[r].status \in Executing => exec'[r].active = exec[r].active

RunRel(r) ==
    \/ Kept(r) \/ Enqueued(r) \/ Claimed(r) \/ Shifted(r) \/ Ended(r) \/ Requeued(r) \/ Tracked(r)

\* A call whose approval exists has left the states before its request.
ApprovalShape(t) ==
    call[t].appr # "none" => call[t].tool \notin {"none", "checked", "requested", "allowed"}

CallRel(t) ==
    LET r == RunOf[t] IN
    /\ run[r].status \notin Terminal /\ run'[r].status \in Terminal =>
         call'[t].appr \notin {"pending", "approved"} /\ call'[t].tool \notin OpenTool
    /\ call'[t].appr \in {"pending", "approved"} /\ call'[t].appr # call[t].appr =>
         run'[r].status \notin Terminal
    /\ call[t].appr = "none" /\ call'[t].appr # "none" => call'[t].tool = "approval_required"
    /\ call[t].appr # "none" =>
         /\ call'[t].appr # "none"
         /\ ApprovalShape(t) => call'[t].tool = call[t].tool \/ call'[t].tool \in ClosedTool
    /\ call[t].tool # "completed" /\ call'[t].tool = "completed" /\ ApprovalShape(t) =>
         call'[t].appr = call[t].appr /\ call[t].appr \in {"none", "consumed"}
    /\ call[t].tool = "completed" => call'[t].tool = "completed"
    /\ call[t].appr = "consumed" /\ call'[t].appr # "consumed" =>
         /\ call'[t].appr = "expired"
         /\ run'[r].status = "failed" /\ run'[r].reason = "side_effect_uncertain"
    /\ call[t].appr \in {"denied", "expired"} => call'[t].appr = call[t].appr

\* At most one run changes its lifecycle.
OneRun == run' = run \/ \E r \in Runs : \A q \in Runs \ {r} : run'[q] = run[q]

StepRel ==
    /\ TypeOK'
    /\ \A r \in Runs : RunRel(r)
    /\ \A t \in Calls : CallRel(t)
    /\ OneRun

-----------------------------------------------------------------------------
(* The writers shared by several actions                                    *)

SweepRow == [mode: {"idle", "cutoff", "startup"}, todo: SUBSET Candidate]

\* What a transaction may have written to the calls before it ends the run.
Ending(r, to, why, calls) ==
    /\ calls \in [Calls -> CallRow]
    /\ \A t \in Calls :
        /\ RunOf[t] # r => calls[t] = call[t]
        /\ calls[t].tool # call[t].tool =>
             call[t].tool \in OpenTool /\ calls[t].tool \in {"failed", "denied"}
        /\ calls[t].appr # call[t].appr =>
             \/ call[t].appr \in {"pending", "approved"} /\ calls[t].appr \in {"denied", "expired"}
             \/ /\ call[t].appr = "consumed" /\ calls[t].appr = "expired"
                /\ to = "failed" /\ why = "side_effect_uncertain"

\* What failPendingApprovalLifecycle leaves of a call is closed, and it changes
\* nothing but open calls and undecided or unused approvals.
LEMMA CutOffRow ==
    ASSUME NEW c \in CallRow
    PROVE  /\ CutOff(c) \in CallRow
           /\ CutOff(c).tool \notin OpenTool
           /\ CutOff(c).appr \notin {"pending", "approved"}
           /\ CutOff(c).tool = c.tool \/ (c.tool \in OpenTool /\ CutOff(c).tool = "cut_off")
           /\ CutOff(c).appr = c.appr
              \/ (c.appr \in {"pending", "approved"} /\ CutOff(c).appr = "expired")
  BY Zenon DEF CutOff, CallRow, OpenTool, ClosedTool, Approvals, Authorized

\* The transaction that ends a run treats every call of the store the way CallRel
\* says, whatever its caller had already written to the calls of that run.
LEMMA EndingCalls ==
    ASSUME TypeOK, NEW r \in Runs, NEW to, NEW why, NEW calls, Ending(r, to, why, calls),
           call' = failPendingApprovalLifecycle(calls, r),
           run[r].status \notin Terminal,
           run'[r].status = to, run'[r].reason = why,
           to \in Terminal,
           \A q \in Runs \ {r} : run'[q] = run[q]
    PROVE  /\ call' \in [Calls -> CallRow]
           /\ \A t \in Calls : CallRel(t)
<1>1. ASSUME NEW t \in Calls
      PROVE  call'[t] = IF RunOf[t] = r THEN CutOff(calls[t]) ELSE call[t]
  BY <1>1 DEF failPendingApprovalLifecycle, Ending
<1>2. \A t \in Calls : calls[t] \in CallRow /\ call[t] \in CallRow /\ CutOff(calls[t]) \in CallRow
  BY CutOffRow DEF Ending, TypeOK
<1>3. call' \in [Calls -> CallRow]
  BY <1>1, <1>2 DEF failPendingApprovalLifecycle
<1>4. ASSUME NEW t \in Calls, RunOf[t] = r
      PROVE  CallRel(t)
  <2> DEFINE c == CutOff(calls[t])
  <2>1. call'[t] = c
    BY <1>1, <1>4
  <2>2. /\ c.tool \notin OpenTool
        /\ c.appr \notin {"pending", "approved"}
        /\ c.tool = calls[t].tool \/ (calls[t].tool \in OpenTool /\ c.tool = "cut_off")
        /\ c.appr = calls[t].appr \/ (calls[t].appr \in {"pending", "approved"} /\ c.appr = "expired")
    BY <1>2, CutOffRow
  <2>3. /\ calls[t].tool # call[t].tool =>
             call[t].tool \in OpenTool /\ calls[t].tool \in {"failed", "denied"}
        /\ calls[t].appr # call[t].appr =>
             \/ call[t].appr \in {"pending", "approved"} /\ calls[t].appr \in {"denied", "expired"}
             \/ /\ call[t].appr = "consumed" /\ calls[t].appr = "expired"
                /\ to = "failed" /\ why = "side_effect_uncertain"
    BY DEF Ending
  <2> HIDE DEF c
  <2> QED
    BY <1>4, <2>1, <2>2, <2>3 DEF CallRel, OpenTool, ClosedTool, Terminal, ApprovalShape
<1>5. ASSUME NEW t \in Calls, RunOf[t] # r
      PROVE  CallRel(t)
  <2>1. call'[t] = call[t] /\ run'[RunOf[t]] = run[RunOf[t]]
    BY <1>1, <1>5, CallsAssumption
  <2> QED
    BY <2>1 DEF CallRel
<1> QED
  BY <1>3, <1>4, <1>5

\* Releasing or containing an executor keeps the identity of its assignment.
LEMMA ExitRow ==
    ASSUME NEW x \in ExecRow, NEW e \in {x, Exited(x), Contained(x)}
    PROVE  /\ e \in ExecRow
           /\ e.worker = x.worker /\ e.attempt = x.attempt /\ (e.active => x.active)
  BY Zenon DEF ExecRow, Exited, Contained, Deliveries, Leases

\* The outcomes a writer may give a run, and the states it takes it from.
EndsFrom(from, to, why, asserted) ==
    /\ from \subseteq {"queued"} \union Executing
    /\ to \in Terminal
    /\ to = "completed" => "queued" \notin from
    /\ asserted \in QueueWaits \union {"inherit"}
    /\ \/ asserted = "inherit"
       \/ /\ from = {"queued"}
          /\ <<to, why>> \in {<<"failed", "expired">>, <<"cancelled", "abandoned">>}

\* completeRunTx, failRunTx and cancelRunTx, for any caller: the run ends, its job
\* is closed with it, and nothing happens to other runs.
LEMMA EndStep ==
    ASSUME TypeOK, NEW r \in Runs, NEW from, NEW to, NEW why,
           NEW asserted,
           NEW e \in {exec[r], Exited(exec[r]), Contained(exec[r])}, NEW calls,
           EndsFrom(from, to, why, asserted),
           Ending(r, to, why, calls),
           Terminate(r, from, to, why, asserted, e, calls),
           attempts' = attempts, sweep' \in SweepRow
    PROVE  StepRel
<1>1. /\ run' \in [Runs -> RunRow]
      /\ run[r].status \in from
      /\ run'[r].status = to
      /\ run'[r].reason = why
      /\ run'[r].version = run[r].version + 1
      /\ run'[r].wait = nextQueueWaitReason(run[r], to, asserted)
      /\ \A q \in Runs \ {r} : run'[q] = run[q]
  <2>1. applyRunTransition(r, from, to, why, asserted) /\ to \in Lifecycles
        /\ asserted \in QueueWaits \union {"inherit"}
    BY DEF Terminate, Lifecycles, EndsFrom
  <2>2. Transitioned(r, from, to, why, asserted)
    BY <2>1, TransitionType
  <2> QED
    BY <2>2 DEF Transitioned
<1>2. /\ exec[r] \in ExecRow /\ e \in ExecRow
      /\ e.worker = exec[r].worker /\ e.attempt = exec[r].attempt /\ (e.active => exec[r].active)
  BY ExitRow DEF TypeOK
<1>3. exec' \in [Runs -> ExecRow] /\ exec'[r] = e /\ \A q \in Runs \ {r} : exec'[q] = exec[q]
  BY <1>2 DEF TypeOK, Terminate
<1>4. ClosedJob(job[r], to) \in JobRow
  BY Zenon DEF TypeOK, ClosedJob, JobRow, Terminal, EndsFrom
<1>5. /\ job' \in [Runs -> JobRow] /\ job'[r] = ClosedJob(job[r], to)
      /\ \A q \in Runs \ {r} : job'[q] = job[q]
  BY <1>4 DEF TypeOK, Terminate
<1>6. call' \in [Calls -> CallRow] /\ \A t \in Calls : CallRel(t)
  <2>1. run[r].status \notin Terminal
    BY <1>1 DEF Executing, Terminal, EndsFrom
  <2> QED
    BY <1>1, <2>1, EndingCalls DEF Terminate, EndsFrom
<1>7. TypeOK'
  BY <1>1, <1>3, <1>5, <1>6 DEF TypeOK, SweepRow, ExecRow, JobRow, Candidate
<1>8. Ended(r)
  BY <1>1, <1>2, <1>3, <1>5, Zenon DEF Ended, SameOwner, nextQueueWaitReason, EndsFrom
<1>9. \A q \in Runs : RunRel(q)
  BY <1>1, <1>3, <1>5, <1>8 DEF RunRel, Kept
<1> QED
  BY <1>1, <1>6, <1>7, <1>9 DEF StepRel, OneRun

\* Arithmetic of the attempt counter.
LEMMA Counted ==
    ASSUME NEW n \in Nat, NEW i \in {0, 1}
    PROVE  n + i \in Nat /\ 0 \in 0..n
  OBVIOUS

\* The job row a requeue writes is a row of jobs.
LEMMA ReleasedRow ==
    ASSUME NEW j \in JobRow, NEW i \in {0, 1}, attempts \in Nat
    PROVE  Released(j, i) \in JobRow
<1>1. j.attempt + i \in Nat /\ 0 \in 0..attempts
  BY Counted DEF JobRow
<1> QED
  BY <1>1, Zenon DEF JobRow, Released

\* Both ways back to the queue end the ownership of the run and of its job
\* together.
LEMMA ToQueueStep ==
    ASSUME TypeOK, NEW r \in Runs, NEW steps \in {1, 2}, NEW increment \in {0, 1},
           ToQueue(r, steps, increment),
           steps = 1 => run[r].status \in {"running", "recovering"},
           steps = 2 => run[r].status \in {"running", "waiting_approval"},
           increment = 1 => job[r].attempt < MaxAttempts,
           attempts' = attempts, sweep' \in SweepRow
    PROVE  StepRel
<1> DEFINE row == Moved(run[r], "queued", "none", "inherit", steps)
           entry == Released(job[r], increment)
<1>1. /\ row \in RunRow /\ row.status = "queued" /\ row.version = run[r].version + steps
      /\ row.wait = "none"
  <2>1. run[r] \in RunRow /\ run[r].version + steps <= MaxVersion
    BY DEF TypeOK, ToQueue
  <2>2. "queued" \in Lifecycles /\ "none" \in allowedOutcomeReasons["queued"] /\ "inherit" \in QueueWaits \union {"inherit"}
    BY DEF Lifecycles, allowedOutcomeReasons, Executing, Terminal
  <2>3. nextQueueWaitReason(run[r], "queued", "inherit") = "none"
    BY DEF nextQueueWaitReason
  <2> QED
    BY <2>1, <2>2, <2>3, MovedType
<1>2. entry \in JobRow
  <2>1. job[r] \in JobRow /\ attempts \in Nat
    BY DEF TypeOK
  <2> QED
    BY <2>1, ReleasedRow
<1>3. Unowned \in ExecRow
  BY DEF TypeOK, Unowned, ExecRow, Deliveries, Leases
<1>4. /\ run' = [run EXCEPT ![r] = row] /\ exec' = [exec EXCEPT ![r] = Unowned]
      /\ job' = [job EXCEPT ![r] = entry] /\ call' = call
  BY DEF ToQueue
<1> HIDE DEF row, entry
<1>5. /\ run' \in [Runs -> RunRow] /\ run'[r] = row /\ \A q \in Runs \ {r} : run'[q] = run[q]
      /\ exec' \in [Runs -> ExecRow] /\ exec'[r] = Unowned /\ \A q \in Runs \ {r} : exec'[q] = exec[q]
      /\ job' \in [Runs -> JobRow] /\ job'[r] = entry /\ \A q \in Runs \ {r} : job'[q] = job[q]
  BY <1>1, <1>2, <1>3, <1>4 DEF TypeOK
<1>6. TypeOK'
  BY <1>4, <1>5 DEF TypeOK, SweepRow, ExecRow, JobRow, Candidate
<1>7. Requeued(r)
  BY <1>1, <1>5 DEF Requeued, entry
<1>8. \A q \in Runs : RunRel(q)
  BY <1>5, <1>7 DEF RunRel, Kept
<1>9. \A t \in Calls : CallRel(t)
  <2>1. run'[r].status = "queued" /\ run[r].status \notin Terminal
    BY <1>1, <1>5 DEF Terminal
  <2> SUFFICES ASSUME NEW t \in Calls PROVE CallRel(t)
    OBVIOUS
  <2>2. RunOf[t] \in Runs /\ run'[RunOf[t]].status \in Terminal => run'[RunOf[t]] = run[RunOf[t]]
    BY <1>5, <2>1, CallsAssumption DEF Terminal
  <2> QED
    BY <1>4, <2>2 DEF CallRel
<1> QED
  BY <1>5, <1>6, <1>8, <1>9 DEF StepRel, OneRun

\* Of the execution columns only the delivery state of r may change.
Redelivered(r) ==
    /\ exec' \in [Runs -> ExecRow]
    /\ exec'[r] = [exec[r] EXCEPT !.delivery = exec'[r].delivery]
    /\ run[r].status = "queued" => exec'[r] = exec[r]
    /\ \A q \in Runs \ {r} : exec'[q] = exec[q]

\* Writing the delivery state of an assignment leaves the other execution columns
\* of the store alone.
LEMMA RedeliveredStep ==
    ASSUME TypeOK, NEW r \in Runs, NEW d \in Deliveries,
           exec' = exec \/ (run[r].status # "queued" /\ exec' = [exec EXCEPT ![r].delivery = d])
    PROVE  Redelivered(r)
<1>1. exec[r] \in ExecRow /\ [exec[r] EXCEPT !.delivery = d] \in ExecRow
  BY DEF TypeOK, ExecRow
<1>2. exec[r] = [exec[r] EXCEPT !.delivery = exec[r].delivery]
  BY <1>1 DEF ExecRow
<1>3. CASE exec' = exec
  BY <1>2, <1>3 DEF TypeOK, Redelivered
<1>4. CASE run[r].status # "queued" /\ exec' = [exec EXCEPT ![r].delivery = d]
  <2>1. exec' = [exec EXCEPT ![r] = [exec[r] EXCEPT !.delivery = d]]
    BY <1>4
  <2>2. exec' \in [Runs -> ExecRow] /\ exec'[r] = [exec[r] EXCEPT !.delivery = d]
    BY <2>1, <1>1 DEF TypeOK
  <2>3. exec'[r].delivery = d
    BY <2>2, <1>1 DEF ExecRow
  <2> QED
    BY <2>1, <2>2, <2>3, <1>4 DEF TypeOK, Redelivered
<1> QED
  BY <1>3, <1>4

\* A transition that keeps the owner leaves the job as it is.
LEMMA ShiftStep ==
    ASSUME TypeOK, NEW r \in Runs, NEW from, NEW to \in Lifecycles,
           NEW asserted \in QueueWaits \union {"inherit"},
           applyRunTransition(r, from, to, "none", asserted),
           ShiftEdge(run[r].status, to),
           AssertsWait(run[r].status, asserted),
           Redelivered(r),
           job' = job, call' \in [Calls -> CallRow], \A t \in Calls : CallRel(t),
           attempts' = attempts, sweep' \in SweepRow
    PROVE  StepRel
<1>1. /\ run' \in [Runs -> RunRow]
      /\ run'[r].status = to
      /\ run'[r].version = run[r].version + 1
      /\ run'[r].wait = nextQueueWaitReason(run[r], to, asserted)
      /\ \A q \in Runs \ {r} : run'[q] = run[q]
  <2>1. Transitioned(r, from, to, "none", asserted)
    BY TransitionType
  <2> QED
    BY <2>1 DEF Transitioned
<1>2. /\ exec' \in [Runs -> ExecRow]
      /\ exec'[r] = [exec[r] EXCEPT !.delivery = exec'[r].delivery]
      /\ run[r].status = "queued" => exec'[r] = exec[r]
      /\ \A q \in Runs \ {r} : exec'[q] = exec[q]
  BY DEF Redelivered
<1>3. TypeOK'
  BY <1>1, <1>2 DEF TypeOK, SweepRow, ExecRow, JobRow, Candidate
<1>4. Shifted(r)
  BY <1>1, <1>2 DEF Shifted, ShiftEdge, AssertsWait, nextQueueWaitReason
<1>5. \A q \in Runs : RunRel(q)
  BY <1>1, <1>2, <1>4 DEF RunRel, Kept
<1> QED
  BY <1>1, <1>3, <1>5 DEF StepRel, OneRun

\* A write of execution columns alone changes no lifecycle.
LEMMA TrackStep ==
    ASSUME TypeOK, run' = run, job' = job, attempts' = attempts, sweep' \in SweepRow,
           call' \in [Calls -> CallRow], \A t \in Calls : CallRel(t),
           exec' \in [Runs -> ExecRow], \A r \in Runs : exec'[r] = exec[r] \/ Tracked(r)
    PROVE  StepRel
<1>1. TypeOK'
  BY DEF TypeOK, SweepRow, ExecRow, JobRow, Candidate
<1>2. \A r \in Runs : RunRel(r)
  BY DEF RunRel, Kept
<1> QED
  BY <1>1, <1>2 DEF StepRel, OneRun

\* A step that ends no run and writes no call satisfies CallRel everywhere.
LEMMA KeptCalls ==
    ASSUME call' = call,
           \A r \in Runs : run'[r].status \in Terminal => run'[r] = run[r]
    PROVE  \A t \in Calls : CallRel(t)
<1> SUFFICES ASSUME NEW t \in Calls PROVE CallRel(t)
  OBVIOUS
<1>1. RunOf[t] \in Runs
  BY CallsAssumption
<1> QED
  BY <1>1 DEF CallRel

-----------------------------------------------------------------------------
(* Every action is one of these steps                                       *)

\* A step outside the recovery pass keeps its candidate list well formed.
LEMMA SameSweep ==
    ASSUME TypeOK, sweep' = sweep
    PROVE  sweep' \in SweepRow
  BY DEF TypeOK, SweepRow

\* A writer that has not touched the calls before ending the run is a case of
\* Ending.
LEMMA EndingNone ==
    ASSUME TypeOK, NEW r \in Runs, NEW to, NEW why
    PROVE  Ending(r, to, why, call)
  BY DEF TypeOK, Ending

\* EnqueueUserMessage creates the run and its job together.
LEMMA EnqueueSteps ==
    ASSUME TypeOK, NEW r \in Runs, EnqueueUserMessage(r)
    PROVE  StepRel
<1> DEFINE row == [status |-> "queued", reason |-> "none", version |-> 1, wait |-> "none"]
           entry == [status |-> "pending", owner |-> NoWorker, attemptId |-> 0, attempt |-> 1]
<1>1. 1 \in 0..MaxVersion /\ 0 \in 0..attempts /\ 1 \in Nat
  BY BoundsAssumption DEF TypeOK
<1>2. row \in RunRow
  BY <1>1 DEF RunRow, Lifecycles, QueueWaits
<1>3. entry \in JobRow
  BY <1>1 DEF JobRow
<1>4. /\ run' = [run EXCEPT ![r] = row] /\ job' = [job EXCEPT ![r] = entry]
      /\ exec' = exec /\ call' = call /\ attempts' = attempts /\ sweep' = sweep
      /\ run[r].status = "absent" /\ \A q \in Runs : q < r => run[q].status # "absent"
  BY DEF EnqueueUserMessage
<1> HIDE DEF row, entry
<1>5. /\ run' \in [Runs -> RunRow] /\ run'[r] = row /\ \A q \in Runs \ {r} : run'[q] = run[q]
      /\ job' \in [Runs -> JobRow] /\ job'[r] = entry /\ \A q \in Runs \ {r} : job'[q] = job[q]
  BY <1>2, <1>3, <1>4 DEF TypeOK
<1>6. TypeOK'
  BY <1>4, <1>5 DEF TypeOK, ExecRow, JobRow, Candidate
<1>7. Enqueued(r)
  BY <1>4, <1>5 DEF Enqueued, row, entry
<1>8. \A q \in Runs : RunRel(q)
  BY <1>4, <1>5, <1>7 DEF RunRel, Kept
<1>9. \A t \in Calls : CallRel(t)
  <2>1. row.status = "queued"
    BY DEF row
  <2>2. \A q \in Runs : run'[q].status \in Terminal => run'[q] = run[q]
    BY <1>5, <2>1 DEF Terminal
  <2> QED
    BY <1>4, <2>2, KeptCalls
<1> QED
  BY <1>5, <1>6, <1>8, <1>9 DEF StepRel, OneRun

\* ClaimNextCompatibleJob gives the run, its execution columns and its job the
\* same new owner and attempt.
LEMMA ClaimSteps ==
    ASSUME TypeOK, NEW r \in Runs, NEW w \in Workers, ClaimNextCompatibleJob(r, w)
    PROVE  StepRel
<1> DEFINE e == [worker |-> w, attempt |-> attempts + 1, active |-> TRUE,
                 delivery |-> "pending_send", lease |-> "live"]
           j == [job[r] EXCEPT !.status = "in_progress", !.owner = w, !.attemptId = attempts + 1]
<1>1. /\ run' \in [Runs -> RunRow]
      /\ run[r].status \in {"queued"}
      /\ run'[r].status = "running"
      /\ run'[r].version = run[r].version + 1
      /\ run'[r].wait = nextQueueWaitReason(run[r], "running", "inherit")
      /\ \A q \in Runs \ {r} : run'[q] = run[q]
  <2>1. applyRunTransition(r, {"queued"}, "running", "none", "inherit")
    BY DEF ClaimNextCompatibleJob
  <2>2. "running" \in Lifecycles /\ "inherit" \in QueueWaits \union {"inherit"}
    BY DEF Lifecycles, Executing
  <2>3. Transitioned(r, {"queued"}, "running", "none", "inherit")
    BY <2>1, <2>2, TransitionType
  <2> QED
    BY <2>3 DEF Transitioned
<1>2. run'[r].wait = "none" /\ run[r].status = "queued"
  BY <1>1 DEF nextQueueWaitReason
<1>3. /\ attempts' = attempts + 1 /\ attempts' \in Nat /\ attempts + 1 \in 0..attempts'
      /\ \A n \in 0..attempts : n \in 0..attempts'
  BY DEF TypeOK, ClaimNextCompatibleJob
<1>4. /\ ExecRow \subseteq ExecRow' /\ JobRow \subseteq JobRow' /\ Candidate \subseteq Candidate'
  BY <1>3 DEF ExecRow, JobRow, Candidate
<1>5. e \in ExecRow'
  BY <1>3 DEF ExecRow, Deliveries, Leases
<1>6. j \in JobRow'
  BY <1>3, Zenon DEF JobRow, TypeOK
<1>7. /\ exec' = [exec EXCEPT ![r] = e] /\ job' = [job EXCEPT ![r] = j]
      /\ call' = call /\ sweep' = sweep /\ HasCapacity /\ BlockedBy(r) = {}
  BY Zenon DEF ClaimNextCompatibleJob
<1>8. /\ e.active /\ e.worker = w /\ e.attempt = attempts + 1
      /\ j.status = "in_progress" /\ j.attempt = job[r].attempt /\ j.owner = w /\ j.attemptId = attempts + 1
  BY DEF TypeOK, JobRow
<1> HIDE DEF e, j
<1>9. /\ exec' \in [Runs -> ExecRow'] /\ exec'[r] = e /\ \A q \in Runs \ {r} : exec'[q] = exec[q]
      /\ job' \in [Runs -> JobRow'] /\ job'[r] = j /\ \A q \in Runs \ {r} : job'[q] = job[q]
  BY <1>4, <1>5, <1>6, <1>7 DEF TypeOK
<1>10. TypeOK'
  <2>1. sweep' \in [mode: {"idle", "cutoff", "startup"}, todo: SUBSET Candidate']
    BY <1>4, <1>7 DEF TypeOK
  <2> QED
    BY <1>1, <1>3, <1>7, <1>9, <2>1 DEF TypeOK
<1>11. Claimed(r)
  BY <1>1, <1>2, <1>7, <1>8, <1>9 DEF Claimed
<1>12. \A q \in Runs : RunRel(q)
  BY <1>1, <1>9, <1>11 DEF RunRel, Kept
<1>13. \A t \in Calls : CallRel(t)
  <2>1. \A q \in Runs : run'[q].status \in Terminal => run'[q] = run[q]
    BY <1>1 DEF Terminal
  <2> QED
    BY <1>7, <2>1, KeptCalls
<1> QED
  BY <1>1, <1>10, <1>12, <1>13 DEF StepRel, OneRun

\* Terminal reports, cancellations and the two queue bounds end the run through
\* the shared writer.
LEMMA ReportSteps ==
    ASSUME TypeOK, NEW r \in Runs,
           \/ \E why \in {"none", "completed_no_content"} : CompleteRun(r, why)
           \/ \E why \in ReportedFailures : FailRun(r, why) \/ FailRunPreservingExecution(r, why)
           \/ \E why \in {"user_cancelled", "abandoned"} : CancelRun(r, why)
           \/ \E p \in {"cancel", "fail"}, w \in QueueWaits : ExpireQueuedRun(r, p, w)
    PROVE  StepRel
<1> DEFINE Anywhere == {"queued"} \union Executing
<1>1. ASSUME NEW why, CompleteRun(r, why) PROVE StepRel
  <2>1. /\ Terminate(r, Executing, "completed", why, "inherit", Exited(exec[r]), call)
        /\ attempts' = attempts /\ sweep' = sweep
    BY <1>1 DEF CompleteRun
  <2>2. EndsFrom(Executing, "completed", why, "inherit")
    BY DEF EndsFrom, Executing, Terminal
  <2>3. Exited(exec[r]) \in {exec[r], Exited(exec[r]), Contained(exec[r])}
    OBVIOUS
  <2> QED
    BY <2>1, <2>2, <2>3, EndingNone, SameSweep, EndStep
<1>2. ASSUME NEW why, FailRun(r, why) PROVE StepRel
  <2>1. /\ Terminate(r, Anywhere, "failed", why, "inherit", Exited(exec[r]), call)
        /\ attempts' = attempts /\ sweep' = sweep
    BY <1>2 DEF FailRun
  <2>2. EndsFrom(Anywhere, "failed", why, "inherit")
    BY DEF EndsFrom, Executing, Terminal
  <2> QED
    BY <2>1, <2>2, EndingNone, SameSweep, EndStep
<1>3. ASSUME NEW why, FailRunPreservingExecution(r, why) PROVE StepRel
  <2>1. /\ Terminate(r, Anywhere, "failed", why, "inherit", Contained(exec[r]), call)
        /\ attempts' = attempts /\ sweep' = sweep
    BY <1>3 DEF FailRunPreservingExecution
  <2>2. EndsFrom(Anywhere, "failed", why, "inherit")
    BY DEF EndsFrom, Executing, Terminal
  <2> QED
    BY <2>1, <2>2, EndingNone, SameSweep, EndStep
<1>4. ASSUME NEW why, CancelRun(r, why) PROVE StepRel
  <2>1. /\ Terminate(r, Anywhere, "cancelled", why, "inherit", exec[r], call)
        /\ attempts' = attempts /\ sweep' = sweep
    BY <1>4 DEF CancelRun
  <2>2. EndsFrom(Anywhere, "cancelled", why, "inherit")
    BY DEF EndsFrom, Executing, Terminal
  <2> QED
    BY <2>1, <2>2, EndingNone, SameSweep, EndStep
<1>5. ASSUME NEW p, NEW w, ExpireQueuedRun(r, p, w) PROVE StepRel
  <2>1. w \in {"no_compatible_worker", "queue_timeout"} /\ attempts' = attempts /\ sweep' = sweep
    BY <1>5 DEF ExpireQueuedRun
  <2>2. CASE Terminate(r, {"queued"}, "cancelled", "abandoned", w, exec[r], call)
    <3>1. EndsFrom({"queued"}, "cancelled", "abandoned", w)
      BY <2>1 DEF EndsFrom, Executing, Terminal, QueueWaits
    <3> QED
      BY <2>1, <2>2, <3>1, EndingNone, SameSweep, EndStep
  <2>3. CASE Terminate(r, {"queued"}, "failed", "expired", w, Exited(exec[r]), call)
    <3>1. EndsFrom({"queued"}, "failed", "expired", w)
      BY <2>1 DEF EndsFrom, Executing, Terminal, QueueWaits
    <3> QED
      BY <2>1, <2>3, <3>1, EndingNone, SameSweep, EndStep
  <2> QED
    BY <1>5, <2>2, <2>3 DEF ExpireQueuedRun
<1> QED
  BY <1>1, <1>2, <1>3, <1>4, <1>5

\* A write of the execution columns of one run that keeps its assignment.
LEMMA TrackOne ==
    ASSUME TypeOK, NEW r \in Runs, NEW e \in ExecRow,
           exec' = [exec EXCEPT ![r] = e],
           e.worker = exec[r].worker, e.attempt = exec[r].attempt, e.active => exec[r].active,
           run[r].status \in {"absent", "queued"} => exec[r] # Unowned,
           run[r].status \in Executing => e.active = exec[r].active,
           run' = run, job' = job, call' = call, attempts' = attempts, sweep' \in SweepRow
    PROVE  StepRel
<1>1. exec' \in [Runs -> ExecRow] /\ exec'[r] = e /\ \A q \in Runs \ {r} : exec'[q] = exec[q]
  BY DEF TypeOK
<1>2. Tracked(r)
  BY <1>1 DEF Tracked, SameOwner
<1>3. \A q \in Runs : exec'[q] = exec[q] \/ Tracked(q)
  BY <1>1, <1>2
<1>4. \A t \in Calls : CallRel(t)
  BY KeptCalls
<1> QED
  BY <1>1, <1>3, <1>4, TrackStep DEF TypeOK

\* The delivery protocol of an assignment only tracks it.
LEMMA DeliverySteps ==
    ASSUME TypeOK, JobRunAgreement, NEW r \in Runs, NEW d \in Deliveries,
           exec' = [exec EXCEPT ![r].delivery = d],
           exec[r].active \/ run[r].status \in Terminal,
           run' = run, job' = job, call' = call, attempts' = attempts, sweep' \in SweepRow
    PROVE  StepRel
<1> DEFINE e == [exec[r] EXCEPT !.delivery = d]
<1>1. e \in ExecRow /\ e.worker = exec[r].worker /\ e.attempt = exec[r].attempt /\ e.active = exec[r].active
  BY DEF TypeOK, ExecRow
<1>2. exec' = [exec EXCEPT ![r] = e]
  OBVIOUS
<1>3. run[r].status \in {"absent", "queued"} => exec[r] # Unowned
  BY DEF Unowned, Terminal
<1> HIDE DEF e
<1> QED
  BY Zenon, <1>1, <1>2, <1>3, TrackOne

\* Renewing a lease, or letting it lapse, only tracks the assignment.
LEMMA LeaseSteps ==
    ASSUME TypeOK, NEW r \in Runs, NEW l \in Leases,
           exec' = [exec EXCEPT ![r].lease = l], exec[r].lease = "live" \/ exec[r].active,
           run' = run, job' = job, call' = call, attempts' = attempts, sweep' \in SweepRow
    PROVE  StepRel
<1> DEFINE e == [exec[r] EXCEPT !.lease = l]
<1>1. e \in ExecRow /\ e.worker = exec[r].worker /\ e.attempt = exec[r].attempt /\ e.active = exec[r].active
  BY DEF TypeOK, ExecRow
<1>2. exec' = [exec EXCEPT ![r] = e]
  OBVIOUS
<1>3. exec[r] # Unowned
  BY DEF Unowned
<1> HIDE DEF e
<1> QED
  BY Zenon, <1>1, <1>2, <1>3, TrackOne

\* The exit of the executor of an ended run only tracks the assignment.
LEMMA ExitSteps ==
    ASSUME TypeOK, NEW r \in Runs, run[r].status \in Terminal,
           exec' = [exec EXCEPT ![r] = Exited(exec[r])],
           run' = run, job' = job, call' = call, attempts' = attempts, sweep' \in SweepRow
    PROVE  StepRel
<1> DEFINE e == Exited(exec[r])
<1>1. e \in ExecRow /\ e.worker = exec[r].worker /\ e.attempt = exec[r].attempt /\ (e.active => exec[r].active)
  BY ExitRow DEF TypeOK
<1>2. exec' = [exec EXCEPT ![r] = e] /\ run[r].status \notin {"absent", "queued"} \union Executing
  BY DEF Terminal, Executing
<1> HIDE DEF e
<1> QED
  BY Zenon, <1>1, <1>2, TrackOne

\* ObserveQueuedRunRouting is the only transition of a queued run to itself.
LEMMA ObserveSteps ==
    ASSUME TypeOK, NEW r \in Runs, NEW w, ObserveQueuedRunRouting(r, w)
    PROVE  StepRel
<1>1. /\ applyRunTransition(r, {"queued"}, "queued", "none", w)
      /\ w \in {"none", "no_compatible_worker"}
      /\ exec' = exec /\ job' = job /\ call' = call /\ attempts' = attempts /\ sweep' = sweep
  BY DEF ObserveQueuedRunRouting
<1>2. "queued" \in Lifecycles /\ w \in QueueWaits \union {"inherit"}
  BY <1>1 DEF Lifecycles, QueueWaits
<1>3. Transitioned(r, {"queued"}, "queued", "none", w)
  BY <1>1, <1>2, TransitionType
<1>4. ShiftEdge(run[r].status, "queued") /\ AssertsWait(run[r].status, w)
  BY <1>1, <1>3 DEF ShiftEdge, AssertsWait, Transitioned
<1>5. Redelivered(r)
  <2>1. "none" \in Deliveries
    BY DEF Deliveries
  <2> QED
    BY <1>1, <2>1, RedeliveredStep
<1>6. \A t \in Calls : CallRel(t)
  <2>1. \A q \in Runs : run'[q].status \in Terminal => run'[q] = run[q]
    BY <1>3 DEF Transitioned, Terminal
  <2> QED
    BY <1>1, <2>1, KeptCalls
<1>7. call' \in [Calls -> CallRow] /\ sweep' \in SweepRow
  BY <1>1, SameSweep DEF TypeOK
<1> QED
  BY <1>1, <1>2, <1>4, <1>5, <1>6, <1>7, ShiftStep

\* Fencing a run, proving its ownership again and resuming it after a decision
\* keep owner and job.
LEMMA OwnershipSteps ==
    ASSUME TypeOK, NEW r \in Runs, NEW from, NEW to \in Executing, NEW d \in Deliveries,
           applyRunTransition(r, from, to, "none", "inherit"),
           "queued" \notin from, ShiftEdge(run[r].status, to),
           exec' = exec \/ exec' = [exec EXCEPT ![r].delivery = d],
           job' = job, call' = call, attempts' = attempts, sweep' \in SweepRow
    PROVE  StepRel
<1>1. to \in Lifecycles /\ to \notin Terminal /\ "inherit" \in QueueWaits \union {"inherit"}
  BY DEF Lifecycles, Executing, Terminal
<1>2. Transitioned(r, from, to, "none", "inherit")
  BY <1>1, TransitionType
<1>3. run[r].status # "queued" /\ AssertsWait(run[r].status, "inherit")
  BY <1>2 DEF AssertsWait, Transitioned
<1>4. Redelivered(r)
  BY <1>3, RedeliveredStep
<1>5. \A t \in Calls : CallRel(t)
  <2>1. \A q \in Runs : run'[q].status \in Terminal => run'[q] = run[q]
    BY <1>1, <1>2 DEF Transitioned
  <2> QED
    BY <2>1, KeptCalls
<1>6. call' \in [Calls -> CallRow]
  BY DEF TypeOK
<1> QED
  BY <1>1, <1>3, <1>4, <1>5, <1>6, ShiftStep

\* An assignment that was never sent, or that its owner hands back, returns to the
\* queue with one transition.
LEMMA UnsentSteps ==
    ASSUME TypeOK, NEW r \in Runs, NEW increment \in {0, 1}, RequeueUnsent(r, increment),
           increment = 1 => job[r].attempt < MaxAttempts,
           attempts' = attempts, sweep' \in SweepRow
    PROVE  StepRel
<1>1. ToQueue(r, 1, increment) /\ run[r].status \in {"running", "recovering"}
  BY DEF RequeueUnsent
<1>2. 1 \in {1, 2} /\ 1 # 2
  OBVIOUS
<1> QED
  BY <1>1, <1>2, ToQueueStep

\* Recovery returns a run to the queue with a fence and a requeue, or a requeue
\* alone when it was fenced before.
LEMMA RecoveredSteps ==
    ASSUME TypeOK, NEW r \in Runs, RequeueThroughRecovery(r), job[r].attempt < MaxAttempts,
           attempts' = attempts, sweep' \in SweepRow
    PROVE  StepRel
<1>1. CASE run[r].status = "recovering"
  <2>1. ToQueue(r, 1, 1)
    BY <1>1 DEF RequeueThroughRecovery
  <2> QED
    BY <1>1, <2>1, ToQueueStep
<1>2. CASE run[r].status # "recovering"
  <2>1. ToQueue(r, 2, 1) /\ run[r].status \in {"running", "waiting_approval"}
    BY <1>2 DEF RequeueThroughRecovery, Executing
  <2> QED
    BY <2>1, ToQueueStep
<1> QED
  BY <1>1, <1>2

\* reconcileWaitingApprovalTx denies the newest undecided approval and ends the
\* run in the same transaction.
LEMMA WaitingApprovalSteps ==
    ASSUME TypeOK, NEW r \in Runs, NEW mode, reconcileWaitingApproval(r, mode),
           attempts' = attempts, sweep' \in SweepRow
    PROVE  StepRel
<1>1. PICK denied \in SUBSET {t \in CallsOf(r) : call[t].appr = "pending"} :
        Terminate(r, {"waiting_approval", "recovering"}, "failed",
                  "approval_delivery_failed", "inherit",
                  IF mode = "lost" /\ exec[r].active
                  THEN Contained(exec[r]) ELSE Exited(exec[r]),
                  [t \in Calls |->
                     IF RunOf[t] # r THEN call[t]
                     ELSE [call[t] EXCEPT
                             !.appr = IF t \in denied THEN "denied" ELSE @,
                             !.tool = IF @ \in OpenTool THEN "failed" ELSE @]])
  BY Zenon DEF reconcileWaitingApproval
<1> DEFINE e == IF mode = "lost" /\ exec[r].active THEN Contained(exec[r]) ELSE Exited(exec[r])
           calls == [t \in Calls |->
                       IF RunOf[t] # r THEN call[t]
                       ELSE [call[t] EXCEPT
                               !.appr = IF t \in denied THEN "denied" ELSE @,
                               !.tool = IF @ \in OpenTool THEN "failed" ELSE @]]
<1>2. Terminate(r, {"waiting_approval", "recovering"}, "failed",
                "approval_delivery_failed", "inherit", e, calls)
  BY <1>1, Zenon
<1>3. e \in {exec[r], Exited(exec[r]), Contained(exec[r])}
  OBVIOUS
<1>4. Ending(r, "failed", "approval_delivery_failed", calls)
  <2>1. ASSUME NEW t \in Calls, RunOf[t] = r
        PROVE  /\ calls[t] \in CallRow
               /\ calls[t].tool # call[t].tool => call[t].tool \in OpenTool /\ calls[t].tool = "failed"
               /\ calls[t].appr # call[t].appr => call[t].appr = "pending" /\ calls[t].appr = "denied"
    <3>1. call[t] \in CallRow /\ (t \in denied => call[t].appr = "pending")
      BY DEF TypeOK, CallsOf
    <3>2. calls[t] = [call[t] EXCEPT
                        !.appr = IF t \in denied THEN "denied" ELSE call[t].appr,
                        !.tool = IF call[t].tool \in OpenTool THEN "failed" ELSE call[t].tool]
      BY <2>1
    <3> HIDE DEF calls
    <3> QED
      BY <3>1, <3>2, Zenon DEF CallRow, Approvals, ClosedTool
  <2>2. ASSUME NEW t \in Calls, RunOf[t] # r
        PROVE  calls[t] = call[t]
    BY <2>2
  <2>3. \A t \in Calls : calls[t] \in CallRow
    BY <2>1, <2>2, Zenon DEF TypeOK
  <2>4. calls \in [Calls -> CallRow]
    BY <2>3, Zenon
  <2> HIDE DEF calls
  <2> QED
    BY <2>1, <2>2, <2>4 DEF Ending
<1>5. EndsFrom({"waiting_approval", "recovering"}, "failed", "approval_delivery_failed", "inherit")
  BY DEF EndsFrom, Executing, Terminal
<1> HIDE DEF e, calls
<1> QED
  BY <1>2, <1>3, <1>4, <1>5, EndStep

\* terminalizeStaleApprovedAuthorizationTx withdraws every authorization of the
\* run and ends it as uncertain in the same transaction.
LEMMA StaleAuthorizationSteps ==
    ASSUME TypeOK, NEW r \in Runs, terminalizeStaleApprovedAuthorization(r),
           attempts' = attempts, sweep' \in SweepRow
    PROVE  StepRel
<1> DEFINE calls == [t \in Calls |->
                       IF RunOf[t] # r THEN call[t]
                       ELSE [call[t] EXCEPT
                               !.appr = IF @ \in Authorized THEN "expired" ELSE @,
                               !.tool = IF @ \in OpenTool THEN "failed" ELSE @]]
<1>1. Terminate(r, {"queued"} \union Executing, "failed", "side_effect_uncertain", "inherit",
                Exited(exec[r]), calls)
  BY Zenon DEF terminalizeStaleApprovedAuthorization
<1>2. Ending(r, "failed", "side_effect_uncertain", calls)
  <2>1. ASSUME NEW t \in Calls, RunOf[t] = r
        PROVE  /\ calls[t] \in CallRow
               /\ calls[t].tool # call[t].tool => call[t].tool \in OpenTool /\ calls[t].tool = "failed"
               /\ calls[t].appr # call[t].appr =>
                    call[t].appr \in {"approved", "consumed"} /\ calls[t].appr = "expired"
    <3>1. call[t] \in CallRow
      BY DEF TypeOK
    <3>2. calls[t] = [call[t] EXCEPT
                        !.appr = IF call[t].appr \in Authorized THEN "expired" ELSE call[t].appr,
                        !.tool = IF call[t].tool \in OpenTool THEN "failed" ELSE call[t].tool]
      BY <2>1
    <3> HIDE DEF calls
    <3> QED
      BY <3>1, <3>2, Zenon DEF CallRow, Approvals, ClosedTool, Authorized
  <2>2. ASSUME NEW t \in Calls, RunOf[t] # r
        PROVE  calls[t] = call[t]
    BY <2>2
  <2>3. \A t \in Calls : calls[t] \in CallRow
    BY <2>1, <2>2, Zenon DEF TypeOK
  <2>4. calls \in [Calls -> CallRow]
    BY <2>3, Zenon
  <2> HIDE DEF calls
  <2> QED
    BY <2>1, <2>2, <2>4 DEF Ending
<1>3. EndsFrom({"queued"} \union Executing, "failed", "side_effect_uncertain", "inherit")
  BY DEF EndsFrom, Executing, Terminal
<1> HIDE DEF calls
<1> QED
  BY <1>1, <1>2, <1>3, EndStep

\* terminalizeExhaustedAssignmentTx ends a run whose budget is spent.
LEMMA ExhaustedSteps ==
    ASSUME TypeOK, NEW r \in Runs, terminalizeExhaustedAssignment(r),
           attempts' = attempts, sweep' \in SweepRow
    PROVE  StepRel
<1>1. Terminate(r, {"queued"} \union Executing, "failed", "recovery_interrupted", "inherit",
                Exited(exec[r]), call)
  BY DEF terminalizeExhaustedAssignment
<1>2. EndsFrom({"queued"} \union Executing, "failed", "recovery_interrupted", "inherit")
  BY DEF EndsFrom, Executing, Terminal
<1> QED
  BY <1>1, <1>2, EndingNone, EndStep

\* Every path of reconcileAssignment, for every caller and every assignment it may
\* name, is one of the steps above.
LEMMA ReconcileSteps ==
    ASSUME TypeOK, JobRunAgreement, NEW a, a.run \in Runs, NEW mode, reconcileAssignment(a, mode),
           attempts' = attempts, sweep' \in SweepRow
    PROVE  StepRel
<1> DEFINE r == a.run
<1>1. r \in Runs /\ Owns(a)
      /\ (ReconcileAwaitingExit(r, mode) \/ ReconcileTerminal(r, mode) \/ ReconcileExecuting(r, mode))
  BY DEF reconcileAssignment
<1> HIDE DEF r
<1>2. "uncertain" \in Deliveries
  BY DEF Deliveries
<1>3. CASE ReconcileAwaitingExit(r, mode)
  <2>1. exec[r].active
    BY <1>3 DEF ReconcileAwaitingExit, AwaitsExit
  <2>2. CASE run' = run /\ exec' = exec /\ job' = job /\ call' = call
    <3>1. \A t \in Calls : CallRel(t)
      BY <2>2, KeptCalls
    <3> QED
      BY <2>2, <3>1, TrackStep DEF TypeOK
  <2>3. CASE fenceExecution(r)
    BY <1>1, <1>2, <2>1, <2>3, DeliverySteps, Zenon DEF fenceExecution
  <2> QED
    BY <1>3, <2>2, <2>3 DEF ReconcileAwaitingExit
<1>4. CASE ReconcileTerminal(r, mode)
  <2>1. run[r].status \in Terminal
    BY <1>4 DEF ReconcileTerminal
  <2>2. CASE fenceExecution(r)
    BY <1>1, <1>2, <2>1, <2>2, DeliverySteps, Zenon DEF fenceExecution
  <2>3. CASE exec' = [exec EXCEPT ![r] = Exited(exec[r])] /\ run' = run /\ job' = job /\ call' = call
    BY Zenon, <1>1, <2>1, <2>3, ExitSteps
  <2> QED
    BY <1>4, <2>2, <2>3 DEF ReconcileTerminal
<1>5. CASE ReconcileExecuting(r, mode)
  <2>1. CASE reconcileWaitingApproval(r, mode)
    BY <1>1, <2>1, WaitingApprovalSteps
  <2>2. CASE /\ applyRunTransition(r, {"running", "waiting_approval"}, "recovering", "none", "inherit")
             /\ exec' = [exec EXCEPT ![r].delivery = "uncertain"]
             /\ job' = job /\ call' = call
    <3>1. ShiftEdge(run[r].status, "recovering") /\ "recovering" \in Executing
          /\ "queued" \notin {"running", "waiting_approval"}
      BY <2>2 DEF ShiftEdge, applyRunTransition, Executing
    <3> QED
      BY Zenon, <1>1, <1>2, <2>2, <3>1, OwnershipSteps
  <2>3. CASE terminalizeStaleApprovedAuthorization(r)
    BY <1>1, <2>3, StaleAuthorizationSteps
  <2>4. CASE RequeueUnsent(r, 0)
    <3>1. 0 \in {0, 1} /\ 0 # 1
      OBVIOUS
    <3> QED
      BY <1>1, <2>4, <3>1, UnsentSteps
  <2>5. CASE terminalizeExhaustedAssignment(r)
    BY <1>1, <2>5, ExhaustedSteps
  <2>6. CASE job[r].attempt < MaxAttempts /\ RequeueThroughRecovery(r)
    BY <1>1, <2>6, RecoveredSteps
  <2> QED
    BY <1>5, <2>1, <2>2, <2>3, <2>4, <2>5, <2>6 DEF ReconcileExecuting
<1> QED
  BY <1>1, <1>3, <1>4, <1>5

\* Every operation that names an assignment is one of the steps above.
LEMMA AssignmentSteps ==
    ASSUME TypeOK, JobRunAgreement, NEW a \in Assignments, AssignmentStep(a)
    PROVE  StepRel
<1>1. a.run \in Runs
  BY DEF Assignments
<1>2. \A d \in {"sending", "delivered", "uncertain"} : d \in Deliveries
  BY DEF Deliveries
<1>3. ASSUME NEW from, NEW d \in {"sending", "delivered", "uncertain"}, Deliver(a, from, d) PROVE StepRel
  BY <1>1, <1>2, <1>3, SameSweep, DeliverySteps, Zenon DEF Deliver
<1>4. CASE BeginAssignmentSend(a)
  BY <1>3, <1>4 DEF BeginAssignmentSend
<1>5. CASE MarkAssignmentDelivered(a)
  BY <1>3, <1>5 DEF MarkAssignmentDelivered
<1>6. CASE MarkAssignmentDeliveryUncertain(a)
  BY <1>3, <1>6 DEF MarkAssignmentDeliveryUncertain
<1>7. CASE AbortAssignment(a)
  <2>1. RequeueUnsent(a.run, 0) /\ attempts' = attempts /\ sweep' = sweep /\ 0 \in {0, 1} /\ 0 # 1
    BY <1>7 DEF AbortAssignment
  <2> QED
    BY <1>1, <2>1, SameSweep, UnsentSteps
<1>8. CASE RenewAssignment(a)
  <2>1. "live" \in Leases
    BY DEF Leases
  <2> QED
    BY <1>1, <1>8, <2>1, SameSweep, LeaseSteps, Zenon DEF RenewAssignment
<1>9. CASE FenceRunOwnership(a)
  <2>1. /\ applyRunTransition(a.run, {"running", "waiting_approval"}, "recovering", "none", "inherit")
        /\ exec' = [exec EXCEPT ![a.run].delivery = "uncertain"]
        /\ job' = job /\ call' = call /\ attempts' = attempts /\ sweep' = sweep
    BY <1>9 DEF FenceRunOwnership
  <2>2. ShiftEdge(run[a.run].status, "recovering") /\ "recovering" \in Executing
        /\ "queued" \notin {"running", "waiting_approval"} /\ "uncertain" \in Deliveries
    BY <2>1 DEF ShiftEdge, applyRunTransition, Executing, Deliveries
  <2> QED
    BY Zenon, <1>1, <2>1, <2>2, SameSweep, OwnershipSteps
<1>10. CASE ResumeRecoveringRun(a)
  <2>1. /\ applyRunTransition(a.run, {"recovering"}, "running", "none", "inherit")
        /\ exec' = [exec EXCEPT ![a.run].delivery = "delivered"]
        /\ job' = job /\ call' = call /\ attempts' = attempts /\ sweep' = sweep
    BY <1>10 DEF ResumeRecoveringRun
  <2>2. ShiftEdge(run[a.run].status, "running") /\ "running" \in Executing
        /\ "queued" \notin {"recovering"} /\ "delivered" \in Deliveries
    BY <2>1 DEF ShiftEdge, applyRunTransition, Executing, Deliveries
  <2> QED
    BY Zenon, <1>1, <2>1, <2>2, SameSweep, OwnershipSteps
<1>11. CASE RequeueOrFailRetryableRun(a)
  <2>1. attempts' = attempts /\ sweep' = sweep
    BY <1>11 DEF RequeueOrFailRetryableRun
  <2>2. CASE job[a.run].attempt < MaxAttempts /\ RequeueUnsent(a.run, 1)
    <3>1. 1 \in {0, 1}
      OBVIOUS
    <3> QED
      BY <1>1, <2>1, <2>2, <3>1, SameSweep, UnsentSteps
  <2>3. CASE Terminate(a.run, {"running"}, "failed", "retries_exhausted", "inherit",
                       Exited(exec[a.run]), call)
    <3>1. EndsFrom({"running"}, "failed", "retries_exhausted", "inherit")
      BY DEF EndsFrom, Executing, Terminal
    <3> QED
      BY <1>1, <2>1, <2>3, <3>1, EndingNone, SameSweep, EndStep
  <2> QED
    BY <1>11, <2>2, <2>3 DEF RequeueOrFailRetryableRun
<1>12. CASE ReconcileAssignment(a)
  BY <1>1, <1>12, SameSweep, ReconcileSteps DEF ReconcileAssignment
<1>13. CASE ReconcileHeartbeatAssignment(a)
  BY <1>1, <1>13, SameSweep, ReconcileSteps DEF ReconcileHeartbeatAssignment
<1>14. ASSUME NEW t, ResumeApprovedRun(a, t) PROVE StepRel
  <2>1. /\ applyRunTransition(a.run, {"waiting_approval"}, "running", "none", "inherit")
        /\ exec' = exec /\ job' = job /\ call' = call /\ attempts' = attempts /\ sweep' = sweep
    BY <1>14 DEF ResumeApprovedRun
  <2>2. ShiftEdge(run[a.run].status, "running") /\ "running" \in Executing
        /\ "queued" \notin {"waiting_approval"} /\ "delivered" \in Deliveries
    BY <2>1 DEF ShiftEdge, applyRunTransition, Executing, Deliveries
  <2> QED
    BY <1>1, <2>1, <2>2, SameSweep, OwnershipSteps
<1> QED
  BY <1>4, <1>5, <1>6, <1>7, <1>8, <1>9, <1>10, <1>11, <1>12, <1>13, <1>14 DEF AssignmentStep

\* A write of one call changes nothing else.
LEMMA CallOnly ==
    ASSUME TypeOK, NEW t \in Calls, NEW c \in CallRow, call' = [call EXCEPT ![t] = c], CallRel(t),
           run' = run, exec' = exec, job' = job, attempts' = attempts, sweep' = sweep
    PROVE  StepRel
<1>1. call' \in [Calls -> CallRow] /\ \A u \in Calls \ {t} : call'[u] = call[u]
  BY DEF TypeOK
<1>2. \A u \in Calls : CallRel(u)
  BY <1>1 DEF CallRel
<1> QED
  BY <1>1, <1>2, SameSweep, TrackStep DEF TypeOK

\* The beacons before and after a tool call move the call forward and complete it
\* only when it was allowed or its token was consumed.
LEMMA ToolSteps ==
    ASSUME TypeOK, NEW t \in Calls, NEW s,
           call' = [call EXCEPT ![t].tool = s],
           \/ call[t].tool \in {"none", "checked"} /\ s \in {"checked", "requested", "allowed", "denied"}
           \/ call[t].tool \in OpenTool \union {"cut_off"} /\ s \in {"completed", "failed", "denied"},
           s = "completed" => \/ call[t].tool = "allowed"
                              \/ call[t].appr = "consumed",
           run' = run, exec' = exec, job' = job, attempts' = attempts, sweep' = sweep
    PROVE  StepRel
<1> DEFINE c == [call[t] EXCEPT !.tool = s]
<1>1. call[t] \in CallRow /\ c \in CallRow /\ c.tool = s /\ c.appr = call[t].appr
  BY DEF TypeOK, CallRow, OpenTool, ClosedTool
<1>2. call' = [call EXCEPT ![t] = c]
  OBVIOUS
<1> HIDE DEF c
<1>3. call'[t] = c
  BY <1>2 DEF TypeOK
<1>4. CallRel(t)
  BY <1>1, <1>3 DEF CallRel, ApprovalShape, OpenTool, ClosedTool
<1> QED
  BY Zenon, <1>1, <1>2, <1>4, CallOnly

\* Approving and consuming are the only writes of an approval that end nothing.
LEMMA DecisionSteps ==
    ASSUME TypeOK, NEW t \in Calls, NEW appr,
           call' = [call EXCEPT ![t].appr = appr],
           \/ call[t].appr = "pending" /\ appr = "approved" /\ run[RunOf[t]].status \notin Terminal
           \/ call[t].appr = "approved" /\ appr = "consumed",
           run' = run, exec' = exec, job' = job, attempts' = attempts, sweep' = sweep
    PROVE  StepRel
<1> DEFINE c == [call[t] EXCEPT !.appr = appr]
<1>1. call[t] \in CallRow /\ c \in CallRow /\ c.tool = call[t].tool /\ c.appr = appr
  BY DEF TypeOK, CallRow, Approvals, Authorized
<1>2. call' = [call EXCEPT ![t] = c]
  OBVIOUS
<1> HIDE DEF c
<1>3. call'[t] = c
  BY <1>2 DEF TypeOK
<1>4. CallRel(t)
  BY <1>1, <1>3 DEF CallRel
<1> QED
  BY Zenon, <1>1, <1>2, <1>4, CallOnly

\* The deadline of an approval passes without a write to its status.
LEMMA DeadlineSteps ==
    ASSUME TypeOK, NEW t \in Calls, DeadlinePasses(t)
    PROVE  StepRel
<1> DEFINE c == [call[t] EXCEPT !.due = TRUE]
<1>1. call[t] \in CallRow /\ c \in CallRow /\ c.tool = call[t].tool /\ c.appr = call[t].appr
  BY Zenon DEF TypeOK, CallRow
<1>2. /\ call' = [call EXCEPT ![t] = c]
      /\ run' = run /\ exec' = exec /\ job' = job /\ attempts' = attempts /\ sweep' = sweep
  BY DEF DeadlinePasses
<1> HIDE DEF c
<1>3. call'[t] = c
  BY <1>2 DEF TypeOK
<1>4. CallRel(t)
  BY <1>1, <1>2, <1>3 DEF CallRel
<1> QED
  BY Zenon, <1>1, <1>2, <1>4, CallOnly

\* CreateApproval parks the run, or finds it parked, while it exists.
LEMMA CreateApprovalSteps ==
    ASSUME TypeOK, NEW t \in Calls, CreateApproval(t)
    PROVE  StepRel
<1> DEFINE r == RunOf[t]
           c == [call[t] EXCEPT !.tool = "approval_required", !.appr = "pending"]
<1>1. r \in Runs
  BY CallsAssumption
<1>2. /\ call[t].tool = "requested" /\ call[t].appr = "none"
      /\ \/ applyRunTransition(r, {"running"}, "waiting_approval", "none", "inherit")
         \/ run[r].status = "waiting_approval" /\ run' = run
      /\ exec' = exec /\ job' = job /\ attempts' = attempts /\ sweep' = sweep
      /\ call' = [call EXCEPT ![t] = c]
  BY Zenon DEF CreateApproval
<1>3. c \in CallRow /\ c.tool = "approval_required" /\ c.appr = "pending"
  BY Zenon DEF TypeOK, CallRow, OpenTool, Approvals
<1> HIDE DEF r, c
<1>4. call' \in [Calls -> CallRow] /\ call'[t] = c /\ \A u \in Calls \ {t} : call'[u] = call[u]
  BY <1>2, <1>3 DEF TypeOK
<1>5. CASE run[r].status = "waiting_approval" /\ run' = run
  <2>1. CallRel(t)
    BY <1>2, <1>3, <1>4, <1>5 DEF CallRel, Terminal, ApprovalShape, r
  <2> QED
    BY Zenon, <1>2, <1>3, <1>5, <2>1, CallOnly
<1>6. CASE applyRunTransition(r, {"running"}, "waiting_approval", "none", "inherit")
  <2>1. "waiting_approval" \in Lifecycles /\ "inherit" \in QueueWaits \union {"inherit"}
    BY DEF Lifecycles, Executing
  <2>2. Transitioned(r, {"running"}, "waiting_approval", "none", "inherit")
    BY <1>1, <1>6, <2>1, TransitionType
  <2>3. run[r].status = "running" /\ run'[r].status = "waiting_approval"
        /\ \A q \in Runs \ {r} : run'[q] = run[q]
    BY <2>2 DEF Transitioned
  <2>4. ShiftEdge(run[r].status, "waiting_approval") /\ AssertsWait(run[r].status, "inherit")
    BY <2>3 DEF ShiftEdge, AssertsWait
  <2>5. Redelivered(r)
    BY <1>1, <1>2, RedeliveredStep DEF Deliveries
  <2>6. ASSUME NEW u \in Calls PROVE CallRel(u)
    <3>1. CASE u = t
      BY <1>2, <1>3, <1>4, <2>3, <3>1 DEF CallRel, Terminal, ApprovalShape, r
    <3>2. CASE u # t
      <4>1. call'[u] = call[u] /\ RunOf[u] \in Runs
        BY <1>4, <3>2, CallsAssumption
      <4>2. run'[RunOf[u]].status \in Terminal => run'[RunOf[u]] = run[RunOf[u]]
        BY <2>3, <4>1 DEF Terminal
      <4> QED
        BY <4>1, <4>2 DEF CallRel
    <3> QED
      BY <3>1, <3>2
  <2> QED
    BY <1>1, <1>2, <1>4, <1>6, <2>1, <2>4, <2>5, <2>6, SameSweep, ShiftStep
<1> QED
  BY <1>2, <1>5, <1>6

\* A decision against the call ends the run in the transaction that records it.
LEMMA TerminalizeApprovalSteps ==
    ASSUME TypeOK, NEW t \in Calls, NEW from, NEW appr \in {"denied", "expired"},
           NEW tool \in {"failed", "denied"}, NEW why,
           call[t].appr \in {"pending", "approved"}, from \subseteq Executing,
           terminalizeApproval(t, from, appr, tool, why)
    PROVE  StepRel
<1> DEFINE r == RunOf[t]
           c == [call[t] EXCEPT !.appr = appr, !.tool = IF @ \in OpenTool THEN tool ELSE @]
           calls == [call EXCEPT ![t] = c]
<1>1. r \in Runs
  BY CallsAssumption
<1>2. /\ Terminate(r, from, "failed", why, "inherit", exec[r], calls)
      /\ attempts' = attempts /\ sweep' = sweep
  BY Zenon DEF terminalizeApproval
<1>3. /\ c \in CallRow /\ c.appr = appr
      /\ c.tool # call[t].tool => call[t].tool \in OpenTool /\ c.tool = tool
  BY Zenon DEF TypeOK, CallRow, Approvals, ClosedTool
<1> HIDE DEF c
<1>4. Ending(r, "failed", why, calls)
  <2>1. calls \in [Calls -> CallRow] /\ calls[t] = c /\ \A u \in Calls \ {t} : calls[u] = call[u]
    BY <1>3 DEF TypeOK
  <2> HIDE DEF calls
  <2> QED
    BY <1>3, <2>1 DEF Ending
<1>5. EndsFrom(from, "failed", why, "inherit")
  BY DEF EndsFrom, Executing, Terminal
<1> HIDE DEF r, calls
<1> QED
  BY <1>1, <1>2, <1>4, <1>5, SameSweep, EndStep

\* Every operation on tool calls and approvals is one of the steps above.
LEMMA CallSteps ==
    ASSUME TypeOK, NEW t \in Calls, CallStep(t)
    PROVE  StepRel
<1>1. CASE CheckBeacon(t)
  BY <1>1, ToolSteps, Zenon DEF CheckBeacon
<1>2. ASSUME NEW s, RecordToolCallBefore(t, s) PROVE StepRel
  BY <1>2, ToolSteps, Zenon DEF RecordToolCallBefore
<1>3. CASE CreateApproval(t)
  BY <1>3, CreateApprovalSteps
<1>4. CASE ApproveApproval(t)
  <2>1. run[RunOf[t]].status \notin Terminal
    BY <1>4 DEF ApproveApproval, Terminal
  <2> QED
    BY <1>4, <2>1, DecisionSteps, Zenon DEF ApproveApproval
<1>5. AwaitingDecision \subseteq Executing /\ AwaitingDecision \union {"running"} \subseteq Executing
  BY DEF AwaitingDecision, Executing
<1>6. CASE ExpireApproval(t)
  <2>1. CASE call[t].appr = "pending" /\ terminalizeApproval(t, AwaitingDecision, "expired", "failed", "expired")
    BY <1>5, <2>1, TerminalizeApprovalSteps
  <2>2. CASE /\ call[t].appr = "approved"
             /\ terminalizeApproval(t, AwaitingDecision \union {"running"}, "expired", "failed", "expired")
    BY <1>5, <2>2, TerminalizeApprovalSteps
  <2> QED
    BY <1>6, <2>1, <2>2 DEF ExpireApproval
<1>7. CASE DenyApproval(t)
  <2>1. call[t].appr = "pending"
    BY <1>7 DEF DenyApproval
  <2>2. CASE terminalizeApproval(t, AwaitingDecision, "expired", "failed", "expired")
    BY <1>5, <2>1, <2>2, TerminalizeApprovalSteps
  <2>3. CASE terminalizeApproval(t, AwaitingDecision, "denied", "denied", "policy_denied")
    BY <1>5, <2>1, <2>3, TerminalizeApprovalSteps
  <2> QED
    BY <1>7, <2>2, <2>3 DEF DenyApproval
<1>8. CASE FailApprovalDelivery(t)
  <2>1. /\ call[t].appr = "pending"
        /\ terminalizeApproval(t, AwaitingDecision, "denied", "failed", "approval_delivery_failed")
    BY <1>8 DEF FailApprovalDelivery
  <2> QED
    BY <1>5, <2>1, TerminalizeApprovalSteps
<1>9. CASE ConsumeApproval(t)
  BY <1>9, DecisionSteps, Zenon DEF ConsumeApproval
<1>10. ASSUME NEW w, NEW s \in {"completed", "failed", "denied"}, RecordToolCallAfter(t, w, s) PROVE StepRel
  BY <1>10, ToolSteps, Zenon DEF RecordToolCallAfter
<1> QED
  BY <1>1, <1>2, <1>3, <1>4, <1>6, <1>7, <1>8, <1>9, <1>10 DEF CallStep

\* The list a recovery pass reads names assignments of the store.
LEMMA RowAssignmentType ==
    ASSUME TypeOK, NEW r \in Runs
    PROVE  RowAssignment(r) \in Candidate
  BY DEF TypeOK, RowAssignment, ExecRow, Candidate

\* Reading the candidates of the periodic sweep writes nothing.
LEMMA BeginSweepSteps ==
    ASSUME TypeOK, BeginSweep
    PROVE  StepRel
<1>1. /\ run' = run /\ job' = job /\ call' = call /\ attempts' = attempts
      /\ sweep' = [mode |-> "cutoff", todo |-> RecoverableAssignments]
  BY DEF BeginSweep
<1>2. RecoverableAssignments \subseteq Candidate
  BY RowAssignmentType DEF RecoverableAssignments
<1>3. sweep' \in SweepRow
  BY <1>1, <1>2 DEF SweepRow
<1>4. ASSUME NEW r \in Runs
      PROVE  exec'[r] \in ExecRow /\ (exec'[r] = exec[r] \/ Tracked(r))
  <2> DEFINE e == [exec[r] EXCEPT !.lease = "overdue"]
  <2>1. exec[r] \in ExecRow
    BY DEF TypeOK
  <2>2. e \in ExecRow /\ e.worker = exec[r].worker /\ e.attempt = exec[r].attempt /\ e.active = exec[r].active
    BY <2>1 DEF ExecRow, Leases
  <2>3. exec'[r] = IF exec[r].lease = "lapsed" THEN e ELSE exec[r]
    BY DEF BeginSweep
  <2>4. exec[r].lease = "lapsed" => exec[r] # Unowned
    BY DEF Unowned
  <2> HIDE DEF e
  <2> QED
    BY <1>1, <2>1, <2>2, <2>3, <2>4 DEF Tracked, SameOwner
<1>5. exec' \in [Runs -> ExecRow]
  BY <1>4 DEF BeginSweep
<1>6. \A t \in Calls : CallRel(t)
  BY <1>1, KeptCalls
<1> QED
  BY <1>1, <1>3, <1>4, <1>5, <1>6, TrackStep DEF TypeOK

\* Startup recovery fences whatever was executing and forgets the handlers that
\* were in flight.
LEMMA RestartSteps ==
    ASSUME TypeOK, Restart
    PROVE  StepRel
<1>1. /\ run' = run /\ job' = job /\ attempts' = attempts
      /\ sweep' = [mode |-> "startup", todo |-> startupRecoveryAssignments]
  BY DEF Restart
<1>2. startupRecoveryAssignments \subseteq Candidate
  BY RowAssignmentType DEF startupRecoveryAssignments
<1>3. sweep' \in SweepRow
  BY <1>1, <1>2 DEF SweepRow
<1>4. ASSUME NEW r \in Runs
      PROVE  exec'[r] \in ExecRow /\ (exec'[r] = exec[r] \/ Tracked(r))
  <2> DEFINE e == [exec[r] EXCEPT !.delivery = "fenced"]
  <2>1. exec[r] \in ExecRow
    BY DEF TypeOK
  <2>2. e \in ExecRow /\ e.worker = exec[r].worker /\ e.attempt = exec[r].attempt /\ e.active = exec[r].active
    BY <2>1 DEF ExecRow, Deliveries
  <2>3. exec'[r] = IF run[r].status \in Executing THEN e ELSE exec[r]
    BY DEF Restart
  <2>4. run[r].status \in Executing => run[r].status \notin {"absent", "queued"}
    BY DEF Executing
  <2> HIDE DEF e
  <2> QED
    BY <1>1, <2>1, <2>2, <2>3, <2>4 DEF Tracked, SameOwner
<1>5. exec' \in [Runs -> ExecRow]
  BY <1>4, Zenon DEF Restart
<1>6. ASSUME NEW t \in Calls
      PROVE  call'[t] \in CallRow /\ CallRel(t)
  <2> DEFINE c == [call[t] EXCEPT !.tool = "none"]
  <2>1. call[t] \in CallRow /\ c \in CallRow /\ c.tool = "none" /\ c.appr = call[t].appr
    BY DEF TypeOK, CallRow
  <2>2. call'[t] = IF call[t].tool = "checked" THEN c ELSE call[t]
    BY DEF Restart
  <2> HIDE DEF c
  <2> QED
    BY <1>1, <2>1, <2>2 DEF CallRel, ApprovalShape
<1>7. call' \in [Calls -> CallRow]
  BY <1>6, Zenon DEF Restart
<1> QED
  BY <1>1, <1>3, <1>4, <1>5, <1>6, <1>7, TrackStep

\* Moving along the candidate list writes nothing.
LEMMA SweepOnly ==
    ASSUME TypeOK, sweep' \in SweepRow,
           run' = run, exec' = exec, job' = job, call' = call, attempts' = attempts
    PROVE  StepRel
<1>1. \A t \in Calls : CallRel(t)
  BY KeptCalls
<1> QED
  BY <1>1, TrackStep DEF TypeOK

\* Every step of a recovery pass is one of the steps above.
LEMMA RecoverSteps ==
    ASSUME TypeOK, JobRunAgreement, Recover
    PROVE  StepRel
<1>1. ASSUME NEW a, a \in sweep.todo, RecoverAssignment(a) \/ SkipCandidate(a) PROVE StepRel
  <2>1. a.run \in Runs /\ Visited(a) \in SweepRow
    BY <1>1 DEF TypeOK, Visited, SweepRow, Candidate
  <2>2. CASE RecoverAssignment(a)
    BY <2>1, <2>2, ReconcileSteps DEF RecoverAssignment
  <2>3. CASE SkipCandidate(a)
    BY <2>1, <2>3, SweepOnly DEF SkipCandidate
  <2> QED
    BY <1>1, <2>2, <2>3
<1>2. CASE EndSweep
  <2>1. [mode |-> "idle", todo |-> {}] \in SweepRow
    BY DEF SweepRow
  <2> QED
    BY <1>2, <2>1, SweepOnly DEF EndSweep
<1>3. CASE Restart
  BY <1>3, RestartSteps
<1> QED
  BY <1>1, <1>2, <1>3 DEF Recover

\* Every operation that names a run is one of the steps above.
LEMMA RunSteps ==
    ASSUME TypeOK, NEW r \in Runs, RunStep(r)
    PROVE  StepRel
<1>1. CASE EnqueueUserMessage(r)
  BY <1>1, EnqueueSteps
<1>2. ASSUME NEW w \in Workers, ClaimNextCompatibleJob(r, w) PROVE StepRel
  BY <1>2, ClaimSteps
<1>3. ASSUME NEW w, ObserveQueuedRunRouting(r, w) PROVE StepRel
  BY <1>3, ObserveSteps
<1>4. CASE AcknowledgeExecutionExit(r)
  BY <1>4, SameSweep, ExitSteps, Zenon DEF AcknowledgeExecutionExit
<1> QED
  BY <1>1, <1>2, <1>3, <1>4, ReportSteps DEF RunStep

\* The passing of time changes no lifecycle.
LEMMA TimeSteps ==
    ASSUME TypeOK, TimePasses
    PROVE  StepRel
<1>1. ASSUME NEW r \in Runs, LeaseLapses(r) PROVE StepRel
  <2>1. "lapsed" \in Leases
    BY DEF Leases
  <2> QED
    BY <1>1, <2>1, SameSweep, LeaseSteps, Zenon DEF LeaseLapses
<1> QED
  BY <1>1, DeadlineSteps DEF TimePasses

\* Every step of the store treats each run and each call as RunRel and CallRel
\* say, and moves the lifecycle of one run at most.
LEMMA StepRelations ==
    ASSUME TypeOK, JobRunAgreement, Next
    PROVE  StepRel
<1>1. CASE Serve
  BY <1>1, RunSteps, AssignmentSteps, CallSteps, BeginSweepSteps DEF Serve
<1> QED
  BY <1>1, RecoverSteps, TimeSteps DEF Next

=============================================================================
