--------------------------- MODULE RunStoreProofs ---------------------------
(***************************************************************************)
(* The theorems about RunStore: its safety invariants from one inductive   *)
(* invariant, the implementation of RunLifecycle, and what recovery may    *)
(* do to a run.                                                            *)
(***************************************************************************)
EXTENDS RunStoreSteps, FiniteSetTheorems

-----------------------------------------------------------------------------
(* The inductive invariant                                                   *)

\* Runs are enqueued in the order of their turns.
EnqueueOrder ==
    \A q, r \in Runs : q < r /\ run[r].status # "absent" => run[q].status # "absent"

IInv ==
    /\ TypeOK
    /\ JobRunAgreement
    /\ AttemptBudget
    /\ EnqueueOrder
    /\ SessionTurnOrder
    /\ ConcurrencyLimit
    /\ QueueReasonHonest
    /\ ApprovalsSettled
    /\ \A t \in Calls : ApprovalShape(t)
    /\ CompletionNeedsConsumption

\* An empty database satisfies the inductive invariant.
LEMMA InitIInv ==
    ASSUME Init
    PROVE  IInv
<1>1. TypeOK
  <2>1. 0 \in Nat /\ 0 \in 0..MaxVersion /\ attempts = 0 /\ 0 \in 0..attempts
    BY BoundsAssumption DEF Init
  <2>2. [status |-> "absent", reason |-> "none", version |-> 0, wait |-> "none"] \in RunRow
    BY <2>1 DEF RunRow, QueueWaits
  <2>3. Unowned \in ExecRow
    BY <2>1 DEF Unowned, ExecRow, Deliveries, Leases
  <2>4. [status |-> "none", owner |-> NoWorker, attemptId |-> 0, attempt |-> 0] \in JobRow
    BY <2>1 DEF JobRow
  <2>5. [tool |-> "none", appr |-> "none", due |-> FALSE] \in CallRow
    BY DEF CallRow, Approvals
  <2>6. [mode |-> "idle", todo |-> {}] \in SweepRow
    BY DEF SweepRow
  <2>7. /\ run \in [Runs -> RunRow] /\ exec \in [Runs -> ExecRow]
        /\ job \in [Runs -> JobRow] /\ call \in [Calls -> CallRow] /\ sweep \in SweepRow
    BY <2>2, <2>3, <2>4, <2>5, <2>6 DEF Init
  <2> QED
    BY <2>1, <2>7 DEF TypeOK, SweepRow
<1>2. JobRunAgreement
  BY DEF Init, JobRunAgreement, RowsAgree, Executing, Terminal
<1>3. AttemptBudget
  BY BoundsAssumption DEF Init, AttemptBudget
<1>4. EnqueueOrder /\ QueueReasonHonest
  BY DEF Init, EnqueueOrder, QueueReasonHonest
<1>5. SessionTurnOrder
  BY DEF Init, SessionTurnOrder, Unowned
<1>6. ConcurrencyLimit
  <2>1. Active = {}
    BY DEF Init, Active, Unowned
  <2>2. Cardinality(Active) = 0
    BY <2>1, FS_EmptySet
  <2> QED
    BY <2>2, BoundsAssumption DEF ConcurrencyLimit
<1>7. ApprovalsSettled /\ CompletionNeedsConsumption /\ \A t \in Calls : ApprovalShape(t)
  BY DEF Init, ApprovalsSettled, CompletionNeedsConsumption, ApprovalShape
<1> QED
  BY <1>1, <1>2, <1>3, <1>4, <1>5, <1>6, <1>7 DEF IInv

\* No writer lets the rows of a run in agent_runs and jobs drift apart.
LEMMA AgreementStep ==
    ASSUME IInv, StepRel
    PROVE  JobRunAgreement'
<1> SUFFICES ASSUME NEW r \in Runs PROVE RowsAgree(r)'
  BY DEF JobRunAgreement
<1>1. RowsAgree(r) /\ RunRel(r) /\ run[r] \in RunRow /\ exec[r] \in ExecRow /\ job[r] \in JobRow
  BY DEF IInv, JobRunAgreement, StepRel, TypeOK
<1>2. CASE Kept(r)
  BY <1>1, <1>2 DEF RowsAgree, Kept
<1>3. CASE Enqueued(r)
  BY <1>1, <1>3 DEF RowsAgree, Enqueued, Executing, Terminal
<1>4. CASE Claimed(r)
  BY <1>1, <1>4 DEF RowsAgree, Claimed, Executing, Terminal
<1>5. CASE Shifted(r)
  BY <1>1, <1>5 DEF RowsAgree, Shifted, ShiftEdge, Executing, Terminal, ExecRow
<1>6. CASE Ended(r)
  BY <1>1, <1>6 DEF RowsAgree, Ended, ClosedJob, Executing, Terminal, JobRow
<1>7. CASE Requeued(r)
  BY <1>1, <1>7, Zenon DEF RowsAgree, Requeued, Released, Executing, Terminal, JobRow
<1>8. CASE Tracked(r)
  BY <1>1, <1>8 DEF RowsAgree, Tracked, SameOwner, Executing, Terminal
<1> QED
  BY <1>1, <1>2, <1>3, <1>4, <1>5, <1>6, <1>7, <1>8 DEF RunRel

\* Only a requeue counts attempts, and it checks the budget first.
LEMMA BudgetStep ==
    ASSUME IInv, StepRel
    PROVE  AttemptBudget'
<1> SUFFICES ASSUME NEW r \in Runs PROVE job'[r].attempt <= MaxAttempts
  BY DEF AttemptBudget
<1>1. /\ RunRel(r) /\ job[r] \in JobRow /\ job[r].attempt \in Nat
      /\ job[r].attempt <= MaxAttempts /\ MaxAttempts \in Nat \ {0}
  BY BoundsAssumption DEF IInv, StepRel, TypeOK, AttemptBudget, JobRow
<1>2. CASE Enqueued(r)
  BY <1>1, <1>2 DEF Enqueued
<1>3. CASE Requeued(r)
  <2>1. job'[r].attempt = job[r].attempt + 0
        \/ (job'[r].attempt = job[r].attempt + 1 /\ job[r].attempt < MaxAttempts)
    BY <1>1, <1>3, Zenon DEF Requeued, Released, JobRow
  <2> QED
    BY <1>1, <2>1
<1>4. CASE Ended(r)
  BY <1>1, <1>4 DEF Ended, ClosedJob, JobRow
<1>5. CASE Kept(r) \/ Claimed(r) \/ Shifted(r) \/ Tracked(r)
  BY <1>1, <1>5 DEF Kept, Claimed, Shifted, Tracked
<1> QED
  BY <1>1, <1>2, <1>3, <1>4, <1>5 DEF RunRel

\* A run never disappears, and an ended run keeps its outcome and no executor
\* comes back to it.
LEMMA RunsPersist ==
    ASSUME IInv, StepRel, NEW r \in Runs
    PROVE  /\ run[r].status # "absent" => run'[r].status # "absent"
           /\ run[r].status \in Terminal => run'[r] = run[r] /\ (exec'[r].active => exec[r].active)
           /\ run[r].status = "absent" => run'[r].status = "absent" \/ Enqueued(r)
           /\ exec'[r].active => exec[r].active \/ Claimed(r)
<1>1. RowsAgree(r) /\ RunRel(r) /\ exec[r] \in ExecRow
  BY DEF IInv, JobRunAgreement, StepRel, TypeOK
<1> QED
  BY <1>1 DEF RunRel, Kept, Enqueued, Claimed, Shifted, ShiftEdge, Ended, Requeued, Tracked, SameOwner,
     Executing, Terminal, Unowned, ExecRow

\* A claim looks at every earlier turn of the session, and no later step revives
\* one.
LEMMA OrderStep ==
    ASSUME IInv, StepRel
    PROVE  EnqueueOrder' /\ SessionTurnOrder'
<1>1. EnqueueOrder'
  <2> SUFFICES ASSUME NEW q \in Runs, NEW r \in Runs, q < r, run'[r].status # "absent"
               PROVE  run'[q].status # "absent"
    BY DEF EnqueueOrder
  <2>1. CASE run[r].status # "absent"
    BY <2>1, RunsPersist DEF IInv, EnqueueOrder
  <2>2. CASE run[r].status = "absent"
    BY <2>2, RunsPersist DEF Enqueued
  <2> QED
    BY <2>1, <2>2
<1>2. SessionTurnOrder'
  <2> SUFFICES ASSUME NEW q \in Runs, NEW r \in Runs, q < r, SessionOf[q] = SessionOf[r], exec'[r].active
               PROVE  run'[q].status \in Terminal /\ ~exec'[q].active
    BY DEF SessionTurnOrder
  <2>1. CASE exec[r].active
    BY <2>1, RunsPersist DEF IInv, SessionTurnOrder
  <2>2. CASE Claimed(r)
    <3>1. run[q].status # "absent"
      BY <2>2 DEF Claimed, IInv, EnqueueOrder
    <3>2. run[q].status \in Terminal /\ ~exec[q].active
      BY <2>2, <3>1 DEF Claimed, BlockedBy
    <3> QED
      BY <3>2, RunsPersist
  <2> QED
    BY <2>1, <2>2, RunsPersist
<1> QED
  BY <1>1, <1>2

\* Only a claim adds an executor, and a step claims at most one run.
LEMMA LimitStep ==
    ASSUME IInv, StepRel
    PROVE  ConcurrencyLimit'
<1>1. /\ IsFiniteSet(Active) /\ IsFiniteSet(Active')
      /\ Cardinality(Active) \in Nat /\ Cardinality(Active') \in Nat
  <2>1. Active \in SUBSET Runs /\ Active' \in SUBSET Runs
    BY DEF Active
  <2> QED
    BY Zenon, <2>1, RunsAssumption, FS_Subset, FS_CardinalityType
<1>2. Cardinality(Active) <= GlobalLimit /\ GlobalLimit \in Nat
  BY BoundsAssumption DEF IInv, ConcurrencyLimit
<1>3. CASE \A r \in Runs : ~Claimed(r)
  <2>1. Active' \in SUBSET Active
    BY <1>3, RunsPersist DEF Active
  <2>2. Cardinality(Active') <= Cardinality(Active)
    BY <1>1, <2>1, FS_Subset
  <2> QED
    BY <1>1, <1>2, <2>2 DEF ConcurrencyLimit
<1>4. ASSUME NEW r \in Runs, Claimed(r) PROVE ConcurrencyLimit'
  <2>1. Cardinality(Active) < GlobalLimit
    BY <1>4 DEF Claimed, HasCapacity
  <2>2. ASSUME NEW q \in Runs, Claimed(q) PROVE q = r
    <3>1. run'[q] # run[q] /\ run'[r] # run[r]
      BY <1>4, <2>2 DEF Claimed
    <3> QED
      BY <3>1 DEF StepRel, OneRun
  <2>3. Active' \in SUBSET (Active \cup {r})
    BY <2>2, RunsPersist DEF Active
  <2>4. /\ IsFiniteSet(Active \cup {r})
        /\ Cardinality(Active \cup {r}) = IF r \in Active THEN Cardinality(Active) ELSE Cardinality(Active) + 1
    BY <1>1, FS_AddElement
  <2>5. Cardinality(Active') <= Cardinality(Active \cup {r})
    BY <2>3, <2>4, FS_Subset
  <2> QED
    BY <1>1, <1>2, <2>1, <2>4, <2>5 DEF ConcurrencyLimit
<1> QED
  BY <1>3, <1>4

\* nextQueueWaitReason clears the reason whenever a run leaves the queue.
LEMMA QueueReasonStep ==
    ASSUME IInv, StepRel
    PROVE  QueueReasonHonest'
<1> DEFINE Honest(row, e) ==
       row.wait # "none" =>
           \/ row.status = "queued" /\ row.wait = "no_compatible_worker"
           \/ /\ <<row.status, row.reason>> \in
                   {<<"failed", "expired">>, <<"cancelled", "abandoned">>}
              /\ e.worker = NoWorker
<1> SUFFICES ASSUME NEW r \in Runs PROVE Honest(run'[r], exec'[r])
  BY DEF QueueReasonHonest
<1>1. RunRel(r) /\ RowsAgree(r) /\ Honest(run[r], exec[r]) /\ exec[r] \in ExecRow
  BY DEF IInv, StepRel, JobRunAgreement, QueueReasonHonest, TypeOK
<1>2. run[r].status \in Executing => run[r].wait = "none"
  BY <1>1 DEF Executing
<1>3. CASE Kept(r) \/ Tracked(r)
  BY <1>1, <1>3 DEF Kept, Tracked, SameOwner
<1>4. CASE Enqueued(r) \/ Claimed(r) \/ Requeued(r)
  BY <1>4 DEF Enqueued, Claimed, Requeued
<1>5. CASE Shifted(r)
  BY <1>2, <1>5 DEF Shifted, ShiftEdge, Executing
<1>6. CASE Ended(r)
  <2>1. CASE run'[r].wait = nextQueueWaitReason(run[r], run'[r].status, "inherit")
    BY <1>2, <1>6, <2>1 DEF Ended, nextQueueWaitReason
  <2>2. CASE /\ run[r].status = "queued"
             /\ <<run'[r].status, run'[r].reason>> \in {<<"failed", "expired">>, <<"cancelled", "abandoned">>}
    <3>1. exec'[r].worker = NoWorker
      BY <1>1, <1>6, <2>2 DEF Ended, SameOwner, RowsAgree, Unowned
    <3> QED
      BY <2>2, <3>1
  <2> QED
    BY <1>6, <2>1, <2>2 DEF Ended
<1> QED
  BY <1>1, <1>3, <1>4, <1>5, <1>6 DEF RunRel

\* The end of a run settles its approvals, and later steps neither reopen them nor
\* complete a call without a used token.
LEMMA CallsStep ==
    ASSUME IInv, StepRel
    PROVE  ApprovalsSettled' /\ (\A t \in Calls : ApprovalShape(t))' /\ CompletionNeedsConsumption'
<1>1. ASSUME NEW t \in Calls
      PROVE  /\ CallRel(t) /\ ApprovalShape(t) /\ RunOf[t] \in Runs
             /\ run[RunOf[t]].status \in Terminal =>
                  run'[RunOf[t]] = run[RunOf[t]] /\ call[t].appr \notin {"pending", "approved"}
  <2>1. RunOf[t] \in Runs
    BY CallsAssumption
  <2> QED
    BY <2>1, RunsPersist DEF IInv, StepRel, ApprovalsSettled
<1>2. ApprovalsSettled'
  BY <1>1 DEF ApprovalsSettled, CallRel
<1>3. (\A t \in Calls : ApprovalShape(t))'
  BY <1>1 DEF ApprovalShape, CallRel, ClosedTool
<1>4. CompletionNeedsConsumption'
  <2> SUFFICES ASSUME NEW t \in Calls, call'[t].tool = "completed", call'[t].appr # "none"
               PROVE  \/ call'[t].appr = "consumed"
                      \/ /\ call'[t].appr = "expired"
                         /\ run'[RunOf[t]].status = "failed"
                         /\ run'[RunOf[t]].reason = "side_effect_uncertain"
    BY DEF CompletionNeedsConsumption
  <2>1. CASE call[t].tool # "completed"
    BY <1>1, <2>1 DEF CallRel
  <2>2. CASE call[t].tool = "completed"
    <3>1. call[t].appr # "none"
      BY <1>1, <2>2 DEF CallRel
    <3>2. \/ call[t].appr = "consumed"
          \/ /\ call[t].appr = "expired"
             /\ run[RunOf[t]].status = "failed"
             /\ run[RunOf[t]].reason = "side_effect_uncertain"
      BY <2>2, <3>1 DEF IInv, CompletionNeedsConsumption
    <3> QED
      BY <1>1, <3>2 DEF CallRel, Terminal
  <2> QED
    BY <2>1, <2>2
<1> QED
  BY <1>2, <1>3, <1>4

\* A step that writes nothing keeps the invariant.
LEMMA StutterIInv ==
    ASSUME IInv, UNCHANGED vars
    PROVE  IInv'
  BY DEF IInv, vars, TypeOK, ExecRow, JobRow, Candidate, JobRunAgreement, RowsAgree, AttemptBudget, EnqueueOrder,
     SessionTurnOrder, ConcurrencyLimit, Active, QueueReasonHonest, ApprovalsSettled, ApprovalShape,
     CompletionNeedsConsumption

\* Every step of the store keeps the inductive invariant.
LEMMA NextIInv ==
    ASSUME IInv, [Next]_vars
    PROVE  IInv'
<1>1. CASE UNCHANGED vars
  BY <1>1, StutterIInv
<1>2. CASE Next
  <2>1. StepRel
    BY <1>2, StepRelations DEF IInv
  <2> QED
    BY <2>1, AgreementStep, BudgetStep, OrderStep, LimitStep, QueueReasonStep, CallsStep DEF IInv, StepRel
<1> QED
  BY <1>1, <1>2

\* The inductive invariant holds in every reachable state of the store, for every
\* set of runs, workers and calls and every bound.
THEOREM Inductive == Spec => []IInv
  BY InitIInv, NextIInv, PTL DEF Spec

-----------------------------------------------------------------------------
(* The theorems                                                              *)

\* Every column always holds a value of its domain; in particular no history of
\* transitions pushes state_version past its exhaustion bound.
THEOREM TypeCorrect == Spec => []TypeOK
  BY Inductive, PTL DEF IInv

\* agent_runs and jobs always tell the same story about a run, after any
\* interleaving of reports, cancellations, lost workers, sweeps and restarts.
THEOREM RowsAlwaysAgree == Spec => []JobRunAgreement
  BY Inductive, PTL DEF IInv

\* ClaimNextCompatibleJob never lets two turns of a session execute together, even
\* when the executor of a cancelled turn has not acknowledged its exit.
THEOREM TurnsInOrder == Spec => []SessionTurnOrder
  BY Inductive, PTL DEF IInv

\* The concurrency limit of ClaimNextCompatibleJob counts every executor that may
\* still exist.
THEOREM LimitHolds == Spec => []ConcurrencyLimit
  BY Inductive, PTL DEF IInv

\* No mix of releases and recoveries gives a run more attempts than its budget.
THEOREM BudgetHolds == Spec => []AttemptBudget
  BY Inductive, PTL DEF IInv

\* RecordToolCallAfter completes a call that needed an approval only when the
\* token was consumed, and an ended run holds no approval that could still be
\* decided or consumed.
THEOREM ApprovalsAlwaysBind == Spec => []ApprovalsBind
  BY Inductive, PTL DEF IInv, ApprovalsBind

\* A run carries a queue wait reason only while it waits, or when that wait is
\* what ended it.
THEOREM QueueReasonsAreHonest == Spec => []QueueReasonHonest
  BY Inductive, PTL DEF IInv

\* The transaction that ends a run leaves none of its recorded calls open.
THEOREM EndsCloseCalls == Spec => EndClosesCalls
<1> DEFINE Closes == \A t \in Calls :
                        /\ run[RunOf[t]].status \notin Terminal
                        /\ run'[RunOf[t]].status \in Terminal
                        => call'[t].tool \notin OpenTool
<1>1. ASSUME IInv, [Next]_vars PROVE [Closes]_vars
  <2>1. CASE Next
    <3>1. StepRel
      BY <1>1, <2>1, StepRelations DEF IInv
    <3> QED
      BY <3>1 DEF StepRel, CallRel
  <2> QED
    BY <1>1, <2>1
<1> QED
  BY <1>1, Inductive, PTL DEF Spec, EndClosesCalls

-----------------------------------------------------------------------------
(* Refinement                                                                *)

\* The edges of the public lifecycle that the writers of the store take.
LEMMA EdgesTaken ==
    /\ \A to \in {"running", "queued", "failed", "cancelled"} : <<"queued", to>> \in Lifecycle!Edges
    /\ \A to \in {"waiting_approval", "recovering", "queued"} \union Terminal :
         <<"running", to>> \in Lifecycle!Edges
    /\ \A to \in {"running", "recovering"} \union Terminal :
         <<"waiting_approval", to>> \in Lifecycle!Edges
    /\ \A to \in {"running", "queued"} \union Terminal : <<"recovering", to>> \in Lifecycle!Edges
  BY DEF Lifecycle!Edges, Lifecycle!Terminal, Terminal

\* A step of the store is a step of the public lifecycle, or leaves it unchanged.
LEMMA RefinedStep ==
    ASSUME IInv, StepRel
    PROVE  [Lifecycle!Next]_(Lifecycle!vars)
<1> DEFINE S == [r \in Runs |-> run[r].status]
           V == [r \in Runs |-> run[r].version]
<1>1. CASE \A r \in Runs : run'[r] = run[r]
  <2>1. S' = S /\ V' = V
    BY <1>1
  <2> QED
    BY <2>1 DEF Lifecycle!vars
<1>2. ASSUME NEW r \in Runs, run'[r] # run[r], \A q \in Runs \ {r} : run'[q] = run[q]
      PROVE  Lifecycle!Next
  <2>1. /\ S' = [S EXCEPT ![r] = run'[r].status] /\ S[r] = run[r].status
        /\ V' = [V EXCEPT ![r] = run'[r].version] /\ V[r] = run[r].version
    <3>1. S[r] = run[r].status /\ V[r] = run[r].version
      OBVIOUS
    <3>2. S' = [q \in Runs |-> run'[q].status] /\ V' = [q \in Runs |-> run'[q].version]
      OBVIOUS
    <3>3. \A q \in Runs : q # r => run'[q].status = run[q].status /\ run'[q].version = run[q].version
      BY <1>2
    <3>4. [q \in Runs |-> run'[q].status] = [S EXCEPT ![r] = run'[r].status]
      BY Zenon, <3>3
    <3>5. [q \in Runs |-> run'[q].version] = [V EXCEPT ![r] = run'[r].version]
      BY Zenon, <3>3
    <3> QED
      BY <3>1, <3>2, <3>4, <3>5
  <2>2. RunRel(r)
    BY DEF StepRel
  <2> HIDE DEF S, V
  <2>3. CASE Enqueued(r)
    <3>1. Lifecycle!Create(r)
      BY <2>1, <2>3 DEF Enqueued, Lifecycle!Create, S, V
    <3> QED
      BY <3>1 DEF Lifecycle!Next
  <2>4. ASSUME NEW to \in {"queued"} \union Executing \union Terminal, run'[r].status = to,
               run'[r].version = run[r].version + 1, <<run[r].status, to>> \in Lifecycle!Edges
        PROVE  Lifecycle!Next
    <3>1. Lifecycle!Transition(r, to)
      BY <2>1, <2>4 DEF Lifecycle!Transition, S, V
    <3> QED
      BY <3>1 DEF Lifecycle!Next, Lifecycle!Executing, Lifecycle!Terminal, Executing, Terminal
  <2>5. CASE Claimed(r)
    BY <2>4, <2>5, EdgesTaken DEF Claimed, Executing
  <2>6. CASE Shifted(r)
    BY <2>4, <2>6, EdgesTaken, Zenon DEF Shifted, ShiftEdge, Executing
  <2>7. CASE Ended(r)
    BY <2>4, <2>7, EdgesTaken DEF Ended, Executing, Terminal
  <2>8. CASE Requeued(r)
    <3>1. CASE run'[r].version = run[r].version + 1 /\ run[r].status \in {"running", "recovering"}
      BY <2>4, <2>8, <3>1, EdgesTaken, Zenon DEF Requeued
    <3>2. CASE run'[r].version = run[r].version + 2 /\ run[r].status \in {"running", "waiting_approval"}
      <4>1. Lifecycle!FenceAndRequeue(r)
        BY <2>1, <2>8, <3>2 DEF Requeued, Lifecycle!FenceAndRequeue, S, V
      <4> QED
        BY <4>1 DEF Lifecycle!Next
    <3> QED
      BY <2>8, <3>1, <3>2 DEF Requeued
  <2>9. ~Kept(r) /\ ~Tracked(r)
    BY <1>2 DEF Kept, Tracked
  <2> QED
    BY <2>2, <2>3, <2>5, <2>6, <2>7, <2>8, <2>9 DEF RunRel
<1> QED
  BY <1>1, <1>2 DEF StepRel, OneRun

\* The store implements the public lifecycle of runs: terminal states are final,
\* versions only move forward, and no other edge is ever taken.
THEOREM Refinement == Spec => ImplementsLifecycle
<1>1. Init => Lifecycle!Init
  BY DEF Init, Lifecycle!Init
<1>2. ASSUME IInv, [Next]_vars PROVE [Lifecycle!Next]_(Lifecycle!vars)
  <2>1. CASE UNCHANGED vars
    BY <2>1 DEF vars, Lifecycle!vars
  <2>2. CASE Next
    BY <1>2, <2>2, StepRelations, RefinedStep DEF IInv
  <2> QED
    BY <1>2, <2>1, <2>2
<1> QED
  BY <1>1, <1>2, Inductive, PTL DEF Spec, ImplementsLifecycle, Lifecycle!Spec

-----------------------------------------------------------------------------
(* Recovery                                                                  *)

\* A user's stop that is on its way to a worker whose lease lasts.
HeldStop(r) ==
    /\ committedStop(r)
    /\ exec[r].active
    /\ exec[r].delivery # "pending_send"
    /\ exec[r].lease = "live"

\* What StopHeldUntilExit and AuthorizedNotReplayed ask of a step, for one run.
Careful(r) ==
    /\ HeldStop(r) /\ ~exec'[r].active => AcknowledgeExecutionExit(r)
    /\ Replayed(r) => ~HasAuthorized(r)

Quiet(r) == run'[r] = run[r] /\ exec'[r].active = exec[r].active

\* A step that leaves a run where it was, or ends it, is careful about it.
LEMMA QuietIsCareful ==
    ASSUME NEW r \in Runs,
           \/ Quiet(r)
           \/ run[r].status \notin Terminal /\ run'[r].status # "queued"
           \/ run[r].status \notin Terminal \union Executing
    PROVE  Careful(r)
  BY DEF Careful, Quiet, HeldStop, Replayed, committedStop, Executing, Terminal

\* completeRunTx, failRunTx and cancelRunTx refuse an ended run and touch no other.
LEMMA EndIsCareful ==
    ASSUME TypeOK, NEW q \in Runs, NEW from, from \cap Terminal = {}, NEW to, to \in Terminal,
           NEW why, NEW asserted, NEW e, NEW calls, Terminate(q, from, to, why, asserted, e, calls),
           NEW r \in Runs
    PROVE  Careful(r)
<1>1. /\ run[q].status \in from
      /\ run' = [run EXCEPT ![q] = Moved(run[q], to, why, asserted, 1)]
      /\ exec' = [exec EXCEPT ![q] = e]
  BY DEF Terminate, applyRunTransition
<1>2. CASE r # q
  BY <1>1, <1>2, QuietIsCareful DEF TypeOK, Quiet
<1>3. CASE r = q
  <2>1. run'[r].status = to
    BY <1>1, <1>3 DEF TypeOK, Moved, RunRow
  <2> QED
    BY <1>1, <1>3, <2>1, QuietIsCareful DEF Terminal
<1> QED
  BY <1>2, <1>3

\* The release of an assignment nobody executes is not a replay.
LEMMA UnsentIsCareful ==
    ASSUME TypeOK, NEW q \in Runs, NEW i, RequeueUnsent(q, i),
           run[q].status = "running" \/ exec[q].delivery \in {"pending_send", "sending"},
           NEW r \in Runs
    PROVE  Careful(r)
<1>1. /\ run[q].status \in {"running", "recovering"}
      /\ run' = [run EXCEPT ![q] = Moved(run[q], "queued", "none", "inherit", 1)]
      /\ exec' = [exec EXCEPT ![q] = Unowned]
  BY DEF RequeueUnsent, ToQueue
<1>2. CASE r # q
  BY <1>1, <1>2, QuietIsCareful DEF TypeOK, Quiet
<1>3. CASE r = q
  <2>1. run'[r].version = run[r].version + 1 /\ run[r].version \in Nat
    BY <1>1, <1>3, BoundsAssumption DEF TypeOK, Moved, RunRow
  <2>2. run'[r].version # run[r].version + 2
    BY <2>1
  <2> QED
    BY <1>1, <1>3, <2>2 DEF Careful, HeldStop, committedStop, Replayed
<1> QED
  BY <1>2, <1>3

\* The recovery of an assignment that was sent looks at its authorizations first.
LEMMA ReplayIsCareful ==
    ASSUME TypeOK, NEW q \in Runs, RequeueThroughRecovery(q), ~HasAuthorized(q), NEW r \in Runs
    PROVE  Careful(r)
<1>1. PICK n : /\ run[q].status \in Executing
               /\ run' = [run EXCEPT ![q] = Moved(run[q], "queued", "none", "inherit", n)]
               /\ exec' = [exec EXCEPT ![q] = Unowned]
  BY Zenon DEF RequeueThroughRecovery, ToQueue
<1>2. CASE r # q
  BY <1>1, <1>2, QuietIsCareful DEF TypeOK, Quiet
<1>3. CASE r = q
  BY <1>1, <1>3 DEF Careful, HeldStop, committedStop, Executing
<1> QED
  BY <1>2, <1>3

\* A step that writes only the delivery or the lease, or marks the change of state
\* of a run that keeps its executor, is careful.
LEMMA KeepingIsCareful ==
    ASSUME TypeOK, NEW q \in Runs, NEW d \in Deliveries, NEW l \in Leases, NEW r \in Runs,
           \/ exec' = exec
           \/ exec' = [exec EXCEPT ![q].delivery = d]
           \/ exec' = [exec EXCEPT ![q].lease = l],
           \/ run' = run
           \/ \E from, to, why, asserted :
                /\ applyRunTransition(q, from, to, why, asserted)
                /\ to # "queued" \/ from = {"queued"}
                /\ from \cap Terminal = {}
    PROVE  Careful(r)
<1>1. exec'[r].active = exec[r].active
  BY DEF TypeOK, ExecRow
<1>2. CASE run' = run
  BY <1>1, <1>2, QuietIsCareful DEF Quiet
<1>3. ASSUME NEW from, NEW to, NEW why, NEW asserted,
             applyRunTransition(q, from, to, why, asserted),
             to # "queued" \/ from = {"queued"}, from \cap Terminal = {}
      PROVE  Careful(r)
  <2>1. /\ run[q].status \in from
        /\ run' = [run EXCEPT ![q] = Moved(run[q], to, why, asserted, 1)]
    BY <1>3 DEF applyRunTransition
  <2>2. CASE r # q
    BY <1>1, <2>1, <2>2, QuietIsCareful DEF TypeOK, Quiet
  <2>3. CASE r = q
    <3>1. run'[r].status = to
      BY <2>1, <2>3 DEF TypeOK, Moved, RunRow
    <3> QED
      BY <1>3, <2>1, <2>3, <3>1, QuietIsCareful DEF Terminal, Executing
  <2> QED
    BY <2>2, <2>3
<1> QED
  BY <1>2, <1>3

\* The reconciliation of an assignment, for whatever caller, is careful: a held
\* stop is one of its early returns, and an authorized call keeps it from
\* requeueing what was sent.
LEMMA ReconcileIsCareful ==
    ASSUME TypeOK, JobRunAgreement, NEW a, a.run \in Runs, NEW mode,
           reconcileAssignment(a, mode), NEW r \in Runs
    PROVE  Careful(r)
<1> DEFINE q == a.run
<1>1. CASE ReconcileAwaitingExit(q, mode)
  <2>1. run' = run /\ (exec' = exec \/ exec' = [exec EXCEPT ![q].delivery = "uncertain"])
    BY <1>1 DEF ReconcileAwaitingExit, fenceExecution
  <2> QED
    BY <2>1, KeepingIsCareful DEF Deliveries, Leases
<1>2. CASE ~AwaitsExit(q, mode) /\ ReconcileTerminal(q, mode)
  <2>1. CASE mode = "lost" /\ exec[q].active
    <3>1. run' = run /\ exec' = [exec EXCEPT ![q].delivery = "uncertain"]
      BY <1>2, <2>1 DEF ReconcileTerminal, fenceExecution
    <3> QED
      BY <3>1, KeepingIsCareful, Zenon DEF Deliveries, Leases
  <2>2. CASE ~(mode = "lost" /\ exec[q].active)
    <3>1. run' = run /\ exec' = [exec EXCEPT ![q] = Exited(exec[q])]
      BY <1>2, <2>2 DEF ReconcileTerminal
    <3>2. CASE r # q
      BY <3>1, <3>2, QuietIsCareful DEF TypeOK, Quiet
    <3>3. CASE r = q
      <4>1. ~HeldStop(r)
        BY <1>2, <2>2, <3>3 DEF HeldStop, AwaitsExit, LeaseLive
      <4> QED
        BY <3>1, <4>1 DEF Careful, Replayed, Executing
    <3> QED
      BY <3>2, <3>3
  <2> QED
    BY <2>1, <2>2
<1>3. CASE ReconcileExecuting(q, mode)
  <2>1. ASSUME reconcileWaitingApproval(q, mode) PROVE Careful(r)
    <3>1. PICK e, calls : Terminate(q, {"waiting_approval", "recovering"}, "failed",
                                    "approval_delivery_failed", "inherit", e, calls)
      BY <2>1, Zenon DEF reconcileWaitingApproval
    <3>2. {"waiting_approval", "recovering"} \cap Terminal = {} /\ "failed" \in Terminal
      BY DEF Terminal
    <3> QED
      BY <3>1, <3>2, EndIsCareful
  <2>2. ASSUME terminalizeStaleApprovedAuthorization(q) \/ terminalizeExhaustedAssignment(q)
        PROVE  Careful(r)
    <3>1. PICK why, e, calls : Terminate(q, {"queued"} \union Executing, "failed", why, "inherit", e, calls)
      BY <2>2, Zenon DEF terminalizeStaleApprovedAuthorization, terminalizeExhaustedAssignment
    <3>2. ({"queued"} \union Executing) \cap Terminal = {} /\ "failed" \in Terminal
      BY DEF Terminal, Executing
    <3> QED
      BY <3>1, <3>2, EndIsCareful
  <2>3. ASSUME applyRunTransition(q, {"running", "waiting_approval"}, "recovering", "none", "inherit"),
               exec' = [exec EXCEPT ![q].delivery = "uncertain"]
        PROVE  Careful(r)
    <3>1. {"running", "waiting_approval"} \cap Terminal = {}
      BY DEF Terminal
    <3> QED
      BY <2>3, <3>1, KeepingIsCareful, Zenon DEF Deliveries, Leases
  <2>4. ASSUME exec[q].delivery = "pending_send", RequeueUnsent(q, 0) PROVE Careful(r)
    BY <2>4, UnsentIsCareful
  <2>5. ASSUME ~HasAuthorized(q), RequeueThroughRecovery(q) PROVE Careful(r)
    BY <2>5, ReplayIsCareful
  <2> QED
    BY <1>3, <2>1, <2>2, <2>3, <2>4, <2>5 DEF ReconcileExecuting
<1> QED
  BY <1>1, <1>2, <1>3 DEF reconcileAssignment

\* Every operation of the store is careful.
LEMMA CarefulRuns ==
    ASSUME TypeOK, NEW q \in Runs, RunStep(q), NEW r \in Runs
    PROVE  Careful(r)
<1>0. /\ ({"queued"} \union Executing) \cap Terminal = {} /\ Executing \cap Terminal = {}
      /\ {"queued"} \cap Terminal = {} /\ {"completed", "failed", "cancelled"} = Terminal
  BY DEF Terminal, Executing
<1>1. CASE EnqueueUserMessage(q)
  <2>1. CASE r = q
    BY <1>1, <2>1, QuietIsCareful DEF EnqueueUserMessage, Terminal, Executing
  <2>2. CASE r # q
    BY <1>1, <2>2, QuietIsCareful DEF EnqueueUserMessage, Quiet, TypeOK
  <2> QED
    BY <2>1, <2>2
<1>2. ASSUME NEW w, ClaimNextCompatibleJob(q, w) PROVE Careful(r)
  <2>1. /\ run[q].status = "queued"
        /\ \A p \in Runs \ {q} : run'[p] = run[p] /\ exec'[p] = exec[p]
    BY <1>2 DEF ClaimNextCompatibleJob, applyRunTransition, TypeOK
  <2> QED
    BY <2>1, QuietIsCareful DEF Quiet, Terminal, Executing
<1>3. ASSUME NEW w, ObserveQueuedRunRouting(q, w) PROVE Careful(r)
  <2>1. applyRunTransition(q, {"queued"}, "queued", "none", w) /\ exec' = exec
    BY <1>3 DEF ObserveQueuedRunRouting
  <2> QED
    BY <1>0, <2>1, KeepingIsCareful DEF Deliveries, Leases
<1>4. ASSUME NEW from \in {{"queued"}, Executing, {"queued"} \union Executing}, NEW to \in Terminal,
             NEW why, NEW asserted, NEW e, NEW calls, Terminate(q, from, to, why, asserted, e, calls)
      PROVE  Careful(r)
  BY <1>0, <1>4, EndIsCareful
<1>5. ASSUME NEW p, NEW w, ExpireQueuedRun(q, p, w) PROVE Careful(r)
  BY <1>0, <1>4, <1>5 DEF ExpireQueuedRun
<1>6. ASSUME NEW why, CompleteRun(q, why) PROVE Careful(r)
  BY <1>0, <1>4, <1>6 DEF CompleteRun
<1>7. ASSUME NEW why, FailRun(q, why) \/ FailRunPreservingExecution(q, why) \/ CancelRun(q, why)
      PROVE  Careful(r)
  BY <1>0, <1>4, <1>7 DEF FailRun, FailRunPreservingExecution, CancelRun
<1>8. CASE AcknowledgeExecutionExit(q)
  <2>1. run' = run /\ exec' = [exec EXCEPT ![q] = Exited(exec[q])]
    BY <1>8 DEF AcknowledgeExecutionExit
  <2>2. CASE r # q
    BY <2>1, <2>2, QuietIsCareful DEF TypeOK, Quiet
  <2>3. CASE r = q
    BY <1>8, <2>1, <2>3 DEF Careful, Replayed, Executing
  <2> QED
    BY <2>2, <2>3
<1> QED
  BY <1>1, <1>2, <1>3, <1>5, <1>6, <1>7, <1>8 DEF RunStep

\* So is every operation that names an assignment.
LEMMA CarefulAssignments ==
    ASSUME TypeOK, JobRunAgreement, NEW a \in Assignments, AssignmentStep(a), NEW r \in Runs
    PROVE  Careful(r)
<1>0. a.run \in Runs
  BY DEF Assignments
<1>1. \A d \in {"sending", "delivered", "uncertain"} : d \in Deliveries
  BY DEF Deliveries
<1>2. \A l \in {"live"} : l \in Leases
  BY DEF Leases
<1>3. CASE BeginAssignmentSend(a) \/ MarkAssignmentDelivered(a) \/ MarkAssignmentDeliveryUncertain(a)
  <2>1. run' = run /\ \E d \in Deliveries : exec' = [exec EXCEPT ![a.run].delivery = d]
    BY <1>1, <1>3 DEF BeginAssignmentSend, MarkAssignmentDelivered, MarkAssignmentDeliveryUncertain, Deliver
  <2> QED
    BY <1>0, <1>2, <2>1, KeepingIsCareful, Zenon
<1>4. CASE AbortAssignment(a)
  BY <1>0, <1>4, UnsentIsCareful DEF AbortAssignment
<1>5. CASE RenewAssignment(a)
  BY <1>0, <1>1, <1>2, <1>5, KeepingIsCareful, Zenon DEF RenewAssignment
<1>6. ASSUME NEW from, from \subseteq Executing, NEW to, to \in Executing,
             applyRunTransition(a.run, from, to, "none", "inherit"),
             exec' = exec \/ \E d \in Deliveries : exec' = [exec EXCEPT ![a.run].delivery = d]
      PROVE  Careful(r)
  <2>1. from \cap Terminal = {} /\ to # "queued"
    BY <1>6 DEF Executing, Terminal
  <2> QED
    BY <1>0, <1>1, <1>2, <1>6, <2>1, KeepingIsCareful, Zenon
<1>7. CASE FenceRunOwnership(a)
  BY <1>1, <1>6, <1>7, Zenon DEF FenceRunOwnership, Executing
<1>8. CASE ResumeRecoveringRun(a)
  BY <1>1, <1>6, <1>8, Zenon DEF ResumeRecoveringRun, Executing
<1>9. CASE RequeueOrFailRetryableRun(a)
  <2>1. CASE RequeueUnsent(a.run, 1)
    BY <1>0, <1>9, <2>1, UnsentIsCareful DEF RequeueOrFailRetryableRun
  <2>2. CASE Terminate(a.run, {"running"}, "failed", "retries_exhausted", "inherit",
                       Exited(exec[a.run]), call)
    BY <1>0, <2>2, EndIsCareful DEF Terminal
  <2> QED
    BY <1>9, <2>1, <2>2 DEF RequeueOrFailRetryableRun
<1>10. CASE ReconcileAssignment(a) \/ ReconcileHeartbeatAssignment(a)
  BY <1>0, <1>10, ReconcileIsCareful DEF ReconcileAssignment, ReconcileHeartbeatAssignment
<1>11. ASSUME NEW t, ResumeApprovedRun(a, t) PROVE Careful(r)
  BY <1>6, <1>11 DEF ResumeApprovedRun, Executing
<1> QED
  BY <1>3, <1>4, <1>5, <1>7, <1>8, <1>9, <1>10, <1>11 DEF AssignmentStep

\* So is every operation on a call.
LEMMA CarefulCalls ==
    ASSUME TypeOK, NEW t \in Calls, CallStep(t), NEW r \in Runs
    PROVE  Careful(r)
<1>0. RunOf[t] \in Runs
  BY CallsAssumption
<1>1. ASSUME NEW from, from \subseteq Executing, NEW appr, NEW tool, NEW why,
             terminalizeApproval(t, from, appr, tool, why)
      PROVE  Careful(r)
  <2>1. from \cap Terminal = {} /\ "failed" \in Terminal
    BY <1>1 DEF Executing, Terminal
  <2> QED
    BY <1>0, <1>1, <2>1, EndIsCareful DEF terminalizeApproval
<1>2. AwaitingDecision \subseteq Executing /\ AwaitingDecision \union {"running"} \subseteq Executing
  BY DEF AwaitingDecision, Executing
<1>3. CASE ExpireApproval(t) \/ DenyApproval(t) \/ FailApprovalDelivery(t)
  BY <1>1, <1>2, <1>3 DEF ExpireApproval, DenyApproval, FailApprovalDelivery
<1>4. CASE CreateApproval(t)
  <2>1. /\ exec' = exec
        /\ \/ run' = run
           \/ applyRunTransition(RunOf[t], {"running"}, "waiting_approval", "none", "inherit")
    BY <1>4 DEF CreateApproval
  <2>2. {"running"} \cap Terminal = {} /\ "uncertain" \in Deliveries /\ "live" \in Leases
    BY DEF Terminal, Deliveries, Leases
  <2> QED
    BY <1>0, <2>1, <2>2, KeepingIsCareful
<1>5. CASE run' = run /\ exec' = exec
  BY <1>5, QuietIsCareful DEF Quiet
<1> QED
  BY <1>3, <1>4, <1>5 DEF CallStep, CheckBeacon, RecordToolCallBefore, ApproveApproval, ConsumeApproval,
     RecordToolCallAfter

\* Every step of the store is careful about every run.
LEMMA CarefulSteps ==
    ASSUME TypeOK, JobRunAgreement, Next, NEW r \in Runs
    PROVE  Careful(r)
<1>1. CASE BeginSweep \/ Restart
  <2>1. run' = run /\ exec'[r].active = exec[r].active
    BY <1>1 DEF BeginSweep, Restart, TypeOK, ExecRow
  <2> QED
    BY <2>1, QuietIsCareful DEF Quiet
<1>2. ASSUME NEW a \in sweep.todo, RecoverAssignment(a) \/ SkipCandidate(a) PROVE Careful(r)
  <2>1. a.run \in Runs
    BY <1>2 DEF TypeOK, Candidate
  <2>2. CASE SkipCandidate(a)
    BY <2>2, QuietIsCareful DEF SkipCandidate, Quiet
  <2>3. CASE RecoverAssignment(a)
    BY <2>1, <2>3, ReconcileIsCareful DEF RecoverAssignment
  <2> QED
    BY <1>2, <2>2, <2>3
<1>3. CASE EndSweep \/ \E t \in Calls : DeadlinePasses(t)
  BY <1>3, QuietIsCareful DEF EndSweep, DeadlinePasses, Quiet
<1>4. ASSUME NEW q \in Runs, LeaseLapses(q) PROVE Careful(r)
  BY <1>4, KeepingIsCareful, Zenon DEF LeaseLapses, Deliveries, Leases
<1> QED
  BY <1>1, <1>2, <1>3, <1>4, CarefulRuns, CarefulAssignments, CarefulCalls
     DEF Next, Serve, Recover, TimePasses

\* What the startup recovery has still to settle is on its list.
StartupPending ==
    sweep.mode = "startup" =>
        \A r \in Runs :
            run[r].status \in Executing \/ (exec[r].active /\ ~committedStop(r)) =>
                RowAssignment(r) \in sweep.todo

\* Requests do not touch the list of a recovery pass.
LEMMA ServeKeepsList ==
    ASSUME Serve
    PROVE  sweep.mode # "startup" /\ (sweep' = sweep \/ BeginSweep)
<1>1. sweep.mode # "startup"
  BY DEF Serve
<1>2. ASSUME NEW r, RunStep(r) PROVE sweep' = sweep
  BY <1>2, Zenon DEF RunStep, EnqueueUserMessage, ClaimNextCompatibleJob, ObserveQueuedRunRouting, ExpireQueuedRun,
     CompleteRun, FailRun, FailRunPreservingExecution, CancelRun, AcknowledgeExecutionExit
<1>3. ASSUME NEW a, AssignmentStep(a) PROVE sweep' = sweep
  BY <1>3 DEF AssignmentStep, BeginAssignmentSend, MarkAssignmentDelivered, MarkAssignmentDeliveryUncertain,
     Deliver, AbortAssignment, RenewAssignment, FenceRunOwnership, ResumeRecoveringRun,
     RequeueOrFailRetryableRun, ReconcileAssignment, ReconcileHeartbeatAssignment, ResumeApprovedRun
<1>4. ASSUME NEW t, CallStep(t) PROVE sweep' = sweep
  BY <1>4, Zenon DEF CallStep, CheckBeacon, RecordToolCallBefore, CreateApproval, ApproveApproval, ExpireApproval,
     DenyApproval, FailApprovalDelivery, ConsumeApproval, RecordToolCallAfter, terminalizeApproval
<1> QED
  BY <1>1, <1>2, <1>3, <1>4 DEF Serve

\* What a reconciliation may do to the run it names: nothing to any other.
Settled(q) ==
    /\ run'[q].status \notin Executing
    /\ exec'[q].active => run'[q].status = "cancelled" /\ run'[q].reason = "user_cancelled"

\* The visit of startup recovery settles the run it visits and no other changes.
LEMMA VisitSettles ==
    ASSUME TypeOK, JobRunAgreement, NEW a, a.run \in Runs, reconcileAssignment(a, "startup")
    PROVE  /\ Settled(a.run)
           /\ \A r \in Runs \ {a.run} : run'[r] = run[r] /\ exec'[r] = exec[r]
<1> DEFINE q == a.run
<1>1. CASE ReconcileAwaitingExit(q, "startup")
  <2>1. /\ run' = run /\ exec' = [exec EXCEPT ![q].delivery = "uncertain"]
        /\ committedStop(q)
    BY <1>1 DEF ReconcileAwaitingExit, fenceExecution, AwaitsExit
  <2> QED
    BY <2>1 DEF Settled, committedStop, Executing, TypeOK
<1>2. CASE ReconcileTerminal(q, "startup")
  <2>1. run' = run /\ exec' = [exec EXCEPT ![q] = Exited(exec[q])] /\ run[q].status \in Terminal
    BY <1>2 DEF ReconcileTerminal
  <2>2. ~Exited(exec[q]).active
    BY DEF Exited, TypeOK, ExecRow
  <2> QED
    BY <2>1, <2>2 DEF Settled, Executing, Terminal, TypeOK
<1>3. CASE ReconcileExecuting(q, "startup")
  <2>1. ASSUME NEW from, NEW why, NEW calls,
               Terminate(q, from, "failed", why, "inherit", Exited(exec[q]), calls)
        PROVE  /\ Settled(q)
               /\ \A r \in Runs \ {q} : run'[r] = run[r] /\ exec'[r] = exec[r]
    <3>1. /\ run' = [run EXCEPT ![q] = Moved(run[q], "failed", why, "inherit", 1)]
          /\ exec' = [exec EXCEPT ![q] = Exited(exec[q])]
      BY <2>1 DEF Terminate, applyRunTransition
    <3>2. run'[q].status = "failed" /\ ~exec'[q].active
      BY <3>1 DEF Moved, Exited, TypeOK, ExecRow, RunRow
    <3> QED
      BY <3>1, <3>2 DEF Settled, Executing, TypeOK
  <2>2. ASSUME NEW n, NEW i, ToQueue(q, n, i)
        PROVE  /\ Settled(q)
               /\ \A r \in Runs \ {q} : run'[r] = run[r] /\ exec'[r] = exec[r]
    <3>1. /\ run' = [run EXCEPT ![q] = Moved(run[q], "queued", "none", "inherit", n)]
          /\ exec' = [exec EXCEPT ![q] = Unowned]
      BY <2>2 DEF ToQueue
    <3>2. run'[q].status = "queued" /\ ~exec'[q].active
      BY <3>1 DEF Moved, Unowned, TypeOK, RunRow
    <3> QED
      BY <3>1, <3>2 DEF Settled, Executing, TypeOK
  <2>3. CASE reconcileWaitingApproval(q, "startup")
    BY <2>1, <2>3, Zenon DEF reconcileWaitingApproval
  <2>4. CASE terminalizeStaleApprovedAuthorization(q) \/ terminalizeExhaustedAssignment(q)
    BY <2>1, <2>4, Zenon DEF terminalizeStaleApprovedAuthorization, terminalizeExhaustedAssignment
  <2>5. CASE RequeueUnsent(q, 0) \/ RequeueThroughRecovery(q)
    BY <2>2, <2>5 DEF RequeueUnsent, RequeueThroughRecovery
  <2> QED
    BY <1>3, <2>3, <2>4, <2>5 DEF ReconcileExecuting
<1> QED
  BY <1>1, <1>2, <1>3 DEF reconcileAssignment

\* Startup recovery never loses sight of what it has to settle.
LEMMA PendingStep ==
    ASSUME TypeOK, JobRunAgreement, StartupPending, [Next]_vars
    PROVE  StartupPending'
<1> SUFFICES ASSUME sweep'.mode = "startup", NEW r \in Runs,
                    run'[r].status \in Executing \/ (exec'[r].active /\ ~committedStop(r)')
             PROVE  RowAssignment(r)' \in sweep'.todo
  BY DEF StartupPending
<1>1. CASE UNCHANGED vars
  BY <1>1 DEF vars, StartupPending, committedStop, RowAssignment
<1>2. CASE Serve
  BY <1>2, ServeKeepsList DEF BeginSweep
<1>3. CASE Restart
  <2>1. /\ run' = run /\ sweep' = [mode |-> "startup", todo |-> startupRecoveryAssignments]
        /\ exec'[r].active = exec[r].active /\ exec'[r].worker = exec[r].worker
        /\ exec'[r].attempt = exec[r].attempt
    BY <1>3 DEF Restart, TypeOK, ExecRow
  <2>2. RowAssignment(r)' = RowAssignment(r)
    BY <2>1 DEF RowAssignment
  <2> QED
    BY <2>1, <2>2 DEF startupRecoveryAssignments
<1>4. ASSUME NEW a \in sweep.todo, RecoverAssignment(a) PROVE RowAssignment(r)' \in sweep'.todo
  <2>1. a \in Candidate /\ a.run \in Runs /\ sweep' = [sweep EXCEPT !.todo = @ \ {a}] /\ sweep.mode = "startup"
    BY <1>4 DEF RecoverAssignment, Visited, TypeOK, Candidate
  <2>2. reconcileAssignment(a, "startup")
    BY <1>4, <2>1 DEF RecoverAssignment
  <2>3. r # a.run
    BY <2>1, <2>2, VisitSettles DEF Settled, committedStop
  <2>4. run'[r] = run[r] /\ exec'[r] = exec[r]
    BY <2>1, <2>2, <2>3, VisitSettles
  <2>5. RowAssignment(r) \in sweep.todo
    BY <2>1, <2>4 DEF StartupPending, committedStop
  <2>6. RowAssignment(r)' = RowAssignment(r) /\ RowAssignment(r) # a
    BY <2>3, <2>4 DEF RowAssignment
  <2> QED
    BY <2>1, <2>5, <2>6 DEF TypeOK
<1>5. CASE EndSweep \/ \E a \in sweep.todo : SkipCandidate(a)
  BY <1>5 DEF EndSweep, SkipCandidate, Visited, TypeOK
<1>6. ASSUME NEW q \in Runs, LeaseLapses(q) PROVE RowAssignment(r)' \in sweep'.todo
  <2>1. /\ run' = run /\ sweep' = sweep
        /\ exec'[r].active = exec[r].active /\ exec'[r].worker = exec[r].worker
        /\ exec'[r].attempt = exec[r].attempt
    BY <1>6 DEF LeaseLapses, TypeOK, ExecRow
  <2> QED
    BY <2>1 DEF RowAssignment, StartupPending, committedStop
<1>7. CASE \E t \in Calls : DeadlinePasses(t)
  BY <1>7 DEF DeadlinePasses, RowAssignment, StartupPending, committedStop
<1> QED
  BY <1>1, <1>2, <1>3, <1>4, <1>5, <1>6, <1>7 DEF Next, Recover, TimePasses

\* The list of startup recovery is complete in every reachable state.
LEMMA PendingListed == Spec => []StartupPending
<1>1. Init => StartupPending
  BY DEF Init, StartupPending
<1>2. IInv /\ StartupPending /\ [Next]_vars => StartupPending'
  BY PendingStep DEF IInv
<1> QED
  BY <1>1, <1>2, Inductive, PTL DEF Spec

\* A sweep that finds a candidate renewed or reassigned leaves its run alone.
LEMMA SweepSpares ==
    ASSUME TypeOK, JobRunAgreement, Next, NEW a \in sweep.todo \ sweep'.todo,
           sweep.mode = "cutoff", run[a.run].status \in Executing, exec[a.run].delivery # "fenced",
           exec[a.run].lease \in {"live", "lapsed"} \/ ~Owns(a)
    PROVE  run'[a.run] = run[a.run]
<1>1. a \in Candidate /\ a.run \in Runs
  BY DEF TypeOK, Candidate
<1>2. ASSUME NEW b \in sweep.todo, RecoverAssignment(b) PROVE FALSE
  <2>1. b = a /\ reconcileAssignment(a, "cutoff")
    BY <1>2 DEF RecoverAssignment, Visited, TypeOK
  <2>2. exec[a.run].active
    BY <1>1 DEF JobRunAgreement, RowsAgree
  <2>3. Owns(a) /\ BeforeCutoff(a.run, "cutoff")
    BY <2>1, <2>2 DEF reconcileAssignment, BeforeCutoff, LeaseLive
  <2>4. ~AwaitsExit(a.run, "cutoff")
    BY DEF AwaitsExit, committedStop, Executing
  <2> QED
    BY <2>1, <2>3, <2>4 DEF reconcileAssignment, ReconcileAwaitingExit
<1>3. CASE EndSweep \/ Restart \/ TimePasses \/ \E b \in sweep.todo : SkipCandidate(b)
  BY <1>3 DEF EndSweep, Restart, TimePasses, LeaseLapses, DeadlinePasses, SkipCandidate
<1>4. CASE Serve
  BY <1>4, ServeKeepsList DEF BeginSweep
<1> QED
  BY <1>2, <1>3, <1>4 DEF Next, Recover

\* While its lease lasts, a user's stop that was on its way to a worker is over
\* only when AcknowledgeExecutionExit records the worker's exit.
THEOREM StopsAreHeld == Spec => StopHeldUntilExit
<1> DEFINE Held == \A r \in Runs :
                      /\ committedStop(r)
                      /\ exec[r].active /\ ~exec'[r].active
                      /\ exec[r].delivery # "pending_send"
                      /\ exec[r].lease = "live"
                      => AcknowledgeExecutionExit(r)
<1>1. ASSUME IInv, [Next]_vars PROVE [Held]_vars
  BY <1>1, CarefulSteps DEF IInv, Careful, HeldStop
<1> QED
  BY <1>1, Inductive, PTL DEF Spec, StopHeldUntilExit

\* Reconciliation, the periodic sweep and startup recovery replay nothing that an
\* authorized call may have done, spare what was renewed or reassigned, and leave
\* nothing executing when the listeners open.
THEOREM RecoversExactly == Spec => RecoveryIsExact
<1> DEFINE NoReplay == \A r \in Runs : Replayed(r) => \A t \in CallsOf(r) : call[t].appr \notin Authorized
           Spares == \A a \in sweep.todo \ sweep'.todo :
                        /\ sweep.mode = "cutoff"
                        /\ run[a.run].status \in Executing
                        /\ exec[a.run].delivery # "fenced"
                        /\ exec[a.run].lease \in {"live", "lapsed"} \/ ~Owns(a)
                        => run'[a.run] = run[a.run]
           Settles == sweep.mode = "startup" /\ sweep'.mode = "idle" =>
                        \A r \in Runs :
                            /\ run'[r].status \notin Executing
                            /\ exec'[r].active => committedStop(r)
<1>1. ASSUME IInv, [Next]_vars PROVE [NoReplay]_vars
  BY <1>1, CarefulSteps DEF IInv, Careful, HasAuthorized
<1>2. ASSUME IInv, [Next]_vars PROVE [Spares]_vars
  BY <1>2, SweepSpares DEF IInv
<1>3. ASSUME IInv, StartupPending, [Next]_vars PROVE [Settles]_vars
  <2> SUFFICES ASSUME Next, sweep.mode = "startup", sweep'.mode = "idle", NEW r \in Runs
               PROVE  run'[r].status \notin Executing /\ (exec'[r].active => committedStop(r))
    BY <1>3
  <2>1. ~Serve
    BY ServeKeepsList
  <2>2. CASE EndSweep
    BY <1>3, <2>2 DEF EndSweep, StartupPending
  <2>3. ~Restart /\ ~TimePasses /\ ~(\E a \in sweep.todo : RecoverAssignment(a) \/ SkipCandidate(a))
    BY <1>3 DEF Restart, TimePasses, LeaseLapses, DeadlinePasses, RecoverAssignment, SkipCandidate, Visited,
       IInv, TypeOK
  <2> QED
    BY <2>1, <2>2, <2>3 DEF Next, Recover
<1> QED
  BY <1>1, <1>2, <1>3, Inductive, PendingListed, PTL
     DEF Spec, RecoveryIsExact, AuthorizedNotReplayed, SweepSparesRenewed, StartupSettlesAll

=============================================================================
