------------------------------- MODULE MCQueue ------------------------------
(***************************************************************************)
(* Small instances of the components between the queue and the workers,    *)
(* side by side: routing, the wait in the queue, dispatch to workers, the  *)
(* resume behind an approval, and cancellation. A behaviour is one         *)
(* component's.                                                            *)
(***************************************************************************)
EXTENDS Cancellation, Integers, Sequences, TLC

CONSTANTS
  Parts,  \* the components the run explores
  r1, r2, k1, k2, c1, c2, a1, w1, w2, d1, d2, NoWorker

VARIABLES
  part,  \* the component that takes the steps of a behaviour
  run, exec, job, call, attempts, sweep, reg, thread, lost, notices, link, executor, faults,
  waitUp, waitRow, tracked, owed, waitSweep, waitTold, waited, claims, connects, aborts,
  caps, route,
  resumeRow, approval, stream, down, resumeUp, entry, slot, req, answer, pc, spent

\* Every dimension of a route varies, each in two or three values.
Advertising ==
  [agents: {{"a"}}, models: [{"local"} -> {-1, 0, 1}], tools: SUBSET {"t", "u"}, credentials: {{"k"}},
   max: {1, 2}, egress: {1}, team: {0}]
Requiring ==
  [agent: {"a"}, provider: {"local"}, context: {0, 1}, external: {FALSE}, credential: {"k"}, decision: {FALSE},
   requested: SUBSET {"t"}, selected: SUBSET {"u"}, min: {0, 2}, team: {0}]

\* Room for a run to be tried until it ends.
LongDispatch == INSTANCE Dispatch WITH
  Runs <- {1}, SessionOf <- [r \in {1, 2} |-> r], Workers <- {w1}, Calls <- {}, RunOf <- <<>>,
  MaxVersion <- 9, MaxAttempts <- 2, GlobalLimit <- 1, ReportedFailures <- {"internal_failure"},
  Capacity <- 1, Threads <- {d1}, MaxStreams <- 3, MaxWire <- 1, MaxFaults <- 1,
  FaultKinds <- {"stream", "worker", "heartbeat", "send", "restart"}, StopReasons <- {}
\* Every fault, one run and one worker.
Dispatching == INSTANCE Dispatch WITH
  Runs <- {1}, SessionOf <- [r \in {1, 2} |-> r], Workers <- {w1}, Calls <- {}, RunOf <- <<>>,
  MaxVersion <- 6, MaxAttempts <- 2, GlobalLimit <- 1, ReportedFailures <- {"internal_failure"},
  Capacity <- 1, Threads <- {d1}, MaxStreams <- 2, MaxWire <- 1, MaxFaults <- 1,
  FaultKinds <- {"stream", "worker", "heartbeat", "capability", "send", "restart"},
  StopReasons <- {"user_cancelled", "abandoned"}
\* One run that two workers may hold.
TwoWorkers == INSTANCE Dispatch WITH
  Runs <- {1}, SessionOf <- [r \in {1, 2} |-> r], Workers <- {w1, w2}, Calls <- {},
  RunOf <- <<>>, MaxVersion <- 5, MaxAttempts <- 2, GlobalLimit <- 1,
  ReportedFailures <- {"internal_failure"}, Capacity <- 1, Threads <- {d1}, MaxStreams <- 1,
  MaxWire <- 1, MaxFaults <- 1, FaultKinds <- {"stream", "heartbeat"}, StopReasons <- {}
\* Two runs claimed at once for a worker with room for one.
TwoDispatchers == INSTANCE Dispatch WITH
  Runs <- {1, 2}, SessionOf <- [r \in {1, 2} |-> r], Workers <- {w1}, Calls <- {},
  RunOf <- <<>>, MaxVersion <- 3, MaxAttempts <- 2, GlobalLimit <- 2,
  ReportedFailures <- {"internal_failure"}, Capacity <- 1, Threads <- {d1, d2}, MaxStreams <- 2,
  MaxWire <- 1, MaxFaults <- 1, FaultKinds <- {"stream"}, StopReasons <- {}
\* Two runs for a worker that still executes an abandoned one.
BusyWorker == INSTANCE Dispatch WITH
  Runs <- {1, 2}, SessionOf <- [r \in {1, 2} |-> r], Workers <- {w1}, Calls <- {},
  RunOf <- <<>>, MaxVersion <- 3, MaxAttempts <- 2, GlobalLimit <- 2,
  ReportedFailures <- {"internal_failure"}, Capacity <- 1, Threads <- {d1}, MaxStreams <- 1,
  MaxWire <- 1, MaxFaults <- 0, FaultKinds <- {"stream"}, StopReasons <- {"abandoned"}
Waiting == INSTANCE QueueWait WITH
  Runs <- {r1}, Workers <- {w1}, Serves <- [r \in {r1} |-> {w1}], MaxWait <- 2,
  NoWorkerTimeout <- 1, MaxClaims <- 2, MaxConnects <- 1, MaxAborts <- 1, Restarts <- TRUE,
  up <- waitUp, row <- waitRow, sweep <- waitSweep, told <- waitTold
\* A worker that serves the run and one that does not.
OtherWorkers == INSTANCE QueueWait WITH
  Runs <- {r1}, Workers <- {w1, w2}, Serves <- [r \in {r1} |-> {w1}], MaxWait <- 1,
  NoWorkerTimeout <- 1, MaxClaims <- 1, MaxConnects <- 1, MaxAborts <- 0, Restarts <- FALSE,
  up <- waitUp, row <- waitRow, sweep <- waitSweep, told <- waitTold
Routes == INSTANCE Routing WITH
  Workers <- {w1, w2}, Advertised <- Advertising, Routes <- Requiring, Updates <- TRUE
Resume == INSTANCE ApprovalResume WITH
  Grants <- {"user", "automation"},
  Events <- {"cancel", "deny", "deadline", "timeout", "break", "mute"}, row <- resumeRow,
  up <- resumeUp

dispatchVars == <<run, exec, job, call, attempts, sweep, reg, thread, lost, notices, link,
                  executor, faults>>
waitVars == <<waitUp, waitRow, tracked, owed, waitSweep, waitTold, waited, claims, connects,
              aborts>>
routingVars == <<caps, route>>
resumeVars == <<resumeRow, approval, stream, down, resumeUp, entry, slot, req, answer, pc, spent>>

\* A behaviour is a behaviour of one component, from any of its initial states.
\* The others rest in one of theirs.
InitPart ==
  /\ part \in Parts
  /\ Init
  /\ CASE part = "dispatch" -> Dispatching!Init
       [] part = "workers" -> TwoWorkers!Init
       [] part = "capacity" -> TwoDispatchers!Init
       [] part = "busy" -> BusyWorker!Init
       [] OTHER -> LongDispatch!Init
  /\ CASE part = "waitEnds" -> OtherWorkers!Init
       [] OTHER -> Waiting!Init
  /\ IF part = "routing" THEN TRUE ELSE route = CHOOSE r \in Requiring : TRUE
  /\ Routes!Init
  /\ IF part = "resume" THEN TRUE ELSE entry = [version |-> 1, paused |-> FALSE, stop |-> "none", active |-> TRUE]
  /\ Resume!Init

NextPart ==
  /\ UNCHANGED part
  /\ IF part = "cancel" THEN Next ELSE UNCHANGED vars
  /\ CASE part = "ends" -> LongDispatch!Next
       [] part = "dispatch" -> Dispatching!Next
       [] part = "workers" -> TwoWorkers!Next
       [] part = "capacity" -> TwoDispatchers!Next
       [] part = "busy" -> BusyWorker!Next
       [] OTHER -> UNCHANGED dispatchVars
  /\ CASE part = "wait" -> Waiting!Next
       [] part = "waitEnds" -> OtherWorkers!Next
       [] OTHER -> UNCHANGED waitVars
  /\ IF part = "routing" THEN Routes!Next ELSE UNCHANGED routingVars
  /\ IF part = "resume" THEN Resume!Next ELSE UNCHANGED resumeVars

partVars == <<part, vars, dispatchVars, waitVars, routingVars, resumeVars>>
SpecPart == InitPart /\ [][NextPart]_partVars

\* Each component's own fairness (its Fairness), asked of the behaviours that are
\* its own: a guarded action is never enabled in the others.
FairPart ==
  /\ SpecPart
  /\ \A r \in Runs : WF_vars(part = "cancel" /\ Sweep(r))
  /\ \A r \in Runs : WF_vars(part = "cancel" /\ Stop(r))
  /\ \A r \in Runs : WF_vars(part = "cancel" /\ Acknowledge(r))
  /\ WF_dispatchVars(part = "ends" /\ LongDispatch!Progress /\ UNCHANGED faults)
  /\ WF_dispatchVars(part = "ends" /\ LongDispatch!Sweep)
  /\ \A w \in {w1} : WF_dispatchVars(part = "ends"
       /\ LongDispatch!StreamEnds(w) /\ UNCHANGED faults)
  /\ \A w \in {w1} : WF_dispatchVars(part = "ends" /\ LongDispatch!WorkerSteps(w))
  /\ \A w \in {w1} : WF_dispatchVars(part = "ends" /\ LongDispatch!SendPlain(w))
  /\ WF_dispatchVars(part = "ends" /\ \E a \in LongDispatch!Attempts : LongDispatch!Exit(a)
       \/ LongDispatch!SendReport(a))
  /\ WF_waitVars(part = "waitEnds" /\ OtherWorkers!Tick)
  /\ WF_waitVars(part = "waitEnds" /\ OtherWorkers!Pass)
  /\ WF_waitVars(part = "waitEnds" /\ OtherWorkers!Sweeps)
  /\ WF_waitVars(part = "waitEnds" /\ \E r \in {r1} : OtherWorkers!Requeue(r)
       \/ (waitRow[r].status = "running" /\ OtherWorkers!EndRun(r)))
  /\ WF_resumeVars(part = "resume" /\ Resume!CommandLoop)
  /\ WF_resumeVars(part = "resume" /\ Resume!Executor)
  /\ WF_resumeVars(part = "resume" /\ Resume!Writer)
  /\ WF_resumeVars(part = "resume" /\ Resume!Service)
  /\ WF_resumeVars(part = "resume" /\ Resume!DeadlinePasses)

-----------------------------------------------------------------------------




\* ApprovalResume: worker and service agree on whether a run has resumed behind
\* its approval.
\*  - The approved call is executed only on a resume the service has
\*    committed: no lost Ready, late decision or deadline lets the executor
\*    continue a run that is, or was last, waiting.
\*  - The worker reports a delivery failure only while the service cannot have
\*    committed the resume: the report never meets a run that is running
\*    again.
\*  - A resumed run is never left mute by the failed send its acceptance
\*    overtook.
\*  - A decision that has reached the worker is known to the slot the executor
\*    waits on, in whichever order decision and requirement came: otherwise
\*    the run would wait out its deadline for something it was sent.
\*  - Whichever of acceptance and abandonment comes first stays: once the
\*    executor acts on one, the other cannot replace it.
ResumeHonest ==
  /\ [](/\ part = "resume" =>
             /\ Resume!TypeOK
             /\ Resume!ToolNeedsCommit
             /\ Resume!FailureNeverContradicts
             /\ Resume!ResumedCanSpeak
             /\ Resume!DecisionKept)
  /\ Resume!SettledOnce

\* Nothing stays in the queue, in a worker or behind an approval for ever.
\*  - Every accepted run ends and gives its slot back, through a broken
\*    stream, a worker that goes away, a missed heartbeat, a failed send or a
\*    restart between any two steps: nothing waits for a command, a report or
\*    a notice that was lost.
\*  - No run waits for ever.
\*  - An executor that waits for an approval leaves the wait: it runs the
\*    call, or it unwinds and its place in the worker is free again.
\*  - A person's stop reaches the end: whatever command is lost or worker
\*    disconnects, the execution is eventually known to be over.
WorkEnds ==
  /\ part = "ends" => LongDispatch!EveryRunEnds
  /\ part = "waitEnds" => OtherWorkers!EveryWaitEnds
  /\ part = "resume" => Resume!WaitIsBounded
  /\ part = "cancel" => StopCompletes

=============================================================================
