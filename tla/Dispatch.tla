------------------------------ MODULE Dispatch ------------------------------
(***************************************************************************)
(* The runtime service between the run store and the workers: connection   *)
(* of a worker, dispatch of queued runs, delivery of commands over a       *)
(* stream, heartbeats, terminal reports, the notice of a stop, the         *)
(* recovery sweep, and the teardown of a stream.  Every database step is   *)
(* an action of RunStore; this module adds the in-memory registrations,    *)
(* the steps between two transactions, the stream and the executors at     *)
(* its other end.                                                          *)
(*                                                                         *)
(* reg[w]     the worker struct registered under the id w.  gen numbers    *)
(*            the streams of w; a struct of an older stream is closed.     *)
(*            busy is the holder of updateMu; ending holds the loops of     *)
(*            the stream that have failed.                                 *)
(* thread[d]  a DispatchPending in flight: before and after its claim      *)
(* lost       assignments of a closed stream still to be reconciled        *)
(* notices    committed stops the worker has not been told of              *)
(* link[w]    commands and reports on the wire, and the stream the worker  *)
(*            process believes in (0: it is disconnected)                  *)
(* executor   executions at the workers, by attempt                        *)
(***************************************************************************)
EXTENDS Integers, Sequences, FiniteSets

CONSTANTS Runs, SessionOf, Workers, NoWorker, Calls, RunOf, MaxVersion, MaxAttempts,
          GlobalLimit, ReportedFailures,
          Capacity,      \* maxConcurrent of every worker
          Threads,       \* goroutines inside DispatchPending
          MaxStreams,    \* bound on the streams a worker opens
          MaxWire,       \* bound on messages queued in one place
          MaxFaults,     \* bound on the faults below
          FaultKinds,    \* of stream, worker, heartbeat, capability, send, restart
          StopReasons    \* the cancellations requested: user_cancelled, abandoned

VARIABLES run, exec, job, call, attempts, sweep,
          reg, thread, lost, notices, link, executor, faults

Store == INSTANCE RunStore

storeVars == <<run, exec, job, call, attempts, sweep>>
vars == <<run, exec, job, call, attempts, sweep, reg, thread, lost, notices, link, executor, faults>>

Attempts == 1..MaxVersion
Terminal == {"completed", "failed", "cancelled"}

Free == [op |-> "free"]
Idle == [op |-> "idle"]
Nobody == [r \in Runs |-> 0]
NoExecution == [run |-> 0, worker |-> NoWorker, gen |-> 0, version |-> 0, state |-> "none",
                report |-> "none"]

\* The assignment an in-memory entry names.
Held(w, r) == [run |-> r, worker |-> w, attempt |-> reg[w].held[r]]
HeldRuns(w) == {r \in Runs : reg[w].held[r] # 0}
Assigned(w) == {Held(w, r) : r \in HeldRuns(w)}

Release(w, r) == reg' = [reg EXCEPT ![w].held[r] = 0]

\* Something goes wrong, within the bound.
Fault(kind) == kind \in FaultKinds /\ faults < MaxFaults /\ faults' = faults + 1

Init ==
    /\ Store!Init
    /\ reg = [w \in Workers |-> [gen |-> 0, open |-> FALSE, fresh |-> FALSE, fits |-> Runs,
                                 held |-> Nobody, pending |-> 0, queue |-> <<>>, busy |-> Free,
                                 ending |-> {}]]
    /\ thread = [d \in Threads |-> Idle]
    /\ lost = {}
    /\ notices = {}
    /\ link = [w \in Workers |-> [gen |-> 0, up |-> <<>>, down |-> <<>>]]
    /\ executor = [a \in Attempts |-> NoExecution]
    /\ faults = 0

-----------------------------------------------------------------------------
(* Connection and teardown                                                 *)

\* What worker w executes, as its active map sees it.
ActiveAt(w) == {a \in Attempts : executor[a].worker = w
                                 /\ executor[a].state \in {"running", "stopping", "dropped"}}

\* closeLocked: the assignments are handed to the caller, done is closed.
Closed(s) == [s EXCEPT !.open = FALSE, !.held = Nobody, !.queue = <<>>]

closeIfExpiredIdle(w) == reg[w].busy = Free /\ HeldRuns(w) = {} /\ ~reg[w].fresh

\* The worker waits for its prior runs, then registers.  An open registration
\* gives way only when it is idle and its heartbeat has expired.
ConnectWorker(w) ==
    /\ link[w].gen = 0
    /\ ActiveAt(w) = {}
    /\ reg[w].gen < MaxStreams
    /\ reg[w].open => closeIfExpiredIdle(w)
    /\ reg' = [reg EXCEPT ![w] = [gen |-> @.gen + 1, open |-> TRUE, fresh |-> TRUE, fits |-> Runs,
                                  held |-> Nobody, pending |-> 0, queue |-> <<>>, busy |-> Free,
                                 ending |-> {}]]
    /\ link' = [link EXCEPT ![w] = [gen |-> reg[w].gen + 1, up |-> <<>>, down |-> <<>>]]
    /\ UNCHANGED <<storeVars, thread, lost, notices, executor, faults>>

\* The deferred teardown of ConnectWorker, up to its reconciliations: close
\* takes the assignments, and whatever is on the wire is lost.
Teardown(w) ==
    /\ reg' = [reg EXCEPT ![w] = [Closed(@) EXCEPT !.busy = Free, !.ending = {}]]
    /\ lost' = lost \union Assigned(w)
    /\ link' = [link EXCEPT ![w].up = <<>>, ![w].down = <<>>]

\* The stream breaks, its worker has gone, or one of its loops has failed.
StreamEnds(w) ==
    /\ reg[w].open
    /\ reg[w].busy = Free
    /\ \/ (link[w].gen # reg[w].gen \/ reg[w].ending # {}) /\ UNCHANGED faults
       \/ link[w].gen = reg[w].gen /\ Fault("stream")
    /\ Teardown(w)
    /\ UNCHANGED <<storeVars, thread, notices, executor>>

\* reconcileAssignments, one assignment at a time.  A row that has moved on is
\* left alone.
ReconcileLost(a) ==
    /\ a \in lost
    /\ lost' = lost \ {a}
    /\ \/ Store!ReconcileAssignment(a)
       \/ ~ENABLED Store!ReconcileAssignment(a) /\ UNCHANGED storeVars
    /\ UNCHANGED <<reg, thread, notices, link, executor, faults>>

\* The worker process notices that its stream is over, or gives it up:
\* executions are told to stop and may not report any more.
WorkerDisconnects(w) ==
    /\ link[w].gen # 0
    /\ \/ ~(reg[w].open /\ reg[w].gen = link[w].gen) /\ UNCHANGED faults
       \/ reg[w].open /\ reg[w].gen = link[w].gen /\ Fault("worker")
    /\ link' = [link EXCEPT ![w].gen = 0, ![w].down = <<>>]
    /\ executor' = [a \in Attempts |->
                      IF executor[a].worker = w /\ executor[a].state = "running"
                      THEN [executor[a] EXCEPT !.state = "dropped"] ELSE executor[a]]
    /\ UNCHANGED <<storeVars, reg, thread, lost, notices>>

\* No heartbeat for a lease duration.
HeartbeatExpires(w) ==
    /\ reg[w].open /\ reg[w].fresh
    /\ Fault("heartbeat")
    /\ reg' = [reg EXCEPT ![w].fresh = FALSE]
    /\ UNCHANGED <<storeVars, thread, lost, notices, link, executor>>

\* A capability update or a registry change: the route of r is, or is no
\* longer, one this worker serves.
ReplaceCapabilities(w, r) ==
    /\ reg[w].open /\ reg[w].busy = Free
    /\ Fault("capability")
    /\ reg' = [reg EXCEPT ![w].fits = IF r \in @ THEN @ \ {r} ELSE @ \union {r}]
    /\ UNCHANGED <<storeVars, thread, lost, notices, link, executor>>

-----------------------------------------------------------------------------
(* dispatchToWorker: reserve a slot, claim in the store, install           *)

Reserve(d, w) ==
    /\ thread[d] = Idle
    /\ reg[w].open /\ reg[w].fresh
    /\ Cardinality(HeldRuns(w)) + reg[w].pending < Capacity
    /\ \E r \in Runs : job[r].status = "pending"
    /\ reg' = [reg EXCEPT ![w].pending = @ + 1]
    /\ thread' = [thread EXCEPT ![d] = [op |-> "reserved", worker |-> w, gen |-> reg[w].gen,
                                        fits |-> reg[w].fits]]
    /\ UNCHANGED <<storeVars, lost, notices, link, executor, faults>>

Claimable(d) == {r \in thread[d].fits : ENABLED Store!ClaimNextCompatibleJob(r, thread[d].worker)}

\* Fault: the reservation of a claim is kept.
FaultyKeepsReservation(d) == reg

\* pendingClaims of the struct the thread holds; an older struct is garbage.
Unreserved(d) ==
    IF reg[thread[d].worker].gen = thread[d].gen
    THEN [reg EXCEPT ![thread[d].worker].pending = @ - 1] ELSE reg

Claim(d) ==
    /\ thread[d].op = "reserved"
    /\ \/ /\ Claimable(d) = {}
          /\ thread' = [thread EXCEPT ![d] = Idle]
          /\ reg' = Unreserved(d)
          /\ UNCHANGED storeVars
       \/ \E r \in Claimable(d) :
             /\ Store!ClaimNextCompatibleJob(r, thread[d].worker)
             /\ thread' = [thread EXCEPT ![d] =
                             [op |-> "claimed", worker |-> @.worker, gen |-> @.gen,
                              run |-> r, attempt |-> attempts', version |-> run'[r].version]]
             /\ UNCHANGED reg
    /\ UNCHANGED <<lost, notices, link, executor, faults>>

StillServes(d) ==
    LET s == reg[thread[d].worker] IN
    /\ s.gen = thread[d].gen
    /\ s.open /\ s.fresh
    /\ Cardinality(HeldRuns(thread[d].worker)) < Capacity
    /\ thread[d].run \in s.fits

\* AbortPendingAssignment, and the exit of a run that was ended meanwhile.
releaseClaimedAssignment(a) ==
    \/ Store!AbortAssignment(a)
    \/ ~ENABLED Store!AbortAssignment(a) /\ Store!AcknowledgeExecutionExit(a.run)
    \/ /\ ~ENABLED Store!AbortAssignment(a)
       /\ ~ENABLED Store!AcknowledgeExecutionExit(a.run)
       /\ UNCHANGED storeVars

Assign(r, a, v) == [kind |-> "assign", run |-> r, attempt |-> a, version |-> v]
Stop(r, v) == [kind |-> "stop", run |-> r, attempt |-> 0, version |-> v]

Install(d) ==
    LET t == thread[d] IN
    /\ t.op = "claimed"
    /\ thread' = [thread EXCEPT ![d] = Idle]
    /\ \/ /\ StillServes(d)
          /\ Len(reg[t.worker].queue) < MaxWire
          /\ reg' = [Unreserved(d) EXCEPT
                       ![t.worker].held[t.run] = t.attempt,
                       ![t.worker].queue = Append(@, Assign(t.run, t.attempt, t.version))]
          /\ UNCHANGED storeVars
       \/ /\ ~StillServes(d)
          /\ reg' = Unreserved(d)
          /\ releaseClaimedAssignment([run |-> t.run, worker |-> t.worker, attempt |-> t.attempt])
    /\ UNCHANGED <<lost, notices, link, executor, faults>>

-----------------------------------------------------------------------------
(* sendCommand: the command loop of a stream                               *)

Next1(w) == Head(reg[w].queue)
Dequeued(w) == [reg EXCEPT ![w].queue = Tail(@)]
LinkUp(w) == link[w].gen = reg[w].gen

\* The transport accepts a command; a worker that has gone never sees it.
Put(w, m) == IF LinkUp(w) THEN [link EXCEPT ![w].down = Append(@, m)] ELSE link

\* Commands other than a first assignment take no lock, but wait for the one
\* the loop is sending.
SendPlain(w) ==
    /\ reg[w].open /\ "send" \notin reg[w].ending
    /\ reg[w].queue # <<>>
    /\ reg[w].busy.op \notin {"sending", "sent"}
    /\ Next1(w).kind # "assign"
    /\ Len(link[w].down) < MaxWire
    /\ reg' = Dequeued(w)
    /\ link' = Put(w, Next1(w))
    /\ UNCHANGED <<storeVars, thread, lost, notices, executor, faults>>

CanSend(w) ==
    /\ reg[w].open /\ reg[w].busy = Free /\ "send" \notin reg[w].ending
    /\ reg[w].queue # <<>>
    /\ Next1(w).kind = "assign"

\* Released by another path meanwhile: the command is dropped.
SendDropped(w) ==
    /\ CanSend(w)
    /\ reg[w].held[Next1(w).run] = 0
    /\ reg' = Dequeued(w)
    /\ UNCHANGED <<storeVars, thread, lost, notices, link, executor, faults>>

SendUnsupported(w) ==
    LET r == Next1(w).run IN
    /\ CanSend(w)
    /\ reg[w].held[r] # 0
    /\ ~reg[w].fresh \/ r \notin reg[w].fits
    /\ releaseClaimedAssignment(Held(w, r))
    /\ reg' = [Dequeued(w) EXCEPT ![w].held[r] = 0]
    /\ UNCHANGED <<thread, lost, notices, link, executor, faults>>

\* BeginAssignmentSend commits, or a fence drops the assignment.
SendBegins(w) ==
    LET r == Next1(w).run IN
    /\ CanSend(w)
    /\ reg[w].held[r] # 0
    /\ reg[w].fresh /\ r \in reg[w].fits
    /\ \/ /\ Store!BeginAssignmentSend(Held(w, r))
          /\ reg' = [Dequeued(w) EXCEPT ![w].busy = [op |-> "sending", run |-> r,
                                                     attempt |-> reg[w].held[r],
                                                     command |-> Next1(w)]]
       \/ /\ ~ENABLED Store!BeginAssignmentSend(Held(w, r))
          /\ reg' = [Dequeued(w) EXCEPT ![w].held[r] = 0]
          /\ \/ Store!AcknowledgeExecutionExit(r)
             \/ ~ENABLED Store!AcknowledgeExecutionExit(r) /\ UNCHANGED storeVars
    /\ UNCHANGED <<thread, lost, notices, link, executor, faults>>

Sending(w) == [run |-> reg[w].busy.run, worker |-> w, attempt |-> reg[w].busy.attempt]

\* The command is on the wire; the store does not know yet.
SendSucceeds(w) ==
    /\ reg[w].busy.op = "sending"
    /\ Len(link[w].down) < MaxWire
    /\ link' = Put(w, reg[w].busy.command)
    /\ reg' = [reg EXCEPT ![w].busy = [op |-> "sent", run |-> @.run, attempt |-> @.attempt]]
    /\ UNCHANGED <<storeVars, thread, lost, notices, executor, faults>>

\* finishAssignmentDelivery; a fence in between is not an error.
FinishDelivery(w) ==
    /\ reg[w].busy.op = "sent"
    /\ Store!MarkAssignmentDelivered(Sending(w))
    /\ reg' = [reg EXCEPT ![w].busy = Free]
    /\ UNCHANGED <<thread, lost, notices, link, executor, faults>>

Undone(w) ==
    \/ Store!AbortAssignment(Sending(w))
    \/ ~ENABLED Store!AbortAssignment(Sending(w)) /\ UNCHANGED storeVars

\* A send that never began is undone; one that began may have reached the
\* worker.  Either ends the command loop, and with it the stream.
SendFails(w) ==
    /\ reg[w].busy.op = "sending"
    /\ Fault("send")
    /\ \/ /\ Undone(w)
          /\ UNCHANGED link
       \/ /\ Store!MarkAssignmentDeliveryUncertain(Sending(w))
          /\ link' \in {link, Put(w, reg[w].busy.command)}
    /\ reg' = [reg EXCEPT ![w].busy = Free, ![w].ending = @ \union {"send"}]
    /\ UNCHANGED <<thread, lost, notices, executor>>

-----------------------------------------------------------------------------
(* Heartbeats: renewWorkerLeases under updateMu                            *)

\* A heartbeat that would only renew leases that are live changes nothing.
HeartbeatMatters(w) ==
    \/ ~reg[w].fresh
    \/ \E r \in HeldRuns(w) : ~(ENABLED Store!RenewAssignment(Held(w, r)) /\ exec[r].lease = "live")
                             /\ ~Store!AwaitsExit(r, "heartbeat")

HeartbeatBegins(w) ==
    /\ reg[w].open /\ reg[w].busy = Free /\ "recv" \notin reg[w].ending
    /\ LinkUp(w)
    /\ HeartbeatMatters(w)
    /\ reg' = [reg EXCEPT ![w].busy = [op |-> "heartbeat", todo |-> HeldRuns(w)]]
    /\ UNCHANGED <<storeVars, thread, lost, notices, link, executor, faults>>

\* The lease is renewed, or the assignment reconciled as one a live worker no
\* longer owns.  Only a committed stop is kept until its exit.
HeartbeatRenews(w, r) ==
    LET a == Held(w, r) IN
    /\ reg[w].busy.op = "heartbeat" /\ r \in reg[w].busy.todo
    /\ \/ /\ Store!RenewAssignment(a)
          /\ reg' = [reg EXCEPT ![w].busy.todo = @ \ {r}]
       \/ /\ ~ENABLED Store!RenewAssignment(a)
          /\ \/ Store!ReconcileHeartbeatAssignment(a)
             \/ ~ENABLED Store!ReconcileHeartbeatAssignment(a) /\ UNCHANGED storeVars
          /\ reg' = [reg EXCEPT ![w].busy.todo = @ \ {r},
                                ![w].held[r] = IF Store!Owns(a) /\ Store!AwaitsExit(r, "heartbeat")
                                               THEN @ ELSE 0]
    /\ UNCHANGED <<thread, lost, notices, link, executor, faults>>

\* recordHeartbeat.
HeartbeatEnds(w) ==
    /\ reg[w].busy.op = "heartbeat" /\ reg[w].busy.todo = {}
    /\ reg' = [reg EXCEPT ![w].fresh = TRUE, ![w].busy = Free]
    /\ UNCHANGED <<storeVars, thread, lost, notices, link, executor, faults>>

-----------------------------------------------------------------------------
acknowledgedVersionMatches(v, r) == v \in {run[r].version, run[r].version - 1}

\* The report names how the run ended, or proves that its executor is gone.
isMatchingTerminalUpdate(m) ==
    LET r == m.run IN
    CASE m.kind = "ack" \/ run[r].status = "cancelled" -> acknowledgedVersionMatches(m.version, r)
      [] m.kind = "completed" -> run[r].status = "completed" /\ m.version = run[r].version - 1
      [] m.kind = "failed" -> /\ run[r].status = "failed" /\ run[r].reason = "internal_failure"
                              /\ m.version = run[r].version - 1
      [] OTHER -> FALSE

FirstReport(w) == Head(link[w].up)
Received(w) == [link EXCEPT ![w].up = Tail(@)]

\* beginUpdate: the stream is the registration's, and no other update runs.
CanReceive(w) == reg[w].open /\ reg[w].busy = Free /\ "recv" \notin reg[w].ending /\ link[w].up # <<>>

\* A report on a run this stream holds, when the run has ended: it may prove
\* the exit of the executor, and is ignored otherwise.
reconcileLateAssignedUpdate(w) ==
    LET m == FirstReport(w) r == m.run IN
    /\ CanReceive(w)
    /\ reg[w].held[r] # 0
    /\ run[r].status \in Terminal
    /\ IF isMatchingTerminalUpdate(m) /\ Store!Owns(Held(w, r)) /\ exec[r].active
       THEN Store!AcknowledgeExecutionExit(r) /\ Release(w, r)
       ELSE UNCHANGED <<storeVars, reg>>
    /\ link' = Received(w)
    /\ UNCHANGED <<thread, lost, notices, executor, faults>>


\* handleRunCompleted and handleRunFailed.
Commits(w, m) ==
    LET r == m.run IN
    /\ m.version = run[r].version
    /\ \/ m.kind = "completed" /\ Store!CompleteRun(r, "none")
       \/ m.kind = "failed" /\ Store!FailRun(r, "internal_failure")
       \/ m.kind = "retry" /\ Store!RequeueOrFailRetryableRun(Held(w, r))

applyUpdateForWorker(w) ==
    LET m == FirstReport(w) IN
    /\ CanReceive(w)
    /\ reg[w].held[m.run] # 0
    /\ run[m.run].status \notin Terminal
    /\ Commits(w, m)
    /\ Release(w, m.run)
    /\ link' = Received(w)
    /\ UNCHANGED <<thread, lost, notices, executor, faults>>

\* A report on a run this stream does not hold repeats what is known.
IgnoreLateDuplicate(w) ==
    LET m == FirstReport(w) IN
    /\ CanReceive(w)
    /\ reg[w].held[m.run] = 0
    /\ run[m.run].status \in Terminal
    /\ isMatchingTerminalUpdate(m)
    /\ link' = Received(w)
    /\ UNCHANGED <<storeVars, reg, thread, lost, notices, executor, faults>>

\* Every other report is a protocol error: the receive loop returns it, and
\* the command loop ends the stream when it sees it.
RefuseReport(w) ==
    LET m == FirstReport(w) IN
    /\ CanReceive(w)
    /\ IF reg[w].held[m.run] # 0
       THEN run[m.run].status \notin Terminal /\ ~ENABLED Commits(w, m)
       ELSE ~(run[m.run].status \in Terminal /\ isMatchingTerminalUpdate(m))
    /\ reg' = [reg EXCEPT ![w].ending = @ \union {"recv"}]
    /\ link' = Received(w)
    /\ UNCHANGED <<storeVars, thread, lost, notices, executor, faults>>

-----------------------------------------------------------------------------
(* Stops                                                                   *)

EnqueueUserMessage(r) ==
    /\ Store!EnqueueUserMessage(r)
    /\ UNCHANGED <<reg, thread, lost, notices, link, executor, faults>>

\* CancelUserRun, or the abandonment of a run nobody watches.
CommitStop(r, why) ==
    /\ why \in StopReasons
    /\ Store!CancelRun(r, why)
    /\ notices' = notices \union {r}
    /\ UNCHANGED <<reg, thread, lost, link, executor, faults>>

Owners(r) == {w \in Workers : reg[w].open /\ reg[w].held[r] # 0}

\* An explicit stop is sent to the owner of the very attempt it stopped.
MayNotify(w, r) ==
    run[r].reason = "user_cancelled" =>
        exec[r].active /\ exec[r].worker = w /\ exec[r].attempt = reg[w].held[r]

\* No stream holds the run: its slot is released only if nothing was sent.
releaseUnownedTerminalRun(r) ==
    \/ exec[r].active /\ exec[r].delivery = "pending_send" /\ Store!AcknowledgeExecutionExit(r)
    \/ ~(exec[r].active /\ exec[r].delivery = "pending_send") /\ UNCHANGED storeVars

\* The service's CancelRun, after the commit.  The notice may be lost.
NotifyStop(r) ==
    /\ r \in notices
    /\ notices' = notices \ {r}
    /\ IF Owners(r) = {}
       THEN releaseUnownedTerminalRun(r) /\ UNCHANGED reg
       ELSE \E w \in Owners(r) :
              /\ UNCHANGED storeVars
              /\ Len(reg[w].queue) < MaxWire
              /\ reg' = IF MayNotify(w, r)
                        THEN [reg EXCEPT ![w].queue = Append(@, Stop(r, run[r].version))]
                        ELSE reg
    /\ UNCHANGED <<thread, lost, link, executor, faults>>

-----------------------------------------------------------------------------
(* The recovery loop                                                       *)

\* A lease runs out when nothing renews it: its worker is gone or has stopped
\* beating, or the run has ended.  A dispatch in flight is shorter than a lease:
\* DispatchPending gives up after five seconds.
LeaseLapses(r) ==
    /\ exec[r].worker \in Workers
    /\ \A d \in Threads : thread[d].op = "claimed" => thread[d].attempt # exec[r].attempt
    /\ \/ ~(reg[exec[r].worker].open /\ reg[exec[r].worker].fresh)
       \/ reg[exec[r].worker].held[r] # exec[r].attempt
       \/ run[r].status \in Terminal
    /\ Store!LeaseLapses(r)
    /\ UNCHANGED <<reg, thread, lost, notices, link, executor, faults>>

BeginSweep ==
    /\ \E r \in Runs : Store!Recoverable(r)
    /\ Store!BeginSweep
    /\ UNCHANGED <<reg, thread, lost, notices, link, executor, faults>>

hasLiveAssignment(a) ==
    reg[a.worker].open /\ reg[a.worker].fresh /\ reg[a.worker].held[a.run] = a.attempt

\* A candidate its worker still holds is left alone; a stop is sent again.
SweepSparesLive(a) ==
    /\ hasLiveAssignment(a)
    /\ Store!SkipCandidate(a)
    /\ notices' = IF Store!committedStop(a.run) THEN notices \union {a.run} ELSE notices
    /\ UNCHANGED <<reg, thread, lost, link, executor, faults>>

\* closeForStaleAssignment: the stream of a worker that stopped beating is
\* closed, and its other assignments are reconciled with it.
SweepCloses(a) ==
    /\ sweep.mode = "cutoff" /\ a \in sweep.todo
    /\ reg[a.worker].open /\ ~reg[a.worker].fresh /\ reg[a.worker].busy = Free
    /\ reg[a.worker].held[a.run] = a.attempt
    /\ reg' = [reg EXCEPT ![a.worker] = [Closed(@) EXCEPT !.ending = {}]]
    /\ lost' = lost \union (Assigned(a.worker) \ {a})
    /\ link' = [link EXCEPT ![a.worker].up = <<>>, ![a.worker].down = <<>>]
    /\ UNCHANGED <<storeVars, thread, notices, executor, faults>>


HeldByNobody(a) == ~(reg[a.worker].open /\ reg[a.worker].held[a.run] = a.attempt)

SweepRecovers(a) ==
    /\ HeldByNobody(a)
    /\ \/ Store!RecoverAssignment(a)
       \/ ~ENABLED Store!RecoverAssignment(a) /\ Store!SkipCandidate(a)
    /\ UNCHANGED <<reg, thread, lost, notices, link, executor, faults>>

EndSweep ==
    /\ sweep.todo = {}
    /\ Store!EndSweep
    /\ UNCHANGED <<reg, thread, lost, notices, link, executor, faults>>

\* The orchestrator dies and starts again: streams, threads and notices are
\* gone, and startup recovery visits every execution.
Restart ==
    /\ Fault("restart")
    /\ Store!Restart
    /\ reg' = [w \in Workers |-> [Closed(reg[w]) EXCEPT !.busy = Free, !.pending = 0, !.ending = {}]]
    /\ thread' = [d \in Threads |-> Idle]
    /\ lost' = {}
    /\ notices' = {}
    /\ link' = [w \in Workers |-> [link[w] EXCEPT !.up = <<>>, !.down = <<>>]]
    /\ UNCHANGED executor

\* Nothing is served before startup recovery has visited its list.
StartupRecovers(a) ==
    /\ sweep.mode = "startup"
    /\ Store!RecoverAssignment(a)
    /\ UNCHANGED <<reg, thread, lost, notices, link, executor, faults>>

-----------------------------------------------------------------------------
(* The worker process                                                      *)

ActiveOn(w, r) == {a \in ActiveAt(w) : executor[a].run = r}
Command(w) == Head(link[w].down)
Taken(w) == [link EXCEPT ![w].down = Tail(@)]
Report(kind, r, a, v) == [kind |-> kind, run |-> r, attempt |-> a, version |-> v]

\* The writer of the current stream, whichever stream the execution began on.
Sent(l, w, m) ==
    IF l[w].gen # 0 /\ reg[w].open /\ reg[w].gen = l[w].gen
    THEN [l EXCEPT ![w].up = Append(@, m)] ELSE l

CanTake(w, kind) ==
    /\ link[w].gen # 0
    /\ link[w].down # <<>> /\ Command(w).kind = kind
    /\ Len(link[w].up) < MaxWire

\* An attempt whose report the worker keeps in mind.
terminalAttemptReported(a) == executor[a].state \in {"finished", "gone"}

\* An assignment the worker has not seen before.  It also handles a repeated one,
\* which FirstDelivery shows is never delivered.
Unseen(w, m) == ActiveOn(w, m.run) = {} /\ ~terminalAttemptReported(m.attempt)

\* Executions on their way out still hold their place.
Full(w) == Cardinality(ActiveAt(w)) >= Capacity

\* worker_busy hands the run back.
RejectBusy(w) ==
    LET m == Command(w) IN
    /\ CanTake(w, "assign")
    /\ Unseen(w, m)
    /\ Full(w)
    /\ link' = Sent(Taken(w), w, Report("retry", m.run, m.attempt, m.version))
    /\ UNCHANGED <<storeVars, reg, thread, lost, notices, executor, faults>>

StartRun(w) ==
    LET m == Command(w) IN
    /\ CanTake(w, "assign")
    /\ Unseen(w, m)
    /\ ~Full(w)
    /\ executor' = [executor EXCEPT ![m.attempt] =
                      [run |-> m.run, worker |-> w, gen |-> link[w].gen, version |-> m.version,
                       state |-> "running", report |-> "none"]]
    /\ link' = Taken(w)
    /\ UNCHANGED <<storeVars, reg, thread, lost, notices, faults>>

\* A stop older than what this attempt was told is refused.
StopRun(w) ==
    LET m == Command(w) IN
    /\ CanTake(w, "stop")
    /\ ActiveOn(w, m.run) # {}
    /\ executor' = [a \in Attempts |->
                      IF a \in ActiveOn(w, m.run) /\ m.version >= executor[a].version
                      THEN [executor[a] EXCEPT !.version = m.version,
                                               !.state = IF @ = "running" THEN "stopping" ELSE @]
                      ELSE executor[a]]
    /\ link' = Taken(w)
    /\ UNCHANGED <<storeVars, reg, thread, lost, notices, faults>>

Remembered(w, r) == {a \in Attempts : executor[a].worker = w /\ executor[a].run = r
                                       /\ terminalAttemptReported(a)}

\* A run that does not execute here is acknowledged, unless its own report is
\* about to go out.
acknowledgeFinishedCancellation(w) ==
    LET m == Command(w) IN
    /\ CanTake(w, "stop")
    /\ ActiveOn(w, m.run) = {}
    /\ link' = IF \E a \in Remembered(w, m.run) : executor[a].state = "finished"
               THEN Taken(w)
               ELSE Sent(Taken(w), w, Report("ack", m.run, 0, m.version))
    /\ UNCHANGED <<storeVars, reg, thread, lost, notices, executor, faults>>

\* The executor returns.  One cut off by its stream says nothing.
Exit(a) ==
    /\ \/ /\ executor[a].state = "running"
          /\ \E kind \in {"completed", "failed", "retry"} :
                executor' = [executor EXCEPT ![a].state = "finished", ![a].report = kind]
       \/ /\ executor[a].state = "stopping"
          /\ executor' = [executor EXCEPT ![a].state = "finished", ![a].report = "ack"]
       \/ /\ executor[a].state = "dropped"
          /\ executor' = [executor EXCEPT ![a].state = "cut_off"]
    /\ UNCHANGED <<storeVars, reg, thread, lost, notices, link, faults>>

\* sendTerminalOnce, or the acknowledgement after a stop.
SendReport(a) ==
    LET e == executor[a] IN
    /\ e.state = "finished"
    /\ Len(link[e.worker].up) < MaxWire
    /\ link' = Sent(link, e.worker, Report(e.report, e.run, a, e.version))
    /\ executor' = [executor EXCEPT ![a].state = "gone"]
    /\ UNCHANGED <<storeVars, reg, thread, lost, notices, faults>>

-----------------------------------------------------------------------------
(* Specification                                                           *)

Streams(w) ==
    \/ ConnectWorker(w) \/ StreamEnds(w) \/ WorkerDisconnects(w) \/ HeartbeatExpires(w)
    \/ \E r \in Runs : ReplaceCapabilities(w, r)

CommandLoop(w) ==
    \/ SendPlain(w) \/ SendDropped(w) \/ SendUnsupported(w) \/ SendBegins(w)
    \/ SendSucceeds(w) \/ FinishDelivery(w) \/ SendFails(w)

Updates(w) ==
    \/ HeartbeatBegins(w) \/ HeartbeatEnds(w)
    \/ \E r \in Runs : HeartbeatRenews(w, r)
    \/ reconcileLateAssignedUpdate(w) \/ applyUpdateForWorker(w)
    \/ IgnoreLateDuplicate(w) \/ RefuseReport(w)

Dispatching(d) == (\E w \in Workers : Reserve(d, w)) \/ Claim(d) \/ Install(d)

Requests == \E r \in Runs : EnqueueUserMessage(r) \/ NotifyStop(r)
                            \/ \E why \in StopReasons : CommitStop(r, why)

Assignments == [run: Runs, worker: Workers, attempt: Attempts]

Recovery ==
    \/ BeginSweep \/ EndSweep
    \/ \E r \in Runs : LeaseLapses(r)
    \/ \E a \in sweep.todo : SweepSparesLive(a) \/ SweepCloses(a) \/ SweepRecovers(a)
    \/ \E a \in lost : ReconcileLost(a)

WorkerSteps(w) ==
    \/ RejectBusy(w) \/ StartRun(w) \/ StopRun(w) \/ acknowledgeFinishedCancellation(w)

Next ==
    \/ /\ sweep.mode # "startup"
       /\ \/ \E w \in Workers : Streams(w) \/ CommandLoop(w) \/ Updates(w)
          \/ \E d \in Threads : Dispatching(d)
          \/ Requests
          \/ Recovery
    \/ sweep.mode = "startup" /\ (EndSweep \/ \E a \in sweep.todo : StartupRecovers(a))
    \/ \E w \in Workers : WorkerSteps(w)
    \/ \E a \in Attempts : Exit(a) \/ SendReport(a)
    \/ Restart

Spec == Init /\ [][Next]_vars

\* What the service and the workers do by themselves.
Progress ==
    \/ /\ sweep.mode # "startup"
       /\ \/ \E w \in Workers : \/ ConnectWorker(w) \/ CommandLoop(w) \/ Updates(w)
                                \/ StreamEnds(w) \/ WorkerDisconnects(w)
          \/ \E d \in Threads : Dispatching(d)
          \/ \E r \in Runs : NotifyStop(r) \/ LeaseLapses(r)
          \/ \E a \in lost : ReconcileLost(a)
    \/ \E w \in Workers : WorkerSteps(w)
    \/ \E a \in Attempts : Exit(a) \/ SendReport(a)

Sweep ==
    \/ BeginSweep \/ EndSweep
    \/ \E a \in sweep.todo : SweepSparesLive(a) \/ SweepCloses(a) \/ SweepRecovers(a)
                             \/ StartupRecovers(a)

\* Goroutines run; the recovery loop ticks; workers reconnect, beat, execute to
\* an end and send their reports.  Nothing is assumed of requests and faults.
Fairness ==
    /\ WF_vars(Progress /\ UNCHANGED faults)
    /\ WF_vars(Sweep)
    /\ \A w \in Workers :
         /\ WF_vars(StreamEnds(w) /\ UNCHANGED faults)
         /\ WF_vars(WorkerSteps(w))
         /\ WF_vars(SendPlain(w))
    /\ WF_vars(\E a \in Attempts : Exit(a) \/ SendReport(a))

-----------------------------------------------------------------------------
(* Properties                                                              *)

Message == [kind: {"assign", "stop"}, run: Runs, attempt: 0..MaxVersion,
            version: 0..MaxVersion]

\* Registrations, wires and executors keep the values the service gives them;
\* a worker never has a negative number of claims in flight.
TypeOK ==
    /\ \A w \in Workers :
         /\ reg[w].gen \in 0..MaxStreams /\ reg[w].pending \in 0..Cardinality(Threads)
         /\ reg[w].held \in [Runs -> 0..MaxVersion] /\ reg[w].fits \subseteq Runs
         /\ \A i \in DOMAIN reg[w].queue : reg[w].queue[i] \in Message
         /\ \A i \in DOMAIN link[w].down : link[w].down[i] \in Message
         /\ link[w].gen \in 0..reg[w].gen
    /\ lost \subseteq Assignments
    /\ notices \subseteq Runs

\* The stream of the execution is the registered one and intact at both ends.
OnLine(a) ==
    LET e == executor[a] IN
    e.worker \in Workers /\ reg[e.worker].open /\ reg[e.worker].gen = e.gen
    /\ link[e.worker].gen = e.gen

\* A run is never executed by two attempts whose streams are both intact:
\* dispatch, retry, sweep and reconnection never hand out a run whose executor
\* the service can still talk to.
OneExecutor ==
    \A a, b \in Attempts :
        /\ a # b /\ executor[a].run = executor[b].run
        /\ executor[a].state = "running" /\ executor[b].state = "running"
        => ~(OnLine(a) /\ OnLine(b))

\* The fence of a run the user stopped is released only when its executor has
\* exited or its stream is broken, whoever releases it: a late report, the
\* notice of the stop, a heartbeat, a sweep or the command loop.
StopHeldWhileExecuting ==
    \A a \in Attempts :
        /\ executor[a].state \in {"running", "stopping"} /\ OnLine(a)
        /\ Store!committedStop(executor[a].run)
        => exec[executor[a].run].active /\ exec[executor[a].run].attempt = a

\* Every assignment that is delivered is the first its worker sees of that
\* attempt, and of that run while it executes there: failed sends, retries and
\* proofs of ownership never send one twice, so the worker's own guards against
\* a repeated assignment are never what prevents a second execution.
FirstDelivery ==
    \A w \in Workers : \A i \in DOMAIN link[w].down :
        LET m == link[w].down[i] IN
        m.kind = "assign" => Unseen(w, m) /\ executor[m.attempt].state = "none"

\* However claims, reconnections and releases interleave, a registration never
\* holds more runs than its worker declared it can execute.
WithinCapacity == \A w \in Workers : Cardinality(HeldRuns(w)) <= Capacity

\* A worker never executes more runs than it declared, although the service may
\* give the place of an abandoned run away before its execution has exited.
WorkerWithinCapacity == \A w \in Workers : Cardinality(ActiveAt(w)) <= Capacity

\* The report a worker has on the wire for a run it holds finds a run whose
\* assignment was sent: the store never meets a report on a run that, by its
\* columns, nobody can be executing.
ReportsFollowDelivery ==
    \A w \in Workers : \A i \in DOMAIN link[w].up :
        LET m == link[w].up[i] IN
        reg[w].held[m.run] # 0 /\ m.version = run[m.run].version => Store!Reached(m.run)


\* Every accepted run ends and gives its slot back, through a broken stream, a
\* worker that goes away, a missed heartbeat, a failed send or a restart between
\* any two steps: nothing waits for a command, a report or a notice that was
\* lost.
EveryRunEnds ==
    \A r \in Runs : run[r].status = "queued" ~> run[r].status \in Terminal /\ ~exec[r].active

=============================================================================
