---------------------------- MODULE Cancellation ----------------------------
(***************************************************************************)
(* Stopping a run.                                                         *)
(*                                                                         *)
(* ChatService.CancelRun records a person's wish under a key of their      *)
(* choosing: one transaction cancels the run unless it has ended, and      *)
(* stores the answer as the key's receipt.  Then the worker is told, and   *)
(* how far it has stopped is read for the answer.  Answers get lost and    *)
(* are asked for again.  A sender that loses a stream without a key        *)
(* abandons its run: read the version, cancel at that version, three times *)
(* at most.  Meanwhile the run moves, completes, is recovered, or its      *)
(* session is withdrawn; the worker may lose its connection and the        *)
(* command.  The recovery sweep repeats it, and releases runs whose        *)
(* worker's lease has lapsed.                                              *)
(***************************************************************************)
EXTENDS Integers, FiniteSets

CONSTANTS
    Runs, Keys, Callers,
    Abandoners,     \* senders whose stream breaks, each of some run
    MaxVersion,     \* bound: version up to which runs move
    MaxCalls,       \* bound: calls of CancelRun
    MaxLosses       \* bound: connections lost

ASSUME CancelAssumption ==
    /\ MaxVersion \in Nat \ {0} /\ MaxCalls \in Nat /\ MaxLosses \in Nat
    /\ IsFiniteSet(Keys)
    /\ "none" \notin Runs     \* the run of a receipt that is not there

VARIABLES
    runs,       \* agent_runs: lifecycle, version, who ended it, execution_active, execution_state
    gone,      \* the sessions withdrawn, by their run
    receipt,   \* run_cancellation_receipts
    audits,    \* "run.cancel" rows of each run
    asked,      \* the callers of CancelRun
    answers,   \* every answer a caller was given
    leaving,   \* the abandonments
    work,      \* what the worker does about each run: "none", "working", "stopped"
    owner,     \* whether a connected worker holds the assignment
    told,      \* versions of stop commands under way
    acks,      \* versions of exit acknowledgements under way
    calls, losses

vars == <<runs, gone, receipt, audits, asked, answers, leaving, work, owner, told, acks, calls, losses>>
worker == <<work, owner, told, acks>>

maxCancelVersionAttempts == 3
NoReceipt == [run |-> "none"]
NotCalling == [pc |-> "idle"]
NotLeaving == [pc |-> "watching"]
HasLeft == [pc |-> "left"]
Terminal(r) == runs[r].life \in {"completed", "cancelled"}

Init ==
    /\ runs = [r \in Runs |-> [life |-> "active", version |-> 1, by |-> "none", active |-> TRUE, sent |-> FALSE]]
    /\ gone = {}
    /\ receipt = [k \in Keys |-> NoReceipt]
    /\ audits = [r \in Runs |-> 0]
    /\ asked = [c \in Callers |-> NotCalling]
    /\ answers = {}
    /\ leaving = [a \in Abandoners |-> NotLeaving]
    /\ work = [r \in Runs |-> "none"] /\ owner = [r \in Runs |-> TRUE]
    /\ told = [r \in Runs |-> {}] /\ acks = [r \in Runs |-> {}]
    /\ calls = 0 /\ losses = 0

\* cancelRunTx: the one transition, by a person or by abandonment.
Cancelled(r, by) == [runs EXCEPT ![r].life = "cancelled", ![r].version = @ + 1, ![r].by = by]

-----------------------------------------------------------------------------
(* The run and its worker *)

\* An ownership fence, a resume, an approval decision.
Move(r) ==
    /\ ~Terminal(r) /\ runs[r].version < MaxVersion
    /\ runs' = [runs EXCEPT ![r].version = @ + 1]
    /\ UNCHANGED <<gone, receipt, audits, asked, answers, leaving, worker, calls, losses>>

\* sendCommand delivers the assignment, of a run that has not ended.
Deliver(r) ==
    /\ owner[r] /\ ~runs[r].sent /\ ~Terminal(r)
    /\ runs' = [runs EXCEPT ![r].sent = TRUE]
    /\ work' = [work EXCEPT ![r] = "working"]
    /\ UNCHANGED <<gone, receipt, audits, asked, answers, leaving, owner, told, acks, calls, losses>>

\* The report of a run that finished on its own; one that lost to a stop proves its exit.
Complete(r) ==
    /\ owner[r] /\ work[r] = "working"
    /\ work' = [work EXCEPT ![r] = "none"]
    /\ owner' = [owner EXCEPT ![r] = FALSE]
    /\ runs' = IF Terminal(r) THEN [runs EXCEPT ![r].active = FALSE]
              ELSE [runs EXCEPT ![r].life = "completed", ![r].version = @ + 1, ![r].active = FALSE]
    /\ UNCHANGED <<gone, receipt, audits, asked, answers, leaving, told, acks, calls, losses>>

\* releaseUnownedTerminalRun releases only what was never sent.
Releasable(r) == Terminal(r) /\ ~(runs[r].active /\ runs[r].sent)

\* CancelRun of the runtime service: a held run's worker is told, unless the assignment is
\* not the one that was stopped; an unheld one is released if it was never sent.
Tell(r, reason) ==
    /\ told' = IF owner[r] /\ (reason = "user" => runs[r].life = "cancelled" /\ runs[r].active /\ runs[r].by = "user")
               THEN [told EXCEPT ![r] = @ \cup {runs[r].version}] ELSE told
    /\ runs' = IF ~owner[r] /\ Releasable(r) THEN [runs EXCEPT ![r].active = FALSE] ELSE runs

\* The worker gets the command, behind the assignment: it stops and says at which version.
Stop(r) ==
    /\ owner[r] /\ (~runs[r].sent => Terminal(r))
    /\ \E v \in told[r] :
           /\ told' = [told EXCEPT ![r] = @ \ {v}]
           /\ acks' = [acks EXCEPT ![r] = @ \cup {v}]
    /\ work' = [work EXCEPT ![r] = IF @ = "working" THEN "stopped" ELSE @]
    /\ UNCHANGED <<runs, gone, receipt, audits, asked, answers, leaving, owner, calls, losses>>

\* acknowledgedVersionMatches.
Acknowledged(r, v) == v \in {runs[r].version, runs[r].version - 1}

\* handleRunCancelledAck: the exit is recorded; a run that has not ended refuses it, which
\* ends the worker's stream.
Acknowledge(r) ==
    /\ owner[r]
    /\ \E v \in acks[r] :
           /\ acks' = [acks EXCEPT ![r] = {}]
           /\ IF Terminal(r) /\ Acknowledged(r, v)
              THEN runs' = [runs EXCEPT ![r].active = FALSE]
              ELSE UNCHANGED runs
    /\ owner' = [owner EXCEPT ![r] = FALSE]
    /\ told' = [told EXCEPT ![r] = {}]
    /\ UNCHANGED <<gone, receipt, audits, asked, answers, leaving, work, calls, losses>>

\* The worker's connection is lost with what was under way; it works on until its lease.
Lose(r) ==
    /\ owner[r] /\ runs[r].active /\ losses < MaxLosses
    /\ owner' = [owner EXCEPT ![r] = FALSE]
    /\ told' = [told EXCEPT ![r] = {}] /\ acks' = [acks EXCEPT ![r] = {}]
    /\ losses' = losses + 1
    /\ UNCHANGED <<runs, gone, receipt, audits, asked, answers, leaving, work, calls>>

\* A command that could not be sent.
Drop(r) ==
    /\ told[r] # {} /\ losses < MaxLosses
    /\ told' = [told EXCEPT ![r] = {}]
    /\ losses' = losses + 1
    /\ UNCHANGED <<runs, gone, receipt, audits, asked, answers, leaving, work, owner, acks, calls>>

\* RecoverOrphanedAssignments repeats a person's stop to the worker that holds the run.
Redelivers(r) == owner[r] /\ runs[r].life = "cancelled" /\ runs[r].by = "user" /\ runs[r].active

\* The recovery sweep: stops are redelivered; an unsent assignment of an ended run and
\* one whose lease has lapsed, and whose worker has therefore stopped, are recovered: a
\* run that has not ended goes to a worker again.
Sweep(r) ==
    \/ /\ Redelivers(r) /\ told[r] = {} /\ runs[r].sent
       /\ Tell(r, "user")
       /\ UNCHANGED <<gone, receipt, audits, asked, answers, leaving, work, owner, acks, calls, losses>>
    \/ /\ runs[r].active /\ Terminal(r) /\ (~runs[r].sent \/ ~owner[r])
       /\ runs' = [runs EXCEPT ![r].active = FALSE]
       /\ work' = [work EXCEPT ![r] = "none"]
       /\ owner' = [owner EXCEPT ![r] = FALSE]
       /\ told' = [told EXCEPT ![r] = {}] /\ acks' = [acks EXCEPT ![r] = {}]
       /\ UNCHANGED <<gone, receipt, audits, asked, answers, leaving, calls, losses>>
    \/ /\ runs[r].active /\ ~Terminal(r) /\ ~owner[r] /\ runs[r].version < MaxVersion
       /\ runs' = [runs EXCEPT ![r].sent = FALSE, ![r].version = @ + 1]
       /\ work' = [work EXCEPT ![r] = "none"]
       /\ owner' = [owner EXCEPT ![r] = TRUE]
       /\ told' = [told EXCEPT ![r] = {}] /\ acks' = [acks EXCEPT ![r] = {}]
       /\ UNCHANGED <<gone, receipt, audits, asked, answers, leaving, calls, losses>>

-----------------------------------------------------------------------------
(* Stopping by a person *)

\* beginSessionDeletion: the run is cancelled and can no longer be seen.
Withdraw(r) ==
    /\ r \notin gone
    /\ gone' = gone \cup {r}
    /\ runs' = IF Terminal(r) THEN runs ELSE Cancelled(r, "withdrawal")
    /\ UNCHANGED <<receipt, audits, asked, answers, leaving, worker, calls, losses>>

Call(c, r, k) ==
    /\ asked[c].pc = "idle" /\ calls < MaxCalls
    /\ asked' = [asked EXCEPT ![c] = [pc |-> "called", run |-> r, key |-> k]]
    /\ calls' = calls + 1
    /\ UNCHANGED <<runs, gone, receipt, audits, answers, leaving, worker, losses>>

Answer(c, result, version) ==
    /\ answers' = answers \cup {[key |-> asked[c].key, run |-> asked[c].run, result |-> result, version |-> version]}
    /\ asked' = [asked EXCEPT ![c] = NotCalling]

ReceiptOf(k) == receipt[k]

\* The receipt is this run's.
Own(c) == ReceiptOf(asked[c].key).run = asked[c].run

\* Fault: a run that has ended is stopped as well.
FaultyStops(r, k) == ReceiptOf(k) = NoReceipt

\* A new key stops a run that has not ended.
Stops(r, k) == ReceiptOf(k) = NoReceipt /\ ~Terminal(r)

\* CancelUserRun: unseen runs are unavailable, a known key repeats its answer or is
\* refused for another run, a new key stops the run unless it has ended.
CancelUserRun(c) ==
    /\ asked[c].pc = "called"
    /\ LET r == asked[c].run
           k == asked[c].key
           stops == Stops(r, k)
           fresh == [run |-> r, accepted |-> stops, version |-> runs'[r].version]
       IN  \/ /\ r \in gone
              /\ Answer(c, "unavailable", 0)
              /\ UNCHANGED <<runs, receipt, audits>>
           \/ /\ r \notin gone /\ ReceiptOf(k) # NoReceipt /\ ~Own(c)
              /\ Answer(c, "conflict", 0)
              /\ UNCHANGED <<runs, receipt, audits>>
           \/ /\ r \notin gone /\ ReceiptOf(k) # NoReceipt /\ Own(c)
              /\ asked' = [asked EXCEPT ![c] = [pc |-> "notify", run |-> r, key |-> k,
                              accepted |-> receipt[k].accepted, version |-> receipt[k].version]]
              /\ UNCHANGED <<runs, receipt, audits, answers>>
           \/ /\ r \notin gone /\ ReceiptOf(k) = NoReceipt
              /\ runs' = IF stops THEN Cancelled(r, "user") ELSE runs
              /\ audits' = [audits EXCEPT ![r] = IF stops THEN @ + 1 ELSE @]
              /\ receipt' = [receipt EXCEPT ![k] = fresh]
              /\ asked' = [asked EXCEPT ![c] = [pc |-> "notify", run |-> r, key |-> k,
                              accepted |-> stops, version |-> fresh.version]]
              /\ UNCHANGED answers
    /\ UNCHANGED <<gone, leaving, worker, calls, losses>>

\* The worker is told when the stop was accepted, now or before.
Notify(c) ==
    /\ asked[c].pc = "notify"
    /\ IF asked[c].accepted THEN Tell(asked[c].run, "user") ELSE UNCHANGED <<runs, told>>
    /\ asked' = [asked EXCEPT ![c].pc = "read"]
    /\ UNCHANGED <<gone, receipt, audits, answers, leaving, work, owner, acks, calls, losses>>

\* ReadRunCancellation and the answer, which may be lost on the way.
Respond(c) ==
    /\ asked[c].pc = "read"
    /\ \/ Answer(c, IF asked[c].run \in gone THEN "unavailable"
                    ELSE IF asked[c].accepted THEN "accepted" ELSE "terminal",
                 IF asked[c].run \in gone THEN 0 ELSE asked[c].version)
       \/ asked' = [asked EXCEPT ![c] = NotCalling] /\ UNCHANGED answers
    /\ UNCHANGED <<runs, gone, receipt, audits, leaving, worker, calls, losses>>

-----------------------------------------------------------------------------
(* Abandonment *)

\* cancelRun, as the deferred step of a sender whose unkeyed stream broke.
Leave(a) ==
    /\ leaving[a].pc = "watching"
    /\ \E r \in Runs \ gone :
           leaving' = [leaving EXCEPT ![a] = [pc |-> "read", run |-> r, attempt |-> 0, version |-> 0]]
    /\ UNCHANGED <<runs, gone, receipt, audits, asked, answers, worker, calls, losses>>

ReadVersion(a) ==
    /\ leaving[a].pc = "read"
    /\ leaving' = [leaving EXCEPT ![a].pc = IF @ = "read" /\ leaving[a].attempt < maxCancelVersionAttempts
                                            THEN "cancel" ELSE "tell",
                                  ![a].version = runs[leaving[a].run].version]
    /\ UNCHANGED <<runs, gone, receipt, audits, asked, answers, worker, calls, losses>>

\* Fault: the version read is not compared.
FaultyAtVersion(a) == TRUE

AtVersion(a) == runs[leaving[a].run].version = leaving[a].version

\* CancelRunCanonical at the version that was read; a lost race is tried again.
Abandon(a) ==
    /\ leaving[a].pc = "cancel"
    /\ LET r == leaving[a].run
       IN  \/ /\ Terminal(r)
              /\ leaving' = [leaving EXCEPT ![a].pc = "tell"]
              /\ UNCHANGED runs
           \/ /\ ~Terminal(r) /\ ~AtVersion(a)
              /\ leaving' = [leaving EXCEPT ![a].pc = "read", ![a].attempt = @ + 1]
              /\ UNCHANGED runs
           \/ /\ ~Terminal(r) /\ AtVersion(a)
              /\ runs' = Cancelled(r, "abandoned")
              /\ leaving' = [leaving EXCEPT ![a].pc = "tell"]
    /\ UNCHANGED <<gone, receipt, audits, asked, answers, worker, calls, losses>>

\* The worker is told either way.
TellWorker(a) ==
    /\ leaving[a].pc = "tell"
    /\ Tell(leaving[a].run, "client_cancelled")
    /\ leaving' = [leaving EXCEPT ![a] = HasLeft]
    /\ UNCHANGED <<gone, receipt, audits, asked, answers, work, owner, acks, calls, losses>>

-----------------------------------------------------------------------------
Next ==
    \/ \E r \in Runs : Move(r) \/ Deliver(r) \/ Complete(r) \/ Stop(r) \/ Acknowledge(r) \/ Lose(r)
                       \/ Drop(r) \/ Sweep(r) \/ Withdraw(r)
    \/ \E c \in Callers : \/ \E r \in Runs, k \in Keys : Call(c, r, k)
                          \/ CancelUserRun(c) \/ Notify(c) \/ Respond(c)
    \/ \E a \in Abandoners : Leave(a) \/ ReadVersion(a) \/ Abandon(a) \/ TellWorker(a)

Spec == Init /\ [][Next]_vars

\* The recovery loop keeps sweeping, a connected worker reads its commands and its
\* acknowledgements are read; nobody need call, leave or finish.
Fairness ==
    \A r \in Runs : WF_vars(Sweep(r)) /\ WF_vars(Stop(r)) /\ WF_vars(Acknowledge(r))

-----------------------------------------------------------------------------
Versions == 1 .. MaxVersion + 1
RunRows == [life : {"active", "completed", "cancelled"}, version : Versions,
            by : {"none", "user", "abandoned", "withdrawal"}, active : BOOLEAN, sent : BOOLEAN]
Receipts == [run : Runs, accepted : BOOLEAN, version : Versions]
Requests == [pc : {"called"}, run : Runs, key : Keys]
Answering == [pc : {"notify", "read"}, run : Runs, key : Keys, accepted : BOOLEAN, version : Versions]
Answers == [key : Keys, run : Runs, result : {"unavailable", "conflict", "accepted", "terminal"},
            version : Versions \cup {0}]
Abandonments == [pc : {"read", "cancel", "tell"}, run : Runs, attempt : Nat, version : Versions \cup {0}]

TypeOK ==
    /\ runs \in [Runs -> RunRows]
    /\ gone \subseteq Runs
    /\ receipt \in [Keys -> {NoReceipt} \cup Receipts]
    /\ audits \in [Runs -> Nat]
    /\ asked \in [Callers -> {NotCalling} \cup Requests \cup Answering]
    /\ answers \subseteq Answers
    /\ leaving \in [Abandoners -> {NotLeaving, HasLeft} \cup Abandonments]
    /\ work \in [Runs -> {"none", "working", "stopped"}]
    /\ owner \in [Runs -> BOOLEAN]
    /\ told \in [Runs -> SUBSET Versions] /\ acks \in [Runs -> SUBSET Versions]
    /\ calls \in 0 .. MaxCalls /\ losses \in 0 .. MaxLosses

\* Repeating a key repeats the answer: whoever asks, however often, and whatever became of
\* the run meanwhile, a key is answered for one run, with one result and one state
\* (CancelUserRun; "Concurrent duplicates and lost-response retries replay the original
\* result").
SameAnswer ==
    \A x, y \in {z \in answers : z.result \in {"accepted", "terminal"}} : x.key = y.key => x = y

\* The keys whose receipt says that they stopped the run.
StoppedBy(r) == {k \in Keys : receipt[k] # NoReceipt /\ receipt[k].run = r /\ receipt[k].accepted}

\* A run is stopped by a person once: one key's receipt says so, one audit row, and the
\* outcome is theirs; an abandonment or completion that won is not claimed.
StoppedOnce ==
    \A r \in Runs : /\ audits[r] = Cardinality(StoppedBy(r))
                    /\ audits[r] = IF runs[r].by = "user" THEN 1 ELSE 0

\* A run reported as stopped is not being executed (execution_active, RECONCILED): only an
\* exit, an assignment never sent or a lapsed lease releases it.
ReleasedAfterExit == \A r \in Runs : ~runs[r].active => work[r] # "working"

\* A run that ended keeps its outcome and version, whoever tries to end it again.
OutcomeFixed ==
    [][\A r \in Runs : Terminal(r) => /\ runs'[r].life = runs[r].life
                                      /\ runs'[r].by = runs[r].by
                                      /\ runs'[r].version = runs[r].version]_vars

\* An abandonment never ends a run at a version its sender has not read.
AbandonedAsRead ==
    [][\A r \in Runs : runs[r].by # "abandoned" /\ runs'[r].by = "abandoned" =>
           \E a \in Abandoners : leaving[a].pc = "cancel" /\ leaving[a].run = r
                                 /\ leaving[a].version = runs[r].version]_vars

\* The receipts of stops are true: a key has one answer, a stop one receipt and one
\* audit row.
ReceiptsHold == TypeOK /\ SameAnswer /\ StoppedOnce

\* A run that ended has ended: its outcome stays, it was abandoned only as its sender
\* read it, and it is called released only when nothing executes it.
EndedForGood == []ReleasedAfterExit /\ OutcomeFixed /\ AbandonedAsRead

\* A person's stop reaches the end: whatever command is lost or worker disconnects, the
\* execution is eventually known to be over.
StopCompletes == \A r \in Runs : runs[r].by = "user" ~> ~runs[r].active
=============================================================================
