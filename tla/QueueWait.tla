------------------------------ MODULE QueueWait ------------------------------
(***************************************************************************)
(* The sweep over the queued runs: what it records of them, which bounds   *)
(* end them, and what it tells the user, while workers come and go and     *)
(* runs are claimed, requeued and cancelled between its steps.             *)
(*                                                                         *)
(* up        the workers that are connected and fresh                      *)
(* row       per run, the durable part: status, the queue reason, the time *)
(*           banked from earlier intervals, the age of the open one, and   *)
(*           how long nothing has been able to serve it (None: no such     *)
(*           interval).  Ages grow with the clock, up to MaxWait.          *)
(* tracked   unavailablePending: lost in a restart                         *)
(* owed      the sweeps connections and disconnections have asked for      *)
(* sweep     the pass under way, if any; availabilityMu admits one         *)
(* told      what the user was told last, since the run was queued         *)
(* waited    how long a run has really been queued                         *)
(***************************************************************************)
EXTENDS Integers, FiniteSets

CONSTANTS Runs, Workers,
          Serves,           \* Serves[r]: the workers that satisfy the route of r
          MaxWait,          \* the bound on the whole wait
          NoWorkerTimeout,  \* the bound on a wait nothing can end
          MaxClaims,        \* how often runs are claimed in a behaviour
          MaxConnects,      \* how often workers connect
          MaxAborts,        \* how many passes fail
          Restarts          \* BOOLEAN: the orchestrator restarts

VARIABLES up, row, tracked, owed, sweep, told, waited, claims, connects, aborts

vars == <<up, row, tracked, owed, sweep, told, waited, claims, connects, aborts>>

None == -1
Nothing == [busy |-> FALSE]

Least(a, b) == IF a <= b THEN a ELSE b
Older(a) == IF a = None THEN None ELSE Least(a + 1, MaxWait)

Queued(r) == row[r].status = "queued"
Routable(r) == \E w \in up : w \in Serves[r]
Total(c) == Least(c.banked + c.open, MaxWait)

Init ==
    /\ up = {}
    /\ row = [r \in Runs |-> [status |-> "queued", reason |-> "none", banked |-> 0, open |-> 0, unroutable |-> None]]
    /\ tracked = [r \in Runs |-> "no"]
    /\ owed = {}
    /\ sweep = Nothing
    /\ told = [r \in Runs |-> "nothing"]
    /\ waited = [r \in Runs |-> 0]
    /\ claims = 0 /\ connects = 0 /\ aborts = 0

-----------------------------------------------------------------------------
(* Around the sweep                                                        *)

Tick ==
    /\ \E r \in Runs : Queued(r) /\ waited[r] < MaxWait
    /\ row' = [r \in Runs |-> IF Queued(r) THEN [row[r] EXCEPT !.open = Least(@ + 1, MaxWait), !.unroutable = Older(@)]
                              ELSE row[r]]
    /\ waited' = [r \in Runs |-> IF Queued(r) THEN Least(waited[r] + 1, MaxWait) ELSE waited[r]]
    /\ UNCHANGED <<up, tracked, owed, sweep, told, claims, connects, aborts>>

\* A pass seeds what is already lost before the worker is there, and another
\* follows when it is.
ConnectWorker(w) ==
    /\ w \notin up /\ connects < MaxConnects
    /\ up' = up \union {w}
    /\ owed' = owed \union {"connected"}
    /\ connects' = connects + 1
    /\ UNCHANGED <<row, tracked, sweep, told, waited, claims, aborts>>

SeedRegistry ==
    /\ connects < MaxConnects
    /\ owed' = owed \union {"seed"}
    /\ UNCHANGED <<up, row, tracked, sweep, told, waited, claims, connects, aborts>>

Disconnect(w) ==
    /\ w \in up
    /\ up' = up \ {w}
    /\ owed' = owed \union {"disconnected"}
    /\ UNCHANGED <<row, tracked, sweep, told, waited, claims, connects, aborts>>

\* queueClockUpdate, out of the queue: the open interval is banked and the
\* reason cleared.
Left(c) == [c EXCEPT !.banked = Least(@ + c.open, MaxWait), !.open = 0, !.unroutable = None, !.reason = "none"]

Claim(r) ==
    /\ Queued(r) /\ Routable(r) /\ claims < MaxClaims
    /\ row' = [row EXCEPT ![r] = [Left(@) EXCEPT !.status = "running"]]
    /\ told' = [told EXCEPT ![r] = "nothing"]
    /\ claims' = claims + 1
    /\ UNCHANGED <<up, tracked, owed, sweep, waited, connects, aborts>>

Requeue(r) ==
    /\ row[r].status = "running"
    /\ row' = [row EXCEPT ![r] = [@ EXCEPT !.status = "queued", !.open = 0, !.unroutable = None]]
    /\ UNCHANGED <<up, tracked, owed, sweep, told, waited, claims, connects, aborts>>

EndRun(r) ==
    /\ row[r].status \in {"queued", "running"}
    /\ row' = [row EXCEPT ![r] = [Left(@) EXCEPT !.status = "ended"]]
    /\ UNCHANGED <<up, tracked, owed, sweep, told, waited, claims, connects, aborts>>

\* The rows stay; what the process knew is gone.
Restart ==
    /\ Restarts
    /\ up' = {} /\ owed' = {} /\ sweep' = Nothing
    /\ tracked' = [r \in Runs |-> "no"]
    /\ told' = [r \in Runs |-> "nothing"]
    /\ UNCHANGED <<row, waited, claims, connects, aborts>>

-----------------------------------------------------------------------------
(* The sweep                                                               *)

\* What each cause publishes.  The reaper's own pass is one of "disconnected".
Losses == {"connected", "disconnected"}
Restorations == {"connected"}

StartSweep(cause) ==
    /\ ~sweep.busy
    /\ cause \in owed \union {"disconnected"}
    /\ owed' = owed \ {cause}
    /\ sweep' = [busy |-> TRUE, cause |-> cause, page |-> [r \in {q \in Runs : Queued(q)} |-> row[r]],
                 todo |-> {r \in Runs : Queued(r)}, item |-> "none", step |-> "next", seen |-> "none",
                 next |-> [r \in Runs |-> "no"], pending |-> {r \in Runs : Queued(r) /\ tracked[r] # "no"}]
    /\ UNCHANGED <<up, row, tracked, told, waited, claims, connects, aborts>>

At(s) == sweep.busy /\ sweep.step = s

\* ValidateRouting, against the workers of this moment.
Validate(r) ==
    /\ At("next") /\ r \in sweep.todo
    /\ sweep' = [sweep EXCEPT !.item = r, !.todo = @ \ {r}, !.step = "record",
                              !.seen = IF Routable(r) THEN "none" ELSE "no_worker"]
    /\ UNCHANGED <<up, row, tracked, owed, told, waited, claims, connects, aborts>>

\* queuedPendingWaitReasonTx, inside the transaction that writes.
StillQueued(r) == Queued(r)

\* ObserveQueuedRunRouting, unless the page says the same already.
recordQueueWaitObservation ==
    /\ At("record")
    /\ LET r == sweep.item
       IN row' = IF sweep.page[r].reason = sweep.seen \/ ~StillQueued(r) \/ row[r].reason = sweep.seen THEN row
                 ELSE [row EXCEPT ![r].reason = sweep.seen,
                                  ![r].unroutable = IF sweep.seen = "none" THEN None ELSE IF @ = None THEN 0 ELSE @]
    /\ sweep' = [sweep EXCEPT !.step = "expire"]
    /\ UNCHANGED <<up, tracked, owed, told, waited, claims, connects, aborts>>

\* Which bound the run has reached, by the clock on the page.
Overdue(r) ==
    IF sweep.seen = "no_worker" /\ sweep.page[r].unroutable >= NoWorkerTimeout THEN "no_worker"
    ELSE IF Total(sweep.page[r]) >= MaxWait THEN "expired" ELSE "no"

expireOverdueQueuedRun ==
    /\ At("expire")
    /\ LET r == sweep.item
       IN IF Overdue(r) # "no" /\ StillQueued(r)
          THEN /\ row' = [row EXCEPT ![r] = [Left(@) EXCEPT !.status = "ended", !.reason = Overdue(r)]]
               /\ tracked' = [tracked EXCEPT ![r] = "no"]
               /\ sweep' = [sweep EXCEPT !.step = "next", !.pending = @ \ {r}]
          ELSE /\ sweep' = [sweep EXCEPT !.step = IF sweep.seen = "none" THEN "next" ELSE "notice"]
               /\ UNCHANGED <<row, tracked>>
    /\ UNCHANGED <<up, owed, told, waited, claims, connects, aborts>>

AlreadyTold(r) == tracked[r] = "told"

\* AppendPendingRunNotice, for a run that is still queued.
PublishLoss ==
    /\ At("notice")
    /\ LET r == sweep.item
       IN IF sweep.cause \notin Losses \/ AlreadyTold(r)
          THEN /\ sweep' = [sweep EXCEPT !.step = "next", !.next[r] = IF AlreadyTold(r) THEN "told" ELSE "known"]
               /\ UNCHANGED <<tracked, told>>
          ELSE IF Queued(r)
          THEN /\ sweep' = [sweep EXCEPT !.step = "next", !.next[r] = "told"]
               /\ tracked' = [tracked EXCEPT ![r] = "told"]
               /\ told' = [told EXCEPT ![r] = IF @ = "lost" THEN "lost_twice" ELSE "lost"]
          ELSE /\ sweep' = [sweep EXCEPT !.step = "next"]
               /\ tracked' = [tracked EXCEPT ![r] = "no"]
               /\ UNCHANGED told
    /\ UNCHANGED <<up, row, owed, waited, claims, connects, aborts>>

Restored == {r \in sweep.pending : tracked[r] # "no" /\ sweep.next[r] = "no"}

\* One restoration at a time: the notice is refused for a run that has left.
PublishRestoration ==
    /\ At("next") /\ sweep.todo = {} /\ sweep.cause \in Restorations
    /\ \E r \in Restored :
          /\ told' = IF Queued(r) THEN [told EXCEPT ![r] = "restored"] ELSE told
          /\ tracked' = [tracked EXCEPT ![r] = "no"]
    /\ UNCHANGED <<up, row, owed, sweep, waited, claims, connects, aborts>>

\* A pass that may not publish a restoration keeps the loss for one that may.
Carried(r) == IF sweep.cause \notin Restorations /\ r \in Restored /\ tracked[r] = "told" THEN "told" ELSE sweep.next[r]

EndSweep ==
    /\ At("next") /\ sweep.todo = {}
    /\ sweep.cause \in Restorations => Restored = {}
    /\ tracked' = [r \in Runs |-> Carried(r)]
    /\ sweep' = Nothing
    /\ UNCHANGED <<up, row, owed, told, waited, claims, connects, aborts>>

\* The pass is advisory: an error or its timeout ends it where it is.
AbortSweep ==
    /\ sweep.busy /\ aborts < MaxAborts
    /\ sweep' = Nothing
    /\ aborts' = aborts + 1
    /\ UNCHANGED <<up, row, tracked, owed, told, waited, claims, connects>>

-----------------------------------------------------------------------------
Pass == (\E r \in Runs : Validate(r)) \/ recordQueueWaitObservation \/ expireOverdueQueuedRun
        \/ PublishLoss \/ PublishRestoration \/ EndSweep

Environment == Tick \/ SeedRegistry \/ Restart
               \/ (\E w \in Workers : ConnectWorker(w) \/ Disconnect(w))
               \/ (\E r \in Runs : Claim(r) \/ Requeue(r) \/ EndRun(r))

Sweeps == \E cause \in {"seed", "connected", "disconnected"} : StartSweep(cause)

Next == Pass \/ Sweeps \/ AbortSweep \/ Environment

Spec == Init /\ [][Next]_vars

\* Time passes, the reaper's loop goes round, and its passes do not fail for
\* ever; a run that was claimed comes back or ends.
Fairness ==
    /\ WF_vars(Tick) /\ WF_vars(Pass) /\ WF_vars(Sweeps)
    /\ WF_vars(\E r \in Runs : Requeue(r) \/ (row[r].status = "running" /\ EndRun(r)))

-----------------------------------------------------------------------------
(* Properties                                                              *)

\* The rows are what the queue's code writes.
TypeOK ==
    /\ \A r \in Runs :
          /\ row[r].status \in {"queued", "running", "ended"}
          /\ row[r].banked \in 0..MaxWait /\ row[r].open \in 0..MaxWait
          /\ row[r].unroutable \in None..MaxWait
          /\ row[r].status = "running" => row[r].reason = "none" /\ row[r].unroutable = None
    /\ told \in [Runs -> {"nothing", "lost", "lost_twice", "restored"}]

\* However often a run leaves the queue and returns, and whether or not the
\* orchestrator restarts in between, the durable clock knows all of its wait.
ClockIsExact == \A r \in Runs : Queued(r) => Total(row[r]) = waited[r]

\* A run is ended for waiting too long only after it has.
ExpiresWhenDue == \A r \in Runs : row[r].reason = "expired" => waited[r] >= MaxWait

\* While one orchestrator runs, a user is told of a loss once, until the run is
\* restored, claimed or ended, whatever the mixture of passes.
LossToldOnce == \A r \in Runs : told[r] # "lost_twice"

\* No run waits for ever.
EveryWaitEnds == \A r \in Runs : Queued(r) ~> ~Queued(r)

=============================================================================
