---------------------------- MODULE Delegations ----------------------------
(***************************************************************************)
(* Tasks that a turn of the assistant hands to specialists: team.delegate, *)
(* the life of the delegated run, the user's consent to the tools that     *)
(* leave the machine, and the join that starts the follow-up turn once     *)
(* every task has ended (repository/delegation*.go, service/team).         *)
(*                                                                         *)
(* One parent run in one conversation.  A request is one CallTeamTool; it  *)
(* reads and writes the store in several transactions, so two of them, a   *)
(* change of policy or the end of the turn can come between.  A delegation *)
(* is known by the tool call that asked for it (its row is unique by it).  *)
(* The run store's lifecycle is RunLifecycle's; here only what a           *)
(* transition does to delegations is kept.                                 *)
(***************************************************************************)
EXTENDS Naturals, Sequences, FiniteSets

CONSTANTS
  Calls,        \* tool call ids of the parent run
  Requests,     \* calls of CallTeamTool in flight at once
  MaxPerRun,    \* maxDelegationsPerRun
  MaxAttempts,  \* bound: assignments of the parent run
  MaxRequests,  \* bound: calls of CallTeamTool
  MaxEdits      \* bound: changes of the policy or of the specialist

VARIABLES
  parent,    \* agent_runs.status of the parent run
  attempt,   \* its execution_attempt_id, counted
  session,   \* sessions.deletion_state of the conversation
  policy,    \* policy of team.delegate
  profile,   \* the specialist is enabled with the offered revision granted
  approval,  \* the user's approval of each call, given before it is made
  task,      \* delegations row of each call with its run, or None
  card,      \* state in the last delegation event of each call
  results,   \* follow-up turns: the outcomes each was given
  req,       \* what each request has done
  asked,     \* requests so far
  edits      \* edits so far

vars == <<parent, attempt, session, policy, profile, approval, task, card, results, req, asked, edits>>

Terminal == {"completed", "failed", "cancelled"}
Executing == {"running", "waiting_approval", "recovering"}

None == [child |-> "none"]
Idle == [pc |-> "idle"]

Made(t) == {c \in Calls : t[c] # None}

\* What the request's tools need: nothing remote, remote tools it can do
\* without, or remote tools the specialist requires.
Needs == {"local", "optional", "required"}

Init ==
  /\ parent = "running" /\ attempt = 1 /\ session = "active"
  /\ policy \in {"safe", "approval_required"} /\ profile = TRUE
  /\ approval = [c \in Calls |-> "approved"]
  /\ task = [c \in Calls |-> None] /\ card = [c \in Calls |-> "none"]
  /\ results = <<>>
  /\ req = [r \in Requests |-> Idle] /\ asked = 0 /\ edits = 0

-----------------------------------------------------------------------------
\* recovering is shown as running, and a queued task that waits for consent
\* as waiting_consent.
displayedState(d) ==
  CASE d.child = "recovering" -> "running"
    [] d.child = "queued" /\ d.consent = "pending" -> "waiting_consent"
    [] OTHER -> d.child

\* delegation.updated goes to the parent's conversation unless it is being
\* deleted.
Report(t, cs) ==
  IF session = "active"
  THEN [c \in Calls |-> IF c \in cs THEN displayedState(t[c]) ELSE card[c]]
  ELSE card

Outstanding(t) == \E c \in Made(t) : t[c].child \notin Terminal

Joins(t, p) ==
  /\ \E c \in Made(t) : ~t[c].joined
  /\ session = "active" /\ p = "completed"
  /\ ~Outstanding(t)

\* maybeJoinTx: the outcomes become one message, every row is joined and the
\* follow-up run is queued, or nothing happens.
MaybeJoin(t, p) ==
  LET unjoined == {c \in Made(t) : ~t[c].joined} IN
  IF Joins(t, p)
  THEN /\ task' = [c \in Calls |-> IF c \in unjoined THEN [t[c] EXCEPT !.joined = TRUE] ELSE t[c]]
       /\ results' = Append(results, [c \in unjoined |-> t[c].child])
  ELSE task' = t /\ UNCHANGED results

\* delegationUpdatedTx: the calls whose card the transition rewrites.
Updated(c, from, to) ==
  IF displayedState(from) = displayedState([from EXCEPT !.child = to]) THEN {} ELSE {c}

\* transitionRunTx for the run of a task.
ChildTransition(c, to) ==
  LET t == [task EXCEPT ![c].child = to] IN
  /\ card' = Report(t, Updated(c, task[c], to))
  /\ IF to \in Terminal THEN MaybeJoin(t, parent) ELSE task' = t /\ UNCHANGED results


\* stopDelegatedTasksTx: the tasks that end with their turn.
Stopped(to) ==
  IF to \in {"failed", "cancelled"} THEN {c \in Made(task) : task[c].child \notin Terminal} ELSE {}

\* transitionRunTx for the parent run.
ParentEnds(to) ==
  LET t == [c \in Calls |-> IF c \in Stopped(to) THEN [task[c] EXCEPT !.child = "cancelled"] ELSE task[c]] IN
  /\ parent' = to
  /\ card' = Report(t, Stopped(to))
  /\ MaybeJoin(t, to)

-----------------------------------------------------------------------------
(* team.delegate.                                                          *)

\* delegationAssignmentCurrent
Current(r) == req[r].attempt = attempt /\ parent = "running" /\ session = "active"

Reply(r) == req' = [req EXCEPT ![r] = Idle]

Goto(r, pc) == req' = [req EXCEPT ![r].pc = pc]

\* A worker of the current assignment calls the tool, perhaps again.
Call(r, c, args) ==
  /\ parent = "running" /\ session = "active" /\ asked < MaxRequests
  /\ req[r] = Idle
  /\ req' = [req EXCEPT ![r] = [pc |-> "check", call |-> c, args |-> args, attempt |-> attempt,
                                policy |-> "none", needs |-> "local"]]
  /\ asked' = asked + 1
  /\ UNCHANGED <<parent, attempt, session, policy, profile, approval, task, card, results, edits>>

\* The assignment, then the delegation this call already made.
Check(r) ==
  /\ req[r].pc = "check"
  /\ IF Current(r) /\ task[req[r].call] = None THEN Goto(r, "admit") ELSE Reply(r)
  /\ UNCHANGED <<parent, attempt, session, policy, profile, approval, task, card, results, asked, edits>>

\* admitDelegation, before the approval is spent and again after.  What the
\* specialist's tools need depends on the catalogue of the moment.
Admit(r) ==
  /\ req[r].pc \in {"admit", "readmit"}
  /\ \/ /\ profile /\ Cardinality(Made(task)) < MaxPerRun
        /\ \E n \in Needs :
             req' = [req EXCEPT ![r].pc = IF @ = "admit" THEN "policy" ELSE "create",
                                ![r].needs = n]
     \/ /\ ~profile \/ Cardinality(Made(task)) >= MaxPerRun
        /\ Reply(r)
  /\ UNCHANGED <<parent, attempt, session, policy, profile, approval, task, card, results, asked, edits>>

\* The policy; an approval is consumed for the arguments it was given for.
Consume(r) ==
  LET c == req[r].call IN
  /\ req[r].pc = "policy"
  /\ \/ /\ policy = "safe"
        /\ req' = [req EXCEPT ![r].pc = "readmit", ![r].policy = policy]
        /\ UNCHANGED approval
     \/ /\ policy = "approval_required" /\ approval[c] = "approved" /\ req[r].args = "asked"
        /\ approval' = [approval EXCEPT ![c] = "consumed"]
        /\ req' = [req EXCEPT ![r].pc = "readmit", ![r].policy = policy]
     \/ /\ \/ policy = "disabled"
           \/ policy = "approval_required" /\ ~(approval[c] = "approved" /\ req[r].args = "asked")
        /\ Reply(r) /\ UNCHANGED approval
  /\ UNCHANGED <<parent, attempt, session, policy, profile, task, card, results, asked, edits>>

\* What CreateDelegation checks again inside its transaction.
Creatable(r) ==
  /\ Current(r) /\ task[req[r].call] = None
  /\ policy = req[r].policy /\ profile
  /\ Cardinality(Made(task)) < MaxPerRun

CreateDelegation(r) ==
  LET c == req[r].call
      consent == IF req[r].needs = "local" THEN "" ELSE "pending"
      t == [task EXCEPT ![c] =
              [child |-> "queued", args |-> req[r].args, consent |-> consent,
               required |-> req[r].needs = "required", tools |-> "local",
               ran |-> FALSE, joined |-> FALSE]] IN
  /\ req[r].pc = "create"
  /\ \/ Creatable(r) /\ task' = t /\ card' = Report(t, {c})
     \/ ~Creatable(r) /\ UNCHANGED <<task, card>>
  /\ Reply(r)
  /\ UNCHANGED <<parent, attempt, session, policy, profile, approval, results, asked, edits>>

-----------------------------------------------------------------------------
(* The delegated run.                                                      *)

\* The claim query holds back a task that waits for consent.
Claimable(c) == task[c].child = "queued" /\ task[c].consent # "pending"

Claim(c) ==
  /\ Claimable(c)
  /\ task' = [task EXCEPT ![c].child = "running", ![c].ran = TRUE]
  /\ card' = Report(task', Updated(c, task[c], "running"))
  /\ UNCHANGED <<parent, attempt, session, policy, profile, approval, results, req, asked, edits>>

\* An approval is asked for or decided, the worker is lost, the run requeued.
Moves == {<<"running", "waiting_approval">>, <<"waiting_approval", "running">>,
          <<"running", "recovering">>, <<"waiting_approval", "recovering">>,
          <<"recovering", "running">>, <<"recovering", "queued">>, <<"running", "queued">>}

ChildMoves(c, to) ==
  /\ task[c] # None /\ <<task[c].child, to>> \in Moves
  /\ ChildTransition(c, to)
  /\ UNCHANGED <<parent, attempt, session, policy, profile, approval, req, asked, edits>>

\* The worker reports, a user cancels, or the queue's bound runs out: it covers
\* every queued run, the ones that wait for consent too.
MayEnd(c, to) ==
  \/ task[c].child \in Executing
  \/ task[c].child = "queued" /\ to # "completed"

ChildEnds(c, to) ==
  /\ task[c] # None /\ MayEnd(c, to)
  /\ ChildTransition(c, to)
  /\ UNCHANGED <<parent, attempt, session, policy, profile, approval, req, asked, edits>>

\* pendingDelegationEgressTx
Undecided(c) ==
  task[c] # None /\ session = "active" /\ task[c].consent = "pending" /\ task[c].child = "queued"

\* The frozen tools of the queued run are widened and the card rewritten.
GrantDelegationEgress(c) ==
  /\ Undecided(c)
  /\ task' = [task EXCEPT ![c].consent = "granted", ![c].tools = "all"]
  /\ card' = Report(task', {c})
  /\ UNCHANGED <<parent, attempt, session, policy, profile, approval, results, req, asked, edits>>

\* A task that requires the tools is cancelled, which may join; one that does
\* not is left in the queue.
Decline(c) ==
  LET t == [task EXCEPT ![c].consent = "declined"]
      ended == [t EXCEPT ![c].child = "cancelled"] IN
  IF task[c].required
  THEN MaybeJoin(ended, parent) /\ card' = Report(ended, {c})
  ELSE task' = t /\ card' = Report(t, {c}) /\ UNCHANGED results

DeclineDelegationEgress(c) ==
  /\ Undecided(c)
  /\ Decline(c)
  /\ UNCHANGED <<parent, attempt, session, policy, profile, approval, req, asked, edits>>

-----------------------------------------------------------------------------
(* The turn, the conversation and the settings around them.                *)

TurnEnds(to) ==
  /\ parent \in {"running", "recovering"} /\ (parent = "recovering" => to # "completed")
  /\ ParentEnds(to)
  /\ UNCHANGED <<attempt, session, policy, profile, approval, req, asked, edits>>

\* The worker is lost, and another is assigned.
TurnRecovers ==
  /\ \/ parent = "running" /\ parent' = "recovering" /\ UNCHANGED attempt
     \/ parent = "recovering" /\ attempt < MaxAttempts /\ parent' = "running" /\ attempt' = attempt + 1
  /\ UNCHANGED <<session, policy, profile, approval, task, card, results, req, asked, edits>>

\* BeginSessionDeletion: the conversation is marked and its unfinished runs are
\* cancelled in the same transaction; nothing is reported to it any more.
BeginSessionDeletion ==
  LET ends == parent \notin Terminal
      stops(c) == ends /\ task[c] # None /\ task[c].child \notin Terminal IN
  /\ session = "active" /\ session' = "deleting"
  /\ parent' = IF ends THEN "cancelled" ELSE parent
  /\ task' = [c \in Calls |-> IF stops(c) THEN [task[c] EXCEPT !.child = "cancelled"] ELSE task[c]]
  /\ UNCHANGED <<attempt, policy, profile, approval, card, results, req, asked, edits>>

SettingsChange ==
  /\ edits < MaxEdits /\ edits' = edits + 1
  /\ \/ policy' \in {"safe", "approval_required", "disabled"} \ {policy} /\ UNCHANGED profile
     \/ profile' = ~profile /\ UNCHANGED policy
  /\ UNCHANGED <<parent, attempt, session, approval, task, card, results, req, asked>>

-----------------------------------------------------------------------------

Step(r) == Check(r) \/ Admit(r) \/ Consume(r) \/ CreateDelegation(r)

Next ==
  \/ \E r \in Requests :
       \/ Step(r)
       \/ \E c \in Calls, args \in {"asked", "changed"} : Call(r, c, args)
  \/ \E c \in Calls :
       \/ Claim(c) \/ GrantDelegationEgress(c) \/ DeclineDelegationEgress(c)
       \/ \E to \in Executing \cup {"queued"} : ChildMoves(c, to)
       \/ \E to \in Terminal : ChildEnds(c, to)
  \/ \E to \in Terminal : TurnEnds(to)
  \/ TurnRecovers \/ BeginSessionDeletion \/ SettingsChange

Spec == Init /\ [][Next]_vars

\* A turn ends (its lease or its deadline does it otherwise), and so does a task:
\* a lease bounds an execution, the queue's bound a wait.
Fairness ==
  /\ WF_vars(\E to \in Terminal : TurnEnds(to))
  /\ \A c \in Calls : WF_vars(\E to \in Terminal : ChildEnds(c, to))

-----------------------------------------------------------------------------

TypeOK ==
  /\ parent \in Terminal \cup {"running", "recovering"} /\ session \in {"active", "deleting"}
  /\ \A c \in Made(task) :
       /\ task[c].child \in Terminal \cup Executing \cup {"queued"}
       /\ task[c].consent \in {"", "pending", "granted", "declined"}
  /\ card \in [Calls -> {"none", "queued", "waiting_consent", "running", "waiting_approval"} \cup Terminal]

\* However many calls of team.delegate race, one turn never hands out more tasks
\* than its limit (admitDelegation counts before the approval, CreateDelegation
\* after).
CapHeld == Cardinality(Made(task)) <= MaxPerRun

\* A task is created only with the leave that holds at that moment: the policy
\* that let the call through is still the policy, an approval was spent on these
\* very arguments, and the specialist is still enabled at the offered revision.
CreatedWithLeave ==
  [][\A c \in Calls : task[c] = None /\ task'[c] # None =>
       /\ profile
       /\ \/ policy = "safe"
          \/ policy = "approval_required" /\ approval[c] = "consumed" /\ task'[c].args = "asked"]_vars

\* No task outlives a turn that failed or was cancelled, a call of
\* team.delegate that was still under way included.
NoOrphans == parent \in {"failed", "cancelled"} => \A c \in Made(task) : task[c].child \in Terminal

\* A completed turn gets its follow-up in the transaction that ends its last
\* task, or its own: one follow-up, which tells the outcome of every task once
\* and as it was.  No other turn gets one.
JoinsOnceAndWhole ==
  /\ results # <<>> => parent = "completed"
  /\ (parent = "completed" /\ session = "active" /\ Made(task) # {}
        /\ \A c \in Made(task) : task[c].child \in Terminal) =>
       results = <<[c \in Made(task) |-> task[c].child]>>

\* What the conversation shows of a task is the state the task is in: no
\* transition, decision or stop forgets to report itself.
CardIsCurrent == session = "active" => \A c \in Made(task) : card[c] = displayedState(task[c])

\* A task runs with tools that leave the machine only after the user granted
\* them, and a task that cannot do without them runs only then.
ConsentBeforeUse ==
  \A c \in Made(task) :
    /\ task[c].tools = "all" => task[c].consent = "granted"
    /\ task[c].ran => /\ task[c].consent # "pending"
                      /\ task[c].required => task[c].consent = "granted"

\* Every task is answered for in the end: its outcome reaches a follow-up turn,
\* or the turn that asked failed or was cancelled, or the conversation is gone.
AllAnswered ==
  \A c \in Calls : task[c] # None =>
    \/ results # <<>> /\ c \in DOMAIN results[1]
    \/ parent \in {"failed", "cancelled"}
    \/ session = "deleting"
EveryTaskAnswered == []<>AllAnswered

=============================================================================
