# TuringAgent: TLA+ models, checks and proofs

This directory is the verification project of TuringAgent. It models the parts
of the program whose correctness depends on the order in which several actors
act, or on a computation with many corner cases. TLC checks them on small
instances, and TLAPS proves the most important properties for instances of every
size. `PROJECT.json` lists the components, the runs, the source lines behind
every definition, the hazards, the findings and the theorems.

## 1. The system

TuringAgent is a self-hosted assistant.

| Part | Role | State it owns |
|---|---|---|
| orchestrator (Go) | gRPC services over one SQLite database | runs, jobs, tool calls, approvals, sessions, deletions, memory index, events, audit |
| agent runtime (Go) | workers that execute runs, one stream each to the orchestrator | active runs, pending approval resumes, model streams, tool connections |
| mcp-files, mcp-system (Go) | tool servers; mcp-files writes into a sandbox | files, path locks |
| memory vault | a directory of Markdown notes that the user edits as well | notes, residue of interrupted operations |
| client (Flutter) | conversations, approvals, settings | a projection of sessions, runs and events |
| `turing` (Go) | installs and configures the host | configuration files |

How the parts interact:

* A message becomes a run and a job in one transaction. When it would leave the
  machine, a person is shown what leaves and consents first. A worker claims the
  job, is sent the assignment, and reports its progress. A lease, heartbeats and
  a sweep detect workers that vanished.
* Inside the worker, a loop asks the model, runs the tools it asks for, and asks
  again. Each request is assembled to fit the context window.
* A tool call that needs consent becomes an approval. The user is shown a
  preview, decides, the worker resumes, and the tool server consumes the token
  exactly once.
* A turn may delegate a task to a specialist. The task is a session of its own
  below the chat. An automation fires a turn without anybody asking.
* Deleting a chat closes it, waits for its executors, deletes the delegation
  sessions first, has the sandbox and the vault cleaned, removes the rows and
  leaves a receipt. A client and a ticker may drive the same deletion at once.
* Every store operation is one transaction, and the database has one writer
  connection. That is why a repository operation is one action in the models.
  What is not atomic is everything between two transactions.

## 2. Modules

One module models one component. Its header says what it is about, its
`VARIABLES` are the state, an action bears the name of the function or handler it
models, and `Spec` allows every interleaving of them. Operators called
`Faulty...` are not part of the model: each is a mutated form of the definition
that follows it, kept to show that a property notices the mistake.

### The queue and the workers

| Module | Models | Left out or abstracted |
|---|---|---|
| `RunLifecycle` | what a client may rely on: states, versions, allowed edges | |
| `RunStore` | every operation on runs, jobs, assignments, tool calls and approvals | event and audit rows, message text, signatures; time is abstract: a lease is live, lapsed or overdue, an approval is due or not |
| `Dispatch` | registration, claims, delivery, heartbeats, reports, stops, the sweep and the teardown of streams, over `RunStore` | payloads; a dispatch is in flight for less than a lease, because DispatchPending gives up after five seconds |
| `ApprovalResume` | the worker's wait behind an approval, and the commit of the resume | what the tool then does |
| `QueueWait` | the durable clock of the queue, expiry, and what the user is told about missing workers | |
| `Routing` | the three versions of "this worker can serve this run": scan, claim and send | every dimension has two or three values |
| `Cancellation` | CancelRun with its receipts, the notice to the worker, redelivery, abandonment of a send without a key | the stop command follows the assignment on its stream; a lapsed lease means that the worker has stopped |

### Around a conversation

| Module | Models | Left out or abstracted |
|---|---|---|
| `SessionWithdrawal` | the deletion of a chat and its delegation sessions, their files and notes included | error codes, published events; an unavailable vault counts as cleaned, as in the code |
| `EventStreams` | append, publish, bounded and coalescing subscriptions, replay, delivery to watchers and senders | a page of a replay is sent in one step |
| `SessionList` | the list of conversations in the client, and the updates it merges | a title is its time of change; one page |
| `Delegations` | team.delegate, the life of a task, the join with its turn | wording, inherited snapshots; approvals are given before the call |
| `TeamProfiles` | profiles of specialists: shown, granted, offered, used | one specialist; a pattern is the set of tools it matches |
| `EgressConsent` | disclosure, acknowledgement, the checks at enqueue, in the worker and at each remote call | URL forms, limits and signatures |
| `Automations` | schedules, the claim of a due automation, edits, the frozen allowlist | field validation |
| `RunOutcomes`, `Migrations` | the migrations of stored rows and of legacy skills at a start, with a crash | the schema; the directory entry of an exported file is not flushed, as in the code |

### Inside the agent, and its memory

| Module | Models | Left out or abstracted |
|---|---|---|
| `AgentLoop` | the loop of a run: model turns, tool calls, records, failures, cancellation | whether a context fits is a choice; a call allowed by policy counts as free of side effects, as in the code |
| `ContextBudget` | the assembly of a request within the window, and recall to convergence | an estimate is the sum of the estimates of the parts |
| `Recall` | the search, ranking, budget and rendering of recalled messages | texts are sizes |
| `ChatStream` | the promise of a model stream: pieces in order, one end, nothing after it | |
| `OpenAIStream`, `OllamaStream` | the two readers that keep it, deadlines and drains included | arguments are sequences of pieces, or sets of paths |
| `McpConnection` | the handshake, requests, replay, cancellation and release of a tool connection; `Owned` tells the client made for one operation from the shared one | pages, event streams, redaction |
| `KeyedMutex`, `KeyedLocks` | the promise of the lock table, and the reference-counted table itself | |
| `InboxRemoval`, `ProfileApply`, `BeliefPromotion` | the three ways a proposal leaves the inbox, as system calls that may fail or be cut short by a crash, beside a user who edits the same files | `InboxRemoval` and `BeliefPromotion`: a crash keeps any subset of the directory operations not yet flushed; `ProfileApply`: a crash may tear the in-place write, and the editor does not act inside it |
| `MemoryEvidence` | the reconcile pass over notes, and the sessions they rest on | a walk is not atomic |
| `Frontmatter` | the rewriting of single keys of a note's front matter | anchors, multi-line flow, indented mappings |
| `NoteCache` | the cache of parsed notes | |

### Tools and files

| Module | Models | Left out or abstracted |
|---|---|---|
| `ApprovalPreview` | what an approver is shown, and what a grant is bound to | file mutations only; a preview is the content |
| `McpRegistry` | registration, discovery, import, policy, removal and the announcement of tools | one discovery for each server; bundled servers |
| `McpCredentials` | rotation of a token among calls and probes | the reader-writer lock is external |
| `FileWrites` | reads, creates and updates in mcp-files, their provenance, the sweep of a session's directories | one session and one path; signatures |
| `FileSearch` | listing and searching a tree under limits | the tree does not change meanwhile |

The modules `MCRunStore`, `MCQueue`, `MCSessions`, `MCAgent` and `MCTools` are
instances for TLC. `RunStoreSteps`, `RunStoreProofs`, `CancellationProofs`,
`SessionWithdrawalProofs` and `ApprovalPreviewProofs` hold the theorems about the
module they are named after. `KeyedLocks`, `McpCredentials` and `AgentLoop` end with
theirs.

### RunStore in more detail

`run` is the public state of a run (lifecycle, version, outcome reason, queue
wait reason). `exec` holds the execution columns of the same row (worker,
attempt, active flag, delivery state, lease). `job` is the queue entry. `call`
joins a tool call with its approval. `attempts` counts the attempt ids generated.
`sweep` is the recovery pass in progress.

* All lifecycle changes go through `applyRunTransition`, as in the code: it checks
  the state the run may come from, the outcome reasons allowed and the
  exhaustion of the version, and decides what happens to the queue wait reason.
* The model is open. Any caller may invoke any operation at any time with any
  assignment, replaced ones included. A refused operation writes nothing and is
  a stuttering step.
* A command that names a version commits only at the current version, so the
  named version is no parameter.
* `Restart` is a crash at any point followed by the first transaction of the
  startup recovery. The visits that follow are steps of their own, so a second
  crash can hit a half-finished recovery. Nothing else is served until the
  recovery has returned, as in `app.New`.
* `BeginSweep` takes the list of candidates; each visit is a later step, so a
  lease can be renewed between the two.
* `CheckBeacon` and `RecordToolCallBefore` are two steps, because the code reads
  the run before the transaction that inserts the call.

### SessionWithdrawal in more detail

A driver is one call of `withdrawSessionTree`. Its program counter stands between
any two transactions or cleaner calls, so drivers overtake each other, fail or
die anywhere. `row`, `receipt`, `retained` and `audits` are the rows of a session
and of its deletion. `entry`, `bound` and `disk` are a file's manifest row, its
recorded identity and its bytes. `writer` is a tool call in flight. `proposals`
and `cites` are what memory keeps about a session.

* `AdvanceSessionDeletion` is five actions, one for each outcome of its gates in
  the order of the code: completed already, executing, child pending, artifact
  pending, cascade. `Complete` and `Finish` are the external completion and the
  final mark, after the commit of the cascade.
* A file write is `ReserveWrite`, `InstallWrite`, then `FinalizeWrite`,
  `FailWrite` or `LoseReport`.
* Decisions about a memory proposal (`Promote`, `Reject`) are single steps,
  because they hold the lock that a deletion takes as well. Their outcomes
  include the failures between the file operation and the transaction. The steps
  inside are the subject of `InboxRemoval` and `BeliefPromotion`.
* `LateWrites` says whether a write in the tool server can outlive its run's
  acknowledged exit. The comment in `session_cleanup.go` assumes that it cannot;
  the checks and the proofs hold even if it can.
* Residue of an interrupted removal counts as the file.

## 3. Runs

`MCRunStore` checks `RunStore` alone. Each of the other four MC modules extends
one component and instantiates the rest of its subsystem several times, with
different constants, over variables of their own. A variable `part`, chosen from
the constant `Parts` in the initial state, says which instance is being checked.
Only that instance takes steps; the variables of the others keep one value. One
run therefore explores several instances one after another, and never their
product. A property of such a run is a conjunction of the properties of its
instances, each conjunct guarded by `part`; the comment above it lists what each
conjunct says.

| Run | Config | Instance | What it shows |
|---|---|---|---|
| `calls` | `RunStoreCalls` | one run, two calls, one worker, 2 attempts, version ≤ 6 | run, job, execution and calls stay in agreement; the attempt budget; an approval is good for one call; a stop holds its executor until it exits; a recovery deals with each run as its row says; `RunLifecycle` is implemented |
| `turns` | `RunStoreTurns` | three runs, two sessions, limit 1 | turns of a session in order; the limit also counts executors that were cancelled and have not exited |
| `uncertain` | `RunStoreUncertain` | as `calls` | finding 1 |
| `queue` | `Queue` | 8 parts | receipts; reports only by the owner; one executor at a time, across broken streams; an honest queue; worker and service agree on a resume |
| `queue_progress` | `QueueProgress` | 4 parts | ended runs stay ended; every run, wait and stop ends |
| `sessions` | `Sessions` | 14 parts | children first, deleted once; events in order; delegated tasks; automations; migrations; consent and profiles |
| `sessions_progress` | `SessionsProgress` | 6 parts | cleaners only over a quiet session, completion means gone; withdrawals, streams, lists, tasks, automations and starts settle |
| `agent` | `Agent` | 13 parts | the lock table; the vault under crashes and edits; the index; effects once; requests that fit; the promise of a stream |
| `agent_progress` | `AgentProgress` | 7 parts | locks, claims, moves, notes, runs, requests and streams end |
| `tools` | `Tools` | 9 parts | what was shown is what was granted; the registry; tokens; files and searches |
| `tools_progress` | `ToolsProgress` | 4 parts | announcements, rotations, sessions and calls end |
| `files_released` | `FilesReleased` | 1 part | finding 2 |

Deadlock is checked in the runs of `RunStore`. The other configurations say
`CHECK_DEADLOCK FALSE`: their parts have bounded work (a finite number of edits,
faults, messages) and come to rest when it is done.

A liveness property says of named state predicates that they hold again and again
(`[]<>`) or in the end (`<>[]`). Where a component promises that something leads to
something else, the predicate is "nothing is owed": the cause is absent or the effect
is there. The predicates of all parts are joined in one formula, so that TLC explores
the graph of a run once.

**Mutants.** For every property of every passing run, `PROJECT.json` names one
definition and one mutated form of it, of the kind a programming mistake would
produce: a dropped guard, a missing reset, a swapped order. With the mutated form
in place TLC finds the property violated.

**Bounds.** Every bound is a constant of its module (`Max...`, `Budget`, `Buffer`,
`Window`), tested in a guard. They are chosen so that the case a property is about
happens. Two attempts are enough for a late report of a replaced one. Two calls
are the least for which the state of one can be mistaken for that of the other;
three runs in two sessions the least for which order within a session and the
limit across sessions meet. Two drivers overtake each other at every point of the
saga. A queue of one entry overflows with two events. Two chunks or three lines
split a call in every way; three parties at a lock give a holder, one waiting and
one giving up. Recovery steps need two faults: one to interrupt, one to interrupt
the repair.

**Symmetry** is used for the two calls of `RunStoreCalls` only.

**Fairness.** `Spec` and `SpecPart` have none. `FairPart` adds weak fairness for
steps that a running program takes without being asked, each guarded by its part:

| What is fair | Why the code justifies it |
|---|---|
| the sweep, the expiry pass, the queue's clock, the deletion ticker, the scheduler's tick, the reconcile pass | they are driven by tickers of the service |
| a goroutine's next step: command loop, dispatcher, publisher, handler, executor, stream reader, file call | Go schedules runnable goroutines; locks held in between are modelled |
| the exit of an executor whose stop was delivered, the end of a delegated run | its context is cancelled, or its limits end it |
| the deadline and the drain timer of a model stream | timers of the program |

Environment steps are never fair: a user's edit, a crash, a fault, a lost message,
a new call. Strong fairness occurs twice. In `KeyedLocks`, for taking a token: a
Go channel hands a value to the goroutine that has waited longest, so a waiter is
not passed over for ever, although the token comes and goes. In
`SessionWithdrawal`, for starting a driver at a closed session: the ticker comes
back to it after every failure.

## 4. Findings

Both are disagreements between a comment and the code; `PROJECT.json` quotes the
lines.

1. *uncertain*: a recovering run that holds an undecided approval ends as
   `approval_delivery_failed`, although another of its approvals was consumed. The
   comments promise the uncertain outcome for every authorized call.
2. *files_released*: when the report of a first write was lost, a failed second
   write of the same path deletes the manifest row of the file on disk. The
   comment says that a failed second write cannot.

## 5. Proofs

A theorem holds for every value of the constants that satisfies the named
assumptions: any finite set of runs, callers or requests, any sets of workers, keys,
sessions and people, any bound. The assumptions say that the bounds are numbers (and
positive where the program's constant is), that a finite set is finite, and that a
mark such as `NoWorker` is not one of the things it marks the absence of. They are
`ASSUME`s of the modules, which TLC evaluates in the runs. In `McpCredentials` and
`AgentLoop`, which the runs instantiate, they are the hypothesis `ConstantsOK` of the
theorem.

Each proof has the same shape: an inductive invariant `IInv`, a lemma for every
action that it preserves `IInv`, and a last step that combines them. TLC checked every
`IInv` as an invariant of an instance before it was proved.

### RunStore (`RunStoreSteps`, `RunStoreProofs`)

`IInv` has ten parts. Eight are checked by the runs as well: `TypeOK`,
`JobRunAgreement`, `AttemptBudget`, `SessionTurnOrder`, `ConcurrencyLimit`,
`QueueReasonHonest`, `ApprovalsSettled` and `CompletionNeedsConsumption`. Two are
strengthenings:

* `EnqueueOrder`: runs are enqueued in the order of their ids. Without it an earlier
  turn could appear while a later one executes.
* `ApprovalShape`: a call that has an approval has left the states before the
  request. Without it a call could complete as one that never needed consent although
  its approval is pending.

`JobRunAgreement` carries the argument. A queued run has no executor, so a claim makes
the count in `ConcurrencyLimit` grow by one exactly where it has found room. The
agreement also fixes the owner of an executing run, so an operation that names a
replaced attempt finds no row to change. `EndsCloseCalls` (the step that ends a run
closes its calls) and `Refinement` (every step is a step of `RunLifecycle` or changes
nothing it can see) use the invariant.

Recovery is a section of its own:

* `StopsAreHeld`: while the lease lasts, a stop on its way to a worker ends only with
  the worker's acknowledgement.
* `RecoversExactly`: a run with an authorized call is never replayed; the sweep spares
  an assignment that was renewed or replaced since it was listed; when the startup
  recovery returns, nothing executes but what a user's stop still holds.

The last part of `RecoversExactly` is not inductive. It needs `StartupPending`: whatever
the startup recovery has still to settle is on its list. A crash in the middle makes a
new list, and no request is served before the list is empty, so nothing can join what
has to be settled.

### KeyedLocks

`IInv` relates the counts to the callers: `RefsExact` (refs is the number of callers
attached to the entry), `Attached` (a caller inside `lockContext` refers to the entry
the table has for its key), `OneKey` (an entry serves one key), `OneToken` (at most
one caller has the token of an entry), `NothingLeaks`, and `PlaceForToken` (while a
caller has the token, the channel is empty). Deleting an entry is harmless because
refs is exact: at zero nobody is attached. Mutual exclusion (`Refinement` of
`KeyedMutex`) follows from `Attached` and `OneToken`.

### Cancellation (`CancellationProofs`)

`ReceiptsAlwaysHold` says that a key has one answer for ever, and that a run stopped by
a person has one accepting receipt, one audit row and their outcome. `EndsAreForGood`
says that no step rewrites the outcome of an ended run, that a sender abandons a run
only at a version it has read, and that no run is called released while a worker works
on it. The strengthenings are `RowsSound` (a run that has not ended has room for one
more version, and a cancelled one was cancelled by somebody), `AnswersMatch` (an answer,
given or under way, is what the receipt of its key holds; this is what a caller that
sleeps between two transactions relies on) and `WorkKnown` (a worker works on what was
sent to it, and an acknowledgement means that it has stopped).

### SessionWithdrawal (`SessionWithdrawalProofs`)

`StoreOK(s)` says how the rows of a session hang together, `DriverOK` what a driver may
rely on at each of its places. A driver holds no lock between two transactions, so
the proof goes by rely and guarantee: `Kept` collects what no step of anybody undoes,
every action is shown to satisfy `Kept`, and one lemma concludes that `DriverOK`
survives the steps of all other drivers. `ChildrenAlwaysFirst`, `DeletionIsOnce` and
`CleanedQuietly` follow. They hold with `LateWrites` true as well as false.

### ApprovalPreview (`ApprovalPreviewProofs`)

`GrantsAreShown` says that a token stands exactly while the approval is given, is bound
to the preview on record, and that an unattended one is in the audit log. `PreviewsHold`
says that it is given for what its approver was shown and the file held during the
request, and that a preview somebody decided on is not replaced. Whether this is so
depends on what a request learnt many steps earlier. `Honest(a)` says where the view
that a request carries comes from, at each of its steps.

### McpCredentials

`FenceHolds` says that no call or discovery is on the wire with a token that was rotated
away, and that a liveness status is about the token in the row. The invariant says that a
lock has readers or one writer (`Exclusive`), what side of which lock a request holds at
each place (`Keeps`), and that the lock is the one the map has while the server is
registered; the last is what the removal and the new registration of a server endanger.
`Bounded` says that requests already waiting to rotate stay within the bound on rotations.

### AgentLoop

`RunsAreHonest` has four parts. A run whose tool may have changed something is never
offered for a retry. No record of a call stays open behind an answer to the model or
behind an end that Execute reports. Every answered call shows up for the user exactly
once, as the orchestrator's record or as a failure the runtime announced. A completed
run reports the text it showed. What a call did and what the loop notes of it happen in
different steps: `EffectKnown` says that an effect not yet noted travels in the runner's
error, which notes it or ends the run; `RecordOpen` says the same of an open record;
`Named` says that the ids of pending calls are new to the run, which rests on the lemma
`FreshIds` about `normalizeToolCallIDs`.

## 6. Only model-checked

* Liveness. The prover has no rule for fairness or `ENABLED`; the `..._progress` runs
  check it on the instances above.
* What a recursive definition computes for every input, because that is an induction
  over data: `CallsAreAnswered` of `AgentLoop` (calls and results are paired along the
  messages), the bisection in `ContextBudget`, the selection in `Recall`, the log of
  directory operations in `InboxRemoval`. The other computations (`Frontmatter`,
  `FileSearch`, `OpenAIStream`, `OllamaStream`, `Routing`) are checked over all inputs
  of the instance.
* The properties of `Dispatch`, `ApprovalResume`, `QueueWait`,
  `EventStreams`, `SessionList`, `Delegations`, `TeamProfiles`, `EgressConsent`,
  `Automations`, the migrations, `McpConnection`, the three vault modules,
  `MemoryEvidence`, `NoteCache`, `McpRegistry` and `FileWrites`. Nothing stands in the
  way of proofs; they are not written. A property such as `EffectsOnce` or
  `CredentialsFenced` joins several components, of which the one named above is
  proved.

## 7. What is not modelled

`PROJECT.json` lists every part with what is left out of it. Not modelled at all:

| Part | Why |
|---|---|
| audit and telemetry | append-only rows and read APIs |
| skills, team, external agents, integrations | configuration records, one transaction each |
| application wiring | the order of construction; its tickers appear as fairness |
| mcp-system | read-only facts about the host |
| `turing` command line | host installation, mostly I/O |
| the worker's tool cache | `McpRegistry` ends with the announcement to the worker |
| widgets and the chat view of the client | presentation |

## 8. Running

    tlc -workers 2 -config RunStoreCalls.cfg MCRunStore
    tlc -workers 2 -config Queue.cfg MCQueue
    tlapm RunStoreProofs.tla

`MCRunStore` goes with `RunStore*.cfg`, `MCQueue` with `Queue*.cfg`, `MCSessions` with
`Sessions*.cfg`, `MCAgent` with `Agent*.cfg`, `MCTools` with `Tools*.cfg` and
`FilesReleased.cfg`. A run takes up to a few minutes with two workers. The proofs of a
module take from one to ten minutes.
