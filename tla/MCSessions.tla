----------------------------- MODULE MCSessions -----------------------------
(***************************************************************************)
(* Small instances of the components around a conversation, side by side:  *)
(* its withdrawal, its events and its place in the list, what may leave    *)
(* the machine with a message, tasks given to specialists, automations,    *)
(* and the two migrations of stored rows. A behaviour is one component's.  *)
(***************************************************************************)
EXTENDS SessionWithdrawal, Integers, Sequences, TLC

CONSTANTS
  Parts,  \* the components the run explores
  chat, task, output, note, s1, s2, d1, d2, w1, c1, c2, q1, q2, a1, a2, tool, p1, p2, keyed,
  unkeyed, errand, k1, k2

VARIABLES
  part,  \* the component that takes the steps of a behaviour
  log, streamSession, reserved, streamOwed, streamFence, sub, streamPc, streamSent, held, got,
  from, opens, restarts,
  sess, logged, listOwed, listFence, up, pending, hand, wire, breaks, snap, revision, snapRev,
  listRow, tomb, listed, eventOnly, refresh,
  parent, attempt, delegationSession, policy, profile, approval, delegationTask, card, results,
  req, asked, delegationEdits,
  clock, auto, automationSession, last, grant, budget, remote, routable, automationEdits, live,
  used, firedWith, armedAt, seenAt,
  runs, events, owner, outcomePhase, cursor, derived, newRuns, newEvents, foreignKeys, crashes,
  applied, skills, recovery, migrationFile, durable, times, migrationPhase, version, queue,
  skill, after, newTimes, migrationFaults, migrationEdits,
  profileFile, granted, enabled, catalog, served, shown, accepted, roster, call, profileTask,
  profileEdits,
  world, consentEdits, workerUrl, consentPc, ctx, msg, consent, acks, chal, expired, run, keys,
  answer, repeats, consentSent

\* A chat that writes a note, with a delegation under it that writes a file.
TreeParent == [s \in {chat, task} |-> IF s = task THEN chat ELSE NoSession]
TreeOwner == [f \in {output, note} |-> IF f = output THEN task ELSE chat]
TreeKind == [f \in {output, note} |-> IF f = output THEN "owned" ELSE "note"]
NoteOwner == [f \in {note} |-> chat]
NoteKind == [f \in {note} |-> "note"]

\* Stored rows of every status, with and without what the backfill looks for.
R(status, code, lease, text, says, time, bytes) ==
  [status |-> status, code |-> code, held |-> lease, msg |-> text, says |-> says, time |-> time, bytes |-> bytes]
OldRuns ==
  {R("completed", "", FALSE, 1, TRUE, TRUE, 1), R("completed", "", FALSE, 0, FALSE, TRUE, 2),
   R("failed", "client_cancelled", FALSE, 2, TRUE, TRUE, 2), R("failed", "approval_denied", FALSE, 0, FALSE, TRUE, 1),
   R("failed", "model_error", FALSE, 2, FALSE, TRUE, 3), R("running", "", TRUE, 1, FALSE, TRUE, 1),
   R("queued", "", FALSE, 2, FALSE, TRUE, 1), R("odd", "", FALSE, 0, FALSE, TRUE, 1),
   R("cancelled", "", FALSE, 0, FALSE, FALSE, 1), R("completed", "", FALSE, 0, FALSE, TRUE, 4)}
E(type, of, key, tries, max, bytes) ==
  [type |-> type, run |-> of, key |-> key, attempt |-> tries, max |-> max, bytes |-> bytes]
OldEvents ==
  {E("run", 1, FALSE, 0, 0, 1), E("run", 0, FALSE, 0, 0, 3), E("step", 3, TRUE, 2, 3, 2), E("step", 0, TRUE, 0, 0, 1),
   E("step", 1, FALSE, 0, 0, 1), E("identity", 3, FALSE, 0, 0, 2), E("other", 3, FALSE, 0, 0, 4), E("run", 3, FALSE, 0, 0, 4)}
Tables(S) == UNION {[D -> S] : D \in SUBSET {1, 3, 4}}
FewRuns == [{1, 3} -> {R("completed", "", FALSE, 1, TRUE, TRUE, 1), R("queued", "", FALSE, 2, FALSE, TRUE, 1)}]
FewEvents == [{1} -> {E("run", 0, FALSE, 0, 0, 3)}]
Stored == (Tables(OldRuns) \X FewEvents) \cup (FewRuns \X Tables(OldEvents))

\* A tool of every kind, and profiles a folder may hold.
TeamTools == {"files.read", "team.delegate", "memory.search", "memory.remember", "github.issues"}
TeamKind == [x \in TeamTools |->
  CASE x = "files.read" -> "plain" [] x = "team.delegate" -> "team" [] x = "memory.search" -> "memory_read"
    [] x = "memory.remember" -> "memory_propose" [] OTHER -> "remote"]
Text == [folder |-> "ok", parses |-> TRUE, tools |-> TeamTools, requires |-> {}, memory |-> "read", instructions |-> 1]
TeamTexts ==
  {Text, [Text EXCEPT !.instructions = 2], [Text EXCEPT !.memory = ""],
   [Text EXCEPT !.requires = {{"files.read", "github.issues"}}],
   [Text EXCEPT !.requires = {{"memory.search"}, {"github.issues"}}],
   [Text EXCEPT !.tools = {"files.read", "memory.remember"}, !.memory = "propose"],
   [Text EXCEPT !.parses = FALSE], [Text EXCEPT !.folder = "symlink"]}

Asks == [m \in {keyed, unkeyed, errand} |-> CASE m = keyed -> "local" [] m = unkeyed -> "openai" [] OTHER -> "task"]
Sent(M) == [m \in M |-> Asks[m]]

Events == INSTANCE EventStreams WITH
  Watchers <- {w1}, Senders <- {s1}, Writers <- {d1, d2}, Buffer <- 1, PageSize <- 2,
  MaxLog <- 2, MaxOpens <- 1, MaxRestarts <- 1, session <- streamSession, owed <- streamOwed,
  fence <- streamFence, pc <- streamPc, sent <- streamSent
\* A stream that is not restarted.
Follow == INSTANCE EventStreams WITH
  Watchers <- {w1}, Senders <- {s1}, Writers <- {d1}, Buffer <- 1, PageSize <- 1, MaxLog <- 2,
  MaxOpens <- 1, MaxRestarts <- 0, session <- streamSession, owed <- streamOwed,
  fence <- streamFence, pc <- streamPc, sent <- streamSent
\* Two senders, each behind its own run.
Sending == INSTANCE EventStreams WITH
  Watchers <- {}, Senders <- {s1, s2}, Writers <- {d1}, Buffer <- 1, PageSize <- 2, MaxLog <- 3,
  MaxOpens <- 0, MaxRestarts <- 0, session <- streamSession, owed <- streamOwed,
  fence <- streamFence, pc <- streamPc, sent <- streamSent
List == INSTANCE SessionList WITH
  Sessions <- {s1}, Writers <- {d1, d2}, Wire <- 1, MaxTime <- 3, MaxBreaks <- 1,
  owed <- listOwed, fence <- listFence, row <- listRow
\* A stream that stays up.
Settling == INSTANCE SessionList WITH
  Sessions <- {s1}, Writers <- {d1, d2}, Wire <- 1, MaxTime <- 3, MaxBreaks <- 0,
  owed <- listOwed, fence <- listFence, row <- listRow
\* Two calls at once for the one place left.
Cap == INSTANCE Delegations WITH
  Calls <- {c1, c2}, Requests <- {q1, q2}, MaxPerRun <- 1, MaxAttempts <- 1, MaxRequests <- 2,
  MaxEdits <- 0, session <- delegationSession, task <- delegationTask, edits <- delegationEdits
\* One call while the settings change.
Permits == INSTANCE Delegations WITH
  Calls <- {c1}, Requests <- {q1}, MaxPerRun <- 1, MaxAttempts <- 2, MaxRequests <- 1,
  MaxEdits <- 1, session <- delegationSession, task <- delegationTask, edits <- delegationEdits
\* A task whose call is repeated.
Join == INSTANCE Delegations WITH
  Calls <- {c1}, Requests <- {q1}, MaxPerRun <- 2, MaxAttempts <- 2, MaxRequests <- 2,
  MaxEdits <- 0, session <- delegationSession, task <- delegationTask, edits <- delegationEdits
Scheduler == INSTANCE Automations WITH
  Automation <- {a1, a2}, Tools <- {tool},
  Schedules <- {[kind |-> "interval", n |-> 2], [kind |-> "daily", n |-> 1]}, Day <- 3,
  MaxFires <- 1, MaxTime <- 6, MaxEdits <- 2, session <- automationSession,
  edits <- automationEdits
Due == INSTANCE Automations WITH
  Automation <- {a1, a2}, Tools <- {tool},
  Schedules <- {[kind |-> "interval", n |-> 2], [kind |-> "daily", n |-> 1]}, Day <- 3,
  MaxFires <- 1, MaxTime <- 4, MaxEdits <- 1, session <- automationSession,
  edits <- automationEdits
Outcomes == INSTANCE RunOutcomes WITH
  RowIds <- {1, 3, 4}, Msgs <- {1, 2}, Databases <- Stored \cup {<<<<>>, <<>>>>},
  Owners <- {<<1, 3>>, <<3, 4>>, <<1, 1>>, <<0, 1>>}, BatchRows <- 2, ByteBudget <- 3,
  MaxCrashes <- 1, phase <- outcomePhase
Migrating == INSTANCE Migrations WITH
  Skills <- {k1, k2}, Sessions <- {2, 3, 5}, BatchSize <- 2, MaxFaults <- 1, MaxEdits <- 2,
  file <- migrationFile, phase <- migrationPhase, faults <- migrationFaults,
  edits <- migrationEdits
\* A start of the program.
Starting == INSTANCE Migrations WITH
  Skills <- {k1, k2}, Sessions <- {2, 3, 5}, BatchSize <- 2, MaxFaults <- 1, MaxEdits <- 0,
  file <- migrationFile, phase <- migrationPhase, faults <- migrationFaults,
  edits <- migrationEdits
Profiles == INSTANCE TeamProfiles WITH
  Tools <- TeamTools, Kind <- TeamKind, Texts <- TeamTexts, MaxEdits <- 1, file <- profileFile,
  task <- profileTask, edits <- profileEdits
\* Two attempts at a message with a key and at one without.
Consent == INSTANCE EgressConsent WITH
  Messages <- {keyed, unkeyed}, Provider <- Sent({keyed, unkeyed}), Keyed <- {keyed},
  Prepares <- {p1}, Attempts <- {a1, a2}, Tools <- {"mcp", "memory"}, RemoteTools <- {"mcp"},
  MaxEdits <- 0, edits <- consentEdits, pc <- consentPc, sent <- consentSent
\* One attempt while the settings change.
Drift == INSTANCE EgressConsent WITH
  Messages <- {unkeyed, errand}, Provider <- Sent({unkeyed, errand}), Keyed <- {},
  Prepares <- {p1}, Attempts <- {a1}, Tools <- {"mcp", "memory"}, RemoteTools <- {"mcp"},
  MaxEdits <- 2, edits <- consentEdits, pc <- consentPc, sent <- consentSent
\* Two grants and two attempts for one task.
Errand == INSTANCE EgressConsent WITH
  Messages <- {errand}, Provider <- Sent({errand}), Keyed <- {}, Prepares <- {p1, p2},
  Attempts <- {a1, a2}, Tools <- {"mcp", "memory"}, RemoteTools <- {"mcp"}, MaxEdits <- 0,
  edits <- consentEdits, pc <- consentPc, sent <- consentSent

streamVars == <<log, streamSession, reserved, streamOwed, streamFence, sub, streamPc,
                streamSent, held, got, from, opens, restarts>>
listVars == <<sess, logged, listOwed, listFence, up, pending, hand, wire, breaks, snap,
              revision, snapRev, listRow, tomb, listed, eventOnly, refresh>>
delegationVars == <<parent, attempt, delegationSession, policy, profile, approval,
                    delegationTask, card, results, req, asked, delegationEdits>>
automationVars == <<clock, auto, automationSession, last, grant, budget, remote, routable,
                    automationEdits, live, used, firedWith, armedAt, seenAt>>
outcomeVars == <<runs, events, owner, outcomePhase, cursor, derived, newRuns, newEvents,
                 foreignKeys, crashes>>
migrationVars == <<applied, skills, recovery, migrationFile, durable, times, migrationPhase,
                   version, queue, skill, after, newTimes, migrationFaults, migrationEdits>>
profileVars == <<profileFile, granted, enabled, catalog, served, shown, accepted, roster, call,
                 profileTask, profileEdits>>
consentVars == <<world, consentEdits, workerUrl, consentPc, ctx, msg, consent, acks, chal,
                 expired, run, keys, answer, repeats, consentSent>>

\* A behaviour is a behaviour of one component, from any of its initial states.
\* The others rest in one of theirs.
InitPart ==
  /\ part \in Parts
  /\ Init
  /\ IF part \in {"events", "follow", "senders"} THEN TRUE ELSE from = [c \in {w1} |-> 0]
  /\ CASE part = "follow" -> Follow!Init
       [] part = "senders" -> Sending!Init
       [] OTHER -> Events!Init
  /\ IF part \in {"list", "settles"} THEN TRUE ELSE logged = [s \in {s1} |-> [at |-> 1, status |-> "active"]]
  /\ CASE part = "settles" -> Settling!Init
       [] OTHER -> List!Init
  /\ IF part \in {"cap", "leave", "join"} THEN TRUE ELSE policy = "safe"
  /\ CASE part = "leave" -> Permits!Init
       [] part = "join" -> Join!Init
       [] OTHER -> Cap!Init
  /\ IF part \in {"automations", "due"} THEN TRUE ELSE auto = [x \in {a1, a2} |-> [Scheduler!NoAutomation EXCEPT !.exists = (x = a1)]] /\ remote = FALSE
  /\ CASE part = "due" -> Due!Init
       [] OTHER -> Scheduler!Init
  /\ IF part = "outcomes" THEN TRUE ELSE runs = <<>> /\ events = <<>> /\ owner = <<1, 3>>
  /\ Outcomes!Init
  /\ IF part \in {"migrations", "starts"} THEN TRUE ELSE skills = {} /\ migrationFile = [s \in {k1, k2} |-> "none"] /\ times = [s \in {2, 3, 5} |-> "legacy"]
  /\ CASE part = "starts" -> Starting!Init
       [] OTHER -> Migrating!Init
  /\ IF part = "profiles" THEN TRUE ELSE profileFile = Text
  /\ Profiles!Init
  /\ IF part \in {"consent", "drift", "errand"} THEN TRUE ELSE workerUrl = 1 /\ world = [agent |-> 0, tools |-> {}, dest |-> [x \in {"mcp"} |-> 1], skills |-> 0, memory |-> 0]
  /\ CASE part = "drift" -> Drift!Init
       [] part = "errand" -> Errand!Init
       [] OTHER -> Consent!Init

NextPart ==
  /\ UNCHANGED part
  /\ IF part = "withdrawal" THEN Next ELSE UNCHANGED vars
  /\ CASE part = "events" -> Events!Next
       [] part = "follow" -> Follow!Next
       [] part = "senders" -> Sending!Next
       [] OTHER -> UNCHANGED streamVars
  /\ CASE part = "list" -> List!Next
       [] part = "settles" -> Settling!Next
       [] OTHER -> UNCHANGED listVars
  /\ CASE part = "cap" -> Cap!Next
       [] part = "leave" -> Permits!Next
       [] part = "join" -> Join!Next
       [] OTHER -> UNCHANGED delegationVars
  /\ CASE part = "automations" -> Scheduler!Next
       [] part = "due" -> Due!Next
       [] OTHER -> UNCHANGED automationVars
  /\ IF part = "outcomes" THEN Outcomes!Next ELSE UNCHANGED outcomeVars
  /\ CASE part = "migrations" -> Migrating!Next
       [] part = "starts" -> Starting!Next
       [] OTHER -> UNCHANGED migrationVars
  /\ IF part = "profiles" THEN Profiles!Next ELSE UNCHANGED profileVars
  /\ CASE part = "consent" -> Consent!Next
       [] part = "drift" -> Drift!Next
       [] part = "errand" -> Errand!Next
       [] OTHER -> UNCHANGED consentVars

partVars == <<part, vars, streamVars, listVars, delegationVars, automationVars, outcomeVars,
              migrationVars, profileVars, consentVars>>
SpecPart == InitPart /\ [][NextPart]_partVars

\* Each component's own fairness (its Fairness), asked of the behaviours that are
\* its own: a guarded action is never enabled in the others.
FairPart ==
  /\ SpecPart
  /\ \A d \in Drivers : WF_vars(part = "withdrawal" /\ DriverStep(d))
  /\ \A d \in Drivers, s \in Sessions : SF_vars(part = "withdrawal"
       /\ Unfinished(s) /\ Withdraw(d, s))
  /\ \A s \in Sessions : WF_vars(part = "withdrawal" /\ ExitExecution(s))
  /\ \A f \in Files : WF_vars(part = "withdrawal" /\ WriterStep(f))
  /\ \A w \in {d1} : WF_streamVars(part = "follow" /\ Follow!Publish(w))
  /\ \A c \in {w1} : WF_streamVars(part = "follow" /\ Follow!Handler(c))
  /\ \A c \in {w1} : WF_streamVars(part = "follow" /\ (Follow!Take(c) \/ Follow!Carry(c)))
  /\ \A c \in {s1} : WF_streamVars(part = "follow" /\ Follow!StreamAvailable(c))
  /\ WF_streamVars(part = "follow" /\ Follow!TerminateSession)
  /\ \A w \in {d1, d2} : WF_listVars(part = "settles" /\ Settling!Publish(w))
  /\ WF_listVars(part = "settles" /\ Settling!Subscribe)
  /\ WF_listVars(part = "settles" /\ Settling!SendSnapshots)
  /\ WF_listVars(part = "settles" /\ Settling!Pick)
  /\ WF_listVars(part = "settles" /\ Settling!Forward)
  /\ WF_listVars(part = "settles" /\ Settling!Reconnect)
  /\ WF_listVars(part = "settles" /\ Settling!ListSessions)
  /\ WF_listVars(part = "settles" /\ Settling!Receive)
  /\ WF_listVars(part = "settles" /\ Settling!Reconcile)
  /\ WF_delegationVars(part = "join" /\ \E to \in Join!Terminal : Join!TurnEnds(to))
  /\ \A c \in {c1} : WF_delegationVars(part = "join"
       /\ \E to \in Join!Terminal : Join!ChildEnds(c, to))
  /\ WF_automationVars(part = "due" /\ Due!TickBegins)
  /\ WF_automationVars(part = "due" /\ Due!ClaimDueAutomation)
  /\ WF_migrationVars(part = "starts" /\ Starting!Program)

-----------------------------------------------------------------------------



\* Automations: an automation fires when it is due, alone, with what it was
\* granted.
\*  - The time an automation waits for is always the first occurrence of its
\*    present schedule after the schedule was last computed or moved on: no
\*    occurrence twice, none in a burst after a pause, no drift of an interval
\*    from the moment it was armed, and nothing left over from an old
\*    schedule.
\*  - Runs of one automation never overlap.
\*  - An edit of the allowlist changes later runs only: what a run in flight
\*    is let use was allowed when it was fired.
\*  - Nothing is sent to a remote model unattended, whether it is the default
\*    or the conversation was routed there since the last run.
FiringsHeld ==
  /\ [](/\ part = "automations" =>
             /\ Scheduler!TypeOK
             /\ Scheduler!NextOccurrence
             /\ Scheduler!OneAtATime
             /\ Scheduler!GrantedAtFiring)
  /\ Scheduler!NothingSentUnattended


\* EgressConsent and TeamProfiles: what leaves the machine, and what a specialist
\* may use, is what a person was shown.
\*  - Everything that ever leaves the machine for a run, whatever changed
\*    since, goes where the disclosure said that the user acknowledged for
\*    this very message, and carries the skills and the memory it showed:
\*    applyRemoteEgress, enqueueUserMessageTx, validateEgressProvider and
\*    RunAllowsRemoteMCP taken together. A run without a decision sends
\*    nothing.
\*  - One acknowledgement is good for one run, even when the same challenge is
\*    sent twice without an idempotency key: run_egress_decisions keeps the
\*    nonce unique.
\*  - A message sent with an idempotency key becomes at most one run, however
\*    many calls race and however many disclosures were acknowledged.
\*  - A call that repeats one that already landed is answered with its run,
\*    even after the challenge expired or the settings changed: the replay is
\*    looked up before anything else may refuse (applyRemoteEgress).
\*  - A delegated task is granted once, to the destinations of one disclosure
\*    the user acknowledged, however many windows show it and however many
\*    answers come back: GrantDelegationEgress looks at the task again in its
\*    transaction.
\*  - A revision that counts as granted is one the user was shown and
\*    accepted, however the file changed between the screen and the click.
\*  - A task's tools are within what its file declares, keep to its memory
\*    level, never delegate again, and leave the machine only by way of the
\*    user's consent.
\*  - A task has a tool for everything its profile requires once the user
\*    consents, and without that consent too unless it is marked as not able
\*    to do without.
\*  - A task is made from the revision that its run was offered and that is
\*    granted and enabled at that moment, whatever was edited or revoked since
\*    the run was enqueued or the admission began.
ConsentHeld ==
  /\ [](/\ part = "drift" => Drift!ShownBeforeSent
        /\ part = "consent" =>
             /\ Consent!TypeOK
             /\ Consent!ShownBeforeSent
             /\ Consent!OneRunPerConsent
             /\ Consent!OneRunPerMessage
             /\ Consent!RepeatAnswered
        /\ part = "errand" => Errand!OneRunPerConsent /\ Errand!OneGrantPerTask
        /\ part = "profiles" =>
             /\ Profiles!TypeOK
             /\ Profiles!GrantedWasSeen
             /\ Profiles!ToolsWithinProfile
             /\ Profiles!CanDoItsJob)
  /\ Profiles!MadeAsGranted


=============================================================================
