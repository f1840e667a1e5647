------------------------------- MODULE MCAgent ------------------------------
(***************************************************************************)
(* Small instances of the components of the agent runtime and of its       *)
(* memory, side by side: the loop, its connection to a tool server, the    *)
(* context it sends, what it recalls, the two model streams, and the vault *)
(* with its inbox, profile, index and locks. A behaviour is one            *)
(* component's.                                                            *)
(***************************************************************************)
EXTENDS KeyedLocks, Integers, Sequences, TLC

CONSTANTS
  Parts,  \* the components the run explores
  p1, p2, p3, k1, k2, e1, e2, e3, c1, c2, va, vb, absent, nobody, user, m1, m2, t1, t2, t3

VARIABLES
  part,  \* the component that takes the steps of a behaviour
  dir, inboxDisk, log, inboxText, inboxOwed, candidate, inboxArtifact, rm, inboxEdits,
  inboxFaults,
  doc, author, lock, profileFile, profileRow, tracked, profileOp, saver, carried, applies,
  profileEdits, profileFaults,
  inbox, belief, beliefDisk, beliefRow, beliefArtifact, beliefNote, beliefLive, beliefOp,
  accepted, written, warned, beliefOwed, newest, tries, beliefFaults,
  evidenceFile, backup, evidenceRow, evidence, evidenceLive, evidencePass, ids, evidenceEdits,
  crashes,
  frontNote, asked, done, frontCount,
  cacheDisk, clock, inodes, twice, cache, scan, rows, held, writes, cacheFaults,
  loopPc, debug, offered, loopCtx, loopText, loopShown, loopLive, used, loopCalls, iter,
  loopCount, sideEffect, writing, err, open, recorded, loopAnnounced, effect, exit,
  contextPc, contextIn, contextLive, skills, memory, contextCtx, block, contextPass, tried,
  recallPc, recallRow, maxChars, word, recallHeard, byTerm, recallShown, unnamed, recallOut,
  openaiPhase, asks, openaiCalls, openaiArgumentBytes, identifierBytes, usage, pending,
  openaiTodo, openaiOut, openaiDelivered, completion, timeLeft, drainAt, body, openaiCancelled,
  withdrawn, chunks, finished, openaiHeard,
  conn, gate, caller, notices, peerLive, peerAnnounced, opened, seen, unheard, deleted, ran,
  reqs, lost, peerFaults,
  ollamaPhase, ollamaCalls, ollamaArgumentBytes, ollamaTodo, ollamaOut, ollamaDelivered,
  ollamaCancelled, lines, ollamaHeard

\* Windows from too small for anything to large enough for all, results that are
\* worth replacing and results that are not, units of one and two messages.
Asked(n) == [role |-> "user", size |-> n]
Answered(n) == [role |-> "assistant", size |-> n]
Histories == {<<>>, <<Answered(1), Asked(1)>>, <<Asked(1), Asked(1), Asked(1)>>,
              <<Asked(1), Answered(1), Asked(1)>>}

\* Pieces of tool calls with two indices and two ids.
Piece(ix, id, name, args) == [ix |-> ix, id |-> id, name |-> name, args |-> args]
Pieces ==
  {Piece(0, 1, 1, <<>>), Piece(0, 1, 1, <<"{">>), Piece(0, 0, 0, <<"}">>), Piece(0, 0, 0, <<"{", "}">>),
   Piece(0, 1, 2, <<>>), Piece(0, 0, 1, <<"{", "}">>),
   Piece(1, 1, 1, <<"{", "}">>), Piece(1, 2, 1, <<"{">>), Piece(1, 0, 0, <<"}">>), Piece(1, 2, 0, <<>>),
   Piece(2, 2, 1, <<"{", "}">>)}

\* Lists of tool calls whose arguments share objects, or replace them.
AC == <<<<"a", "c">>, 1>>
AD == <<<<"a", "d">>, 1>>
A1 == <<<<"a">>, 1>>
B1 == <<<<"b">>, 1>>
B2 == <<<<"b">>, 2>>
Lists ==
  {<<Piece(-1, 0, 1, {AC})>>, <<Piece(0, 0, 0, {AD, B1})>>, <<Piece(-1, 1, 2, {A1})>>, <<Piece(0, 1, 0, {B2})>>,
   <<Piece(1, 1, 1, {B1})>>, <<Piece(1, 0, 1, {AC})>>, <<Piece(2, 2, 1, {})>>,
   <<Piece(-1, 1, 1, {}), Piece(-1, 2, 1, {B2})>>, <<Piece(0, 0, 1, {}), Piece(0, 0, 1, {})>>}

Removal == INSTANCE InboxRemoval WITH
  Inodes <- {1, 2, 3}, First <- 1, NoInode <- 0, Stages <- {"s1", "s2"}, MaxEdits <- 1,
  MaxFaults <- 2, disk <- inboxDisk, text <- inboxText, owed <- inboxOwed,
  artifact <- inboxArtifact, edits <- inboxEdits, faults <- inboxFaults
Profile == INSTANCE ProfileApply WITH
  Candidates <- {c1, c2}, Texts <- {va, vb}, Absent <- absent, Nobody <- nobody, User <- user,
  MaxApplies <- 1, MaxEdits <- 1, MaxFaults <- 1, file <- profileFile, row <- profileRow,
  op <- profileOp, edits <- profileEdits, faults <- profileFaults
Claim == INSTANCE ProfileApply WITH
  Candidates <- {c1}, Texts <- {va, vb}, Absent <- absent, Nobody <- nobody, User <- user,
  MaxApplies <- 1, MaxEdits <- 1, MaxFaults <- 1, file <- profileFile, row <- profileRow,
  op <- profileOp, edits <- profileEdits, faults <- profileFaults
Belief == INSTANCE BeliefPromotion WITH
  MaxEdits <- 2, MaxFaults <- 2, MaxTries <- 2, disk <- beliefDisk, row <- beliefRow,
  artifact <- beliefArtifact, note <- beliefNote, live <- beliefLive, op <- beliefOp,
  owed <- beliefOwed, faults <- beliefFaults
Evidence == INSTANCE MemoryEvidence WITH
  Sessions <- {"s1", "s2"}, MaxEdits <- 1, MaxIds <- 3, MaxCrashes <- 1, file <- evidenceFile,
  row <- evidenceRow, live <- evidenceLive, pass <- evidencePass, edits <- evidenceEdits
Front == INSTANCE Frontmatter WITH
  Ids <- {"i1"}, Sessions <- {"s1", "s2"}, MaxLines <- 3, MaxRewrites <- 1, note <- frontNote,
  count <- frontCount
Cache == INSTANCE NoteCache WITH
  Order <- <<m1, m2>>, Inbox <- {m1}, Texts <- {t1, t2, t3}, Long <- {t3}, MaxClock <- 1,
  MaxWrites <- 1, MaxFaults <- 1, disk <- cacheDisk, faults <- cacheFaults
Loop == INSTANCE AgentLoop WITH
  MaxToolIterations <- 2, MaxToolCalls <- 3, MaxTurnCalls <- 2, MaxOutput <- 2,
  ProviderIds <- {0, 1}, pc <- loopPc, ctx <- loopCtx, text <- loopText, shown <- loopShown,
  live <- loopLive, calls <- loopCalls, count <- loopCount, announced <- loopAnnounced
Context == INSTANCE ContextBudget WITH
  Windows <- {2, 4, 5, 7}, LiveShapes <- {<<>>, <<3>>, <<2, 3>>},
  ToolShapes <- {<<>>, <<1>>, <<1, 2>>}, MemorySizes <- {0, 1}, IndexShapes <- {<<>>, <<2, 1>>},
  HistoryShapes <- Histories, ResultSizes <- {0, 3}, Matches <- {{}, {1}, {2}, {1, 2, 3}},
  MaxPasses <- 2, pc <- contextPc, in <- contextIn, live <- contextLive, ctx <- contextCtx,
  pass <- contextPass
Recollection == INSTANCE Recall WITH
  Rows <- {1, 2}, Words <- {1, 2}, Texts <- {"a"}, Sizes <- {1, 5}, MaxExcerpts <- 3,
  Budgets <- {2, 4, 7, 9}, MinExcerpt <- 2, Framing <- 1, Ellipsis <- 1, pc <- recallPc,
  row <- recallRow, heard <- recallHeard, shown <- recallShown, out <- recallOut
OpenAI == INSTANCE OpenAIStream WITH
  MaxChunks <- 2, MaxToolCalls <- 2, MaxIdBytes <- 5, MaxArgBytes <- 3, Deadline <- 3,
  Fragments <- Pieces,
  Usages <- {[in |-> 0, out |-> 0], [in |-> 1, out |-> 0], [in |-> 2, out |-> 2]},
  phase <- openaiPhase, calls <- openaiCalls, argumentBytes <- openaiArgumentBytes,
  todo <- openaiTodo, out <- openaiOut, delivered <- openaiDelivered,
  cancelled <- openaiCancelled, heard <- openaiHeard
Shared == INSTANCE McpConnection WITH
  Callers <- {c1, c2}, Owned <- FALSE, MaxReqs <- 2, MaxLost <- 2, MaxFaults <- 1,
  live <- peerLive, announced <- peerAnnounced, faults <- peerFaults
Requests == INSTANCE McpConnection WITH
  Callers <- {c1, c2}, Owned <- FALSE, MaxReqs <- 2, MaxLost <- 1, MaxFaults <- 1,
  live <- peerLive, announced <- peerAnnounced, faults <- peerFaults
Ollama == INSTANCE OllamaStream WITH
  MaxLines <- 3, MaxToolCalls <- 2, MaxArgBytes <- 3, MaxAllBytes <- 5, phase <- ollamaPhase,
  calls <- ollamaCalls, argumentBytes <- ollamaArgumentBytes, todo <- ollamaTodo,
  out <- ollamaOut, delivered <- ollamaDelivered, cancelled <- ollamaCancelled,
  heard <- ollamaHeard

inboxVars == <<dir, inboxDisk, log, inboxText, inboxOwed, candidate, inboxArtifact, rm,
               inboxEdits, inboxFaults>>
profileVars == <<doc, author, lock, profileFile, profileRow, tracked, profileOp, saver, carried,
                 applies, profileEdits, profileFaults>>
beliefVars == <<inbox, belief, beliefDisk, beliefRow, beliefArtifact, beliefNote, beliefLive,
                beliefOp, accepted, written, warned, beliefOwed, newest, tries, beliefFaults>>
evidenceVars == <<evidenceFile, backup, evidenceRow, evidence, evidenceLive, evidencePass, ids,
                  evidenceEdits, crashes>>
frontVars == <<frontNote, asked, done, frontCount>>
cacheVars == <<cacheDisk, clock, inodes, twice, cache, scan, rows, held, writes, cacheFaults>>
loopVars == <<loopPc, debug, offered, loopCtx, loopText, loopShown, loopLive, used, loopCalls,
              iter, loopCount, sideEffect, writing, err, open, recorded, loopAnnounced, effect,
              exit>>
contextVars == <<contextPc, contextIn, contextLive, skills, memory, contextCtx, block,
                 contextPass, tried>>
recallVars == <<recallPc, recallRow, maxChars, word, recallHeard, byTerm, recallShown, unnamed,
                recallOut>>
openaiVars == <<openaiPhase, asks, openaiCalls, openaiArgumentBytes, identifierBytes, usage,
                pending, openaiTodo, openaiOut, openaiDelivered, completion, timeLeft, drainAt,
                body, openaiCancelled, withdrawn, chunks, finished, openaiHeard>>
peerVars == <<conn, gate, caller, notices, peerLive, peerAnnounced, opened, seen, unheard,
              deleted, ran, reqs, lost, peerFaults>>
ollamaVars == <<ollamaPhase, ollamaCalls, ollamaArgumentBytes, ollamaTodo, ollamaOut,
                ollamaDelivered, ollamaCancelled, lines, ollamaHeard>>

\* A behaviour is a behaviour of one component, from any of its initial states.
\* The others rest in one of theirs.
InitPart ==
  /\ part \in Parts
  /\ Init
  /\ Removal!Init
  /\ IF part \in {"profile", "claim"} THEN TRUE ELSE doc = absent
  /\ CASE part = "claim" -> Claim!Init
       [] OTHER -> Profile!Init
  /\ Belief!Init
  /\ Evidence!Init
  /\ IF part = "front" THEN TRUE ELSE frontNote = <<>>
  /\ Front!Init
  /\ IF part = "cache" THEN TRUE ELSE cacheDisk = [m \in {m1, m2} |-> [ino |-> IF m = m1 THEN 1 ELSE 2, sec |-> 0, text |-> t1]]
  /\ Cache!Init
  /\ IF part = "loop" THEN TRUE ELSE debug = FALSE /\ offered = FALSE
  /\ Loop!Init
  /\ IF part = "context" THEN TRUE ELSE contextIn = CHOOSE x \in Context!Inputs : TRUE
  /\ Context!Init
  /\ IF part = "recall" THEN TRUE ELSE recallRow = [r \in {1, 2} |-> [current |-> FALSE, words |-> {1}, text |-> "a", size |-> 1]] /\ maxChars = 2
  /\ Recollection!Init
  /\ OpenAI!Init
  /\ CASE part = "requests" -> Requests!Init
       [] OTHER -> Shared!Init
  /\ Ollama!Init

NextPart ==
  /\ UNCHANGED part
  /\ IF part = "locks" THEN Next ELSE UNCHANGED vars
  /\ IF part = "inbox" THEN Removal!Next ELSE UNCHANGED inboxVars
  /\ CASE part = "profile" -> Profile!Next
       [] part = "claim" -> Claim!Next
       [] OTHER -> UNCHANGED profileVars
  /\ IF part = "belief" THEN Belief!Next ELSE UNCHANGED beliefVars
  /\ IF part = "evidence" THEN Evidence!Next ELSE UNCHANGED evidenceVars
  /\ IF part = "front" THEN Front!Next ELSE UNCHANGED frontVars
  /\ IF part = "cache" THEN Cache!Next ELSE UNCHANGED cacheVars
  /\ IF part = "loop" THEN Loop!Next ELSE UNCHANGED loopVars
  /\ IF part = "context" THEN Context!Next ELSE UNCHANGED contextVars
  /\ IF part = "recall" THEN Recollection!Next ELSE UNCHANGED recallVars
  /\ IF part = "openai" THEN OpenAI!Next ELSE UNCHANGED openaiVars
  /\ CASE part = "connection" -> Shared!Next
       [] part = "requests" -> Requests!Next
       [] OTHER -> UNCHANGED peerVars
  /\ IF part = "ollama" THEN Ollama!Next ELSE UNCHANGED ollamaVars

partVars == <<part, vars, inboxVars, profileVars, beliefVars, evidenceVars, frontVars,
              cacheVars, loopVars, contextVars, recallVars, openaiVars, peerVars, ollamaVars>>
SpecPart == InitPart /\ [][NextPart]_partVars

\* Each component's own fairness (its Fairness), asked of the behaviours that are
\* its own: a guarded action is never enabled in the others.
FairPart ==
  /\ SpecPart
  /\ \A p \in Callers : WF_vars(part = "locks" /\ (CheckContext(p) \/ Return(p) \/ GiveBack(p)
       \/ ReleaseReference(p)))
  /\ \A p \in Callers : WF_vars(part = "locks" /\ StopWaiting(p))
  /\ \A p \in Callers : SF_vars(part = "locks" /\ TakeToken(p))
  /\ \A c \in {c1} : WF_profileVars(part = "claim" /\ Claim!Applying(c))
  /\ \A c \in {c1} : WF_profileVars(part = "claim" /\ Claim!Recovering(c))
  /\ WF_profileVars(part = "claim" /\ Claim!Saving)
  /\ WF_beliefVars(part = "belief" /\ Belief!Promoting)
  /\ WF_beliefVars(part = "belief" /\ Belief!IndexBelief)
  /\ WF_beliefVars(part = "belief" /\ Belief!RemoveVanished)
  /\ WF_beliefVars(part = "belief" /\ Belief!RetireOrphan)
  /\ WF_beliefVars(part = "belief" /\ Belief!ReleaseReservation)
  /\ WF_evidenceVars(part = "evidence" /\ Evidence!Begin)
  /\ WF_evidenceVars(part = "evidence" /\ (Evidence!Scan \/ Evidence!AssignIdentity
       \/ Evidence!Apply \/ Evidence!RewriteRefs \/ Evidence!RecordRefs))
  /\ WF_loopVars(part = "loop" /\ Loop!Step)
  /\ WF_openaiVars(part = "openai" /\ (OpenAI!Tick \/ OpenAI!Hold \/ OpenAI!Send
       \/ OpenAI!GiveUp \/ OpenAI!Close \/ OpenAI!Ask \/ (OpenAI!Broken /\ (body = "closed" \/ openaiCancelled))))
  /\ \A c \in {c1, c2} : WF_peerVars(part = "requests" /\ Requests!Step(c))

-----------------------------------------------------------------------------

\* InboxRemoval, ProfileApply and BeliefPromotion: no rejection, profile edit or
\* promotion, no crash and no edit by the user in between, loses or overwrites
\* what nobody has read.
\*  - Words nobody with standing has decided about are never lost: a file the
\*    user did not remove, and whose removal was not of the bytes that were
\*    read, is under some name, through every failed call, ended request and
\*    crash of the removal.
\*  - A removal that ends without its residue marker has left no file under a
\*    reserved name alone: the row it leaves unmarked would be released for an
\*    empty path.
\*  - A proposal the user may refuse, or has refused, is not what the profile
\*    says: a claim is handed back only when its words are not the last ones
\*    written, so no refusal stands beside a document that was rewritten from
\*    it.
\*  - A proposal retired as applied was applied: since its claim, the document
\*    has read as the text the user accepted.
\*  - A retired proposal whose file is still in the inbox keeps the manifest
\*    row that lets the session's withdrawal find it.
\*  - A note the user has not removed survives every crash: wherever the
\*    promotion stands, one of its two files is durably there.
\*  - What Turing puts under beliefs/ is a text the user accepted, never the
\*    one the proposal was changed into meanwhile.
\*  - A proposal is not open for decision beside a belief made from it, unless
\*    a failure the user was told of, or a crash, left both.
\*  - An indexed note that cites a deleted conversation is withdrawn, also
\*    when the pass met its file after the conversation was gone.
\*  - When the manifest row is retired, the bytes it was retired for are gone
\*    for good: whatever a crash would keep, they are not under the proposal's
\*    name, nor, when there were bytes to look for, under a reserved one.
\*  - An in-place write replaces the text its caller was shown, and no other:
\*    neither an apply nor a save through the application silently overwrites
\*    another one.
VaultKept ==
  /\ [](/\ part = "inbox" =>
             /\ Removal!TypeOK
             /\ Removal!NothingUnreadIsLost
             /\ Removal!HiddenCopiesAreMarked
        /\ part = "profile" =>
             /\ Profile!TypeOK
             /\ Profile!RefusableIsUnwritten
             /\ Profile!AppliedWasWritten
             /\ Profile!LeftFileIsTracked
        /\ part = "belief" =>
             /\ Belief!TypeOK
             /\ Belief!NoteNeverLost
             /\ Belief!OnlyAcceptedBelieved
             /\ Belief!OneFate
             /\ Belief!GroundedOrWithdrawn)
  /\ Removal!RetiredForGood
  /\ Profile!NothingOverwrittenUnread


\* AgentLoop and McpConnection: a run acts, records and answers once.
\*  - Execute, side effects: a run whose tool may have changed something is
\*    never reported as one the orchestrator may run again by itself.
\*  - RunWithOutcome and executeToolCall: the model is never answered, and the
\*    run never reported as ended by Execute itself, while the orchestrator
\*    holds an open record of a tool call.
\*  - normalizeToolCallIDs and the loop: every request to the model pairs each
\*    tool call of the run with exactly one result, after it and in the order
\*    the calls were made, and no id names two calls.
\*  - emitAssistantToolCallFailed: every call the model got a result for shows
\*    up for the user exactly once, as the orchestrator's record or as the
\*    failure the runtime announced.
\*  - completeRun: a completed run reports the text the user was shown.
\*  - A ready connection is one handshake's: its version and its session were
\*    agreed together, and the peer has had the notification that ends it.
\*  - `initialize` never carries a session or a version of an earlier
\*    handshake, whatever was wiped while that one ran.
\*  - The peer runs a tool call once at most, although a session can be lost
\*    with the call sent.
EffectsOnce ==
  /\ part = "loop" =>
       /\ Loop!TypeOK
       /\ Loop!NoRetryAfterEffect
       /\ Loop!NoOpenRecordBehind
       /\ Loop!CallsAreAnswered
       /\ Loop!ShownOnce
       /\ Loop!CompletedTextWasShown
  /\ part = "connection" =>
       /\ Shared!TypeOK
       /\ Shared!ReadyIsWhole
       /\ Shared!InitializeIsBare
       /\ Shared!CallRunsOnce


\* OpenAIStream and OllamaStream: however its pieces arrive, a turn is whole, and
\* each client implements ChatStream.
\*  - An answer the server finished is never lost: unless the run itself is
\*    cancelled, the channel ends with its completion, whatever the rest of
\*    the stream is and however near the deadline (holdCompleted,
\*    drainDeadline).
\*  - The tool calls handed over are whole and told apart by their ids; a turn
\*    that finished for them hands over every call the server began.
\*  - The bounds on a turn are measured against what it really holds: the two
\*    running totals are the bytes of the calls assembled so far.
\*  - A completion carries every token count reported in what was read, each
\*    the newest one, also when the counts come after the finish reason.
\*  - Every argument that came for an index is in the call handed over for it,
\*    and the calls are all the server began (mergeOllamaArgumentMaps).
\*  - A call is told from the others of its turn, and no path of its arguments
\*    has two values (appendToolCallFragment, finalizeToolCalls).
\*  - The OpenAI-compatible reader does what ChatStream promises of a model
\*    stream: pieces in order, at most one end, nothing behind it.
\*  - The Ollama reader does what ChatStream promises of a model stream as
\*    well.
StreamsKeepPromise ==
  /\ [](/\ part = "openai" =>
             /\ OpenAI!TypeOK
             /\ OpenAI!FinishedNeverLost
             /\ OpenAI!CallsAreWhole
             /\ OpenAI!TotalsAreExact
             /\ OpenAI!UsageIsNewest
        /\ part = "ollama" => Ollama!TypeOK /\ Ollama!NoPieceLost /\ Ollama!CallsAreWhole)
  /\ OpenAI!KeepsPromise
  /\ Ollama!KeepsPromise


=============================================================================
