---- MODULE AgentLoop ----
(***************************************************************************)
(* One run in the agent runtime: GeneralAssistant.Execute, the tool runner *)
(* it calls (tools.Runner.RunWithOutcome) and what the worker reports when *)
(* Execute returns.                                                        *)
(*                                                                         *)
(* The model, the orchestrator and the tools answer as they like.  The     *)
(* text of a turn is its number of pieces; messages are kept as who spoke  *)
(* and which tool calls they name, which is what the providers' protocol   *)
(* constrains; whether a request fits the context window is a choice (the  *)
(* ContextBudget module computes it).                                      *)
(***************************************************************************)
EXTENDS Naturals, Sequences, FiniteSets, SequenceTheorems, TLAPS

CONSTANTS MaxToolIterations,   \* maxToolIterations
          MaxToolCalls,        \* toolCallLimit(job)
          MaxTurnCalls,        \* bound: calls in one model turn
          MaxOutput,           \* maxModelOutputBytes, in pieces of text
          ProviderIds          \* ids a model may give a call; 0 is not valid

VARIABLES
    pc,           \* where Execute, or the runner inside it, stands
    debug,        \* the user text names a debug tool (tryDebugTool)
    offered,      \* the job lets the model call tools
    ctx,          \* the run's context: live, or cancelled by the worker
    text,         \* pieces of text in content
    shown,        \* pieces sent to the user as deltas
    live,         \* liveMessages
    used,         \* usedModelToolCallIDs
    calls,        \* ids of the calls of this turn still to execute
    iter,         \* toolIteration
    count,        \* toolCallCount
    sideEffect,   \* successfulToolSideEffect
    writing,      \* the runner's sideEffecting, for the call being run
    err,          \* what the runner's error says, as a set of marks
    open,         \* the orchestrator's record of the call is still open
    recorded,     \* calls the orchestrator has a record of
    announced,    \* calls whose failure the runtime emitted itself
    effect,       \* ghost: a tool may have changed something
    exit          \* how the run left the worker

vars == <<pc, debug, offered, ctx, text, shown, live, used, calls, iter, count,
          sideEffect, writing, err, open, recorded, announced, effect, exit>>

jobVars == <<debug, offered, ctx>>
turnVars == <<text, shown, live, used, iter, count>>
callVars == <<calls, sideEffect, writing, err, open, recorded, announced, effect>>

Exits == {"running", "completed", "failed", "retry", "error", "ended", "silent"}
Marks == {"posted", "reporting", "uncertain", "committed", "wait", "terminal"}
RunnerSteps == {"before", "approval", "call", "after", "settle"}
Steps == {"start", "setup", "request", "stream", "tool", "done"} \cup RunnerSteps

\* An id is <<0, n>> when the model chose it and <<round, index>> when
\* normalizeToolCallIDs derived it from the run, the round and the index.
ModelId(n) == <<0, n>>
CallIds == {ModelId(n) : n \in ProviderIds}
           \cup ((1..MaxToolIterations) \X (1..MaxTurnCalls))
NoCalls == [role |-> "user", ids |-> <<>>]

----------------------------------------------------------------------------
\* What the worker sends once Execute returned: nothing when the run was
\* cancelled (the canceller acknowledges), the terminal update Execute
\* emitted, an acknowledgement when the run is known to have ended, and
\* otherwise a failure that is never retried.
Leave(how) == exit' = IF ctx # "live" THEN "silent" ELSE how

End(how) == pc' = "done" /\ Leave(how) /\ UNCHANGED <<jobVars, turnVars, callVars>>

\* Fault: a model failure is retried whatever the tools have done.
FaultyRetryable(asked) == asked

\* retryClass(... && !successfulToolSideEffect)
Retryable(asked) == asked /\ ~sideEffect

\* emitRunFailed; a failure that may be retried is a different exit.
Fail(retry) == End(IF retry THEN "retry" ELSE "failed")

Fails == Fail(FALSE)
FailsAs(asked) == Fail(Retryable(asked))

\* Returning ctx.Err(), and an emit that could not be sent in time.
StopsIfCancelled == ctx # "live" /\ End("silent")
EmitFails == End("error")

----------------------------------------------------------------------------
\* Execute up to its loop.

\* The egress decision, the history, the message_started event and the
\* debug tool.
Begin ==
    /\ pc = "start"
    /\ \/ StopsIfCancelled
       \/ Fails
       \/ Fail(TRUE)
       \/ EmitFails
       \/ /\ pc' = IF debug THEN "before" ELSE "setup"
          /\ UNCHANGED <<jobVars, turnVars, callVars, exit>>

\* The provider, the tools of the job and the recall prepared for the run.
Setup ==
    /\ pc = "setup"
    /\ \/ StopsIfCancelled
       \/ Fails
       \/ Fail(TRUE)
       \/ /\ pc' = "request"
          /\ UNCHANGED <<jobVars, turnVars, callVars, exit>>

----------------------------------------------------------------------------
\* One turn of the model.

\* The context of the turn, its notices and the start of the stream.
Request ==
    /\ pc = "request"
    /\ \/ StopsIfCancelled
       \/ ctx = "live" /\ (Fails \/ EmitFails)
       \/ ctx = "live" /\ FailsAs(TRUE)
       \/ /\ ctx = "live"
          /\ pc' = "stream"
          /\ UNCHANGED <<jobVars, turnVars, callVars, exit>>


\* A piece of text: refused past the limit of the whole run, otherwise
\* added and sent.
Delta ==
    /\ pc = "stream"
    /\ \/ text = MaxOutput /\ Fails
       \/ /\ text < MaxOutput
          /\ text' = text + 1
          /\ \/ /\ shown' = shown + 1
                /\ UNCHANGED <<pc, exit>>
             \/ /\ pc' = "done"
                /\ Leave("error")
                /\ UNCHANGED shown
          /\ UNCHANGED <<jobVars, live, used, iter, count, callVars>>

\* A timeout, an error event, or a stream that closed without completing.
StreamBreaks ==
    /\ pc = "stream"
    /\ StopsIfCancelled \/ \E asked \in BOOLEAN : FailsAs(asked)

\* normalizeToolCallIDs: the model's id stays when it is valid, no other
\* call of the turn has it and no earlier call of the run used it.
Normalize(asked, round) ==
    [i \in DOMAIN asked |->
        IF \/ asked[i] = ModelId(0)
           \/ asked[i] \in used
           \/ \E j \in DOMAIN asked \ {i} : asked[j] = asked[i]
        THEN <<round, i>> ELSE asked[i]]

\* toolCallCount+len(calls) > a.toolCallLimit(job)
WithinLimit(n) == count + n <= MaxToolCalls

\* The turn completed and asks for no tool: completeRun.
Answered ==
    /\ pc = "stream"
    /\ StopsIfCancelled \/ EmitFails \/ End("completed")

\* The turn completed with tool calls: refused for a job without tools, past
\* the limit of the run, or when even the shortest answers would not fit;
\* otherwise the calls join the live messages under their final ids.
CallsAsked ==
    /\ pc = "stream"
    /\ ctx = "live"
    /\ \/ Fails
       \/ /\ offered
          /\ \E n \in 1..MaxTurnCalls : \E asked \in [1..n -> CallIds] :
                /\ WithinLimit(n)
                /\ \A i \in 1..n : asked[i][1] > 0 => asked[i] \in used
                /\ LET ids == Normalize(asked, iter + 1) IN
                   /\ calls' = ids
                   /\ live' = Append(live, [role |-> "assistant", ids |-> ids])
                   /\ used' = used \cup {ids[i] : i \in 1..n}
                             \cup {asked[i] : i \in {j \in 1..n :
                                     \E k \in 1..n \ {j} : asked[k] = asked[j]}}
                /\ count' = count + n
          /\ pc' = "tool"
          /\ UNCHANGED <<jobVars, text, shown, iter, sideEffect, writing, err,
                         open, recorded, announced, effect, exit>>

----------------------------------------------------------------------------
\* One tool call.

Call == Head(calls)

\* The result of a call joins the live messages, unless it is past the
\* limit on result bytes.
Answer ==
    \/ /\ live' = Append(live, [role |-> "tool", ids |-> <<Call>>])
       /\ calls' = Tail(calls)
       /\ pc' = "tool"
       /\ UNCHANGED exit
    \/ /\ pc' = "done"
       /\ Leave("failed")
       /\ UNCHANGED <<live, calls>>

\* executeToolCall up to the runner: a tool that is not offered is announced
\* as failed and answered; a tool the job has goes to the runner.
StartCall ==
    /\ pc = "tool" /\ calls # <<>>
    /\ \/ StopsIfCancelled
       \/ ctx = "live" /\ EmitFails
       \/ /\ ctx = "live"
          /\ announced' = announced \cup {Call}
          /\ Answer
          /\ UNCHANGED <<jobVars, text, shown, used, iter, count, sideEffect,
                         writing, err, open, recorded, effect>>
       \/ /\ ctx = "live"
          /\ pc' = "before"
          /\ UNCHANGED <<jobVars, turnVars, callVars, exit>>

\* The end of a round of calls: another turn, or the iteration limit.
NextTurn ==
    /\ pc = "tool" /\ calls = <<>>
    /\ iter' = iter + 1
    /\ \/ /\ iter + 1 < MaxToolIterations
          /\ pc' = "request"
          /\ UNCHANGED exit
       \/ /\ iter + 1 >= MaxToolIterations
          /\ pc' = "done"
          /\ Leave("completed") \/ Leave("error")
    /\ UNCHANGED <<jobVars, text, shown, live, used, count, callVars>>

Current == IF debug THEN <<0, 0>> ELSE Call
runnerVars == <<calls, sideEffect, announced>>
Opens == open' = TRUE /\ recorded' = recorded \cup {Current}

\* RunWithOutcome up to the decision.  The call may fail before its beacon
\* leaves; the beacon may be lost, or answered with something unusable; the
\* orchestrator closes the record itself when it denies the call or has
\* ended the run.
PostBefore ==
    /\ pc = "before"
    /\ \/ pc' = "settle" /\ err' = {} /\ writing' = FALSE /\ UNCHANGED <<open, recorded>>
       \/ pc' = "settle" /\ err' = {"reporting"} /\ writing' = FALSE
          /\ UNCHANGED <<open, recorded>>
       \/ pc' = "after" /\ err' \in {{"reporting", "posted"}, {"posted"}}
          /\ writing' = FALSE /\ Opens
       \/ pc' = "settle" /\ err' \in {{"terminal", "posted"}, {"posted"}}
          /\ writing' = FALSE /\ recorded' = recorded \cup {Current} /\ UNCHANGED open
       \/ pc' = "call" /\ err' = {} /\ writing' = FALSE /\ Opens
       \/ pc' = "approval" /\ err' = {} /\ writing' \in BOOLEAN /\ Opens
    /\ UNCHANGED <<jobVars, turnVars, runnerVars, effect, exit>>

\* The wait for the decision and the resume that follows it: granted, ended
\* with the run by a denial or an expiry, or failed.
WaitApproval ==
    /\ pc = "approval"
    /\ \/ pc' = "call" /\ ctx = "live" /\ UNCHANGED <<err, open>>
       \/ pc' = "settle" /\ err' = {"terminal", "posted"} /\ open' = FALSE
       \/ pc' = "after" /\ err' = {"wait", "posted"} /\ UNCHANGED open
    /\ UNCHANGED <<jobVars, turnVars, runnerVars, writing, recorded, effect, exit>>

\* The tool is called.  One that failed may have done its work all the same.
CallTool ==
    /\ pc = "call"
    /\ pc' = "after"
    /\ \/ err' = {"ok"} /\ effect' = (effect \/ writing)
       \/ /\ err' = IF writing THEN {"posted", "uncertain"} ELSE {"posted"}
          /\ effect' \in {effect, effect \/ writing}
    /\ UNCHANGED <<jobVars, turnVars, runnerVars, writing, open, recorded, exit>>

\* The runner's error when the after beacon failed.
Unreported ==
    IF err = {"ok"}
    THEN IF writing THEN {"posted", "committed"} ELSE {"posted", "reporting"}
    ELSE err \cup {"posted", "reporting"}

\* postAfter: it runs even when the run was cancelled.
PostAfter ==
    /\ pc = "after"
    /\ pc' = "settle"
    /\ \/ open' = FALSE /\ UNCHANGED err
       \/ open' \in {open, FALSE} /\ err' = Unreported
    /\ UNCHANGED <<jobVars, turnVars, runnerVars, writing, recorded, effect, exit>>

\* The calls whose error ends the run without an answer to the model.
EndsRun == err \cap {"committed", "uncertain", "wait", "reporting"} # {}

\* executeToolCall after the runner.
Settle ==
    /\ pc = "settle" /\ ~debug
    /\ \/ ctx # "live" /\ "reporting" \notin err /\ End("silent")
       \/ /\ ctx = "live" \/ "reporting" \in err
          /\ \/ "terminal" \in err /\ End("ended")
             \/ "terminal" \notin err /\ EndsRun /\ End("error")
             \/ /\ "terminal" \notin err /\ ~EndsRun
                /\ \/ err # {} /\ UNCHANGED announced
                   \/ err = {} /\ announced' = announced \cup {Call}
                /\ sideEffect' = (sideEffect \/ (err = {"ok"} /\ writing))
                /\ Answer
                /\ err' = {} /\ writing' = FALSE
                /\ UNCHANGED <<jobVars, text, shown, used, iter, count, open,
                               recorded, effect>>
             \/ err = {} /\ EmitFails

\* tryDebugTool after the runner.
SettleDebug ==
    /\ pc = "settle" /\ debug
    /\ \/ "terminal" \in err /\ End("ended")
       \/ "terminal" \notin err /\ EndsRun /\ End("error")
       \/ "terminal" \notin err /\ ~EndsRun /\ err # {"ok"} /\ Fails
       \/ err = {"ok"} /\ EmitFails
       \/ /\ err = {"ok"} /\ pc' = "done" /\ Leave("completed")
          /\ text' = 1 /\ shown' = 1
          /\ UNCHANGED <<jobVars, live, used, iter, count, callVars>>

----------------------------------------------------------------------------
\* The worker cancels the run: the user cancelled it, its approval was
\* decided against, or the stream to the orchestrator was lost.
Cancel ==
    /\ ctx = "live" /\ pc # "done"
    /\ ctx' = "cancelled"
    /\ UNCHANGED <<pc, debug, offered, turnVars, callVars, exit>>

Step == \/ Begin \/ Setup \/ Request \/ Delta \/ StreamBreaks \/ Answered
        \/ CallsAsked \/ StartCall \/ NextTurn \/ PostBefore \/ WaitApproval
        \/ CallTool \/ PostAfter \/ Settle \/ SettleDebug

Finished == pc = "done" /\ UNCHANGED vars

Next == Step \/ Cancel \/ Finished

Init ==
    /\ pc = "start" /\ ctx = "live" /\ exit = "running"
    /\ debug \in BOOLEAN /\ offered \in BOOLEAN /\ (debug => offered)
    /\ text = 0 /\ shown = 0 /\ iter = 0 /\ count = 0
    /\ live = <<NoCalls>> /\ used = {} /\ calls = <<>>
    /\ sideEffect = FALSE /\ writing = FALSE /\ err = {}
    /\ open = FALSE /\ recorded = {} /\ announced = {} /\ effect = FALSE

Spec == Init /\ [][Next]_vars

\* The model stream yields an event or closes, a tool call and an approval
\* wait end: each has a timeout, or the peer behind it answers.
Fairness == WF_vars(Step)

----------------------------------------------------------------------------
\* Properties.

TypeOK ==
    /\ pc \in Steps /\ ctx \in {"live", "cancelled"} /\ exit \in Exits
    /\ {debug, offered, sideEffect, writing, open, effect} \subseteq BOOLEAN
    /\ text \in 0..MaxOutput /\ shown \in 0..MaxOutput
    /\ iter \in 0..MaxToolIterations /\ count \in 0..MaxToolCalls
    /\ err \subseteq Marks \cup {"ok"}
    /\ used \cup recorded \cup announced \subseteq CallIds \cup {<<0, 0>>}
    /\ live \in Seq([role : {"user", "assistant", "tool"}, ids : Seq(CallIds)])

\* Execute, side effects: a run whose tool may have changed something is
\* never reported as one the orchestrator may run again by itself.
NoRetryAfterEffect == exit = "retry" => ~effect

\* RunWithOutcome and executeToolCall: the model is never answered, and the
\* run never reported as ended by Execute itself, while the orchestrator
\* holds an open record of a tool call.
NoOpenRecordBehind ==
    open => pc \in RunnerSteps \/ exit \in {"error", "silent"}

\* normalizeToolCallIDs and the loop: every request to the model pairs each
\* tool call of the run with exactly one result, after it and in the order
\* the calls were made, and no id names two calls.
CallsAreAnswered ==
    pc = "request" =>
        LET Ids(role) == [i \in DOMAIN live |-> IF live[i].role = role THEN live[i].ids ELSE <<>>]
            Flat[i \in 0..Len(live)] ==
                IF i = 0 THEN [asked |-> <<>>, told |-> <<>>]
                ELSE [asked |-> Flat[i-1].asked \o Ids("assistant")[i],
                      told |-> Flat[i-1].told \o Ids("tool")[i]]
            whole == Flat[Len(live)]
        IN /\ whole.asked = whole.told
           /\ Cardinality({whole.asked[i] : i \in DOMAIN whole.asked}) = Len(whole.asked)

\* emitAssistantToolCallFailed: every call the model got a result for shows
\* up for the user exactly once, as the orchestrator's record or as the
\* failure the runtime announced.
ShownOnce ==
    \A i \in DOMAIN live : live[i].role = "tool" =>
        (live[i].ids[1] \in recorded) # (live[i].ids[1] \in announced)

\* completeRun: a completed run reports the text the user was shown.
CompletedTextWasShown == exit = "completed" => text = shown

\* The limits on output, calls and iterations: every run ends, whatever the
\* model goes on asking for.
Over == pc = "done"
RunEnds == <>[]Over

----------------------------------------------------------------------------
(***************************************************************************)
(* Proofs.  What a call's outcome is and what the orchestrator knows of it *)
(* are settled in different steps, so the properties above are not         *)
(* inductive by themselves; IInv says what each step of the runner owes to *)
(* the next.                                                               *)
(***************************************************************************)

\* maxToolIterations, the call limit and the output limit are positive.
ConstantsOK ==
    /\ MaxToolIterations \in Nat \ {0} /\ MaxOutput \in Nat \ {0}
    /\ MaxToolCalls \in Nat /\ MaxTurnCalls \in Nat

Ids == CallIds \cup {<<0, 0>>}
Messages == [role : {"user", "assistant", "tool"}, ids : Seq(CallIds)]

Typed ==
    /\ pc \in Steps /\ ctx \in {"live", "cancelled"} /\ exit \in Exits
    /\ debug \in BOOLEAN /\ offered \in BOOLEAN /\ sideEffect \in BOOLEAN
    /\ writing \in BOOLEAN /\ open \in BOOLEAN /\ effect \in BOOLEAN
    /\ text \in 0..MaxOutput /\ shown \in 0..MaxOutput
    /\ iter \in 0..MaxToolIterations /\ count \in 0..MaxToolCalls
    /\ err \subseteq Marks \cup {"ok"}
    /\ used \subseteq Ids /\ recorded \subseteq Ids /\ announced \subseteq Ids
    /\ calls \in Seq(CallIds)
    /\ live \in Seq(Messages)

\* The steps at which no call of the turn is known yet, and the ends that
\* leave the open record of a call to the orchestrator.
Turn == {"start", "setup", "request", "stream"}
Abandoned == {"error", "silent"}

\* Where the calls of a turn are pending; a debug run has none.
Flow ==
    /\ pc = "done" <=> exit # "running"
    /\ pc # "done" => iter < MaxToolIterations
    /\ pc \in Turn => calls = <<>>
    /\ pc \in RunnerSteps /\ ~debug => calls # <<>>
    /\ debug => calls = <<>> /\ live = <<NoCalls>>
                 /\ pc \notin {"setup", "request", "stream", "tool"}

\* An effect the loop has not noted is one whose outcome still travels from
\* the tool to executeToolCall, which then notes it or ends the run.
EffectKnown ==
    /\ pc \in {"start", "setup"} => ~effect
    /\ effect /\ ~sideEffect /\ pc # "done" =>
           /\ pc \in {"after", "settle"}
           /\ (err = {"ok"} /\ writing) \/ "uncertain" \in err \/ "committed" \in err
    /\ NoRetryAfterEffect

\* A record is open while the runner is at work, and past it only under an
\* error that ends the run.
RecordOpen ==
    /\ open => \/ pc \in {"approval", "call", "after"}
               \/ pc = "settle" /\ EndsRun /\ "terminal" \notin err
               \/ pc = "done" /\ exit \in Abandoned
    /\ pc = "after" => err # {} /\ "terminal" \notin err

TextKnown == text = shown \/ (pc = "done" /\ exit \in Abandoned)

\* What the orchestrator knows of the call being executed.
Logged ==
    /\ pc \in {"approval", "call", "after"} => Call \in recorded
    /\ pc = "settle" /\ err = {} => Call \notin recorded
    /\ pc = "settle" /\ err # {} /\ ~EndsRun /\ "terminal" \notin err => Call \in recorded

\* The ids of the run: a pending call is named by an id no answered call has
\* and the user has not seen, except for the record of the one being run.
Named ==
    /\ ShownOnce
    /\ pc # "done" =>
        /\ \A u \in used : u[1] <= iter + 1 /\ (pc \in Turn => u[1] <= iter)
        /\ \A i, j \in DOMAIN calls : calls[i] = calls[j] => i = j
        /\ \A i \in DOMAIN calls : /\ calls[i] \in used /\ calls[i] \notin announced
                                    /\ calls[i] # <<0, 0>>
        /\ \A i \in DOMAIN calls : calls[i] \in recorded =>
                i = 1 /\ pc \in RunnerSteps \ {"before"}
        /\ \A k \in DOMAIN live : live[k].role = "tool" =>
                live[k].ids[1] \in used /\ \A i \in DOMAIN calls : calls[i] # live[k].ids[1]
        /\ recorded \subseteq used \cup {<<0, 0>>} /\ announced \subseteq used \cup {<<0, 0>>}
        /\ ~debug => Logged

IInv == Typed /\ Flow /\ EffectKnown /\ RecordOpen /\ TextKnown /\ Named

----------------------------------------------------------------------------
\* CallIds: the first part of an id is its round, 0 for the model's own.
LEMMA IdRounds ==
    ASSUME ConstantsOK
    PROVE  /\ \A c \in Ids : c[1] \in Nat
           /\ \A r \in 1..MaxToolIterations : \A i \in 1..MaxTurnCalls : <<r, i>> \in CallIds
  BY DEF ConstantsOK, Ids, CallIds, ModelId

\* The run's first state.
LEMMA InitHolds ==
    ASSUME ConstantsOK, Init
    PROVE  IInv
  <1>1. NoCalls \in Messages
    BY DEF NoCalls, Messages
  <1>2. live \in Seq(Messages) /\ Len(live) = 1 /\ live[1] = NoCalls
    BY <1>1 DEF Init
  <1>3. Typed
    <2>1. calls \in Seq(CallIds) /\ used \subseteq Ids /\ recorded \subseteq Ids
          /\ announced \subseteq Ids /\ err \subseteq Marks \cup {"ok"}
      BY DEF Init
    <2>2. text \in 0..MaxOutput /\ shown \in 0..MaxOutput /\ iter \in 0..MaxToolIterations
          /\ count \in 0..MaxToolCalls
      BY DEF Init, ConstantsOK
    <2> QED BY <1>2, <2>1, <2>2, Zenon DEF Init, Typed, Steps, Exits
  <1>4. Flow /\ EffectKnown /\ RecordOpen /\ TextKnown
    BY DEF Init, ConstantsOK, Flow, EffectKnown, RecordOpen, TextKnown, RunnerSteps, Turn,
           NoRetryAfterEffect, NoCalls
  <1>5. ShownOnce
    BY <1>2 DEF ShownOnce, NoCalls
  <1>6. Named
    BY <1>2, <1>5 DEF Init, Named, Logged, NoCalls
  <1> QED BY <1>3, <1>4, <1>6 DEF IInv

\* End: leaving Execute keeps the invariant when nothing retried had an
\* effect and an open record is left only under an error.
LEMMA EndKeeps ==
    ASSUME IInv, NEW how \in Exits \ {"running"}, End(how), pc # "done",
           how = "retry" => ~effect, open => how \in Abandoned \/ ctx # "live"
    PROVE  IInv'
  <1>1. exit' \in Exits \ {"running"} /\ pc' = "done"
        /\ (exit' = how \/ exit' = "silent") /\ (ctx # "live" => exit' = "silent")
    BY DEF End, Leave, Exits
  <1>2. UNCHANGED <<debug, offered, ctx, text, shown, live, used, iter, count>>
        /\ UNCHANGED <<calls, sideEffect, writing, err, open, recorded, announced, effect>>
    BY DEF End, jobVars, turnVars, callVars
  <1>3. Typed'
    BY <1>1, <1>2 DEF IInv, Typed, Steps
  <1>4. Flow'
    BY <1>1, <1>2 DEF IInv, Flow, Turn, RunnerSteps
  <1>5. EffectKnown'
    BY <1>1, <1>2 DEF IInv, EffectKnown, NoRetryAfterEffect
  <1>6. RecordOpen' /\ TextKnown'
    BY <1>1, <1>2 DEF IInv, RecordOpen, TextKnown, Abandoned
  <1>7. Named'
    BY <1>1, <1>2 DEF IInv, Named, ShownOnce
  <1> QED BY <1>3, <1>4, <1>5, <1>6, <1>7 DEF IInv

\* Between two turns, and before the runner, no record is open and every
\* effect is noted.
LEMMA CleanSteps ==
    ASSUME IInv, pc \in Turn \cup {"tool", "before"}
    PROVE  ~open /\ (effect => sideEffect) /\ (pc \in {"start", "setup"} => ~effect) /\ pc # "done"
           /\ text = shown
  BY DEF IInv, Typed, RecordOpen, EffectKnown, Turn, TextKnown

\* The ways Execute fails at those steps.
LEMMA CleanEnds ==
    ASSUME IInv, pc \in Turn \cup {"tool", "before"},
           \/ StopsIfCancelled \/ Fails \/ EmitFails \/ End("completed")
           \/ \E asked \in BOOLEAN : FailsAs(asked)
           \/ pc \in {"start", "setup"} /\ Fail(TRUE)
    PROVE  IInv'
  <1>0. ~open /\ (effect => sideEffect) /\ (pc \in {"start", "setup"} => ~effect) /\ pc # "done"
    BY CleanSteps
  <1>1. PICK how \in Exits \ {"running"} : End(how) /\ (how = "retry" => ~effect)
    <2>1. CASE StopsIfCancelled
      BY <2>1 DEF StopsIfCancelled, Exits
    <2>2. CASE Fails
      BY <2>2 DEF Fails, Fail, Exits
    <2>3. CASE EmitFails
      BY <2>3 DEF EmitFails, Exits
    <2>4. CASE End("completed")
      BY <2>4 DEF Exits
    <2>5. ASSUME NEW asked \in BOOLEAN, FailsAs(asked)
          PROVE  \E how \in Exits \ {"running"} : End(how) /\ (how = "retry" => ~effect)
      <3>1. CASE Retryable(asked)
        BY <1>0, <2>5, <3>1 DEF FailsAs, Fail, Retryable, Exits
      <3>2. CASE ~Retryable(asked)
        BY <2>5, <3>2 DEF FailsAs, Fail, Exits
      <3> QED BY <3>1, <3>2
    <2>6. CASE pc \in {"start", "setup"} /\ Fail(TRUE)
      BY <1>0, <2>6 DEF Fail, Exits
    <2> QED BY <2>1, <2>2, <2>3, <2>4, <2>5, <2>6, Zenon
  <1> QED BY <1>0, <1>1, EndKeeps

\* A step that only moves on keeps the invariant where the next place asks
\* for nothing more.
LEMMA MoveKeeps ==
    ASSUME IInv, UNCHANGED <<jobVars, turnVars, callVars, exit>>,
           \/ pc = "start" /\ pc' = IF debug THEN "before" ELSE "setup"
           \/ pc = "setup" /\ pc' = "request"
           \/ pc = "request" /\ pc' = "stream"
           \/ pc = "tool" /\ calls # <<>> /\ pc' = "before"
    PROVE  IInv'
  <1>1. /\ UNCHANGED <<debug, offered, ctx, text, shown, live, used, iter, count, exit>>
        /\ UNCHANGED <<calls, sideEffect, writing, err, open, recorded, announced, effect>>
    BY DEF jobVars, turnVars, callVars
  <1>2. pc \in Turn \cup {"tool"} /\ pc # "done" /\ pc' \in Steps
        /\ pc' \in {"before", "setup", "request", "stream"}
        /\ (pc' = "before" => pc = "tool" \/ debug) /\ (pc' \in Turn => pc \in Turn)
        /\ (pc' = "setup" => pc = "start") /\ (debug => pc' = "before" \/ pc # "start")
    BY DEF Turn, Steps, RunnerSteps
  <1>3. Typed'
    BY <1>1, <1>2 DEF IInv, Typed
  <1>4. Flow'
    BY <1>1, <1>2 DEF IInv, Flow, Turn, RunnerSteps
  <1>5. EffectKnown' /\ RecordOpen' /\ TextKnown'
    BY <1>1, <1>2 DEF IInv, EffectKnown, RecordOpen, TextKnown, Turn, NoRetryAfterEffect
  <1>6. Named'
    <2>1. ShownOnce'
      BY <1>1 DEF IInv, Named, ShownOnce
    <2>2. \A i \in DOMAIN calls : calls[i] \notin recorded
      BY <1>2 DEF IInv, Named, RunnerSteps, Turn
    <2>3. Logged'
      BY <1>2 DEF Logged
    <2>4. \A u \in used : u[1] <= iter + 1 /\ (pc \in Turn => u[1] <= iter)
      BY <1>2 DEF IInv, Named
    <2> QED BY <1>1, <1>2, <2>1, <2>2, <2>3, <2>4 DEF IInv, Named
  <1> QED BY <1>3, <1>4, <1>5, <1>6 DEF IInv

\* Execute up to its first turn, and the start of a turn.
LEMMA BeginKeeps ==
    ASSUME IInv, Begin \/ Setup \/ Request
    PROVE  IInv'
  <1>1. pc \in Turn \cup {"tool", "before"}
    BY Zenon DEF Begin, Setup, Request, Turn
  <1>2. CASE Begin
    BY <1>1, <1>2, CleanEnds, MoveKeeps, Zenon DEF Begin
  <1>3. CASE Setup
    BY <1>1, <1>3, CleanEnds, MoveKeeps, Zenon DEF Setup
  <1>4. CASE Request
    BY <1>1, <1>4, CleanEnds, MoveKeeps, Zenon DEF Request
  <1> QED BY <1>2, <1>3, <1>4

\* A broken stream, and a turn that asks for no tool.
LEMMA StreamEndKeeps ==
    ASSUME IInv, StreamBreaks \/ Answered
    PROVE  IInv'
  <1>1. pc \in Turn \cup {"tool", "before"}
    BY DEF StreamBreaks, Answered, Turn
  <1> QED BY <1>1, CleanEnds, Zenon DEF StreamBreaks, Answered

\* A piece of text.
LEMMA DeltaKeeps ==
    ASSUME ConstantsOK, IInv, Delta
    PROVE  IInv'
  <1>1. pc \in Turn \cup {"tool", "before"} /\ pc = "stream"
    BY DEF Delta, Turn
  <1>2. ~open /\ (effect => sideEffect) /\ pc # "done" /\ text = shown
    BY <1>1, CleanSteps
  <1>3. CASE Fails
    BY <1>1, <1>3, CleanEnds
  <1>4. CASE ~Fails
    <2>1. /\ text < MaxOutput /\ text' = text + 1
          /\ \/ shown' = shown + 1 /\ pc' = pc /\ exit' = exit
             \/ pc' = "done" /\ exit' \in Abandoned /\ shown' = shown
      BY <1>4 DEF Delta, Leave, Abandoned
    <2>2. /\ UNCHANGED <<debug, offered, ctx, live, used, iter, count>>
          /\ UNCHANGED <<calls, sideEffect, writing, err, open, recorded, announced, effect>>
      BY <1>4 DEF Delta, jobVars, callVars
    <2>3. Typed'
      <3>1. text' \in 0..MaxOutput /\ shown' \in 0..MaxOutput
        BY <1>2, <2>1 DEF IInv, Typed, ConstantsOK
      <3> QED BY <2>1, <2>2, <3>1 DEF IInv, Typed, Steps, Exits, Abandoned
    <2>4. Flow' /\ EffectKnown' /\ RecordOpen' /\ TextKnown'
      BY <1>1, <1>2, <2>1, <2>2 DEF IInv, Flow, EffectKnown, RecordOpen, TextKnown, Turn,
             RunnerSteps, NoRetryAfterEffect, Abandoned
    <2>5. Named'
      <3>1. ShownOnce'
        BY <2>2 DEF IInv, Named, ShownOnce
      <3>2. CASE pc' = "done"
        BY <3>1, <3>2 DEF Named
      <3>3. CASE pc' = pc
        <4>1. Logged'
          BY <1>1, <3>3 DEF Logged
        <4> QED BY <1>1, <2>2, <3>1, <3>3, <4>1 DEF IInv, Named
      <3> QED BY <2>1, <3>2, <3>3
    <2> QED BY <2>3, <2>4, <2>5 DEF IInv
  <1> QED BY <1>3, <1>4

\* The context of the run is cancelled.
LEMMA CancelKeeps ==
    ASSUME IInv, Cancel
    PROVE  IInv'
  <1>1. /\ UNCHANGED <<pc, debug, offered, text, shown, live, used, iter, count, exit>>
        /\ UNCHANGED <<calls, sideEffect, writing, err, open, recorded, announced, effect>>
        /\ ctx' = "cancelled"
    BY DEF Cancel, turnVars, callVars
  <1>2. Typed'
    BY <1>1 DEF IInv, Typed
  <1>3. Flow' /\ EffectKnown' /\ RecordOpen' /\ TextKnown'
    BY <1>1 DEF IInv, Flow, EffectKnown, RecordOpen, TextKnown, NoRetryAfterEffect, EndsRun
  <1>4. ShownOnce' /\ (Logged => Logged')
    BY <1>1 DEF IInv, Named, ShownOnce, Logged, Call, EndsRun
  <1>5. Named'
    BY <1>1, <1>4 DEF IInv, Named
  <1> QED BY <1>2, <1>3, <1>5 DEF IInv

\* normalizeToolCallIDs: the ids of a turn are new to the run and differ.
LEMMA FreshIds ==
    ASSUME ConstantsOK, used \subseteq Ids, iter \in Nat, iter < MaxToolIterations,
           \A u \in used : u[1] <= iter,
           NEW n \in 1..MaxTurnCalls, NEW asked \in [1..n -> CallIds],
           \A i \in 1..n : asked[i][1] > 0 => asked[i] \in used,
           NEW ids, ids = Normalize(asked, iter + 1)
    PROVE  /\ ids \in Seq(CallIds) /\ ids # <<>> /\ DOMAIN ids = 1..n
           /\ \A i \in 1..n : /\ ids[i] \notin used /\ ids[i] # <<0, 0>>
                              /\ ids[i][1] <= iter + 1
           /\ \A i, j \in 1..n : ids[i] = ids[j] => i = j
           /\ \A i \in 1..n : asked[i][1] <= iter
  <1> DEFINE Kept(i) == /\ asked[i] # <<0, 0>> /\ asked[i] \notin used
                        /\ \A j \in 1..n \ {i} : asked[j] # asked[i]
  <1>0. MaxTurnCalls \in Nat /\ n \in Nat /\ n >= 1 /\ MaxToolIterations \in Nat
        /\ iter + 1 \in 1..MaxToolIterations
    BY DEF ConstantsOK
  <1>1. DOMAIN ids = 1..n
        /\ \A i \in 1..n : ids[i] = IF Kept(i) THEN asked[i] ELSE <<iter + 1, i>>
    BY DEF Normalize, ModelId
  <1>2. \A i \in 1..n : asked[i] \in CallIds /\ asked[i][1] \in Nat
    BY IdRounds DEF Ids
  <1>3. \A i \in 1..n : Kept(i) => ids[i] = asked[i] /\ asked[i][1] = 0
    <2> SUFFICES ASSUME NEW i \in 1..n, Kept(i) PROVE ids[i] = asked[i] /\ asked[i][1] = 0
      OBVIOUS
    <2>1. ids[i] = asked[i]
      BY <1>1, Zenon
    <2>2. ~(asked[i][1] > 0) /\ asked[i][1] \in Nat
      BY <1>2
    <2> QED BY <2>1, <2>2
  <1>4. \A i \in 1..n : ~Kept(i) => ids[i] = <<iter + 1, i>>
    BY <1>1, Zenon
  <1>5. \A i \in 1..n : ids[i] \in CallIds
    <2> SUFFICES ASSUME NEW i \in 1..n PROVE ids[i] \in CallIds
      OBVIOUS
    <2>1. i \in 1..MaxTurnCalls
      BY <1>0
    <2> QED BY <1>0, <1>2, <1>3, <1>4, <2>1, IdRounds, Zenon
  <1>6. ids \in [1..n -> CallIds]
    <2>1. ids = [i \in 1..n |-> ids[i]]
      BY DEF Normalize
    <2> QED BY <1>5, <2>1
  <1>7. ids \in Seq(CallIds) /\ ids # <<>>
    <2>1. ids \in Seq(CallIds)
      BY <1>0, <1>6, SeqDef
    <2>2. 1 \in DOMAIN ids
      BY <1>0, <1>1
    <2> QED BY <2>1, <2>2
  <1>8. \A i \in 1..n : /\ ids[i] \notin used /\ ids[i] # <<0, 0>> /\ ids[i][1] <= iter + 1
    <2> SUFFICES ASSUME NEW i \in 1..n
                 PROVE  ids[i] \notin used /\ ids[i] # <<0, 0>> /\ ids[i][1] <= iter + 1
      OBVIOUS
    <2>1. CASE Kept(i)
      BY <1>3, <2>1
    <2>2. CASE ~Kept(i)
      <3>1. ids[i] = <<iter + 1, i>> /\ ids[i][1] = iter + 1
        BY <1>4, <2>2
      <3> QED BY <3>1
    <2> QED BY <2>1, <2>2
  <1>9. \A i, j \in 1..n : ids[i] = ids[j] => i = j
    <2> SUFFICES ASSUME NEW i \in 1..n, NEW j \in 1..n, ids[i] = ids[j], i # j PROVE FALSE
      OBVIOUS
    <2>1. CASE Kept(i) /\ Kept(j)
      BY <1>3, <2>1
    <2>2. CASE ~Kept(i) /\ ~Kept(j)
      BY <1>4, <2>2
    <2>3. CASE Kept(i) /\ ~Kept(j)
      <3>1. ids[i][1] = 0 /\ ids[j][1] = iter + 1
        BY <1>3, <1>4, <2>3
      <3> QED BY <3>1
    <2>4. CASE ~Kept(i) /\ Kept(j)
      <3>1. ids[j][1] = 0 /\ ids[i][1] = iter + 1
        BY <1>3, <1>4, <2>4
      <3> QED BY <3>1
    <2> QED BY <2>1, <2>2, <2>3, <2>4
  <1>10. \A i \in 1..n : asked[i][1] <= iter
    BY <1>2
  <1> QED BY <1>1, <1>7, <1>8, <1>9, <1>10

\* The calls of a turn join the run.
LEMMA CallsAskedKeeps ==
    ASSUME ConstantsOK, IInv, CallsAsked
    PROVE  IInv'
  <1>1. pc \in Turn \cup {"tool", "before"} /\ pc = "stream"
    BY DEF CallsAsked, Turn
  <1>2. ~open /\ (effect => sideEffect) /\ pc # "done" /\ text = shown
    BY <1>1, CleanSteps
  <1>3. CASE Fails
    BY <1>1, <1>3, CleanEnds
  <1>4. CASE ~Fails
    <2>1. PICK n \in 1..MaxTurnCalls : \E asked \in [1..n -> CallIds] :
             /\ WithinLimit(n)
             /\ \A i \in 1..n : asked[i][1] > 0 => asked[i] \in used
             /\ calls' = Normalize(asked, iter + 1)
             /\ live' = Append(live, [role |-> "assistant", ids |-> Normalize(asked, iter + 1)])
             /\ used' = used \cup {Normalize(asked, iter + 1)[i] : i \in 1..n}
                        \cup {asked[i] : i \in {j \in 1..n :
                                \E k \in 1..n \ {j} : asked[k] = asked[j]}}
             /\ count' = count + n
      BY <1>4, Zenon DEF CallsAsked
    <2>2. PICK asked \in [1..n -> CallIds] :
             /\ WithinLimit(n)
             /\ \A i \in 1..n : asked[i][1] > 0 => asked[i] \in used
             /\ calls' = Normalize(asked, iter + 1)
             /\ live' = Append(live, [role |-> "assistant", ids |-> Normalize(asked, iter + 1)])
             /\ used' = used \cup {Normalize(asked, iter + 1)[i] : i \in 1..n}
                        \cup {asked[i] : i \in {j \in 1..n :
                                \E k \in 1..n \ {j} : asked[k] = asked[j]}}
             /\ count' = count + n
      BY <2>1, Zenon
    <2>3. /\ pc' = "tool" /\ UNCHANGED <<debug, offered, ctx, text, shown, iter, exit>>
          /\ UNCHANGED <<sideEffect, writing, err, open, recorded, announced, effect>>
      BY <1>4 DEF CallsAsked, jobVars
    <2>4. PICK ids : ids = Normalize(asked, iter + 1)
      OBVIOUS
    <2>5. /\ used \subseteq Ids /\ iter \in Nat /\ iter < MaxToolIterations
          /\ \A u \in used : u[1] <= iter
      BY <1>1 DEF IInv, Typed, Flow, Named, Turn, ConstantsOK
    <2>6. /\ ids \in Seq(CallIds) /\ ids # <<>> /\ DOMAIN ids = 1..n
          /\ \A i \in 1..n : /\ ids[i] \notin used /\ ids[i] # <<0, 0>>
                             /\ ids[i][1] <= iter + 1
          /\ \A i, j \in 1..n : ids[i] = ids[j] => i = j
          /\ \A i \in 1..n : asked[i][1] <= iter
      BY <2>2, <2>4, <2>5, FreshIds
    <2>7. /\ calls' = ids /\ count' = count + n
          /\ live' = Append(live, [role |-> "assistant", ids |-> ids])
      BY <2>2, <2>4
    <2>8. used \subseteq used' /\ \A i \in 1..n : ids[i] \in used'
      BY <2>2, <2>4
    <2>9. \A u \in used' : u \in used \/ \E i \in 1..n : u = ids[i] \/ u = asked[i]
      BY <2>2, <2>4
    <2>10. live' \in Seq(Messages) /\ DOMAIN live' = 1..Len(live) + 1 /\ DOMAIN live = 1..Len(live)
           /\ Len(live) \in Nat
           /\ (\A k \in DOMAIN live : live'[k] = live[k])
           /\ live'[Len(live) + 1].role = "assistant"
      <3>1. PICK m : m = [role |-> "assistant", ids |-> ids]
        BY Zenon
      <3>2. live \in Seq(Messages) /\ m \in Messages /\ m.role = "assistant"
        BY <2>6, <3>1 DEF IInv, Typed, Messages
      <3>3. live' \in Seq(Messages) /\ Len(live') = Len(live) + 1
            /\ (\A k \in 1..Len(live) : live'[k] = live[k])
            /\ live'[Len(live) + 1] = m
        BY <2>7, <3>1, <3>2, AppendProperties
      <3>4. DOMAIN live' = 1..Len(live') /\ DOMAIN live = 1..Len(live) /\ Len(live) \in Nat
        BY <3>2, <3>3, LenProperties
      <3> QED BY <3>2, <3>3, <3>4
    <2>11. Typed'
      <3>1. count' \in 0..MaxToolCalls
        BY <2>2, <2>7 DEF WithinLimit, IInv, Typed, ConstantsOK
      <3>2. used' \subseteq Ids
        <4>1. \A i \in 1..n : ids[i] \in CallIds /\ asked[i] \in CallIds
          BY <2>6
        <4> QED BY <2>5, <2>9, <4>1 DEF Ids
      <3> QED BY <2>3, <2>6, <2>7, <2>10, <3>1, <3>2 DEF IInv, Typed, Steps
    <2>12. ~debug /\ ~debug'
      BY <1>1, <2>3 DEF IInv, Flow
    <2>13. Flow' /\ EffectKnown' /\ RecordOpen' /\ TextKnown'
      BY <1>1, <1>2, <2>3, <2>12 DEF IInv, Flow, EffectKnown, RecordOpen, TextKnown, Turn,
             RunnerSteps, NoRetryAfterEffect
    <2>14. Named'
      <3>1. ShownOnce'
        BY <2>3, <2>10 DEF IInv, Named, ShownOnce
      <3>2. \A u \in used' : u[1] <= iter + 1
        <4> SUFFICES ASSUME NEW u \in used' PROVE u[1] <= iter + 1
          OBVIOUS
        <4>1. u[1] \in Nat
          BY <2>11, IdRounds DEF Typed
        <4> QED BY <2>5, <2>6, <2>9, <4>1
      <3>3. \A i \in 1..n : ids[i] \notin recorded /\ ids[i] \notin announced
        BY <1>2, <2>6 DEF IInv, Named
      <3>4. \A k \in DOMAIN live' : live'[k].role = "tool" =>
               live'[k].ids[1] \in used' /\ \A i \in 1..n : ids[i] # live'[k].ids[1]
        <4> SUFFICES ASSUME NEW k \in DOMAIN live', live'[k].role = "tool"
                     PROVE  live'[k].ids[1] \in used' /\ \A i \in 1..n : ids[i] # live'[k].ids[1]
          OBVIOUS
        <4>1. k \in DOMAIN live /\ live'[k] = live[k]
          BY <2>10
        <4>2. live[k].ids[1] \in used
          BY <1>2, <4>1 DEF IInv, Named
        <4> QED BY <2>6, <2>8, <4>1, <4>2
      <3>5. Logged'
        BY <2>3 DEF Logged
      <3>6. recorded \subseteq used' \cup {<<0, 0>>} /\ announced \subseteq used' \cup {<<0, 0>>}
        BY <1>2, <2>8 DEF IInv, Named
      <3> QED BY <2>3, <2>6, <2>7, <2>8, <3>1, <3>2, <3>3, <3>4, <3>5, <3>6, Zenon
              DEF Named, Turn
    <2> QED BY <2>11, <2>13, <2>14 DEF IInv
  <1> QED BY <1>3, <1>4

----------------------------------------------------------------------------
\* The first pending call.
LEMMA FirstCall ==
    ASSUME IInv, calls # <<>>
    PROVE  /\ Call \in CallIds /\ 1 \in DOMAIN calls /\ Call = calls[1]
           /\ Tail(calls) \in Seq(CallIds)
           /\ \A i \in DOMAIN Tail(calls) : i + 1 \in DOMAIN calls /\ i \in Nat /\ i >= 1
                                             /\ Tail(calls)[i] = calls[i + 1]
  <1>1. calls \in Seq(CallIds)
    BY DEF IInv, Typed
  <1>2. /\ Head(calls) \in CallIds /\ Tail(calls) \in Seq(CallIds)
        /\ Len(Tail(calls)) = Len(calls) - 1
        /\ \A i \in 1..Len(Tail(calls)) : Tail(calls)[i] = calls[i + 1]
    BY <1>1, HeadTailProperties
  <1>3. /\ Len(calls) \in Nat /\ DOMAIN calls = 1..Len(calls)
        /\ DOMAIN Tail(calls) = 1..Len(Tail(calls)) /\ Len(Tail(calls)) \in Nat
    BY <1>1, <1>2, LenProperties
  <1>4. Head(calls) = calls[1]
    BY <1>1
  <1> QED BY <1>2, <1>3, <1>4 DEF Call

\* Answer: the call that got its result keeps its name to itself, provided
\* the user sees it once.
LEMMA AnswerNames ==
    ASSUME IInv, pc \in {"tool", "settle"}, calls # <<>>, ~debug, Answer,
           UNCHANGED <<debug, used, iter, recorded>>,
           announced' \in {announced, announced \cup {Call}},
           (Call \in recorded) # (Call \in announced')
    PROVE  Named' /\ live' \in Seq(Messages) /\ calls' \in Seq(CallIds)
           /\ announced' \subseteq Ids
  <1>1. /\ Call \in CallIds /\ 1 \in DOMAIN calls /\ Call = calls[1]
        /\ Tail(calls) \in Seq(CallIds)
        /\ \A i \in DOMAIN Tail(calls) : i + 1 \in DOMAIN calls /\ i \in Nat /\ i >= 1
                                          /\ Tail(calls)[i] = calls[i + 1]
    BY FirstCall
  <1>2. pc # "done" /\ pc \notin Turn
    BY DEF Turn
  <1>3. /\ \A u \in used : u[1] <= iter + 1
        /\ \A i, j \in DOMAIN calls : calls[i] = calls[j] => i = j
        /\ \A i \in DOMAIN calls : /\ calls[i] \in used /\ calls[i] \notin announced
                                    /\ calls[i] # <<0, 0>>
        /\ \A i \in DOMAIN calls : calls[i] \in recorded => i = 1
        /\ \A k \in DOMAIN live : live[k].role = "tool" =>
                live[k].ids[1] \in used /\ \A i \in DOMAIN calls : calls[i] # live[k].ids[1]
        /\ recorded \subseteq used \cup {<<0, 0>>} /\ announced \subseteq used \cup {<<0, 0>>}
        /\ ShownOnce
    BY <1>2 DEF IInv, Named
  <1>4. announced' \subseteq Ids /\ announced' \subseteq used \cup {<<0, 0>>}
    BY <1>1, <1>3 DEF IInv, Typed, Ids
  <1>5. CASE pc' = "done" /\ UNCHANGED <<live, calls>>
    <2>1. ShownOnce'
      BY <1>1, <1>3, <1>5 DEF ShownOnce
    <2> QED BY <1>4, <1>5, <2>1 DEF IInv, Typed, Named
  <1>6. CASE /\ live' = Append(live, [role |-> "tool", ids |-> <<Call>>])
             /\ calls' = Tail(calls) /\ pc' = "tool"
    <2>1. PICK m : m = [role |-> "tool", ids |-> <<Call>>]
      BY Zenon
    <2>2. live \in Seq(Messages) /\ m \in Messages /\ m.role = "tool" /\ m.ids[1] = Call
      BY <1>1, <2>1 DEF IInv, Typed, Messages
    <2>3. live' \in Seq(Messages) /\ Len(live') = Len(live) + 1
          /\ (\A k \in 1..Len(live) : live'[k] = live[k])
          /\ live'[Len(live) + 1] = m
      BY <1>6, <2>1, <2>2, AppendProperties
    <2>4. DOMAIN live' = 1..Len(live') /\ DOMAIN live = 1..Len(live) /\ Len(live) \in Nat
      BY <2>2, <2>3, LenProperties
    <2>5. \A k \in DOMAIN live' : (k \in DOMAIN live /\ live'[k] = live[k]) \/ live'[k] = m
      BY <2>3, <2>4
    <2>6. ShownOnce'
      <3> SUFFICES ASSUME NEW k \in DOMAIN live', live'[k].role = "tool"
                   PROVE  (live'[k].ids[1] \in recorded') # (live'[k].ids[1] \in announced')
        BY DEF ShownOnce
      <3>1. CASE live'[k] = m
        BY <2>2, <3>1
      <3>2. CASE k \in DOMAIN live /\ live'[k] = live[k]
        <4>1. live[k].ids[1] # Call
          BY <1>1, <1>3, <3>2
        <4>2. (live[k].ids[1] \in recorded) # (live[k].ids[1] \in announced)
          BY <1>3, <3>2 DEF ShownOnce
        <4> QED BY <3>2, <4>1, <4>2
      <3> QED BY <2>5, <3>1, <3>2
    <2>7. \A i \in DOMAIN calls' : /\ i + 1 \in DOMAIN calls /\ i \in Nat /\ i >= 1
                                   /\ calls'[i] = calls[i + 1] /\ i + 1 # 1
      BY <1>1, <1>6
    <2>8. \A i, j \in DOMAIN calls' : calls'[i] = calls'[j] => i = j
      <3> SUFFICES ASSUME NEW i \in DOMAIN calls', NEW j \in DOMAIN calls', calls'[i] = calls'[j]
                   PROVE  i = j
        OBVIOUS
      <3>1. i + 1 = j + 1
        BY <1>3, <2>7
      <3> QED BY <2>7, <3>1
    <2>9. \A i \in DOMAIN calls' : calls'[i] # Call
      BY <1>1, <1>3, <2>7
    <2>10. \A i \in DOMAIN calls' : /\ calls'[i] \in used /\ calls'[i] \notin announced'
                                    /\ calls'[i] # <<0, 0>> /\ calls'[i] \notin recorded
      BY <1>3, <2>7, <2>9
    <2>11. \A k \in DOMAIN live' : live'[k].role = "tool" =>
              live'[k].ids[1] \in used /\ \A i \in DOMAIN calls' : calls'[i] # live'[k].ids[1]
      <3> SUFFICES ASSUME NEW k \in DOMAIN live', live'[k].role = "tool"
                   PROVE  live'[k].ids[1] \in used
                          /\ \A i \in DOMAIN calls' : calls'[i] # live'[k].ids[1]
        OBVIOUS
      <3>1. CASE live'[k] = m
        BY <1>1, <1>3, <2>2, <2>9, <3>1
      <3>2. CASE k \in DOMAIN live /\ live'[k] = live[k]
        BY <1>3, <2>7, <3>2
      <3> QED BY <2>5, <3>1, <3>2
    <2>12. Logged'
      BY <1>6 DEF Logged
    <2>13. Named'
      BY <1>3, <1>4, <1>6, <2>6, <2>8, <2>10, <2>11, <2>12 DEF Named, Turn
    <2> QED BY <1>1, <1>4, <1>6, <2>3, <2>13
  <1> QED BY <1>5, <1>6 DEF Answer

\* executeToolCall up to the runner.
LEMMA StartCallKeeps ==
    ASSUME IInv, StartCall
    PROVE  IInv'
  <1>1. pc \in Turn \cup {"tool", "before"} /\ pc = "tool" /\ calls # <<>>
    BY DEF StartCall
  <1>2. ~open /\ (effect => sideEffect) /\ pc # "done" /\ text = shown /\ ~debug
    BY <1>1, CleanSteps DEF IInv, Flow
  <1>3. CASE StopsIfCancelled \/ EmitFails
    BY <1>1, <1>3, CleanEnds
  <1>4. CASE pc' = "before" /\ UNCHANGED <<jobVars, turnVars, callVars, exit>>
    BY <1>1, <1>4, MoveKeeps
  <1>5. CASE /\ announced' = announced \cup {Call} /\ Answer
             /\ UNCHANGED <<jobVars, text, shown, used, iter, count, sideEffect,
                            writing, err, open, recorded, effect>>
    <2>1. UNCHANGED <<debug, offered, ctx, text, shown, used, iter, count, sideEffect,
                      writing, err, open, recorded, effect>>
      BY <1>5 DEF jobVars
    <2>2. Call \notin recorded
      BY <1>1, FirstCall DEF IInv, Named, RunnerSteps
    <2>3. Named' /\ live' \in Seq(Messages) /\ calls' \in Seq(CallIds) /\ announced' \subseteq Ids
      BY <1>1, <1>2, <1>5, <2>1, <2>2, AnswerNames
    <2>4. \/ pc' = "tool" /\ exit' = exit
          \/ pc' = "done" /\ exit' \in {"failed", "silent"}
      BY <1>5 DEF Answer, Leave
    <2>5. Typed'
      BY <2>1, <2>3, <2>4 DEF IInv, Typed, Steps, Exits
    <2>6. Flow' /\ EffectKnown' /\ RecordOpen' /\ TextKnown'
      BY <1>1, <1>2, <2>1, <2>4 DEF IInv, Flow, EffectKnown, RecordOpen, TextKnown, Turn,
             RunnerSteps, NoRetryAfterEffect
    <2> QED BY <2>3, <2>5, <2>6 DEF IInv
  <1> QED BY <1>3, <1>4, <1>5 DEF StartCall

\* The end of a round of calls.
LEMMA NextTurnKeeps ==
    ASSUME ConstantsOK, IInv, NextTurn
    PROVE  IInv'
  <1>1. pc \in Turn \cup {"tool", "before"} /\ pc = "tool" /\ calls = <<>> /\ iter' = iter + 1
    BY DEF NextTurn
  <1>2. ~open /\ (effect => sideEffect) /\ pc # "done" /\ text = shown /\ ~debug
        /\ iter < MaxToolIterations
    BY <1>1, CleanSteps DEF IInv, Flow
  <1>3. /\ UNCHANGED <<debug, offered, ctx, text, shown, live, used, count>>
        /\ UNCHANGED <<calls, sideEffect, writing, err, open, recorded, announced, effect>>
    BY DEF NextTurn, jobVars, callVars
  <1>4. \/ pc' = "request" /\ exit' = exit /\ iter' < MaxToolIterations
        \/ pc' = "done" /\ exit' \in {"completed", "error", "silent"}
    BY <1>1 DEF NextTurn, Leave
  <1>5. Typed'
    <2>1. iter' \in 0..MaxToolIterations
      BY <1>1, <1>2 DEF IInv, Typed, ConstantsOK
    <2> QED BY <1>3, <1>4, <2>1 DEF IInv, Typed, Steps, Exits
  <1>6. Flow' /\ EffectKnown' /\ RecordOpen' /\ TextKnown'
    BY <1>1, <1>2, <1>3, <1>4 DEF IInv, Flow, EffectKnown, RecordOpen, TextKnown, Turn,
           RunnerSteps, NoRetryAfterEffect
  <1>7. Named'
    <2>1. ShownOnce'
      BY <1>3 DEF IInv, Named, ShownOnce
    <2>2. CASE pc' = "done"
      BY <2>1, <2>2 DEF Named
    <2>3. CASE pc' = "request"
      <3>1. Logged' /\ DOMAIN calls' = {}
        BY <1>1, <1>3, <2>3 DEF Logged
      <3>2. \A u \in used' : u[1] <= iter' + 1 /\ u[1] <= iter'
        <4> SUFFICES ASSUME NEW u \in used PROVE u[1] <= iter' + 1 /\ u[1] <= iter'
          BY <1>3
        <4>1. u[1] \in Nat /\ u[1] <= iter + 1 /\ iter \in Nat
          BY <1>2, IdRounds DEF IInv, Named, Typed, ConstantsOK
        <4> QED BY <1>1, <4>1
      <3>3. \A k \in DOMAIN live' : live'[k].role = "tool" => live'[k].ids[1] \in used'
        BY <1>2, <1>3 DEF IInv, Named
      <3>4. recorded' \subseteq used' \cup {<<0, 0>>} /\ announced' \subseteq used' \cup {<<0, 0>>}
        BY <1>2, <1>3 DEF IInv, Named
      <3> QED BY <2>1, <3>1, <3>2, <3>3, <3>4 DEF Named
    <2> QED BY <1>4, <2>2, <2>3, SMTT(30)
  <1> QED BY <1>5, <1>6, <1>7 DEF IInv

----------------------------------------------------------------------------
\* The runner's steps: only the record of the call being run changes hands.
LEMMA RunnerNames ==
    ASSUME IInv, pc \in RunnerSteps, pc' \in RunnerSteps \ {"before"},
           UNCHANGED <<debug, live, used, iter, calls, announced>>,
           recorded' \in {recorded, recorded \cup {Current}},
           ~debug => Logged'
    PROVE  Named' /\ recorded' \subseteq Ids
  <1>1. pc # "done" /\ pc' # "done" /\ pc' \notin Turn
    BY DEF RunnerSteps, Turn
  <1>2. /\ ShownOnce
        /\ \A u \in used : u[1] <= iter + 1
        /\ \A i, j \in DOMAIN calls : calls[i] = calls[j] => i = j
        /\ \A i \in DOMAIN calls : /\ calls[i] \in used /\ calls[i] \notin announced
                                    /\ calls[i] # <<0, 0>>
        /\ \A i \in DOMAIN calls : calls[i] \in recorded => i = 1
        /\ \A k \in DOMAIN live : live[k].role = "tool" =>
                live[k].ids[1] \in used /\ \A i \in DOMAIN calls : calls[i] # live[k].ids[1]
        /\ recorded \subseteq used \cup {<<0, 0>>} /\ announced \subseteq used \cup {<<0, 0>>}
    BY <1>1 DEF IInv, Named
  <1>3. CASE debug
    <2>1. Current = <<0, 0>> /\ calls = <<>> /\ live = <<NoCalls>>
      BY <1>3 DEF Current, IInv, Flow
    <2>2. DOMAIN calls = {} /\ \A k \in DOMAIN live : live[k].role # "tool"
      BY <2>1 DEF NoCalls
    <2>3. ShownOnce'
      BY <2>2 DEF ShownOnce
    <2>4. recorded' \subseteq Ids /\ recorded' \subseteq used \cup {<<0, 0>>}
      BY <1>2, <2>1 DEF IInv, Typed, Ids
    <2> QED BY <1>1, <1>2, <1>3, <2>2, <2>3, <2>4 DEF Named
  <1>4. CASE ~debug
    <2>1. Current = Call /\ calls # <<>>
      BY <1>4 DEF Current, IInv, Flow
    <2>2. Call \in CallIds /\ 1 \in DOMAIN calls /\ Call = calls[1]
      BY <2>1, FirstCall
    <2>3. recorded' \subseteq Ids /\ recorded' \subseteq used \cup {<<0, 0>>}
      BY <1>2, <2>1, <2>2 DEF IInv, Typed, Ids
    <2>4. \A k \in DOMAIN live : live[k].role = "tool" => live[k].ids[1] # Call
      BY <1>2, <2>2
    <2>5. ShownOnce'
      BY <1>2, <2>1, <2>4 DEF ShownOnce
    <2>6. \A i \in DOMAIN calls : calls[i] \in recorded' => i = 1
      BY <1>2, <2>1, <2>2
    <2> QED BY <1>1, <1>2, <1>4, <2>3, <2>5, <2>6 DEF Named
  <1> QED BY <1>3, <1>4

\* The rest of the invariant, for a step inside the runner.
LEMMA RunnerFlow ==
    ASSUME IInv, pc \in RunnerSteps, pc' \in RunnerSteps \ {"before"},
           UNCHANGED <<debug, live, iter, calls, exit, text, shown>>
    PROVE  Flow' /\ TextKnown'
  BY DEF IInv, Flow, TextKnown, RunnerSteps, Turn

\* RunWithOutcome up to the decision.
LEMMA PostBeforeKeeps ==
    ASSUME IInv, PostBefore
    PROVE  IInv'
  <1>1. pc = "before" /\ pc \in Turn \cup {"tool", "before"} /\ pc \in RunnerSteps
    BY DEF PostBefore, RunnerSteps
  <1>2. ~open /\ (effect => sideEffect) /\ pc # "done" /\ open \in BOOLEAN
    BY <1>1, CleanSteps DEF IInv, Typed
  <1>3. UNCHANGED <<debug, offered, ctx, text, shown, live, used, iter, count, exit, calls,
                    sideEffect, announced, effect>>
    BY DEF PostBefore, jobVars, turnVars, runnerVars
  <1>4. /\ pc' \in {"settle", "after", "call", "approval"} /\ writing' \in BOOLEAN
        /\ err' \in {{}, {"reporting"}, {"reporting", "posted"}, {"posted"}, {"terminal", "posted"}}
        /\ open' \in BOOLEAN /\ (open' => pc' # "settle")
        /\ recorded' \in {recorded, recorded \cup {Current}}
        /\ (pc' # "settle" => recorded' = recorded \cup {Current})
        /\ (pc' = "after" => err' # {} /\ "terminal" \notin err')
        /\ (pc' = "settle" => \/ err' = {} /\ recorded' = recorded
                              \/ err' = {"reporting"}
                              \/ recorded' = recorded \cup {Current} /\ err' # {})
    <2>1. CASE pc' = "settle" /\ err' = {} /\ writing' = FALSE /\ UNCHANGED <<open, recorded>>
      BY <1>2, <2>1, Zenon
    <2>2. CASE pc' = "settle" /\ err' = {"reporting"} /\ writing' = FALSE
               /\ UNCHANGED <<open, recorded>>
      BY <1>2, <2>2, Zenon
    <2>3. CASE pc' = "after" /\ err' \in {{"reporting", "posted"}, {"posted"}}
               /\ writing' = FALSE /\ Opens
      BY <2>3, Zenon DEF Opens
    <2>4. CASE pc' = "settle" /\ err' \in {{"terminal", "posted"}, {"posted"}}
               /\ writing' = FALSE /\ recorded' = recorded \cup {Current} /\ UNCHANGED open
      BY <1>2, <2>4, Zenon
    <2>5. CASE pc' = "call" /\ err' = {} /\ writing' = FALSE /\ Opens
      BY <2>5, Zenon DEF Opens
    <2>6. CASE pc' = "approval" /\ err' = {} /\ writing' \in BOOLEAN /\ Opens
      BY <2>6 DEF Opens
    <2> QED BY <2>1, <2>2, <2>3, <2>4, <2>5, <2>6, Zenon DEF PostBefore
  <1>5. Logged' \/ debug
    <2> SUFFICES ASSUME ~debug PROVE Logged'
      OBVIOUS
    <2>1. calls # <<>> /\ Current = Call /\ Call' = Call
      BY <1>1, <1>3 DEF IInv, Flow, Current, Call
    <2>2. Call \notin recorded
      BY <1>1, <2>1, FirstCall DEF IInv, Named
    <2>3. err' = {"reporting"} => EndsRun'
      BY DEF EndsRun
    <2> QED BY <1>4, <2>1, <2>2, <2>3 DEF Logged
  <1>6. pc' \in RunnerSteps \ {"before"}
    BY <1>4 DEF RunnerSteps
  <1>7. Named' /\ recorded' \subseteq Ids
    BY <1>1, <1>3, <1>4, <1>5, <1>6, RunnerNames
  <1>8. Flow' /\ TextKnown'
    BY <1>1, <1>3, <1>6, RunnerFlow
  <1>9. Typed'
    <2>1. err' \subseteq Marks \cup {"ok"}
      BY <1>4 DEF Marks
    <2> QED BY <1>3, <1>4, <1>6, <1>7, <2>1 DEF IInv, Typed, Steps
  <1>10. EffectKnown'
    BY <1>2, <1>3, <1>4 DEF IInv, EffectKnown, NoRetryAfterEffect
  <1>11. RecordOpen'
    BY <1>4 DEF RecordOpen
  <1> QED BY <1>7, <1>8, <1>9, <1>10, <1>11 DEF IInv

\* The wait for the decision.
LEMMA WaitApprovalKeeps ==
    ASSUME IInv, WaitApproval
    PROVE  IInv'
  <1>1. pc = "approval" /\ pc \in RunnerSteps /\ pc # "done"
    BY DEF WaitApproval, RunnerSteps
  <1>2. UNCHANGED <<debug, offered, ctx, text, shown, live, used, iter, count, exit, calls,
                    sideEffect, announced, writing, recorded, effect>>
    BY DEF WaitApproval, jobVars, turnVars, runnerVars
  <1>3. \/ pc' = "call" /\ err' = err /\ open' = open
        \/ pc' = "settle" /\ err' = {"terminal", "posted"} /\ open' = FALSE
        \/ pc' = "after" /\ err' = {"wait", "posted"} /\ open' = open
    BY DEF WaitApproval
  <1>4. pc' \in RunnerSteps \ {"before"}
    BY <1>3 DEF RunnerSteps
  <1>5. ~debug => Logged'
    <2>1. ~debug => Call \in recorded
      BY <1>1 DEF IInv, Named, Logged
    <2> QED BY <1>2, <1>3, <2>1 DEF Logged, Call
  <1>6. Named'
    BY <1>1, <1>2, <1>4, <1>5, RunnerNames
  <1>7. Flow' /\ TextKnown'
    BY <1>1, <1>2, <1>4, RunnerFlow
  <1>8. Typed'
    <2>1. err' \subseteq Marks \cup {"ok"} /\ open' \in BOOLEAN
      BY <1>3, Zenon DEF Marks, IInv, Typed
    <2> QED BY <1>2, <1>4, <2>1 DEF IInv, Typed, Steps
  <1>9. EffectKnown'
    BY <1>1, <1>2, <1>3 DEF IInv, EffectKnown, NoRetryAfterEffect
  <1>10. RecordOpen'
    BY <1>3 DEF RecordOpen
  <1> QED BY <1>6, <1>7, <1>8, <1>9, <1>10 DEF IInv

\* The call itself.
LEMMA CallToolKeeps ==
    ASSUME IInv, CallTool
    PROVE  IInv'
  <1>1. pc = "call" /\ pc' = "after" /\ pc \in RunnerSteps /\ pc' \in RunnerSteps \ {"before"}
    BY DEF CallTool, RunnerSteps
  <1>2. UNCHANGED <<debug, offered, ctx, text, shown, live, used, iter, count, exit, calls,
                    sideEffect, announced, writing, recorded, open>>
    BY DEF CallTool, jobVars, turnVars, runnerVars
  <1>3. \/ err' = {"ok"} /\ effect' = (effect \/ writing)
        \/ /\ err' = IF writing THEN {"posted", "uncertain"} ELSE {"posted"}
           /\ effect' \in {effect, effect \/ writing}
    BY DEF CallTool
  <1>4. writing \in BOOLEAN /\ effect \in BOOLEAN /\ sideEffect \in BOOLEAN /\ (effect => sideEffect)
    BY <1>1 DEF IInv, Typed, EffectKnown
  <1>5. err' # {} /\ "terminal" \notin err' /\ err' \subseteq Marks \cup {"ok"}
    BY <1>3, <1>4 DEF Marks
  <1>6. effect' \in BOOLEAN /\ (effect' => effect \/ writing)
    BY <1>3, <1>4
  <1>7. effect' /\ ~sideEffect => (err' = {"ok"} /\ writing) \/ "uncertain" \in err'
    BY <1>3, <1>4, <1>6, Zenon
  <1>8. ~debug => Logged'
    <2>1. ~debug => Call \in recorded
      BY <1>1 DEF IInv, Named, Logged
    <2> QED BY <1>1, <1>2, <2>1 DEF Logged, Call
  <1>9. Named'
    BY <1>1, <1>2, <1>8, RunnerNames
  <1>10. Flow' /\ TextKnown'
    BY <1>1, <1>2, RunnerFlow
  <1>11. Typed'
    BY <1>1, <1>2, <1>5, <1>6 DEF IInv, Typed, Steps
  <1>12. EffectKnown'
    <2>1. exit = "running"
      BY <1>1 DEF IInv, Flow, Typed
    <2> QED BY <1>1, <1>2, <1>7, <2>1 DEF EffectKnown, NoRetryAfterEffect
  <1>13. RecordOpen'
    BY <1>1, <1>5 DEF RecordOpen
  <1> QED BY <1>9, <1>10, <1>11, <1>12, <1>13 DEF IInv

\* The report of the outcome.
LEMMA PostAfterKeeps ==
    ASSUME IInv, PostAfter
    PROVE  IInv'
  <1>1. pc = "after" /\ pc' = "settle" /\ pc \in RunnerSteps /\ pc' \in RunnerSteps \ {"before"}
    BY DEF PostAfter, RunnerSteps
  <1>2. UNCHANGED <<debug, offered, ctx, text, shown, live, used, iter, count, exit, calls,
                    sideEffect, announced, writing, recorded, effect>>
    BY DEF PostAfter, jobVars, turnVars, runnerVars
  <1>3. err # {} /\ "terminal" \notin err /\ writing \in BOOLEAN /\ open \in BOOLEAN
        /\ err \subseteq Marks \cup {"ok"}
    BY <1>1 DEF IInv, RecordOpen, Typed
  <1>4. /\ Unreported # {} /\ "terminal" \notin Unreported
        /\ Unreported \cap {"committed", "uncertain", "wait", "reporting"} # {}
        /\ Unreported \subseteq Marks \cup {"ok"}
        /\ (err = {"ok"} /\ writing => "committed" \in Unreported)
        /\ ("uncertain" \in err => "uncertain" \in Unreported)
        /\ ("committed" \in err => "committed" \in Unreported)
    BY <1>3 DEF Unreported, Marks
  <1>5. \/ open' = FALSE /\ err' = err
        \/ open' \in {open, FALSE} /\ err' = Unreported
    BY Zenon DEF PostAfter
  <1>6. err' # {} /\ "terminal" \notin err' /\ err' \subseteq Marks \cup {"ok"}
        /\ open' \in BOOLEAN /\ (open' => EndsRun')
    BY <1>3, <1>4, <1>5, Zenon DEF EndsRun
  <1>7. ~debug => Logged'
    <2>1. ~debug => Call \in recorded
      BY <1>1 DEF IInv, Named, Logged
    <2> QED BY <1>1, <1>2, <1>6, <2>1 DEF Logged, Call
  <1>8. Named'
    BY <1>1, <1>2, <1>7, RunnerNames
  <1>9. Flow' /\ TextKnown'
    BY <1>1, <1>2, RunnerFlow
  <1>10. Typed'
    BY <1>1, <1>2, <1>6 DEF IInv, Typed, Steps
  <1>11. EffectKnown'
    <2>1. exit = "running"
      BY <1>1 DEF IInv, Flow, Typed
    <2>2. effect /\ ~sideEffect =>
             (err' = {"ok"} /\ writing) \/ "uncertain" \in err' \/ "committed" \in err'
      BY <1>1, <1>4, <1>5, Zenon DEF IInv, EffectKnown
    <2> QED BY <1>1, <1>2, <2>1, <2>2 DEF EffectKnown, NoRetryAfterEffect
  <1>12. RecordOpen'
    BY <1>1, <1>6 DEF RecordOpen
  <1> QED BY <1>8, <1>9, <1>10, <1>11, <1>12 DEF IInv

\* executeToolCall after the runner.
LEMMA SettleKeeps ==
    ASSUME IInv, Settle
    PROVE  IInv'
  <1>1. pc = "settle" /\ pc # "done" /\ ~debug
    BY DEF Settle
  <1>2. open => EndsRun /\ "terminal" \notin err
    BY <1>1 DEF IInv, RecordOpen
  <1>3. CASE ctx # "live" /\ End("silent")
    BY <1>1, <1>3, EndKeeps DEF Exits, Abandoned
  <1>4. CASE "terminal" \in err /\ End("ended")
    BY <1>1, <1>2, <1>4, EndKeeps DEF Exits
  <1>5. CASE End("error")
    BY <1>1, <1>5, EndKeeps DEF Exits, Abandoned
  <1>6. CASE /\ "terminal" \notin err /\ ~EndsRun
             /\ \/ err # {} /\ UNCHANGED announced
                \/ err = {} /\ announced' = announced \cup {Call}
             /\ sideEffect' = (sideEffect \/ (err = {"ok"} /\ writing))
             /\ Answer
             /\ err' = {} /\ writing' = FALSE
             /\ UNCHANGED <<jobVars, text, shown, used, iter, count, open, recorded, effect>>
    <2>1. /\ UNCHANGED <<debug, offered, ctx, text, shown, used, iter, count, open, recorded, effect>>
          /\ err' = {} /\ writing' = FALSE /\ ~open /\ Answer
      BY <1>2, <1>6 DEF jobVars, IInv, Typed
    <2>2. calls # <<>>
      BY <1>1 DEF IInv, Flow, RunnerSteps
    <2>3. Call \notin announced
      BY <1>1, <2>2, FirstCall, SMTT(30) DEF IInv, Named
    <2>4. /\ announced' \in {announced, announced \cup {Call}}
          /\ (Call \in recorded) # (Call \in announced')
      <3>1. /\ err = {} => Call \notin recorded
            /\ err # {} => Call \in recorded
        BY <1>1, <1>6 DEF IInv, Named, Logged
      <3> QED BY <1>6, <2>3, <3>1
    <2>5. Named' /\ live' \in Seq(Messages) /\ calls' \in Seq(CallIds) /\ announced' \subseteq Ids
      BY <1>1, <2>1, <2>2, <2>4, AnswerNames
    <2>6. \/ pc' = "tool" /\ exit' = exit
          \/ pc' = "done" /\ exit' \in {"failed", "silent"}
      BY <2>1 DEF Answer, Leave
    <2>7. /\ "uncertain" \notin err /\ "committed" \notin err /\ writing \in BOOLEAN
          /\ sideEffect \in BOOLEAN /\ effect \in BOOLEAN
      BY <1>6 DEF EndsRun, IInv, Typed
    <2>8. sideEffect' \in BOOLEAN /\ (effect => sideEffect')
      <3>1. effect /\ ~sideEffect => err = {"ok"} /\ writing
        BY <1>1, <2>7 DEF IInv, EffectKnown
      <3> QED BY <1>6, <2>7, <3>1, Zenon
    <2>9. Typed'
      BY <2>1, <2>5, <2>6, <2>8, Zenon DEF IInv, Typed, Steps, Exits
    <2>10. Flow' /\ RecordOpen' /\ TextKnown'
      BY <1>1, <2>1, <2>6 DEF IInv, Flow, RecordOpen, TextKnown, Turn, RunnerSteps
    <2>11. EffectKnown'
      BY <1>1, <2>1, <2>6, <2>8 DEF IInv, Flow, EffectKnown, NoRetryAfterEffect
    <2> QED BY <2>5, <2>9, <2>10, <2>11 DEF IInv
  <1> QED BY <1>3, <1>4, <1>5, <1>6, Zenon DEF Settle, EmitFails

\* tryDebugTool after the runner.
LEMMA SettleDebugKeeps ==
    ASSUME ConstantsOK, IInv, SettleDebug
    PROVE  IInv'
  <1>1. pc = "settle" /\ pc # "done" /\ debug
    BY DEF SettleDebug
  <1>2. open => EndsRun /\ "terminal" \notin err
    BY <1>1 DEF IInv, RecordOpen
  <1>3. err = {"ok"} => ~EndsRun
    BY DEF EndsRun
  <1>4. CASE "terminal" \in err /\ End("ended")
    BY <1>1, <1>2, <1>4, EndKeeps DEF Exits
  <1>5. CASE End("error")
    BY <1>1, <1>5, EndKeeps DEF Exits, Abandoned
  <1>6. CASE ~EndsRun /\ Fails
    BY <1>1, <1>2, <1>6, EndKeeps DEF Fails, Fail, Exits
  <1>7. CASE /\ err = {"ok"} /\ pc' = "done" /\ Leave("completed")
             /\ text' = 1 /\ shown' = 1
             /\ UNCHANGED <<jobVars, live, used, iter, count, callVars>>
    <2>1. /\ UNCHANGED <<debug, offered, ctx, live, used, iter, count>>
          /\ UNCHANGED <<calls, sideEffect, writing, err, open, recorded, announced, effect>>
          /\ pc' = "done" /\ exit' \in {"completed", "silent"} /\ text' = 1 /\ shown' = 1
      BY <1>7 DEF Leave, jobVars, callVars
    <2>2. ~open
      BY <1>2, <1>3, <1>7 DEF IInv, Typed
    <2>3. Typed'
      <3>1. text' \in 0..MaxOutput /\ shown' \in 0..MaxOutput
        BY <2>1 DEF ConstantsOK
      <3> QED BY <2>1, <3>1 DEF IInv, Typed, Steps, Exits
    <2>4. Flow' /\ EffectKnown' /\ RecordOpen' /\ TextKnown'
      BY <2>1, <2>2 DEF IInv, Flow, EffectKnown, RecordOpen, TextKnown, Turn, RunnerSteps,
             NoRetryAfterEffect
    <2>5. Named'
      BY <2>1 DEF IInv, Named, ShownOnce
    <2> QED BY <2>3, <2>4, <2>5 DEF IInv
  <1> QED BY <1>3, <1>4, <1>5, <1>6, <1>7 DEF SettleDebug, EmitFails

\* Every step keeps the invariant.
LEMMA NextKeeps ==
    ASSUME ConstantsOK, IInv, [Next]_vars
    PROVE  IInv'
  <1>1. CASE Step
    BY <1>1, BeginKeeps, StreamEndKeeps, DeltaKeeps, CallsAskedKeeps, StartCallKeeps,
       NextTurnKeeps, PostBeforeKeeps, WaitApprovalKeeps, CallToolKeeps, PostAfterKeeps,
       SettleKeeps, SettleDebugKeeps, Zenon DEF Step
  <1>2. CASE Cancel
    BY <1>2, CancelKeeps
  <1>3. CASE UNCHANGED vars
    <2>1. /\ UNCHANGED <<pc, debug, offered, ctx, text, shown, live, used, iter, count, exit>>
          /\ UNCHANGED <<calls, sideEffect, writing, err, open, recorded, announced, effect>>
      BY <1>3 DEF vars
    <2>2. Typed' /\ Flow' /\ TextKnown'
      BY <2>1, SMTT(30) DEF IInv, Typed, Flow, TextKnown
    <2>3. EffectKnown' /\ RecordOpen'
      BY <2>1, SMTT(30) DEF IInv, EffectKnown, RecordOpen, NoRetryAfterEffect, EndsRun
    <2>4. ShownOnce' /\ (Logged => Logged')
      BY <2>1, SMTT(30) DEF IInv, Named, ShownOnce, Logged, Call, EndsRun
    <2>5. Named'
      BY <2>1, <2>4 DEF IInv, Named
    <2> QED BY <2>2, <2>3, <2>5 DEF IInv
  <1> QED BY <1>1, <1>2, <1>3, Zenon DEF Next, Finished

\* Execute, RunWithOutcome and executeToolCall, for any limits on rounds,
\* calls and output and any ids the model may use: a run whose tool may have
\* changed something is never offered for a retry, no call's record is left
\* open behind an answer or a reported end, every answered call shows up for
\* the user exactly once, and a completed run reports the text it showed.
THEOREM RunsAreHonest ==
    ASSUME ConstantsOK
    PROVE  Spec => [](TypeOK /\ NoRetryAfterEffect /\ NoOpenRecordBehind /\ ShownOnce
                      /\ CompletedTextWasShown)
  <1>1. Init => IInv
    BY InitHolds
  <1>2. IInv /\ [Next]_vars => IInv'
    BY NextKeeps
  <1>3. IInv => TypeOK /\ NoRetryAfterEffect /\ NoOpenRecordBehind /\ ShownOnce
                /\ CompletedTextWasShown
    <2> SUFFICES ASSUME IInv
                 PROVE  TypeOK /\ NoRetryAfterEffect /\ NoOpenRecordBehind /\ ShownOnce
                        /\ CompletedTextWasShown
      OBVIOUS
    <2>1. TypeOK
      <3>1. {debug, offered, sideEffect, writing, open, effect} \subseteq BOOLEAN
        BY Zenon DEF IInv, Typed
      <3>2. used \cup recorded \cup announced \subseteq CallIds \cup {<<0, 0>>}
        BY DEF IInv, Typed, Ids
      <3> QED BY <3>1, <3>2 DEF IInv, Typed, TypeOK, Messages
    <2>2. NoRetryAfterEffect /\ ShownOnce
      BY DEF IInv, EffectKnown, Named
    <2>3. NoOpenRecordBehind
      BY DEF IInv, RecordOpen, NoOpenRecordBehind, RunnerSteps, Abandoned
    <2>4. CompletedTextWasShown
      BY DEF IInv, TextKnown, Abandoned, CompletedTextWasShown
    <2> QED BY <2>1, <2>2, <2>3, <2>4
  <1> QED BY <1>1, <1>2, <1>3, PTL DEF Spec
====
