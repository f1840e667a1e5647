---------------------------- MODULE OpenAIStream ----------------------------
(***************************************************************************)
(* One StreamChat of the OpenAI-compatible client                           *)
(* (agent-runtime-go/internal/llm/openai_compatible.go): the request and    *)
(* its one retry without stream_options, the reader goroutine, the tool     *)
(* calls assembled from fragments, and the completion that is held back so  *)
(* that the token counts sent after it can be collected.                    *)
(*                                                                          *)
(* A chunk is what it says: some text, a fragment of a tool call, a finish  *)
(* reason, token counts.  Arguments are a sequence of two pieces of JSON,   *)
(* so that a call can be cut anywhere.  Time is counted in drain timeouts.  *)
(***************************************************************************)
EXTENDS Integers, Sequences, FiniteSets, FiniteSetsExt

CONSTANTS
  MaxChunks,     \* the chunks one server sends
  MaxToolCalls,  \* maxOpenAIToolCalls
  MaxIdBytes,    \* maxOpenAIToolCallAggregateIdentifierBytes
  MaxArgBytes,   \* maxOpenAIToolCallArgumentBytes and its aggregate
  Deadline,      \* drain timeouts before the deadline of the context
  Fragments,     \* fragments of a tool call: [ix, id, name, args]
  Usages         \* token counts of a chunk: [in, out], 0 for none

VARIABLES
  phase,        \* "ask", "read", "send", "closed", "refused"
  asks,         \* requests refused as malformed
  calls,        \* state.toolCalls
  argumentBytes, identifierBytes,
  usage,        \* state.usage
  pending,      \* pendingCompleted: its finish reason
  todo,         \* events of the chunk being dispatched, not yet sent
  out,          \* what went through the channel
  delivered,    \* the tool calls of the tool_call event
  completion,   \* the completed event
  timeLeft,     \* until the deadline
  drainAt,      \* when the timer closes the body
  body,         \* "open" or "closed" by the timer
  cancelled,    \* the context is done
  withdrawn,    \* ... because the run was cancelled
  chunks,       \* chunks read
  finished,     \* ghost: the finish reason the server gave in time
  heard         \* ghost: the last counts the server reported

parseVars == <<calls, argumentBytes, identifierBytes, delivered>>
timeVars == <<timeLeft, drainAt, body, cancelled, withdrawn>>
vars == <<phase, asks, parseVars, usage, pending, todo, out, completion, timeVars,
          chunks, finished, heard>>

None == "none"
NoUsage == [in |-> 0, out |-> 0]
NoCompletion == [reason |-> None, usage |-> NoUsage]
NoFragment == [ix |-> -1, id |-> 0, name |-> 0, args |-> <<>>]
Whole == <<"{", "}">>
Reasons == {"stop", "length", "tool_calls"}

Init ==
  /\ phase = "ask" /\ asks = 0
  /\ calls = <<>> /\ argumentBytes = 0 /\ identifierBytes = 0
  /\ usage = NoUsage /\ pending = None /\ todo = <<>> /\ out = <<>>
  /\ delivered = {} /\ completion = NoCompletion
  /\ timeLeft = Deadline /\ drainAt = 0 /\ body = "open"
  /\ cancelled = FALSE /\ withdrawn = FALSE
  /\ chunks = 0 /\ finished = None /\ heard = NoUsage

(***************************************************************************)
(* The request.  A status that says the request is malformed is answered    *)
(* once more without stream_options, which older servers do not know.       *)
(***************************************************************************)
Ask ==
  /\ phase = "ask"
  /\ \/ phase' = "refused" /\ UNCHANGED todo        \* the post fails: no channel
     \/ phase' = "read" /\ UNCHANGED todo
     \/ asks = 0 /\ UNCHANGED <<phase, todo>>       \* malformed: once more
     \/ phase' = "send" /\ todo' = <<"error">>      \* any other status
  /\ asks' = IF phase' = "ask" THEN asks + 1 ELSE 0
  /\ UNCHANGED <<parseVars, usage, pending, out, completion, timeVars, chunks, finished, heard>>

(***************************************************************************)
(* appendToolCallFragment: a fragment joins the call of its index, or the   *)
(* chunk is refused.                                                        *)
(***************************************************************************)
Call(ix) == IF ix \in DOMAIN calls THEN calls[ix] ELSE [id |-> 0, name |-> 0, args |-> <<>>]
Bytes(x) == x     \* a name is as long as its number, 0 for none
Joins(old, new) == old = 0 \/ new = 0 \/ old = new

IdentifierBytesWith(f) ==
  LET call == Call(f.ix)
  IN  identifierBytes + (IF f.id = 0 THEN 0 ELSE Bytes(f.id) - Bytes(call.id))
                      + (IF f.name = 0 THEN 0 ELSE Bytes(f.name) - Bytes(call.name))

FragmentFits(f) ==
  LET call == Call(f.ix)
  IN  /\ f.ix \in DOMAIN calls \/ Cardinality(DOMAIN calls) < MaxToolCalls
      /\ Joins(call.id, f.id) /\ Joins(call.name, f.name)
      /\ IdentifierBytesWith(f) <= MaxIdBytes
      /\ Len(f.args) <= MaxArgBytes - Len(call.args)
      /\ Len(f.args) <= MaxArgBytes - argumentBytes

Extended(f) ==
  LET call == Call(f.ix)
      new == [id |-> IF f.id = 0 THEN call.id ELSE f.id,
              name |-> IF f.name = 0 THEN call.name ELSE f.name,
              args |-> call.args \o f.args]
  IN  [ix \in DOMAIN calls \cup {f.ix} |-> IF ix = f.ix THEN new ELSE calls[ix]]

(***************************************************************************)
(* The tool calls of a finished turn: all of them, or, when the model ran   *)
(* out of tokens, those whose arguments arrived whole.                      *)
(***************************************************************************)
Contiguous(cs) == DOMAIN cs = 0 .. Cardinality(DOMAIN cs) - 1
Sound(call) == call.id # 0 /\ call.name # 0 /\ call.args \in {<<>>, Whole}
Fresh(cs, ix, among) == \A j \in among : j < ix => cs[j].id # cs[ix].id

(* Fault: two calls may carry one id. *)
FaultyAllSound(cs) == Contiguous(cs) /\ \A ix \in DOMAIN cs : Sound(cs[ix])

AllSound(cs) ==
  /\ Contiguous(cs)
  /\ \A ix \in DOMAIN cs : Sound(cs[ix]) /\ Fresh(cs, ix, DOMAIN cs)

Complete(cs) ==
  LET sound == {ix \in DOMAIN cs : cs[ix].args # <<>> /\ Sound(cs[ix])}
  IN  {ix \in sound : Fresh(cs, ix, sound)}

(* The calls a finish reason hands over; {} for a chunk that is refused. *)
Finalized(cs, reason) ==
  IF reason = "length" THEN Complete(cs) ELSE DOMAIN cs

Accepted(cs, reason) ==
  \/ reason = "tool_calls" /\ DOMAIN cs # {} /\ AllSound(cs)
  \/ reason = "length" /\ Contiguous(cs)
  \/ reason = "stop" /\ DOMAIN cs = {}

(***************************************************************************)
(* absorbUsage: each count is replaced by the newest one reported.          *)
(***************************************************************************)
Absorbed(u) == [c \in {"in", "out"} |-> IF u[c] = 0 THEN usage[c] ELSE u[c]]
Newest(u) == [c \in {"in", "out"} |-> IF u[c] = 0 THEN heard[c] ELSE u[c]]

Read == phase = "read" /\ chunks < MaxChunks /\ chunks' = chunks + 1

(* A chunk parseOpenAIData understands, dispatched before the completion. *)
Refuse == phase' = "send" /\ todo' = <<"error">> /\ UNCHANGED <<parseVars, finished>>

Take(text, f, reason) ==
  LET cs == IF f = NoFragment THEN calls ELSE Extended(f)
      handed == IF reason = None THEN {} ELSE Finalized(cs, reason)
      events == (IF text THEN <<"delta">> ELSE <<>>)
             \o (IF handed # {} THEN <<"tool_call">> ELSE <<>>)
             \o (IF reason # None THEN <<"hold">> ELSE <<>>)
  IN  IF (f # NoFragment => FragmentFits(f)) /\ (reason # None => Accepted(cs, reason))
      THEN /\ calls' = cs
           /\ argumentBytes' = argumentBytes + Len(f.args)
           /\ identifierBytes' = IF f = NoFragment THEN identifierBytes ELSE IdentifierBytesWith(f)
           /\ delivered' = {[ix |-> ix, call |-> cs[ix]] : ix \in handed}
           /\ todo' = events
           /\ phase' = IF events = <<>> THEN "read" ELSE "send"
           /\ finished' = IF reason = None \/ cancelled THEN finished ELSE reason
      ELSE Refuse

Chunk(text, f, reason, u) ==
  /\ Read
  /\ pending = None
  /\ usage' = Absorbed(u)
  /\ heard' = Newest(u)
  /\ Take(text, f, reason)
  /\ UNCHANGED <<asks, pending, out, completion, timeVars>>

(* A chunk after the finish reason: only its token counts matter. *)
AfterFinish(u) ==
  /\ Read
  /\ pending # None
  /\ usage' = Absorbed(u)
  /\ heard' = Newest(u)
  /\ UNCHANGED <<phase, asks, parseVars, pending, todo, out, completion, timeVars, finished>>

Conclude(e) ==
  /\ phase' = "send"
  /\ todo' = <<IF pending # None THEN "completed" ELSE e>>

(* A chunk that cannot be parsed, or an error envelope. *)
Unusable ==
  /\ Read
  /\ pending = None
  /\ Refuse
  /\ UNCHANGED <<asks, usage, pending, out, completion, timeVars, heard>>

(* [DONE], with no completion held: a stop, unless calls are left unfinished. *)
Done ==
  /\ Read
  /\ Conclude(IF DOMAIN calls # {} THEN "error" ELSE "completed")
  /\ finished' = IF pending = None /\ DOMAIN calls = {} /\ ~cancelled THEN "stop" ELSE finished
  /\ UNCHANGED <<asks, parseVars, usage, pending, out, completion, timeVars, heard>>

(* An event larger than the bound, the end of the stream, a failed read. *)
Broken ==
  /\ phase = "read"
  /\ IF cancelled /\ pending = None
     THEN phase' = "closed" /\ UNCHANGED todo
     ELSE Conclude("error")
  /\ UNCHANGED <<asks, parseVars, usage, pending, out, completion, timeVars, chunks, finished, heard>>

(***************************************************************************)
(* sendStreamEvent and holdCompleted.                                       *)
(***************************************************************************)
MayHold == timeLeft > 1

Hold ==
  /\ phase = "send" /\ Head(todo) = "hold" /\ MayHold /\ ~cancelled
  /\ pending' = finished
  /\ drainAt' = timeLeft - 1
  /\ phase' = "read" /\ todo' = <<>>
  /\ UNCHANGED <<asks, parseVars, usage, out, completion, timeLeft, body, cancelled, withdrawn,
                 chunks, finished, heard>>

Send ==
  LET e == IF Head(todo) = "hold" THEN "completed" ELSE Head(todo)
  IN  /\ phase = "send" /\ (Head(todo) = "hold" => ~MayHold) /\ ~cancelled
      /\ out' = Append(out, e)
      /\ completion' = IF e = "completed" THEN [reason |-> finished, usage |-> usage] ELSE completion
      /\ todo' = SubSeq(todo, 2, Len(todo))
      /\ phase' = IF e \in {"completed", "error"} THEN "ended"
                  ELSE IF Len(todo) = 1 THEN "read" ELSE "send"
      /\ UNCHANGED <<asks, parseVars, usage, pending, timeVars, chunks, finished, heard>>

(* The context is done: sendStreamEvent reports it and the reader returns. *)
GiveUp ==
  /\ phase = "send" /\ cancelled
  /\ phase' = "closed" /\ todo' = <<>>
  /\ UNCHANGED <<asks, parseVars, usage, pending, out, completion, timeVars, chunks, finished, heard>>

(* The deferred close of the channel. *)
Close ==
  /\ phase = "ended"
  /\ phase' = "closed"
  /\ UNCHANGED <<asks, parseVars, usage, pending, todo, out, completion, timeVars, chunks, finished, heard>>

(***************************************************************************)
(* Time passes only while the reader waits for the server: the other steps  *)
(* take none that matters at the scale of the drain timeout.                *)
(***************************************************************************)
TimerFires(t) == pending # None /\ t <= drainAt

Tick ==
  /\ phase = "read" /\ body = "open" /\ ~cancelled
  /\ timeLeft' = timeLeft - 1
  /\ body' = IF TimerFires(timeLeft') THEN "closed" ELSE "open"
  /\ cancelled' = (timeLeft' = 0)
  /\ UNCHANGED <<phase, asks, parseVars, usage, pending, todo, out, completion, drainAt, withdrawn,
                 chunks, finished, heard>>

Cancel ==
  /\ phase \in {"read", "send"} /\ ~cancelled
  /\ cancelled' = TRUE /\ withdrawn' = TRUE
  /\ UNCHANGED <<phase, asks, parseVars, usage, pending, todo, out, completion, timeLeft, drainAt, body,
                 chunks, finished, heard>>

Next ==
  \/ Ask
  \/ \E text \in BOOLEAN, f \in Fragments \cup {NoFragment}, reason \in Reasons \cup {None}, u \in Usages :
       /\ u # NoUsage => f = NoFragment /\ ~text
       /\ Chunk(text, f, reason, u)
  \/ \E u \in Usages : AfterFinish(u)
  \/ Unusable \/ Done \/ Broken
  \/ Hold \/ Send \/ GiveUp \/ Close
  \/ Tick \/ Cancel

Spec == Init /\ [][Next]_vars

(* Time passes, the reader's own steps and a read of a dead body happen.    *)
Fairness ==
  WF_vars(\/ Tick \/ Hold \/ Send \/ GiveUp \/ Close \/ Ask
          \/ (Broken /\ (body = "closed" \/ cancelled)))

-----------------------------------------------------------------------------
Settled == phase \in {"closed", "refused"}
Events == {"delta", "tool_call", "hold", "completed", "error"}

(* The shape of the state: at most one retry, and no time left over. *)
TypeOK ==
  /\ phase \in {"ask", "read", "send", "ended", "closed", "refused"}
  /\ asks \in 0 .. 1 /\ chunks \in 0 .. MaxChunks
  /\ timeLeft \in 0 .. Deadline /\ drainAt \in 0 .. Deadline
  /\ body \in {"open", "closed"} /\ cancelled \in BOOLEAN /\ withdrawn \in BOOLEAN
  /\ pending \in Reasons \cup {None} /\ finished \in Reasons \cup {None}
  /\ todo \in Seq(Events) /\ (phase = "send") <=> (todo # <<>>)

(* An answer the server finished is never lost: unless the run itself is     *)
(* cancelled, the channel ends with its completion, whatever the rest of the *)
(* stream is and however near the deadline (holdCompleted, drainDeadline).   *)
FinishedNeverLost ==
  phase = "closed" /\ finished # None /\ ~withdrawn =>
    completion # NoCompletion /\ completion.reason = finished

(* The tool calls handed over are whole and told apart by their ids; a turn  *)
(* that finished for them hands over every call the server began.            *)
CallsAreWhole ==
  completion # NoCompletion /\ delivered # {} =>
    /\ \A d \in delivered : d.call.name # 0 /\ d.call.id # 0 /\ d.call.args \in {<<>>, Whole}
    /\ \A d, e \in delivered : d.call.id = e.call.id => d = e
    /\ completion.reason = "tool_calls" => {d.ix : d \in delivered} = DOMAIN calls
    /\ completion.reason = "length" => \A d \in delivered : d.call.args # <<>>

(* The bounds on a turn are measured against what it really holds: the two   *)
(* running totals are the bytes of the calls assembled so far.               *)
TotalsAreExact ==
  /\ argumentBytes = MapThenSumSet(LAMBDA ix : Len(calls[ix].args), DOMAIN calls)
  /\ identifierBytes = MapThenSumSet(LAMBDA ix : Bytes(calls[ix].id) + Bytes(calls[ix].name), DOMAIN calls)

(* A completion carries every token count reported in what was read, each    *)
(* the newest one, also when the counts come after the finish reason.        *)
UsageIsNewest == completion # NoCompletion => completion.usage = heard

(* The channel keeps the promise of ChatStream. *)
Promise == INSTANCE ChatStream WITH closed <- phase = "closed"
KeepsPromise == Promise!Spec

(* Every call ends, however the server behaves: the deadline and the drain   *)
(* timer end the wait for it.                                                *)
StreamEnds == <>[]Settled
=============================================================================
