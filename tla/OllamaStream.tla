---------------------------- MODULE OllamaStream ----------------------------
(***************************************************************************)
(* One StreamChat of the Ollama client                                      *)
(* (agent-runtime-go/internal/llm/ollama.go): lines of JSON, each with some *)
(* text, fragments of tool calls and, on the last one, the reason the model *)
(* stopped.  A fragment that names no index has the one of its place in the *)
(* line.  Its arguments are an object that is merged into those the call    *)
(* has already: a set of leaves <<path, value>>.                            *)
(***************************************************************************)
EXTENDS Integers, Sequences, FiniteSets, FiniteSetsExt, SequencesExt

CONSTANTS
  MaxLines,      \* the lines one server sends
  MaxToolCalls,  \* maxOllamaToolCalls
  MaxArgBytes,   \* maxOllamaToolCallArgumentBytes
  MaxAllBytes,   \* maxOllamaToolCallAggregateArgumentBytes
  Lists          \* tool_calls of a line: sequences of [ix, id, name, args]

VARIABLES
  phase,          \* "ask", "read", "send", "ended", "closed", "refused"
  calls,          \* state.toolCalls
  argumentBytes,  \* state.argumentBytes
  todo, out,      \* events still to be sent, and sent
  delivered,      \* the calls of the tool_call event
  cancelled,
  lines,          \* lines read
  heard           \* ghost: for every index, the leaves its fragments carried

vars == <<phase, calls, argumentBytes, todo, out, delivered, cancelled, lines, heard>>

Init ==
  /\ phase = "ask" /\ calls = <<>> /\ argumentBytes = 0
  /\ todo = <<>> /\ out = <<>> /\ delivered = {} /\ cancelled = FALSE /\ lines = 0 /\ heard = {}

Ask ==
  /\ phase = "ask"
  /\ \/ phase' \in {"refused", "read"} /\ UNCHANGED todo
     \/ phase' = "send" /\ todo' = <<"error">>
  /\ UNCHANGED <<calls, argumentBytes, out, delivered, cancelled, lines, heard>>

(***************************************************************************)
(* appendToolCallFragments.  The list is applied fragment by fragment to    *)
(* [calls, bytes, ok]; one that does not fit refuses the line.              *)
(***************************************************************************)
Prefix(p, q) == Len(p) < Len(q) /\ SubSeq(q, 1, Len(p)) = p
Conflict(a, b) == \E x \in a, y \in b :
  \/ x[1] = y[1] /\ x[2] # y[2]
  \/ Prefix(x[1], y[1]) \/ Prefix(y[1], x[1])
Joins(old, new) == old = 0 \/ new = 0 \/ old = new
Bytes(args) == 1 + Cardinality(args)
Known(acc, ix) == ix \in DOMAIN acc.calls
Call(acc, ix) == IF Known(acc, ix) THEN acc.calls[ix] ELSE [id |-> 0, name |-> 0, args |-> {}, size |-> 0]

Total(acc, call, merged) == acc.bytes - call.size + Bytes(merged)

Merged(call, f) == call.args \cup f.args

Append1(acc, ix, f) ==
  LET call == Call(acc, ix)
      merged == Merged(call, f)
      bytes == Total(acc, call, merged)
      new == [id |-> IF f.id = 0 THEN call.id ELSE f.id,
              name |-> IF f.name = 0 THEN call.name ELSE f.name,
              args |-> merged, size |-> Bytes(merged)]
  IN  IF /\ Known(acc, ix) \/ Cardinality(DOMAIN acc.calls) < MaxToolCalls
         /\ Joins(call.id, f.id) /\ Joins(call.name, f.name) /\ ~Conflict(call.args, f.args)
         /\ Bytes(merged) <= MaxArgBytes /\ bytes <= MaxAllBytes
      THEN [calls |-> [i \in DOMAIN acc.calls \cup {ix} |-> IF i = ix THEN new ELSE acc.calls[i]],
            bytes |-> bytes, ok |-> TRUE]
      ELSE [acc EXCEPT !.ok = FALSE]

Index(list, n) == IF list[n].ix >= 0 THEN list[n].ix ELSE n - 1

Appended(list) ==
  LET step(acc, n) == IF acc.ok THEN Append1(acc, Index(list, n), list[n]) ELSE acc
      places == [n \in DOMAIN list |-> n]
  IN  IF \E m, n \in DOMAIN list : m # n /\ Index(list, m) = Index(list, n)
      THEN [calls |-> calls, bytes |-> argumentBytes, ok |-> FALSE]
      ELSE FoldLeft(step, [calls |-> calls, bytes |-> argumentBytes, ok |-> TRUE], places)

(***************************************************************************)
(* finalizeToolCalls: contiguous indices, a name each, no id twice.         *)
(***************************************************************************)
Sound(cs) ==
  /\ DOMAIN cs = 0 .. Cardinality(DOMAIN cs) - 1
  /\ \A ix \in DOMAIN cs :
       /\ cs[ix].name # 0
       /\ \A j \in DOMAIN cs : j # ix /\ cs[ix].id # 0 => cs[j].id # cs[ix].id

Read == phase = "read" /\ lines < MaxLines /\ lines' = lines + 1

Events(text, done, cs) ==
  (IF text THEN <<"delta">> ELSE <<>>)
  \o (IF ~done THEN <<>>
      ELSE IF DOMAIN cs = {} THEN <<"completed">>
      ELSE IF Sound(cs) THEN <<"tool_call", "completed">> ELSE <<"error">>)

Line(text, list, done) ==
  LET acc == Appended(list)
      events == Events(text, done, acc.calls)
  IN  /\ Read
      /\ IF acc.ok
         THEN /\ calls' = acc.calls /\ argumentBytes' = acc.bytes
              /\ todo' = events
              /\ phase' = IF events = <<>> THEN "read" ELSE "send"
              /\ delivered' = IF done /\ Sound(acc.calls) THEN Range(acc.calls) ELSE {}
              /\ heard' = heard \cup {<<Index(list, n), list[n].args>> : n \in DOMAIN list}
         ELSE /\ phase' = "send" /\ todo' = <<"error">>
              /\ UNCHANGED <<calls, argumentBytes, delivered, heard>>
      /\ UNCHANGED <<out, cancelled>>

(* A line that is not such an object, or reports an error. *)
Unusable ==
  /\ Read
  /\ phase' = "send" /\ todo' = <<"error">>
  /\ UNCHANGED <<calls, argumentBytes, out, delivered, cancelled, heard>>

(* The stream ends or breaks before its last line. *)
Broken ==
  /\ phase = "read"
  /\ IF cancelled THEN phase' = "closed" /\ UNCHANGED todo
                  ELSE phase' = "send" /\ todo' = <<"error">>
  /\ UNCHANGED <<calls, argumentBytes, out, delivered, cancelled, lines, heard>>

Send ==
  /\ phase = "send" /\ ~cancelled
  /\ out' = Append(out, Head(todo))
  /\ todo' = SubSeq(todo, 2, Len(todo))
  /\ phase' = IF Head(todo) \in {"completed", "error"} THEN "ended"
              ELSE IF Len(todo) = 1 THEN "read" ELSE "send"
  /\ UNCHANGED <<calls, argumentBytes, delivered, cancelled, lines, heard>>

GiveUp ==
  /\ phase = "send" /\ cancelled
  /\ phase' = "closed" /\ todo' = <<>>
  /\ UNCHANGED <<calls, argumentBytes, out, delivered, cancelled, lines, heard>>

Close ==
  /\ phase = "ended" /\ phase' = "closed"
  /\ UNCHANGED <<calls, argumentBytes, todo, out, delivered, cancelled, lines, heard>>

Cancel ==
  /\ phase \in {"read", "send"} /\ ~cancelled /\ cancelled' = TRUE
  /\ UNCHANGED <<phase, calls, argumentBytes, todo, out, delivered, lines, heard>>

Next ==
  \/ Ask
  \/ \E text \in BOOLEAN, list \in Lists \cup {<<>>}, done \in BOOLEAN : Line(text, list, done)
  \/ Unusable \/ Broken \/ Send \/ GiveUp \/ Close \/ Cancel

Spec == Init /\ [][Next]_vars

-----------------------------------------------------------------------------
(* The shape of the state: nothing is left to send outside a send. *)
TypeOK ==
  /\ phase \in {"ask", "read", "send", "ended", "closed", "refused"}
  /\ (phase = "send") <=> (todo # <<>>)
  /\ lines \in 0 .. MaxLines /\ cancelled \in BOOLEAN

(* Every argument that came for an index is in the call handed over for it,  *)
(* and the calls are all the server began (mergeOllamaArgumentMaps).         *)
NoPieceLost ==
  "tool_call" \in Range(out) =>
    /\ {h[1] : h \in heard} = 0 .. Cardinality(DOMAIN calls) - 1
    /\ \A h \in heard : \E call \in delivered :
         call = calls[h[1]] /\ h[2] \subseteq call.args

(* A call is told from the others of its turn, and no path of its arguments  *)
(* has two values (appendToolCallFragment, finalizeToolCalls).               *)
CallsAreWhole ==
  \A call \in delivered :
    /\ call.name # 0 /\ ~Conflict(call.args, call.args)
    /\ \A ix, j \in DOMAIN calls : calls[ix].id = call.id /\ calls[j].id = call.id /\ call.id # 0 => ix = j

(* The channel keeps the promise of ChatStream. *)
Promise == INSTANCE ChatStream WITH closed <- phase = "closed"
KeepsPromise == Promise!Spec
=============================================================================
