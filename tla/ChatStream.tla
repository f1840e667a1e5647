----------------------------- MODULE ChatStream -----------------------------
(***************************************************************************)
(* What a model client promises the agent loop about the channel StreamChat *)
(* returns (agent-runtime-go/internal/llm): pieces of text, then at most    *)
(* one list of tool calls, then one ending, then the close.  After the tool *)
(* calls only a completion can come, so the calls of a turn are never run   *)
(* for a turn that then fails.  Only a cancelled context closes the channel *)
(* without an ending.                                                       *)
(***************************************************************************)
EXTENDS Naturals, Sequences

VARIABLES out, closed, cancelled

streamVars == <<out, closed, cancelled>>

Ending == {"completed", "error"}
Last == out[Len(out)]
Ended == out # <<>> /\ Last \in Ending
CallsSent == out # <<>> /\ Last = "tool_call"

Init == out = <<>> /\ closed = FALSE /\ cancelled = FALSE

Deliver(e) ==
  /\ ~closed /\ ~Ended
  /\ CallsSent => e = "completed"
  /\ out' = Append(out, e)
  /\ UNCHANGED <<closed, cancelled>>

(* The close; a cancelled context may be the reason, or have come too late. *)
Close ==
  /\ ~closed
  /\ Ended \/ cancelled
  /\ closed' = TRUE
  /\ UNCHANGED <<out, cancelled>>

Cancel ==
  /\ ~cancelled
  /\ cancelled' = TRUE
  /\ UNCHANGED <<out, closed>>

Next == \/ \E e \in {"delta", "tool_call"} \cup Ending : Deliver(e)
        \/ Close
        \/ Cancel

Spec == Init /\ [][Next]_streamVars
=============================================================================
