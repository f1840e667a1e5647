---------------------------- MODULE RunLifecycle ----------------------------
(***************************************************************************)
(* What a client of the run API may rely on: the lifecycle of a run and    *)
(* its state version, and nothing about workers, jobs, tool calls or       *)
(* recovery.  RunStore implements this specification.                      *)
(***************************************************************************)
EXTENDS Naturals

CONSTANT Runs

VARIABLES status, version

vars == <<status, version>>

Executing == {"running", "waiting_approval", "recovering"}
Terminal == {"completed", "failed", "cancelled"}

\* The edges a guarded transition may take.  Only executing runs complete; the
\* queue is the only lifecycle with an edge to itself (a routing observation).
Edges ==
    ({"queued"} \X {"running", "queued", "failed", "cancelled"})
    \union ({"running"} \X ({"waiting_approval", "recovering", "queued"} \union Terminal))
    \union ({"waiting_approval"} \X ({"running", "recovering"} \union Terminal))
    \union ({"recovering"} \X ({"running", "queued"} \union Terminal))

Init ==
    /\ status = [r \in Runs |-> "absent"]
    /\ version = [r \in Runs |-> 0]

Create(r) ==
    /\ status[r] = "absent"
    /\ status' = [status EXCEPT ![r] = "queued"]
    /\ version' = [version EXCEPT ![r] = 1]

Transition(r, to) ==
    /\ <<status[r], to>> \in Edges
    /\ status' = [status EXCEPT ![r] = to]
    /\ version' = [version EXCEPT ![r] = @ + 1]

\* A fence and a requeue committed by one transaction.
FenceAndRequeue(r) ==
    /\ status[r] \in {"running", "waiting_approval"}
    /\ status' = [status EXCEPT ![r] = "queued"]
    /\ version' = [version EXCEPT ![r] = @ + 2]

Next ==
    \E r \in Runs :
        \/ Create(r)
        \/ \E to \in {"queued"} \union Executing \union Terminal : Transition(r, to)
        \/ FenceAndRequeue(r)

Spec == Init /\ [][Next]_vars

=============================================================================
