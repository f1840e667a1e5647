---------------------------- MODULE McpConnection ----------------------------
(***************************************************************************)
(* One connection to a tool server, as both clients keep it: the handshake *)
(* behind a gate of one slot, the state that an error may wipe while the   *)
(* handshake runs, the replay of a request whose session was lost, the     *)
(* notice of a cancelled call and the release of the session.  The agent   *)
(* runtime shares one client among its runs; the orchestrator makes one    *)
(* for each operation and releases its session afterwards (Owned).         *)
(***************************************************************************)
EXTENDS Naturals, FiniteSets

CONSTANTS
    Callers,    \* operations that use the client
    Owned,      \* the client is made for one operation
    MaxReqs,    \* requests in all
    MaxLost,    \* sessions the peer forgets
    MaxFaults   \* network failures and callers that give up

VARIABLES
    conn,       \* the Connection: ready, version, session, generation
    gate,       \* who holds the one slot
    caller,     \* each operation
    notices,    \* callers whose cancellation notice is still to go out
    live,       \* the peer's sessions
    announced,  \* sessions the peer has had `initialized` for
    opened,     \* sessions the peer has ever assigned
    seen,       \* openedSession: the last one this client read of
    unheard,    \* sessions whose assignment never reached the client
    deleted,    \* sessions this client has released
    ran,        \* history: how often the peer ran each caller's request
    reqs, lost, faults

vars == <<conn, gate, caller, notices, live, announced, opened, seen, unheard,
          deleted, ran, reqs, lost, faults>>
peer == <<live, announced, opened, unheard, deleted, ran, lost>>

Idle == [pc |-> "idle", method |-> "none", gen |-> 0, got |-> 0, sent |-> 0,
         answer |-> "none", replay |-> FALSE]

Init ==
    /\ conn = [ready |-> FALSE, version |-> 0, session |-> 0, gen |-> 0]
    /\ gate = {} /\ notices = {}
    /\ caller = [c \in Callers |-> Idle]
    /\ live = {} /\ announced = {} /\ opened = 0 /\ seen = 0
    /\ unheard = {} /\ deleted = {}
    /\ ran = [c \in Callers |-> 0]
    /\ reqs = 0 /\ lost = 0 /\ faults = 0

At(c, pc) == caller[c].pc = pc
Goto(c, pc) == caller' = [caller EXCEPT ![c].pc = pc]
Fault == faults < MaxFaults /\ faults' = faults + 1

Invalidated(k) == [ready |-> FALSE, version |-> 0, session |-> 0, gen |-> k.gen + 1]

Request(c, method) ==
    /\ At(c, "idle") /\ reqs < MaxReqs /\ reqs' = reqs + 1
    /\ caller' = [caller EXCEPT ![c] = [Idle EXCEPT !.pc = "ensure", !.method = method]]
    /\ ran' = [ran EXCEPT ![c] = 0]
    /\ UNCHANGED <<conn, gate, notices, live, announced, opened, seen, unheard, deleted, lost, faults>>

(***************************************************************************)
(* EnsureInitialized.                                                      *)
(***************************************************************************)
Ensure(c) ==
    /\ At(c, "ensure")
    /\ Goto(c, IF conn.ready THEN "send" ELSE "gate")
    /\ UNCHANGED <<conn, gate, notices, peer, seen, reqs, faults>>

(* The slot is taken, the connection looked at again and its generation    *)
(* remembered.                                                             *)
EnterGate(c) ==
    /\ At(c, "gate") /\ gate = {}
    /\ IF conn.ready THEN Goto(c, "send") /\ UNCHANGED gate
       ELSE /\ gate' = {c}
            /\ caller' = [caller EXCEPT ![c].pc = "initialize", ![c].gen = conn.gen]
    /\ UNCHANGED <<conn, notices, peer, seen, reqs, faults>>

(* A caller parked at the gate goes when its own context ends. *)
LeaveQueue(c) ==
    /\ At(c, "gate") /\ Fault
    /\ caller' = [caller EXCEPT ![c] = Idle]
    /\ UNCHANGED <<conn, gate, notices, peer, seen, reqs>>

(* `initialize` reaches the peer, which opens a session, and is answered. *)
Initialize(c) ==
    /\ At(c, "initialize")
    /\ opened' = opened + 1 /\ live' = live \cup {opened + 1}
    /\ seen' = opened + 1
    /\ caller' = [caller EXCEPT ![c].pc = "adopt", ![c].got = opened + 1]
    /\ UNCHANGED <<conn, gate, notices, announced, unheard, deleted, ran, reqs,
                   lost, faults>>

(* Every failure of a handshake wipes the connection and frees the slot. *)
Fail(c) ==
    /\ conn' = Invalidated(conn) /\ gate' = gate \ {c}
    /\ caller' = [caller EXCEPT ![c] = Idle]

(* `initialize` fails: before the peer sees it, after its headers were     *)
(* read, or in what it answers.                                            *)
HandshakeFails(c) ==
    /\ At(c, "initialize") \/ At(c, "adopt")
    /\ Fault /\ Fail(c)
    /\ UNCHANGED <<notices, peer, seen, reqs>>

(* The peer opens a session that the client never hears of. *)
InitializeLost(c) ==
    /\ At(c, "initialize") /\ Fault /\ Fail(c)
    /\ opened' = opened + 1 /\ live' = live \cup {opened + 1}
    /\ unheard' = unheard \cup {opened + 1}
    /\ UNCHANGED <<notices, announced, seen, deleted, ran, reqs, lost>>

(* AdoptSession, while the answer is decoded: no look at the generation. *)
AdoptSession(c) ==
    /\ At(c, "adopt")
    /\ conn' = [conn EXCEPT !.session = caller[c].got]
    /\ Goto(c, "publish")
    /\ UNCHANGED <<gate, notices, peer, seen, reqs, faults>>

discardStaleHandshake(c) == Fail(c)

(* publish: only in the generation the handshake began in. *)
Publish(c) ==
    /\ At(c, "publish")
    /\ IF conn.gen = caller[c].gen
       THEN /\ conn' = [conn EXCEPT !.version = caller[c].got]
            /\ Goto(c, "announce") /\ UNCHANGED gate
       ELSE discardStaleHandshake(c)
    /\ UNCHANGED <<notices, peer, seen, reqs, faults>>

(* `notifications/initialized`, with the headers as they now are: the peer *)
(* takes it, answers that the session is unknown, or refuses one without.  *)
Announce(c) ==
    /\ At(c, "announce")
    /\ caller' = [caller EXCEPT ![c].pc = "announced", ![c].sent = conn.session,
                   ![c].answer = IF conn.session \in live THEN "ok" ELSE "refused"]
    /\ announced' = announced \cup ({conn.session} \cap live)
    /\ UNCHANGED <<conn, gate, notices, live, opened, seen, unheard, deleted, ran,
                   reqs, lost, faults>>

AnnounceFails(c) ==
    /\ At(c, "announce") \/ At(c, "announced")
    /\ Fault /\ Fail(c)
    /\ UNCHANGED <<notices, peer, seen, reqs>>

BecomeReady(c) ==
    /\ At(c, "announced")
    /\ IF caller[c].answer = "ok" /\ conn.gen = caller[c].gen
       THEN conn' = [conn EXCEPT !.ready = TRUE] /\ gate' = gate \ {c} /\ Goto(c, "send")
       ELSE discardStaleHandshake(c)
    /\ UNCHANGED <<notices, peer, seen, reqs, faults>>

(***************************************************************************)
(* The request itself.                                                     *)
(***************************************************************************)

(* The headers are read when the request is sent, not when the connection  *)
(* was found ready.  The peer runs what names a session it knows.          *)
Send(c) ==
    LET s == conn.session IN
    /\ At(c, "send")
    /\ caller' = [caller EXCEPT ![c].pc = "answer", ![c].sent = s,
                   ![c].answer = IF s \in live THEN "ok" ELSE IF s = 0 THEN "error" ELSE "lost"]
    /\ ran' = IF s \in live THEN [ran EXCEPT ![c] = @ + 1] ELSE ran
    /\ UNCHANGED <<conn, gate, notices, live, announced, opened, seen, unheard, deleted,
                   reqs, lost, faults>>

(* Only a listing may be sent again, and only once. *)
Replayable(c) == caller[c].method = "tools/list" /\ ~caller[c].replay

(* The answer.  A lost session wipes the connection, whichever session it  *)
(* was that the peer did not know.                                         *)
Answer(c) ==
    /\ At(c, "answer")
    /\ IF caller[c].answer = "lost"
       THEN /\ conn' = Invalidated(conn)
            /\ caller' = [caller EXCEPT ![c] =
                  IF Replayable(c) THEN [@ EXCEPT !.pc = "ensure", !.replay = TRUE] ELSE Idle]
       ELSE /\ caller' = [caller EXCEPT ![c] = Idle] /\ UNCHANGED conn
    /\ UNCHANGED <<gate, notices, peer, seen, reqs, faults>>

(* The caller's context ends with the request out: a notice is started. *)
CallerLeaves(c) ==
    /\ At(c, "answer") /\ Fault
    /\ notices' = notices \cup {c}
    /\ caller' = [caller EXCEPT ![c] = Idle]
    /\ UNCHANGED <<conn, gate, peer, seen, reqs>>

(* notifyCancelled: only on a ready connection.  One that names a session  *)
(* the peer does not know wipes the connection, as any request does.       *)
NotifyCancelled(c) ==
    /\ c \in notices
    /\ notices' = notices \ {c}
    /\ conn' = IF conn.ready /\ conn.session \notin live THEN Invalidated(conn) ELSE conn
    /\ UNCHANGED <<gate, caller, peer, seen, reqs, faults>>

NoticesDone == notices = {}

(* releaseSession, once the operation is over. *)
ReleaseSession(c) ==
    /\ Owned /\ At(c, "idle") /\ reqs = MaxReqs
    /\ NoticesDone
    /\ seen \notin deleted /\ seen # 0
    /\ deleted' = deleted \cup {seen} /\ live' = live \ {seen}
    /\ UNCHANGED <<conn, gate, caller, notices, announced, opened, seen, unheard, ran,
                   reqs, lost, faults>>

(* The peer restarts or times the session out.  What it was working on in  *)
(* that session is answered as unknown, whether or not it was done.        *)
LoseSession(s) ==
    /\ lost < MaxLost /\ s \in live
    /\ lost' = lost + 1 /\ live' = live \ {s}
    /\ caller' = [c \in Callers |-> IF At(c, "answer") /\ caller[c].sent = s
                                    THEN [caller[c] EXCEPT !.answer = "lost"] ELSE caller[c]]
    /\ UNCHANGED <<conn, gate, notices, announced, opened, seen, unheard, deleted,
                   ran, reqs, faults>>

Step(c) ==
    \/ Ensure(c) \/ EnterGate(c) \/ Initialize(c) \/ AdoptSession(c) \/ Publish(c)
    \/ Announce(c) \/ BecomeReady(c) \/ Send(c) \/ Answer(c)
    \/ NotifyCancelled(c) \/ ReleaseSession(c)

Next ==
    \/ \E c \in Callers :
        \/ \E m \in {"tools/call", "tools/list"} : Request(c, m)
        \/ Step(c) \/ LeaveQueue(c) \/ HandshakeFails(c) \/ InitializeLost(c)
           \/ AnnounceFails(c) \/ CallerLeaves(c)
    \/ \E s \in 1..opened : LoseSession(s)

(* Every operation has a deadline, so each of its steps ends. *)
Fairness == \A c \in Callers : WF_vars(Step(c))

Spec == Init /\ [][Next]_vars

(***************************************************************************)
(* Properties.                                                             *)
(***************************************************************************)

(* A handshake runs only in the slot, so one at a time. *)
TypeOK ==
    /\ conn.session \in 0..opened /\ conn.version \in 0..opened
    /\ live \subseteq 1..opened /\ announced \subseteq 1..opened
    /\ Cardinality(gate) <= 1
    /\ {c \in Callers : caller[c].pc \in {"initialize", "adopt", "publish",
                                          "announce", "announced"}} \subseteq gate

(* A ready connection is one handshake's: its version and its session were *)
(* agreed together, and the peer has had the notification that ends it.    *)
ReadyIsWhole ==
    conn.ready => /\ conn.version = conn.session /\ conn.session # 0
                  /\ conn.session \in announced

(* `initialize` never carries a session or a version of an earlier         *)
(* handshake, whatever was wiped while that one ran.                       *)
InitializeIsBare ==
    \A c \in Callers : At(c, "initialize") => conn.session = 0 /\ conn.version = 0

(* The peer runs a tool call once at most, although a session can be lost  *)
(* with the call sent.                                                     *)
CallRunsOnce == \A c \in Callers : caller[c].method = "tools/call" => ran[c] <= 1

(* A cancellation never names a session that this client has released.     *)
CancelBeforeRelease == notices # {} /\ conn.ready => conn.session \notin deleted

(* Once an operation of the orchestrator is over, the peer keeps no        *)
(* session of it that the client has heard of, whichever step failed.      *)
NoneKept == reqs = 0 \/ live \subseteq unheard
SessionsReleased == <>[]NoneKept

(* Every operation ends: nobody waits for ever behind somebody else's      *)
(* handshake.                                                              *)
EveryRequestEnds == \A c \in Callers : ~At(c, "idle") ~> At(c, "idle")
=============================================================================
