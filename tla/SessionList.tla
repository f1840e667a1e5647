----------------------------- MODULE SessionList -----------------------------
(***************************************************************************)
(* The list of conversations a client shows.                               *)
(*                                                                         *)
(* Conversations are renamed, archived, restored and written to, each time *)
(* with an updated_at later than the last and a session.updated event; or  *)
(* they are deleted.  Writers publish after their commit, so events of one *)
(* conversation may reach the bus in the other order.  A client follows    *)
(* SubscribeSessionUpdates: the server subscribes it to the bus, sends a   *)
(* snapshot of the latest event of every conversation, then what the bus   *)
(* delivers, of which a slow client gets the newest per conversation.  At  *)
(* the start and whenever the stream breaks the client opens a new stream  *)
(* and, without waiting for it, asks ListSessions.                         *)
(*                                                                         *)
(* A title is abstracted to the updated_at it was written with, which is   *)
(* also the number of its event.  All conversations fit one page; the      *)
(* client that looks on neither creates nor deletes one itself, and a      *)
(* withdrawal completes at once.                                           *)
(***************************************************************************)
EXTENDS Integers, Sequences, FiniteSets, FiniteSetsExt

CONSTANTS
    Sessions,    \* conversations
    Writers,     \* goroutines that change them and publish
    Wire,        \* messages the stream holds before a send blocks
    MaxTime,     \* bound: last timestamp
    MaxBreaks    \* bound: times the stream breaks

VARIABLES
    sess,      \* the sessions table: updated_at, status; "deleted" when the row is gone
    logged,    \* the latest session.updated event of each, NoEvent without one
    owed,      \* what each writer still has to publish
    fence,     \* sessions the bus has terminated
    up,        \* the stream: "off", "asked", "snapshot", "live"
    pending,   \* the subscription's newest event of each session
    hand,      \* what its goroutine offers to the handler
    wire,      \* messages under way to the client
    breaks,
    snap,      \* the client's snapshots: the newest it knows of each session
    revision,  \* _sessionStateRevision
    snapRev,   \* revision at which each snapshot was recorded
    row,       \* the rows on screen, by the updated_at they show
    tomb,      \* _locallyDeletedSessionIds
    listed,    \* _listedSessionIds
    eventOnly, \* _eventOnlySessionIds
    refresh    \* the request of ListSessions that counts: step, starting revision, answer

vars == <<sess, logged, owed, fence, up, pending, hand, wire, breaks, snap, revision,
          snapRev, row, tomb, listed, eventOnly, refresh>>
server == <<sess, logged, owed, fence>>
stream == <<up, pending, hand, wire, breaks>>
client == <<snap, revision, snapRev, row, tomb, listed, eventOnly, refresh>>

Times == 0 .. MaxTime + 1
Statuses == {"active", "archived", "deleted"}
Events == [s : Sessions, at : Times, status : Statuses]
NoEvent == [at |-> 0, status |-> "none"]
NoRefresh == [step |-> "none", start |-> 0, answer |-> {}]

Init ==
    /\ sess = [s \in Sessions |-> [at |-> 1, status |-> "active"]]
    /\ logged \in [Sessions -> {NoEvent, [at |-> 1, status |-> "active"]}]
    /\ owed = [w \in Writers |-> <<>>]
    /\ fence = {}
    /\ up = "asked" /\ pending = {} /\ hand = {} /\ wire = <<>> /\ breaks = 0
    /\ snap = [s \in Sessions |-> NoEvent] /\ revision = 0
    /\ snapRev = [s \in Sessions |-> 0]
    /\ row = [s \in Sessions |-> 0]
    /\ tomb = {} /\ listed = {} /\ eventOnly = {}
    /\ refresh = [NoRefresh EXCEPT !.step = "asked"]

-----------------------------------------------------------------------------
\* nextSessionActivityTime: a clock that does not advance is moved past the last activity.
NextActivityTime(current, candidate) == IF candidate > current THEN candidate ELSE current + 1

\* mutateSession and the enqueueing of a message, with whatever the clock says.
Mutate(w, s) ==
    /\ owed[w] = <<>> /\ sess[s].status # "deleted" /\ sess[s].at < MaxTime
    /\ \E status \in {"active", "archived"}, clock \in 1 .. MaxTime :
           LET new == [at |-> NextActivityTime(sess[s].at, clock), status |-> status]
           IN  /\ sess' = [sess EXCEPT ![s] = new]
               /\ logged' = [logged EXCEPT ![s] = new]
               /\ owed' = [owed EXCEPT ![w] = <<[s |-> s, at |-> new.at, status |-> status]>>]
    /\ UNCHANGED <<fence, stream, client>>

\* The row is deleted; publishSessionDeleted follows.
Delete(w, s) ==
    /\ owed[w] = <<>> /\ sess[s].status # "deleted"
    /\ sess' = [sess EXCEPT ![s].status = "deleted"]
    /\ logged' = [logged EXCEPT ![s] = NoEvent]
    /\ owed' = [owed EXCEPT ![w] = <<[s |-> s, at |-> sess[s].at + 1, status |-> "deleted"]>>]
    /\ UNCHANGED <<fence, stream, client>>

\* sessionUpdateSubscription.publish: the newest event of each session waits.
Coalesce(e) ==
    IF \E p \in pending : p.s = e.s /\ p.at > e.at THEN pending
    ELSE {p \in pending : p.s # e.s} \cup {e}

\* Publish and TerminateSession: nothing passes once the session is terminated.
Publish(w) ==
    /\ owed[w] # <<>>
    /\ LET e == Head(owed[w])
       IN  /\ pending' = IF e.s \notin fence /\ up \in {"snapshot", "live"} THEN Coalesce(e) ELSE pending
           /\ fence' = IF e.status = "deleted" THEN fence \cup {e.s} ELSE fence
    /\ owed' = [owed EXCEPT ![w] = <<>>]
    /\ UNCHANGED <<sess, logged, up, hand, wire, breaks, client>>

-----------------------------------------------------------------------------
(* The stream *)

\* SubscribeSessionUpdates subscribes to the bus first.
Subscribe ==
    /\ up = "asked"
    /\ up' = "snapshot"
    /\ UNCHANGED <<pending, hand, wire, breaks, server, client>>

\* ListLatestSessionUpdatedEvents, newest conversation first, and the sends.
SendSnapshots ==
    /\ up = "snapshot" /\ wire = <<>>
    /\ \E order \in [1 .. Cardinality({s \in Sessions : logged[s] # NoEvent}) -> Sessions] :
           /\ {order[i] : i \in DOMAIN order} = {s \in Sessions : logged[s] # NoEvent}
           /\ \A i, j \in DOMAIN order : i < j => logged[order[i]].at >= logged[order[j]].at
           /\ wire' = [i \in DOMAIN order |-> [s |-> order[i], at |-> logged[order[i]].at,
                                               status |-> logged[order[i]].status]]
    /\ up' = "live"
    /\ UNCHANGED <<pending, hand, breaks, server, client>>

\* The subscription's goroutine takes any session's event.
Pick ==
    /\ up # "off" /\ hand = {}
    /\ \E e \in pending : hand' = {e} /\ pending' = pending \ {e}
    /\ UNCHANGED <<up, wire, breaks, server, client>>

Forward ==
    /\ up = "live" /\ Len(wire) < Wire
    /\ \E e \in hand : wire' = Append(wire, e)
    /\ hand' = {}
    /\ UNCHANGED <<up, pending, breaks, server, client>>

\* The connection is lost with what was under way.
Break ==
    /\ up \in {"snapshot", "live"} /\ breaks < MaxBreaks
    /\ up' = "off" /\ pending' = {} /\ hand' = {} /\ wire' = <<>>
    /\ breaks' = breaks + 1
    /\ UNCHANGED <<server, client>>

-----------------------------------------------------------------------------
(* The client *)

\* The reconnect timer: a new stream is asked for and the list refreshed.
Reconnect ==
    /\ up = "off"
    /\ up' = "asked"
    /\ refresh' = [NoRefresh EXCEPT !.step = "asked", !.start = revision]
    /\ UNCHANGED <<pending, hand, wire, breaks, server, snap, revision, snapRev, row, tomb,
                   listed, eventOnly>>

\* ListSessions reads the page of active conversations.
ListSessions ==
    /\ refresh.step = "asked"
    /\ refresh' = [refresh EXCEPT !.step = "read",
                       !.answer = {[s |-> s, at |-> sess[s].at] : s \in {t \in Sessions : sess[t].status = "active"}}]
    /\ UNCHANGED <<server, stream, snap, revision, snapRev, row, tomb, listed, eventOnly>>

\* The snapshot of s becomes e at the next revision.
Record(f, s, e) == [f EXCEPT ![s] = [at |-> e.at, status |-> e.status]]

\* An update counts when it is newer than the snapshot and not older than the row.
Newer(e) == snap[e.s].at < e.at /\ row[e.s] <= e.at

\* _applyGlobalSessionUpdated: a deletion takes the row away for good, an update that
\* is newer changes, inserts or, when it archives, removes it.
Receive ==
    /\ wire # <<>>
    /\ wire' = Tail(wire)
    /\ LET e == Head(wire)
       IN  \/ /\ e.status = "deleted"
              /\ tomb' = tomb \cup {e.s}
              /\ snap' = [snap EXCEPT ![e.s] = NoEvent]
              /\ row' = [row EXCEPT ![e.s] = 0]
              /\ UNCHANGED <<revision, snapRev, eventOnly>>
           \/ /\ e.status # "deleted" /\ e.s \notin tomb /\ Newer(e)
              /\ snap' = Record(snap, e.s, e)
              /\ revision' = revision + 1
              /\ snapRev' = [snapRev EXCEPT ![e.s] = revision']
              /\ eventOnly' = IF row[e.s] = 0 /\ e.status = "active" THEN eventOnly \cup {e.s} ELSE eventOnly
              /\ row' = [row EXCEPT ![e.s] = IF e.status = "active" THEN e.at ELSE 0]
              /\ UNCHANGED tomb
           \/ /\ e.status # "deleted" /\ (e.s \notin tomb => ~Newer(e))
              /\ UNCHANGED <<snap, revision, snapRev, eventOnly, row, tomb>>
    /\ UNCHANGED <<up, pending, hand, breaks, server, listed, refresh>>

\* The row _reconcileSessionRefresh leaves for s: what the page says unless a snapshot is
\* as new; a row it does not list stays when only this shell knows it or when its
\* snapshot came after the request.
Resolved(s) ==
    LET page == {a \in refresh.answer : a.s = s}
        known == IF \E a \in page : a.at > snap[s].at THEN NoEvent ELSE snap[s]
    IN  IF s \in tomb \/ known.status = "archived" THEN 0
        ELSE IF page # {} THEN Max({a.at : a \in page} \cup {known.at})
        ELSE IF known.status = "active" /\ snapRev[s] > refresh.start THEN known.at
        ELSE IF s \in listed \cup eventOnly THEN 0
        ELSE row[s]

Reconcile ==
    /\ refresh.step = "read"
    /\ row' = [s \in Sessions |-> Resolved(s)]
    /\ snap' = [s \in Sessions |->
                   IF \E a \in refresh.answer : a.s = s /\ a.at > snap[s].at
                   THEN [at |-> (CHOOSE a \in refresh.answer : a.s = s).at, status |-> "active"]
                   ELSE snap[s]]
    /\ revision' = revision + Cardinality({a \in refresh.answer : a.at > snap[a.s].at})
    /\ snapRev' = [s \in Sessions |-> IF snap'[s] # snap[s] THEN revision' ELSE snapRev[s]]
    /\ eventOnly' = eventOnly \ {a.s : a \in refresh.answer}
    /\ listed' = {a.s : a \in refresh.answer}
    /\ refresh' = NoRefresh
    /\ UNCHANGED <<server, stream, tomb>>

-----------------------------------------------------------------------------
Next ==
    \/ \E w \in Writers : Publish(w) \/ \E s \in Sessions : Mutate(w, s) \/ Delete(w, s)
    \/ Subscribe \/ SendSnapshots \/ Pick \/ Forward \/ Break
    \/ Reconnect \/ ListSessions \/ Receive \/ Reconcile

Spec == Init /\ [][Next]_vars

\* The handlers, the goroutine and the client's event loop run; a broken stream is
\* opened again by the timer.
Fairness ==
    /\ \A w \in Writers : WF_vars(Publish(w))
    /\ WF_vars(Subscribe) /\ WF_vars(SendSnapshots) /\ WF_vars(Pick) /\ WF_vars(Forward)
    /\ WF_vars(Reconnect) /\ WF_vars(ListSessions) /\ WF_vars(Receive) /\ WF_vars(Reconcile)

-----------------------------------------------------------------------------
TypeOK ==
    /\ sess \in [Sessions -> [at : Times, status : Statuses]]
    /\ \A w \in Writers : owed[w] = <<>> \/ Head(owed[w]) \in Events
    /\ fence \subseteq Sessions /\ tomb \subseteq Sessions
    /\ up \in {"off", "asked", "snapshot", "live"}
    /\ pending \subseteq Events /\ \A p, q \in pending : p.s = q.s => p = q
    /\ hand \subseteq Events /\ Cardinality(hand) <= 1
    /\ Len(wire) <= Max({Wire, Cardinality(Sessions)})
    /\ row \in [Sessions -> Times]

\* A row on screen is the newest state of its conversation the client knows, and shows
\* an active one: an old event, a stale page or an event published late never takes it
\* back (_applySessionUpdated, _reconcileSessionRefresh, "_removeArchivedSessions").
RowsAreNewest ==
    \A s \in Sessions : row[s] # 0 => snap[s].status = "active" /\ row[s] = snap[s].at

\* What a row shows was the state of the conversation, and a conversation whose deletion
\* the client has seen is gone from the screen and from the server.
RowsAreReal ==
    \A s \in Sessions :
        /\ row[s] # 0 => row[s] <= sess[s].at
        /\ s \in tomb => row[s] = 0 /\ sess[s].status = "deleted"

\* Rows never go back in time while they are on screen.
NeverBack == [][\A s \in Sessions : row[s] # 0 /\ row'[s] # 0 => row'[s] >= row[s]]_vars

\* The list settles: in the end a conversation that still exists is shown as it is, and
\* not when it is archived, whatever was lost, late or coalesced on the way.
ShownAsIs ==
    \A s \in Sessions : sess[s].status # "deleted" =>
        row[s] = IF sess[s].status = "active" THEN sess[s].at ELSE 0
Settles == <>[]ShownAsIs

=============================================================================
