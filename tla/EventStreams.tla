---------------------------- MODULE EventStreams ----------------------------
(***************************************************************************)
(* The event log of a session, the in-process bus, and the streams that    *)
(* deliver the log to clients.                                             *)
(*                                                                         *)
(* Every change commits its events to the log with the next sequence       *)
(* numbers and publishes them on the bus afterwards, so two writers may    *)
(* publish in the other order.  A subscription has a bounded queue that is *)
(* collapsed to its newest event when it is full, a goroutine that carries *)
(* events to the handler, and one place of its own for the deletion of the *)
(* session.  SubscribeSessionEvents replays the log, subscribes, replays   *)
(* again and then follows the bus, replaying wherever it finds a gap.  The *)
(* stream of SendMessage reads the log at every event and every 50 ms.     *)
(*                                                                         *)
(* Pages of a replay are sent in one step: nobody but the handler sees how *)
(* far it has come.  Payloads are left out.                                *)
(***************************************************************************)
EXTENDS Integers, Sequences, FiniteSets, SequencesExt

CONSTANTS
    Watchers,     \* clients of SubscribeSessionEvents
    Senders,      \* clients of SendMessage; each sends one message, that is one run
    Writers,      \* goroutines that commit events and then publish them
    Buffer,       \* capacity of a subscription's queues
    PageSize,     \* events read by one replay query (500)
    MaxLog,       \* bound: length of the log
    MaxOpens,     \* bound: times a watcher connects
    MaxRestarts   \* bound: crashes of the orchestrator

VARIABLES
    log,       \* events of the session: [run, kind]
    session,   \* "active", "deleting" or "gone"
    reserved,  \* sequence number reserved for session.deleted
    owed,      \* events each writer still has to publish, in order
    fence,     \* the bus has terminated the session
    sub,       \* each watcher's subscription
    pc,        \* step of each handler, "off" when there is no stream
    sent,      \* lastSent of each handler
    held,      \* the event a handler met a gap at
    got,       \* what each client received, over all its streams
    from,      \* the sequence number a watcher first asked for
    opens,     \* streams a watcher has opened
    restarts

vars == <<log, session, reserved, owed, fence, sub, pc, sent, held, got, from, opens, restarts>>

Clients == Watchers \cup Senders
None == "none"
Deleted == 0           \* stands for session.deleted in queues and in got
NoSub == [on |-> FALSE, queue |-> <<>>, hand |-> <<>>, out |-> <<>>, term |-> FALSE, over |-> FALSE]
EventsOf(r) == {n \in 1 .. Len(log) : log[n].run = r}
Ended(r) == \E n \in EventsOf(r) : log[n].kind = "end"
Running(r) == EventsOf(r) # {} /\ ~Ended(r)

Init ==
    /\ log = <<>> /\ session = "active" /\ reserved = 0
    /\ owed = [w \in Writers |-> <<>>]
    /\ fence = FALSE
    /\ sub = [c \in Watchers |-> NoSub]
    /\ pc = [c \in Clients |-> "off"]
    /\ sent = [c \in Clients |-> 0]
    /\ held = [c \in Watchers |-> 0]
    /\ got = [c \in Clients |-> <<>>]
    /\ from \in [Watchers -> 0 .. 1]
    /\ opens = [c \in Watchers |-> 0]
    /\ restarts = 0

-----------------------------------------------------------------------------
(* Writing *)

\* appendEventTx gives every event the next number of its session.
Append1(s, r, k) == Append(s, [run |-> r, kind |-> k])

\* A transaction appends one or two events; its caller publishes them after the commit.
\* Only an active session takes new work, but the report of a tool that was running may
\* still be appended while the session is being deleted.
Commit(w) ==
    /\ owed[w] = <<>> /\ Len(log) < MaxLog
    /\ \/ /\ session = "active"
          /\ \/ log' = Append1(log, None, "update")
             \/ \E r \in Senders, k \in {"step", "end"} : Running(r) /\ log' = Append1(log, r, k)
             \/ \E r \in Senders :
                    /\ Running(r) /\ Len(log) + 2 <= MaxLog
                    /\ log' = Append1(Append1(log, r, "step"), r, "end")
       \/ /\ session = "deleting"
          /\ \E r \in Senders : EventsOf(r) # {} /\ log' = Append1(log, r, "step")
    /\ owed' = [owed EXCEPT ![w] = [i \in 1 .. Len(log') - Len(log) |-> Len(log) + i]]
    /\ UNCHANGED <<session, reserved, fence, sub, pc, sent, held, got, from, opens, restarts>>

\* sessionEventSubscription.publish: a full queue collapses to the newest event.
Put(s, e) ==
    IF Len(s.queue) < Buffer THEN [s EXCEPT !.queue = Append(@, e)]
    ELSE [s EXCEPT !.queue = <<Max(ToSet(@) \cup {e})>>]

Publish(w) ==
    /\ owed[w] # <<>>
    /\ owed' = [owed EXCEPT ![w] = Tail(@)]
    /\ sub' = IF fence THEN sub
              ELSE [c \in Watchers |-> IF sub[c].on THEN Put(sub[c], Head(owed[w])) ELSE sub[c]]
    /\ UNCHANGED <<log, session, reserved, fence, pc, sent, held, got, from, opens, restarts>>

\* Withdrawal cancels the session's runs, without publishing the events, and reserves
\* the number after the last one for session.deleted.
BeginDeletion ==
    /\ session = "active"
    /\ \E order \in SetToSeqs({r \in Senders : Running(r)}) :
           log' = log \o [i \in DOMAIN order |-> [run |-> order[i], kind |-> "end"]]
    /\ session' = "deleting"
    /\ reserved' = Len(log') + 1
    /\ UNCHANGED <<owed, fence, sub, pc, sent, held, got, from, opens, restarts>>

CompleteDeletion ==
    /\ session = "deleting"
    /\ session' = "gone"
    /\ UNCHANGED <<log, reserved, owed, fence, sub, pc, sent, held, got, from, opens, restarts>>

\* publishSessionDeleted, after the rows are gone.
TerminateSession ==
    /\ session = "gone" /\ ~fence
    /\ fence' = TRUE
    /\ sub' = [c \in Watchers |-> IF sub[c].on THEN [sub[c] EXCEPT !.term = TRUE] ELSE sub[c]]
    /\ UNCHANGED <<log, session, reserved, owed, pc, sent, held, got, from, opens, restarts>>

\* A crash loses the bus, the streams and what was not published.
Restart ==
    /\ restarts < MaxRestarts
    /\ restarts' = restarts + 1
    /\ owed' = [w \in Writers |-> <<>>]
    /\ fence' = FALSE
    /\ sub' = [c \in Watchers |-> NoSub]
    /\ pc' = [c \in Clients |-> IF pc[c] = "off" \/ c \in Watchers THEN "off" ELSE "left"]
    /\ held' = [c \in Watchers |-> 0]
    /\ UNCHANGED <<log, session, reserved, sent, got, from, opens>>

-----------------------------------------------------------------------------
(* The subscription's goroutine *)

\* run takes the deletion or the next event, whichever select picks.
Take(c) ==
    /\ sub[c].on /\ sub[c].hand = <<>> /\ ~sub[c].over
    /\ \/ sub[c].term /\ sub' = [sub EXCEPT ![c].hand = <<Deleted>>, ![c].term = FALSE]
       \/ /\ sub[c].queue # <<>>
          /\ sub' = [sub EXCEPT ![c].hand = <<Head(sub[c].queue)>>, ![c].queue = Tail(@)]
    /\ UNCHANGED <<log, session, reserved, owed, fence, pc, sent, held, got, from, opens, restarts>>

\* deliver, and the check for the deletion with which the loop starts again.
Carry(c) ==
    /\ sub[c].hand # <<>> /\ Len(sub[c].out) < Buffer
    /\ sub' = [sub EXCEPT ![c].out = Append(@, sub[c].hand[1]),
                          ![c].over = sub[c].hand = <<Deleted>>,
                          ![c].hand = IF sub[c].term THEN <<Deleted>> ELSE <<>>,
                          ![c].term = FALSE]
    /\ UNCHANGED <<log, session, reserved, owed, fence, pc, sent, held, got, from, opens, restarts>>

-----------------------------------------------------------------------------
(* SubscribeSessionEvents *)

\* The stream ends; the deferred unsubscribe runs.
Close(c) ==
    /\ pc' = [pc EXCEPT ![c] = "off"]
    /\ sub' = [sub EXCEPT ![c] = NoSub]
    /\ held' = [held EXCEPT ![c] = 0]

\* The client asks for what follows the last event it has.
Cursor(c) == IF got[c] = <<>> THEN from[c] ELSE sent[c]

Open(c) ==
    /\ pc[c] = "off" /\ opens[c] < MaxOpens /\ Deleted \notin ToSet(got[c])
    /\ opens' = [opens EXCEPT ![c] = @ + 1]
    /\ sent' = [sent EXCEPT ![c] = Cursor(c)]
    /\ pc' = [pc EXCEPT ![c] = IF session # "active" \/ Cursor(c) > Len(log) THEN "off" ELSE "first"]
    /\ UNCHANGED <<log, session, reserved, owed, fence, sub, held, got, from, restarts>>

\* Subscribe, between the two replays.
Subscribe(c) ==
    /\ pc[c] = "subscribe"
    /\ sub' = [sub EXCEPT ![c] = [NoSub EXCEPT !.on = TRUE]]
    /\ pc' = [pc EXCEPT ![c] = "second"]
    /\ UNCHANGED <<log, session, reserved, owed, fence, sent, held, got, from, opens, restarts>>

\* ReplayEvents: the events after a number, at most a page of them.
Page(n) == [i \in 1 .. Min({PageSize, Len(log) - n}) |-> n + i]

\* What remains to be sent after the last page of a replay that a gap started.
Rest(c, n) == IF pc[c] = "gap" /\ held[c] > n THEN <<held[c]>> ELSE <<>>

\* One round of replayAvailable; the last one is a page that is not full.
Replay(c) ==
    /\ pc[c] \in {"first", "second", "gap"}
    /\ \/ session # "active" /\ Close(c) /\ UNCHANGED <<got, sent>>
       \/ /\ session = "active"
          /\ LET page == Page(sent[c])
                 done == Len(page) < PageSize
                 all  == page \o IF done THEN Rest(c, sent[c] + Len(page)) ELSE <<>>
             IN  /\ got' = [got EXCEPT ![c] = @ \o all]
                 /\ sent' = [sent EXCEPT ![c] = IF all = <<>> THEN @ ELSE Last(all)]
                 /\ pc' = [pc EXCEPT ![c] = IF ~done THEN @ ELSE IF @ = "first" THEN "subscribe" ELSE "live"]
                 /\ held' = IF done THEN [held EXCEPT ![c] = 0] ELSE held
                 /\ UNCHANGED sub
    /\ UNCHANGED <<log, session, reserved, owed, fence, from, opens, restarts>>

\* Whether an event of the bus is new to the stream; session.deleted is numbered too.
Fresh(c, e) == (IF e = Deleted THEN reserved ELSE e) > sent[c]


\* The live loop: old events are skipped, the next one is sent, a gap is replayed.
Live(c) ==
    /\ pc[c] = "live" /\ sub[c].out # <<>>
    /\ LET e == Head(sub[c].out)
           rest == [sub EXCEPT ![c].out = Tail(@)]
       IN  \/ ~Fresh(c, e) /\ sub' = rest /\ UNCHANGED <<pc, got, sent, held>>
           \/ /\ Fresh(c, e) /\ e = Deleted
              /\ got' = [got EXCEPT ![c] = Append(@, Deleted)]
              /\ Close(c) /\ UNCHANGED sent
           \/ /\ Fresh(c, e) /\ e = sent[c] + 1
              /\ got' = [got EXCEPT ![c] = Append(@, e)]
              /\ sent' = [sent EXCEPT ![c] = e]
              /\ sub' = rest /\ UNCHANGED <<pc, held>>
           \/ /\ Fresh(c, e) /\ e > sent[c] + 1
              /\ pc' = [pc EXCEPT ![c] = "gap"]
              /\ held' = [held EXCEPT ![c] = e]
              /\ sub' = rest /\ UNCHANGED <<got, sent>>
    /\ UNCHANGED <<log, session, reserved, owed, fence, from, opens, restarts>>

\* The channel of the subscription is closed and empty.
Drained(c) ==
    /\ pc[c] = "live" /\ sub[c].over /\ sub[c].out = <<>>
    /\ Close(c)
    /\ UNCHANGED <<log, session, reserved, owed, fence, sent, got, from, opens, restarts>>

Disconnect(c) ==
    /\ pc[c] # "off" /\ opens[c] < MaxOpens
    /\ Close(c)
    /\ UNCHANGED <<log, session, reserved, owed, fence, sent, got, from, opens, restarts>>

-----------------------------------------------------------------------------
(* The stream of SendMessage *)

\* The message is enqueued and its first event sent; a writer publishes it.
SendMessage(c) ==
    /\ pc[c] = "off" /\ session = "active" /\ Len(log) < MaxLog
    /\ \E w \in Writers :
           /\ owed[w] = <<>>
           /\ owed' = [owed EXCEPT ![w] = <<Len(log) + 1>>]
    /\ log' = Append1(log, c, "queued")
    /\ pc' = [pc EXCEPT ![c] = "live"]
    /\ sent' = [sent EXCEPT ![c] = Len(log) + 1]
    /\ got' = [got EXCEPT ![c] = <<Len(log) + 1>>]
    /\ UNCHANGED <<session, reserved, fence, sub, held, from, opens, restarts>>

\* The part of a page a sender is sent: its run's events, up to the one that ends it.
OwnPart(c, page) ==
    SelectSeq(page, LAMBDA n : log[n].run = c /\ \A m \in EventsOf(c) : log[m].kind = "end" => n <= m)

\* streamAvailableEvents, one page; woken by the bus or by the ticker.
StreamAvailable(c) ==
    /\ pc[c] = "live"
    /\ \/ /\ session # "active"
          /\ pc' = [pc EXCEPT ![c] = "left"] /\ UNCHANGED <<got, sent>>
       \/ /\ session = "active"
          /\ LET page == Page(sent[c])
                 own  == OwnPart(c, page)
                 over == \E n \in ToSet(own) : log[n].kind = "end"
             IN  /\ page # <<>>
                 /\ got' = [got EXCEPT ![c] = @ \o own]
                 /\ sent' = [sent EXCEPT ![c] = IF over THEN Last(own) ELSE Last(page)]
                 /\ pc' = [pc EXCEPT ![c] = IF over THEN "left" ELSE @]
    /\ UNCHANGED <<log, session, reserved, owed, fence, sub, held, from, opens, restarts>>

SenderLeaves(c) ==
    /\ pc[c] = "live"
    /\ pc' = [pc EXCEPT ![c] = "left"]
    /\ UNCHANGED <<log, session, reserved, owed, fence, sub, sent, held, got, from, opens, restarts>>

-----------------------------------------------------------------------------
Handler(c) ==
    \/ Subscribe(c) \/ Replay(c) \/ Live(c) \/ Drained(c)

Next ==
    \/ \E w \in Writers : Commit(w) \/ Publish(w)
    \/ BeginDeletion \/ CompleteDeletion \/ TerminateSession \/ Restart
    \/ \E c \in Watchers : Open(c) \/ Handler(c) \/ Take(c) \/ Carry(c) \/ Disconnect(c)
    \/ \E c \in Senders : SendMessage(c) \/ StreamAvailable(c) \/ SenderLeaves(c)

Spec == Init /\ [][Next]_vars

\* Goroutines run, handlers run while their stream is open, what was committed is
\* published, and the withdrawal of a session is carried through.
Fairness ==
    /\ \A w \in Writers : WF_vars(Publish(w))
    /\ \A c \in Watchers : WF_vars(Handler(c)) /\ WF_vars(Take(c) \/ Carry(c))
    /\ \A c \in Senders : WF_vars(StreamAvailable(c))
    /\ WF_vars(TerminateSession)

-----------------------------------------------------------------------------
TypeOK ==
    /\ log \in Seq([run : Senders \cup {None}, kind : {"queued", "step", "end", "update"}])
    /\ session \in {"active", "deleting", "gone"} /\ reserved \in 0 .. MaxLog + Cardinality(Senders) + 1
    /\ sub \in [Watchers -> [on : BOOLEAN, queue : Seq(Nat), hand : Seq(Nat), out : Seq(Nat),
                             term : BOOLEAN, over : BOOLEAN]]
    /\ \A c \in Watchers : Len(sub[c].queue) <= Buffer /\ Len(sub[c].out) <= Buffer /\ Len(sub[c].hand) <= 1
    /\ pc \in [Clients -> {"off", "first", "subscribe", "second", "live", "gap", "left"}]

\* A watcher receives the events that follow the number it first asked for one after
\* another, none twice and none left out, over all its streams: over full queues, events
\* published in the wrong order, lost connections and restarts (SubscribeSessionEvents,
\* replayAvailable, Bus.Publish).  session.deleted comes last.
WholeAndInOrder ==
    \A c \in Watchers : \A i \in DOMAIN got[c] :
        \/ got[c][i] = from[c] + i
        \/ got[c][i] = Deleted /\ i = Len(got[c]) /\ session = "gone"

\* A sender receives its run's events, all of them up to the last one received, in order,
\* and nothing after the event that ends the run (streamAvailableEvents).
OwnRunInOrder ==
    \A c \in Senders :
        /\ ToSet(got[c]) \subseteq EventsOf(c)
        /\ \A i, j \in DOMAIN got[c] : i < j => got[c][i] < got[c][j]
        /\ \A n \in EventsOf(c), m \in ToSet(got[c]) : n < m => n \in ToSet(got[c])
        /\ \A i \in DOMAIN got[c] : log[got[c][i]].kind = "end" => i = Len(got[c])

\* A watcher that stays connected is sent every event of the log, although events are
\* dropped from full queues and published out of order, unless the session is deleted.
CaughtUp ==
    \A c \in Watchers : pc[c] # "off" /\ session = "active" => sent[c] >= Len(log)
CatchesUp == []<>CaughtUp

\* When the run a sender waits for has ended, its stream ends too.
SendersFree == \A c \in Senders : Ended(c) => pc[c] # "live"
SenderReleased == []<>SendersFree

\* No stream outlives the session: a client is told, or its stream ends with an error.
NoneOutlives == session = "gone" => \A c \in Clients : pc[c] \in {"off", "left"}
StreamsEnd == []<>NoneOutlives
=============================================================================
