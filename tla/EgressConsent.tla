---------------------------- MODULE EgressConsent ----------------------------
(***************************************************************************)
(* Consent to send data off the machine.                                   *)
(*                                                                         *)
(* A client asks what a message would send and where (PrepareRemoteEgress);*)
(* the orchestrator resolves the route, the tools, their remote            *)
(* destinations, the skills and the memory one read after another, and     *)
(* signs what it found as a challenge.  The user acknowledges it, and      *)
(* SendMessage resolves everything again, compares, and enqueues the run   *)
(* in one transaction that checks the route, the skills and the memory     *)
(* once more.  The run then calls its model and its tools while the        *)
(* settings keep changing.  A delegated task asks for consent in the same  *)
(* way, for destinations only: its tools, skills and memory were frozen    *)
(* when it was created.                                                    *)
(*                                                                         *)
(* A route is a pair of a kind and a version of it; a remote tool has a    *)
(* destination whose version the user may change (the URL of a server, the *)
(* connection of an integration); skills and memory are versions of their  *)
(* content, equal when their fingerprints are.                             *)
(***************************************************************************)
EXTENDS Integers, FiniteSets

CONSTANTS
    Messages,     \* what may be sent
    Provider,     \* Messages -> "local", "openai" (asked for) or "task"
    Keyed,        \* messages sent with an idempotency key
    Prepares,     \* calls of PrepareRemoteEgress; each draws a fresh nonce
    Attempts,     \* calls of SendMessage
    Tools,        \* tools a worker may offer
    RemoteTools,  \* those that leave the machine
    MaxEdits      \* bound: changes of the settings

VARIABLES
    world,     \* the settings: route of the session, live tools, destinations, skills, memory
    edits,     \* changes made so far
    workerUrl, \* version of the OpenAI endpoint the worker is configured with
    pc,        \* step of each call
    ctx,       \* what each call has resolved so far
    msg,       \* the message each call is about
    consent,   \* the nonce an attempt carries, None without consent
    acks,      \* attempts in which the user acknowledged
    chal,      \* signed challenges, by nonce
    expired,   \* nonces past their five minutes
    run,       \* the run each attempt created
    keys,      \* send_message_idempotency
    answer,    \* the run each attempt answered with
    repeats,   \* the run each attempt repeats exactly, known when it is sent
    sent       \* what has left the machine

vars == <<world, edits, workerUrl, pc, ctx, msg, consent, acks, chal, expired,
          run, keys, answer, repeats, sent>>

Calls == Prepares \cup Attempts
None == [none |-> TRUE]
Local == <<"local", 0>>
Routes == {Local, <<"openai", 1>>, <<"agent", 1>>, <<"agent", 2>>}
Contexts == [endpoint : Routes, tools : SUBSET Tools,
             dests : SUBSET (RemoteTools \X (1 .. 2)), skills : 0 .. 1, memory : 0 .. 1]
Unread == [endpoint |-> Local, tools |-> {}, dests |-> {}, skills |-> 0, memory |-> 0]

Reads == {"route", "tools", "dests", "skills", "memory"}

Init ==
    /\ world \in [agent : 0 .. 1, tools : {{}, Tools}, dest : [RemoteTools -> {1}],
                  skills : {0}, memory : {0}]
    /\ edits = 0
    /\ workerUrl \in 1 .. 2
    /\ pc = [p \in Calls |-> "idle"]
    /\ ctx = [p \in Calls |-> Unread]
    /\ msg = [p \in Calls |-> None]
    /\ consent = [a \in Attempts |-> None]
    /\ acks = {}
    /\ chal = [n \in Prepares |-> None]
    /\ expired = {}
    /\ run = [a \in Attempts |-> None]
    /\ keys = [m \in Keyed |-> None]
    /\ answer = [a \in Attempts |-> None]
    /\ repeats = [a \in Attempts |-> None]
    /\ sent = {}

(* The user changes one setting: the agent the session is routed to, a     *)
(* tool a worker offers, the URL of a server or the connection of an       *)
(* integration, a skill, a pinned memory document.                         *)
Edit ==
    /\ edits < MaxEdits
    /\ edits' = edits + 1
    /\ \/ \E v \in 0 .. 2 \ {world.agent} : world' = [world EXCEPT !.agent = v]
       \/ \E t \in Tools : world' = [world EXCEPT !.tools = IF t \in @ THEN @ \ {t} ELSE @ \cup {t}]
       \/ \E t \in RemoteTools : world' = [world EXCEPT !.dest[t] = 3 - @]
       \/ world' = [world EXCEPT !.skills = 1 - @]
       \/ world' = [world EXCEPT !.memory = 1 - @]
    /\ UNCHANGED <<workerUrl, pc, ctx, msg, consent, acks, chal, expired, run, keys,
                   answer, repeats, sent>>

-----------------------------------------------------------------------------
(* resolveEgressContext: the session's agent wins over the provider the    *)
(* message asks for.                                                       *)
RouteOf(m) ==
    IF world.agent # 0 THEN <<"agent", world.agent>>
    ELSE IF Provider[m] = "openai" THEN <<"openai", 1>> ELSE Local

LeavesMachine(c) == c.endpoint # Local \/ c.dests # {}

DestinationsOf(tools) == {<<t, world.dest[t]>> : t \in tools \cap RemoteTools}

(* resolveDelegationEgress: a task runs locally with the tools it was      *)
(* created with; only their destinations are looked up.                    *)
FrozenTask == [Unread EXCEPT !.tools = Tools]

FirstRead(m) == IF Provider[m] = "task" THEN "dests" ELSE "route"

(* Nothing leaves the machine: the answer is no disclosure, and a task's   *)
(* disclosure is refused.                                                  *)
AfterDests(p, c) ==
    IF Provider[msg[p]] = "task" \/ ~LeavesMachine(c) THEN "resolved" ELSE "skills"

Read(p) ==
    /\ pc[p] \in Reads
    /\ LET c == ctx[p] IN
       \/ pc[p] = "route" /\ ctx' = [ctx EXCEPT ![p].endpoint = RouteOf(msg[p])]
                          /\ pc' = [pc EXCEPT ![p] = "tools"]
       \/ pc[p] = "tools" /\ ctx' = [ctx EXCEPT ![p].tools = world.tools]
                          /\ pc' = [pc EXCEPT ![p] = "dests"]
       \/ pc[p] = "dests"
          /\ LET full == [c EXCEPT !.dests = DestinationsOf(c.tools)] IN
             /\ ctx' = [ctx EXCEPT ![p] = full]
             /\ pc' = [pc EXCEPT ![p] = AfterDests(p, full)]
       \/ pc[p] = "skills" /\ ctx' = [ctx EXCEPT ![p].skills = world.skills]
                           /\ pc' = [pc EXCEPT ![p] = "memory"]
       \/ pc[p] = "memory" /\ ctx' = [ctx EXCEPT ![p].memory = world.memory]
                           /\ pc' = [pc EXCEPT ![p] = "resolved"]
    /\ UNCHANGED <<world, edits, workerUrl, msg, consent, acks, chal, expired, run, keys,
                   answer, repeats, sent>>

StartContext(m) == IF Provider[m] = "task" THEN FrozenTask ELSE Unread

(* PrepareRemoteEgress, PrepareDelegationEgress. *)
Prepare(p, m) ==
    /\ pc[p] = "idle"
    /\ pc' = [pc EXCEPT ![p] = FirstRead(m)]
    /\ msg' = [msg EXCEPT ![p] = m]
    /\ ctx' = [ctx EXCEPT ![p] = StartContext(m)]
    /\ UNCHANGED <<world, edits, workerUrl, consent, acks, chal, expired, run, keys,
                   answer, repeats, sent>>

(* validChallengePayload: a local route is only disclosed for the sake of  *)
(* destinations of its tools.                                              *)
ValidPayload(c) == c.endpoint = Local => c.dests # {}

(* The challenge signed for what was resolved; none when nothing leaves.   *)
Disclose(p) ==
    /\ p \in Prepares /\ pc[p] = "resolved"
    /\ pc' = [pc EXCEPT ![p] = "done"]
    /\ chal' = IF LeavesMachine(ctx[p]) /\ ValidPayload(ctx[p])
               THEN [chal EXCEPT ![p] = [msg |-> msg[p], ctx |-> ctx[p]]] ELSE chal
    /\ UNCHANGED <<world, edits, workerUrl, ctx, msg, consent, acks, expired, run, keys,
                   answer, repeats, sent>>

Expire(n) ==
    /\ chal[n] # None /\ n \notin expired
    /\ expired' = expired \cup {n}
    /\ UNCHANGED <<world, edits, workerUrl, pc, ctx, msg, consent, acks, chal, run, keys,
                   answer, repeats, sent>>

-----------------------------------------------------------------------------
(* enqueueRequestFingerprint: the request and the decision it carries,     *)
(* the nonce left out, so that a second disclosure of the same context is  *)
(* the same request.                                                       *)
Fingerprint(m, n) == <<m, IF n = None THEN None ELSE chal[n]>>

(* SendMessage, DecideDelegationEgress.  A message needs a consent or none;*)
(* a task always brings one (without, it is declined: Delegations).        *)
Send(a, m, n, ack) ==
    /\ pc[a] = "idle"
    /\ n = None => Provider[m] # "task" /\ ack
    /\ n # None => chal[n] # None
    /\ pc' = [pc EXCEPT ![a] = "lookup"]
    /\ msg' = [msg EXCEPT ![a] = m]
    /\ consent' = [consent EXCEPT ![a] = n]
    /\ acks' = IF ack THEN acks \cup {a} ELSE acks
    /\ repeats' = [repeats EXCEPT ![a] =
                       IF ack /\ m \in Keyed /\ keys[m] # None /\ keys[m].fp = Fingerprint(m, n)
                       THEN keys[m].run ELSE None]
    /\ UNCHANGED <<world, edits, workerUrl, ctx, chal, expired, run, keys, answer, sent>>

Refuse(a) ==
    /\ pc' = [pc EXCEPT ![a] = "done"]
    /\ UNCHANGED <<world, edits, workerUrl, ctx, msg, consent, acks, chal, expired, run, keys,
                   answer, repeats, sent>>

Answer(a, r) ==
    /\ pc' = [pc EXCEPT ![a] = "done"]
    /\ answer' = [answer EXCEPT ![a] = r]
    /\ UNCHANGED <<world, edits, workerUrl, ctx, msg, consent, acks, chal, expired, run, keys,
                   repeats, sent>>

Resolve(a) ==
    /\ pc' = [pc EXCEPT ![a] = FirstRead(msg[a])]
    /\ ctx' = [ctx EXCEPT ![a] = StartContext(msg[a])]
    /\ UNCHANGED <<world, edits, workerUrl, msg, consent, acks, chal, expired, run, keys,
                   answer, repeats, sent>>

(* LookupSendMessageReplay, findSendMessageIdempotencyTx: the run an       *)
(* earlier call with this key enqueued.                                    *)
Recorded(a) == msg[a] \in Keyed /\ keys[msg[a]] # None
SameRequest(a) == keys[msg[a]].fp = Fingerprint(msg[a], consent[a])

(* applyRemoteEgress, consentedDecision: acknowledged, then the replay,    *)
(* then the message and the expiry, then the context is resolved again.    *)
ApplyRemoteEgress(a) ==
    /\ pc[a] = "lookup"
    /\ LET n == consent[a]  m == msg[a] IN
       \/ a \notin acks /\ Refuse(a)
       \/ a \in acks /\ Recorded(a) /\ SameRequest(a) /\ Answer(a, keys[m].run)
       \/ a \in acks /\ Recorded(a) /\ ~SameRequest(a) /\ Refuse(a)
       \/ a \in acks /\ ~Recorded(a)
          /\ IF n # None /\ (chal[n].msg # m \/ n \in expired) THEN Refuse(a) ELSE Resolve(a)

(* payloadMatchesEgressContext: without consent nothing may leave; with    *)
(* consent what leaves is what was disclosed.                              *)
StillAsDisclosed(a) ==
    IF consent[a] = None THEN ~LeavesMachine(ctx[a]) ELSE ctx[a] = chal[consent[a]].ctx

Compare(a) ==
    /\ a \in Attempts /\ pc[a] = "resolved"
    /\ IF StillAsDisclosed(a)
       THEN /\ pc' = [pc EXCEPT ![a] = "enqueue"]
            /\ UNCHANGED <<world, edits, workerUrl, ctx, msg, consent, acks, chal, expired,
                           run, keys, answer, repeats, sent>>
       ELSE Refuse(a)

Spent == {run[a].nonce : a \in {b \in Attempts : run[b] # None}} \ {None}

(* normalizePendingEgressDecision: a decision that could not have been     *)
(* disclosed is not stored.                                                *)
ValidDecision(c) == ValidPayload(c) /\ \A d \in c.dests : d[1] \in c.tools

(* enqueueUserMessageTx, insertRunEgressDecisionTx: a remote route needs a *)
(* decision for exactly that route, the skills and the memory frozen into  *)
(* the job are the disclosed ones, and a challenge is spent once.          *)
DecisionHolds(a) ==
    LET n == consent[a]  m == msg[a] IN
    \/ n = None /\ RouteOf(m) = Local
    \/ /\ n # None /\ n \notin Spent
       /\ ValidDecision(chal[n].ctx)
       /\ chal[n].ctx.endpoint = RouteOf(m)
       /\ chal[n].ctx.skills = world.skills
       /\ chal[n].ctx.memory = world.memory

(* GrantDelegationEgress: the task still waits, and the challenge is new.  *)
GrantHolds(a) ==
    /\ consent[a] \notin Spent
    /\ \A b \in Attempts : run[b] # None => run[b].msg # msg[a]

NewRun(a) ==
    [msg |-> msg[a], nonce |-> consent[a],
     endpoint |-> IF Provider[msg[a]] = "task" THEN Local ELSE RouteOf(msg[a]),
     skills |-> IF Provider[msg[a]] = "task" THEN 0 ELSE world.skills,
     memory |-> IF Provider[msg[a]] = "task" THEN 0 ELSE world.memory]

CreateRun(a) ==
    /\ run' = [run EXCEPT ![a] = NewRun(a)]
    /\ keys' = IF msg[a] \in Keyed
               THEN [keys EXCEPT ![msg[a]] = [fp |-> Fingerprint(msg[a], consent[a]), run |-> a]]
               ELSE keys
    /\ answer' = [answer EXCEPT ![a] = a]
    /\ pc' = [pc EXCEPT ![a] = "done"]
    /\ UNCHANGED <<world, edits, workerUrl, ctx, msg, consent, acks, chal, expired, repeats, sent>>

(* EnqueueUserMessage: one transaction. *)
EnqueueUserMessage(a) ==
    /\ pc[a] = "enqueue" /\ Provider[msg[a]] # "task"
    /\ \/ Recorded(a) /\ SameRequest(a) /\ Answer(a, keys[msg[a]].run)
       \/ Recorded(a) /\ ~SameRequest(a) /\ Refuse(a)
       \/ ~Recorded(a) /\ IF DecisionHolds(a) THEN CreateRun(a) ELSE Refuse(a)

Grant(a) ==
    /\ pc[a] = "enqueue" /\ Provider[msg[a]] = "task"
    /\ IF GrantHolds(a) THEN CreateRun(a) ELSE Refuse(a)

-----------------------------------------------------------------------------
Runs == {a \in Attempts : run[a] # None}
Decision(r) == chal[run[r].nonce].ctx

(* validateEgressProvider: the endpoint the worker's client would call is  *)
(* the decided one.                                                        *)
ProviderEndpoint(r) ==
    IF run[r].endpoint[1] = "openai" THEN <<"openai", workerUrl>> ELSE run[r].endpoint

ProviderMatches(r) == ProviderEndpoint(r) = Decision(r).endpoint

(* validateEgressDecisionShape: the job carries a decision, and the skills *)
(* and the memory frozen into the job are the decided ones.                *)
ShapeMatches(r) ==
    /\ run[r].nonce # None
    /\ ValidDecision(Decision(r))
    /\ run[r].skills = Decision(r).skills /\ run[r].memory = Decision(r).memory

CallModel(r) ==
    /\ r \in Runs /\ run[r].endpoint # Local
    /\ ShapeMatches(r) /\ ProviderMatches(r)
    /\ sent' = sent \cup {[run |-> r, to |-> ProviderEndpoint(r), what |-> "context",
                           skills |-> run[r].skills, memory |-> run[r].memory]}
    /\ UNCHANGED <<world, edits, workerUrl, pc, ctx, msg, consent, acks, chal, expired, run,
                   keys, answer, repeats>>

(* Fault: the tool is compared, the place it would go to is not. *)
FaultyRunAllowsRemote(r, t) == run[r].nonce # None /\ t \in Decision(r).tools

(* RunAllowsRemoteMCP, RunAllowsIntegration: the destination as it is now  *)
(* is one the decision names for a tool the decision selects.              *)
RunAllowsRemote(r, t) ==
    /\ run[r].nonce # None
    /\ t \in Decision(r).tools
    /\ <<t, world.dest[t]>> \in Decision(r).dests

(* CallTool, CallIntegrationTool: the destination the check read is the    *)
(* one that is dialled.                                                    *)
CallRemoteTool(r, t) ==
    /\ r \in Runs /\ t \in world.tools \cap RemoteTools
    /\ RunAllowsRemote(r, t)
    /\ sent' = sent \cup {[run |-> r, to |-> <<t, world.dest[t]>>, what |-> "arguments",
                           skills |-> 0, memory |-> 0]}
    /\ UNCHANGED <<world, edits, workerUrl, pc, ctx, msg, consent, acks, chal, expired, run,
                   keys, answer, repeats>>

(* RunAllowsMemory: a run without a decision is local and may read. *)
RunAllowsMemory(r) == run[r].nonce # None => "memory" \in Decision(r).tools

(* CallMemoryTool: notes go back to the model. *)
CallMemoryTool(r) ==
    /\ r \in Runs /\ "memory" \in world.tools
    /\ RunAllowsMemory(r)
    /\ run[r].endpoint # Local
    /\ sent' = sent \cup {[run |-> r, to |-> run[r].endpoint, what |-> "notes",
                           skills |-> 0, memory |-> 0]}
    /\ UNCHANGED <<world, edits, workerUrl, pc, ctx, msg, consent, acks, chal, expired, run,
                   keys, answer, repeats>>

Next ==
    \/ Edit
    \/ \E p \in Calls : Read(p)
    \/ \E p \in Prepares, m \in Messages : Prepare(p, m)
    \/ \E p \in Prepares : Disclose(p) \/ Expire(p)
    \/ \E a \in Attempts, m \in Messages, n \in Prepares \cup {None}, ack \in BOOLEAN :
           Send(a, m, n, ack)
    \/ \E a \in Attempts : ApplyRemoteEgress(a) \/ Compare(a) \/ EnqueueUserMessage(a) \/ Grant(a)
    \/ \E r \in Attempts : CallModel(r) \/ CallMemoryTool(r)
    \/ \E r \in Attempts, t \in RemoteTools : CallRemoteTool(r, t)

Spec == Init /\ [][Next]_vars

-----------------------------------------------------------------------------
TypeOK ==
    /\ world \in [agent : 0 .. 2, tools : SUBSET Tools, dest : [RemoteTools -> 1 .. 2],
                  skills : 0 .. 1, memory : 0 .. 1]
    /\ edits \in 0 .. MaxEdits /\ workerUrl \in 1 .. 2
    /\ pc \in [Calls -> Reads \cup {"idle", "lookup", "resolved", "enqueue", "done"}]
    /\ \A p \in Calls : ctx[p] \in Contexts /\ msg[p] \in Messages \cup {None}
    /\ \A n \in Prepares : chal[n] \in [msg : Messages, ctx : Contexts] \cup {None}
    /\ acks \subseteq Attempts /\ expired \subseteq Prepares
    /\ \A a \in Attempts :
          /\ consent[a] \in Prepares \cup {None}
          /\ answer[a] \in Attempts \cup {None}
          /\ run[a] # None => run[a].endpoint \in Routes
    /\ \A s \in sent : s.run \in Runs

(* Everything that ever leaves the machine for a run, whatever changed     *)
(* since, goes where the disclosure said that the user acknowledged for    *)
(* this very message, and carries the skills and the memory it showed:     *)
(* applyRemoteEgress, enqueueUserMessageTx, validateEgressProvider and     *)
(* RunAllowsRemoteMCP taken together.  A run without a decision sends      *)
(* nothing.                                                                *)
ShownBeforeSent ==
    \A s \in sent :
        LET r == run[s.run] IN
        /\ r.nonce \in Prepares
        /\ \E a \in acks : consent[a] = r.nonce /\ msg[a] = r.msg
        /\ chal[r.nonce].msg = r.msg
        /\ LET shown == chal[r.nonce].ctx IN
           \/ s.what = "context" /\ s.to = shown.endpoint
              /\ s.skills = shown.skills /\ s.memory = shown.memory
           \/ s.what = "notes" /\ s.to = shown.endpoint /\ "memory" \in shown.tools
           \/ s.what = "arguments" /\ s.to \in shown.dests

(* One acknowledgement is good for one run, even when the same challenge   *)
(* is sent twice without an idempotency key: run_egress_decisions keeps    *)
(* the nonce unique.                                                       *)
OneRunPerConsent ==
    \A a, b \in Runs : run[a].nonce = run[b].nonce /\ run[a].nonce # None => a = b

(* A message sent with an idempotency key becomes at most one run, however *)
(* many calls race and however many disclosures were acknowledged.         *)
OneRunPerMessage ==
    \A a, b \in Runs : run[a].msg = run[b].msg /\ run[a].msg \in Keyed => a = b

(* A delegated task is granted once, to the destinations of one disclosure *)
(* the user acknowledged, however many windows show it and however many    *)
(* answers come back: GrantDelegationEgress looks at the task again in its *)
(* transaction.                                                            *)
OneGrantPerTask ==
    /\ \A a, b \in Runs : run[a].msg = run[b].msg /\ Provider[run[a].msg] = "task" => a = b
    /\ \A a \in Runs : Provider[run[a].msg] = "task" =>
          /\ a \in acks
          /\ \A s \in sent : s.run = a => s.to \in chal[consent[a]].ctx.dests

(* A call that repeats one that already landed is answered with its run,   *)
(* even after the challenge expired or the settings changed: the replay is *)
(* looked up before anything else may refuse (applyRemoteEgress).          *)
RepeatAnswered ==
    \A a \in Attempts : pc[a] = "done" /\ repeats[a] # None => answer[a] = repeats[a]
=============================================================================
