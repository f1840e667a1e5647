------------------------------- MODULE Routing -------------------------------
(***************************************************************************)
(* Which worker can serve which run.  The orchestrator answers that        *)
(* question in three places, each in its own words: the scan of the queue  *)
(* (ValidateRouting), the claim (a filter in SQL) and the last look before *)
(* an assignment is sent (workerCapabilitiesSupportRoute).  A fourth one   *)
(* offers the tools a run may be given (EgressToolNames).                  *)
(*                                                                         *)
(* A capability record: agents, models (provider -> context limit, or      *)
(* Absent), tools, credentials, max (concurrent runs), egress and team     *)
(* (versions of the two protocols).                                        *)
(***************************************************************************)
EXTENDS Integers, FiniteSets

CONSTANTS Workers,
          Advertised,   \* what a worker may advertise
          Routes,       \* what a run may require
          Updates       \* BOOLEAN: workers change what they advertise

VARIABLES caps, route

vars == <<caps, route>>

Absent == -1
None == [none |-> TRUE]
EgressVersion == 1

Live == {w \in Workers : caps[w] # None}

-----------------------------------------------------------------------------
\* A snapshot is refused as a whole unless it names an agent, a model or a
\* credential, and a capacity within bounds.
decodeWorkerCapabilities(c) ==
    IF /\ c.max >= 1 /\ c.agents # {}
       /\ c.credentials # {} \/ \E p \in DOMAIN c.models : c.models[p] # Absent
    THEN c ELSE None

\* A worker that sends no snapshot is given the configured profile, which
\* knows neither protocol.
decodeLegacyWorkerCapabilities(c) == decodeWorkerCapabilities([c EXCEPT !.egress = 0, !.team = 0])

ConnectWorker(w, c) ==
    /\ caps[w] = None
    /\ \E d \in {decodeWorkerCapabilities(c), decodeLegacyWorkerCapabilities(c)} :
          d # None /\ caps' = [caps EXCEPT ![w] = d]
    /\ UNCHANGED route

replaceWorkerCapabilities(w, c) ==
    /\ Updates /\ caps[w] # None
    /\ decodeWorkerCapabilities(c) # None
    /\ caps' = [caps EXCEPT ![w] = c]
    /\ UNCHANGED route

Disconnect(w) ==
    /\ caps[w] # None
    /\ caps' = [caps EXCEPT ![w] = None]
    /\ UNCHANGED route

Init == caps = [w \in Workers |-> None] /\ route \in Routes

Next == \E w \in Workers : Disconnect(w) \/ \E c \in Advertised : ConnectWorker(w, c) \/ replaceWorkerCapabilities(w, c)

Spec == Init /\ [][Next]_vars

-----------------------------------------------------------------------------
(* The answers                                                             *)

routeNeedsEgressAwareWorker(r) == r.decision \/ r.provider = "remote" \/ r.external

MinimumCapacity(r) == IF r.min <= 0 THEN 1 ELSE r.min

\* The last look, at one worker.
workerCapabilitiesSupportRoute(c, r) ==
    /\ routeNeedsEgressAwareWorker(r) => c.egress >= EgressVersion
    /\ c.team >= r.team
    /\ r.agent \in c.agents
    /\ IF r.external THEN r.credential \in c.credentials /\ r.context <= 0
       ELSE c.models[r.provider] # Absent /\ (r.context > 0 => c.models[r.provider] >= r.context)
    /\ r.requested \subseteq c.tools /\ r.selected \subseteq c.tools
    /\ c.max >= MinimumCapacity(r)

\* The claim: destinations first, then the filters every job passes.
claimRoutingFilterSQL(c, r) ==
    LET aware == c.egress >= EgressVersion
    IN /\ r.agent \in c.agents
       /\ IF r.external THEN aware /\ r.credential \in c.credentials /\ r.context <= 0
          ELSE /\ r.provider = "remote" => aware
               /\ c.models[r.provider] # Absent /\ r.context <= c.models[r.provider]
       /\ MinimumCapacity(r) <= c.max /\ r.team <= c.team
       /\ ~aware => ~r.decision
       /\ (r.requested \union r.selected) \subseteq c.tools

filterRoutingCandidates(S, Matches(_)) == {w \in S : Matches(caps[w])}


NamedModel(S, r) ==
    filterRoutingCandidates(S, LAMBDA c : c.models[r.provider] # Absent /\ c.models[r.provider] >= r.context)

\* The scan narrows the live workers requirement by requirement, and names the
\* first one that leaves none.
ValidateRouting(r) ==
    LET agent    == filterRoutingCandidates(Live, LAMBDA c : r.agent \in c.agents)
        egress   == IF routeNeedsEgressAwareWorker(r)
                    THEN filterRoutingCandidates(agent, LAMBDA c : c.egress >= EgressVersion) ELSE agent
        team     == IF r.team > 0 THEN filterRoutingCandidates(egress, LAMBDA c : c.team >= r.team) ELSE egress
        provider == IF r.external THEN filterRoutingCandidates(team, LAMBDA c : r.credential \in c.credentials)
                    ELSE filterRoutingCandidates(team, LAMBDA c : c.models[r.provider] # Absent)
        context  == IF r.context <= 0 THEN provider
                    ELSE IF r.external THEN {} ELSE NamedModel(provider, r)
        tools    == filterRoutingCandidates(context, LAMBDA c : (r.requested \union r.selected) \subseteq c.tools)
        capacity == filterRoutingCandidates(tools, LAMBDA c : c.max >= MinimumCapacity(r))
    IN IF agent = {} THEN "agent" ELSE IF egress = {} \/ team = {} THEN "provider"
       ELSE IF provider = {} THEN (IF r.external THEN "credential" ELSE "provider")
       ELSE IF context = {} THEN "context" ELSE IF tools = {} THEN "tool"
       ELSE IF capacity = {} THEN "capacity" ELSE "routable"

\* The tools common to all workers that could serve the route without any.
EgressToolNames(r) ==
    LET S == filterRoutingCandidates(Live, LAMBDA c :
                 /\ r.agent \in c.agents
                 /\ routeNeedsEgressAwareWorker(r) => c.egress >= EgressVersion
                 /\ c.team >= r.team
                 /\ IF r.external THEN r.credential \in c.credentials
                    ELSE c.models[r.provider] # Absent /\ (r.context > 0 => c.models[r.provider] >= r.context)
                 /\ r.requested \subseteq c.tools
                 /\ c.max >= MinimumCapacity(r))
    IN {t \in UNION {caps[w].tools : w \in S} : \A w \in S : t \in caps[w].tools}

-----------------------------------------------------------------------------
(* Properties                                                              *)

\* Only decoded snapshots are registered: each live worker could serve some
\* route.
TypeOK ==
    /\ route \in Routes
    /\ \A w \in Live : \/ caps[w].credentials # {}
                       \/ \E p \in DOMAIN caps[w].models : caps[w].models[p] \in Nat

\* The scan calls a run unroutable exactly when no live worker would be given
\* it: a run is neither reported lost while a worker may claim it, nor left in
\* silence while none can.
ScanAgreesWithClaim == (ValidateRouting(route) = "routable") <=> \E w \in Live : claimRoutingFilterSQL(caps[w], route)

\* An assignment claimed for a worker is not turned away at the send, unless
\* the worker changed in between.
ClaimAgreesWithSend ==
    \A w \in Live : claimRoutingFilterSQL(caps[w], route) <=> workerCapabilitiesSupportRoute(caps[w], route)

\* Selecting from the tools on offer never costs a run a worker it had.
OfferedToolsKeepWorkers ==
    \A w \in Live : workerCapabilitiesSupportRoute(caps[w], [route EXCEPT !.selected = {}])
        => workerCapabilitiesSupportRoute(caps[w], [route EXCEPT !.selected = EgressToolNames(route)])

=============================================================================
