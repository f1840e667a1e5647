---------------------------- MODULE McpRegistry ----------------------------
(***************************************************************************)
(* The registry of third-party tool servers: the rows the orchestrator     *)
(* keeps (mcp_servers, tools, mcp_import_tombstones), the requests that    *)
(* change them, the import of mcp.json, and the workers that learn of the  *)
(* tools from it.  A repository transaction is one action; a request that  *)
(* goes on after its transaction owes the workers a notification, and may  *)
(* be overtaken before it pays.  Bundled servers are left out: the names   *)
(* of their tools are refused to every other server.                       *)
(***************************************************************************)
EXTENDS Naturals, FiniteSets

CONSTANTS
    Names,      \* server names, numbered in the order an import sorts them
    Tools,      \* tool names
    Workers,    \* runtime workers
    Legacy,     \* names that begin as migrated placeholders, without endpoint
    MaxServers, \* MaxNonBundledMCPServers
    Budget,     \* MaxThirdPartyMCPRegistryToolBytes, in tools
    MaxOps,     \* requests explored
    MaxDrops    \* worker streams lost

VARIABLES
    server,   \* mcp_servers: id (0: no row), whether it has a url, enabled
    row,      \* tools, by server and tool name
    tomb,     \* mcp_import_tombstones
    disc,     \* the id an enabling request is discovering, 0 for none
    imp,      \* the import of mcp.json under way
    owed,     \* committed changes whose notification is still to come
    toolset,  \* what the orchestrator holds of each worker's tools
    wk,       \* the worker's side of the conversation
    ops,      \* requests made
    drops,    \* worker streams lost
    choice    \* history: the policy the operator last gave a tool

store == <<server, row, tomb, choice>>
workersVars == <<toolset, wk, drops>>
vars == <<server, row, tomb, disc, imp, owed, toolset, wk, ops, drops, choice>>

Absent == [id |-> 0, url |-> FALSE, on |-> FALSE]
NoRow == [policy |-> "none", present |-> FALSE, enabled |-> FALSE]
Keys == Names \X Tools
IdleImport == [pc |-> "idle", todo |-> {}, list |-> [n \in Names |-> {}], any |-> FALSE]

EnabledKeys == {k \in Keys : row[k[1]][k[2]].enabled}

Init ==
    /\ server = [n \in Names |-> IF n \in Legacy THEN [Absent EXCEPT !.id = n] ELSE Absent]
    /\ row \in [Names -> [Tools -> {NoRow, [NoRow EXCEPT !.policy = "disabled"]}]]
    /\ \A n \in Names \ Legacy, t \in Tools : row[n][t] = NoRow
    /\ tomb = {} /\ disc = [n \in Names |-> 0] /\ imp = IdleImport
    /\ owed = 0 /\ ops = 0 /\ drops = 0
    /\ toolset = [w \in Workers |-> {}]
    /\ wk = [w \in Workers |-> [pc |-> "idle", adv |-> {}, cache |-> {}, known |-> TRUE,
                                pending |-> FALSE]]
    /\ choice = [n \in Names |-> [t \in Tools |-> row[n][t].policy]]

(* Identifiers are fresh: a registered name never gets an old one back. *)
FreshId(n) == Cardinality(Names) + n + (ops + 1) * (Cardinality(Names) + 1)

Act == ops < MaxOps /\ ops' = ops + 1

(* replaceServerToolsTx: every tool of the server is withdrawn, the ones   *)
(* supplied are confirmed, and a policy already chosen is kept.            *)
Confirmed(old, on) ==
    LET policy == IF old = NoRow THEN "safe" ELSE old.policy
    IN [policy |-> policy, present |-> TRUE, enabled |-> on /\ policy # "disabled"]

Withdrawn(old) == [old EXCEPT !.present = FALSE, !.enabled = FALSE]

Replaced(n, list, on) ==
    [row EXCEPT ![n] = [t \in Tools |->
        IF t \in list THEN Confirmed(row[n][t], on) ELSE Withdrawn(row[n][t])]]


Collides(n, list) ==
    \E m \in Names \ {n}, t \in list : row[m][t].present

(* Withdrawn rows count too: ListMcpServers still returns them. *)
OverBudget(rows) ==
    Cardinality({k \in Keys : rows[k[1]][k[2]] # NoRow}) > Budget

Acceptable(n, list, on) == ~Collides(n, list) /\ ~OverBudget(Replaced(n, list, on))

Full == Cardinality({n \in Names : server[n].id # 0}) >= MaxServers

(***************************************************************************)
(* The requests.                                                           *)
(***************************************************************************)

(* RegisterMcpServer: an explicit registration clears the tombstone, takes *)
(* over a placeholder with its tools withdrawn, and always starts disabled.*)
RegisterMcpServer(n) ==
    /\ Act
    /\ ~server[n].url
    /\ \/ /\ server[n].id = 0 /\ ~Full
          /\ server' = [server EXCEPT ![n] = [id |-> FreshId(n), url |-> TRUE, on |-> FALSE]]
          /\ tomb' = tomb \ {n}
          /\ UNCHANGED row
       \/ /\ server[n].id # 0 /\ Acceptable(n, {}, FALSE)
          /\ server' = [server EXCEPT ![n].url = TRUE, ![n].on = FALSE]
          /\ row' = Replaced(n, {}, FALSE)
          /\ UNCHANGED tomb
    /\ owed' = owed + 1
    /\ UNCHANGED <<disc, imp, workersVars, choice>>

(* SetMCPServerEnabled: the bit, and the same for the server's tools. *)
Switched(n, on) ==
    [row EXCEPT ![n] = [t \in Tools |-> [row[n][t] EXCEPT
        !.enabled = on /\ row[n][t].present /\ row[n][t].policy # "disabled"]]]

(* SetMcpServerEnabled(false): status and notification follow at once. *)
DisableMcpServer(n) ==
    /\ Act
    /\ server[n].url
    /\ server' = [server EXCEPT ![n].on = FALSE]
    /\ row' = Switched(n, FALSE)
    /\ owed' = owed + 1
    /\ UNCHANGED <<tomb, choice, disc, imp, workersVars>>

(* SetMcpServerEnabled(true): committed first, then the peer is asked.     *)
(* Bound: one discovery at a time per server.                              *)
EnableMcpServer(n) ==
    /\ Act
    /\ server[n].url /\ disc[n] = 0
    /\ server' = [server EXCEPT ![n].on = TRUE]
    /\ row' = Switched(n, TRUE)
    /\ disc' = [disc EXCEPT ![n] = server[n].id]
    /\ UNCHANGED <<tomb, choice, imp, owed, workersVars>>

(* RecordDiscovery reads the server again inside its transaction. *)
Recorded(n, list) == Replaced(n, list, server[n].on)

(* discover, discoverLocked: the peer's list is recorded unless the server *)
(* has gone, a name collides or the budget is spent; the request then goes *)
(* on to notify, whatever came of it.                                      *)
DiscoveryEnds(n, list) ==
    /\ disc[n] # 0
    /\ IF server[n].id = disc[n] /\ Acceptable(n, list, server[n].on)
       THEN row' = Recorded(n, list)
       ELSE UNCHANGED row
    /\ disc' = [disc EXCEPT ![n] = 0]
    /\ owed' = owed + 1
    /\ UNCHANGED <<server, tomb, choice, imp, workersVars, ops>>

(* The peer does not answer, or answers with what discover refuses. *)
DiscoveryFails(n) ==
    /\ disc[n] # 0
    /\ disc' = [disc EXCEPT ![n] = 0]
    /\ owed' = owed + 1
    /\ UNCHANGED <<store, imp, workersVars, ops>>

PolicyEnabled(n, t, policy) ==
    policy # "disabled" /\ row[n][t].present /\ server[n].on

(* UpdateMcpToolPolicy, UpdateToolPolicyByName *)
UpdateMcpToolPolicy(n, t, policy) ==
    /\ Act
    /\ row[n][t] # NoRow
    /\ row' = [row EXCEPT ![n][t].policy = policy,
                          ![n][t].enabled = PolicyEnabled(n, t, policy)]
    /\ choice' = [choice EXCEPT ![n][t] = policy]
    /\ owed' = owed + 1
    /\ UNCHANGED <<server, tomb, disc, imp, workersVars>>

(* tools.mcp_server_id ON DELETE CASCADE *)
DeletedTools(n) == [row EXCEPT ![n] = [t \in Tools |-> NoRow]]

(* DeleteMcpServer: the tombstone and the row in one transaction; the      *)
(* tools go with the row.                                                  *)
DeleteMcpServer(n) ==
    /\ Act
    /\ server[n].id # 0
    /\ server' = [server EXCEPT ![n] = Absent]
    /\ row' = DeletedTools(n)
    /\ tomb' = tomb \cup {n}
    /\ choice' = [choice EXCEPT ![n] = [t \in Tools |-> "none"]]
    /\ owed' = owed + 1
    /\ UNCHANGED <<disc, imp, workersVars>>

(***************************************************************************)
(* ReimportMcpJson: the entries of the file, in order of name.             *)
(***************************************************************************)
StartImport(entries, list) ==
    /\ Act
    /\ imp.pc = "idle" /\ entries # {}
    /\ imp' = [pc |-> "look", todo |-> entries, list |-> list, any |-> FALSE]
    /\ UNCHANGED <<store, disc, owed, workersVars>>

Entry == CHOOSE n \in imp.todo : \A m \in imp.todo : n <= m

NextEntry(any) == [imp EXCEPT !.pc = "look", !.todo = @ \ {Entry}, !.any = @ \/ any]

(* ImportJSON looks before it builds the entry's tools and its token: a    *)
(* server that is there is skipped, a tombstoned one refused.              *)
ImportLooks ==
    /\ imp.pc = "look" /\ imp.todo # {}
    /\ imp' = IF server[Entry].url \/ (server[Entry].id = 0 /\ Entry \in tomb)
              THEN NextEntry(FALSE)
              ELSE [imp EXCEPT !.pc = "tx"]
    /\ UNCHANGED <<store, disc, owed, workersVars, ops>>

Suppressed(n) == n \in tomb

Kept(n) == server[n].url

(* ImportMCPServer: every condition again inside the transaction; a        *)
(* collision or a spent budget rolls the row back with its tools.          *)
ImportMCPServer ==
    LET n == Entry
        accepted == /\ ~Suppressed(n) /\ ~Kept(n)
                    /\ server[n].id = 0 => ~Full
                    /\ Acceptable(n, imp.list[n], FALSE)
    IN /\ imp.pc = "tx"
       /\ imp' = NextEntry(accepted)
       /\ IF accepted
          THEN /\ server' = [server EXCEPT ![n] =
                     [id |-> IF server[n].id # 0 THEN server[n].id ELSE FreshId(n),
                      url |-> TRUE, on |-> FALSE]]
               /\ row' = Replaced(n, imp.list[n], FALSE)
          ELSE UNCHANGED <<server, row>>
       /\ UNCHANGED <<tomb, choice, disc, owed, workersVars, ops>>

(* The report: workers are told only when something was imported. *)
ImportEnds ==
    /\ imp.pc = "look" /\ imp.todo = {}
    /\ imp' = IdleImport
    /\ owed' = IF imp.any THEN owed + 1 ELSE owed
    /\ UNCHANGED <<store, disc, workersVars, ops>>

(***************************************************************************)
(* The workers.                                                            *)
(***************************************************************************)

(* The worker registers, or replaces what it advertised, while it holds    *)
(* registryMu for reading.                                                 *)
HoldsRegistry(w) == wk[w].pc \in {"joining", "replacing"}

Registered(w) == wk[w].pc \in {"joining", "idle", "refresh", "report", "replacing"}


(* scheduleMCPRegistryRefresh: one refresh at a time, one more remembered. *)
Scheduled(w) == TRUE

(* registryMu, taken for writing *)
RegistryFree == \A w \in Workers : ~HoldsRegistry(w)

(* NotifyMCPRegistryChanged: what is not enabled is taken out of every     *)
(* worker's tools at once, and each worker is told to look again.          *)
NotifyMCPRegistryChanged ==
    /\ owed > 0
    /\ RegistryFree
    /\ owed' = owed - 1
    /\ toolset' = [w \in Workers |-> toolset[w] \cap EnabledKeys]
    /\ wk' = [w \in Workers |-> IF Registered(w)
                                THEN [wk[w] EXCEPT !.pending = Scheduled(w)] ELSE wk[w]]
    /\ UNCHANGED <<store, disc, imp, ops, drops>>

(* MCPToolAvailable *)
Available(k) ==
    /\ server[k[1]].on
    /\ row[k[1]][k[2]].policy # "disabled" /\ row[k[1]][k[2]].present

(* UpsertTools: what the workers advertise is confirmed for every server   *)
(* that is enabled.                                                        *)
Upserted(union) ==
    [n \in Names |-> [t \in Tools |->
        IF <<n, t>> \in union /\ server[n].on THEN Confirmed(row[n][t], TRUE) ELSE row[n][t]]]

unionToolsets(sets) == UNION {sets[w] : w \in Workers}

(* A worker connects with the tools it knows, discovered now or before. *)
ConnectWorker(w) ==
    /\ wk[w].pc = "off"
    /\ LET known == IF wk[w].known THEN wk[w].cache ELSE EnabledKeys
       IN wk' = [wk EXCEPT ![w] = [pc |-> "ready", adv |-> known, cache |-> known,
                                   known |-> TRUE, pending |-> FALSE]]
    /\ UNCHANGED <<store, disc, imp, owed, ops, toolset, drops>>

(* filterRegisteredWorkerTools, on registration and on every update *)
FilterTools(w) ==
    /\ wk[w].pc \in {"ready", "report"}
    /\ wk' = [wk EXCEPT ![w].pc = IF @ = "ready" THEN "joining" ELSE "replacing",
                        ![w].adv = {k \in wk[w].adv : Available(k)}]
    /\ UNCHANGED <<store, disc, imp, owed, ops, toolset, drops>>

(* persistDiscoveredTools *)
PersistTools(w) ==
    /\ HoldsRegistry(w)
    /\ toolset' = [toolset EXCEPT ![w] = wk[w].adv]
    /\ row' = Upserted(unionToolsets(toolset'))
    /\ wk' = [wk EXCEPT ![w].pc = "idle"]
    /\ UNCHANGED <<server, tomb, choice, disc, imp, owed, ops, drops>>

(* refreshMCPRegistry: the cache is dropped, then the registry read. *)
StartRefresh(w) ==
    /\ wk[w].pc = "idle" /\ wk[w].pending
    /\ wk' = [wk EXCEPT ![w].pc = "refresh", ![w].pending = FALSE, ![w].known = FALSE]
    /\ UNCHANGED <<store, disc, imp, owed, ops, toolset, drops>>

ReadRegistry(w) ==
    /\ wk[w].pc = "refresh"
    /\ wk' = [wk EXCEPT ![w].pc = "report", ![w].known = TRUE,
                        ![w].cache = EnabledKeys, ![w].adv = EnabledKeys]
    /\ UNCHANGED <<store, disc, imp, owed, ops, toolset, drops>>

(* The stream ends: removeDiscoveredTools takes the worker's tools out. *)
StreamLost(w) ==
    /\ drops < MaxDrops /\ drops' = drops + 1
    /\ wk[w].pc \in {"idle", "refresh", "report"}
    /\ wk' = [wk EXCEPT ![w].pc = "off", ![w].pending = FALSE]
    /\ toolset' = [toolset EXCEPT ![w] = {}]
    /\ row' = Upserted(unionToolsets(toolset'))
    /\ UNCHANGED <<server, tomb, choice, disc, imp, owed, ops>>

Request ==
    \/ \E n \in Names :
        RegisterMcpServer(n) \/ EnableMcpServer(n) \/ DisableMcpServer(n) \/ DeleteMcpServer(n)
    \/ \E n \in Names, t \in Tools, p \in {"safe", "disabled"} : UpdateMcpToolPolicy(n, t, p)
    \/ \E e \in SUBSET Names, l \in [Names -> SUBSET Tools] :
        (\A n \in Names \ e : l[n] = {}) /\ StartImport(e, l)

Background ==
    \/ \E n \in Names : (\E list \in SUBSET Tools : DiscoveryEnds(n, list)) \/ DiscoveryFails(n)
    \/ ImportLooks \/ ImportMCPServer \/ ImportEnds \/ NotifyMCPRegistryChanged

Worker(w) ==
    ConnectWorker(w) \/ FilterTools(w) \/ PersistTools(w) \/ StartRefresh(w) \/ ReadRegistry(w)

Next == Request \/ Background \/ (\E w \in Workers : Worker(w) \/ StreamLost(w))

(* Every request runs to its end and every connected worker keeps serving  *)
(* its stream; nobody is obliged to make a request.                        *)
Fairness ==
  /\ WF_vars(Background)
  /\ \A w \in Workers : WF_vars(Worker(w))

Spec == Init /\ [][Next]_vars

(***************************************************************************)
(* Properties.                                                             *)
(***************************************************************************)
Rows == [policy : {"none", "safe", "disabled"}, present : BOOLEAN, enabled : BOOLEAN]

(* The rows have their columns: a tool row only while its server has one,  *)
(* nothing enabled without a row.                                          *)
TypeOK ==
    /\ server \in [Names -> [id : Nat, url : BOOLEAN, on : BOOLEAN]]
    /\ row \in [Names -> [Tools -> Rows]]
    /\ tomb \subseteq Names
    /\ \A n \in Names, t \in Tools : server[n].id = 0 => row[n][t] = NoRow
    /\ \A w \in Workers : toolset[w] \subseteq Keys /\ wk[w].adv \subseteq Keys

(* A tool that is enabled is one its enabled server has confirmed and its  *)
(* operator has not disabled, whichever of enabling, discovery, policy,    *)
(* import and advertisement came last (tools.enabled is what               *)
(* ListEnabledTools and the dispatch check read).                          *)
EnabledToolIsCallable ==
    \A n \in Names, t \in Tools : row[n][t].enabled =>
        server[n].on /\ row[n][t].present /\ row[n][t].policy # "disabled"

(* A server the user removed does not come back through mcp.json: a name   *)
(* is never both tombstoned and registered, even when the removal falls    *)
(* between an import's look and its transaction.                           *)
SuppressedStaysOut == \A n \in tomb : server[n].id = 0

(* No tool name is present under two servers; the runtime refuses its      *)
(* whole registry when one is (BuildToolRegistry).                         *)
OneOwner ==
    \A m, n \in Names, t \in Tools : row[m][t].present /\ row[n][t].present => m = n

(* Third-party rows, withdrawn ones included, stay within their half of    *)
(* the registry's budget.                                                  *)
ThirdPartyShare == Cardinality({k \in Keys : row[k[1]][k[2]] # NoRow}) <= Budget

(* The policy an operator gave a tool holds until the operator changes it  *)
(* or the server is deleted: withdrawal, adoption and rediscovery keep it. *)
OperatorPolicyKept ==
    \A n \in Names, t \in Tools :
        choice[n][t] # "none" => row[n][t].policy = choice[n][t]

(* An import never touches a server that already has an endpoint, even one *)
(* registered and enabled between the import's look and its transaction.   *)
ImportKeepsServers ==
    [][imp.pc = "tx" /\ imp'.pc # "tx" =>
        \A n \in DOMAIN server : server[n].url => server'[n] = server[n] /\ row'[n] = row[n]]_vars

(* When no change is still to be announced, no worker is held to have a    *)
(* tool that is not enabled, although a registration may have looked at    *)
(* the registry before the change and stored its tools after it.           *)
RevokedIsWithdrawn ==
    owed = 0 => \A w \in Workers : toolset[w] \subseteq EnabledKeys

(* Once the registry is left alone, the orchestrator holds for every       *)
(* connected worker exactly the enabled tools: no change is missed by the  *)
(* notification, the coalesced refresh and the update that answers it.     *)
Converged == \A w \in Workers : toolset[w] = EnabledKeys
WorkersConverge == <>[]Converged
=============================================================================
