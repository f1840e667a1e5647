------------------------------- MODULE MCTools ------------------------------
(***************************************************************************)
(* Small instances of the components between a tool call and its effect,   *)
(* side by side: the decision on an approval, the registry of tool servers *)
(* and the credentials and the connection it uses, the files a call writes *)
(* or searches, and the removal of a chat's files. A behaviour is one      *)
(* component's.                                                            *)
(***************************************************************************)
EXTENDS ApprovalPreview, Sequences, TLC

CONSTANTS
  Parts,  \* the components the run explores
  NoSession, NoCall, chat, output, scratch, note, va, vb, old, c1, c2, c3, p1, p2, p3, t1, t2,
  w1

VARIABLES
  part,  \* the component that takes the steps of a behaviour
  server, registryRow, tomb, disc, imp, owed, toolset, wk, ops, drops, choice,
  current, ids, fenceToken, fenceStatus, about, locks, obj, proc,
  conn, gate, caller, notices, live, announced, opened, seen, unheard, deleted, ran, reqs, lost,
  peerFaults,
  writeSession, writeDisk, dirs, stage, writeRow, approval, binding, call, holder, used, sweep,
  tree, op, limit, todo, cur, pos, left, found, n, pc,
  filesRow, executing, overdue, receipt, retained, audits, entry, bound, filesDisk, writer,
  writes, proposals, cites, driver, filesFaults

\* One run creates and updates, a later run updates the file it finds.
ChainRun == (c1 :> 1) @@ (c2 :> 1) @@ (c3 :> 2)
ChainOp == (c1 :> "create") @@ (c2 :> "update") @@ (c3 :> "update")
ChainAfter == (c1 :> va) @@ (c2 :> vb) @@ (c3 :> va)

\* Two runs each write a file of their own, a third call reads.
ApartRun == (c1 :> 1) @@ (c2 :> 2) @@ (c3 :> 1)
ApartOp == (c1 :> "create") @@ (c2 :> "create") @@ (c3 :> "read")

\* Trees of two directories: the root with up to three entries, one below it.
Entry(k, ok, size, text, hit) == [kind |-> k, ok |-> ok, to |-> 2, size |-> size, text |-> text, hit |-> hit]
Pool == {Entry("file", TRUE, 1, TRUE, TRUE), Entry("file", TRUE, 2, TRUE, TRUE), Entry("file", TRUE, 3, TRUE, TRUE),
         Entry("file", TRUE, 1, FALSE, TRUE), Entry("file", FALSE, 1, TRUE, TRUE), Entry("staging", TRUE, 0, TRUE, TRUE)}
Below == Entry("dir", TRUE, 0, TRUE, FALSE)
Lists(S, k) == UNION {[1..m -> S] : m \in 0..k}
Dir(opens, breaks, entries) == [opens |-> opens, breaks |-> breaks, entries |-> entries]
EmptyTree == <<Dir(TRUE, FALSE, <<>>), Dir(TRUE, FALSE, <<>>)>>
AllTrees ==
  {<<Dir(TRUE, x[1], x[2]), Dir(x[3], FALSE, x[4])>> :
     x \in BOOLEAN
           \X {s \in Lists(Pool \cup {Below, Entry("link", TRUE, 0, TRUE, FALSE)}, 3) :
                 Cardinality({i \in DOMAIN s : s[i] = Below}) <= 1}
           \X BOOLEAN \X Lists(Pool, 1)}

\* A chat with a file of every kind.
ChatParent == [s \in {chat} |-> NoSession]
ChatOwner == [f \in {output, scratch, note} |-> chat]
ChatKind == [f \in {output, scratch, note} |-> CASE f = output -> "owned" [] f = scratch -> "legacy" [] OTHER -> "note"]

\* A worker that stays connected.
Connected == INSTANCE McpRegistry WITH
  Names <- {1}, Tools <- {t1}, Workers <- {w1}, Legacy <- {1}, MaxServers <- 1, Budget <- 2,
  MaxOps <- 2, MaxDrops <- 0, row <- registryRow
Registry == INSTANCE McpRegistry WITH
  Names <- {1, 2}, Tools <- {t1, t2}, Workers <- {}, Legacy <- {1}, MaxServers <- 2,
  Budget <- 3, MaxOps <- 3, MaxDrops <- 0, row <- registryRow
\* A worker that may lose its stream.
Drops == INSTANCE McpRegistry WITH
  Names <- {1}, Tools <- {t1}, Workers <- {w1}, Legacy <- {1}, MaxServers <- 1, Budget <- 2,
  MaxOps <- 3, MaxDrops <- 1, row <- registryRow
\* A rotation among calls.
Rotation == INSTANCE McpCredentials WITH
  Procs <- {p1, p2, p3}, MaxIds <- 1, MaxRotations <- 1, Cancels <- FALSE, token <- fenceToken,
  status <- fenceStatus
Fence == INSTANCE McpCredentials WITH
  Procs <- {p1, p2}, MaxIds <- 2, MaxRotations <- 1, Cancels <- TRUE, token <- fenceToken,
  status <- fenceStatus
\* The client made for one operation.
OwnClient == INSTANCE McpConnection WITH
  Callers <- {c1}, Owned <- TRUE, MaxReqs <- 1, MaxLost <- 2, MaxFaults <- 2,
  faults <- peerFaults
\* Writes that follow one another.
Writes == INSTANCE FileWrites WITH
  Calls <- {c1, c2, c3}, RunOf <- ChainRun, Op <- ChainOp, After <- ChainAfter, Runs <- {1, 2},
  RootContent <- old, MaxAttempts <- 1, MaxFaults <- 1, MaxInterrupts <- 0, MaxCrashes <- 0,
  session <- writeSession, disk <- writeDisk, row <- writeRow
\* Writes of two runs and a read, with a crash.
Apart == INSTANCE FileWrites WITH
  Calls <- {c1, c2, c3}, RunOf <- ApartRun, Op <- ApartOp, After <- ChainAfter, Runs <- {1, 2},
  RootContent <- old, MaxAttempts <- 1, MaxFaults <- 0, MaxInterrupts <- 1, MaxCrashes <- 1,
  session <- writeSession, disk <- writeDisk, row <- writeRow
\* One run creates what a later run updates.
Pair == INSTANCE FileWrites WITH
  Calls <- {c1, c2}, RunOf <- ApartRun, Op <- ChainOp, After <- ChainAfter, Runs <- {1, 2},
  RootContent <- old, MaxAttempts <- 1, MaxFaults <- 1, MaxInterrupts <- 0, MaxCrashes <- 0,
  session <- writeSession, disk <- writeDisk, row <- writeRow
Search == INSTANCE FileSearch WITH
  Trees <- AllTrees, Root <- 1, NoDir <- 0, Batch <- 2, Limits <- {1, 3}, MaxEntries <- 5,
  MaxFiles <- 3, MaxBytes <- 4, MaxFileBytes <- 2, MaxJson <- 2, MaxDetails <- 1
ChatFiles == INSTANCE SessionWithdrawal WITH
  Sessions <- {chat}, Parent <- ChatParent, Files <- {output, scratch, note},
  Owner <- ChatOwner, Kind <- ChatKind, Drivers <- {va}, MaxWrites <- 1, MaxFaults <- 1,
  LateWrites <- FALSE, row <- filesRow, disk <- filesDisk, faults <- filesFaults
\* Files that are written twice.
TwoWrites == INSTANCE SessionWithdrawal WITH
  Sessions <- {chat}, Parent <- ChatParent, Files <- {output, scratch, note},
  Owner <- ChatOwner, Kind <- ChatKind, Drivers <- {va}, MaxWrites <- 2, MaxFaults <- 1,
  LateWrites <- FALSE, row <- filesRow, disk <- filesDisk, faults <- filesFaults

registryVars == <<server, registryRow, tomb, disc, imp, owed, toolset, wk, ops, drops, choice>>
fenceVars == <<current, ids, fenceToken, fenceStatus, about, locks, obj, proc>>
peerVars == <<conn, gate, caller, notices, live, announced, opened, seen, unheard, deleted, ran,
              reqs, lost, peerFaults>>
writeVars == <<writeSession, writeDisk, dirs, stage, writeRow, approval, binding, call, holder,
               used, sweep>>
walkVars == <<tree, op, limit, todo, cur, pos, left, found, n, pc>>
filesVars == <<filesRow, executing, overdue, receipt, retained, audits, entry, bound, filesDisk,
               writer, writes, proposals, cites, driver, filesFaults>>

\* A behaviour is a behaviour of one component, from any of its initial states.
\* The others rest in one of theirs.
InitPart ==
  /\ part \in Parts
  /\ Init
  /\ IF part \in {"workers", "registry", "drops"} THEN TRUE ELSE registryRow = [x \in {1} |-> [t \in {t1} |-> Registry!NoRow]]
  /\ CASE part = "registry" -> Registry!Init
       [] part = "drops" -> Drops!Init
       [] OTHER -> Connected!Init
  /\ CASE part = "credentials" -> Fence!Init
       [] OTHER -> Rotation!Init
  /\ OwnClient!Init
  /\ CASE part = "apart" -> Apart!Init
       [] part = "pair" -> Pair!Init
       [] OTHER -> Writes!Init
  /\ IF part = "search" THEN TRUE ELSE tree = EmptyTree /\ op = "list" /\ limit = 1
  /\ Search!Init
  /\ CASE part = "rewrite" -> TwoWrites!Init
       [] OTHER -> ChatFiles!Init

NextPart ==
  /\ UNCHANGED part
  /\ IF part = "approval" THEN Next ELSE UNCHANGED vars
  /\ CASE part = "workers" -> Connected!Next
       [] part = "registry" -> Registry!Next
       [] part = "drops" -> Drops!Next
       [] OTHER -> UNCHANGED registryVars
  /\ CASE part = "rotation" -> Rotation!Next
       [] part = "credentials" -> Fence!Next
       [] OTHER -> UNCHANGED fenceVars
  /\ IF part = "owned" THEN OwnClient!Next ELSE UNCHANGED peerVars
  /\ CASE part = "writes" -> Writes!Next
       [] part = "apart" -> Apart!Next
       [] part = "pair" -> Pair!Next
       [] OTHER -> UNCHANGED writeVars
  /\ IF part = "search" THEN Search!Next ELSE UNCHANGED walkVars
  /\ CASE part = "files" -> ChatFiles!Next
       [] part = "rewrite" -> TwoWrites!Next
       [] OTHER -> UNCHANGED filesVars

partVars == <<part, vars, registryVars, fenceVars, peerVars, writeVars, walkVars, filesVars>>
SpecPart == InitPart /\ [][NextPart]_partVars

\* Each component's own fairness (its Fairness), asked of the behaviours that are
\* its own: a guarded action is never enabled in the others.
FairPart ==
  /\ SpecPart
  /\ WF_registryVars(part = "workers" /\ Connected!Background)
  /\ \A w \in {w1} : WF_registryVars(part = "workers" /\ Connected!Worker(w))
  /\ \A p \in {p1, p2, p3} : WF_fenceVars(part = "rotation" /\ Rotation!Step(p))
  /\ \A c \in {c1} : WF_peerVars(part = "owned" /\ OwnClient!Step(c))
  /\ \A c \in {c1, c2} : WF_writeVars(part = "pair" /\ Pair!Step(c))
  /\ WF_writeVars(part = "pair" /\ Pair!Sweep)

-----------------------------------------------------------------------------

\* A file of the session on disk is named by a manifest row, so that the
\* withdrawal cannot complete over a file nothing accounts for. (A legacy file
\* outlives its row, and is counted instead.)
RewrittenStayTracked == part = "rewrite" => TwoWrites!FilesTracked


\* McpCredentials and McpConnection: a request uses the token and the session it
\* was given, and gives them back in order.
\*  - No call or discovery is on the wire with a token that has been rotated
\*    away, whatever removals and new locks happen around it.
\*  - A liveness status is always about the token in the row: the answer to an
\*    old token never overwrites the reset a rotation made.
\*  - A cancellation never names a session that this client has released.
CredentialsFenced ==
  /\ part = "credentials" =>
       /\ Fence!TypeOK
       /\ Fence!FencedToken
       /\ Fence!StatusOfCurrentToken
  /\ part = "owned" => OwnClient!TypeOK /\ OwnClient!CancelBeforeRelease



=============================================================================
