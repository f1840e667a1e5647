--------------------------- MODULE McpCredentials ---------------------------
(***************************************************************************)
(* The credential fence of the tool registry: one read-write lock per      *)
(* server, made on demand in a map, taken for reading by every call and    *)
(* discovery that uses the server's token and for writing by the rotation  *)
(* that replaces it.  Removing a server removes its lock, while requests   *)
(* that still hold or are about to make one are under way.                 *)
(***************************************************************************)
EXTENDS Naturals, FiniteSets, Sequences, FiniteSetTheorems, SequenceTheorems, TLAPS

CONSTANTS
    Procs,         \* request goroutines
    MaxIds,        \* servers registered, one after another
    MaxRotations,  \* tokens issued after the first
    Cancels        \* whether a caller may give up while its request reads

VARIABLES
    current,  \* the id of the registered server, 0 when there is none
    ids,      \* servers registered so far
    token,    \* the token in the server's row
    status,   \* its liveness status
    about,    \* history: the token that status was found with
    locks,    \* credentialLocks: id to lock, 0 for no entry
    obj,      \* the lock objects made: readers, writer, writers waiting
    proc      \* each request: what it does, where it is, what it holds

vars == <<current, ids, token, status, about, locks, obj, proc>>
row == <<current, ids, token, status, about>>

Ids == 1..MaxIds
Idle == [op |-> "none", pc |-> "idle", id |-> 0, lock |-> 0, token |-> 0]
Free == [readers |-> {}, writer |-> {}, waiting |-> <<>>]

Init ==
    /\ current = 1 /\ ids = 1 /\ token = 0 /\ status = "unknown" /\ about = 0
    /\ locks = [i \in Ids |-> 0] /\ obj = <<>>
    /\ proc = [p \in Procs |-> Idle]

At(p, pc) == proc[p].pc = pc
Goto(p, pc) == proc' = [proc EXCEPT ![p].pc = pc]
Gone(p) == proc[p].id # current
Lock(p) == obj[proc[p].lock]

(* A new server under the name: a new id, a token of its own. *)
RegisterMCPServer ==
    /\ current = 0 /\ ids < MaxIds
    /\ ids' = ids + 1 /\ current' = ids + 1
    /\ status' = "unknown"
    /\ UNCHANGED <<token, about, locks, obj, proc>>

(* A request finds its server (and, for a call, passes every check up to   *)
(* MCPDispatchActive): from here it works with the id alone.               *)
StartRequest(p, op) ==
    /\ At(p, "idle") /\ current # 0
    /\ op = "rotate" => token < MaxRotations
    /\ proc' = [proc EXCEPT ![p] = [op |-> op, pc |-> IF op = "delete" THEN "delete" ELSE "lookup",
                                    id |-> current, lock |-> 0, token |-> 0]]
    /\ UNCHANGED <<row, locks, obj>>

(* credentialLock: the entry, made if there is none. *)
credentialLock(p) ==
    /\ At(p, "lookup")
    /\ LET known == locks[proc[p].id]
           made == IF known # 0 THEN known ELSE Len(obj) + 1
       IN /\ locks' = [locks EXCEPT ![proc[p].id] = made]
          /\ LET all == IF known # 0 THEN obj ELSE Append(obj, Free)
             IN obj' = IF proc[p].op = "rotate"
                       THEN [all EXCEPT ![made].waiting = Append(@, p)] ELSE all
          /\ proc' = [proc EXCEPT ![p].lock = made, ![p].pc = "acquire"]
    /\ UNCHANGED row

(* sync.RWMutex: a waiting writer keeps new readers out; writers take      *)
(* turns (the mutex among them hands over in order once one has waited).   *)
Readable(l) == l.writer = {} /\ l.waiting = <<>>

(* Fault: a discovery uses the token without the lock. *)
FaultyRLock(p) ==
    /\ At(p, "acquire") /\ proc[p].op # "rotate"
    /\ proc[p].op = "call" => Readable(Lock(p))
    /\ obj' = IF proc[p].op = "call"
              THEN [obj EXCEPT ![proc[p].lock].readers = @ \cup {p}] ELSE obj
    /\ Goto(p, "read")
    /\ UNCHANGED <<row, locks>>

RLock(p) ==
    /\ At(p, "acquire") /\ proc[p].op # "rotate"
    /\ Readable(Lock(p))
    /\ obj' = [obj EXCEPT ![proc[p].lock].readers = @ \cup {p}]
    /\ Goto(p, "read")
    /\ UNCHANGED <<row, locks>>

WLock(p) ==
    /\ At(p, "acquire") /\ proc[p].op = "rotate"
    /\ Lock(p).readers = {} /\ Lock(p).writer = {}
    /\ Lock(p).waiting # <<>> /\ Head(Lock(p).waiting) = p
    /\ obj' = [obj EXCEPT ![proc[p].lock] =
                  [readers |-> {}, writer |-> {p}, waiting |-> Tail(@.waiting)]]
    /\ Goto(p, "read")
    /\ UNCHANGED <<row, locks>>

(* The deferred unlock, and the end of the request.  The readers that a    *)
(* writer kept waiting are let in before the next writer.                  *)
Done(p) ==
    LET let == {q \in Procs : /\ proc[p].op = "rotate" /\ proc[q].op # "rotate"
                              /\ At(q, "acquire") /\ proc[q].lock = proc[p].lock}
    IN /\ obj' = [obj EXCEPT ![proc[p].lock] =
                     [readers |-> (@.readers \ {p}) \cup let, writer |-> @.writer \ {p},
                      waiting |-> @.waiting]]
       /\ proc' = [q \in Procs |-> IF q = p THEN Idle
                                  ELSE IF q \in let THEN [proc[q] EXCEPT !.pc = "read"]
                                  ELSE proc[q]]

(* forgetCredentialLockIfCurrent: only the very lock this request holds. *)
forgetIfCurrent(p) ==
    IF locks[proc[p].id] = proc[p].lock THEN [locks EXCEPT ![proc[p].id] = 0] ELSE locks

(* GetMCPServer again, under the lock: the server may have gone. *)
Reread(p) ==
    /\ At(p, "read")
    /\ IF Gone(p)
       THEN locks' = forgetIfCurrent(p) /\ Done(p)
       ELSE /\ proc' = [proc EXCEPT ![p].token = token,
                                    ![p].pc = IF proc[p].op = "rotate"
                                              THEN "replace" ELSE "wire"]
            /\ UNCHANGED <<locks, obj>>
    /\ UNCHANGED row

(* The caller gave up: the read fails with its context, not as missing. *)
RereadCancelled(p) ==
    /\ Cancels /\ At(p, "read")
    /\ Done(p)
    /\ UNCHANGED <<row, locks>>

(* The peer answers or fails, and the outcome is recorded, still under the *)
(* lock.  A discovery that finds its server gone drops the entry; a call   *)
(* whose caller gave up records nothing.                                   *)
Answered(p, outcome) ==
    /\ At(p, "wire")
    /\ IF Gone(p)
       THEN /\ locks' = IF proc[p].op = "discover" THEN forgetIfCurrent(p) ELSE locks
            /\ UNCHANGED <<status, about>>
       ELSE /\ IF outcome = "none" THEN UNCHANGED <<status, about>>
               ELSE status' = outcome /\ about' = proc[p].token
            /\ UNCHANGED locks
    /\ outcome = "none" => proc[p].op = "call"
    /\ Done(p)
    /\ UNCHANGED <<current, ids, token>>

ResetStatus == "unknown"

(* ReplaceMCPServerToken: the token and the liveness in one transaction. *)
ReplaceToken(p) ==
    /\ At(p, "replace")
    /\ IF Gone(p) THEN UNCHANGED <<token, status>>
       ELSE token' = token + 1 /\ status' = ResetStatus
    /\ Done(p)
    /\ UNCHANGED <<current, ids, about, locks>>

(* DeleteMcpServer: the row first, then the lock's entry. *)
DeleteRow(p) ==
    /\ At(p, "delete")
    /\ IF Gone(p) THEN proc' = [proc EXCEPT ![p] = Idle] /\ UNCHANGED current
       ELSE current' = 0 /\ Goto(p, "forget")
    /\ UNCHANGED <<ids, token, status, about, locks, obj>>

forgetCredentialLock(p) ==
    /\ At(p, "forget")
    /\ locks' = [locks EXCEPT ![proc[p].id] = 0]
    /\ proc' = [proc EXCEPT ![p] = Idle]
    /\ UNCHANGED <<row, obj>>

Step(p) ==
    \/ credentialLock(p) \/ RLock(p) \/ WLock(p) \/ Reread(p)
    \/ \E o \in {"up", "down", "none"} : Answered(p, o)
    \/ ReplaceToken(p) \/ DeleteRow(p) \/ forgetCredentialLock(p)

Next ==
    \/ RegisterMCPServer
    \/ \E p \in Procs :
        \/ \E op \in {"call", "discover", "rotate", "delete"} : StartRequest(p, op)
        \/ Step(p) \/ RereadCancelled(p)

(* A request in progress goes on: the network call has its own time limit. *)
Fairness == \A p \in Procs : WF_vars(Step(p))

Spec == Init /\ [][Next]_vars

(***************************************************************************)
(* Properties.                                                             *)
(***************************************************************************)

(* Every lock is held by readers or by one writer, and every entry of the  *)
(* map is a lock that was made.                                            *)
TypeOK ==
    /\ current \in 0..MaxIds /\ token \in 0..MaxRotations + Cardinality(Procs)
    /\ \A i \in Ids : locks[i] \in 0..Len(obj)
    /\ \A l \in 1..Len(obj) :
        /\ Cardinality(obj[l].writer) <= 1
        /\ obj[l].writer # {} => obj[l].readers = {}

(* No call or discovery is on the wire with a token that has been rotated  *)
(* away, whatever removals and new locks happen around it.                 *)
FencedToken ==
    \A p \in Procs : At(p, "wire") /\ ~Gone(p) => proc[p].token = token

(* A liveness status is always about the token in the row: the answer to   *)
(* an old token never overwrites the reset a rotation made.                *)
StatusOfCurrentToken == status # "unknown" => about = token

(* A rotation that waits for its lock gets it, although calls keep coming. *)
NoneRotating == \A p \in Procs : proc[p].op # "rotate"
RotationCompletes == []<>NoneRotating

-----------------------------------------------------------------------------
(***************************************************************************)
(* Proofs, for any number of requests, servers and rotations.              *)
(*                                                                         *)
(* That a token on the wire is the server's token does not follow from the *)
(* lock alone: the entry under the server's id could be dropped and made   *)
(* anew, and a reader and a writer would then hold different locks.  Only  *)
(* requests that find the server gone drop an entry, and an id is never    *)
(* used again, so for the registered server every request under way has    *)
(* the lock that the map has (Keeps).                                      *)
(***************************************************************************)
ConstantsOK ==
    /\ IsFiniteSet(Procs)
    /\ MaxIds \in Nat \ {0}
    /\ MaxRotations \in Nat

Ops == {"none", "call", "discover", "rotate", "delete"}
Pcs == {"idle", "lookup", "acquire", "read", "wire", "replace", "delete", "forget"}
Requests == [op : Ops, pc : Pcs, id : 0..MaxIds, lock : Nat, token : Nat]
LockObjects == [readers : SUBSET Procs, writer : SUBSET Procs, waiting : Seq(Procs)]

Typed ==
    /\ ids \in 1..MaxIds /\ current \in 0..ids /\ token \in Nat
    /\ obj \in Seq(LockObjects)
    /\ locks \in [Ids -> 0..Len(obj)]
    /\ proc \in [Procs -> Requests]

\* A lock is held by readers or by one writer.
Exclusive ==
    \A l \in 1..Len(obj) :
        /\ \A p, q \in obj[l].writer : p = q
        /\ obj[l].writer # {} => obj[l].readers = {}

\* What a request has at each of its places: an id that was given out, the lock
\* the map has as long as its server is registered, its side of the lock, and on
\* the wire the token of the row.
Keeps(p) ==
    /\ ~At(p, "idle") => proc[p].id \in 1..ids
    /\ At(p, "forget") => Gone(p)
    /\ proc[p].pc \in {"acquire", "read", "wire", "replace"} =>
          /\ proc[p].lock \in 1..Len(obj)
          /\ Gone(p) \/ locks[proc[p].id] = proc[p].lock
    /\ proc[p].pc \in {"read", "wire"} /\ proc[p].op # "rotate" => p \in Lock(p).readers
    /\ proc[p].pc \in {"read", "replace"} /\ proc[p].op = "rotate" => p \in Lock(p).writer
    /\ At(p, "wire") => proc[p].op # "rotate"
    /\ At(p, "replace") => proc[p].op = "rotate"
    /\ At(p, "wire") /\ ~Gone(p) => proc[p].token = token

\* A rotation is taken up only below the bound, by a request that had none.
Rotating == {p \in Procs : proc[p].op = "rotate"}
Bounded == token + Cardinality(Rotating) <= MaxRotations + Cardinality(Procs)

IInv == Typed /\ Exclusive /\ Bounded /\ StatusOfCurrentToken /\ \A p \in Procs : Keeps(p)

-----------------------------------------------------------------------------
\* The requests that rotate are some of finitely many.
LEMMA RotatingFinite ==
    ASSUME ConstantsOK
    PROVE  /\ IsFiniteSet(Procs) /\ Cardinality(Procs) \in Nat
           /\ IsFiniteSet(Rotating) /\ Cardinality(Rotating) \in Nat
           /\ Cardinality(Rotating) <= Cardinality(Procs)
<1>1. Rotating \subseteq Procs
  BY DEF Rotating
<1> QED
  BY <1>1, FS_Subset, FS_CardinalityType DEF ConstantsOK

LEMMA RotatingFiniteNext ==
    ASSUME ConstantsOK
    PROVE  /\ IsFiniteSet(Rotating') /\ Cardinality(Rotating') \in Nat
           /\ Cardinality(Rotating') <= Cardinality(Procs)
<1>1. Rotating' \subseteq Procs
  BY DEF Rotating
<1> QED
  BY <1>1, FS_Subset, FS_CardinalityType DEF ConstantsOK

\* No rotation is taken up, and the token stays.
LEMMA NoneTakenUp ==
    ASSUME ConstantsOK, Typed, Bounded, token' = token,
           \A p \in Procs : proc'[p].op = "rotate" => proc[p].op = "rotate"
    PROVE  Bounded'
<1>1. Rotating' \subseteq Rotating
  BY DEF Rotating
<1>2. Cardinality(Rotating') <= Cardinality(Rotating)
  BY <1>1, RotatingFinite, FS_Subset
<1>3. Bounded' = (token' + Cardinality(Rotating') <= MaxRotations + Cardinality(Procs))
  BY DEF Bounded
<1> QED
  BY <1>2, <1>3, RotatingFinite, RotatingFiniteNext DEF Bounded, Typed, ConstantsOK

\* A lock in the sequence of those made is written in its place.
LEMMA LockWritten ==
    ASSUME Typed, NEW l \in 1..Len(obj), NEW v \in LockObjects, obj' = [obj EXCEPT ![l] = v]
    PROVE  /\ obj' \in Seq(LockObjects) /\ Len(obj') = Len(obj) /\ obj'[l] = v
           /\ \A k \in 1..Len(obj) \ {l} : obj'[k] = obj[k]
  BY DEF Typed

\* What the others do leaves a request what it has, if they leave its lock, its
\* server's entry and, while it is on the wire, the token.
LEMMA Stays ==
    ASSUME Typed, NEW q \in Procs, Keeps(q), proc'[q] = proc[q],
           ids' \in Nat, ids <= ids', Len(obj') \in Nat, Len(obj) <= Len(obj'),
           ~At(q, "idle") /\ Gone(q) => proc[q].id # current',
           \A l \in 1..Len(obj) : /\ q \in obj[l].readers => q \in obj'[l].readers
                                  /\ q \in obj[l].writer => q \in obj'[l].writer,
           /\ proc[q].pc \in {"acquire", "read", "wire", "replace"}
           /\ proc[q].id = current'
           => locks'[proc[q].id] = locks[proc[q].id],
           At(q, "wire") /\ proc[q].id = current' => token' = token
    PROVE  Keeps(q)'
<1>1. Len(obj) \in Nat /\ ids \in Nat
  BY DEF Typed
<1>2. /\ ~At(q, "idle")' => proc'[q].id \in 1..ids'
      /\ At(q, "forget")' => Gone(q)'
  BY <1>1 DEF Keeps, At, Gone
<1>3. proc'[q].pc \in {"acquire", "read", "wire", "replace"} =>
        /\ proc'[q].lock \in 1..Len(obj')
        /\ Gone(q)' \/ locks'[proc'[q].id] = proc'[q].lock
  BY <1>1 DEF Keeps, At, Gone
<1>4. /\ proc'[q].pc \in {"read", "wire"} /\ proc'[q].op # "rotate" => q \in Lock(q)'.readers
      /\ proc'[q].pc \in {"read", "replace"} /\ proc'[q].op = "rotate" => q \in Lock(q)'.writer
  BY DEF Keeps, Lock
<1>5. /\ At(q, "wire")' => proc'[q].op # "rotate"
      /\ At(q, "replace")' => proc'[q].op = "rotate"
      /\ At(q, "wire")' /\ ~Gone(q)' => proc'[q].token = token'
  BY DEF Keeps, At, Gone
<1> QED
  BY <1>2, <1>3, <1>4, <1>5 DEF Keeps, At, Gone, Lock

\* The beginning: one server, no lock made, nobody under way.
LEMMA Initially == ASSUME ConstantsOK, Init PROVE IInv
<1>1. Typed
  BY DEF Init, Typed, ConstantsOK, Ids, Requests, Ops, Pcs, Idle
<1>2. Exclusive
  BY DEF Init, Exclusive
<1>3. Bounded
  BY RotatingFinite DEF Init, Bounded, ConstantsOK
<1>4. StatusOfCurrentToken
  BY DEF Init, StatusOfCurrentToken
<1>5. ASSUME NEW p \in Procs PROVE Keeps(p)
  <2>1. proc[p] = Idle
    BY DEF Init
  <2> QED
    BY <2>1 DEF Keeps, At, Idle
<1> QED
  BY <1>1, <1>2, <1>3, <1>4, <1>5 DEF IInv

LEMMA RegisterKeeps ==
    ASSUME ConstantsOK, IInv, RegisterMCPServer
    PROVE  IInv'
<1>1. /\ current = 0 /\ ids < MaxIds /\ ids' = ids + 1 /\ current' = ids + 1
      /\ status' = "unknown" /\ UNCHANGED <<token, about, locks, obj, proc>>
  BY DEF RegisterMCPServer
<1>2. Typed /\ ids \in Nat
  BY DEF IInv, Typed
<1>3. Typed'
  BY <1>1, <1>2 DEF Typed, ConstantsOK
<1>4. Exclusive' /\ Bounded' /\ StatusOfCurrentToken'
  BY <1>1 DEF IInv, Exclusive, Bounded, Rotating, StatusOfCurrentToken
<1>5. ASSUME NEW q \in Procs PROVE Keeps(q)'
  <2>1. Keeps(q)
    BY DEF IInv
  <2>2. ~At(q, "idle") => proc[q].id # current'
    BY <1>1, <1>2, <2>1 DEF Keeps
  <2>3. At(q, "wire") => ~At(q, "idle")
    BY DEF At
  <2>4. Len(obj) \in Nat
    BY <1>2 DEF Typed
  <2> QED
    BY <1>1, <1>2, <2>1, <2>2, <2>3, <2>4, Stays
<1> QED
  BY <1>3, <1>4, <1>5 DEF IInv

LEMMA StartKeeps ==
    ASSUME ConstantsOK, IInv, NEW p \in Procs, NEW op \in {"call", "discover", "rotate", "delete"},
           StartRequest(p, op)
    PROVE  IInv'
<1> DEFINE fresh == [op |-> op, pc |-> IF op = "delete" THEN "delete" ELSE "lookup",
                     id |-> current, lock |-> 0, token |-> 0]
<1>1. /\ current # 0 /\ (op = "rotate" => token < MaxRotations)
      /\ proc' = [proc EXCEPT ![p] = fresh] /\ UNCHANGED <<row, locks, obj>>
  BY DEF StartRequest
<1>2. Typed /\ ids \in Nat /\ Len(obj) \in Nat
  BY DEF IInv, Typed
<1>3. fresh \in Requests /\ fresh.id = current /\ fresh.op = op /\ fresh.pc \in {"delete", "lookup"}
  <2>1. current \in 0..MaxIds /\ 0 \in Nat
    BY <1>2 DEF Typed, ConstantsOK
  <2>2. PICK pc : pc = IF op = "delete" THEN "delete" ELSE "lookup"
    OBVIOUS
  <2>3. fresh = [op |-> op, pc |-> pc, id |-> current, lock |-> 0, token |-> 0]
    BY <2>2
  <2>4. pc \in {"delete", "lookup"} /\ pc \in Pcs /\ op \in Ops
    BY <2>2 DEF Pcs, Ops
  <2> HIDE DEF fresh
  <2> QED
    BY <2>1, <2>3, <2>4 DEF Requests
<1> HIDE DEF fresh
<1>4. Typed'
  BY <1>1, <1>2, <1>3 DEF Typed, row
<1>5. Exclusive' /\ StatusOfCurrentToken'
  BY <1>1 DEF IInv, Exclusive, StatusOfCurrentToken, row
<1>6. Bounded'
  <2>1. CASE op = "rotate"
    <3>1. token' = token /\ token < MaxRotations /\ token \in Nat
      BY <1>1, <1>2, <2>1 DEF row, Typed
    <3>2. Bounded' = (token' + Cardinality(Rotating') <= MaxRotations + Cardinality(Procs))
      BY DEF Bounded
    <3>3. PICK n, m : n = Cardinality(Rotating') /\ m = Cardinality(Procs)
      OBVIOUS
    <3>4. n \in Nat /\ m \in Nat /\ n <= m /\ MaxRotations \in Nat
      BY <3>3, RotatingFinite, RotatingFiniteNext DEF ConstantsOK
    <3>5. token' + n <= MaxRotations + m
      BY <3>1, <3>4
    <3> QED
      BY <3>2, <3>3, <3>5, Zenon
  <2>2. CASE op # "rotate"
    <3>1. token' = token /\ \A q \in Procs : proc'[q].op = "rotate" => proc[q].op = "rotate"
      BY <1>1, <1>2, <1>3, <2>2 DEF row, Typed
    <3> QED
      BY <1>2, <3>1, NoneTakenUp DEF IInv
  <2> QED
    BY <2>1, <2>2
<1>7. ASSUME NEW q \in Procs PROVE Keeps(q)'
  <2>1. CASE q = p
    <3>1. proc'[q] = fresh /\ current' = current /\ ids' = ids
      BY <1>1, <1>2, <2>1 DEF Typed, row
    <3> QED
      BY <1>1, <1>2, <1>3, <3>1 DEF Keeps, At, Typed
  <2>2. CASE q # p
    BY <1>1, <1>2, <2>2, Stays, SMTT(30) DEF IInv, Typed, row, Gone
  <2> QED
    BY <2>1, <2>2
<1> QED
  BY <1>4, <1>5, <1>6, <1>7 DEF IInv

\* A lock made anew is nobody's, and one that is there stays the registered
\* server's.
LEMMA credentialLockKeeps ==
    ASSUME ConstantsOK, IInv, NEW p \in Procs, credentialLock(p)
    PROVE  IInv'
<1>1. Typed /\ ids \in Nat /\ Len(obj) \in Nat /\ proc[p] \in Requests /\ At(p, "lookup") /\ Keeps(p)
  BY DEF IInv, Typed, credentialLock
<1>2. PICK id : id = proc[p].id
  OBVIOUS
<1>3. id \in Ids /\ id \in 1..ids
  BY <1>1, <1>2 DEF Keeps, At, Typed, Ids, ConstantsOK
<1>4. PICK made : made = IF locks[id] # 0 THEN locks[id] ELSE Len(obj) + 1
  OBVIOUS
<1>5. PICK all : all = IF locks[id] # 0 THEN obj ELSE Append(obj, Free)
  BY Zenon
<1>6. /\ locks' = [locks EXCEPT ![id] = made]
      /\ obj' = IF proc[p].op = "rotate" THEN [all EXCEPT ![made].waiting = Append(@, p)] ELSE all
      /\ proc' = [proc EXCEPT ![p].lock = made, ![p].pc = "acquire"]
      /\ UNCHANGED row
  BY <1>2, <1>4, <1>5, Zenon DEF credentialLock
<1>7. /\ all \in Seq(LockObjects) /\ Len(all) \in Nat /\ Len(obj) <= Len(all) /\ made \in 1..Len(all)
      /\ \A l \in 1..Len(obj) : all[l] = obj[l]
      /\ \A l \in 1..Len(all) : l > Len(obj) => all[l] = Free
      /\ locks[id] # 0 => made = locks[id]
  <2>1. CASE locks[id] # 0
    BY <1>1, <1>3, <1>4, <1>5, <2>1 DEF Typed
  <2>2. CASE locks[id] = 0
    <3>1. Free \in LockObjects
      BY DEF Free, LockObjects
    <3>2. /\ Append(obj, Free) \in Seq(LockObjects) /\ Len(Append(obj, Free)) = Len(obj) + 1
          /\ \A i \in 1..Len(obj) : Append(obj, Free)[i] = obj[i]
          /\ Append(obj, Free)[Len(obj) + 1] = Free
      BY <1>1, <3>1, AppendProperties DEF Typed
    <3>3. all = Append(obj, Free) /\ made = Len(obj) + 1
      BY <1>4, <1>5, <2>2
    <3> QED
      BY <1>1, <2>2, <3>2, <3>3
  <2> QED
    BY <2>1, <2>2
<1>8. /\ obj' \in Seq(LockObjects) /\ Len(obj') = Len(all)
      /\ \A l \in 1..Len(all) : obj'[l].readers = all[l].readers /\ obj'[l].writer = all[l].writer
  <2>1. CASE proc[p].op # "rotate"
    BY <1>6, <1>7, <2>1
  <2>2. CASE proc[p].op = "rotate"
    <3>1. all[made] \in LockObjects
      BY <1>7
    <3>2. PICK v : v = [all[made] EXCEPT !.waiting = Append(@, p)]
      BY Zenon
    <3>3. v \in LockObjects /\ v.readers = all[made].readers /\ v.writer = all[made].writer
      <4>1. Append(all[made].waiting, p) \in Seq(Procs)
        BY <3>1, AppendProperties DEF LockObjects
      <4> QED
        BY <3>1, <3>2, <4>1, Zenon DEF LockObjects
    <3>4. obj' = [all EXCEPT ![made] = v]
      BY <1>6, <1>7, <2>2, <3>2
    <3> QED
      BY <1>7, <3>3, <3>4
  <2> QED
    BY <2>1, <2>2
<1>9. /\ proc' \in [Procs -> Requests]
      /\ proc'[p].pc = "acquire" /\ proc'[p].lock = made /\ proc'[p].id = id
      /\ \A q \in Procs : proc'[q].op = proc[q].op
      /\ \A q \in Procs \ {p} : proc'[q] = proc[q]
  <2>1. made \in Nat
    BY <1>7
  <2> QED
    BY <1>1, <1>2, <1>6, <2>1, Zenon DEF Typed, Requests, Pcs
<1>10. Typed'
  <2>1. locks' \in [Ids -> 0..Len(obj')]
    BY <1>1, <1>3, <1>6, <1>7, <1>8 DEF Typed
  <2> QED
    BY <1>1, <1>6, <1>8, <1>9, <2>1 DEF Typed, row
<1>11. Exclusive'
  <2> SUFFICES ASSUME NEW l \in 1..Len(obj')
               PROVE  /\ \A a, b \in obj'[l].writer : a = b
                      /\ obj'[l].writer # {} => obj'[l].readers = {}
    BY DEF Exclusive
  <2>1. CASE l \in 1..Len(obj)
    BY <1>7, <1>8, <2>1 DEF IInv, Exclusive
  <2>2. CASE l \notin 1..Len(obj)
    <3>1. obj'[l].writer = {}
      BY <1>1, <1>7, <1>8, <2>2 DEF Free
    <3> QED
      BY <3>1
  <2> QED
    BY <2>1, <2>2
<1>12. Bounded'
  BY <1>1, <1>6, <1>9, NoneTakenUp DEF IInv, row
<1>13. StatusOfCurrentToken'
  BY <1>6 DEF IInv, StatusOfCurrentToken, row
<1>14. Keeps(p)'
  BY <1>1, <1>3, <1>6, <1>7, <1>8, <1>9 DEF Keeps, At, Gone, row, Typed
<1>15. ASSUME NEW q \in Procs \ {p} PROVE Keeps(q)'
  <2>1. Keeps(q)
    BY DEF IInv
  <2>2. ASSUME proc[q].pc \in {"acquire", "read", "wire", "replace"}, proc[q].id = current'
        PROVE  locks'[proc[q].id] = locks[proc[q].id]
    <3>1. locks[proc[q].id] \in 1..Len(obj) /\ proc[q].id \in Ids
      BY <1>1, <1>6, <2>1, <2>2 DEF Keeps, Gone, row, At, Typed, Ids, ConstantsOK
    <3> QED
      BY <1>1, <1>3, <1>6, <1>7, <3>1 DEF Typed
  <2> QED
    BY <1>1, <1>6, <1>7, <1>8, <1>9, <2>1, <2>2, Stays DEF row, Gone
<1> QED
  BY <1>10, <1>11, <1>12, <1>13, <1>14, <1>15 DEF IInv

\* One request at its lock takes it, on the side it asked for.
LEMMA Takes ==
    ASSUME ConstantsOK, IInv, NEW p \in Procs, At(p, "acquire"), NEW v \in LockObjects,
           obj' = [obj EXCEPT ![proc[p].lock] = v], Goto(p, "read"), UNCHANGED <<row, locks>>,
           Lock(p).readers \subseteq v.readers, Lock(p).writer \subseteq v.writer,
           IF proc[p].op = "rotate" THEN v.writer = {p} /\ v.readers = {}
           ELSE v.writer = {} /\ p \in v.readers
    PROVE  IInv'
<1>1. Typed /\ ids \in Nat /\ Len(obj) \in Nat /\ proc[p] \in Requests /\ Keeps(p)
  BY DEF IInv, Typed
<1>2. PICK l : l = proc[p].lock
  OBVIOUS
<1>3. l \in 1..Len(obj) /\ obj' = [obj EXCEPT ![l] = v]
  BY <1>1, <1>2 DEF Keeps, At
<1>4. /\ obj' \in Seq(LockObjects) /\ Len(obj') = Len(obj) /\ obj'[l] = v
      /\ \A k \in 1..Len(obj) \ {l} : obj'[k] = obj[k]
  BY <1>1, <1>3, LockWritten, Zenon
<1>5. /\ proc' \in [Procs -> Requests]
      /\ proc'[p].pc = "read" /\ proc'[p].lock = l /\ proc'[p].id = proc[p].id
      /\ \A q \in Procs : proc'[q].op = proc[q].op
      /\ \A q \in Procs \ {p} : proc'[q] = proc[q]
  BY <1>1, <1>2, Zenon DEF Goto, Typed, Requests, Pcs
<1>6. Typed'
  BY <1>1, <1>4, <1>5 DEF Typed, row
<1>7. Exclusive'
  <2>1. /\ \A a, b \in v.writer : a = b
        /\ v.writer # {} => v.readers = {}
    OBVIOUS
  <2> QED
    BY <1>3, <1>4, <2>1 DEF IInv, Exclusive
<1>8. Bounded'
  BY <1>1, <1>5, NoneTakenUp DEF IInv, row
<1>9. StatusOfCurrentToken'
  BY DEF IInv, StatusOfCurrentToken, row
<1>10. Keeps(p)'
  <2>1. Gone(p)' \/ locks'[proc'[p].id] = proc'[p].lock
    BY <1>1, <1>2, <1>5 DEF Keeps, At, Gone, row
  <2>2. proc'[p].id \in 1..ids'
    BY <1>1, <1>5 DEF Keeps, At, row
  <2>3. Lock(p)' = v
    BY <1>4, <1>5 DEF Lock
  <2> QED
    BY <1>3, <1>4, <1>5, <2>1, <2>2, <2>3 DEF Keeps, At
<1>11. ASSUME NEW q \in Procs \ {p} PROVE Keeps(q)'
  <2>1. Keeps(q)
    BY DEF IInv
  <2>2. \A k \in 1..Len(obj) : /\ q \in obj[k].readers => q \in obj'[k].readers
                               /\ q \in obj[k].writer => q \in obj'[k].writer
    BY <1>2, <1>3, <1>4 DEF Lock
  <2> QED
    BY <1>1, <1>4, <1>5, <2>1, <2>2, Stays DEF row, Gone
<1> QED
  BY <1>6, <1>7, <1>8, <1>9, <1>10, <1>11 DEF IInv

LEMMA RLockKeeps ==
    ASSUME ConstantsOK, IInv, NEW p \in Procs, RLock(p)
    PROVE  IInv'
<1>1. /\ At(p, "acquire") /\ proc[p].op # "rotate" /\ Lock(p).writer = {}
      /\ obj' = [obj EXCEPT ![proc[p].lock].readers = @ \cup {p}]
      /\ Goto(p, "read") /\ UNCHANGED <<row, locks>>
  BY DEF RLock, Readable
<1>2. Typed /\ proc[p].lock \in 1..Len(obj)
  BY <1>1 DEF IInv, Keeps, At
<1>3. Lock(p) \in LockObjects /\ Lock(p) = obj[proc[p].lock]
  BY <1>2 DEF Typed, Lock
<1>4. PICK v : v = [Lock(p) EXCEPT !.readers = @ \cup {p}]
  BY Zenon
<1>5. v \in LockObjects /\ v.writer = Lock(p).writer /\ v.readers = Lock(p).readers \cup {p}
  BY <1>3, <1>4 DEF LockObjects
<1>6. obj' = [obj EXCEPT ![proc[p].lock] = v]
  BY <1>1, <1>2, <1>3, <1>4 DEF Typed
<1> QED
  BY <1>1, <1>5, <1>6, Takes, Zenon

LEMMA WLockKeeps ==
    ASSUME ConstantsOK, IInv, NEW p \in Procs, WLock(p)
    PROVE  IInv'
<1>1. /\ At(p, "acquire") /\ proc[p].op = "rotate" /\ Lock(p).writer = {} /\ Lock(p).readers = {}
      /\ Lock(p).waiting # <<>>
      /\ obj' = [obj EXCEPT ![proc[p].lock] =
                  [readers |-> {}, writer |-> {p}, waiting |-> Tail(@.waiting)]]
      /\ Goto(p, "read") /\ UNCHANGED <<row, locks>>
  BY DEF WLock
<1>2. Typed /\ proc[p].lock \in 1..Len(obj)
  BY <1>1 DEF IInv, Keeps, At
<1>3. Lock(p) \in LockObjects /\ Lock(p) = obj[proc[p].lock]
  BY <1>2 DEF Typed, Lock
<1>4. Tail(Lock(p).waiting) \in Seq(Procs)
  BY <1>1, <1>3, HeadTailProperties DEF LockObjects
<1>5. PICK v : v = [readers |-> {}, writer |-> {p}, waiting |-> Tail(Lock(p).waiting)]
  BY Zenon
<1>6. v \in LockObjects /\ v.writer = {p} /\ v.readers = {}
  BY <1>4, <1>5 DEF LockObjects
<1>7. obj' = [obj EXCEPT ![proc[p].lock] = v]
  BY <1>1, <1>3, <1>5
<1> QED
  BY <1>1, <1>6, <1>7, Takes, Zenon

\* What the end of a request does: its lock is given back, and the readers a
\* writer kept waiting have theirs.
Ends(p) ==
    LET lock == proc[p].lock IN
    /\ obj' \in Seq(LockObjects) /\ Len(obj') = Len(obj)
    /\ proc' \in [Procs -> Requests] /\ proc'[p] = Idle
    /\ \A l \in 1..Len(obj) : \A q \in Procs \ {p} :
          /\ q \in obj[l].readers => q \in obj'[l].readers
          /\ q \in obj[l].writer => q \in obj'[l].writer
    /\ \A q \in Procs \ {p} :
          \/ proc'[q] = proc[q]
          \/ /\ proc[q].pc = "acquire" /\ proc[q].op # "rotate" /\ proc[q].lock = lock
             /\ proc'[q] = [proc[q] EXCEPT !.pc = "read"]
             /\ q \in obj'[lock].readers

LEMMA DoneEnds ==
    ASSUME ConstantsOK, IInv, NEW p \in Procs, proc[p].pc \in {"read", "wire", "replace"}, Done(p)
    PROVE  Ends(p) /\ Exclusive'
<1>1. Typed /\ Len(obj) \in Nat /\ Keeps(p)
  BY DEF IInv, Typed
<1>2. PICK l : l = proc[p].lock
  OBVIOUS
<1>3. l \in 1..Len(obj) /\ obj[l] \in LockObjects
  BY <1>1, <1>2 DEF Keeps, Typed
<1>4. PICK let \in SUBSET Procs :
        /\ let = {q \in Procs : /\ proc[p].op = "rotate" /\ proc[q].op # "rotate"
                                /\ At(q, "acquire") /\ proc[q].lock = proc[p].lock}
        /\ obj' = [obj EXCEPT ![l] = [readers |-> (obj[l].readers \ {p}) \cup let,
                                      writer |-> obj[l].writer \ {p}, waiting |-> obj[l].waiting]]
        /\ proc' = [q \in Procs |-> IF q = p THEN Idle
                                   ELSE IF q \in let THEN [proc[q] EXCEPT !.pc = "read"]
                                   ELSE proc[q]]
  BY <1>2, Zenon DEF Done
<1>5. PICK v : v = [readers |-> (obj[l].readers \ {p}) \cup let,
                    writer |-> obj[l].writer \ {p}, waiting |-> obj[l].waiting]
  BY Zenon
<1>6. /\ v \in LockObjects /\ v.readers = (obj[l].readers \ {p}) \cup let
      /\ v.writer = obj[l].writer \ {p}
  BY <1>3, <1>4, <1>5 DEF LockObjects
<1>7. /\ obj' \in Seq(LockObjects) /\ Len(obj') = Len(obj) /\ obj'[l] = v
      /\ \A k \in 1..Len(obj) \ {l} : obj'[k] = obj[k]
  BY <1>1, <1>3, <1>4, <1>5, <1>6, LockWritten, Zenon
<1>8. ASSUME NEW q \in Procs
      PROVE  /\ proc'[q] \in Requests
             /\ q = p => proc'[q] = Idle
             /\ q # p /\ q \in let => proc'[q] = [proc[q] EXCEPT !.pc = "read"]
             /\ q # p /\ q \notin let => proc'[q] = proc[q]
  <2>1. proc[q] \in Requests /\ Idle \in Requests
    BY <1>1 DEF Typed, Requests, Idle, Ops, Pcs, ConstantsOK
  <2> QED
    BY <1>4, <2>1 DEF Requests, Pcs
<1>9. Ends(p)
  <2>1. proc' \in [Procs -> Requests]
    BY <1>4, <1>8
  <2>2. \A k \in 1..Len(obj) : \A q \in Procs \ {p} :
          /\ q \in obj[k].readers => q \in obj'[k].readers
          /\ q \in obj[k].writer => q \in obj'[k].writer
    BY <1>6, <1>7, SMTT(30)
  <2>3. ASSUME NEW q \in Procs \ {p}
        PROVE  \/ proc'[q] = proc[q]
               \/ /\ proc[q].pc = "acquire" /\ proc[q].op # "rotate" /\ proc[q].lock = l
                  /\ proc'[q] = [proc[q] EXCEPT !.pc = "read"]
                  /\ q \in obj'[l].readers
    BY <1>2, <1>4, <1>6, <1>7, <1>8 DEF At
  <2> QED
    BY <1>2, <1>7, <1>8, <2>1, <2>2, <2>3 DEF Ends
<1>10. Exclusive'
  <2>1. /\ \A a, b \in obj[l].writer : a = b
        /\ obj[l].writer # {} => obj[l].readers = {}
    BY <1>3 DEF IInv, Exclusive
  <2>2. \A a, b \in v.writer : a = b
    BY <1>6, <2>1
  <2>3. v.writer # {} => v.readers = {}
    <3>1. CASE proc[p].op = "rotate"
      <4>1. p \in obj[l].writer
        BY <1>1, <1>2, <3>1 DEF Keeps, Lock, At
      <4> QED
        BY <1>6, <2>1, <4>1
    <3>2. CASE proc[p].op # "rotate"
      BY <1>4, <1>6, <2>1, <3>2
    <3> QED
      BY <3>1, <3>2
  <2> QED
    BY <1>3, <1>7, <2>2, <2>3 DEF IInv, Exclusive
<1> QED
  BY <1>9, <1>10

\* While a rotation of the registered server has its lock, nobody is on the wire
\* with that server's token.
LEMMA AloneAtReplace ==
    ASSUME IInv, NEW p \in Procs, At(p, "replace"), ~Gone(p), NEW q \in Procs, At(q, "wire")
    PROVE  Gone(q)
<1>1. Keeps(p) /\ Keeps(q)
  BY DEF IInv
<1>2. /\ proc[p].lock \in 1..Len(obj) /\ locks[proc[p].id] = proc[p].lock
      /\ p \in obj[proc[p].lock].writer
  BY <1>1 DEF Keeps, At, Lock
<1>3. obj[proc[p].lock].readers = {}
  BY <1>2 DEF IInv, Exclusive
<1>4. q \in obj[proc[q].lock].readers /\ (Gone(q) \/ locks[proc[q].id] = proc[q].lock)
  BY <1>1 DEF Keeps, At, Lock
<1> QED
  BY <1>2, <1>3, <1>4 DEF Gone

\* The end of a request keeps everything, if it drops only the entry of a server
\* that is gone and replaces only the token of the server it has the lock of.
LEMMA EndKeeps ==
    ASSUME ConstantsOK, IInv, NEW p \in Procs, proc[p].pc \in {"read", "wire", "replace"}, Done(p),
           current' = current, ids' = ids,
           locks' = locks \/ (Gone(p) /\ locks' = forgetIfCurrent(p)),
           token' = token \/ (At(p, "replace") /\ ~Gone(p) /\ token' = token + 1),
           StatusOfCurrentToken'
    PROVE  IInv'
<1>1. Typed /\ Len(obj) \in Nat /\ ids \in Nat /\ token \in Nat /\ Keeps(p)
  BY DEF IInv, Typed
<1>2. Ends(p) /\ Exclusive'
  BY DoneEnds
<1>3. /\ obj' \in Seq(LockObjects) /\ Len(obj') = Len(obj)
      /\ proc' \in [Procs -> Requests] /\ proc'[p] = Idle
  BY <1>2 DEF Ends
<1>4. \A i \in Ids : i = current => locks'[i] = locks[i]
  BY <1>1 DEF forgetIfCurrent, Gone, Typed
<1>5. locks' \in [Ids -> 0..Len(obj')]
  BY <1>1, <1>3 DEF forgetIfCurrent, Typed
<1>6. Typed'
  <2>1. token' \in Nat
    BY <1>1
  <2> QED
    BY <1>1, <1>3, <1>5, <2>1 DEF Typed
<1>7. Bounded'
  <2>0. \A q \in Procs : proc'[q].op = "rotate" => proc[q].op = "rotate" /\ q # p
    <3> SUFFICES ASSUME NEW q \in Procs, proc'[q].op = "rotate"
                 PROVE  proc[q].op = "rotate" /\ q # p
      OBVIOUS
    <3>1. q # p
      BY <1>3 DEF Idle
    <3>2. proc[q] \in Requests
      BY <1>1 DEF Typed
    <3>3. proc'[q] = proc[q] \/ proc'[q] = [proc[q] EXCEPT !.pc = "read"]
      BY <1>2, <3>1 DEF Ends
    <3> QED
      BY <3>1, <3>2, <3>3 DEF Requests
  <2>1. CASE token' = token
    BY <1>1, <2>0, <2>1, NoneTakenUp DEF IInv
  <2>2. CASE At(p, "replace") /\ token' = token + 1
    <3>1. p \in Rotating
      BY <1>1, <2>2 DEF Rotating, Keeps
    <3>2. Rotating' \subseteq Rotating \ {p}
      BY <2>0 DEF Rotating
    <3>3. /\ IsFiniteSet(Rotating \ {p})
          /\ Cardinality(Rotating \ {p}) = Cardinality(Rotating) - 1
      BY <3>1, RotatingFinite, FS_RemoveElement
    <3>4. Cardinality(Rotating') <= Cardinality(Rotating \ {p})
      BY <3>2, <3>3, FS_Subset
    <3>5. Bounded' = (token' + Cardinality(Rotating') <= MaxRotations + Cardinality(Procs))
      BY DEF Bounded
    <3>6. Bounded
      BY DEF IInv
    <3>7. PICK n, m, k : n = Cardinality(Rotating') /\ m = Cardinality(Rotating) /\ k = Cardinality(Procs)
      OBVIOUS
    <3>8. n \in Nat /\ m \in Nat /\ k \in Nat /\ MaxRotations \in Nat /\ n <= m - 1
      BY <3>3, <3>4, <3>7, RotatingFinite, RotatingFiniteNext DEF ConstantsOK
    <3>9. token + m <= MaxRotations + k
      BY <3>6, <3>7 DEF Bounded
    <3>10. token' + n <= MaxRotations + k
      BY <1>1, <2>2, <3>8, <3>9
    <3> QED
      BY <3>5, <3>7, <3>10, Zenon
  <2> QED
    BY <2>1, <2>2
<1>8. Keeps(p)'
  BY <1>3 DEF Keeps, At, Idle
<1>9. ASSUME NEW q \in Procs \ {p} PROVE Keeps(q)'
  <2>1. Keeps(q) /\ proc[q] \in Requests
    BY <1>1 DEF IInv, Typed
  <2>2. \A l \in 1..Len(obj) : /\ q \in obj[l].readers => q \in obj'[l].readers
                               /\ q \in obj[l].writer => q \in obj'[l].writer
    BY <1>2 DEF Ends
  <2>3. At(q, "wire") /\ proc[q].id = current => token' = token
    BY AloneAtReplace DEF Gone
  <2>4. ~At(q, "idle") /\ proc[q].id = current => proc[q].id \in Ids
    BY <1>1, <2>1 DEF Keeps, Typed, Ids, ConstantsOK
  <2>5. CASE proc'[q] = proc[q]
    <3>1. /\ proc[q].pc \in {"acquire", "read", "wire", "replace"} /\ proc[q].id = current'
          => locks'[proc[q].id] = locks[proc[q].id]
      BY <1>4, <2>4 DEF At
    <3> QED
      BY <1>1, <1>3, <2>1, <2>2, <2>3, <2>5, <3>1, Stays DEF Gone
  <2>6. CASE /\ proc[q].pc = "acquire" /\ proc[q].op # "rotate" /\ proc[q].lock = proc[p].lock
             /\ proc'[q] = [proc[q] EXCEPT !.pc = "read"]
             /\ q \in obj'[proc[p].lock].readers
    <3>1. /\ proc'[q].pc = "read" /\ proc'[q].op = proc[q].op /\ proc'[q].id = proc[q].id
          /\ proc'[q].lock = proc[q].lock
      BY <2>1, <2>6 DEF Requests
    <3>2. proc'[q].id \in 1..ids' /\ proc'[q].lock \in 1..Len(obj')
      BY <1>3, <2>1, <2>6, <3>1 DEF Keeps, At
    <3>3. Gone(q)' \/ locks'[proc'[q].id] = proc'[q].lock
      BY <1>4, <2>1, <2>4, <2>6, <3>1 DEF Keeps, At, Gone
    <3>4. q \in Lock(q)'.readers
      BY <2>6, <3>1 DEF Lock
    <3> QED
      BY <2>6, <3>1, <3>2, <3>3, <3>4 DEF Keeps, At
  <2> QED
    BY <1>2, <2>5, <2>6 DEF Ends
<1> QED
  BY <1>2, <1>6, <1>7, <1>8, <1>9 DEF IInv

LEMMA RereadKeeps ==
    ASSUME ConstantsOK, IInv, NEW p \in Procs, Reread(p)
    PROVE  IInv'
<1>1. At(p, "read") /\ UNCHANGED row /\ Typed /\ Keeps(p) /\ proc[p] \in Requests
  BY DEF Reread, IInv, Typed
<1>2. CASE Gone(p)
  <2>1. locks' = forgetIfCurrent(p) /\ Done(p)
    BY <1>2 DEF Reread
  <2>2. StatusOfCurrentToken'
    BY <1>1 DEF IInv, StatusOfCurrentToken, row
  <2> QED
    BY <1>1, <1>2, <2>1, <2>2, EndKeeps DEF At, row
<1>3. CASE ~Gone(p)
  <2>1. PICK pc : pc = IF proc[p].op = "rotate" THEN "replace" ELSE "wire"
    OBVIOUS
  <2>2. /\ proc' = [proc EXCEPT ![p].token = token, ![p].pc = pc]
        /\ UNCHANGED <<locks, obj>>
    BY <1>3, <2>1 DEF Reread
  <2>3. /\ proc' \in [Procs -> Requests]
        /\ proc'[p].pc = pc /\ proc'[p].token = token /\ proc'[p].id = proc[p].id
        /\ proc'[p].lock = proc[p].lock
        /\ \A q \in Procs : proc'[q].op = proc[q].op
        /\ \A q \in Procs \ {p} : proc'[q] = proc[q]
    <3>1. pc \in Pcs /\ token \in Nat
      BY <1>1, <2>1 DEF Pcs, Typed
    <3> QED
      BY <1>1, <2>2, <3>1, Zenon DEF Typed, Requests
  <2>4. Typed' /\ Exclusive' /\ StatusOfCurrentToken'
    <3>1. Typed'
      BY <1>1, <2>2, <2>3 DEF Typed, row
    <3>2. Exclusive'
      BY <2>2 DEF IInv, Exclusive
    <3>3. StatusOfCurrentToken'
      BY <1>1 DEF IInv, StatusOfCurrentToken, row
    <3> QED
      BY <3>1, <3>2, <3>3
  <2>5. Bounded'
    BY <1>1, <2>3, NoneTakenUp DEF IInv, row
  <2>6. Keeps(p)'
    BY <1>1, <2>1, <2>2, <2>3 DEF Keeps, At, Gone, Lock, row
  <2>7. ASSUME NEW q \in Procs \ {p} PROVE Keeps(q)'
    <3>1. Keeps(q) /\ ids \in Nat /\ Len(obj) \in Nat
      BY <1>1 DEF IInv, Typed
    <3> QED
      BY <1>1, <2>2, <2>3, <3>1, Stays DEF row, Gone
  <2> QED
    BY <2>4, <2>5, <2>6, <2>7 DEF IInv
<1> QED
  BY <1>2, <1>3

LEMMA RereadCancelledKeeps ==
    ASSUME ConstantsOK, IInv, NEW p \in Procs, RereadCancelled(p)
    PROVE  IInv'
<1>1. At(p, "read") /\ Done(p) /\ UNCHANGED <<row, locks>>
  BY DEF RereadCancelled
<1>2. StatusOfCurrentToken'
  BY <1>1 DEF IInv, StatusOfCurrentToken, row
<1> QED
  BY <1>1, <1>2, EndKeeps DEF At, row

\* The outcome that is recorded was found with the token of the row.
LEMMA AnsweredKeeps ==
    ASSUME ConstantsOK, IInv, NEW p \in Procs, NEW o \in {"up", "down", "none"}, Answered(p, o)
    PROVE  IInv'
<1>1. At(p, "wire") /\ Done(p) /\ UNCHANGED <<current, ids, token>> /\ Keeps(p)
  BY DEF Answered, IInv
<1>2. locks' = locks \/ (Gone(p) /\ locks' = forgetIfCurrent(p))
  BY DEF Answered
<1>3. StatusOfCurrentToken'
  BY <1>1 DEF Answered, IInv, StatusOfCurrentToken, Keeps
<1> QED
  BY <1>1, <1>2, <1>3, EndKeeps DEF At

LEMMA ReplaceTokenKeeps ==
    ASSUME ConstantsOK, IInv, NEW p \in Procs, ReplaceToken(p)
    PROVE  IInv'
<1>1. At(p, "replace") /\ Done(p) /\ UNCHANGED <<current, ids, about, locks>>
  BY DEF ReplaceToken
<1>2. token' = token \/ (~Gone(p) /\ token' = token + 1)
  BY DEF ReplaceToken
<1>3. StatusOfCurrentToken'
  BY <1>1 DEF ReplaceToken, ResetStatus, IInv, StatusOfCurrentToken
<1> QED
  BY <1>1, <1>2, <1>3, EndKeeps DEF At

\* A request leaves for its last place, or for good, and no lock is touched.
LEMMA LeavesKeeps ==
    ASSUME ConstantsOK, IInv, NEW p \in Procs, NEW pc \in {"forget", "idle"},
           \/ pc = "idle" /\ proc' = [proc EXCEPT ![p] = Idle]
           \/ pc = "forget" /\ ~At(p, "idle") /\ Goto(p, pc) /\ current' = 0,
           current' = current \/ current' = 0, UNCHANGED <<ids, token, status, about, obj>>,
           locks' \in [Ids -> 0..Len(obj)],
           \A i \in Ids : i = current' => locks'[i] = locks[i]
    PROVE  IInv'
<1>1. Typed /\ Keeps(p) /\ proc[p] \in Requests /\ ids \in Nat /\ Len(obj) \in Nat
  BY DEF IInv, Typed
<1>2. /\ proc' \in [Procs -> Requests] /\ proc'[p].pc = pc
      /\ pc = "forget" => proc'[p].id = proc[p].id
      /\ \A q \in Procs \ {p} : proc'[q] = proc[q]
      /\ \A q \in Procs : proc'[q].op = "rotate" => proc[q].op = "rotate"
  <2>1. CASE proc' = [proc EXCEPT ![p] = Idle] /\ pc = "idle"
    <3>1. Idle \in Requests /\ Idle.pc = "idle" /\ Idle.op = "none"
      BY DEF Idle, Requests, Ops, Pcs, ConstantsOK
    <3> QED
      BY <1>1, <2>1, <3>1 DEF Typed
  <2>2. CASE Goto(p, "forget") /\ pc = "forget"
    BY <1>1, <2>2, Zenon DEF Goto, Typed, Requests, Pcs
  <2> QED
    BY <2>1, <2>2
<1>3. Typed'
  <2>1. current' \in 0..ids
    BY <1>1 DEF Typed
  <2> QED
    BY <1>1, <1>2, <2>1 DEF Typed
<1>4. Exclusive'
  BY DEF IInv, Exclusive
<1>5. StatusOfCurrentToken'
  BY DEF IInv, StatusOfCurrentToken
<1>6. Bounded'
  BY <1>1, <1>2, NoneTakenUp DEF IInv
<1>7. Keeps(p)'
  <2>1. pc = "forget" => proc'[p].id \in 1..ids' /\ Gone(p)'
    BY <1>1, <1>2 DEF Keeps, Gone
  <2> QED
    BY <1>2, <2>1 DEF Keeps, At
<1>8. ASSUME NEW q \in Procs \ {p} PROVE Keeps(q)'
  <2>1. Keeps(q)
    BY DEF IInv
  <2>2. ~At(q, "idle") => proc[q].id \in Ids /\ proc[q].id # 0
    BY <1>1, <2>1 DEF Keeps, Typed, Ids, ConstantsOK
  <2> QED
    BY <1>1, <1>2, <2>1, <2>2, Stays DEF Gone, At
<1> QED
  BY <1>3, <1>4, <1>5, <1>6, <1>7, <1>8 DEF IInv

LEMMA DeleteKeeps ==
    ASSUME ConstantsOK, IInv, NEW p \in Procs, DeleteRow(p) \/ forgetCredentialLock(p)
    PROVE  IInv'
<1>1. Typed /\ Keeps(p)
  BY DEF IInv
<1>2. CASE DeleteRow(p)
  <2>1. At(p, "delete") /\ UNCHANGED <<ids, token, status, about, locks, obj>>
    BY <1>2 DEF DeleteRow
  <2>2. \/ proc' = [proc EXCEPT ![p] = Idle] /\ current' = current
        \/ Goto(p, "forget") /\ current' = 0
    BY <1>2 DEF DeleteRow
  <2> QED
    BY <1>1, <2>1, <2>2, LeavesKeeps DEF At, Typed
<1>3. CASE forgetCredentialLock(p)
  <2>1. /\ At(p, "forget") /\ UNCHANGED <<row, obj>> /\ proc' = [proc EXCEPT ![p] = Idle]
        /\ locks' = [locks EXCEPT ![proc[p].id] = 0]
    BY <1>3 DEF forgetCredentialLock
  <2>2. proc[p].id # current /\ Len(obj) \in Nat
    BY <1>1, <2>1 DEF Keeps, Gone, Typed
  <2>3. /\ locks' \in [Ids -> 0..Len(obj)]
        /\ \A i \in Ids : i = current' => locks'[i] = locks[i]
    <3>1. current' = current
      BY <2>1 DEF row
    <3>2. locks \in [Ids -> 0..Len(obj)] /\ 0 \in 0..Len(obj)
      BY <1>1, <2>2 DEF Typed
    <3>3. locks' \in [Ids -> 0..Len(obj)]
      BY <2>1, <3>2, Zenon
    <3> QED
      BY <2>1, <2>2, <3>1, <3>2, <3>3
  <2> QED
    BY <2>1, <2>3, LeavesKeeps, Zenon DEF row
<1> QED
  BY <1>2, <1>3

\* Every step keeps the invariant.
LEMMA Preserved ==
    ASSUME ConstantsOK, IInv, [Next]_vars
    PROVE  IInv'
<1>1. CASE UNCHANGED vars
  BY <1>1 DEF vars, IInv, Typed, Exclusive, Bounded, Rotating, StatusOfCurrentToken, Keeps, At, Gone, Lock
<1>2. CASE RegisterMCPServer
  BY <1>2, RegisterKeeps
<1>3. ASSUME NEW p \in Procs, NEW op \in {"call", "discover", "rotate", "delete"}, StartRequest(p, op)
      PROVE  IInv'
  BY <1>3, StartKeeps
<1>4. ASSUME NEW p \in Procs, Step(p) \/ RereadCancelled(p) PROVE IInv'
  BY <1>4, credentialLockKeeps, RLockKeeps, WLockKeeps, RereadKeeps, RereadCancelledKeeps, AnsweredKeeps,
     ReplaceTokenKeeps, DeleteKeeps DEF Step
<1> QED
  BY <1>1, <1>2, <1>3, <1>4 DEF Next

\* The credential fence holds: a lock never has a reader beside a writer, no call
\* or discovery is on the wire with a token that ReplaceMCPServerToken has taken
\* out of the row, and a liveness status is about the token in the row, whatever
\* registrations, removals and dropped map entries happen around it.
THEOREM FenceHolds ==
    ASSUME ConstantsOK
    PROVE  Spec => [](TypeOK /\ FencedToken /\ StatusOfCurrentToken)
<1>1. Init => IInv
  BY Initially
<1>2. IInv /\ [Next]_vars => IInv'
  BY Preserved
<1>3. IInv => TypeOK /\ FencedToken /\ StatusOfCurrentToken
  <2> SUFFICES ASSUME IInv PROVE TypeOK /\ FencedToken /\ StatusOfCurrentToken
    OBVIOUS
  <2>1. FencedToken /\ StatusOfCurrentToken
    BY DEF IInv, FencedToken, Keeps
  <2>2. current \in 0..MaxIds /\ \A i \in Ids : locks[i] \in 0..Len(obj)
    BY DEF IInv, Typed, ConstantsOK
  <2>3. token \in 0..MaxRotations + Cardinality(Procs)
    <3>1. PICK n, m : n = Cardinality(Rotating) /\ m = Cardinality(Procs)
      OBVIOUS
    <3>2. n \in Nat /\ m \in Nat /\ MaxRotations \in Nat /\ token \in Nat
      BY <3>1, RotatingFinite DEF IInv, Typed, ConstantsOK
    <3>3. token + n <= MaxRotations + m
      BY <3>1 DEF IInv, Bounded
    <3>4. token \in 0..MaxRotations + m
      BY <3>2, <3>3
    <3> QED
      BY <3>1, <3>4
  <2>4. ASSUME NEW l \in 1..Len(obj)
        PROVE  Cardinality(obj[l].writer) <= 1 /\ (obj[l].writer # {} => obj[l].readers = {})
    <3>1. /\ \A a, b \in obj[l].writer : a = b
          /\ obj[l].writer # {} => obj[l].readers = {}
      BY DEF IInv, Exclusive
    <3>2. CASE obj[l].writer = {}
      BY <3>1, <3>2, FS_EmptySet
    <3>3. CASE obj[l].writer # {}
      <4>1. PICK a : obj[l].writer = {a}
        BY <3>1, <3>3
      <4>2. Cardinality({a}) = 1
        BY FS_Singleton, Zenon
      <4> QED
        BY <3>1, <4>1, <4>2
    <3> QED
      BY <3>2, <3>3
  <2> QED
    BY <2>1, <2>2, <2>3, <2>4 DEF TypeOK
<1> QED
  BY <1>1, <1>2, <1>3, PTL DEF Spec
=============================================================================
