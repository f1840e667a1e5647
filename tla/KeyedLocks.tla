----------------------------- MODULE KeyedLocks -----------------------------
(***************************************************************************)
(* The keyed lock table: lockContext and the unlock function it returns.   *)
(* The same code serialises decisions about a session and about a memory   *)
(* proposal (repository), writes to a vault path (memoryfiles) and to a    *)
(* sandbox path (mcp-files).                                               *)
(*                                                                         *)
(* An entry holds one token and counts its references.  Only the           *)
(* bookkeeping of the map runs under the table's mutex; taking the token,  *)
(* giving it back and dropping the reference are separate steps, and the   *)
(* caller's context can end between any two.                               *)
(***************************************************************************)
EXTENDS Naturals, FiniteSets, FiniteSetTheorems, TLAPS

CONSTANTS
  Callers,  \* goroutines calling lockContext
  Keys,     \* session, candidate or path keys
  Entries,  \* keyedLockEntry values, allocated afresh and reclaimed
  NoKey,
  NoEntry

ASSUME CallersFinite == IsFiniteSet(Callers)
ASSUME NoneAssumption == NoKey \notin Keys /\ NoEntry \notin Entries

VARIABLES
  table,  \* keyedLockTable.locks
  token,  \* whether the entry's channel holds its token
  refs,   \* keyedLockEntry.refs
  pc,     \* where each caller is in lockContext
  key,    \* the key it called with
  ent,    \* the entry it found or made
  ended   \* whether its context is done

vars == <<table, token, refs, pc, key, ent, ended>>

\* The table, the entries and the callers' positions in lockContext keep values
\* of their domains; in particular refs never goes below zero.
TypeOK ==
  /\ table \in [Keys -> Entries \cup {NoEntry}]
  /\ token \in [Entries -> BOOLEAN]
  /\ refs \in [Entries -> Nat]
  /\ pc \in [Callers -> {"idle", "check", "wait", "took", "hold", "release"}]
  /\ key \in [Callers -> Keys \cup {NoKey}]
  /\ ent \in [Callers -> Entries \cup {NoEntry}]
  /\ ended \in [Callers -> BOOLEAN]

Init ==
  /\ table = [k \in Keys |-> NoEntry]
  /\ token = [e \in Entries |-> FALSE]
  /\ refs = [e \in Entries |-> 0]
  /\ pc = [p \in Callers |-> "idle"]
  /\ key = [p \in Callers |-> NoKey]
  /\ ent = [p \in Callers |-> NoEntry]
  /\ ended = [p \in Callers |-> FALSE]

\* An entry nothing points to is not in use, or has been reclaimed.
Fresh(e) == (\A k \in Keys : table[k] # e) /\ (\A p \in Callers : ent[p] # e)

Counted(e, found) == IF found THEN refs[e] + 1 ELSE 1

\* Under the mutex: find or make the entry, and count a reference.
Refer(p, k) ==
  /\ pc[p] = "idle"
  /\ \E e \in Entries :
       /\ IF table[k] = NoEntry
            THEN /\ Fresh(e)
                 /\ table' = [table EXCEPT ![k] = e]
                 /\ token' = [token EXCEPT ![e] = TRUE]
            ELSE /\ e = table[k]
                 /\ UNCHANGED <<table, token>>
       /\ refs' = [refs EXCEPT ![e] = Counted(e, table[k] # NoEntry)]
       /\ ent' = [ent EXCEPT ![p] = e]
  /\ key' = [key EXCEPT ![p] = k]
  /\ pc' = [pc EXCEPT ![p] = "check"]
  /\ ended' = [ended EXCEPT ![p] = FALSE]

ContextEnds(p) ==
  /\ pc[p] # "idle"
  /\ ~ended[p]
  /\ ended' = [ended EXCEPT ![p] = TRUE]
  /\ UNCHANGED <<table, token, refs, pc, key, ent>>

\* The check before waiting, and ctx.Done() in the select.
CheckContext(p) ==
  /\ pc[p] = "check"
  /\ pc' = [pc EXCEPT ![p] = IF ended[p] THEN "release" ELSE "wait"]
  /\ UNCHANGED <<table, token, refs, key, ent, ended>>

StopWaiting(p) ==
  /\ pc[p] = "wait"
  /\ ended[p]
  /\ pc' = [pc EXCEPT ![p] = "release"]
  /\ UNCHANGED <<table, token, refs, key, ent, ended>>

\* The select may take the token though the context is done as well.
TakeToken(p) ==
  /\ pc[p] = "wait"
  /\ token[ent[p]]
  /\ token' = [token EXCEPT ![ent[p]] = FALSE]
  /\ pc' = [pc EXCEPT ![p] = "took"]
  /\ UNCHANGED <<table, refs, key, ent, ended>>

Return(p) ==
  /\ pc[p] = "took"
  /\ ~ended[p]
  /\ pc' = [pc EXCEPT ![p] = "hold"]
  /\ UNCHANGED <<table, token, refs, key, ent, ended>>

\* The unlock function, which runs once, or the check after the token was
\* taken: the token goes back first, the reference after it.
GiveBack(p) ==
  /\ pc[p] = "hold" \/ (pc[p] = "took" /\ ended[p])
  /\ token' = [token EXCEPT ![ent[p]] = TRUE]
  /\ pc' = [pc EXCEPT ![p] = "release"]
  /\ UNCHANGED <<table, refs, key, ent, ended>>

\* Faulty: the entry goes although somebody still waits for its token.
FaultyDropped(p) == [table EXCEPT ![key[p]] = NoEntry]
\* Faulty: the entry is never dropped.
FaultyKept(p) == table
\* The entry goes with its last reference.
Dropped(p) ==
  IF refs[ent[p]] = 1 /\ table[key[p]] = ent[p]
    THEN [table EXCEPT ![key[p]] = NoEntry] ELSE table

\* releaseReference, under the mutex.
ReleaseReference(p) ==
  /\ pc[p] = "release"
  /\ table' = Dropped(p)
  /\ refs' = [refs EXCEPT ![ent[p]] = @ - 1]
  /\ pc' = [pc EXCEPT ![p] = "idle"]
  /\ key' = [key EXCEPT ![p] = NoKey]
  /\ ent' = [ent EXCEPT ![p] = NoEntry]
  /\ UNCHANGED <<token, ended>>

Next ==
  \E p \in Callers :
    \/ \E k \in Keys : Refer(p, k)
    \/ ContextEnds(p) \/ CheckContext(p) \/ StopWaiting(p)
    \/ TakeToken(p) \/ Return(p) \/ GiveBack(p) \/ ReleaseReference(p)

Spec == Init /\ [][Next]_vars

\* A caller's steps are its own to take, and a holder unlocks.  A channel hands
\* its value to the receiver that waited longest, so a caller that keeps
\* waiting for a token that keeps coming back gets it.
Fairness ==
  \A p \in Callers :
    /\ WF_vars(CheckContext(p) \/ Return(p) \/ GiveBack(p) \/ ReleaseReference(p))
    /\ WF_vars(StopWaiting(p))
    /\ SF_vars(TakeToken(p))

-----------------------------------------------------------------------------
Holding(p) == pc[p] \in {"took", "hold"}

\* The table keeps its promise of mutual exclusion per key although entries are
\* dropped and made anew while callers come, wait and give up.
Mutex == INSTANCE KeyedMutex WITH
  holding <- [p \in Callers |-> IF Holding(p) THEN key[p] ELSE NoKey]
ImplementsMutex == Mutex!Spec

\* "Entries are reference-counted and dropped when nobody holds or wants them":
\* every entry of the map is referred to by a caller that called with its key.
NothingLeaks ==
  \A k \in Keys : table[k] # NoEntry =>
    \E p \in Callers : pc[p] # "idle" /\ key[p] = k /\ ent[p] = table[k]

\* Giving a token back never blocks: the channel's one place is empty as long
\* as somebody has the token.
PlaceForToken ==
  \A p \in Callers : Holding(p) => ~token[ent[p]]

\* The table is exact: values keep their types, no entry outlives its callers, and
\* the place of a token somebody has is empty.
TableExact == TypeOK /\ NothingLeaks /\ PlaceForToken

\* A caller waiting for a key gets the token or gives up with its context.
NobodyStarves ==
  \A p \in Callers : pc[p] = "wait" ~> pc[p] \in {"took", "release"}

-----------------------------------------------------------------------------
(***************************************************************************)
(* Proofs, for any number of callers, keys and entries.                    *)
(*                                                                         *)
(* Mutual exclusion per key needs two facts that are not about holding at  *)
(* all.  A caller's entry stays the one the table has under its key as     *)
(* long as the caller refers to it (Attached), so that two callers of one  *)
(* key compete for one token.  And that rests on the count being exact     *)
(* (RefsExact): the entry is dropped only when the last caller lets go.    *)
(***************************************************************************)

Users(e) == {p \in Callers : ent[p] = e}

\* refs counts exactly the callers between Refer and ReleaseReference.
RefsExact == \A e \in Entries : refs[e] = Cardinality(Users(e))

\* A caller inside lockContext, or holding the lock, refers to the entry the
\* table has under its key; one outside refers to none.
Attached ==
  \A p \in Callers :
    IF pc[p] = "idle" THEN ent[p] = NoEntry /\ key[p] = NoKey
    ELSE key[p] \in Keys /\ ent[p] \in Entries /\ table[key[p]] = ent[p]

\* Two keys never share an entry.
OneKey == \A j, k \in Keys : table[j] = table[k] /\ table[j] # NoEntry => j = k

\* An entry's token is with one caller at most, and then not in its channel.
OneToken ==
  \A p, q \in Callers : Holding(p) /\ Holding(q) /\ ent[p] = ent[q] => p = q

IInv ==
  TypeOK /\ RefsExact /\ Attached /\ OneKey /\ NothingLeaks /\ OneToken /\ PlaceForToken

-----------------------------------------------------------------------------
\* The callers of an entry can be counted, so refs can be compared with them.
LEMMA UsersFinite == \A e : IsFiniteSet(Users(e)) /\ Cardinality(Users(e)) \in Nat
  <1> TAKE e
  <1>1. Users(e) \subseteq Callers  BY DEF Users
  <1>2. IsFiniteSet(Users(e))  BY <1>1, CallersFinite, FS_Subset
  <1> QED  BY <1>2, FS_CardinalityType

\* An empty table (newKeyedLockTable) satisfies the inductive invariant.
LEMMA Initially == Init => IInv
  <1> SUFFICES ASSUME Init PROVE IInv  OBVIOUS
  <1> USE NoneAssumption DEF Init
  <1>1. TypeOK  BY DEF TypeOK
  <1>2. RefsExact
    <2> SUFFICES ASSUME NEW e \in Entries PROVE Cardinality(Users(e)) = 0
      BY DEF RefsExact
    <2>1. Users(e) = {}  BY DEF Users
    <2> QED  BY <2>1, FS_EmptySet
  <1>3. Attached /\ OneKey /\ NothingLeaks
    BY DEF Attached, OneKey, NothingLeaks
  <1>4. OneToken /\ PlaceForToken  BY DEF OneToken, PlaceForToken, Holding
  <1> QED  BY <1>1, <1>2, <1>3, <1>4 DEF IInv

\* A step that moves one caller from one place inside lockContext to another,
\* and no reference, leaves what is said of references alone.
LEMMA MoveKeepsReferences ==
  ASSUME IInv, NEW p \in Callers, pc[p] # "idle",
         NEW place \in {"check", "wait", "took", "hold", "release"},
         pc' = [pc EXCEPT ![p] = place], UNCHANGED <<table, refs, key, ent>>
  PROVE  RefsExact' /\ Attached' /\ OneKey' /\ NothingLeaks'
  <1>1. \A q \in Callers : (pc'[q] = "idle") <=> (pc[q] = "idle")  BY DEF IInv, TypeOK
  <1>2. RefsExact'
    <2>1. \A e : Users(e)' = Users(e)  BY DEF Users
    <2> QED  BY <2>1 DEF IInv, RefsExact
  <1>3. Attached'
    <2> SUFFICES ASSUME NEW q \in Callers
                 PROVE  IF pc'[q] = "idle" THEN ent'[q] = NoEntry /\ key'[q] = NoKey
                        ELSE key'[q] \in Keys /\ ent'[q] \in Entries /\ table'[key'[q]] = ent'[q]
      BY DEF Attached
    <2> QED  BY <1>1 DEF IInv, Attached
  <1>4. OneKey'  BY DEF IInv, OneKey
  <1>5. NothingLeaks'
    <2> SUFFICES ASSUME NEW k \in Keys, table'[k] # NoEntry
                 PROVE  \E q \in Callers : pc'[q] # "idle" /\ key'[q] = k /\ ent'[q] = table'[k]
      BY DEF NothingLeaks
    <2>1. PICK q \in Callers : pc[q] # "idle" /\ key[q] = k /\ ent[q] = table[k]
      BY DEF IInv, NothingLeaks
    <2> QED  BY <2>1, <1>1
  <1> QED  BY <1>2, <1>3, <1>4, <1>5

\* Finding or making an entry under the mutex preserves the invariant: a found
\* entry gains one reference, a new one starts with one and with its token.
LEMMA ReferKeeps ==
  ASSUME IInv, NEW p \in Callers, NEW k \in Keys, Refer(p, k)
  PROVE  IInv'
  <1> USE NoneAssumption
  <1>0. TypeOK /\ RefsExact /\ Attached /\ OneKey /\ NothingLeaks /\ OneToken /\ PlaceForToken
    BY DEF IInv
  <1>1. PICK e \in Entries :
          /\ IF table[k] = NoEntry
               THEN /\ Fresh(e)
                    /\ table' = [table EXCEPT ![k] = e]
                    /\ token' = [token EXCEPT ![e] = TRUE]
               ELSE /\ e = table[k]
                    /\ UNCHANGED <<table, token>>
          /\ refs' = [refs EXCEPT ![e] = Counted(e, table[k] # NoEntry)]
          /\ ent' = [ent EXCEPT ![p] = e]
    BY Zenon DEF Refer
  <1>2. pc[p] = "idle" /\ pc' = [pc EXCEPT ![p] = "check"] /\ key' = [key EXCEPT ![p] = k]
        /\ ended' = [ended EXCEPT ![p] = FALSE]
    BY DEF Refer
  <1>3. refs[e] \in Nat  BY <1>0 DEF TypeOK
  <1>4. Counted(e, table[k] # NoEntry) \in Nat  BY <1>3 DEF Counted
  <1>5. TypeOK'
    <2>1. table' \in [Keys -> Entries \cup {NoEntry}] /\ token' \in [Entries -> BOOLEAN]
      BY <1>0, <1>1, Zenon DEF TypeOK
    <2>2. refs' \in [Entries -> Nat]  BY <1>0, <1>1, <1>4 DEF TypeOK
    <2>3. ent' \in [Callers -> Entries \cup {NoEntry}]  BY <1>0, <1>1 DEF TypeOK
    <2>4. pc' \in [Callers -> {"idle", "check", "wait", "took", "hold", "release"}]
      BY <1>0, <1>2 DEF TypeOK
    <2>5. key' \in [Callers -> Keys \cup {NoKey}] /\ ended' \in [Callers -> BOOLEAN]
      BY <1>0, <1>2 DEF TypeOK
    <2> QED  BY <2>1, <2>2, <2>3, <2>4, <2>5 DEF TypeOK
  <1>6. ent[p] = NoEntry  BY <1>0, <1>2 DEF Attached
  <1>7. RefsExact'
    <2> SUFFICES ASSUME NEW f \in Entries PROVE refs'[f] = Cardinality(Users(f)')
      BY DEF RefsExact
    <2>1. CASE f # e
      <3>1. Users(f)' = Users(f)  BY <2>1, <1>0, <1>1, <1>6 DEF Users, TypeOK
      <3> QED  BY <3>1, <2>1, <1>0, <1>1 DEF RefsExact, TypeOK
    <2>2. CASE f = e
      <3>1. Users(f)' = Users(f) \cup {p}  BY <2>2, <1>0, <1>1 DEF Users, TypeOK
      <3>2. p \notin Users(f)  BY <1>6 DEF Users
      <3>3. Cardinality(Users(f)') = Cardinality(Users(f)) + 1
        BY Zenon, <3>1, <3>2, UsersFinite, FS_AddElement
      <3>4. refs'[f] = Counted(e, table[k] # NoEntry)  BY <2>2, <1>0, <1>1 DEF TypeOK
      <3>5. refs[f] = Cardinality(Users(f))  BY <1>0 DEF RefsExact
      <3>6. CASE table[k] # NoEntry  BY <3>3, <3>4, <3>5, <3>6, <2>2 DEF Counted
      <3>7. CASE table[k] = NoEntry
        <4>1. Users(f) = {}  BY <3>7, <2>2, <1>1 DEF Fresh, Users
        <4>2. Cardinality(Users(f)) = 0  BY <4>1, FS_EmptySet
        <4> QED  BY <4>2, <3>3, <3>4, <3>7 DEF Counted
      <3> QED  BY <3>6, <3>7
    <2> QED  BY <2>1, <2>2
  <1>8. table'[k] = e  BY <1>0, <1>1 DEF TypeOK
  <1>9. \A j \in Keys : j # k => table'[j] = table[j]  BY <1>0, <1>1 DEF TypeOK
  <1>10. Attached'
    <2> SUFFICES ASSUME NEW q \in Callers
                 PROVE  IF pc'[q] = "idle" THEN ent'[q] = NoEntry /\ key'[q] = NoKey
                        ELSE key'[q] \in Keys /\ ent'[q] \in Entries /\ table'[key'[q]] = ent'[q]
      BY DEF Attached
    <2>1. CASE q = p
      <3>1. pc'[p] = "check" /\ key'[p] = k /\ ent'[p] = e  BY <1>0, <1>1, <1>2 DEF TypeOK
      <3> QED  BY <3>1, <2>1, <1>8
    <2>2. CASE q # p
      <3>1. pc'[q] = pc[q] /\ key'[q] = key[q] /\ ent'[q] = ent[q]
        BY <2>2, <1>0, <1>1, <1>2 DEF TypeOK
      <3>2. ASSUME pc[q] # "idle" PROVE table'[key[q]] = table[key[q]]
        <4>1. key[q] \in Keys /\ table[key[q]] \in Entries  BY <3>2, <1>0 DEF Attached
        <4> QED  BY <4>1, <1>1, <1>9
      <3> QED  BY <3>1, <3>2, <1>0 DEF Attached
    <2> QED  BY <2>1, <2>2
  <1>11. OneKey'
    <2>1. CASE table[k] # NoEntry  BY <2>1, <1>0, <1>1 DEF OneKey
    <2>2. CASE table[k] = NoEntry
      <3>1. \A j \in Keys : table[j] # e  BY <2>2, <1>1 DEF Fresh
      <3> QED  BY <3>1, <1>8, <1>9, <1>0 DEF OneKey
    <2> QED  BY <2>1, <2>2
  <1>12. NothingLeaks'
    <2> SUFFICES ASSUME NEW j \in Keys, table'[j] # NoEntry
                 PROVE  \E q \in Callers : pc'[q] # "idle" /\ key'[q] = j /\ ent'[q] = table'[j]
      BY DEF NothingLeaks
    <2>1. CASE j = k
      <3>1. pc'[p] = "check" /\ key'[p] = k /\ ent'[p] = e  BY <1>0, <1>1, <1>2 DEF TypeOK
      <3> QED  BY <3>1, <2>1, <1>8
    <2>2. CASE j # k
      <3>1. PICK q \in Callers : pc[q] # "idle" /\ key[q] = j /\ ent[q] = table[j]
        BY <2>2, <1>9, <1>0 DEF NothingLeaks
      <3>2. q # p  BY <3>1, <1>2
      <3>3. pc'[q] = pc[q] /\ key'[q] = key[q] /\ ent'[q] = ent[q]
        BY <3>2, <1>0, <1>1, <1>2 DEF TypeOK
      <3> QED  BY <3>1, <3>3, <2>2, <1>9
    <2> QED  BY <2>1, <2>2
  <1>13. \A q \in Callers : Holding(q)' => q # p /\ Holding(q) /\ ent'[q] = ent[q]
    BY <1>0, <1>1, <1>2 DEF Holding, TypeOK
  <1>14. OneToken'  BY <1>13, <1>0 DEF OneToken
  <1>15. PlaceForToken'
    <2> SUFFICES ASSUME NEW q \in Callers, Holding(q)' PROVE ~token'[ent'[q]]
      BY DEF PlaceForToken
    <2>1. Holding(q) /\ ent'[q] = ent[q]  BY <1>13
    <2>2. ~token[ent[q]]  BY <2>1, <1>0 DEF PlaceForToken
    <2>3. CASE table[k] # NoEntry  BY <2>1, <2>2, <2>3, <1>1
    <2>4. CASE table[k] = NoEntry
      <3>1. ent[q] # e  BY <2>4, <1>1 DEF Fresh
      <3>2. pc[q] # "idle"  BY <2>1 DEF Holding
      <3>3. ent[q] \in Entries  BY <3>2, <1>0 DEF Attached
      <3>4. token'[ent[q]] = token[ent[q]]  BY <3>1, <3>3, <2>4, <1>0, <1>1 DEF TypeOK
      <3> QED  BY <3>4, <2>1, <2>2
    <2> QED  BY <2>3, <2>4
  <1> QED  BY <1>5, <1>7, <1>10, <1>11, <1>12, <1>14, <1>15 DEF IInv

\* releaseReference preserves the invariant: the entry leaves the table exactly
\* when its last user does.
LEMMA ReleaseReferenceKeeps ==
  ASSUME IInv, NEW p \in Callers, ReleaseReference(p)
  PROVE  IInv'
  <1> USE NoneAssumption
  <1>0. TypeOK /\ RefsExact /\ Attached /\ OneKey /\ NothingLeaks /\ OneToken /\ PlaceForToken
    BY DEF IInv
  <1>1. PICK k \in Keys, e \in Entries : k = key[p] /\ e = ent[p] /\ table[k] = e
    BY <1>0 DEF Attached, ReleaseReference
  <1>2. /\ pc[p] = "release" /\ pc' = [pc EXCEPT ![p] = "idle"]
        /\ key' = [key EXCEPT ![p] = NoKey] /\ ent' = [ent EXCEPT ![p] = NoEntry]
        /\ table' = Dropped(p) /\ refs' = [refs EXCEPT ![e] = @ - 1]
        /\ UNCHANGED <<token, ended>>
    BY <1>1 DEF ReleaseReference
  <1>3. /\ pc'[p] = "idle" /\ key'[p] = NoKey /\ ent'[p] = NoEntry
        /\ \A q \in Callers : q # p =>
             pc'[q] = pc[q] /\ key'[q] = key[q] /\ ent'[q] = ent[q]
    BY <1>0, <1>2 DEF TypeOK
  <1>4. p \in Users(e) /\ refs[e] = Cardinality(Users(e))  BY <1>0, <1>1 DEF Users, RefsExact
  <1>5. /\ Users(e)' = Users(e) \ {p}
        /\ \A f \in Entries : f # e => Users(f)' = Users(f)
    BY <1>1, <1>3 DEF Users
  <1>6. Cardinality(Users(e) \ {p}) = Cardinality(Users(e)) - 1
        /\ Cardinality(Users(e) \ {p}) \in Nat
    BY <1>4, UsersFinite, FS_RemoveElement, FS_CardinalityType
  <1>7. refs[e] - 1 \in Nat  BY <1>4, <1>6
  <1>8. Dropped(p) = IF refs[e] = 1 THEN [table EXCEPT ![k] = NoEntry] ELSE table
    BY <1>1 DEF Dropped
  <1>9. \A j \in Keys : j # k => table'[j] = table[j]  BY <1>0, <1>2, <1>8 DEF TypeOK
  <1>10. refs[e] = 1 => \A q \in Callers : q # p => ent[q] # e
    <2> SUFFICES ASSUME refs[e] = 1, NEW q \in Callers, q # p, ent[q] = e PROVE FALSE
      OBVIOUS
    <2>1. Cardinality(Users(e) \ {p}) = 0  BY <1>4, <1>6
    <2>2. IsFiniteSet(Users(e) \ {p})  BY UsersFinite, <1>4, FS_RemoveElement
    <2>3. Users(e) \ {p} = {}  BY <2>1, <2>2, FS_EmptySet
    <2> QED  BY <2>3 DEF Users
  <1>11. refs[e] # 1 => \E q \in Callers : q # p /\ ent[q] = e
    <2> SUFFICES ASSUME \A q \in Callers : q # p => ent[q] # e PROVE refs[e] = 1
      OBVIOUS
    <2>1. Users(e) \ {p} = {}  BY DEF Users
    <2>2. Cardinality(Users(e) \ {p}) = 0  BY <2>1, FS_EmptySet
    <2> QED  BY <2>2, <1>4, <1>6, UsersFinite
  <1>12. TypeOK'
    <2>1. table' \in [Keys -> Entries \cup {NoEntry}]  BY <1>0, <1>2, <1>8 DEF TypeOK
    <2>2. refs' \in [Entries -> Nat]  BY <1>0, <1>2, <1>1, <1>7 DEF TypeOK
    <2>3. pc' \in [Callers -> {"idle", "check", "wait", "took", "hold", "release"}]
      BY <1>0, <1>2 DEF TypeOK
    <2>4. key' \in [Callers -> Keys \cup {NoKey}] /\ ent' \in [Callers -> Entries \cup {NoEntry}]
      BY <1>0, <1>2 DEF TypeOK
    <2>5. token' \in [Entries -> BOOLEAN] /\ ended' \in [Callers -> BOOLEAN]
      BY <1>0, <1>2 DEF TypeOK
    <2> QED  BY <2>1, <2>2, <2>3, <2>4, <2>5 DEF TypeOK
  <1>13. RefsExact'
    <2> SUFFICES ASSUME NEW f \in Entries PROVE refs'[f] = Cardinality(Users(f)')
      BY DEF RefsExact
    <2>1. CASE f # e
      <3>1. refs'[f] = refs[f]  BY <2>1, <1>0, <1>2 DEF TypeOK
      <3> QED  BY <3>1, <2>1, <1>0, <1>5 DEF RefsExact
    <2>2. CASE f = e
      <3>1. refs'[e] = refs[e] - 1  BY <1>0, <1>2, <1>1 DEF TypeOK
      <3> QED  BY <3>1, <2>2, <1>4, <1>5, <1>6
    <2> QED  BY <2>1, <2>2
  <1>14. Attached'
    <2> SUFFICES ASSUME NEW q \in Callers
                 PROVE  IF pc'[q] = "idle" THEN ent'[q] = NoEntry /\ key'[q] = NoKey
                        ELSE key'[q] \in Keys /\ ent'[q] \in Entries /\ table'[key'[q]] = ent'[q]
      BY DEF Attached
    <2>1. CASE q = p  BY <2>1, <1>3
    <2>2. CASE q # p /\ pc[q] = "idle"  BY <2>2, <1>0, <1>3 DEF Attached
    <2>3. CASE q # p /\ pc[q] # "idle"
      <3>1. key[q] \in Keys /\ ent[q] \in Entries /\ table[key[q]] = ent[q]
        BY <2>3, <1>0 DEF Attached
      <3>2. table'[key[q]] = table[key[q]]
        <4>1. CASE key[q] # k  BY <4>1, <3>1, <1>9
        <4>2. CASE key[q] = k
          <5>1. ent[q] = e  BY <4>2, <3>1, <1>1
          <5>2. refs[e] # 1  BY <5>1, <2>3, <1>10
          <5> QED  BY <5>2, <1>2, <1>8
        <4> QED  BY <4>1, <4>2
      <3> QED  BY <3>1, <3>2, <2>3, <1>3
    <2> QED  BY <2>1, <2>2, <2>3
  <1>15. OneKey'
    <2>1. \A j \in Keys : table'[j] = NoEntry \/ table'[j] = table[j]
      BY <1>0, <1>2, <1>8 DEF TypeOK
    <2> QED  BY <2>1, <1>0 DEF OneKey
  <1>16. NothingLeaks'
    <2> SUFFICES ASSUME NEW j \in Keys, table'[j] # NoEntry
                 PROVE  \E q \in Callers : pc'[q] # "idle" /\ key'[q] = j /\ ent'[q] = table'[j]
      BY DEF NothingLeaks
    <2>1. CASE j # k
      <3>1. PICK q \in Callers : pc[q] # "idle" /\ key[q] = j /\ ent[q] = table[j]
        BY <2>1, <1>9, <1>0 DEF NothingLeaks
      <3>2. q # p  BY <3>1, <2>1, <1>1
      <3> QED  BY <3>1, <3>2, <2>1, <1>3, <1>9
    <2>2. CASE j = k
      <3>1. refs[e] # 1 /\ table' = table  BY <2>2, <1>0, <1>2, <1>1, <1>8 DEF TypeOK
      <3>2. PICK q \in Callers : q # p /\ ent[q] = e  BY <3>1, <1>11
      <3>3. pc[q] # "idle"  BY <3>2, <1>1, <1>0 DEF Attached
      <3>4. key[q] \in Keys /\ table[key[q]] = e  BY <3>2, <3>3, <1>0 DEF Attached
      <3>5. key[q] = k  BY <3>4, <1>1, <1>0 DEF OneKey
      <3> QED  BY <3>1, <3>2, <3>3, <3>5, <2>2, <1>1, <1>3
    <2> QED  BY <2>1, <2>2
  <1>17. \A q \in Callers : Holding(q)' => q # p /\ Holding(q) /\ ent'[q] = ent[q]
    BY <1>3 DEF Holding
  <1>18. OneToken' /\ PlaceForToken'
    BY <1>17, <1>0, <1>2 DEF OneToken, PlaceForToken
  <1> QED  BY <1>12, <1>13, <1>14, <1>15, <1>16, <1>18 DEF IInv

\* What the moves inside lockContext do to the token of their entry.
LEMMA MovesKeep ==
  ASSUME IInv, NEW p \in Callers,
         CheckContext(p) \/ StopWaiting(p) \/ TakeToken(p) \/ Return(p) \/ GiveBack(p)
  PROVE  IInv'
  <1>0. TypeOK /\ Attached /\ OneToken /\ PlaceForToken  BY DEF IInv
  <1>1. pc[p] # "idle" /\ UNCHANGED <<table, refs, key, ent, ended>>
    BY DEF CheckContext, StopWaiting, TakeToken, Return, GiveBack
  <1>2. ent[p] \in Entries  BY <1>0, <1>1 DEF Attached
  <1>3. PICK place \in {"check", "wait", "took", "hold", "release"} :
          pc' = [pc EXCEPT ![p] = place]
    BY DEF CheckContext, StopWaiting, TakeToken, Return, GiveBack
  <1>4. RefsExact' /\ Attached' /\ OneKey' /\ NothingLeaks'
    BY Zenon, <1>1, <1>3, MoveKeepsReferences
  <1>5. token' \in [Entries -> BOOLEAN]
    BY <1>0, Zenon DEF CheckContext, StopWaiting, TakeToken, Return, GiveBack, TypeOK
  <1>6. TypeOK'
    <2>1. pc' \in [Callers -> {"idle", "check", "wait", "took", "hold", "release"}]
      BY <1>0, <1>3 DEF TypeOK
    <2> QED  BY <2>1, <1>0, <1>1, <1>5 DEF TypeOK
  <1>7. \A q \in Callers : q # p => (Holding(q)' <=> Holding(q))
    BY <1>0, <1>3 DEF Holding, TypeOK
  <1>8. CASE TakeToken(p)
    <2>1. token[ent[p]] /\ token' = [token EXCEPT ![ent[p]] = FALSE]  BY <1>8 DEF TakeToken
    <2>2. \A q \in Callers : Holding(q) => ent[q] # ent[p]  BY <2>1, <1>0 DEF PlaceForToken
    <2>3. OneToken'  BY <2>2, <1>0, <1>1, <1>7 DEF OneToken
    <2>4. PlaceForToken'
      <3> SUFFICES ASSUME NEW q \in Callers, Holding(q)' PROVE ~token'[ent[q]]
        BY <1>1 DEF PlaceForToken
      <3>1. CASE q = p  BY <3>1, <2>1, <1>2, <1>0 DEF TypeOK
      <3>2. CASE q # p
        <4>1. Holding(q) /\ pc[q] # "idle"  BY <3>2, <1>7 DEF Holding
        <4>2. ent[q] \in Entries /\ ent[q] # ent[p]  BY <4>1, <2>2, <1>0 DEF Attached
        <4>3. token'[ent[q]] = token[ent[q]]  BY <4>2, <2>1, <1>0 DEF TypeOK
        <4> QED  BY <4>1, <4>3, <1>0 DEF PlaceForToken
      <3> QED  BY <3>1, <3>2
    <2> QED  BY <2>3, <2>4, <1>4, <1>6 DEF IInv
  <1>9. CASE GiveBack(p)
    <2>1. Holding(p) /\ token' = [token EXCEPT ![ent[p]] = TRUE] /\ pc' = [pc EXCEPT ![p] = "release"]
      BY <1>9 DEF GiveBack, Holding
    <2>2. ~Holding(p)'  BY <2>1, <1>0 DEF Holding, TypeOK
    <2>3. OneToken'  BY <2>2, <1>0, <1>1, <1>7 DEF OneToken
    <2>4. PlaceForToken'
      <3> SUFFICES ASSUME NEW q \in Callers, Holding(q)' PROVE ~token'[ent[q]]
        BY <1>1 DEF PlaceForToken
      <3>1. q # p /\ Holding(q)  BY <2>2, <1>7
      <3>2. pc[q] # "idle"  BY <3>1 DEF Holding
      <3>3. ent[q] # ent[p]  BY <3>1, <2>1, <1>0 DEF OneToken
      <3>4. ent[q] \in Entries  BY <3>2, <1>0 DEF Attached
      <3>5. token'[ent[q]] = token[ent[q]]  BY <3>3, <3>4, <2>1, <1>0 DEF TypeOK
      <3> QED  BY <3>1, <3>5, <1>0 DEF PlaceForToken
    <2> QED  BY <2>3, <2>4, <1>4, <1>6 DEF IInv
  <1>10. CASE CheckContext(p) \/ StopWaiting(p) \/ Return(p)
    <2>1. token' = token  BY <1>10 DEF CheckContext, StopWaiting, Return
    <2>2. Holding(p)' => Holding(p)
      BY <1>10, <1>0 DEF CheckContext, StopWaiting, Return, Holding, TypeOK
    <2>3. OneToken' /\ PlaceForToken'
      BY <2>1, <2>2, <1>0, <1>1, <1>7 DEF OneToken, PlaceForToken
    <2> QED  BY <2>3, <1>4, <1>6 DEF IInv
  <1> QED  BY <1>8, <1>9, <1>10

\* The end of a context changes nothing the invariant speaks of.
LEMMA ContextEndsKeeps ==
  ASSUME IInv, NEW p \in Callers, ContextEnds(p)
  PROVE  IInv'
  <1>1. UNCHANGED <<table, token, refs, pc, key, ent>>
        /\ ended' = [ended EXCEPT ![p] = TRUE]
    BY DEF ContextEnds
  <1>2. TypeOK'  BY <1>1 DEF IInv, TypeOK
  <1>3. \A e : Users(e)' = Users(e)  BY <1>1 DEF Users
  <1>4. RefsExact'  BY <1>1, <1>3 DEF IInv, RefsExact
  <1>5. Attached' /\ OneKey' /\ NothingLeaks'
    BY <1>1 DEF IInv, Attached, OneKey, NothingLeaks
  <1>6. OneToken' /\ PlaceForToken'
    BY <1>1 DEF IInv, OneToken, PlaceForToken, Holding
  <1> QED  BY <1>2, <1>4, <1>5, <1>6 DEF IInv

\* Every step of every caller preserves the inductive invariant.
LEMMA StepKeeps == IInv /\ [Next]_vars => IInv'
  <1> SUFFICES ASSUME IInv, [Next]_vars PROVE IInv'  OBVIOUS
  <1>1. CASE UNCHANGED vars
    <2>1. \A e : Users(e)' = Users(e)  BY <1>1 DEF Users, vars
    <2>2. RefsExact'  BY <2>1, <1>1 DEF IInv, RefsExact, vars
    <2> QED
      BY <2>2, <1>1 DEF IInv, TypeOK, Attached, OneKey, NothingLeaks, OneToken,
                        PlaceForToken, Holding, vars
  <1>2. CASE Next
    <2>1. PICK p \in Callers :
            \/ \E k \in Keys : Refer(p, k)
            \/ ContextEnds(p)
            \/ CheckContext(p) \/ StopWaiting(p) \/ TakeToken(p) \/ Return(p) \/ GiveBack(p)
            \/ ReleaseReference(p)
      BY <1>2 DEF Next
    <2> QED  BY <2>1, ReferKeeps, ContextEndsKeeps, MovesKeep, ReleaseReferenceKeeps
  <1> QED  BY <1>1, <1>2

\* The table's bookkeeping is right in every reachable state, whatever the
\* order in which callers of lockContext come, wait, give up and let go.
THEOREM Inductive == Spec => []IInv
  BY Initially, StepKeeps, PTL DEF Spec

\* The lock table is exact: releaseReference never takes a count below zero and
\* drops every entry nobody refers to any more, and the unlock function of
\* lockContext never blocks on a full channel.
THEOREM TableStaysExact == Spec => []TableExact
  BY Inductive, PTL DEF IInv, TableExact

-----------------------------------------------------------------------------
Held == [p \in Callers |-> IF Holding(p) THEN key[p] ELSE NoKey]

\* At the start nobody holds any key, as the abstract mutex demands.
LEMMA HeldInitially == Init => Mutex!Init
  BY DEF Init, Mutex!Init, Holding

\* A step that changes neither who holds nor which key changes no mutex.
LEMMA HeldUnchanged ==
  ASSUME \A q \in Callers : (Holding(q)' <=> Holding(q)) /\ (Holding(q) => key'[q] = key[q])
  PROVE  Held' = Held
  BY DEF Held

\* Every step of the table is a step of the abstract mutex or none: TakeToken
\* acquires a free key, GiveBack releases it.
LEMMA StepSimulates == IInv /\ [Next]_vars => [Mutex!Next]_Held
  <1> SUFFICES ASSUME IInv, [Next]_vars PROVE Mutex!Next \/ Held' = Held  OBVIOUS
  <1> USE NoneAssumption
  <1>0. TypeOK /\ Attached /\ PlaceForToken  BY DEF IInv
  <1>1. CASE UNCHANGED vars  BY <1>1, HeldUnchanged DEF vars, Holding
  <1>2. CASE Next
    <2>1. PICK p \in Callers :
            \/ \E k \in Keys : Refer(p, k)
            \/ ContextEnds(p)
            \/ CheckContext(p) \/ StopWaiting(p) \/ TakeToken(p) \/ Return(p) \/ GiveBack(p)
            \/ ReleaseReference(p)
      BY <1>2 DEF Next
    <2>2. CASE \/ \E k \in Keys : Refer(p, k)
               \/ ContextEnds(p) \/ CheckContext(p) \/ StopWaiting(p) \/ Return(p)
               \/ ReleaseReference(p)
      <3>1. \A q \in Callers : (Holding(q)' <=> Holding(q)) /\ (Holding(q) => key'[q] = key[q])
        BY <2>2, <1>0 DEF Refer, ContextEnds, CheckContext, StopWaiting, Return,
                          ReleaseReference, Holding, TypeOK
      <3> QED  BY <3>1, HeldUnchanged
    <2>3. CASE TakeToken(p)
      <3>1. /\ pc[p] = "wait" /\ token[ent[p]] /\ pc' = [pc EXCEPT ![p] = "took"]
            /\ UNCHANGED <<key, ent>>
        BY <2>3 DEF TakeToken
      <3>2. PICK k \in Keys : k = key[p] /\ table[k] = ent[p]  BY <3>1, <1>0 DEF Attached
      <3>3. \A q \in Callers : Holding(q) => key[q] # k
        <4> SUFFICES ASSUME NEW q \in Callers, Holding(q), key[q] = k PROVE FALSE
          OBVIOUS
        <4>1. pc[q] # "idle"  BY DEF Holding
        <4>2. ent[q] = ent[p]  BY <4>1, <3>2, <1>0 DEF Attached
        <4> QED  BY <4>2, <3>1, <1>0 DEF PlaceForToken
      <3>4. Held[p] = NoKey  BY <3>1 DEF Held, Holding
      <3>5. \A q \in Callers : Held[q] # k  BY <3>2, <3>3 DEF Held
      <3>6. Held' = [Held EXCEPT ![p] = k]
        BY <3>1, <3>2, <1>0, Zenon DEF Held, Holding, TypeOK
      <3>7. Mutex!Lock(p, k)  BY <3>4, <3>5, <3>6 DEF Mutex!Lock, Held
      <3> QED  BY <3>2, <3>7 DEF Mutex!Next
    <2>4. CASE GiveBack(p)
      <3>1. Holding(p) /\ pc' = [pc EXCEPT ![p] = "release"] /\ UNCHANGED key
        BY <2>4 DEF GiveBack, Holding
      <3>2. pc[p] # "idle"  BY <3>1 DEF Holding
      <3>3. key[p] \in Keys  BY <3>2, <1>0 DEF Attached
      <3>4. Held[p] # NoKey  BY <3>1, <3>3 DEF Held
      <3>5. Held' = [Held EXCEPT ![p] = NoKey]  BY <3>1, <1>0, Zenon DEF Held, Holding, TypeOK
      <3>6. Mutex!Unlock(p)  BY <3>4, <3>5 DEF Mutex!Unlock, Held
      <3> QED  BY <3>6 DEF Mutex!Next
    <2> QED  BY <2>1, <2>2, <2>3, <2>4
  <1> QED  BY <1>1, <1>2

\* lockContext keeps its promise: between a successful return and the unlock no
\* other caller holds the same key, for any number of callers, keys and entries.
THEOREM Refinement == Spec => ImplementsMutex
  <1>1. Init => Mutex!Init  BY HeldInitially
  <1>2. IInv /\ [Next]_vars => [Mutex!Next]_Held  BY StepSimulates
  <1> QED  BY <1>1, <1>2, Inductive, PTL DEF Spec, ImplementsMutex, Mutex!Spec, Held
=============================================================================
