----------------------------- MODULE RunOutcomes -----------------------------
(***************************************************************************)
(* Migration 0017_run_outcomes                                              *)
(* (orchestrator-go/internal/db/run_outcomes_migration.go): every run the   *)
(* older versions stored gets a lifecycle, an outcome and proof of its       *)
(* answer, and every stored failure event loses its free text.  The tables  *)
(* are read in batches bounded in rows and bytes, all inside one            *)
(* transaction on a connection whose foreign keys are off meanwhile.        *)
(*                                                                          *)
(* A stored run is a record: its status and error code, whether a worker    *)
(* may still hold it, the message it names, whether that message says       *)
(* anything, whether its times can be read, and its size.                   *)
(***************************************************************************)
EXTENDS Integers, FiniteSets, FiniteSetsExt

CONSTANTS
  RowIds,      \* rowids, of runs and of events
  Msgs,        \* assistant messages
  Databases,   \* the stored tables: <<runs by rowid, events by rowid>>
  Owners,      \* which run each message names
  BatchRows,   \* runOutcomesBatchRows
  ByteBudget,  \* runOutcomesByteBudget
  MaxCrashes   \* the crashes of one behaviour

VARIABLES
  runs, events, owner,  \* the database before
  phase,
  cursor,               \* last rowid of the batches done
  derived,              \* run_outcomes_backfill
  newRuns, newEvents,   \* the tables as this transaction leaves them
  foreignKeys,          \* PRAGMA foreign_keys of the connection
  crashes

tx == <<cursor, derived, newRuns, newEvents>>
vars == <<runs, events, owner, phase, tx, foreignKeys, crashes>>

Gone == 0
NoMsg == 0
Terminal == {"completed", "failed", "cancelled"}
Empty == [r \in {} |-> 0]

NoTx == cursor = 0 /\ derived = Empty /\ newRuns = Empty /\ newEvents = Empty
Reset == cursor' = 0 /\ derived' = Empty /\ newRuns' = Empty /\ newEvents' = Empty

Init ==
  /\ \E db \in Databases : runs = db[1] /\ events = db[2]
  /\ \A e \in DOMAIN events : events[e].run \in DOMAIN runs \cup {Gone}
  /\ owner \in Owners
  /\ phase = "start" /\ NoTx /\ foreignKeys = TRUE /\ crashes = 0

(***************************************************************************)
(* The connection is pinned and its foreign keys are turned off.            *)
(***************************************************************************)
Pin ==
  /\ phase = "start"
  /\ foreignKeys' = FALSE
  /\ phase' = "unique"
  /\ UNCHANGED <<runs, events, owner, tx, crashes>>

(* An error: the transaction is rolled back and the keys are turned on again. *)
Refuse == phase' = "refused" /\ foreignKeys' = TRUE /\ Reset

(* requireUniqueRunMessageCorrelation *)
OneToOne ==
  /\ \A r, s \in DOMAIN runs : r # s /\ runs[r].msg # NoMsg => runs[r].msg # runs[s].msg
  /\ \A m, n \in Msgs : m # n /\ owner[m] # Gone => owner[m] # owner[n]

Unique ==
  /\ phase = "unique"
  /\ IF OneToOne THEN phase' = "backfill" /\ UNCHANGED <<tx, foreignKeys>> ELSE Refuse
  /\ UNCHANGED <<runs, events, owner, crashes>>

(***************************************************************************)
(* accumulateBatchBounds: rows after the cursor, in order, while they fit.  *)
(* The result is the last row of the batch, 0 for none, -1 for a row that   *)
(* is too large by itself.                                                  *)
(***************************************************************************)
Sum(rows, size) == MapThenSumSet(LAMBDA r : size[r].bytes, rows)
UpTo(rows, r) == {s \in rows : s <= r}
Fits(rows, size, r) == Cardinality(UpTo(rows, r)) <= BatchRows /\ Sum(UpTo(rows, r), size) <= ByteBudget

BatchEnd(size) ==
  LET rows == {r \in DOMAIN size : r > cursor}
      taken == {r \in rows : Fits(rows, size, r)}
      next == {r \in rows \ taken : Cardinality(UpTo(rows, r)) <= BatchRows
                                     /\ UpTo(rows, r) \ taken = {r}}
  IN  IF \E r \in next : size[r].bytes > ByteBudget THEN -1
      ELSE IF taken = {} THEN 0 ELSE Max(taken)

Batch(size, last) == {r \in DOMAIN size : cursor < r /\ r <= last
                        /\ Fits({s \in DOMAIN size : s > cursor}, size, r)}

(***************************************************************************)
(* deriveRunOutcome                                                         *)
(***************************************************************************)
Linked(r) == runs[r].msg # NoMsg /\ owner[runs[r].msg] = r

Lifecycle(r) ==
  LET run == runs[r]
  IN  CASE run.status \in {"queued", "completed", "cancelled"} -> run.status
        [] run.status = "failed" -> IF run.code = "client_cancelled" THEN "cancelled" ELSE "failed"
        [] run.status \in {"running", "waiting_approval"} -> IF run.held THEN "recovering" ELSE run.status
        [] OTHER -> "unclassifiable"

FailedReason(code) ==
  CASE code = "model_error" -> "provider_failure"
    [] code = "approval_denied" -> "policy_denied"
    [] OTHER -> "internal_failure"

Reason(r, says) ==
  CASE Lifecycle(r) = "completed" -> IF says THEN "none" ELSE "completed_no_content"
    [] Lifecycle(r) = "cancelled" -> "abandoned"
    [] Lifecycle(r) = "failed" -> FailedReason(runs[r].code)
    [] OTHER -> "none"


Derivable(r) ==
  /\ Lifecycle(r) # "unclassifiable"
  /\ Linked(r) \/ Lifecycle(r) \in Terminal
  /\ runs[r].time

Content(r) == IF Linked(r) THEN runs[r].msg ELSE NoMsg

Derive(r) ==
  LET answer == Content(r)
      says == answer # NoMsg /\ runs[r].says
  IN  [lifecycle |-> Lifecycle(r), reason |-> Reason(r, says), version |-> 1,
       says |-> says, answer |-> answer]

Backfill ==
  /\ phase = "backfill"
  /\ LET last == BatchEnd(runs)
         batch == Batch(runs, last)
     IN  IF last = 0 THEN phase' = "rebuild" /\ cursor' = 0 /\ UNCHANGED <<derived, newRuns, newEvents, foreignKeys>>
         ELSE IF last = -1 \/ \E r \in batch : ~Derivable(r) THEN Refuse
         ELSE /\ derived' = [r \in DOMAIN derived \cup batch |-> IF r \in batch THEN Derive(r) ELSE derived[r]]
              /\ cursor' = last
              /\ UNCHANGED <<phase, newRuns, newEvents, foreignKeys>>
  /\ UNCHANGED <<runs, events, owner, crashes>>

(* The SQL: the runs table is rebuilt from the derived rows, free text and   *)
(* unknown codes are scrubbed, and the unique indexes are made.             *)
Rebuild ==
  /\ phase = "rebuild"
  /\ newRuns' = derived /\ newEvents' = events
  /\ phase' = "events"
  /\ UNCHANGED <<runs, events, owner, cursor, derived, foreignKeys, crashes>>

(***************************************************************************)
(* rewriteFailureEventPayload                                               *)
(***************************************************************************)
Rewritten == {"run", "step", "identity"}

Version(e) == IF events[e].run = Gone THEN "absent" ELSE "stored"

IsNotice(ev) == ev.key

NoticeCounts(ev) == 1 <= ev.attempt /\ ev.attempt <= ev.max

RewriteEvent(e) ==
  LET ev == events[e]
  IN  CASE ev.type = "run" ->
             [kind |-> "state", raw |-> FALSE, version |-> Version(e), counts |-> FALSE]
        [] ev.type = "step" /\ IsNotice(ev) ->
             [kind |-> "notice", raw |-> FALSE, version |-> Version(e), counts |-> NoticeCounts(ev)]
        [] ev.type = "identity" ->
             [kind |-> "category", raw |-> FALSE, version |-> "absent", counts |-> FALSE]
        [] OTHER -> ev

Candidates == [e \in {d \in DOMAIN events : events[d].type \in Rewritten} |-> events[e]]

Rewrite ==
  /\ phase = "events"
  /\ LET last == BatchEnd(Candidates)
         batch == Batch(Candidates, last)
     IN  IF last = 0 THEN phase' = "verify" /\ UNCHANGED <<tx, foreignKeys>>
         ELSE IF last = -1 THEN Refuse
         ELSE /\ newEvents' = [e \in DOMAIN newEvents |-> IF e \in batch THEN RewriteEvent(e) ELSE newEvents[e]]
              /\ cursor' = last
              /\ UNCHANGED <<phase, derived, newRuns, foreignKeys>>
  /\ UNCHANGED <<runs, events, owner, crashes>>

Restored == TRUE

(* The checks of the new state, the record of the migration, the commit, and *)
(* the keys turned on again.  The keys that cannot be turned on close the    *)
(* database.                                                                 *)
Commit ==
  /\ phase = "verify"
  /\ \/ phase' = "done" /\ foreignKeys' = Restored
     \/ phase' = "unusable" /\ UNCHANGED foreignKeys
  /\ UNCHANGED <<runs, events, owner, tx, crashes>>

(* The process dies; a new one opens a new connection. *)
Crash ==
  /\ phase \notin {"done", "refused", "unusable"} /\ crashes < MaxCrashes
  /\ crashes' = crashes + 1
  /\ phase' = "start" /\ foreignKeys' = TRUE /\ Reset
  /\ UNCHANGED <<runs, events, owner>>

Next == Pin \/ Unique \/ Backfill \/ Rebuild \/ Rewrite \/ Commit \/ Crash
Spec == Init /\ [][Next]_vars

-----------------------------------------------------------------------------
(* The shape of the state: the rows up to the cursor, and no others, have    *)
(* been derived.                                                             *)
TypeOK ==
  /\ phase \in {"start", "unique", "backfill", "rebuild", "events", "verify", "done", "refused", "unusable"}
  /\ cursor \in RowIds \cup {0} /\ crashes \in 0 .. MaxCrashes
  /\ phase = "backfill" => DOMAIN derived = UpTo(DOMAIN runs, cursor)
  /\ phase \in {"events", "verify", "done"} => DOMAIN newRuns = DOMAIN runs
  /\ foreignKeys \in BOOLEAN

(* The migration refuses a database only for what is stored in it: a claim   *)
(* that is not one to one, a row no batch can hold, a time or a status that  *)
(* cannot be read, or unfinished work without a proven message.  Where a     *)
(* batch happens to end is never the reason.                                 *)
RefusedForCause ==
  phase = "refused" =>
    \/ ~OneToOne
    \/ \E r \in DOMAIN runs : runs[r].bytes > ByteBudget \/ ~runs[r].time \/ Lifecycle(r) = "unclassifiable"
    \/ \E e \in DOMAIN events : events[e].bytes > ByteBudget
    \/ \E r \in DOMAIN runs : runs[r].status \notin Terminal /\ ~(runs[r].msg # NoMsg /\ owner[runs[r].msg] = r)

(* Every unfinished run that is carried over can be finished: the message it *)
(* names names it back, as every later transition demands.                   *)
NoStrandedRun ==
  phase = "done" =>
    \A r \in DOMAIN runs : r \in DOMAIN newRuns /\
      (newRuns[r].lifecycle \notin Terminal => runs[r].msg # NoMsg /\ owner[runs[r].msg] = r)

(* No run is given the words of another: an answer is adopted only from a    *)
(* message that names the run, and no two runs adopt one.                    *)
NoBorrowedAnswer ==
  phase = "done" =>
    \A r \in DOMAIN newRuns : newRuns[r].answer # NoMsg =>
      /\ owner[newRuns[r].answer] = r
      /\ \A s \in DOMAIN newRuns : newRuns[s].answer = newRuns[r].answer => s = r

(* A database that goes on being used enforces its foreign keys. *)
KeysEnforced == phase \in {"start", "done", "refused"} => foreignKeys
=============================================================================
