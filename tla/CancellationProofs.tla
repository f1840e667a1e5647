------------------------ MODULE CancellationProofs ------------------------
(***************************************************************************)
(* What TLAPS shows of Cancellation, for any sets of runs, keys, callers   *)
(* and abandoning senders and any bounds: receipts are true and answers    *)
(* repeat them, and an ended run stays as it ended.                        *)
(***************************************************************************)
EXTENDS Cancellation, FiniteSetTheorems, TLAPS

\* A run is cancelled by somebody, and one that has not ended has room for one more
\* version; nothing is called released before it has ended.
RowsSound ==
    \A r \in Runs :
        /\ runs[r].by = "none" <=> runs[r].life # "cancelled"
        /\ ~Terminal(r) => runs[r].version <= MaxVersion /\ runs[r].active

\* An answer, given or under way, is the one its key's receipt holds.
AnswersMatch ==
    /\ \A x \in answers : x.result \in {"accepted", "terminal"} =>
           /\ receipt[x.key] # NoReceipt
           /\ receipt[x.key].run = x.run /\ receipt[x.key].version = x.version
           /\ receipt[x.key].accepted <=> x.result = "accepted"
    /\ \A c \in Callers : asked[c].pc \in {"notify", "read"} =>
           /\ receipt[asked[c].key] # NoReceipt
           /\ receipt[asked[c].key].run = asked[c].run /\ receipt[asked[c].key].version = asked[c].version
           /\ receipt[asked[c].key].accepted <=> asked[c].accepted

\* A worker works on what was sent to it, and not on what it says it has stopped.
WorkKnown ==
    \A r \in Runs :
        /\ work[r] = "working" => runs[r].sent
        /\ acks[r] # {} => work[r] # "working" /\ (runs[r].sent \/ Terminal(r))

IInv == TypeOK /\ RowsSound /\ AnswersMatch /\ StoppedOnce /\ WorkKnown /\ ReleasedAfterExit

-----------------------------------------------------------------------------
\* The state in which runs are first seen satisfies the invariant.
LEMMA Initially == Init => IInv
<1> SUFFICES ASSUME Init PROVE IInv
  OBVIOUS
<1> USE CancelAssumption DEF Init
<1>1. TypeOK
  BY DEF TypeOK, RunRows, Versions
<1>2. RowsSound /\ AnswersMatch /\ WorkKnown /\ ReleasedAfterExit
  BY DEF RowsSound, AnswersMatch, WorkKnown, ReleasedAfterExit, Terminal, NotCalling
<1>3. StoppedOnce
  <2>1. \A r \in Runs : StoppedBy(r) = {}
    BY DEF StoppedBy
  <2> QED
    BY <2>1, FS_EmptySet, Zenon DEF StoppedOnce
<1> QED
  BY <1>1, <1>2, <1>3 DEF IInv

-----------------------------------------------------------------------------
(* What is kept by steps that leave receipts and answers alone *)

\* Steps that touch neither receipts nor answers keep their agreement.
LEMMA AnswersKept ==
    ASSUME AnswersMatch, UNCHANGED <<receipt, answers, asked>>
    PROVE  AnswersMatch'
BY DEF AnswersMatch

\* So do steps that move one caller, if its answer under way is its key's.
LEMMA AskedKept ==
    ASSUME AnswersMatch, UNCHANGED <<receipt, answers>>, NEW c \in Callers,
           \A d \in Callers \ {c} : asked'[d] = asked[d],
           asked'[c].pc \in {"notify", "read"} =>
               /\ receipt[asked'[c].key] # NoReceipt
               /\ receipt[asked'[c].key].run = asked'[c].run
               /\ receipt[asked'[c].key].version = asked'[c].version
               /\ receipt[asked'[c].key].accepted <=> asked'[c].accepted
    PROVE  AnswersMatch'
<1>1. \A d \in Callers : asked'[d].pc \in {"notify", "read"} =>
           /\ receipt[asked'[d].key] # NoReceipt
           /\ receipt[asked'[d].key].run = asked'[d].run
           /\ receipt[asked'[d].key].version = asked'[d].version
           /\ receipt[asked'[d].key].accepted <=> asked'[d].accepted
  BY DEF AnswersMatch
<1> QED
  BY <1>1 DEF AnswersMatch

\* Steps that touch no receipt and stop no run for a person keep the count of stops.
LEMMA StopsKept ==
    ASSUME StoppedOnce, UNCHANGED <<receipt, audits>>,
           \A x \in Runs : runs'[x].by = "user" <=> runs[x].by = "user"
    PROVE  StoppedOnce'
<1>1. \A x \in Runs : StoppedBy(x)' = StoppedBy(x)
  BY DEF StoppedBy
<1>2. \A x \in Runs : Cardinality(StoppedBy(x))' = Cardinality(StoppedBy(x))
  BY <1>1
<1> QED
  BY <1>2 DEF StoppedOnce

\* What a step may do to the run it is about: its worker and receipts aside, an ended run
\* stays ended, a live one keeps room for a version.
RowOK(row) ==
    /\ row \in RunRows
    /\ row.by = "none" <=> row.life # "cancelled"
    /\ row.life \notin {"completed", "cancelled"} => row.version <= MaxVersion /\ row.active

\* The invariant says of every row that it is well formed.
LEMMA RowsAreOK ==
    ASSUME TypeOK, RowsSound
    PROVE  \A r \in Runs : RowOK(runs[r])
BY DEF TypeOK, RowsSound, RowOK, Terminal

\* Writing a well-formed row keeps all rows well formed.
LEMMA RowKept ==
    ASSUME TypeOK, RowsSound, NEW r \in Runs, NEW row, RowOK(row),
           runs' = [runs EXCEPT ![r] = row]
    PROVE  runs' \in [Runs -> RunRows] /\ RowsSound'
<1>1. runs' \in [Runs -> RunRows]
  BY DEF TypeOK, RowOK
<1>2. RowsSound'
  BY RowsAreOK DEF TypeOK, RowsSound, RowOK, Terminal
<1> QED
  BY <1>1, <1>2

-----------------------------------------------------------------------------
(* The run and its worker *)

\* A fence, a resume or a decision moves a run to its next version.
LEMMA MoveKeeps ==
    ASSUME IInv, NEW r \in Runs, Move(r)
    PROVE  IInv'
<1> USE CancelAssumption DEF Move, worker
<1>0. TypeOK /\ RowsSound /\ AnswersMatch /\ StoppedOnce /\ WorkKnown /\ ReleasedAfterExit
  BY DEF IInv
<1> DEFINE row == [runs[r] EXCEPT !.version = @ + 1]
<1>1. RowOK(row) /\ runs' = [runs EXCEPT ![r] = row]
  BY <1>0, RowsAreOK DEF RowOK, RunRows, Versions, Terminal
<1>2. runs' \in [Runs -> RunRows] /\ RowsSound'
  BY Zenon, <1>0, <1>1, RowKept
<1>3. \A x \in Runs : /\ runs'[x].by = runs[x].by /\ runs'[x].life = runs[x].life
                      /\ (runs'[x].sent <=> runs[x].sent) /\ (runs'[x].active <=> runs[x].active)
  BY <1>0 DEF TypeOK, RunRows
<1>4. TypeOK' /\ AnswersMatch'
  BY <1>0, <1>2, AnswersKept DEF TypeOK
<1>5. StoppedOnce'
  BY <1>0, <1>3, StopsKept
<1>6. WorkKnown' /\ ReleasedAfterExit'
  BY <1>0, <1>3 DEF WorkKnown, ReleasedAfterExit, Terminal
<1> QED
  BY <1>2, <1>4, <1>5, <1>6 DEF IInv

\* The worker is sent a run that has not ended.
LEMMA DeliverKeeps ==
    ASSUME IInv, NEW r \in Runs, Deliver(r)
    PROVE  IInv'
<1> USE CancelAssumption DEF Deliver
<1>0. TypeOK /\ RowsSound /\ AnswersMatch /\ StoppedOnce /\ WorkKnown /\ ReleasedAfterExit
  BY DEF IInv
<1> DEFINE row == [runs[r] EXCEPT !.sent = TRUE]
<1>1. RowOK(row) /\ runs' = [runs EXCEPT ![r] = row]
  BY <1>0, RowsAreOK, Zenon DEF RowOK, RunRows
<1>2. runs' \in [Runs -> RunRows] /\ RowsSound'
  BY Zenon, <1>0, <1>1, RowKept
<1>3. \A x \in Runs : /\ runs'[x].by = runs[x].by /\ runs'[x].life = runs[x].life
                      /\ (runs'[x].sent <=> x = r \/ runs[x].sent) /\ (runs'[x].active <=> runs[x].active)
  BY <1>0 DEF TypeOK, RunRows
<1>4. TypeOK' /\ AnswersMatch'
  BY <1>0, <1>2, AnswersKept DEF TypeOK
<1>5. StoppedOnce'
  BY <1>0, <1>3, StopsKept
<1>6. runs[r].active /\ acks[r] = {}
  BY <1>0 DEF RowsSound, WorkKnown
<1>7. WorkKnown' /\ ReleasedAfterExit'
  BY <1>0, <1>3, <1>6 DEF TypeOK, WorkKnown, ReleasedAfterExit, Terminal
<1> QED
  BY <1>2, <1>4, <1>5, <1>7 DEF IInv

\* A row of an ended run that is released stays well formed.
LEMMA Released ==
    ASSUME TypeOK, RowsSound, NEW r \in Runs, Terminal(r), runs' = [runs EXCEPT ![r].active = FALSE]
    PROVE  /\ runs' \in [Runs -> RunRows] /\ RowsSound'
           /\ \A x \in Runs : /\ runs'[x].by = runs[x].by /\ runs'[x].life = runs[x].life
                              /\ runs'[x].version = runs[x].version
                              /\ (runs'[x].sent <=> runs[x].sent)
                              /\ (runs'[x].active <=> x # r /\ runs[x].active)
<1> DEFINE row == [runs[r] EXCEPT !.active = FALSE]
<1>1. RowOK(row) /\ runs' = [runs EXCEPT ![r] = row]
  BY RowsAreOK, Zenon DEF RowOK, RunRows, Terminal
<1>2. runs' \in [Runs -> RunRows] /\ RowsSound'
  BY Zenon, <1>1, RowKept
<1>3. \A x \in Runs : /\ runs'[x].by = runs[x].by /\ runs'[x].life = runs[x].life
                      /\ runs'[x].version = runs[x].version
  BY DEF TypeOK, RunRows
<1>4. \A x \in Runs : (runs'[x].sent <=> runs[x].sent) /\ (runs'[x].active <=> x # r /\ runs[x].active)
  BY DEF TypeOK, RunRows
<1> QED
  BY <1>2, <1>3, <1>4
\* A live run that completes.
LEMMA Completes ==
    ASSUME TypeOK, RowsSound, NEW r \in Runs, ~Terminal(r),
           runs' = [runs EXCEPT ![r].life = "completed", ![r].version = @ + 1, ![r].active = FALSE]
    PROVE  /\ runs' \in [Runs -> RunRows] /\ RowsSound'
           /\ \A x \in Runs \ {r} : runs'[x] = runs[x]
           /\ runs'[r].by = runs[r].by /\ runs'[r].life = "completed" /\ (runs'[r].sent <=> runs[r].sent)
<1>1. runs[r].version \in Nat /\ runs[r].version + 1 \in Versions
  BY CancelAssumption DEF TypeOK, RunRows, RowsSound, Versions
<1>2. runs \in [Runs -> RunRows]
  BY DEF TypeOK
<1>3. runs' \in [Runs -> RunRows]
  BY <1>1, <1>2 DEF RunRows
<1>4. /\ \A x \in Runs \ {r} : runs'[x] = runs[x]
      /\ runs'[r].by = runs[r].by /\ runs'[r].life = "completed" /\ (runs'[r].sent <=> runs[r].sent)
  BY <1>2 DEF RunRows
<1>5. RowsSound'
  BY <1>3, <1>4 DEF RowsSound, Terminal
<1> QED
  BY <1>3, <1>4, <1>5

\* A live run that somebody cancels.
LEMMA IsCancelled ==
    ASSUME TypeOK, RowsSound, NEW r \in Runs, ~Terminal(r),
           NEW by \in {"user", "abandoned", "withdrawal"},
           runs' = Cancelled(r, by)
    PROVE  /\ runs' \in [Runs -> RunRows] /\ RowsSound'
           /\ \A x \in Runs \ {r} : runs'[x] = runs[x]
           /\ runs'[r].by = by /\ runs'[r].life = "cancelled"
           /\ (runs'[r].sent <=> runs[r].sent) /\ (runs'[r].active <=> runs[r].active)
<1>1. runs[r].version \in Nat /\ runs[r].version + 1 \in Versions
  BY CancelAssumption DEF TypeOK, RunRows, RowsSound, Versions
<1>2. runs \in [Runs -> RunRows]
  BY DEF TypeOK
<1>3. runs' \in [Runs -> RunRows]
  BY <1>1, <1>2 DEF RunRows, Cancelled
<1>4. /\ \A x \in Runs \ {r} : runs'[x] = runs[x]
      /\ runs'[r].by = by /\ runs'[r].life = "cancelled"
           /\ (runs'[r].sent <=> runs[r].sent) /\ (runs'[r].active <=> runs[r].active)
  BY <1>2 DEF RunRows, Cancelled
<1>5. RowsSound'
  BY <1>3, <1>4 DEF RowsSound, Terminal
<1> QED
  BY <1>3, <1>4, <1>5

\* The worker reports the end of a run, which counts unless a stop came first.
LEMMA CompleteKeeps ==
    ASSUME IInv, NEW r \in Runs, Complete(r)
    PROVE  IInv'
<1> USE CancelAssumption DEF Complete
<1>0. TypeOK /\ RowsSound /\ AnswersMatch /\ StoppedOnce /\ WorkKnown /\ ReleasedAfterExit
  BY DEF IInv
<1>2. runs' \in [Runs -> RunRows] /\ RowsSound'
  BY <1>0, Released, Completes, Zenon
<1>3. \A x \in Runs : /\ runs'[x].by = runs[x].by /\ (runs'[x].sent <=> runs[x].sent)
                      /\ x # r => runs'[x] = runs[x]
  BY <1>0 DEF TypeOK, RunRows
<1>4. TypeOK' /\ AnswersMatch'
  BY <1>0, <1>2, AnswersKept DEF TypeOK
<1>5. StoppedOnce'
  BY Zenon, <1>0, <1>3, StopsKept
<1>6. acks[r] = {} /\ work'[r] = "none" /\ \A x \in Runs \ {r} : work'[x] = work[x]
  BY <1>0 DEF TypeOK, WorkKnown
<1>7. WorkKnown' /\ ReleasedAfterExit'
  <2>1. acks' = acks
    OBVIOUS
  <2> HIDE DEF Complete
  <2>2. ASSUME NEW x \in Runs
        PROVE  /\ work'[x] = "working" => runs'[x].sent
               /\ acks'[x] # {} => work'[x] # "working" /\ (runs'[x].sent \/ Terminal(x)')
               /\ ~runs'[x].active => work'[x] # "working"
    <3>1. CASE x = r
      BY <1>6, <2>1, <3>1
    <3>2. CASE x # r
      <4>1. runs'[x] = runs[x] /\ work'[x] = work[x] /\ acks'[x] = acks[x]
        BY <1>3, <1>6, <2>1, <3>2
      <4>2. /\ work[x] = "working" => runs[x].sent
            /\ acks[x] # {} => work[x] # "working" /\ (runs[x].sent \/ Terminal(x))
            /\ ~runs[x].active => work[x] # "working"
        BY <1>0 DEF WorkKnown, ReleasedAfterExit
      <4> QED
        BY <4>1, <4>2 DEF Terminal
    <3> QED
      BY <3>1, <3>2
  <2> QED
    BY <2>2 DEF WorkKnown, ReleasedAfterExit
<1> QED
  BY <1>2, <1>4, <1>5, <1>7 DEF IInv

\* A worker that is told to stop stops, and says so.
LEMMA StopKeeps ==
    ASSUME IInv, NEW r \in Runs, Stop(r)
    PROVE  IInv'
<1> USE CancelAssumption DEF Stop
<1>0. TypeOK /\ RowsSound /\ AnswersMatch /\ StoppedOnce /\ WorkKnown /\ ReleasedAfterExit
  BY DEF IInv
<1>1. TypeOK'
  BY <1>0 DEF TypeOK
<1>2. RowsSound' /\ AnswersMatch' /\ StoppedOnce'
  BY <1>0, AnswersKept, StopsKept DEF RowsSound, Terminal
<1>3. /\ work'[r] # "working" /\ \A x \in Runs \ {r} : work'[x] = work[x] /\ acks'[x] = acks[x]
  BY <1>0 DEF TypeOK
<1>4. WorkKnown' /\ ReleasedAfterExit'
  BY <1>0, <1>3 DEF WorkKnown, ReleasedAfterExit, Terminal
<1> QED
  BY <1>1, <1>2, <1>4 DEF IInv

\* An exit is recorded of a run that has ended; the worker no longer holds it either way.
LEMMA AcknowledgeKeeps ==
    ASSUME IInv, NEW r \in Runs, Acknowledge(r)
    PROVE  IInv'
<1>0. TypeOK /\ RowsSound /\ AnswersMatch /\ StoppedOnce /\ WorkKnown /\ ReleasedAfterExit
  BY DEF IInv
<1>1. /\ acks' = [acks EXCEPT ![r] = {}] /\ owner' = [owner EXCEPT ![r] = FALSE]
      /\ told' = [told EXCEPT ![r] = {}] /\ work[r] # "working"
      /\ UNCHANGED <<gone, receipt, audits, asked, answers, leaving, work, calls, losses>>
  BY <1>0 DEF Acknowledge, WorkKnown
<1>2. CASE runs' = runs
  <2>1. TypeOK' /\ RowsSound'
    BY <1>0, <1>1, <1>2 DEF TypeOK, RowsSound, Terminal
  <2>2. AnswersMatch' /\ StoppedOnce'
    BY <1>0, <1>1, <1>2, AnswersKept, StopsKept
  <2>3. WorkKnown' /\ ReleasedAfterExit'
    BY <1>0, <1>1, <1>2 DEF TypeOK, WorkKnown, ReleasedAfterExit, Terminal
  <2> QED
    BY <2>1, <2>2, <2>3 DEF IInv
<1>3. CASE Terminal(r) /\ runs' = [runs EXCEPT ![r].active = FALSE]
  <2>1. TypeOK' /\ RowsSound'
    BY <1>0, <1>1, <1>3, Released, Zenon DEF TypeOK
  <2>2. AnswersMatch' /\ StoppedOnce'
    BY <1>0, <1>1, <1>3, Released, AnswersKept, StopsKept
  <2>3. WorkKnown' /\ ReleasedAfterExit'
    BY <1>0, <1>1, <1>3, Released DEF TypeOK, WorkKnown, ReleasedAfterExit, Terminal
  <2> QED
    BY <2>1, <2>2, <2>3 DEF IInv
<1> QED
  BY <1>2, <1>3 DEF Acknowledge

\* A connection is lost with the commands and acknowledgements on it.
LEMMA LoseKeeps ==
    ASSUME IInv, NEW r \in Runs, Lose(r) \/ Drop(r)
    PROVE  IInv'
<1>0. TypeOK /\ RowsSound /\ AnswersMatch /\ StoppedOnce /\ WorkKnown /\ ReleasedAfterExit
  BY DEF IInv
<1>1. /\ owner' \in {owner, [owner EXCEPT ![r] = FALSE]} /\ acks' \in {acks, [acks EXCEPT ![r] = {}]}
      /\ told' = [told EXCEPT ![r] = {}] /\ losses < MaxLosses /\ losses' = losses + 1
      /\ UNCHANGED <<runs, gone, receipt, audits, asked, answers, leaving, work, calls>>
  BY DEF Lose, Drop
<1>2. losses' \in 0 .. MaxLosses
  BY <1>0, <1>1, CancelAssumption DEF TypeOK
<1>3. TypeOK' /\ RowsSound'
  BY <1>0, <1>1, <1>2, Zenon DEF TypeOK, RowsSound, Terminal
<1>4. AnswersMatch' /\ StoppedOnce'
  BY <1>0, <1>1, AnswersKept, StopsKept
<1>5. \A x \in Runs : acks'[x] # {} => acks[x] # {}
  BY <1>0, <1>1 DEF TypeOK
<1>6. WorkKnown' /\ ReleasedAfterExit'
  BY <1>0, <1>1, <1>5 DEF WorkKnown, ReleasedAfterExit, Terminal
<1> QED
  BY <1>3, <1>4, <1>6 DEF IInv

\* Telling a worker to stop sends its run's version or releases a run never sent.
LEMMA TellKeeps ==
    ASSUME IInv, NEW r \in Runs, NEW reason, Tell(r, reason),
           UNCHANGED <<gone, receipt, audits, answers, work, owner, acks, calls, losses>>
    PROVE  /\ runs' \in [Runs -> RunRows] /\ told' \in [Runs -> SUBSET Versions]
           /\ RowsSound' /\ StoppedOnce' /\ WorkKnown' /\ ReleasedAfterExit'
<1>0. TypeOK /\ RowsSound /\ StoppedOnce /\ WorkKnown /\ ReleasedAfterExit
  BY DEF IInv
<1>1. told' \in [Runs -> SUBSET Versions]
  <2>1. runs[r].version \in Versions
    BY <1>0 DEF TypeOK, RunRows
  <2> QED
    BY <1>0, <2>1 DEF TypeOK, Tell
<1>2. CASE runs' = runs
  <2>1. StoppedOnce'
    BY <1>0, <1>2, StopsKept
  <2> QED
    BY <1>0, <1>1, <1>2, <2>1 DEF TypeOK, RowsSound, WorkKnown, ReleasedAfterExit, Terminal
<1>3. CASE Releasable(r) /\ runs' = [runs EXCEPT ![r].active = FALSE]
  <2>1. Terminal(r) /\ ~(runs[r].active /\ runs[r].sent) /\ work[r] # "working"
    BY <1>0, <1>3 DEF Releasable, WorkKnown, ReleasedAfterExit
  <2>2. StoppedOnce'
    BY <1>0, <1>3, <2>1, Released, StopsKept
  <2>3. WorkKnown' /\ ReleasedAfterExit'
    BY <1>0, <1>3, <2>1, Released DEF WorkKnown, ReleasedAfterExit, Terminal
  <2> QED
    BY Zenon, <1>0, <1>1, <1>3, <2>1, <2>2, <2>3, Released
<1> QED
  BY <1>2, <1>3 DEF Tell

\* The sweep repeats a stop, releases an ended run whose worker is gone, or offers a live
\* one again.
LEMMA SweepKeeps ==
    ASSUME IInv, NEW r \in Runs, Sweep(r)
    PROVE  IInv'
<1>0. TypeOK /\ RowsSound /\ AnswersMatch /\ StoppedOnce /\ WorkKnown /\ ReleasedAfterExit
  BY DEF IInv
<1>1. CASE Tell(r, "user") /\ UNCHANGED <<gone, receipt, audits, asked, answers, leaving, work, owner, acks, calls, losses>>
  <2>1. AnswersMatch'
    BY <1>0, <1>1, AnswersKept
  <2> QED
    BY <1>0, <1>1, <2>1, TellKeeps DEF IInv, TypeOK
<1>2. CASE /\ Terminal(r) /\ runs' = [runs EXCEPT ![r].active = FALSE]
           /\ work' = [work EXCEPT ![r] = "none"] /\ owner' = [owner EXCEPT ![r] = FALSE]
           /\ told' = [told EXCEPT ![r] = {}] /\ acks' = [acks EXCEPT ![r] = {}]
           /\ UNCHANGED <<gone, receipt, audits, asked, answers, leaving, calls, losses>>
  <2>1. TypeOK' /\ RowsSound'
    BY <1>0, <1>2, Released, Zenon DEF TypeOK
  <2>2. AnswersMatch' /\ StoppedOnce'
    BY <1>0, <1>2, Released, AnswersKept, StopsKept
  <2>3. WorkKnown' /\ ReleasedAfterExit'
    BY <1>0, <1>2, Released DEF TypeOK, WorkKnown, ReleasedAfterExit, Terminal
  <2> QED
    BY <2>1, <2>2, <2>3 DEF IInv
<1>3. CASE /\ ~Terminal(r) /\ runs[r].version < MaxVersion
           /\ runs' = [runs EXCEPT ![r].sent = FALSE, ![r].version = @ + 1]
           /\ work' = [work EXCEPT ![r] = "none"] /\ owner' = [owner EXCEPT ![r] = TRUE]
           /\ told' = [told EXCEPT ![r] = {}] /\ acks' = [acks EXCEPT ![r] = {}]
           /\ UNCHANGED <<gone, receipt, audits, asked, answers, leaving, calls, losses>>
  <2>1. /\ runs \in [Runs -> RunRows] /\ runs[r].version + 1 \in Versions
        /\ runs[r].version + 1 <= MaxVersion
    BY <1>0, <1>3, CancelAssumption DEF TypeOK, RunRows, Versions
  <2>2. runs' \in [Runs -> RunRows]
    <3>1. runs' = [runs EXCEPT ![r].sent = FALSE, ![r].version = @ + 1]
      BY <1>3
    <3> QED
      BY <2>1, <3>1, Zenon DEF RunRows
  <2>3. /\ \A x \in Runs \ {r} : runs'[x] = runs[x]
        /\ runs'[r].by = runs[r].by /\ runs'[r].life = runs[r].life
        /\ runs'[r].version = runs[r].version + 1
        /\ runs'[r].active <=> runs[r].active
    BY <1>3, <2>1 DEF RunRows
  <2>4. TypeOK'
    BY <1>0, <1>3, <2>2 DEF TypeOK
  <2>5. RowsSound'
    BY <1>0, <2>1, <2>3 DEF RowsSound, Terminal
  <2>6. AnswersMatch' /\ StoppedOnce'
    BY Zenon, <1>0, <1>3, <2>3, AnswersKept, StopsKept
  <2>7. /\ \A x \in Runs \ {r} : work'[x] = work[x] /\ acks'[x] = acks[x]
        /\ work'[r] = "none" /\ acks'[r] = {}
    BY <1>0, <1>3 DEF TypeOK
  <2>8. WorkKnown' /\ ReleasedAfterExit'
    BY <1>0, <2>3, <2>7 DEF WorkKnown, ReleasedAfterExit, Terminal
  <2> QED
    BY <2>4, <2>5, <2>6, <2>8 DEF IInv
<1> QED
  BY <1>1, <1>2, <1>3, Zenon DEF Sweep

\* A run that a withdrawal or an abandonment ends, unless it has ended.
LEMMA EndKeeps ==
    ASSUME IInv, NEW r \in Runs, NEW by \in {"abandoned", "withdrawal"},
           ~Terminal(r) /\ runs' = Cancelled(r, by),
           UNCHANGED <<receipt, audits, work, acks>>
    PROVE  runs' \in [Runs -> RunRows] /\ RowsSound' /\ StoppedOnce' /\ WorkKnown' /\ ReleasedAfterExit'
<1>0. TypeOK /\ RowsSound /\ StoppedOnce /\ WorkKnown /\ ReleasedAfterExit
  BY DEF IInv
<1>1. /\ runs' \in [Runs -> RunRows] /\ RowsSound'
      /\ \A x \in Runs \ {r} : runs'[x] = runs[x]
      /\ runs'[r].by = by /\ runs'[r].life = "cancelled"
      /\ (runs'[r].sent <=> runs[r].sent) /\ (runs'[r].active <=> runs[r].active)
  BY <1>0, IsCancelled
<1>2. runs[r].by = "none"
  BY <1>0 DEF RowsSound, Terminal
<1>3. StoppedOnce'
  BY <1>0, <1>1, <1>2, StopsKept
<1>4. WorkKnown' /\ ReleasedAfterExit'
  BY <1>0, <1>1 DEF WorkKnown, ReleasedAfterExit, Terminal
<1> QED
  BY <1>1, <1>3, <1>4

\* A session is withdrawn and its run cancelled.
LEMMA WithdrawKeeps ==
    ASSUME IInv, NEW r \in Runs, Withdraw(r)
    PROVE  IInv'
<1>0. TypeOK /\ RowsSound /\ AnswersMatch /\ StoppedOnce /\ WorkKnown /\ ReleasedAfterExit
  BY DEF IInv
<1>1. AnswersMatch' /\ gone' \subseteq Runs
  BY <1>0, AnswersKept DEF Withdraw, TypeOK
<1>2. CASE Terminal(r)
  <2>1. StoppedOnce'
    BY <1>0, <1>2, StopsKept DEF Withdraw
  <2> QED
    BY <1>0, <1>1, <1>2, <2>1
       DEF Withdraw, worker, IInv, TypeOK, RowsSound, WorkKnown, ReleasedAfterExit, Terminal
<1>3. CASE ~Terminal(r)
  <2>1. runs' = Cancelled(r, "withdrawal") /\ UNCHANGED <<receipt, audits, work, acks>>
    BY <1>3 DEF Withdraw, worker
  <2>2. runs' \in [Runs -> RunRows] /\ RowsSound' /\ StoppedOnce' /\ WorkKnown' /\ ReleasedAfterExit'
    BY <1>3, <2>1, EndKeeps
  <2> QED
    BY <1>0, <1>1, <2>2 DEF Withdraw, worker, IInv, TypeOK
<1> QED
  BY <1>2, <1>3

-----------------------------------------------------------------------------
(* Stopping by a person *)

\* Steps that leave runs, receipts and workers alone keep what is said about them.
LEMMA RowsKept ==
    ASSUME IInv, UNCHANGED <<runs, receipt, audits, work, acks>>
    PROVE  RowsSound' /\ StoppedOnce' /\ WorkKnown' /\ ReleasedAfterExit'
<1>1. StoppedOnce'
  BY StopsKept DEF IInv
<1> QED
  BY <1>1 DEF IInv, RowsSound, WorkKnown, ReleasedAfterExit, Terminal

\* A call comes in.
LEMMA CallKeeps ==
    ASSUME IInv, NEW c \in Callers, NEW r \in Runs, NEW k \in Keys, Call(c, r, k)
    PROVE  IInv'
<1> USE CancelAssumption DEF Call, worker
<1>0. TypeOK /\ AnswersMatch
  BY DEF IInv
<1>1. asked' \in [Callers -> {NotCalling} \cup Requests \cup Answering]
  BY <1>0 DEF TypeOK, Requests
<1>2. calls' \in 0 .. MaxCalls
  BY <1>0 DEF TypeOK
<1>3. TypeOK'
  BY <1>0, <1>1, <1>2 DEF TypeOK
<1>4. AnswersMatch'
  BY <1>0 DEF TypeOK, AnswersMatch
<1> QED
  BY <1>3, <1>4, RowsKept DEF IInv

\* Giving the receipt's answer, or a refusal, keeps the answers true.
LEMMA AnswerKeeps ==
    ASSUME TypeOK, AnswersMatch, NEW c \in Callers, NEW result, NEW version,
           asked[c].run \in Runs, asked[c].key \in Keys,
           \/ result \in {"unavailable", "conflict"} /\ version = 0
           \/ /\ asked[c].pc = "read" /\ version = asked[c].version /\ version \in Versions
              /\ result = IF asked[c].accepted THEN "accepted" ELSE "terminal",
           Answer(c, result, version), receipt' = receipt
    PROVE  /\ asked' \in [Callers -> {NotCalling} \cup Requests \cup Answering]
           /\ answers' \subseteq Answers
           /\ AnswersMatch'
<1> DEFINE new == [key |-> asked[c].key, run |-> asked[c].run, result |-> result, version |-> version]
<1>1. asked' \in [Callers -> {NotCalling} \cup Requests \cup Answering]
  BY DEF TypeOK, Answer
<1>2. new \in Answers
  BY DEF Answers
<1>3. answers' \subseteq Answers
  BY <1>2 DEF TypeOK, Answer
<1>4. new.result \in {"accepted", "terminal"} =>
           /\ receipt[new.key] # NoReceipt
           /\ receipt[new.key].run = new.run /\ receipt[new.key].version = new.version
           /\ receipt[new.key].accepted <=> new.result = "accepted"
  BY DEF AnswersMatch
<1>5. asked'[c].pc = "idle" /\ \A d \in Callers \ {c} : asked'[d] = asked[d]
  BY DEF TypeOK, Answer, NotCalling
<1>6. answers' = answers \cup {new}
  BY DEF Answer
<1> HIDE DEF new
<1>7. AnswersMatch'
  BY <1>4, <1>5, <1>6 DEF AnswersMatch
<1> QED
  BY <1>1, <1>3, <1>7

\* A new key is recorded with the run it names: what other keys hold is not touched.
LEMMA RecordKeeps ==
    ASSUME IInv, NEW c \in Callers, asked[c].pc = "called",
           NEW r \in Runs, NEW k \in Keys, asked[c].run = r, asked[c].key = k,
           receipt[k] = NoReceipt, NEW stops \in BOOLEAN, NEW version \in Versions,
           receipt' = [receipt EXCEPT ![k] = [run |-> r, accepted |-> stops, version |-> version]],
           asked' = [asked EXCEPT ![c] = [pc |-> "notify", run |-> r, key |-> k,
                                          accepted |-> stops, version |-> version]],
           UNCHANGED answers
    PROVE  /\ receipt' \in [Keys -> {NoReceipt} \cup Receipts]
           /\ asked' \in [Callers -> {NotCalling} \cup Requests \cup Answering]
           /\ AnswersMatch'
           /\ \A x \in Runs \ {r} : StoppedBy(x)' = StoppedBy(x)
           /\ StoppedBy(r)' = IF stops THEN StoppedBy(r) \cup {k} ELSE StoppedBy(r)
           /\ k \notin StoppedBy(r)
<1>0. TypeOK /\ AnswersMatch
  BY DEF IInv
<1> DEFINE fresh == [run |-> r, accepted |-> stops, version |-> version]
           mine == [pc |-> "notify", run |-> r, key |-> k, accepted |-> stops, version |-> version]
<1>1. fresh \in Receipts /\ fresh # NoReceipt /\ mine \in Answering
  BY CancelAssumption DEF Receipts, NoReceipt, Answering
<1>2. /\ fresh.run = r /\ fresh.version = version /\ (fresh.accepted <=> stops)
      /\ mine.pc = "notify" /\ mine.run = r /\ mine.key = k
      /\ mine.version = version /\ (mine.accepted <=> stops)
  OBVIOUS
<1>3. receipt' = [receipt EXCEPT ![k] = fresh] /\ asked' = [asked EXCEPT ![c] = mine]
  OBVIOUS
<1> HIDE DEF fresh, mine
<1>4. receipt' \in [Keys -> {NoReceipt} \cup Receipts]
  BY <1>0, <1>1, <1>3 DEF TypeOK
<1>5. asked' \in [Callers -> {NotCalling} \cup Requests \cup Answering]
  BY <1>0, <1>1, <1>3 DEF TypeOK
<1>6. /\ \A i \in Keys \ {k} : receipt'[i] = receipt[i]
      /\ \A d \in Callers \ {c} : asked'[d] = asked[d]
      /\ receipt'[k] = fresh /\ asked'[c] = mine
  BY <1>0, <1>3 DEF TypeOK
<1>7. AnswersMatch'
  <2>1. ASSUME NEW x \in answers, x.result \in {"accepted", "terminal"}
        PROVE  /\ receipt'[x.key] # NoReceipt
               /\ receipt'[x.key].run = x.run /\ receipt'[x.key].version = x.version
               /\ receipt'[x.key].accepted <=> x.result = "accepted"
    <3>1. x.key \in Keys \ {k}
      BY <1>0, <2>1 DEF TypeOK, Answers, AnswersMatch
    <3> QED
      BY <1>0, <1>6, <2>1, <3>1 DEF AnswersMatch
  <2>2. ASSUME NEW d \in Callers, asked'[d].pc \in {"notify", "read"}
        PROVE  /\ receipt'[asked'[d].key] # NoReceipt
               /\ receipt'[asked'[d].key].run = asked'[d].run
               /\ receipt'[asked'[d].key].version = asked'[d].version
               /\ receipt'[asked'[d].key].accepted <=> asked'[d].accepted
    <3>1. CASE d = c
      BY <1>1, <1>2, <1>6, <3>1
    <3>2. CASE d # c
      <4>1. asked'[d] = asked[d] /\ asked[d].pc \in {"notify", "read"}
        BY <1>6, <2>2, <3>2
      <4>2. asked[d].key \in Keys
        BY <1>0, <4>1 DEF TypeOK, Requests, Answering, NotCalling
      <4>3. asked[d].key # k
        BY <1>0, <4>1 DEF AnswersMatch
      <4> QED
        BY <1>0, <1>6, <4>1, <4>2, <4>3 DEF AnswersMatch
    <3> QED
      BY <3>1, <3>2
  <2> QED
    BY <2>1, <2>2 DEF AnswersMatch
<1>8. \A x \in Runs \ {r} : StoppedBy(x)' = StoppedBy(x)
  BY <1>1, <1>2, <1>6 DEF StoppedBy
<1>9. StoppedBy(r)' = IF stops THEN StoppedBy(r) \cup {k} ELSE StoppedBy(r)
  BY <1>1, <1>2, <1>6 DEF StoppedBy
<1>10. k \notin StoppedBy(r)
  BY DEF StoppedBy
<1> QED
  BY <1>4, <1>5, <1>7, <1>8, <1>9, <1>10

\* A call that came in names its run and its key.
LEMMA CallKnown ==
    ASSUME TypeOK, NEW c \in Callers, asked[c].pc = "called"
    PROVE  asked[c].run \in Runs /\ asked[c].key \in Keys
<1>1. asked[c] \in {NotCalling} \cup Requests \cup Answering
  BY DEF TypeOK
<1>2. asked[c] \in Requests
  BY <1>1 DEF NotCalling, Answering
<1> QED
  BY <1>2 DEF Requests

\* CancelUserRun answers from the receipt, or records one with the stop it stands for.
LEMMA CancelKeeps ==
    ASSUME IInv, NEW c \in Callers, CancelUserRun(c)
    PROVE  IInv'
<1>0. TypeOK /\ RowsSound /\ AnswersMatch /\ StoppedOnce /\ WorkKnown /\ ReleasedAfterExit
  BY DEF IInv
<1>1. asked[c].pc = "called" /\ UNCHANGED <<gone, leaving, work, owner, told, acks, calls, losses>>
  BY DEF CancelUserRun, worker
<1>2. PICK r \in Runs, k \in Keys : r = asked[c].run /\ k = asked[c].key
  BY <1>0, <1>1, CallKnown
<1>3. ASSUME NEW result \in {"unavailable", "conflict"}, Answer(c, result, 0), UNCHANGED <<runs, receipt, audits>>
      PROVE  IInv'
  <2>1. /\ asked' \in [Callers -> {NotCalling} \cup Requests \cup Answering]
        /\ answers' \subseteq Answers /\ AnswersMatch'
    BY <1>0, <1>2, <1>3, AnswerKeeps
  <2>2. TypeOK'
    BY <1>0, <1>1, <1>3, <2>1 DEF TypeOK
  <2> QED
    BY <1>1, <1>3, <2>1, <2>2, RowsKept DEF IInv
<1>4. CASE /\ receipt[k] # NoReceipt /\ receipt[k].run = r
           /\ asked' = [asked EXCEPT ![c] = [pc |-> "notify", run |-> r, key |-> k,
                           accepted |-> receipt[k].accepted, version |-> receipt[k].version]]
           /\ UNCHANGED <<runs, receipt, audits, answers>>
  <2> DEFINE mine == [pc |-> "notify", run |-> r, key |-> k,
                      accepted |-> receipt[k].accepted, version |-> receipt[k].version]
  <2>1. receipt[k] \in Receipts
    BY <1>0, <1>2, <1>4 DEF TypeOK
  <2>2. mine \in Answering
    BY <1>2, <2>1 DEF Answering, Receipts
  <2>3. /\ mine.run = r /\ mine.key = k /\ mine.version = receipt[k].version
        /\ (mine.accepted <=> receipt[k].accepted)
    OBVIOUS
  <2>4. asked' = [asked EXCEPT ![c] = mine]
    BY <1>4
  <2> HIDE DEF mine
  <2>5. TypeOK'
    BY <1>0, <1>1, <1>4, <2>2, <2>4 DEF TypeOK
  <2>6. asked'[c] = mine /\ \A d \in Callers \ {c} : asked'[d] = asked[d]
    BY <1>0, <2>4 DEF TypeOK
  <2>7. AnswersMatch'
    BY <1>0, <1>4, <2>3, <2>6, AskedKept
  <2> QED
    BY <1>1, <1>4, <2>5, <2>7, RowsKept DEF IInv
<1>5. CASE /\ receipt[k] = NoReceipt
           /\ runs' = IF ~Terminal(r) THEN Cancelled(r, "user") ELSE runs
           /\ audits' = [audits EXCEPT ![r] = IF ~Terminal(r) THEN @ + 1 ELSE @]
           /\ receipt' = [receipt EXCEPT ![k] = [run |-> r, accepted |-> ~Terminal(r),
                                                 version |-> runs'[r].version]]
           /\ asked' = [asked EXCEPT ![c] = [pc |-> "notify", run |-> r, key |-> k,
                           accepted |-> ~Terminal(r), version |-> runs'[r].version]]
           /\ UNCHANGED answers
  <2>1. /\ runs' \in [Runs -> RunRows] /\ RowsSound'
        /\ \A x \in Runs \ {r} : runs'[x] = runs[x]
        /\ IF Terminal(r) THEN runs'[r] = runs[r]
           ELSE /\ runs'[r].by = "user" /\ runs'[r].life = "cancelled"
                /\ (runs'[r].sent <=> runs[r].sent) /\ (runs'[r].active <=> runs[r].active)
    <3>1. CASE Terminal(r)
      BY <1>0, <1>5, <3>1 DEF TypeOK, RowsSound, Terminal
    <3>2. CASE ~Terminal(r)
      BY <1>0, <1>2, <1>5, <3>2, IsCancelled, ZenonT(30)
    <3> QED
      BY <3>1, <3>2
  <2>2. runs'[r].version \in Versions
    BY <1>2, <2>1, ZenonT(30) DEF RunRows
  <2>3. PICK stops \in BOOLEAN, version \in Versions : stops = ~Terminal(r) /\ version = runs'[r].version
    BY <2>2, Zenon
  <2>4. /\ receipt[k] = NoReceipt /\ UNCHANGED answers
        /\ receipt' = [receipt EXCEPT ![k] = [run |-> r, accepted |-> stops, version |-> version]]
        /\ asked' = [asked EXCEPT ![c] = [pc |-> "notify", run |-> r, key |-> k,
                                          accepted |-> stops, version |-> version]]
    BY <1>5, <2>3, Zenon
  <2>5. /\ receipt' \in [Keys -> {NoReceipt} \cup Receipts]
        /\ asked' \in [Callers -> {NotCalling} \cup Requests \cup Answering]
        /\ AnswersMatch'
        /\ \A x \in Runs \ {r} : StoppedBy(x)' = StoppedBy(x)
        /\ StoppedBy(r)' = IF stops THEN StoppedBy(r) \cup {k} ELSE StoppedBy(r)
        /\ k \notin StoppedBy(r)
    BY <1>1, <1>2, <2>4, RecordKeeps, Zenon
  <2>6. TypeOK'
    <3>1. audits' \in [Runs -> Nat]
      BY <1>0, <1>5 DEF TypeOK
    <3> QED
      BY <1>0, <1>1, <2>1, <2>4, <2>5, <3>1 DEF TypeOK
  <2>7. WorkKnown' /\ ReleasedAfterExit'
    BY <1>0, <1>1, <1>2, <2>1 DEF WorkKnown, ReleasedAfterExit, Terminal
  <2>8. StoppedOnce'
    <3>1. /\ audits'[r] = IF Terminal(r) THEN audits[r] ELSE audits[r] + 1
          /\ \A x \in Runs \ {r} : audits'[x] = audits[x]
      BY <1>0, <1>2, <1>5 DEF TypeOK
    <3>2. ASSUME NEW x \in Runs \ {r}
          PROVE  /\ audits'[x] = Cardinality(StoppedBy(x)')
                 /\ audits'[x] = IF runs'[x].by = "user" THEN 1 ELSE 0
      <4>1. StoppedBy(x)' = StoppedBy(x) /\ runs'[x] = runs[x] /\ audits'[x] = audits[x]
        BY <2>1, <2>5, <3>1
      <4> QED
        BY <1>0, <4>1 DEF StoppedOnce
    <3>3. /\ audits'[r] = Cardinality(StoppedBy(r)')
          /\ audits'[r] = IF runs'[r].by = "user" THEN 1 ELSE 0
      <4>1. CASE Terminal(r)
        <5>1. StoppedBy(r)' = StoppedBy(r) /\ runs'[r] = runs[r] /\ audits'[r] = audits[r]
          BY Zenon, <2>1, <2>3, <2>5, <3>1, <4>1
        <5> QED
          BY <1>0, <5>1 DEF StoppedOnce
      <4>2. CASE ~Terminal(r)
        <5>1. StoppedBy(r)' = StoppedBy(r) \cup {k} /\ runs'[r].by = "user" /\ k \notin StoppedBy(r)
          BY Zenon, <2>1, <2>3, <2>5, <4>2
        <5>2. audits[r] = 0 /\ Cardinality(StoppedBy(r)) = 0 /\ audits'[r] = 1
          <6>1. runs[r].by = "none"
            BY <1>0, <4>2 DEF RowsSound, Terminal
          <6>2. audits[r] = 0 /\ Cardinality(StoppedBy(r)) = 0
            BY <1>0, <6>1 DEF StoppedOnce
          <6> QED
            BY <3>1, <4>2, <6>2
        <5>3. IsFiniteSet(StoppedBy(r))
          BY FS_Subset, CancelAssumption DEF StoppedBy
        <5>4. Cardinality(StoppedBy(r) \cup {k}) = Cardinality(StoppedBy(r)) + 1
          BY Zenon, <5>1, <5>3, FS_AddElement
        <5> QED
          BY <5>1, <5>2, <5>4
      <4> QED
        BY <4>1, <4>2
    <3> QED
      BY <3>2, <3>3, Zenon DEF StoppedOnce
  <2> QED
    BY <2>1, <2>5, <2>6, <2>7, <2>8 DEF IInv
<1> QED
  BY <1>2, <1>3, <1>4, <1>5, ZenonT(30) DEF CancelUserRun, ReceiptOf, Own, Stops

\* A call under way knows its run and its key.
LEMMA AskedKnown ==
    ASSUME TypeOK, NEW c \in Callers, asked[c].pc \in {"notify", "read"}
    PROVE  asked[c] \in Answering
BY DEF TypeOK, Requests, NotCalling

\* The worker of an accepted stop is told.
LEMMA NotifyKeeps ==
    ASSUME IInv, NEW c \in Callers, Notify(c)
    PROVE  IInv'
<1>0. TypeOK /\ RowsSound /\ AnswersMatch /\ StoppedOnce /\ WorkKnown /\ ReleasedAfterExit
  BY DEF IInv
<1>1. /\ asked[c].pc = "notify" /\ asked' = [asked EXCEPT ![c].pc = "read"]
      /\ UNCHANGED <<gone, receipt, audits, answers, leaving, work, owner, acks, calls, losses>>
  BY DEF Notify
<1>2. asked[c] \in Answering
  BY <1>0, <1>1, AskedKnown
<1>3. [asked[c] EXCEPT !.pc = "read"] \in Answering
  BY <1>2 DEF Answering
<1>4. asked' \in [Callers -> {NotCalling} \cup Requests \cup Answering]
  BY <1>0, <1>1, <1>3 DEF TypeOK
<1>5. /\ asked'[c].run = asked[c].run /\ asked'[c].key = asked[c].key
      /\ asked'[c].version = asked[c].version /\ (asked'[c].accepted <=> asked[c].accepted)
      /\ \A d \in Callers \ {c} : asked'[d] = asked[d]
  BY <1>0, <1>1, <1>2 DEF TypeOK, Answering
<1>6. AnswersMatch'
  <2>1. asked[c].pc = "notify" /\ UNCHANGED <<receipt, answers>>
    BY <1>1
  <2>2. /\ receipt[asked[c].key] # NoReceipt
        /\ receipt[asked[c].key].run = asked[c].run /\ receipt[asked[c].key].version = asked[c].version
        /\ receipt[asked[c].key].accepted <=> asked[c].accepted
    BY <1>0, <2>1 DEF AnswersMatch
  <2> QED
    BY <1>0, <1>5, <2>1, <2>2, AskedKept
<1>7. /\ runs' \in [Runs -> RunRows] /\ told' \in [Runs -> SUBSET Versions]
      /\ RowsSound' /\ StoppedOnce' /\ WorkKnown' /\ ReleasedAfterExit'
  <2>1. CASE UNCHANGED <<runs, told>>
    BY <1>0, <1>1, <2>1, RowsKept DEF TypeOK
  <2>2. CASE Tell(asked[c].run, "user")
    <3>1. asked[c].run \in Runs
      BY <1>2 DEF Answering
    <3> QED
      BY <1>1, <2>2, <3>1, TellKeeps
  <2> QED
    BY <2>1, <2>2 DEF Notify
<1>8. TypeOK'
  BY <1>0, <1>1, <1>4, <1>7 DEF TypeOK
<1> QED
  BY <1>6, <1>7, <1>8 DEF IInv

\* The answer goes out, or is lost.
LEMMA RespondKeeps ==
    ASSUME IInv, NEW c \in Callers, Respond(c)
    PROVE  IInv'
<1>0. TypeOK /\ AnswersMatch
  BY DEF IInv
<1>1. /\ asked[c].pc = "read"
      /\ UNCHANGED <<runs, gone, receipt, audits, leaving, work, owner, told, acks, calls, losses>>
  BY DEF Respond, worker
<1>2. asked[c].run \in Runs /\ asked[c].key \in Keys /\ asked[c].version \in Versions
  BY <1>0, <1>1, AskedKnown DEF Answering
<1>3. /\ asked' \in [Callers -> {NotCalling} \cup Requests \cup Answering]
      /\ answers' \subseteq Answers /\ AnswersMatch'
  <2>1. CASE Answer(c, "unavailable", 0)
    BY <1>0, <1>1, <1>2, <2>1, AnswerKeeps
  <2>2. CASE Answer(c, IF asked[c].accepted THEN "accepted" ELSE "terminal", asked[c].version)
    BY <1>0, <1>1, <1>2, <2>2, AnswerKeeps
  <2>3. CASE asked' = [asked EXCEPT ![c] = NotCalling] /\ UNCHANGED answers
    BY <1>0, <1>1, <2>3 DEF TypeOK, AnswersMatch, NotCalling
  <2> QED
    BY <2>1, <2>2, <2>3 DEF Respond
<1>4. TypeOK'
  BY <1>0, <1>1, <1>3 DEF TypeOK
<1> QED
  BY <1>1, <1>3, <1>4, RowsKept DEF IInv

-----------------------------------------------------------------------------
(* Abandonment *)

\* An abandonment under way knows its run.
LEMMA LeavingKnown ==
    ASSUME TypeOK, NEW a \in Abandoners, leaving[a].pc \in {"read", "cancel", "tell"}
    PROVE  leaving[a] \in Abandonments
BY DEF TypeOK, NotLeaving, HasLeft

\* A sender leaves, or reads the version of its run.
LEMMA LeaveKeeps ==
    ASSUME IInv, NEW a \in Abandoners, Leave(a) \/ ReadVersion(a)
    PROVE  IInv'
<1>0. TypeOK /\ AnswersMatch
  BY DEF IInv
<1>1. UNCHANGED <<runs, gone, receipt, audits, asked, answers, work, owner, told, acks, calls, losses>>
  BY DEF Leave, ReadVersion, worker
<1>2. leaving' \in [Abandoners -> {NotLeaving, HasLeft} \cup Abandonments]
  <2>1. CASE Leave(a)
    BY <1>0, <2>1 DEF TypeOK, Leave, Abandonments
  <2>2. CASE ReadVersion(a)
    <3>1. leaving[a] \in Abandonments
      BY <1>0, <2>2, LeavingKnown DEF ReadVersion
    <3>2. runs[leaving[a].run].version \in Versions
      BY <1>0, <3>1 DEF TypeOK, Abandonments, RunRows
    <3>3. \A pc \in {"cancel", "tell"}, v \in Versions :
              [leaving[a] EXCEPT !.pc = pc, !.version = v] \in Abandonments
      BY <3>1, Zenon DEF Abandonments
    <3> QED
      BY <1>0, <2>2, <3>2, <3>3, Zenon DEF TypeOK, ReadVersion
  <2> QED
    BY <2>1, <2>2
<1>3. TypeOK' /\ AnswersMatch'
  BY <1>0, <1>1, <1>2, AnswersKept DEF TypeOK
<1> QED
  BY <1>1, <1>3, RowsKept DEF IInv

\* The run is cancelled at the version read, or the sender goes on without.
LEMMA AbandonKeeps ==
    ASSUME IInv, NEW a \in Abandoners, Abandon(a)
    PROVE  IInv'
<1>0. TypeOK /\ AnswersMatch
  BY DEF IInv
<1>1. UNCHANGED <<gone, receipt, audits, asked, answers, work, owner, told, acks, calls, losses>>
  BY DEF Abandon, worker
<1>2. leaving[a] \in Abandonments
  BY <1>0, LeavingKnown DEF Abandon
<1>3. leaving' \in [Abandoners -> {NotLeaving, HasLeft} \cup Abandonments]
  <2>1. /\ [leaving[a] EXCEPT !.pc = "tell"] \in Abandonments
        /\ [leaving[a] EXCEPT !.pc = "read", !.attempt = @ + 1] \in Abandonments
    <3>1. leaving[a].attempt + 1 \in Nat
      BY <1>2 DEF Abandonments
    <3>2. [leaving[a] EXCEPT !.pc = "tell"] \in Abandonments
      BY <1>2 DEF Abandonments
    <3>3. \A n \in Nat : [leaving[a] EXCEPT !.pc = "read", !.attempt = n] \in Abandonments
      BY <1>2, Zenon DEF Abandonments
    <3> QED
      BY <3>1, <3>2, <3>3, Zenon
  <2>2. \/ leaving' = [leaving EXCEPT ![a] = [leaving[a] EXCEPT !.pc = "tell"]]
        \/ leaving' = [leaving EXCEPT ![a] = [leaving[a] EXCEPT !.pc = "read", !.attempt = @ + 1]]
    BY Zenon DEF Abandon
  <2> QED
    BY <1>0, <2>1, <2>2 DEF TypeOK
<1>4. AnswersMatch'
  BY <1>0, <1>1, AnswersKept
<1>5. CASE UNCHANGED runs
  <2>1. RowsSound' /\ StoppedOnce' /\ WorkKnown' /\ ReleasedAfterExit'
    BY <1>1, <1>5, RowsKept
  <2> QED
    BY <1>0, <1>1, <1>3, <1>4, <1>5, <2>1 DEF TypeOK, IInv
<1>6. CASE ~Terminal(leaving[a].run) /\ runs' = Cancelled(leaving[a].run, "abandoned")
  <2>1. leaving[a].run \in Runs
    BY <1>2 DEF Abandonments
  <2>2. runs' \in [Runs -> RunRows] /\ RowsSound' /\ StoppedOnce' /\ WorkKnown' /\ ReleasedAfterExit'
    BY <1>1, <1>6, <2>1, EndKeeps
  <2> QED
    BY <1>0, <1>1, <1>3, <1>4, <2>2 DEF TypeOK, IInv
<1> QED
  BY <1>5, <1>6 DEF Abandon

\* The worker of an abandoned run is told.
LEMMA TellWorkerKeeps ==
    ASSUME IInv, NEW a \in Abandoners, TellWorker(a)
    PROVE  IInv'
<1>0. TypeOK /\ AnswersMatch
  BY DEF IInv
<1>1. leaving[a].run \in Runs
  BY <1>0, LeavingKnown DEF TellWorker, Abandonments
<1>2. /\ runs' \in [Runs -> RunRows] /\ told' \in [Runs -> SUBSET Versions]
      /\ RowsSound' /\ StoppedOnce' /\ WorkKnown' /\ ReleasedAfterExit'
  BY <1>1, TellKeeps DEF TellWorker
<1>3. TypeOK' /\ AnswersMatch'
  BY <1>0, <1>2, AnswersKept DEF TypeOK, TellWorker
<1> QED
  BY <1>2, <1>3 DEF IInv

-----------------------------------------------------------------------------
\* Every step keeps the invariant.
LEMMA Inductive == Spec => []IInv
<1>1. ASSUME IInv, [Next]_vars
      PROVE  IInv'
  <2>1. CASE UNCHANGED vars
    BY <1>1, <2>1, RowsKept, AnswersKept DEF vars, IInv, TypeOK
  <2>2. CASE Next
    BY <1>1, <2>2, MoveKeeps, DeliverKeeps, CompleteKeeps, StopKeeps, AcknowledgeKeeps, LoseKeeps,
       SweepKeeps, WithdrawKeeps, CallKeeps, CancelKeeps, NotifyKeeps, RespondKeeps, LeaveKeeps,
       AbandonKeeps, TellWorkerKeeps DEF Next
  <2> QED
    BY <1>1, <2>1, <2>2
<1> QED
  BY <1>1, Initially, PTL DEF Spec

\* CancelUserRun keeps its receipts true: a key is answered for one run with one result
\* and one version however often it is repeated, and a run that a person stopped has one
\* accepting receipt, one audit row and their outcome.
THEOREM ReceiptsAlwaysHold == Spec => []ReceiptsHold
<1>1. IInv => ReceiptsHold
  <2> SUFFICES ASSUME IInv PROVE SameAnswer
    BY DEF IInv, ReceiptsHold
  <2>1. ASSUME NEW x \in answers, NEW y \in answers, x.key = y.key,
               x.result \in {"accepted", "terminal"}, y.result \in {"accepted", "terminal"}
        PROVE  x = y
    <3>1. x \in Answers /\ y \in Answers
      BY DEF IInv, TypeOK
    <3>2. x.run = y.run /\ x.version = y.version /\ x.result = y.result
      BY <2>1 DEF IInv, AnswersMatch
    <3> QED
      BY <2>1, <3>1, <3>2 DEF Answers
  <2> QED
    BY <2>1 DEF SameAnswer
<1> QED
  BY <1>1, Inductive, PTL

\* What a step may do to a run that has ended, and how an abandonment ends one.
Outcome(x) ==
    /\ Terminal(x) => runs'[x].life = runs[x].life /\ runs'[x].by = runs[x].by /\ runs'[x].version = runs[x].version
    /\ runs[x].by # "abandoned" /\ runs'[x].by = "abandoned" =>
           \E a \in Abandoners : leaving[a].pc = "cancel" /\ leaving[a].run = x /\ leaving[a].version = runs[x].version

\* A step rewrites at most one run, and only releases one that has ended.
LEMMA OutcomeStep ==
    ASSUME IInv, Next
    PROVE  \A x \in Runs : Outcome(x)
<1>0. TypeOK
  BY DEF IInv
<1>1. ASSUME UNCHANGED runs
      PROVE  \A x \in Runs : Outcome(x)
  BY <1>1 DEF Outcome
<1>2. ASSUME NEW r \in Runs, runs' = [runs EXCEPT ![r].active = FALSE]
      PROVE  \A x \in Runs : Outcome(x)
  BY <1>0, <1>2 DEF TypeOK, RunRows, Outcome
<1>3. ASSUME NEW r \in Runs, ~Terminal(r), \A x \in Runs \ {r} : runs'[x] = runs[x],
             runs'[r].by # "abandoned"
      PROVE  \A x \in Runs : Outcome(x)
  BY <1>3 DEF Outcome
<1>4. ASSUME NEW r \in Runs, ~Terminal(r), NEW by \in {"user", "withdrawal"}, runs' = Cancelled(r, by)
      PROVE  \A x \in Runs : Outcome(x)
  BY <1>3, <1>4, IsCancelled DEF IInv
<1>5. ASSUME NEW r \in Runs, Tell(r, "user") \/ Tell(r, "client_cancelled")
      PROVE  \A x \in Runs : Outcome(x)
  BY <1>1, <1>2, <1>5 DEF Tell
<1>6. ASSUME NEW r \in Runs, ~Terminal(r)
      PROVE  runs[r].by = "none"
  BY <1>6 DEF IInv, RowsSound, Terminal
<1>7. ASSUME NEW r \in Runs, Move(r) \/ Deliver(r) \/ Complete(r)
      PROVE  \A x \in Runs : Outcome(x)
  <2>1. CASE Move(r)
    BY <1>0, <1>3, <1>6, <2>1 DEF Move, TypeOK, RunRows
  <2>2. CASE Deliver(r)
    BY <1>0, <1>3, <1>6, <2>2 DEF Deliver, TypeOK, RunRows
  <2>3. CASE Complete(r)
    <3>1. CASE Terminal(r)
      BY <1>2, <2>3, <3>1, Zenon DEF Complete
    <3>2. CASE ~Terminal(r)
      BY <1>3, <1>6, <2>3, <3>2, Completes, Zenon DEF IInv, Complete
    <3> QED
      BY <3>1, <3>2
  <2> QED
    BY <1>7, <2>1, <2>2, <2>3
<1>8. ASSUME NEW r \in Runs, Stop(r) \/ Acknowledge(r) \/ Lose(r) \/ Drop(r) \/ Withdraw(r)
      PROVE  \A x \in Runs : Outcome(x)
  BY <1>1, <1>2, <1>4, <1>8 DEF Stop, Acknowledge, Lose, Drop, Withdraw
<1>9. ASSUME NEW r \in Runs, Sweep(r)
      PROVE  \A x \in Runs : Outcome(x)
  <2>1. CASE ~Terminal(r) /\ runs' = [runs EXCEPT ![r].sent = FALSE, ![r].version = @ + 1]
    BY <1>0, <1>3, <1>6, <2>1 DEF TypeOK, RunRows
  <2> QED
    BY <1>2, <1>5, <1>9, <2>1, Zenon DEF Sweep
<1>10. ASSUME NEW c \in Callers, CancelUserRun(c)
       PROVE  \A x \in Runs : Outcome(x)
  <2>0. asked[c].pc = "called"
    BY <1>10 DEF CancelUserRun
  <2>1. PICK r \in Runs, k \in Keys : r = asked[c].run /\ k = asked[c].key
    BY <1>0, <2>0, CallKnown
  <2>2. UNCHANGED runs \/ runs' = IF Stops(r, k) THEN Cancelled(r, "user") ELSE runs
    BY <1>10, <2>1, Zenon DEF CancelUserRun
  <2>3. UNCHANGED runs \/ (~Terminal(r) /\ runs' = Cancelled(r, "user"))
    BY <2>2 DEF Stops
  <2> QED
    BY <1>1, <1>4, <2>3
<1>11. ASSUME NEW c \in Callers, Notify(c)
       PROVE  \A x \in Runs : Outcome(x)
  <2>1. asked[c].run \in Runs
    BY <1>0, <1>11, AskedKnown DEF Notify, Answering
  <2> QED
    BY <1>1, <1>5, <1>11, <2>1 DEF Notify
<1>12. ASSUME NEW a \in Abandoners, Abandon(a)
       PROVE  \A x \in Runs : Outcome(x)
  <2>1. leaving[a].run \in Runs
    BY <1>0, <1>12, LeavingKnown DEF Abandon, Abandonments
  <2>2. CASE UNCHANGED runs
    BY <1>1, <2>2
  <2>3. CASE ~Terminal(leaving[a].run) /\ AtVersion(a) /\ runs' = Cancelled(leaving[a].run, "abandoned")
    <3>1. \A x \in Runs \ {leaving[a].run} : runs'[x] = runs[x]
      BY <2>1, <2>3, IsCancelled DEF IInv
    <3>2. leaving[a].pc = "cancel" /\ leaving[a].version = runs[leaving[a].run].version
      BY <1>12, <2>3 DEF Abandon, AtVersion
    <3> QED
      BY <2>3, <3>1, <3>2 DEF Outcome
  <2> QED
    BY <1>12, <2>2, <2>3 DEF Abandon
<1>13. ASSUME NEW a \in Abandoners, TellWorker(a)
       PROVE  \A x \in Runs : Outcome(x)
  <2>1. leaving[a].run \in Runs
    BY <1>0, <1>13, LeavingKnown DEF TellWorker, Abandonments
  <2> QED
    BY <1>5, <1>13, <2>1 DEF TellWorker
<1>14. ASSUME UNCHANGED runs \/ (\E c \in Callers : Respond(c) \/ \E r \in Runs, k \in Keys : Call(c, r, k))
              \/ (\E a \in Abandoners : Leave(a) \/ ReadVersion(a))
       PROVE  \A x \in Runs : Outcome(x)
  BY <1>1, <1>14, Zenon DEF Respond, Call, Leave, ReadVersion
<1> QED
  BY <1>7, <1>8, <1>9, <1>10, <1>11, <1>12, <1>13, <1>14 DEF Next

\* A run that ended has ended: cancelRunTx and the report of a completion never rewrite an
\* outcome, a sender abandons a run only at a version it has read, and execution_active
\* falls only when no worker works on the run.
THEOREM EndsAreForGood == Spec => EndedForGood
<1>1. IInv /\ [Next]_vars =>
          [\A r \in Runs : Terminal(r) => /\ runs'[r].life = runs[r].life
                                          /\ runs'[r].by = runs[r].by
                                          /\ runs'[r].version = runs[r].version]_vars
  BY OutcomeStep DEF Outcome
<1>2. IInv /\ [Next]_vars =>
          [\A r \in Runs : runs[r].by # "abandoned" /\ runs'[r].by = "abandoned" =>
               \E a \in Abandoners : leaving[a].pc = "cancel" /\ leaving[a].run = r
                                     /\ leaving[a].version = runs[r].version]_vars
  BY OutcomeStep DEF Outcome
<1>3. IInv => ReleasedAfterExit
  BY DEF IInv
<1> QED
  BY <1>1, <1>2, <1>3, Inductive, PTL DEF Spec, EndedForGood, OutcomeFixed, AbandonedAsRead
=============================================================================
