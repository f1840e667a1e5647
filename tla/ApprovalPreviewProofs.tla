------------------------ MODULE ApprovalPreviewProofs ------------------------
(***************************************************************************)
(* What is approved is what was shown, for any number of people, changes   *)
(* of the file and requests.                                               *)
(*                                                                         *)
(* The properties of the approval are not inductive: whether a token is    *)
(* given for what its approver saw depends on what the request learnt many *)
(* steps before.  Honest(a) says of a request, at each of its steps, where *)
(* the view it carries comes from.                                         *)
(***************************************************************************)
EXTENDS ApprovalPreview, TLAPS

Pcs == {"idle", "look", "find", "make", "store", "reread", "check", "confirm",
        "decide", "audit", "commit"}
Requests == [pc : Pcs, op : {"open", "approve", "grant"}, refresh : BOOLEAN, made : Views,
             got : Views, ready : BOOLEAN, opens : Nat]

Typed ==
  /\ file \in Contents /\ late \in BOOLEAN /\ session \in {"active", "deleting"}
  /\ status \in {"pending", "approved", "denied", "expired"}
  /\ preview \in Views
  /\ token \in [before : Views, by : Actors] \cup {None}
  /\ audited \in BOOLEAN /\ notice \in BOOLEAN
  /\ req \in [Actors -> Requests]
  /\ shown \in [Actors -> Views]
  /\ during \in [Actors -> SUBSET Contents]

\* What the request of an actor carries: a view it made or confirmed is one the
\* file had while it ran; the view a decision is taken on was shown to the actor;
\* the automation gets to its decision only over the audit log.
Honest(a) ==
  /\ ~At(a, "idle") => file \in during[a]
  /\ req[a].made \notin {None, Unavailable} => req[a].made \in during[a]
  /\ At(a, "store") => req[a].made # None
  /\ At(a, "reread") => preview # None
  /\ req[a].pc \in {"check", "confirm", "decide", "audit", "commit"} => req[a].got # None
  /\ req[a].ready => /\ req[a].pc \in {"confirm", "decide", "audit", "commit"}
                     /\ req[a].got \in during[a]
  /\ req[a].pc \in {"decide", "audit", "commit"} => req[a].ready /\ shown[a] = req[a].got
  /\ At(a, "decide") => req[a].op = "approve"
  /\ At(a, "audit") => req[a].op = "grant"
  /\ At(a, "commit") => req[a].op = "approve" \/ (req[a].op = "grant" /\ audited)
  /\ req[a].op = "approve" => a # Automation

IInv == Typed /\ ShownIsGranted /\ \A a \in Actors : Honest(a)

-----------------------------------------------------------------------------

\* The beginning: nothing stored, nobody at work.
LEMMA Initially == Init => IInv
<1> SUFFICES ASSUME Init PROVE IInv
  OBVIOUS
<1>1. Typed
  <2>1. Idle \in Requests
    BY DEF Requests, Pcs, Idle, Views
  <2>2. req \in [Actors -> Requests]
    BY <2>1 DEF Init
  <2>3. file \in Contents
    BY ValuesAssumption DEF Init, Contents
  <2> QED
    BY <2>2, <2>3, Zenon DEF Init, Typed, Views
<1>2. ShownIsGranted
  BY ValuesAssumption DEF Init, ShownIsGranted, TypeOK, BoundToShown, GrantRecorded, Views
<1>3. ASSUME NEW a \in Actors PROVE Honest(a)
  <2>1. req[a] = Idle
    BY DEF Init
  <2> QED
    BY <2>1 DEF Honest, At, Idle
<1> QED
  BY <1>1, <1>2, <1>3 DEF IInv

\* Whatever the others do, a request keeps what it has.
LEMMA OthersKeep ==
  ASSUME NEW a \in Actors, Honest(a), req'[a] = req[a], shown'[a] = shown[a],
         during[a] \subseteq during'[a], ~At(a, "idle") => file' \in during'[a],
         preview # None => preview' # None, audited => audited'
  PROVE  Honest(a)'
<1>1. CASE At(a, "reread")
  BY <1>1 DEF Honest, At
<1>2. CASE ~At(a, "reread")
  BY <1>2 DEF Honest, At
<1> QED
  BY <1>1, <1>2

\* The end of a request leaves nothing that could be used later.
LEMMA LeaveKeeps ==
  ASSUME Typed, NEW a \in Actors, Leave(a)
  PROVE  /\ req' \in [Actors -> Requests]
         /\ \A b \in Actors \ {a} : req'[b] = req[b]
         /\ Honest(a)'
<1>1. req[a] \in Requests
  BY DEF Typed
<1>2. [Idle EXCEPT !.opens = req[a].opens] \in Requests
  BY <1>1, Zenon DEF Requests, Idle, Pcs, Views
<1>3. /\ req' = [req EXCEPT ![a] = [Idle EXCEPT !.opens = req[a].opens]]
      /\ req'[a] = [Idle EXCEPT !.opens = req[a].opens]
  BY DEF Leave, Typed
<1>4. /\ req'[a].pc = "idle" /\ req'[a].op = "open" /\ req'[a].made = None
      /\ req'[a].ready = FALSE
  BY <1>3 DEF Idle
<1>5. Honest(a)'
  BY <1>4 DEF Honest, At
<1> QED
  BY <1>2, <1>3, <1>5 DEF Typed

\* The next place of a request, with everything else as it was.
LEMMA GoToKeeps ==
  ASSUME Typed, NEW a \in Actors, NEW pc \in Pcs, GoTo(a, pc)
  PROVE  /\ req' \in [Actors -> Requests]
         /\ \A b \in Actors \ {a} : req'[b] = req[b]
         /\ req'[a] = [req[a] EXCEPT !.pc = pc]
         /\ req'[a].pc = pc /\ req'[a].op = req[a].op /\ req'[a].refresh = req[a].refresh
         /\ req'[a].made = req[a].made /\ req'[a].got = req[a].got
         /\ req'[a].ready = req[a].ready
<1>1. req[a] \in Requests
  BY DEF Typed
<1> QED
  BY <1>1 DEF GoTo, Typed, Requests

\* The steps of one request keep the others honest.
LEMMA OneMoves ==
  ASSUME IInv, NEW a \in Actors, Honest(a)', \A b \in Actors \ {a} : req'[b] = req[b],
         \A b \in Actors \ {a} : shown'[b] = shown[b], during' = during, file' = file,
         preview # None => preview' # None, audited => audited'
  PROVE  \A b \in Actors : Honest(b)'
<1> SUFFICES ASSUME NEW b \in Actors PROVE Honest(b)'
  OBVIOUS
<1>1. CASE b = a
  BY <1>1
<1>2. CASE b # a
  <2>1. Honest(b)
    BY DEF IInv
  <2>2. ~At(b, "idle") => file' \in during'[b]
    BY <2>1 DEF Honest
  <2> QED
    BY <1>2, <2>1, <2>2, OthersKeep
<1> QED
  BY <1>1, <1>2

\* What is on record stays as it is: ShownIsGranted has nothing to lose.
LEMMA RecordKept ==
  ASSUME ShownIsGranted, UNCHANGED record
  PROVE  ShownIsGranted'
  BY DEF ShownIsGranted, TypeOK, BoundToShown, GrantRecorded, record

LEMMA ExpiryKeeps ==
  ASSUME Typed, ShownIsGranted, Expired
  PROVE  /\ ShownIsGranted'
         /\ status' = "expired" /\ token' = None
         /\ preview' = preview /\ audited' = audited /\ notice' = notice
  BY DEF ShownIsGranted, TypeOK, BoundToShown, GrantRecorded, Expired

-----------------------------------------------------------------------------

\* The world around: the file changes, time passes, the session is withdrawn.
LEMMA WorldKeeps ==
  ASSUME IInv, Change \/ Deadline \/ Withdraw \/ GetApprovalForRuntime \/ DenyApproval
  PROVE  IInv'
<1> USE DEF IInv
<1>1. req' = req /\ shown' = shown /\ preview' = preview /\ audited' = audited
  BY DEF Change, Deadline, Withdraw, GetApprovalForRuntime, DenyApproval, Expired, record
<1>2. Typed'
  <2>1. CASE Change
    <3>1. file' \in Contents
      BY <2>1, ValuesAssumption DEF Change, Typed, Contents
    <3> QED
      BY <1>1, <2>1, <3>1 DEF Change, Typed, record
  <2> QED
    BY <1>1, <2>1, Zenon DEF Typed, Deadline, Withdraw, GetApprovalForRuntime, DenyApproval, Expired, record, world
<1>3. ShownIsGranted'
  <2>1. CASE Change \/ Deadline \/ Withdraw
    BY <2>1, RecordKept DEF Change, Deadline, Withdraw
  <2>2. CASE GetApprovalForRuntime
    BY <2>2, ExpiryKeeps DEF GetApprovalForRuntime
  <2>3. CASE DenyApproval
    <3>1. CASE late
      BY <2>3, <3>1, ExpiryKeeps DEF DenyApproval
    <3>2. CASE ~late
      BY <2>3, <3>2 DEF DenyApproval, Deniable, ShownIsGranted, TypeOK, BoundToShown, GrantRecorded
    <3> QED
      BY <3>1, <3>2
  <2> QED
    BY <2>1, <2>2, <2>3
<1>4. ASSUME NEW a \in Actors PROVE Honest(a)'
  <2>1. Honest(a)
    OBVIOUS
  <2>2. CASE Change
    <3>1. /\ file' = file + 1
          /\ during'[a] = IF At(a, "idle") THEN during[a] ELSE during[a] \cup {file + 1}
      BY <2>2 DEF Change
    <3> QED
      BY <1>1, <2>1, <3>1, OthersKeep
  <2>3. CASE ~Change
    <3>1. file' = file /\ during' = during
      BY <2>3 DEF Deadline, Withdraw, GetApprovalForRuntime, DenyApproval, world
    <3>2. ~At(a, "idle") => file' \in during'[a]
      BY <2>1, <3>1 DEF Honest
    <3> QED
      BY <1>1, <2>1, <3>1, <3>2, OthersKeep
  <2> QED
    BY <2>2, <2>3
<1> QED
  BY <1>2, <1>3, <1>4

\* A request begins with nothing from the one before.
LEMMA BeginKeeps ==
  ASSUME IInv, NEW a \in Actors, NEW op \in {"open", "approve", "grant"}, NEW refresh \in BOOLEAN,
         op = "approve" => a # Automation, Begin(a, op, refresh)
  PROVE  IInv'
<1> USE DEF IInv
<1> DEFINE fresh == [Idle EXCEPT !.pc = "look", !.op = op, !.refresh = refresh,
                                 !.opens = req[a].opens + 1]
<1>1. /\ req' = [req EXCEPT ![a] = fresh]
      /\ during' = [during EXCEPT ![a] = {file}]
      /\ UNCHANGED <<world, record, shown>>
  BY DEF Begin
<1>2. fresh \in Requests
  <2>1. req[a].opens + 1 \in Nat
    BY DEF Typed, Requests
  <2> QED
    BY <2>1, Zenon DEF Requests, Idle, Pcs, Views
<1>3. /\ fresh.pc = "look" /\ fresh.op = op /\ fresh.made = None /\ fresh.ready = FALSE
  BY DEF Idle
<1> HIDE DEF fresh
<1>4. Typed'
  BY <1>1, <1>2 DEF Typed, world, record
<1>5. ShownIsGranted'
  BY <1>1, RecordKept
<1>6. ASSUME NEW b \in Actors PROVE Honest(b)'
  <2>1. CASE b = a
    <3>1. req'[b] = fresh /\ during'[b] = {file} /\ file' = file
      BY <1>1, <2>1 DEF Typed, world
    <3> QED
      BY <1>3, <2>1, <3>1 DEF Honest, At
  <2>2. CASE b # a
    <3>1. /\ req'[b] = req[b] /\ during'[b] = during[b] /\ shown' = shown
          /\ file' = file /\ preview' = preview /\ audited' = audited
      BY <1>1, <2>2 DEF Typed, world, record
    <3>2. Honest(b)
      OBVIOUS
    <3>3. ~At(b, "idle") => file' \in during'[b]
      BY <3>1, <3>2 DEF Honest
    <3> QED
      BY <3>1, <3>2, <3>3, OthersKeep
  <2> QED
    BY <2>1, <2>2
<1> QED
  BY <1>4, <1>5, <1>6

\* A request leaves, after an expiry or without a trace.
LEMMA LeavingKeeps ==
  ASSUME IInv, NEW a \in Actors, Leave(a), UNCHANGED <<world, shown, during>>,
         UNCHANGED record \/ Expired
  PROVE  IInv'
<1> USE DEF IInv
<1>1. /\ req' \in [Actors -> Requests]
      /\ \A b \in Actors \ {a} : req'[b] = req[b]
      /\ Honest(a)'
  BY LeaveKeeps
<1>2. preview' = preview /\ audited' = audited
  BY DEF record, Expired
<1>3. Typed'
  BY <1>1 DEF Typed, world, record, Expired
<1>4. ShownIsGranted'
  BY RecordKept, ExpiryKeeps
<1>5. \A b \in Actors : Honest(b)'
  BY <1>1, <1>2, OneMoves DEF world
<1> QED
  BY <1>3, <1>4, <1>5

\* A request goes on, with the record as it is.
LEMMA GoingKeeps ==
  ASSUME IInv, NEW a \in Actors, req' \in [Actors -> Requests],
         \A b \in Actors \ {a} : req'[b] = req[b], Honest(a)', UNCHANGED <<world, record, during>>,
         shown' \in [Actors -> Views], \A b \in Actors \ {a} : shown'[b] = shown[b]
  PROVE  IInv'
<1> USE DEF IInv
<1>1. Typed'
  BY DEF Typed, world, record
<1>2. ShownIsGranted'
  BY RecordKept
<1>3. \A b \in Actors : Honest(b)'
  BY OneMoves DEF world, record
<1> QED
  BY <1>1, <1>2, <1>3

-----------------------------------------------------------------------------

LEMMA LookKeeps ==
  ASSUME IInv, NEW a \in Actors, Look(a)
  PROVE  IInv'
<1>1. At(a, "look") /\ UNCHANGED <<world, shown, during>>
  BY DEF Look
<1>2. CASE GoTo(a, "find") /\ UNCHANGED record
  <2>1. /\ req' \in [Actors -> Requests]
        /\ \A b \in Actors \ {a} : req'[b] = req[b]
        /\ req'[a].pc = "find" /\ req'[a].op = req[a].op /\ req'[a].made = req[a].made
        /\ req'[a].got = req[a].got /\ req'[a].ready = req[a].ready
    BY <1>2, GoToKeeps, Zenon DEF IInv, Pcs
  <2>2. Honest(a)'
    BY <1>1, <2>1 DEF IInv, Honest, At, world
  <2> QED
    BY <1>1, <1>2, <2>1, <2>2, GoingKeeps DEF IInv, Typed
<1>3. CASE Leave(a) /\ (UNCHANGED record \/ Expired)
  BY <1>1, <1>3, LeavingKeeps
<1> QED
  BY <1>2, <1>3 DEF Look

LEMMA FindKeeps ==
  ASSUME IInv, NEW a \in Actors, Find(a)
  PROVE  IInv'
<1>1. At(a, "find") /\ UNCHANGED <<world, record, shown, during>>
  BY DEF Find
<1>2. Honest(a) /\ req[a] \in Requests /\ Typed
  BY DEF IInv, Typed
<1>3. CASE GoTo(a, "make")
  <2>1. /\ req' \in [Actors -> Requests]
        /\ \A b \in Actors \ {a} : req'[b] = req[b]
        /\ req'[a].pc = "make" /\ req'[a].op = req[a].op /\ req'[a].made = req[a].made
        /\ req'[a].got = req[a].got /\ req'[a].ready = req[a].ready
    BY <1>2, <1>3, GoToKeeps, Zenon DEF Pcs
  <2>2. Honest(a)'
    BY <1>1, <1>2, <2>1 DEF Honest, At, world
  <2> QED
    BY <1>1, <2>1, <2>2, GoingKeeps DEF IInv, Typed
<1>4. CASE preview # None /\ req' = [req EXCEPT ![a].pc = "check", ![a].got = preview]
  <2>1. /\ req' \in [Actors -> Requests]
        /\ \A b \in Actors \ {a} : req'[b] = req[b]
        /\ req'[a].pc = "check" /\ req'[a].op = req[a].op /\ req'[a].made = req[a].made
        /\ req'[a].got = preview /\ req'[a].ready = req[a].ready
    BY <1>2, <1>4, Zenon DEF Typed, Requests, Pcs
  <2>2. Honest(a)'
    BY <1>1, <1>2, <1>4, <2>1 DEF Honest, At, world
  <2> QED
    BY <1>1, <2>1, <2>2, GoingKeeps DEF IInv, Typed
<1> QED
  BY <1>3, <1>4 DEF Find

LEMMA MakeKeeps ==
  ASSUME IInv, NEW a \in Actors, Make(a)
  PROVE  IInv'
<1>1. At(a, "make") /\ UNCHANGED <<world, record, shown, during>>
  BY DEF Make
<1>2. Honest(a) /\ req[a] \in Requests /\ Typed
  BY DEF IInv, Typed
<1>3. PICK p \in {file, Unavailable} : req' = [req EXCEPT ![a].pc = "store", ![a].made = p]
  BY Zenon DEF Make
<1>4. p \in Views /\ p # None
  BY <1>2, ValuesAssumption DEF Typed, Views
<1>5. /\ req' \in [Actors -> Requests]
      /\ \A b \in Actors \ {a} : req'[b] = req[b]
      /\ req'[a].pc = "store" /\ req'[a].op = req[a].op /\ req'[a].made = p
      /\ req'[a].got = req[a].got /\ req'[a].ready = req[a].ready
  BY <1>2, <1>3, <1>4, Zenon DEF Typed, Requests, Pcs
<1>6. Honest(a)'
  BY <1>1, <1>2, <1>4, <1>5 DEF Honest, At, world
<1> QED
  BY <1>1, <1>5, <1>6, GoingKeeps DEF IInv, Typed

\* A stored preview is replaced only while nothing was decided on it.
LEMMA StoreKeeps ==
  ASSUME IInv, NEW a \in Actors, Store(a)
  PROVE  IInv'
<1>1. At(a, "store") /\ UNCHANGED <<world, status, token, audited, notice, shown, during>>
  BY DEF Store
<1>2. Honest(a) /\ req[a] \in Requests /\ Typed /\ ShownIsGranted
  BY DEF IInv, Typed
<1>3. CASE ~Storable /\ Leave(a) /\ UNCHANGED preview
  BY <1>1, <1>3, LeavingKeeps DEF record
<1>4. CASE /\ Storable
           /\ preview' = IF preview = None \/ req[a].refresh THEN req[a].made ELSE preview
           /\ GoTo(a, "reread")
  <2>1. /\ req' \in [Actors -> Requests]
        /\ \A b \in Actors \ {a} : req'[b] = req[b]
        /\ req'[a].pc = "reread" /\ req'[a].op = req[a].op /\ req'[a].made = req[a].made
        /\ req'[a].got = req[a].got /\ req'[a].ready = req[a].ready
    BY <1>2, <1>4, GoToKeeps, Zenon DEF Pcs
  <2>2. preview' \in Views /\ preview' # None
    BY <1>1, <1>2, <1>4 DEF Typed, Requests, Honest
  <2>3. Honest(a)'
    BY <1>1, <1>2, <2>1, <2>2 DEF Honest, At, world
  <2>4. Typed'
    BY <1>1, <1>2, <2>1, <2>2 DEF Typed, world
  <2>5. ShownIsGranted'
    BY <1>1, <1>2, <1>4, <2>2 DEF ShownIsGranted, TypeOK, BoundToShown, GrantRecorded, Storable
  <2>6. \A b \in Actors : Honest(b)'
    BY <1>1, <2>1, <2>2, <2>3, OneMoves DEF world
  <2> QED
    BY <2>4, <2>5, <2>6 DEF IInv
<1> QED
  BY <1>3, <1>4 DEF Store

LEMMA RereadKeeps ==
  ASSUME IInv, NEW a \in Actors, Reread(a)
  PROVE  IInv'
<1>1. At(a, "reread") /\ UNCHANGED <<world, record, shown, during>>
  BY DEF Reread
<1>2. Honest(a) /\ req[a] \in Requests /\ Typed
  BY DEF IInv, Typed
<1>3. CASE Leave(a)
  BY <1>1, <1>3, LeavingKeeps
<1>4. CASE req' = [req EXCEPT ![a].pc = "check", ![a].got = preview]
  <2>1. /\ req' \in [Actors -> Requests]
        /\ \A b \in Actors \ {a} : req'[b] = req[b]
        /\ req'[a].pc = "check" /\ req'[a].op = req[a].op /\ req'[a].made = req[a].made
        /\ req'[a].got = preview /\ req'[a].ready = req[a].ready
    BY <1>2, <1>4, Zenon DEF Typed, Requests, Pcs
  <2>2. Honest(a)'
    BY <1>1, <1>2, <2>1 DEF Honest, At, world
  <2> QED
    BY <1>1, <2>1, <2>2, GoingKeeps DEF IInv, Typed
<1> QED
  BY <1>3, <1>4 DEF Reread

\* The check: a view counts as ready if the file reads as it now, or did when the
\* request made it.
LEMMA CheckKeeps ==
  ASSUME IInv, NEW a \in Actors, Check(a)
  PROVE  IInv'
<1>1. At(a, "check") /\ UNCHANGED <<world, record, shown, during>>
  BY DEF Check
<1>2. Honest(a) /\ req[a] \in Requests /\ Typed
  BY DEF IInv, Typed
<1>3. PICK yes \in BOOLEAN :
        /\ req' = [req EXCEPT ![a].pc = "confirm", ![a].ready = yes]
        /\ yes => \/ file = req[a].got
                  \/ req[a].got # Unavailable /\ req[a].made = req[a].got
  <2>1. CASE MustCheck(a)
    <3>1. PICK answered \in BOOLEAN :
            req' = [req EXCEPT ![a].pc = "confirm", ![a].ready = answered /\ file = req[a].got]
      BY <2>1 DEF Check
    <3> QED
      BY <3>1, Zenon
  <2>2. CASE ~MustCheck(a)
    BY <2>2, Zenon DEF Check, MustCheck
  <2> QED
    BY <2>1, <2>2
<1>4. /\ req' \in [Actors -> Requests]
      /\ \A b \in Actors \ {a} : req'[b] = req[b]
      /\ req'[a].pc = "confirm" /\ req'[a].op = req[a].op /\ req'[a].made = req[a].made
      /\ req'[a].got = req[a].got /\ req'[a].ready = yes
  BY <1>2, <1>3, Zenon DEF Typed, Requests, Pcs
<1>5. yes => req[a].got \in during[a]
  BY <1>1, <1>2, <1>3 DEF Honest, At
<1>6. Honest(a)'
  BY <1>1, <1>2, <1>4, <1>5 DEF Honest, At, world
<1> QED
  BY <1>1, <1>4, <1>6, GoingKeeps DEF IInv, Typed

\* The last reads: an approval goes on over the view its caller names, a grant over
\* the one it is shown here.
LEMMA ConfirmKeeps ==
  ASSUME IInv, NEW a \in Actors, Confirm(a)
  PROVE  IInv'
<1>1. At(a, "confirm") /\ UNCHANGED <<world, record, during>>
  BY DEF Confirm
<1>2. Honest(a) /\ req[a] \in Requests /\ Typed
  BY DEF IInv, Typed
<1>3. shown' \in [Actors -> Views] /\ \A b \in Actors \ {a} : shown'[b] = shown[b]
  <2>1. \/ UNCHANGED shown
        \/ shown' = [shown EXCEPT ![a] = req[a].got]
        \/ shown' = [shown EXCEPT ![a] = None]
    BY DEF Confirm
  <2> QED
    BY <1>2, <2>1 DEF Typed, Requests, Views
<1>4. CASE Leave(a)
  BY <1>1, <1>2, <1>3, <1>4, LeaveKeeps, GoingKeeps
<1>5. ASSUME NEW pc \in {"decide", "audit"}, GoTo(a, pc), req[a].ready, shown'[a] = req[a].got,
             pc = "decide" => req[a].op = "approve", pc = "audit" => req[a].op = "grant"
      PROVE  IInv'
  <2>1. /\ req' \in [Actors -> Requests]
        /\ \A b \in Actors \ {a} : req'[b] = req[b]
        /\ req'[a].pc = pc /\ req'[a].op = req[a].op /\ req'[a].made = req[a].made
        /\ req'[a].got = req[a].got /\ req'[a].ready = req[a].ready
    BY <1>2, <1>5, GoToKeeps, Zenon DEF Pcs
  <2>2. Honest(a)'
    BY <1>1, <1>2, <1>5, <2>1 DEF Honest, At, world
  <2> QED
    BY <1>1, <1>3, <2>1, <2>2, GoingKeeps
<1>6. CASE req[a].op = "approve" /\ req[a].ready /\ NamesShown(a) /\ GoTo(a, "decide") /\ UNCHANGED shown
  BY <1>5, <1>6 DEF NamesShown
<1>7. CASE /\ req[a].op = "grant" /\ req[a].ready /\ GoTo(a, "audit")
           /\ shown' = [shown EXCEPT ![a] = req[a].got]
  BY <1>2, <1>5, <1>7 DEF Typed
<1> QED
  BY <1>4, <1>6, <1>7 DEF Confirm

LEMMA DecideKeeps ==
  ASSUME IInv, NEW a \in Actors, Decide(a)
  PROVE  IInv'
<1>1. At(a, "decide") /\ UNCHANGED <<world, shown, during>>
  BY DEF Decide
<1>2. Honest(a) /\ req[a] \in Requests /\ Typed
  BY DEF IInv, Typed
<1>3. CASE Leave(a) /\ (UNCHANGED record \/ Expired)
  BY <1>1, <1>3, LeavingKeeps
<1>4. CASE GoTo(a, "commit") /\ UNCHANGED record
  <2>1. /\ req' \in [Actors -> Requests]
        /\ \A b \in Actors \ {a} : req'[b] = req[b]
        /\ req'[a].pc = "commit" /\ req'[a].op = req[a].op /\ req'[a].made = req[a].made
        /\ req'[a].got = req[a].got /\ req'[a].ready = req[a].ready
    BY <1>2, <1>4, GoToKeeps, Zenon DEF Pcs
  <2>2. Honest(a)'
    BY <1>1, <1>2, <2>1 DEF Honest, At, world
  <2> QED
    BY <1>1, <1>4, <2>1, <2>2, GoingKeeps DEF IInv, Typed
<1> QED
  BY <1>3, <1>4 DEF Decide

\* The automation's decision is taken only with its audit row written.
LEMMA AuditKeeps ==
  ASSUME IInv, NEW a \in Actors, Audit(a)
  PROVE  IInv'
<1>1. At(a, "audit") /\ UNCHANGED <<world, status, preview, token, notice, shown, during>>
  BY DEF Audit
<1>2. Honest(a) /\ req[a] \in Requests /\ Typed /\ ShownIsGranted
  BY DEF IInv, Typed
<1>3. PICK ok \in BOOLEAN : /\ audited' = (audited \/ ok)
                            /\ IF Recorded(ok) THEN GoTo(a, "commit") ELSE Leave(a)
  BY DEF Audit
<1>4. audited' \in BOOLEAN /\ (audited => audited') /\ (Recorded(ok) => audited')
  BY <1>2, <1>3 DEF Typed, Recorded
<1>5. /\ req' \in [Actors -> Requests]
      /\ \A b \in Actors \ {a} : req'[b] = req[b]
      /\ Honest(a)'
  <2>1. CASE ~Recorded(ok)
    BY <1>2, <1>3, <2>1, LeaveKeeps
  <2>2. CASE Recorded(ok)
    <3>1. /\ req' \in [Actors -> Requests]
          /\ \A b \in Actors \ {a} : req'[b] = req[b]
          /\ req'[a].pc = "commit" /\ req'[a].op = req[a].op /\ req'[a].made = req[a].made
          /\ req'[a].got = req[a].got /\ req'[a].ready = req[a].ready
      BY <1>2, <1>3, <2>2, GoToKeeps, Zenon DEF Pcs
    <3>2. Honest(a)'
      BY <1>1, <1>2, <1>4, <2>2, <3>1 DEF Honest, At, world
    <3> QED
      BY <3>1, <3>2
  <2> QED
    BY <2>1, <2>2
<1>6. Typed'
  BY <1>1, <1>2, <1>4, <1>5 DEF Typed, world
<1>7. ShownIsGranted'
  BY <1>1, <1>2, <1>4 DEF ShownIsGranted, TypeOK, BoundToShown, GrantRecorded
<1>8. \A b \in Actors : Honest(b)'
  BY <1>1, <1>4, <1>5, OneMoves DEF world
<1> QED
  BY <1>6, <1>7, <1>8 DEF IInv

\* What a commit that gives a token has at hand.
LEMMA CommitGives ==
  ASSUME IInv, NEW a \in Actors, Commit(a), token' # token, token' # None
  PROVE  /\ token' = [before |-> req[a].got, by |-> a]
         /\ preview = req[a].got /\ preview' = preview
         /\ shown[a] = req[a].got /\ req[a].got \in during[a]
         /\ a = Automation => audited
<1>1. At(a, "commit") /\ Honest(a)
  BY DEF Commit, IInv
<1>2. Decidable(a) /\ preview' = preview /\ token' = [before |-> req[a].got, by |-> a]
  BY DEF Commit, Expired, record
<1> QED
  BY <1>1, <1>2 DEF Honest, At, Decidable

LEMMA CommitKeeps ==
  ASSUME IInv, NEW a \in Actors, Commit(a)
  PROVE  IInv'
<1>1. Leave(a) /\ UNCHANGED <<world, shown, during>>
  BY DEF Commit
<1>2. req[a] \in Requests /\ Typed /\ ShownIsGranted
  BY DEF IInv, Typed
<1>3. CASE UNCHANGED record \/ Expired
  BY <1>1, <1>3, LeavingKeeps
<1>4. CASE /\ Decidable(a)
           /\ status' = "approved"
           /\ token' = IF status = "approved" THEN token ELSE [before |-> req[a].got, by |-> a]
           /\ notice' = (notice \/ a = Automation)
           /\ UNCHANGED <<preview, audited>>
  <2>1. /\ req' \in [Actors -> Requests]
        /\ \A b \in Actors \ {a} : req'[b] = req[b]
        /\ Honest(a)'
    BY <1>1, <1>2, LeaveKeeps
  <2>2. token' \in [before : Views, by : Actors]
    BY <1>2, <1>4 DEF Typed, Requests, ShownIsGranted, TypeOK
  <2>3. token' # None
    BY <2>2, ValuesAssumption
  <2>4. preview' = token'.before /\ (token'.by = Automation => audited')
    <3>1. CASE token' = token
      BY <1>2, <1>4, <2>3, <3>1 DEF ShownIsGranted, BoundToShown, GrantRecorded
    <3>2. CASE token' # token
      BY <1>4, <2>3, <3>2, CommitGives
    <3> QED
      BY <3>1, <3>2
  <2>5. Typed'
    BY <1>1, <1>2, <1>4, <2>1, <2>2 DEF Typed, world
  <2>6. ShownIsGranted'
    BY <1>2, <1>4, <2>3, <2>4 DEF Typed, ShownIsGranted, TypeOK, BoundToShown, GrantRecorded
  <2>7. \A b \in Actors : Honest(b)'
    BY <1>1, <1>4, <2>1, OneMoves DEF world
  <2> QED
    BY <2>5, <2>6, <2>7 DEF IInv
<1> QED
  BY <1>3, <1>4 DEF Commit

-----------------------------------------------------------------------------

LEMMA Preserved == IInv /\ [Next]_vars => IInv'
<1> SUFFICES ASSUME IInv, [Next]_vars PROVE IInv'
  OBVIOUS
<1>1. CASE UNCHANGED vars
  BY <1>1 DEF vars, IInv, Typed, ShownIsGranted, TypeOK, BoundToShown, GrantRecorded, Honest, At
<1>2. CASE Change \/ Deadline \/ Withdraw \/ GetApprovalForRuntime \/ DenyApproval
  BY <1>2, WorldKeeps
<1>3. ASSUME NEW a \in People, OpenDetails(a) \/ ApproveApproval(a) PROVE IInv'
  <2>1. a \in Actors /\ a # Automation
    BY ValuesAssumption DEF Actors
  <2> QED
    BY <1>3, <2>1, BeginKeeps, Zenon DEF OpenDetails, ApproveApproval
<1>4. CASE GrantUnattended
  BY <1>4, BeginKeeps, Zenon DEF GrantUnattended, Actors
<1>5. ASSUME NEW a \in Actors, Step(a) PROVE IInv'
  BY <1>5, LookKeeps, FindKeeps, MakeKeeps, StoreKeeps, RereadKeeps, CheckKeeps, ConfirmKeeps,
     DecideKeeps, AuditKeeps, CommitKeeps DEF Step
<1> QED
  BY <1>1, <1>2, <1>3, <1>4, <1>5 DEF Next

\* The invariant of the requests and of the record holds for every number of
\* people, requests and changes of the file.
THEOREM Inductive == Spec => []IInv
  BY Initially, Preserved, PTL DEF Spec

\* GetApprovalDetails, ApproveApproval and the automation's grant: what is approved
\* stays what was shown, and an unattended approval is on record.
THEOREM GrantsAreShown == Spec => []ShownIsGranted
<1>1. IInv => ShownIsGranted
  BY DEF IInv
<1> QED
  BY <1>1, Inductive, PTL

\* Who changes the token or the preview.
LEMMA TokensAndPreviews ==
  ASSUME IInv, [Next]_vars
  PROVE  /\ token = None /\ token' # None =>
              LET a == token'.by IN shown[a] = token'.before /\ token'.before \in during[a]
         /\ status # "pending" => preview' = preview
<1>1. CASE \E a \in Actors : Commit(a)
  <2>1. PICK a \in Actors : Commit(a)
    BY <1>1
  <2>2. preview' = preview
    BY <2>1 DEF Commit, Expired, record
  <2>3. ASSUME token = None, token' # None
        PROVE  shown[token'.by] = token'.before /\ token'.before \in during[token'.by]
    <3>1. /\ token' = [before |-> req[a].got, by |-> a]
          /\ shown[a] = req[a].got /\ req[a].got \in during[a]
      BY <2>1, <2>3, CommitGives
    <3> QED
      BY <3>1
  <2> QED
    BY <2>2, <2>3
<1>2. CASE ~\E a \in Actors : Commit(a)
  <2>1. token' = token \/ token' = None
    BY <1>2, Zenon DEF Next, vars, record, Change, Deadline, Withdraw, GetApprovalForRuntime, DenyApproval,
       Expired, OpenDetails, ApproveApproval, GrantUnattended, Begin, Step, Look, Find, Make, Store,
       Reread, Check, Confirm, Decide, Audit
  <2>2. status # "pending" => preview' = preview
    BY <1>2, Zenon DEF Next, vars, record, Change, Deadline, Withdraw, GetApprovalForRuntime, DenyApproval,
       Expired, OpenDetails, ApproveApproval, GrantUnattended, Begin, Step, Look, Find, Make, Store,
       Storable, Reread, Check, Confirm, Decide, Audit
  <2> QED
    BY <2>1, <2>2
<1> QED
  BY <1>1, <1>2

\* StoreApprovalPreview and ApproveApprovalWithEvent: an approval is given for what
\* its approver was shown and the file held during the request, and the preview it
\* was given for is not replaced afterwards.
THEOREM PreviewsHold == Spec => PreviewHolds
<1>1. IInv /\ [Next]_vars =>
        [token = None /\ token' # None =>
           LET a == token'.by IN shown[a] = token'.before /\ token'.before \in during[a]]_vars
  BY TokensAndPreviews
<1>2. IInv /\ [Next]_vars => [status # "pending" => preview' = preview]_vars
  BY TokensAndPreviews
<1> QED
  BY <1>1, <1>2, Inductive, PTL DEF Spec, PreviewHolds, ShownAndLive, PreviewFixed
=============================================================================
