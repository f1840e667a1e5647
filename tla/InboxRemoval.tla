---------------------------- MODULE InboxRemoval ----------------------------
(***************************************************************************)
(* The rejection of a memory proposal, down to the directory entries: the  *)
(* file is taken off its name, proved to be the one that was rejected, and *)
(* only then unlinked; otherwise it is put back, or kept where it can be   *)
(* found.  The user has the same vault open in an editor, every system     *)
(* call may fail, the request may end, and the process may die.            *)
(*                                                                         *)
(* A directory operation is durable once the directory has been flushed.   *)
(* Until then a crash keeps any subset of the operations, each of them     *)
(* whole.  The editor flushes what it writes, and keeps no descriptor open *)
(* between two saves.                                                      *)
(***************************************************************************)
EXTENDS Naturals, Sequences, FiniteSets

CONSTANTS
  Inodes,     \* files that may come to exist in the inbox
  First,      \* the one Turing wrote
  NoInode,
  Stages,     \* reserved private names
  MaxEdits,   \* bound: saves, replacements and removals by the user
  MaxFaults   \* bound: failed calls, ended requests and crashes

Leaf == "leaf"
Draft == "draft"
Names == {Leaf, Draft} \cup Stages

\* How a read of the file comes out: it parses, its frontmatter is broken, it is
\* past the size bound, or nothing can open it.
Classes == {"note", "broken", "large", "sealed"}
Hashed == {"note", "broken"}

NoText == [version |-> 0, class |-> "note"]
Texts == [version : 0..MaxEdits, class : Classes]

\* What the removal is entitled to delete: the decided bytes, or the unreadable
\* entry the reading failed on, or nothing.
NoBinding == [by |-> "none", text |-> NoText, inode |-> NoInode]
Bindings == [by : {"none", "bytes", "entry", "absence"}, text : Texts, inode : Inodes \cup {NoInode}]

Pcs == {"idle", "read", "opened", "absent", "detached", "verified", "unlinked", "restore",
        "linked", "dropping", "dropped", "rescue", "rescued", "tidy", "kept", "refused", "marked",
        "removed", "swept", "unswept"}

VARIABLES
  dir,        \* the inbox as the processes see it
  disk,       \* the inbox as it was last flushed
  log,        \* operations since then
  text,       \* what each file says
  owed,       \* files nobody with standing has removed
  candidate,  \* whether the proposal's row is still there
  artifact,   \* vault_artifacts: ready, delete_failed, or gone
  rm,         \* the decision at work
  edits, faults

dirVars == <<dir, disk, log>>
rowVars == <<candidate, artifact>>
vars == <<dirVars, text, owed, rowVars, rm, edits, faults>>

Idle == [pc |-> "idle", binding |-> NoBinding, opened |-> NoInode, stage |-> Leaf,
         ended |-> FALSE, visible |-> FALSE]

\* An operation names the entry it leaves at a name; a move takes what is there.
Operations == [op : {"link"}, name : Names, inode : Inodes]
  \cup [op : {"drop"}, name : Names]
  \cup [op : {"move"}, name : Names, to : Names]

\* Every name holds at most one file, what is durable and what is pending are of
\* the same directory, and edits and faults stay within their bounds.
TypeOK ==
  /\ dir \in [Names -> Inodes \cup {NoInode}]
  /\ disk \in [Names -> Inodes \cup {NoInode}]
  /\ \A i \in 1..Len(log) : log[i] \in Operations
  /\ text \in [Inodes -> Texts]
  /\ owed \subseteq Inodes
  /\ candidate \in BOOLEAN
  /\ artifact \in {"ready", "delete_failed", "gone"}
  /\ rm \in [pc : Pcs, binding : Bindings, opened : Inodes \cup {NoInode},
             stage : Stages \cup {Leaf}, ended : BOOLEAN, visible : BOOLEAN]
  /\ edits \in 0..MaxEdits
  /\ faults \in 0..MaxFaults

\* CreateInboxNote and the transaction that recorded the proposal.
Init ==
  /\ dir = [n \in Names |-> IF n = Leaf THEN First ELSE NoInode]
  /\ disk = dir
  /\ log = <<>>
  /\ text = [i \in Inodes |-> NoText]
  /\ owed = {First}
  /\ candidate = TRUE
  /\ artifact = "ready"
  /\ rm = Idle
  /\ edits = 0
  /\ faults = 0

-----------------------------------------------------------------------------
\* The directory.

Applied(d, o) ==
  CASE o.op = "link" -> [d EXCEPT ![o.name] = o.inode]
    [] o.op = "drop" -> [d EXCEPT ![o.name] = NoInode]
    [] o.op = "move" -> IF d[o.name] = NoInode THEN d
                        ELSE [d EXCEPT ![o.to] = d[o.name], ![o.name] = NoInode]

Link(n, i) == [op |-> "link", name |-> n, inode |-> i]
Drop(n) == [op |-> "drop", name |-> n]
Move(n, m) == [op |-> "move", name |-> n, to |-> m]

Perform(o) ==
  /\ dir' = Applied(dir, o)
  /\ log' = Append(log, o)
  /\ UNCHANGED disk

\* What a crash leaves when it keeps the operations of the given positions.
Survivors(kept) ==
  LET after[k \in 0..Len(log)] ==
        IF k = 0 THEN disk
        ELSE IF k \in kept THEN Applied(after[k - 1], log[k]) ELSE after[k - 1]
  IN  after[Len(log)]

\* syncDirectory.
Flush ==
  /\ disk' = dir
  /\ log' = <<>>
  /\ UNCHANGED dir

Fault == faults < MaxFaults /\ faults' = faults + 1
Free == {s \in Stages : dir[s] = NoInode}

At(pc) == rm.pc = pc
GoTo(pc) == rm' = [rm EXCEPT !.pc = pc]
\* The handler only reads and decides.
Untouched == UNCHANGED <<dirVars, text, owed, rowVars, edits>>
\* It changes the directory, and nothing else.
DirectoryOnly == UNCHANGED <<text, owed, rowVars, edits>>

-----------------------------------------------------------------------------
\* The decision, RejectMemoryCandidate.

\* ReadInboxCandidate, from which rejectionRemoval makes the binding: the hash of
\* a note that parses, the entry and its raw hash or the way it refused to be
\* read, or that there was nothing.
Reading ==
  LET i == dir[Leaf]
  IN  IF i = NoInode THEN [NoBinding EXCEPT !.by = "absence"]
      ELSE IF text[i].class = "note" THEN [NoBinding EXCEPT !.by = "bytes", !.text = text[i]]
      ELSE [by |-> "entry", text |-> text[i], inode |-> i]

Decide ==
  /\ At("idle")
  /\ candidate
  /\ rm' = [Idle EXCEPT !.pc = "read", !.binding = Reading]
  /\ Untouched /\ UNCHANGED faults

\* Whether a file is what the binding names, as far as a descriptor can tell:
\* the bytes, where there was a hash; the way it refuses to be read, where there
\* was none.
StillSays(i) ==
  LET b == rm.binding
  IN  IF b.text.class \in Hashed THEN text[i] = b.text ELSE text[i].class = b.text.class

\* requireDecidedBytes and requireBoundUnreadableEntry, before anything moves.
Entitled(i) ==
  CASE rm.binding.by = "bytes" -> text[i] = rm.binding.text
    [] rm.binding.by = "entry" -> i = rm.binding.inode /\ StillSays(i) /\ text[i].class # "sealed"
    [] rm.binding.by = "absence" -> FALSE

\* RemoveInboxNote, up to the detach: the entry is opened and compared.
Open ==
  /\ At("read")
  /\ \/ dir[Leaf] = NoInode /\ GoTo("absent")
     \/ /\ dir[Leaf] # NoInode
        /\ IF rm.ended \/ ~Entitled(dir[Leaf]) THEN GoTo("refused")
           ELSE rm' = [rm EXCEPT !.pc = "opened", !.opened = dir[Leaf]]
  /\ Untouched /\ UNCHANGED faults

\* detachEntry.  A rename that fails leaves the entry where it is.
Detach ==
  /\ At("opened")
  /\ \/ rm.ended /\ GoTo("refused") /\ UNCHANGED <<dirVars, faults>>
     \/ Fault /\ GoTo("refused") /\ UNCHANGED dirVars
     \/ ~rm.ended /\ dir[Leaf] = NoInode /\ GoTo("absent") /\ UNCHANGED <<dirVars, faults>>
     \/ /\ ~rm.ended /\ dir[Leaf] # NoInode
        /\ \E s \in Free : Perform(Move(Leaf, s)) /\ rm' = [rm EXCEPT !.pc = "detached", !.stage = s]
        /\ UNCHANGED faults
  /\ DirectoryOnly

\* Fault: the detached entry is taken for the one that was opened.
FaultyVerify ==
  /\ At("detached")
  /\ IF rm.ended THEN rm' = [rm EXCEPT !.pc = "restore", !.visible = TRUE]
     ELSE GoTo("verified")
  /\ Untouched /\ UNCHANGED faults

\* The far side: objectionToDetachedEntry, and the request still being there.
Verify ==
  /\ At("detached")
  /\ IF ~rm.ended /\ dir[rm.stage] = rm.opened /\ StillSays(rm.opened) THEN GoTo("verified")
     ELSE rm' = [rm EXCEPT !.pc = "restore", !.visible = TRUE]
  /\ Untouched /\ UNCHANGED faults

\* discard.  Whoever had standing to remove these bytes has now done so.
Discard ==
  /\ At("verified")
  /\ \/ /\ Perform(Drop(rm.stage))
        /\ owed' = IF StillSays(rm.opened) /\ rm.binding.inode \in {NoInode, rm.opened}
                    THEN owed \ {rm.opened} ELSE owed
        /\ GoTo("unlinked")
        /\ UNCHANGED faults
     \/ Fault /\ rm' = [rm EXCEPT !.pc = "restore", !.visible = FALSE] /\ UNCHANGED <<dirVars, owed>>
  /\ UNCHANGED <<text, rowVars, edits>>

FlushRemoval ==
  /\ At("unlinked")
  /\ \/ Flush /\ GoTo("removed") /\ UNCHANGED faults
     \/ Fault /\ GoTo("marked") /\ UNCHANGED dirVars
  /\ DirectoryOnly

\* confirmAbsence and confirmMissingParent.
ConfirmAbsence ==
  /\ At("absent")
  /\ \/ Flush /\ GoTo("removed") /\ UNCHANGED faults
     \/ Fault /\ GoTo("refused") /\ UNCHANGED dirVars
  /\ DirectoryOnly

-----------------------------------------------------------------------------
\* What becomes of an entry that may not, or could not, be unlinked.

\* stayStaged: flushed or not, the bytes are where the detach put them.
StayStaged == (Flush /\ UNCHANGED faults) \/ (Fault /\ UNCHANGED dirVars)

\* putBackWith: the link refuses to overwrite.
LinkBack ==
  /\ At("restore")
  /\ \/ /\ dir[Leaf] = NoInode
        /\ Perform(Link(Leaf, dir[rm.stage]))
        /\ GoTo("linked")
        /\ UNCHANGED faults
     \/ /\ dir[Leaf] # NoInode \/ faults < MaxFaults
        /\ IF rm.visible THEN GoTo("rescue") ELSE GoTo("kept")
        /\ faults' = IF dir[Leaf] # NoInode THEN faults ELSE faults + 1
        /\ UNCHANGED dirVars
  /\ DirectoryOnly

FlushLinked ==
  /\ At("linked")
  /\ \/ Flush /\ GoTo("dropping") /\ UNCHANGED faults
     \/ Fault /\ GoTo("marked") /\ UNCHANGED dirVars
  /\ DirectoryOnly

\* A second link that will not go away is residue; a drop that is not flushed
\* is only a name a crash may bring back.
DropStage ==
  /\ At("dropping")
  /\ \/ Perform(Drop(rm.stage)) /\ GoTo("dropped") /\ UNCHANGED faults
     \/ Fault /\ GoTo("marked") /\ UNCHANGED dirVars
  /\ DirectoryOnly

FlushDrop ==
  /\ At("dropped")
  /\ StayStaged
  /\ GoTo("refused")
  /\ DirectoryOnly

Keep ==
  /\ At("kept")
  /\ StayStaged
  /\ GoTo("marked")
  /\ DirectoryOnly

\* rescueDetachedEntry: a visible name nobody else has, then the staging one goes.
Rescue ==
  /\ At("rescue")
  /\ \/ /\ dir[Draft] = NoInode
        /\ Perform(Link(Draft, dir[rm.stage]))
        /\ GoTo("rescued")
        /\ UNCHANGED faults
     \/ Fault /\ GoTo("kept") /\ UNCHANGED dirVars
  /\ DirectoryOnly

FlushRescue ==
  /\ At("rescued")
  /\ \/ Flush /\ GoTo("tidy") /\ UNCHANGED faults
     \/ Fault /\ GoTo("marked") /\ UNCHANGED dirVars
  /\ DirectoryOnly

TidyRescue ==
  /\ At("tidy")
  /\ \/ Perform(Drop(rm.stage)) /\ GoTo("kept") /\ UNCHANGED faults
     \/ Fault /\ GoTo("marked") /\ UNCHANGED dirVars
  /\ DirectoryOnly

-----------------------------------------------------------------------------
\* What the repository records.

\* A refusal that moved nothing leaves the rows alone.
Refused ==
  /\ At("refused")
  /\ rm' = Idle
  /\ Untouched /\ UNCHANGED faults

\* recordUnremovedVaultFile: the row that tracks the file is marked, unless
\* that record fails too.
RecordUnremoved ==
  /\ At("marked")
  /\ \/ artifact' = "delete_failed" /\ UNCHANGED faults
     \/ Fault /\ UNCHANGED artifact
  /\ rm' = Idle
  /\ UNCHANGED <<dirVars, text, owed, candidate, edits>>

\* The bytes a decision was entitled to remove, under reserved names.
Residue(t) == {s \in Stages : dir[s] # NoInode /\ text[dir[s]] = t}

\* sweepDecidedResidue: every reserved copy of the decided bytes goes and the
\* directory is flushed, or some may stay.  An entry that was never read names
\* no bytes.
Sweep ==
  /\ At("removed")
  /\ \/ /\ rm.binding.by = "absence" \/ rm.binding.text.class \notin Hashed
        /\ GoTo("swept") /\ UNCHANGED <<dirVars, owed, faults>>
     \/ /\ rm.binding.by # "absence" /\ rm.binding.text.class \in Hashed
        /\ ~rm.ended
        /\ dir' = [n \in Names |-> IF n \in Residue(rm.binding.text) THEN NoInode ELSE dir[n]]
        /\ disk' = dir' /\ log' = <<>>
        /\ owed' = owed \ {dir[s] : s \in Residue(rm.binding.text)}
        /\ GoTo("swept") /\ UNCHANGED faults
     \/ /\ rm.binding.by # "absence" /\ rm.binding.text.class \in Hashed
        /\ rm.ended \/ faults < MaxFaults
        /\ faults' = IF rm.ended THEN faults ELSE faults + 1
        /\ GoTo("unswept") /\ UNCHANGED <<dirVars, owed>>
  /\ UNCHANGED <<text, rowVars, edits>>

\* consumeMemoryCandidateTx, in the rejection's transaction, or its failure.
Consume ==
  /\ rm.pc \in {"swept", "unswept"}
  /\ \/ /\ candidate' = FALSE
        /\ artifact' = IF At("swept") THEN "gone" ELSE "delete_failed"
        /\ ~rm.ended
        /\ UNCHANGED faults
     \/ /\ rm.ended \/ faults < MaxFaults
        /\ faults' = IF rm.ended THEN faults ELSE faults + 1
        /\ UNCHANGED rowVars
  /\ rm' = Idle
  /\ UNCHANGED <<dirVars, text, owed, edits>>

\* retireOrphanCandidate, under the proposal's decision lock.
RetireOrphan ==
  /\ At("idle")
  /\ candidate
  /\ dir[Leaf] = NoInode
  /\ Flush
  /\ candidate' = FALSE
  /\ UNCHANGED <<text, owed, artifact, rm, edits, faults>>

\* releaseStaleReservation: a marked row is never released, nor one whose bytes
\* are still under a reserved name.
ReleaseReservation ==
  /\ At("idle")
  /\ ~candidate
  /\ artifact = "ready"
  /\ dir[Leaf] = NoInode
  /\ Residue(NoText) = {}
  /\ Flush
  /\ artifact' = "gone"
  /\ UNCHANGED <<text, owed, candidate, rm, edits, faults>>

-----------------------------------------------------------------------------
\* The user's editor, the client that gives up, and the process that dies.

Edit == edits < MaxEdits /\ edits' = edits + 1
NewTexts == {[version |-> edits + 1, class |-> c] : c \in Classes}

\* The file is saved in place.
SaveInPlace ==
  /\ Edit
  /\ dir[Leaf] # NoInode
  /\ \E t \in NewTexts : text' = [text EXCEPT ![dir[Leaf]] = t]
  /\ UNCHANGED <<dirVars, owed, rowVars, rm, faults>>

\* It is saved beside and renamed over the top, or created afresh.
Replace ==
  /\ Edit
  /\ \E i \in Inodes \ {First} :
       /\ i \notin owed /\ \A n \in Names : dir[n] # i /\ disk[n] # i
       /\ \E t \in NewTexts : text' = [text EXCEPT ![i] = t]
       /\ dir' = [dir EXCEPT ![Leaf] = i]
       /\ owed' = (owed \ {dir[Leaf]}) \cup {i}
  /\ disk' = dir' /\ log' = <<>>
  /\ UNCHANGED <<rowVars, rm, faults>>

\* The user deletes it.
UserRemoves ==
  /\ Edit
  /\ dir[Leaf] # NoInode
  /\ dir' = [dir EXCEPT ![Leaf] = NoInode]
  /\ disk' = dir' /\ log' = <<>>
  /\ owed' = owed \ {dir[Leaf]}
  /\ UNCHANGED <<text, rowVars, rm, faults>>

EndRequest ==
  /\ ~At("idle")
  /\ ~rm.ended
  /\ Fault
  /\ rm' = [rm EXCEPT !.ended = TRUE]
  /\ Untouched

Crash ==
  /\ Fault
  /\ \E kept \in SUBSET (1..Len(log)) :
       dir' = Survivors(kept) /\ disk' = dir' /\ log' = <<>>
  /\ rm' = Idle
  /\ DirectoryOnly

Removal ==
  \/ Decide \/ Open \/ Detach \/ Verify \/ Discard \/ FlushRemoval \/ ConfirmAbsence
  \/ LinkBack \/ FlushLinked \/ DropStage \/ FlushDrop \/ Keep
  \/ Rescue \/ FlushRescue \/ TidyRescue
  \/ Refused \/ RecordUnremoved \/ Sweep \/ Consume

Editing == SaveInPlace \/ Replace \/ UserRemoves

Next == Removal \/ RetireOrphan \/ ReleaseReservation \/ Editing \/ EndRequest \/ Crash

Spec == Init /\ [][Next]_vars

-----------------------------------------------------------------------------

\* Words nobody with standing has decided about are never lost: a file the user
\* did not remove, and whose removal was not of the bytes that were read, is under
\* some name, through every failed call, ended request and crash of the removal.
NothingUnreadIsLost ==
  \A i \in owed : \E n \in Names : dir[n] = i

\* When the manifest row is retired, the bytes it was retired for are gone for
\* good: whatever a crash would keep, they are not under the proposal's name, nor,
\* when there were bytes to look for, under a reserved one.
RetiredForGood ==
  [][(artifact # "gone" /\ artifact' = "gone") =>
       LET read == rm.binding.by # "absence" /\ rm.binding.text.class \in Hashed
           bytes == IF candidate /\ rm.binding.by # "absence" THEN rm.binding.text ELSE NoText
           names == IF candidate /\ ~read THEN {Leaf} ELSE Stages \cup {Leaf}
       IN  \A kept \in SUBSET (1..Len(log)) : \A n \in names :
             Survivors(kept)[n] # NoInode => text[Survivors(kept)[n]] # bytes]_vars

\* A removal that ends without its residue marker has left no file under a reserved
\* name alone: the row it leaves unmarked would be released for an empty path.
HiddenCopiesAreMarked ==
  At("refused") =>
    \A s \in Stages : (rm.stage = s /\ dir[s] # NoInode) => dir[Leaf] = dir[s]
=============================================================================
