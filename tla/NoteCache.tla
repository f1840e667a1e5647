------------------------------ MODULE NoteCache ------------------------------
(***************************************************************************)
(* The cache that spares a scan from reading every belief again.  An entry *)
(* stands for a file as long as its inode, its modification time, counted  *)
(* in seconds, and its length are the same.  The stated residual is two    *)
(* writes of one file in one second that leave it at one length; nothing   *)
(* else may be answered with old words, and a proposal never is.           *)
(*                                                                         *)
(* The walk looks at all files first and the scan then opens and reads     *)
(* them one after the other, while editors write in place, replace, rename *)
(* and remove them.                                                        *)
(***************************************************************************)
EXTENDS Naturals, Sequences, FiniteSets, FiniteSetsExt, SequencesExt

CONSTANTS
  Order,      \* the notes, in the order of the scan
  Inbox,      \* those of them that are proposals
  Texts,      \* what can be written in a note
  Long,       \* the texts that are longer than the others
  MaxClock,   \* bound: seconds
  MaxWrites,  \* bound: what editors do
  MaxFaults   \* bound: reads that fail

Paths == ToSet(Order)

Nothing == "nothing"
Inodes == 1..(Len(Order) + MaxWrites)
Size(t) == IF t \in Long THEN 2 ELSE 1
Metadata == [ino : Inodes, sec : 0..MaxClock, size : 1..2]
NoMetadata == [ino |-> 0, sec |-> 0, size |-> 0]
NoFile == [ino |-> 0, sec |-> 0, text |-> Nothing]
Meta(f) == IF f = NoFile THEN NoMetadata ELSE [ino |-> f.ino, sec |-> f.sec, size |-> Size(f.text)]
NoParse == [meta |-> NoMetadata, text |-> Nothing]

VARIABLES
  disk,    \* the files by path
  clock,
  inodes,  \* inodes handed out
  twice,   \* the metadata of files written again within their second
  cache,   \* MetadataCache.entries
  scan,    \* the running scan: its place, the walk's view, the open file
  rows,    \* what it has made of the proposals
  held,    \* the words the vault has held since it began
  writes, faults

vars == <<disk, clock, inodes, twice, cache, scan, rows, held, writes, faults>>

Idle == [at |-> 0, seen |-> [p \in Paths |-> NoMetadata], fd |-> NoFile]

\* The files, the cache, the scan and its rows.
TypeOK ==
  /\ disk \in [Paths -> [ino : Inodes, sec : 0..MaxClock, text : Texts] \cup {NoFile}]
  /\ \A p, q \in Paths : p # q /\ disk[p] # NoFile => disk[p].ino # disk[q].ino
  /\ clock \in 0..MaxClock /\ inodes \in Inodes /\ twice \subseteq Metadata
  /\ cache \in [Paths -> [meta : Metadata, text : Texts] \cup {NoParse}]
  /\ scan.at \in 0..Len(Order) /\ scan.seen \in [Paths -> Metadata \cup {NoMetadata}]
  /\ rows \in [Inbox -> Texts \cup {Nothing}]
  /\ held \subseteq Texts \cup {Nothing}
  /\ writes \in 0..MaxWrites /\ faults \in 0..MaxFaults

Init ==
  /\ \E t \in [Paths -> Texts \ Long] :
       disk = [p \in Paths |-> [ino |-> CHOOSE i \in 1..Len(Order) : Order[i] = p, sec |-> 0, text |-> t[p]]]
  /\ clock = 0 /\ inodes = Len(Order) /\ twice = {}
  /\ cache = [p \in Paths |-> NoParse]
  /\ scan = Idle
  /\ rows = [p \in Inbox |-> Nothing]
  /\ held = {}
  /\ writes = 0 /\ faults = 0

-----------------------------------------------------------------------------
\* The scan.

\* walkVault.
Walk ==
  /\ scan.at = 0
  /\ scan' = [at |-> 1, seen |-> [p \in Paths |-> Meta(disk[p])], fd |-> NoFile]
  /\ rows' = [p \in Inbox |-> Nothing]
  /\ held' = {disk[p].text : p \in Paths}
  /\ UNCHANGED <<disk, clock, inodes, twice, cache, writes, faults>>

Here == Order[scan.at]
Row(t) == rows' = [p \in Inbox |-> IF p = Here THEN t ELSE rows[p]]

\* reusableRow: only a belief, and only for the same file, unchanged.
Reusable(p) == p \notin Inbox /\ cache[p] # NoParse /\ cache[p].meta = scan.seen[p]

\* The last path: retain drops what the walk no longer met.
Advance(entries) ==
  IF scan.at < Len(Order)
  THEN /\ scan' = [scan EXCEPT !.at = @ + 1, !.fd = NoFile]
       /\ cache' = entries
  ELSE /\ scan' = Idle
       /\ cache' = [p \in Paths |-> IF scan.seen[p] = NoMetadata THEN NoParse ELSE entries[p]]

\* A path the walk did not meet, or met as the cache has it.
SkipOrReuse ==
  /\ scan.at # 0 /\ scan.fd = NoFile
  /\ scan.seen[Here] = NoMetadata \/ Reusable(Here)
  /\ Row(IF scan.seen[Here] = NoMetadata THEN Nothing ELSE cache[Here].text)
  /\ Advance(cache)
  /\ UNCHANGED <<disk, clock, inodes, twice, held, writes, faults>>

\* readConfinedEntry opens the file and takes its metadata, before it reads.
Open ==
  /\ scan.at # 0 /\ scan.fd = NoFile
  /\ scan.seen[Here] # NoMetadata /\ ~Reusable(Here)
  /\ disk[Here] # NoFile
  /\ scan' = [scan EXCEPT !.fd = disk[Here]]
  /\ UNCHANGED <<disk, clock, inodes, twice, cache, rows, held, writes, faults>>

\* The bytes of the open file are what was last written to its inode.
OpenText ==
  LET p == {q \in Paths : disk[q] # NoFile /\ disk[q].ino = scan.fd.ino}
  IN  IF p = {} THEN scan.fd.text ELSE disk[CHOOSE q \in p : TRUE].text


\* The verdict about its bytes is kept under the metadata of the open file.
Read ==
  /\ scan.at # 0 /\ scan.fd # NoFile
  /\ Row(OpenText)
  /\ Advance([cache EXCEPT ![Here] = [meta |-> Meta(scan.fd), text |-> OpenText]])
  /\ UNCHANGED <<disk, clock, inodes, twice, held, writes, faults>>

\* unreadableNoteRow: gone since the walk, or not readable; nothing is kept.
ReadFails ==
  /\ scan.at # 0
  /\ scan.seen[Here] # NoMetadata /\ ~Reusable(Here)
  /\ \/ scan.fd = NoFile /\ disk[Here] = NoFile /\ UNCHANGED faults
     \/ faults < MaxFaults /\ faults' = faults + 1
  /\ Row(Nothing)
  /\ Advance(cache)
  /\ UNCHANGED <<disk, clock, inodes, twice, held, writes>>

-----------------------------------------------------------------------------
\* The editors.

Tick ==
  /\ clock < MaxClock
  /\ clock' = clock + 1
  /\ UNCHANGED <<disk, inodes, twice, cache, scan, rows, held, writes, faults>>

Changed(d) ==
  /\ writes < MaxWrites
  /\ writes' = writes + 1
  /\ disk' = d
  /\ held' = IF scan.at = 0 THEN held ELSE held \cup {d[p].text : p \in Paths}
  /\ UNCHANGED <<clock, cache, scan, rows, faults>>

WriteInPlace == \E p \in Paths, t \in Texts :
  /\ disk[p] # NoFile /\ disk[p].text # t
  /\ Changed([disk EXCEPT ![p].sec = clock, ![p].text = t])
  /\ twice' = IF disk[p].sec = clock
              THEN twice \cup {[ino |-> disk[p].ino, sec |-> clock, size |-> Size(t)]} ELSE twice
  /\ UNCHANGED inodes

ReplaceNote == \E p \in Paths, t \in Texts :
  /\ inodes < Max(Inodes)
  /\ inodes' = inodes + 1
  /\ Changed([disk EXCEPT ![p] = [ino |-> inodes + 1, sec |-> clock, text |-> t]])
  /\ UNCHANGED twice

RenameNote == \E p, q \in Paths :
  /\ p # q /\ disk[p] # NoFile
  /\ Changed([disk EXCEPT ![p] = NoFile, ![q] = disk[p]])
  /\ UNCHANGED <<inodes, twice>>

Exchange == \E p, q \in Paths :
  /\ p # q /\ disk[p] # NoFile /\ disk[q] # NoFile
  /\ Changed([disk EXCEPT ![p] = disk[q], ![q] = disk[p]])
  /\ UNCHANGED <<inodes, twice>>

RemoveNote == \E p \in Paths :
  /\ disk[p] # NoFile
  /\ Changed([disk EXCEPT ![p] = NoFile])
  /\ UNCHANGED <<inodes, twice>>

Next ==
  \/ Walk \/ SkipOrReuse \/ Open \/ Read \/ ReadFails
  \/ Tick \/ WriteInPlace \/ ReplaceNote \/ RenameNote \/ Exchange \/ RemoveNote

Spec == Init /\ [][Next]_vars

-----------------------------------------------------------------------------

\* An entry that would be taken for a file holds the file's words, unless the
\* file was written twice in one second: whatever was renamed onto whatever
\* name, and whatever was written between the scan's look at the file and its
\* read.
EntriesAreTrue ==
  \A p \in Paths :
    cache[p] # NoParse /\ disk[p] # NoFile /\ cache[p].meta = Meta(disk[p]) /\ Meta(disk[p]) \notin twice
    => cache[p].text = disk[p].text

\* A proposal is shown with words that stood in the vault at some moment of
\* this very scan, even if it was written twice in a second.
ProposalsAreRead ==
  \A p \in Inbox : scan.at # 0 /\ rows[p] # Nothing => rows[p] \in held
=============================================================================
