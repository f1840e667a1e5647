---------------------------- MODULE FileSearch ----------------------------
(***************************************************************************)
(* files.search and files.list of mcp-files: walks with a budget of        *)
(* entries, files, bytes, results and answer size.  What the answer must   *)
(* never do is claim to be whole when something was left out.              *)
(*                                                                         *)
(* A tree maps a directory to [opens, breaks, entries]: whether it can be  *)
(* opened, whether reading it fails after the last entry, and its entries  *)
(* in the order the system returns them.  An entry is                      *)
(* [kind, ok, to, size, text, hit]: whether it can be inspected or opened, *)
(* for a directory which, for a file its size, whether it is UTF-8 and     *)
(* whether it contains the query.  Sizes are small numbers; each match and *)
(* each error detail takes one unit of the answer.                         *)
(***************************************************************************)
EXTENDS Integers, Sequences, FiniteSets, FiniteSetsExt, SequencesExt

CONSTANTS Trees, Root, NoDir, Batch, Limits, MaxEntries, MaxFiles, MaxBytes, MaxFileBytes, MaxJson, MaxDetails

VARIABLES
  tree,   \* the sandbox
  op,     \* "search" or "list"
  limit,  \* results the caller asks for
  todo,   \* directories to walk
  cur,    \* the directory being read
  pos,    \* entries of it read
  left,   \* entries of the batch still to visit
  found,  \* results, as <<directory, position>>
  n,      \* counters and flags
  pc      \* "run", "done" or "refused"

vars == <<tree, op, limit, todo, cur, pos, left, found, n, pc>>

Counters == [visited |-> 0, files |-> 0, bytes |-> 0, errors |-> 0, details |-> 0, json |-> 0, truncated |-> FALSE]

\* The path the walk starts from is counted as an entry.
Init ==
  /\ tree \in Trees
  /\ op \in {"search", "list"}
  /\ limit \in Limits
  /\ todo = IF op = "search" THEN <<Root>> ELSE <<>>
  /\ cur = IF op = "search" THEN NoDir ELSE Root
  /\ pos = 0
  /\ left = 0
  /\ found = {}
  /\ n = [Counters EXCEPT !.visited = IF op = "search" THEN 1 ELSE 0]
  /\ pc = "run"

Entries(d) == tree[d].entries
EntryAt(d, i) == Entries(d)[i]
Stop == n' = [n EXCEPT !.truncated = TRUE] /\ pc' = "done"

\* recordFailure: every failure is counted, a bounded number is described.
Failed(c) ==
  IF c.details < MaxDetails /\ c.json < MaxJson
  THEN [c EXCEPT !.errors = @ + 1, !.details = @ + 1, !.json = @ + 1]
  ELSE [c EXCEPT !.errors = @ + 1]

(* Search ******************************************************************)

OpenDirectory ==
  /\ op = "search" /\ pc = "run" /\ cur = NoDir /\ todo # <<>>
  /\ todo' = Tail(todo)
  /\ IF tree[Head(todo)].opens
     THEN cur' = Head(todo) /\ pos' = 0 /\ left' = 0 /\ UNCHANGED n
     ELSE n' = Failed(n) /\ UNCHANGED <<cur, pos, left>>
  /\ UNCHANGED <<tree, op, limit, found, pc>>

\* The next batch.  The end of a directory shows only when nothing is read.
BatchOf(budget) == Min({Batch, Len(Entries(cur)) - pos, budget})
Exhausted == n.visited >= MaxEntries
ReadBatch ==
  LET size == BatchOf(MaxEntries - n.visited) IN
  /\ op = "search" /\ pc = "run" /\ cur # NoDir /\ left = 0
  /\ \/ Exhausted /\ Stop /\ UNCHANGED <<cur, left>>
     \/ ~Exhausted /\ size > 0 /\ left' = size /\ UNCHANGED <<cur, n, pc>>
     \/ /\ ~Exhausted /\ size <= 0
        /\ n' = IF tree[cur].breaks THEN Failed(n) ELSE n
        /\ cur' = NoDir
        /\ UNCHANGED <<left, pc>>
  /\ UNCHANGED <<tree, op, limit, todo, pos, found>>

Allowance == Min({MaxFileBytes + 1, MaxBytes - n.bytes})
ReadBytes(e) == Min({e.size, Allowance})
CutOff(e) == Allowance < MaxFileBytes + 1 /\ e.size >= Allowance
Outcome(e) ==
  IF Cardinality(found) >= limit \/ n.files >= MaxFiles \/ MaxBytes - n.bytes <= 0 \/ CutOff(e) THEN "stop"
  ELSE IF ReadBytes(e) > MaxFileBytes THEN "fail"
  ELSE IF ~e.text \/ ~e.hit \/ ReadBytes(e) < e.size THEN "skip"
  ELSE IF n.json >= MaxJson THEN "stop" ELSE "match"

\* A file past the limit of results or files is not read.
Scanned(e) ==
  IF Cardinality(found) >= limit \/ n.files >= MaxFiles THEN n
  ELSE [n EXCEPT !.files = @ + 1, !.bytes = @ + Max({0, ReadBytes(e)})]

\* One entry: staging files and links are passed over, directories queued.
Descend(e) == todo' = IF e.kind = "dir" THEN Append(todo, e.to) ELSE todo
Visit ==
  LET e == EntryAt(cur, pos + 1)
      seen(c) == [c EXCEPT !.visited = @ + 1]
  IN
  /\ op = "search" /\ pc = "run" /\ left > 0
  /\ pos' = pos + 1
  /\ left' = left - 1
  /\ \/ /\ e.kind \in {"staging", "link"} \/ (e.kind = "dir" /\ e.ok)
        /\ Descend(e)
        /\ n' = seen(n)
        /\ UNCHANGED <<found, pc>>
     \/ /\ e.kind \in {"dir", "file"} /\ ~e.ok
        /\ n' = seen(Failed(n))
        /\ UNCHANGED <<todo, found, pc>>
     \/ /\ e.kind = "file" /\ e.ok
        /\ n' = CASE Outcome(e) = "stop" -> [seen(Scanned(e)) EXCEPT !.truncated = TRUE]
                  [] Outcome(e) = "fail" -> seen(Failed(Scanned(e)))
                  [] Outcome(e) = "match" -> [seen(Scanned(e)) EXCEPT !.json = @ + 1]
                  [] OTHER -> seen(Scanned(e))
        /\ found' = IF Outcome(e) = "match" THEN found \cup {<<cur, pos + 1>>} ELSE found
        /\ pc' = IF Outcome(e) = "stop" THEN "done" ELSE pc
        /\ UNCHANGED todo
  /\ UNCHANGED <<tree, op, limit, cur>>

Finish ==
  /\ op = "search" /\ pc = "run" /\ cur = NoDir /\ todo = <<>>
  /\ pc' = "done"
  /\ UNCHANGED <<tree, op, limit, todo, cur, pos, left, found, n>>

(* List ********************************************************************)

Visible(d) == {i \in 1..Len(Entries(d)) : EntryAt(d, i).kind # "staging"}

\* A batch of names; one more than the limit is enough to know.
ListBatch ==
  LET size == BatchOf(MaxEntries - n.visited)
      batch == (pos + 1)..(pos + size)
      seen == batch \cap Visible(cur)
      room == limit + 1 - Cardinality(found)
      taken == {i \in seen : Cardinality({j \in seen : j <= i}) <= room}
      reached == IF Cardinality(seen) >= room THEN 1..Max(taken \cup {0}) ELSE 1..(pos + size)
  IN
  /\ op = "list" /\ pc = "run" /\ Cardinality(found) <= limit /\ n.visited < MaxEntries /\ size > 0
  /\ IF \E i \in batch \cap reached : ~EntryAt(cur, i).ok
     THEN pc' = "refused" /\ UNCHANGED <<pos, found, n>>
     ELSE /\ pos' = pos + size
          /\ n' = [n EXCEPT !.visited = @ + size]
          /\ found' = found \cup {<<cur, i>> : i \in taken}
          /\ UNCHANGED pc
  /\ UNCHANGED <<tree, op, limit, todo, cur, left>>

\* The answer: at most the limit, at most the size of an answer.
LeftOut(whole) == Cardinality(found) > limit \/ ~whole \/ Min({Cardinality(found), limit}) > MaxJson
ListEnd ==
  LET whole == Cardinality(found) <= limit /\ n.visited < MaxEntries /\ pos = Len(Entries(cur))
      fits == Min({limit, MaxJson})
  IN
  /\ op = "list" /\ pc = "run"
  /\ Cardinality(found) <= limit /\ n.visited < MaxEntries => pos = Len(Entries(cur))
  /\ \/ /\ ~(whole /\ tree[cur].breaks)
        /\ n' = [n EXCEPT !.truncated = LeftOut(whole)]
        /\ found' = {r \in found : Cardinality({q \in found : q[2] <= r[2]}) <= fits}
        /\ pc' = "done"
     \/ whole /\ tree[cur].breaks /\ pc' = "refused" /\ UNCHANGED <<n, found>>
  /\ UNCHANGED <<tree, op, limit, todo, cur, pos, left>>

Next == OpenDirectory \/ ReadBatch \/ Visit \/ Finish \/ ListBatch \/ ListEnd
Spec == Init /\ [][Next]_vars

(* Properties **************************************************************)

Reached == LET down == [d \in DOMAIN tree |-> {e.to : e \in {x \in Range(Entries(d)) : x.kind = "dir"}}]
           IN {Root} \cup down[Root] \cup UNION {down[d] : d \in down[Root]}
Hits == {<<d, i>> : d \in Reached, i \in 1..3}
Matching == {r \in Hits : r[2] <= Len(Entries(r[1])) /\ LET e == EntryAt(r[1], r[2]) IN e.kind = "file" /\ e.text /\ e.hit}

\* The budgets are kept at every step.
TypeOK ==
  /\ pc \in {"run", "done", "refused"}
  /\ n.visited <= MaxEntries /\ n.files <= MaxFiles /\ n.bytes <= MaxBytes /\ n.json <= MaxJson
  /\ op = "search" => Cardinality(found) <= limit

\* A search that reports neither truncation nor failure has every text file
\* below its path that contains the query, and only those.
SearchWhole ==
  op = "search" /\ pc = "done" /\ ~n.truncated /\ n.errors = 0 => found = Matching

\* A listing that is not reported truncated has every visible entry.
ListWhole ==
  op = "list" /\ pc = "done" /\ ~n.truncated => found = {<<Root, i>> : i \in Visible(Root)}
=============================================================================
