---- MODULE Recall ----
(***************************************************************************)
(* The recalled block of a model request (agent-runtime memory/recall.go): *)
(* the user's words are searched one by one, in earlier sessions and in    *)
(* this one, the hits are ranked against what the request already shows,   *)
(* and the best share the block's size.                                    *)
(*                                                                         *)
(* A stored message is a row: its session, the words it contains, its      *)
(* text, its size in the block's units and its age.  A search may fail,    *)
(* the whole of it or the half on the current session.                     *)
(***************************************************************************)
EXTENDS Naturals, Sequences, FiniteSets, SequencesExt, FiniteSetsExt

CONSTANTS Rows,          \* a set of numbers, in the order of their keys
          Words,         \* terms(userText): a set of numbers, in their order
          Texts, Sizes,  \* what a row may say and how long it is
          MaxExcerpts,
          Budgets,       \* values of MaxChars
          MinExcerpt,    \* minExcerptChars
          Framing,       \* framingLen(role)
          Ellipsis       \* len(ellipsis)

VARIABLES
    pc, row, maxChars, word,
    heard,     \* ghost: words whose search of earlier sessions answered
    byTerm,    \* the hits of each word
    shown,     \* rows of this session the request shows by identity
    unnamed,   \* texts it shows without identity, counted
    out

vars == <<pc, row, maxChars, word, heard, byTerm, shown, unnamed, out>>

\* CreatedAt: rows 2k and 2k+1 were written at the same time.
Created(r) == r \div 2

MinLine == Framing + MinExcerpt

----------------------------------------------------------------------------
\* PrepareRecall.

\* SearchMessages for one word, newest first: earlier sessions, then this one.
Hits(w, current) ==
    SetToSortSeq({r \in Rows : w \in row[r].words /\ row[r].current = current},
                 LAMBDA a, b : Created(a) > Created(b) \/ (Created(a) = Created(b) /\ a > b))

\* The hits of a word when the second of its searches failed, and otherwise.
Found(w, half) == IF half THEN Hits(w, FALSE) ELSE Hits(w, FALSE) \o Hits(w, TRUE)

SearchWord ==
    /\ pc = "search" /\ word \in Words
    /\ \/ /\ byTerm' = [byTerm EXCEPT ![word] = Found(word, FALSE)]
          /\ word' = word + 1 /\ heard' = heard \cup {word}
          /\ pc' = IF word + 1 \in Words THEN "search" ELSE "rank"
       \/ /\ byTerm' = [byTerm EXCEPT ![word] = Found(word, TRUE)]
          /\ pc' = "rank" /\ heard' = heard \cup {word}
          /\ UNCHANGED word
       \/ pc' = "rank" /\ UNCHANGED <<byTerm, word, heard>>
    /\ UNCHANGED <<row, maxChars, shown, unnamed, out>>

----------------------------------------------------------------------------
\* rankPrepared.

Candidates == UNION {ToSet(byTerm[w]) : w \in Words}

\* suppressedCurrentSessionCandidates: rows of this session the request
\* shows, by identity, and as many of the newest rows of a text as the
\* request shows without identity.
Suppressed ==
    LET mine == {r \in Candidates : row[r].current}
        named == mine \cap shown
        newer(r) == {s \in mine \ named : row[s].text = row[r].text
                        /\ (Created(s) > Created(r) \/ (Created(s) = Created(r) /\ s < r))}
    IN named \cup {r \in mine \ named : Cardinality(newer(r)) < unnamed[row[r].text]}

\* The order of first appearance over the words, and the words a row matched.
Appearances == FlattenSeq([w \in 1..Cardinality(Words) |-> byTerm[w]])
FirstAt(r) == CHOOSE i \in DOMAIN Appearances :
                Appearances[i] = r /\ \A j \in 1..(i - 1) : Appearances[j] # r
MatchCount(r) == Cardinality({w \in Words : r \in ToSet(byTerm[w])})

Before(a, b) ==
    \/ MatchCount(a) > MatchCount(b)
    \/ MatchCount(a) = MatchCount(b) /\ Created(a) > Created(b)
    \/ MatchCount(a) = MatchCount(b) /\ Created(a) = Created(b) /\ FirstAt(a) < FirstAt(b)

Scope(current) ==
    SetToSortSeq({r \in Candidates \ Suppressed : row[r].current = current}, Before)

Ordered == Scope(FALSE) \o Scope(TRUE)

----------------------------------------------------------------------------
\* budgetScored.

Smaller(a, b) == IF a < b THEN a ELSE b
Larger(a, b) == IF a > b THEN a ELSE b

\* truncate: within the limit, the ellipsis included.
Truncate(size, limit) ==
    IF size <= limit THEN size ELSE IF limit <= Ellipsis THEN Ellipsis ELSE limit

\* What one excerpt may take of what is left: an equal share of it, at least
\* a usable line, at most all of it.
Share(remaining, slots) ==
    Smaller(remaining, Larger(remaining \div slots, MinLine))

Charge(size) == size + Framing

Excerpts(ordered) ==
    LET Take[i \in 0..Len(ordered)] ==
            IF i = 0 THEN [lines |-> <<>>, remaining |-> maxChars, full |-> FALSE]
            ELSE LET last == Take[i - 1]
                     slots == Smaller(MaxExcerpts - Len(last.lines), Len(ordered) - i + 1)
                     budget == Share(last.remaining, slots)
                     size == Truncate(Smaller(row[ordered[i]].size, maxChars), budget - Framing)
                 IN IF last.full \/ Len(last.lines) >= MaxExcerpts
                       \/ budget < MinLine
                    THEN [last EXCEPT !.full = TRUE]
                    ELSE [lines |-> Append(last.lines, [row |-> ordered[i], size |-> size]),
                          remaining |-> last.remaining - Charge(size),
                          full |-> FALSE]
    IN Take[Len(ordered)].lines

Rank ==
    /\ pc = "rank"
    /\ shown' \in SUBSET {r \in Rows : row[r].current}
    /\ unnamed' \in [Texts -> 0..1]
    /\ pc' = "ranked"
    /\ UNCHANGED <<row, maxChars, word, heard, byTerm, out>>

RenderBlock ==
    /\ pc = "ranked"
    /\ out' = Excerpts(Ordered)
    /\ pc' = "done"
    /\ UNCHANGED <<row, maxChars, word, heard, byTerm, shown, unnamed>>

Done == pc = "done" /\ UNCHANGED vars

Init ==
    /\ pc = "search" /\ word = 1 /\ heard = {} /\ out = <<>>
    /\ row \in [Rows -> [current : BOOLEAN, words : SUBSET Words \ {{}},
                         text : Texts, size : Sizes]]
    /\ maxChars \in Budgets
    /\ byTerm = [w \in Words |-> <<>>]
    /\ shown = {} /\ unnamed = [t \in Texts |-> 0]

Next == SearchWord \/ Rank \/ RenderBlock \/ Done
Spec == Init /\ [][Next]_vars

----------------------------------------------------------------------------
\* Properties.

Chosen == {out[i].row : i \in DOMAIN out}

TypeOK ==
    /\ pc \in {"search", "rank", "ranked", "done"}
    /\ word \in 1..Cardinality(Words) + 1
    /\ \A w \in Words : ToSet(byTerm[w]) \subseteq Rows
    /\ out \in Seq([row : Rows, size : Nat]) /\ Cardinality(Chosen) = Len(out)

\* budgetScored: the lines of the block, framing included, stay within
\* MaxChars and MaxExcerpts.
WithinBudget ==
    /\ Len(out) <= MaxExcerpts
    /\ FoldLeft(LAMBDA sum, e : sum + e.size + Framing, 0, out) <= maxChars

\* budgetScored: a long message never crowds the others out: the block has
\* as many excerpts as there are, as MaxExcerpts allows and as usable lines
\* fit into MaxChars.
NoneCrowdedOut ==
    pc = "done" =>
        Len(out) >= Min({MaxExcerpts, Len(Ordered), maxChars \div MinLine})

\* suppressedCurrentSessionCandidates: of the rows of this session with one
\* text, those recalled and those the request shows are no more than there
\* are: nothing is shown twice, and one copy in the request hides one row.
ShownOnceOnly ==
    pc = "done" => \A t \in Texts :
        LET found == {r \in Candidates : row[r].current /\ row[r].text = t}
            left == Cardinality(found \ shown)
            hidden == Smaller(left, unnamed[t])
        IN /\ Chosen \cap found \cap shown = {}
           /\ Cardinality(Chosen \cap found) <= left - hidden
           /\ Len(out) < MaxExcerpts /\ maxChars >= MinLine * Cardinality(Rows)
                => Cardinality(Chosen \cap found) = left - hidden

\* PrepareRecall: what earlier sessions answered to the words searched is
\* recalled even when a later search failed; it comes before this session's.
EarlierSessionsKept ==
    pc = "done" /\ maxChars >= MinLine * Cardinality(Rows) /\ MaxExcerpts >= Cardinality(Rows) =>
        /\ \A w \in heard : ToSet(Hits(w, FALSE)) \subseteq Chosen
        /\ \A i, j \in DOMAIN out :
             row[out[i].row].current /\ ~row[out[j].row].current => j < i
====
