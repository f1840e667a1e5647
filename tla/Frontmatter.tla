----------------------------- MODULE Frontmatter -----------------------------
(***************************************************************************)
(* How a note's identity and citations are rewritten in place: the range   *)
(* one key's value takes in the frontmatter is replaced, in the style the  *)
(* user wrote it in, and nothing is decoded and encoded again.  The result *)
(* is read back before it is written, and refused if it does not say what  *)
(* was asked.                                                              *)
(*                                                                         *)
(* A frontmatter is a sequence of lines.  A key's value stands on its line *)
(* or, for a block, on the lines below it: the items of a list, which may  *)
(* be at the key's own column, or a scalar, which may not.  Anchors, flow  *)
(* values over several lines and indented mappings are left out.           *)
(***************************************************************************)
EXTENDS Naturals, Sequences, FiniteSets, FiniteSetsExt, SequencesExt

CONSTANTS
  Ids,        \* identities
  Sessions,   \* what can be cited
  MaxLines,   \* bound: lines of the user's frontmatter
  MaxRewrites \* bound: rewrites in a row

Gone == <<"gone">>                            \* the mark in place of citations
Citations == {<<>>, Gone} \cup {<<s>> : s \in Sessions}
             \cup {<<s, t>> : s, t \in Sessions}
Title == <<"title">>

\* One line: a key with its value and perhaps a comment behind it, a key whose
\* value is below, an item of a list, a scalar of its own, or a comment.
KeyLine(k, v, c) == [kind |-> "key", key |-> k, val |-> v, remark |-> c, deep |-> FALSE]
OpenLine(k, c)   == [kind |-> "open", key |-> k, val |-> <<>>, remark |-> c, deep |-> FALSE]
ItemLine(s, d)   == [kind |-> "item", key |-> "none", val |-> <<s>>, remark |-> FALSE, deep |-> d]
ScalarLine(v, d) == [kind |-> "scalar", key |-> "none", val |-> v, remark |-> FALSE, deep |-> d]
CommentLine      == [kind |-> "comment", key |-> "none", val |-> <<>>, remark |-> TRUE, deep |-> FALSE]

Lines ==
  {KeyLine("id", <<i>>, c) : i \in Ids, c \in BOOLEAN}
  \cup {KeyLine("refs", v, c) : v \in {<<>>, Gone} \cup {<<s>> : s \in Sessions}, c \in BOOLEAN}
  \cup {OpenLine("refs", c) : c \in BOOLEAN}
  \cup {ItemLine(s, d) : s \in Sessions, d \in BOOLEAN}
  \cup {ScalarLine(Gone, TRUE), KeyLine("title", Title, FALSE), CommentLine}

IsKey(line) == line.kind \in {"key", "open"}
IsValue(line) == line.kind \in {"item", "scalar"}

\* The key a line's value belongs to: the nearest one above.
OwnerOf(fm, i) == LET ks == {k \in 1..(i - 1) : IsKey(fm[k])} IN IF ks = {} THEN 0 ELSE Max(ks)
ValueLines(fm, k) == {i \in (k + 1)..Len(fm) : IsValue(fm[i]) /\ OwnerOf(fm, i) = k}

\* What YAML accepts: a value below its key and nothing beside it, the items of
\* a list in one column, a scalar alone and deeper than its key.
Valid(fm) ==
  \A i \in 1..Len(fm) : IsValue(fm[i]) =>
    LET k == OwnerOf(fm, i)
    IN  /\ k # 0 /\ fm[k].kind = "open"
        /\ \A j \in ValueLines(fm, k) :
             /\ fm[j].kind = fm[i].kind /\ fm[j].deep = fm[i].deep
             /\ fm[i].kind = "scalar" => j = i /\ fm[i].deep

Frontmatters == {fm \in UNION {[1..n -> Lines] : n \in 0..MaxLines} : Valid(fm)}

Where(fm, k) == {i \in 1..Len(fm) : IsKey(fm[i]) /\ fm[i].key = k}
ValueAt(fm, i) ==
  IF fm[i].kind = "key" THEN fm[i].val
  ELSE FlattenSeq([n \in 1..(Len(fm) - i) |-> IF (i + n) \in ValueLines(fm, i) THEN fm[i + n].val ELSE <<>>])

\* readFrontmatterFields: of a key that is there twice the last one counts.
Read(fm, k) == IF Where(fm, k) = {} THEN <<>> ELSE ValueAt(fm, Max(Where(fm, k)))

-----------------------------------------------------------------------------
\* What is asked for: an identity, citations, or the mark.
Requests ==
  {[key |-> "id", val |-> <<i>>] : i \in Ids}
  \cup {[key |-> "refs", val |-> v] : v \in {v \in Citations : v # <<>>}}

IsList(req) == req.key = "refs" /\ req.val # Gone

\* renderSequence and renderScalar of a value that stands below its key; the
\* scalar is pushed past the key's column.
Below(req, deep) ==
  IF IsList(req) THEN [n \in 1..Len(req.val) |-> ItemLine(req.val[n], deep)]
  ELSE <<ScalarLine(req.val, TRUE)>>

\* A key the frontmatter does not have is added at its end.
Appended(fm, req) ==
  fm \o (IF IsList(req) THEN <<OpenLine(req.key, FALSE)>> \o Below(req, TRUE)
         ELSE <<KeyLine(req.key, req.val, FALSE)>>)

\* trimTrailingCommentaryLines: the value ends at its last line that is not a
\* comment.
ValueEnd(fm, k) == Max(ValueLines(fm, k))

\* spliceFrontmatterValue, of a key that is there once.
Spliced(fm, k, req) ==
  IF ValueLines(fm, k) = {}
  THEN [fm EXCEPT ![k] = KeyLine(req.key, req.val, fm[k].remark)]
  ELSE LET first == Min(ValueLines(fm, k))
       IN  SubSeq(fm, 1, first - 1) \o Below(req, fm[first].deep) \o SubSeq(fm, ValueEnd(fm, k) + 1, Len(fm))

\* verifyRewrittenNote.
ReadsBack(fm, req) == Valid(fm) /\ Read(fm, req.key) = req.val

\* RewriteFrontmatterRefs: a key that is there twice is refused
\* (singleKeyIndex), and so is a result that does not read back.
Rewrite(fm, req) ==
  LET at == Where(fm, req.key)
      new == IF at = {} THEN Appended(fm, req) ELSE Spliced(fm, Max(at), req)
  IN  IF Cardinality(at) <= 1 /\ ReadsBack(new, req)
      THEN [ok |-> TRUE, fm |-> new] ELSE [ok |-> FALSE, fm |-> fm]

-----------------------------------------------------------------------------
VARIABLES
  note,   \* the frontmatter in the file
  asked,  \* the last request
  done,   \* whether it was granted
  count

vars == <<note, asked, done, count>>

\* The note is one YAML can read, whatever was spliced into it.
TypeOK ==
  /\ Valid(note)
  /\ asked \in Requests \cup {[key |-> "none", val |-> <<>>]}
  /\ done \in BOOLEAN
  /\ count \in 0..MaxRewrites

Init ==
  /\ note \in Frontmatters
  /\ asked = [key |-> "none", val |-> <<>>]
  /\ done = FALSE
  /\ count = 0

RewriteNote ==
  /\ count < MaxRewrites
  /\ \E req \in Requests :
       /\ asked' = req
       /\ LET r == Rewrite(note, req) IN note' = r.fm /\ done' = r.ok
  /\ count' = count + 1

Next == RewriteNote

Spec == Init /\ [][Next]_vars

-----------------------------------------------------------------------------

\* The lines that are no part of a key's value, and the remark behind it.
Rest(fm, k) ==
  LET own == UNION {ValueLines(fm, i) : i \in Where(fm, k)}
      inside == {i \in 1..Len(fm) : \E a, b \in own : a < i /\ i < b}
      kept == {i \in 1..Len(fm) : i \notin own \cup inside /\ ~(IsKey(fm[i]) /\ fm[i].key = k)}
  IN  SelectSeq([i \in 1..Len(fm) |-> IF i \in kept THEN fm[i] ELSE OpenLine("none", FALSE)],
                LAMBDA line : line.key # "none" \/ line.kind # "open")
Remarks(fm, k) == {fm[i].remark : i \in Where(fm, k)}

\* A granted rewrite says what was asked, to a reader who takes the last of two
\* keys as to one who takes the first.
SaysWhatWasAsked ==
  done => \A i \in Where(note, asked.key) : ValueAt(note, i) = asked.val

\* Every other key, with its value, and every comment outside the value stays,
\* in its order, through any number of rewrites; the remark behind a value too.
RestIsKept ==
  [][done' /\ count' > count
     => /\ Rest(note', asked'.key) = Rest(note, asked'.key)
        /\ Remarks(note, asked'.key) \subseteq Remarks(note', asked'.key)]_vars

\* A frontmatter that can be read and has the key at most once is never
\* refused: what a splice makes of it always reads back.
NeverRefusedInVain ==
  [][count' > count /\ Cardinality(Where(note, asked'.key)) <= 1 => done']_vars
=============================================================================
