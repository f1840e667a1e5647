---- MODULE ContextBudget ----
(***************************************************************************)
(* What goes into a model request (agent/context_budget.go, and the        *)
(* builders of Execute that feed it): the skill index, the pinned memory,  *)
(* the tool definitions, the recalled block and the history are fitted     *)
(* into the context window around what is mandatory, and the turn after a  *)
(* round of tool calls is tried out before the tools run.                  *)
(*                                                                         *)
(* Sizes are numbers of tokens.  A request's estimate is the sum of its    *)
(* parts, which is what the providers' estimates (an upper bound on the    *)
(* encoded request) amount to.                                             *)
(***************************************************************************)
EXTENDS Naturals, Sequences, FiniteSets, SequencesExt

CONSTANTS Windows,        \* sizes of ContextWindowTokens - MaxOutputTokens
          LiveShapes,     \* tool results of earlier rounds, as sizes
          ToolShapes,     \* optional tool definitions, as sizes
          MemorySizes,    \* the pinned persona and profile; 0 for none
          IndexShapes,    \* entries of the skill index, as sizes
          HistoryShapes,  \* sequences of [role, size]
          ResultSizes,    \* sizes of the results of the next round
          Matches,        \* which history messages the user's text recalls
          MaxPasses       \* maxRecallConvergencePasses

Marker == 1               \* the size of compactedToolResultForBytes
Question == 1             \* the size of the user's message
IndexFrame == 1           \* the header of a skill index, and its two tools
Excerpt == 1              \* one recalled message

VARIABLES
    pc, in,
    live,      \* sizes of the live messages, the user's first
    skills,    \* the index that is sent, and whether some of it is not
    memory,    \* the same for the pinned memory
    ctx,       \* budgetedContext
    block,     \* the recalled block
    pass,      \* passes that led to the block; 0 when they did not settle
    tried      \* calls of the round that was tried ahead

vars == <<pc, in, live, skills, memory, ctx, block, pass, tried>>

Total(s) == FoldLeft(LAMBDA sum, n : sum + n, 0, s)

----------------------------------------------------------------------------
\* History is admitted in whole units: a user's message and what answers it.

CompleteHistoryUnits(messages) ==
    FoldLeft(LAMBDA units, m :
                IF m.role = "user" \/ units = <<>>
                THEN Append(units, <<m>>)
                ELSE [units EXCEPT ![Len(units)] = Append(@, m)],
             <<>>, messages)

UnitSize(unit) == Total([i \in DOMAIN unit |-> unit[i].size])
Units == CompleteHistoryUnits(in.history)
Newest(units, n) == SubSeq(units, Len(units) - n + 1, Len(units))
Sizes(units) == [i \in DOMAIN units |-> UnitSize(units[i])]
Lengths(units) == [i \in DOMAIN units |-> Len(units[i])]
HistorySize(units, n) == Total(Sizes(Newest(units, n)))
Omitted(n) == 1..(Len(in.history) - Total(Lengths(Newest(Units, n))))

\* The searches of the builders: the largest count that fits, found by
\* halving.
Search(n, fits) ==
    LET Halve[low \in 0..n+1, high \in 0..n+1, best \in 0..n] ==
            IF low > high THEN best
            ELSE LET middle == low + ((high - low) \div 2) IN
                 IF fits[middle] THEN Halve[middle + 1, high, middle]
                 ELSE IF middle = 0 THEN best ELSE Halve[low, middle - 1, best]
    IN Halve[0, n, 0]

Largest(n, fits) == Search(n, fits)

----------------------------------------------------------------------------
\* The skill index and the pinned memory.

\* skillIndexUserMessageWithinBytes: entries in order, those that no longer
\* fit under the limit left out.
IndexWithin(limit) ==
    IF limit < IndexFrame \/ in.index = <<>>
    THEN [shown |-> FALSE, entries |-> {}, size |-> 0]
    ELSE FoldLeft(LAMBDA got, i :
                      IF got.size + in.index[i] > limit THEN got
                      ELSE [got EXCEPT !.entries = @ \cup {i}, !.size = @ + in.index[i]],
                  [shown |-> TRUE, entries |-> {}, size |-> IndexFrame],
                  [i \in DOMAIN in.index |-> i])

\* The tools an included index requires cost IndexFrame as well.
IndexCost(index) == index.size + (IF index.shown THEN IndexFrame ELSE 0)
WholeIndex == IndexFrame + Total(in.index)

\* buildSkillMessagesWithinContext: as much of the index as fits beside the
\* live messages, none of it when they do not even fit alone.
IndexFits(index, size) == size + IndexCost(index) <= in.window
BestIndex(size, full) ==
    IF ~IndexFits(IndexWithin(0), size) THEN IndexWithin(0)
    ELSE IF IndexFits(full, size) THEN full
    ELSE IndexWithin(Largest(WholeIndex,
            [n \in 0..WholeIndex |-> IndexFits(IndexWithin(n), size)]))
SkillsShown(best, full) ==
    [index |-> best, omitted |-> full.shown /\ best.entries # DOMAIN in.index]
SkillMessages(messages) ==
    LET full == IndexWithin(WholeIndex)
    IN SkillsShown(BestIndex(Total(messages), full), full)

\* buildMemoryMessagesWithinContext: the pinned memory, or the mark that it
\* was left out.
MemoryMessages(skill, messages) ==
    IF in.memory = 0 THEN [size |-> 0, omitted |-> FALSE]
    ELSE IF in.memory + IndexCost(skill.index) + Total(messages) > in.window
    THEN [size |-> 0, omitted |-> TRUE]
    ELSE [size |-> in.memory, omitted |-> FALSE]

----------------------------------------------------------------------------
\* buildBudgetedContext.

\* The results that may be replaced by a marker, the one that saves most
\* first, and the shortest prefix of them that makes the request fit.
Candidates(messages, minimal) ==
    SetToSortSeq({i \in DOMAIN messages \ (minimal \cup {1}) : messages[i] > Marker},
                 LAMBDA i, j : messages[i] > messages[j]
                               \/ (messages[i] = messages[j] /\ i < j))

Compacted(messages, chosen) ==
    [i \in DOMAIN messages |-> IF i \in chosen THEN Marker ELSE messages[i]]

FirstN(s, n) == {s[i] : i \in 1..n}

Shortest(order, enough) ==
    [ok |-> enough # {},
     compacted |-> IF enough = {} THEN {}
                   ELSE FirstN(order, CHOOSE n \in enough : \A m \in enough : n <= m)]

Mandatory(fixed, messages, order) ==
    Shortest(order, {n \in 0..Len(order) :
                        fixed + Total(Compacted(messages, FirstN(order, n))) <= in.window})


HasRoom(base, recall) == base + recall <= in.window

NoContext == [ok |-> FALSE, compacted |-> {}, tools |-> 0, recall |-> 0,
              recallOmitted |-> FALSE, units |-> 0, estimate |-> 0]

\* The newest units of history that fit beside the rest.
WithHistory(context, size, units) ==
    LET n == Largest(Len(units),
                [k \in 0..Len(units) |-> size + HistorySize(units, k) <= in.window])
    IN [context EXCEPT !.units = n, !.estimate = size + HistorySize(units, n)]

\* The recalled block, whole or not at all.
WithRecall(context, size, recall) ==
    LET used == IF HasRoom(size, recall) THEN recall ELSE 0
    IN WithHistory([context EXCEPT !.recall = used, !.recallOmitted = recall > used],
                   size + used, Units)

\* A prefix of the tools that fits.
ToolSize(n) == Total(SubSeq(in.tools, 1, n))
WithTools(context, base, recall) ==
    LET n == Largest(Len(in.tools),
                [k \in 0..Len(in.tools) |-> base + ToolSize(k) <= in.window])
    IN WithRecall([context EXCEPT !.tools = n], base + ToolSize(n), recall)

\* What is mandatory, and then the optional parts in the order they are tried.
Optional(must, fixed, messages, recall) ==
    IF ~must.ok THEN NoContext
    ELSE WithTools([NoContext EXCEPT !.ok = TRUE, !.compacted = must.compacted],
                   fixed + Total(Compacted(messages, must.compacted)), recall)

Fitted(fixed, messages, order, recall) ==
    Optional(Mandatory(fixed, messages, order), fixed, messages, recall)

Budgeted(skill, mem, messages, minimal, recall) ==
    Fitted(IndexCost(skill.index) + mem.size, messages, Candidates(messages, minimal), recall)

----------------------------------------------------------------------------
\* A turn.

NoBlock == [messages |-> {}, size |-> 0]

\* recallForContext: the matching messages that the request does not show.
Recalled(missing) ==
    LET found == in.matches \cap missing
    IN [messages |-> found, size |-> Excerpt * Cardinality(found)]

NothingAhead == {}
Build(recall) == Budgeted(skills, memory, live, NothingAhead, recall)

\* The skills and the memory of the turn, and its request without recall.
BeginTurn ==
    /\ pc \in {"turn", "again"}
    /\ skills' = SkillMessages(live)
    /\ memory' = MemoryMessages(skills', live)
    /\ ctx' = Budgeted(skills', memory', live, NothingAhead, 0)
    /\ block' = NoBlock
    /\ pass' = 0
    /\ pc' = IF ~ctx'.ok THEN "refused" ELSE "recall"
    /\ UNCHANGED <<in, live, tried>>

\* The messages of the history that a request leaves out.
Missing(c) == Omitted(c.units)

MorePasses == pass < MaxPasses

\* One pass of buildBudgetedContextWithRecall: the block for what the last
\* request leaves out, and a request with it; done once the admitted history
\* no longer moves.
RecallPass ==
    /\ pc = "recall" /\ MorePasses
    /\ LET found == Recalled(Missing(ctx))
           next == Build(found.size)
       IN /\ ctx' = next
          /\ IF next.units = ctx.units
             THEN /\ block' = IF next.recallOmitted THEN NoBlock ELSE found
                  /\ pc' = "ready"
             ELSE UNCHANGED <<block, pc>>
    /\ pass' = pass + 1
    /\ UNCHANGED <<in, live, skills, memory, tried>>

\* The passes ran out, or their two seconds did: recall against the live
\* messages alone.
RecallBroad ==
    /\ pc = "recall"
    /\ LET found == Recalled(1..Len(in.history))
           final == Build(found.size)
       IN /\ ctx' = final
          /\ block' = IF final.recallOmitted THEN NoBlock ELSE found
    /\ pc' = "ready"
    /\ pass' = 0
    /\ UNCHANGED <<in, live, skills, memory, tried>>

\* The shortest result each call can have.
Ahead(n) == [i \in 1..n |-> Marker]

\* Execute before it runs the tools: the next request, with the shortest
\* result for each call of the round.
TryAhead ==
    /\ pc = "ready" /\ tried = 0
    /\ \E n \in 1..2 :
         LET ahead == live \o Ahead(n)
             skill == SkillMessages(ahead)
             mem == MemoryMessages(skill, ahead)
             fit == Budgeted(skill, mem, ahead, Len(live) + 1..Len(ahead),
                             block.size)
         IN /\ tried' = n
            /\ pc' = IF fit.ok THEN "tools" ELSE "stopped"
    /\ UNCHANGED <<in, live, skills, memory, ctx, block, pass>>

\* The tools answer.
ToolsAnswer ==
    /\ pc = "tools"
    /\ \E results \in [1..tried -> ResultSizes] : live' = live \o results
    /\ pc' = "again"
    /\ UNCHANGED <<in, skills, memory, ctx, block, pass, tried>>

Finished == pc \in {"refused", "stopped"} /\ UNCHANGED vars
Sent == pc = "ready" /\ tried > 0 /\ UNCHANGED vars

Inputs ==
    {i \in [window : Windows, results : LiveShapes, tools : ToolShapes,
            memory : MemorySizes, index : IndexShapes, history : HistoryShapes,
            matches : Matches] : i.matches \subseteq DOMAIN i.history}

Init ==
    /\ in \in Inputs
    /\ live = <<Question>> \o in.results
    /\ skills = SkillMessages(live)
    /\ memory = MemoryMessages(skills, live)
    /\ ctx = NoContext /\ block = NoBlock /\ pass = 0 /\ tried = 0
    /\ pc = "turn"

Next == BeginTurn \/ RecallPass \/ RecallBroad \/ TryAhead \/ ToolsAnswer \/ Finished \/ Sent

Spec == Init /\ [][Next]_vars

----------------------------------------------------------------------------
\* Properties.

TypeOK ==
    /\ pc \in {"turn", "again", "recall", "ready", "tools", "refused", "stopped"}
    /\ ctx.compacted \subseteq DOMAIN live
    /\ ctx.tools \in 0..Len(in.tools) /\ ctx.units \in 0..Len(Units)
    /\ block.messages \subseteq DOMAIN in.history
    /\ pass \in 0..MaxPasses /\ tried \in 0..2

Ready == pc = "ready"

\* The request as it is sent, measured from its parts.
Size(c) ==
    Total(Compacted(live, c.compacted)) + IndexCost(skills.index) + memory.size
    + ToolSize(c.tools) + c.recall + HistorySize(Units, c.units)

\* buildBudgetedContext: the request that is sent fits the window, and its
\* estimate is its size.
FitsWindow == Ready => Size(ctx) <= in.window /\ ctx.estimate = Size(ctx)

\* buildBudgetedContext: a run is refused for its size only when the live
\* messages do not fit with every replaceable result replaced; what is
\* optional never costs the run.
RefusedOnlyInNeed ==
    pc = "refused" =>
        Total([i \in DOMAIN live |-> IF i > 1 /\ live[i] > Marker THEN Marker ELSE live[i]])
            > in.window

\* buildBudgetedContext: nothing is left out that still had room: a request
\* with one more tool, one more unit of history, or one result fewer
\* replaced would not fit.
NothingLeftOutInVain ==
    Ready =>
        /\ ctx.tools < Len(in.tools) =>
             Size([ctx EXCEPT !.tools = @ + 1, !.recall = 0, !.units = 0]) > in.window
        /\ ctx.units < Len(Units) => Size([ctx EXCEPT !.units = @ + 1]) > in.window
        /\ \A i \in ctx.compacted :
             Size([ctx EXCEPT !.compacted = @ \ {i}, !.tools = 0, !.recall = 0, !.units = 0])
                > in.window

\* buildBudgetedContextWithRecall: a message of the history the user's text
\* recalls is in the request, in its history or in its recalled block, unless
\* the user is told that recalled material was left out.
NoFetchedTurnLost ==
    Ready /\ ~ctx.recallOmitted => in.matches \cap Omitted(ctx.units) \subseteq block.messages

\* buildBudgetedContextWithRecall: the same message is in the history and in
\* the block only when the passes did not settle.
NoDuplicateOnceSettled ==
    Ready /\ pass > 0 =>
        block.messages \cap (DOMAIN in.history \ Omitted(ctx.units)) = {}

\* Execute: once the tools of a round have run, the next request can be
\* built; no side effect is followed by a failure for want of room.
ToolsNeverRunInVain == pc = "refused" => tried = 0
====
