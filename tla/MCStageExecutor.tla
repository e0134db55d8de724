---------------------------- MODULE MCStageExecutor ----------------------------
(* Small instances of StageExecutor for TLC.                               *)
EXTENDS StageExecutor

\* A chain, a sibling and a stranger: 2 and 3 borrow a page of 1, 4 borrows
\* two pages of 3.
Family == <<<<1, 1, 1>>, <<1, 1, 2>>, <<1, 1, 2, 2>>, <<1, 1, 2, 2, 1>>, <<3, 3, 3>>>>

\* Each even document borrows a page of the one before.
Pairs == <<<<1, 1, 1>>, <<1, 1, 2>>, <<2, 2, 1>>, <<2, 2, 2>>, <<3, 3, 1>>, <<3, 3, 2>>>>
TwoPairs == SubSeq(Pairs, 1, 4)

\* A long chain: 2 borrows a page of 1, 3 two pages of 2.
LongChain == <<<<1, 1, 1>>, <<1, 1, 2, 2>>, <<1, 1, 2, 2, 1>>>>

Every(D, n) == [d \in D |-> <<n, n>>]

\* Document 1 has nothing to ask, 2 nothing at a second stage.
Some(D) == [d \in D |-> <<IF d = 1 THEN 0 ELSE 1, IF d <= 2 THEN 0 ELSE 1>>]

\* Two questions to every document.
Asks(may, prepare) == [requests |-> may, prepare |-> prepare]
Questions == <<Asks({"ask"}, FALSE), Asks({"ask"}, FALSE)>>

Operator(docs, join, keep, limit, frame, asks) ==
    [docs |-> docs, join |-> join, keep |-> keep, limit |-> limit, extra |-> frame + 1,
     stages |-> Questions, survival |-> 100, frame |-> frame, suffix |-> 1, asks |-> asks]

Plan(text, ops, groups, budget, unified, queries) ==
    [text |-> text, ops |-> ops, groups |-> groups, budget |-> budget, unified |-> unified,
     queries |-> queries, fails |-> queries > 1]

Twice(D, asks) ==
    <<Operator(D, FALSE, TRUE, 0, 0, asks), Operator(D, FALSE, FALSE, 0, 1, Every(D, 1))>>

\* The documents of two aliases are filtered, then joined.
FilterThenJoin ==
    LET D == DOMAIN Family IN
    Plan(Family, <<Operator(1 .. 3, FALSE, TRUE, 0, 0, Every(D, 1)),
                   Operator(4 .. 5, FALSE, TRUE, 0, 0, Every(D, 1)),
                   Operator(D, TRUE, FALSE, 0, 1, Every(D, 2))>>, <<>>, 6, TRUE, 1)

\* A filter stops at two survivors.
Limited ==
    LET D == DOMAIN Pairs IN
    Plan(Pairs, <<Operator(D, FALSE, FALSE, 2, 0, Every(D, 1))>>, <<>>, 4, TRUE, 1)

\* A question, a question behind a condition, a question to some, and a last
\* condition that passes documents on unasked.
Conditions ==
    <<Asks({"ask"}, FALSE), Asks({"ask", "DROP"}, TRUE), Asks({"ask", "SKIP"}, FALSE),
      Asks({"DROP", "SKIP"}, TRUE)>>
Conditional(D, keep, limit, survival) ==
    [Operator(D, FALSE, keep, limit, 0, [d \in D |-> <<1, 1, 2, 0>>])
        EXCEPT !.stages = Conditions, !.survival = survival]
\* Conditions, then another filter over the KV they kept.
Conditioned ==
    LET D == DOMAIN LongChain IN
    Plan(LongChain, <<Conditional(D, TRUE, 0, 100), Operator(D, FALSE, FALSE, 0, 1, Every(D, 1))>>,
         <<>>, 6, TRUE, 1)
\* Conditions up to two survivors, expected of every other document.
ConditionedLimit ==
    LET D == DOMAIN TwoPairs IN
    Plan(TwoPairs, <<Conditional(D, FALSE, 2, 50)>>, <<>>, 5, TRUE, 1)

\* Two groups share the documents of a filter; one of a group survives.
Grouped == Plan(Pairs, Twice(DOMAIN Pairs, Some(DOMAIN Pairs)), <<1, 2, 1, 2, 1, 2>>, 4, TRUE, 1)

\* Two filters, run by one query or by several whose passes may raise.
FilteredTwice(text, unified, queries) ==
    Plan(text, Twice(DOMAIN text, Every(DOMAIN text, 1)), <<>>, 6, unified, queries)

\* Three documents and, of each, one that goes on after it: what a filter
\* keeps of both counts as one page, the rest being shared. Then a join whose
\* partners are longer.
Continued == <<<<1, 1, 1, 1>>, <<1, 1, 1, 1, 1>>, <<2, 2, 2, 2>>, <<2, 2, 2, 2, 2>>,
               <<3, 3, 3, 3>>, <<3, 3, 3, 3, 3>>>>
FilterThenLongJoin ==
    LET D == DOMAIN Continued IN
    Plan(Continued, <<Operator(D, FALSE, TRUE, 0, 0, Every(D, 1)),
                      [Operator(D, TRUE, FALSE, 0, 0, Every(D, 1)) EXCEPT !.suffix = 6]>>,
         <<>>, 6, TRUE, 1)

AllPlans == {FilterThenJoin, Limited, Grouped, Conditioned, ConditionedLimit, FilteredTwice(Family, TRUE, 1),
             FilteredTwice(LongChain, TRUE, 3)}
PairPlans == {FilteredTwice(TwoPairs, FALSE, 2)}
LongJoinPlans == {FilterThenLongJoin}

================================================================================
