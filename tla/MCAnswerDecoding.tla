--------------------------- MODULE MCAnswerDecoding ---------------------------
(* Small instances of AnswerDecoding for TLC.                              *)
EXTENDS AnswerDecoding

Pipeline(stages, document, limit, stop, budget) ==
    [stages |-> stages, document |-> document, suffix |-> 1, limit |-> limit,
     stop |-> stop, budget |-> budget, tree |-> FALSE]

\* Three answers of which two stop early, and all grow past their pages.
Stopping == Pipeline(<<"answer">>, <<1, 3, 2>>, 4, <<1, 9, 2>>, 6)

\* The same in passes too short for the second document beside the first.
Crowded == [Stopping EXCEPT !.budget = 5]

\* Answers to their limits, then a filter: one may be evicted with no row
\* left to feed and its last tokens on their way.
AnswerThenAsk == Pipeline(<<"answer", "ask">>, <<2, 3, 1>>, 4, <<9, 9, 9>>, 6)

\* Two answers that stop, in one slot each after the other, with room to
\* spare.
TwoAnswers == Pipeline(<<"ask", "answer", "answer">>, <<1, 1, 1>>, 3, <<1, 2, 9>>, 6)

\* The first document needs the page an earlier operator retained.
WholePool == Pipeline(<<"answer">>, <<10, 1, 2>>, 2, <<9, 0, 1>>, 12)

\* An answer may stop while it is evicted, and a filter follows.
StopThenAsk == Pipeline(<<"answer", "ask">>, <<1, 3, 2>>, 4, <<1, 9, 2>>, 6)

\* Every way three answers may stop: at once, on the way, or never.
StopsAnywhere == {[Crowded EXCEPT !.stop = s] : s \in [1 .. 3 -> {0, 2, 9}]}

\* With tree attention, which does not refuse a key without pages.
Tree(p) == [p EXCEPT !.tree = TRUE]

\* A filter, then answers that grow past their pages, then another answer.
AnswersGrow == Pipeline(<<"ask", "answer", "answer">>, <<1, 1, 1>>, 4, <<9, 1, 9>>, 6)

AnswerPlans ==
    {Stopping, StopThenAsk, AnswerThenAsk, Tree(AnswerThenAsk), TwoAnswers, Tree(AnswersGrow),
     WholePool}
        \union StopsAnywhere
LaterStages == {AnswerThenAsk, Tree(AnswerThenAsk), StopThenAsk}

================================================================================
