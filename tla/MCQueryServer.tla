--------------------------- MODULE MCQueryServer ---------------------------
(***************************************************************************)
(* The query server for TLC: which ids a client chooses, and which models, *)
(* is immaterial.                                                          *)
(***************************************************************************)
EXTENDS QueryServer

Symmetry == {p @@ r : p \in Permutations(Ids), r \in Permutations(Models)}

-----------------------------------------------------------------------------
(* What the rest of a behaviour of server_two can depend on. No guard and  *)
(* no property compares two revisions except before and after one step;    *)
(* a record that is over and a child nobody reads are not looked at again. *)

Over(q) == db[q].state \in Terminal /\ sched.query # q /\ exec[q].at # "live"

Unread(r) == ~child[r].alive /\ \A q \in Ids : exec[q].at # "live" \/ exec[q].child # r

RecordsView ==
    [q \in Ids |-> IF Over(q) THEN [Absent EXCEPT !.state = db[q].state]
                              ELSE [db[q] EXCEPT !.rev = 0]]

ChildView == [r \in Ids |-> IF Unread(r) THEN NoChild ELSE child[r]]

CurrentView ==
    IF current = None THEN None ELSE IF child[current].alive THEN current ELSE None

ServerView ==
    <<RecordsView, ChildView, CurrentView, lines, born, server, downs, sub, acked,
      sched, exec>>

=============================================================================
