---------------------------- MODULE QueryRecord ----------------------------
(***************************************************************************)
(* What the query server promises a client about its records, without the  *)
(* threads, processes and locks that keep the promise: the life of a       *)
(* QueryStatus (quail/remote/records.py) as the store's docstrings state   *)
(* it, one record running at a time, and a revision that only grows.       *)
(***************************************************************************)
EXTENDS Naturals

CONSTANTS Ids

VARIABLES
    record,     \* id -> [state, rev, cancel]
    acked       \* ids the client was given

ActiveStates == {"planning", "running"}
TerminalStates == {"succeeded", "failed", "interrupted", "cancelled"}

NoRecord == [state |-> "absent", rev |-> 0, cancel |-> FALSE]

Init ==
    /\ record = [q \in Ids |-> NoRecord]
    /\ acked = {}

To(q, s) == [record[q] EXCEPT !.state = s, !.rev = @ + 1]

Submit(q) ==
    /\ record[q] = NoRecord
    /\ record' = [record EXCEPT ![q] = [NoRecord EXCEPT !.state = "queued", !.rev = 1]]
    /\ UNCHANGED acked

Acknowledge(q) ==
    /\ record[q] # NoRecord
    /\ acked' = acked \cup {q}
    /\ UNCHANGED record

\* Only an id nobody was given may be forgotten.
Forget(q) ==
    /\ record[q].state = "queued" /\ q \notin acked
    /\ record' = [record EXCEPT ![q] = NoRecord]
    /\ UNCHANGED acked

\* One query executes at a time.
Start(q) ==
    /\ record[q].state = "queued"
    /\ \A p \in Ids : record[p].state \notin ActiveStates
    /\ record' = [record EXCEPT ![q] = To(q, "planning")]
    /\ UNCHANGED acked

Report(q) ==
    /\ record[q].state \in ActiveStates
    /\ \E s \in {record[q].state, "running"} :
        record' = [record EXCEPT ![q] = To(q, s)]
    /\ UNCHANGED acked

\* A record is cancelled only when a client asked; it succeeds only from
\* running.
Close(q, s) ==
    /\ record[q].state \in ActiveStates
    /\ s = "cancelled" => record[q].cancel
    /\ s = "succeeded" => record[q].state = "running"
    /\ record' = [record EXCEPT ![q] = To(q, s)]
    /\ UNCHANGED acked

CancelQueued(q) ==
    /\ record[q].state = "queued"
    /\ record' = [record EXCEPT ![q] = To(q, "cancelled")]
    /\ UNCHANGED acked

AskCancel(q) ==
    /\ record[q].state \in ActiveStates /\ ~record[q].cancel
    /\ record' = [record EXCEPT ![q].cancel = TRUE, ![q].rev = @ + 1]
    /\ UNCHANGED acked

Next ==
    \E q \in Ids :
        \/ Submit(q) \/ Acknowledge(q) \/ Forget(q)
        \/ Start(q) \/ Report(q) \/ CancelQueued(q) \/ AskCancel(q)
        \/ \E s \in TerminalStates : Close(q, s)

Spec == Init /\ [][Next]_<<record, acked>>

=============================================================================
