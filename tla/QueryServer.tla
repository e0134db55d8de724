---------------------------- MODULE QueryServer ----------------------------
(***************************************************************************)
(* The query server of quail/server: the saved records (store.py), the one *)
(* scheduler thread (scheduler.py), the executor with its long-lived child *)
(* process and one reader thread per execution (executor.py), submissions  *)
(* and cancellations from clients (app.py), crashes and restarts.          *)
(*                                                                         *)
(* What is one step: one store transaction (the store lock covers it), one *)
(* event received under the execution's event lock, one read or decision   *)
(* of the scheduler loop, one event put by the job in the child.           *)
(***************************************************************************)
EXTENDS Naturals, Sequences, FiniteSets, SequencesExt

CONSTANTS
    Ids,            \* query ids a client may choose
    Models,         \* the specification of a query: the model it names
    None,           \* no query
    MaxEvents,      \* phase, progress and answer events one job emits
    MaxDowns        \* times the server process goes down

ASSUME ConstantsAssumption ==
    /\ None \notin Ids
    /\ MaxEvents \in Nat
    /\ MaxDowns \in Nat

VARIABLES
    db,         \* id -> saved record; survives a crash
    born,       \* ids of the saved records, oldest first (created_at, rowid)
    lines,      \* id -> complete lines of its answers.jsonl; survives a crash
    server,     \* "up", "stopping" (Scheduler._stop set) or "down"
    downs,      \* times the process went down
    sub,        \* the submission holding submission_lock, between save and sync
    acked,      \* ids whose submission was acknowledged
    sched,      \* the scheduler thread
    exec,       \* id -> the execution object of its job and its reader thread
    child,      \* id -> the child process spawned for that id's job
    current     \* ChildProcessExecutor._child: the id it was spawned for

vars == <<db, born, lines, server, downs, sub, acked, sched, exec, child, current>>
storeVars == <<db, born, lines>>
procVars == <<server, downs>>

Active == {"planning", "running"}
Terminal == {"succeeded", "failed", "interrupted", "cancelled"}
States == {"absent", "queued"} \cup Active \cup Terminal
Kinds == {"phase", "running", "answer", "progress", "finished", "failed", "done"}
Stages == {"begin", "running", "emitted", "idle"}

Absent == [state |-> "absent", model |-> None, rev |-> 0, epoch |-> 0,
           cancel |-> FALSE, saved |-> 0]
Queued(m) == [Absent EXCEPT !.state = "queued", !.model = m, !.rev = 1]

IdleSched == [pc |-> "pick", query |-> None, epoch |-> 0, done |-> FALSE,
              cancel |-> FALSE, late |-> FALSE, grace |-> FALSE]
NoExec == [at |-> "none", epoch |-> 0, child |-> None, stopped |-> FALSE,
           held |-> "none", written |-> 0, eof |-> FALSE]
NoChild == [alive |-> FALSE, model |-> None, job |-> None, at |-> "idle",
            events |-> 0, pipe |-> <<>>]

Init ==
    /\ db = [q \in Ids |-> Absent]
    /\ born = <<>>
    /\ lines = [q \in Ids |-> 0]
    /\ server = "up"
    /\ downs = 0
    /\ sub = None
    /\ acked = {}
    /\ sched = IdleSched
    /\ exec = [q \in Ids |-> NoExec]
    /\ child = [q \in Ids |-> NoChild]
    /\ current = None

-----------------------------------------------------------------------------
(* Store: one conditional UPDATE each (store.py) *)

\* A variant without the state test, for TerminalNeverChanges.
LiveByEpoch(q, e) == db[q].epoch = e

\* The WHERE clause of update() and finish().
Live(q, e) == db[q].epoch = e /\ db[q].state \in Active

\* Every write of a saved record bumps its revision.
Revised(q, s) == [db[q] EXCEPT !.state = s, !.rev = @ + 1]

\* update(): a new state, phase, plan or progress; refused once closed.
Updated(q, e, s, n) ==
    IF Live(q, e) THEN [db EXCEPT ![q] = [Revised(q, s) EXCEPT !.saved = n]]
    ELSE db

\* finish(): a terminal state, from the current epoch only.
Finished(q, e, s) ==
    IF Live(q, e) THEN [db EXCEPT ![q] = Revised(q, s)] ELSE db

\* request_cancel(): a queued record closes now, an active one is asked.
CancelRequested(q) ==
    IF db[q].state = "queued"
    THEN [db EXCEPT ![q] = Revised(q, "cancelled")]
    ELSE IF db[q].state \in Active /\ ~db[q].cancel
    THEN [db EXCEPT ![q] = [Revised(q, db[q].state) EXCEPT !.cancel = TRUE]]
    ELSE db

\* A variant without recovery, for ActiveIsScheduled.
NotRecovered == db

\* recover(): what a starting server does to records left active.
Recovered ==
    [q \in Ids |-> IF db[q].state \in Active THEN Revised(q, "interrupted")
                                             ELSE db[q]]

\* A variant without the order, for OldestStartsFirst.
AnyQueued(q) == db[q].state = "queued"

\* next_queued(): the oldest queued record.
OldestQueued(q) ==
    \E i \in 1..Len(born) :
        /\ born[i] = q /\ db[q].state = "queued"
        /\ \A j \in 1..(i - 1) : db[born[j]].state # "queued"

-----------------------------------------------------------------------------
(* Clients: POST /v1/queries and POST /v1/queries/{id}/cancel (app.py) *)

\* A variant that does not take the lock, for InFlightNotSelected and
\* AckedKept.
LockIgnored == TRUE

\* submission_lock can be taken: no submission is between save and sync.
LockFree == sub = None

\* accept() up to its syncs: the record is saved under submission_lock.
SubmitNew(q, m) ==
    /\ server = "up" /\ LockFree
    /\ db[q].state = "absent"
    /\ db' = [db EXCEPT ![q] = Queued(m)]
    /\ born' = Append(born, q)
    /\ sub' = q
    /\ UNCHANGED <<lines, procVars, acked, sched, exec, child, current>>

\* accept() of an id that exists: acknowledged when the specification is
\* the saved one, QueryIdConflictError (no change) when it is not.
SubmitAgain(q, m) ==
    /\ server = "up" /\ LockFree
    /\ db[q].state # "absent" /\ db[q].model = m
    /\ acked' = acked \cup {q}
    /\ UNCHANGED <<storeVars, procVars, sub, sched, exec, child, current>>

\* The syncs succeed: the client gets its id.
SyncOk ==
    /\ sub # None
    /\ acked' = acked \cup {sub}
    /\ sub' = None
    /\ UNCHANGED <<storeVars, procVars, sched, exec, child, current>>

\* A sync raises: Store.discard deletes the record while it is queued and
\* asks it to cancel otherwise; the client gets an error.
SyncFails ==
    /\ sub # None
    /\ IF db[sub].state = "queued"
       THEN /\ db' = [db EXCEPT ![sub] = Absent]
            /\ \E i \in 1..Len(born) :
                born[i] = sub /\ born' = RemoveAt(born, i)
       ELSE /\ db' = CancelRequested(sub)
            /\ UNCHANGED born
    /\ sub' = None
    /\ UNCHANGED <<lines, procVars, acked, sched, exec, child, current>>

Cancel(q) ==
    /\ server = "up"
    /\ db[q].state # "absent"
    /\ db' = CancelRequested(q)
    /\ db' # db
    /\ UNCHANGED <<born, lines, procVars, sub, acked, sched, exec, child, current>>

-----------------------------------------------------------------------------
(* The scheduler thread: Scheduler._loop and run_one *)

\* _loop: next_queued() refuses while a submission holds its lock.
PickQuery(q) ==
    /\ server = "up" /\ sched.pc = "pick"
    /\ LockFree
    /\ OldestQueued(q)
    /\ sched' = [IdleSched EXCEPT !.pc = "begin", !.query = q]
    /\ UNCHANGED <<storeVars, procVars, sub, acked, exec, child, current>>

\* A variant that starts whatever was picked, for ImplementsRecord.
AlwaysBegins(q) == TRUE

\* begin() reads the record again under the lock.
CanBegin(q) == db[q].state = "queued"

\* store.begin(); a record cancelled since it was picked is left alone.
BeginQuery ==
    /\ sched.pc = "begin" /\ server # "down"
    /\ LET q == sched.query IN
       IF CanBegin(q)
       THEN /\ db' = [db EXCEPT ![q] = [Revised(q, "planning") EXCEPT !.epoch = @ + 1]]
            /\ sched' = [sched EXCEPT !.pc = "start", !.epoch = db[q].epoch + 1]
       ELSE /\ sched' = IdleSched
            /\ UNCHANGED db
    /\ UNCHANGED <<born, lines, procVars, sub, acked, exec, child, current>>

\* A variant that leaves the process alone, for OwnEvents and
\* ClosedJobStops.
KillSkipped(r) == child

\* _Child.close.
Closed(r) == IF r = None THEN child ELSE [child EXCEPT ![r].alive = FALSE]

\* ChildProcessExecutor.start: reuse a live child of the same model, else
\* close it and spawn; send the job and start the reader thread.
StartJob ==
    /\ sched.pc = "start" /\ server # "down"
    /\ LET q == sched.query
           m == db[q].model
           reuse == current # None /\ child[current].alive
                                   /\ child[current].model = m
           r == IF reuse THEN current ELSE q
           procs == IF reuse THEN child ELSE Closed(current)
           proc == IF reuse THEN child[r]
                   ELSE [NoChild EXCEPT !.alive = TRUE, !.model = m]
       IN /\ current' = r
          /\ child' = [procs EXCEPT ![r] =
                [proc EXCEPT !.job = q, !.at = "begin", !.events = 0]]
          /\ exec' = [exec EXCEPT ![q] =
                [NoExec EXCEPT !.at = "live", !.epoch = sched.epoch, !.child = r]]
    /\ sched' = [sched EXCEPT !.pc = "wait"]
    /\ UNCHANGED <<storeVars, procVars, sub, acked>>

\* Building the job raises, or the spawn or the send does, which also
\* closes the child: the record fails.
StartFails ==
    /\ sched.pc = "start" /\ server # "down"
    /\ db' = Finished(sched.query, sched.epoch, "failed")
    /\ \/ UNCHANGED <<child, current>>
       \/ /\ child' = Closed(current)
          /\ current' = None
    /\ sched' = IdleSched
    /\ UNCHANGED <<born, lines, procVars, sub, acked, exec>>

\* The locals of the wait loop are dead after it.
Leaves(pc) == [IdleSched EXCEPT !.pc = pc, !.query = sched.query, !.epoch = sched.epoch]

\* execution.wait() returned True: the reader thread is done.
WaitReturns ==
    /\ sched.pc = "wait" /\ server # "down"
    /\ exec[sched.query].at = "done"
    /\ sched' = Leaves("close")
    /\ UNCHANGED <<storeVars, procVars, sub, acked, exec, child, current>>

\* execution.wait() timed out: read the record; the decision comes later.
ReadRecord ==
    /\ sched.pc = "wait" /\ server # "down"
    /\ exec[sched.query].at # "done"
    /\ sched' = [sched EXCEPT !.pc = "check",
                    !.done = db[sched.query].state \in Terminal,
                    !.cancel = db[sched.query].cancel]
    /\ UNCHANGED <<storeVars, procVars, sub, acked, exec, child, current>>

\* A variant that waits for ever, for StopEnds.
GraceNever == FALSE

GraceOver == server = "stopping" \/ (sched.grace /\ sched.late)

\* The record was closed by the job's own event: give the child the grace
\* period to report done, then stop it.
CheckDone ==
    /\ sched.pc = "check" /\ server # "down" /\ sched.done
    /\ IF GraceOver
       THEN sched' = Leaves("stop")
       ELSE sched' = [sched EXCEPT !.pc = "wait", !.done = FALSE, !.cancel = FALSE,
                         !.grace = TRUE, !.late = sched.grace /\ sched.late]
    /\ UNCHANGED <<storeVars, procVars, sub, acked, exec, child, current>>

\* A variant that forgets the cancel, for CancelEnds.
VerdictNoCancel ==
    IF server = "stopping" THEN "interrupted"
    ELSE IF sched.late THEN "failed" ELSE "none"

\* Why the loop closes a record it read as not done, in its order.
Verdict ==
    IF server = "stopping" THEN "interrupted"
    ELSE IF sched.cancel THEN "cancelled"
    ELSE IF sched.late THEN "failed" ELSE "none"

\* The record is closed first, the execution is stopped after.
CloseRecord ==
    /\ sched.pc = "check" /\ server # "down" /\ ~sched.done
    /\ Verdict # "none"
    /\ db' = Finished(sched.query, sched.epoch, Verdict)
    /\ sched' = Leaves("stop")
    /\ UNCHANGED <<born, lines, procVars, sub, acked, exec, child, current>>

CheckContinues ==
    /\ sched.pc = "check" /\ server # "down" /\ ~sched.done
    /\ Verdict = "none"
    /\ sched' = [sched EXCEPT !.pc = "wait"]
    /\ UNCHANGED <<storeVars, procVars, sub, acked, exec, child, current>>

\* _ChildExecution.stop: waits for the event lock; kills the child unless
\* the reader is already done.
StopExecution ==
    /\ sched.pc = "stop" /\ server # "down"
    /\ LET q == sched.query IN
       /\ exec[q].held = "none"
       /\ IF exec[q].at = "done"
          THEN UNCHANGED <<exec, child>>
          ELSE /\ exec' = [exec EXCEPT ![q].stopped = TRUE]
               /\ child' = Closed(exec[q].child)
    /\ sched' = Leaves("close")
    /\ UNCHANGED <<storeVars, procVars, sub, acked, current>>

\* A variant that leaves such a record open, for EveryQueryCloses.
EndQueryOpen ==
    /\ sched.pc = "close" /\ server # "down"
    /\ sched' = IdleSched
    /\ UNCHANGED <<storeVars, procVars, sub, acked, exec, child, current>>

\* The end of run_one: an execution that ended without a result fails.
EndQuery ==
    /\ sched.pc = "close" /\ server # "down"
    /\ db' = Finished(sched.query, sched.epoch, "failed")
    /\ sched' = IdleSched
    /\ UNCHANGED <<born, lines, procVars, sub, acked, exec, child, current>>

\* The query's timeout, or the grace period once the record is done.
DeadlinePasses ==
    /\ sched.pc \in {"wait", "check"} /\ server # "down"
    /\ ~sched.late
    /\ sched' = [sched EXCEPT !.late = TRUE]
    /\ UNCHANGED <<storeVars, procVars, sub, acked, exec, child, current>>

-----------------------------------------------------------------------------
(* The reader thread of an execution: _ChildExecution.run and the emit     *)
(* closure of run_one. held is the event under the execution's event lock. *)

\* The reader returned (_done set): the rest of the object is dead.
Returned(q) == [exec EXCEPT ![q] = [NoExec EXCEPT !.at = "done"]]

Reading(q) == server # "down" /\ exec[q].at = "live" /\ exec[q].held = "none"

\* recv(): done ends the reader, a stopped execution drops the event.
Receive(q) ==
    /\ Reading(q)
    /\ LET r == exec[q].child
           e == Head(child[r].pipe) IN
       /\ child[r].pipe # <<>>
       /\ child' = [child EXCEPT ![r].pipe = Tail(@)]
       /\ exec' = IF e.kind = "done" THEN Returned(q)
                  ELSE IF exec[q].stopped THEN exec
                  ELSE [exec EXCEPT ![q].held = e.kind]
    /\ UNCHANGED <<storeVars, procVars, sub, acked, sched, current>>

\* The pipe closed: the child is gone, so the reader emits failed itself
\* unless the execution was stopped.
PipeCloses(q) ==
    /\ Reading(q)
    /\ ~child[exec[q].child].alive /\ child[exec[q].child].pipe = <<>>
    /\ exec' = IF exec[q].stopped
               THEN Returned(q)
               ELSE [exec EXCEPT ![q].held = "failed", ![q].eof = TRUE]
    /\ UNCHANGED <<storeVars, procVars, sub, acked, sched, child, current>>

\* The event lock is released; after an EOF the reader returns.
Released(q) ==
    IF exec[q].eof THEN Returned(q) ELSE [exec EXCEPT ![q].held = "none"]

\* emit("phase" | "plan") and emit("state").
EmitUpdate(q) ==
    /\ server # "down" /\ exec[q].held \in {"phase", "running"}
    /\ db' = Updated(q, exec[q].epoch,
                     IF exec[q].held = "running" THEN "running" ELSE db[q].state,
                     db[q].saved)
    /\ exec' = Released(q)
    /\ UNCHANGED <<born, lines, procVars, sub, acked, sched, child, current>>

\* emit("answers" | "progress"): an answer is appended at once; the record
\* learns the count only when the progress timer allows the write.
EmitProgress(q) ==
    /\ server # "down" /\ exec[q].held \in {"answer", "progress"}
    /\ lines' = [lines EXCEPT ![q] = IF exec[q].held = "answer" THEN @ + 1 ELSE @]
    /\ \/ /\ db' = Updated(q, exec[q].epoch, db[q].state, lines'[q])
          /\ exec' = [exec EXCEPT ![q].held = "none", ![q].written = lines'[q]]
       \/ /\ exec' = Released(q)
          /\ UNCHANGED db
    /\ UNCHANGED <<born, procVars, sub, acked, sched, child, current>>

\* A variant that closes without the count, for SucceededCountsAnswers.
CountIgnored(q) == TRUE

\* written[0] == answers.count.
CountSaved(q) == exec[q].written = lines[q]

\* emit("finished" | "failed") first writes the count the record lacks.
EmitFlush(q) ==
    /\ server # "down" /\ exec[q].held \in {"finished", "failed"}
    /\ ~CountSaved(q)
    /\ db' = Updated(q, exec[q].epoch, db[q].state, lines[q])
    /\ exec' = [exec EXCEPT ![q].written = lines[q]]
    /\ UNCHANGED <<born, lines, procVars, sub, acked, sched, child, current>>

\* _apply("finished" | "failed"): a result that cannot be read back fails.
EmitFinal(q) ==
    /\ server # "down" /\ exec[q].held \in {"finished", "failed"}
    /\ CountSaved(q)
    /\ \E s \in IF exec[q].held = "finished" THEN {"succeeded", "failed"}
                                             ELSE {"failed"} :
          db' = Finished(q, exec[q].epoch, s)
    /\ exec' = Released(q)
    /\ UNCHANGED <<born, lines, procVars, sub, acked, sched, child, current>>

\* An event that cannot be saved ends the reader and kills the child.
EmitRaises(q) ==
    /\ server # "down" /\ exec[q].held # "none"
    /\ exec' = Returned(q)
    /\ child' = Closed(exec[q].child)
    /\ UNCHANGED <<storeVars, procVars, sub, acked, sched, current>>

-----------------------------------------------------------------------------
(* The child process: run_job and the event queue of _child_main *)

Put(r, kind, stage) ==
    child' = [child EXCEPT ![r].pipe = Append(@, [job |-> child[r].job, kind |-> kind]),
                           ![r].at = stage]

JobRuns(r, stage) == server # "down" /\ child[r].alive /\ child[r].at = stage

\* Planning ends: on_execution_ready.
JobExecutes(r) == JobRuns(r, "begin") /\ Put(r, "running", "running")

\* The phase and plan events of planning; the progress and answer sinks.
JobReports(r) ==
    /\ child[r].events < MaxEvents
    /\ \E kind \in {"phase", "answer", "progress"} :
        /\ JobRuns(r, IF kind = "phase" THEN "begin" ELSE "running")
        /\ child' = [child EXCEPT
            ![r].pipe = Append(@, [job |-> child[r].job, kind |-> kind]),
            ![r].events = @ + 1]

\* run_job never raises: it ends with finished or failed.
JobEnds(r) ==
    \/ JobRuns(r, "running") /\ Put(r, "finished", "emitted")
    \/ \E stage \in {"begin", "running"} :
        JobRuns(r, stage) /\ Put(r, "failed", "emitted")

\* _child_main: done follows the job, and the child waits for the next.
JobDone(r) ==
    /\ JobRuns(r, "emitted")
    /\ child' = [child EXCEPT
            ![r].pipe = Append(@, [job |-> child[r].job, kind |-> "done"]),
            ![r].at = "idle", ![r].job = None]

\* The process dies: events its sender thread had not sent are lost.
ChildDies(r) ==
    /\ server # "down" /\ child[r].alive
    /\ \E n \in 0..Len(child[r].pipe) :
        child' = [child EXCEPT ![r].alive = FALSE,
                               ![r].pipe = SubSeq(@, 1, n)]

ChildStep(r) ==
    /\ JobExecutes(r) \/ JobReports(r) \/ JobEnds(r)
       \/ JobDone(r) \/ ChildDies(r)
    /\ UNCHANGED <<storeVars, procVars, sub, acked, sched, exec, current>>

-----------------------------------------------------------------------------
(* The server process: Server.stop, a crash, a start *)

\* Everything in memory goes, and the child with it.
GoDown ==
    /\ server' = "down"
    /\ downs' = downs + 1
    /\ sub' = None
    /\ sched' = IdleSched
    /\ exec' = [q \in Ids |-> NoExec]
    /\ child' = [q \in Ids |-> NoChild]
    /\ current' = None
    /\ UNCHANGED <<storeVars, acked>>

\* Scheduler.stop: the requests are over, the loop sees _stop when it next
\* looks.
RequestStop ==
    /\ server = "up" /\ sub = None /\ downs < MaxDowns
    /\ server' = "stopping"
    /\ UNCHANGED <<storeVars, downs, sub, acked, sched, exec, child, current>>

\* The scheduler thread was joined; the executor and the store close.
StopCompletes == server = "stopping" /\ sched.pc = "pick" /\ GoDown

Crash == server # "down" /\ downs < MaxDowns /\ GoDown

\* Server.__init__: recover() runs before the scheduler starts.
Restart ==
    /\ server = "down"
    /\ server' = "up"
    /\ db' = Recovered
    /\ UNCHANGED <<born, lines, downs, sub, acked, sched, exec, child, current>>

-----------------------------------------------------------------------------
SchedulerStep ==
    \/ \E q \in Ids : PickQuery(q)
    \/ BeginQuery \/ StartJob \/ StartFails
    \/ WaitReturns \/ ReadRecord \/ CheckDone
    \/ CloseRecord \/ CheckContinues \/ StopExecution \/ EndQuery

ReaderStep(q) ==
    \/ Receive(q) \/ PipeCloses(q)
    \/ EmitUpdate(q) \/ EmitProgress(q) \/ EmitFlush(q) \/ EmitFinal(q)
    \/ EmitRaises(q)

ClientStep ==
    \/ \E q \in Ids, m \in Models : SubmitNew(q, m) \/ SubmitAgain(q, m)
    \/ SyncOk \/ SyncFails
    \/ \E q \in Ids : Cancel(q)

Next ==
    \/ ClientStep
    \/ SchedulerStep
    \/ DeadlinePasses
    \/ \E q \in Ids : ReaderStep(q)
    \/ \E r \in Ids : ChildStep(r)
    \/ RequestStop \/ StopCompletes \/ Crash \/ Restart

\* The threads run, a sync ends, a server that went down is started again.
\* A job owes nothing: it may hang. The loop polls next_queued() at times of
\* its own, so it is not always refused.
Fairness ==
    /\ WF_vars(SchedulerStep)
    /\ SF_vars(\E q \in Ids : PickQuery(q))
    /\ \A q \in Ids : WF_vars(ReaderStep(q))
    /\ WF_vars(SyncOk \/ SyncFails)
    /\ WF_vars(StopCompletes)
    /\ WF_vars(Restart)

\* A timeout may be as long as the client asked for: a property that needs
\* deadlines to pass says so.
DeadlinesPass == WF_vars(DeadlinePasses)

Spec == Init /\ [][Next]_vars
FairSpec == Spec /\ Fairness

-----------------------------------------------------------------------------
(* Properties *)

Records == [state : States, model : Models \cup {None}, rev : Nat,
            epoch : Nat, cancel : BOOLEAN, saved : Nat]
SchedType == [pc : {"pick", "begin", "start", "wait", "check", "stop", "close"},
              query : Ids \cup {None}, epoch : Nat, done : BOOLEAN,
              cancel : BOOLEAN, late : BOOLEAN, grace : BOOLEAN]
ExecType == [at : {"none", "live", "done"}, epoch : Nat,
             child : Ids \cup {None}, stopped : BOOLEAN,
             held : Kinds \cup {"none"}, written : Nat, eof : BOOLEAN]
EventType == [job : Ids \cup {None}, kind : Kinds]
ChildType == [alive : BOOLEAN, model : Models \cup {None},
              job : Ids \cup {None}, at : Stages, events : Nat,
              pipe : Seq(EventType)]

\* Every variable has its type: the records of store.py, the scheduler
\* thread's locals, the execution and child objects of executor.py.
TypeOK ==
    /\ db \in [Ids -> Records]
    /\ born \in Seq(Ids)
    /\ lines \in [Ids -> Nat]
    /\ server \in {"up", "stopping", "down"}
    /\ downs \in Nat
    /\ sub \in Ids \cup {None}
    /\ acked \in SUBSET Ids
    /\ sched \in SchedType
    /\ exec \in [Ids -> ExecType]
    /\ child \in [Ids -> ChildType]
    /\ current \in Ids \cup {None}

-----------------------------------------------------------------------------
(* Safety *)

\* The epoch and state guards of store.update and store.finish admit one
\* execution: whatever record is active while the server is up is the one
\* the scheduler thread is running, under the epoch that thread holds.
ActiveIsScheduled ==
    \A q \in Ids : db[q].state \in Active /\ server # "down" =>
        /\ sched.query = q
        /\ sched.pc \notin {"pick", "begin"}
        /\ sched.epoch = db[q].epoch

\* submission_lock (accept, next_queued): a record that is not yet durable
\* is never selected by the scheduler, so discarding it disturbs no job.
InFlightNotSelected ==
    sub # None => /\ db[sub].state \in {"queued", "cancelled"}
                  /\ sched.query # sub

\* accept and Store.discard: an id the client was given is never forgotten.
AckedKept == \A q \in acked : db[q].state # "absent"

\* ChildProcessExecutor.start reuses a child: its pipe then carries only
\* events of the job the new reader thread was started for, run on a child
\* that has the model the record names.
OwnEvents ==
    \A q \in Ids : exec[q].at = "live" /\ ~exec[q].stopped =>
        LET c == child[exec[q].child] IN
        /\ \A i \in 1..Len(c.pipe) : c.pipe[i].job = q
        /\ c.model = db[q].model

\* The emit closure flushes the count before finished closes the record: a
\* succeeded record counts every answer line its reader can fetch.
SucceededCountsAnswers ==
    \A q \in Ids : db[q].state = "succeeded" => db[q].saved = lines[q]

\* store.finish: a record in a terminal state never changes again, whatever
\* the reader thread, the scheduler, a client or a restart does after.
TerminalNeverChanges ==
    [][\A q \in Ids : db[q].state \in Terminal => db'[q] = db[q]]_vars

\* Store writes bump the revision: a change a long poll waits for (wait,
\* wait_status, watch) always carries a newer revision.
ChangesAreNewer ==
    [][\A q \in Ids :
        (db[q].state # "absent" /\ db'[q].state # "absent" /\ db'[q] # db[q])
            => db'[q].rev > db[q].rev]_vars

\* next_queued and begin are two steps: a query still starts only when no
\* older one is queued.
OldestStartsFirst ==
    [][\A i, j \in 1..Len(born) :
        (i < j /\ db[born[j]].state = "queued" /\ db'[born[j]].state = "planning")
            => db[born[i]].state # "queued"]_vars

(* Liveness *)

\* run_one ends every record it starts, even when the job hangs, the child
\* dies, an event cannot be saved or the server restarts.
EveryQueryCloses ==
    DeadlinesPass =>
        \A q \in Ids : db[q].state = "queued" ~>
            db[q].state \in Terminal \cup {"absent"}

\* request_cancel: a record asked to cancel ends without waiting for its
\* job or its timeout.
CancelEnds == \A q \in Ids : db[q].cancel ~> db[q].state \in Terminal

\* A closed record leaves no child working on it: a cancel, a timeout or a
\* stop gives the GPU back.
ClosedJobStops ==
    DeadlinesPass =>
        \A q \in Ids : db[q].state \in Terminal ~>
            \A r \in Ids : ~(child[r].alive /\ child[r].job = q)

\* Scheduler.stop joins its thread: it always ends, whatever runs.
StopEnds == server = "stopping" ~> server = "down"

-----------------------------------------------------------------------------
(* What clients are promised: QueryRecord *)

Promise == INSTANCE QueryRecord WITH
    record <- [q \in Ids |-> [state |-> db[q].state, rev |-> db[q].rev,
                              cancel |-> db[q].cancel]]

\* The server implements the abstract record.
ImplementsRecord == Promise!Spec

=============================================================================
