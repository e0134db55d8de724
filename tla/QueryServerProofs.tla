------------------------- MODULE QueryServerProofs -------------------------
(***************************************************************************)
(* What holds of the query server for every set of ids and models and any  *)
(* number of events and restarts.                                          *)
(***************************************************************************)
EXTENDS QueryServer, SequenceTheorems, TLAPS

-----------------------------------------------------------------------------
(* The store statements keep the records' types. *)

LEMMA RevisedType ==
    ASSUME db \in [Ids -> Records], NEW q \in Ids, NEW s \in States
    PROVE  Revised(q, s) \in Records
  <1>1. db[q] \in Records /\ db[q].rev + 1 \in Nat
    BY DEF Records
  <1>2. QED
    BY <1>1 DEF Revised, Records

LEMMA UpdatedType ==
    ASSUME db \in [Ids -> Records], NEW q \in Ids, NEW e, NEW s \in States,
           NEW n \in Nat
    PROVE  Updated(q, e, s, n) \in [Ids -> Records]
  <1>1. [Revised(q, s) EXCEPT !.saved = n] \in Records
    BY RevisedType DEF Records
  <1>2. QED
    BY <1>1 DEF Updated

LEMMA FinishedType ==
    ASSUME db \in [Ids -> Records], NEW q \in Ids, NEW e, NEW s \in Terminal
    PROVE  Finished(q, e, s) \in [Ids -> Records]
  <1>1. Revised(q, s) \in Records
    BY RevisedType DEF States
  <1>2. QED
    BY <1>1 DEF Finished

LEMMA CancelType ==
    ASSUME db \in [Ids -> Records], NEW q \in Ids
    PROVE  CancelRequested(q) \in [Ids -> Records]
  <1>1. Revised(q, "cancelled") \in Records
    BY RevisedType DEF States, Terminal
  <1>2. [Revised(q, db[q].state) EXCEPT !.cancel = TRUE] \in Records
    <2>1. db[q].state \in States
      BY DEF Records
    <2>2. Revised(q, db[q].state) \in Records
      BY <2>1, RevisedType
    <2>3. QED
      BY <2>2 DEF Records
  <1>3. QED
    BY <1>1, <1>2 DEF CancelRequested

LEMMA RecoveredType ==
    ASSUME db \in [Ids -> Records]
    PROVE  Recovered \in [Ids -> Records]
  <1>1. \A q \in Ids : Revised(q, "interrupted") \in Records
    BY RevisedType DEF States, Terminal
  <1>2. QED
    BY <1>1 DEF Recovered

-----------------------------------------------------------------------------
(* So do the objects of the executor. *)

LEMMA ReturnedType ==
    ASSUME exec \in [Ids -> ExecType], NEW q \in Ids
    PROVE  Returned(q) \in [Ids -> ExecType]
  BY DEF Returned, NoExec, ExecType

LEMMA ReleasedType ==
    ASSUME exec \in [Ids -> ExecType], NEW q \in Ids
    PROVE  Released(q) \in [Ids -> ExecType]
  <1>1. [exec EXCEPT ![q].held = "none"] \in [Ids -> ExecType]
    BY DEF ExecType
  <1>2. QED
    BY <1>1, ReturnedType DEF Released

LEMMA ClosedType ==
    ASSUME child \in [Ids -> ChildType], NEW r \in Ids \cup {None}
    PROVE  Closed(r) \in [Ids -> ChildType]
  <1>1. CASE r = None
    BY <1>1 DEF Closed
  <1>2. CASE r # None
    <2>1. [child[r] EXCEPT !.alive = FALSE] \in ChildType
      BY <1>2 DEF ChildType
    <2>2. Closed(r) = [child EXCEPT ![r] = [child[r] EXCEPT !.alive = FALSE]]
      BY <1>2 DEF Closed
    <2>3. QED
      BY <2>1, <2>2, <1>2
  <1>3. QED
    BY <1>1, <1>2

\* A change of an execution keeps what Pointers reads of it.
SameJob(x, y) == x \in ExecType /\ x.at = y.at /\ x.child = y.child

LEMMA ExecChange ==
    ASSUME NEW y \in ExecType, NEW k \in Kinds \cup {"none"}, NEW n \in Nat
    PROVE  /\ SameJob([y EXCEPT !.held = k], y)
           /\ SameJob([y EXCEPT !.held = k, !.eof = TRUE], y)
           /\ SameJob([y EXCEPT !.held = k, !.written = n], y)
           /\ [y EXCEPT !.held = k, !.written = n].held = k
           /\ SameJob([y EXCEPT !.written = n], y)
           /\ [y EXCEPT !.written = n].held = y.held
           /\ SameJob([y EXCEPT !.stopped = TRUE], y)
           /\ [y EXCEPT !.stopped = TRUE].held = y.held
  <1>1. /\ SameJob([y EXCEPT !.held = k], y)
        /\ SameJob([y EXCEPT !.held = k, !.eof = TRUE], y)
    BY DEF ExecType, SameJob
  <1>2. /\ SameJob([y EXCEPT !.held = k, !.written = n], y)
        /\ [y EXCEPT !.held = k, !.written = n].held = k
    BY DEF ExecType, SameJob
  <1>3. /\ SameJob([y EXCEPT !.written = n], y)
        /\ [y EXCEPT !.written = n].held = y.held
    BY DEF ExecType, SameJob
  <1>4. /\ SameJob([y EXCEPT !.stopped = TRUE], y)
        /\ [y EXCEPT !.stopped = TRUE].held = y.held
    BY DEF ExecType, SameJob
  <1>5. QED
    BY <1>1, <1>2, <1>3, <1>4

LEMMA PipeChange ==
    ASSUME NEW c \in ChildType, NEW s \in Seq(EventType), NEW b \in BOOLEAN
    PROVE  /\ [c EXCEPT !.pipe = s] \in ChildType
           /\ [c EXCEPT !.alive = b, !.pipe = s] \in ChildType
  BY DEF ChildType

\* What an event put by the job does to the child, in general.
LEMMA PutType ==
    ASSUME child \in [Ids -> ChildType], NEW r \in Ids, NEW kind \in Kinds,
           NEW stage \in Stages, NEW job \in Ids \cup {None}, NEW n \in Nat
    PROVE  [child[r] EXCEPT
               !.pipe = Append(child[r].pipe, [job |-> child[r].job, kind |-> kind]),
               !.at = stage, !.job = job, !.events = n] \in ChildType
  <1>1. child[r].job \in Ids \cup {None} /\ child[r].pipe \in Seq(EventType)
    BY DEF ChildType
  <1>2. [job |-> child[r].job, kind |-> kind] \in EventType
    BY <1>1 DEF EventType
  <1>3. Append(child[r].pipe, [job |-> child[r].job, kind |-> kind]) \in Seq(EventType)
    BY <1>1, <1>2
  <1>4. QED
    BY <1>3 DEF ChildType

-----------------------------------------------------------------------------
(* Type correctness. A type alone is not inductive: the steps of a thread  *)
(* use the query, the execution and the child it holds, so those exist.    *)

Pointers ==
    /\ sched.pc # "pick" => sched.query \in Ids
    /\ sched.pc \in {"wait", "check", "stop"} => exec[sched.query].at # "none"
    /\ \A q \in Ids :
        /\ exec[q].held # "none" => exec[q].at = "live"
        /\ exec[q].at = "live" => exec[q].child \in Ids

TypeInv == TypeOK /\ Pointers

LEMMA TypeInit == Init => TypeInv
  BY ConstantsAssumption DEF Init, TypeInv, TypeOK, Pointers, Absent, IdleSched,
     NoExec, NoChild, States, Stages, Records, SchedType, ExecType, ChildType

LEMMA TypeClient == TypeInv /\ ClientStep => TypeInv'
  <1> SUFFICES ASSUME TypeInv, ClientStep PROVE TypeInv'
    OBVIOUS
  <1> USE DEF TypeInv, TypeOK, Pointers, storeVars, procVars
  <1>1. ASSUME NEW q \in Ids, NEW m \in Models, SubmitNew(q, m) PROVE TypeInv'
    <2>1. Queued(m) \in Records
      BY DEF Queued, Absent, Records, States
    <2>2. db' \in [Ids -> Records]
      BY <1>1, <2>1 DEF SubmitNew
    <2>3. born' \in Seq(Ids)
      BY <1>1 DEF SubmitNew
    <2>4. /\ sub' = q
          /\ UNCHANGED <<lines, procVars, acked, sched, exec, child, current>>
      BY <1>1 DEF SubmitNew
    <2>5. QED
      BY <2>2, <2>3, <2>4
  <1>2. ASSUME NEW q \in Ids, NEW m \in Models, SubmitAgain(q, m) PROVE TypeInv'
    BY <1>2 DEF SubmitAgain
  <1>3. CASE SyncOk
    BY <1>3 DEF SyncOk
  <1>4. CASE SyncFails
    <2>1. Absent \in Records
      BY DEF Absent, Records, States
    <2>2. CASE db[sub].state = "queued"
      <3>1. db' \in [Ids -> Records]
        BY <1>4, <2>1, <2>2 DEF SyncFails
      <3>2. ASSUME NEW i \in 1..Len(born), born' = RemoveAt(born, i)
            PROVE  born' \in Seq(Ids)
        <4>1. SubSeq(born, 1, i - 1) \in Seq(Ids) /\ SubSeq(born, i + 1, Len(born)) \in Seq(Ids)
          OBVIOUS
        <4>2. QED
          BY <3>2, <4>1 DEF RemoveAt
      <3>3. born' \in Seq(Ids)
        BY <1>4, <2>2, <3>2 DEF SyncFails
      <3>4. QED
        BY <1>4, <3>1, <3>3 DEF SyncFails
    <2>3. CASE db[sub].state # "queued"
      <3>1. db' \in [Ids -> Records]
        BY <1>4, <2>3, CancelType DEF SyncFails
      <3>2. QED
        BY <1>4, <2>3, <3>1 DEF SyncFails
    <2>4. QED
      BY <2>2, <2>3
  <1>5. ASSUME NEW q \in Ids, Cancel(q) PROVE TypeInv'
    <2>1. db' \in [Ids -> Records]
      BY <1>5, CancelType DEF Cancel
    <2>2. QED
      BY <1>5, <2>1 DEF Cancel
  <1>6. QED
    BY <1>1, <1>2, <1>3, <1>4, <1>5 DEF ClientStep

LEMMA TypeScheduler == TypeInv /\ SchedulerStep => TypeInv'
  <1> SUFFICES ASSUME TypeInv, SchedulerStep PROVE TypeInv'
    OBVIOUS
  <1>0. /\ sched \in SchedType /\ exec \in [Ids -> ExecType]
        /\ child \in [Ids -> ChildType] /\ current \in Ids \cup {None}
    BY DEF TypeInv, TypeOK
  <1> USE DEF TypeInv, TypeOK, Pointers, storeVars, procVars
  <1>1. IdleSched \in SchedType /\ IdleSched.pc = "pick"
    BY DEF IdleSched, SchedType
  <1>2. ASSUME NEW pc \in {"stop", "close"}, sched.pc # "pick"
        PROVE  Leaves(pc) \in SchedType /\ Leaves(pc).pc = pc /\ Leaves(pc).query = sched.query
    BY <1>2 DEF Leaves, IdleSched, SchedType
  <1>3. ASSUME NEW q \in Ids, PickQuery(q) PROVE TypeInv'
    <2>1. [IdleSched EXCEPT !.pc = "begin", !.query = q] \in SchedType
      BY DEF IdleSched, SchedType
    <2>2. sched'.pc = "begin" /\ sched'.query = q
      BY <1>3 DEF PickQuery, IdleSched
    <2>3. QED
      BY <1>3, <2>1, <2>2 DEF PickQuery, SchedType
  <1>4. CASE BeginQuery
    <2> DEFINE q == sched.query
    <2>1. q \in Ids
      BY <1>4 DEF BeginQuery
    <2>2. CASE CanBegin(q)
      <3>1. Revised(q, "planning") \in Records
        BY <2>1, RevisedType DEF States, Active
      <3>2. Revised(q, "planning").epoch + 1 \in Nat /\ db[q].epoch + 1 \in Nat
        <4>1. db[q] \in Records
          BY <2>1
        <4>2. Revised(q, "planning").epoch \in Nat /\ db[q].epoch \in Nat
          BY <3>1, <4>1 DEF Records
        <4>3. QED
          BY <4>2
      <3>3. [Revised(q, "planning") EXCEPT !.epoch = @ + 1] \in Records
        BY <3>1, <3>2 DEF Records
      <3>4. db' \in [Ids -> Records]
        BY <1>4, <2>1, <2>2, <3>3 DEF BeginQuery
      <3>5. sched' = [sched EXCEPT !.pc = "start", !.epoch = db[q].epoch + 1]
        BY <1>4, <2>2 DEF BeginQuery
      <3>6. sched' \in SchedType /\ sched'.pc = "start" /\ sched'.query = q
        BY <3>2, <3>5 DEF SchedType
      <3>7. QED
        BY <1>4, <2>1, <3>4, <3>6 DEF BeginQuery, SchedType
    <2>3. CASE ~CanBegin(q)
      BY <1>4, <2>3, <1>1 DEF BeginQuery, SchedType
    <2>4. QED
      BY <2>2, <2>3
  <1>5. CASE StartJob
    <2> DEFINE q == sched.query
               m == db[q].model
               reuse == current # None /\ child[current].alive /\ child[current].model = m
               r == IF reuse THEN current ELSE q
               procs == IF reuse THEN child ELSE Closed(current)
               proc == IF reuse THEN child[r]
                       ELSE [NoChild EXCEPT !.alive = TRUE, !.model = m]
    <2>1. q \in Ids /\ m \in Models \cup {None} /\ r \in Ids /\ sched.epoch \in Nat
      <3>1. q \in Ids
        BY <1>5 DEF StartJob
      <3>2. m \in Models \cup {None}
        BY <3>1 DEF Records
      <3>3. sched.epoch \in Nat
        BY <1>0 DEF SchedType
      <3>4. r \in Ids
        BY <1>0, <3>1
      <3>5. QED
        BY <3>1, <3>2, <3>3, <3>4
    <2>2. procs \in [Ids -> ChildType]
      BY ClosedType DEF ChildType, EventType
    <2>3. proc \in ChildType
      <3>1. CASE reuse
        BY <2>1, <3>1 DEF ChildType, EventType
      <3>2. CASE ~reuse
        <4>1. NoChild \in ChildType
          BY DEF NoChild, ChildType, Stages
        <4>2. proc = [NoChild EXCEPT !.alive = TRUE, !.model = m]
          BY <3>2
        <4> HIDE DEF m, proc
        <4>3. QED
          BY <2>1, <4>1, <4>2 DEF ChildType
      <3>3. QED
        BY <3>1, <3>2
    <2>4. [proc EXCEPT !.job = q, !.at = "begin", !.events = 0] \in ChildType
      <3> HIDE DEF proc, q
      <3>1. QED
        BY <2>1, <2>3 DEF ChildType, Stages
    <2>5. [NoExec EXCEPT !.at = "live", !.epoch = sched.epoch, !.child = r] \in ExecType
      <3> HIDE DEF r
      <3>1. QED
        BY <2>1 DEF NoExec, ExecType
    <2>6. /\ current' = r
          /\ child' = [procs EXCEPT ![r] = [proc EXCEPT !.job = q, !.at = "begin", !.events = 0]]
          /\ exec' = [exec EXCEPT ![q] =
                [NoExec EXCEPT !.at = "live", !.epoch = sched.epoch, !.child = r]]
          /\ sched' = [sched EXCEPT !.pc = "wait"]
          /\ UNCHANGED <<storeVars, procVars, sub, acked>>
      BY <1>5 DEF StartJob
    <2> HIDE DEF r, proc, procs, m, reuse
    <2>7. child' \in [Ids -> ChildType]
      BY <2>1, <2>2, <2>4, <2>6
    <2>8. exec' \in [Ids -> ExecType]
      BY <2>1, <2>5, <2>6 DEF ExecType
    <2>9. sched' \in SchedType
      BY <2>6 DEF SchedType
    <2>10. Pointers'
      BY <2>1, <2>6 DEF NoExec
    <2>11. QED
      BY <2>1, <2>6, <2>7, <2>8, <2>9, <2>10 DEF SchedType
  <1>6. CASE StartFails
    <2>1. db' \in [Ids -> Records]
      BY <1>6, FinishedType DEF StartFails, Terminal
    <2>2. child' \in [Ids -> ChildType] /\ current' \in Ids \cup {None}
      BY <1>6, <1>0, ClosedType DEF StartFails
    <2>3. QED
      BY <1>6, <1>1, <2>1, <2>2 DEF StartFails
  <1>7. CASE WaitReturns
    BY <1>7, <1>2 DEF WaitReturns, SchedType
  <1>8. CASE ReadRecord
    <2>1. db[sched.query].cancel \in BOOLEAN
      BY <1>8 DEF ReadRecord, Records
    <2> DEFINE closed == db[sched.query].state \in Terminal
    <2>2. closed \in BOOLEAN
      OBVIOUS
    <2>3. sched' = [sched EXCEPT !.pc = "check", !.done = closed,
                                 !.cancel = db[sched.query].cancel]
      BY <1>8 DEF ReadRecord
    <2> HIDE DEF closed
    <2>4. sched' \in SchedType /\ sched'.pc = "check" /\ sched'.query = sched.query
      BY <1>0, <2>1, <2>2, <2>3 DEF SchedType
    <2>5. QED
      BY <1>8, <2>4 DEF ReadRecord, SchedType
  <1>9. CASE CheckDone
    <2>1. CASE GraceOver
      BY <1>9, <2>1, <1>2 DEF CheckDone, SchedType
    <2>2. CASE ~GraceOver
      BY ZenonT(30), <1>9, <2>2 DEF CheckDone, SchedType
    <2>3. QED
      BY <2>1, <2>2
  <1>10. CASE CloseRecord
    <2>1. Verdict \in Terminal
      BY <1>10 DEF CloseRecord, Verdict, Terminal
    <2>2. db' \in [Ids -> Records]
      BY <1>10, <2>1, FinishedType DEF CloseRecord
    <2>3. QED
      BY <1>10, <2>2, <1>2 DEF CloseRecord, SchedType
  <1>11. CASE CheckContinues
    BY <1>11 DEF CheckContinues, SchedType
  <1>12. CASE StopExecution
    <2>0. sched.query \in Ids /\ sched.pc = "stop" /\ exec[sched.query].at # "none"
      BY <1>12 DEF StopExecution
    <2>1. child' \in [Ids -> ChildType]
      BY <1>12, <1>0, <2>0, ClosedType DEF StopExecution, ExecType
    <2>2. /\ exec' \in [Ids -> ExecType]
          /\ \A q \in Ids : /\ exec'[q].at = exec[q].at
                            /\ exec'[q].held = exec[q].held
                            /\ exec'[q].child = exec[q].child
      <3> DEFINE x == [exec[sched.query] EXCEPT !.stopped = TRUE]
      <3>0. exec[sched.query] \in ExecType
        BY <1>0, <2>0
      <3>1. SameJob(x, exec[sched.query]) /\ x.held = exec[sched.query].held
        BY <3>0, ExecChange
      <3>2. exec' = exec \/ exec' = [exec EXCEPT ![sched.query] = x]
        BY <1>12 DEF StopExecution
      <3> HIDE DEF x
      <3>3. QED
        BY <1>0, <2>0, <3>1, <3>2 DEF SameJob
    <2>3. sched' \in SchedType /\ sched'.pc = "close" /\ sched'.query = sched.query
      BY <1>12, <1>2 DEF StopExecution
    <2>4. Pointers'
      BY <2>0, <2>2, <2>3
    <2>5. QED
      BY <1>12, <2>1, <2>2, <2>3, <2>4 DEF StopExecution
  <1>13. CASE EndQuery
    <2>1. db' \in [Ids -> Records]
      BY <1>13, FinishedType DEF EndQuery, Terminal
    <2>2. QED
      BY <1>13, <1>1, <2>1 DEF EndQuery, SchedType
  <1>14. QED
    BY <1>3, <1>4, <1>5, <1>6, <1>7, <1>8, <1>9, <1>10, <1>11, <1>12, <1>13 DEF SchedulerStep

LEMMA TypeReader ==
    ASSUME TypeInv, NEW q \in Ids, ReaderStep(q)
    PROVE  TypeInv'
  <1> USE DEF TypeInv, TypeOK, Pointers, storeVars, procVars
  <1>0. /\ exec \in [Ids -> ExecType] /\ child \in [Ids -> ChildType]
        /\ db[q].state \in States /\ db[q].saved \in Nat /\ lines[q] \in Nat
    BY DEF ExecType, ChildType, EventType, Records
  <1>1. /\ Returned(q) \in [Ids -> ExecType] /\ Returned(q)[q].at = "done"
        /\ Returned(q)[q].held = "none"
        /\ \A p \in Ids \ {q} : Returned(q)[p] = exec[p]
    BY <1>0, ReturnedType DEF Returned, NoExec
  <1>2. /\ Released(q) \in [Ids -> ExecType] /\ Released(q)[q].held = "none"
        /\ Released(q)[q].at \in {"done", exec[q].at}
        /\ Released(q)[q].child = exec[q].child \/ Released(q)[q].at = "done"
        /\ \A p \in Ids \ {q} : Released(q)[p] = exec[p]
    BY <1>0, <1>1, ReleasedType DEF Released, ExecType
  <1>3. ASSUME exec' \in [Ids -> ExecType], exec'[q].held = "none",
               exec'[q].at = "done" \/ (exec'[q].at = exec[q].at /\ exec'[q].child = exec[q].child),
               \A p \in Ids \ {q} : exec'[p] = exec[p],
               exec[q].at # "none", UNCHANGED sched
        PROVE  Pointers'
    BY <1>3
  <1>4. CASE Receive(q)
    <2> DEFINE r == exec[q].child
               e == Head(child[r].pipe)
    <2>1. r \in Ids /\ child[r].pipe \in Seq(EventType) /\ child[r].pipe # <<>>
      BY <1>0, <1>4 DEF Receive, Reading, ChildType
    <2>2. Tail(child[r].pipe) \in Seq(EventType) /\ e \in EventType
      BY <2>1
    <2>3. child' = [child EXCEPT ![r] = [child[r] EXCEPT !.pipe = Tail(child[r].pipe)]]
      BY <1>4 DEF Receive
    <2>4. [child[r] EXCEPT !.pipe = Tail(child[r].pipe)] \in ChildType
      BY <1>0, <2>1, <2>2, PipeChange
    <2>5. child' \in [Ids -> ChildType]
      BY <1>0, <2>1, <2>3, <2>4
    <2>6. e.kind \in Kinds
      BY <2>2 DEF EventType
    <2>7. exec' = Returned(q) \/ exec' = exec \/ exec' = [exec EXCEPT ![q].held = e.kind]
      BY <1>4 DEF Receive
    <2> HIDE DEF e
    <2>8. exec' \in [Ids -> ExecType] /\ Pointers'
      <3>1. CASE exec' = [exec EXCEPT ![q].held = e.kind]
        <4> DEFINE x == [exec[q] EXCEPT !.held = e.kind]
        <4>1. SameJob(x, exec[q])
          BY <1>0, <2>6, ExecChange
        <4>2. exec' = [exec EXCEPT ![q] = x]
          BY <3>1
        <4> HIDE DEF x
        <4>3. QED
          BY <1>0, <1>4, <4>1, <4>2 DEF Receive, Reading, SameJob
      <3>2. CASE exec' = Returned(q)
        BY <1>0, <1>1, <1>3, <1>4, <3>2 DEF Receive, Reading
      <3>3. CASE exec' = exec
        BY <1>0, <1>4, <3>3 DEF Receive
      <3>4. QED
        BY <2>7, <3>1, <3>2, <3>3
    <2>9. UNCHANGED <<storeVars, procVars, sub, acked, sched, current>>
      BY <1>4 DEF Receive
    <2>10. QED
      BY <2>5, <2>8, <2>9 DEF ExecType, ChildType, EventType
  <1>5. CASE PipeCloses(q)
    <2> DEFINE x == [exec[q] EXCEPT !.held = "failed", !.eof = TRUE]
    <2>1. exec' = Returned(q) \/ exec' = [exec EXCEPT ![q] = x]
      BY <1>5 DEF PipeCloses
    <2>2. SameJob(x, exec[q])
      BY <1>0, ExecChange DEF Kinds
    <2> HIDE DEF x
    <2>3. exec' \in [Ids -> ExecType]
      BY <1>0, <1>1, <2>1, <2>2 DEF SameJob
    <2>4. Pointers'
      <3>1. CASE exec' = Returned(q)
        BY <1>1, <1>3, <1>5, <3>1 DEF PipeCloses, Reading
      <3>2. CASE exec' = [exec EXCEPT ![q] = x]
        BY <1>0, <1>5, <2>2, <3>2 DEF PipeCloses, Reading, SameJob
      <3>3. QED
        BY <2>1, <3>1, <3>2
    <2>5. QED
      BY <1>5, <2>3, <2>4 DEF PipeCloses
  <1>6. CASE EmitUpdate(q)
    <2>1. db' \in [Ids -> Records]
      BY <1>0, <1>6, UpdatedType DEF EmitUpdate, States, Active
    <2>2. QED
      BY <1>2, <1>3, <1>6, <2>1 DEF EmitUpdate, ExecType
  <1>7. CASE EmitProgress(q)
    <2>1. lines' \in [Ids -> Nat] /\ lines'[q] \in Nat
      BY <1>7 DEF EmitProgress
    <2>2. Updated(q, exec[q].epoch, db[q].state, lines'[q]) \in [Ids -> Records]
      BY <1>0, <2>1, UpdatedType
    <2>3. db' \in [Ids -> Records]
      BY <1>7, <2>2 DEF EmitProgress
    <2>4. /\ exec' \in [Ids -> ExecType] /\ Pointers'
      <3>1. CASE exec' = Released(q)
        BY <1>2, <1>3, <1>7, <3>1 DEF EmitProgress
      <3>2. CASE exec' = [exec EXCEPT ![q].held = "none", ![q].written = lines'[q]]
        <4>0. PICK n \in Nat : n = lines'[q]
          BY <2>1
        <4> DEFINE x == [exec[q] EXCEPT !.held = "none", !.written = n]
        <4>1. SameJob(x, exec[q]) /\ x.held = "none"
          <5>1. PICK y \in ExecType : y = exec[q]
            BY <1>0
          <5>2. SameJob([y EXCEPT !.held = "none", !.written = n], y)
            BY ExecChange
          <5>3. [y EXCEPT !.held = "none", !.written = n].held = "none"
            BY DEF ExecType
          <5>4. QED
            BY <5>1, <5>2, <5>3
        <4>2. exec' = [exec EXCEPT ![q] = x]
          BY <3>2, <4>0
        <4> HIDE DEF x
        <4>3. QED
          BY <1>0, <1>3, <1>7, <4>1, <4>2 DEF EmitProgress, SameJob
      <3>3. QED
        BY <1>7, <3>1, <3>2 DEF EmitProgress
    <2>5. UNCHANGED <<born, procVars, sub, acked, sched, child, current>>
      BY <1>7 DEF EmitProgress
    <2>6. QED
      BY <2>1, <2>3, <2>4, <2>5 DEF ExecType
  <1>8. CASE EmitFlush(q)
    <2>1. db' \in [Ids -> Records]
      BY <1>0, <1>8, UpdatedType DEF EmitFlush
    <2> DEFINE x == [exec[q] EXCEPT !.written = lines[q]]
    <2>5. SameJob(x, exec[q]) /\ x.held = exec[q].held
      BY <1>0, ExecChange
    <2>6. exec' = [exec EXCEPT ![q] = x]
      BY <1>8 DEF EmitFlush
    <2> HIDE DEF x
    <2>2. exec' \in [Ids -> ExecType]
      BY <1>0, <2>5, <2>6 DEF SameJob
    <2>3. Pointers'
      BY <1>0, <1>8, <2>5, <2>6 DEF EmitFlush, SameJob
    <2>4. QED
      BY <1>8, <2>1, <2>2, <2>3 DEF EmitFlush, ExecType
  <1>9. CASE EmitFinal(q)
    <2>1. PICK s \in {"succeeded", "failed"} : db' = Finished(q, exec[q].epoch, s)
      BY <1>9 DEF EmitFinal
    <2>2. db' \in [Ids -> Records]
      BY <2>1, FinishedType DEF Terminal
    <2>3. QED
      BY <1>2, <1>3, <1>9, <2>2 DEF EmitFinal, ExecType
  <1>10. CASE EmitRaises(q)
    <2>1. child' \in [Ids -> ChildType]
      BY <1>0, <1>10, ClosedType DEF EmitRaises, ExecType
    <2>2. QED
      BY <1>1, <1>3, <1>10, <2>1 DEF EmitRaises
  <1>11. QED
    BY <1>4, <1>5, <1>6, <1>7, <1>8, <1>9, <1>10 DEF ReaderStep

LEMMA TypeChild ==
    ASSUME TypeInv, NEW r \in Ids, ChildStep(r)
    PROVE  TypeInv'
  <1>0. child \in [Ids -> ChildType] /\ child[r].pipe \in Seq(EventType)
        /\ child[r].events \in Nat /\ child[r].job \in Ids \cup {None}
        /\ child[r].at \in Stages
    BY DEF TypeInv, TypeOK, ChildType
  <1>1. UNCHANGED <<storeVars, procVars, sub, acked, sched, exec, current>>
    BY DEF ChildStep
  <1>2. ASSUME NEW c \in ChildType, child' = [child EXCEPT ![r] = c]
        PROVE  TypeInv'
    <2>1. child' \in [Ids -> ChildType]
      BY <1>0, <1>2
    <2>2. QED
      BY <1>1, <2>1 DEF TypeInv, TypeOK, Pointers, storeVars, procVars
  <1> DEFINE After(kind, stage, job, n) ==
        [child[r] EXCEPT
           !.pipe = Append(child[r].pipe, [job |-> child[r].job, kind |-> kind]),
           !.at = stage, !.job = job, !.events = n]
  <1>3. ASSUME NEW kind \in Kinds, NEW stage \in Stages, Put(r, kind, stage)
        PROVE  TypeInv'
    <2>1. After(kind, stage, child[r].job, child[r].events) \in ChildType
      BY <1>0, PutType
    <2>2. child' = [child EXCEPT ![r] = After(kind, stage, child[r].job, child[r].events)]
      BY <1>0, <1>3 DEF Put, ChildType
    <2>3. QED
      BY <1>2, <2>1, <2>2
  <1>4. CASE JobExecutes(r)
    BY <1>3, <1>4 DEF JobExecutes, Kinds, Stages
  <1>5. CASE JobReports(r)
    <2>1. PICK kind \in {"phase", "answer", "progress"} :
            child' = [child EXCEPT
              ![r].pipe = Append(@, [job |-> child[r].job, kind |-> kind]),
              ![r].events = @ + 1]
      BY <1>5 DEF JobReports
    <2>2. After(kind, child[r].at, child[r].job, child[r].events + 1) \in ChildType
      <3>1. child[r].events + 1 \in Nat
        BY <1>0
      <3>2. kind \in Kinds
        BY DEF Kinds
      <3>3. QED
        BY <1>0, <3>1, <3>2, PutType
    <2>3. child' = [child EXCEPT ![r] =
                      After(kind, child[r].at, child[r].job, child[r].events + 1)]
      BY <1>0, <2>1 DEF ChildType
    <2>4. QED
      BY <1>2, <2>2, <2>3
  <1>6. CASE JobEnds(r)
    BY <1>3, <1>6 DEF JobEnds, Kinds, Stages
  <1>7. CASE JobDone(r)
    <2>1. After("done", "idle", None, child[r].events) \in ChildType
      BY <1>0, PutType DEF Kinds, Stages
    <2>2. child' = [child EXCEPT ![r] = After("done", "idle", None, child[r].events)]
      BY <1>0, <1>7 DEF JobDone, ChildType
    <2>3. QED
      BY <1>2, <2>1, <2>2
  <1>8. CASE ChildDies(r)
    <2>1. PICK n \in 0..Len(child[r].pipe) :
            child' = [child EXCEPT ![r].alive = FALSE, ![r].pipe = SubSeq(@, 1, n)]
      BY <1>8 DEF ChildDies
    <2>2. SubSeq(child[r].pipe, 1, n) \in Seq(EventType)
      BY <1>0
    <2>3. [child[r] EXCEPT !.alive = FALSE, !.pipe = SubSeq(child[r].pipe, 1, n)] \in ChildType
      BY <1>0, <2>2, PipeChange
    <2>4. child' = [child EXCEPT ![r] =
            [child[r] EXCEPT !.alive = FALSE, !.pipe = SubSeq(child[r].pipe, 1, n)]]
      BY <2>1
    <2>5. QED
      BY <1>2, <2>3, <2>4
  <1>9. QED
    BY <1>4, <1>5, <1>6, <1>7, <1>8 DEF ChildStep

LEMMA TypeProcess ==
    ASSUME TypeInv, RequestStop \/ StopCompletes \/ Crash \/ Restart \/ DeadlinePasses
    PROVE  TypeInv'
  <1> USE DEF TypeInv, TypeOK, Pointers, storeVars, procVars
  <1>1. CASE RequestStop
    BY <1>1 DEF RequestStop
  <1>2. CASE GoDown
    <2>1. IdleSched \in SchedType /\ IdleSched.pc = "pick"
      BY DEF IdleSched, SchedType
    <2>2. NoExec \in ExecType /\ NoExec.at = "none" /\ NoExec.held = "none"
      BY DEF NoExec, ExecType
    <2>3. NoChild \in ChildType
      BY DEF NoChild, ChildType, Stages
    <2>4. QED
      BY <1>2, <2>1, <2>2, <2>3 DEF GoDown
  <1>3. CASE Restart
    <2>1. db' \in [Ids -> Records]
      BY <1>3, RecoveredType DEF Restart
    <2>2. QED
      BY <1>3, <2>1 DEF Restart
  <1>4. CASE DeadlinePasses
    <2>1. [sched EXCEPT !.late = TRUE] \in SchedType
      BY DEF SchedType
    <2>2. sched'.pc = sched.pc /\ sched'.query = sched.query
      BY <1>4 DEF DeadlinePasses, SchedType
    <2>3. QED
      BY <1>4, <2>1, <2>2 DEF DeadlinePasses
  <1>5. QED
    BY <1>1, <1>2, <1>3, <1>4 DEF StopCompletes, Crash

\* Every variable keeps its type, and every thread a query, an execution and
\* a child of its own, whatever the clients, the job and the process do.
THEOREM TypeCorrect == Spec => []TypeInv
  <1>1. TypeInv /\ UNCHANGED vars => TypeInv'
    BY DEF TypeInv, TypeOK, Pointers, vars
  <1>2. TypeInv /\ [Next]_vars => TypeInv'
    BY <1>1, TypeClient, TypeScheduler, TypeReader, TypeChild, TypeProcess DEF Next
  <1>3. QED
    BY <1>2, TypeInit, PTL DEF Spec

THEOREM TypeSafe == Spec => []TypeOK
  BY TypeCorrect, PTL DEF TypeInv

-----------------------------------------------------------------------------
(* What the store statements do to states and epochs. *)

LEMMA UpdatedState ==
    ASSUME db \in [Ids -> Records], NEW q \in Ids, NEW e, NEW s, NEW n, NEW p \in Ids
    PROVE  /\ Updated(q, e, s, n)[p].epoch = db[p].epoch
           /\ Updated(q, e, s, n)[p].state =
                IF p = q /\ Live(q, e) THEN s ELSE db[p].state
  BY DEF Updated, Revised, Records

LEMMA FinishedState ==
    ASSUME db \in [Ids -> Records], NEW q \in Ids, NEW e, NEW s, NEW p \in Ids
    PROVE  /\ Finished(q, e, s)[p].epoch = db[p].epoch
           /\ Finished(q, e, s)[p].state =
                IF p = q /\ Live(q, e) THEN s ELSE db[p].state
  BY DEF Finished, Revised, Records

LEMMA CancelState ==
    ASSUME db \in [Ids -> Records], NEW q \in Ids, NEW p \in Ids
    PROVE  /\ CancelRequested(q)[p].epoch = db[p].epoch
           /\ CancelRequested(q)[p].state =
                IF p = q /\ db[q].state = "queued" THEN "cancelled" ELSE db[p].state
  BY DEF CancelRequested, Revised, Records

LEMMA RecoveredState ==
    ASSUME db \in [Ids -> Records], NEW p \in Ids
    PROVE  Recovered[p].state =
                IF db[p].state \in Active THEN "interrupted" ELSE db[p].state
  BY DEF Recovered, Revised, Records

-----------------------------------------------------------------------------
(* A closed record is closed for good: every statement tests the state it  *)
(* replaces, so no actor needs to know what the others do.                 *)

LEMMA TerminalStep ==
    ASSUME TypeInv, [Next]_vars, NEW p \in Ids, db[p].state \in Terminal
    PROVE  db'[p] = db[p]
  <1>0. db \in [Ids -> Records]
    BY DEF TypeInv, TypeOK
  <1> USE DEF Terminal, Active, storeVars
  <1>1. ASSUME NEW q \in Ids, NEW e, NEW s, NEW n
        PROVE  Updated(q, e, s, n)[p] = db[p] /\ Finished(q, e, s)[p] = db[p]
               /\ CancelRequested(q)[p] = db[p]
    BY <1>0 DEF Updated, Finished, CancelRequested, Live
  <1>2. Recovered[p] = db[p]
    BY <1>0 DEF Recovered
  <1>3. CASE ClientStep
    <2>1. ASSUME NEW q \in Ids, NEW m \in Models, SubmitNew(q, m) PROVE db'[p] = db[p]
      BY <1>0, <2>1 DEF SubmitNew
    <2>2. CASE SyncFails
      <3>1. sub \in Ids
        BY <2>2 DEF SyncFails, TypeInv, TypeOK
      <3>2. QED
        BY <1>0, <1>1, <2>2, <3>1 DEF SyncFails
    <2>3. QED
      BY <1>1, <1>3, <2>1, <2>2 DEF ClientStep, SubmitAgain, SyncOk, Cancel
  <1>4. CASE SchedulerStep
    <2>0. sched.pc # "pick" => sched.query \in Ids
      BY DEF TypeInv, Pointers
    <2>1. CASE BeginQuery
      BY <1>0, <2>0, <2>1 DEF BeginQuery, CanBegin
    <2>2. CASE StartFails \/ EndQuery \/ CloseRecord
      BY <1>1, <2>0, <2>2 DEF StartFails, EndQuery, CloseRecord
    <2>3. QED
      BY <1>4, <2>1, <2>2 DEF SchedulerStep, PickQuery, StartJob, WaitReturns,
         ReadRecord, CheckDone, CheckContinues, StopExecution
  <1>5. ASSUME NEW q \in Ids, ReaderStep(q) PROVE db'[p] = db[p]
    <2>1. CASE EmitUpdate(q) \/ EmitFlush(q)
      BY <1>1, <2>1 DEF EmitUpdate, EmitFlush
    <2>2. CASE EmitProgress(q)
      BY <1>1, <2>2 DEF EmitProgress
    <2>3. CASE EmitFinal(q)
      BY <1>1, <2>3 DEF EmitFinal
    <2>4. QED
      BY <1>5, <2>1, <2>2, <2>3 DEF ReaderStep, Receive, PipeCloses, EmitRaises
  <1>6. CASE DeadlinePasses \/ RequestStop \/ StopCompletes \/ Crash
    BY <1>6 DEF DeadlinePasses, RequestStop, StopCompletes, Crash, GoDown
  <1>7. CASE Restart
    BY <1>2, <1>7 DEF Restart
  <1>8. ASSUME NEW r \in Ids, ChildStep(r) PROVE db'[p] = db[p]
    BY <1>8 DEF ChildStep
  <1>9. QED
    BY <1>3, <1>4, <1>5, <1>6, <1>7, <1>8 DEF Next, vars

\* A record in a terminal state never changes again (store.finish).
THEOREM TerminalSafe == Spec => TerminalNeverChanges
  <1>1. TypeInv /\ [Next]_vars =>
          [\A q \in Ids : db[q].state \in Terminal => db'[q] = db[q]]_vars
    BY TerminalStep
  <1>2. QED
    BY <1>1, TypeCorrect, PTL DEF Spec, TerminalNeverChanges

-----------------------------------------------------------------------------
(* One record is active at a time, it is the scheduler's, and a submission *)
(* in flight is nobody's. The three need each other: the lock keeps the    *)
(* scheduler off the submission, so a discard never removes what it picked.*)

Reserved ==
    /\ sub # None => sub \notin acked
    /\ sched.query # None => db[sched.query].state # "absent"
    /\ sched.pc = "pick" => sched.query = None
    /\ server = "down" => sub = None /\ sched.pc = "pick"

LockInv == TypeInv /\ Reserved /\ ActiveIsScheduled /\ InFlightNotSelected /\ AckedKept

LEMMA LockInit == Init => LockInv
  BY TypeInit, ConstantsAssumption DEF Init, LockInv, Reserved, ActiveIsScheduled,
     InFlightNotSelected, AckedKept, IdleSched, Absent, Active

\* A write of the record the scheduler runs, by it or by its reader thread,
\* with the record still there and active only if it was.
LEMMA WriteKeeps ==
    ASSUME LockInv, TypeInv', NEW q \in Ids,
           \A p \in Ids : /\ db'[p].epoch = db[p].epoch
                          /\ p # q => db'[p].state = db[p].state
                          /\ db'[p].state \in Active => db[p].state \in Active
                          /\ db[p].state \notin Active => db'[p].state = db[p].state
                          /\ db'[p].state # "absent" \/ db[p].state = "absent",
           UNCHANGED <<server, sub, acked>>,
           sched'.query = sched.query, sched'.epoch = sched.epoch,
           sched.pc \notin {"pick", "begin"} => sched'.pc \notin {"pick", "begin"},
           sched.pc = "pick" <=> sched'.pc = "pick"
    PROVE  LockInv'
  <1> USE DEF LockInv
  <1>1. Reserved'
    BY ConstantsAssumption DEF Reserved, TypeInv, TypeOK, SchedType
  <1>2. ActiveIsScheduled'
    BY DEF ActiveIsScheduled
  <1>3. InFlightNotSelected'
    BY ConstantsAssumption DEF InFlightNotSelected, Active, TypeInv, TypeOK
  <1>4. AckedKept'
    BY DEF AckedKept, TypeInv, TypeOK
  <1>5. QED
    BY <1>1, <1>2, <1>3, <1>4

LEMMA LockClient == LockInv /\ TypeInv' /\ ClientStep => LockInv'
  <1> SUFFICES ASSUME LockInv, TypeInv', ClientStep PROVE LockInv'
    OBVIOUS
  <1>0. /\ db \in [Ids -> Records] /\ None \notin Ids /\ acked \in SUBSET Ids
        /\ sub \in Ids \cup {None}
    BY ConstantsAssumption DEF LockInv, TypeInv, TypeOK
  <1> USE DEF LockInv, storeVars, procVars
  <1>1. ASSUME NEW q \in Ids, NEW m \in Models, SubmitNew(q, m) PROVE LockInv'
    <2>1. /\ db'[q].state = "queued" /\ \A p \in Ids \ {q} : db'[p] = db[p]
          /\ sub' = q /\ db[q].state = "absent" /\ sub = None /\ server = "up"
          /\ UNCHANGED <<server, acked, sched>>
      BY <1>0, <1>1 DEF SubmitNew, Queued, Absent, LockFree
    <2>2. sched.query # q /\ q \notin acked
      BY <1>0, <2>1 DEF Reserved, AckedKept
    <2>3. Reserved'
      BY <1>0, <2>1, <2>2 DEF Reserved, TypeInv, TypeOK, SchedType
    <2>4. ActiveIsScheduled'
      BY <2>1 DEF ActiveIsScheduled, Active
    <2>5. InFlightNotSelected' /\ AckedKept'
      BY <1>0, <2>1, <2>2 DEF InFlightNotSelected, AckedKept
    <2>6. QED
      BY <2>3, <2>4, <2>5
  <1>2. ASSUME NEW q \in Ids, NEW m \in Models, SubmitAgain(q, m) PROVE LockInv'
    BY <1>2 DEF SubmitAgain, LockFree, Reserved, ActiveIsScheduled,
       InFlightNotSelected, AckedKept
  <1>3. CASE SyncOk
    BY <1>0, <1>3 DEF SyncOk, Reserved, ActiveIsScheduled, InFlightNotSelected, AckedKept
  <1>4. CASE SyncFails
    <2>1. /\ sub \in Ids /\ sub' = None /\ UNCHANGED <<server, acked, sched>>
          /\ sub \notin acked /\ sched.query # sub
      BY <1>0, <1>4 DEF SyncFails, Reserved, InFlightNotSelected
    <2>2. /\ \A p \in Ids \ {sub} : db'[p] = db[p]
          /\ db'[sub].state \notin Active
      <3>1. CASE db[sub].state = "queued"
        BY <1>0, <1>4, <2>1, <3>1 DEF SyncFails, Absent, Active
      <3>2. CASE db[sub].state # "queued"
        <4>1. db' = db
          BY <1>4, <3>2 DEF SyncFails, CancelRequested, InFlightNotSelected, Active
        <4>2. QED
          BY <1>4, <3>2, <4>1 DEF SyncFails, InFlightNotSelected, Active
      <3>3. QED
        BY <3>1, <3>2
    <2>3. sched.query # None => db'[sched.query].state # "absent"
      BY <1>0, <2>1, <2>2 DEF Reserved, TypeInv, TypeOK, SchedType
    <2>4. Reserved'
      BY <1>0, <2>1, <2>3 DEF Reserved
    <2>5. ActiveIsScheduled'
      <3>1. ASSUME NEW p \in Ids, db'[p].state \in Active PROVE db'[p] = db[p]
        BY <2>1, <2>2, <3>1
      <3>2. QED
        BY <2>1, <3>1 DEF ActiveIsScheduled
    <2>6. InFlightNotSelected' /\ AckedKept'
      BY <1>0, <2>1, <2>2 DEF InFlightNotSelected, AckedKept
    <2>7. QED
      BY <2>4, <2>5, <2>6
  <1>5. ASSUME NEW q \in Ids, Cancel(q) PROVE LockInv'
    <2>1. \A p \in Ids : /\ db'[p].epoch = db[p].epoch
                         /\ db'[p].state = IF p = q /\ db[q].state = "queued"
                                           THEN "cancelled" ELSE db[p].state
      BY <1>0, <1>5, CancelState DEF Cancel
    <2>2. UNCHANGED <<server, sub, acked, sched>>
      BY <1>5 DEF Cancel
    <2>3. Reserved'
      BY <2>1, <2>2 DEF Reserved, TypeInv, TypeOK, SchedType
    <2>4. ActiveIsScheduled'
      BY <2>1, <2>2 DEF ActiveIsScheduled, Active
    <2>5. InFlightNotSelected' /\ AckedKept'
      BY <1>0, <2>1, <2>2 DEF InFlightNotSelected, AckedKept
    <2>6. QED
      BY <2>3, <2>4, <2>5
  <1>6. QED
    BY <1>1, <1>2, <1>3, <1>4, <1>5 DEF ClientStep

LEMMA LockScheduler == LockInv /\ TypeInv' /\ SchedulerStep => LockInv'
  <1> SUFFICES ASSUME LockInv, TypeInv', SchedulerStep PROVE LockInv'
    OBVIOUS
  <1>0. /\ db \in [Ids -> Records] /\ None \notin Ids /\ sched \in SchedType
        /\ sched.pc # "pick" => sched.query \in Ids
    BY ConstantsAssumption DEF LockInv, TypeInv, TypeOK, Pointers
  <1> USE DEF LockInv, storeVars, procVars
  <1>1. ASSUME NEW q \in Ids, PickQuery(q) PROVE LockInv'
    <2>1. /\ sched'.query = q /\ sched'.pc = "begin" /\ sub = None
          /\ db[q].state = "queued" /\ server = "up" /\ sched.pc = "pick"
          /\ UNCHANGED <<db, server, sub, acked>>
      BY <1>1 DEF PickQuery, IdleSched, OldestQueued, LockFree
    <2>2. Reserved'
      BY <1>0, <2>1 DEF Reserved
    <2>3. ActiveIsScheduled'
      BY <2>1 DEF ActiveIsScheduled
    <2>4. InFlightNotSelected' /\ AckedKept'
      BY <2>1 DEF InFlightNotSelected, AckedKept
    <2>5. QED
      BY <2>2, <2>3, <2>4
  <1>2. CASE BeginQuery
    <2> DEFINE q == sched.query
    <2>1. /\ q \in Ids /\ sched.pc = "begin" /\ server # "down"
          /\ UNCHANGED <<server, sub, acked>> /\ sub # q
          /\ \A p \in Ids : db[p].state \notin Active
      BY <1>0, <1>2 DEF BeginQuery, InFlightNotSelected, ActiveIsScheduled
    <2>2. CASE CanBegin(q)
      <3> DEFINE r == [Revised(q, "planning") EXCEPT !.epoch = @ + 1]
      <3>1. /\ db' = [db EXCEPT ![q] = r]
            /\ sched' = [sched EXCEPT !.pc = "start", !.epoch = db[q].epoch + 1]
        BY <1>2, <2>2 DEF BeginQuery
      <3>2. db[q] \in Records
        BY <1>0, <2>1
      <3>3. r.state = "planning" /\ r.epoch = db[q].epoch + 1
        BY <3>2 DEF Revised, Records
      <3> HIDE DEF r
      <3>4. /\ db'[q].state = "planning" /\ db'[q].epoch = db[q].epoch + 1
            /\ \A p \in Ids \ {q} : db'[p] = db[p]
        BY <1>0, <2>1, <3>1, <3>3
      <3>5. /\ sched'.pc = "start" /\ sched'.query = q
            /\ sched'.epoch = db[q].epoch + 1
        BY <1>0, <3>1 DEF SchedType
      <3>6. Reserved'
        BY <1>0, <2>1, <3>4, <3>5 DEF Reserved
      <3>7. ActiveIsScheduled'
        BY <2>1, <3>4, <3>5 DEF ActiveIsScheduled
      <3>8. InFlightNotSelected' /\ AckedKept'
        BY <1>0, <2>1, <3>4, <3>5 DEF InFlightNotSelected, AckedKept, TypeInv, TypeOK
      <3>9. QED
        BY <3>6, <3>7, <3>8
    <2>3. CASE ~CanBegin(q)
      <3>1. db' = db /\ sched' = IdleSched
        BY <1>2, <2>3 DEF BeginQuery
      <3>2. QED
        BY <1>0, <2>1, <3>1 DEF IdleSched, Reserved, ActiveIsScheduled,
           InFlightNotSelected, AckedKept, TypeInv, TypeOK
    <2>4. QED
      BY <2>2, <2>3
  <1>3. CASE StartFails \/ EndQuery
    <2> DEFINE q == sched.query
    <2>1. /\ q \in Ids /\ sched.pc \notin {"pick", "begin"} /\ server # "down"
          /\ UNCHANGED <<server, sub, acked>>
          /\ db' = Finished(q, sched.epoch, "failed") /\ sched' = IdleSched
      BY <1>0, <1>3 DEF StartFails, EndQuery
    <2>2. \A p \in Ids : db'[p].state = IF p = q /\ Live(q, sched.epoch)
                                        THEN "failed" ELSE db[p].state
      BY <1>0, <2>1, FinishedState
    <2>3. \A p \in Ids : db[p].state \in Active => p = q /\ Live(q, sched.epoch)
      BY <2>1 DEF ActiveIsScheduled, Live
    <2>4. \A p \in Ids : db'[p].state \notin Active
      BY <2>2, <2>3 DEF Active
    <2>5. Reserved' /\ ActiveIsScheduled'
      BY <2>1, <2>4 DEF Reserved, ActiveIsScheduled, IdleSched
    <2>6. InFlightNotSelected' /\ AckedKept'
      BY <1>0, <2>1, <2>2 DEF InFlightNotSelected, AckedKept, IdleSched, Live, Active,
         TypeInv, TypeOK
    <2>7. QED
      BY <2>5, <2>6
  <1>4. CASE CloseRecord
    <2>1. /\ sched.query \in Ids /\ sched.pc = "check"
          /\ UNCHANGED <<server, sub, acked>>
          /\ db' = Finished(sched.query, sched.epoch, Verdict)
          /\ sched'.query = sched.query /\ sched'.epoch = sched.epoch /\ sched'.pc = "stop"
      BY <1>0, <1>4 DEF CloseRecord, Leaves, IdleSched
    <2>2. Verdict \in Terminal
      BY <1>4 DEF CloseRecord, Verdict, Terminal
    <2>3. \A p \in Ids : /\ db'[p].epoch = db[p].epoch
                         /\ db'[p].state = IF p = sched.query /\ Live(p, sched.epoch)
                                           THEN Verdict ELSE db[p].state
      BY <1>0, <2>1, FinishedState
    <2>4. QED
      BY <2>1, <2>2, <2>3, WriteKeeps DEF Live, Active, Terminal
  <1>5. CASE StartJob \/ WaitReturns \/ ReadRecord \/ CheckDone \/ CheckContinues
             \/ StopExecution
    <2> DEFINE Runs == /\ sched'.pc \notin {"pick", "begin"}
                       /\ sched'.query = sched.query /\ sched'.epoch = sched.epoch
    <2>1. /\ UNCHANGED <<db, server, sub, acked>>
          /\ sched.pc \notin {"pick", "begin"}
      BY <1>5 DEF StartJob, WaitReturns, ReadRecord, CheckDone, CheckContinues,
         StopExecution
    <2>2. ASSUME StartJob PROVE Runs
      BY <1>0, <2>2 DEF StartJob, SchedType
    <2>3. ASSUME ReadRecord PROVE Runs
      BY <1>0, <2>3 DEF ReadRecord, SchedType
    <2>4. ASSUME CheckContinues PROVE Runs
      BY <1>0, <2>4 DEF CheckContinues, SchedType
    <2>5. ASSUME WaitReturns \/ StopExecution PROVE Runs
      BY <1>0, <2>5 DEF WaitReturns, StopExecution, Leaves, IdleSched
    <2>6. ASSUME CheckDone PROVE Runs
      <3>1. CASE GraceOver
        BY <1>0, <2>6, <3>1 DEF CheckDone, Leaves, IdleSched
      <3>2. CASE ~GraceOver
        <4>1. sched' = [sched EXCEPT !.pc = "wait", !.done = FALSE, !.cancel = FALSE,
                           !.grace = TRUE, !.late = sched.grace /\ sched.late]
          BY <2>6, <3>2 DEF CheckDone
        <4>2. QED
          BY <1>0, <4>1 DEF SchedType
      <3>3. QED
        BY <3>1, <3>2
    <2>7. Runs
      BY <1>5, <2>2, <2>3, <2>4, <2>5, <2>6
    <2> HIDE DEF LockInv
    <2>8. \E q \in Ids : q = sched.query
      BY <1>0, <2>1
    <2>9. QED
      BY <2>1, <2>7, <2>8, WriteKeeps
  <1>6. QED
    BY <1>1, <1>2, <1>3, <1>4, <1>5 DEF SchedulerStep

LEMMA LockReader ==
    ASSUME LockInv, TypeInv', NEW q \in Ids, ReaderStep(q)
    PROVE  LockInv'
  <1>0. /\ db \in [Ids -> Records] /\ db[q].state \in States
        /\ UNCHANGED <<server, sub, acked, sched>>
    BY DEF LockInv, TypeInv, TypeOK, Records, ReaderStep, Receive, PipeCloses, EmitUpdate,
       EmitProgress, EmitFlush, EmitFinal, EmitRaises, procVars
  <1>1. ASSUME NEW s \in States \ {"absent", "queued"}, NEW e, NEW n,
               db' = Updated(q, e, s, n) \/ db' = Finished(q, e, s) \/ db' = db
        PROVE  LockInv'
    <2>1. \A p \in Ids : /\ db'[p].epoch = db[p].epoch
                         /\ \/ db'[p].state = db[p].state
                            \/ p = q /\ db[p].state \in Active /\ db'[p].state = s
      BY <1>0, <1>1, UpdatedState, FinishedState DEF Live
    <2>2. QED
      BY <1>0, <2>1, WriteKeeps DEF Active, States, Terminal
  <1>2. db[q].state \notin Active => \A e, s, n : Updated(q, e, s, n) = db
    BY DEF Updated, Live
  <1>3. CASE db[q].state \in Active
    <2>1. CASE EmitUpdate(q)
      BY <1>1, <1>3, <2>1 DEF EmitUpdate, Active, States
    <2>2. CASE EmitProgress(q) \/ EmitFlush(q)
      BY <1>1, <1>3, <2>2 DEF EmitProgress, EmitFlush, Active, States
    <2>3. CASE EmitFinal(q)
      BY <1>1, <2>3 DEF EmitFinal, Terminal, States
    <2>4. CASE UNCHANGED db
      BY <1>1, <1>3, <2>4 DEF Active, States
    <2>5. QED
      BY <2>1, <2>2, <2>3, <2>4 DEF ReaderStep, Receive, PipeCloses, EmitRaises, storeVars
  <1>4. CASE db[q].state \notin Active
    <2>1. UNCHANGED db
      BY <1>2, <1>4 DEF ReaderStep, Receive, PipeCloses, EmitUpdate, EmitProgress,
         EmitFlush, EmitFinal, EmitRaises, Finished, Live, storeVars
    <2>2. QED
      BY <1>0, <2>1, WriteKeeps
  <1>5. QED
    BY <1>3, <1>4

LEMMA LockProcess ==
    LockInv /\ TypeInv' /\ (DeadlinePasses \/ RequestStop \/ StopCompletes \/ Crash \/ Restart)
        => LockInv'
  <1> SUFFICES ASSUME LockInv, TypeInv',
                      DeadlinePasses \/ RequestStop \/ StopCompletes \/ Crash \/ Restart
               PROVE  LockInv'
    OBVIOUS
  <1>0. /\ db \in [Ids -> Records] /\ None \notin Ids /\ sched \in SchedType
        /\ acked \in SUBSET Ids
        /\ sched.pc # "pick" => sched.query \in Ids
    BY ConstantsAssumption DEF LockInv, TypeInv, TypeOK, Pointers
  <1>1. CASE DeadlinePasses
    <2>1. /\ UNCHANGED <<db, server, sub, acked>>
          /\ sched.pc \notin {"pick", "begin"}
          /\ sched'.pc = sched.pc
          /\ sched'.query = sched.query /\ sched'.epoch = sched.epoch
      BY <1>0, <1>1 DEF DeadlinePasses, storeVars, procVars, SchedType
    <2>2. \E q \in Ids : q = sched.query
      BY <1>0, <2>1
    <2>3. QED
      BY <2>1, <2>2, WriteKeeps
  <1>2. CASE RequestStop
    BY <1>2 DEF RequestStop, LockInv, Reserved, ActiveIsScheduled, InFlightNotSelected,
       AckedKept, storeVars
  <1>3. CASE StopCompletes \/ Crash
    <2>1. /\ server' = "down" /\ sub' = None /\ sched' = IdleSched
          /\ UNCHANGED <<db, acked>>
      BY <1>3 DEF StopCompletes, Crash, GoDown, storeVars
    <2>2. QED
      BY <2>1 DEF LockInv, Reserved, ActiveIsScheduled, InFlightNotSelected, AckedKept,
         IdleSched
  <1>4. CASE Restart
    <2>1. /\ db' = Recovered /\ server = "down"
          /\ UNCHANGED <<sub, acked, sched>>
      BY <1>4 DEF Restart
    <2>2. \A p \in Ids : db'[p].state = IF db[p].state \in Active
                                         THEN "interrupted" ELSE db[p].state
      BY <1>0, <2>1, RecoveredState
    <2>3. \A p \in Ids : /\ db'[p].state \notin Active
                         /\ db'[p].state = "absent" => db[p].state = "absent"
      BY <2>2 DEF Active
    <2>4. sub = None /\ sched.pc = "pick" /\ sched.query = None /\ server' = "up"
      BY <1>4, <2>1 DEF LockInv, Reserved, Restart
    <2>5. QED
      BY <1>0, <2>1, <2>3, <2>4 DEF LockInv, Reserved, ActiveIsScheduled,
         InFlightNotSelected, AckedKept
  <1>5. QED
    BY <1>1, <1>2, <1>3, <1>4

\* The strengthened invariant holds of every behaviour of the server.
THEOREM LockCorrect == Spec => []LockInv
  <1>1. LockInv /\ TypeInv' /\ [Next]_vars => LockInv'
    <2> SUFFICES ASSUME LockInv, TypeInv', [Next]_vars PROVE LockInv'
      OBVIOUS
    <2>1. CASE ClientStep
      BY <2>1, LockClient
    <2>2. CASE SchedulerStep
      BY <2>2, LockScheduler
    <2>3. CASE DeadlinePasses \/ RequestStop \/ StopCompletes \/ Crash \/ Restart
      BY <2>3, LockProcess
    <2>4. ASSUME NEW q \in Ids, ReaderStep(q) PROVE LockInv'
      BY <2>4, LockReader
    <2>5. ASSUME UNCHANGED <<db, server, sub, acked, sched>> PROVE LockInv'
      BY <2>5 DEF LockInv, Reserved, ActiveIsScheduled, InFlightNotSelected, AckedKept
    <2>6. ASSUME NEW r \in Ids, ChildStep(r) PROVE LockInv'
      BY <2>5, <2>6 DEF ChildStep, storeVars, procVars
    <2>7. CASE UNCHANGED vars
      BY <2>5, <2>7 DEF vars
    <2>8. QED
      BY <2>1, <2>2, <2>3, <2>4, <2>6, <2>7 DEF Next
  <1>2. LockInv => TypeInv
    BY DEF LockInv
  <1>3. QED
    BY <1>1, LockInit, TypeCorrect, PTL DEF Spec

\* While the server is up the only active record is the scheduler's own.
THEOREM ActiveSafe == Spec => []ActiveIsScheduled
  BY LockCorrect, PTL DEF LockInv

\* The scheduler never selects a submission that is not yet durable.
THEOREM InFlightSafe == Spec => []InFlightNotSelected
  BY LockCorrect, PTL DEF LockInv

\* An id a client was given is never forgotten.
THEOREM AckedSafe == Spec => []AckedKept
  BY LockCorrect, PTL DEF LockInv

-----------------------------------------------------------------------------
(* Threads. A query starts once; until then nothing belongs to it. Only    *)
(* the scheduler's query has a reader that applies events, and a reader    *)
(* that was stopped drains the pipe of a dead child.                       *)

Unstarted(q) ==
    \/ db[q].state \in {"absent", "queued"}
    \/ sched.query = q /\ sched.pc = "start"

Runs(q) == exec[q].at = "live" /\ ~exec[q].stopped

Unused(c) == ~c.alive /\ c.pipe = <<>>

Fresh ==
    \A q \in Ids : Unstarted(q) =>
        /\ exec[q].at = "none" /\ Unused(child[q])
        /\ \A p \in Ids : exec[p].child # q
OneRuns ==
    \A q \in Ids : Runs(q) => sched.query = q /\ sched.pc \in {"wait", "check", "stop"}
Apart ==
    \A p, q \in Ids :
        p # q /\ exec[p].at = "live" /\ exec[q].at = "live" => exec[p].child # exec[q].child
Drains ==
    \A q \in Ids : exec[q].at = "live" /\ exec[q].stopped =>
        ~child[exec[q].child].alive /\ exec[q].held = "none"
EndOfFile == \A q \in Ids : exec[q].eof => exec[q].held = "failed"
Planned ==
    sched.pc = "start" => db[sched.query].state = "planning" /\ db[sched.query].saved = 0
Untold ==
    \A q \in Ids : /\ db[q].state \in {"absent", "queued"} => db[q].saved = 0
                   /\ db[q].state = "absent" => db[q] = Absent

ThreadInv == Fresh /\ OneRuns /\ Apart /\ Drains /\ EndOfFile
StartInv == Planned /\ Untold

LEMMA ThreadInit == Init => ThreadInv
  <1> SUFFICES ASSUME Init PROVE ThreadInv
    OBVIOUS
  <1>1. \A q \in Ids : exec[q] = NoExec /\ child[q] = NoChild
    BY DEF Init
  <1>2. QED
    BY <1>1, ConstantsAssumption DEF ThreadInv, Fresh, OneRuns, Apart, Drains, EndOfFile,
       Runs, NoExec, Unused, NoChild

\* Steps that leave the executions alone, and at most end children.
LEMMA ThreadFrame ==
    ASSUME TypeInv, ThreadInv, UNCHANGED exec,
           \A p \in Ids : /\ Unused(child[p]) => Unused(child'[p])
                          /\ child'[p].alive => child[p].alive,
           \A p \in Ids : Unstarted(p)' => Unstarted(p),
           \A p \in Ids : Runs(p) => sched'.query = p /\ sched'.pc \in {"wait", "check", "stop"}
    PROVE  ThreadInv'
  <1>1. \A q \in Ids : exec[q].at = "live" => exec[q].child \in Ids
    BY DEF TypeInv, Pointers
  <1>2. Fresh'
    BY DEF ThreadInv, Fresh
  <1>3. OneRuns' /\ Apart' /\ EndOfFile'
    BY DEF ThreadInv, OneRuns, Apart, EndOfFile, Runs
  <1>4. Drains'
    BY <1>1 DEF ThreadInv, Drains
  <1>5. QED
    BY <1>2, <1>3, <1>4 DEF ThreadInv

LEMMA ClosedFacts ==
    ASSUME child \in [Ids -> ChildType], NEW r \in Ids \cup {None}, NEW p \in Ids
    PROVE  /\ Closed(r)[p].alive => child[p].alive /\ p # r
           /\ Closed(r)[p].pipe = child[p].pipe /\ Closed(r)[p].model = child[p].model
           /\ Closed(r)[p].at = child[p].at /\ Closed(r)[p].job = child[p].job
           /\ Unused(child[p]) => Unused(Closed(r)[p])
           /\ p # r => Closed(r)[p] = child[p]
  <1>0. child[p] \in ChildType
    OBVIOUS
  <1>1. CASE p = r
    <2>1. Closed(r)[p] = [child[p] EXCEPT !.alive = FALSE]
      BY <1>1, ConstantsAssumption DEF Closed
    <2>3. /\ ~Closed(r)[p].alive /\ Closed(r)[p].pipe = child[p].pipe
          /\ Closed(r)[p].model = child[p].model
          /\ Closed(r)[p].at = child[p].at /\ Closed(r)[p].job = child[p].job
      BY <1>0, <2>1 DEF ChildType
    <2>4. QED
      BY <1>1, <2>3 DEF Unused
  <1>2. CASE p # r
    BY <1>0, <1>2, ConstantsAssumption DEF Closed
  <1>3. QED
    BY <1>1, <1>2

\* What the statements of the store do to a record's state and model.
LEMMA StateStep ==
    ASSUME LockInv, [Next]_vars, NEW p \in Ids
    PROVE  /\ db'[p].state \in {"absent", "queued"} => db[p].state \in {"absent", "queued"}
           /\ db[p].state \notin {"absent", "queued"} => db'[p].model = db[p].model
  <1>0. db \in [Ids -> Records] /\ db[p] \in Records /\ (sched.pc # "pick" => sched.query \in Ids)
    BY DEF LockInv, TypeInv, TypeOK, Pointers
  <1> DEFINE Keeps == /\ db'[p].state \in {"absent", "queued"} => db[p].state \in {"absent", "queued"}
                      /\ db[p].state \notin {"absent", "queued"} => db'[p].model = db[p].model
  <1> USE DEF Terminal, Active, storeVars
  <1>1. ASSUME NEW q \in Ids, NEW e, NEW n,
               NEW s \in States,
               \/ db' = Updated(q, e, s, n) /\ (s = "running" \/ s = db[q].state)
               \/ db' = Finished(q, e, s) /\ s \in Terminal
               \/ db' = CancelRequested(q) \/ db' = Recovered \/ db' = db
        PROVE  Keeps
    <2>1. CASE db' = Updated(q, e, s, n) /\ (s = "running" \/ s = db[q].state)
      BY <1>0, <2>1 DEF Updated, Revised, Records, Live
    <2>2. CASE db' = Finished(q, e, s) /\ s \in Terminal
      BY <1>0, <2>2 DEF Finished, Revised, Records, Live
    <2>3. CASE db' = CancelRequested(q)
      BY <1>0, <2>3 DEF CancelRequested, Revised, Records
    <2>4. CASE db' = Recovered
      BY <1>0, <2>4 DEF Recovered, Revised, Records
    <2>5. QED
      BY <1>1, <2>1, <2>2, <2>3, <2>4
  <1>2. CASE ClientStep
    <2>1. ASSUME NEW q \in Ids, NEW m \in Models, SubmitNew(q, m) PROVE Keeps
      BY <1>0, <2>1 DEF SubmitNew
    <2>2. CASE SyncFails
      <3>1. sub \in Ids
        BY <2>2 DEF SyncFails, LockInv, TypeInv, TypeOK
      <3>2. CASE db[sub].state = "queued"
        BY <1>0, <2>2, <3>1, <3>2 DEF SyncFails
      <3>3. CASE db[sub].state # "queued"
        BY <1>1, <2>2, <3>1, <3>3 DEF SyncFails, States
      <3>4. QED
        BY <3>2, <3>3
    <2>3. QED
      BY <1>1, <1>2, <2>1, <2>2 DEF ClientStep, SubmitAgain, SyncOk, Cancel, States
  <1>3. CASE SchedulerStep
    <2>1. CASE BeginQuery
      <3>1. sched.query \in Ids
        BY <1>0, <2>1 DEF BeginQuery
      <3>2. db[sched.query] \in Records
        BY <1>0, <3>1
      <3>3. QED
        BY <1>0, <2>1, <3>1, <3>2 DEF BeginQuery, CanBegin, Revised, Records
    <2>2. CASE StartFails \/ EndQuery
      BY <1>0, <1>1, <2>2 DEF StartFails, EndQuery, States
    <2>3. CASE CloseRecord
      <3>1. Verdict \in Terminal
        BY <2>3 DEF CloseRecord, Verdict
      <3>2. QED
        BY <1>0, <1>1, <2>3, <3>1 DEF CloseRecord, States
    <2>4. QED
      BY <1>3, <2>1, <2>2, <2>3 DEF SchedulerStep, PickQuery, StartJob, WaitReturns,
         ReadRecord, CheckDone, CheckContinues, StopExecution
  <1>4. ASSUME NEW q \in Ids, ReaderStep(q) PROVE Keeps
    <2>0. db[q].state \in States
      BY <1>0 DEF Records
    <2>1. CASE EmitUpdate(q)
      BY <1>1, <2>0, <2>1 DEF EmitUpdate, States
    <2>2. CASE EmitFlush(q) \/ EmitProgress(q)
      BY <1>1, <2>0, <2>2 DEF EmitFlush, EmitProgress
    <2>3. CASE EmitFinal(q)
      BY <1>1, <2>3 DEF EmitFinal, States
    <2>4. QED
      BY <1>4, <2>1, <2>2, <2>3 DEF ReaderStep, Receive, PipeCloses, EmitRaises
  <1>5. CASE DeadlinePasses \/ RequestStop \/ StopCompletes \/ Crash
    BY <1>5 DEF DeadlinePasses, RequestStop, StopCompletes, Crash, GoDown
  <1>6. CASE Restart
    <2>1. "failed" \in States
      BY DEF States
    <2>2. QED
      BY <1>1, <1>6, <2>1, <1>0 DEF Restart
  <1>7. ASSUME NEW r \in Ids, ChildStep(r) PROVE Keeps
    BY <1>7 DEF ChildStep
  <1>8. QED
    BY <1>2, <1>3, <1>4, <1>5, <1>6, <1>7 DEF Next, vars

\* What StartJob does, with the child it takes.
LEMMA StartFacts ==
    ASSUME TypeInv, ThreadInv, StartJob
    PROVE  \E r \in Ids :
             /\ sched.query \in Ids /\ sched.pc = "start" /\ current' = r
             /\ exec' = [exec EXCEPT ![sched.query] =
                   [NoExec EXCEPT !.at = "live", !.epoch = sched.epoch, !.child = r]]
             /\ sched' = [sched EXCEPT !.pc = "wait"]
             /\ \A p \in Ids : p # r => child'[p] = child[p] \/ child'[p] = Closed(current)[p]
             /\ child'[r].job = sched.query /\ child'[r].at = "begin"
             /\ child'[r].alive
             /\ \/ /\ r # sched.query /\ child[r].alive /\ child[r].model = db[sched.query].model
                   /\ child'[r].pipe = child[r].pipe /\ child'[r].model = child[r].model
                \/ r = sched.query /\ child'[r].model = db[sched.query].model
                   /\ child'[r].pipe = <<>>
             /\ UNCHANGED <<storeVars, procVars, sub, acked>>
  <1> DEFINE q == sched.query
             m == db[q].model
             reuse == current # None /\ child[current].alive /\ child[current].model = m
             r == IF reuse THEN current ELSE q
             procs == IF reuse THEN child ELSE Closed(current)
             proc == IF reuse THEN child[r] ELSE [NoChild EXCEPT !.alive = TRUE, !.model = m]
  <1>1. /\ sched.pc = "start" /\ current' = r
        /\ child' = [procs EXCEPT ![r] = [proc EXCEPT !.job = q, !.at = "begin", !.events = 0]]
        /\ exec' = [exec EXCEPT ![q] =
              [NoExec EXCEPT !.at = "live", !.epoch = sched.epoch, !.child = r]]
        /\ sched' = [sched EXCEPT !.pc = "wait"]
        /\ UNCHANGED <<storeVars, procVars, sub, acked>>
    BY DEF StartJob
  <1>2. q \in Ids /\ current \in Ids \cup {None} /\ child \in [Ids -> ChildType]
        /\ db[q] \in Records
    BY <1>1 DEF TypeInv, TypeOK, Pointers
  <1>3. r \in Ids
    BY <1>2
  <1>4. procs \in [Ids -> ChildType]
    BY <1>2, ClosedType DEF ChildType, EventType
  <1>5. ~child[q].alive
    BY <1>1, <1>2 DEF ThreadInv, Fresh, Unstarted, Unused
  <1>6. /\ proc.alive /\ proc.model = m
        /\ reuse => proc = child[r] /\ r # q /\ child[r].alive /\ child[r].model = m
        /\ ~reuse => proc.pipe = <<>> /\ r = q
    BY <1>2, <1>5 DEF NoChild
  <1>7. /\ \A p \in Ids : p # r => child'[p] = child[p] \/ child'[p] = Closed(current)[p]
        /\ child'[r] = [proc EXCEPT !.job = q, !.at = "begin", !.events = 0]
    BY <1>1, <1>3, <1>4
  <1>8. proc \in ChildType
    <2>1. CASE reuse
      BY <1>2, <1>3, <1>6, <2>1
    <2>2. CASE ~reuse
      <3>1. NoChild \in ChildType
        BY DEF NoChild, ChildType, Stages
      <3>2. m \in Models \cup {None}
        BY <1>2 DEF Records
      <3>3. proc = [NoChild EXCEPT !.alive = TRUE, !.model = m]
        BY <2>2
      <3> HIDE DEF m, proc
      <3>4. QED
        BY <3>1, <3>2, <3>3 DEF ChildType
    <2>3. QED
      BY <2>1, <2>2
  <1> HIDE DEF proc, procs, r
  <1>9. /\ child'[r].job = q /\ child'[r].at = "begin" /\ child'[r].alive = proc.alive
        /\ child'[r].model = proc.model /\ child'[r].pipe = proc.pipe
    BY <1>2, <1>7, <1>8 DEF ChildType
  <1>10. \/ /\ r # q /\ child[r].alive /\ child[r].model = m
            /\ child'[r].pipe = child[r].pipe /\ child'[r].model = child[r].model
         \/ r = q /\ child'[r].model = m /\ child'[r].pipe = <<>>
    <2>1. CASE reuse
      BY <1>6, <1>9, <2>1
    <2>2. CASE ~reuse
      BY <1>6, <1>9, <2>2
    <2>3. QED
      BY <2>1, <2>2
  <1>11. QED
    BY <1>1, <1>2, <1>3, <1>6, <1>7, <1>9, <1>10

Over(x) ==
    x.at = "done" /\ x.child = None /\ x.held = "none" /\ x.eof = FALSE /\ x.stopped = FALSE

\* What a step of a reader does to its execution and its child's pipe.
LEMMA ReaderFacts ==
    ASSUME TypeInv, ThreadInv, NEW q \in Ids, ReaderStep(q)
    PROVE  /\ exec[q].at = "live" /\ exec[q].child \in Ids
           /\ \A p \in Ids \ {q} : exec'[p] = exec[p]
           /\ \/ Over(exec'[q])
              \/ /\ exec'[q].at = "live" /\ exec'[q].child = exec[q].child
                 /\ exec'[q].stopped = exec[q].stopped /\ exec'[q].epoch = exec[q].epoch
                 /\ exec[q].stopped => exec'[q].held = "none"
                 /\ exec'[q].eof => exec'[q].held = "failed"
           /\ \A p \in Ids : /\ child'[p].alive => child[p].alive
                             /\ p # exec[q].child => child'[p] = child[p]
           /\ UNCHANGED sched
  <1>0. /\ exec \in [Ids -> ExecType] /\ exec[q] \in ExecType /\ child \in [Ids -> ChildType]
        /\ exec[q].held # "none" => exec[q].at = "live"
        /\ exec[q].at = "live" => exec[q].child \in Ids
    BY DEF TypeInv, TypeOK, Pointers
  <1>1. exec[q].eof => exec[q].held = "failed"
    BY DEF ThreadInv, EndOfFile
  <1>2. /\ exec[q].at = "live" /\ exec[q].child \in Ids /\ UNCHANGED sched
        /\ exec[q].held # "none" => ~exec[q].stopped
    BY <1>0 DEF ReaderStep, Receive, PipeCloses, Reading, EmitUpdate, EmitProgress, EmitFlush,
       EmitFinal, EmitRaises, ThreadInv, Drains
  <1>3. /\ Over(Returned(q)[q])
        /\ \A p \in Ids \ {q} : Returned(q)[p] = exec[p]
    BY <1>0 DEF Returned, Over, NoExec
  <1> DEFINE Goes == /\ \A p \in Ids \ {q} : exec'[p] = exec[p]
                     /\ \/ Over(exec'[q])
                        \/ /\ exec'[q].at = "live" /\ exec'[q].child = exec[q].child
                           /\ exec'[q].stopped = exec[q].stopped /\ exec'[q].epoch = exec[q].epoch
                           /\ exec[q].stopped => exec'[q].held = "none"
                           /\ exec'[q].eof => exec'[q].held = "failed"
             Reads == \A p \in Ids : /\ child'[p].alive => child[p].alive
                                     /\ p # exec[q].child => child'[p] = child[p]
  <1>4. ASSUME exec' = Released(q) PROVE Goes
    BY <1>0, <1>1, <1>2, <1>3, <1>4 DEF Released, ExecType
  <1>5. CASE Receive(q)
    <2> DEFINE r == exec[q].child
               e == Head(child[r].pipe)
    <2>1. /\ exec' = Returned(q) \/ exec' = exec
             \/ (~exec[q].stopped /\ exec' = [exec EXCEPT ![q].held = e.kind])
          /\ child' = [child EXCEPT ![r].pipe = Tail(@)] /\ exec[q].held = "none"
      BY <1>5 DEF Receive, Reading
    <2>2. ~exec[q].eof
      BY <1>1, <2>1
    <2> HIDE DEF e
    <2>3. Goes
      <3>1. CASE ~exec[q].stopped /\ exec' = [exec EXCEPT ![q].held = e.kind]
        BY <1>0, <1>2, <2>2, <3>1 DEF ExecType
      <3>2. CASE exec' = Returned(q)
        BY <1>3, <3>2
      <3>3. CASE exec' = exec
        BY <1>2, <2>1, <2>2, <3>3
      <3>4. QED
        BY <2>1, <3>1, <3>2, <3>3
    <2>4. Reads
      <3>1. child[r] \in ChildType
        BY <1>0, <1>2
      <3>2. QED
        BY <1>0, <1>2, <2>1, <3>1 DEF ChildType
    <2>5. QED
      BY <1>2, <2>3, <2>4
  <1>6. CASE PipeCloses(q)
    <2>1. /\ exec' = Returned(q) \/ (~exec[q].stopped /\
                exec' = [exec EXCEPT ![q].held = "failed", ![q].eof = TRUE])
          /\ child' = child
      BY <1>6 DEF PipeCloses
    <2>2. Goes
      <3>1. CASE ~exec[q].stopped /\ exec' = [exec EXCEPT ![q].held = "failed", ![q].eof = TRUE]
        <4> DEFINE x == [exec[q] EXCEPT !.held = "failed", !.eof = TRUE]
        <4>1. exec' = [exec EXCEPT ![q] = x]
          BY <1>0, <3>1
        <4>2. x.at = exec[q].at /\ x.child = exec[q].child /\ x.stopped = exec[q].stopped
              /\ x.epoch = exec[q].epoch /\ x.held = "failed"
          BY <1>0 DEF ExecType
        <4> HIDE DEF x
        <4>3. QED
          BY <1>0, <1>2, <3>1, <4>1, <4>2
      <3>2. CASE exec' = Returned(q)
        BY <1>3, <3>2
      <3>3. QED
        BY <2>1, <3>1, <3>2
    <2>3. QED
      BY <1>2, <2>1, <2>2
  <1>7. CASE EmitUpdate(q) \/ EmitFinal(q)
    <2>1. exec' = Released(q) /\ child' = child
      BY <1>7 DEF EmitUpdate, EmitFinal
    <2>2. QED
      BY <1>2, <1>4, <2>1
  <1>8. CASE EmitProgress(q)
    <2>1. /\ child' = child /\ exec[q].held # "none" /\ exec[q].held # "failed"
          /\ exec' = Released(q)
             \/ exec' = [exec EXCEPT ![q].held = "none", ![q].written = lines'[q]]
      BY <1>8 DEF EmitProgress
    <2>2. ~exec[q].eof /\ ~exec[q].stopped
      BY <1>1, <1>2, <2>1
    <2>3. CASE exec' = [exec EXCEPT ![q].held = "none", ![q].written = lines'[q]]
      <3> DEFINE x == [exec[q] EXCEPT !.held = "none", !.written = lines'[q]]
      <3>1. exec' = [exec EXCEPT ![q] = x]
        BY <1>0, <2>3
      <3>2. x.at = exec[q].at /\ x.child = exec[q].child /\ x.stopped = exec[q].stopped
            /\ x.epoch = exec[q].epoch /\ x.eof = exec[q].eof
        BY <1>0 DEF ExecType
      <3> HIDE DEF x
      <3>3. QED
        BY <1>0, <1>2, <2>1, <2>2, <3>1, <3>2
    <2>4. QED
      BY <1>2, <1>4, <2>1, <2>3
  <1>9. CASE EmitFlush(q)
    <2>1. /\ child' = child /\ exec[q].held # "none"
          /\ exec' = [exec EXCEPT ![q].written = lines[q]]
      BY <1>9 DEF EmitFlush
    <2> DEFINE x == [exec[q] EXCEPT !.written = lines[q]]
    <2>2. exec' = [exec EXCEPT ![q] = x]
      BY <1>0, <2>1
    <2>3. x.at = exec[q].at /\ x.child = exec[q].child /\ x.stopped = exec[q].stopped
          /\ x.epoch = exec[q].epoch /\ x.eof = exec[q].eof /\ x.held = exec[q].held
      BY <1>0 DEF ExecType
    <2> HIDE DEF x
    <2>4. QED
      BY <1>0, <1>1, <1>2, <2>1, <2>2, <2>3
  <1>10. CASE EmitRaises(q)
    <2>1. exec' = Returned(q) /\ child' = Closed(exec[q].child)
      BY <1>10 DEF EmitRaises
    <2>2. Reads
      BY <1>0, <1>2, <2>1, ClosedFacts
    <2>3. QED
      BY <1>2, <1>3, <2>1, <2>2
  <1>11. QED
    BY <1>5, <1>6, <1>7, <1>8, <1>9, <1>10 DEF ReaderStep

LEMMA CheckDonePc ==
    ASSUME sched \in SchedType, CheckDone
    PROVE  sched'.pc \in {"wait", "stop"} /\ sched'.query = sched.query
  <1>1. CASE GraceOver
    BY <1>1 DEF CheckDone, Leaves, IdleSched
  <1>2. CASE ~GraceOver
    <2>1. sched' = [sched EXCEPT !.pc = "wait", !.done = FALSE, !.cancel = FALSE,
                       !.grace = TRUE, !.late = sched.grace /\ sched.late]
      BY <1>2 DEF CheckDone
    <2>2. QED
      BY <2>1 DEF SchedType
  <1>3. QED
    BY <1>1, <1>2

LEMMA UnstartedStep ==
    ASSUME LockInv, [Next]_vars, NEW p \in Ids, Unstarted(p)'
    PROVE  Unstarted(p)
  <1>1. CASE db'[p].state \in {"absent", "queued"}
    BY <1>1, StateStep DEF Unstarted
  <1>2. CASE sched'.query = p /\ sched'.pc = "start" /\ sched' # sched
    <2>0. sched \in SchedType
      BY DEF LockInv, TypeInv, TypeOK
    <2>1. SchedulerStep \/ DeadlinePasses
      <3>1. CASE ClientStep
        BY <1>2, <3>1 DEF ClientStep, SubmitNew, SubmitAgain, SyncOk, SyncFails, Cancel
      <3>2. ASSUME NEW q \in Ids, ReaderStep(q) \/ ChildStep(q) PROVE sched' = sched
        BY <3>2 DEF ReaderStep, Receive, PipeCloses, EmitUpdate, EmitProgress, EmitFlush,
           EmitFinal, EmitRaises, ChildStep
      <3>3. CASE RequestStop \/ StopCompletes \/ Crash \/ Restart
        BY <1>2, <3>3 DEF RequestStop, StopCompletes, Crash, GoDown, Restart, IdleSched
      <3>4. QED
        BY <1>2, <3>1, <3>2, <3>3 DEF Next, vars
    <2>2. BeginQuery
      <3>1. ASSUME NEW q \in Ids, PickQuery(q) PROVE FALSE
        BY <1>2, <3>1 DEF PickQuery, IdleSched
      <3>2. CASE StartJob \/ StartFails \/ EndQuery
        BY <1>2, <2>0, <3>2 DEF StartJob, StartFails, EndQuery, IdleSched, SchedType
      <3>3. CASE WaitReturns \/ CloseRecord \/ StopExecution
        BY <1>2, <3>3 DEF WaitReturns, CloseRecord, StopExecution, Leaves, IdleSched
      <3>4. CASE ReadRecord \/ CheckContinues \/ DeadlinePasses
        BY <1>2, <2>0, <3>4 DEF ReadRecord, CheckContinues, DeadlinePasses, SchedType
      <3>5. CASE CheckDone
        BY <1>2, <2>0, <3>5, CheckDonePc
      <3>6. QED
        BY <2>1, <3>1, <3>2, <3>3, <3>4, <3>5 DEF SchedulerStep
    <2>3. sched'.query = sched.query /\ db[sched.query].state = "queued"
      <3>1. CASE CanBegin(sched.query)
        BY <2>0, <2>2, <3>1 DEF BeginQuery, CanBegin, SchedType
      <3>2. CASE ~CanBegin(sched.query)
        BY <1>2, <2>2, <3>2 DEF BeginQuery, IdleSched
      <3>3. QED
        BY <3>1, <3>2
    <2>4. QED
      BY <1>2, <2>3 DEF Unstarted
  <1>3. QED
    BY <1>1, <1>2 DEF Unstarted

\* A query that was begun and has no execution yet is still planned.
LEMMA StartStep ==
    ASSUME LockInv, ThreadInv, StartInv, [Next]_vars
    PROVE  StartInv'
  <1>0. /\ TypeInv /\ db \in [Ids -> Records] /\ sched \in SchedType
        /\ (sched.pc # "pick" => sched.query \in Ids)
        /\ (sched.pc = "pick" => sched.query = None) /\ None \notin Ids
        /\ (server = "down" => sched.pc = "pick")
    BY ConstantsAssumption DEF LockInv, TypeInv, TypeOK, Pointers, Reserved
  <1> DEFINE Same(p) == /\ db'[p].state = db[p].state \/ db'[p].state \notin {"absent", "queued"}
                        /\ db[p].state = "planning" => db'[p].state = "planning"
                        /\ db'[p].saved = db[p].saved \/ db[p].state \notin {"absent", "queued"}
                        /\ db[p].state = "planning" => db'[p].saved = db[p].saved
                        /\ db[p].state = "absent" => db'[p] = db[p]
  <1>1. ASSUME UNCHANGED sched, \A p \in Ids : db'[p] = db[p] \/ Same(p) PROVE StartInv'
    BY <1>0, <1>1 DEF StartInv, Planned, Untold
  <1>2. ASSUME sched'.pc # "start",
               \A p \in Ids : \/ db'[p].state \notin {"absent", "queued"}
                              \/ db'[p] = db[p]
        PROVE  StartInv'
    BY <1>2 DEF StartInv, Planned, Untold
  <1>3. ASSUME NEW q \in Ids, NEW p \in Ids, db' = CancelRequested(q) PROVE db'[p] = db[p] \/ Same(p)
    BY <1>0, <1>3 DEF CancelRequested, Revised, Records, Active
  <1>4. CASE ClientStep
    <2>1. UNCHANGED sched
      BY <1>4 DEF ClientStep, SubmitNew, SubmitAgain, SyncOk, SyncFails, Cancel
    <2>2. ASSUME NEW q \in Ids, NEW m \in Models, SubmitNew(q, m) PROVE StartInv'
      <3>1. /\ db' = [db EXCEPT ![q] = Queued(m)] /\ db[q].state = "absent"
            /\ Queued(m).state = "queued" /\ Queued(m).saved = 0
        BY <2>2 DEF SubmitNew, Queued, Absent
      <3>2. QED
        BY <1>0, <2>1, <3>1 DEF StartInv, Planned, Untold
    <2>3. CASE SyncFails
      <3>1. sub \in Ids /\ sched.query # sub
        BY <1>0, <2>3 DEF SyncFails, TypeInv, TypeOK, LockInv, InFlightNotSelected
      <3>2. CASE db[sub].state = "queued"
        <4>1. db' = [db EXCEPT ![sub] = Absent] /\ Absent.saved = 0 /\ Absent.state = "absent"
          BY <2>3, <3>2 DEF SyncFails, Absent
        <4>2. QED
          BY <1>0, <2>1, <3>1, <4>1 DEF StartInv, Planned, Untold
      <3>3. CASE db[sub].state # "queued"
        BY <1>1, <1>3, <2>1, <2>3, <3>1, <3>3 DEF SyncFails
      <3>4. QED
        BY <3>2, <3>3
    <2>4. ASSUME NEW q \in Ids, Cancel(q) PROVE StartInv'
      BY <1>1, <1>3, <2>1, <2>4 DEF Cancel
    <2>5. CASE UNCHANGED db
      BY <1>1, <2>1, <2>5
    <2>6. QED
      BY <1>4, <2>2, <2>3, <2>4, <2>5 DEF ClientStep, SubmitAgain, SyncOk, storeVars
  <1>5. CASE SchedulerStep
    <2>1. ASSUME NEW s, NEW e, s \in Terminal, db' = Finished(sched.query, e, s),
                 sched.pc # "pick", sched'.pc # "start"
          PROVE  StartInv'
      <3>1. \A p \in Ids : db'[p].state = s \/ db'[p] = db[p]
        BY <1>0, <2>1 DEF Finished, Revised, Records
      <3>2. QED
        BY <1>2, <2>1, <3>1 DEF Terminal
    <2>2. CASE BeginQuery
      <3>1. CASE CanBegin(sched.query)
        <4> DEFINE q == sched.query
                   r == [Revised(q, "planning") EXCEPT !.epoch = @ + 1]
        <4>1. /\ db' = [db EXCEPT ![q] = r] /\ q \in Ids /\ db[q].state = "queued"
              /\ sched' = [sched EXCEPT !.pc = "start", !.epoch = db[q].epoch + 1]
          BY <1>0, <2>2, <3>1 DEF BeginQuery, CanBegin
        <4>2. r.state = "planning" /\ r.saved = db[q].saved
          BY <1>0, <4>1 DEF Revised, Records
        <4>3. sched'.query = q
          BY <1>0, <4>1 DEF SchedType
        <4> HIDE DEF r
        <4>4. QED
          BY <1>0, <4>1, <4>2, <4>3 DEF StartInv, Planned, Untold
      <3>2. CASE ~CanBegin(sched.query)
        BY <1>2, <2>2, <3>2 DEF BeginQuery, IdleSched
      <3>3. QED
        BY <3>1, <3>2
    <2>3. CASE StartFails \/ EndQuery
      <3>1. sched' = IdleSched /\ sched.pc # "pick"
              /\ db' = Finished(sched.query, sched.epoch, "failed")
        BY <2>3 DEF StartFails, EndQuery
      <3>2. QED
        BY <2>1, <3>1 DEF IdleSched, Terminal
    <2>4. CASE CloseRecord
      <3>1. Verdict \in Terminal /\ sched'.pc = "stop"
        BY <2>4 DEF CloseRecord, Verdict, Terminal, Leaves, IdleSched
      <3>2. QED
        BY <2>1, <2>4, <3>1 DEF CloseRecord
    <2>5. ASSUME UNCHANGED db, sched'.pc # "start" PROVE StartInv'
      BY <1>2, <2>5
    <2>6. ASSUME NEW q \in Ids, PickQuery(q) PROVE StartInv'
      BY <2>5, <2>6 DEF PickQuery, IdleSched, storeVars
    <2>7. CASE StartJob \/ ReadRecord \/ CheckContinues
      BY <1>0, <2>5, <2>7 DEF StartJob, ReadRecord, CheckContinues, SchedType, storeVars
    <2>8. CASE WaitReturns \/ StopExecution
      BY <2>5, <2>8 DEF WaitReturns, StopExecution, Leaves, IdleSched, storeVars
    <2>9. CASE CheckDone
      BY <1>0, <2>5, <2>9, CheckDonePc DEF CheckDone, storeVars
    <2>10. QED
      BY <1>5, <2>2, <2>3, <2>4, <2>6, <2>7, <2>8, <2>9 DEF SchedulerStep
  <1>6. ASSUME NEW q \in Ids, ReaderStep(q) PROVE StartInv'
    <2>1. exec[q].at = "live" /\ UNCHANGED sched
      BY <1>0, <1>6, ReaderFacts
    <2>2. ~Unstarted(q)
      BY <2>1 DEF ThreadInv, Fresh
    <2>3. \A p \in Ids \ {q} : db'[p] = db[p]
      BY <1>0, <1>6 DEF ReaderStep, Receive, PipeCloses, EmitUpdate, EmitProgress, EmitFlush,
         EmitFinal, EmitRaises, storeVars, Updated, Finished
    <2>4. db'[q].state \notin {"absent", "queued"}
      BY <1>0, <2>2, StateStep DEF Unstarted
    <2>5. QED
      BY <1>0, <2>1, <2>2, <2>3, <2>4 DEF StartInv, Planned, Untold, Unstarted
  <1>7. CASE DeadlinePasses \/ RequestStop \/ StopCompletes \/ Crash
    <2>1. UNCHANGED db /\ (sched' = sched \/ sched'.pc # "start")
      BY <1>0, <1>7 DEF DeadlinePasses, RequestStop, StopCompletes, Crash, GoDown, storeVars,
         IdleSched, SchedType
    <2>2. QED
      BY <1>1, <1>2, <2>1
  <1>8. CASE Restart
    <2>1. db' = Recovered /\ sched'.pc # "start"
      BY <1>0, <1>8 DEF Restart
    <2>2. \A p \in Ids : db'[p].state = "interrupted" \/ db'[p] = db[p]
      BY <1>0, <2>1 DEF Recovered, Revised, Records
    <2>3. QED
      BY <1>2, <2>1, <2>2
  <1>9. CASE UNCHANGED <<db, sched>>
    BY <1>1, <1>9
  <1>10. QED
    BY <1>4, <1>5, <1>6, <1>7, <1>8, <1>9 DEF Next, ChildStep, storeVars, vars

LEMMA ThreadReader ==
    ASSUME LockInv, ThreadInv, [Next]_vars, NEW q \in Ids, ReaderStep(q)
    PROVE  ThreadInv'
  <1>0. TypeInv /\ \A p \in Ids : exec[p].at = "live" => exec[p].child \in Ids
    BY DEF LockInv, TypeInv, Pointers
  <1>1. /\ exec[q].at = "live" /\ exec[q].child \in Ids
        /\ \A p \in Ids \ {q} : exec'[p] = exec[p]
        /\ \/ Over(exec'[q])
           \/ /\ exec'[q].at = "live" /\ exec'[q].child = exec[q].child
              /\ exec'[q].stopped = exec[q].stopped
              /\ exec[q].stopped => exec'[q].held = "none"
              /\ exec'[q].eof => exec'[q].held = "failed"
        /\ \A p \in Ids : /\ child'[p].alive => child[p].alive
                          /\ p # exec[q].child => child'[p] = child[p]
        /\ UNCHANGED sched
    BY <1>0, ReaderFacts
  <1> USE DEF Over
  <1>3. \A p \in Ids : Unstarted(p)' => Unstarted(p) /\ p # q
    BY <1>1, UnstartedStep DEF ThreadInv, Fresh
  <1>4. Fresh'
    BY <1>1, <1>3, ConstantsAssumption DEF ThreadInv, Fresh
  <1>5. OneRuns'
    BY <1>1 DEF ThreadInv, OneRuns, Runs
  <1>6. Apart'
    BY <1>1 DEF ThreadInv, Apart
  <1>7. Drains' /\ EndOfFile'
    BY <1>0, <1>1 DEF ThreadInv, Drains, EndOfFile
  <1>8. QED
    BY <1>4, <1>5, <1>6, <1>7 DEF ThreadInv

LEMMA ThreadScheduler ==
    ASSUME LockInv, ThreadInv, StartInv, [Next]_vars, SchedulerStep
    PROVE  ThreadInv'
  <1>0. /\ TypeInv /\ child \in [Ids -> ChildType] /\ exec \in [Ids -> ExecType]
        /\ sched \in SchedType /\ current \in Ids \cup {None}
        /\ (sched.pc # "pick" => sched.query \in Ids)
        /\ \A p \in Ids : exec[p].at = "live" => exec[p].child \in Ids
    BY DEF LockInv, TypeInv, TypeOK, Pointers
  <1>1. \A p \in Ids : Unstarted(p)' => Unstarted(p)
    BY UnstartedStep
  <1>2. ASSUME UNCHANGED exec, child' = child \/ child' = Closed(current),
               \A p \in Ids : Runs(p) => sched'.query = p /\ sched'.pc \in {"wait", "check", "stop"}
        PROVE  ThreadInv'
    <2>1. \A p \in Ids : /\ Unused(child[p]) => Unused(child'[p])
                         /\ child'[p].alive => child[p].alive
      BY <1>0, <1>2, ClosedFacts
    <2>2. QED
      BY <1>0, <1>1, <1>2, <2>1, ThreadFrame
  <1>3. sched.pc \notin {"wait", "check", "stop"} => \A p \in Ids : ~Runs(p)
    BY DEF ThreadInv, OneRuns
  <1>4. ASSUME NEW q \in Ids, PickQuery(q) PROVE ThreadInv'
    BY <1>2, <1>3, <1>4 DEF PickQuery
  <1>5. CASE BeginQuery \/ StartFails \/ EndQuery
    <2>1. \A p \in Ids : ~Runs(p)
      BY <1>3, <1>5 DEF BeginQuery, StartFails, EndQuery
    <2>2. UNCHANGED exec /\ (child' = child \/ child' = Closed(current))
      BY <1>5 DEF BeginQuery, StartFails, EndQuery
    <2>3. QED
      BY <1>2, <2>1, <2>2
  <1>6. CASE WaitReturns
    <2>1. \A p \in Ids : ~Runs(p)
      BY <1>6 DEF WaitReturns, ThreadInv, OneRuns, Runs
    <2>2. QED
      BY <1>2, <1>6, <2>1 DEF WaitReturns
  <1>7. CASE ReadRecord \/ CheckDone \/ CloseRecord \/ CheckContinues
    <2>1. UNCHANGED <<exec, child>>
      BY <1>7 DEF ReadRecord, CheckDone, CloseRecord, CheckContinues
    <2>2. sched'.query = sched.query /\ sched'.pc \in {"wait", "check", "stop"}
      BY <1>0, <1>7 DEF ReadRecord, CheckDone, CloseRecord, CheckContinues, Leaves,
         IdleSched, SchedType
    <2>3. QED
      BY <1>2, <2>1, <2>2 DEF ThreadInv, OneRuns
  <1>8. CASE StopExecution
    <2> DEFINE q == sched.query
    <2>1. q \in Ids /\ sched.pc = "stop" /\ exec[q].held = "none"
      BY <1>0, <1>8 DEF StopExecution
    <2>2. CASE exec[q].at = "done"
      <3>1. \A p \in Ids : ~Runs(p)
        BY <2>2 DEF ThreadInv, OneRuns, Runs
      <3>2. UNCHANGED <<exec, child>>
        BY <1>8, <2>2 DEF StopExecution
      <3>3. QED
        BY <1>2, <3>1, <3>2
    <2>3. CASE exec[q].at # "done"
      <3>1. exec[q].at = "live" /\ exec[q].child \in Ids
        BY <1>0, <2>1, <2>3 DEF TypeInv, Pointers, ExecType
      <3>2. exec' = [exec EXCEPT ![q].stopped = TRUE] /\ child' = Closed(exec[q].child)
        BY <1>8, <2>3 DEF StopExecution
      <3> DEFINE x == [exec[q] EXCEPT !.stopped = TRUE]
      <3>3. exec' = [exec EXCEPT ![q] = x]
        BY <1>0, <3>2
      <3>4. /\ x.at = "live" /\ x.child = exec[q].child /\ x.held = "none" /\ x.stopped
            /\ x.eof = exec[q].eof
        BY <1>0, <2>1, <3>1 DEF ExecType
      <3> HIDE DEF x
      <3>5. \A p \in Ids : /\ child'[p].alive => child[p].alive /\ p # exec[q].child
                           /\ Unused(child[p]) => Unused(child'[p])
        BY <1>0, <3>1, <3>2, ClosedFacts
      <3>6. Fresh'
        <4>1. \A p \in Ids : Unstarted(p) => p # q
          BY <2>1, <3>1 DEF ThreadInv, Fresh
        <4>2. QED
          BY <1>0, <1>1, <3>3, <3>4, <3>5, <4>1 DEF ThreadInv, Fresh
      <3>7. OneRuns' /\ Apart' /\ Drains' /\ EndOfFile'
        <4>1. OneRuns'
          <5>1. \A p \in Ids : ~Runs(p)'
            BY <1>0, <2>1, <3>3, <3>4 DEF ThreadInv, OneRuns, Runs
          <5>2. QED
            BY <5>1 DEF OneRuns
        <4>2. Apart'
          BY <1>0, <2>1, <3>1, <3>3, <3>4 DEF ThreadInv, Apart
        <4>3. Drains'
          BY <1>0, <2>1, <3>1, <3>3, <3>4, <3>5 DEF ThreadInv, Drains
        <4>4. EndOfFile'
          BY <1>0, <2>1, <3>3, <3>4 DEF ThreadInv, EndOfFile
        <4>5. QED
          BY <4>1, <4>2, <4>3, <4>4
      <3>8. QED
        BY <3>6, <3>7 DEF ThreadInv
    <2>4. QED
      BY <2>2, <2>3
  <1>9. CASE StartJob
    <2> DEFINE q == sched.query
    <2>1. PICK r \in Ids :
             /\ q \in Ids /\ sched.pc = "start" /\ current' = r
             /\ exec' = [exec EXCEPT ![q] =
                   [NoExec EXCEPT !.at = "live", !.epoch = sched.epoch, !.child = r]]
             /\ sched' = [sched EXCEPT !.pc = "wait"]
             /\ \A p \in Ids : p # r => child'[p] = child[p] \/ child'[p] = Closed(current)[p]
             /\ \/ r # q /\ child[r].alive
                \/ r = q
             /\ UNCHANGED storeVars
      BY <1>0, <1>9, StartFacts
    <2> DEFINE x == [NoExec EXCEPT !.at = "live", !.epoch = sched.epoch, !.child = r]
    <2>2. x.at = "live" /\ x.child = r /\ x.stopped = FALSE /\ x.held = "none" /\ x.eof = FALSE
      BY DEF NoExec
    <2>3. exec' = [exec EXCEPT ![q] = x]
      BY <2>1
    <2> HIDE DEF x
    <2>4. sched'.query = q /\ sched'.pc = "wait"
      BY <1>0, <2>1 DEF SchedType
    <2>5. \A p \in Ids : Unstarted(p)' => Unstarted(p) /\ p # q /\ p # r
      <3>1. Unstarted(q)
        BY <2>1 DEF Unstarted
      <3>2. db[q].state \notin {"absent", "queued"}
        BY <2>1 DEF StartInv, Planned
      <3>3. \A p \in Ids : Unstarted(p)' => db[p].state \in {"absent", "queued"}
        BY <2>1, <2>4 DEF Unstarted, storeVars
      <3>4. \A p \in Ids : Unstarted(p) => ~child[p].alive
        BY DEF ThreadInv, Fresh, Unused
      <3>5. QED
        BY <1>1, <2>1, <3>2, <3>3, <3>4
    <2>6. \A p \in Ids : exec[p].at = "live" => p # q /\ exec[p].child # r /\ exec[p].stopped
      <3>1. Unstarted(q)
        BY <2>1 DEF Unstarted
      <3>2. \A p \in Ids : ~Runs(p)
        BY <1>3, <2>1
      <3>3. QED
        BY <2>1, <3>1, <3>2 DEF ThreadInv, Fresh, Drains, Runs
    <2>7. \A p \in Ids \ {r} : /\ child'[p].alive => child[p].alive
                               /\ Unused(child[p]) => Unused(child'[p])
      BY <1>0, <2>1, ClosedFacts
    <2>8. Fresh'
      BY <1>0, <2>1, <2>2, <2>3, <2>5, <2>7 DEF ThreadInv, Fresh
    <2>9. OneRuns'
      BY <1>0, <2>1, <2>2, <2>3, <2>4, <2>6 DEF OneRuns, Runs
    <2>10. Apart'
      BY <1>0, <2>1, <2>2, <2>3, <2>6 DEF ThreadInv, Apart
    <2>11. Drains' /\ EndOfFile'
      <3>1. exec'[q] = x /\ \A p \in Ids \ {q} : exec'[p] = exec[p]
        BY <1>0, <2>1, <2>3
      <3>2. ASSUME NEW p \in Ids, exec'[p].at = "live", exec'[p].stopped
            PROVE  ~child'[exec'[p].child].alive /\ exec'[p].held = "none"
        <4>1. p # q /\ exec'[p] = exec[p]
          BY <2>2, <3>1, <3>2
        <4>2. exec[p].child \in Ids \ {r}
          BY <1>0, <2>6, <3>2, <4>1
        <4>3. QED
          BY <2>7, <3>2, <4>1, <4>2 DEF ThreadInv, Drains
      <3>3. QED
        BY <2>2, <3>1, <3>2 DEF ThreadInv, Drains, EndOfFile
    <2>12. QED
      BY <2>8, <2>9, <2>10, <2>11 DEF ThreadInv
  <1>10. QED
    BY <1>4, <1>5, <1>6, <1>7, <1>8, <1>9 DEF SchedulerStep

LEMMA ThreadStep ==
    ASSUME LockInv, ThreadInv, StartInv, [Next]_vars
    PROVE  ThreadInv'
  <1>0. TypeInv /\ child \in [Ids -> ChildType]
    BY DEF LockInv, TypeInv, TypeOK
  <1>1. ASSUME UNCHANGED <<exec, sched>>,
               \A p \in Ids : /\ Unused(child[p]) => Unused(child'[p])
                              /\ child'[p].alive => child[p].alive
        PROVE  ThreadInv'
    BY <1>0, <1>1, UnstartedStep, ThreadFrame DEF ThreadInv, OneRuns
  <1>2. ASSUME UNCHANGED <<exec, sched, child>> PROVE ThreadInv'
    BY <1>1, <1>2
  <1>3. CASE ClientStep
    BY <1>2, <1>3 DEF ClientStep, SubmitNew, SubmitAgain, SyncOk, SyncFails, Cancel
  <1>4. CASE RequestStop \/ Restart \/ UNCHANGED vars
    BY <1>2, <1>4 DEF RequestStop, Restart, vars
  <1>5. CASE DeadlinePasses
    <2>1. sched'.query = sched.query /\ sched'.pc = sched.pc
      BY <1>5 DEF DeadlinePasses, LockInv, TypeInv, TypeOK, SchedType
    <2>2. UNCHANGED <<exec, child>>
      BY <1>5 DEF DeadlinePasses
    <2>3. QED
      BY <1>0, <2>1, <2>2, UnstartedStep, ThreadFrame DEF ThreadInv, OneRuns
  <1>6. CASE StopCompletes \/ Crash
    <2>1. \A q \in Ids : exec'[q] = NoExec /\ child'[q] = NoChild
      BY <1>6 DEF StopCompletes, Crash, GoDown
    <2>2. QED
      BY <2>1, ConstantsAssumption DEF ThreadInv, Fresh, OneRuns, Apart, Drains, EndOfFile,
         Runs, NoExec, Unused, NoChild
  <1>7. ASSUME NEW r \in Ids, ChildStep(r) PROVE ThreadInv'
    <2>1. /\ \A p \in Ids \ {r} : child'[p] = child[p]
          /\ child[r].alive
      BY <1>0, <1>7 DEF ChildStep, JobExecutes, JobReports, JobEnds, JobDone, ChildDies, JobRuns,
         Put
    <2>2. \A p \in Ids : /\ Unused(child[p]) => Unused(child'[p])
                         /\ child'[p].alive => child[p].alive
      BY <2>1 DEF Unused
    <2>3. QED
      BY <1>1, <1>7, <2>2 DEF ChildStep
  <1>8. QED
    BY <1>3, <1>4, <1>5, <1>6, <1>7, ThreadScheduler, ThreadReader DEF Next

-----------------------------------------------------------------------------
(* Pipes. The events of a job are its child's, in order: running before    *)
(* finished, nothing but done after the end, and done last, when the child *)
(* is idle again.                                                          *)

Finals == {"finished", "failed"}

JobEvents(q, c) ==
    /\ \A i \in 1 .. Len(c.pipe) : c.pipe[i].job = q
    /\ c.alive => c.at = "idle" \/ c.job = q
Orderly(c) ==
    /\ \A i \in 1 .. Len(c.pipe) :
          c.pipe[i].kind = "done" => i = Len(c.pipe) /\ (c.alive => c.at = "idle")
    /\ \A i \in 1 .. Len(c.pipe) : c.pipe[i].kind \in Finals =>
          /\ c.alive => c.at \in {"emitted", "idle"}
          /\ \A j \in 1 .. Len(c.pipe) : i < j => c.pipe[j].kind = "done"
Quiet(c) ==
    /\ \A i \in 1 .. Len(c.pipe) : c.pipe[i].kind = "done"
    /\ c.alive => c.at \in {"emitted", "idle"}
Announced(c) ==
    /\ c.alive /\ c.at = "running" => \E j \in 1 .. Len(c.pipe) : c.pipe[j].kind = "running"
    /\ \A i \in 1 .. Len(c.pipe) : c.pipe[i].kind = "finished" =>
          \E j \in 1 .. Len(c.pipe) : j < i /\ c.pipe[j].kind = "running"

\* The reader takes the first event.
LEMMA TakeEvent ==
    ASSUME NEW c \in ChildType, NEW d, NEW q, c.pipe # <<>>, d.pipe = Tail(c.pipe),
           d.alive = c.alive, d.at = c.at, d.job = c.job
    PROVE  /\ JobEvents(q, c) => JobEvents(q, d)
           /\ Orderly(c) => Orderly(d)
           /\ Quiet(c) => Quiet(d) /\ Head(c.pipe).kind = "done"
           /\ Announced(c) => /\ Head(c.pipe).kind # "finished"
                              /\ Head(c.pipe).kind # "running" => Announced(d)
           /\ Orderly(c) /\ Head(c.pipe).kind \in Finals => Quiet(d)
           /\ Orderly(c) /\ Head(c.pipe).kind = "done" => d.pipe = <<>> /\ (d.alive => d.at = "idle")
  <1>1. c.pipe \in Seq(EventType)
    BY DEF ChildType
  <1>2. /\ Len(c.pipe) \in Nat /\ Len(c.pipe) > 0 /\ Len(d.pipe) = Len(c.pipe) - 1
        /\ Head(c.pipe) = c.pipe[1] /\ 1 \in 1 .. Len(c.pipe)
        /\ \A i \in 1 .. Len(d.pipe) : d.pipe[i] = c.pipe[i + 1] /\ i + 1 \in 1 .. Len(c.pipe)
    BY <1>1
  <1>3. \A i \in 1 .. Len(c.pipe) : i = 1 \/ (i - 1 \in 1 .. Len(d.pipe) /\ c.pipe[i] = d.pipe[i - 1])
    BY <1>2
  <1>4. JobEvents(q, c) => JobEvents(q, d)
    BY <1>2 DEF JobEvents
  <1>5. Orderly(c) => Orderly(d)
    <2> SUFFICES ASSUME Orderly(c) PROVE Orderly(d)
      OBVIOUS
    <2>1. ASSUME NEW i \in 1 .. Len(d.pipe), d.pipe[i].kind = "done"
          PROVE  i = Len(d.pipe) /\ (d.alive => d.at = "idle")
      <3>1. i + 1 = Len(c.pipe) /\ (c.alive => c.at = "idle")
        BY <1>2, <2>1 DEF Orderly
      <3>2. QED
        BY <1>2, <3>1
    <2>2. ASSUME NEW i \in 1 .. Len(d.pipe), d.pipe[i].kind \in Finals
          PROVE  /\ d.alive => d.at \in {"emitted", "idle"}
                 /\ \A j \in 1 .. Len(d.pipe) : i < j => d.pipe[j].kind = "done"
      <3>1. /\ c.alive => c.at \in {"emitted", "idle"}
            /\ \A j \in 1 .. Len(c.pipe) : i + 1 < j => c.pipe[j].kind = "done"
        BY <1>2, <2>2 DEF Orderly
      <3>2. QED
        BY <1>2, <3>1
    <2>3. QED
      BY <2>1, <2>2 DEF Orderly
  <1>6. Quiet(c) => Quiet(d) /\ Head(c.pipe).kind = "done"
    BY <1>2 DEF Quiet
  <1>7. Announced(c) => Head(c.pipe).kind # "finished"
    BY <1>2 DEF Announced
  <1>8. Announced(c) /\ Head(c.pipe).kind # "running" => Announced(d)
    <2> SUFFICES ASSUME Announced(c), Head(c.pipe).kind # "running" PROVE Announced(d)
      OBVIOUS
    <2>1. ASSUME d.alive, d.at = "running"
          PROVE  \E j \in 1 .. Len(d.pipe) : d.pipe[j].kind = "running"
      <3>1. PICK j \in 1 .. Len(c.pipe) : c.pipe[j].kind = "running"
        BY <2>1 DEF Announced
      <3>2. QED
        BY <1>2, <1>3, <3>1
    <2>2. ASSUME NEW i \in 1 .. Len(d.pipe), d.pipe[i].kind = "finished"
          PROVE  \E j \in 1 .. Len(d.pipe) : j < i /\ d.pipe[j].kind = "running"
      <3>1. PICK j \in 1 .. Len(c.pipe) : j < i + 1 /\ c.pipe[j].kind = "running"
        BY <1>2, <2>2 DEF Announced
      <3>2. j # 1 /\ j - 1 \in 1 .. Len(d.pipe) /\ c.pipe[j] = d.pipe[j - 1] /\ j - 1 < i
        BY <1>2, <1>3, <3>1
      <3>3. QED
        BY <3>1, <3>2
    <2>3. QED
      BY <2>1, <2>2 DEF Announced
  <1>9. Orderly(c) /\ Head(c.pipe).kind \in Finals => Quiet(d)
    BY <1>2 DEF Orderly, Quiet
  <1>10. Orderly(c) /\ Head(c.pipe).kind = "done" => d.pipe = <<>> /\ (d.alive => d.at = "idle")
    <2> SUFFICES ASSUME Orderly(c), Head(c.pipe).kind = "done"
                 PROVE  d.pipe = <<>> /\ (d.alive => d.at = "idle")
      OBVIOUS
    <2>1. Len(c.pipe) = 1 /\ (c.alive => c.at = "idle")
      BY <1>2 DEF Orderly
    <2>2. d.pipe \in Seq(EventType) /\ Len(d.pipe) = 0
      BY <1>1, <1>2, <2>1
    <2>3. d.pipe = <<>>
      BY <2>2, EmptySeq
    <2>4. QED
      BY <2>1, <2>3
  <1>11. QED
    BY <1>4, <1>5, <1>6, <1>7, <1>8, <1>9, <1>10

\* The child dies, and what it had not sent is lost.
LEMMA LoseEvents ==
    ASSUME NEW c \in ChildType, NEW d \in ChildType, NEW q, ~d.alive,
           Len(d.pipe) <= Len(c.pipe),
           \A i \in 1 .. Len(d.pipe) : d.pipe[i] = c.pipe[i]
    PROVE  /\ JobEvents(q, c) => JobEvents(q, d)
           /\ Orderly(c) => Orderly(d)
           /\ Quiet(c) => Quiet(d)
           /\ Announced(c) => Announced(d)
  <1>1. Len(c.pipe) \in Nat /\ Len(d.pipe) \in Nat
    BY DEF ChildType
  <1>2. \A i \in 1 .. Len(d.pipe) : i \in 1 .. Len(c.pipe)
    BY <1>1
  <1>3. JobEvents(q, c) => JobEvents(q, d)
    BY <1>2 DEF JobEvents
  <1>4. Orderly(c) => Orderly(d)
    BY <1>1, <1>2 DEF Orderly
  <1>5. Quiet(c) => Quiet(d)
    BY <1>2 DEF Quiet
  <1>6. Announced(c) => Announced(d)
    BY <1>1, <1>2 DEF Announced
  <1>7. QED
    BY <1>3, <1>4, <1>5, <1>6

\* The job puts an event, where run_job and _child_main put it.
Puts(c, d, kind) ==
    /\ c.alive /\ d.alive /\ d.model = c.model
    /\ d.pipe = Append(c.pipe, [job |-> c.job, kind |-> kind])
    /\ \/ kind = "running" /\ c.at = "begin" /\ d.at = "running" /\ d.job = c.job
       \/ kind \in {"phase", "answer", "progress"} /\ c.at \in {"begin", "running"}
            /\ d.at = c.at /\ d.job = c.job
       \/ kind = "finished" /\ c.at = "running" /\ d.at = "emitted" /\ d.job = c.job
       \/ kind = "failed" /\ c.at \in {"begin", "running"} /\ d.at = "emitted" /\ d.job = c.job
       \/ kind = "done" /\ c.at = "emitted" /\ d.at = "idle"

LEMMA PutEvent ==
    ASSUME NEW c \in ChildType, NEW d, NEW q, NEW kind, Puts(c, d, kind)
    PROVE  /\ JobEvents(q, c) => JobEvents(q, d)
           /\ Orderly(c) => Orderly(d)
           /\ Quiet(c) => Quiet(d)
           /\ Announced(c) => Announced(d)
  <1> DEFINE e == [job |-> c.job, kind |-> kind]
  <1>1. c.pipe \in Seq(EventType) /\ d.pipe = Append(c.pipe, e)
    BY DEF ChildType, Puts
  <1>2. /\ Len(c.pipe) \in Nat /\ Len(d.pipe) = Len(c.pipe) + 1 /\ d.pipe[Len(d.pipe)] = e
        /\ \A i \in 1 .. Len(d.pipe) : i = Len(d.pipe) \/ (i \in 1 .. Len(c.pipe) /\ d.pipe[i] = c.pipe[i])
        /\ \A i \in 1 .. Len(c.pipe) : i \in 1 .. Len(d.pipe) /\ d.pipe[i] = c.pipe[i]
    BY <1>1
  <1>3. e.job = c.job /\ e.kind = kind
    OBVIOUS
  <1> HIDE DEF e
  <1>4. c.alive /\ d.alive /\ c.at # "idle"
    BY DEF Puts
  <1>5. JobEvents(q, c) => JobEvents(q, d)
    BY <1>2, <1>3, <1>4 DEF JobEvents, Puts
  <1>6. Orderly(c) => Orderly(d)
    <2> SUFFICES ASSUME Orderly(c) PROVE Orderly(d)
      OBVIOUS
    <2>1. \A i \in 1 .. Len(c.pipe) : c.pipe[i].kind # "done"
      BY <1>4 DEF Orderly
    <2>2. \A i \in 1 .. Len(c.pipe) : c.pipe[i].kind \in Finals => c.at = "emitted"
      BY <1>4 DEF Orderly
    <2>3. kind = "done" <=> d.at = "idle"
      BY DEF Puts
    <2>4. kind \in Finals => d.at = "emitted"
      BY DEF Puts, Finals
    <2>5. c.at = "emitted" => kind = "done"
      BY DEF Puts
    <2>6. ASSUME NEW i \in 1 .. Len(d.pipe), d.pipe[i].kind = "done"
          PROVE  i = Len(d.pipe) /\ d.at = "idle"
      BY <1>2, <1>3, <2>1, <2>3, <2>6
    <2>7. ASSUME NEW i \in 1 .. Len(d.pipe), d.pipe[i].kind \in Finals
          PROVE  /\ d.at \in {"emitted", "idle"}
                 /\ \A j \in 1 .. Len(d.pipe) : i < j => d.pipe[j].kind = "done"
      <3>1. CASE i = Len(d.pipe)
        BY <1>2, <1>3, <2>4, <2>7, <3>1
      <3>2. CASE i # Len(d.pipe)
        <4>1. i \in 1 .. Len(c.pipe) /\ c.pipe[i].kind \in Finals
          BY <1>2, <2>7, <3>2
        <4>2. kind = "done" /\ d.at = "idle"
          BY <2>2, <2>3, <2>5, <4>1
        <4>3. \A j \in 1 .. Len(c.pipe) : i < j => c.pipe[j].kind = "done"
          BY <4>1 DEF Orderly
        <4>4. QED
          BY <1>2, <1>3, <4>2, <4>3
      <3>3. QED
        BY <3>1, <3>2
    <2>8. QED
      BY <2>6, <2>7 DEF Orderly
  <1>7. Quiet(c) => Quiet(d)
    BY <1>2, <1>3, <1>4 DEF Quiet, Puts
  <1>8. Announced(c) => Announced(d)
    <2> SUFFICES ASSUME Announced(c) PROVE Announced(d)
      OBVIOUS
    <2>1. d.at = "running" => kind = "running" \/ c.at = "running"
      BY DEF Puts
    <2>2. kind = "finished" => c.at = "running"
      BY DEF Puts
    <2>3. c.at = "running" =>
             \E j \in 1 .. Len(c.pipe) : c.pipe[j].kind = "running"
      BY <1>4 DEF Announced
    <2>4. d.at = "running" => \E j \in 1 .. Len(d.pipe) : d.pipe[j].kind = "running"
      <3>1. Len(d.pipe) \in 1 .. Len(d.pipe)
        BY <1>2
      <3>2. QED
        BY <1>2, <1>3, <2>1, <2>3, <3>1
    <2>5. ASSUME NEW i \in 1 .. Len(d.pipe), d.pipe[i].kind = "finished"
          PROVE  \E j \in 1 .. Len(d.pipe) : j < i /\ d.pipe[j].kind = "running"
      <3>1. CASE i = Len(d.pipe)
        <4>1. PICK j \in 1 .. Len(c.pipe) : c.pipe[j].kind = "running"
          BY <1>2, <1>3, <2>2, <2>3, <2>5, <3>1
        <4>2. j < i /\ j \in 1 .. Len(d.pipe) /\ d.pipe[j].kind = "running"
          BY <1>2, <3>1, <4>1
        <4>3. QED
          BY <4>2
      <3>2. CASE i # Len(d.pipe)
        <4>1. i \in 1 .. Len(c.pipe) /\ c.pipe[i].kind = "finished"
          BY <1>2, <2>5, <3>2
        <4>2. PICK j \in 1 .. Len(c.pipe) : j < i /\ c.pipe[j].kind = "running"
          BY <4>1 DEF Announced
        <4>3. QED
          BY <1>2, <4>2
      <3>3. QED
        BY <3>1, <3>2
    <2>6. QED
      BY <1>4, <2>4, <2>5 DEF Announced
  <1>9. QED
    BY <1>5, <1>6, <1>7, <1>8

-----------------------------------------------------------------------------
(* Readers. What the reader of the running job has still to read is that   *)
(* job's; it has read running before finished, and nothing follows an end. *)

\* The record was told of running, or is closed to this reader.
Begun(q) == db[q].state = "running" \/ ~Live(q, exec[q].epoch)

ReaderInv(q) ==
    Runs(q) =>
        LET c == child[exec[q].child] IN
        /\ JobEvents(q, c) /\ Orderly(c) /\ c.model = db[q].model
        /\ exec[q].eof => ~c.alive
        /\ exec[q].held \in Finals \/ db[q].state = "succeeded" => Quiet(c)
        /\ db[q].state = "succeeded" => exec[q].held \in {"none", "failed"}
        /\ Begun(q) \/ exec[q].held = "running" \/ Announced(c)
        /\ exec[q].held = "finished" => Begun(q)
        /\ Live(q, exec[q].epoch) => db[q].saved = exec[q].written

\* A child nobody reads has nothing to say.
Free ==
    \A r \in Ids : child[r].alive =>
        \/ child[r].pipe = <<>> /\ child[r].at = "idle"
        \/ \E q \in Ids : Runs(q) /\ exec[q].child = r

JobsInv == LockInv /\ ThreadInv /\ StartInv
PipeInv == Free /\ SucceededCountsAnswers /\ \A q \in Ids : ReaderInv(q)

LEMMA StartInit == Init => StartInv
  BY ConstantsAssumption DEF Init, StartInv, Planned, Untold, IdleSched, Absent

LEMMA PipeInit == Init => PipeInv
  <1> SUFFICES ASSUME Init PROVE PipeInv
    OBVIOUS
  <1>1. \A q \in Ids : exec[q] = NoExec /\ child[q] = NoChild /\ db[q] = Absent
    BY DEF Init
  <1>2. QED
    BY <1>1 DEF PipeInv, Free, SucceededCountsAnswers, ReaderInv, Runs, NoExec, NoChild, Absent

\* What the steps of others do to a query's record: they never make it
\* succeed nor touch its answers, nor make it active once it has started.
Kept(p) ==
    /\ db'[p].state = "succeeded" => db[p].state = "succeeded"
    /\ db'[p].state \in Active /\ db[p].state \notin {"absent", "queued"} =>
          db[p].state \in Active /\ db'[p].epoch = db[p].epoch /\ db'[p].saved = db[p].saved
    /\ db[p].state = "running" => db'[p].state = "running" \/ db'[p].state \in Terminal
    /\ lines'[p] = lines[p]

LEMMA RecordStep ==
    ASSUME LockInv, [Next]_vars, NEW p \in Ids, ~ReaderStep(p)
    PROVE  Kept(p)
  <1>0. /\ db \in [Ids -> Records] /\ db[p] \in Records
        /\ (sched.pc # "pick" => sched.query \in Ids)
    BY DEF LockInv, TypeInv, TypeOK, Pointers
  <1> USE DEF Terminal, Active
  <1>1. ASSUME NEW q \in Ids, NEW e, NEW s \in {"failed", "interrupted", "cancelled"},
               UNCHANGED lines,
               \/ db' = Finished(q, e, s)
               \/ db' = CancelRequested(q) \/ db' = Recovered \/ db' = db
        PROVE  Kept(p)
    <2>1. CASE db' = Finished(q, e, s)
      BY <1>0, <1>1, <2>1 DEF Finished, Revised, Records, Kept
    <2>2. CASE db' = CancelRequested(q)
      BY <1>0, <1>1, <2>2 DEF CancelRequested, Revised, Records, Kept
    <2>3. CASE db' = Recovered
      BY <1>0, <1>1, <2>3 DEF Recovered, Revised, Records, Kept
    <2>4. CASE db' = db
      BY <1>1, <2>4 DEF Kept
    <2>5. QED
      BY <1>1, <2>1, <2>2, <2>3, <2>4
  <1>2. ASSUME db'[p] = db[p], lines'[p] = lines[p] PROVE Kept(p)
    BY <1>2 DEF Kept
  <1>3. CASE ClientStep
    <2>1. ASSUME NEW q \in Ids, NEW m \in Models, SubmitNew(q, m) PROVE Kept(p)
      BY <1>0, <2>1 DEF SubmitNew, Kept, Queued, Absent
    <2>2. CASE SyncFails
      <3>1. sub \in Ids
        BY <2>2 DEF SyncFails, LockInv, TypeInv, TypeOK
      <3>2. CASE db[sub].state = "queued"
        BY <1>0, <2>2, <3>1, <3>2 DEF SyncFails, Kept, Absent
      <3>3. CASE db[sub].state # "queued"
        BY <1>1, <2>2, <3>1, <3>3 DEF SyncFails
      <3>4. QED
        BY <3>2, <3>3
    <2>3. CASE \/ SyncOk \/ \E q \in Ids : Cancel(q)
               \/ \E q \in Ids, m \in Models : SubmitAgain(q, m)
      <3>1. UNCHANGED lines /\ (db' = db \/ \E q \in Ids : db' = CancelRequested(q))
        BY <2>3 DEF SyncOk, Cancel, SubmitAgain, storeVars
      <3>2. QED
        BY <1>1, <1>2, <3>1
    <2>4. QED
      BY <1>3, <2>1, <2>2, <2>3 DEF ClientStep
  <1>4. CASE SchedulerStep
    <2>1. CASE BeginQuery
      <3>1. CASE CanBegin(sched.query)
        <4> DEFINE r == [Revised(sched.query, "planning") EXCEPT !.epoch = @ + 1]
        <4>1. /\ db' = [db EXCEPT ![sched.query] = r] /\ db[sched.query].state = "queued"
              /\ sched.query \in Ids /\ lines' = lines
          BY <1>0, <2>1, <3>1 DEF BeginQuery, CanBegin
        <4>2. r.state = "planning"
          BY <1>0, <4>1 DEF Revised, Records
        <4> HIDE DEF r
        <4>3. QED
          BY <1>0, <4>1, <4>2 DEF Kept
      <3>2. CASE ~CanBegin(sched.query)
        BY <1>2, <2>1, <3>2 DEF BeginQuery
      <3>3. QED
        BY <3>1, <3>2
    <2>2. CASE StartFails \/ EndQuery
      BY <1>0, <1>1, <2>2 DEF StartFails, EndQuery
    <2>3. CASE CloseRecord
      <3>1. Verdict \in {"failed", "interrupted", "cancelled"}
        BY <2>3 DEF CloseRecord, Verdict
      <3>2. QED
        BY <1>0, <1>1, <2>3, <3>1 DEF CloseRecord
    <2>4. QED
      BY <1>2, <1>4, <2>1, <2>2, <2>3 DEF SchedulerStep, PickQuery, StartJob, WaitReturns,
         ReadRecord, CheckDone, CheckContinues, StopExecution, storeVars
  <1>5. ASSUME NEW q \in Ids, ReaderStep(q) PROVE Kept(p)
    <2>1. q # p
      BY <1>5
    <2>2. db'[p] = db[p]
      BY <1>0, <1>5, <2>1 DEF ReaderStep, Receive, PipeCloses, EmitUpdate, EmitProgress,
         EmitFlush, EmitFinal, EmitRaises, storeVars, Updated, Finished
    <2>3. lines'[p] = lines[p]
      BY <1>5, <2>1 DEF ReaderStep, Receive, PipeCloses, EmitUpdate, EmitProgress,
         EmitFlush, EmitFinal, EmitRaises, storeVars, LockInv, TypeInv, TypeOK
    <2>4. QED
      BY <1>2, <2>2, <2>3
  <1>6. CASE DeadlinePasses \/ RequestStop \/ StopCompletes \/ Crash
    BY <1>2, <1>6 DEF DeadlinePasses, RequestStop, StopCompletes, Crash, GoDown, storeVars
  <1>7. CASE Restart
    BY <1>1, <1>7 DEF Restart
  <1>8. ASSUME NEW r \in Ids, ChildStep(r) PROVE Kept(p)
    BY <1>2, <1>8 DEF ChildStep, storeVars
  <1>9. QED
    BY <1>2, <1>3, <1>4, <1>5, <1>6, <1>7, <1>8 DEF Next, vars, storeVars

\* Then its reader has what it had.
LEMMA ReaderFrame ==
    ASSUME LockInv, ThreadInv, [Next]_vars, NEW p \in Ids, Runs(p), Kept(p), ReaderInv(p),
           UNCHANGED exec[p],
           LET c == child[exec[p].child]
               d == child'[exec[p].child]
           IN /\ JobEvents(p, c) => JobEvents(p, d)
              /\ Orderly(c) => Orderly(d)
              /\ Quiet(c) => Quiet(d)
              /\ Announced(c) => Announced(d)
              /\ d.model = c.model /\ (d.alive => c.alive)
    PROVE  ReaderInv(p)'
  <1>0. db[p].state \notin {"absent", "queued"}
    BY DEF ThreadInv, Fresh, Unstarted, Runs
  <1>1. db'[p].model = db[p].model
    BY <1>0, StateStep
  <1>2. Begun(p) => Begun(p)'
    BY <1>0 DEF Begun, Live, Kept, Active, Terminal
  <1>3. Live(p, exec[p].epoch)' => Live(p, exec[p].epoch) /\ db'[p].saved = db[p].saved
    BY <1>0 DEF Live, Kept
  <1>4. db'[p].state = "succeeded" => db[p].state = "succeeded"
    BY DEF Kept
  <1>5. QED
    BY <1>1, <1>2, <1>3, <1>4 DEF ReaderInv

\* A record that succeeded and its answers are left alone.
LEMMA CountFrame ==
    ASSUME LockInv, SucceededCountsAnswers, [Next]_vars, NEW p \in Ids, Kept(p),
           db'[p].state = "succeeded"
    PROVE  db'[p].saved = lines'[p]
  <1>1. db[p].state = "succeeded" /\ lines'[p] = lines[p]
    BY DEF Kept
  <1>2. db'[p] = db[p]
    BY <1>1, TerminalStep DEF LockInv, Terminal, vars
  <1>3. QED
    BY <1>1, <1>2 DEF SucceededCountsAnswers

\* Steps that leave every reader what it had.
LEMMA PipeFrame ==
    ASSUME JobsInv, PipeInv, [Next]_vars, UNCHANGED <<exec, child>>,
           \A p \in Ids : ~ReaderStep(p)
    PROVE  PipeInv'
  <1>1. \A p \in Ids : Kept(p)
    BY RecordStep DEF JobsInv
  <1>2. ASSUME NEW p \in Ids PROVE ReaderInv(p)'
    BY <1>1, ReaderFrame DEF JobsInv, PipeInv, ReaderInv, Runs
  <1>3. SucceededCountsAnswers'
    BY <1>1, CountFrame DEF JobsInv, PipeInv, SucceededCountsAnswers
  <1>4. Free'
    BY DEF PipeInv, Free, Runs
  <1>5. QED
    BY <1>2, <1>3, <1>4 DEF PipeInv

LEMMA PipeScheduler ==
    ASSUME JobsInv, PipeInv, [Next]_vars, SchedulerStep, \A p \in Ids : ~ReaderStep(p)
    PROVE  PipeInv'
  <1>0. /\ TypeInv /\ child \in [Ids -> ChildType] /\ exec \in [Ids -> ExecType]
        /\ sched \in SchedType /\ current \in Ids \cup {None}
        /\ (sched.pc # "pick" => sched.query \in Ids)
        /\ \A p \in Ids : exec[p].at = "live" => exec[p].child \in Ids
    BY DEF JobsInv, LockInv, TypeInv, TypeOK, Pointers
  <1>1. SucceededCountsAnswers'
    BY RecordStep, CountFrame DEF JobsInv, PipeInv, SucceededCountsAnswers
  <1>2. CASE UNCHANGED <<exec, child>>
    BY <1>2, PipeFrame
  <1>3. ASSUME \A p \in Ids : ~Runs(p)', Free' PROVE PipeInv'
    BY <1>1, <1>3 DEF PipeInv, ReaderInv
  <1>4. CASE StartFails /\ child' = Closed(current)
    <2>1. exec' = exec /\ \A p \in Ids : ~Runs(p)
      BY <1>4 DEF StartFails, JobsInv, ThreadInv, OneRuns
    <2>2. \A p \in Ids : ~Runs(p)'
      BY <2>1 DEF Runs
    <2>3. Free'
      BY <1>0, <1>4, <2>1, ClosedFacts DEF PipeInv, Free
    <2>4. QED
      BY <1>3, <2>2, <2>3
  <1>5. CASE StopExecution /\ exec[sched.query].at # "done"
    <2> DEFINE q == sched.query
    <2>1. q \in Ids /\ exec[q].at = "live" /\ exec[q].child \in Ids
      BY <1>0, <1>5 DEF StopExecution, TypeInv, Pointers, ExecType
    <2>2. exec' = [exec EXCEPT ![q].stopped = TRUE] /\ child' = Closed(exec[q].child)
      BY <1>5 DEF StopExecution
    <2>3. exec'[q].stopped /\ \A p \in Ids \ {q} : exec'[p] = exec[p]
      BY <1>0, <2>1, <2>2 DEF ExecType
    <2>4. \A p \in Ids : Runs(p) => p = q
      BY DEF JobsInv, ThreadInv, OneRuns
    <2>5. \A p \in Ids : ~Runs(p)'
      BY <2>3, <2>4 DEF Runs
    <2>6. Free'
      BY <1>0, <2>1, <2>2, <2>4, ClosedFacts DEF PipeInv, Free
    <2>7. QED
      BY <1>3, <2>5, <2>6
  <1>6. CASE StartJob
    <2>0. PICK q \in Ids : q = sched.query
      BY <1>0, <1>6 DEF StartJob
    <2>1. PICK r \in Ids :
             /\ sched.pc = "start"
             /\ exec' = [exec EXCEPT ![q] =
                   [NoExec EXCEPT !.at = "live", !.epoch = sched.epoch, !.child = r]]
             /\ \A p \in Ids : p # r => child'[p] = child[p] \/ child'[p] = Closed(current)[p]
             /\ child'[r].job = q /\ child'[r].at = "begin" /\ child'[r].alive
             /\ \/ /\ child[r].alive /\ child[r].model = db[q].model
                   /\ child'[r].pipe = child[r].pipe /\ child'[r].model = child[r].model
                \/ child'[r].model = db[q].model /\ child'[r].pipe = <<>>
             /\ UNCHANGED storeVars
      BY ZenonT(30), <1>0, <1>6, <2>0, StartFacts DEF JobsInv
    <2> DEFINE x == [NoExec EXCEPT !.at = "live", !.epoch = sched.epoch, !.child = r]
    <2>2. x.at = "live" /\ x.child = r /\ x.stopped = FALSE /\ x.held = "none"
          /\ x.eof = FALSE /\ x.written = 0
      BY DEF NoExec
    <2>3. exec'[q] = x /\ \A p \in Ids \ {q} : exec'[p] = exec[p]
      BY <1>0, <2>1
    <2> HIDE DEF x
    <2>4. \A p \in Ids : ~Runs(p)
      BY <2>1 DEF JobsInv, ThreadInv, OneRuns
    <2>5. child'[r].pipe = <<>>
      BY <2>1, <2>4 DEF PipeInv, Free
    <2>6. db'[q].state = "planning" /\ db'[q].saved = 0 /\ db' = db
      BY <2>0, <2>1 DEF JobsInv, StartInv, Planned, storeVars
    <2>7. /\ JobEvents(q, child'[r]) /\ Orderly(child'[r])
          /\ Announced(child'[r]) /\ child'[r].model = db'[q].model
      <3>1. \A i \in 1 .. Len(child'[r].pipe) : FALSE
        BY <2>5
      <3>2. QED
        BY <2>1, <2>6, <3>1 DEF JobEvents, Orderly, Announced
    <2>8. ReaderInv(q)'
      BY <2>2, <2>3, <2>6, <2>7 DEF ReaderInv, Finals
    <2>9. \A p \in Ids : Runs(p)' => p = q
      BY <2>3, <2>4 DEF Runs
    <2>10. \A p \in Ids : ReaderInv(p)'
      BY <2>8, <2>9 DEF ReaderInv
    <2>11. Free'
      <3>1. Runs(q)' /\ exec'[q].child = r
        BY <2>2, <2>3 DEF Runs
      <3>2. ASSUME NEW p \in Ids \ {r}, child'[p].alive
            PROVE  child'[p].pipe = <<>> /\ child'[p].at = "idle"
        <4>1. child[p].alive /\ child'[p].pipe = child[p].pipe /\ child'[p].at = child[p].at
          BY <1>0, <2>1, <3>2, ClosedFacts
        <4>2. QED
          BY <2>4, <4>1 DEF PipeInv, Free
      <3>3. QED
        BY <2>1, <3>1, <3>2 DEF Free
    <2>12. QED
      BY <1>1, <2>10, <2>11 DEF PipeInv
  <1>7. QED
    BY <1>2, <1>4, <1>5, <1>6 DEF SchedulerStep, PickQuery, BeginQuery, StartFails,
       WaitReturns, ReadRecord, CheckDone, CloseRecord, CheckContinues, StopExecution, EndQuery

\* A step of a child puts an event of its job, or the child dies.
LEMMA ChildFacts ==
    ASSUME TypeInv, NEW r \in Ids, ChildStep(r)
    PROVE  /\ \A p \in Ids \ {r} : child'[p] = child[p]
           /\ child[r].alive /\ child'[r].model = child[r].model
           /\ child'[r] \in ChildType
           /\ \/ \E kind \in Kinds : Puts(child[r], child'[r], kind)
              \/ /\ ~child'[r].alive /\ Len(child'[r].pipe) <= Len(child[r].pipe)
                 /\ \A i \in 1 .. Len(child'[r].pipe) : child'[r].pipe[i] = child[r].pipe[i]
           /\ UNCHANGED exec
  <1>0. /\ child \in [Ids -> ChildType] /\ child[r] \in ChildType
        /\ child' \in [Ids -> ChildType]
    BY TypeChild DEF TypeInv, TypeOK
  <1>1. UNCHANGED exec
    BY DEF ChildStep
  <1> DEFINE Fact(k) == /\ \A p \in Ids \ {r} : child'[p] = child[p]
                        /\ Puts(child[r], child'[r], k)
  <1>2. ASSUME NEW kind \in Kinds, NEW stage \in Stages, NEW old \in Stages,
               JobRuns(r, old), Put(r, kind, stage),
               \/ kind = "running" /\ old = "begin" /\ stage = "running"
               \/ kind = "finished" /\ old = "running" /\ stage = "emitted"
               \/ kind = "failed" /\ old \in {"begin", "running"} /\ stage = "emitted"
        PROVE  Fact(kind)
    BY <1>0, <1>2 DEF Put, JobRuns, Puts, ChildType
  <1>3. CASE JobExecutes(r)
    <2>1. Fact("running")
      BY <1>2, <1>3 DEF JobExecutes, Kinds, Stages
    <2>2. QED
      BY <1>0, <1>1, <2>1 DEF Puts, Kinds
  <1>4. CASE JobEnds(r)
    <2>1. Fact("finished") \/ Fact("failed")
      BY <1>2, <1>4 DEF JobEnds, Kinds, Stages
    <2>2. QED
      BY <1>0, <1>1, <2>1 DEF Puts, Kinds
  <1>5. CASE JobReports(r)
    <2>1. PICK kind \in {"phase", "answer", "progress"} :
            /\ JobRuns(r, IF kind = "phase" THEN "begin" ELSE "running")
            /\ child' = [child EXCEPT
                ![r].pipe = Append(@, [job |-> child[r].job, kind |-> kind]),
                ![r].events = @ + 1]
      BY <1>5 DEF JobReports
    <2>2. Fact(kind)
      BY <1>0, <2>1 DEF JobRuns, Puts, ChildType
    <2>3. QED
      BY <1>0, <1>1, <2>2 DEF Puts, Kinds
  <1>6. CASE JobDone(r)
    <2>1. Fact("done")
      BY <1>0, <1>6 DEF JobDone, JobRuns, Puts, ChildType
    <2>2. QED
      BY <1>0, <1>1, <2>1 DEF Puts, Kinds
  <1>7. CASE ChildDies(r)
    <2>1. PICK n \in 0 .. Len(child[r].pipe) :
            child' = [child EXCEPT ![r].alive = FALSE, ![r].pipe = SubSeq(@, 1, n)]
      BY <1>7 DEF ChildDies
    <2>2. child[r].alive /\ child[r].pipe \in Seq(EventType)
      BY <1>0, <1>7 DEF ChildDies, ChildType
    <2>3. /\ \A p \in Ids \ {r} : child'[p] = child[p]
          /\ ~child'[r].alive /\ child'[r].model = child[r].model
          /\ child'[r].pipe = SubSeq(child[r].pipe, 1, n)
      BY <1>0, <2>1 DEF ChildType
    <2>4. /\ Len(child'[r].pipe) <= Len(child[r].pipe)
          /\ \A i \in 1 .. Len(child'[r].pipe) : child'[r].pipe[i] = child[r].pipe[i]
      BY <2>2, <2>3
    <2>5. QED
      BY <1>0, <1>1, <2>2, <2>3, <2>4
  <1>8. QED
    BY <1>3, <1>4, <1>5, <1>6, <1>7 DEF ChildStep

LEMMA PipeChild ==
    ASSUME JobsInv, PipeInv, [Next]_vars, NEW r \in Ids, ChildStep(r),
           \A p \in Ids : ~ReaderStep(p)
    PROVE  PipeInv'
  <1>0. /\ TypeInv /\ child \in [Ids -> ChildType] /\ child[r] \in ChildType
        /\ \A p \in Ids : exec[p].at = "live" => exec[p].child \in Ids
    BY DEF JobsInv, LockInv, TypeInv, TypeOK, Pointers
  <1>1. /\ \A p \in Ids \ {r} : child'[p] = child[p]
        /\ child[r].alive /\ child'[r].model = child[r].model
        /\ child'[r] \in ChildType
        /\ \/ \E kind \in Kinds : Puts(child[r], child'[r], kind)
           \/ /\ ~child'[r].alive /\ Len(child'[r].pipe) <= Len(child[r].pipe)
              /\ \A i \in 1 .. Len(child'[r].pipe) : child'[r].pipe[i] = child[r].pipe[i]
        /\ UNCHANGED exec
    BY <1>0, ChildFacts
  <1>2. \A p \in Ids :
          /\ JobEvents(p, child[r]) => JobEvents(p, child'[r])
          /\ Orderly(child[r]) => Orderly(child'[r])
          /\ Quiet(child[r]) => Quiet(child'[r])
          /\ Announced(child[r]) => Announced(child'[r])
    BY <1>0, <1>1, PutEvent, LoseEvents
  <1>3. ASSUME NEW p \in Ids PROVE ReaderInv(p)'
    <2>1. CASE ~Runs(p)
      BY <1>1, <2>1 DEF ReaderInv, Runs
    <2>2. CASE Runs(p)
      <3>1. exec[p].child \in Ids /\ exec'[p] = exec[p]
        BY <1>0, <1>1, <2>2 DEF Runs
      <3>2. Kept(p) /\ ReaderInv(p)
        BY RecordStep DEF JobsInv, PipeInv
      <3>3. CASE exec[p].child = r
        BY <1>1, <1>2, <2>2, <3>1, <3>2, <3>3, ReaderFrame DEF JobsInv
      <3>4. CASE exec[p].child # r
        BY <1>1, <2>2, <3>1, <3>2, <3>4, ReaderFrame DEF JobsInv
      <3>5. QED
        BY <3>3, <3>4
    <2>3. QED
      BY <2>1, <2>2
  <1>4. SucceededCountsAnswers'
    BY RecordStep, CountFrame DEF JobsInv, PipeInv, SucceededCountsAnswers
  <1>5. Free'
    <2>1. child'[r].alive => \E q \in Ids : Runs(q) /\ exec[q].child = r
      BY <1>1 DEF PipeInv, Free, Puts
    <2>2. QED
      BY <1>1, <2>1 DEF PipeInv, Free, Runs
  <1>6. QED
    BY <1>3, <1>4, <1>5 DEF PipeInv

LEMMA UpdatedFacts ==
    ASSUME db \in [Ids -> Records], NEW q \in Ids, NEW e, NEW s, NEW n,
           db' = Updated(q, e, s, n)
    PROVE  /\ Live(q, e) => db'[q].state = s /\ db'[q].saved = n
           /\ ~Live(q, e) => db'[q] = db[q]
           /\ db'[q].epoch = db[q].epoch /\ db'[q].model = db[q].model
  <1> DEFINE x == [Revised(q, s) EXCEPT !.saved = n]
  <1>1. db[q] \in Records
    OBVIOUS
  <1>2. /\ x.state = s /\ x.saved = n /\ x.epoch = db[q].epoch /\ x.model = db[q].model
    BY <1>1 DEF Revised, Records
  <1>3. db' = IF Live(q, e) THEN [db EXCEPT ![q] = x] ELSE db
    BY DEF Updated
  <1> HIDE DEF x
  <1>4. QED
    BY <1>2, <1>3

LEMMA FinishedFacts ==
    ASSUME db \in [Ids -> Records], NEW q \in Ids, NEW e, NEW s, db' = Finished(q, e, s)
    PROVE  /\ Live(q, e) => db'[q].state = s
           /\ ~Live(q, e) => db'[q] = db[q]
           /\ db'[q].epoch = db[q].epoch /\ db'[q].model = db[q].model
           /\ db'[q].saved = db[q].saved
  <1> DEFINE x == Revised(q, s)
  <1>1. db[q] \in Records
    OBVIOUS
  <1>2. x.state = s /\ x.saved = db[q].saved /\ x.epoch = db[q].epoch /\ x.model = db[q].model
    BY <1>1 DEF Revised, Records
  <1>3. db' = IF Live(q, e) THEN [db EXCEPT ![q] = x] ELSE db
    BY DEF Finished
  <1> HIDE DEF x
  <1>4. QED
    BY <1>2, <1>3

\* The event lock is released: the execution goes on, or ends after an EOF.
LEMMA ReleasedFacts ==
    ASSUME exec \in [Ids -> ExecType], NEW q \in Ids, exec' = Released(q)
    PROVE  IF exec[q].eof THEN Over(exec'[q])
           ELSE /\ exec'[q].at = exec[q].at /\ exec'[q].child = exec[q].child
                /\ exec'[q].stopped = exec[q].stopped /\ exec'[q].epoch = exec[q].epoch
                /\ exec'[q].written = exec[q].written
                /\ exec'[q].held = "none" /\ exec'[q].eof = FALSE
  <1>0. exec[q] \in ExecType
    OBVIOUS
  <1>1. CASE exec[q].eof
    BY <1>1 DEF Released, Returned, Over, NoExec
  <1>2. CASE ~exec[q].eof
    <2> DEFINE x == [exec[q] EXCEPT !.held = "none"]
    <2>1. exec' = [exec EXCEPT ![q] = x]
      BY <1>2 DEF Released
    <2>2. /\ x.at = exec[q].at /\ x.child = exec[q].child
          /\ x.stopped = exec[q].stopped /\ x.epoch = exec[q].epoch
          /\ x.written = exec[q].written /\ x.held = "none" /\ x.eof = FALSE
      BY <1>0, <1>2 DEF ExecType
    <2> HIDE DEF x
    <2>3. QED
      BY <1>2, <2>1, <2>2
  <1>3. QED
    BY <1>1, <1>2

\* What the running job's reader leaves behind.
Left(q) ==
    /\ ReaderInv(q)'
    /\ \/ Runs(q)' /\ exec'[q].child = exec[q].child
       \/ LET d == child'[exec[q].child] IN d.alive => d.pipe = <<>> /\ d.at = "idle"
    /\ db'[q].state = "succeeded" => db'[q].saved = lines'[q]

LEMMA ReceiveLeft ==
    ASSUME JobsInv, PipeInv, NEW q \in Ids, Runs(q), Receive(q)
    PROVE  Left(q)
  <1> DEFINE r == exec[q].child
             c == child[r]
             d == child'[r]
             e == Head(c.pipe)
  <1>0. /\ db \in [Ids -> Records] /\ exec \in [Ids -> ExecType] /\ exec[q] \in ExecType
        /\ child \in [Ids -> ChildType] /\ r \in Ids /\ c \in ChildType
        /\ exec[q].eof => exec[q].held = "failed"
    BY DEF JobsInv, LockInv, TypeInv, TypeOK, Pointers, Runs, ThreadInv, EndOfFile
  <1>1. /\ exec[q].held = "none" /\ c.pipe # <<>>
        /\ child' = [child EXCEPT ![r].pipe = Tail(@)]
        /\ exec' = IF e.kind = "done" THEN Returned(q)
                   ELSE [exec EXCEPT ![q].held = e.kind]
        /\ UNCHANGED storeVars
    BY DEF Receive, Reading, Runs
  <1>2. /\ d.pipe = Tail(c.pipe) /\ d.alive = c.alive /\ d.at = c.at /\ d.job = c.job
        /\ d.model = c.model
    BY <1>0, <1>1 DEF ChildType
  <1>3. /\ JobEvents(q, c) /\ Orderly(c) /\ c.model = db[q].model
        /\ db[q].state = "succeeded" => Quiet(c)
        /\ Begun(q) \/ Announced(c)
        /\ Live(q, exec[q].epoch) => db[q].saved = exec[q].written
    BY <1>1 DEF PipeInv, ReaderInv
  <1>4. /\ JobEvents(q, d) /\ Orderly(d)
        /\ Quiet(c) => Quiet(d) /\ e.kind = "done"
        /\ Announced(c) => e.kind # "finished" /\ (e.kind # "running" => Announced(d))
        /\ e.kind \in Finals => Quiet(d)
        /\ e.kind = "done" => d.pipe = <<>> /\ (d.alive => d.at = "idle")
    <2> HIDE DEF r, e, d
    <2>1. QED
      BY <1>0, <1>1, <1>2, <1>3, TakeEvent DEF e
  <1>5. db' = db /\ lines' = lines
    BY <1>1 DEF storeVars
  <1>6. db'[q].state = "succeeded" => db'[q].saved = lines'[q]
    BY <1>5 DEF PipeInv, SucceededCountsAnswers
  <1>7. CASE e.kind = "done"
    <2>1. ~Runs(q)'
      BY <1>0, <1>1, <1>7 DEF Returned, Runs, NoExec
    <2>2. QED
      BY <1>4, <1>6, <1>7, <2>1 DEF Left, ReaderInv
  <1>8. CASE e.kind # "done"
    <2> DEFINE x == [exec[q] EXCEPT !.held = e.kind]
    <2>1. exec' = [exec EXCEPT ![q] = x]
      BY <1>0, <1>1, <1>8
    <2>2. /\ x.at = exec[q].at /\ x.child = r /\ x.stopped = exec[q].stopped
          /\ x.epoch = exec[q].epoch /\ x.written = exec[q].written /\ x.held = e.kind
          /\ x.eof = exec[q].eof /\ ~x.eof
      BY <1>0, <1>1 DEF ExecType
    <2> HIDE DEF x, e
    <2>3. exec'[q] = x
      BY <1>0, <2>1
    <2>4. Runs(q)' /\ exec'[q].child = r
      BY <2>2, <2>3 DEF Runs
    <2>5. Begun(q) => Begun(q)'
      BY <1>5, <2>2, <2>3 DEF Begun, Live
    <2>6. /\ exec'[q].held \in Finals \/ db'[q].state = "succeeded" => Quiet(d)
          /\ db'[q].state # "succeeded"
          /\ Begun(q)' \/ e.kind = "running" \/ Announced(d)
          /\ e.kind = "finished" => Begun(q)'
          /\ Live(q, exec[q].epoch)' => db'[q].saved = exec'[q].written
          /\ d.model = db'[q].model
      BY <1>2, <1>3, <1>4, <1>5, <1>8, <2>2, <2>3, <2>5 DEF Live
    <2>7. ReaderInv(q)'
      BY <1>4, <2>2, <2>3, <2>4, <2>6 DEF ReaderInv, Live
    <2>8. QED
      BY <1>6, <2>4, <2>7 DEF Left
  <1>9. QED
    BY <1>7, <1>8

\* Applying an event leaves the pipe alone.
LEMMA SameChild ==
    ASSUME PipeInv, NEW q \in Ids, Runs(q), child' = child, db'[q].model = db[q].model,
           db'[q].state = "succeeded" => db'[q].saved = lines'[q],
           \/ exec[q].eof /\ Over(exec'[q])
           \/ LET c == child[exec[q].child] IN
              /\ exec'[q].at = exec[q].at /\ exec'[q].child = exec[q].child
              /\ exec'[q].stopped = exec[q].stopped /\ exec'[q].epoch = exec[q].epoch
              /\ exec'[q].eof => ~c.alive
              /\ exec'[q].held \in Finals \/ db'[q].state = "succeeded" => Quiet(c)
              /\ db'[q].state = "succeeded" => exec'[q].held \in {"none", "failed"}
              /\ Begun(q)' \/ exec'[q].held = "running" \/ Announced(c)
              /\ exec'[q].held = "finished" => Begun(q)'
              /\ Live(q, exec[q].epoch)' => db'[q].saved = exec'[q].written
    PROVE  Left(q)
  <1> DEFINE c == child[exec[q].child]
  <1>1. /\ JobEvents(q, c) /\ Orderly(c) /\ c.model = db[q].model /\ (exec[q].eof => ~c.alive)
    BY DEF PipeInv, ReaderInv
  <1>2. CASE exec[q].eof /\ Over(exec'[q])
    <2>1. ~Runs(q)' /\ ~child'[exec[q].child].alive
      BY <1>1, <1>2 DEF Over, Runs
    <2>2. QED
      BY <2>1 DEF Left, ReaderInv
  <1>3. CASE ~(exec[q].eof /\ Over(exec'[q]))
    <2>1. Runs(q)' /\ exec'[q].child = exec[q].child
      BY <1>3 DEF Runs
    <2>2. ReaderInv(q)'
      BY <1>1, <1>3, <2>1 DEF ReaderInv
    <2>3. QED
      BY <2>1, <2>2 DEF Left
  <1>4. QED
    BY <1>2, <1>3

LEMMA EmitLeft ==
    ASSUME JobsInv, PipeInv, NEW q \in Ids, Runs(q),
           PipeCloses(q) \/ EmitUpdate(q) \/ EmitProgress(q) \/ EmitFlush(q) \/ EmitFinal(q)
             \/ EmitRaises(q)
    PROVE  Left(q)
  <1> DEFINE r == exec[q].child
             c == child[r]
  <1>0. /\ db \in [Ids -> Records] /\ exec \in [Ids -> ExecType] /\ exec[q] \in ExecType
        /\ child \in [Ids -> ChildType] /\ r \in Ids /\ c \in ChildType
        /\ lines \in [Ids -> Nat] /\ db[q] \in Records
        /\ exec[q].eof => exec[q].held = "failed"
    BY DEF JobsInv, LockInv, TypeInv, TypeOK, Pointers, Runs, ThreadInv, EndOfFile
  <1>1. /\ exec[q].eof => ~c.alive
        /\ exec[q].held \in Finals \/ db[q].state = "succeeded" => Quiet(c)
        /\ db[q].state = "succeeded" => exec[q].held \in {"none", "failed"}
        /\ Begun(q) \/ exec[q].held = "running" \/ Announced(c)
        /\ exec[q].held = "finished" => Begun(q)
        /\ Live(q, exec[q].epoch) => db[q].saved = exec[q].written
        /\ db[q].state = "succeeded" => db[q].saved = lines[q]
    BY DEF PipeInv, ReaderInv, SucceededCountsAnswers
  <1>2. CASE PipeCloses(q)
    <2> DEFINE x == [exec[q] EXCEPT !.held = "failed", !.eof = TRUE]
    <2>1. /\ exec' = [exec EXCEPT ![q] = x] /\ exec[q].held = "none"
          /\ ~c.alive /\ c.pipe = <<>> /\ child' = child /\ UNCHANGED storeVars
      BY <1>0, <1>2 DEF PipeCloses, Reading, Runs
    <2>2. /\ x.at = exec[q].at /\ x.child = r /\ x.stopped = exec[q].stopped
          /\ x.epoch = exec[q].epoch /\ x.written = exec[q].written /\ x.held = "failed"
      BY <1>0 DEF ExecType
    <2> HIDE DEF x
    <2>3. exec'[q] = x /\ db' = db /\ lines' = lines
      BY <1>0, <2>1 DEF storeVars
    <2>4. Quiet(c)
      BY <2>1 DEF Quiet
    <2>5. Begun(q) => Begun(q)'
      BY <2>2, <2>3 DEF Begun, Live
    <2>6. QED
      BY <1>1, <2>1, <2>2, <2>3, <2>4, <2>5, SameChild DEF Live
  <1>3. CASE EmitUpdate(q)
    <2> DEFINE s == IF exec[q].held = "running" THEN "running" ELSE db[q].state
    <2>1. /\ exec[q].held \in {"phase", "running"} /\ exec' = Released(q)
          /\ db' = Updated(q, exec[q].epoch, s, db[q].saved)
          /\ child' = child /\ lines' = lines
      BY <1>3 DEF EmitUpdate
    <2>2. /\ exec'[q].at = exec[q].at /\ exec'[q].child = r
          /\ exec'[q].stopped = exec[q].stopped /\ exec'[q].epoch = exec[q].epoch
          /\ exec'[q].written = exec[q].written
          /\ exec'[q].held = "none" /\ exec'[q].eof = FALSE
      BY <1>0, <2>1, ReleasedFacts
    <2>3. /\ Live(q, exec[q].epoch) => db'[q].state = s /\ db'[q].saved = db[q].saved
          /\ ~Live(q, exec[q].epoch) => db'[q] = db[q]
          /\ db'[q].epoch = db[q].epoch /\ db'[q].model = db[q].model
      BY <1>0, <2>1, UpdatedFacts
    <2>4. db'[q].state # "succeeded"
      BY <1>1, <2>1, <2>3 DEF Live, Active
    <2>5. Begun(q) \/ exec[q].held = "running" => Begun(q)'
      BY <2>2, <2>3 DEF Begun, Live, Active
    <2>6. Live(q, exec[q].epoch)' => Live(q, exec[q].epoch) /\ db'[q].saved = db[q].saved
      BY <2>2, <2>3 DEF Live
    <2>7. QED
      BY <1>1, <2>1, <2>2, <2>3, <2>4, <2>5, <2>6, SameChild DEF Finals
  <1>4. CASE EmitProgress(q)
    <2>1. /\ exec[q].held \in {"answer", "progress"} /\ child' = child /\ ~exec[q].eof
          /\ \/ /\ db' = Updated(q, exec[q].epoch, db[q].state, lines'[q])
                /\ exec' = [exec EXCEPT ![q].held = "none", ![q].written = lines'[q]]
             \/ exec' = Released(q) /\ db' = db
      BY <1>0, <1>4 DEF EmitProgress
    <2>2. db[q].state # "succeeded"
      BY <1>1, <2>1
    <2>3. CASE /\ db' = Updated(q, exec[q].epoch, db[q].state, lines'[q])
               /\ exec' = [exec EXCEPT ![q].held = "none", ![q].written = lines'[q]]
      <3> DEFINE x == [exec[q] EXCEPT !.held = "none", !.written = lines'[q]]
      <3>1. exec' = [exec EXCEPT ![q] = x]
        BY <1>0, <2>3
      <3>2. /\ x.at = exec[q].at /\ x.child = r /\ x.stopped = exec[q].stopped
            /\ x.epoch = exec[q].epoch /\ x.written = lines'[q] /\ x.held = "none"
            /\ x.eof = exec[q].eof
        BY <1>0 DEF ExecType
      <3> HIDE DEF x
      <3>3. exec'[q] = x
        BY <1>0, <3>1
      <3>4. /\ Live(q, exec[q].epoch) => db'[q].state = db[q].state /\ db'[q].saved = lines'[q]
            /\ ~Live(q, exec[q].epoch) => db'[q] = db[q]
            /\ db'[q].epoch = db[q].epoch /\ db'[q].model = db[q].model
        BY <1>0, <2>3, UpdatedFacts
      <3>5. Begun(q) => Begun(q)'
        BY <3>2, <3>3, <3>4 DEF Begun, Live, Active
      <3>6. Live(q, exec[q].epoch)' => Live(q, exec[q].epoch)
        BY <3>2, <3>3, <3>4 DEF Live
      <3>7. db'[q].state # "succeeded"
        BY <2>2, <3>4
      <3>8. QED
        BY <1>1, <2>1, <3>2, <3>3, <3>4, <3>5, <3>6, <3>7, SameChild DEF Finals
    <2>4. CASE exec' = Released(q) /\ db' = db
      <3>1. /\ exec'[q].at = exec[q].at /\ exec'[q].child = r
            /\ exec'[q].stopped = exec[q].stopped /\ exec'[q].epoch = exec[q].epoch
            /\ exec'[q].written = exec[q].written
            /\ exec'[q].held = "none" /\ exec'[q].eof = FALSE
        BY <1>0, <2>1, <2>4, ReleasedFacts
      <3>2. Begun(q) => Begun(q)'
        BY <2>4, <3>1 DEF Begun, Live
      <3>3. QED
        BY <1>1, <2>1, <2>2, <2>4, <3>1, <3>2, SameChild DEF Finals, Live
    <2>5. QED
      BY <2>1, <2>3, <2>4
  <1>5. CASE EmitFlush(q)
    <2> DEFINE x == [exec[q] EXCEPT !.written = lines[q]]
    <2>1. /\ exec' = [exec EXCEPT ![q] = x] /\ child' = child /\ lines' = lines
          /\ exec[q].held \in {"finished", "failed"}
          /\ db' = Updated(q, exec[q].epoch, db[q].state, lines[q])
      BY <1>0, <1>5 DEF EmitFlush
    <2>2. /\ x.at = exec[q].at /\ x.child = r /\ x.stopped = exec[q].stopped
          /\ x.epoch = exec[q].epoch /\ x.written = lines[q] /\ x.held = exec[q].held
          /\ x.eof = exec[q].eof
      BY <1>0 DEF ExecType
    <2> HIDE DEF x
    <2>3. exec'[q] = x
      BY <1>0, <2>1
    <2>4. /\ Live(q, exec[q].epoch) => db'[q].state = db[q].state /\ db'[q].saved = lines[q]
          /\ ~Live(q, exec[q].epoch) => db'[q] = db[q]
          /\ db'[q].epoch = db[q].epoch /\ db'[q].model = db[q].model
      BY <1>0, <2>1, UpdatedFacts
    <2>5. Begun(q) => Begun(q)'
      BY <2>2, <2>3, <2>4 DEF Begun, Live, Active
    <2>6. Live(q, exec[q].epoch)' => Live(q, exec[q].epoch)
      BY <2>2, <2>3, <2>4 DEF Live
    <2>7. db'[q].state = "succeeded" =>
            db[q].state = "succeeded" /\ db'[q].saved = lines[q]
      BY <1>1, <2>4 DEF Live, Active
    <2>8. QED
      BY <1>1, <2>1, <2>2, <2>3, <2>4, <2>5, <2>6, <2>7, SameChild DEF Finals
  <1>6. CASE EmitFinal(q)
    <2>1. PICK s \in {"succeeded", "failed"} :
             /\ db' = Finished(q, exec[q].epoch, s)
             /\ exec[q].held \in Finals /\ exec[q].written = lines[q]
             /\ exec' = Released(q) /\ child' = child /\ lines' = lines
      BY <1>6 DEF EmitFinal, CountSaved, Finals
    <2>2. /\ Live(q, exec[q].epoch) => db'[q].state = s
          /\ ~Live(q, exec[q].epoch) => db'[q] = db[q]
          /\ db'[q].epoch = db[q].epoch /\ db'[q].model = db[q].model
          /\ db'[q].saved = db[q].saved
      BY <1>0, <2>1, FinishedFacts
    <2>3. db'[q].state = "succeeded" => db'[q].saved = lines'[q]
      BY <1>1, <2>1, <2>2
    <2>4. CASE exec[q].eof
      BY <1>0, <2>1, <2>2, <2>3, <2>4, ReleasedFacts, SameChild
    <2>5. CASE ~exec[q].eof
      <3>1. /\ exec'[q].at = exec[q].at /\ exec'[q].child = r
            /\ exec'[q].stopped = exec[q].stopped /\ exec'[q].epoch = exec[q].epoch
            /\ exec'[q].held = "none" /\ exec'[q].eof = FALSE
        BY <1>0, <2>1, <2>5, ReleasedFacts
      <3>2. ~Live(q, exec[q].epoch)'
        BY <2>1, <2>2, <3>1 DEF Live, Active
      <3>3. Begun(q)'
        BY <3>2 DEF Begun
      <3>4. QED
        BY <1>1, <2>1, <2>2, <2>3, <3>1, <3>2, <3>3, SameChild
    <2>6. QED
      BY <2>4, <2>5
  <1>7. CASE EmitRaises(q)
    <2>1. exec' = Returned(q) /\ child' = Closed(r) /\ UNCHANGED storeVars
      BY <1>7 DEF EmitRaises
    <2>2. ~Runs(q)'
      BY <1>0, <2>1 DEF Returned, Runs, NoExec
    <2>3. ~child'[r].alive
      BY <1>0, <2>1, ClosedFacts
    <2>4. QED
      BY <1>1, <2>1, <2>2, <2>3 DEF Left, ReaderInv, storeVars
  <1>8. QED
    BY <1>2, <1>3, <1>4, <1>5, <1>6, <1>7

LEMMA PipeReader ==
    ASSUME JobsInv, PipeInv, [Next]_vars, NEW q \in Ids, ReaderStep(q)
    PROVE  PipeInv'
  <1> DEFINE r == exec[q].child
  <1>0. /\ TypeInv /\ child \in [Ids -> ChildType] /\ exec \in [Ids -> ExecType]
        /\ \A p \in Ids : exec[p].at = "live" => exec[p].child \in Ids
    BY DEF JobsInv, LockInv, TypeInv, TypeOK, Pointers
  <1>1. /\ exec[q].at = "live" /\ r \in Ids
        /\ \A p \in Ids \ {q} : exec'[p] = exec[p]
        /\ \/ Over(exec'[q])
           \/ /\ exec'[q].at = "live" /\ exec'[q].stopped = exec[q].stopped
        /\ \A p \in Ids : /\ child'[p].alive => child[p].alive
                          /\ p # r => child'[p] = child[p]
    BY <1>0, ReaderFacts DEF JobsInv
  <1>2. \A p \in Ids \ {q} : db'[p] = db[p] /\ lines'[p] = lines[p]
    BY DEF ReaderStep, Receive, PipeCloses, EmitUpdate, EmitProgress, EmitFlush, EmitFinal,
       EmitRaises, storeVars, Updated, Finished, JobsInv, LockInv, TypeInv, TypeOK
  <1>3. \A p \in Ids \ {q} : Kept(p)
    BY <1>2 DEF Kept
  <1>4. ASSUME NEW p \in Ids \ {q} PROVE ReaderInv(p)'
    <2>1. CASE ~Runs(p)
      BY <1>1, <2>1 DEF ReaderInv, Runs
    <2>2. CASE Runs(p)
      <3>1. exec[p].child \in Ids /\ exec[p].child # r /\ exec'[p] = exec[p]
        BY <1>0, <1>1, <2>2 DEF Runs, JobsInv, ThreadInv, Apart
      <3>2. child'[exec[p].child] = child[exec[p].child]
        BY <1>1, <3>1
      <3>3. QED
        BY <1>3, <2>2, <3>1, <3>2, ReaderFrame DEF JobsInv, PipeInv
    <2>3. QED
      BY <2>1, <2>2
  <1>5. Left(q)
    <2>1. CASE Runs(q)
      BY <2>1, ReceiveLeft, EmitLeft DEF ReaderStep
    <2>2. CASE ~Runs(q)
      <3>1. exec[q].stopped /\ ~child[r].alive /\ exec[q].held = "none"
        BY <1>1, <2>2 DEF Runs, JobsInv, ThreadInv, Drains
      <3>2. ~Runs(q)' /\ ~child'[r].alive
        BY <1>1, <3>1 DEF Over, Runs
      <3>3. db' = db /\ lines' = lines
        BY <3>1 DEF ReaderStep, Receive, PipeCloses, EmitUpdate, EmitProgress, EmitFlush,
           EmitFinal, EmitRaises, storeVars
      <3>4. QED
        BY <3>2, <3>3 DEF Left, ReaderInv, PipeInv, SucceededCountsAnswers
    <2>3. QED
      BY <2>1, <2>2
  <1>6. SucceededCountsAnswers'
    BY <1>3, <1>5, CountFrame DEF JobsInv, PipeInv, SucceededCountsAnswers, Left
  <1>7. Free'
    <2>1. ASSUME NEW s \in Ids \ {r}, child'[s].alive
          PROVE  \/ child'[s].pipe = <<>> /\ child'[s].at = "idle"
                 \/ \E p \in Ids : Runs(p)' /\ exec'[p].child = s
      <3>1. child'[s] = child[s]
        BY <1>1
      <3>2. \A p \in Ids : Runs(p) /\ exec[p].child = s => Runs(p)' /\ exec'[p].child = s
        BY <1>1 DEF Runs
      <3>3. QED
        BY <2>1, <3>1, <3>2 DEF PipeInv, Free
    <2>2. child'[r].alive => \/ child'[r].pipe = <<>> /\ child'[r].at = "idle"
                             \/ Runs(q)' /\ exec'[q].child = r
      BY <1>5 DEF Left
    <2>3. QED
      BY <2>1, <2>2 DEF Free
  <1>8. QED
    BY <1>4, <1>5, <1>6, <1>7 DEF PipeInv, Left

LEMMA PipeStep ==
    ASSUME JobsInv, PipeInv, [Next]_vars
    PROVE  PipeInv'
  <1>1. CASE \E q \in Ids : ReaderStep(q)
    BY <1>1, PipeReader
  <1>2. CASE \A q \in Ids : ~ReaderStep(q)
    <2>1. CASE ClientStep \/ DeadlinePasses \/ RequestStop \/ Restart \/ UNCHANGED vars
      <3>1. UNCHANGED <<exec, child>>
        BY <2>1 DEF ClientStep, SubmitNew, SubmitAgain, SyncOk, SyncFails, Cancel,
           DeadlinePasses, RequestStop, Restart, vars
      <3>2. QED
        BY <1>2, <3>1, PipeFrame
    <2>2. CASE StopCompletes \/ Crash
      <3>1. \A q \in Ids : exec'[q] = NoExec /\ child'[q] = NoChild
        BY <2>2 DEF StopCompletes, Crash, GoDown
      <3>2. db' = db /\ lines' = lines
        BY <2>2 DEF StopCompletes, Crash, GoDown, storeVars
      <3>3. QED
        BY <3>1, <3>2 DEF PipeInv, Free, ReaderInv, Runs, SucceededCountsAnswers, NoExec, NoChild
    <2>3. QED
      BY <1>2, <2>1, <2>2, PipeScheduler, PipeChild DEF Next
  <1>3. QED
    BY <1>1, <1>2

\* The threads, the children and their pipes are as described in every
\* behaviour of the server.
THEOREM PipesCorrect == Spec => [](ThreadInv /\ StartInv /\ PipeInv)
  <1>1. Init => ThreadInv /\ StartInv /\ PipeInv
    BY ThreadInit, StartInit, PipeInit
  <1>2. LockInv /\ (ThreadInv /\ StartInv /\ PipeInv) /\ [Next]_vars =>
          (ThreadInv /\ StartInv /\ PipeInv)'
    BY ThreadStep, StartStep, PipeStep DEF JobsInv
  <1>3. QED
    BY <1>1, <1>2, LockCorrect, PTL DEF Spec

\* ChildProcessExecutor.start reuses a child: the reader of the new job
\* meets no event of the one before, on a child that has the query's model.
THEOREM OwnEventsSafe == Spec => []OwnEvents
  <1>1. PipeInv => OwnEvents
    BY DEF PipeInv, ReaderInv, JobEvents, OwnEvents, Runs
  <1>2. QED
    BY <1>1, PipesCorrect, PTL

\* The emit closure: a succeeded record counts every line of its answers.
THEOREM CountsSafe == Spec => []SucceededCountsAnswers
  <1>1. PipeInv => SucceededCountsAnswers
    BY DEF PipeInv
  <1>2. QED
    BY <1>1, PipesCorrect, PTL

-----------------------------------------------------------------------------
(* The query server implements QueryRecord: every step of its threads and  *)
(* processes is one step of a record's life, or none.                      *)

\* The record a client reads.
View == [q \in Ids |-> [state |-> db[q].state, rev |-> db[q].rev, cancel |-> db[q].cancel]]

Refines == Promise!Next \/ UNCHANGED <<View, acked>>

\* One write of one record.
Moves(q, s, c) ==
    /\ db'[q].state = s /\ db'[q].rev = db[q].rev + 1 /\ db'[q].cancel = c
    /\ \A p \in Ids \ {q} : db'[p] = db[p]

-----------------------------------------------------------------------------
(* Each kind of write is a step of the abstract record. *)

LEMMA SubmitMaps ==
    ASSUME NEW q \in Ids, db[q] = Absent, Moves(q, "queued", FALSE), UNCHANGED acked
    PROVE  Promise!Submit(q)
  <1>1. db[q].state = "absent" /\ db[q].rev = 0 /\ db[q].cancel = FALSE
    BY DEF Absent
  <1>2. db'[q].state = "queued" /\ db'[q].rev = 1 /\ db'[q].cancel = FALSE
    BY <1>1 DEF Moves
  <1>3. View' = [View EXCEPT ![q] = [Promise!NoRecord EXCEPT !.state = "queued", !.rev = 1]]
    BY <1>2 DEF View, Moves, Promise!NoRecord
  <1>4. View[q] = Promise!NoRecord
    BY <1>1 DEF View, Promise!NoRecord
  <1>5. QED
    BY <1>3, <1>4 DEF Promise!Submit, View

LEMMA AcknowledgeMaps ==
    ASSUME NEW q \in Ids, db[q].state # "absent", acked' = acked \cup {q}, UNCHANGED db
    PROVE  Promise!Acknowledge(q)
  BY DEF Promise!Acknowledge, Promise!NoRecord

LEMMA ForgetMaps ==
    ASSUME NEW q \in Ids, db[q].state = "queued", q \notin acked, UNCHANGED acked,
           db'[q] = Absent, \A p \in Ids \ {q} : db'[p] = db[p]
    PROVE  Promise!Forget(q)
  <1>1. db'[q].state = "absent" /\ db'[q].rev = 0 /\ db'[q].cancel = FALSE
    BY DEF Absent
  <1>2. View' = [View EXCEPT ![q] = Promise!NoRecord]
    BY <1>1 DEF View, Promise!NoRecord
  <1>3. QED
    BY <1>2 DEF Promise!Forget, View

LEMMA StartMaps ==
    ASSUME NEW q \in Ids, db[q].state = "queued", \A p \in Ids : db[p].state \notin Active,
           Moves(q, "planning", db[q].cancel), UNCHANGED acked
    PROVE  Promise!Start(q)
  BY DEF Moves, Promise!Start, Promise!To, Promise!ActiveStates, Active

LEMMA ReportMaps ==
    ASSUME NEW q \in Ids, db[q].state \in Active, NEW s \in {db[q].state, "running"},
           Moves(q, s, db[q].cancel), UNCHANGED acked
    PROVE  Promise!Report(q)
  BY DEF Moves, Promise!Report, Promise!To, Promise!ActiveStates, Active

LEMMA CloseMaps ==
    ASSUME NEW q \in Ids, db[q].state \in Active, NEW s,
           s = "cancelled" => db[q].cancel, s = "succeeded" => db[q].state = "running",
           Moves(q, s, db[q].cancel), UNCHANGED acked
    PROVE  Promise!Close(q, s)
  BY DEF Moves, Promise!Close, Promise!To, Promise!ActiveStates, Active

LEMMA CancelQueuedMaps ==
    ASSUME NEW q \in Ids, db[q].state = "queued", Moves(q, "cancelled", db[q].cancel),
           UNCHANGED acked
    PROVE  Promise!CancelQueued(q)
  BY DEF Moves, Promise!CancelQueued, Promise!To

LEMMA AskCancelMaps ==
    ASSUME NEW q \in Ids, db[q].state \in Active, ~db[q].cancel,
           Moves(q, db[q].state, TRUE), UNCHANGED acked
    PROVE  Promise!AskCancel(q)
  BY DEF Moves, Promise!AskCancel, Promise!ActiveStates, Active

-----------------------------------------------------------------------------
(* The statements of the store. *)

LEMMA RefineUpdated ==
    ASSUME db \in [Ids -> Records], NEW q \in Ids, NEW e, NEW n,
           NEW s \in {db[q].state, "running"}, db' = Updated(q, e, s, n), UNCHANGED acked
    PROVE  Refines
  <1>1. CASE Live(q, e)
    <2> DEFINE x == [Revised(q, s) EXCEPT !.saved = n]
    <2>1. db' = [db EXCEPT ![q] = x]
      BY <1>1 DEF Updated
    <2>2. db[q] \in Records
      OBVIOUS
    <2>3. x.state = s /\ x.rev = db[q].rev + 1 /\ x.cancel = db[q].cancel
      BY <2>2 DEF Revised, Records
    <2> HIDE DEF x
    <2>4. Moves(q, s, db[q].cancel)
      BY <2>1, <2>3 DEF Moves
    <2>5. QED
      BY <1>1, <2>4, ReportMaps DEF Live, Refines, Promise!Next
  <1>2. CASE ~Live(q, e)
    BY <1>2 DEF Updated, Refines, View
  <1>3. QED
    BY <1>1, <1>2

LEMMA RefineFinished ==
    ASSUME db \in [Ids -> Records], NEW q \in Ids, NEW e, NEW s \in Terminal,
           Live(q, e) /\ s = "cancelled" => db[q].cancel,
           Live(q, e) /\ s = "succeeded" => db[q].state = "running",
           db' = Finished(q, e, s), UNCHANGED acked
    PROVE  Refines
  <1>1. CASE Live(q, e)
    <2> DEFINE x == Revised(q, s)
    <2>1. db' = [db EXCEPT ![q] = x]
      BY <1>1 DEF Finished
    <2>2. db[q] \in Records
      OBVIOUS
    <2>3. x.state = s /\ x.rev = db[q].rev + 1 /\ x.cancel = db[q].cancel
      BY <2>2 DEF Revised, Records
    <2> HIDE DEF x
    <2>4. Moves(q, s, db[q].cancel)
      BY <2>1, <2>3 DEF Moves
    <2>5. Promise!Close(q, s)
      BY <1>1, <2>4, CloseMaps DEF Live
    <2>6. QED
      BY <2>5 DEF Refines, Promise!Next, Promise!TerminalStates, Terminal
  <1>2. CASE ~Live(q, e)
    BY <1>2 DEF Finished, Refines, View
  <1>3. QED
    BY <1>1, <1>2

LEMMA RefineCancel ==
    ASSUME db \in [Ids -> Records], NEW q \in Ids, db' = CancelRequested(q), UNCHANGED acked
    PROVE  Refines
  <1>0. db[q] \in Records
    OBVIOUS
  <1>1. CASE db[q].state = "queued"
    <2> DEFINE x == Revised(q, "cancelled")
    <2>1. db' = [db EXCEPT ![q] = x]
      BY <1>1 DEF CancelRequested
    <2>2. x.state = "cancelled" /\ x.rev = db[q].rev + 1 /\ x.cancel = db[q].cancel
      BY <1>0 DEF Revised, Records
    <2> HIDE DEF x
    <2>3. Moves(q, "cancelled", db[q].cancel)
      BY <2>1, <2>2 DEF Moves
    <2>4. QED
      BY <1>1, <2>3, CancelQueuedMaps DEF Refines, Promise!Next
  <1>2. CASE db[q].state \in Active /\ ~db[q].cancel
    <2> DEFINE x == [Revised(q, db[q].state) EXCEPT !.cancel = TRUE]
    <2>1. db' = [db EXCEPT ![q] = x]
      BY <1>2 DEF CancelRequested, Active
    <2>2. x.state = db[q].state /\ x.rev = db[q].rev + 1 /\ x.cancel = TRUE
      BY <1>0 DEF Revised, Records
    <2> HIDE DEF x
    <2>3. Moves(q, db[q].state, TRUE)
      BY <2>1, <2>2 DEF Moves
    <2>4. QED
      BY <1>2, <2>3, AskCancelMaps DEF Refines, Promise!Next
  <1>3. CASE db[q].state # "queued" /\ ~(db[q].state \in Active /\ ~db[q].cancel)
    BY <1>3 DEF CancelRequested, Refines, View
  <1>4. QED
    BY <1>1, <1>2, <1>3

-----------------------------------------------------------------------------
(* One record is active, also while the server is down, and the scheduler  *)
(* acts on a cancel that was asked.                                        *)

OneActive ==
    \A p, q \in Ids : db[p].state \in Active /\ db[q].state \in Active => p = q
Asked == sched.cancel => sched.query \in Ids /\ db[sched.query].cancel
PromiseInv == OneActive /\ Asked

LEMMA PromiseInit == Init => PromiseInv
  BY DEF Init, PromiseInv, OneActive, Asked, IdleSched, Absent, Active

LEMMA OneActiveStep ==
    ASSUME LockInv, LockInv', OneActive, [Next]_vars
    PROVE  OneActive'
  <1>1. CASE server' # "down"
    BY <1>1 DEF LockInv, ActiveIsScheduled, OneActive
  <1>2. CASE server' = "down"
    <2>1. UNCHANGED db \/ server # "down"
      <3>1. CASE ClientStep
        BY <3>1, <1>2 DEF ClientStep, SubmitNew, SubmitAgain, SyncOk, SyncFails, Cancel,
           storeVars, procVars, LockInv, Reserved
      <3>2. CASE SchedulerStep
        BY <3>2 DEF SchedulerStep, PickQuery, BeginQuery, StartJob, StartFails,
           WaitReturns, ReadRecord, CheckDone, CloseRecord, CheckContinues, StopExecution,
           EndQuery
      <3>3. ASSUME NEW q \in Ids, ReaderStep(q) PROVE UNCHANGED db \/ server # "down"
        BY <3>3 DEF ReaderStep, Receive, PipeCloses, Reading, EmitUpdate, EmitProgress,
           EmitFlush, EmitFinal, EmitRaises
      <3>4. ASSUME NEW r \in Ids, ChildStep(r) PROVE UNCHANGED db
        BY <3>4 DEF ChildStep, storeVars
      <3>5. CASE Restart
        BY <3>5, <1>2 DEF Restart
      <3>6. CASE DeadlinePasses \/ RequestStop \/ StopCompletes \/ Crash \/ UNCHANGED vars
        BY <3>6 DEF DeadlinePasses, RequestStop, StopCompletes, Crash, GoDown, storeVars, vars
      <3>7. QED
        BY <3>1, <3>2, <3>3, <3>4, <3>5, <3>6 DEF Next
    <2>2. CASE UNCHANGED db
      BY <2>2 DEF OneActive
    <2>3. CASE server # "down" /\ db' # db
      <3>1. server = "stopping" \/ server = "up"
        BY <2>3 DEF LockInv, TypeInv, TypeOK
      <3>2. FALSE
        BY <1>2, <2>3, <3>1 DEF Next, ClientStep, SubmitNew, SubmitAgain, SyncOk, SyncFails,
           Cancel, SchedulerStep, PickQuery, BeginQuery, StartJob, StartFails, WaitReturns,
           ReadRecord, CheckDone, CloseRecord, CheckContinues, StopExecution, EndQuery,
           ReaderStep, Receive, PipeCloses, EmitUpdate, EmitProgress, EmitFlush, EmitFinal,
           EmitRaises, ChildStep, DeadlinePasses, RequestStop, StopCompletes, Crash, GoDown,
           Restart, storeVars, procVars, vars
      <3>3. QED
        BY <3>2
    <2>4. QED
      BY <2>1, <2>2, <2>3
  <1>3. QED
    BY <1>1, <1>2

\* A record once asked to cancel stays so while the scheduler has it.
LEMMA CancelStays ==
    ASSUME LockInv, [Next]_vars, NEW q \in Ids, sched.query = q, db[q].cancel
    PROVE  db'[q].cancel
  <1>0. /\ db \in [Ids -> Records] /\ db[q] \in Records /\ db[q].state # "absent" /\ sub # q
        /\ sched.pc # "pick"
        /\ sub \in Ids \cup {None} /\ None \notin Ids
    BY ConstantsAssumption DEF LockInv, TypeInv, TypeOK, Reserved, InFlightNotSelected
  <1>1. ASSUME NEW p \in Ids, NEW e, NEW n, NEW s,
               \/ db' = Updated(p, e, s, n) \/ db' = Finished(p, e, s)
               \/ db' = CancelRequested(p) \/ db' = Recovered \/ db' = db
        PROVE  db'[q].cancel
    <2>1. CASE db' = Updated(p, e, s, n)
      BY <1>0, <2>1 DEF Updated, Revised, Records
    <2>2. CASE db' = Finished(p, e, s)
      BY <1>0, <2>2 DEF Finished, Revised, Records
    <2>3. CASE db' = CancelRequested(p)
      BY <1>0, <2>3 DEF CancelRequested, Revised, Records
    <2>4. CASE db' = Recovered
      BY <1>0, <2>4 DEF Recovered, Revised, Records
    <2>5. QED
      BY <1>1, <2>1, <2>2, <2>3, <2>4
  <1>2. CASE ClientStep
    <2>1. ASSUME NEW p \in Ids, NEW m \in Models, SubmitNew(p, m) PROVE db'[q].cancel
      BY <1>0, <2>1 DEF SubmitNew
    <2>2. CASE SyncFails
      <3>1. sub \in Ids
        BY <1>0, <2>2 DEF SyncFails
      <3>2. CASE db[sub].state = "queued"
        BY <1>0, <2>2, <3>1, <3>2 DEF SyncFails
      <3>3. CASE db[sub].state # "queued"
        BY <1>1, <2>2, <3>1, <3>3 DEF SyncFails
      <3>4. QED
        BY <3>2, <3>3
    <2>3. QED
      BY <1>1, <1>2, <2>1, <2>2 DEF ClientStep, SubmitAgain, SyncOk, Cancel, storeVars
  <1>3. CASE SchedulerStep
    <2>1. CASE BeginQuery
      <3>1. CASE CanBegin(q)
        <4> DEFINE r == [Revised(q, "planning") EXCEPT !.epoch = @ + 1]
        <4>1. db' = [db EXCEPT ![q] = r]
          BY <2>1, <3>1 DEF BeginQuery
        <4>2. r.cancel = db[q].cancel
          BY <1>0 DEF Revised, Records
        <4> HIDE DEF r
        <4>3. QED
          BY <1>0, <4>1, <4>2
      <3>2. QED
        BY <2>1, <3>1 DEF BeginQuery
    <2>2. QED
      BY <1>0, <1>1, <1>3, <2>1 DEF SchedulerStep, PickQuery, StartJob, StartFails,
         WaitReturns, ReadRecord, CheckDone, CloseRecord, CheckContinues, StopExecution,
         EndQuery, storeVars
  <1>4. ASSUME NEW p \in Ids, ReaderStep(p) PROVE db'[q].cancel
    BY <1>1, <1>4 DEF ReaderStep, Receive, PipeCloses, EmitUpdate, EmitProgress, EmitFlush,
       EmitFinal, EmitRaises, storeVars
  <1>5. ASSUME NEW r \in Ids, ChildStep(r) PROVE db'[q].cancel
    BY <1>5 DEF ChildStep, storeVars
  <1>6. CASE Restart
    BY <1>1, <1>6 DEF Restart
  <1>7. CASE DeadlinePasses \/ RequestStop \/ StopCompletes \/ Crash \/ UNCHANGED vars
    BY <1>7 DEF DeadlinePasses, RequestStop, StopCompletes, Crash, GoDown, storeVars, vars
  <1>8. QED
    BY <1>2, <1>3, <1>4, <1>5, <1>6, <1>7 DEF Next

LEMMA AskedStep ==
    ASSUME LockInv, Asked, [Next]_vars
    PROVE  Asked'
  <1>0. sched \in SchedType /\ (sched.pc # "pick" => sched.query \in Ids)
    BY DEF LockInv, TypeInv, TypeOK, Pointers
  <1>1. CASE ReadRecord
    <2>1. db' = db /\ sched'.query = sched.query /\ sched'.cancel = db[sched.query].cancel
          /\ sched.query \in Ids
      BY <1>0, <1>1 DEF ReadRecord, SchedType, storeVars
    <2>2. QED
      BY <2>1 DEF Asked
  <1>2. CASE ~ReadRecord
    <2>1. sched'.cancel => sched.cancel /\ sched'.query = sched.query
      <3>1. CASE SchedulerStep
        <4>1. CASE CheckDone
          <5>1. CASE GraceOver
            BY <4>1, <5>1 DEF CheckDone, Leaves, IdleSched
          <5>2. CASE ~GraceOver
            <6>1. sched' = [sched EXCEPT !.pc = "wait", !.done = FALSE, !.cancel = FALSE,
                              !.grace = TRUE, !.late = sched.grace /\ sched.late]
              BY <4>1, <5>2 DEF CheckDone
            <6>2. sched'.cancel = FALSE
              BY <1>0, <6>1 DEF SchedType
            <6>3. QED
              BY <6>2
          <5>3. QED
            BY <5>1, <5>2
        <4>2. CASE BeginQuery
          <5>1. \/ sched' = IdleSched
                \/ sched' = [sched EXCEPT !.pc = "start", !.epoch = db[sched.query].epoch + 1]
            BY <4>2 DEF BeginQuery
          <5>2. IdleSched.cancel = FALSE
            BY DEF IdleSched
          <5>3. CASE sched' = [sched EXCEPT !.pc = "start", !.epoch = db[sched.query].epoch + 1]
            BY <1>0, <5>3 DEF SchedType
          <5>4. QED
            BY <5>1, <5>2, <5>3
        <4>3. CASE StartJob \/ CheckContinues
          <5>1. sched' = [sched EXCEPT !.pc = "wait"]
            BY <4>3 DEF StartJob, CheckContinues
          <5>2. QED
            BY <1>0, <5>1 DEF SchedType
        <4>4. CASE StartFails \/ WaitReturns \/ CloseRecord \/ StopExecution \/ EndQuery
          <5>1. sched' = IdleSched \/ sched' = Leaves("close") \/ sched' = Leaves("stop")
            BY <4>4 DEF StartFails, WaitReturns, CloseRecord, StopExecution, EndQuery
          <5>2. IdleSched.cancel = FALSE
            BY DEF IdleSched
          <5>3. Leaves("close").cancel = FALSE /\ Leaves("stop").cancel = FALSE
            BY DEF Leaves, IdleSched
          <5>4. QED
            BY <5>1, <5>2, <5>3
        <4>5. ASSUME NEW q \in Ids, PickQuery(q) PROVE sched'.cancel = FALSE
          BY <4>5 DEF PickQuery, IdleSched
        <4>6. QED
          BY <1>2, <3>1, <4>1, <4>2, <4>3, <4>4, <4>5 DEF SchedulerStep
      <3>2. CASE ClientStep
        BY <3>2 DEF ClientStep, SubmitNew, SubmitAgain, SyncOk, SyncFails, Cancel
      <3>3. ASSUME NEW q \in Ids, ReaderStep(q) \/ ChildStep(q)
            PROVE  sched'.cancel => sched.cancel /\ sched'.query = sched.query
        BY <3>3 DEF ReaderStep, Receive, PipeCloses, EmitUpdate, EmitProgress, EmitFlush,
           EmitFinal, EmitRaises, ChildStep
      <3>4. CASE DeadlinePasses
        BY <1>0, <3>4 DEF DeadlinePasses, SchedType
      <3>5. CASE RequestStop \/ StopCompletes \/ Crash \/ Restart \/ UNCHANGED vars
        BY <3>5 DEF RequestStop, StopCompletes, Crash, GoDown, Restart, IdleSched, vars
      <3>6. QED
        BY <3>1, <3>2, <3>3, <3>4, <3>5 DEF Next
    <2>2. QED
      BY <2>1, CancelStays DEF Asked
  <1>3. QED
    BY <1>1, <1>2

-----------------------------------------------------------------------------
(* Every step of the server. *)

LEMMA RefineClient ==
    ASSUME LockInv, StartInv, ClientStep
    PROVE  Refines
  <1>0. db \in [Ids -> Records] /\ sub \in Ids \cup {None} /\ acked \in SUBSET Ids
    BY DEF LockInv, TypeInv, TypeOK
  <1>1. ASSUME NEW q \in Ids, NEW m \in Models, SubmitNew(q, m) PROVE Refines
    <2>1. db[q] = Absent /\ db' = [db EXCEPT ![q] = Queued(m)] /\ UNCHANGED acked
      BY <1>1 DEF SubmitNew, StartInv, Untold
    <2>2. Moves(q, "queued", FALSE)
      BY <1>0, <2>1 DEF Moves, Queued, Absent
    <2>3. QED
      BY <2>1, <2>2, SubmitMaps DEF Refines, Promise!Next
  <1>2. ASSUME NEW q \in Ids, NEW m \in Models, SubmitAgain(q, m) PROVE Refines
    BY <1>2, AcknowledgeMaps DEF SubmitAgain, storeVars, Refines, Promise!Next
  <1>3. CASE SyncOk
    <2>1. sub \in Ids /\ db[sub].state # "absent" /\ acked' = acked \cup {sub} /\ UNCHANGED db
      BY <1>0, <1>3 DEF SyncOk, storeVars, LockInv, InFlightNotSelected
    <2>2. QED
      BY <2>1, AcknowledgeMaps DEF Refines, Promise!Next
  <1>4. CASE SyncFails
    <2>1. sub \in Ids /\ sub \notin acked /\ UNCHANGED acked
      BY <1>0, <1>4 DEF SyncFails, LockInv, Reserved
    <2>2. CASE db[sub].state = "queued"
      <3>1. db' = [db EXCEPT ![sub] = Absent]
        BY <1>4, <2>2 DEF SyncFails
      <3>2. db'[sub] = Absent /\ \A p \in Ids \ {sub} : db'[p] = db[p]
        BY <1>0, <2>1, <3>1
      <3>3. QED
        BY <2>1, <2>2, <3>2, ForgetMaps DEF Refines, Promise!Next
    <2>3. CASE db[sub].state # "queued"
      BY <1>0, <1>4, <2>1, <2>3, RefineCancel DEF SyncFails
    <2>4. QED
      BY <2>2, <2>3
  <1>5. ASSUME NEW q \in Ids, Cancel(q) PROVE Refines
    BY <1>0, <1>5, RefineCancel DEF Cancel
  <1>6. QED
    BY <1>1, <1>2, <1>3, <1>4, <1>5 DEF ClientStep

LEMMA RefineScheduler ==
    ASSUME LockInv, Asked, SchedulerStep
    PROVE  Refines
  <1>0. db \in [Ids -> Records] /\ (sched.pc # "pick" => sched.query \in Ids)
    BY DEF LockInv, TypeInv, TypeOK, Pointers
  <1>1. CASE BeginQuery
    <2>1. PICK q \in Ids : q = sched.query
      BY <1>0, <1>1 DEF BeginQuery
    <2> DEFINE r == [Revised(q, "planning") EXCEPT !.epoch = @ + 1]
    <2>2. CASE CanBegin(q)
      <3>1. db' = [db EXCEPT ![q] = r] /\ db[q].state = "queued"
        BY <1>1, <2>1, <2>2 DEF BeginQuery, CanBegin
      <3>2. r.state = "planning" /\ r.rev = db[q].rev + 1 /\ r.cancel = db[q].cancel
        BY <1>0 DEF Revised, Records
      <3> HIDE DEF r
      <3>3. Moves(q, "planning", db[q].cancel)
        BY <1>0, <3>1, <3>2 DEF Moves
      <3>4. UNCHANGED acked /\ \A p \in Ids : db[p].state \notin Active
        BY <1>1 DEF BeginQuery, LockInv, ActiveIsScheduled
      <3>5. Promise!Start(q)
        BY <3>1, <3>3, <3>4, StartMaps
      <3>6. QED
        BY <3>5 DEF Refines, Promise!Next
    <2>3. CASE ~CanBegin(q)
      BY <1>1, <2>1, <2>3 DEF BeginQuery, Refines, View
    <2>4. QED
      BY <2>2, <2>3
  <1>2. CASE StartFails \/ EndQuery
    <2>1. sched.query \in Ids /\ db' = Finished(sched.query, sched.epoch, "failed")
          /\ UNCHANGED acked
      BY <1>0, <1>2 DEF StartFails, EndQuery
    <2>2. QED
      BY <1>0, <2>1, RefineFinished DEF Terminal
  <1>3. CASE CloseRecord
    <2>1. /\ sched.query \in Ids /\ db' = Finished(sched.query, sched.epoch, Verdict)
          /\ UNCHANGED acked /\ Verdict \in {"interrupted", "cancelled", "failed"}
          /\ Verdict = "cancelled" => sched.cancel
      BY <1>0, <1>3 DEF CloseRecord, Verdict
    <2>2. QED
      BY <1>0, <2>1, RefineFinished DEF Terminal, Asked
  <1>4. CASE UNCHANGED <<db, acked>>
    BY <1>4 DEF Refines, View
  <1>5. QED
    BY <1>1, <1>2, <1>3, <1>4 DEF SchedulerStep, PickQuery, StartJob, WaitReturns,
       ReadRecord, CheckDone, CheckContinues, StopExecution, storeVars

LEMMA RefineReader ==
    ASSUME JobsInv, PipeInv, NEW q \in Ids, ReaderStep(q)
    PROVE  Refines
  <1>0. /\ db \in [Ids -> Records] /\ UNCHANGED acked
        /\ exec[q].held # "none" => exec[q].at = "live"
    BY DEF JobsInv, LockInv, TypeInv, TypeOK, Pointers, ReaderStep, Receive, PipeCloses,
       EmitUpdate, EmitProgress, EmitFlush, EmitFinal, EmitRaises
  <1>1. CASE UNCHANGED db
    BY <1>0, <1>1 DEF Refines, View
  <1>2. CASE EmitFinal(q)
    <2>1. PICK s \in {"succeeded", "failed"} :
             /\ exec[q].held \in {"finished", "failed"}
             /\ s = "succeeded" => exec[q].held = "finished"
             /\ db' = Finished(q, exec[q].epoch, s)
      BY <1>2 DEF EmitFinal
    <2>2. Runs(q)
      BY <1>0, <2>1 DEF Runs, JobsInv, ThreadInv, Drains
    <2>3. exec[q].held = "finished" => Begun(q)
      BY <2>2 DEF PipeInv, ReaderInv
    <2>4. Live(q, exec[q].epoch) /\ s = "succeeded" => db[q].state = "running"
      BY <2>1, <2>3 DEF Begun
    <2>5. QED
      BY <1>0, <2>1, <2>4, RefineFinished DEF Terminal
  <1>3. CASE EmitUpdate(q) \/ EmitFlush(q)
    BY <1>0, <1>3, RefineUpdated DEF EmitUpdate, EmitFlush
  <1>4. CASE EmitProgress(q)
    BY <1>0, <1>1, <1>4, RefineUpdated DEF EmitProgress
  <1>5. QED
    BY <1>1, <1>2, <1>3, <1>4 DEF ReaderStep, Receive, PipeCloses, EmitRaises, storeVars

LEMMA RefineRestart ==
    ASSUME LockInv, OneActive, Restart
    PROVE  Refines
  <1>0. db \in [Ids -> Records] /\ db' = Recovered /\ UNCHANGED acked
    BY DEF LockInv, TypeInv, TypeOK, Restart
  <1>1. CASE \E q \in Ids : db[q].state \in Active
    <2>1. PICK q \in Ids : db[q].state \in Active
      BY <1>1
    <2>2. \A p \in Ids \ {q} : db[p].state \notin Active
      BY <2>1 DEF OneActive
    <2> DEFINE x == Revised(q, "interrupted")
    <2>3. db[q] \in Records
      BY <1>0
    <2>4. x.state = "interrupted" /\ x.rev = db[q].rev + 1 /\ x.cancel = db[q].cancel
      BY <2>3 DEF Revised, Records
    <2>5. db'[q] = x /\ \A p \in Ids \ {q} : db'[p] = db[p]
      BY <1>0, <2>1, <2>2 DEF Recovered
    <2> HIDE DEF x
    <2>6. Moves(q, "interrupted", db[q].cancel)
      BY <2>4, <2>5 DEF Moves
    <2>7. Promise!Close(q, "interrupted")
      BY <1>0, <2>1, <2>6, CloseMaps
    <2>8. QED
      BY <2>7 DEF Refines, Promise!Next, Promise!TerminalStates
  <1>2. CASE \A q \in Ids : db[q].state \notin Active
    BY <1>0, <1>2 DEF Recovered, Refines, View
  <1>3. QED
    BY <1>1, <1>2

LEMMA RefineStep ==
    ASSUME JobsInv, PipeInv, PromiseInv, [Next]_vars
    PROVE  Refines
  <1>1. CASE UNCHANGED <<db, acked>>
    BY <1>1 DEF Refines, View
  <1>2. CASE DeadlinePasses \/ RequestStop \/ StopCompletes \/ Crash \/ UNCHANGED vars
    BY <1>1, <1>2 DEF DeadlinePasses, RequestStop, StopCompletes, Crash, GoDown, storeVars, vars
  <1>3. ASSUME NEW r \in Ids, ChildStep(r) PROVE Refines
    BY <1>1, <1>3 DEF ChildStep, storeVars
  <1>4. QED
    BY <1>2, <1>3, RefineClient, RefineScheduler, RefineReader, RefineRestart
    DEF Next, JobsInv, PromiseInv

\* A client that only reads its record sees QueryRecord: one query executes
\* at a time, a query succeeds only from running and is cancelled only when
\* asked, closes once, and an id it was given is never forgotten. This holds
\* whatever the threads, the child, crashes and restarts do in between.
THEOREM RecordRefinement == Spec => ImplementsRecord
  <1>1. Init => Promise!Init
    BY DEF Init, Promise!Init, Promise!NoRecord, Absent
  <1>2. LockInv /\ LockInv' /\ PromiseInv /\ [Next]_vars => PromiseInv'
    BY OneActiveStep, AskedStep DEF PromiseInv
  <1>3. LockInv /\ (ThreadInv /\ StartInv /\ PipeInv) /\ PromiseInv /\ [Next]_vars =>
          [Promise!Next]_<<View, acked>>
    BY RefineStep DEF Refines, JobsInv
  <1>4. [Promise!Next]_<<View, acked>> => [Promise!Next]_<<[q \in Ids |->
          [state |-> db[q].state, rev |-> db[q].rev, cancel |-> db[q].cancel]], acked>>
    BY DEF View
  <1>5. QED
    BY <1>1, <1>2, <1>3, <1>4, PromiseInit, LockCorrect, PipesCorrect, PTL
    DEF Spec, ImplementsRecord, Promise!Spec

-----------------------------------------------------------------------------
(* Queries start in the order they were submitted.  A record enters the    *)
(* order once and at its end, and leaves it with its place; so between the *)
(* scheduler's choice and the start of the query nothing older can queue.  *)

BornOnce ==
    /\ \A i, j \in 1..Len(born) : born[i] = born[j] => i = j
    /\ \A i \in 1..Len(born) : db[born[i]].state # "absent"

StillOldest ==
    sched.pc = "begin" /\ db[sched.query].state = "queued" => OldestQueued(sched.query)

OrderInv == BornOnce /\ StillOldest

LEMMA OrderInit == Init => OrderInv
  BY DEF Init, OrderInv, BornOnce, StillOldest, IdleSched

\* A sequence without its n-th element.
LEMMA RemovedAt ==
    ASSUME NEW S, NEW s \in Seq(S), NEW n \in 1..Len(s), NEW r, r = RemoveAt(s, n)
    PROVE  /\ Len(r) = Len(s) - 1
           /\ \A k \in 1..Len(r) : k < n => r[k] = s[k]
           /\ \A k \in 1..Len(r) : k >= n => r[k] = s[k + 1]
  <1> DEFINE a == SubSeq(s, 1, n - 1)
             b == SubSeq(s, n + 1, Len(s))
  <1>1. /\ a \in Seq(S) /\ Len(a) = n - 1 /\ \A k \in 1..(n - 1) : a[k] = s[k]
        /\ Len(s) \in Nat
    OBVIOUS
  <1>2. /\ b \in Seq(S) /\ Len(b) = Len(s) - n
        /\ \A k \in 1..(Len(s) - n) : b[k] = s[n + k]
    OBVIOUS
  <1>3. r = a \o b
    BY DEF RemoveAt
  <1> HIDE DEF a, b
  <1>4. /\ Len(r) = Len(a) + Len(b)
        /\ \A k \in 1..Len(r) : r[k] = IF k <= Len(a) THEN a[k] ELSE b[k - Len(a)]
    <2>1. Len(a \o b) = Len(a) + Len(b)
      BY <1>1, <1>2, ConcatProperties, Zenon
    <2>2. \A k \in 1..(Len(a) + Len(b)) :
              (a \o b)[k] = IF k <= Len(a) THEN a[k] ELSE b[k - Len(a)]
      BY <1>1, <1>2, ConcatProperties, Zenon
    <2> QED BY <1>3, <2>1, <2>2
  <1>5. Len(r) = Len(s) - 1
    BY <1>1, <1>2, <1>4
  <1>6. ASSUME NEW k \in 1..Len(r), k < n PROVE r[k] = s[k]
    <2>1. k <= Len(a) /\ k \in 1..(n - 1)
      BY <1>1, <1>6
    <2> QED BY <1>1, <1>4, <2>1
  <1>7. ASSUME NEW k \in 1..Len(r), k >= n PROVE r[k] = s[k + 1]
    <2>1. ~ (k <= Len(a)) /\ k - Len(a) \in 1..(Len(s) - n) /\ n + (k - Len(a)) = k + 1
      BY <1>1, <1>5, <1>7
    <2> QED BY <1>2, <1>4, <2>1
  <1> QED BY <1>5, <1>6, <1>7

\* Apart from a submission and its discarding nothing joins or leaves the
\* order; no record is queued again, and only the scheduler starts one.
Quietly(p) ==
    /\ born' = born
    /\ db'[p].state = "queued" => db[p].state = "queued"
    /\ db[p].state # "absent" => db'[p].state # "absent"
    /\ db[p].state = "queued" /\ db'[p].state = "planning" =>
          sched.pc = "begin" /\ sched.query = p

LEMMA QuietStep ==
    ASSUME LockInv, [Next]_vars, NEW p \in Ids,
           ~ SyncFails, \A q \in Ids, m \in Models : ~ SubmitNew(q, m)
    PROVE  Quietly(p)
  <1>0. /\ db \in [Ids -> Records] /\ db[p] \in Records
        /\ (sched.pc # "pick" => sched.query \in Ids)
    BY DEF LockInv, TypeInv, TypeOK, Pointers
  <1> USE DEF Terminal, Active
  <1>1. ASSUME NEW q \in Ids, NEW e, NEW n, NEW s, born' = born,
               \/ db' = Updated(q, e, s, n) /\ (s = "running" \/ s = db[q].state)
               \/ db' = Finished(q, e, s) /\ s \in Terminal
               \/ db' = CancelRequested(q) \/ db' = Recovered \/ db' = db
        PROVE  Quietly(p)
    <2>1. CASE db' = Updated(q, e, s, n) /\ (s = "running" \/ s = db[q].state)
      BY <1>0, <1>1, <2>1, UpdatedState DEF Quietly, Live
    <2>2. CASE db' = Finished(q, e, s) /\ s \in Terminal
      BY <1>0, <1>1, <2>2, FinishedState DEF Quietly, Live
    <2>3. CASE db' = CancelRequested(q)
      BY <1>0, <1>1, <2>3, CancelState DEF Quietly
    <2>4. CASE db' = Recovered
      BY <1>0, <1>1, <2>4, RecoveredState DEF Quietly
    <2>5. CASE db' = db
      BY <1>1, <2>5 DEF Quietly
    <2> QED BY <1>1, <2>1, <2>2, <2>3, <2>4, <2>5
  <1>2. ASSUME UNCHANGED <<db, born>> PROVE Quietly(p)
    BY <1>2 DEF Quietly
  <1>3. CASE ClientStep
    <2>1. CASE SyncOk \/ \E q \in Ids, m \in Models : SubmitAgain(q, m)
      BY <1>2, <2>1 DEF SyncOk, SubmitAgain, storeVars
    <2>2. ASSUME NEW q \in Ids, Cancel(q) PROVE Quietly(p)
      BY <1>1, <2>2 DEF Cancel
    <2> QED BY <1>3, <2>1, <2>2 DEF ClientStep
  <1>4. CASE SchedulerStep
    <2>1. CASE BeginQuery
      <3>1. CASE CanBegin(sched.query)
        <4> DEFINE r == [Revised(sched.query, "planning") EXCEPT !.epoch = @ + 1]
        <4>1. /\ db' = [db EXCEPT ![sched.query] = r] /\ sched.pc = "begin"
              /\ sched.query \in Ids /\ born' = born /\ db[sched.query].state = "queued"
          BY <1>0, <2>1, <3>1 DEF BeginQuery, CanBegin
        <4>2. r.state = "planning"
          BY <1>0, <4>1 DEF Revised, Records
        <4> HIDE DEF r
        <4> QED BY <1>0, <4>1, <4>2 DEF Quietly
      <3>2. CASE ~CanBegin(sched.query)
        BY <1>2, <2>1, <3>2 DEF BeginQuery
      <3> QED BY <3>1, <3>2
    <2>2. CASE StartFails \/ EndQuery
      BY <1>0, <1>1, <2>2 DEF StartFails, EndQuery
    <2>3. CASE CloseRecord
      <3>1. Verdict \in Terminal
        BY <2>3 DEF CloseRecord, Verdict
      <3> QED BY <1>0, <1>1, <2>3, <3>1 DEF CloseRecord
    <2> QED BY <1>2, <1>4, <2>1, <2>2, <2>3 DEF SchedulerStep, PickQuery, StartJob, WaitReturns,
              ReadRecord, CheckDone, CheckContinues, StopExecution, storeVars
  <1>5. ASSUME NEW q \in Ids, ReaderStep(q) PROVE Quietly(p)
    <2>1. CASE EmitUpdate(q)
      BY <1>1, <2>1 DEF EmitUpdate
    <2>2. CASE EmitProgress(q)
      BY <1>1, <1>2, <2>2 DEF EmitProgress
    <2>3. CASE EmitFlush(q)
      BY <1>1, <2>3 DEF EmitFlush
    <2>4. CASE EmitFinal(q)
      BY <1>1, <2>4 DEF EmitFinal
    <2> QED BY <1>2, <1>5, <2>1, <2>2, <2>3, <2>4
            DEF ReaderStep, Receive, PipeCloses, EmitRaises, storeVars
  <1>6. CASE DeadlinePasses \/ RequestStop \/ StopCompletes \/ Crash
    BY <1>2, <1>6 DEF DeadlinePasses, RequestStop, StopCompletes, Crash, GoDown, storeVars
  <1>7. CASE Restart
    BY <1>0, <1>1, <1>7 DEF Restart
  <1>8. ASSUME NEW r \in Ids, ChildStep(r) PROVE Quietly(p)
    BY <1>2, <1>8 DEF ChildStep, storeVars
  <1>9. CASE UNCHANGED vars
    BY <1>2, <1>9 DEF vars
  <1> QED BY <1>3, <1>4, <1>5, <1>6, <1>7, <1>8, <1>9 DEF Next

\* Who is picked stays picked until begin() reads it.
LEMMA PickedStep ==
    ASSUME LockInv, [Next]_vars, sched'.pc = "begin"
    PROVE  \/ \E q \in Ids : PickQuery(q) /\ sched'.query = q
           \/ sched.pc = "begin" /\ sched'.query = sched.query
  <1>0. sched \in SchedType
    BY DEF LockInv, TypeInv, TypeOK
  <1>1. CASE ClientStep
    BY <1>1 DEF ClientStep, SubmitNew, SubmitAgain, SyncOk, SyncFails, Cancel
  <1>2. ASSUME NEW q \in Ids, ReaderStep(q) \/ ChildStep(q) PROVE sched' = sched
    BY <1>2 DEF ReaderStep, Receive, PipeCloses, EmitUpdate, EmitProgress, EmitFlush,
       EmitFinal, EmitRaises, ChildStep
  <1>3. CASE RequestStop \/ StopCompletes \/ Crash \/ Restart
    BY <1>3 DEF RequestStop, StopCompletes, Crash, GoDown, Restart, IdleSched
  <1>4. CASE SchedulerStep \/ DeadlinePasses
    <2>1. ASSUME NEW q \in Ids, PickQuery(q) PROVE sched'.query = q
      BY <2>1 DEF PickQuery, IdleSched
    <2>2. CASE BeginQuery
      <3>1. CASE CanBegin(sched.query)
        BY <1>0, <2>2, <3>1 DEF BeginQuery, SchedType
      <3>2. CASE ~CanBegin(sched.query)
        BY <2>2, <3>2 DEF BeginQuery, IdleSched
      <3> QED BY <3>1, <3>2
    <2>3. CASE StartJob \/ StartFails \/ EndQuery
      BY <1>0, <2>3 DEF StartJob, StartFails, EndQuery, IdleSched, SchedType
    <2>4. CASE WaitReturns \/ CloseRecord \/ StopExecution
      BY <2>4 DEF WaitReturns, CloseRecord, StopExecution, Leaves, IdleSched
    <2>5. CASE ReadRecord \/ CheckContinues \/ DeadlinePasses
      BY <1>0, <2>5 DEF ReadRecord, CheckContinues, DeadlinePasses, SchedType
    <2>6. CASE CheckDone
      BY <1>0, <2>6, CheckDonePc
    <2> QED BY <1>4, <2>1, <2>2, <2>3, <2>4, <2>5, <2>6 DEF SchedulerStep
  <1> QED BY <1>1, <1>2, <1>3, <1>4 DEF Next, vars

\* A record that is discarded is nobody's: one no longer queued is quiet.
LEMMA DiscardAsks ==
    ASSUME LockInv, SyncFails, db[sub].state # "queued", NEW p \in Ids
    PROVE  Quietly(p)
  <1>1. /\ db \in [Ids -> Records] /\ sub \in Ids
        /\ db' = CancelRequested(sub) /\ born' = born
    BY DEF SyncFails, LockInv, TypeInv, TypeOK
  <1> QED BY <1>1, CancelState DEF Quietly

LEMMA OrderQuiet ==
    ASSUME LockInv, LockInv', [Next]_vars, OrderInv, \A p \in Ids : Quietly(p)
    PROVE  OrderInv'
  <1>1. /\ born \in Seq(Ids) /\ born' = born
        /\ \A i \in 1..Len(born) : born[i] \in Ids
    BY ConstantsAssumption DEF LockInv, TypeInv, TypeOK, Quietly
  <1>2. BornOnce'
    BY <1>1 DEF OrderInv, BornOnce, Quietly
  <1>3. ASSUME sched'.pc = "begin", db'[sched'.query].state = "queued"
        PROVE  OldestQueued(sched.query)'
    <2>1. sched'.query \in Ids
      BY <1>3 DEF LockInv, TypeInv, Pointers
    <2>2. OldestQueued(sched'.query)
      <3>1. db[sched'.query].state = "queued"
        BY <1>3, <2>1 DEF Quietly
      <3> QED BY <1>3, <3>1, PickedStep DEF OrderInv, StillOldest, PickQuery
    <2>3. PICK i \in 1..Len(born) :
              /\ born[i] = sched'.query
              /\ \A j \in 1..(i - 1) : db[born[j]].state # "queued"
      BY <2>2 DEF OldestQueued
    <2>4. \A j \in 1..(i - 1) : j \in 1..Len(born)
      BY <1>1
    <2>5. \A j \in 1..(i - 1) : db'[born'[j]].state # "queued"
      BY <1>1, <2>3, <2>4 DEF Quietly
    <2> QED BY <1>1, <1>3, <2>3, <2>5 DEF OldestQueued
  <1> QED BY <1>2, <1>3 DEF OrderInv, StillOldest

LEMMA OrderSubmit ==
    ASSUME LockInv, OrderInv, NEW q \in Ids, NEW m \in Models, SubmitNew(q, m)
    PROVE  OrderInv'
  <1>1. /\ born \in Seq(Ids) /\ Len(born) \in Nat
        /\ \A i \in 1..Len(born) : born[i] \in Ids
        /\ db \in [Ids -> Records] /\ sched \in SchedType /\ None \notin Ids
    BY ConstantsAssumption DEF LockInv, TypeInv, TypeOK
  <1>2. /\ db[q].state = "absent" /\ db'[q].state = "queued" /\ sched' = sched
        /\ \A p \in Ids \ {q} : db'[p] = db[p]
    BY <1>1 DEF SubmitNew, Queued, Absent
  <1>3. \A i \in 1..Len(born) : born[i] # q
    BY <1>2 DEF OrderInv, BornOnce
  <1>4. /\ Len(born') = Len(born) + 1 /\ born'[Len(born) + 1] = q
        /\ \A i \in 1..Len(born) : born'[i] = born[i]
    BY <1>1 DEF SubmitNew
  <1>5. BornOnce'
    <2>1. \A i \in 1..Len(born') : i \in 1..Len(born) \/ i = Len(born) + 1
      BY <1>1, <1>4
    <2>2. \A i, j \in 1..Len(born') : born'[i] = born'[j] => i = j
      BY <1>3, <1>4, <2>1 DEF OrderInv, BornOnce
    <2>3. \A i \in 1..Len(born') : db'[born'[i]].state # "absent"
      BY <1>1, <1>2, <1>3, <1>4, <2>1 DEF OrderInv, BornOnce
    <2> QED BY <2>2, <2>3 DEF BornOnce
  <1>6. ASSUME sched.pc = "begin", db'[sched.query].state = "queued"
        PROVE  OldestQueued(sched.query)'
    <2>1. sched.query \in Ids /\ sched.query # q
      BY <1>1, <1>2, <1>6 DEF LockInv, TypeInv, Pointers, Reserved
    <2>2. OldestQueued(sched.query)
      BY <1>2, <1>6, <2>1 DEF OrderInv, StillOldest
    <2>3. PICK i \in 1..Len(born) :
              /\ born[i] = sched.query
              /\ \A j \in 1..(i - 1) : db[born[j]].state # "queued"
      BY <2>2 DEF OldestQueued
    <2>4. i \in 1..Len(born') /\ \A j \in 1..(i - 1) : j \in 1..Len(born)
      BY <1>1, <1>4
    <2>5. \A j \in 1..(i - 1) : db'[born'[j]].state # "queued"
      BY <1>1, <1>2, <1>3, <1>4, <2>3, <2>4
    <2> QED BY <1>2, <1>4, <1>6, <2>3, <2>4, <2>5 DEF OldestQueued
  <1> QED BY <1>2, <1>5, <1>6 DEF OrderInv, StillOldest

\* The discarded record leaves its place, and the scheduler has another.
LEMMA OrderDiscard ==
    ASSUME LockInv, OrderInv, SyncFails, db[sub].state = "queued"
    PROVE  OrderInv'
  <1>1. /\ born \in Seq(Ids) /\ Len(born) \in Nat
        /\ \A i \in 1..Len(born) : born[i] \in Ids
        /\ db \in [Ids -> Records] /\ sub \in Ids
        /\ sched.query # sub /\ sched' = sched
    BY DEF SyncFails, LockInv, TypeInv, TypeOK, InFlightNotSelected
  <1>2. db'[sub].state = "absent" /\ \A p \in Ids \ {sub} : db'[p] = db[p]
    BY <1>1 DEF SyncFails, Absent
  <1>3. PICK n \in 1..Len(born) : born[n] = sub /\ born' = RemoveAt(born, n)
    BY DEF SyncFails
  <1>4. /\ Len(born') = Len(born) - 1
        /\ \A k \in 1..Len(born') : k < n => born'[k] = born[k]
        /\ \A k \in 1..Len(born') : k >= n => born'[k] = born[k + 1]
    BY <1>1, <1>3, RemovedAt
  <1> DEFINE at(k) == IF k < n THEN k ELSE k + 1
  <1>5. ASSUME NEW k \in 1..Len(born')
        PROVE  at(k) \in 1..Len(born) /\ at(k) # n /\ born'[k] = born[at(k)]
    BY <1>1, <1>3, <1>4
  <1>6. \A k, l \in 1..Len(born') : (at(k) = at(l) => k = l) /\ (k < l => at(k) < at(l))
    BY <1>1, <1>3, <1>4
  <1>7. \A i \in 1..Len(born) : i # n => \E k \in 1..Len(born') : at(k) = i
    <2>1. ASSUME NEW i \in 1..Len(born), i < n PROVE i \in 1..Len(born') /\ at(i) = i
      BY <1>1, <1>3, <1>4, <2>1
    <2>2. ASSUME NEW i \in 1..Len(born), i > n
          PROVE  i - 1 \in 1..Len(born') /\ at(i - 1) = i
      BY <1>1, <1>3, <1>4, <2>2
    <2> QED BY <2>1, <2>2
  <1> HIDE DEF at
  <1>8. \A i \in 1..Len(born) : born[i] = sub => i = n
    BY <1>3 DEF OrderInv, BornOnce
  <1>9. \A k \in 1..Len(born') : /\ db'[born'[k]] = db[born[at(k)]]
                                 /\ born'[k] = born[at(k)] /\ at(k) \in 1..Len(born)
    BY <1>1, <1>2, <1>5, <1>8
  <1>10. BornOnce'
    <2>1. \A k, l \in 1..Len(born') : born'[k] = born'[l] => k = l
      BY <1>6, <1>9 DEF OrderInv, BornOnce
    <2>2. \A k \in 1..Len(born') : db'[born'[k]].state # "absent"
      BY <1>9 DEF OrderInv, BornOnce
    <2> QED BY <2>1, <2>2 DEF BornOnce
  <1>11. ASSUME sched.pc = "begin", db'[sched.query].state = "queued"
         PROVE  OldestQueued(sched.query)'
    <2>1. sched.query \in Ids
      BY <1>11 DEF LockInv, TypeInv, Pointers
    <2>2. OldestQueued(sched.query)
      BY <1>1, <1>2, <1>11, <2>1 DEF OrderInv, StillOldest
    <2>3. PICK i \in 1..Len(born) :
              /\ born[i] = sched.query
              /\ \A j \in 1..(i - 1) : db[born[j]].state # "queued"
      BY <2>2 DEF OldestQueued
    <2>4. PICK k \in 1..Len(born') : at(k) = i
      BY <1>1, <1>3, <1>7, <2>3
    <2>5. ASSUME NEW l \in 1..(k - 1) PROVE db'[born'[l]].state # "queued"
      <3>1. l \in 1..Len(born') /\ l < k
        BY <1>1, <1>4, <2>5
      <3>2. at(l) \in 1..(i - 1)
        BY <1>1, <1>6, <1>9, <2>4, <3>1
      <3> QED BY <1>9, <2>3, <3>1, <3>2
    <2> QED BY <1>1, <1>9, <1>11, <2>3, <2>4, <2>5 DEF OldestQueued
  <1> QED BY <1>1, <1>10, <1>11 DEF OrderInv, StillOldest

LEMMA OrderStep ==
    ASSUME LockInv, LockInv', [Next]_vars, OrderInv
    PROVE  OrderInv'
  <1>1. CASE \E q \in Ids, m \in Models : SubmitNew(q, m)
    BY <1>1, OrderSubmit
  <1>2. CASE SyncFails /\ db[sub].state = "queued"
    BY <1>2, OrderDiscard
  <1>3. CASE SyncFails /\ db[sub].state # "queued"
    BY <1>3, DiscardAsks, OrderQuiet
  <1>4. CASE ~SyncFails /\ \A q \in Ids, m \in Models : ~SubmitNew(q, m)
    BY <1>4, QuietStep, OrderQuiet
  <1> QED BY <1>1, <1>2, <1>3, <1>4

LEMMA OldestStep ==
    ASSUME LockInv, OrderInv, [Next]_vars, NEW i \in 1..Len(born), NEW j \in 1..Len(born),
           i < j, db[born[j]].state = "queued", db'[born[j]].state = "planning"
    PROVE  db[born[i]].state # "queued"
  <1>1. /\ born \in Seq(Ids) /\ Len(born) \in Nat /\ born[j] \in Ids
        /\ db \in [Ids -> Records]
    BY DEF LockInv, TypeInv, TypeOK
  <1>2. ~ SyncFails
    <2>1. CASE db[sub].state = "queued"
      <3>1. ASSUME SyncFails
            PROVE  db' = [db EXCEPT ![sub] = Absent] /\ Absent.state = "absent"
        BY <2>1, <3>1 DEF SyncFails, Absent
      <3>2. ASSUME SyncFails, born[j] = sub PROVE FALSE
        BY <1>1, <3>1, <3>2
      <3>3. ASSUME SyncFails, born[j] # sub PROVE FALSE
        BY <1>1, <3>1, <3>3
      <3> QED BY <3>2, <3>3
    <2>2. CASE db[sub].state # "queued"
      <3>1. SyncFails => sub \in Ids
        BY DEF SyncFails, LockInv, TypeInv, TypeOK
      <3>2. SyncFails => db' = CancelRequested(sub)
        BY <2>2 DEF SyncFails
      <3> QED BY <1>1, <3>1, <3>2, CancelState
    <2> QED BY <2>1, <2>2
  <1>3. ASSUME NEW q \in Ids, NEW m \in Models, SubmitNew(q, m) PROVE FALSE
    BY <1>1, <1>3 DEF SubmitNew, Queued, Absent
  <1>4. sched.pc = "begin" /\ sched.query = born[j]
    BY <1>1, <1>2, <1>3, QuietStep DEF Quietly
  <1>5. PICK k \in 1..Len(born) :
            /\ born[k] = born[j]
            /\ \A l \in 1..(k - 1) : db[born[l]].state # "queued"
    BY <1>4 DEF OrderInv, StillOldest, OldestQueued
  <1>6. k = j
    BY <1>5 DEF OrderInv, BornOnce
  <1> QED BY <1>1, <1>5, <1>6

\* next_queued selects the oldest queued record and begin starts it a step
\* later, without the lock: no submission, discard, cancel or restart in
\* between makes it start before an older one.
THEOREM OldestStarts == Spec => OldestStartsFirst
  <1>1. LockInv /\ LockInv' /\ [Next]_vars /\ OrderInv => OrderInv'
    BY OrderStep
  <1>2. LockInv /\ OrderInv /\ [Next]_vars =>
          [\A i, j \in 1..Len(born) :
            (i < j /\ db[born[j]].state = "queued" /\ db'[born[j]].state = "planning")
                => db[born[i]].state # "queued"]_vars
    BY OldestStep
  <1>3. QED
    BY <1>1, <1>2, OrderInit, LockCorrect, PTL DEF Spec, OldestStartsFirst

=============================================================================
