------------------------- MODULE CheckpointedStore -------------------------
(***************************************************************************)
(* Durability of quail/server on a machine whose disk is lost with it: the *)
(* live SQLite file (store.py), the copy of it that checkpoint.py writes   *)
(* to a volume and commits, submissions that are acknowledged after a sync *)
(* (app.py), restore and recover on start, and the two readers that follow *)
(* a record over a restart: QueryRun.watch (remote/client.py) and the      *)
(* status page (static/status.html).                                       *)
(*                                                                         *)
(* A record is abstract here: the scheduler and executor behind begin,     *)
(* progress and finish are module QueryServer.                             *)
(***************************************************************************)
EXTENDS Integers

CONSTANTS
    Ids,            \* query ids a client may choose
    None,           \* no submission
    Followers,      \* the sets of readers that may be there: each a subset
                    \* of {"client", "page"}
    MaxRev,         \* revision up to which a running record is written
    MaxFails,       \* backups and commits that raise
    MaxDowns        \* times the machine goes down

ASSUME CheckpointAssumption ==
    /\ None \notin Ids
    /\ Followers \subseteq SUBSET {"client", "page"}
    /\ MaxRev \in Nat /\ MaxFails \in Nat /\ MaxDowns \in Nat

VARIABLES
    db,         \* id -> record in the live database; lost with the machine
    writes,     \* Store.num_writes
    durable,    \* Store.num_durable_writes
    notice,     \* a write's listeners have not advanced the event yet
    file,       \* DB_COPY as published on the volume's mount, uncommitted
    copy,       \* DB_COPY as committed: what a new machine restores
    seen,       \* Checkpoint._seen and _seen_durable
    late,       \* progress_interval_s has passed since the last copy
    copying,    \* the holder of Checkpoint._lock and its locals
    sub,        \* the submission holding submission_lock
    acked,      \* ids whose own submission was acknowledged
    repeated,   \* ids acknowledged to a repeated submission alone
    server,     \* "up", "stopping", "stopped" (final copy made), "down"
    downs,
    fails,
    watch,      \* id -> the client's watch() loop
    page,       \* id -> the status page's loop
    wait        \* reader -> id -> its request inside Server.wait_status

vars == <<db, writes, durable, notice, file, copy, seen, late, copying, sub, acked,
          repeated, server, downs, fails, watch, page, wait>>
storeVars == <<db, writes, durable, notice>>
copyVars == <<file, copy, seen, late, copying>>
clientVars == <<sub, acked, repeated>>
procVars == <<server, downs, fails>>
followVars == <<watch, page, wait>>

Absent == [state |-> "absent", rev |-> 0]
Empty == [q \in Ids |-> Absent]
Unseen == [writes |-> -1, durable |-> -1]
NoCopy == [by |-> "nobody", at |-> "backup", writes |-> 0, durable |-> 0]
NoSub == [id |-> None, at |-> "sync"]
NotOpen == [at |-> "closed", rev |-> 0, base |-> 0]
NoReader == [at |-> "none", rev |-> 0, base |-> 0]
NobodyWaits == [who \in {"client", "page"} |-> [q \in Ids |-> "asks"]]
Readers(isThere) == [q \in Ids |-> IF isThere THEN NotOpen ELSE NoReader]

Init ==
    /\ db = Empty /\ writes = 0 /\ durable = 0 /\ notice = FALSE
    /\ wait = NobodyWaits
    /\ file = Empty /\ copy = Empty /\ seen = Unseen /\ late = FALSE
    /\ copying = NoCopy
    /\ sub = NoSub /\ acked = {} /\ repeated = {}
    /\ server = "up" /\ downs = 0 /\ fails = 0
    \* Readers change nothing of the server, and so nothing of each other.
    /\ \E there \in Followers : /\ watch = Readers("client" \in there)
                              /\ page = Readers("page" \in there)

-----------------------------------------------------------------------------
(* Store: every write is one transaction and counts (Store._write) *)

\* A durable write counts twice; a progress counter does not. The listeners
\* are called after the commit.
Write(q, s, isDurable) ==
    /\ db' = [db EXCEPT ![q] = [state |-> s, rev |-> db[q].rev + 1]]
    /\ writes' = writes + 1
    /\ durable' = IF isDurable THEN durable + 1 ELSE durable
    /\ notice' = TRUE

\* store.begin of a record next_queued() selected: no submission in flight
\* is selected and one query runs at a time (QueryServer, InFlightNotSelected
\* and ActiveIsScheduled).
Begin(q) ==
    /\ server = "up" /\ db[q].state = "queued" /\ sub.id # q
    /\ \A p \in Ids : db[p].state # "running"
    /\ Write(q, "running", TRUE)
    /\ UNCHANGED <<copyVars, clientVars, procVars, followVars>>

\* A progress write.
Progress(q) ==
    /\ server = "up" /\ db[q].state = "running" /\ db[q].rev < MaxRev
    /\ Write(q, "running", FALSE)
    /\ UNCHANGED <<copyVars, clientVars, procVars, followVars>>

\* store.finish, by the job's end or by the scheduler.
Finish(q) ==
    /\ server = "up" /\ db[q].state = "running"
    /\ Write(q, "done", TRUE)
    /\ UNCHANGED <<copyVars, clientVars, procVars, followVars>>

\* request_cancel closes a queued record, one in flight included; on a
\* running one it is a durable write, and Finish follows.
Cancel(q) ==
    /\ server = "up"
    /\ \/ db[q].state = "queued" /\ Write(q, "done", TRUE)
       \/ db[q].state = "running" /\ db[q].rev < MaxRev /\ Write(q, "running", TRUE)
    /\ UNCHANGED <<copyVars, clientVars, procVars, followVars>>

-----------------------------------------------------------------------------
(* Checkpoint.run_once *)

LockFree == copying.by = "nobody"

\* The counts are read before the backup is taken.
CopyStarts(by) ==
    /\ LockFree
    /\ writes # seen.writes
    /\ copying' = [by |-> by, at |-> "backup", writes |-> writes, durable |-> durable]
    /\ UNCHANGED <<storeVars, file, copy, seen, late, clientVars, procVars, followVars>>

\* A variant that ignores the durable count, for StateChangesCopied.
TimerOnly == late

\* The timer holds back a copy of progress writes alone.
Due == durable # seen.durable \/ late

\* The checkpoint thread's pass.
ThreadStarts ==
    /\ server \in {"up", "stopping"}
    /\ Due
    /\ CopyStarts("thread")

\* The submission's sync: force. Nothing new to copy is a success.
SyncStarts ==
    /\ sub.id # None /\ sub.at = "sync"
    /\ CopyStarts("sync")

SyncSkips ==
    /\ sub.id # None /\ sub.at = "sync"
    /\ LockFree /\ writes = seen.writes
    /\ sub' = [sub EXCEPT !.at = "synced"]
    /\ UNCHANGED <<storeVars, copyVars, acked, repeated, procVars, followVars>>

\* store.backup: one consistent copy, renamed over the last.
CopyBackup ==
    /\ copying.by # "nobody" /\ copying.at = "backup" /\ server # "down"
    /\ file' = db
    /\ copying' = [copying EXCEPT !.at = "commit"]
    /\ UNCHANGED <<storeVars, copy, seen, late, clientVars, procVars, followVars>>

\* A variant that notes the counts after the copy, for AckedSurvives.
CountsAfter == [writes |-> writes, durable |-> durable]

Counts == [writes |-> copying.writes, durable |-> copying.durable]

\* volume.commit and the bookkeeping after it.
CopyCommits ==
    /\ copying.by # "nobody" /\ copying.at = "commit" /\ server # "down"
    /\ copy' = file
    /\ seen' = Counts
    /\ late' = FALSE
    /\ copying' = NoCopy
    /\ sub' = IF copying.by = "sync" THEN [sub EXCEPT !.at = "synced"] ELSE sub
    /\ server' = IF copying.by = "stop" THEN "stopped" ELSE server
    /\ UNCHANGED <<storeVars, file, acked, repeated, downs, fails, followVars>>

\* The backup or the commit raises: the thread and the final copy try
\* again, a sync passes it on.
CopyFails ==
    /\ copying.by # "nobody" /\ server # "down" /\ fails < MaxFails
    /\ fails' = fails + 1
    /\ copying' = NoCopy
    /\ sub' = IF copying.by = "sync" THEN [sub EXCEPT !.at = "failed"] ELSE sub
    /\ UNCHANGED <<storeVars, file, copy, seen, late, acked, repeated, server, downs, followVars>>

TimerPasses ==
    /\ server # "down" /\ ~late
    /\ late' = TRUE
    /\ UNCHANGED <<storeVars, file, copy, seen, copying, clientVars, procVars, followVars>>

-----------------------------------------------------------------------------
(* Server.accept *)

SubmitNew(q) ==
    /\ server = "up" /\ sub.id = None
    /\ db[q].state = "absent"
    /\ Write(q, "queued", TRUE)
    /\ sub' = [id |-> q, at |-> "sync"]
    /\ UNCHANGED <<copyVars, acked, repeated, procVars, followVars>>

\* A repeated id of the same specification returns its record, unsynced.
SubmitAgain(q) ==
    /\ server = "up" /\ sub.id = None
    /\ db[q].state # "absent"
    /\ repeated' = repeated \cup ({q} \ acked)
    /\ UNCHANGED <<storeVars, copyVars, sub, acked, procVars, followVars>>

\* Every sync returned: the client gets its id.
Acknowledge ==
    /\ sub.id # None /\ sub.at = "synced"
    /\ acked' = acked \cup {sub.id}
    /\ repeated' = repeated \ {sub.id}
    /\ sub' = NoSub
    /\ UNCHANGED <<storeVars, copyVars, procVars, followVars>>

\* A sync raised: discard deletes the record while it is queued (the DELETE
\* counts as a write either way), and the client gets an error.
Discard ==
    /\ sub.id # None /\ sub.at = "failed"
    /\ db' = IF db[sub.id].state = "queued" THEN [db EXCEPT ![sub.id] = Absent] ELSE db
    /\ writes' = writes + 1 /\ durable' = durable + 1 /\ notice' = TRUE
    /\ sub' = NoSub
    /\ UNCHANGED <<copyVars, acked, repeated, procVars, followVars>>

-----------------------------------------------------------------------------
(* The machine *)

\* Scheduler.stop has joined its thread and the requests are over.
RequestStop ==
    /\ server = "up" /\ downs < MaxDowns /\ sub.id = None
    /\ \A q \in Ids : db[q].state # "running"
    /\ server' = "stopping"
    /\ UNCHANGED <<storeVars, copyVars, clientVars, downs, fails, followVars>>

\* A variant that makes no last copy, for CleanStopKeepsAll.
NoLastCopy == TRUE

NothingNew == writes = seen.writes

\* Checkpoint.stop: a last forced copy, tried until it succeeds.
StopStarts == server = "stopping" /\ CopyStarts("stop")

StopSkips ==
    /\ server = "stopping" /\ LockFree /\ NothingNew
    /\ server' = "stopped"
    /\ UNCHANGED <<storeVars, copyVars, clientVars, downs, fails, followVars>>

\* Open event streams end: with an error, or closed by a server that stops.
StreamsEnd(at) ==
    [q \in Ids |-> IF page[q].at = "stream" THEN [page[q] EXCEPT !.at = at] ELSE page[q]]

\* A watch() whose request waits raises; one that asks may (WatchRaises).
WatchesLost ==
    [q \in Ids |-> IF wait["client"][q] # "asks" THEN [watch[q] EXCEPT !.at = "ended"]
                                                   ELSE watch[q]]

\* The live database, the uncommitted file and the memory are gone.
GoDown ==
    /\ server' = "down"
    /\ downs' = downs + 1
    /\ db' = Empty /\ writes' = 0 /\ durable' = 0 /\ notice' = FALSE
    /\ file' = copy /\ seen' = Unseen /\ late' = FALSE /\ copying' = NoCopy
    /\ sub' = NoSub
    /\ \E at \in {"connect", "fetch"} : page' = StreamsEnd(at)
    /\ watch' = WatchesLost
    /\ wait' = NobodyWaits
    /\ UNCHANGED <<copy, acked, repeated, fails>>

\* Server.stop ends, with or without its last copy (30 s of retries).
StopEnds == server \in {"stopping", "stopped"} /\ GoDown

Crash == server = "up" /\ downs < MaxDowns /\ GoDown

\* recover(): a record left active is interrupted.
Recovered ==
    [q \in Ids |-> IF copy[q].state = "running"
                   THEN [state |-> "done", rev |-> copy[q].rev + 1] ELSE copy[q]]

\* restore() copies the committed file, then recover() writes to it.
Restart ==
    /\ server = "down"
    /\ server' = "up"
    /\ db' = Recovered
    /\ writes' = IF Recovered = copy THEN 0 ELSE 1
    /\ durable' = writes'
    /\ notice' = FALSE
    /\ UNCHANGED <<copyVars, clientVars, downs, fails, followVars>>

-----------------------------------------------------------------------------
(* Server.wait_status and _Changes, for the request of a reader: it "asks" *)
(* (an event is taken before the record is read, so a change until then is *)
(* seen by the read), has "read" a record that is not newer, or "sleeps"   *)
(* until the event it took is set.                                         *)

\* A variant whose event is taken after the record is read, for
\* WatchEndsWhileAhead.
TakenLate == {"sleeps"}

\* Who goes on when the event is set: it takes the fresh event and reads
\* again, at once or when it would go to sleep.
Woken == {"read", "sleeps"}

\* _advance on the event loop sets the event that was current.
Notified ==
    /\ notice
    /\ notice' = FALSE
    /\ wait' = [who \in {"client", "page"} |-> [q \in Ids |->
                  IF wait[who][q] \in Woken THEN "asks" ELSE wait[who][q]]]
    /\ UNCHANGED <<db, writes, durable, copyVars, clientVars, procVars, watch, page>>

WaitAt(who, q, at) == wait' = [wait EXCEPT ![who][q] = at]

\* The record read is not newer: wait for the event that was taken.
Sleeps(who, q) ==
    /\ server = "up" /\ wait[who][q] = "read"
    /\ WaitAt(who, q, "sleeps")
    /\ UNCHANGED <<storeVars, copyVars, clientVars, procVars, watch, page>>

\* The deadline: the request returns the snapshot it read, and is repeated.
TimesOut(who, q) ==
    /\ server = "up" /\ wait[who][q] = "sleeps"
    /\ WaitAt(who, q, "asks")
    /\ UNCHANGED <<storeVars, copyVars, clientVars, procVars, watch, page>>

-----------------------------------------------------------------------------
(* QueryRun.watch: at is "none", "closed", "on" or "ended" *)

Snapshot(q) ==
    [at |-> IF db[q].state = "done" THEN "ended" ELSE "on", rev |-> db[q].rev, base |-> 0]

WatchOpens(q) ==
    /\ server = "up" /\ watch[q].at = "closed" /\ db[q].state # "absent"
    /\ watch' = [watch EXCEPT ![q] = Snapshot(q)]
    /\ UNCHANGED <<storeVars, copyVars, clientVars, procVars, page, wait>>

\* A poll returns a snapshot; only a newer one is yielded.
WatchReads(q) ==
    /\ server = "up" /\ watch[q].at = "on" /\ wait["client"][q] = "asks" /\ db[q].state # "absent"
    /\ IF db[q].rev > watch[q].rev
       THEN watch' = [watch EXCEPT ![q] = Snapshot(q)] /\ WaitAt("client", q, "asks")
       ELSE UNCHANGED watch /\ WaitAt("client", q, "read")
    /\ UNCHANGED <<storeVars, copyVars, clientVars, procVars, page>>

\* A poll of a server that is down or of an unknown id raises.
WatchRaises(q) ==
    /\ watch[q].at = "on"
    /\ \/ server = "down"
       \/ server = "up" /\ wait["client"][q] = "asks" /\ db[q].state = "absent"
    /\ watch' = [watch EXCEPT ![q].at = "ended"]
    /\ WaitAt("client", q, "asks")
    /\ UNCHANGED <<storeVars, copyVars, clientVars, procVars, page>>

(* The page: at is "none", "closed", "connect", "stream", "fetch" or "ended" *)

\* The snapshot is shown; a done one ends the loop.
Shown(q, at, base) ==
    page' = [page EXCEPT ![q] = [at |-> IF db[q].state = "done" THEN "ended" ELSE at,
                                 rev |-> db[q].rev, base |-> base]]

PageOpens(q) ==
    /\ page[q].at = "closed" /\ server = "up" /\ db[q].state # "absent"
    /\ Shown(q, "connect", 0)
    /\ UNCHANGED <<storeVars, copyVars, clientVars, procVars, watch, wait>>

\* events(): the first snapshot is sent if newer than last-event-id, and a
\* done record ends the stream.
PageConnects(q) ==
    /\ page[q].at = "connect" /\ server = "up" /\ db[q].state # "absent"
    /\ IF db[q].rev > page[q].rev
       THEN Shown(q, "stream", db[q].rev)
       ELSE page' = [page EXCEPT ![q].at = IF db[q].state = "done" THEN "fetch"
                                                                   ELSE "stream",
                                 ![q].base = db[q].rev]
    /\ UNCHANGED <<storeVars, copyVars, clientVars, procVars, watch, wait>>

\* A variant that waits for a revision past last-event-id, for PageEnds.
PastShown(q) == db[q].rev > page[q].rev

\* The stream waits for a revision past the one it last read.
PastRead(q) == db[q].rev > page[q].base

PageReads(q) ==
    /\ server = "up" /\ page[q].at = "stream" /\ wait["page"][q] = "asks" /\ db[q].state # "absent"
    /\ IF PastRead(q)
       THEN Shown(q, "stream", db[q].rev) /\ WaitAt("page", q, "asks")
       ELSE UNCHANGED page /\ WaitAt("page", q, "read")
    /\ UNCHANGED <<storeVars, copyVars, clientVars, procVars, watch>>

\* A stream that ends without an event is followed by a fetch.
PageFetches(q) ==
    /\ page[q].at = "fetch" /\ server = "up" /\ db[q].state # "absent"
    /\ Shown(q, "connect", 0)
    /\ UNCHANGED <<storeVars, copyVars, clientVars, procVars, watch, wait>>

\* A request for a record that is gone is an error, and the loop goes on.
PageErrs(q) ==
    /\ server = "up" /\ db[q].state = "absent"
    /\ \/ page[q].at = "fetch"
       \/ page[q].at = "stream" /\ wait["page"][q] = "asks"
    /\ page' = [page EXCEPT ![q].at = "connect"]
    /\ WaitAt("page", q, "asks")
    /\ UNCHANGED <<storeVars, copyVars, clientVars, procVars, watch>>

-----------------------------------------------------------------------------
RecordStep(q) == Begin(q) \/ Progress(q) \/ Finish(q) \/ Cancel(q)
CopyStep == CopyBackup \/ CopyCommits \/ CopyFails
SubmissionStep == SyncStarts \/ SyncSkips \/ Acknowledge \/ Discard
StopStep == StopStarts \/ StopSkips \/ StopEnds
WatchStep(q) == WatchReads(q) \/ Sleeps("client", q) \/ WatchRaises(q)
PageStep(q) ==
    PageConnects(q) \/ PageReads(q) \/ Sleeps("page", q)
    \/ PageFetches(q) \/ PageErrs(q)

Next ==
    \/ \E q \in Ids : RecordStep(q) \/ SubmitNew(q) \/ SubmitAgain(q)
                      \/ WatchOpens(q) \/ WatchStep(q) \/ PageOpens(q) \/ PageStep(q)
                      \/ \E who \in {"client", "page"} : TimesOut(who, q)
    \/ Notified
    \/ ThreadStarts \/ CopyStep \/ TimerPasses
    \/ SubmissionStep
    \/ RequestStop \/ StopStep \/ Crash \/ Restart

Spec == Init /\ [][Next]_vars

\* The threads and the event loop run, a query that starts ends, a machine
\* is replaced, the followers poll. The progress timer and the deadline of a
\* request owe nothing: a reader is woken, it does not look by chance.
FairSpec ==
    /\ Spec
    /\ WF_vars(Notified)
    /\ WF_vars(ThreadStarts) /\ WF_vars(CopyBackup \/ CopyCommits)
    /\ WF_vars(SubmissionStep) /\ WF_vars(StopStep) /\ WF_vars(Restart)
    /\ \A q \in Ids : /\ WF_vars(Begin(q)) /\ WF_vars(Finish(q))
                      /\ WF_vars(WatchStep(q)) /\ WF_vars(PageStep(q))

-----------------------------------------------------------------------------
(* Properties *)

RecordType == [state : {"absent", "queued", "running", "done"}, rev : Nat]
SeenType == [writes : Nat \cup {-1}, durable : Nat \cup {-1}]
CopyingType == [by : {"nobody", "thread", "sync", "stop"}, at : {"backup", "commit"},
                writes : Nat, durable : Nat]
SubType == [id : Ids \cup {None}, at : {"sync", "synced", "failed"}]
FollowType == [at : {"none", "closed", "on", "connect", "stream", "fetch", "ended"},
               rev : Nat, base : Nat]
WaitType == [{"client", "page"} -> [Ids -> {"asks", "read", "sleeps"}]]

\* Every variable has its type: the counters of Store, the locals of
\* Checkpoint.run_once, the loops of the two readers.
TypeOK ==
    /\ db \in [Ids -> RecordType]
    /\ writes \in Nat /\ durable \in Nat /\ notice \in BOOLEAN
    /\ file \in [Ids -> RecordType] /\ copy \in [Ids -> RecordType]
    /\ seen \in SeenType /\ late \in BOOLEAN /\ copying \in CopyingType
    /\ sub \in SubType
    /\ acked \in SUBSET Ids /\ repeated \in SUBSET Ids
    /\ server \in {"up", "stopping", "stopped", "down"}
    /\ downs \in Nat /\ fails \in Nat
    /\ watch \in [Ids -> FollowType] /\ page \in [Ids -> FollowType]
    /\ wait \in WaitType

-----------------------------------------------------------------------------
(* Safety *)

\* add_sync (app.py): an id its client was given is on the committed copy
\* from then on, so no crash or restore forgets it.
AckedSurvives ==
    \A q \in acked : /\ copy[q].state # "absent"
                     /\ server # "down" => db[q].state # "absent"

\* Checkpoint.stop: a stop whose last copy succeeded loses no write.
CleanStopKeepsAll == server = "stopped" => copy = db

(* Liveness *)

\* Checkpoint (its docstring): a state change is copied without waiting for
\* the progress timer, although a backup may miss writes made under it.
StateChangesCopied ==
    \A q \in Ids : db[q].state = "done" ~>
        copy[q].state = "done" \/ db[q].state # "done"

\* status.html and events(): a page that follows a record shows its end,
\* also when the record restored after a crash has an older revision.
PageEnds ==
    \A q \in Ids : page[q].at \notin {"none", "closed", "ended"} ~>
        page[q].at = "ended" \/ db[q].state = "absent"

\* The record has more to yield to the watch, or will have.
Ahead(q) == \/ db[q].rev > watch[q].rev
            \/ db[q].rev = watch[q].rev /\ db[q].state # "done"

\* QueryRun.watch ends while the machine stays up, unless the record it
\* follows was restored to an older revision (see WatchEnds): the record's
\* every change raises its revision past the one the client waits on.
WatchEndsWhileAhead ==
    \A q \in Ids : watch[q].at = "on" /\ server = "up" /\ Ahead(q) ~>
        watch[q].at = "ended" \/ server # "up"

(* What the docs promise *)

\* accept: a retry of the same id cannot see the record until the syncs
\* have run or it is discarded, so what a retry was given is not forgotten.
RepeatedSurvives ==
    \A q \in repeated : server = "up" => db[q].state # "absent"

\* QueryRun.watch yields each newer revision until done: it ends.
WatchEnds == \A q \in Ids : watch[q].at = "on" ~> watch[q].at = "ended"

=============================================================================
