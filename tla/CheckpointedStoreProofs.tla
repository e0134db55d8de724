---------------------- MODULE CheckpointedStoreProofs ----------------------
(***************************************************************************)
(* Proofs about CheckpointedStore. The result is AckedSurvives: an id its  *)
(* client was given is on the committed copy from then on. The argument is *)
(* that the counts noted after a copy never run ahead of what it holds:    *)
(* they are read before the backup, so equal counts mean an equal copy.    *)
(***************************************************************************)
EXTENDS CheckpointedStore, TLAPS

Present(records, q) == records[q].state # "absent"

-----------------------------------------------------------------------------
(* Types *)

LEMMA WriteType ==
    ASSUME TypeOK, NEW q \in Ids, NEW s \in {"queued", "running", "done"},
           NEW d \in BOOLEAN, Write(q, s, d)
    PROVE  /\ db' \in [Ids -> RecordType] /\ writes' \in Nat /\ durable' \in Nat
           /\ notice' \in BOOLEAN
  <1>0. db[q].rev \in Nat
    BY DEF TypeOK, RecordType
  <1>1. [state |-> s, rev |-> db[q].rev + 1] \in RecordType
    BY <1>0 DEF RecordType
  <1>2. db' \in [Ids -> RecordType]
    BY <1>1 DEF TypeOK, Write
  <1>3. writes' = writes + 1 /\ durable' \in {durable, durable + 1} /\ notice' = TRUE
    BY DEF Write
  <1>4. QED
    BY <1>2, <1>3 DEF TypeOK

LEMMA BlankType ==
    /\ Empty \in [Ids -> RecordType] /\ Unseen \in SeenType
    /\ NoCopy \in CopyingType /\ NoSub \in SubType /\ NotOpen \in FollowType
    /\ NoReader \in FollowType /\ NobodyWaits \in WaitType
  <1>1. Empty \in [Ids -> RecordType]
    BY DEF Empty, Absent, RecordType
  <1>2. Unseen \in SeenType
    BY DEF Unseen, SeenType
  <1>3. NoCopy \in CopyingType /\ NoSub \in SubType /\ NotOpen \in FollowType
        /\ NoReader \in FollowType
    BY DEF NoCopy, CopyingType, NoSub, SubType, NotOpen, NoReader, FollowType
  <1>4. NobodyWaits \in WaitType
    BY DEF NobodyWaits, WaitType
  <1>5. QED
    BY <1>1, <1>2, <1>3, <1>4

LEMMA TypeInit == Init => TypeOK
  <1> SUFFICES ASSUME Init PROVE TypeOK
    OBVIOUS
  <1>1. /\ db \in [Ids -> RecordType] /\ writes \in Nat /\ durable \in Nat
        /\ file \in [Ids -> RecordType] /\ copy \in [Ids -> RecordType]
    BY BlankType DEF Init
  <1>2. seen \in SeenType /\ copying \in CopyingType /\ sub \in SubType
    BY BlankType DEF Init
  <1>3. late \in BOOLEAN /\ notice \in BOOLEAN /\ wait \in WaitType
    BY BlankType DEF Init
  <1>4. /\ acked \in SUBSET Ids /\ repeated \in SUBSET Ids
        /\ server \in {"up", "stopping", "stopped", "down"}
        /\ downs \in Nat /\ fails \in Nat
    BY DEF Init
  <1>5. watch \in [Ids -> FollowType] /\ page \in [Ids -> FollowType]
    <2>1. PICK there \in Followers : /\ watch = Readers("client" \in there)
                                     /\ page = Readers("page" \in there)
      BY DEF Init
    <2>2. ASSUME NEW b PROVE Readers(b) \in [Ids -> FollowType]
      BY BlankType DEF Readers
    <2>3. QED
      BY <2>1, <2>2
  <1>6. QED
    BY <1>1, <1>2, <1>3, <1>4, <1>5 DEF TypeOK

LEMMA WaitAtType ==
    ASSUME wait \in WaitType, NEW who \in {"client", "page"}, NEW q \in Ids,
           NEW at \in {"asks", "read", "sleeps"}, WaitAt(who, q, at)
    PROVE  wait' \in WaitType
  BY DEF WaitAt, WaitType

LEMMA TypeStep == TypeOK /\ [Next]_vars => TypeOK'
  <1> SUFFICES ASSUME TypeOK, [Next]_vars PROVE TypeOK'
    OBVIOUS
  <1> USE DEF storeVars, copyVars, clientVars, procVars, followVars
  <1>1. ASSUME NEW q \in Ids, RecordStep(q) PROVE TypeOK'
    <2>1. /\ db' \in [Ids -> RecordType] /\ writes' \in Nat /\ durable' \in Nat
          /\ notice' \in BOOLEAN
      BY <1>1, WriteType DEF RecordStep, Begin, Progress, Finish, Cancel
    <2>2. UNCHANGED <<copyVars, clientVars, procVars, followVars>>
      BY <1>1 DEF RecordStep, Begin, Progress, Finish, Cancel
    <2>3. QED
      BY <2>1, <2>2 DEF TypeOK
  <1>2. ASSUME NEW q \in Ids, SubmitNew(q) PROVE TypeOK'
    <2>1. /\ db' \in [Ids -> RecordType] /\ writes' \in Nat /\ durable' \in Nat
          /\ notice' \in BOOLEAN
      BY <1>2, WriteType DEF SubmitNew
    <2>2. QED
      BY <1>2, <2>1 DEF SubmitNew, TypeOK, SubType
  <1>3. ASSUME NEW q \in Ids, SubmitAgain(q) PROVE TypeOK'
    BY <1>3 DEF SubmitAgain, TypeOK
  <1>4. ASSUME NEW by \in {"thread", "sync", "stop"}, CopyStarts(by) PROVE TypeOK'
    BY <1>4 DEF CopyStarts, TypeOK, CopyingType
  <1>5. CASE CopyBackup
    BY <1>5 DEF CopyBackup, TypeOK, CopyingType
  <1>6. CASE CopyCommits
    BY <1>6 DEF CopyCommits, Counts, NoCopy, TypeOK, CopyingType, SeenType, SubType
  <1>7. CASE CopyFails
    BY <1>7 DEF CopyFails, NoCopy, TypeOK, CopyingType, SubType
  <1>8. CASE SyncSkips \/ Acknowledge
    BY <1>8 DEF SyncSkips, Acknowledge, NoSub, TypeOK, SubType
  <1>9. CASE Discard
    BY <1>9 DEF Discard, NoSub, Absent, TypeOK, SubType, RecordType
  <1>10. CASE TimerPasses \/ RequestStop \/ StopSkips
    BY <1>10 DEF TimerPasses, RequestStop, StopSkips, TypeOK
  <1>11. CASE GoDown
    <2>1. ASSUME NEW at \in {"connect", "fetch"} PROVE StreamsEnd(at) \in [Ids -> FollowType]
      <3> DEFINE f(q) == [page[q] EXCEPT !.at = at]
      <3>1. \A q \in Ids : page[q] \in FollowType /\ f(q) \in FollowType
        BY DEF TypeOK, FollowType
      <3>2. StreamsEnd(at) = [q \in Ids |-> IF page[q].at = "stream" THEN f(q) ELSE page[q]]
        BY DEF StreamsEnd
      <3> HIDE DEF f
      <3>3. QED
        BY <3>1, <3>2
    <2>2. page' \in [Ids -> FollowType]
      BY <1>11, <2>1 DEF GoDown
    <2>3. /\ db' = Empty /\ writes' = 0 /\ durable' = 0 /\ notice' = FALSE
          /\ file' = copy /\ copy' = copy
          /\ seen' = Unseen /\ late' = FALSE /\ copying' = NoCopy /\ sub' = NoSub
          /\ server' = "down" /\ downs' = downs + 1
          /\ watch' = WatchesLost /\ wait' = NobodyWaits
          /\ UNCHANGED <<acked, repeated, fails>>
      BY <1>11 DEF GoDown
    <2>4. db' \in [Ids -> RecordType] /\ writes' \in Nat /\ durable' \in Nat
      BY <2>3, BlankType
    <2>5. file' \in [Ids -> RecordType] /\ copy' \in [Ids -> RecordType] /\ seen' \in SeenType
      BY <2>3, BlankType DEF TypeOK
    <2>6. late' \in BOOLEAN /\ notice' \in BOOLEAN /\ wait' \in WaitType
      BY <2>3, BlankType
    <2>7. copying' \in CopyingType /\ sub' \in SubType
      BY <2>3, BlankType
    <2>8. server' \in {"up", "stopping", "stopped", "down"} /\ downs' \in Nat /\ fails' \in Nat
      BY <2>3 DEF TypeOK
    <2>9. watch' \in [Ids -> FollowType]
      <3> DEFINE f(q) == [watch[q] EXCEPT !.at = "ended"]
      <3>1. \A q \in Ids : watch[q] \in FollowType /\ f(q) \in FollowType
        BY DEF TypeOK, FollowType
      <3>2. WatchesLost
              = [q \in Ids |-> IF wait["client"][q] # "asks" THEN f(q) ELSE watch[q]]
        BY DEF WatchesLost
      <3> HIDE DEF f
      <3>3. QED
        BY <2>3, <3>1, <3>2
    <2>10. UNCHANGED <<acked, repeated>>
      BY <2>3
    <2>11. QED
      BY <2>2, <2>4, <2>5, <2>6, <2>7, <2>8, <2>9, <2>10 DEF TypeOK
  <1>12. CASE Restart
    <2>1. Recovered \in [Ids -> RecordType]
      <3>1. ASSUME NEW q \in Ids
            PROVE  [state |-> "done", rev |-> copy[q].rev + 1] \in RecordType
        BY DEF TypeOK, RecordType
      <3>2. QED
        BY <3>1 DEF Recovered, TypeOK
    <2>2. QED
      BY <1>12, <2>1 DEF Restart, TypeOK
  <1>13. ASSUME NEW q \in Ids, WatchOpens(q) \/ WatchStep(q) PROVE TypeOK'
    <2>1. Snapshot(q) \in FollowType
      BY DEF Snapshot, TypeOK, RecordType, FollowType
    <2>2. [watch[q] EXCEPT !.at = "ended"] \in FollowType
      BY DEF TypeOK, FollowType
    <2>3. watch' \in [Ids -> FollowType]
      BY <1>13, <2>1, <2>2 DEF WatchOpens, WatchStep, WatchReads, WatchRaises, Sleeps, TypeOK
    <2>4. wait' \in WaitType
      BY <1>13, WaitAtType DEF WatchOpens, WatchStep, WatchReads, WatchRaises, Sleeps, TypeOK
    <2>5. QED
      BY <1>13, <2>3, <2>4
         DEF WatchOpens, WatchStep, WatchReads, WatchRaises, Sleeps, TypeOK
  <1>14. ASSUME NEW q \in Ids, PageOpens(q) \/ PageStep(q) PROVE TypeOK'
    <2>1. ASSUME NEW at \in {"connect", "stream"}, NEW base \in Nat, Shown(q, at, base)
          PROVE  page' \in [Ids -> FollowType]
      <3>1. [at |-> IF db[q].state = "done" THEN "ended" ELSE at,
             rev |-> db[q].rev, base |-> base] \in FollowType
        BY DEF TypeOK, RecordType, FollowType
      <3>2. QED
        BY <2>1, <3>1 DEF Shown, TypeOK
    <2>2. db[q].rev \in Nat
      BY DEF TypeOK, RecordType
    <2>3. ASSUME NEW at \in {"connect", "fetch", "stream"}
          PROVE  /\ [page[q] EXCEPT !.at = at] \in FollowType
                 /\ [page[q] EXCEPT !.at = at, !.base = db[q].rev] \in FollowType
      BY <2>2 DEF TypeOK, FollowType
    <2>4. page' \in [Ids -> FollowType]
      <3>1. CASE PageOpens(q) \/ PageFetches(q) \/ PageReads(q) \/ Sleeps("page", q)
        BY <2>1, <2>2, <3>1 DEF PageOpens, PageFetches, PageReads, Sleeps, TypeOK
      <3>2. CASE PageErrs(q)
        BY <2>3, <3>2 DEF PageErrs, TypeOK
      <3>3. CASE PageConnects(q) /\ db[q].rev > page[q].rev
        BY <2>1, <2>2, <3>3 DEF PageConnects
      <3>4. CASE PageConnects(q) /\ ~(db[q].rev > page[q].rev)
        <4> DEFINE at == IF db[q].state = "done" THEN "fetch" ELSE "stream"
                   f == [page[q] EXCEPT !.at = at, !.base = db[q].rev]
        <4>1. page' = [page EXCEPT ![q] = f]
          BY <3>4 DEF PageConnects, TypeOK
        <4>2. f \in FollowType
          BY <2>3
        <4> HIDE DEF f
        <4>3. QED
          BY <4>1, <4>2 DEF TypeOK
      <3>5. QED
        BY <1>14, <3>1, <3>2, <3>3, <3>4 DEF PageStep
    <2>5. wait' \in WaitType
      BY <1>14, WaitAtType DEF PageOpens, PageStep, PageConnects, PageReads, PageFetches,
         PageErrs, Sleeps, TypeOK
    <2>6. QED
      BY <1>14, <2>4, <2>5 DEF PageOpens, PageStep, PageConnects, PageReads, PageFetches,
         PageErrs, Sleeps, TypeOK
  <1>15. CASE UNCHANGED vars
    BY <1>15 DEF vars, TypeOK
  <1>16. CASE Notified
    <2>1. wait' \in WaitType
      BY <1>16 DEF Notified, TypeOK, WaitType
    <2>2. QED
      BY <1>16, <2>1 DEF Notified, TypeOK
  <1>17. ASSUME NEW who \in {"client", "page"}, NEW q \in Ids, TimesOut(who, q) PROVE TypeOK'
    <2>1. wait' \in WaitType
      BY <1>17, WaitAtType DEF TimesOut, TypeOK
    <2>2. QED
      BY <1>17, <2>1 DEF TimesOut, TypeOK
  <1>18. QED
    BY <1>1, <1>2, <1>3, <1>4, <1>5, <1>6, <1>7, <1>8, <1>9, <1>10, <1>11, <1>12, <1>13,
       <1>14, <1>15, <1>16, <1>17
       DEF Next, ThreadStarts, CopyStep, SubmissionStep, SyncStarts, StopStep, StopStarts,
           StopEnds, Crash

\* Every variable keeps its type, for any number of ids, writes and failures.
THEOREM TypeSafe == Spec => []TypeOK
  BY TypeInit, TypeStep, PTL DEF Spec

-----------------------------------------------------------------------------
(* Durability *)

\* The backup under way holds every write its counts include.
CopyIsFaithful ==
    /\ copying.writes <= writes
    /\ copying.by # "nobody" /\ copying.at = "commit" /\ copying.writes = writes
            => file = db

\* So does the last committed copy.
CountsAreFaithful ==
    /\ seen.writes <= writes
    /\ seen.writes = writes /\ server # "down" => copy = db

\* The submission in flight is saved, nobody was given its id, and what its
\* sync backed up or committed has it.
InFlight ==
    sub.id # None =>
        /\ server # "down" /\ sub.id \notin acked /\ Present(db, sub.id)
        /\ copying.at = "commit" /\ (copying.by = "sync" \/ sub.at = "synced")
                => Present(file, sub.id)
        /\ sub.at = "synced" => Present(copy, sub.id)

\* An acknowledged id is in every place a restart may start from.
AckedPresent ==
    \A q \in acked : /\ Present(copy, q)
                     /\ copying.at = "commit" => Present(file, q)
                     /\ server # "down" => Present(db, q)

\* A sync belongs to the submission in flight.
Owner ==
    /\ copying.by = "sync" => sub.id # None /\ sub.at = "sync"
    /\ copying.by = "nobody" => copying.at = "backup"
    /\ server = "down" => sub = NoSub /\ copying = NoCopy /\ seen = Unseen

DurableInv ==
    TypeOK /\ CopyIsFaithful /\ CountsAreFaithful /\ InFlight /\ AckedPresent /\ Owner

LEMMA DurableInit == Init => DurableInv
  BY TypeInit DEF Init, DurableInv, CopyIsFaithful, CountsAreFaithful, InFlight,
     AckedPresent, Owner, NoCopy, NoSub, Unseen

\* A write that leaves every record in place leaves what was copied behind
\* the counts.
LEMMA WriteIsNoted ==
    ASSUME DurableInv, TypeOK', server # "down",
           \A q \in Ids : Present(db, q) => Present(db', q),
           writes' = writes + 1,
           UNCHANGED <<copyVars, clientVars, procVars>>
    PROVE  DurableInv'
  <1> USE DEF DurableInv, copyVars, clientVars, procVars
  <1>1. writes \in Nat /\ acked \in SUBSET Ids /\ sub.id \in Ids \cup {None}
    BY DEF TypeOK, SubType
  <1>2. seen.writes \in Int /\ copying.writes \in Int
    BY DEF TypeOK, SeenType, CopyingType
  <1>3. CopyIsFaithful' /\ CountsAreFaithful'
    BY <1>1, <1>2 DEF CopyIsFaithful, CountsAreFaithful
  <1>4. InFlight' /\ AckedPresent'
    BY <1>1 DEF InFlight, AckedPresent, Present
  <1>5. Owner'
    BY DEF Owner
  <1>6. QED
    BY <1>3, <1>4, <1>5

\* A step that leaves the records, the copies and the counts alone.
LEMMA OtherKeeps ==
    ASSUME DurableInv, TypeOK',
           UNCHANGED <<db, writes, file, copy, seen, copying, sub, acked>>,
           server' = "down" <=> server = "down"
    PROVE  DurableInv'
  BY DEF DurableInv, CopyIsFaithful, CountsAreFaithful, InFlight, AckedPresent, Owner, Present

LEMMA DurableStep == DurableInv /\ TypeOK' /\ [Next]_vars => DurableInv'
  <1> SUFFICES ASSUME DurableInv, TypeOK', [Next]_vars PROVE DurableInv'
    OBVIOUS
  <1>0. /\ db \in [Ids -> RecordType] /\ writes \in Nat /\ None \notin Ids
        /\ acked \in SUBSET Ids /\ sub.id \in Ids \cup {None}
        /\ seen.writes \in Int /\ copying.writes \in Int /\ sub \in SubType
    BY CheckpointAssumption DEF DurableInv, TypeOK, SeenType, CopyingType, SubType
  <1> USE DEF storeVars, copyVars, clientVars, procVars, followVars
  <1>1. ASSUME NEW q \in Ids, NEW s \in {"queued", "running", "done"}, NEW d, Write(q, s, d)
        PROVE  /\ writes' = writes + 1
               /\ \A p \in Ids : Present(db, p) => Present(db', p)
               /\ Present(db', q)
    BY <1>0, <1>1 DEF Write, Present
  <1>2. ASSUME NEW q \in Ids, RecordStep(q) PROVE DurableInv'
    BY <1>1, <1>2, WriteIsNoted DEF RecordStep, Begin, Progress, Finish, Cancel
  <1>3. ASSUME NEW q \in Ids, SubmitNew(q) PROVE DurableInv'
    <2>1. /\ writes' = writes + 1 /\ Present(db', q)
          /\ \A p \in Ids : Present(db, p) => Present(db', p)
      BY <1>1, <1>3 DEF SubmitNew
    <2>2. /\ sub.id = None /\ sub' = [id |-> q, at |-> "sync"] /\ server = "up"
          /\ ~Present(db, q)
          /\ UNCHANGED <<file, copy, seen, copying, acked, server>>
      BY <1>3 DEF SubmitNew, Present
    <2>3. q \notin acked /\ copying.by # "sync"
      BY <2>2 DEF DurableInv, AckedPresent, Owner
    <2>4. CopyIsFaithful' /\ CountsAreFaithful'
      BY <1>0, <2>1, <2>2 DEF DurableInv, CopyIsFaithful, CountsAreFaithful
    <2>5. InFlight' /\ AckedPresent' /\ Owner'
      BY <1>0, <2>1, <2>2, <2>3 DEF DurableInv, InFlight, AckedPresent, Owner, Present
    <2>6. QED
      BY <2>4, <2>5 DEF DurableInv
  <1>4. ASSUME NEW by \in {"thread", "sync", "stop"}, CopyStarts(by),
               by = "sync" => sub.id # None /\ sub.at = "sync", server # "down"
        PROVE  DurableInv'
    BY <1>0, <1>4 DEF CopyStarts, DurableInv, CopyIsFaithful, CountsAreFaithful, InFlight,
       AckedPresent, Owner, Present
  <1>5. CASE CopyBackup
    BY <1>0, <1>5 DEF CopyBackup, DurableInv, TypeOK, CopyingType, CopyIsFaithful,
       CountsAreFaithful, InFlight, AckedPresent, Owner, Present
  <1>6. CASE CopyCommits
    <2>1. /\ copying.by # "nobody" /\ copying.at = "commit" /\ server # "down"
          /\ copy' = file /\ seen'.writes = copying.writes /\ copying' = NoCopy
          /\ sub'.id = sub.id /\ server' # "down"
          /\ sub' = sub \/ (copying.by = "sync" /\ sub.id # None)
          /\ UNCHANGED <<db, writes, file, acked>>
      BY <1>0, <1>6 DEF CopyCommits, Counts, SubType, DurableInv, Owner
    <2>2. CopyIsFaithful' /\ CountsAreFaithful'
      BY <1>0, <2>1 DEF DurableInv, CopyIsFaithful, CountsAreFaithful, NoCopy
    <2>3. AckedPresent' /\ Owner'
      BY <2>1 DEF DurableInv, AckedPresent, Owner, Present, NoCopy
    <2>4. InFlight'
      <3>1. CASE copying.by = "sync"
        BY <2>1, <3>1 DEF DurableInv, InFlight, Present, NoCopy
      <3>2. CASE copying.by # "sync"
        BY <2>1, <3>2 DEF DurableInv, InFlight, Present, NoCopy
      <3>3. QED
        BY <3>1, <3>2
    <2>5. QED
      BY <2>2, <2>3, <2>4 DEF DurableInv
  <1>7. CASE CopyFails
    <2>1. /\ copying' = NoCopy /\ sub'.id = sub.id /\ server' = server /\ server # "down"
          /\ sub' = sub \/ (copying.by = "sync" /\ sub'.at = "failed")
          /\ UNCHANGED <<db, writes, file, copy, seen, acked>>
      BY <1>0, <1>7 DEF CopyFails, SubType
    <2>2. CopyIsFaithful' /\ CountsAreFaithful' /\ AckedPresent' /\ Owner'
      BY <1>0, <2>1 DEF DurableInv, CopyIsFaithful, CountsAreFaithful, AckedPresent, Owner,
         Present, NoCopy
    <2>3. InFlight'
      BY <2>1 DEF DurableInv, InFlight, Present, NoCopy
    <2>4. QED
      BY <2>2, <2>3 DEF DurableInv
  <1>8. CASE SyncSkips
    <2>1. /\ sub.id # None /\ sub'.id = sub.id /\ writes = seen.writes /\ server # "down"
          /\ copying.by = "nobody"
          /\ UNCHANGED <<db, writes, file, copy, seen, copying, acked, server>>
      BY <1>0, <1>8 DEF SyncSkips, LockFree, SubType, DurableInv, InFlight
    <2>2. CopyIsFaithful' /\ CountsAreFaithful' /\ AckedPresent' /\ Owner'
      BY <2>1 DEF DurableInv, CopyIsFaithful, CountsAreFaithful, AckedPresent, Owner, Present
    <2>3. InFlight'
      BY <2>1 DEF DurableInv, InFlight, CountsAreFaithful, Owner, Present
    <2>4. QED
      BY <2>2, <2>3 DEF DurableInv
  <1>9. CASE Acknowledge
    <2>1. /\ sub.id \in Ids /\ sub.at = "synced" /\ sub'.id = None /\ server # "down"
          /\ acked' = acked \cup {sub.id} /\ copying.by # "sync"
          /\ UNCHANGED <<db, writes, file, copy, seen, copying, server>>
      BY <1>0, <1>9 DEF Acknowledge, NoSub, DurableInv, InFlight, Owner
    <2>2. /\ Present(copy, sub.id) /\ Present(db, sub.id)
          /\ copying.at = "commit" => Present(file, sub.id)
      BY <1>0, <2>1 DEF DurableInv, InFlight
    <2>3. CopyIsFaithful' /\ CountsAreFaithful' /\ InFlight' /\ Owner'
      BY <2>1 DEF DurableInv, CopyIsFaithful, CountsAreFaithful, InFlight, Owner
    <2>4. QED
      BY <2>1, <2>2, <2>3 DEF DurableInv, AckedPresent, Present
  <1>10. CASE Discard
    <2>1. /\ sub.id \in Ids /\ sub.id \notin acked /\ sub' = NoSub /\ server # "down"
          /\ copying.by # "sync" /\ writes' = writes + 1
          /\ \A q \in acked : Present(db, q) => Present(db', q)
          /\ UNCHANGED <<file, copy, seen, copying, acked, server>>
      BY <1>0, <1>10 DEF Discard, DurableInv, InFlight, Owner, Present
    <2>2. QED
      BY <1>0, <2>1 DEF DurableInv, CopyIsFaithful, CountsAreFaithful, InFlight,
         AckedPresent, Owner, Present, NoSub
  <1>11. CASE GoDown
    <2>1. /\ server' = "down" /\ copy' = copy /\ file' = copy /\ writes' = 0
          /\ seen' = Unseen /\ copying' = NoCopy /\ sub' = NoSub /\ acked' = acked
      BY <1>11 DEF GoDown
    <2>2. QED
      BY <2>1 DEF Unseen, DurableInv, CopyIsFaithful, CountsAreFaithful, InFlight, AckedPresent,
         Owner, Present, NoCopy, NoSub
  <1>12. CASE Restart
    <2>1. /\ server = "down" /\ server' = "up" /\ writes' \in {0, 1} /\ db' = Recovered
          /\ UNCHANGED <<file, copy, seen, copying, sub, acked>>
      BY <1>12 DEF Restart
    <2>2. \A q \in Ids : Present(copy, q) => Present(Recovered, q)
      BY DEF Recovered, Present
    <2>3. sub = NoSub /\ copying = NoCopy /\ seen = Unseen
      BY <2>1 DEF DurableInv, Owner
    <2>4. CopyIsFaithful'
      BY <2>1, <2>3 DEF CopyIsFaithful, NoCopy
    <2>5. seen'.writes = -1
      BY <2>1, <2>3 DEF Unseen
    <2>6. CountsAreFaithful'
      BY <2>1, <2>5 DEF CountsAreFaithful
    <2>7. AckedPresent'
      BY <1>0, <2>1, <2>2, <2>3 DEF DurableInv, AckedPresent, NoCopy, Present
    <2>8. InFlight' /\ Owner'
      BY <2>1, <2>3 DEF InFlight, Owner, NoCopy, NoSub
    <2>9. QED
      BY <2>4, <2>6, <2>7, <2>8 DEF DurableInv
  <1>13. CASE TimerPasses \/ RequestStop \/ StopSkips
    <2>1. /\ UNCHANGED <<db, writes, file, copy, seen, copying, sub, acked>>
          /\ server' = "down" <=> server = "down"
      BY <1>13 DEF TimerPasses, RequestStop, StopSkips
    <2>2. QED
      BY <2>1, OtherKeeps
  <1>14. ASSUME UNCHANGED <<storeVars, copyVars, sub, acked, server>> PROVE DurableInv'
    BY <1>14, OtherKeeps
  <1>15. ASSUME NEW q \in Ids,
                SubmitAgain(q) \/ WatchOpens(q) \/ WatchStep(q) \/ PageOpens(q) \/ PageStep(q)
         PROVE  DurableInv'
    BY <1>14, <1>15 DEF SubmitAgain, WatchOpens, WatchStep, WatchReads, WatchRaises,
       PageOpens, PageStep, PageConnects, PageReads, PageFetches, PageErrs, Sleeps
  <1>16. CASE UNCHANGED vars
    BY <1>14, <1>16 DEF vars
  <1>17. ASSUME Notified \/ \E q \in Ids : \E who \in {"client", "page"} : TimesOut(who, q)
         PROVE  DurableInv'
    <2>1. /\ UNCHANGED <<db, writes, file, copy, seen, copying, sub, acked>>
          /\ server' = "down" <=> server = "down"
      BY <1>17 DEF Notified, TimesOut
    <2>2. QED
      BY <2>1, OtherKeeps
  <1>18. CASE ThreadStarts \/ SyncStarts \/ StopStarts
    BY <1>4, <1>18 DEF ThreadStarts, SyncStarts, StopStarts, DurableInv, InFlight
  <1>19. QED
    BY <1>2, <1>3, <1>5, <1>6, <1>7, <1>8, <1>9, <1>10, <1>11, <1>12, <1>13, <1>15, <1>16,
       <1>18, <1>17
       DEF Next, CopyStep, SubmissionStep, StopStep, StopEnds, Crash

\* The strengthened invariant holds of every behaviour.
THEOREM DurableCorrect == Spec => []DurableInv
  BY DurableInit, DurableStep, TypeSafe, PTL DEF Spec

\* An id its client was given survives every crash and restore.
THEOREM AckedSafe == Spec => []AckedSurvives
  <1>1. DurableInv => AckedSurvives
    BY DEF DurableInv, AckedPresent, AckedSurvives, Present
  <1>2. QED
    BY <1>1, DurableCorrect, PTL

-----------------------------------------------------------------------------
(* A clean stop *)

\* Nothing is written once a stop was asked for, so the counts of the last
\* copy are still the store's when it commits.
StopInv ==
    /\ server \in {"stopping", "stopped"} => sub.id = None
    /\ copying.by = "stop" => server = "stopping" /\ copying.writes = writes
    /\ server = "stopped" => copy = db /\ copying.by = "nobody"

LEMMA StopInit == Init => StopInv
  BY DEF Init, StopInv, NoCopy

LEMMA StopStepKeeps == DurableInv /\ DurableInv' /\ StopInv /\ [Next]_vars => StopInv'
  <1> SUFFICES ASSUME DurableInv, DurableInv', StopInv, [Next]_vars PROVE StopInv'
    OBVIOUS
  <1> USE DEF storeVars, copyVars, clientVars, procVars, followVars
  <1>0. None \notin Ids /\ copying \in CopyingType /\ sub \in SubType
    BY CheckpointAssumption DEF DurableInv, TypeOK
  <1>1. ASSUME NEW q \in Ids, RecordStep(q) PROVE StopInv'
    BY <1>1 DEF RecordStep, Begin, Progress, Finish, Cancel, StopInv
  <1>2. ASSUME NEW q \in Ids, SubmitNew(q) PROVE StopInv'
    BY <1>2 DEF SubmitNew, StopInv
  <1>3. ASSUME UNCHANGED <<db, writes, copy, copying, server>>,
               sub'.id = sub.id \/ sub'.id = None
        PROVE  StopInv'
    BY <1>3 DEF StopInv
  <1>4. CASE ThreadStarts \/ SyncStarts \/ StopStarts
    BY <1>4 DEF ThreadStarts, SyncStarts, StopStarts, CopyStarts, LockFree, StopInv
  <1>5. CASE CopyBackup
    <2>1. /\ copying'.by = copying.by /\ copying'.writes = copying.writes
          /\ UNCHANGED <<db, writes, copy, sub, server>>
      BY <1>0, <1>5 DEF CopyBackup, CopyingType
    <2>2. QED
      BY <2>1 DEF StopInv
  <1>6. CASE CopyCommits
    <2>1. /\ copying.by # "nobody" /\ copying.at = "commit" /\ copy' = file
          /\ copying'.by = "nobody" /\ sub'.id = sub.id /\ db' = db
          /\ server' = IF copying.by = "stop" THEN "stopped" ELSE server
      BY <1>0, <1>6 DEF CopyCommits, NoCopy, SubType
    <2>2. CASE copying.by = "stop"
      BY <2>1, <2>2 DEF StopInv, DurableInv, CopyIsFaithful
    <2>3. CASE copying.by # "stop"
      BY <2>1, <2>3 DEF StopInv
    <2>4. QED
      BY <2>2, <2>3
  <1>7. CASE CopyFails
    <2>1. /\ copying'.by = "nobody" /\ sub'.id = sub.id
          /\ UNCHANGED <<db, writes, copy, server>>
      BY <1>0, <1>7 DEF CopyFails, NoCopy, SubType
    <2>2. QED
      BY <2>1 DEF StopInv
  <1>8. CASE SyncSkips \/ Acknowledge
    <2>1. sub'.id = sub.id \/ sub'.id = None
      BY <1>0, <1>8 DEF SyncSkips, Acknowledge, NoSub, SubType
    <2>2. UNCHANGED <<db, writes, copy, copying, server>>
      BY <1>8 DEF SyncSkips, Acknowledge
    <2>3. QED
      BY <2>1, <2>2, <1>3
  <1>9. CASE Discard
    <2>1. server = "up" /\ copying.by # "stop" /\ server' = server /\ copying' = copying
      BY <1>9 DEF Discard, StopInv, DurableInv, InFlight, TypeOK
    <2>2. QED
      BY <2>1 DEF StopInv
  <1>10. CASE TimerPasses
    BY <1>3, <1>10 DEF TimerPasses
  <1>11. CASE RequestStop
    BY <1>11 DEF RequestStop, StopInv
  <1>12. CASE StopSkips
    BY <1>12 DEF StopSkips, NothingNew, LockFree, StopInv, DurableInv, CountsAreFaithful
  <1>13. CASE GoDown
    <2>1. server' = "down" /\ copying'.by = "nobody"
      BY <1>13 DEF GoDown, NoCopy
    <2>2. QED
      BY <2>1 DEF StopInv
  <1>14. CASE Restart
    <2>1. server' = "up" /\ copying'.by = "nobody"
      BY <1>14 DEF Restart, DurableInv, Owner, NoCopy
    <2>2. QED
      BY <2>1 DEF StopInv
  <1>15. ASSUME NEW q \in Ids,
                SubmitAgain(q) \/ WatchOpens(q) \/ WatchStep(q) \/ PageOpens(q) \/ PageStep(q)
         PROVE  StopInv'
    BY <1>3, <1>15 DEF SubmitAgain, WatchOpens, WatchStep, WatchReads, WatchRaises,
       PageOpens, PageStep, PageConnects, PageReads, PageFetches, PageErrs, Sleeps
  <1>16. CASE UNCHANGED vars
    BY <1>3, <1>16 DEF vars
  <1>17. ASSUME Notified \/ \E q \in Ids : \E who \in {"client", "page"} : TimesOut(who, q)
         PROVE  StopInv'
    BY <1>3, <1>17 DEF Notified, TimesOut
  <1>18. QED
    BY <1>1, <1>2, <1>4, <1>5, <1>6, <1>7, <1>8, <1>9, <1>10, <1>11, <1>12, <1>13, <1>14,
       <1>15, <1>16, <1>17
       DEF Next, CopyStep, SubmissionStep, StopStep, StopEnds, Crash

\* A stop whose last copy succeeded has copied every write.
THEOREM CleanStopSafe == Spec => []CleanStopKeepsAll
  <1>1. StopInv => CleanStopKeepsAll
    BY DEF StopInv, CleanStopKeepsAll
  <1>2. Spec => []StopInv
    BY StopInit, StopStepKeeps, DurableCorrect, PTL DEF Spec
  <1>3. QED
    BY <1>1, <1>2, PTL

=============================================================================
