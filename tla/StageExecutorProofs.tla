------------------------- MODULE StageExecutorProofs -------------------------
(***************************************************************************)
(* Proofs about StageExecutor: where every document is while an operator   *)
(* runs, in which order its answers come back, that an operator ends with  *)
(* all of them settled, that one document of a stop key group survives,    *)
(* and that the KV arena stays sound under the loop and is left clean.     *)
(*                                                                         *)
(* The first invariant (QueueInv) says where a document may be: queued or  *)
(* held back by the chunk that is filled (Line), placed in the ready queue *)
(* or put off by that chunk (ReadySet), in a group of the chunk (Planned), *)
(* in a group of the pass that is out (Sent), or waiting for its stage to  *)
(* be decided.  It relates these lists to the stage the document is at,    *)
(* how far it was asked and how far it was answered.                       *)
(*                                                                         *)
(* The second (Loans) says which documents a chunk's readings and a        *)
(* lender's holds are for, so that every release, free and reservation is  *)
(* one the arena can serve, that whatever is resident is evictable, owed a *)
(* free or somebody's to settle, and that nothing is left held when an     *)
(* operator ends.  Each has a lemma for each action of the loop.           *)
(***************************************************************************)
EXTENDS StageExecutor, KVArenaProofs

Running == pc \notin {"start", "done", "failed", "stuck", "refused"}
Filling == pc \in {"ready", "admit", "close"}

Once(gs) == \A m, n \in DOMAIN gs : gs[m].doc = gs[n].doc => m = n
DocsOf(gs) == {gs[n].doc : n \in DOMAIN gs}

GroupType == [doc : Docs, stage : Nat, start : Nat, end : Nat, carried : BOOLEAN]

IsSched(S) == DOMAIN S = {"pending", "ready", "stage", "next", "received", "cost", "carried",
    "fewest", "reserve", "zero", "settled", "skipped", "waiting", "flight", "won", "blocked",
    "busy", "ended"}
IsChunk(C) == DOMAIN C = {"groups", "room", "pages", "temporary", "left", "blocked", "held",
    "deferred", "continued", "admitted"}
IsExec(X) == DOMAIN X = {"outstanding", "borrowers", "lowest", "lenders", "holding", "reserved"}
IsTree(T) == DOMAIN T = {"parent", "shared", "admitted", "skipped", "chosen"}

Launched == IF exec.outstanding = <<>> THEN <<>> ELSE exec.outstanding[1]
Planned == DocsOf(chunk.groups)
Sent == DocsOf(Launched)
ReadySet == Range(sched.ready) \union Range(chunk.deferred) \union Range(chunk.continued)
Line == Range(sched.pending) \union Range(chunk.held)

Shapes == IsSched(sched) /\ IsChunk(chunk) /\ IsExec(exec) /\ IsTree(tree)
Types ==
    /\ sched.pending \in Seq(Docs) /\ chunk.held \in Seq(Docs)
    /\ sched.ready \in Seq(Docs) /\ chunk.deferred \in Seq(Docs) /\ chunk.continued \in Seq(Docs)
    /\ sched.waiting \in Seq(Docs) /\ sched.skipped \in Seq(Docs)
    /\ sched.stage \in [Docs -> Stages \union {Queued, Done}]
    /\ sched.next \in [Docs -> Nat] /\ sched.received \in [Docs -> Nat]
    /\ chunk.groups \in Seq(GroupType) /\ chunk.left \in Nat
    /\ exec.outstanding \in Seq(Seq(GroupType)) /\ Len(exec.outstanding) <= 1
    /\ sched.won \subseteq Docs
    /\ tree.admitted \subseteq Docs /\ tree.skipped \subseteq Docs

Unshared ==
    /\ NoRepeats(sched.pending) /\ NoRepeats(chunk.held)
    /\ Range(sched.pending) \intersect Range(chunk.held) = {}
    /\ NoRepeats(sched.ready) /\ NoRepeats(chunk.deferred) /\ NoRepeats(chunk.continued)
    /\ Range(sched.ready) \intersect Range(chunk.deferred) = {}
    /\ Range(sched.ready) \intersect Range(chunk.continued) = {}
    /\ Range(chunk.deferred) \intersect Range(chunk.continued) = {}
Lists ==
    /\ Unshared /\ NoRepeats(sched.waiting)
    /\ Once(chunk.groups) /\ Once(Launched)

Queues ==
    /\ \A d \in Line : sched.stage[d] \in {Queued, Done}
    /\ \A d \in Docs : sched.stage[d] = Queued =>
          d \in Line /\ sched.next[d] = 0 /\ sched.received[d] = 0 /\ d \notin tree.admitted
    /\ \A d \in tree.skipped \union Range(sched.skipped) :
          sched.stage[d] = Done /\ d \notin tree.admitted
    /\ InRun \subseteq tree.admitted /\ sched.won \subseteq tree.admitted
    /\ ReadySet \union Planned \union Sent \subseteq InRun

Streams ==
    /\ Range(sched.waiting) \subseteq Range(sched.ready)
    /\ \A d \in Range(sched.waiting) :
          d \notin Planned /\ d \notin Sent /\ sched.next[d] = 0 /\ sched.received[d] = 0
    /\ \A d \in InRun : d \notin Range(sched.waiting) =>
          /\ sched.next[d] <= Partners(d, sched.stage[d])
          /\ d \in ReadySet <=> sched.next[d] < Partners(d, sched.stage[d])
          /\ d \in ReadySet \union Planned \union Sent

Chains ==
    /\ \A g \in Range(Launched) :
          /\ g.stage = sched.stage[g.doc] /\ g.start < g.end
          /\ g.start = sched.received[g.doc]
          /\ g.doc \notin Planned => g.end = sched.next[g.doc]
    /\ \A h \in Range(chunk.groups) :
          /\ h.stage = sched.stage[h.doc] /\ h.start < h.end
          /\ h.end = sched.next[h.doc]
          /\ h.doc \notin Sent => h.start = sched.received[h.doc]
          /\ \A g \in Range(Launched) : g.doc = h.doc => h.start = g.end
    /\ \A d \in InRun : d \notin Planned \union Sent => sched.received[d] = sched.next[d]

Turns ==
    /\ pc # "report" => sched.waiting = <<>>
    /\ ~Filling => chunk.held = <<>> /\ chunk.deferred = <<>> /\ chunk.continued = <<>>
    /\ Filling => (Range(sched.ready) \union Range(chunk.deferred)) \intersect Planned = {}
    /\ pc = "ready" => chunk.left <= Len(sched.ready)
    /\ pc = "report" => back \in {"top", "submit"} /\ exec.outstanding # <<>>
    /\ pc = "submit" => exec.outstanding = <<>>
    /\ pc \in {"top", "evict", "empty", "end", "between"} => chunk.groups = <<>>
    /\ pc = "report" /\ back = "top" => chunk.groups = <<>>
    /\ pc \in {"end", "between"} => LimitReached \/ \A d \in Docs : sched.stage[d] = Done

Members == Types /\ Lists /\ Queues /\ Streams /\ Chains
           /\ sched.flight = Len(chunk.groups) + Len(Launched)

QueueInv == Running => Shapes /\ Members /\ Turns

GroupsInv == Running /\ StopWidth = 1 /\ GroupOf # <<>> =>
    /\ sched.busy \in [Range(GroupOf) -> Nat]
    /\ \A d, e \in InRun : GroupOf[d] = GroupOf[e] => d = e
    /\ \A d \in InRun : sched.busy[GroupOf[d]] > 0
    /\ \A d \in sched.won, e \in Docs : GroupOf[d] = GroupOf[e] => sched.stage[e] = Done
    /\ \A g \in sched.ended : \E d \in sched.won : GroupOf[d] = g

-----------------------------------------------------------------------------
(* Sequences without repetitions.                                          *)
LEMMA EmptyIs ==
    /\ \A S : <<>> \in Seq(S)
    /\ Range(<<>>) = {} /\ DocsOf(<<>>) = {} /\ NoRepeats(<<>>) /\ Once(<<>>) /\ Len(<<>>) = 0
    /\ \A S : \A s \in Seq(S) : Len(s) = 0 \/ Range(s) = {} => s = <<>>
  <1>1. DOMAIN <<>> = {} /\ Len(<<>>) = 0
    OBVIOUS
  <1>2. ASSUME NEW S, NEW s \in Seq(S), Len(s) = 0 \/ Range(s) = {} PROVE s = <<>>
    <2>1. Len(s) \in Nat /\ DOMAIN s = 1 .. Len(s)
      OBVIOUS
    <2>2. Range(s) = {} => Len(s) = 0
      <3>1. Len(s) > 0 => s[1] \in Range(s)
        BY <2>1 DEF Range
      <3> QED BY <3>1, <2>1
    <2> QED BY <1>2, <2>1, <2>2
  <1> QED BY <1>1, <1>2 DEF Range, DocsOf, NoRepeats, Once

LEMMA OnceIs ==
    ASSUME NEW S, NEW s \in Seq(S)
    PROVE  /\ s # <<>> => /\ DocsOf(s) = DocsOf(Tail(s)) \union {Head(s).doc}
                          /\ Once(s) => Once(Tail(s)) /\ Head(s).doc \notin DocsOf(Tail(s))
           /\ \A e \in S : /\ DocsOf(Append(s, e)) = DocsOf(s) \union {e.doc}
                           /\ Once(s) /\ e.doc \notin DocsOf(s) => Once(Append(s, e))
           /\ DocsOf(s) = {g.doc : g \in Range(s)}
           /\ Once(s) => \A g, h \in Range(s) : g.doc = h.doc => g = h
  <1>1. Len(s) \in Nat /\ DOMAIN s = 1 .. Len(s)
    OBVIOUS
  <1> DEFINE f == [n \in 1 .. Len(s) |-> s[n].doc]
             D == {s[n].doc : n \in 1 .. Len(s)}
  <1>2. f \in Seq(D) /\ Len(f) = Len(s) /\ Range(f) = DocsOf(s) /\ (NoRepeats(f) <=> Once(s))
    BY <1>1 DEF Range, DocsOf, NoRepeats, Once
  <1>3. ASSUME s # <<>>
        PROVE  /\ DocsOf(s) = DocsOf(Tail(s)) \union {Head(s).doc}
               /\ Once(s) => Once(Tail(s)) /\ Head(s).doc \notin DocsOf(Tail(s))
    <2>1. /\ Len(s) > 0 /\ Head(s) = s[1] /\ DOMAIN Tail(s) = 1 .. Len(s) - 1
          /\ \A n \in 1 .. Len(s) - 1 : Tail(s)[n] = s[n + 1]
      BY <1>1, <1>3
    <2>2. /\ f # <<>> /\ Head(f) = Head(s).doc /\ DOMAIN Tail(f) = 1 .. Len(s) - 1
          /\ \A n \in 1 .. Len(s) - 1 : Tail(f)[n] = Tail(s)[n].doc
      <3>1. Len(f) > 0 /\ f # <<>> /\ Head(f) = f[1] /\ DOMAIN Tail(f) = 1 .. Len(f) - 1
        BY <1>2, <2>1
      <3>2. \A n \in 1 .. Len(f) - 1 : Tail(f)[n] = f[n + 1] /\ n + 1 \in 1 .. Len(s)
        BY <1>2, <1>1
      <3>3. f[1] = s[1].doc
        BY <2>1, <1>1
      <3> HIDE DEF f, D
      <3>4. \A n \in 1 .. Len(s) - 1 : f[n + 1] = s[n + 1].doc
        BY <1>1 DEF f
      <3> QED BY <3>1, <3>2, <3>3, <3>4, <2>1, <1>2
    <2>3. DocsOf(Tail(s)) = Range(Tail(f)) /\ (Once(Tail(s)) <=> NoRepeats(Tail(f)))
      <3> DEFINE t == Tail(s)
                 u == Tail(f)
      <3>1. /\ DOMAIN t = DOMAIN u
            /\ \A n \in DOMAIN t : u[n] = t[n].doc
        BY <2>1, <2>2
      <3> HIDE DEF f, D, t, u
      <3>2. DocsOf(t) = Range(u)
        BY <3>1 DEF Range, DocsOf
      <3>3. Once(t) <=> NoRepeats(u)
        BY <3>1 DEF NoRepeats, Once
      <3> QED BY <3>2, <3>3 DEF t, u
    <2> HIDE DEF f, D
    <2>4. /\ Range(f) = Range(Tail(f)) \union {Head(f)}
          /\ NoRepeats(f) => NoRepeats(Tail(f)) /\ Head(f) \notin Range(Tail(f))
      BY <1>2, <2>2, TailIs
    <2> QED BY <2>2, <2>3, <2>4, <1>2
  <1>4. ASSUME NEW e \in S
        PROVE  /\ DocsOf(Append(s, e)) = DocsOf(s) \union {e.doc}
               /\ Once(s) /\ e.doc \notin DocsOf(s) => Once(Append(s, e))
    <2>1. /\ DOMAIN Append(s, e) = 1 .. Len(s) + 1 /\ Append(s, e)[Len(s) + 1] = e
          /\ \A n \in 1 .. Len(s) : Append(s, e)[n] = s[n]
      BY <1>1
    <2>2. \A n \in 1 .. Len(s) + 1 : n \in 1 .. Len(s) \/ n = Len(s) + 1
      BY <1>1
    <2>3. 1 .. Len(s) \subseteq 1 .. Len(s) + 1 /\ Len(s) + 1 \in 1 .. Len(s) + 1
      BY <1>1
    <2>4. DocsOf(Append(s, e)) = DocsOf(s) \union {e.doc}
      BY <1>1, <2>1, <2>2, <2>3 DEF DocsOf
    <2>5. ASSUME Once(s), e.doc \notin DocsOf(s) PROVE Once(Append(s, e))
      <3>1. \A n \in 1 .. Len(s) : s[n].doc # e.doc
        BY <2>5, <1>1 DEF DocsOf
      <3> QED BY <2>5, <3>1, <1>1, <2>1, <2>2 DEF Once
    <2> QED BY <2>4, <2>5
  <1>5. DocsOf(s) = {g.doc : g \in Range(s)}
    BY DEF DocsOf, Range
  <1>6. Once(s) => \A g, h \in Range(s) : g.doc = h.doc => g = h
    BY DEF Once, Range
  <1> QED BY <1>3, <1>4, <1>5, <1>6

-----------------------------------------------------------------------------
(* A plan and the operator that runs.                                      *)
Pcs == {"start", "top", "evict", "ready", "admit", "close", "empty", "pass", "submit", "report",
        "end", "between", "done", "failed", "stuck", "refused"}
BaseInv == plan \in Plans /\ op \in DOMAIN Ops /\ pc \in Pcs

LEMMA PlanIs ==
    ASSUME BaseInv
    PROVE  /\ Text \in Seq(Seq(Nat)) /\ Len(Text) \in Nat /\ Docs = 1 .. Len(Text)
           /\ IsFiniteSet(Docs) /\ Docs \subseteq Nat /\ Docs \subseteq Int /\ Docs \subseteq Keys
           /\ Queued \notin Docs
           /\ Ops \in Seq(OpRecord(Docs)) /\ This \in OpRecord(Docs)
           /\ LastStage \in Nat /\ LastStage > 0 /\ Stages = 1 .. LastStage /\ Stages \subseteq Nat
           /\ Queued \notin Stages /\ Done \notin Stages /\ Queued # Done /\ 1 \in Stages
           /\ \A d \in Docs : Length(d) \in Nat
           /\ \A d \in Docs, j \in Stages : Partners(d, j) \in Nat
           /\ GroupOf # <<>> => DOMAIN GroupOf = Docs
           /\ StopWidth \in Nat
  <1>1. PlanRecord(plan) /\ StopWidth \in Nat \ {0}
    BY ExecutorAssumption DEF BaseInv
  <1>2. /\ Text \in Seq(Seq(Nat)) /\ Docs \subseteq Keys /\ Ops \in Seq(OpRecord(Docs))
        /\ GroupOf \in Seq(Nat) /\ Len(GroupOf) \in {0, Len(Text)}
        /\ \A o \in DOMAIN Ops : Len(Ops[o].stages) > 0
                                 /\ \A d \in Docs : Len(Ops[o].asks[d]) = Len(Ops[o].stages)
    BY <1>1 DEF PlanRecord, Text, Docs, Ops, GroupOf
  <1>3. Len(Text) \in Nat /\ Docs = 1 .. Len(Text)
    BY <1>2 DEF Docs
  <1>4. IsFiniteSet(Docs)
    BY <1>3, FS_Interval
  <1>5. Docs \subseteq Nat /\ Queued \notin Docs
    BY <1>3 DEF Queued
  <1>6. This \in OpRecord(Docs) /\ Len(This.stages) > 0
        /\ \A d \in Docs : Len(This.asks[d]) = Len(This.stages)
    BY <1>2 DEF This, BaseInv
  <1>7. This.stages \in Seq(StageRecord) /\ This.asks \in [Docs -> Seq(Nat)]
    BY <1>6 DEF OpRecord
  <1>8. LastStage \in Nat /\ LastStage > 0 /\ Stages = 1 .. LastStage
    BY <1>6, <1>7 DEF LastStage, Stages
  <1>9. Stages \subseteq Nat /\ Queued \notin Stages /\ Done \notin Stages /\ 1 \in Stages
    BY <1>8 DEF Queued, Done
  <1>10. ASSUME NEW d \in Docs, NEW j \in Stages PROVE Partners(d, j) \in Nat
    <2>1. This.asks[d] \in Seq(Nat) /\ Len(This.asks[d]) = LastStage
      BY <1>6, <1>7 DEF LastStage
    <2>2. j \in 1 .. Len(This.asks[d])
      BY <2>1, <1>8
    <2> QED BY <2>1, <2>2 DEF Partners
  <1>11. GroupOf # <<>> => DOMAIN GroupOf = Docs
    <2>1. Len(GroupOf) = 0 => GroupOf = <<>>
      BY <1>2
    <2> QED BY <2>1, <1>2, <1>3
  <1>12. \A d \in Docs : Length(d) \in Nat
    BY <1>2, <1>3 DEF Length
  <1> QED BY <1>1, <1>2, <1>3, <1>4, <1>5, <1>6, <1>8, <1>9, <1>10, <1>11, <1>12 DEF Queued, Done

LEMMA Frozen ==
    ASSUME plan' = plan, op' = op
    PROVE  /\ Text' = Text /\ Docs' = Docs /\ Ops' = Ops /\ GroupOf' = GroupOf /\ This' = This
           /\ Stages' = Stages /\ LastStage' = LastStage
           /\ \A d, j : Partners(d, j)' = Partners(d, j)
           /\ \A d : Length(d)' = Length(d)
           /\ GroupType' = GroupType
  BY DEF Text, Docs, Ops, GroupOf, This, Stages, LastStage, Partners, Length, GroupType

(* The queues stay as they are.                                            *)
Unmoved ==
    /\ plan' = plan /\ op' = op
    /\ sched'.pending = sched.pending /\ sched'.ready = sched.ready /\ sched'.stage = sched.stage
    /\ sched'.next = sched.next /\ sched'.received = sched.received
    /\ sched'.waiting = sched.waiting /\ sched'.skipped = sched.skipped
    /\ sched'.won = sched.won /\ sched'.flight = sched.flight
    /\ sched'.busy = sched.busy /\ sched'.ended = sched.ended
    /\ chunk'.groups = chunk.groups /\ chunk'.held = chunk.held
    /\ chunk'.deferred = chunk.deferred /\ chunk'.continued = chunk.continued
    /\ exec'.outstanding = exec.outstanding
    /\ tree'.admitted = tree.admitted /\ tree'.skipped = tree.skipped

LEMMA UnmovedSets ==
    ASSUME Unmoved
    PROVE  /\ Launched' = Launched /\ Planned' = Planned /\ Sent' = Sent /\ ReadySet' = ReadySet
           /\ Line' = Line /\ InRun' = InRun /\ LimitReached' = LimitReached
  <1>1. Docs' = Docs /\ Stages' = Stages /\ This' = This
    BY Frozen DEF Unmoved
  <1>2. Launched' = Launched
    BY DEF Launched, Unmoved
  <1> QED BY <1>1, <1>2 DEF Unmoved, Planned, Sent, ReadySet, Line, InRun, LimitReached

LEMMA UnmovedKeeps ==
    ASSUME Members, Unmoved, chunk'.left \in Nat
    PROVE  Members'
  <1>1. /\ Docs' = Docs /\ Stages' = Stages /\ GroupType' = GroupType
        /\ \A d, j : Partners(d, j)' = Partners(d, j)
    BY Frozen DEF Unmoved
  <1>2. /\ Launched' = Launched /\ Planned' = Planned /\ Sent' = Sent /\ ReadySet' = ReadySet
        /\ Line' = Line /\ InRun' = InRun
    BY UnmovedSets
  <1>3. Types'
    BY <1>1 DEF Members, Types, Unmoved
  <1>4. Lists'
    BY <1>1, <1>2 DEF Members, Lists, Unshared, Unmoved
  <1>5. Queues'
    BY <1>1, <1>2 DEF Members, Queues, Unmoved
  <1>6. Streams'
    BY <1>1, <1>2 DEF Members, Streams, Unmoved
  <1>7. Chains'
    BY <1>1, <1>2 DEF Members, Chains, Unmoved
  <1> QED BY <1>2, <1>3, <1>4, <1>5, <1>6, <1>7 DEF Members, Unmoved

-----------------------------------------------------------------------------
(* The steps that leave the queues as they are.                            *)
LEMMA TopKeeps ==
    ASSUME BaseInv, QueueInv, Top
    PROVE  QueueInv' /\ Unmoved
  <1>1. pc = "top" /\ Running /\ ~Filling /\ Shapes /\ Members /\ Turns
    BY DEF Top, QueueInv, Running, Filling
  <1>2. Unmoved /\ chunk' = chunk /\ exec' = exec /\ tree' = tree /\ Shapes'
    BY <1>1 DEF Top, Unmoved, Shapes, IsSched
  <1>3. Members'
    BY <1>1, <1>2, UnmovedKeeps DEF Members, Types
  <1>4. /\ pc' \in {"end", "evict"} \/ (pc' = "report" /\ Len(exec.outstanding) > 1)
        /\ pc' = "end" => RunDone
    <2>1. IF RunDone THEN pc' = "end"
          ELSE IF Len(exec.outstanding) > 1 THEN pc' = "report" ELSE pc' = "evict"
      BY DEF Top
    <2> QED BY <2>1
  <1>5. pc' \in {"end", "evict"}
    BY <1>1, <1>4 DEF Members, Types
  <1>6. ASSUME RunDone, ~LimitReached, NEW d \in Docs PROVE sched.stage[d] = Done
    <2>1. /\ sched.waiting = <<>> /\ chunk.deferred = <<>> /\ chunk.continued = <<>>
          /\ chunk.held = <<>> /\ chunk.groups = <<>>
      BY <1>1 DEF Turns
    <2>2. sched.ready = <<>> /\ sched.flight = 0
          /\ \A e \in Range(sched.pending) : sched.stage[e] = Done
      BY <1>6 DEF RunDone
    <2>3. ReadySet = {} /\ Planned = {} /\ Line = Range(sched.pending) /\ Range(sched.waiting) = {}
      BY <2>1, <2>2, EmptyIs DEF ReadySet, Planned, Line
    <2>4. Launched \in Seq(GroupType)
      BY <1>1 DEF Members, Types, Launched
    <2>5. Len(Launched) = 0
      BY <1>1, <2>1, <2>2, <2>4 DEF Members
    <2>6. Sent = {}
      BY <2>4, <2>5, EmptyIs DEF Sent
    <2>7. sched.stage[d] \notin Stages
      BY <1>1, <2>3, <2>6 DEF Members, Streams, InRun
    <2>8. sched.stage[d] # Queued
      <3>1. sched.stage[d] = Queued => d \in Range(sched.pending)
        BY <1>1, <2>3 DEF Members, Queues
      <3> QED BY <3>1, <2>2, PlanIs
    <2> QED BY <2>7, <2>8, <1>1 DEF Members, Types
  <1>7. pc' = "end" => LimitReached' \/ \A d \in Docs' : sched'.stage[d] = Done
    <2>1. LimitReached' = LimitReached /\ Docs' = Docs /\ sched'.stage = sched.stage
      BY <1>2, UnmovedSets, Frozen DEF Unmoved
    <2> QED BY <2>1, <1>4, <1>6
  <1>8. Turns'
    BY <1>1, <1>2, <1>5, <1>7 DEF Turns, Filling, Unmoved
  <1> QED BY <1>2, <1>3, <1>8 DEF QueueInv

LEMMA MakeRoomKeeps ==
    ASSUME BaseInv, QueueInv, MakeRoom
    PROVE  QueueInv' /\ Unmoved
  <1>1. pc = "evict" /\ Running /\ ~Filling /\ Shapes /\ Members /\ Turns
    BY DEF MakeRoom, QueueInv, Running, Filling
  <1>2. /\ chunk.held = <<>> /\ chunk.deferred = <<>> /\ chunk.continued = <<>>
        /\ chunk.groups = <<>> /\ sched.waiting = <<>>
    BY <1>1 DEF Turns
  <1>3. /\ chunk'.held = <<>> /\ chunk'.deferred = <<>> /\ chunk'.continued = <<>>
        /\ chunk'.groups = <<>> /\ chunk'.left = Len(sched.ready) /\ IsChunk(chunk')
    BY DEF MakeRoom, NoChunk, IsChunk
  <1>4. /\ Unmoved /\ exec' = exec /\ tree' = tree
        /\ IsSched(sched') /\ sched'.ready = sched.ready
    BY <1>1, <1>2, <1>3 DEF MakeRoom, Unmoved, Shapes, IsSched
  <1>5. Shapes'
    BY <1>1, <1>3, <1>4 DEF Shapes
  <1>6. chunk'.left \in Nat
    BY <1>1, <1>3 DEF Members, Types
  <1>7. Members'
    BY <1>1, <1>4, <1>6, UnmovedKeeps
  <1>8. pc' \in {"empty", "ready"}
    BY DEF MakeRoom
  <1>9. Planned' = {}
    BY <1>3, EmptyIs DEF Planned
  <1>10. chunk'.left <= Len(sched'.ready)
    BY <1>3, <1>4, <1>6
  <1>11. Turns'
    BY <1>2, <1>3, <1>4, <1>8, <1>9, <1>10 DEF Turns, Filling, Unmoved
  <1> QED BY <1>4, <1>5, <1>7, <1>11 DEF QueueInv

LEMMA ReadyTakenKeeps ==
    ASSUME BaseInv, QueueInv, ReadyTaken
    PROVE  QueueInv' /\ Unmoved
  <1>1. pc = "ready" /\ Running /\ Filling /\ Shapes /\ Members /\ Turns
    BY DEF ReadyTaken, QueueInv, Running, Filling
  <1>2. /\ Unmoved /\ chunk' = chunk /\ sched' = sched /\ exec' = exec /\ tree' = tree
        /\ pc' = "admit"
    BY DEF ReadyTaken, Unmoved
  <1>3. Members'
    BY <1>1, <1>2, UnmovedKeeps DEF Members, Types
  <1>4. Turns'
    BY <1>1, <1>2, UnmovedSets DEF Turns, Filling, Unmoved
  <1> QED BY <1>1, <1>2, <1>3, <1>4 DEF QueueInv, Shapes

LEMMA NothingKeeps ==
    ASSUME BaseInv, QueueInv, Nothing
    PROVE  QueueInv' /\ Unmoved
  <1>1. pc = "empty" /\ Running /\ ~Filling /\ Shapes /\ Members /\ Turns
    BY DEF Nothing, QueueInv, Running, Filling
  <1>2. /\ Unmoved /\ chunk' = chunk /\ sched' = sched /\ exec' = exec /\ tree' = tree
        /\ \/ pc' \in {"top", "stuck"}
           \/ pc' = "report" /\ back' = "top" /\ exec.outstanding # <<>>
    BY DEF Nothing, Unmoved
  <1>3. Members'
    BY <1>1, <1>2, UnmovedKeeps DEF Members, Types
  <1>4. pc' # "stuck" => Turns'
    BY <1>1, <1>2, UnmovedSets DEF Turns, Filling, Unmoved
  <1> QED BY <1>1, <1>2, <1>3, <1>4 DEF QueueInv, Shapes, Running

LEMMA RunPassKeeps ==
    ASSUME BaseInv, QueueInv, RunPass
    PROVE  QueueInv' /\ Unmoved
  <1>1. pc = "pass" /\ Running /\ ~Filling /\ Shapes /\ Members /\ Turns
    BY DEF RunPass, QueueInv, Running, Filling
  <1>2. /\ Unmoved /\ chunk' = chunk /\ sched' = sched /\ exec' = exec /\ tree' = tree
        /\ \/ pc' = "submit" /\ exec.outstanding = <<>>
           \/ pc' = "report" /\ back' = "submit" /\ exec.outstanding # <<>>
    BY DEF RunPass, Unmoved
  <1>3. Members'
    BY <1>1, <1>2, UnmovedKeeps DEF Members, Types
  <1>4. Turns'
    BY <1>1, <1>2, UnmovedSets DEF Turns, Filling, Unmoved
  <1> QED BY <1>1, <1>2, <1>3, <1>4 DEF QueueInv, Shapes, Running

LEMMA EndKeeps ==
    ASSUME BaseInv, QueueInv, End
    PROVE  QueueInv' /\ Unmoved
  <1>1. pc = "end" /\ Running /\ ~Filling /\ Shapes /\ Members /\ Turns
    BY DEF End, QueueInv, Running, Filling
  <1>2. /\ Unmoved /\ chunk' = chunk /\ sched' = sched /\ exec' = exec /\ tree' = tree
        /\ pc' = "between"
    BY DEF End, Unmoved
  <1>3. Members'
    BY <1>1, <1>2, UnmovedKeeps DEF Members, Types
  <1>4. LimitReached' = LimitReached /\ Docs' = Docs
    BY <1>2, UnmovedSets, Frozen DEF Unmoved
  <1>5. Turns'
    BY <1>1, <1>2, <1>4, UnmovedSets DEF Turns, Filling, Unmoved
  <1> QED BY <1>1, <1>2, <1>3, <1>5 DEF QueueInv, Shapes, Running

-----------------------------------------------------------------------------
(* next_chunk: documents change lists, and no document changes its stage.  *)
Shuffled ==
    /\ plan' = plan /\ op' = op
    /\ sched'.stage = sched.stage /\ sched'.next = sched.next /\ sched'.received = sched.received
    /\ sched'.waiting = sched.waiting /\ sched'.skipped = sched.skipped
    /\ sched'.won = sched.won /\ sched'.flight = sched.flight
    /\ sched'.busy = sched.busy /\ sched'.ended = sched.ended
    /\ chunk'.groups = chunk.groups /\ exec'.outstanding = exec.outstanding
    /\ tree'.admitted = tree.admitted /\ tree'.skipped = tree.skipped

LEMMA ShuffledSets ==
    ASSUME Shuffled
    PROVE  /\ Launched' = Launched /\ Planned' = Planned /\ Sent' = Sent
           /\ InRun' = InRun /\ LimitReached' = LimitReached
  <1>1. Docs' = Docs /\ Stages' = Stages /\ This' = This
    BY Frozen DEF Shuffled
  <1>2. Launched' = Launched
    BY DEF Launched, Shuffled
  <1> QED BY <1>1, <1>2 DEF Shuffled, Planned, Sent, InRun, LimitReached

LEMMA ShuffleKeeps ==
    ASSUME Members, Shuffled, chunk'.left \in Nat, sched.waiting = <<>>,
           sched'.pending \in Seq(Docs), chunk'.held \in Seq(Docs), sched'.ready \in Seq(Docs),
           chunk'.deferred \in Seq(Docs), chunk'.continued \in Seq(Docs), Unshared',
           ReadySet' = ReadySet, Line' \subseteq Line,
           \A d \in Line \ Line' : sched.stage[d] # Queued
    PROVE  Members'
  <1>1. /\ Docs' = Docs /\ Stages' = Stages /\ GroupType' = GroupType
        /\ \A d, j : Partners(d, j)' = Partners(d, j)
    BY Frozen DEF Shuffled
  <1>2. /\ Launched' = Launched /\ Planned' = Planned /\ Sent' = Sent
        /\ InRun' = InRun
    BY ShuffledSets
  <1>3. Types'
    BY <1>1 DEF Members, Types, Shuffled
  <1>4. Lists'
    BY <1>1, <1>2 DEF Members, Lists, Shuffled
  <1>5. Queues'
    BY <1>1, <1>2 DEF Members, Queues, Shuffled
  <1>6. Streams'
    <2>1. Range(sched'.waiting) = {} /\ Range(sched.waiting) = {}
      BY EmptyIs DEF Shuffled
    <2> QED BY <1>1, <1>2, <2>1 DEF Members, Streams, Shuffled
  <1>7. Chains'
    BY <1>1, <1>2 DEF Members, Chains, Shuffled
  <1> QED BY <1>2, <1>3, <1>4, <1>5, <1>6, <1>7 DEF Members, Shuffled

(* The head of the queue goes, or is held back.                            *)
LEMMA PopKeeps ==
    ASSUME BaseInv, QueueInv, NEW d, Popping(d), Shuffled,
           sched'.pending = Tail(sched.pending), sched'.ready = sched.ready,
           chunk'.deferred = chunk.deferred, chunk'.continued = chunk.continued,
           chunk'.left = chunk.left,
           \/ chunk'.held = chunk.held /\ sched.stage[d] = Done
           \/ chunk'.held = Append(chunk.held, d),
           pc' \in {"admit", "close"}, Shapes'
    PROVE  QueueInv'
  <1>1. pc = "admit" /\ Running /\ Filling /\ Members /\ Turns
        /\ sched.pending # <<>> /\ d = Head(sched.pending)
    BY DEF Popping, QueueInv, Running, Filling
  <1>2. Types /\ Unshared
    BY <1>1 DEF Members, Lists
  <1>3. /\ sched'.pending \in Seq(Docs) /\ d \in Docs
        /\ Range(sched.pending) = Range(sched'.pending) \union {d}
        /\ NoRepeats(sched'.pending) /\ d \notin Range(sched'.pending)
    <2>1. sched.pending \in Seq(Docs) /\ NoRepeats(sched.pending)
      BY <1>2 DEF Types, Unshared
    <2> QED BY <2>1, <1>1, TailIs
  <1>4. /\ chunk'.held \in Seq(Docs) /\ NoRepeats(chunk'.held)
        /\ \/ Range(chunk'.held) = Range(chunk.held) \union {d}
           \/ Range(chunk'.held) = Range(chunk.held) /\ sched.stage[d] = Done
    <2>1. chunk.held \in Seq(Docs) /\ NoRepeats(chunk.held) /\ d \notin Range(chunk.held)
      BY <1>2, <1>3 DEF Types, Unshared
    <2>2. CASE chunk'.held = chunk.held /\ sched.stage[d] = Done
      BY <2>1, <2>2
    <2>3. CASE chunk'.held = Append(chunk.held, d)
      BY <2>1, <2>3, <1>3, AppendIs
    <2> QED BY <2>2, <2>3
  <1>5. Unshared'
    BY <1>2, <1>3, <1>4 DEF Unshared
  <1>6. ReadySet' = ReadySet
    BY DEF ReadySet
  <1>7. Line' \subseteq Line /\ \A e \in Line \ Line' : sched.stage[e] # Queued
    <2>1. \A e \in Line \ Line' : e = d /\ sched.stage[d] = Done
      BY <1>3, <1>4 DEF Line
    <2>2. Line' \subseteq Line
      BY <1>3, <1>4 DEF Line
    <2> QED BY <2>1, <2>2 DEF Queued, Done
  <1>8. sched.waiting = <<>> /\ chunk'.left \in Nat
    BY <1>1, <1>2 DEF Turns, Types
  <1>9. Members'
    <2>1. /\ sched'.ready \in Seq(Docs) /\ chunk'.deferred \in Seq(Docs)
          /\ chunk'.continued \in Seq(Docs)
      BY <1>2 DEF Types
    <2> QED BY <2>1, <1>1, <1>3, <1>4, <1>5, <1>6, <1>7, <1>8, ShuffleKeeps
  <1>10. Turns'
    BY <1>1, ShuffledSets DEF Turns, Filling, Shuffled
  <1> QED BY <1>9, <1>10 DEF QueueInv

HoldsBack(d) == HoldTurn(d) \/ HoldForPages(d) \/ HoldForRoom(d) \/ HoldForSuffix(d)

LEMMA HoldFields ==
    ASSUME BaseInv, QueueInv, NEW d, HoldsBack(d) \/ PopDead(d)
    PROVE  /\ Popping(d) /\ Shuffled /\ Shapes' /\ pc' \in {"admit", "close"}
           /\ sched'.pending = Tail(sched.pending) /\ sched'.ready = sched.ready
           /\ chunk'.deferred = chunk.deferred /\ chunk'.continued = chunk.continued
           /\ chunk'.left = chunk.left
           /\ \/ chunk'.held = chunk.held /\ sched.stage[d] = Done
              \/ chunk'.held = Append(chunk.held, d)
           /\ exec' = exec /\ tree' = tree /\ sched'.cost = sched.cost
  <1>1. Popping(d) /\ pc = "admit"
    BY DEF HoldsBack, PopDead, HoldTurn, HoldForPages, HoldForRoom, HoldForSuffix, Eligible, Live,
           Popping
  <1>2. Shapes
    BY <1>1 DEF QueueInv, Running
  <1>3. /\ IsSched(Popped) /\ Popped.pending = Tail(sched.pending) /\ Popped.ready = sched.ready
        /\ Popped.stage = sched.stage /\ Popped.next = sched.next
        /\ Popped.received = sched.received /\ Popped.waiting = sched.waiting
        /\ Popped.skipped = sched.skipped /\ Popped.won = sched.won
        /\ Popped.flight = sched.flight /\ Popped.busy = sched.busy /\ Popped.ended = sched.ended
        /\ Popped.cost = sched.cost
    <2>1. IsSched(sched)
      BY <1>2 DEF Shapes
    <2>2. IsSched(Popped)
      BY <2>1 DEF Popped, IsSched
    <2>3. /\ Popped.pending = Tail(sched.pending) /\ Popped.ready = sched.ready
          /\ Popped.stage = sched.stage /\ Popped.next = sched.next
          /\ Popped.received = sched.received /\ Popped.waiting = sched.waiting
          /\ Popped.skipped = sched.skipped /\ Popped.won = sched.won
          /\ Popped.flight = sched.flight /\ Popped.busy = sched.busy
          /\ Popped.ended = sched.ended /\ Popped.cost = sched.cost
      BY <2>1 DEF IsSched, Popped
    <2> QED BY <2>2, <2>3
  <1>4. /\ IsChunk(HeldBack(d)) /\ HeldBack(d).held = Append(chunk.held, d)
        /\ HeldBack(d).deferred = chunk.deferred /\ HeldBack(d).continued = chunk.continued
        /\ HeldBack(d).left = chunk.left /\ HeldBack(d).groups = chunk.groups
    BY <1>2 DEF Shapes, IsChunk, HeldBack
  <1>5. /\ plan' = plan /\ op' = op /\ exec' = exec /\ tree' = tree
        /\ pc' \in {"admit", "close"}
    BY <1>1 DEF HoldsBack, PopDead, HoldTurn, HoldForPages, HoldForRoom, HoldForSuffix
  <1>6. \/ sched' = Popped
        \/ \E b : sched' = [Popped EXCEPT !.blocked = b]
    BY DEF HoldsBack, PopDead, HoldTurn, HoldForPages, HoldForRoom, HoldForSuffix
  <1>7. /\ IsSched(sched') /\ sched'.pending = Tail(sched.pending) /\ sched'.ready = sched.ready
        /\ sched'.stage = sched.stage /\ sched'.next = sched.next
        /\ sched'.received = sched.received /\ sched'.waiting = sched.waiting
        /\ sched'.skipped = sched.skipped /\ sched'.won = sched.won
        /\ sched'.flight = sched.flight /\ sched'.busy = sched.busy
        /\ sched'.ended = sched.ended /\ sched'.cost = sched.cost
    <2> HIDE DEF Popped
    <2>1. CASE sched' = Popped
      BY <1>3, <2>1
    <2>2. CASE \E b : sched' = [Popped EXCEPT !.blocked = b]
      BY <1>3, <2>2 DEF IsSched
    <2> QED BY <1>6, <2>1, <2>2
  <1>8. \/ chunk' = chunk /\ sched.stage[d] = Done
        \/ chunk' = HeldBack(d)
        \/ \E b : chunk' = [HeldBack(d) EXCEPT !.blocked = b]
    BY DEF HoldsBack, PopDead, HoldTurn, HoldForPages, HoldForRoom, HoldForSuffix
  <1>9. /\ IsChunk(chunk') /\ chunk'.groups = chunk.groups /\ chunk'.left = chunk.left
        /\ chunk'.deferred = chunk.deferred /\ chunk'.continued = chunk.continued
        /\ \/ chunk'.held = chunk.held /\ sched.stage[d] = Done
           \/ chunk'.held = Append(chunk.held, d)
    <2>1. CASE chunk' = chunk /\ sched.stage[d] = Done
      BY <1>2, <2>1 DEF Shapes
    <2>2. CASE chunk' = HeldBack(d)
      BY <1>4, <2>2
    <2>3. CASE \E b : chunk' = [HeldBack(d) EXCEPT !.blocked = b]
      BY <1>4, <2>3 DEF IsChunk
    <2> QED BY <1>8, <2>1, <2>2, <2>3
  <1>10. Shapes'
    BY <1>2, <1>5, <1>7, <1>9 DEF Shapes
  <1> QED BY <1>1, <1>5, <1>7, <1>9, <1>10 DEF Shuffled

LEMMA HoldBackKeeps ==
    ASSUME BaseInv, QueueInv, NEW d, HoldsBack(d) \/ PopDead(d)
    PROVE  QueueInv'
  BY HoldFields, PopKeeps

(* next_chunk closes: the lists it held back go back to their queues.      *)
LEMMA CloseKeeps ==
    ASSUME BaseInv, QueueInv, CloseChunk
    PROVE  QueueInv' /\ Shuffled /\ exec' = exec /\ tree' = tree /\ sched'.cost = sched.cost
           /\ chunk'.groups = chunk.groups
  <1>1. pc \in {"admit", "close"} /\ Running /\ Filling /\ Shapes /\ Members /\ Turns
    BY DEF CloseChunk, QueueInv, Running, Filling
  <1>2. Types /\ Unshared /\ sched.waiting = <<>>
    BY <1>1 DEF Members, Lists, Turns
  <1>3. IsSched(sched) /\ IsChunk(chunk)
    BY <1>1 DEF Shapes
  <1>4. IsSched(sched')
    BY <1>3 DEF CloseChunk, IsSched
  <1>5. /\ sched'.pending = chunk.held \o sched.pending
        /\ sched'.ready = chunk.deferred \o chunk.continued \o sched.ready
        /\ sched'.stage = sched.stage /\ sched'.next = sched.next
        /\ sched'.received = sched.received /\ sched'.waiting = sched.waiting
        /\ sched'.skipped = sched.skipped /\ sched'.won = sched.won
        /\ sched'.flight = sched.flight /\ sched'.busy = sched.busy
        /\ sched'.ended = sched.ended /\ sched'.cost = sched.cost
    BY <1>3 DEF CloseChunk, IsSched
  <1>6. /\ chunk'.held = <<>> /\ chunk'.deferred = <<>> /\ chunk'.continued = <<>>
        /\ chunk'.groups = chunk.groups /\ chunk'.left = chunk.left /\ IsChunk(chunk')
    BY <1>3 DEF CloseChunk, IsChunk
  <1>7. Shuffled /\ exec' = exec /\ tree' = tree
    BY <1>5, <1>6 DEF Shuffled, CloseChunk
  <1>8. Shapes'
    BY <1>1, <1>4, <1>6, <1>7 DEF Shapes
  <1>9. /\ chunk.held \in Seq(Docs) /\ sched.pending \in Seq(Docs)
        /\ chunk.deferred \in Seq(Docs) /\ chunk.continued \in Seq(Docs)
        /\ sched.ready \in Seq(Docs) /\ chunk.left \in Nat
    BY <1>2 DEF Types
  <1>10. /\ sched'.pending \in Seq(Docs) /\ NoRepeats(sched'.pending)
         /\ Range(sched'.pending) = Range(chunk.held) \union Range(sched.pending)
    BY <1>2, <1>5, <1>9, ConcatIs DEF Unshared
  <1>11. /\ sched'.ready \in Seq(Docs) /\ NoRepeats(sched'.ready)
         /\ Range(sched'.ready) = ReadySet
    <2> DEFINE put == chunk.deferred \o chunk.continued
    <2>1. /\ put \in Seq(Docs) /\ NoRepeats(put)
          /\ Range(put) = Range(chunk.deferred) \union Range(chunk.continued)
      BY <1>2, <1>9, ConcatIs DEF Unshared
    <2>2. Range(put) \intersect Range(sched.ready) = {}
      BY <2>1, <1>2 DEF Unshared
    <2>3. sched'.ready = put \o sched.ready
      BY <1>5
    <2> HIDE DEF put
    <2>4. /\ sched'.ready \in Seq(Docs) /\ NoRepeats(sched'.ready)
          /\ Range(sched'.ready) = Range(put) \union Range(sched.ready)
      BY <2>1, <2>2, <2>3, <1>2, <1>9, ConcatIs DEF Unshared
    <2> QED BY <2>1, <2>4 DEF ReadySet
  <1>12. /\ <<>> \in Seq(Docs) /\ Range(<<>>) = {} /\ NoRepeats(<<>>)
    BY EmptyIs
  <1>13. Unshared'
    BY <1>6, <1>10, <1>11, <1>12 DEF Unshared
  <1>14. ReadySet' = ReadySet /\ Line' = Line
    BY <1>6, <1>10, <1>11, <1>12 DEF ReadySet, Line
  <1>15. Members'
    BY <1>1, <1>2, <1>6, <1>7, <1>9, <1>10, <1>11, <1>12, <1>13, <1>14, ShuffleKeeps
  <1>16. \/ pc' = "empty" /\ chunk.groups = <<>>
         \/ pc' = "pass"
    BY DEF CloseChunk
  <1>17. Turns'
    BY <1>1, <1>6, <1>7, <1>16, ShuffledSets DEF Turns, Filling, Shuffled
  <1> QED BY <1>5, <1>6, <1>7, <1>8, <1>15, <1>17 DEF QueueInv

-----------------------------------------------------------------------------
(* The largest and the least of a set.                                     *)
LEMMA LargestIs ==
    ASSUME NEW b \in Nat, NEW S, S \subseteq 0 .. b
    PROVE  /\ Largest(S) \in Nat /\ Largest(S) <= b /\ \A m \in S : m <= Largest(S)
           /\ S # {} => Largest(S) \in S
  <1>1. CASE S = {}
    BY <1>1 DEF Largest
  <1>2. CASE S # {}
    <2> DEFINE T == {b - m : m \in S}
    <2>1. T \subseteq Nat /\ T # {}
      <3>1. \A m \in S : b - m \in Nat
        OBVIOUS
      <3> QED BY <3>1, <1>2
    <2>2. PICK x \in T : \A y \in T : x <= y
      BY <2>1, LeastOf
    <2>3. PICK n \in S : x = b - n
      BY <2>2
    <2>4. ASSUME NEW m \in S PROVE m <= n
      <3>1. b - m \in T
        OBVIOUS
      <3>2. x <= b - m /\ m \in Int /\ n \in Int
        BY <2>2, <3>1
      <3> QED BY <3>2, <2>3
    <2>5. \E k \in S : \A m \in S : m <= k
      BY <2>4
    <2>6. Largest(S) = CHOOSE k \in S : \A m \in S : m <= k
      BY <1>2 DEF Largest
    <2>7. Largest(S) \in S /\ \A m \in S : m <= Largest(S)
      BY <2>5, <2>6
    <2> HIDE DEF T
    <2>8. Largest(S) \in 0 .. b
      BY <2>7
    <2>9. Largest(S) \in Nat /\ Largest(S) <= b
      BY <2>8
    <2> QED BY <2>7, <2>9
  <1> QED BY <1>1, <1>2

LEMMA LeastIs ==
    ASSUME NEW S, S \subseteq Nat, NEW default
    PROVE  /\ S # {} => Least(S, default) \in S /\ \A m \in S : Least(S, default) <= m
           /\ S = {} => Least(S, default) = default
  <1>1. ASSUME S # {} PROVE Least(S, default) \in S /\ \A m \in S : Least(S, default) <= m
    <2>1. \E n \in S : \A m \in S : n <= m
      BY <1>1, LeastOf
    <2>2. Least(S, default) = CHOOSE n \in S : \A m \in S : n <= m
      BY <1>1 DEF Least
    <2> QED BY <2>1, <2>2
  <1> QED BY <1>1 DEF Least

LEMMA TakeIs ==
    ASSUME NEW d, NEW j, NEW i \in Nat, Partners(d, j) \in Nat, i <= Partners(d, j),
           NEW room, NEW pages
    PROVE  /\ Take(d, j, i, room, pages).end \in Nat
           /\ i <= Take(d, j, i, room, pages).end
           /\ Take(d, j, i, room, pages).end <= Partners(d, j)
  <1> DEFINE frame == IF i = 0 THEN This.frame ELSE 0
             fit == {n \in 0 .. Partners(d, j) - i :
                   frame + n * This.suffix <= room /\ n * SuffixPages(d) <= pages}
  <1>1. Take(d, j, i, room, pages).end = i + Largest(fit)
    BY DEF Take
  <1>2. Partners(d, j) - i \in Nat /\ fit \subseteq 0 .. Partners(d, j) - i
    OBVIOUS
  <1> HIDE DEF fit
  <1>3. Largest(fit) \in Nat /\ Largest(fit) <= Partners(d, j) - i
    BY <1>2, LargestIs
  <1> QED BY <1>1, <1>3

LEMMA OneIs ==
    ASSUME NEW S, NEW s \in Seq(S), Len(s) <= 1, s # <<>>
    PROVE  Len(s) = 1 /\ Head(s) = s[1] /\ s[1] \in S /\ Tail(s) = <<>>
  <1>0. Len(s) = 0 => s = <<>>
    BY EmptyIs
  <1>1. Len(s) \in Nat
    OBVIOUS
  <1>2. Len(s) = 1
    BY SMTT(30), <1>0, <1>1
  <1>3. Tail(s) \in Seq(S) /\ Len(Tail(s)) = 0
    BY <1>2
  <1>4. Head(s) = s[1] /\ s[1] \in S
    BY <1>2
  <1>5. Tail(s) = <<>>
    BY <1>3, EmptyIs
  <1> QED BY <1>2, <1>4, <1>5

-----------------------------------------------------------------------------
(* A group is launched into the chunk that is being planned.               *)
Launching(g) ==
    /\ plan' = plan /\ op' = op
    /\ sched'.stage = [sched.stage EXCEPT ![g.doc] = g.stage]
    /\ sched'.next = [sched.next EXCEPT ![g.doc] = g.end]
    /\ sched'.received = sched.received /\ sched'.waiting = sched.waiting
    /\ sched'.skipped = sched.skipped /\ sched'.won = sched.won
    /\ sched'.flight = sched.flight + 1 /\ sched'.ended = sched.ended
    /\ chunk'.groups = Append(chunk.groups, g) /\ chunk'.held = chunk.held
    /\ chunk'.deferred = chunk.deferred
    /\ chunk'.continued = IF g.end < Partners(g.doc, g.stage) THEN Append(chunk.continued, g.doc)
                          ELSE chunk.continued
    /\ exec'.outstanding = exec.outstanding
    /\ tree'.skipped = tree.skipped /\ tree'.admitted = tree.admitted \union {g.doc}

Follows(g) ==
    /\ g \in GroupType /\ g.stage \in Stages
    /\ g.start = sched.next[g.doc] /\ g.start < g.end /\ g.end <= Partners(g.doc, g.stage)
    /\ sched.stage[g.doc] \in {Queued, g.stage}
    /\ g.doc \notin Planned /\ g.doc \notin Range(chunk.deferred) \union Range(chunk.continued)

LEMMA LaunchKeeps ==
    ASSUME BaseInv, Members, NEW g, Follows(g), Launching(g), sched.waiting = <<>>,
           chunk'.left \in Nat,
           sched'.ready \in Seq(Docs), NoRepeats(sched'.ready),
           Range(sched'.ready) = Range(sched.ready) \ {g.doc},
           sched'.pending \in Seq(Docs), NoRepeats(sched'.pending),
           Range(sched'.pending) = Range(sched.pending) \ {g.doc},
           g.doc \notin Range(chunk.held)
    PROVE  /\ Members' /\ Planned' = Planned \union {g.doc}
           /\ InRun' = InRun \union {g.doc}
  <1> DEFINE d == g.doc
  <1>1. d \in Docs /\ g.stage \in Stages /\ g.start \in Nat /\ g.end \in Nat /\ g.start < g.end
        /\ Partners(d, g.stage) \in Nat
    BY PlanIs DEF Follows, GroupType
  <1>2. /\ Docs' = Docs /\ Stages' = Stages /\ GroupType' = GroupType
        /\ \A e, j : Partners(e, j)' = Partners(e, j)
    BY Frozen DEF Launching
  <1>3. Types /\ Unshared /\ Queues /\ Streams /\ Chains /\ Lists
    BY DEF Members, Lists
  <1>4. Launched' = Launched /\ Sent' = Sent
    BY DEF Launching, Launched, Sent
  <1>5. /\ chunk.groups \in Seq(GroupType) /\ chunk'.groups = Append(chunk.groups, g)
        /\ g \in GroupType /\ Once(chunk.groups) /\ d \notin Planned
    BY <1>3 DEF Types, Lists, Launching, Follows
  <1>6. /\ chunk'.groups \in Seq(GroupType) /\ Len(chunk'.groups) = Len(chunk.groups) + 1
        /\ Range(chunk'.groups) = Range(chunk.groups) \union {g}
    BY <1>5, AppendIs
  <1>7. Planned' = Planned \union {d} /\ Once(chunk'.groups)
    BY <1>5, OnceIs DEF Planned
  <1>8. /\ sched.stage \in [Docs -> Stages \union {Queued, Done}]
        /\ sched'.stage \in [Docs -> Stages \union {Queued, Done}]
        /\ sched'.stage[d] = g.stage /\ \A e \in Docs : e # d => sched'.stage[e] = sched.stage[e]
    <2>1. sched.stage \in [Docs -> Stages \union {Queued, Done}]
      BY <1>3 DEF Types
    <2>2. sched'.stage = [sched.stage EXCEPT ![d] = g.stage]
      BY DEF Launching
    <2> QED BY <2>1, <2>2, <1>1, PutIs
  <1>9. /\ sched.next \in [Docs -> Nat] /\ sched'.next \in [Docs -> Nat]
        /\ sched'.next[d] = g.end /\ \A e \in Docs : e # d => sched'.next[e] = sched.next[e]
    <2>1. sched.next \in [Docs -> Nat]
      BY <1>3 DEF Types
    <2>2. sched'.next = [sched.next EXCEPT ![d] = g.end]
      BY DEF Launching
    <2> QED BY <2>1, <2>2, <1>1, PutIs
  <1>10. InRun' = InRun \union {d}
    BY <1>1, <1>2, <1>8 DEF InRun
  <1>11. /\ chunk.continued \in Seq(Docs) /\ NoRepeats(chunk.continued)
         /\ d \notin Range(chunk.continued) /\ d \notin Range(chunk.deferred)
    BY <1>3 DEF Types, Unshared, Follows
  <1>12. /\ chunk'.continued \in Seq(Docs) /\ NoRepeats(chunk'.continued)
         /\ Range(chunk'.continued) =
               Range(chunk.continued) \union IF g.end < Partners(d, g.stage) THEN {d} ELSE {}
    <2>1. CASE g.end < Partners(d, g.stage)
      <3>1. chunk'.continued = Append(chunk.continued, d)
        BY <2>1 DEF Launching
      <3> QED BY <3>1, <2>1, <1>1, <1>11, AppendIs
    <2>2. CASE ~(g.end < Partners(d, g.stage))
      BY <2>2, <1>11 DEF Launching
    <2> QED BY <2>1, <2>2
  <1>13. Types'
    <2>1. tree'.admitted \subseteq Docs /\ tree'.skipped \subseteq Docs
      BY <1>1, <1>3 DEF Types, Launching
    <2> QED BY <2>1, <1>2, <1>3, <1>6, <1>8, <1>9, <1>12 DEF Types, Launching
  <1>14. Unshared'
    <2>1. NoRepeats(sched'.pending) /\ NoRepeats(chunk'.held)
          /\ Range(sched'.pending) \intersect Range(chunk'.held) = {}
      BY <1>3 DEF Unshared, Launching
    <2>2. /\ NoRepeats(chunk'.deferred)
          /\ Range(sched'.ready) \intersect Range(chunk'.deferred) = {}
          /\ Range(sched'.ready) \intersect Range(chunk'.continued) = {}
          /\ Range(chunk'.deferred) \intersect Range(chunk'.continued) = {}
      BY <1>3, <1>11, <1>12 DEF Unshared, Launching
    <2> QED BY <2>1, <2>2, <1>12 DEF Unshared
  <1>15. Lists'
    BY <1>3, <1>4, <1>7, <1>14 DEF Lists, Launching
  <1>16. Line' = Line \ {d}
    BY DEF Line, Launching
  <1>17. ReadySet' = (ReadySet \ {d}) \union IF g.end < Partners(d, g.stage) THEN {d} ELSE {}
    BY <1>11, <1>12 DEF ReadySet, Launching
  <1>18. sched.stage[d] # Done
    BY <1>1, PlanIs DEF Follows
  <1>19. Queues'
    <2>1. \A e \in Line' : sched'.stage[e] \in {Queued, Done}
      <3>1. Line \subseteq Docs
        BY <1>3, RangeIn DEF Types, Line
      <3> QED BY <3>1, <1>3, <1>8, <1>16 DEF Queues
    <2>2. \A e \in Docs : sched'.stage[e] = Queued =>
             e \in Line' /\ sched'.next[e] = 0 /\ sched'.received[e] = 0 /\ e \notin tree'.admitted
      <3>1. SUFFICES ASSUME NEW e \in Docs, sched'.stage[e] = Queued
                     PROVE  /\ e \in Line' /\ sched'.next[e] = 0 /\ sched'.received[e] = 0
                            /\ e \notin tree'.admitted
        OBVIOUS
      <3>2. e # d
        BY <3>1, <1>1, <1>8, PlanIs
      <3>3. sched.stage[e] = Queued
        BY <3>1, <3>2, <1>8
      <3>4. /\ e \in Line /\ sched.next[e] = 0 /\ sched.received[e] = 0
            /\ e \notin tree.admitted
        BY <3>3, <1>3 DEF Queues
      <3> QED BY <3>2, <3>4, <1>9, <1>16 DEF Launching
    <2>3. \A e \in tree'.skipped \union Range(sched'.skipped) :
             sched'.stage[e] = Done /\ e \notin tree'.admitted
      <3>1. \A e \in tree.skipped \union Range(sched.skipped) :
               e # d /\ e \in Docs /\ sched.stage[e] = Done /\ e \notin tree.admitted
        BY <1>3, <1>18, RangeIn DEF Queues, Types
      <3> QED BY <3>1, <1>8 DEF Launching
    <2>4. InRun' \subseteq tree'.admitted /\ sched'.won \subseteq tree'.admitted
      BY <1>3, <1>10 DEF Queues, Launching
    <2>5. ReadySet' \union Planned' \union Sent' \subseteq InRun'
      BY <1>3, <1>4, <1>7, <1>10, <1>17 DEF Queues
    <2> QED BY <2>1, <2>2, <2>3, <2>4, <2>5, <1>2 DEF Queues
  <1>20. Range(sched'.waiting) = {} /\ sched'.waiting = <<>>
    BY EmptyIs DEF Launching
  <1>21. Streams'
    <2>1. ASSUME NEW e \in InRun'
          PROVE  /\ sched'.next[e] <= Partners(e, sched'.stage[e])
                 /\ e \in ReadySet' <=> sched'.next[e] < Partners(e, sched'.stage[e])
                 /\ e \in ReadySet' \union Planned' \union Sent'
      <3>1. CASE e = d
        BY <3>1, <1>1, <1>7, <1>8, <1>9, <1>17 DEF Follows
      <3>2. CASE e # d
        <4>1. e \in InRun /\ e \in Docs
          BY <3>2, <1>10 DEF InRun
        <4>2. e \notin Range(sched.waiting)
          BY EmptyIs
        <4>3. /\ sched.next[e] <= Partners(e, sched.stage[e])
              /\ e \in ReadySet <=> sched.next[e] < Partners(e, sched.stage[e])
              /\ e \in ReadySet \union Planned \union Sent
          BY <4>1, <4>2, <1>3 DEF Streams
        <4>4. (e \in ReadySet' <=> e \in ReadySet) /\ (e \in Planned' <=> e \in Planned)
          BY <3>2, <1>7, <1>17
        <4> QED BY <4>1, <4>3, <4>4, <3>2, <1>4, <1>8, <1>9
      <3> QED BY <3>1, <3>2
    <2> QED BY <2>1, <1>2, <1>20 DEF Streams
  <1>22. Chains'
    <2>1. ASSUME NEW l \in Range(Launched')
          PROVE  /\ l.stage = sched'.stage[l.doc] /\ l.start < l.end
                 /\ l.start = sched'.received[l.doc]
                 /\ l.doc \notin Planned' => l.end = sched'.next[l.doc]
      <3>1. l \in Range(Launched) /\ l.doc \in Sent
        BY <1>4, OnceIs DEF Sent, DocsOf, Range
      <3>2. /\ l.stage = sched.stage[l.doc] /\ l.start < l.end
            /\ l.start = sched.received[l.doc]
            /\ l.doc \notin Planned => l.end = sched.next[l.doc]
        BY <3>1, <1>3 DEF Chains
      <3>3. l.doc \in Docs /\ sched.stage[l.doc] \in Stages
        BY <3>1, <1>3 DEF Queues, InRun
      <3>4. sched'.stage[l.doc] = sched.stage[l.doc]
        <4>1. l.doc = d => sched.stage[d] = g.stage
          BY <3>3, PlanIs DEF Follows
        <4> QED BY <4>1, <3>3, <1>8
      <3> QED BY <3>2, <3>3, <3>4, <1>7, <1>9 DEF Launching
    <2>2. ASSUME NEW h \in Range(chunk'.groups)
          PROVE  /\ h.stage = sched'.stage[h.doc] /\ h.start < h.end
                 /\ h.end = sched'.next[h.doc]
                 /\ h.doc \notin Sent' => h.start = sched'.received[h.doc]
                 /\ \A l \in Range(Launched') : l.doc = h.doc => h.start = l.end
      <3>1. CASE h = g
        <4>1. h.stage = sched'.stage[h.doc] /\ h.start < h.end /\ h.end = sched'.next[h.doc]
          BY <3>1, <1>1, <1>8, <1>9
        <4>2. d \notin Sent => g.start = sched'.received[d]
          <5>1. CASE sched.stage[d] = Queued
            BY <5>1, <1>1, <1>3 DEF Queues, Follows, Launching
          <5>2. CASE sched.stage[d] # Queued
            <6>1. d \in InRun
              BY <5>2, <1>1 DEF InRun, Follows
            <6> QED BY <6>1, <1>3, <1>5 DEF Chains, Follows, Launching
          <5> QED BY <5>1, <5>2
        <4>3. \A l \in Range(Launched') : l.doc = d => g.start = l.end
          BY <1>3, <1>4, <1>5 DEF Chains, Follows
        <4> QED BY <4>1, <4>2, <4>3, <3>1, <1>4
      <3>2. CASE h # g
        <4>1. h \in Range(chunk.groups) /\ h.doc \in Planned
          BY <3>2, <1>6, OnceIs DEF Planned, DocsOf, Range
        <4>2. /\ h.stage = sched.stage[h.doc] /\ h.start < h.end
              /\ h.end = sched.next[h.doc]
              /\ h.doc \notin Sent => h.start = sched.received[h.doc]
              /\ \A l \in Range(Launched) : l.doc = h.doc => h.start = l.end
          BY <4>1, <1>3 DEF Chains
        <4>3. h.doc # d /\ h.doc \in Docs
          BY <4>1, <1>3, <1>5 DEF Queues, InRun
        <4> QED BY <4>2, <4>3, <1>4, <1>8, <1>9 DEF Launching
      <3> QED BY <3>1, <3>2
    <2>3. \A e \in InRun' : e \notin Planned' \union Sent' => sched'.received[e] = sched'.next[e]
      <3>1. \A e \in InRun' : e \notin Planned' => e \in InRun /\ e # d /\ e \in Docs
        BY <1>7, <1>10 DEF InRun
      <3> QED BY <3>1, <1>3, <1>4, <1>7, <1>9 DEF Chains, Launching
    <2> QED BY <2>1, <2>2, <2>3, <1>4 DEF Chains
  <1>23. sched'.flight = Len(chunk'.groups) + Len(Launched')
    <2>1. Len(Launched) \in Nat /\ Len(chunk.groups) \in Nat
      <3>1. Launched \in Seq(GroupType)
        BY <1>3 DEF Types, Launched
      <3> QED BY <3>1, <1>5
    <2>2. sched.flight = Len(chunk.groups) + Len(Launched)
      BY DEF Members
    <2> QED BY <2>1, <2>2, <1>4, <1>6 DEF Launching
  <1> QED BY <1>7, <1>10, <1>13, <1>15, <1>19, <1>21, <1>22, <1>23 DEF Members

-----------------------------------------------------------------------------
(* A placed document goes on, waits for the next chunk, or stops the chunk. *)
(* No document enters or leaves a group.                                   *)
Alike ==
    /\ plan' = plan /\ op' = op
    /\ sched'.busy = sched.busy /\ sched'.ended = sched.ended /\ sched'.won = sched.won
    /\ sched'.stage = sched.stage

LEMMA TakeReadyKeeps ==
    ASSUME BaseInv, QueueInv, TakeReady
    PROVE  QueueInv' /\ Alike
  <1> DEFINE d == Head(sched.ready)
             j == sched.stage[d]
             i == sched.next[d]
             take == Take(d, j, i, chunk.room, chunk.pages)
             popped == [sched EXCEPT !.ready = Tail(@)]
             one == [chunk EXCEPT !.left = @ - 1]
             g == Group(d, j, i, take.end, FALSE)
  <1>1. /\ pc = "ready" /\ Running /\ Filling /\ Shapes /\ Members /\ Turns /\ chunk.left > 0
        /\ plan' = plan /\ op' = op /\ tree' = tree /\ exec' = exec /\ back' = back
    BY DEF TakeReady, QueueInv, Running, Filling
  <1>2. Types /\ Unshared /\ sched.waiting = <<>> /\ Range(sched.waiting) = {}
    BY <1>1, EmptyIs DEF Members, Lists, Turns
  <1>3. sched.ready \in Seq(Docs) /\ chunk.left \in Nat /\ chunk.left <= Len(sched.ready)
    BY <1>1, <1>2 DEF Types, Turns
  <1>4. sched.ready # <<>>
    BY <1>1, <1>3, EmptyIs
  <1>5. /\ Tail(sched.ready) \in Seq(Docs) /\ Len(Tail(sched.ready)) = Len(sched.ready) - 1
        /\ d \in Docs /\ d \in Range(sched.ready)
        /\ Range(sched.ready) = Range(Tail(sched.ready)) \union {d}
        /\ NoRepeats(Tail(sched.ready)) /\ d \notin Range(Tail(sched.ready))
    BY <1>2, <1>3, <1>4, TailIs DEF Unshared
  <1>6. /\ d \in InRun /\ d \in ReadySet /\ d \notin Planned
        /\ d \notin Range(chunk.deferred) /\ d \notin Range(chunk.continued)
    BY <1>1, <1>2, <1>5 DEF ReadySet, Members, Queues, Turns, Unshared
  <1>7. /\ j \in Stages /\ i \in Nat /\ i < Partners(d, j) /\ Partners(d, j) \in Nat
    <2>1. j \in Stages
      BY <1>6 DEF InRun
    <2>2. i < Partners(d, j)
      BY <1>1, <1>2, <1>6 DEF Members, Streams
    <2>3. i \in Nat
      BY <1>2, <1>5 DEF Types
    <2> QED BY <2>1, <2>2, <2>3, <1>5, PlanIs
  <1>8. take.end \in Nat /\ i <= take.end /\ take.end <= Partners(d, j)
    <2>1. i <= Partners(d, j)
      BY <1>7
    <2> QED BY <2>1, <1>7, TakeIs
  <1>9. /\ IsSched(popped) /\ popped.ready = Tail(sched.ready) /\ popped.pending = sched.pending
        /\ popped.stage = sched.stage /\ popped.next = sched.next
        /\ popped.received = sched.received /\ popped.waiting = sched.waiting
        /\ popped.skipped = sched.skipped /\ popped.won = sched.won
        /\ popped.flight = sched.flight /\ popped.busy = sched.busy /\ popped.ended = sched.ended
    BY <1>1 DEF Shapes, IsSched
  <1>10. /\ IsChunk(one) /\ one.left = chunk.left - 1 /\ one.groups = chunk.groups
         /\ one.held = chunk.held /\ one.deferred = chunk.deferred
         /\ one.continued = chunk.continued
    BY <1>1 DEF Shapes, IsChunk
  <1>11. chunk.left - 1 \in Nat /\ chunk.left - 1 <= Len(Tail(sched.ready))
    BY <1>1, <1>3, <1>5
  <1>12. \/ /\ sched' = popped /\ pc' = pc
            /\ chunk' = [one EXCEPT !.deferred = Append(@, d)]
         \/ /\ \E b : sched' = [sched EXCEPT !.blocked = b]
            /\ pc' = "admit" /\ chunk' = chunk
         \/ /\ take.end # i /\ pc' = pc
            /\ sched' = [popped EXCEPT !.next[d] = take.end, !.flight = @ + 1]
            /\ chunk' = Launch(one, g, take.tokens, 0, take.pages)
    BY DEF TakeReady
  <1> HIDE DEF popped, one, take
  <1>13. CASE /\ sched' = popped /\ pc' = pc
              /\ chunk' = [one EXCEPT !.deferred = Append(@, d)]
    <2>1. /\ IsChunk(chunk') /\ chunk'.deferred = Append(chunk.deferred, d)
          /\ chunk'.left = chunk.left - 1 /\ chunk'.groups = chunk.groups
          /\ chunk'.held = chunk.held /\ chunk'.continued = chunk.continued
      BY <1>10, <1>13 DEF IsChunk
    <2>2. /\ Append(chunk.deferred, d) \in Seq(Docs)
          /\ Range(Append(chunk.deferred, d)) = Range(chunk.deferred) \union {d}
          /\ NoRepeats(Append(chunk.deferred, d))
      BY <1>2, <1>5, <1>6, AppendIs DEF Types, Unshared
    <2>3. Shuffled /\ Shapes'
      BY <1>1, <1>9, <1>13, <2>1 DEF Shuffled, Shapes
    <2>4. Unshared'
      BY <1>2, <1>5, <1>6, <1>9, <1>13, <2>1, <2>2 DEF Unshared
    <2>5. ReadySet' = ReadySet /\ Line' = Line
      BY <1>5, <1>9, <1>13, <2>1, <2>2 DEF ReadySet, Line
    <2>6. Members'
      <3>1. /\ sched'.pending \in Seq(Docs) /\ chunk'.held \in Seq(Docs)
            /\ sched'.ready \in Seq(Docs) /\ chunk'.deferred \in Seq(Docs)
            /\ chunk'.continued \in Seq(Docs) /\ chunk'.left \in Nat
        BY <1>2, <1>5, <1>9, <1>11, <1>13, <2>1, <2>2 DEF Types
      <3> QED BY <3>1, <2>3, <2>4, <2>5, <1>1, <1>2, ShuffleKeeps
    <2>7. Turns'
      <3>1. (Range(sched'.ready) \union Range(chunk'.deferred)) \intersect Planned' = {}
        <4>1. Planned' = Planned
          BY <2>3, ShuffledSets
        <4>2. (Range(sched.ready) \union Range(chunk.deferred)) \intersect Planned = {}
          BY <1>1 DEF Turns
        <4> QED BY <4>1, <4>2, <1>5, <1>6, <1>9, <1>13, <2>1, <2>2
      <3>2. chunk'.left <= Len(sched'.ready)
        BY <1>9, <1>11, <1>13, <2>1
      <3> QED BY <3>1, <3>2, <1>1, <1>2, <1>9, <1>13 DEF Turns, Filling
    <2> QED BY <2>3, <2>6, <2>7, <1>1, <1>9, <1>13 DEF QueueInv, Alike
  <1>14. CASE /\ \E b : sched' = [sched EXCEPT !.blocked = b]
              /\ pc' = "admit" /\ chunk' = chunk
    <2>1. /\ Unmoved /\ IsSched(sched')
      BY <1>1, <1>14 DEF Unmoved, Shapes, IsSched
    <2>2. Members'
      BY <2>1, <1>1, <1>3, <1>14, UnmovedKeeps
    <2>3. Turns'
      BY <2>1, <1>1, <1>14, UnmovedSets DEF Turns, Filling, Unmoved
    <2> QED BY <2>1, <2>2, <2>3, <1>1, <1>14 DEF QueueInv, Shapes, Alike, Unmoved
  <1>15. CASE /\ take.end # i /\ pc' = pc
              /\ sched' = [popped EXCEPT !.next[d] = take.end, !.flight = @ + 1]
              /\ chunk' = Launch(one, g, take.tokens, 0, take.pages)
    <2>1. /\ IsChunk(chunk') /\ chunk'.groups = Append(chunk.groups, g)
          /\ chunk'.left = chunk.left - 1 /\ chunk'.held = chunk.held
          /\ chunk'.deferred = chunk.deferred
          /\ chunk'.continued = IF g.end < Partners(g.doc, g.stage) THEN Append(chunk.continued, g.doc)
                                ELSE chunk.continued
      BY <1>10, <1>15 DEF IsChunk, Launch
    <2>2. /\ IsSched(sched') /\ sched'.ready = Tail(sched.ready) /\ sched'.pending = sched.pending
          /\ sched'.stage = sched.stage /\ sched'.next = [sched.next EXCEPT ![d] = take.end]
          /\ sched'.received = sched.received /\ sched'.waiting = sched.waiting
          /\ sched'.skipped = sched.skipped /\ sched'.won = sched.won
          /\ sched'.flight = sched.flight + 1 /\ sched'.busy = sched.busy
          /\ sched'.ended = sched.ended
      BY <1>9, <1>15 DEF IsSched
    <2>3. /\ g.doc = d /\ g.stage = j /\ g.start = i /\ g.end = take.end /\ g.carried = FALSE
          /\ g = [doc |-> d, stage |-> j, start |-> i, end |-> take.end, carried |-> FALSE]
      BY DEF Group
    <2>4. g \in GroupType
      <3>1. j \in Nat
        BY <1>7, PlanIs
      <3> QED BY <2>3, <3>1, <1>5, <1>7, <1>8 DEF GroupType
    <2>5. Follows(g)
      <3>1. i < take.end
        BY <1>7, <1>8, <1>15
      <3> QED BY <3>1, <2>3, <2>4, <1>6, <1>7, <1>8 DEF Follows
    <2>6. [sched.stage EXCEPT ![d] = j] = sched.stage
      BY <1>2, <1>5 DEF Types
    <2>7. tree.admitted \union {d} = tree.admitted
      BY <1>1, <1>6 DEF Members, Queues
    <2> HIDE DEF g
    <2>8. Launching(g)
      BY <2>1, <2>2, <2>3, <2>6, <2>7, <1>1 DEF Launching
    <2>9. /\ d \notin Line /\ Range(sched'.pending) = Range(sched.pending) \ {d}
          /\ d \notin Range(chunk.held)
      <3>1. d \notin Line
        BY <1>1, <1>7, PlanIs DEF Members, Queues
      <3> QED BY <3>1, <2>2 DEF Line
    <2>10. /\ Members' /\ Planned' = Planned \union {d}
      <3>1. /\ sched'.ready \in Seq(Docs) /\ NoRepeats(sched'.ready)
            /\ Range(sched'.ready) = Range(sched.ready) \ {d}
        BY <2>2, <1>5
      <3>2. /\ sched'.pending \in Seq(Docs) /\ NoRepeats(sched'.pending)
        BY <2>2, <1>2 DEF Types, Unshared
      <3>3. chunk'.left \in Nat
        BY <2>1, <1>11
      <3> QED BY <3>1, <3>2, <3>3, <2>3, <2>5, <2>8, <2>9, <1>1, <1>2, LaunchKeeps
    <2>11. Turns'
      <3>1. (Range(sched'.ready) \union Range(chunk'.deferred)) \intersect Planned' = {}
        <4>1. (Range(sched.ready) \union Range(chunk.deferred)) \intersect Planned = {}
          BY <1>1 DEF Turns
        <4> QED BY <4>1, <2>1, <2>2, <2>10, <1>5, <1>6
      <3>2. chunk'.left <= Len(sched'.ready)
        BY <1>11, <2>1, <2>2
      <3> QED BY <3>1, <3>2, <2>2, <1>1, <1>2, <1>15 DEF Turns, Filling
    <2> QED BY <2>1, <2>2, <2>10, <2>11, <1>1 DEF QueueInv, Shapes, Alike
  <1> QED BY <1>12, <1>13, <1>14, <1>15

-----------------------------------------------------------------------------
(* A queued document is admitted, or the arena has no room for it.         *)
Admitted(d) ==
    /\ plan' = plan /\ op' = op /\ d \in Docs /\ sched.stage[d] = Queued
    /\ sched'.stage = [sched.stage EXCEPT ![d] = 1]
    /\ sched'.busy = Busier(d)
    /\ sched'.ended = sched.ended /\ sched'.won = sched.won
    /\ ~GroupFull(d)

LEMMA AdmitKeeps ==
    ASSUME BaseInv, QueueInv, NEW d, AdmitNext(d)
    PROVE  QueueInv' /\ (Alike \/ Admitted(d))
  <1> DEFINE take == FirstTake(d)
             g == Group(d, 1, 0, take.end, Packed(d) > 0)
  <1>1. /\ pc = "admit" /\ Running /\ Filling /\ Shapes /\ Members /\ Turns
        /\ plan' = plan /\ op' = op /\ back' = back
        /\ sched.pending # <<>> /\ d = Head(sched.pending) /\ Popping(d)
        /\ sched.stage[d] # Done /\ take.end > 0 /\ ~GroupFull(d)
    BY DEF AdmitNext, Eligible, Live, Popping, QueueInv, Running, Filling
  <1>2. Types /\ Unshared /\ sched.waiting = <<>>
    BY <1>1 DEF Members, Lists, Turns
  <1>3. /\ Tail(sched.pending) \in Seq(Docs) /\ d \in Docs /\ d \in Range(sched.pending)
        /\ Range(sched.pending) = Range(Tail(sched.pending)) \union {d}
        /\ NoRepeats(Tail(sched.pending)) /\ d \notin Range(Tail(sched.pending))
    <2>1. sched.pending \in Seq(Docs) /\ NoRepeats(sched.pending)
      BY <1>2 DEF Types, Unshared
    <2> QED BY <2>1, <1>1, TailIs
  <1>4. /\ IsSched(Popped) /\ Popped.ready = sched.ready /\ Popped.pending = Tail(sched.pending)
        /\ Popped.stage = sched.stage /\ Popped.next = sched.next
        /\ Popped.received = sched.received /\ Popped.waiting = sched.waiting
        /\ Popped.skipped = sched.skipped /\ Popped.won = sched.won
        /\ Popped.flight = sched.flight /\ Popped.busy = sched.busy /\ Popped.ended = sched.ended
    BY <1>1 DEF Popped, Shapes, IsSched
  <1>5. \E A : \/ AdmitReserved(d, A)
               \/ /\ sched' = Popped /\ chunk' = HeldBack(d) /\ pc' = "close"
                  /\ tree' = tree /\ exec' = exec
    BY DEF AdmitNext
  <1> HIDE DEF Popped, take
  <1>6. CASE /\ sched' = Popped /\ chunk' = HeldBack(d) /\ pc' = "close"
             /\ tree' = tree /\ exec' = exec
    <2>1. /\ IsChunk(HeldBack(d)) /\ HeldBack(d).held = Append(chunk.held, d)
          /\ HeldBack(d).deferred = chunk.deferred /\ HeldBack(d).continued = chunk.continued
          /\ HeldBack(d).left = chunk.left /\ HeldBack(d).groups = chunk.groups
      BY <1>1 DEF Shapes, IsChunk, HeldBack
    <2>2. Shuffled /\ Shapes'
      BY <1>1, <1>4, <1>6, <2>1 DEF Shuffled, Shapes
    <2>3. QueueInv'
      BY <1>1, <1>4, <1>6, <2>1, <2>2, PopKeeps
    <2> QED BY <2>3, <1>1, <1>4, <1>6 DEF Alike
  <1>7. ASSUME NEW A, AdmitReserved(d, A) PROVE QueueInv' /\ Admitted(d)
    <2>1. /\ sched' = [Popped EXCEPT !.stage[d] = 1, !.next[d] = take.end, !.flight = @ + 1,
                    !.zero = IF sched.cost[d] = 0 THEN @ - 1 ELSE @,
                    !.busy = Busier(d)]
          /\ tree' = [tree EXCEPT !.admitted = @ \union {d}, !.chosen[d] = Borrowed(d)]
          /\ \E h, r : exec' = [exec EXCEPT !.holding = h, !.reserved = r]
          /\ chunk' = [Launch(chunk, g, Packed(d) + take.tokens, Need(d), take.pages)
                          EXCEPT !.admitted = @ \union {d}]
          /\ pc' = pc
      BY <1>7 DEF AdmitReserved, take
    <2>2. /\ IsSched(sched') /\ sched'.ready = sched.ready /\ sched'.pending = Tail(sched.pending)
          /\ sched'.stage = [sched.stage EXCEPT ![d] = 1]
          /\ sched'.next = [sched.next EXCEPT ![d] = take.end]
          /\ sched'.received = sched.received /\ sched'.waiting = sched.waiting
          /\ sched'.skipped = sched.skipped /\ sched'.won = sched.won
          /\ sched'.flight = sched.flight + 1 /\ sched'.ended = sched.ended
          /\ sched'.busy = Busier(d)
      <3>1. IsSched(sched')
        BY <2>1, <1>4 DEF IsSched
      <3>2. /\ sched'.stage = [sched.stage EXCEPT ![d] = 1]
            /\ sched'.next = [sched.next EXCEPT ![d] = take.end]
            /\ sched'.flight = sched.flight + 1
        BY <2>1, <1>4 DEF IsSched
      <3>3. sched'.busy = Busier(d)
        BY <2>1, <1>4 DEF IsSched
      <3>4. /\ sched'.ready = sched.ready /\ sched'.pending = Tail(sched.pending)
            /\ sched'.received = sched.received /\ sched'.waiting = sched.waiting
            /\ sched'.skipped = sched.skipped /\ sched'.won = sched.won
            /\ sched'.ended = sched.ended
        BY <2>1, <1>4 DEF IsSched
      <3> QED BY <3>1, <3>2, <3>3, <3>4
    <2>3. /\ IsTree(tree') /\ tree'.admitted = tree.admitted \union {d}
          /\ tree'.skipped = tree.skipped
      BY <2>1, <1>1 DEF Shapes, IsTree
    <2>4. IsExec(exec') /\ exec'.outstanding = exec.outstanding
      BY <2>1, <1>1 DEF Shapes, IsExec
    <2>5. /\ IsChunk(chunk') /\ chunk'.groups = Append(chunk.groups, g)
          /\ chunk'.left = chunk.left /\ chunk'.held = chunk.held
          /\ chunk'.deferred = chunk.deferred
          /\ chunk'.continued = IF g.end < Partners(g.doc, g.stage) THEN Append(chunk.continued, g.doc)
                                ELSE chunk.continued
      BY <2>1, <1>1 DEF Shapes, IsChunk, Launch
    <2>6. /\ g.doc = d /\ g.stage = 1 /\ g.start = 0 /\ g.end = take.end
          /\ g = [doc |-> d, stage |-> 1, start |-> 0, end |-> take.end,
                  carried |-> Packed(d) > 0]
      BY DEF Group
    <2>7. take.end \in Nat /\ take.end <= Partners(d, 1) /\ 1 \in Stages
      <3>1. Partners(d, 1) \in Nat /\ 1 \in Stages
        BY <1>3, PlanIs
      <3>2. 0 <= Partners(d, 1)
        BY <3>1
      <3> QED BY <3>1, <3>2, TakeIs DEF take, FirstTake
    <2>8. sched.stage[d] = Queued /\ d \notin InRun /\ sched.next[d] = 0
      <3>1. sched.stage[d] = Queued
        BY <1>1, <1>3 DEF Members, Queues, Line
      <3>2. d \notin InRun
        BY <3>1, PlanIs DEF InRun
      <3> QED BY <3>1, <3>2, <1>1, <1>3 DEF Members, Queues
    <2>9. d \notin Planned /\ d \notin ReadySet
      BY <2>8, <1>1 DEF Members, Queues
    <2>10. g \in GroupType
      <3> DEFINE c == Packed(d) > 0
      <3>1. c \in BOOLEAN
        OBVIOUS
      <3>2. g = [doc |-> d, stage |-> 1, start |-> 0, end |-> take.end, carried |-> c]
        BY <2>6
      <3> HIDE DEF c, g
      <3> QED BY <3>1, <3>2, <2>7, <1>3 DEF GroupType
    <2>11. Follows(g)
      BY <2>6, <2>7, <2>8, <2>9, <2>10, <1>1 DEF Follows, ReadySet
    <2> HIDE DEF g
    <2>12. Launching(g)
      BY <2>2, <2>3, <2>4, <2>5, <2>6, <1>1 DEF Launching
    <2>13. Members' /\ Planned' = Planned \union {d}
      <3>1. /\ sched'.ready \in Seq(Docs) /\ NoRepeats(sched'.ready)
            /\ Range(sched'.ready) = Range(sched.ready) \ {d} /\ chunk'.left \in Nat
        BY <2>2, <2>5, <2>9, <1>2 DEF Types, Unshared, ReadySet
      <3>2. /\ sched'.pending \in Seq(Docs) /\ NoRepeats(sched'.pending)
            /\ Range(sched'.pending) = Range(sched.pending) \ {d}
            /\ d \notin Range(chunk.held)
        BY <2>2, <1>2, <1>3 DEF Unshared
      <3> QED BY <3>1, <3>2, <2>6, <2>11, <2>12, <1>1, <1>2, LaunchKeeps
    <2>14. Turns'
      <3>1. (Range(sched.ready) \union Range(chunk.deferred)) \intersect Planned = {}
        BY <1>1 DEF Turns
      <3>2. (Range(sched'.ready) \union Range(chunk'.deferred)) \intersect Planned' = {}
        BY <3>1, <2>2, <2>5, <2>9, <2>13 DEF ReadySet
      <3> QED BY <3>2, <2>1, <2>2, <1>1, <1>2 DEF Turns, Filling
    <2>15. QueueInv'
      BY <2>2, <2>3, <2>4, <2>5, <2>13, <2>14 DEF QueueInv, Shapes
    <2> QED BY <2>2, <2>8, <2>15, <1>1, <1>3 DEF Admitted
  <1> QED BY <1>5, <1>6, <1>7

(* The chunk is handed to the GPU.                                         *)
LEMMA SubmitKeeps ==
    ASSUME BaseInv, QueueInv, Submit
    PROVE  QueueInv' /\ Alike
  <1>1. /\ pc = "submit" /\ Running /\ ~Filling /\ Shapes /\ Members /\ Turns
        /\ plan' = plan /\ op' = op /\ tree' = tree /\ sched' = sched /\ pc' = "top"
        /\ chunk' = NoChunk
    BY DEF Submit, QueueInv, Running, Filling
  <1>2. /\ IsExec(exec') /\ exec'.outstanding = Append(exec.outstanding, chunk.groups)
    BY <1>1 DEF Submit, Shapes, IsExec
  <1>3. /\ IsChunk(chunk') /\ chunk'.groups = <<>> /\ chunk'.held = <<>> /\ chunk'.deferred = <<>>
        /\ chunk'.continued = <<>> /\ chunk'.left = 0
    BY <1>1 DEF NoChunk, IsChunk
  <1>4. /\ exec.outstanding = <<>> /\ sched.waiting = <<>> /\ chunk.held = <<>>
        /\ chunk.deferred = <<>> /\ chunk.continued = <<>>
    BY <1>1 DEF Turns
  <1>5. Types /\ Unshared /\ Lists /\ Queues /\ Streams /\ Chains
    BY <1>1 DEF Members, Lists
  <1>6. chunk.groups \in Seq(GroupType) /\ Len(chunk.groups) \in Nat
    BY <1>5 DEF Types
  <1>7. /\ exec'.outstanding \in Seq(Seq(GroupType)) /\ Len(exec'.outstanding) = 1
        /\ exec'.outstanding # <<>> /\ exec'.outstanding[1] = chunk.groups
    <2>1. exec'.outstanding = <<chunk.groups>>
      BY <1>2, <1>4
    <2> QED BY <2>1, <1>6
  <1>8. Launched = <<>> /\ Launched' = chunk.groups
    BY <1>4, <1>7 DEF Launched
  <1>9. Sent = {} /\ Planned' = {} /\ Sent' = Planned /\ Range(Launched) = {}
    BY <1>3, <1>8, EmptyIs DEF Sent, Planned
  <1>10. /\ Docs' = Docs /\ Stages' = Stages /\ GroupType' = GroupType
         /\ \A e, j : Partners(e, j)' = Partners(e, j)
    BY <1>1, Frozen
  <1>11. /\ InRun' = InRun /\ ReadySet' = ReadySet /\ Line' = Line
    BY <1>1, <1>3, <1>4, <1>10 DEF InRun, ReadySet, Line
  <1>12. Types'
    <2>1. /\ chunk'.held \in Seq(Docs) /\ chunk'.deferred \in Seq(Docs)
          /\ chunk'.continued \in Seq(Docs) /\ chunk'.groups \in Seq(GroupType)
          /\ chunk'.left \in Nat
      BY <1>3, EmptyIs
    <2>2. /\ exec'.outstanding \in Seq(Seq(GroupType)) /\ Len(exec'.outstanding) <= 1
      BY <1>7
    <2>3. /\ sched'.pending \in Seq(Docs) /\ sched'.ready \in Seq(Docs)
          /\ sched'.waiting \in Seq(Docs) /\ sched'.skipped \in Seq(Docs)
          /\ sched'.stage \in [Docs -> Stages \union {Queued, Done}]
          /\ sched'.next \in [Docs -> Nat] /\ sched'.received \in [Docs -> Nat]
          /\ sched'.won \subseteq Docs
          /\ tree'.admitted \subseteq Docs /\ tree'.skipped \subseteq Docs
      BY <1>1, <1>5 DEF Types
    <2> QED BY <2>1, <2>2, <2>3, <1>10 DEF Types
  <1>13. Lists'
    <2>1. Once(chunk'.groups)
      BY <1>3, EmptyIs
    <2> QED BY <2>1, <1>1, <1>3, <1>4, <1>5, <1>8 DEF Lists, Unshared
  <1>14. Queues'
    BY <1>1, <1>5, <1>9, <1>10, <1>11 DEF Queues
  <1>15. Streams'
    <2>1. Range(sched.waiting) = {}
      BY <1>4, EmptyIs
    <2> QED BY <2>1, <1>1, <1>5, <1>9, <1>10, <1>11 DEF Streams
  <1>16. Chains'
    <2>1. Range(chunk'.groups) = {}
      BY <1>3, EmptyIs
    <2>2. \A g \in Range(Launched') : g \in Range(chunk.groups) /\ g.doc \notin Sent
      BY <1>8, <1>9
    <2>3. \A g \in Range(Launched') :
             /\ g.stage = sched.stage[g.doc] /\ g.start < g.end
             /\ g.start = sched.received[g.doc] /\ g.end = sched.next[g.doc]
      BY <2>2, <1>5 DEF Chains
    <2> QED BY <2>1, <2>3, <1>1, <1>5, <1>9, <1>11 DEF Chains
  <1>17. sched'.flight = Len(chunk'.groups) + Len(Launched')
    <2>1. Len(Launched) = 0 /\ Len(chunk'.groups) = 0
      BY <1>3, <1>8, EmptyIs
    <2>2. sched.flight = Len(chunk.groups) + Len(Launched)
      BY <1>1 DEF Members
    <2> QED BY <2>1, <2>2, <1>1, <1>6, <1>8
  <1>18. Turns'
    BY <1>1, <1>3, <1>4 DEF Turns, Filling
  <1> QED BY <1>1, <1>2, <1>3, <1>12, <1>13, <1>14, <1>15, <1>16, <1>17, <1>18
          DEF QueueInv, Members, Shapes, Alike

-----------------------------------------------------------------------------
(* An operator starts: its documents are queued, those without a question  *)
(* settled.                                                                *)
LEMMA StartKeeps ==
    ASSUME BaseInv, StartOperator
    PROVE  QueueInv' /\ GroupsInv' /\ plan' = plan /\ op' = op
  <1>1. plan' = plan /\ op' = op
    BY DEF StartOperator
  <1>2. pc' = "failed" \/ \E A : Start(A, This.docs \intersect alive)
    BY DEF StartOperator
  <1>3. CASE pc' = "failed"
    BY <1>1, <1>3 DEF QueueInv, GroupsInv, Running
  <1>4. ASSUME NEW A, Start(A, This.docs \intersect alive)
        PROVE  QueueInv' /\ GroupsInv'
    <2> DEFINE D == This.docs \intersect alive
               resident == D \intersect Resident(A)
               asked == Asked(D, resident)
    <2>1. D \subseteq Docs /\ asked \subseteq D
      <3>1. This \in OpRecord(Docs)
        BY PlanIs
      <3>2. This.docs \subseteq Docs
        BY <3>1 DEF OpRecord
      <3> QED BY <3>2 DEF Asked
    <2>2. /\ sched' = StartAdmission(A, D) /\ tree' = StartBorrowing(A, D)
          /\ exec' = StartExecutor(StartBorrowing(A, D)) /\ chunk' = NoChunk /\ pc' = "top"
      BY <1>4 DEF Start
    <2>3. /\ Docs' = Docs /\ Stages' = Stages /\ GroupType' = GroupType /\ GroupOf' = GroupOf
      BY <1>1, Frozen
    <2>4. /\ IsSched(sched')
          /\ sched'.pending = Ascending(asked \intersect resident) \o Ascending(asked \ resident)
          /\ sched'.ready = <<>> /\ sched'.skipped = <<>> /\ sched'.waiting = <<>>
          /\ sched'.stage = [d \in Docs |-> IF d \in asked THEN Queued ELSE Done]
          /\ sched'.next = [d \in Docs |-> 0] /\ sched'.received = [d \in Docs |-> 0]
          /\ sched'.flight = 0 /\ sched'.won = {} /\ sched'.ended = {}
          /\ sched'.busy = [g \in Range(GroupOf) |-> 0]
      BY <2>2 DEF StartAdmission, IsSched
    <2>5. IsTree(tree') /\ tree'.admitted = {} /\ tree'.skipped = D \ asked
      BY <2>2 DEF StartBorrowing, IsTree
    <2>6. IsExec(exec') /\ exec'.outstanding = <<>>
      BY <2>2 DEF StartExecutor, IsExec
    <2>7. /\ IsChunk(chunk') /\ chunk'.groups = <<>> /\ chunk'.held = <<>>
          /\ chunk'.deferred = <<>> /\ chunk'.continued = <<>> /\ chunk'.left = 0
      BY <2>2 DEF NoChunk, IsChunk
    <2> HIDE DEF D, resident, asked
    <2>8. /\ sched'.pending \in Seq(Docs) /\ NoRepeats(sched'.pending)
          /\ Range(sched'.pending) = asked
      <3> DEFINE first == asked \intersect resident
                 second == asked \ resident
      <3>1. /\ first \subseteq Docs /\ second \subseteq Docs /\ Docs \subseteq Int
            /\ IsFiniteSet(Docs)
        BY <2>1, PlanIs
      <3>2. /\ first \subseteq Int /\ second \subseteq Int
            /\ IsFiniteSet(first) /\ IsFiniteSet(second)
        BY <3>1, FS_Subset
      <3> HIDE DEF first, second
      <3>3. /\ Ascending(first) \in Seq(first) /\ Range(Ascending(first)) = first
            /\ NoRepeats(Ascending(first))
            /\ Ascending(second) \in Seq(second) /\ Range(Ascending(second)) = second
            /\ NoRepeats(Ascending(second))
        BY <3>2, AscendingOf
      <3>4. Ascending(first) \in Seq(Docs) /\ Ascending(second) \in Seq(Docs)
        BY <3>1, <3>3, SeqIn
      <3>5. first \intersect second = {} /\ first \union second = asked
        BY DEF first, second
      <3>6. sched'.pending = Ascending(first) \o Ascending(second)
        BY <2>4 DEF first, second
      <3>7. /\ Ascending(first) \o Ascending(second) \in Seq(Docs)
            /\ Range(Ascending(first) \o Ascending(second)) = first \union second
            /\ NoRepeats(Ascending(first) \o Ascending(second))
        BY <3>3, <3>4, <3>5, ConcatIs
      <3> QED BY <3>5, <3>6, <3>7
    <2>9. Launched' = <<>> /\ Sent' = {} /\ Planned' = {} /\ ReadySet' = {} /\ Line' = asked
      BY <2>4, <2>6, <2>7, <2>8, EmptyIs DEF Launched, Sent, Planned, ReadySet, Line
    <2>10. /\ \A d \in Docs : sched'.stage[d] \in {Queued, Done}
           /\ \A d \in Docs : sched'.stage[d] = Queued => d \in asked
           /\ \A d \in Docs : d \notin asked => sched'.stage[d] = Done
      BY <2>4, PlanIs
    <2>11. InRun' = {}
      BY <2>3, <2>10, PlanIs DEF InRun
    <2>12. Types'
      <3>1. /\ \A S : <<>> \in Seq(S)
            /\ Len(<<>>) = 0
        BY EmptyIs
      <3>2. /\ sched'.ready \in Seq(Docs) /\ sched'.waiting \in Seq(Docs)
            /\ sched'.skipped \in Seq(Docs) /\ chunk'.held \in Seq(Docs)
            /\ chunk'.deferred \in Seq(Docs) /\ chunk'.continued \in Seq(Docs)
            /\ chunk'.groups \in Seq(GroupType) /\ chunk'.left \in Nat
            /\ exec'.outstanding \in Seq(Seq(GroupType)) /\ Len(exec'.outstanding) <= 1
        BY <2>4, <2>6, <2>7, <3>1
      <3>3. /\ sched'.stage \in [Docs -> Stages \union {Queued, Done}]
            /\ sched'.next \in [Docs -> Nat] /\ sched'.received \in [Docs -> Nat]
        BY <2>4
      <3>4. /\ sched'.won \subseteq Docs /\ tree'.admitted \subseteq Docs
            /\ tree'.skipped \subseteq Docs
        BY <2>1, <2>4, <2>5
      <3> QED BY <3>2, <3>3, <3>4, <2>3, <2>8 DEF Types
    <2>13. Lists'
      BY <2>4, <2>7, <2>8, <2>9, EmptyIs DEF Lists, Unshared
    <2>14. Queues'
      <3>1. \A d \in Line' : sched'.stage[d] \in {Queued, Done}
        BY <2>1, <2>9, <2>10
      <3>2. \A d \in Docs' : sched'.stage[d] = Queued =>
               d \in Line' /\ sched'.next[d] = 0 /\ sched'.received[d] = 0 /\ d \notin tree'.admitted
        BY <2>3, <2>4, <2>5, <2>9, <2>10
      <3>3. \A d \in tree'.skipped \union Range(sched'.skipped) :
               sched'.stage[d] = Done /\ d \notin tree'.admitted
        BY <2>1, <2>4, <2>5, <2>10, EmptyIs
      <3>4. /\ InRun' \subseteq tree'.admitted /\ sched'.won \subseteq tree'.admitted
            /\ ReadySet' \union Planned' \union Sent' \subseteq InRun'
        BY <2>4, <2>9, <2>11
      <3> QED BY <3>1, <3>2, <3>3, <3>4 DEF Queues
    <2>15. Streams'
      <3>1. Range(sched'.waiting) = {}
        BY <2>4, EmptyIs
      <3> QED BY <3>1, <2>11 DEF Streams
    <2>16. Chains'
      <3>1. Range(Launched') = {} /\ Range(chunk'.groups) = {}
        BY <2>7, <2>9, EmptyIs
      <3> QED BY <3>1, <2>11 DEF Chains
    <2>17. sched'.flight = Len(chunk'.groups) + Len(Launched')
      BY <2>4, <2>7, <2>9, EmptyIs
    <2>18. Turns'
      BY <2>2, <2>4, <2>7 DEF Turns, Filling
    <2>19. QueueInv'
      BY <2>4, <2>5, <2>6, <2>7, <2>12, <2>13, <2>14, <2>15, <2>16, <2>17, <2>18
         DEF QueueInv, Shapes, Members
    <2>20. GroupsInv'
      BY <2>3, <2>4, <2>11 DEF GroupsInv
    <2> QED BY <2>19, <2>20
  <1> QED BY <1>1, <1>2, <1>3, <1>4

-----------------------------------------------------------------------------
(* Answers are reported.                                                   *)
LEMMA ReportedIs ==
    ASSUME BaseInv, QueueInv, Reporting
    PROVE  /\ pc = "report" /\ Running /\ ~Filling /\ Shapes /\ Members /\ Turns
           /\ Launched \in Seq(GroupType) /\ Launched # <<>>
           /\ Reported = Head(Launched) /\ Reported \in Range(Launched) /\ Reported \in GroupType
           /\ Tail(Launched) \in Seq(GroupType) /\ Len(Launched) \in Nat
           /\ Len(Tail(Launched)) = Len(Launched) - 1
           /\ Range(Tail(Launched)) \subseteq Range(Launched) /\ Once(Tail(Launched))
           /\ Sent = DocsOf(Tail(Launched)) \union {Reported.doc}
           /\ Reported.doc \notin DocsOf(Tail(Launched)) /\ Reported.doc \in InRun
           /\ chunk.deferred = <<>> /\ chunk.continued = <<>> /\ chunk.held = <<>>
           /\ GroupReported =>
                 /\ IsExec(exec') /\ Launched' = Tail(Launched) /\ exec'.outstanding # <<>>
                 /\ exec'.outstanding \in Seq(Seq(GroupType)) /\ Len(exec'.outstanding) = 1
  <1>1. pc = "report" /\ Running /\ ~Filling /\ Shapes /\ Members /\ Turns
    BY DEF Reporting, QueueInv, Running, Filling
  <1>2. /\ exec.outstanding \in Seq(Seq(GroupType)) /\ Len(exec.outstanding) <= 1
        /\ exec.outstanding # <<>>
    BY <1>1 DEF Members, Types, Turns
  <1>3. /\ Len(exec.outstanding) = 1 /\ Head(exec.outstanding) = exec.outstanding[1]
        /\ Tail(exec.outstanding) = <<>> /\ exec.outstanding[1] \in Seq(GroupType)
    BY <1>2, OneIs
  <1>4. /\ Launched = Head(exec.outstanding) /\ Launched # <<>> /\ Launched \in Seq(GroupType)
        /\ Reported = Head(Launched)
    BY <1>2, <1>3 DEF Launched, Reporting, Reported
  <1>5. /\ Tail(Launched) \in Seq(GroupType) /\ Len(Tail(Launched)) = Len(Launched) - 1
        /\ Reported \in Range(Launched) /\ Reported \in GroupType
        /\ Range(Tail(Launched)) \subseteq Range(Launched) /\ Len(Launched) \in Nat
    BY <1>4, TailIs
  <1>6. /\ Sent = DocsOf(Tail(Launched)) \union {Reported.doc}
        /\ Reported.doc \notin DocsOf(Tail(Launched)) /\ Once(Tail(Launched))
    BY <1>1, <1>4, OnceIs DEF Sent, Members, Lists
  <1>7. Reported.doc \in InRun
    BY <1>1, <1>6 DEF Members, Queues
  <1>8. chunk.deferred = <<>> /\ chunk.continued = <<>> /\ chunk.held = <<>>
    BY <1>1 DEF Turns
  <1>9. ASSUME GroupReported
        PROVE  /\ IsExec(exec') /\ Launched' = Tail(Launched) /\ exec'.outstanding # <<>>
               /\ exec'.outstanding \in Seq(Seq(GroupType)) /\ Len(exec'.outstanding) = 1
    <2>1. /\ IsExec(exec')
          /\ exec'.outstanding = <<Tail(Head(exec.outstanding))>> \o Tail(exec.outstanding)
      BY <1>1, <1>9 DEF GroupReported, Shapes, IsExec
    <2>2. exec'.outstanding = <<Tail(Launched)>>
      <3>1. exec'.outstanding = <<Tail(Launched)>> \o <<>>
        BY <2>1, <1>3, <1>4
      <3>2. \A x : <<x>> \o <<>> = <<x>>
        OBVIOUS
      <3> QED BY <3>1, <3>2
    <2>3. /\ exec'.outstanding \in Seq(Seq(GroupType)) /\ Len(exec'.outstanding) = 1
          /\ exec'.outstanding[1] = Tail(Launched) /\ exec'.outstanding # <<>>
      BY <2>2, <1>5
    <2> QED BY <2>1, <2>3 DEF Launched
  <1> QED BY <1>1, <1>4, <1>5, <1>6, <1>7, <1>8, <1>9

(* What has been answered of a document's stage, and what that means for   *)
(* its place.                                                              *)
LEMMA AnsweredIs ==
    ASSUME BaseInv, QueueInv, Reporting
    PROVE  LET g == Reported IN
           /\ g.doc \in Docs /\ g.stage = sched.stage[g.doc] /\ g.stage \in Stages
           /\ g.start = sched.received[g.doc] /\ g.start \in Nat /\ g.end \in Nat
           /\ g.start < g.end /\ g.end <= sched.next[g.doc]
           /\ g.doc \notin Range(sched.waiting)
           /\ g.doc \notin Planned => g.end = sched.next[g.doc]
           /\ ~Complete(g) => g.doc \in ReadySet \union Planned
           /\ Complete(g) => g.doc \notin ReadySet \union Planned
  <1> DEFINE g == Reported
  <1>1. /\ Members /\ g \in Range(Launched) /\ g \in GroupType /\ g.doc \in InRun
        /\ Launched \in Seq(GroupType) /\ g.doc \in Sent
    BY ReportedIs
  <1>2. /\ g.doc \in Docs /\ g.stage = sched.stage[g.doc] /\ g.stage \in Stages
        /\ g.start = sched.received[g.doc] /\ g.start \in Nat /\ g.end \in Nat
        /\ g.start < g.end
        /\ g.doc \notin Planned => g.end = sched.next[g.doc]
    <2>1. /\ g.stage = sched.stage[g.doc] /\ g.start < g.end /\ g.start = sched.received[g.doc]
          /\ g.doc \notin Planned => g.end = sched.next[g.doc]
      BY <1>1 DEF Members, Chains
    <2>2. g.doc \in Docs /\ g.start \in Nat /\ g.end \in Nat
      BY <1>1 DEF GroupType
    <2>3. g.stage \in Stages
      BY <1>1, <2>1 DEF InRun
    <2> QED BY <2>1, <2>2, <2>3
  <1>3. g.doc \notin Range(sched.waiting)
    BY <1>1 DEF Members, Streams
  <1>4. /\ sched.next[g.doc] <= Partners(g.doc, g.stage)
        /\ g.doc \in ReadySet <=> sched.next[g.doc] < Partners(g.doc, g.stage)
    BY <1>1, <1>2, <1>3 DEF Members, Streams
  <1>5. sched.next[g.doc] \in Nat /\ Partners(g.doc, g.stage) \in Nat
    BY <1>1, <1>2, PlanIs DEF Members, Types
  <1>6. ASSUME g.doc \in Planned PROVE g.end < sched.next[g.doc]
    <2>1. PICK h \in Range(chunk.groups) : h.doc = g.doc
      <3>1. chunk.groups \in Seq(GroupType)
        BY <1>1 DEF Members, Types
      <3> QED BY <3>1, <1>6, OnceIs DEF Planned
    <2>2. h.start = g.end /\ h.start < h.end /\ h.end = sched.next[g.doc]
      BY <2>1, <1>1 DEF Members, Chains
    <2> QED BY <2>2
  <1>7. g.end <= sched.next[g.doc]
    BY <1>2, <1>5, <1>6
  <1>8. ASSUME ~Complete(g) PROVE g.doc \in ReadySet \union Planned
    BY <1>2, <1>4, <1>5, <1>8 DEF Complete
  <1>9. ASSUME Complete(g) PROVE g.doc \notin ReadySet \union Planned
    BY <1>2, <1>4, <1>5, <1>6, <1>9 DEF Complete
  <1> QED BY <1>2, <1>3, <1>7, <1>8, <1>9

LEMMA ReportPartKeeps ==
    ASSUME BaseInv, QueueInv, ReportPart
    PROVE  QueueInv' /\ Alike
  <1> DEFINE g == Reported
             d == g.doc
  <1>1. /\ Reporting /\ ~Complete(g) /\ GroupReported /\ plan' = plan /\ op' = op
        /\ tree' = tree /\ chunk' = chunk /\ pc' = pc /\ back' = back /\ sched' = Received
    BY DEF ReportPart
  <1>2. /\ pc = "report" /\ Running /\ ~Filling /\ Shapes /\ Members /\ Turns
        /\ Range(Tail(Launched)) \subseteq Range(Launched) /\ Once(Tail(Launched))
        /\ Sent = DocsOf(Tail(Launched)) \union {d} /\ d \notin DocsOf(Tail(Launched))
        /\ d \in InRun /\ g \in Range(Launched) /\ Len(Launched) \in Nat
        /\ Tail(Launched) \in Seq(GroupType) /\ Len(Tail(Launched)) = Len(Launched) - 1
        /\ IsExec(exec') /\ Launched' = Tail(Launched) /\ exec'.outstanding # <<>>
        /\ exec'.outstanding \in Seq(Seq(GroupType)) /\ Len(exec'.outstanding) = 1
    BY <1>1, ReportedIs
  <1>3. /\ d \in Docs /\ g.end \in Nat /\ d \notin Range(sched.waiting)
        /\ d \notin Planned => g.end = sched.next[d]
        /\ d \in ReadySet \union Planned
    BY <1>1, AnsweredIs
  <1> HIDE DEF g
  <1>4. /\ IsSched(sched') /\ sched'.ready = sched.ready /\ sched'.pending = sched.pending
        /\ sched'.stage = sched.stage /\ sched'.next = sched.next
        /\ sched'.received = [sched.received EXCEPT ![d] = g.end]
        /\ sched'.waiting = sched.waiting /\ sched'.skipped = sched.skipped
        /\ sched'.won = sched.won /\ sched'.flight = sched.flight - 1
        /\ sched'.busy = sched.busy /\ sched'.ended = sched.ended
    BY <1>1, <1>2 DEF Received, Shapes, IsSched, g
  <1>5. /\ Docs' = Docs /\ Stages' = Stages /\ GroupType' = GroupType
        /\ \A e, j : Partners(e, j)' = Partners(e, j)
    BY <1>1, Frozen
  <1>6. /\ Planned' = Planned /\ ReadySet' = ReadySet /\ Line' = Line /\ InRun' = InRun
    BY <1>1, <1>4, <1>5 DEF Planned, ReadySet, Line, InRun
  <1>7. Sent' = DocsOf(Tail(Launched))
    BY <1>2 DEF Sent
  <1>8. Types /\ Unshared /\ Lists /\ Queues /\ Streams /\ Chains
    BY <1>2 DEF Members, Lists
  <1>9. /\ sched'.received \in [Docs -> Nat] /\ sched'.received[d] = g.end
        /\ \A e \in Docs : e # d => sched'.received[e] = sched.received[e]
    <2>1. sched.received \in [Docs -> Nat]
      BY <1>8 DEF Types
    <2> QED BY <2>1, <1>3, <1>4, PutIs
  <1>10. Types'
    <2>1. exec'.outstanding \in Seq(Seq(GroupType)) /\ Len(exec'.outstanding) <= 1
      BY <1>2
    <2>2. /\ sched'.pending \in Seq(Docs) /\ sched'.ready \in Seq(Docs)
          /\ sched'.waiting \in Seq(Docs) /\ sched'.skipped \in Seq(Docs)
          /\ sched'.stage \in [Docs -> Stages \union {Queued, Done}]
          /\ sched'.next \in [Docs -> Nat] /\ sched'.won \subseteq Docs
      BY <1>4, <1>8 DEF Types
    <2>3. /\ chunk'.held \in Seq(Docs) /\ chunk'.deferred \in Seq(Docs)
          /\ chunk'.continued \in Seq(Docs) /\ chunk'.groups \in Seq(GroupType)
          /\ chunk'.left \in Nat
          /\ tree'.admitted \subseteq Docs /\ tree'.skipped \subseteq Docs
      BY <1>1, <1>8 DEF Types
    <2> QED BY <2>1, <2>2, <2>3, <1>5, <1>9 DEF Types
  <1>11. Lists'
    BY <1>1, <1>2, <1>4, <1>8 DEF Lists, Unshared
  <1>12. Queues'
    <2>1. \A e \in Docs : sched.stage[e] = Queued => e # d
      BY <1>2, PlanIs DEF InRun
    <2>2. ReadySet \union Planned \union Sent' \subseteq InRun
      BY <1>2, <1>7, <1>8 DEF Queues
    <2> QED BY <2>1, <2>2, <1>1, <1>4, <1>5, <1>6, <1>8, <1>9 DEF Queues
  <1>13. Streams'
    <2>1. \A e \in Range(sched'.waiting) : e # d /\ e \in Docs
      BY <1>3, <1>4, <1>8, RangeIn DEF Types
    <2>2. \A e \in Range(sched'.waiting) :
             e \notin Planned /\ e \notin Sent' /\ sched'.next[e] = 0 /\ sched'.received[e] = 0
      BY <2>1, <1>2, <1>4, <1>7, <1>8, <1>9 DEF Streams
    <2>3. \A e \in InRun : e \notin Range(sched'.waiting) =>
             /\ sched'.next[e] <= Partners(e, sched'.stage[e])
             /\ e \in ReadySet <=> sched'.next[e] < Partners(e, sched'.stage[e])
             /\ e \in ReadySet \union Planned \union Sent'
      BY <1>2, <1>3, <1>4, <1>7, <1>8 DEF Streams
    <2> QED BY <2>2, <2>3, <1>4, <1>5, <1>6, <1>8 DEF Streams
  <1>14. Chains'
    <2>1. \A l \in Range(Launched') : l \in Range(Launched) /\ l.doc # d /\ l.doc \in Docs
      <3>1. \A l \in Range(Tail(Launched)) : l.doc \in DocsOf(Tail(Launched))
        <4>1. DocsOf(Tail(Launched)) = {x.doc : x \in Range(Tail(Launched))}
          BY <1>2, OnceIs
        <4> QED BY <4>1
      <3>2. \A l \in Range(Tail(Launched)) : l.doc \in Docs
        BY <3>1, <1>2, <1>8 DEF Queues, InRun
      <3> QED BY <3>1, <3>2, <1>2
    <2>2. ASSUME NEW l \in Range(Launched')
          PROVE  /\ l.stage = sched'.stage[l.doc] /\ l.start < l.end
                 /\ l.start = sched'.received[l.doc]
                 /\ l.doc \notin Planned' => l.end = sched'.next[l.doc]
      BY <2>1, <1>4, <1>6, <1>8, <1>9 DEF Chains
    <2>3. ASSUME NEW h \in Range(chunk'.groups)
          PROVE  /\ h.stage = sched'.stage[h.doc] /\ h.start < h.end
                 /\ h.end = sched'.next[h.doc]
                 /\ h.doc \notin Sent' => h.start = sched'.received[h.doc]
                 /\ \A l \in Range(Launched') : l.doc = h.doc => h.start = l.end
      <3>1. h \in Range(chunk.groups) /\ h.doc \in Docs
        <4>1. chunk.groups \in Seq(GroupType)
          BY <1>8 DEF Types
        <4>2. h \in GroupType
          BY <4>1, <1>1, RangeIn
        <4> QED BY <4>2, <1>1 DEF GroupType
      <3>2. h.doc \notin Sent' => h.start = sched'.received[h.doc]
        <4>1. CASE h.doc = d
          BY <4>1, <3>1, <1>2, <1>8, <1>9 DEF Chains
        <4>2. CASE h.doc # d
          BY <4>2, <3>1, <1>2, <1>7, <1>8, <1>9 DEF Chains
        <4> QED BY <4>1, <4>2
      <3> QED BY <3>1, <3>2, <2>1, <1>4, <1>8 DEF Chains
    <2>4. \A e \in InRun' : e \notin Planned' \union Sent' => sched'.received[e] = sched'.next[e]
      <3> SUFFICES ASSUME NEW e \in InRun, e \notin Planned \union Sent'
                   PROVE  sched'.received[e] = sched'.next[e]
        BY <1>6
      <3>1. CASE e = d
        BY <3>1, <1>3, <1>4, <1>9
      <3>2. CASE e # d
        <4>1. e \notin Planned \union Sent /\ e \in Docs
          BY <3>2, <1>2, <1>7 DEF InRun
        <4> QED BY <4>1, <3>2, <1>4, <1>8, <1>9 DEF Chains
      <3> QED BY <3>1, <3>2
    <2> QED BY <2>2, <2>3, <2>4 DEF Chains
  <1>15. sched'.flight = Len(chunk'.groups) + Len(Launched')
    <2>1. sched.flight = Len(chunk.groups) + Len(Launched) /\ Len(chunk.groups) \in Nat
      BY <1>2, <1>8 DEF Members, Types
    <2> QED BY <2>1, <1>1, <1>2, <1>4
  <1>16. Turns'
    BY <1>1, <1>2, <1>4 DEF Turns, Filling
  <1> QED BY <1>1, <1>2, <1>4, <1>10, <1>11, <1>12, <1>13, <1>14, <1>15, <1>16
          DEF QueueInv, Members, Shapes, Alike

-----------------------------------------------------------------------------
(* A document that was answered moves on to a stage, or leaves.            *)
Going(d) ==
    /\ plan' = plan /\ op' = op
    /\ chunk' = chunk /\ tree' = tree /\ sched'.pending = sched.pending
    /\ sched'.flight = Len(chunk.groups) + Len(Launched')
    /\ exec'.outstanding \in Seq(Seq(GroupType)) /\ Len(exec'.outstanding) <= 1
    /\ Launched' \in Seq(GroupType) /\ Once(Launched') /\ Range(Launched') \subseteq Range(Launched)
    /\ Sent' = Sent \ {d} /\ sched'.waiting \in Seq(Docs) /\ NoRepeats(sched'.waiting)
    /\ sched'.ready \in Seq(Docs) /\ NoRepeats(sched'.ready) /\ sched'.skipped \in Seq(Docs)
    /\ sched'.next = [sched.next EXCEPT ![d] = 0]
    /\ sched'.received = [sched.received EXCEPT ![d] = 0]

Entered(d, k, waits) ==
    /\ Going(d)
    /\ sched'.stage = [sched.stage EXCEPT ![d] = k]
    /\ Range(sched'.ready) = Range(sched.ready) \union {d}
    /\ Range(sched'.waiting) = (Range(sched.waiting) \ {d}) \union (IF waits THEN {d} ELSE {})
    /\ sched'.skipped = sched.skipped /\ sched'.won = sched.won

Left(d, survived, rest) ==
    /\ Going(d)
    /\ rest \subseteq Range(sched.pending) /\ \A e \in rest : sched.stage[e] = Queued
    /\ sched'.stage = [e \in Docs |-> IF e = d \/ e \in rest THEN Done ELSE sched.stage[e]]
    /\ Range(sched'.ready) = Range(sched.ready) \ {d}
    /\ Range(sched'.waiting) = Range(sched.waiting) \ {d}
    /\ Range(sched'.skipped) = Range(sched.skipped) \union rest
    /\ sched'.won = IF survived THEN sched.won \union {d} ELSE sched.won

\* What both keep, whichever stage the document is at after it.
LEMMA GoingKeeps ==
    ASSUME BaseInv, Members, chunk.deferred = <<>>, chunk.continued = <<>>,
           NEW d \in InRun, d \notin Planned, Going(d),
           InRun' = InRun \/ InRun' = InRun \ {d},
           \A e \in Docs : e # d => sched'.stage[e] = sched.stage[e] \/ e \notin InRun
    PROVE  /\ d \in Docs /\ chunk'.deferred = <<>> /\ chunk'.continued = <<>>
           /\ Planned' = Planned /\ Line' = Line
           /\ ReadySet' = Range(sched'.ready) /\ ReadySet = Range(sched.ready)
           /\ Lists' /\ Chains'
           /\ sched'.flight = Len(chunk'.groups) + Len(Launched')
           /\ sched'.next \in [Docs -> Nat] /\ sched'.received \in [Docs -> Nat]
           /\ sched'.next[d] = 0 /\ sched'.received[d] = 0
           /\ \A e \in Docs : e # d => /\ sched'.next[e] = sched.next[e]
                                       /\ sched'.received[e] = sched.received[e]
           /\ Docs' = Docs /\ Stages' = Stages /\ GroupType' = GroupType
           /\ \A e, j : Partners(e, j)' = Partners(e, j)
  <1>1. /\ Docs' = Docs /\ Stages' = Stages /\ GroupType' = GroupType
        /\ \A e, j : Partners(e, j)' = Partners(e, j)
    BY Frozen DEF Going
  <1>2. Types /\ Unshared /\ Lists /\ Queues /\ Streams /\ Chains /\ d \in Docs
    BY DEF Members, Lists, InRun
  <1>3. /\ chunk'.deferred = <<>> /\ chunk'.continued = <<>> /\ Planned' = Planned /\ Line' = Line
        /\ Range(<<>>) = {} /\ NoRepeats(<<>>)
    BY EmptyIs DEF Going, Planned, Line
  <1>4. ReadySet' = Range(sched'.ready) /\ ReadySet = Range(sched.ready)
    BY <1>3 DEF ReadySet
  <1>5. Lists'
    BY <1>2, <1>3 DEF Lists, Unshared, Going
  <1>6. /\ sched'.next \in [Docs -> Nat] /\ sched'.next[d] = 0
        /\ \A e \in Docs : e # d => sched'.next[e] = sched.next[e]
    <2>1. sched.next \in [Docs -> Nat] /\ 0 \in Nat /\ sched'.next = [sched.next EXCEPT ![d] = 0]
      BY <1>2 DEF Types, Going
    <2> QED BY <2>1, <1>2, PutIs
  <1>7. /\ sched'.received \in [Docs -> Nat] /\ sched'.received[d] = 0
        /\ \A e \in Docs : e # d => sched'.received[e] = sched.received[e]
    <2>1. /\ sched.received \in [Docs -> Nat] /\ 0 \in Nat
          /\ sched'.received = [sched.received EXCEPT ![d] = 0]
      BY <1>2 DEF Types, Going
    <2> QED BY <2>1, <1>2, PutIs
  <1>8. Chains'
    <2>1. ASSUME NEW l \in Range(Launched')
          PROVE  /\ l \in Range(Launched) /\ l.doc # d /\ l.doc \in Docs
                 /\ sched'.stage[l.doc] = sched.stage[l.doc]
      <3>1. l \in Range(Launched) /\ l.doc \in Sent'
        <4>1. Sent' = {x.doc : x \in Range(Launched')}
          BY OnceIs DEF Going, Sent
        <4> QED BY <4>1 DEF Going
      <3>2. l.doc # d /\ l.doc \in InRun /\ l.doc \in Docs
        BY <3>1, <1>2 DEF Going, Queues, InRun
      <3> QED BY <3>1, <3>2
    <2>2. \A l \in Range(Launched') :
             /\ l.stage = sched'.stage[l.doc] /\ l.start < l.end
             /\ l.start = sched'.received[l.doc]
             /\ l.doc \notin Planned' => l.end = sched'.next[l.doc]
      BY <2>1, <1>2, <1>3, <1>6, <1>7 DEF Chains
    <2>3. ASSUME NEW h \in Range(chunk'.groups)
          PROVE  /\ h.stage = sched'.stage[h.doc] /\ h.start < h.end
                 /\ h.end = sched'.next[h.doc]
                 /\ h.doc \notin Sent' => h.start = sched'.received[h.doc]
                 /\ \A l \in Range(Launched') : l.doc = h.doc => h.start = l.end
      <3>1. h \in Range(chunk.groups) /\ h.doc \in Planned
        <4>1. chunk.groups \in Seq(GroupType)
          BY <1>2 DEF Types
        <4>2. Planned = {x.doc : x \in Range(chunk.groups)}
          BY <4>1, OnceIs DEF Planned
        <4> QED BY <4>2 DEF Going
      <3>2. h.doc # d /\ h.doc \in InRun /\ h.doc \in Docs
        BY <3>1, <1>2 DEF Queues, InRun
      <3>3. sched'.stage[h.doc] = sched.stage[h.doc]
        BY <3>2
      <3>4. /\ sched'.next[h.doc] = sched.next[h.doc]
            /\ sched'.received[h.doc] = sched.received[h.doc]
            /\ h.doc \in Sent' <=> h.doc \in Sent
        BY <3>2, <1>6, <1>7 DEF Going
      <3> QED BY <3>1, <3>3, <3>4, <2>1, <1>2 DEF Chains
    <2>4. \A e \in InRun' : e \notin Planned' \union Sent' => sched'.received[e] = sched'.next[e]
      <3> SUFFICES ASSUME NEW e \in InRun, e \notin Planned \union Sent'
                   PROVE  sched'.received[e] = sched'.next[e]
        BY <1>3
      <3>1. CASE e = d
        BY <3>1, <1>6, <1>7
      <3>2. CASE e # d
        <4>1. e \notin Planned \union Sent /\ e \in Docs
          BY <3>2 DEF InRun, Going
        <4> QED BY <4>1, <3>2, <1>2, <1>6, <1>7 DEF Chains
      <3> QED BY <3>1, <3>2
    <2> QED BY <2>2, <2>3, <2>4 DEF Chains
  <1>9. sched'.flight = Len(chunk'.groups) + Len(Launched')
    BY DEF Going
  <1> QED BY <1>1, <1>2, <1>3, <1>4, <1>5, <1>6, <1>7, <1>8, <1>9

LEMMA EnteredKeeps ==
    ASSUME BaseInv, Members, chunk.deferred = <<>>, chunk.continued = <<>>,
           NEW d \in InRun, d \notin Planned, NEW k \in Stages, NEW waits \in BOOLEAN,
           Entered(d, k, waits), waits \/ Partners(d, k) > 0
    PROVE  Members' /\ InRun' = InRun
           /\ \A e \in Docs : e # d => sched'.stage[e] = sched.stage[e]
  <1>1. Types /\ Unshared /\ Lists /\ Queues /\ Streams /\ Chains /\ d \in Docs /\ Going(d)
    BY DEF Members, Lists, InRun, Entered
  <1>2. /\ sched'.stage \in [Docs -> Stages \union {Queued, Done}] /\ sched'.stage[d] = k
        /\ \A e \in Docs : e # d => sched'.stage[e] = sched.stage[e]
    <2>1. /\ sched.stage \in [Docs -> Stages \union {Queued, Done}]
          /\ sched'.stage = [sched.stage EXCEPT ![d] = k]
      BY <1>1 DEF Types, Entered
    <2> QED BY <2>1, <1>1, PutIs
  <1>3. InRun' = InRun
    <2>1. Docs' = Docs /\ Stages' = Stages
      BY <1>1, Frozen DEF Going
    <2> QED BY <2>1, <1>1, <1>2 DEF InRun
  <1>4. /\ chunk'.deferred = <<>> /\ chunk'.continued = <<>>
        /\ Planned' = Planned /\ Line' = Line
        /\ ReadySet' = Range(sched'.ready) /\ ReadySet = Range(sched.ready)
        /\ Lists' /\ Chains'
        /\ sched'.flight = Len(chunk'.groups) + Len(Launched')
        /\ sched'.next \in [Docs -> Nat] /\ sched'.received \in [Docs -> Nat]
        /\ sched'.next[d] = 0 /\ sched'.received[d] = 0
        /\ \A e \in Docs : e # d => /\ sched'.next[e] = sched.next[e]
                                    /\ sched'.received[e] = sched.received[e]
        /\ Docs' = Docs /\ Stages' = Stages /\ GroupType' = GroupType
        /\ \A e, j : Partners(e, j)' = Partners(e, j)
    BY <1>1, <1>2, <1>3, GoingKeeps
  <1>5. Types'
    BY <1>1, <1>2, <1>4 DEF Types, Going, Entered
  <1>6. ReadySet' = ReadySet \union {d}
    BY <1>4 DEF Entered
  <1>7. Queues'
    <2>1. d \in tree.admitted /\ sched.stage[d] \in Stages
      BY <1>1 DEF Queues, InRun
    <2>2. \A e \in Line : e \in Docs /\ e # d
      <3>1. Line \subseteq Docs
        BY <1>1, RangeIn DEF Types, Line
      <3> QED BY <3>1, <2>1, <1>1, PlanIs DEF Queues
    <2>3. \A e \in Line' : sched'.stage[e] \in {Queued, Done}
      BY <2>2, <1>1, <1>2, <1>4 DEF Queues
    <2>4. \A e \in Docs : sched'.stage[e] = Queued =>
             e \in Line' /\ sched'.next[e] = 0 /\ sched'.received[e] = 0 /\ e \notin tree'.admitted
      <3> SUFFICES ASSUME NEW e \in Docs, sched'.stage[e] = Queued
                   PROVE  /\ e \in Line' /\ sched'.next[e] = 0 /\ sched'.received[e] = 0
                          /\ e \notin tree'.admitted
        OBVIOUS
      <3>1. e # d
        BY <1>2, PlanIs
      <3>2. sched.stage[e] = Queued
        BY <3>1, <1>2
      <3> QED BY <3>1, <3>2, <1>1, <1>4 DEF Queues, Going
    <2>5. \A e \in tree'.skipped \union Range(sched'.skipped) :
             sched'.stage[e] = Done /\ e \notin tree'.admitted
      <3>1. \A e \in tree.skipped \union Range(sched.skipped) :
               e \in Docs /\ sched.stage[e] = Done /\ e \notin tree.admitted /\ e # d
        BY <2>1, <1>1, RangeIn DEF Queues, Types
      <3> QED BY <3>1, <1>2 DEF Going, Entered
    <2>6. ReadySet' \union Planned' \union Sent' \subseteq InRun'
      BY <1>1, <1>3, <1>4, <1>6 DEF Queues, Going
    <2>7. InRun' \subseteq tree'.admitted /\ sched'.won \subseteq tree'.admitted
      BY <1>1, <1>3 DEF Queues, Going, Entered
    <2> QED BY <2>3, <2>4, <2>5, <2>6, <2>7, <1>4 DEF Queues
  <1>8. Streams'
    <2>1. Range(sched'.waiting) \subseteq Range(sched'.ready)
      BY <1>1 DEF Streams, Entered
    <2>2. ASSUME NEW e \in Range(sched'.waiting)
          PROVE  e \notin Planned' /\ e \notin Sent' /\ sched'.next[e] = 0 /\ sched'.received[e] = 0
      <3>1. CASE e = d
        BY <3>1, <1>1, <1>4 DEF Going
      <3>2. CASE e # d
        <4>1. e \in Range(sched.waiting) /\ e \in Docs
          BY <3>2, <1>1, RangeIn DEF Entered, Types
        <4> QED BY <4>1, <3>2, <1>1, <1>4 DEF Streams, Going
      <3> QED BY <3>1, <3>2
    <2>3. ASSUME NEW e \in InRun', e \notin Range(sched'.waiting)
          PROVE  /\ sched'.next[e] <= Partners(e, sched'.stage[e])
                 /\ e \in ReadySet' <=> sched'.next[e] < Partners(e, sched'.stage[e])
                 /\ e \in ReadySet' \union Planned' \union Sent'
      <3>1. CASE e = d
        <4>1. ~waits
          BY <3>1, <2>3 DEF Entered
        <4>2. Partners(d, k) > 0 /\ Partners(d, k) \in Nat
          BY <4>1, <1>1, PlanIs
        <4> QED BY <4>2, <3>1, <1>2, <1>4, <1>6
      <3>2. CASE e # d
        <4>1. e \in InRun /\ e \in Docs /\ e \notin Range(sched.waiting)
          BY <3>2, <2>3, <1>3 DEF Entered, InRun
        <4>2. /\ sched.next[e] <= Partners(e, sched.stage[e])
              /\ e \in ReadySet <=> sched.next[e] < Partners(e, sched.stage[e])
              /\ e \in ReadySet \union Planned \union Sent
          BY <4>1, <1>1 DEF Streams
        <4>3. e \in Sent' <=> e \in Sent
          BY <3>2, <1>1 DEF Going
        <4> QED BY <4>1, <4>2, <4>3, <3>2, <1>2, <1>4, <1>6
      <3> QED BY <3>1, <3>2
    <2> QED BY <2>1, <2>2, <2>3, <1>4 DEF Streams
  <1> QED BY <1>2, <1>3, <1>4, <1>5, <1>7, <1>8 DEF Members

LEMMA LeftKeeps ==
    ASSUME BaseInv, Members, chunk.deferred = <<>>, chunk.continued = <<>>,
           NEW d \in InRun, d \notin Planned, NEW survived, NEW rest,
           Left(d, survived, rest)
    PROVE  Members' /\ InRun' = InRun \ {d}
           /\ \A e \in Docs : sched'.stage[e] = Done <=>
                                 e = d \/ e \in rest \/ sched.stage[e] = Done
  <1>1. Types /\ Unshared /\ Lists /\ Queues /\ Streams /\ Chains /\ d \in Docs /\ Going(d)
    BY DEF Members, Lists, InRun, Left
  <1>2. rest \subseteq Docs /\ \A e \in rest : e # d /\ e \notin InRun /\ sched.stage[e] = Queued
    <2>1. rest \subseteq Docs
      BY <1>1, RangeIn DEF Left, Types
    <2>2. \A e \in rest : sched.stage[e] = Queued
      BY DEF Left
    <2> QED BY <2>1, <2>2, PlanIs DEF InRun
  <1>3. sched.stage \in [Docs -> Stages \union {Queued, Done}]
    BY <1>1 DEF Types
  <1>4. /\ sched'.stage \in [Docs -> Stages \union {Queued, Done}]
        /\ \A e \in Docs : e = d \/ e \in rest => sched'.stage[e] = Done
        /\ \A e \in Docs : ~(e = d \/ e \in rest) => sched'.stage[e] = sched.stage[e]
    <2>1. sched'.stage = [e \in Docs |-> IF e = d \/ e \in rest THEN Done ELSE sched.stage[e]]
      BY DEF Left
    <2> QED BY <2>1, <1>3
  <1>5. Docs' = Docs /\ Stages' = Stages
    BY <1>1, Frozen DEF Going
  <1>6. InRun' = InRun \ {d}
    <2>1. \A e \in Docs : e = d \/ e \in rest => sched'.stage[e] \notin Stages
      BY <1>4, PlanIs
    <2> QED BY <2>1, <1>2, <1>4, <1>5 DEF InRun
  <1>7. /\ chunk'.deferred = <<>> /\ chunk'.continued = <<>>
        /\ Planned' = Planned /\ Line' = Line
        /\ ReadySet' = Range(sched'.ready) /\ ReadySet = Range(sched.ready)
        /\ Lists' /\ Chains'
        /\ sched'.flight = Len(chunk'.groups) + Len(Launched')
        /\ sched'.next \in [Docs -> Nat] /\ sched'.received \in [Docs -> Nat]
        /\ \A e \in Docs : e # d => /\ sched'.next[e] = sched.next[e]
                                    /\ sched'.received[e] = sched.received[e]
        /\ GroupType' = GroupType
        /\ \A e, j : Partners(e, j)' = Partners(e, j)
    <2>1. \A e \in Docs : e # d => sched'.stage[e] = sched.stage[e] \/ e \notin InRun
      BY <1>2, <1>4
    <2> QED BY <2>1, <1>1, <1>6, GoingKeeps
  <1>8. Types'
    <2>1. sched'.won \subseteq Docs
      BY <1>1 DEF Types, Left
    <2> QED BY <2>1, <1>1, <1>4, <1>5, <1>7 DEF Types, Going
  <1>9. ReadySet' = ReadySet \ {d}
    BY <1>7 DEF Left
  <1>10. Queues'
    <2>1. d \in tree.admitted /\ sched.stage[d] \in Stages
      BY <1>1 DEF Queues, InRun
    <2>2. \A e \in Line' : sched'.stage[e] \in {Queued, Done}
      <3>1. Line \subseteq Docs
        BY <1>1, RangeIn DEF Types, Line
      <3> QED BY <3>1, <1>1, <1>4, <1>7 DEF Queues
    <2>3. \A e \in Docs : sched'.stage[e] = Queued =>
             e \in Line' /\ sched'.next[e] = 0 /\ sched'.received[e] = 0 /\ e \notin tree'.admitted
      <3> SUFFICES ASSUME NEW e \in Docs, sched'.stage[e] = Queued
                   PROVE  /\ e \in Line' /\ sched'.next[e] = 0 /\ sched'.received[e] = 0
                          /\ e \notin tree'.admitted
        OBVIOUS
      <3>1. e # d /\ e \notin rest
        BY <1>4, PlanIs
      <3>2. sched.stage[e] = Queued
        BY <3>1, <1>4
      <3> QED BY <3>1, <3>2, <1>1, <1>7 DEF Queues, Going
    <2>4. \A e \in tree'.skipped \union Range(sched'.skipped) :
             sched'.stage[e] = Done /\ e \notin tree'.admitted
      <3>1. \A e \in tree.skipped \union Range(sched.skipped) :
               e \in Docs /\ sched.stage[e] = Done /\ e \notin tree.admitted
        BY <1>1, RangeIn DEF Queues, Types
      <3>2. \A e \in tree.skipped \union Range(sched.skipped) :
               sched'.stage[e] = Done /\ e \notin tree.admitted
        BY <3>1, <1>4
      <3>3. \A e \in rest : sched'.stage[e] = Done /\ e \notin tree.admitted
        BY <1>1, <1>2, <1>4 DEF Queues
      <3>4. tree' = tree /\ Range(sched'.skipped) = Range(sched.skipped) \union rest
        BY DEF Left, Going
      <3> QED BY <3>2, <3>3, <3>4
    <2>5. ReadySet' \union Planned' \union Sent' \subseteq InRun'
      BY <1>1, <1>6, <1>7, <1>9 DEF Queues, Going
    <2>6. InRun' \subseteq tree'.admitted /\ sched'.won \subseteq tree'.admitted
      BY <2>1, <1>1, <1>6 DEF Queues, Going, Left
    <2> QED BY <2>2, <2>3, <2>4, <2>5, <2>6, <1>5 DEF Queues
  <1>11. Streams'
    <2>1. Range(sched'.waiting) \subseteq Range(sched'.ready)
      BY <1>1 DEF Streams, Left
    <2>2. ASSUME NEW e \in Range(sched'.waiting)
          PROVE  e \notin Planned' /\ e \notin Sent' /\ sched'.next[e] = 0 /\ sched'.received[e] = 0
      <3>1. e \in Range(sched.waiting) /\ e \in Docs /\ e # d
        BY <1>1, RangeIn DEF Left, Types
      <3> QED BY <3>1, <1>1, <1>7 DEF Streams, Going
    <2>3. ASSUME NEW e \in InRun', e \notin Range(sched'.waiting)
          PROVE  /\ sched'.next[e] <= Partners(e, sched'.stage[e])
                 /\ e \in ReadySet' <=> sched'.next[e] < Partners(e, sched'.stage[e])
                 /\ e \in ReadySet' \union Planned' \union Sent'
      <3>1. e \in InRun /\ e \in Docs /\ e # d /\ e \notin rest /\ e \notin Range(sched.waiting)
        BY <2>3, <1>2, <1>6 DEF Left, InRun
      <3>2. /\ sched.next[e] <= Partners(e, sched.stage[e])
            /\ e \in ReadySet <=> sched.next[e] < Partners(e, sched.stage[e])
            /\ e \in ReadySet \union Planned \union Sent
        BY <3>1, <1>1 DEF Streams
      <3>3. e \in Sent' <=> e \in Sent
        BY <3>1, <1>1 DEF Going
      <3> QED BY <3>1, <3>2, <3>3, <1>4, <1>7, <1>9
    <2> QED BY <2>1, <2>2, <2>3, <1>7 DEF Streams
  <1>12. \A e \in Docs : sched'.stage[e] = Done <=> e = d \/ e \in rest \/ sched.stage[e] = Done
    BY <1>4
  <1> QED BY <1>6, <1>7, <1>8, <1>10, <1>11, <1>12 DEF Members

-----------------------------------------------------------------------------
(* Where an answer moves a document.                                       *)
LEMMA EnterIs ==
    ASSUME BaseInv, NEW d \in Docs, NEW j \in Stages, NEW decided, NEW to \in Enter(d, j, decided)
    PROVE  \/ \E k \in Stages, w \in BOOLEAN : to = At(k, w) /\ (w \/ Partners(d, k) > 0)
           \/ \E b \in BOOLEAN : to = Out(b)
  <1> DEFINE decides(k) == This.stages[k].prepare => decided /\ k = j
             may(k, r) == decides(k) /\ r \in This.stages[k].requests
             asks(k) == may(k, "ask") /\ Partners(d, k) > 0
             reached == {k \in j .. LastStage : \A i \in j .. k - 1 : may(i, "SKIP")}
  <1>1. reached \subseteq Stages
    <2>1. LastStage \in Nat /\ Stages = 1 .. LastStage
      BY PlanIs
    <2> QED BY <2>1
  <1>2. \/ \E k \in reached : to = At(k, TRUE)
        \/ \E k \in reached : to = At(k, FALSE) /\ asks(k)
        \/ \E b \in BOOLEAN : to = Out(b)
    BY DEF Enter
  <1> QED BY <1>1, <1>2

\* What a move and a settled group change in the scheduler's record.
MovedTo(S, M, d, k, w, b) ==
    /\ IsSched(M) /\ M.pending = S.pending /\ M.ready = S.ready
    /\ M.stage = [S.stage EXCEPT ![d] = k]
    /\ M.next = [S.next EXCEPT ![d] = 0] /\ M.received = [S.received EXCEPT ![d] = 0]
    /\ M.waiting = (IF w THEN Append(S.waiting, d) ELSE S.waiting)
    /\ M.won = (IF b THEN S.won \union {d} ELSE S.won)
    /\ M.skipped = S.skipped /\ M.flight = S.flight /\ M.busy = S.busy /\ M.ended = S.ended

Sieved(M, N, d) ==
    /\ IsSched(N) /\ N.pending = M.pending /\ N.stage = M.stage /\ N.next = M.next
    /\ N.received = M.received /\ N.waiting = M.waiting /\ N.won = M.won
    /\ N.skipped = M.skipped /\ N.flight = M.flight /\ N.busy = M.busy /\ N.ended = M.ended
    /\ N.ready = Sifted(M.ready, Range(M.ready) \ {d})

RestOf(S, d) == {e \in Range(S.pending) : S.stage[e] = Queued /\ GroupOf[e] = GroupOf[d]}

GroupSettled(S, T, d, b) ==
    /\ IsSched(T) /\ T.pending = S.pending /\ T.ready = S.ready /\ T.next = S.next
    /\ T.received = S.received /\ T.waiting = S.waiting /\ T.won = S.won
    /\ T.flight = S.flight
    /\ \/ GroupOf = <<>> /\ T = S
       \/ /\ GroupOf # <<>> /\ (~b \/ GroupOf[d] \in S.ended)
          /\ T.busy = [S.busy EXCEPT ![GroupOf[d]] = Bigger(0, @ - 1)]
          /\ T.stage = S.stage /\ T.skipped = S.skipped /\ T.ended = S.ended
       \/ /\ GroupOf # <<>> /\ b
          /\ T.busy = [S.busy EXCEPT ![GroupOf[d]] = Bigger(0, @ - 1)]
          /\ T.stage = [e \in Docs |-> IF e \in RestOf(S, d) THEN Done ELSE S.stage[e]]
          /\ T.skipped = S.skipped \o Ascending(RestOf(S, d))
          /\ T.ended = S.ended \union {GroupOf[d]}

LEMMA SettleGroupIs ==
    ASSUME NEW S, IsSched(S), NEW d, NEW b \in BOOLEAN
    PROVE  GroupSettled(S, SettleGroup(S, d, b), d, b)
  <1> DEFINE T == SettleGroup(S, d, b)
             g == GroupOf[d]
             less == [S EXCEPT !.busy[g] = Bigger(0, @ - 1)]
             rest == RestOf(S, d)
  <1>1. CASE GroupOf = <<>>
    BY <1>1 DEF SettleGroup, GroupSettled
  <1>2. /\ IsSched(less) /\ less.pending = S.pending /\ less.ready = S.ready /\ less.next = S.next
        /\ less.received = S.received /\ less.waiting = S.waiting /\ less.won = S.won
        /\ less.flight = S.flight /\ less.busy = [S.busy EXCEPT ![g] = Bigger(0, @ - 1)]
        /\ less.stage = S.stage /\ less.skipped = S.skipped /\ less.ended = S.ended
    BY DEF IsSched
  <1>3. CASE GroupOf # <<>> /\ (~b \/ g \in S.ended)
    <2>1. T = less
      BY <1>3 DEF SettleGroup
    <2> HIDE DEF T, less
    <2> QED BY <2>1, <1>2, <1>3 DEF T, GroupSettled
  <1>4. CASE GroupOf # <<>> /\ ~(~b \/ g \in S.ended)
    <2>1. \E z : T = [less EXCEPT !.ended = @ \union {g}, !.skipped = @ \o Ascending(rest),
                                  !.stage = [e \in Docs |-> IF e \in rest THEN Done ELSE @[e]],
                                  !.zero = z]
      BY <1>4 DEF SettleGroup, RestOf
    <2> HIDE DEF T, less, rest
    <2>2. /\ IsSched(T) /\ T.pending = less.pending /\ T.ready = less.ready /\ T.next = less.next
          /\ T.received = less.received /\ T.waiting = less.waiting /\ T.won = less.won
          /\ T.flight = less.flight /\ T.busy = less.busy
          /\ T.stage = [e \in Docs |-> IF e \in rest THEN Done ELSE less.stage[e]]
          /\ T.skipped = less.skipped \o Ascending(rest)
          /\ T.ended = less.ended \union {g}
      BY ZenonT(30), <2>1, <1>2 DEF IsSched
    <2>3. /\ IsSched(T) /\ T.pending = S.pending /\ T.ready = S.ready /\ T.next = S.next
          /\ T.received = S.received /\ T.waiting = S.waiting /\ T.won = S.won
          /\ T.flight = S.flight /\ T.busy = [S.busy EXCEPT ![g] = Bigger(0, @ - 1)]
          /\ T.stage = [e \in Docs |-> IF e \in rest THEN Done ELSE S.stage[e]]
          /\ T.skipped = S.skipped \o Ascending(rest)
          /\ T.ended = S.ended \union {g}
      BY <2>2, <1>2
    <2> QED BY <2>3, <1>4 DEF T, rest, GroupSettled
  <1> QED BY <1>1, <1>3, <1>4

LEMMA MovedIs ==
    ASSUME NEW S, IsSched(S), NEW d, NEW to, Moved(S, d, to)
    PROVE  \E M : /\ MovedTo(S, M, d, to.stage, to.waits, to.survived)
                  /\ to.stage # Done => sched' = M
                  /\ to.stage = Done => \E N : /\ Sieved(M, N, d)
                                               /\ sched' = SettleGroup(N, d, to.survived)
  <1> DEFINE M == [S EXCEPT !.stage[d] = to.stage, !.next[d] = 0, !.received[d] = 0,
                            !.waiting = IF to.waits THEN Append(@, d) ELSE @,
                            !.won = IF to.survived THEN @ \union {d} ELSE @]
             N == [M EXCEPT !.ready = Sifted(@, Range(@) \ {d})]
  <1>1. to.stage # Done => sched' = M
    BY DEF Moved
  <1>2. to.stage = Done => sched' = SettleGroup(N, d, to.survived)
    BY DEF Moved
  <1>3. IsSched(M) /\ M.pending = S.pending /\ M.ready = S.ready
        /\ M.skipped = S.skipped /\ M.flight = S.flight /\ M.busy = S.busy
        /\ M.ended = S.ended
    BY DEF IsSched
  <1>4. /\ M.stage = [S.stage EXCEPT ![d] = to.stage]
        /\ M.next = [S.next EXCEPT ![d] = 0]
        /\ M.received = [S.received EXCEPT ![d] = 0]
    BY DEF IsSched
  <1>5. M.waiting = (IF to.waits THEN Append(S.waiting, d) ELSE S.waiting)
    BY DEF IsSched
  <1>6. M.won = (IF to.survived THEN S.won \union {d} ELSE S.won)
    BY DEF IsSched
  <1> HIDE DEF M
  <1>7. MovedTo(S, M, d, to.stage, to.waits, to.survived)
    BY <1>3, <1>4, <1>5, <1>6 DEF MovedTo
  <1>8. Sieved(M, N, d)
    BY <1>3 DEF IsSched, Sieved
  <1> HIDE DEF N
  <1> QED BY <1>1, <1>2, <1>7, <1>8

LEMMA MovedOn ==
    ASSUME NEW S, IsSched(S), NEW d, NEW k, k # Done, NEW w, Moved(S, d, At(k, w))
    PROVE  MovedTo(S, sched', d, k, w, FALSE)
  <1> DEFINE to == At(k, w)
  <1>1. to.stage = k /\ to.waits = w /\ to.survived = FALSE
    BY DEF At
  <1> HIDE DEF to
  <1>2. Moved(S, d, to)
    BY DEF to
  <1>3. \E M : /\ MovedTo(S, M, d, to.stage, to.waits, to.survived)
               /\ to.stage # Done => sched' = M
    BY <1>2, MovedIs
  <1> QED BY <1>1, <1>3

Leaves(S, d, b) ==
    \E M, N : /\ MovedTo(S, M, d, Done, FALSE, b) /\ Sieved(M, N, d)
              /\ GroupSettled(N, sched', d, b)

LEMMA MovedOut ==
    ASSUME NEW S, IsSched(S), NEW d, NEW b, b \in BOOLEAN, Moved(S, d, Out(b))
    PROVE  Leaves(S, d, b)
  <1> DEFINE to == Out(b)
  <1>1. to.stage = Done /\ to.waits = FALSE /\ to.survived = b
    BY DEF Out
  <1> HIDE DEF to
  <1>2. Moved(S, d, to)
    BY DEF to
  <1>3. \E M : /\ MovedTo(S, M, d, to.stage, to.waits, to.survived)
               /\ to.stage = Done => \E N : /\ Sieved(M, N, d)
                                            /\ sched' = SettleGroup(N, d, to.survived)
    BY <1>2, MovedIs
  <1>4. PICK M, N : /\ MovedTo(S, M, d, Done, FALSE, b)
                    /\ Sieved(M, N, d) /\ sched' = SettleGroup(N, d, b)
    BY <1>1, <1>3
  <1>5. IsSched(N)
    BY <1>4 DEF Sieved
  <1>6. GroupSettled(N, sched', d, b)
    BY <1>4, <1>5, SettleGroupIs
  <1> QED BY <1>4, <1>6 DEF Leaves

-----------------------------------------------------------------------------
(* What a move does to the stop key groups.                                *)
Stepped(d) ==
    /\ plan' = plan /\ op' = op /\ d \in InRun /\ InRun' = InRun
    /\ sched'.busy = sched.busy /\ sched'.ended = sched.ended /\ sched'.won = sched.won
    /\ \A e \in Docs : e # d => sched'.stage[e] = sched.stage[e]

Settled(d, survived) ==
    /\ plan' = plan /\ op' = op /\ d \in InRun /\ InRun' = InRun \ {d}
    /\ sched'.won = IF survived THEN sched.won \union {d} ELSE sched.won
    /\ \A e \in Docs : e = d \/ sched.stage[e] = Done => sched'.stage[e] = Done
    /\ GroupOf # <<>> =>
          /\ sched'.busy = [sched.busy EXCEPT ![GroupOf[d]] = Bigger(0, @ - 1)]
          /\ \/ sched'.ended = sched.ended /\ (survived => GroupOf[d] \in sched.ended)
             \/ /\ survived /\ sched'.ended = sched.ended \union {GroupOf[d]}
                /\ \A e \in Docs : sched.stage[e] = Queued /\ GroupOf[e] = GroupOf[d]
                      => sched'.stage[e] = Done

LEMMA MoveKeeps ==
    ASSUME BaseInv, QueueInv, pc = "report", NEW d \in InRun, d \notin Planned,
           plan' = plan, op' = op, chunk' = chunk, tree' = tree, pc' = pc, back' = back,
           IsExec(exec'), exec'.outstanding \in Seq(Seq(GroupType)), Len(exec'.outstanding) <= 1,
           exec'.outstanding # <<>>,
           Launched' \in Seq(GroupType), Once(Launched'), Range(Launched') \subseteq Range(Launched),
           Sent' = Sent \ {d},
           NEW S, IsSched(S), S.pending = sched.pending, S.stage = sched.stage,
           S.next = sched.next,
           [S.received EXCEPT ![d] = 0] = [sched.received EXCEPT ![d] = 0],
           S.won = sched.won, S.skipped = sched.skipped, S.busy = sched.busy,
           S.ended = sched.ended, S.flight = Len(chunk.groups) + Len(Launched'),
           S.waiting \in Seq(Docs), NoRepeats(S.waiting),
           Range(S.waiting) = Range(sched.waiting) \ {d},
           S.ready \in Seq(Docs), NoRepeats(S.ready),
           Range(S.ready) \ {d} = Range(sched.ready) \ {d},
           NEW to, Moved(S, d, to),
           \/ \E b \in BOOLEAN : to = Out(b)
           \/ /\ d \in Range(S.ready)
              /\ \E k \in Stages, w \in BOOLEAN : to = At(k, w) /\ (w \/ Partners(d, k) > 0)
    PROVE  QueueInv' /\ (Stepped(d) \/ \E b \in BOOLEAN : Settled(d, b))
  <1>1. Running /\ ~Filling /\ Shapes /\ Members /\ Turns /\ d \in Docs
    BY DEF QueueInv, Running, Filling, InRun
  <1>2. chunk.deferred = <<>> /\ chunk.continued = <<>> /\ chunk.held = <<>>
    BY <1>1 DEF Turns
  <1>3. IsSched(sched') /\ Members' => QueueInv'
    <2>1. Turns'
      BY <1>1 DEF Turns, Filling
    <2> QED BY <2>1, <1>1 DEF QueueInv, Shapes
  <1>4. CASE /\ d \in Range(S.ready)
             /\ \E k \in Stages, w \in BOOLEAN : to = At(k, w) /\ (w \/ Partners(d, k) > 0)
    <2>1. PICK k \in Stages, w \in BOOLEAN : to = At(k, w) /\ (w \/ Partners(d, k) > 0)
      BY <1>4
    <2>2. to.stage = k /\ to.waits = w /\ to.survived = FALSE /\ k # Done
      BY <2>1, PlanIs DEF At
    <2>a. MovedTo(S, sched', d, k, w, FALSE)
      <3>1. Moved(S, d, At(k, w))
        BY <2>1
      <3>2. k # Done
        BY <2>2
      <3> HIDE DEF At
      <3> QED BY <3>1, <3>2, MovedOn
    <2>3. /\ IsSched(sched') /\ sched'.pending = S.pending /\ sched'.ready = S.ready
          /\ sched'.stage = [S.stage EXCEPT ![d] = k]
          /\ sched'.next = [S.next EXCEPT ![d] = 0]
          /\ sched'.received = [S.received EXCEPT ![d] = 0]
          /\ sched'.waiting = (IF w THEN Append(S.waiting, d) ELSE S.waiting)
          /\ sched'.won = S.won
          /\ sched'.skipped = S.skipped /\ sched'.flight = S.flight /\ sched'.busy = S.busy
          /\ sched'.ended = S.ended
      BY <2>a DEF MovedTo
    <2>4. /\ sched'.waiting \in Seq(Docs) /\ NoRepeats(sched'.waiting)
          /\ Range(sched'.waiting) = (Range(sched.waiting) \ {d}) \union (IF w THEN {d} ELSE {})
      <3>1. CASE w
        <4>1. d \notin Range(S.waiting)
          OBVIOUS
        <4> QED BY <4>1, <3>1, <2>3, <1>1, AppendIs
      <3>2. CASE ~w
        BY <3>2, <2>3
      <3> QED BY <3>1, <3>2
    <2>5. sched'.skipped \in Seq(Docs)
      BY <2>3, <1>1 DEF Members, Types
    <2>6. Going(d)
      BY <2>3, <2>4, <2>5 DEF Going
    <2>7. Entered(d, k, w)
      <3>1. Range(sched'.ready) = Range(sched.ready) \union {d}
        BY <2>3, <1>4
      <3> QED BY <3>1, <2>3, <2>4, <2>6 DEF Entered
    <2>8. Members' /\ InRun' = InRun /\ \A e \in Docs : e # d => sched'.stage[e] = sched.stage[e]
      BY <2>1, <2>7, <1>1, <1>2, EnteredKeeps
    <2> QED BY <2>3, <2>8, <1>3 DEF Stepped
  <1>5. CASE \E b \in BOOLEAN : to = Out(b)
    <2>1. PICK b \in BOOLEAN : to = Out(b)
      BY <1>5
    <2>2. to.stage = Done /\ to.waits = FALSE /\ to.survived = b
      BY <2>1 DEF Out
    <2>a. PICK M, N :
             MovedTo(S, M, d, Done, FALSE, b) /\ Sieved(M, N, d) /\ GroupSettled(N, sched', d, b)
      <3>1. b \in BOOLEAN /\ Moved(S, d, Out(b))
        BY <2>1
      <3>2. Leaves(S, d, b)
        BY <3>1, MovedOut
      <3> QED BY <3>2 DEF Leaves
    <2>3. /\ IsSched(N) /\ N.pending = S.pending
          /\ N.ready = Sifted(S.ready, Range(S.ready) \ {d})
          /\ N.stage = [S.stage EXCEPT ![d] = Done]
          /\ N.next = [S.next EXCEPT ![d] = 0]
          /\ N.received = [S.received EXCEPT ![d] = 0]
          /\ N.waiting = S.waiting
          /\ N.won = (IF b THEN S.won \union {d} ELSE S.won)
          /\ N.skipped = S.skipped /\ N.flight = S.flight /\ N.busy = S.busy
          /\ N.ended = S.ended
      BY <2>a DEF MovedTo, Sieved
    <2> DEFINE g == GroupOf[d]
               rest == RestOf(N, d)
    <2>4. /\ IsSched(sched') /\ sched'.pending = sched.pending /\ sched'.ready = N.ready
          /\ sched'.next = [sched.next EXCEPT ![d] = 0]
          /\ sched'.received = [sched.received EXCEPT ![d] = 0]
          /\ sched'.waiting = S.waiting /\ sched'.won = N.won /\ sched'.flight = S.flight
      BY <2>3, <2>a DEF GroupSettled
    <2>5. \/ GroupOf = <<>> /\ sched' = N
          \/ /\ GroupOf # <<>> /\ (~b \/ g \in N.ended)
             /\ sched'.busy = [N.busy EXCEPT ![g] = Bigger(0, @ - 1)]
             /\ sched'.stage = N.stage /\ sched'.skipped = N.skipped /\ sched'.ended = N.ended
          \/ /\ GroupOf # <<>> /\ b
             /\ sched'.busy = [N.busy EXCEPT ![g] = Bigger(0, @ - 1)]
             /\ sched'.stage = [e \in Docs |-> IF e \in rest THEN Done ELSE N.stage[e]]
             /\ sched'.skipped = N.skipped \o Ascending(rest)
             /\ sched'.ended = N.ended \union {g}
      BY <2>a DEF GroupSettled
    <2>6. /\ sched.stage \in [Docs -> Stages \union {Queued, Done}]
          /\ N.stage \in [Docs -> Stages \union {Queued, Done}]
          /\ N.stage[d] = Done /\ \A e \in Docs : e # d => N.stage[e] = sched.stage[e]
      <3>1. /\ sched.stage \in [Docs -> Stages \union {Queued, Done}]
            /\ Done \in Stages \union {Queued, Done}
        BY <1>1 DEF Members, Types
      <3>2. N.stage = [sched.stage EXCEPT ![d] = Done]
        BY <2>3
      <3> QED BY <3>1, <3>2, <1>1, PutIs
    <2>7. /\ Range(sched.pending) \subseteq Docs /\ N.pending = sched.pending
          /\ sched.skipped \in Seq(Docs) /\ N.skipped = sched.skipped
      BY <1>1, <2>3, RangeIn DEF Members, Types
    <2>8. /\ rest \subseteq Range(sched.pending) /\ rest \subseteq Docs
          /\ \A e \in rest : e # d /\ sched.stage[e] = Queued
      <3>1. \A e \in rest : e # d
        BY <2>6, PlanIs DEF RestOf
      <3> QED BY <3>1, <2>6, <2>7 DEF RestOf
    <2>9. /\ sched'.ready \in Seq(Docs) /\ NoRepeats(sched'.ready)
          /\ Range(sched'.ready) = Range(sched.ready) \ {d}
      <3>1. /\ N.ready \in Seq(Docs) /\ NoRepeats(N.ready)
            /\ Range(N.ready) = Range(S.ready) \intersect (Range(S.ready) \ {d})
        BY <2>3, SiftedOf
      <3> QED BY <3>1, <2>4
    <2>10. PICK gone :
              /\ gone \subseteq Range(sched.pending) /\ \A e \in gone : sched.stage[e] = Queued
              /\ sched'.stage = [e \in Docs |-> IF e = d \/ e \in gone THEN Done ELSE sched.stage[e]]
              /\ Range(sched'.skipped) = Range(sched.skipped) \union gone
              /\ sched'.skipped \in Seq(Docs)
              /\ GroupOf # <<>> =>
                    /\ sched'.busy = [sched.busy EXCEPT ![g] = Bigger(0, @ - 1)]
                    /\ \/ sched'.ended = sched.ended /\ (b => g \in sched.ended)
                       \/ b /\ sched'.ended = sched.ended \union {g} /\ gone = rest
      <3>1. sched'.stage = N.stage =>
               sched'.stage = [e \in Docs |-> IF e = d \/ e \in {} THEN Done ELSE sched.stage[e]]
        BY <2>6
      <3>2. CASE GroupOf = <<>> /\ sched' = N
        <4>1. sched'.stage = N.stage /\ sched'.skipped = sched.skipped
          BY <3>2, <2>7
        <4> WITNESS {}
        <4> QED BY <4>1, <3>1, <3>2, <2>7
      <3>3. CASE /\ GroupOf # <<>> /\ (~b \/ g \in N.ended)
                 /\ sched'.busy = [N.busy EXCEPT ![g] = Bigger(0, @ - 1)]
                 /\ sched'.stage = N.stage /\ sched'.skipped = N.skipped
                 /\ sched'.ended = N.ended
        <4>1. N.busy = sched.busy /\ N.ended = sched.ended
          BY <2>3
        <4>2. sched'.skipped = sched.skipped
          BY <3>3, <2>7
        <4> WITNESS {}
        <4> QED BY <4>1, <4>2, <3>1, <3>3, <2>7
      <3>4. CASE /\ GroupOf # <<>> /\ b
                 /\ sched'.busy = [N.busy EXCEPT ![g] = Bigger(0, @ - 1)]
                 /\ sched'.stage = [e \in Docs |-> IF e \in rest THEN Done ELSE N.stage[e]]
                 /\ sched'.skipped = N.skipped \o Ascending(rest)
                 /\ sched'.ended = N.ended \union {g}
        <4>1. N.busy = sched.busy /\ N.ended = sched.ended
          BY <2>3
        <4> HIDE DEF rest, g
        <4>2. /\ Ascending(rest) \in Seq(Docs) /\ Range(Ascending(rest)) = rest
          <5>1. rest \subseteq Int /\ IsFiniteSet(rest)
            BY <2>8, PlanIs, FS_Subset
          <5> QED BY <5>1, <2>8, AscendingOf, SeqIn
        <4>3. /\ sched'.skipped \in Seq(Docs)
              /\ Range(sched'.skipped) = Range(sched.skipped) \union rest
          BY <4>2, <3>4, <2>7, ConcatIs
        <4>4. sched'.stage = [e \in Docs |-> IF e = d \/ e \in rest THEN Done ELSE sched.stage[e]]
          BY <3>4, <2>6
        <4> WITNESS rest
        <4> QED BY <4>1, <4>3, <4>4, <3>4, <2>8
      <3> QED BY <2>5, <3>2, <3>3, <3>4
    <2>11. sched'.won = (IF b THEN sched.won \union {d} ELSE sched.won)
      BY <2>3, <2>4
    <2>12. Range(sched'.waiting) = Range(sched.waiting) \ {d}
      BY <2>4
    <2>13. Going(d)
      BY <2>4, <2>9, <2>10 DEF Going
    <2>14. Left(d, b, gone)
      BY <2>9, <2>10, <2>11, <2>12, <2>13 DEF Left
    <2>15. /\ Members' /\ InRun' = InRun \ {d}
           /\ \A e \in Docs : sched'.stage[e] = Done <=> e = d \/ e \in gone \/ sched.stage[e] = Done
      BY <2>14, <1>1, <1>2, LeftKeeps
    <2>16. gone = rest => \A e \in Docs : sched.stage[e] = Queued /\ GroupOf[e] = g => e \in gone
      <3> SUFFICES ASSUME gone = rest, NEW e \in Docs, sched.stage[e] = Queued, GroupOf[e] = g
                   PROVE  e \in gone
        OBVIOUS
      <3>1. e \in Line /\ e # d
        BY <1>1, PlanIs DEF Members, Queues, InRun
      <3>2. e \in Range(sched.pending)
        BY <3>1, <1>2, EmptyIs DEF Line
      <3> QED BY <3>1, <3>2, <2>6, <2>7 DEF RestOf
    <2>17. Settled(d, b)
      BY <2>10, <2>11, <2>15, <2>16 DEF Settled
    <2> QED BY <2>4, <2>15, <2>17, <1>3
  <1> QED BY <1>4, <1>5

-----------------------------------------------------------------------------
(* A stage was answered, or decided: its document moves on, or leaves.     *)
Moves == \E d \in Docs : Stepped(d) \/ \E b \in BOOLEAN : Settled(d, b)

LEMMA ReceivedIs ==
    ASSUME BaseInv, QueueInv, Reporting, NEW S, S = Received \/ S = [Received EXCEPT !.ready = Append(@, Reported.doc)]
    PROVE  /\ IsSched(S) /\ S.pending = sched.pending /\ S.stage = sched.stage
           /\ S.next = sched.next /\ S.won = sched.won /\ S.skipped = sched.skipped
           /\ S.busy = sched.busy /\ S.ended = sched.ended /\ S.waiting = sched.waiting
           /\ S.flight = sched.flight - 1
           /\ S.received = [sched.received EXCEPT ![Reported.doc] = Reported.end]
           /\ S = Received => S.ready = sched.ready
           /\ S # Received => S.ready = Append(sched.ready, Reported.doc)
  <1>1. IsSched(sched)
    BY ReportedIs DEF Shapes
  <1>2. /\ IsSched(Received) /\ Received.pending = sched.pending /\ Received.stage = sched.stage
        /\ Received.next = sched.next /\ Received.won = sched.won
        /\ Received.skipped = sched.skipped /\ Received.busy = sched.busy
        /\ Received.ended = sched.ended /\ Received.waiting = sched.waiting
        /\ Received.ready = sched.ready /\ Received.flight = sched.flight - 1
        /\ Received.received = [sched.received EXCEPT ![Reported.doc] = Reported.end]
    BY <1>1 DEF Received, IsSched
  <1>3. CASE S = Received
    BY <1>2, <1>3
  <1>4. CASE S # Received
    <2>1. S = [Received EXCEPT !.ready = Append(@, Reported.doc)]
      BY <1>4
    <2>2. /\ IsSched(S) /\ S.pending = Received.pending /\ S.stage = Received.stage
          /\ S.next = Received.next /\ S.won = Received.won /\ S.skipped = Received.skipped
          /\ S.busy = Received.busy /\ S.ended = Received.ended /\ S.waiting = Received.waiting
          /\ S.flight = Received.flight /\ S.received = Received.received
          /\ S.ready = Append(Received.ready, Reported.doc)
      BY <2>1, <1>2 DEF IsSched
    <2> QED BY <2>2, <1>2, <1>4
  <1> QED BY <1>3, <1>4

LEMMA ReportMoves ==
    ASSUME BaseInv, QueueInv, Reporting, Complete(Reported), GroupReported,
           plan' = plan, op' = op, chunk' = chunk, tree' = tree, pc' = pc, back' = back,
           NEW S, S = Received \/ S = [Received EXCEPT !.ready = Append(@, Reported.doc)],
           NEW to, Moved(S, Reported.doc, to),
           \/ \E b \in BOOLEAN : to = Out(b)
           \/ /\ S # Received
              /\ \E k \in Stages, w \in BOOLEAN :
                    to = At(k, w) /\ (w \/ Partners(Reported.doc, k) > 0)
    PROVE  QueueInv' /\ Moves
  <1> DEFINE d == Reported.doc
  <1>1. /\ pc = "report" /\ Running /\ Members
        /\ Launched \in Seq(GroupType) /\ Len(Launched) \in Nat
        /\ Tail(Launched) \in Seq(GroupType) /\ Len(Tail(Launched)) = Len(Launched) - 1
        /\ Range(Tail(Launched)) \subseteq Range(Launched) /\ Once(Tail(Launched))
        /\ Sent = DocsOf(Tail(Launched)) \union {d} /\ d \notin DocsOf(Tail(Launched))
        /\ d \in InRun
        /\ IsExec(exec') /\ Launched' = Tail(Launched) /\ exec'.outstanding # <<>>
        /\ exec'.outstanding \in Seq(Seq(GroupType)) /\ Len(exec'.outstanding) = 1
    BY ReportedIs
  <1>2. /\ d \in Docs /\ Reported.end \in Nat /\ d \notin Range(sched.waiting)
        /\ d \notin ReadySet \union Planned
    BY AnsweredIs
  <1>3. /\ IsSched(S) /\ S.pending = sched.pending /\ S.stage = sched.stage
        /\ S.next = sched.next /\ S.won = sched.won /\ S.skipped = sched.skipped
        /\ S.busy = sched.busy /\ S.ended = sched.ended /\ S.waiting = sched.waiting
        /\ S.flight = sched.flight - 1
        /\ S.received = [sched.received EXCEPT ![d] = Reported.end]
        /\ S = Received => S.ready = sched.ready
        /\ S # Received => S.ready = Append(sched.ready, d)
    BY ReceivedIs
  <1>4. Sent' = Sent \ {d}
    <2>1. Sent' = DocsOf(Tail(Launched))
      BY <1>1 DEF Sent
    <2> HIDE DEF d
    <2> QED BY <2>1, <1>1
  <1> HIDE DEF d
  <1>5. [S.received EXCEPT ![d] = 0] = [sched.received EXCEPT ![d] = 0]
    <2>1. sched.received \in [Docs -> Nat]
      BY <1>1 DEF Members, Types
    <2> QED BY <2>1, <1>2, <1>3
  <1>6. S.flight = Len(chunk.groups) + Len(Launched')
    <2>1. sched.flight = Len(chunk.groups) + Len(Launched) /\ Len(chunk.groups) \in Nat
      BY <1>1 DEF Members, Types
    <2> QED BY <2>1, <1>1, <1>3
  <1>7. /\ S.waiting \in Seq(Docs) /\ NoRepeats(S.waiting)
        /\ Range(S.waiting) = Range(sched.waiting) \ {d}
    BY <1>1, <1>2, <1>3 DEF Members, Types, Lists
  <1>8. /\ S.ready \in Seq(Docs) /\ NoRepeats(S.ready)
        /\ Range(S.ready) \ {d} = Range(sched.ready) \ {d}
        /\ S # Received => d \in Range(S.ready)
    <2>1. sched.ready \in Seq(Docs) /\ NoRepeats(sched.ready) /\ d \notin Range(sched.ready)
      BY <1>1, <1>2 DEF Members, Types, Lists, Unshared, ReadySet
    <2>2. CASE S = Received
      BY <2>1, <2>2, <1>3
    <2>3. CASE S # Received
      <3>1. /\ Append(sched.ready, d) \in Seq(Docs) /\ NoRepeats(Append(sched.ready, d))
            /\ Range(Append(sched.ready, d)) = Range(sched.ready) \union {d}
        BY <2>1, <1>2, AppendIs
      <3>2. S.ready = Append(sched.ready, d)
        BY <2>3, <1>3
      <3> QED BY <3>1, <3>2
    <2> QED BY <2>2, <2>3
  <1>9. Len(exec'.outstanding) <= 1 /\ d \notin Planned
    BY <1>1, <1>2
  <1>10. \/ \E b \in BOOLEAN : to = Out(b)
         \/ /\ d \in Range(S.ready)
            /\ \E k \in Stages, w \in BOOLEAN : to = At(k, w) /\ (w \/ Partners(d, k) > 0)
    BY <1>8 DEF d
  <1>11. Moved(S, d, to)
    BY DEF d
  <1>12. QueueInv' /\ (Stepped(d) \/ \E b \in BOOLEAN : Settled(d, b))
    BY <1>1, <1>3, <1>4, <1>5, <1>6, <1>7, <1>8, <1>9, <1>10, <1>11, MoveKeeps
  <1> QED BY <1>12, <1>2 DEF Moves

LEMMA ReportAdvanceKeeps ==
    ASSUME BaseInv, QueueInv, ReportAdvance
    PROVE  QueueInv' /\ Moves
  <1> DEFINE d == Reported.doc
             S == [Received EXCEPT !.ready = Append(@, d)]
  <1>1. /\ Reporting /\ Complete(Reported) /\ GroupReported /\ Reported.stage < LastStage
        /\ plan' = plan /\ op' = op /\ chunk' = chunk /\ tree' = tree /\ pc' = pc /\ back' = back
    BY DEF ReportAdvance
  <1>2. PICK to \in Enter(d, Reported.stage + 1, FALSE) : Moved(S, d, to)
    BY DEF ReportAdvance
  <1>3. d \in Docs /\ Reported.stage \in Stages
    BY <1>1, AnsweredIs
  <1>4. Reported.stage + 1 \in Stages
    BY <1>1, <1>3, PlanIs
  <1>5. \/ \E k \in Stages, w \in BOOLEAN : to = At(k, w) /\ (w \/ Partners(d, k) > 0)
        \/ \E b \in BOOLEAN : to = Out(b)
    BY <1>2, <1>3, <1>4, EnterIs
  <1>6. S # Received
    <2>1. d \in Docs /\ sched.ready \in Seq(Docs) /\ IsSched(sched)
      BY <1>1, <1>3, ReportedIs DEF Members, Types, Shapes
    <2>2. DOMAIN Received = DOMAIN sched /\ Received.ready = sched.ready
      BY <2>1 DEF Received, IsSched
    <2>3. S.ready = Append(sched.ready, d)
      BY <2>1, <2>2 DEF IsSched
    <2>4. Len(Append(sched.ready, d)) = Len(sched.ready) + 1 /\ Len(sched.ready) \in Nat
      BY <2>1
    <2> HIDE DEF S
    <2>5. S = Received => Append(sched.ready, d) = sched.ready
      BY <2>2, <2>3
    <2> QED BY <2>4, <2>5
  <1>7. S = [Received EXCEPT !.ready = Append(@, Reported.doc)]
    OBVIOUS
  <1> HIDE DEF S
  <1> QED BY <1>1, <1>2, <1>5, <1>6, <1>7, ReportMoves

LEMMA ReportSettleKeeps ==
    ASSUME BaseInv, QueueInv, ReportSettle
    PROVE  QueueInv' /\ Moves
  <1>1. /\ Reporting /\ Complete(Reported) /\ GroupReported
        /\ plan' = plan /\ op' = op /\ chunk' = chunk /\ tree' = tree /\ pc' = pc /\ back' = back
    BY DEF ReportSettle
  <1>2. \E b \in BOOLEAN : Moved(Received, Reported.doc, Out(b))
    BY DEF ReportSettle
  <1>3. PICK b \in BOOLEAN : Moved(Received, Reported.doc, Out(b))
    BY <1>2
  <1> DEFINE to == Out(b)
             S == Received
  <1>4. Moved(S, Reported.doc, to) /\ S = Received /\ \E e \in BOOLEAN : to = Out(e)
    BY <1>3
  <1> HIDE DEF to, S
  <1> QED BY <1>1, <1>4, ReportMoves

LEMMA DecideWaitingKeeps ==
    ASSUME BaseInv, QueueInv, DecideWaiting
    PROVE  QueueInv' /\ Moves
  <1> DEFINE d == Head(sched.waiting)
             S == [sched EXCEPT !.waiting = Tail(@)]
  <1>1. /\ pc = "report" /\ Head(exec.outstanding) = <<>> /\ sched.waiting # <<>>
        /\ plan' = plan /\ op' = op /\ chunk' = chunk /\ tree' = tree /\ pc' = pc /\ back' = back
        /\ exec' = exec
    BY DEF DecideWaiting
  <1>2. PICK to \in Enter(d, sched.stage[d], TRUE) : Moved(S, d, to)
    BY DEF DecideWaiting
  <1>3. Running /\ Shapes /\ Members /\ Turns
    BY <1>1 DEF QueueInv, Running
  <1>4. /\ exec.outstanding \in Seq(Seq(GroupType)) /\ Len(exec.outstanding) <= 1
        /\ exec.outstanding # <<>>
    BY <1>1, <1>3 DEF Members, Types, Turns
  <1>5. Launched = <<>>
    BY <1>1, <1>4, OneIs DEF Launched
  <1>6. Sent = {} /\ Launched \in Seq(GroupType) /\ Once(Launched) /\ Launched' = Launched
    <2>1. GroupType' = GroupType /\ Launched' = Launched
      BY <1>1, Frozen DEF Launched
    <2> QED BY <2>1, <1>5, EmptyIs DEF Sent
  <1>7. Sent' = Sent
    BY <1>6 DEF Sent
  <1>8. sched.waiting \in Seq(Docs) /\ NoRepeats(sched.waiting)
    BY <1>3 DEF Members, Types, Lists
  <1>9. /\ d \in Docs /\ d \in Range(sched.waiting) /\ Tail(sched.waiting) \in Seq(Docs)
        /\ NoRepeats(Tail(sched.waiting)) /\ Range(Tail(sched.waiting)) = Range(sched.waiting) \ {d}
    <2>1. /\ d \in Docs /\ d \in Range(sched.waiting) /\ Tail(sched.waiting) \in Seq(Docs)
          /\ Range(sched.waiting) = Range(Tail(sched.waiting)) \union {d}
          /\ NoRepeats(Tail(sched.waiting)) /\ d \notin Range(Tail(sched.waiting))
      BY <1>1, <1>8, TailIs
    <2> HIDE DEF d
    <2> QED BY <2>1
  <1> HIDE DEF d
  <1>10. /\ d \in Range(sched.ready) /\ d \notin Planned /\ d \in InRun
    <2>1. d \in Range(sched.ready) /\ d \notin Planned
      BY <1>3, <1>9 DEF Members, Streams
    <2>2. d \in InRun
      BY <1>3, <2>1 DEF Members, Queues, ReadySet
    <2> QED BY <2>1, <2>2
  <1>11. /\ IsSched(S) /\ S.pending = sched.pending /\ S.stage = sched.stage
         /\ S.next = sched.next /\ S.won = sched.won /\ S.skipped = sched.skipped
         /\ S.busy = sched.busy /\ S.ended = sched.ended /\ S.waiting = Tail(sched.waiting)
         /\ S.flight = sched.flight /\ S.received = sched.received /\ S.ready = sched.ready
    BY <1>3 DEF Shapes, IsSched
  <1> HIDE DEF S
  <1>12. \/ \E k \in Stages, w \in BOOLEAN : to = At(k, w) /\ (w \/ Partners(d, k) > 0)
         \/ \E b \in BOOLEAN : to = Out(b)
    <2>1. sched.stage[d] \in Stages
      BY <1>10 DEF InRun
    <2> QED BY <2>1, <1>2, <1>9, EnterIs
  <1>13. IsExec(exec')
    BY <1>1, <1>3 DEF Shapes, IsExec
  <1>14. /\ exec'.outstanding \in Seq(Seq(GroupType)) /\ Len(exec'.outstanding) <= 1
         /\ exec'.outstanding # <<>>
    BY <1>1, <1>4
  <1>15. /\ Launched' \in Seq(GroupType) /\ Once(Launched') /\ Range(Launched') \subseteq Range(Launched)
    BY <1>6
  <1>16. Sent' = Sent \ {d}
    BY <1>6, <1>7
  <1>17. [S.received EXCEPT ![d] = 0] = [sched.received EXCEPT ![d] = 0]
    BY <1>11
  <1>18. S.flight = Len(chunk.groups) + Len(Launched')
    BY <1>3, <1>6, <1>11 DEF Members
  <1>19. /\ S.ready \in Seq(Docs) /\ NoRepeats(S.ready) /\ d \in Range(S.ready)
         /\ Range(S.ready) \ {d} = Range(sched.ready) \ {d}
    BY <1>3, <1>10, <1>11 DEF Members, Types, Lists, Unshared
  <1>20. /\ S.waiting \in Seq(Docs) /\ NoRepeats(S.waiting)
         /\ Range(S.waiting) = Range(sched.waiting) \ {d}
    BY <1>9, <1>11
  <1>21. QueueInv' /\ (Stepped(d) \/ \E b \in BOOLEAN : Settled(d, b))
    <2>1. \/ \E b \in BOOLEAN : to = Out(b)
          \/ /\ d \in Range(S.ready)
             /\ \E k \in Stages, w \in BOOLEAN : to = At(k, w) /\ (w \/ Partners(d, k) > 0)
      BY <1>12, <1>19
    <2> QED BY <2>1, <1>1, <1>2, <1>10, <1>11, <1>13, <1>14, <1>15, <1>16, <1>17, <1>18, <1>19, <1>20, MoveKeeps
  <1> QED BY <1>21, <1>9 DEF Moves

-----------------------------------------------------------------------------
(* A pass was reported.                                                    *)
LEMMA EntryReportedKeeps ==
    ASSUME BaseInv, QueueInv, EntryReported
    PROVE  QueueInv' /\ Alike
  <1>1. /\ pc = "report" /\ Head(exec.outstanding) = <<>> /\ sched.waiting = <<>>
        /\ plan' = plan /\ op' = op /\ chunk' = chunk /\ back' = back
        /\ pc' = IF back = "submit" /\ Len(exec.outstanding) > 1 THEN "report" ELSE back
        /\ sched' = [sched EXCEPT !.skipped = <<>>]
    BY DEF EntryReported, PassReported
  <1>2. Running /\ ~Filling /\ Shapes /\ Members /\ Turns
    BY <1>1 DEF QueueInv, Running, Filling
  <1>3. Types /\ Lists /\ Queues /\ Streams /\ Chains
    BY <1>2 DEF Members
  <1>4. IsTree(tree') /\ tree'.admitted = tree.admitted
        /\ tree'.skipped = tree.skipped \union Range(sched.skipped)
    <2>1. tree' = [tree EXCEPT !.skipped = @ \union Range(sched.skipped)]
      BY DEF EntryReported, PassReported
    <2> QED BY <2>1, <1>2 DEF Shapes, IsTree
  <1>5. IsExec(exec') /\ exec'.outstanding = Tail(exec.outstanding)
    <2>1. \E b : exec' = [exec EXCEPT !.outstanding = Tail(@), !.borrowers = b]
      BY <1>2 DEF EntryReported, PassReported, Shapes, IsExec
    <2> QED BY <2>1, <1>2 DEF Shapes, IsExec
  <1>6. /\ exec.outstanding \in Seq(Seq(GroupType)) /\ Len(exec.outstanding) <= 1
        /\ exec.outstanding # <<>>
    BY <1>1, <1>2, <1>3 DEF Types, Turns
  <1>7. /\ Launched = <<>> /\ exec'.outstanding = <<>> /\ Len(exec.outstanding) = 1
    BY <1>1, <1>5, <1>6, OneIs DEF Launched
  <1>8. Launched' = Launched /\ Sent' = Sent
    <2>1. Launched' = Launched
      BY <1>7 DEF Launched
    <2> QED BY <2>1 DEF Sent
  <1>9. /\ IsSched(sched') /\ sched'.pending = sched.pending /\ sched'.stage = sched.stage
        /\ sched'.next = sched.next /\ sched'.won = sched.won /\ sched'.skipped = <<>>
        /\ sched'.busy = sched.busy /\ sched'.ended = sched.ended
        /\ sched'.waiting = sched.waiting /\ sched'.flight = sched.flight
        /\ sched'.received = sched.received /\ sched'.ready = sched.ready
    BY <1>1, <1>2 DEF Shapes, IsSched
  <1>10. /\ Docs' = Docs /\ Stages' = Stages /\ GroupType' = GroupType
         /\ \A e, j : Partners(e, j)' = Partners(e, j)
    BY <1>1, Frozen
  <1>11. Planned' = Planned /\ ReadySet' = ReadySet /\ Line' = Line /\ InRun' = InRun
    BY <1>1, <1>9, <1>10 DEF Planned, ReadySet, Line, InRun
  <1>12. Types'
    <2>1. tree'.skipped \subseteq Docs /\ tree'.admitted \subseteq Docs
      BY <1>3, <1>4, RangeIn DEF Types
    <2>2. /\ exec'.outstanding \in Seq(Seq(GroupType)) /\ Len(exec'.outstanding) <= 1
          /\ sched'.skipped \in Seq(Docs)
      BY <1>7, <1>9, EmptyIs
    <2> QED BY <2>1, <2>2, <1>1, <1>3, <1>9, <1>10 DEF Types
  <1>13. Lists'
    BY <1>1, <1>3, <1>8, <1>9 DEF Lists, Unshared
  <1>14. Queues'
    <2>1. Range(sched'.skipped) = {}
      BY <1>9, EmptyIs
    <2> QED BY <2>1, <1>3, <1>4, <1>8, <1>9, <1>10, <1>11 DEF Queues
  <1>15. Streams'
    BY <1>3, <1>8, <1>9, <1>10, <1>11 DEF Streams
  <1>16. Chains'
    BY <1>1, <1>3, <1>8, <1>9, <1>11 DEF Chains
  <1>17. sched'.flight = Len(chunk'.groups) + Len(Launched')
    BY <1>1, <1>2, <1>8, <1>9 DEF Members
  <1>18. pc' \in {"top", "submit"} /\ (pc' = "top" => chunk.groups = <<>>)
    BY <1>1, <1>2, <1>7 DEF Turns
  <1>19. Turns'
    BY <1>1, <1>2, <1>7, <1>9, <1>18 DEF Turns, Filling
  <1> QED BY <1>1, <1>2, <1>4, <1>5, <1>9, <1>12, <1>13, <1>14, <1>15, <1>16, <1>17, <1>19
          DEF QueueInv, Members, Shapes, Alike

-----------------------------------------------------------------------------
(* Every step.                                                             *)
LEMMA BaseKeeps ==
    ASSUME BaseInv, QueueInv, [Next]_vars
    PROVE  BaseInv'
  <1>1. plan' = plan /\ (op' = op \/ op' = 1 \/ (op < Len(Ops) /\ op' = op + 1)) /\ Ops' = Ops
    BY DEF Next, vars, StartOperator, Top, MakeRoom, TakeReady, ReadyTaken, Admission, PopDead,
           HoldTurn, HoldForPages, HoldForRoom, HoldForSuffix, AdmitNext, CloseChunk, Nothing,
           RunPass, PassRaises, Submit, ReportPart, ReportAdvance, ReportSettle, DecideWaiting,
           EntryReported, PassReported, End, NextOperator, EndQuery, NextQuery, Rest, Ops
  <1>2. op' \in DOMAIN Ops'
    <2>1. Ops \in Seq(OpRecord(Docs)) /\ op \in DOMAIN Ops
      BY PlanIs DEF BaseInv
    <2>2. Len(Ops) \in Nat /\ DOMAIN Ops = 1 .. Len(Ops)
      BY <2>1
    <2> QED BY <2>1, <2>2, <1>1
  <1>3. pc = "report" => back \in {"top", "submit"}
    BY DEF QueueInv, Running, Turns
  <1>4. pc' \in Pcs
    <2>1. CASE Rest \/ UNCHANGED vars
      BY <2>1 DEF Rest, vars, BaseInv
    <2>2. CASE EntryReported
      BY <2>2, <1>3 DEF EntryReported, PassReported, Pcs
    <2>3. CASE \E d \in Docs : Admission(d)
      BY <2>3 DEF Admission, PopDead, HoldTurn, HoldForPages, HoldForRoom, HoldForSuffix, AdmitNext,
                  AdmitReserved, Popping, Live, Eligible, BaseInv, Pcs
    <2>4. CASE Top \/ MakeRoom \/ TakeReady \/ ReadyTaken \/ CloseChunk \/ Nothing \/ RunPass
      BY <2>4 DEF Top, MakeRoom, TakeReady, ReadyTaken, CloseChunk, Nothing, RunPass, BaseInv, Pcs
    <2>5. CASE \/ StartOperator \/ PassRaises \/ Submit \/ ReportPart \/ ReportAdvance \/ ReportSettle
               \/ DecideWaiting \/ End \/ NextOperator \/ EndQuery \/ NextQuery
      BY <2>5 DEF StartOperator, Start, PassRaises, Submit, ReportPart, ReportAdvance, ReportSettle,
                  DecideWaiting, End, NextOperator, EndQuery, NextQuery, BaseInv, Pcs
    <2> QED BY <2>1, <2>2, <2>3, <2>4, <2>5 DEF Next
  <1> QED BY <1>1, <1>2, <1>4 DEF BaseInv

\* How a step may change the documents of a group.
GroupStep ==
    \/ ~Running' \/ StartOperator
    \/ Running /\ (Alike \/ Moves \/ \E d \in Docs : Admitted(d))

LEMMA QueueKeeps ==
    ASSUME BaseInv, QueueInv, [Next]_vars
    PROVE  QueueInv' /\ GroupStep
  <1>1. CASE StartOperator
    BY <1>1, StartKeeps DEF GroupStep
  <1>2. CASE PassRaises \/ NextOperator \/ EndQuery \/ NextQuery
    <2>1. ~Running'
      BY <1>2 DEF PassRaises, NextOperator, EndQuery, NextQuery, Running
    <2> QED BY <2>1 DEF QueueInv, GroupStep
  <1>3. CASE Rest \/ UNCHANGED vars
    <2>1. UNCHANGED vars
      BY <1>3 DEF Rest
    <2>2. QueueInv'
      <3>1. /\ Docs' = Docs /\ Stages' = Stages /\ GroupType' = GroupType /\ Launched' = Launched
            /\ LimitReached' = LimitReached /\ \A d, j : Partners(d, j)' = Partners(d, j)
        BY <2>1, Frozen DEF vars, Launched, LimitReached
      <3>2. Sent' = Sent /\ Planned' = Planned /\ ReadySet' = ReadySet /\ Line' = Line /\ InRun' = InRun
            /\ Running' = Running /\ Filling' = Filling
        BY <2>1, <3>1 DEF vars, Sent, Planned, ReadySet, Line, InRun, Running, Filling
      <3>3. Shapes => Shapes'
        BY <2>1 DEF vars, Shapes
      <3>4. Members => Members'
        <4>1. chunk'.left = chunk.left /\ Unmoved
          BY <2>1 DEF vars, Unmoved
        <4>2. Members => chunk'.left \in Nat
          BY <4>1 DEF Members, Types
        <4> QED BY <4>1, <4>2, UnmovedKeeps
      <3>5. Turns => Turns'
        BY <2>1, <3>1, <3>2 DEF vars, Turns
      <3> QED BY <3>2, <3>3, <3>4, <3>5 DEF QueueInv
    <2>3. Running => Alike
      BY <2>1 DEF vars, Alike
    <2>4. ~Running => ~Running'
      BY <2>1 DEF vars, Running
    <2> QED BY <2>2, <2>3, <2>4 DEF GroupStep
  <1>4. CASE Top \/ MakeRoom \/ ReadyTaken \/ Nothing \/ RunPass \/ End
    <2>1. Running
      BY <1>4 DEF Top, MakeRoom, ReadyTaken, Nothing, RunPass, End, Running
    <2>2. QueueInv' /\ Unmoved
      BY <1>4, TopKeeps, MakeRoomKeeps, ReadyTakenKeeps, NothingKeeps, RunPassKeeps, EndKeeps
    <2>3. Alike
      BY <2>2 DEF Alike, Unmoved
    <2> QED BY <2>1, <2>2, <2>3 DEF GroupStep
  <1>5. CASE TakeReady \/ Submit \/ ReportPart \/ EntryReported
    <2>1. Running
      BY <1>5 DEF TakeReady, Submit, ReportPart, Reporting, EntryReported, PassReported, Running
    <2>2. QueueInv' /\ Alike
      BY <1>5, TakeReadyKeeps, SubmitKeeps, ReportPartKeeps, EntryReportedKeeps
    <2> QED BY <2>1, <2>2 DEF GroupStep
  <1>6. ASSUME NEW d \in Docs, Admission(d) PROVE QueueInv' /\ GroupStep
    <2>1. Running
      BY <1>6 DEF Admission, PopDead, HoldTurn, HoldForPages, HoldForRoom, HoldForSuffix, AdmitNext,
                  Eligible, Live, Popping, Running
    <2>2. CASE AdmitNext(d)
      <3>1. QueueInv' /\ (Alike \/ Admitted(d))
        BY <2>2, AdmitKeeps
      <3> QED BY <3>1, <2>1 DEF GroupStep
    <2>3. CASE ~AdmitNext(d)
      <3>1. HoldsBack(d) \/ PopDead(d)
        BY <2>3, <1>6 DEF Admission, HoldsBack
      <3>2. QueueInv' /\ Shuffled
        BY <3>1, HoldBackKeeps, HoldFields
      <3>3. Alike
        BY <3>2 DEF Alike, Shuffled
      <3> QED BY <3>2, <3>3, <2>1 DEF GroupStep
    <2> QED BY <2>2, <2>3
  <1>7. CASE CloseChunk
    <2>1. Running
      BY <1>7 DEF CloseChunk, Running
    <2>2. QueueInv' /\ Shuffled
      BY <1>7, CloseKeeps
    <2>3. Alike
      BY <2>2 DEF Alike, Shuffled
    <2> QED BY <2>1, <2>2, <2>3 DEF GroupStep
  <1>8. CASE ReportAdvance \/ ReportSettle \/ DecideWaiting
    <2>1. Running
      BY <1>8 DEF ReportAdvance, ReportSettle, DecideWaiting, Reporting, Running
    <2>2. QueueInv' /\ Moves
      BY <1>8, ReportAdvanceKeeps, ReportSettleKeeps, DecideWaitingKeeps
    <2> QED BY <2>1, <2>2 DEF GroupStep
  <1> QED BY <1>1, <1>2, <1>3, <1>4, <1>5, <1>6, <1>7, <1>8 DEF Next

-----------------------------------------------------------------------------
(* The documents of a stop key group.                                      *)
LEMMA GroupsKeep ==
    ASSUME BaseInv, QueueInv, GroupsInv, QueueInv', [Next]_vars
    PROVE  GroupsInv'
  <1> SUFFICES ASSUME Running', StopWidth = 1, GroupOf # <<>>, Running,
                      Alike \/ Moves \/ \E d \in Docs : Admitted(d)
               PROVE  GroupsInv'
    <2>1. GroupStep
      BY QueueKeeps
    <2>2. CASE ~Running' \/ StartOperator
      BY <2>2, StartKeeps DEF GroupsInv
    <2>3. CASE Running /\ (Alike \/ Moves \/ \E d \in Docs : Admitted(d))
      <3>1. plan' = plan /\ op' = op
        BY <2>3 DEF Alike, Moves, Admitted, Stepped, Settled
      <3>2. GroupOf' = GroupOf
        BY <3>1, Frozen
      <3> QED BY <2>3, <3>2 DEF GroupsInv
    <2> QED BY <2>1, <2>2, <2>3 DEF GroupStep
  <1>1. plan' = plan /\ op' = op
    BY DEF Alike, Moves, Admitted, Stepped, Settled
  <1>2. /\ Docs' = Docs /\ Stages' = Stages /\ GroupOf' = GroupOf
    BY <1>1, Frozen
  <1>3. /\ sched.busy \in [Range(GroupOf) -> Nat]
        /\ \A d, e \in InRun : GroupOf[d] = GroupOf[e] => d = e
        /\ \A d \in InRun : sched.busy[GroupOf[d]] > 0
        /\ \A d \in sched.won, e \in Docs : GroupOf[d] = GroupOf[e] => sched.stage[e] = Done
        /\ \A g \in sched.ended : \E d \in sched.won : GroupOf[d] = g
    BY DEF GroupsInv
  <1>4. /\ sched.stage \in [Docs -> Stages \union {Queued, Done}] /\ sched.won \subseteq Docs
        /\ InRun \subseteq Docs /\ Done \notin Stages /\ Queued \notin Stages /\ Queued # Done
        /\ 1 \in Stages
    <2>1. sched.stage \in [Docs -> Stages \union {Queued, Done}] /\ sched.won \subseteq Docs
      BY DEF QueueInv, Members, Types
    <2> QED BY <2>1, PlanIs DEF InRun
  <1>5. \A d \in Docs : GroupOf[d] \in Range(GroupOf)
    BY PlanIs DEF Range
  <1>6. CASE Alike
    <2>1. InRun' = InRun
      BY <1>2, <1>6 DEF InRun, Alike
    <2> QED BY <2>1, <1>2, <1>3, <1>6 DEF GroupsInv, Alike
  <1>7. ASSUME NEW d \in Docs, Admitted(d) PROVE GroupsInv'
    <2>1. /\ sched.stage[d] = Queued /\ sched'.stage = [sched.stage EXCEPT ![d] = 1]
          /\ sched'.busy = [sched.busy EXCEPT ![GroupOf[d]] = @ + 1]
          /\ sched'.ended = sched.ended /\ sched'.won = sched.won
          /\ ~(sched.busy[GroupOf[d]] >= 1)
      BY <1>7 DEF Admitted, Busier, GroupFull
    <2>2. /\ sched'.stage[d] = 1 /\ \A e \in Docs : e # d => sched'.stage[e] = sched.stage[e]
      BY <2>1, <1>4
    <2>3. InRun' = InRun \union {d}
      BY <2>2, <1>2, <1>4 DEF InRun
    <2>4. \A e \in InRun : GroupOf[e] # GroupOf[d]
      <3> SUFFICES ASSUME NEW e \in InRun, GroupOf[e] = GroupOf[d] PROVE FALSE
        OBVIOUS
      <3>1. sched.busy[GroupOf[d]] > 0 /\ sched.busy[GroupOf[d]] \in Nat
        BY <1>3, <1>5
      <3> QED BY <3>1, <2>1
    <2>5. /\ sched'.busy \in [Range(GroupOf) -> Nat]
          /\ sched'.busy[GroupOf[d]] > 0
          /\ \A g \in Range(GroupOf) : g # GroupOf[d] => sched'.busy[g] = sched.busy[g]
      <3>1. sched.busy[GroupOf[d]] \in Nat /\ GroupOf[d] \in Range(GroupOf)
        BY <1>3, <1>5
      <3> QED BY <3>1, <2>1, <1>3
    <2>6. \A e \in InRun' : sched'.busy[GroupOf[e]] > 0
      BY <2>3, <2>4, <2>5, <1>3, <1>4, <1>5
    <2>7. \A e, f \in InRun' : GroupOf[e] = GroupOf[f] => e = f
      BY <2>3, <2>4, <1>3
    <2>8. \A e \in sched'.won, f \in Docs : GroupOf[e] = GroupOf[f] => sched'.stage[f] = Done
      <3>1. \A e \in sched.won : GroupOf[e] # GroupOf[d]
        BY <2>1, <1>3, <1>4
      <3> QED BY <3>1, <2>1, <2>2, <1>3
    <2> QED BY <2>1, <2>5, <2>6, <2>7, <2>8, <1>2, <1>3 DEF GroupsInv
  <1>8. ASSUME NEW d \in Docs, Stepped(d) PROVE GroupsInv'
    <2>1. /\ d \in InRun /\ InRun' = InRun
          /\ sched'.busy = sched.busy /\ sched'.ended = sched.ended /\ sched'.won = sched.won
          /\ \A e \in Docs : e # d => sched'.stage[e] = sched.stage[e]
      BY <1>8 DEF Stepped
    <2>2. \A e \in sched.won : GroupOf[e] # GroupOf[d]
      BY <2>1, <1>3, <1>4 DEF InRun
    <2>3. \A e \in sched'.won, f \in Docs : GroupOf[e] = GroupOf[f] => sched'.stage[f] = Done
      BY <2>1, <2>2, <1>3
    <2> QED BY <2>1, <2>3, <1>2, <1>3 DEF GroupsInv
  <1>9. ASSUME NEW d \in Docs, NEW b \in BOOLEAN, Settled(d, b) PROVE GroupsInv'
    <2>1. /\ d \in InRun /\ InRun' = InRun \ {d}
          /\ sched'.won = IF b THEN sched.won \union {d} ELSE sched.won
          /\ \A e \in Docs : e = d \/ sched.stage[e] = Done => sched'.stage[e] = Done
          /\ sched'.busy = [sched.busy EXCEPT ![GroupOf[d]] = Bigger(0, @ - 1)]
          /\ \/ sched'.ended = sched.ended /\ (b => GroupOf[d] \in sched.ended)
             \/ /\ b /\ sched'.ended = sched.ended \union {GroupOf[d]}
                /\ \A e \in Docs : sched.stage[e] = Queued /\ GroupOf[e] = GroupOf[d]
                      => sched'.stage[e] = Done
      BY <1>9 DEF Settled
    <2>2. \A e \in sched.won : GroupOf[e] # GroupOf[d]
      BY <2>1, <1>3, <1>4 DEF InRun
    <2>3. /\ sched'.busy \in [Range(GroupOf) -> Nat]
          /\ \A g \in Range(GroupOf) : g # GroupOf[d] => sched'.busy[g] = sched.busy[g]
      <3>1. sched.busy[GroupOf[d]] \in Nat /\ GroupOf[d] \in Range(GroupOf)
        BY <1>3, <1>5
      <3>2. Bigger(0, sched.busy[GroupOf[d]] - 1) \in Nat
        BY <3>1 DEF Bigger
      <3> HIDE DEF Bigger
      <3> QED BY <3>1, <3>2, <2>1, <1>3
    <2>4. \A e \in InRun' : sched'.busy[GroupOf[e]] > 0
      <3>1. \A e \in InRun' : e \in InRun /\ GroupOf[e] # GroupOf[d] /\ GroupOf[e] \in Range(GroupOf)
        BY <2>1, <1>3, <1>4, <1>5
      <3> QED BY <3>1, <2>3, <1>3
    <2>5. \A e, f \in InRun' : GroupOf[e] = GroupOf[f] => e = f
      BY <2>1, <1>3
    <2>6. ASSUME NEW e \in Docs, GroupOf[e] = GroupOf[d], b PROVE sched'.stage[e] = Done
      <3>1. GroupOf[d] \notin sched.ended
        BY <2>2, <1>3
      <3>2. CASE e \in InRun
        BY <3>2, <2>1, <2>6, <1>3
      <3>3. CASE e \notin InRun
        <4>1. sched.stage[e] = Queued \/ sched.stage[e] = Done
          BY <3>3, <1>4 DEF InRun
        <4> QED BY <4>1, <3>1, <2>1, <2>6
      <3> QED BY <3>2, <3>3
    <2>7. \A e \in sched'.won, f \in Docs : GroupOf[e] = GroupOf[f] => sched'.stage[f] = Done
      <3> SUFFICES ASSUME NEW e \in sched'.won, NEW f \in Docs, GroupOf[e] = GroupOf[f]
                   PROVE  sched'.stage[f] = Done
        OBVIOUS
      <3>1. CASE e \in sched.won
        BY <3>1, <2>1, <1>3
      <3>2. CASE e \notin sched.won
        <4>1. e = d /\ b
          BY <3>2, <2>1
        <4> QED BY <4>1, <2>6
      <3> QED BY <3>1, <3>2
    <2>8. \A g \in sched'.ended : \E e \in sched'.won : GroupOf[e] = g
      <3>1. sched.won \subseteq sched'.won /\ (b => d \in sched'.won)
        BY <2>1
      <3>2. \A g \in sched'.ended : g \in sched.ended \/ (b /\ g = GroupOf[d])
        BY <2>1
      <3> QED BY <3>1, <3>2, <1>3
    <2> QED BY <2>3, <2>4, <2>5, <2>7, <2>8, <1>2 DEF GroupsInv
  <1> QED BY <1>6, <1>7, <1>8, <1>9 DEF Moves

-----------------------------------------------------------------------------
(* What the invariant says of the answers on their way.                    *)
LEMMA InOrderHere ==
    ASSUME BaseInv, QueueInv, Running
    PROVE  AnswersInOrder
  <1>1. Types /\ Lists /\ Chains /\ Turns
    BY DEF QueueInv, Members
  <1>2. exec.outstanding \in Seq(Seq(GroupType)) /\ Len(exec.outstanding) <= 1
    BY <1>1 DEF Types
  <1>3. ASSUME NEW x \in Groups
        PROVE  /\ x[1] = 1 /\ exec.outstanding[1] = Launched /\ Launched \in Seq(GroupType)
               /\ x[2] \in DOMAIN Launched /\ x[2] \in Int
    <2>1. x[1] \in DOMAIN exec.outstanding /\ x[2] \in DOMAIN exec.outstanding[x[1]]
      BY DEF Groups
    <2>2. exec.outstanding # <<>>
      BY <2>1
    <2>3. Len(exec.outstanding) = 1 /\ exec.outstanding[1] \in Seq(GroupType)
      BY <2>2, <1>2, OneIs
    <2>4. x[1] = 1
      BY <2>1, <2>3, <1>2
    <2>5. Launched = exec.outstanding[1]
      BY <2>2 DEF Launched
    <2> QED BY <2>1, <2>3, <2>4, <2>5
  <1>4. ASSUME NEW x \in Groups
        PROVE  LET g == exec.outstanding[x[1]][x[2]]
                   earlier == {y \in Groups : /\ exec.outstanding[y[1]][y[2]].doc = g.doc
                                              /\ \/ y[1] < x[1]
                                                 \/ y[1] = x[1] /\ y[2] < x[2]}
               IN  /\ g.stage = sched.stage[g.doc]
                   /\ g.end <= sched.next[g.doc]
                   /\ g.start = Largest({sched.received[g.doc]}
                                   \union {exec.outstanding[y[1]][y[2]].end : y \in earlier})
    <2> DEFINE g == exec.outstanding[x[1]][x[2]]
               earlier == {y \in Groups : /\ exec.outstanding[y[1]][y[2]].doc = g.doc
                                          /\ \/ y[1] < x[1]
                                             \/ y[1] = x[1] /\ y[2] < x[2]}
    <2>1. /\ g = Launched[x[2]] /\ x[2] \in DOMAIN Launched /\ x[1] = 1 /\ x[2] \in Int
          /\ Launched \in Seq(GroupType)
      BY <1>4, <1>3
    <2>2. g \in Range(Launched) /\ g \in GroupType
      BY <2>1 DEF Range
    <2>3. earlier = {}
      <3> SUFFICES ASSUME NEW y \in earlier PROVE FALSE
        OBVIOUS
      <3>1. y \in Groups /\ exec.outstanding[y[1]][y[2]].doc = g.doc
        OBVIOUS
      <3>2. /\ y[1] = 1 /\ y[2] \in DOMAIN Launched /\ exec.outstanding[1] = Launched
        BY <3>1, <1>3
      <3>3. Launched[y[2]].doc = Launched[x[2]].doc
        BY <3>1, <3>2, <2>1
      <3>4. x[2] = y[2]
        BY <3>2, <3>3, <2>1, <1>1 DEF Lists, Once
      <3> QED BY <3>2, <3>4, <2>1
    <2>4. /\ g.stage = sched.stage[g.doc] /\ g.start < g.end /\ g.start = sched.received[g.doc]
          /\ g.doc \notin Planned => g.end = sched.next[g.doc]
      BY <2>2, <1>1 DEF Chains
    <2>5. /\ g.doc \in Docs /\ g.end \in Nat /\ sched.next[g.doc] \in Nat
          /\ sched.received[g.doc] \in Nat
      BY <2>2, <1>1 DEF GroupType, Types
    <2>6. g.end <= sched.next[g.doc]
      <3> HIDE DEF g, earlier
      <3>1. CASE g.doc \notin Planned
        BY <3>1, <2>4, <2>5
      <3>2. CASE g.doc \in Planned
        <4>1. chunk.groups \in Seq(GroupType)
          BY <1>1 DEF Types
        <4>2. PICK h \in Range(chunk.groups) : h.doc = g.doc
          BY <3>2, <4>1, OnceIs DEF Planned
        <4>3. h \in GroupType
          BY <4>1, RangeIn
        <4>4. h.start = g.end /\ h.start < h.end /\ h.end = sched.next[g.doc]
          BY <4>2, <2>2, <1>1 DEF Chains
        <4> QED BY <4>3, <4>4, <2>5 DEF GroupType
      <3> QED BY <3>1, <3>2
    <2>7. Largest({sched.received[g.doc]}) = sched.received[g.doc]
      <3>1. \A r \in Nat : {r} \subseteq 0 .. r /\ {r} # {}
        OBVIOUS
      <3>2. \A r \in Nat : Largest({r}) \in {r}
        BY <3>1, LargestIs
      <3> QED BY <3>2, <2>5
    <2>8. {exec.outstanding[y[1]][y[2]].end : y \in earlier} = {}
      BY <2>3
    <2>9. {sched.received[g.doc]} \union {exec.outstanding[y[1]][y[2]].end : y \in earlier}
              = {sched.received[g.doc]}
      BY <2>8
    <2> QED BY <2>4, <2>6, <2>7, <2>9
  <1>5. pc = "pass" => {g.doc : g \in Range(chunk.groups)} \intersect Range(sched.waiting) = {}
    <2>1. pc = "pass" => Range(sched.waiting) = {}
      BY <1>1, EmptyIs DEF Turns
    <2> QED BY <2>1
  <1> QED BY <1>4, <1>5 DEF AnswersInOrder

-----------------------------------------------------------------------------
(* The inductive invariant, and what follows from it.                      *)
\* The queues, groups and answers are stated while an operator runs.  The
\* records of an operator that is over stay where they are until the next
\* one starts, and what is proved of them with them.
IInv ==
    /\ BaseInv /\ QueueInv /\ GroupsInv /\ OneSurvivorPerGroup
    /\ ~Running => AnswersInOrder

LEMMA InOrderThen ==
    ASSUME IInv
    PROVE  AnswersInOrder
  BY InOrderHere DEF IInv

LEMMA StaleKeeps ==
    ASSUME BaseInv, QueueInv, [Next]_vars, ~Running'
    PROVE  /\ plan' = plan /\ sched' = sched /\ exec' = exec /\ pc' # "pass"
  <1>1. pc' # "pass"
    BY DEF Running
  <1>2. pc' \notin {"top", "evict", "ready", "admit", "close", "empty", "pass", "submit", "report",
                    "end", "between"}
    <2>1. pc' \in Pcs
      BY BaseKeeps DEF BaseInv
    <2> QED BY <2>1 DEF Running
  <1>3. CASE StartOperator
    BY <1>1, <1>2, <1>3 DEF StartOperator, Start
  <1>8. CASE PassRaises \/ EndQuery \/ NextQuery \/ NextOperator \/ Nothing \/ Rest \/ UNCHANGED vars
    BY <1>1, <1>8 DEF PassRaises, EndQuery, NextQuery, NextOperator, Nothing, Rest, vars
  <1>4. CASE EntryReported
    <2>1. pc = "report" /\ (pc' = "report" \/ pc' = back)
      BY <1>4 DEF EntryReported, PassReported
    <2>2. back \in {"top", "submit"}
      BY <2>1 DEF QueueInv, Running, Turns
    <2> QED BY <2>1, <2>2, <1>2
  <1>5. CASE \E d \in Docs : Admission(d)
    BY <1>2, <1>5 DEF Admission, PopDead, HoldTurn, HoldForPages, HoldForRoom, HoldForSuffix, AdmitNext,
           AdmitReserved, Popping, Live, Eligible
  <1>6. CASE Top \/ MakeRoom \/ TakeReady \/ ReadyTaken \/ CloseChunk \/ RunPass
    BY <1>2, <1>6 DEF Top, MakeRoom, TakeReady, ReadyTaken, CloseChunk, RunPass
  <1>7. CASE Submit \/ ReportPart \/ ReportAdvance \/ ReportSettle \/ DecideWaiting \/ End
    BY <1>2, <1>7 DEF Submit, ReportPart, ReportAdvance, ReportSettle, DecideWaiting, End, Reporting
  <1> QED BY <1>3, <1>4, <1>5, <1>6, <1>7, <1>8 DEF Next

\* A document survives its group only once, and an operator starts with no
\* survivors.
LEMMA SurvivorKeeps ==
    ASSUME BaseInv, QueueInv, GroupsInv, OneSurvivorPerGroup, [Next]_vars
    PROVE  OneSurvivorPerGroup'
  <1>1. CASE StartOperator
    <2>1. plan' = plan /\ (sched' = sched \/ sched'.won = {})
      BY <1>1 DEF StartOperator, Start, StartAdmission
    <2>2. CASE sched' = sched
      BY <2>1, <2>2 DEF OneSurvivorPerGroup, GroupOf
    <2>3. CASE sched'.won = {}
      BY <2>3 DEF OneSurvivorPerGroup
    <2> QED BY <2>1, <2>2, <2>3
  <1>2. CASE ~Running'
    <2>1. plan' = plan /\ sched' = sched
      BY <1>2, StaleKeeps
    <2> QED BY <2>1 DEF OneSurvivorPerGroup, GroupOf
  <1>3. ASSUME Running', ~StartOperator PROVE OneSurvivorPerGroup'
    <2>1. Running /\ (Alike \/ Moves \/ \E d \in Docs : Admitted(d))
      BY <1>3, QueueKeeps DEF GroupStep
    <2>2. plan' = plan
      BY <2>1 DEF Alike, Moves, Admitted, Stepped, Settled
    <2>3. GroupOf' = GroupOf
      BY <2>2 DEF GroupOf
    <2>4. \/ sched'.won = sched.won
          \/ \E d \in InRun : sched'.won = sched.won \union {d}
      BY <2>1 DEF Alike, Moves, Admitted, Stepped, Settled
    <2>5. ASSUME StopWidth = 1, GroupOf # <<>>, NEW d \in InRun, NEW e \in sched.won
          PROVE  GroupOf[d] # GroupOf[e]
      <3>1. /\ d \in Docs /\ sched.stage[d] # Done
        BY PlanIs DEF InRun
      <3> QED BY <3>1, <2>1, <2>5 DEF GroupsInv
    <2> QED BY <2>3, <2>4, <2>5 DEF OneSurvivorPerGroup
  <1> QED BY <1>1, <1>2, <1>3

LEMMA InitHolds ==
    ASSUME Init
    PROVE  IInv
  <1>1. /\ plan \in Plans /\ op = 1 /\ pc = "start"
        /\ exec.outstanding = <<>> /\ sched.won = {}
    BY DEF Init, StartAdmission, StartExecutor
  <1>2. BaseInv
    <2>1. PlanRecord(plan)
      BY <1>1, ExecutorAssumption
    <2>2. Ops \in Seq(OpRecord(Docs)) /\ Len(Ops) > 0
      BY <2>1 DEF PlanRecord, Ops, Docs, Text
    <2>3. 1 \in DOMAIN Ops
      BY <2>2
    <2> QED BY <1>1, <2>3 DEF BaseInv, Pcs
  <1>3. QueueInv /\ GroupsInv
    BY <1>1 DEF QueueInv, GroupsInv, Running
  <1>4. Groups = {}
    BY <1>1 DEF Groups
  <1>5. AnswersInOrder /\ OneSurvivorPerGroup
    BY <1>1, <1>4 DEF AnswersInOrder, OneSurvivorPerGroup
  <1> QED BY <1>2, <1>3, <1>5 DEF IInv

\* What is outstanding of groups G is in order for a queue S and a pipeline E.
Ordered(G, S, E) ==
    \A x \in G :
        LET g == E.outstanding[x[1]][x[2]]
            earlier == {y \in G : /\ E.outstanding[y[1]][y[2]].doc = g.doc
                                  /\ \/ y[1] < x[1]
                                     \/ y[1] = x[1] /\ y[2] < x[2]}
        IN  /\ g.stage = S.stage[g.doc]
            /\ g.end <= S.next[g.doc]
            /\ g.start = Largest({S.received[g.doc]}
                            \union {E.outstanding[y[1]][y[2]].end : y \in earlier})

LEMMA StaleInOrder ==
    ASSUME AnswersInOrder, sched' = sched, exec' = exec, Groups' = Groups, pc' # "pass"
    PROVE  AnswersInOrder'
  <1>1. Ordered(Groups, sched, exec)
    BY Zenon DEF AnswersInOrder, Ordered
  <1>2. Ordered(Groups', sched', exec')
    BY <1>1
  <1>3. Ordered(Groups', sched', exec') /\ pc' # "pass" => AnswersInOrder'
    BY Zenon DEF AnswersInOrder, Ordered
  <1> QED BY <1>2, <1>3

LEMMA StepKeeps ==
    ASSUME IInv, [Next]_vars
    PROVE  IInv'
  <1>1. BaseInv /\ QueueInv /\ GroupsInv /\ AnswersInOrder /\ OneSurvivorPerGroup
    BY InOrderThen DEF IInv
  <1>2. BaseInv' /\ QueueInv' /\ GroupsInv' /\ OneSurvivorPerGroup'
    BY <1>1, BaseKeeps, QueueKeeps, GroupsKeep, SurvivorKeeps
  <1>3. ~Running' => AnswersInOrder'
    <2> SUFFICES ASSUME ~Running' PROVE AnswersInOrder'
      OBVIOUS
    <2>1. plan' = plan /\ sched' = sched /\ exec' = exec /\ pc' # "pass"
      BY <1>1, StaleKeeps
    <2>2. Groups' = Groups
      BY <2>1 DEF Groups, Text
    <2> QED BY <1>1, <2>1, <2>2, StaleInOrder
  <1> QED BY <1>2, <1>3 DEF IInv

LEMMA ExecutorHolds == Spec => []IInv
  <1>1. Init => IInv
    BY InitHolds
  <1>2. IInv /\ [Next]_vars => IInv'
    BY StepKeeps
  <1> QED BY <1>1, <1>2, PTL DEF Spec

(* The documents and answers in the loop's hands.                          *)
THEOREM QueuesSound == Spec => []QueueInv
  <1>1. IInv => QueueInv
    BY DEF IInv
  <1> QED BY <1>1, ExecutorHolds, PTL

(* A document's answers are reported in the order of its partners, each    *)
(* for the stage it is at, and no pass asks a document that waits for its  *)
(* stage to be decided (AnswersInOrder).                                   *)
THEOREM InOrderAlways == Spec => []AnswersInOrder
  <1>1. IInv => AnswersInOrder
    BY InOrderThen
  <1> QED BY <1>1, ExecutorHolds, PTL

(* Between two operators every document has settled unless the limit was   *)
(* reached, and a document that survived was packed and not skipped        *)
(* (NoDocumentLost).                                                       *)
THEOREM AllSettled == Spec => []NoDocumentLost
  <1>1. IInv => NoDocumentLost
    <2> SUFFICES ASSUME IInv, pc = "between", ~LimitReached
                 PROVE  /\ \A d \in Docs : sched.stage[d] = Done
                        /\ \A d \in sched.won : d \in tree.admitted
                        /\ tree.admitted \intersect tree.skipped = {}
      BY DEF NoDocumentLost
    <2>1. Members /\ Turns
      BY DEF IInv, QueueInv, Running
    <2>2. \A d \in Docs : sched.stage[d] = Done
      BY <2>1 DEF Turns
    <2>3. /\ sched.won \subseteq tree.admitted
          /\ \A d \in tree.skipped : d \notin tree.admitted
      BY <2>1 DEF Members, Queues
    <2> QED BY <2>2, <2>3
  <1> QED BY <1>1, ExecutorHolds, PTL

(* With one document of a stop key group in flight at a time, one of them  *)
(* survives at most (OneSurvivorPerGroup).                                 *)
THEOREM OneSurvives == Spec => []OneSurvivorPerGroup
  <1>1. IInv => OneSurvivorPerGroup
    BY DEF IInv
  <1> QED BY <1>1, ExecutorHolds, PTL

-----------------------------------------------------------------------------
(* The arena an operator owns.                                             *)

\* Only documents are resident, each with its own length, and what is held
\* or read is resident.
Known(A) ==
    /\ ArenaInv(A) /\ Kept(A) \subseteq Resident(A)
    /\ \A k \in Resident(A) : k \in Docs /\ A.base[k] = Length(k)

\* The prefix tree of the operator that runs: parents lend whole pages.
Lending ==
    /\ tree.parent \in [Docs -> Docs \union {None}] /\ tree.shared \in [Docs -> Nat]
    /\ \A d \in Docs : tree.shared[d] % PageTokens = 0 /\ tree.shared[d] <= Length(d)
    /\ exec.borrowers \in [Docs -> Int] /\ exec.lowest \in [Docs -> Nat]
    /\ exec.lenders \subseteq Docs
    /\ \A d \in Docs : exec.borrowers[d] > 0 => d \in exec.lenders
    /\ \A k \in Keys : arena.held[k] > 0 => k \in exec.lenders

\* A parent is read by the borrowers the planned chunk was given.
ReadersOf(p) == {d \in exec.reserved : tree.parent[d] = p}
Reading ==
    /\ exec.reserved \subseteq Planned
    /\ \A d \in exec.reserved : tree.parent[d] \in Docs
    /\ \A k \in Keys : arena.reading[k] = Cardinality(ReadersOf(k))

\* A queued document has pages only from an operator before, and then it
\* borrows from nobody.
Unplaced ==
    \A d \in Docs : sched.stage[d] = Queued /\ d \in Resident(arena)
        => tree.parent[d] = None /\ op # 1

\* Everything resident is evictable, owed a free, or somebody's to settle.
Owned ==
    \A k \in Resident(arena) :
        \/ k \in arena.retained \/ k \in arena.deferred \/ sched.stage[k] # Done
        \/ k \in Range(sched.settled) \/ k \in Range(sched.skipped)

\* Nothing is held or read; a parked arena keeps only what may be evicted.
Idle(A) == \A k \in Keys : A.held[k] = 0 /\ A.reading[k] = 0
Parked(A) == Idle(A) /\ Resident(A) \subseteq A.retained

\* All of it, wherever the loop is.
LoansInv == Running =>
    /\ Lending /\ Reading /\ Unplaced /\ Owned
    /\ sched.settled \in Seq(Docs)
    /\ pc # "top" => sched.settled = <<>>
    /\ pc # "report" => sched.skipped = <<>>
    /\ pc = "end" => sched.flight = 0
    /\ pc = "between" => Parked(arena)

\* An operator starts on a parked arena, a query on an empty one.
StartInv ==
    /\ pc = "start" => Parked(arena) /\ (op = 1 => Resident(arena) = {})
    /\ pc = "done" => Resident(arena) = {}

-----------------------------------------------------------------------------
(* What the arena may lose in a step, and the loans it still knows.        *)
\* From A to B keys go, and with them their holds and readings, and nothing
\* else a document could miss.
Yields(A, B) == ArenaInv(B) /\ Lets(A, B) /\ Sheds(A, B)

\* An arena yields nothing to itself.
LEMMA YieldsNothing ==
    ASSUME NEW A, ArenaInv(A)
    PROVE  Yields(A, A)
  <1>1. A.held \in [Keys -> Nat] /\ A.reading \in [Keys -> Nat]
    BY ArenaFields DEF ArenaInv
  <1>2. \A k \in Keys : A.held[k] \in Nat /\ A.reading[k] \in Nat
    BY <1>1
  <1>3. \A k \in Keys : A.held[k] <= A.held[k] /\ A.reading[k] <= A.reading[k]
    BY <1>2
  <1>4. \A k \in Keys : Narrower(A, A, k)
    BY DEF Narrower
  <1> QED BY <1>3, <1>4 DEF Yields, Lets, Sheds

\* Two calls that yield make one.
LEMMA YieldsBoth ==
    ASSUME NEW A, NEW B, NEW C, ArenaInv(A), Yields(A, B), Yields(B, C)
    PROVE  Yields(A, C)
  BY LetsBoth, ShedsBoth DEF Yields, ArenaInv

\* Documents still account for what is left.
LEMMA YieldsKnown ==
    ASSUME NEW A, NEW B, Known(A), Yields(A, B)
    PROVE  Known(B)
  <1>1. /\ A.held \in [Keys -> Nat] /\ A.reading \in [Keys -> Nat]
        /\ B.held \in [Keys -> Nat] /\ B.reading \in [Keys -> Nat]
    BY ArenaFields DEF ArenaInv, Known, Yields
  <1>2. ASSUME NEW k \in Kept(B) PROVE k \in Resident(B)
    <2>1. k \in Keys /\ (B.held[k] > 0 \/ B.reading[k] > 0)
      BY <1>2 DEF Kept
    <2>2. /\ A.held[k] \in Nat /\ A.reading[k] \in Nat /\ B.held[k] \in Nat /\ B.reading[k] \in Nat
          /\ B.held[k] <= A.held[k] /\ B.reading[k] <= A.reading[k]
      BY <1>1, <2>1 DEF Yields, Lets
    <2>3. A.held[k] > 0 \/ A.reading[k] > 0
      BY <2>1, <2>2
    <2>4. k \in Resident(A)
      BY <2>1, <2>3 DEF Kept, Known
    <2>5. B.held[k] # 0 \/ B.reading[k] # 0
      BY <2>1, <2>2
    <2> QED BY <2>1, <2>4, <2>5 DEF Yields, Lets
  <1>3. \A k \in Resident(B) : k \in Docs /\ B.base[k] = Length(k)
    BY DEF Known, Yields, Sheds
  <1> QED BY <1>2, <1>3 DEF Known, Yields

\* A document somebody still has to settle.
Settling(S, k) == S.stage[k] # Done \/ k \in Range(S.settled) \/ k \in Range(S.skipped)

\* Those no longer to be settled are evictable, or their pages are owed.
Passed ==
    \A k \in Resident(arena') : Settling(sched, k) =>
        k \in arena'.retained \/ k \in arena'.deferred \/ Settling(sched', k)

\* The tree and the loans are those of before, but for borrowers that will not
\* come.
Heirs ==
    /\ plan' = plan /\ op' = op
    /\ tree'.parent = tree.parent /\ tree'.shared = tree.shared
    /\ exec'.lowest = exec.lowest /\ exec'.lenders = exec.lenders
    /\ exec'.borrowers \in [Docs -> Int]
    /\ \A d \in Docs : exec'.borrowers[d] <= exec.borrowers[d]

\* A step with these loans keeps what does not read the chunk.
LEMMA LoansPass ==
    ASSUME Known(arena), Lending, Unplaced, Owned, Heirs, Yields(arena, arena'),
           \A d \in Docs : sched'.stage[d] = Queued => sched.stage[d] = Queued,
           Passed
    PROVE  Known(arena)' /\ Lending' /\ Unplaced' /\ Owned'
  <1>1. plan' = plan /\ op' = op
    BY DEF Heirs
  <1>2. Docs' = Docs /\ \A d : Length(d)' = Length(d)
    BY <1>1, Frozen
  <1>3. Known(arena)'
    <2>1. Known(arena')
      BY YieldsKnown
    <2> QED BY <2>1, <1>2 DEF Known
  <1>4. Lending'
    <2>1. ASSUME NEW k \in Keys, arena'.held[k] > 0 PROVE k \in exec.lenders
      <3>1. arena'.held[k] <= arena.held[k]
        BY DEF Yields, Lets
      <3>2. arena.held \in [Keys -> Nat] /\ arena'.held \in [Keys -> Nat]
        BY ArenaFields DEF ArenaInv, Known, Yields
      <3>3. arena.held[k] \in Nat /\ arena'.held[k] \in Nat
        BY <3>2
      <3>4. arena.held[k] > 0
        BY <3>1, <3>3, <2>1
      <3> QED BY <3>4 DEF Lending
    <2>2. ASSUME NEW d \in Docs, exec'.borrowers[d] > 0 PROVE d \in exec.lenders
      <3>1. exec'.borrowers[d] \in Int /\ exec.borrowers[d] \in Int
        BY DEF Heirs, Lending
      <3>2. exec.borrowers[d] > 0
        BY <3>1, <2>2 DEF Heirs
      <3> QED BY <3>2 DEF Lending
    <2> QED BY <1>2, <2>1, <2>2 DEF Lending, Heirs
  <1>5. Unplaced'
    BY <1>2 DEF Unplaced, Heirs, Yields, Sheds
  <1>6. Owned'
    BY DEF Owned, Passed, Settling, Yields, Sheds
  <1> QED BY <1>3, <1>4, <1>5, <1>6

\* The loans are those of before.
Kin ==
    /\ plan' = plan /\ op' = op
    /\ tree'.parent = tree.parent /\ tree'.shared = tree.shared
    /\ exec'.borrowers = exec.borrowers /\ exec'.lowest = exec.lowest
    /\ exec'.lenders = exec.lenders /\ exec'.reserved = exec.reserved

\* A step that keeps the loans, and frees or evicts only, keeps the invariant.
LEMMA LoansKeep ==
    ASSUME BaseInv, Known(arena), Lending, Reading, Unplaced, Owned,
           Kin, Yields(arena, arena'), arena'.reading = arena.reading,
           Planned \subseteq Planned',
           \A d \in Docs : sched'.stage[d] = Queued => sched.stage[d] = Queued,
           Passed
    PROVE  Known(arena)' /\ Lending' /\ Reading' /\ Unplaced' /\ Owned'
  <1>1. plan' = plan /\ op' = op
    BY DEF Kin
  <1>2. Docs' = Docs
    BY <1>1, Frozen
  <1>3. Heirs
    <2>1. exec.borrowers \in [Docs -> Int]
      BY DEF Lending
    <2>2. \A d \in Docs : exec.borrowers[d] <= exec.borrowers[d]
      BY <2>1
    <2> QED BY <2>1, <2>2 DEF Heirs, Kin
  <1>4. Known(arena)' /\ Lending' /\ Unplaced' /\ Owned'
    BY <1>3, LoansPass
  <1>5. Reading'
    <2>1. \A k : ReadersOf(k)' = ReadersOf(k)
      BY DEF ReadersOf, Kin
    <2> QED BY <2>1, <1>2 DEF Reading, Kin
  <1> QED BY <1>4, <1>5

-----------------------------------------------------------------------------
(* Steps of the loop that leave the queues of the loans alone.             *)
\* Calls of the arena that only yield: eviction, frees, dropped holds, and
\* windows trimmed.
LEMMA YieldsEvict ==
    ASSUME NEW A, ArenaInv(A), NEW n, NEW B \in EvictRetained(A, n)
    PROVE  Yields(A, B) /\ B.reading = A.reading
  BY EvictKeeps, EvictSheds DEF EvictRetained, Yields

LEMMA YieldsFree ==
    ASSUME NEW A, ArenaInv(A), NEW V \in SUBSET Resident(A), NEW B, B = FreeAll(A, V)
    PROVE  /\ Yields(A, B) /\ B.reading = A.reading
           /\ \A k \in V : k \in Resident(B) => k \in B.deferred
  <1>1. ArenaInv(B) /\ Lets(A, B)
    BY FreeAllKeeps
  <1>2. A \in Arena
    BY DEF ArenaInv
  <1>3. Sheds(A, B) /\ B.reading = A.reading /\ \A k \in V : k \in Resident(B) => k \in B.deferred
    BY <1>2, FreeAllSheds
  <1> QED BY <1>1, <1>3 DEF Yields

LEMMA YieldsDrop ==
    ASSUME NEW A, ArenaInv(A), NEW V \in SUBSET Keys, NEW B, B = DropHolds(A, V)
    PROVE  /\ Yields(A, B) /\ B.reading = A.reading
           /\ \A k \in Keys : B.held[k] = IF k \in V THEN 0 ELSE A.held[k]
  BY DropHoldsKeeps DEF Yields, Dropped

LEMMA YieldsTrim ==
    ASSUME NEW A, ArenaInv(A), NEW V \in SUBSET Keys, NEW B, B = TrimWindows(A, V)
    PROVE  Yields(A, B) /\ B.reading = A.reading
  BY TrimKeeps, TrimSheds DEF Yields

\* A step that leaves the queues and the loans alone.
Same ==
    /\ plan' = plan /\ op' = op /\ sched'.stage = sched.stage
    /\ tree'.parent = tree.parent /\ tree'.shared = tree.shared
    /\ exec'.borrowers = exec.borrowers /\ exec'.lowest = exec.lowest
    /\ exec'.lenders = exec.lenders /\ exec'.reserved = exec.reserved
    /\ Planned \subseteq Planned' /\ sched'.skipped = sched.skipped

\* The loans of an operator that runs.
Loans == Known(arena) /\ LoansInv

\* A step that changes no queue a loan depends on.
LEMMA SameKeeps ==
    ASSUME BaseInv, Loans, Running, Running', Same,
           Yields(arena, arena'), arena'.reading = arena.reading,
           sched'.settled \in Seq(Docs),
           \A k \in Resident(arena') : k \in Range(sched.settled)
               => k \in arena'.deferred \/ k \in Range(sched'.settled),
           pc' # "top" => sched'.settled = <<>>,
           pc' # "report" => sched.skipped = <<>>,
           pc' = "end" => sched'.flight = 0,
           pc' # "between"
    PROVE  Loans'
  <1>1. Kin /\ \A d \in Docs : sched'.stage[d] = Queued => sched.stage[d] = Queued
    BY DEF Same, Kin
  <1>2. Passed
    BY DEF Same, Passed, Settling
  <1>3. Known(arena) /\ Lending /\ Reading /\ Unplaced /\ Owned /\ Planned \subseteq Planned'
    BY DEF Loans, LoansInv, Same
  <1>4. Known(arena)' /\ Lending' /\ Reading' /\ Unplaced' /\ Owned'
    BY <1>1, <1>2, <1>3, LoansKeep
  <1>5. Docs' = Docs
    BY Frozen DEF Same
  <1>6. sched'.settled \in Seq(Docs')
    BY <1>5
  <1> QED BY <1>4, <1>6 DEF Loans, LoansInv, Same

\* One lemma for each action of the loop.
LEMMA TopLoans ==
    ASSUME BaseInv, QueueInv, Loans, Top
    PROVE  Loans'
  <1>1. pc = "top" /\ Running /\ Running' /\ Shapes
    BY DEF Top, Running, QueueInv
  <1>2. Unmoved
    BY TopKeeps
  <1>3. Same
    BY <1>2, UnmovedSets DEF Unmoved, Same, Top
  <1>4. ArenaInv(arena) /\ LoansInv
    BY DEF Loans, Known
  <1>5. sched.settled \in Seq(Docs) /\ sched.skipped = <<>>
    BY <1>1, <1>4 DEF LoansInv
  <1> DEFINE V == Range(sched.settled) \intersect Resident(arena)
  <1>6. /\ Yields(arena, arena') /\ arena'.reading = arena.reading
        /\ \A k \in V : k \in Resident(arena') => k \in arena'.deferred
    <2>1. V \in SUBSET Resident(arena) /\ arena' = FreeAll(arena, V)
      BY DEF Top
    <2> HIDE DEF V
    <2> QED BY <2>1, <1>4, YieldsFree
  <1>7. Resident(arena') \subseteq Resident(arena)
    BY <1>6 DEF Yields, Sheds
  <1>8. sched'.settled = <<>> /\ sched'.flight = sched.flight
    BY <1>1 DEF Top, Shapes, IsSched
  <1>9. pc' = "end" => sched'.flight = 0
    BY <1>8 DEF Top, RunDone
  <1>10. <<>> \in Seq(Docs) /\ pc' # "between"
    BY EmptyIs DEF Top
  <1>11. \A k \in Resident(arena') : k \in Range(sched.settled) => k \in arena'.deferred
    BY <1>6, <1>7
  <1> HIDE DEF V
  <1> QED BY <1>1, <1>3, <1>5, <1>6, <1>8, <1>9, <1>10, <1>11, SameKeeps

LEMMA MakeRoomLoans ==
    ASSUME BaseInv, QueueInv, Loans, MakeRoom
    PROVE  Loans'
  <1>1. pc = "evict" /\ Running /\ Running' /\ Shapes
    BY DEF MakeRoom, Running, QueueInv
  <1>2. Same
    BY MakeRoomKeeps, UnmovedSets DEF Unmoved, Same, MakeRoom
  <1>3. ArenaInv(arena) /\ LoansInv
    BY DEF Loans, Known
  <1>4. sched.settled = <<>> /\ sched.skipped = <<>> /\ sched.settled \in Seq(Docs)
    BY <1>1, <1>3 DEF LoansInv
  <1>5. Yields(arena, arena') /\ arena'.reading = arena.reading
    <2>1. CASE sched.blocked > 0
      <3>1. arena' \in EvictRetained(arena, sched.blocked)
        BY <2>1 DEF MakeRoom
      <3> QED BY <3>1, <1>3, YieldsEvict
    <2>2. CASE ~(sched.blocked > 0)
      BY <2>2, <1>3, YieldsNothing DEF MakeRoom
    <2> QED BY <2>1, <2>2
  <1>6. sched'.settled = <<>>
    BY <1>1, <1>4 DEF MakeRoom, Shapes, IsSched
  <1>7. pc' # "end" /\ pc' # "between" /\ Range(<<>>) = {}
    BY EmptyIs DEF MakeRoom
  <1> QED BY <1>1, <1>2, <1>4, <1>5, <1>6, <1>7, SameKeeps

\* A step of the loop that leaves the arena and the loans alone.
LEMMA QuietLoans ==
    ASSUME BaseInv, Loans, Running, Running', pc # "top", Same, arena' = arena,
           sched'.settled = sched.settled, pc = "report" => pc' = "report",
           pc' \notin {"end", "between"}
    PROVE  Loans'
  <1>1. ArenaInv(arena) /\ LoansInv
    BY DEF Loans, Known
  <1>2. Yields(arena, arena') /\ arena'.reading = arena.reading
    BY <1>1, YieldsNothing
  <1>3. sched.settled = <<>> /\ sched'.settled \in Seq(Docs) /\ Range(<<>>) = {}
    BY <1>1, EmptyIs DEF LoansInv
  <1>4. pc' # "report" => sched.skipped = <<>>
    BY <1>1 DEF LoansInv
  <1> QED BY <1>2, <1>3, <1>4, SameKeeps

LEMMA NothingLoans ==
    ASSUME BaseInv, QueueInv, Loans, Nothing
    PROVE  Loans'
  <1>1. pc = "empty" /\ Running /\ Shapes
    BY DEF Nothing, Running, QueueInv
  <1>2. Same
    BY NothingKeeps, UnmovedSets DEF Unmoved, Same, Nothing
  <1>3. ArenaInv(arena) /\ LoansInv
    BY DEF Loans, Known
  <1>4. sched.settled = <<>> /\ sched.skipped = <<>> /\ sched.settled \in Seq(Docs)
    BY <1>1, <1>3 DEF LoansInv
  <1>5. Yields(arena, arena') /\ arena'.reading = arena.reading
    <2>1. CASE arena' = arena
      BY <2>1, <1>3, YieldsNothing
    <2>2. CASE arena' \in EvictRetained(arena, sched.blocked)
      BY <2>2, <1>3, YieldsEvict
    <2>3. CASE arena' = DropHolds(arena, exec.lenders)
      <3>1. exec.lenders \subseteq Keys
        BY <1>1, <1>3, PlanIs DEF LoansInv, Lending
      <3> QED BY <3>1, <2>3, <1>3, YieldsDrop
    <2> QED BY <2>1, <2>2, <2>3 DEF Nothing
  <1>6. sched'.settled = <<>>
    BY <1>4 DEF Nothing
  <1>7. pc' \in {"report", "top", "stuck"} /\ Range(<<>>) = {}
    BY EmptyIs DEF Nothing
  <1>8. CASE Running'
    BY <1>1, <1>2, <1>4, <1>5, <1>6, <1>7, <1>8, SameKeeps
  <1>9. CASE ~Running'
    <2>1. Known(arena')
      BY <1>5, YieldsKnown DEF Loans
    <2>2. Docs' = Docs /\ \A d : Length(d)' = Length(d)
      BY <1>2, Frozen DEF Same
    <2>3. Known(arena)'
      BY <2>1, <2>2 DEF Known
    <2> QED BY <2>3, <1>9 DEF Loans, LoansInv
  <1> QED BY <1>8, <1>9

LEMMA RunPassLoans ==
    ASSUME BaseInv, QueueInv, Loans, RunPass
    PROVE  Loans'
  <1>1. pc = "pass" /\ Running /\ Running' /\ Members
    BY DEF RunPass, Running, QueueInv
  <1>2. Same
    BY RunPassKeeps, UnmovedSets DEF Unmoved, Same, RunPass
  <1>3. ArenaInv(arena) /\ LoansInv
    BY DEF Loans, Known
  <1>4. sched.settled = <<>> /\ sched.skipped = <<>> /\ sched.settled \in Seq(Docs)
    BY <1>1, <1>3 DEF LoansInv
  <1>5. Fresh \subseteq Keys
    <2>1. chunk.groups \in Seq(GroupType)
      BY <1>1 DEF Members, Types
    <2>2. Range(chunk.groups) \subseteq GroupType
      BY <2>1, RangeIn
    <2>3. Fresh \subseteq Docs
      BY <2>2 DEF Fresh, GroupType
    <2> QED BY <2>3, PlanIs
  <1>6. Yields(arena, arena') /\ arena'.reading = arena.reading
    BY <1>3, <1>5, YieldsTrim DEF RunPass
  <1>7. pc' \in {"submit", "report"} /\ sched'.settled = <<>> /\ Range(<<>>) = {}
    BY <1>4, EmptyIs DEF RunPass
  <1> QED BY <1>1, <1>2, <1>4, <1>6, <1>7, SameKeeps

\* A step after which no operator runs, in an arena all of whose keys the
\* documents account for.
LEMMA StoppedLoans ==
    ASSUME plan' = plan, op' = op \/ op' = op + 1 \/ op' = 1, Known(arena'), ~Running'
    PROVE  Loans'
  <1>1. Docs' = Docs /\ \A d : Length(d)' = Length(d)
    BY DEF Docs, Text, Length
  <1>2. Known(arena)'
    BY <1>1 DEF Known
  <1> QED BY <1>2 DEF Loans, LoansInv

\* The loop fills a chunk, and runs it.
LEMMA TakeReadyLoans ==
    ASSUME BaseInv, QueueInv, Loans, TakeReady
    PROVE  Loans'
  <1>1. pc = "ready" /\ pc' \in {"ready", "admit"} /\ Running /\ Running' /\ Shapes /\ Members
    BY DEF TakeReady, Running, QueueInv
  <1>2. /\ arena' = arena /\ exec' = exec /\ tree' = tree
        /\ sched'.settled = sched.settled /\ sched'.skipped = sched.skipped
    BY <1>1 DEF TakeReady, Shapes, IsSched
  <1>3. Planned \subseteq Planned'
    <2>1. CASE chunk'.groups = chunk.groups
      BY <2>1 DEF Planned
    <2>2. ASSUME NEW g, chunk'.groups = Append(chunk.groups, g)
          PROVE  Planned \subseteq Planned'
      <3>1. chunk.groups \in Seq(GroupType) /\ GroupType \subseteq GroupType \union {g}
        BY <1>1 DEF Members, Types
      <3>2. chunk.groups \in Seq(GroupType \union {g})
        BY <3>1, SeqIn
      <3>3. DocsOf(Append(chunk.groups, g)) = DocsOf(chunk.groups) \union {g.doc}
        BY <3>2, OnceIs
      <3> QED BY <3>3, <2>2 DEF Planned
    <2>3. chunk'.groups = chunk.groups \/ \E g : chunk'.groups = Append(chunk.groups, g)
      <3> DEFINE one == [chunk EXCEPT !.left = @ - 1]
                 d == Head(sched.ready)
                 e == Take(d, sched.stage[d], sched.next[d], chunk.room, chunk.pages)
      <3>1. IsChunk(one) /\ one.groups = chunk.groups
        BY <1>1 DEF Shapes, IsChunk
      <3>2. \/ chunk' = [one EXCEPT !.deferred = Append(@, d)]
            \/ chunk' = chunk
            \/ chunk' = Launch(one, Group(d, sched.stage[d], sched.next[d], e.end, FALSE),
                               e.tokens, 0, e.pages)
        BY DEF TakeReady
      <3> HIDE DEF one, d, e
      <3>3. CASE chunk' = [one EXCEPT !.deferred = Append(@, d)]
        BY <3>1, <3>3 DEF IsChunk
      <3>4. ASSUME NEW g, NEW t, NEW p, chunk' = Launch(one, g, t, 0, p)
            PROVE  chunk'.groups = Append(chunk.groups, g)
        BY <3>1, <3>4 DEF IsChunk, Launch
      <3> QED BY <3>2, <3>3, <3>4
    <2> QED BY <2>1, <2>2, <2>3
  <1>4. Same
    BY <1>2, <1>3, TakeReadyKeeps DEF Alike, Same
  <1> QED BY <1>1, <1>2, <1>4, QuietLoans

LEMMA ReadyTakenLoans ==
    ASSUME BaseInv, QueueInv, Loans, ReadyTaken
    PROVE  Loans'
  <1>1. pc = "ready" /\ pc' = "admit" /\ Running /\ Running'
    BY DEF ReadyTaken, Running
  <1>2. Same
    BY ReadyTakenKeeps, UnmovedSets DEF Unmoved, Same, ReadyTaken
  <1> QED BY <1>1, <1>2, QuietLoans DEF ReadyTaken

LEMMA HoldsBackLoans ==
    ASSUME BaseInv, QueueInv, Loans, NEW d, HoldsBack(d) \/ PopDead(d)
    PROVE  Loans'
  <1>1. Popping(d) /\ Shuffled /\ pc' \in {"admit", "close"} /\ exec' = exec /\ tree' = tree
    BY HoldFields
  <1>2. pc = "admit" /\ Running /\ Running' /\ Shapes
    BY <1>1 DEF Popping, Running, QueueInv
  <1>3. Same
    BY <1>1, ShuffledSets DEF Shuffled, Same
  <1>4. arena' = arena
    BY DEF HoldsBack, PopDead, HoldTurn, HoldForPages, HoldForRoom, HoldForSuffix
  <1>5. sched'.settled = sched.settled
    BY <1>2 DEF HoldsBack, PopDead, HoldTurn, HoldForPages, HoldForRoom, HoldForSuffix, Popped,
                Shapes, IsSched
  <1> QED BY <1>1, <1>2, <1>3, <1>4, <1>5, QuietLoans

LEMMA CloseLoans ==
    ASSUME BaseInv, QueueInv, Loans, CloseChunk
    PROVE  Loans'
  <1>1. pc \in {"admit", "close"} /\ pc' \in {"empty", "pass"} /\ Running /\ Running' /\ Shapes
    BY DEF CloseChunk, Running, QueueInv
  <1>2. Shuffled /\ exec' = exec /\ tree' = tree
    BY CloseKeeps
  <1>3. Same
    BY <1>2, ShuffledSets DEF Shuffled, Same
  <1>4. arena' = arena /\ sched'.settled = sched.settled
    BY <1>1 DEF CloseChunk, Shapes, IsSched
  <1> QED BY <1>1, <1>2, <1>3, <1>4, QuietLoans

LEMMA ReportPartLoans ==
    ASSUME BaseInv, QueueInv, Loans, ReportPart
    PROVE  Loans'
  <1>1. pc = "report" /\ pc' = pc /\ Running /\ Running' /\ Shapes
    BY DEF ReportPart, Reporting, Running, QueueInv
  <1>2. /\ arena' = arena /\ tree' = tree /\ chunk' = chunk /\ sched'.settled = sched.settled
        /\ sched'.skipped = sched.skipped
    BY <1>1 DEF ReportPart, Received, Shapes, IsSched
  <1>3. /\ exec'.borrowers = exec.borrowers /\ exec'.lowest = exec.lowest
        /\ exec'.lenders = exec.lenders /\ exec'.reserved = exec.reserved
    BY <1>1 DEF ReportPart, GroupReported, Shapes, IsExec
  <1>4. Planned' = Planned
    BY <1>2 DEF Planned
  <1>5. Same
    BY <1>2, <1>3, <1>4, ReportPartKeeps DEF Same, Alike
  <1> QED BY <1>1, <1>2, <1>5, QuietLoans

LEMMA PassRaisesLoans ==
    ASSUME BaseInv, QueueInv, Loans, PassRaises
    PROVE  Loans'
  <1>1. Known(arena') /\ ~Running'
    BY DEF PassRaises, Running, Loans
  <1> QED BY <1>1, StoppedLoans DEF PassRaises

\* What is left when a run has ended: nothing is planned or out, so nothing is
\* read; the documents placed are freed, and those still queued never came.
LEMMA EndLoans ==
    ASSUME BaseInv, QueueInv, Loans, End
    PROVE  Loans'
  <1>1. pc = "end" /\ pc' = "between" /\ Running /\ Running' /\ Members /\ Turns /\ ~Filling
    BY DEF End, Running, QueueInv, Filling
  <1>2. Known(arena) /\ Lending /\ Reading /\ Unplaced /\ Owned
        /\ sched.settled = <<>> /\ sched.skipped = <<>> /\ sched.flight = 0
        /\ ArenaInv(arena)
    BY <1>1 DEF Loans, LoansInv, Known
  <1> DEFINE V == Range(sched.ready) \intersect Resident(arena)
             B == FreeAll(arena, V)
  <1>3. /\ Yields(arena, B) /\ B.reading = arena.reading
        /\ \A k \in V : k \in Resident(B) => k \in B.deferred
    <2>1. V \in SUBSET Resident(arena)
      OBVIOUS
    <2> HIDE DEF V
    <2> QED BY <2>1, <1>2, YieldsFree
  <1>4. /\ Yields(B, arena') /\ arena'.reading = B.reading
        /\ \A k \in exec.lenders : arena'.held[k] = 0
        /\ \A k \in Keys \ exec.lenders : arena'.held[k] = B.held[k]
    <2>1. exec.lenders \in SUBSET Keys
      BY <1>1, <1>2, PlanIs DEF Lending
    <2>2. ArenaInv(B) /\ arena' = DropHolds(B, exec.lenders)
      BY <1>3 DEF Yields, End
    <2> HIDE DEF B
    <2>3. /\ Yields(B, arena') /\ arena'.reading = B.reading
          /\ \A k \in Keys : arena'.held[k] = IF k \in exec.lenders THEN 0 ELSE B.held[k]
      BY <2>1, <2>2, YieldsDrop
    <2> QED BY <2>1, <2>3
  <1>5. Yields(arena, arena') /\ arena'.reading = arena.reading
    <2> HIDE DEF B
    <2> QED BY <1>2, <1>3, <1>4, YieldsBoth
  <1>6. Planned = {} /\ Sent = {}
    <2>1. Len(chunk.groups) \in Nat /\ Len(Launched) \in Nat /\ chunk.groups \in Seq(GroupType)
          /\ Launched \in Seq(GroupType)
      BY <1>1, EmptyIs DEF Members, Types, Launched
    <2>2. Len(chunk.groups) = 0 /\ Len(Launched) = 0
      BY <1>1, <1>2, <2>1 DEF Members
    <2>3. chunk.groups = <<>> /\ Launched = <<>>
      BY <2>1, <2>2, EmptyIs
    <2> QED BY <2>3, EmptyIs DEF Planned, Sent
  <1>7. \A k \in Keys : arena.reading[k] = 0
    <2>1. exec.reserved = {}
      BY <1>2, <1>6 DEF Reading
    <2>2. \A k : ReadersOf(k) = {}
      BY <2>1 DEF ReadersOf
    <2>3. Cardinality({}) = 0
      BY FS_EmptySet
    <2> QED BY <1>2, <2>2, <2>3 DEF Reading
  <1>8. Idle(arena')
    <2>1. ASSUME NEW k \in Keys PROVE arena'.held[k] = 0
      <3>1. CASE k \in exec.lenders
        BY <3>1, <1>4
      <3>2. CASE k \notin exec.lenders
        <4>1. arena.held[k] \in Nat /\ arena'.held[k] \in Nat
          BY <1>2, <1>5, ArenaFields DEF ArenaInv, Yields
        <4>2. arena'.held[k] <= arena.held[k]
          BY <1>5 DEF Yields, Lets
        <4>3. ~(arena.held[k] > 0)
          BY <3>2, <1>2 DEF Lending
        <4> QED BY <4>1, <4>2, <4>3
      <3> QED BY <3>1, <3>2
    <2> QED BY <2>1, <1>5, <1>7 DEF Idle
  <1>9. arena'.deferred = {}
    <2>1. Kept(arena') = {}
      BY <1>8 DEF Idle, Kept
    <2>2. arena'.deferred \subseteq Kept(arena')
      BY <1>5 DEF Yields, ArenaInv
    <2> QED BY <2>1, <2>2
  <1>10. \A k \in Resident(arena') : k \notin Range(sched.ready)
    <2>1. ASSUME NEW k \in Resident(arena'), k \in Range(sched.ready) PROVE FALSE
      <3>1. k \in Resident(B) /\ k \in Resident(arena)
        BY <1>3, <1>4 DEF Yields, Sheds
      <3>2. k \in B.deferred
        BY <3>1, <2>1, <1>3
      <3>3. k \in arena'.deferred
        BY <3>2, <1>4 DEF Yields, Sheds
      <3> QED BY <3>3, <1>9
    <2> QED BY <2>1
  <1>11. ASSUME NEW k \in Resident(arena'), sched.stage[k] # Done PROVE FALSE
    <2>1. k \in Resident(arena) /\ k \in Docs
      BY <1>2, <1>5 DEF Yields, Sheds, Known
    <2>2. LimitReached
      BY <1>1, <1>11, <2>1 DEF Turns
    <2>3. op = 1
      <3>1. This.limit > 0 /\ plan \in Plans /\ op \in DOMAIN Ops
        BY <2>2 DEF LimitReached, BaseInv
      <3>2. PlanRecord(plan)
        BY <3>1, ExecutorAssumption
      <3>3. Len(plan.ops) = 1
        BY <3>1, <3>2 DEF PlanRecord, This, Ops
      <3>4. Ops \in Seq(OpRecord(Docs))
        BY PlanIs
      <3>5. DOMAIN Ops = 1 .. 1
        BY <3>3, <3>4 DEF Ops
      <3> QED BY <3>1, <3>5
    <2>4. sched.stage[k] \in Stages
      <3>1. sched.stage \in [Docs -> Stages \union {Queued, Done}]
        BY <1>1 DEF Members, Types
      <3>2. sched.stage[k] # Queued
        BY <2>1, <2>3, <1>2 DEF Unplaced
      <3> QED BY <3>1, <3>2, <2>1, <1>11
    <2>5. k \in InRun /\ k \notin Range(sched.waiting)
      BY <2>1, <2>4, <1>1, EmptyIs DEF InRun, Turns
    <2>6. k \in ReadySet
      BY <2>5, <1>1, <1>6 DEF Members, Streams
    <2>7. k \in Range(sched.ready)
      BY <2>6, <1>1, EmptyIs DEF ReadySet, Turns
    <2> QED BY <2>7, <1>10
  <1>12. Parked(arena')
    <2>1. ASSUME NEW k \in Resident(arena') PROVE k \in arena'.retained
      <3>1. k \in Resident(arena)
        BY <1>5 DEF Yields, Sheds
      <3>2. sched.stage[k] = Done
        BY <1>11
      <3>3. k \in arena.retained \/ k \in arena.deferred
        BY <3>1, <3>2, <1>2, EmptyIs DEF Owned
      <3>4. k \in arena'.retained \/ k \in arena'.deferred
        BY <3>3, <1>5 DEF Yields, Sheds
      <3> QED BY <3>4, <1>9
    <2> QED BY <2>1, <1>8 DEF Parked
  <1>13. Kin /\ Planned' = Planned /\ sched' = sched
    <2>1. Unmoved
      BY EndKeeps
    <2> QED BY <2>1, UnmovedSets DEF Kin, Unmoved, End
  <1>14. Passed
    BY <1>12 DEF Passed, Parked
  <1> HIDE DEF V, B
  <1>15. \A d \in Docs : sched'.stage[d] = Queued => sched.stage[d] = Queued
    BY <1>13
  <1>16. Known(arena)' /\ Lending' /\ Reading' /\ Unplaced' /\ Owned'
    BY <1>2, <1>5, <1>13, <1>14, <1>15, LoansKeep
  <1>17. Parked(arena)' /\ sched'.settled \in Seq(Docs')
    BY <1>12, <1>13, <1>2, EmptyIs DEF Parked, Idle
  <1> QED BY <1>1, <1>2, <1>13, <1>16, <1>17 DEF Loans, LoansInv

-----------------------------------------------------------------------------
(* An operator and a query end, and the next starts.                       *)
\* An arena nobody holds or reads owes no free.
LEMMA IdleOwes ==
    ASSUME NEW A, ArenaInv(A), Idle(A)
    PROVE  Kept(A) = {} /\ A.deferred = {}
  <1>1. Kept(A) = {}
    BY DEF Idle, Kept
  <1> QED BY <1>1 DEF ArenaInv

\* With nothing resident nothing is held, read or owed.
LEMMA EmptyIdle ==
    ASSUME NEW A, Known(A), Resident(A) = {}
    PROVE  Parked(A)
  <1>1. A \in Arena /\ Kept(A) = {}
    BY DEF Known, ArenaInv
  <1>2. ASSUME NEW k \in Keys PROVE A.held[k] = 0 /\ A.reading[k] = 0
    BY <1>1, KeptIs
  <1> QED BY <1>2 DEF Parked, Idle

\* Idle and parked arenas stay so as they yield.
LEMMA IdleYields ==
    ASSUME NEW A, NEW B, ArenaInv(A), Idle(A), Yields(A, B)
    PROVE  Idle(B)
  <1>1. ASSUME NEW k \in Keys PROVE B.held[k] = 0 /\ B.reading[k] = 0
    <2>1. B.held[k] \in Nat /\ B.reading[k] \in Nat
      BY ArenaFields DEF ArenaInv, Yields
    <2>2. B.held[k] <= 0 /\ B.reading[k] <= 0
      BY DEF Idle, Yields, Lets
    <2> QED BY <2>1, <2>2
  <1> QED BY <1>1 DEF Idle

LEMMA ParkedYields ==
    ASSUME NEW A, NEW B, ArenaInv(A), Parked(A), Yields(A, B)
    PROVE  Parked(B)
  BY IdleYields DEF Parked, Yields, Sheds

\* Between operators, and between queries.
LEMMA NextOperatorLoans ==
    ASSUME BaseInv, Loans, NextOperator
    PROVE  Loans' /\ StartInv'
  <1>1. /\ pc = "between" /\ pc' = "start" /\ arena' = arena /\ plan' = plan /\ op' = op + 1
        /\ Running /\ ~Running'
    BY DEF NextOperator, Running
  <1>2. Loans'
    BY <1>1, StoppedLoans DEF Loans
  <1>3. op' # 1
    <2>1. op \in DOMAIN Ops /\ Ops \in Seq(OpRecord(Docs))
      BY PlanIs DEF BaseInv
    <2>2. op \in Nat /\ op > 0
      BY <2>1
    <2> QED BY <2>2, <1>1
  <1>4. Parked(arena)'
    BY <1>1 DEF Loans, LoansInv, Parked, Idle
  <1> QED BY <1>1, <1>2, <1>3, <1>4 DEF StartInv

LEMMA EndQueryLoans ==
    ASSUME BaseInv, Loans, EndQuery
    PROVE  Loans' /\ StartInv'
  <1>1. /\ pc = "between" /\ pc' = "done" /\ plan' = plan /\ op' = op
        /\ arena' = FreeAll(arena, Resident(arena)) /\ Running /\ ~Running'
    BY DEF EndQuery, Running
  <1>2. ArenaInv(arena) /\ Known(arena) /\ Idle(arena)
    BY <1>1 DEF Loans, LoansInv, Known, Parked
  <1>3. Yields(arena, arena')
    BY <1>1, <1>2, YieldsFree
  <1>4. Loans'
    BY <1>1, <1>2, <1>3, YieldsKnown, StoppedLoans
  <1>5. Resident(arena') = {}
    <2>1. Resident(arena') = Resident(arena) \ (Resident(arena) \ Kept(arena))
      BY <1>1, <1>2, FreeAllKeeps
    <2> QED BY <2>1, <1>2, IdleOwes
  <1>6. Resident(arena)' = {}
    BY <1>5
  <1> QED BY <1>1, <1>4, <1>6 DEF StartInv

LEMMA NextQueryLoans ==
    ASSUME BaseInv, Loans, NextQuery
    PROVE  Loans' /\ StartInv'
  <1> DEFINE B == IF pc = "refused" THEN EmptyArena ELSE FreeResident(arena)
  <1>1. /\ plan' = plan /\ op' = 1 /\ arena' = B
        /\ pc' = IF Resident(B) = {} THEN "start" ELSE "refused"
    BY DEF NextQuery
  <1>2. ArenaInv(arena) /\ Known(arena)
    BY DEF Loans, Known
  <1>3. Known(B)
    <2>1. CASE pc = "refused"
      <3>1. ArenaInv(EmptyArena) /\ Resident(EmptyArena) = {}
        BY EmptyArenaFine
      <3>2. Kept(EmptyArena) = {}
        BY DEF Kept, EmptyArena
      <3> QED BY <2>1, <3>1, <3>2 DEF Known
    <2>2. CASE pc # "refused"
      <3>1. Yields(arena, B)
        BY <2>2, <1>2, FreeResidentKeeps DEF Yields
      <3> QED BY <3>1, <1>2, YieldsKnown
    <2> QED BY <2>1, <2>2
  <1> HIDE DEF B
  <1>4. ~Running'
    BY <1>1 DEF Running
  <1>5. Loans'
    BY <1>1, <1>3, <1>4, StoppedLoans
  <1>6. pc' = "start" => Resident(arena') = {} /\ Parked(arena')
    BY <1>1, <1>3, EmptyIdle
  <1>7. pc' = "start" => Resident(arena)' = {} /\ Parked(arena)'
    BY <1>6 DEF Parked, Idle
  <1> QED BY <1>1, <1>5, <1>7 DEF StartInv

\* Retention before an operator frees keys and prices the others.
LEMMA RetentionYields ==
    ASSUME Known(arena), Parked(arena), NEW A \in AppliedRetention
    PROVE  Yields(arena, A)
  <1> DEFINE fresh == FreeAll(arena, Expired(arena))
             sizes == [k \in Keys |->
                      IF k \in fresh.retained THEN Cardinality(SoleHeld(fresh.full, k)) ELSE 0]
             priced == [fresh EXCEPT !.size = sizes]
  <1>1. ArenaInv(arena)
    BY DEF Known
  <1>2. Expired(arena) \in SUBSET Resident(arena)
    BY <1>1 DEF Expired, ArenaInv, Consistent
  <1>3. Yields(arena, fresh)
    BY <1>1, <1>2, YieldsFree
  <1>5. A = arena \/ \E n : A \in EvictRetained(priced, n)
    <2>1. CASE This.join
      <3>1. priced = [fresh EXCEPT !.size = [k \in Keys |->
                      IF k \in fresh.retained THEN Cardinality(SoleHeld(fresh.full, k)) ELSE 0]]
        OBVIOUS
      <3> HIDE DEF priced
      <3> QED BY <2>1, <3>1 DEF AppliedRetention
    <2>2. CASE ~This.join
      BY <2>2 DEF AppliedRetention
    <2> QED BY <2>1, <2>2
  <1>6. Yields(fresh, priced)
    <2>1. fresh \in Arena /\ Marks(fresh) /\ ArenaInv(fresh)
      BY <1>3, MarksOf DEF ArenaInv, Yields
    <2>2. sizes \in [Keys -> Nat]
      <3>1. ASSUME NEW k \in fresh.retained PROVE Cardinality(SoleHeld(fresh.full, k)) \in Nat
        <4>1. fresh.retained \in SUBSET Keys /\ fresh.full \in Pool(NumPages)
          BY <2>1, ArenaFields
        <4>2. k \in Keys
          BY <4>1
        <4> HIDE DEF fresh
        <4>3. SoleHeld(fresh.full, k) \subseteq Pages(NumPages)
          BY <4>1, <4>2, TableIs, PoolNats DEF SoleHeld
        <4>4. IsFiniteSet(Pages(NumPages))
          BY PoolNats, FS_Interval DEF Pages
        <4>5. IsFiniteSet(SoleHeld(fresh.full, k))
          BY <4>3, <4>4, FS_Subset
        <4> QED BY <4>5, FS_CardinalityType
      <3> HIDE DEF fresh
      <3> QED BY <3>1
    <2> HIDE DEF fresh, sizes
    <2>3. SamePools(fresh, priced) /\ Shape(priced)
      BY <2>1 DEF Arena, Shape, SamePools
    <2>4. /\ priced.held = fresh.held /\ priced.reading = fresh.reading
          /\ priced.deferred = fresh.deferred /\ priced.floor = fresh.floor
          /\ priced.trimmed = fresh.trimmed /\ priced.pinned = fresh.pinned
          /\ priced.retained = fresh.retained /\ priced.size = sizes
      BY <2>1 DEF Arena
    <2> HIDE DEF priced
    <2>5. Resident(priced) = Resident(fresh) /\ Kept(priced) = Kept(fresh)
      BY <2>3, <2>4 DEF SamePools, Resident, Kept
    <2>6. Marks(priced)
      BY <2>1, <2>2, <2>4, <2>5 DEF Marks, FloorsWhole
    <2>7. ArenaInv(priced)
      BY <2>1, <2>3, <2>6, MarksKeep
    <2>8. Lets(fresh, priced)
      <3>1. fresh.held \in [Keys -> Nat] /\ fresh.reading \in [Keys -> Nat]
        BY <2>1, ArenaFields
      <3>2. \A k \in Keys : fresh.held[k] \in Nat /\ fresh.reading[k] \in Nat
        BY <3>1
      <3>3. \A k \in Keys : priced.held[k] <= fresh.held[k] /\ priced.reading[k] <= fresh.reading[k]
        BY <3>2, <2>4
      <3> QED BY <3>3, <2>5, LetsMarks
    <2>9. Sheds(fresh, priced)
      <3>1. \A k \in Keys : Narrower(fresh, priced, k)
        BY <2>3, PoolsNarrow
      <3> QED BY <2>3, <2>4, <2>5, <3>1 DEF Sheds, SamePools
    <2> QED BY <2>7, <2>8, <2>9 DEF Yields
  <1> HIDE DEF fresh, sizes, priced
  <1>7. Yields(arena, priced)
    BY <1>1, <1>3, <1>6, YieldsBoth
  <1>8. ASSUME NEW n, A \in EvictRetained(priced, n) PROVE Yields(arena, A)
    <2>1. Yields(priced, A)
      BY <1>7, <1>8, YieldsEvict DEF Yields
    <2> QED BY <1>1, <1>7, <2>1, YieldsBoth
  <1> QED BY <1>1, <1>5, <1>8, YieldsNothing

\* The resident documents of an operator that starts are pinned.
LEMMA PinAllKeeps ==
    ASSUME NEW A, ArenaInv(A), NEW V \in SUBSET Resident(A), NEW B, B = PinAll(A, V)
    PROVE  /\ ArenaInv(B) /\ Resident(B) = Resident(A) /\ B.base = A.base
           /\ B.held = A.held /\ B.reading = A.reading /\ B.deferred = A.deferred
           /\ B.retained = A.retained \ V
  <1>0. A \in Arena /\ Marks(A)
    BY MarksOf DEF ArenaInv
  <1>1. SamePools(A, B) /\ Shape(B)
    BY <1>0 DEF Arena, Shape, SamePools, PinAll
  <1>2. /\ B.held = A.held /\ B.reading = A.reading /\ B.deferred = A.deferred
        /\ B.floor = A.floor /\ B.trimmed = A.trimmed
        /\ B.pinned = A.pinned \cup V /\ B.retained = A.retained \ V
        /\ B.size = [k \in Keys |-> IF k \in V THEN 0 ELSE A.size[k]]
    BY <1>0 DEF Arena, PinAll
  <1>3. Resident(B) = Resident(A) /\ Kept(B) = Kept(A)
    BY <1>1, <1>2 DEF SamePools, Resident, Kept
  <1>4. Marks(B)
    <2>1. B.size \in [Keys -> Nat]
      <3>1. A.size \in [Keys -> Nat]
        BY <1>0 DEF Marks
      <3> QED BY <3>1, <1>2
    <2>2. /\ B.pinned \in SUBSET Resident(B) /\ B.retained \in SUBSET Resident(B)
          /\ B.pinned \cap B.retained = {}
      BY <1>0, <1>2, <1>3 DEF Marks
    <2> QED BY <1>0, <1>2, <1>3, <2>1, <2>2 DEF Marks, FloorsWhole
  <1>5. ArenaInv(B)
    BY <1>1, <1>4, MarksKeep
  <1> QED BY <1>1, <1>2, <1>3, <1>5 DEF SamePools

\* Whole pages of a prefix are no longer than it.
LEMMA FloorPages ==
    ASSUME NEW n \in Nat
    PROVE  /\ (n \div PageTokens) * PageTokens \in Nat
           /\ (n \div PageTokens) * PageTokens <= n
           /\ ((n \div PageTokens) * PageTokens) % PageTokens = 0
  <1>1. PageTokens \in Nat /\ PageTokens > 0
    BY PageTokensAssumption
  <1>2. n \div PageTokens \in Nat /\ (n \div PageTokens) * PageTokens <= n
        /\ (n \div PageTokens) * PageTokens \in Nat
    BY <1>1
  <1>3. ((n \div PageTokens) * PageTokens) % PageTokens = 0
    BY <1>1, <1>2
  <1> QED BY <1>2, <1>3

\* What a document may share is whole pages of it, and somebody before it in
\* sorted order lends them.
LEMMA TreeIs ==
    ASSUME BaseInv, NEW D \in SUBSET Docs, NEW d \in Docs
    PROVE  /\ TreeShared(D)[d] \in Nat /\ TreeShared(D)[d] % PageTokens = 0
           /\ TreeShared(D)[d] <= Length(d)
           /\ TreeParent(D)[d] \in D \union {None}
  <1>1. Length(d) \in Nat /\ Docs \subseteq Nat
    BY PlanIs
  <1> DEFINE near == {Common(Previous(D, d), d), Bigger(0, Length(d) - 1)}
             n == Least(near, 0)
  <1>2. (n \in Nat /\ n <= Length(d)) \/ D = {} \/ Previous(D, d) = None
    <2> SUFFICES ASSUME Previous(D, d) # None PROVE n \in Nat /\ n <= Length(d)
      OBVIOUS
    <2>1. Previous(D, d) \in Docs
      <3>1. {e \in D : e < d} \subseteq 0 .. d /\ d \in Nat
        <4>1. d \in Nat /\ \A e \in D : e \in Nat
          BY <1>1
        <4>2. \A e \in D : e < d => e \in 0 .. d
          BY <4>1
        <4> QED BY <4>1, <4>2
      <3>2. {e \in D : e < d} # {}
        BY DEF Previous, Largest, None
      <3> QED BY <3>1, <3>2, LargestIs DEF Previous
    <2>2. Common(Previous(D, d), d) \in Nat
      <3>1. Length(Previous(D, d)) \in Nat
        BY <2>1, PlanIs
      <3> HIDE DEF near, n
      <3> QED BY <3>1, LargestIs DEF Common
    <2>3. Bigger(0, Length(d) - 1) \in Nat /\ Bigger(0, Length(d) - 1) <= Length(d)
      BY <1>1 DEF Bigger
    <2>4. near \subseteq Nat /\ near # {} /\ Bigger(0, Length(d) - 1) \in near
      BY <2>2, <2>3
    <2>5. n \in near /\ n <= Bigger(0, Length(d) - 1)
      <3> HIDE DEF near
      <3>1. n \in near /\ \A m \in near : n <= m
        BY <2>4, LeastIs
      <3> QED BY <2>4, <3>1
    <2> HIDE DEF near, n
    <2> QED BY <2>3, <2>4, <2>5, <1>1
  <1>3. /\ TreeShared(D)[d] \in Nat /\ TreeShared(D)[d] % PageTokens = 0
        /\ TreeShared(D)[d] <= Length(d)
    <2>1. CASE d \notin D \/ Previous(D, d) = None
      <3>1. TreeShared(D)[d] = 0
        BY <2>1 DEF TreeShared
      <3>2. 0 % PageTokens = 0
        BY PageTokensAssumption
      <3> QED BY <3>1, <3>2, <1>1
    <2>2. CASE ~(d \notin D \/ Previous(D, d) = None)
      <3>1. n \in Nat /\ n <= Length(d)
        BY <2>2, <1>2
      <3>2. TreeShared(D)[d] = (n \div PageTokens) * PageTokens
        BY <2>2 DEF TreeShared
      <3> HIDE DEF n
      <3>3. /\ (n \div PageTokens) * PageTokens \in Nat
            /\ (n \div PageTokens) * PageTokens <= n
            /\ ((n \div PageTokens) * PageTokens) % PageTokens = 0
        BY <3>1, FloorPages
      <3> QED BY <3>1, <3>2, <3>3, <1>1
    <2> QED BY <2>1, <2>2
  <1>4. TreeParent(D)[d] \in D \union {None}
    <2> DEFINE sharing(e) == \A f \in D : e < f /\ f <= d => TreeShared(D)[f] >= TreeShared(D)[d]
               E == {e \in D : e < d /\ sharing(e)}
    <2>1. TreeParent(D)[d] = IF TreeShared(D)[d] = 0 THEN None ELSE Least(E, None)
      BY DEF TreeParent
    <2>2. E \subseteq D /\ E \subseteq Nat
      BY <1>1
    <2> HIDE DEF E
    <2>3. Least(E, None) \in E \union {None}
      BY <2>2, LeastIs
    <2> QED BY <2>1, <2>2, <2>3
  <1> QED BY <1>3, <1>4

\* A lender is held for as many as borrow from it.
LEMMA LendersAre ==
    ASSUME BaseInv, NEW T, T.parent \in [Docs -> Docs \union {None}], T.shared \in [Docs -> Nat]
    PROVE  LET X == StartExecutor(T) IN
           /\ X.borrowers \in [Docs -> Int] /\ X.lowest \in [Docs -> Nat]
           /\ X.lenders \subseteq Docs /\ X.reserved = {}
           /\ \A d \in Docs : X.borrowers[d] > 0 => d \in X.lenders
  <1> DEFINE children(d) == {e \in Docs : T.parent[e] = d}
             X == StartExecutor(T)
  <1>1. /\ X.borrowers = [d \in Docs |-> Cardinality(children(d))]
        /\ X.lowest = [d \in Docs |-> Least({T.shared[e] : e \in children(d)}, 0)]
        /\ X.lenders = {d \in Docs : children(d) # {}} /\ X.reserved = {}
    BY DEF StartExecutor
  <1>2. ASSUME NEW d \in Docs
        PROVE  /\ Cardinality(children(d)) \in Int
               /\ Least({T.shared[e] : e \in children(d)}, 0) \in Nat
               /\ Cardinality(children(d)) > 0 => children(d) # {}
    <2>1. IsFiniteSet(children(d))
      BY PlanIs, FS_Subset
    <2>2. Cardinality(children(d)) \in Nat
      BY <2>1, FS_CardinalityType
    <2>3. children(d) = {} => Cardinality(children(d)) = 0
      BY FS_EmptySet
    <2>4. {T.shared[e] : e \in children(d)} \subseteq Nat
      OBVIOUS
    <2> DEFINE S == {T.shared[e] : e \in children(d)}
    <2>5. Least(S, 0) \in Nat
      <3>1. S \subseteq Nat
        BY <2>4
      <3> HIDE DEF S
      <3>2. CASE S # {}
        <4>1. Least(S, 0) \in S
          BY <3>1, <3>2, LeastIs
        <4> QED BY <3>1, <4>1
      <3>3. CASE S = {}
        BY <3>3 DEF Least
      <3> QED BY <3>2, <3>3
    <2> HIDE DEF children
    <2> QED BY <2>2, <2>3, <2>5
  <1> HIDE DEF X, children
  <1>3. /\ X.borrowers \in [Docs -> Int] /\ X.lowest \in [Docs -> Nat]
        /\ X.lenders \subseteq Docs
    <2>1. X.borrowers \in [Docs -> Int]
      BY <1>1, <1>2
    <2>2. X.lowest \in [Docs -> Nat]
      BY <1>1, <1>2
    <2> QED BY <1>1, <2>1, <2>2
  <1>4. \A d \in Docs : X.borrowers[d] > 0 => d \in X.lenders
    BY <1>1, <1>2
  <1> QED BY <1>1, <1>3, <1>4 DEF X

\* An operator starts on a parked arena: nothing is borrowed yet.
LEMMA StartLoans ==
    ASSUME BaseInv, Loans, StartInv, StartOperator
    PROVE  Loans'
  <1>1. /\ pc = "start" /\ plan' = plan /\ op' = op /\ Known(arena) /\ ArenaInv(arena)
        /\ Parked(arena) /\ (op = 1 => Resident(arena) = {})
    BY DEF StartOperator, StartInv, Loans, Known
  <1>2. PICK A \in AppliedRetention :
           LET D == This.docs \intersect alive IN
           \/ arena' = PinAll(A, D \intersect Resident(A)) /\ pc' = "failed"
           \/ Start(A, D)
    BY DEF StartOperator
  <1> DEFINE D == This.docs \intersect alive
             resident == D \intersect Resident(A)
             asked == Asked(D, resident)
  <1>3. Yields(arena, A)
    BY <1>1, RetentionYields
  <1>4. ArenaInv(A) /\ Known(A) /\ Parked(A)
    BY <1>1, <1>3, YieldsKnown, ParkedYields DEF Yields
  <1>5. D \subseteq Docs /\ asked \subseteq D
    <2>1. This \in OpRecord(Docs)
      BY PlanIs
    <2>2. This.docs \subseteq Docs
      BY <2>1 DEF OpRecord
    <2> QED BY <2>2 DEF Asked
  <1>6. /\ arena' = PinAll(A, resident)
        /\ \/ pc' = "failed"
           \/ /\ sched' = StartAdmission(A, D) /\ tree' = StartBorrowing(A, D)
              /\ exec' = StartExecutor(StartBorrowing(A, D)) /\ chunk' = NoChunk /\ pc' = "top"
    BY <1>2 DEF Start
  <1>7. /\ ArenaInv(arena') /\ Resident(arena') = Resident(A) /\ arena'.base = A.base
        /\ arena'.held = A.held /\ arena'.reading = A.reading /\ arena'.deferred = A.deferred
        /\ arena'.retained = A.retained \ resident
    <2>1. resident \in SUBSET Resident(A)
      OBVIOUS
    <2> HIDE DEF resident
    <2> QED BY <2>1, <1>4, <1>6, PinAllKeeps
  <1>8. Known(arena')
    <2>1. Kept(arena') = Kept(A)
      BY <1>7 DEF Kept
    <2> QED BY <1>4, <1>7, <2>1 DEF Known
  <1>9. CASE pc' = "failed"
    BY <1>1, <1>8, <1>9, StoppedLoans DEF Running
  <1>10. CASE pc' = "top"
    <2>1. /\ Docs' = Docs /\ Stages' = Stages /\ \A d : Length(d)' = Length(d)
      BY <1>1, Frozen
    <2>2. /\ sched'.stage = [d \in Docs |-> IF d \in asked THEN Queued ELSE Done]
          /\ sched'.settled = Ascending(D \ asked) /\ sched'.skipped = <<>>
      <3> DEFINE S == StartAdmission(A, D)
      <3>1. sched' = S
        BY <1>6, <1>10
      <3>2. /\ S.stage = [d \in Docs |-> IF d \in Asked(D, D \intersect Resident(A)) THEN Queued ELSE Done]
            /\ S.settled = Ascending(D \ Asked(D, D \intersect Resident(A))) /\ S.skipped = <<>>
        <4> HIDE DEF D
        <4> QED BY DEF StartAdmission
      <3> HIDE DEF D, S
      <3> QED BY <3>1, <3>2 DEF asked, resident
    <2>3. /\ tree'.parent = [d \in Docs |-> IF d \in D \ Resident(A) THEN TreeParent(D)[d] ELSE None]
          /\ tree'.shared = [d \in Docs |-> IF d \in D \ Resident(A) THEN TreeShared(D)[d] ELSE 0]
          /\ exec' = StartExecutor(tree')
      <3> DEFINE T == StartBorrowing(A, D)
      <3>1. tree' = T /\ exec' = StartExecutor(T)
        BY <1>6, <1>10
      <3>2. /\ T.parent = [d \in Docs |-> IF d \in D \ Resident(A) THEN TreeParent(D)[d] ELSE None]
            /\ T.shared = [d \in Docs |-> IF d \in D \ Resident(A) THEN TreeShared(D)[d] ELSE 0]
        <4> HIDE DEF D
        <4> QED BY DEF StartBorrowing
      <3> HIDE DEF D, T
      <3> QED BY <3>1, <3>2
    <2> HIDE DEF D, resident, asked
    <2>4. \A d \in Docs : sched'.stage[d] = IF d \in asked THEN Queued ELSE Done
      BY <2>2
    <2>5. tree'.parent \in [Docs -> Docs \union {None}]
      <3>1. \A d \in Docs : TreeParent(D)[d] \in Docs \union {None}
        BY <1>5, TreeIs
      <3> QED BY <2>3, <3>1
    <2>6. /\ tree'.shared \in [Docs -> Nat]
          /\ \A d \in Docs : tree'.shared[d] % PageTokens = 0 /\ tree'.shared[d] <= Length(d)
      <3>1. \A d \in Docs : /\ TreeShared(D)[d] \in Nat /\ TreeShared(D)[d] % PageTokens = 0
                            /\ TreeShared(D)[d] <= Length(d)
        BY <1>5, TreeIs
      <3>2. 0 % PageTokens = 0
        BY PageTokensAssumption
      <3>3. \A d \in Docs : Length(d) \in Nat
        BY PlanIs
      <3>4. tree'.shared \in [Docs -> Nat]
        BY <2>3, <3>1
      <3>5. ASSUME NEW d \in Docs PROVE tree'.shared[d] % PageTokens = 0 /\ tree'.shared[d] <= Length(d)
        <4>1. CASE d \in D \ Resident(A)
          BY <4>1, <2>3, <3>1
        <4>2. CASE d \notin D \ Resident(A)
          <5>1. tree'.shared[d] = 0 /\ 0 <= Length(d)
            BY <4>2, <2>3, <3>3
          <5> QED BY <5>1, <3>2
        <4> QED BY <4>1, <4>2
      <3> QED BY <3>4, <3>5
    <2>7. /\ exec'.borrowers \in [Docs -> Int] /\ exec'.lowest \in [Docs -> Nat]
          /\ exec'.lenders \subseteq Docs /\ exec'.reserved = {}
          /\ \A d \in Docs : exec'.borrowers[d] > 0 => d \in exec'.lenders
      BY <2>3, <2>5, <2>6, LendersAre
    <2>8. \A k \in Keys : arena'.held[k] = 0 /\ arena'.reading[k] = 0
      BY <1>4, <1>7 DEF Parked, Idle
    <2>9. Lending'
      BY <2>1, <2>5, <2>6, <2>7, <2>8 DEF Lending
    <2>10. Reading'
      <3>1. \A k : ReadersOf(k)' = {}
        BY <2>7 DEF ReadersOf
      <3>2. Cardinality({}) = 0
        BY FS_EmptySet
      <3> QED BY <2>7, <2>8, <3>1, <3>2 DEF Reading
    <2>11. Unplaced'
      <3>1. ASSUME NEW d \in Docs, sched'.stage[d] = Queued, d \in Resident(arena')
            PROVE  tree'.parent[d] = None /\ op' # 1
        <4>1. d \in Resident(A)
          BY <3>1, <1>7
        <4>2. d \in Resident(arena)
          BY <4>1, <1>3 DEF Yields, Sheds
        <4> QED BY <4>1, <4>2, <2>3, <1>1
      <3> QED BY <3>1, <2>1 DEF Unplaced
    <2>12. sched'.settled \in Seq(Docs) /\ Range(sched'.settled) = D \ asked
      <3>1. D \ asked \subseteq Int /\ D \ asked \subseteq Docs /\ IsFiniteSet(D \ asked)
        BY <1>5, PlanIs, FS_Subset
      <3>2. Ascending(D \ asked) \in Seq(D \ asked) /\ Range(Ascending(D \ asked)) = D \ asked
        BY <3>1, AscendingOf
      <3>3. Ascending(D \ asked) \in Seq(Docs)
        BY <3>1, <3>2, SeqIn
      <3> QED BY <3>2, <3>3, <2>2
    <2>13. Owned'
      <3>1. ASSUME NEW k \in Resident(arena')
            PROVE  \/ k \in arena'.retained \/ sched'.stage[k] # Done \/ k \in Range(sched'.settled)
        <4>1. k \in Resident(A) /\ k \in A.retained /\ k \in Docs
          BY <3>1, <1>4, <1>7 DEF Parked, Known
        <4>2. CASE k \in D
          <5>1. k \in asked => sched'.stage[k] = Queued /\ Queued # Done
            BY <4>1, <2>4 DEF Queued, Done
          <5>2. k \notin asked => k \in Range(sched'.settled)
            BY <4>2, <2>12
          <5> QED BY <5>1, <5>2
        <4>3. CASE k \notin D
          BY <4>1, <4>3, <1>7 DEF resident
        <4> QED BY <4>2, <4>3
      <3> QED BY <3>1 DEF Owned
    <2>14. Known(arena)'
      BY <1>8, <2>1 DEF Known
    <2>15. sched'.settled \in Seq(Docs')
      BY <2>1, <2>12
    <2> QED BY <1>10, <2>2, <2>9, <2>10, <2>11, <2>13, <2>14, <2>15 DEF Loans, LoansInv
  <1> HIDE DEF D, resident, asked
  <1> QED BY <1>6, <1>9, <1>10

-----------------------------------------------------------------------------
(* A document is admitted.                                                 *)
\* The holds after a document was admitted.
LEMMA HoldIs ==
    ASSUME NEW A \in Arena, NEW k \in Keys, NEW n \in Nat, NEW shared \in Nat,
           NEW B, B = KeepWindow(HoldKey(A, k, n), k, shared)
    PROVE  /\ B.base = A.base /\ B.retained = A.retained /\ B.deferred = A.deferred
           /\ B.reading = A.reading /\ B.held = [A.held EXCEPT ![k] = @ + n]
  BY DEF Arena, KeepWindow, HoldKey

\* What admission asks of the arena is a request it can serve.
LEMMA AdmitRequest ==
    ASSUME BaseInv, Known(arena), Lending, Unplaced, NEW d \in Docs, sched.stage[d] = Queued
    PROVE  LET s == Borrowed(d)
               p == IF s = 0 THEN d ELSE tree.parent[d]
           IN  /\ Request(arena, d, Length(d), Capacity(d), p, s)
               /\ s \in Nat /\ (s > 0 => tree.parent[d] \in Docs)
               /\ Reserve(arena, d, Length(d), Capacity(d), tree.parent[d], s)
                     = Reserve(arena, d, Length(d), Capacity(d), p, s)
  <1> DEFINE s == Borrowed(d)
             p == IF s = 0 THEN d ELSE tree.parent[d]
  <1>1. Docs \subseteq Keys /\ Length(d) \in Nat
    BY PlanIs
  <1>2. Capacity(d) \in Nat /\ Length(d) <= Capacity(d)
    <2>1. This.extra \in Nat
      <3>1. This \in OpRecord(Docs)
        BY PlanIs
      <3> QED BY <3>1 DEF OpRecord
    <2> QED BY <1>1, <2>1 DEF Capacity
  <1>3. /\ s \in Nat /\ s <= Length(d) /\ s % PageTokens = 0
        /\ s # 0 => tree.parent[d] # None /\ CanBorrow(arena, tree.parent[d], s)
    <2>1. CASE s = tree.shared[d] /\ tree.parent[d] # None /\ CanBorrow(arena, tree.parent[d], s)
      BY <2>1 DEF Lending
    <2>2. CASE s = 0
      <3>1. 0 % PageTokens = 0
        BY PageTokensAssumption
      <3> QED BY <2>2, <3>1, <1>1
    <2> QED BY <2>1, <2>2 DEF Borrowed
  <1>4. s # 0 => tree.parent[d] \in Docs
    BY <1>3 DEF Lending
  <1>5. d \in Resident(arena) => s = 0 /\ Length(d) = arena.base[d]
    BY <1>3 DEF Unplaced, Known
  <1> HIDE DEF s
  <1>6. p \in Keys
    BY <1>1, <1>4
  <1>7. Request(arena, d, Length(d), Capacity(d), p, s)
    <2>1. d \notin Resident(arena) /\ s > 0 => CanBorrow(arena, p, s)
      BY <1>3
    <2> HIDE DEF p
    <2> QED BY <1>1, <1>2, <1>3, <1>5, <1>6, <2>1 DEF Request
  <1>8. Reserve(arena, d, Length(d), Capacity(d), tree.parent[d], s)
           = Reserve(arena, d, Length(d), Capacity(d), p, s)
    <2>1. CASE s = 0
      BY <2>1, ReserveAlone
    <2>2. CASE s # 0
      BY <2>2
    <2> QED BY <2>1, <2>2
  <1>9. s > 0 => s # 0
    BY <1>3
  <1> HIDE DEF p
  <1> QED BY <1>3, <1>4, <1>7, <1>8, <1>9 DEF s, p

\* The document that comes next, and what the arena answers for it.
LEMMA AdmitIs ==
    ASSUME BaseInv, QueueInv, Loans, NEW d, AdmitNext(d)
    PROVE  /\ pc = "admit" /\ Running /\ Shapes /\ Members /\ d \in Docs
           /\ sched.stage[d] = Queued /\ d \notin Planned
           /\ Known(arena) /\ Lending /\ Reading /\ Unplaced /\ Owned
           /\ sched.settled = <<>> /\ sched.skipped = <<>>
  <1>1. pc = "admit" /\ sched.pending # <<>> /\ d = Head(sched.pending) /\ sched.stage[d] # Done
    BY DEF AdmitNext, Eligible, Live, Popping
  <1>2. Running /\ Shapes /\ Members
    BY <1>1 DEF QueueInv, Running
  <1>3. d \in Range(sched.pending) /\ d \in Docs
    BY <1>1, <1>2, TailIs DEF Members, Types
  <1>4. sched.stage[d] = Queued
    BY <1>1, <1>2, <1>3 DEF Members, Queues, Line
  <1>5. d \notin Planned
    <2>1. Queued \notin Stages
      BY PlanIs
    <2> QED BY <1>2, <1>4, <2>1 DEF Members, Queues, InRun
  <1> QED BY <1>1, <1>2, <1>3, <1>4, <1>5 DEF Loans, LoansInv

\* A document that gets no pages changes no loan.
LEMMA AdmitFails ==
    ASSUME BaseInv, QueueInv, Loans, NEW d, AdmitNext(d),
           NEW out \in Reserve(arena, d, Length(d), Capacity(d), tree.parent[d], Borrowed(d)),
           ~out.ok, arena' = out.arena, sched' = Popped, chunk' = HeldBack(d),
           pc' = "close", tree' = tree, exec' = exec
    PROVE  Loans'
  <1>1. /\ pc = "admit" /\ Running /\ Running' /\ Shapes /\ Members /\ d \in Docs
        /\ sched.stage[d] = Queued /\ Known(arena) /\ Lending /\ Unplaced
        /\ sched.settled = <<>> /\ sched.skipped = <<>>
    BY AdmitIs DEF Running
  <1> DEFINE s == Borrowed(d)
             p == IF s = 0 THEN d ELSE tree.parent[d]
  <1>2. /\ Request(arena, d, Length(d), Capacity(d), p, s)
        /\ out \in Reserve(arena, d, Length(d), Capacity(d), p, s)
    BY <1>1, AdmitRequest
  <1> HIDE DEF s, p
  <1>3. ArenaInv(arena)
    BY <1>1 DEF Known
  <1>4. ArenaInv(arena') /\ Gone(arena, arena') /\ Served(arena, out, d, Length(d))
    BY <1>2, <1>3, ReserveKeeps
  <1>5. arena'.reading = arena.reading /\ arena'.held = arena.held /\ Sheds(arena, arena')
    BY <1>4 DEF Served
  <1>6. Lets(arena, arena')
    <2>1. \A k \in Keys : arena.held[k] \in Nat /\ arena.reading[k] \in Nat
      BY <1>3, ArenaFields DEF ArenaInv
    <2>2. \A k \in Keys : arena'.held[k] <= arena.held[k] /\ arena'.reading[k] <= arena.reading[k]
      BY <1>5, <2>1
    <2> QED BY <1>4, <2>2 DEF Gone, Lets
  <1>7. /\ sched'.stage = sched.stage /\ sched'.settled = sched.settled
        /\ sched'.skipped = sched.skipped
    BY <1>1 DEF Popped, Shapes, IsSched
  <1>8. Planned' = Planned
    <2>1. chunk'.groups = chunk.groups
      BY <1>1 DEF HeldBack, Shapes, IsChunk
    <2> QED BY <2>1 DEF Planned
  <1>9. Same
    BY <1>7, <1>8 DEF Same, AdmitNext
  <1>10. Range(<<>>) = {} /\ sched'.settled \in Seq(Docs)
    BY <1>1, <1>7, EmptyIs
  <1> QED BY <1>1, <1>4, <1>5, <1>6, <1>7, <1>9, <1>10, SameKeeps DEF Yields

\* The arena after a document d was given its pages: its parent p is read when
\* it borrows, and it is held for its own borrowers.
LentTo(A, B, d, s, p) ==
    /\ ArenaInv(B) /\ Resident(B) = Resident(A) /\ B.base = A.base
    /\ B.retained = A.retained /\ B.deferred = A.deferred
    /\ \A k \in Keys : B.reading[k] = IF s > 0 /\ k = p THEN A.reading[k] + 1 ELSE A.reading[k]
    /\ \A k \in Keys : k # d => B.held[k] = A.held[k]
    /\ B.held[d] # A.held[d] =>
          exec.borrowers[d] > 0 /\ B.held[d] = A.held[d] + exec.borrowers[d]

LEMMA ReservedLends ==
    ASSUME BaseInv, Lending, NEW d \in Docs, NEW A, ArenaInv(A),
           Borrowed(d) > 0 => tree.parent[d] \in Keys
    PROVE  LentTo(A, Reserved(A, d), d, Borrowed(d), tree.parent[d])
  <1> DEFINE s == Borrowed(d)
             p == tree.parent[d]
             R == IF s > 0 THEN ReadState(A, {p}) ELSE A
             B == Reserved(A, d)
  <1>1. B = IF d \notin exec.holding /\ exec.borrowers[d] > 0
            THEN KeepWindow(HoldKey(R, d, exec.borrowers[d]), d, exec.lowest[d])
            ELSE R
    BY DEF Reserved
  <1>2. /\ ArenaInv(R) /\ Resident(R) = Resident(A) /\ R.base = A.base
        /\ R.retained = A.retained /\ R.deferred = A.deferred /\ R.held = A.held
        /\ \A k \in Keys : R.reading[k] = IF s > 0 /\ k = p THEN A.reading[k] + 1 ELSE A.reading[k]
    <2>1. CASE s > 0
      <3>1. R = ReadState(A, {p}) /\ {p} \in SUBSET Keys
        BY <2>1
      <3> HIDE DEF R, s, p
      <3>2. /\ ArenaInv(R) /\ SamePools(A, R) /\ Resident(R) = Resident(A) /\ R.held = A.held
            /\ \A k \in Keys : R.reading[k] = IF k \in {p} THEN A.reading[k] + 1 ELSE A.reading[k]
            /\ R.retained = A.retained /\ R.deferred = A.deferred
        BY <3>1, ReadStateKeeps
      <3> QED BY <2>1, <3>2 DEF SamePools
    <2>2. CASE ~(s > 0)
      <3>1. R = A
        BY <2>2
      <3> HIDE DEF R, s, p
      <3> QED BY <2>2, <3>1
    <2> QED BY <2>1, <2>2
  <1>3. d \in Keys
    BY PlanIs
  <1> HIDE DEF B, R, s, p
  <1>4. CASE d \notin exec.holding /\ exec.borrowers[d] > 0
    <2>1. exec.borrowers[d] \in Nat /\ exec.lowest[d] \in Nat
      BY <1>4 DEF Lending
    <2>2. B = KeepWindow(HoldKey(R, d, exec.borrowers[d]), d, exec.lowest[d])
      BY <1>1, <1>4
    <2>3. ArenaInv(B) /\ Resident(B) = Resident(R)
      BY <1>2, <1>3, <2>1, <2>2, HoldKeeps
    <2>4. R \in Arena
      BY <1>2 DEF ArenaInv
    <2>5. /\ B.base = R.base /\ B.retained = R.retained /\ B.deferred = R.deferred
          /\ B.reading = R.reading /\ B.held = [R.held EXCEPT ![d] = @ + exec.borrowers[d]]
      BY <1>3, <2>1, <2>2, <2>4, HoldIs
    <2>6. R.held \in [Keys -> Nat]
      BY <2>4, ArenaFields
    <2>7. /\ \A k \in Keys : k # d => B.held[k] = R.held[k]
          /\ B.held[d] = R.held[d] + exec.borrowers[d]
      BY <1>3, <2>5, <2>6
    <2>8. LentTo(A, B, d, s, p)
      BY <1>2, <1>4, <2>3, <2>5, <2>7 DEF LentTo
    <2> QED BY <2>8 DEF B, s, p
  <1>5. CASE ~(d \notin exec.holding /\ exec.borrowers[d] > 0)
    <2>1. B = R
      BY <1>1, <1>5
    <2>2. LentTo(A, B, d, s, p)
      BY <1>2, <2>1 DEF LentTo
    <2> QED BY <2>2 DEF B, s, p
  <1> QED BY <1>4, <1>5

\* The readings after d was planned as a borrower of p.
LEMMA ReadersGain ==
    ASSUME BaseInv, Reading, Planned \subseteq Docs, NEW d \in Docs, d \notin Planned,
           NEW s \in Nat, s > 0 => tree.parent[d] \in Docs,
           tree'.parent = tree.parent,
           exec'.reserved = IF s > 0 THEN exec.reserved \union {d} ELSE exec.reserved
    PROVE  \A k \in Keys : Cardinality(ReadersOf(k)') =
              IF s > 0 /\ k = tree.parent[d] THEN arena.reading[k] + 1 ELSE arena.reading[k]
  <1>1. ASSUME NEW k \in Keys
        PROVE  Cardinality(ReadersOf(k)') =
                 IF s > 0 /\ k = tree.parent[d] THEN arena.reading[k] + 1 ELSE arena.reading[k]
    <2>1. IsFiniteSet(ReadersOf(k)) /\ d \notin ReadersOf(k)
      <3>1. ReadersOf(k) \subseteq Planned
        BY DEF Reading, ReadersOf
      <3>2. ReadersOf(k) \subseteq Docs
        BY <3>1
      <3> QED BY <3>1, <3>2, PlanIs, FS_Subset
    <2>2. Cardinality(ReadersOf(k)) = arena.reading[k]
      BY DEF Reading
    <2>3. CASE s > 0 /\ k = tree.parent[d]
      <3>1. ReadersOf(k)' = ReadersOf(k) \union {d}
        BY <2>3 DEF ReadersOf
      <3>2. Cardinality(ReadersOf(k) \union {d}) = Cardinality(ReadersOf(k)) + 1
        BY <2>1, FS_AddElement
      <3> QED BY <2>2, <2>3, <3>1, <3>2
    <2>4. CASE ~(s > 0 /\ k = tree.parent[d])
      <3>1. ReadersOf(k)' = ReadersOf(k)
        BY <2>4 DEF ReadersOf
      <3> QED BY <2>2, <2>4, <3>1
    <2> QED BY <2>3, <2>4
  <1> QED BY <1>1

\* A document that gets its pages reads its parent and is held for its own
\* borrowers.
LEMMA AdmitSucceeds ==
    ASSUME BaseInv, QueueInv, Loans, NEW d, AdmitNext(d),
           NEW out \in Reserve(arena, d, Length(d), Capacity(d), tree.parent[d], Borrowed(d)),
           out.ok, AdmitReserved(d, out.arena)
    PROVE  Loans'
  <1>1. /\ pc = "admit" /\ Running /\ Shapes /\ Members /\ d \in Docs
        /\ sched.stage[d] = Queued /\ d \notin Planned
        /\ Known(arena) /\ Lending /\ Reading /\ Unplaced /\ Owned
        /\ sched.settled = <<>> /\ sched.skipped = <<>>
    BY AdmitIs
  <1> DEFINE s == Borrowed(d)
             p == IF s = 0 THEN d ELSE tree.parent[d]
             A == out.arena
  <1>2. /\ Request(arena, d, Length(d), Capacity(d), p, s)
        /\ out \in Reserve(arena, d, Length(d), Capacity(d), p, s)
        /\ s \in Nat /\ (s > 0 => tree.parent[d] \in Docs)
    BY <1>1, AdmitRequest
  <1>3. plan' = plan /\ op' = op /\ pc' = pc /\ arena' = Reserved(A, d)
    BY DEF AdmitNext, AdmitReserved
  <1> HIDE DEF p, A
  <1>4. ArenaInv(arena) /\ d \in Keys /\ Docs \subseteq Keys
    BY <1>1, PlanIs DEF Known
  <1>5. /\ ArenaInv(A) /\ Gone(arena, A) /\ Served(arena, out, d, Length(d))
        /\ s > 0 => p \in Resident(A)
    <2> HIDE DEF s
    <2> QED BY <1>2, <1>4, ReserveKeeps DEF A
  <1>6. A.reading = arena.reading /\ A.held = arena.held /\ Seats(arena, A, d, Length(d))
    BY <1>5 DEF Served, A
  <1>7. s > 0 => tree.parent[d] \in Keys /\ tree.parent[d] \in Resident(A)
    <2>1. s > 0 => s # 0
      BY <1>2
    <2> QED BY <1>2, <1>4, <1>5, <2>1 DEF p
  <1>8. LentTo(A, arena', d, s, tree.parent[d])
    BY <1>1, <1>3, <1>5, <1>7, ReservedLends
  <1>9. /\ exec'.borrowers = exec.borrowers /\ exec'.lowest = exec.lowest
        /\ exec'.lenders = exec.lenders
        /\ exec'.reserved = IF s > 0 THEN exec.reserved \union {d} ELSE exec.reserved
    BY <1>1 DEF AdmitReserved, Shapes, IsExec
  <1>10. tree'.parent = tree.parent /\ tree'.shared = tree.shared
    BY <1>1 DEF AdmitReserved, Shapes, IsTree
  <1>11. /\ sched'.stage = [sched.stage EXCEPT ![d] = 1] /\ sched'.settled = sched.settled
         /\ sched'.skipped = sched.skipped
    BY <1>1 DEF AdmitReserved, Popped, Shapes, IsSched
  <1>12. Planned' = Planned \union {d}
    <2>1. \E g : g.doc = d /\ chunk'.groups = Append(chunk.groups, g)
      <3>1. chunk'.groups = Append(chunk.groups, Group(d, 1, 0, FirstTake(d).end, Packed(d) > 0))
        BY <1>1 DEF AdmitReserved, Launch, Shapes, IsChunk
      <3>2. Group(d, 1, 0, FirstTake(d).end, Packed(d) > 0).doc = d
        BY DEF Group
      <3> QED BY <3>1, <3>2
    <2>2. PICK g : g.doc = d /\ chunk'.groups = Append(chunk.groups, g)
      BY <2>1
    <2>3. chunk.groups \in Seq(GroupType \union {g})
      <3>1. chunk.groups \in Seq(GroupType) /\ GroupType \subseteq GroupType \union {g}
        BY <1>1 DEF Members, Types
      <3> QED BY <3>1, SeqIn
    <2>4. DocsOf(Append(chunk.groups, g)) = DocsOf(chunk.groups) \union {g.doc}
      BY <2>3, OnceIs
    <2> QED BY <2>2, <2>4 DEF Planned
  <1>13. /\ Docs' = Docs /\ Stages' = Stages /\ \A e : Length(e)' = Length(e)
    BY <1>3, Frozen
  <1> HIDE DEF s
  <1>14. Known(arena)'
    <2>1. ASSUME NEW k \in Kept(arena') PROVE k \in Resident(arena')
      <3>1. k \in Keys /\ (arena'.held[k] > 0 \/ arena'.reading[k] > 0)
        BY <2>1 DEF Kept
      <3>2. CASE k = d \/ (s > 0 /\ k = tree.parent[d])
        BY <3>2, <1>6, <1>7, <1>8 DEF LentTo, Seats
      <3>3. CASE ~(k = d \/ (s > 0 /\ k = tree.parent[d]))
        <4>1. arena'.held[k] = A.held[k] /\ arena'.reading[k] = A.reading[k]
          BY <3>1, <3>3, <1>8 DEF LentTo
        <4>2. arena.held[k] > 0 \/ arena.reading[k] > 0
          BY <3>1, <4>1, <1>6
        <4>3. k \in Resident(arena)
          BY <3>1, <4>2, <1>1 DEF Known, Kept
        <4>4. arena.held[k] \in Nat /\ arena.reading[k] \in Nat
          BY <3>1, <1>4, ArenaFields DEF ArenaInv
        <4>5. k \in Resident(A)
          BY <3>1, <4>2, <4>3, <4>4, <1>5, <1>6 DEF Gone
        <4> QED BY <4>5, <1>8 DEF LentTo
      <3> QED BY <3>2, <3>3
    <2>2. ASSUME NEW k \in Resident(arena') PROVE k \in Docs /\ arena'.base[k] = Length(k)
      <3>1. k \in Resident(A) /\ arena'.base[k] = A.base[k]
        BY <1>8 DEF LentTo
      <3>2. k # d => k \in Resident(arena) /\ A.base[k] = arena.base[k]
        BY <3>1, <1>6 DEF Seats
      <3> QED BY <3>1, <3>2, <1>1, <1>6 DEF Seats, Known
    <2> QED BY <2>1, <2>2, <1>8, <1>13 DEF Known, LentTo
  <1>15. Lending'
    <2>1. ASSUME NEW k \in Keys, arena'.held[k] > 0 PROVE k \in exec.lenders
      <3>1. CASE arena'.held[k] = A.held[k]
        BY <2>1, <3>1, <1>1, <1>6 DEF Lending
      <3>2. CASE arena'.held[k] # A.held[k]
        <4>1. k = d /\ exec.borrowers[d] > 0
          BY <2>1, <3>2, <1>8 DEF LentTo
        <4> QED BY <4>1, <1>1 DEF Lending
      <3> QED BY <3>1, <3>2
    <2> QED BY <2>1, <1>1, <1>9, <1>10, <1>13 DEF Lending
  <1>16. Reading'
    <2>1. Planned \subseteq Docs
      BY <1>1 DEF Members, Queues, InRun
    <2>2. \A k \in Keys : Cardinality(ReadersOf(k)') =
              IF s > 0 /\ k = tree.parent[d] THEN arena.reading[k] + 1 ELSE arena.reading[k]
      BY <1>1, <1>2, <1>9, <1>10, <2>1, ReadersGain
    <2>3. \A k \in Keys : arena'.reading[k] =
              IF s > 0 /\ k = tree.parent[d] THEN arena.reading[k] + 1 ELSE arena.reading[k]
      BY <1>6, <1>8 DEF LentTo
    <2>4. \A k \in Keys : arena'.reading[k] = Cardinality(ReadersOf(k)')
      BY <2>2, <2>3
    <2>5. exec'.reserved \subseteq Planned' /\ \A e \in exec'.reserved : tree'.parent[e] \in Docs'
      BY <1>1, <1>2, <1>9, <1>10, <1>12, <1>13 DEF Reading
    <2> QED BY <2>4, <2>5 DEF Reading
  <1>17. sched.stage \in [Docs -> Stages \union {Queued, Done}] /\ 1 \in Stages
         /\ Queued \notin Stages /\ Done \notin Stages
    BY <1>1, PlanIs DEF Members, Types
  <1>18. sched'.stage[d] = 1 /\ \A e \in Docs : e # d => sched'.stage[e] = sched.stage[e]
    BY <1>11, <1>17, <1>1
  <1>19. Unplaced'
    <2>1. ASSUME NEW e \in Docs, sched'.stage[e] = Queued, e \in Resident(arena')
          PROVE  tree.parent[e] = None /\ op # 1
      <3>1. e # d /\ sched.stage[e] = Queued
        BY <2>1, <1>17, <1>18
      <3>2. e \in Resident(arena)
        BY <2>1, <3>1, <1>6, <1>8 DEF LentTo, Seats
      <3> QED BY <3>1, <3>2, <1>1 DEF Unplaced
    <2> QED BY <2>1, <1>3, <1>10, <1>13 DEF Unplaced
  <1>20. Owned'
    <2>1. ASSUME NEW k \in Resident(arena')
          PROVE  \/ k \in arena'.retained \/ k \in arena'.deferred \/ sched'.stage[k] # Done
                 \/ k \in Range(sched'.settled) \/ k \in Range(sched'.skipped)
      <3>1. CASE k = d
        BY <3>1, <1>17, <1>18
      <3>2. CASE k # d
        <4>1. k \in Resident(arena) /\ k \in Docs
          BY <2>1, <3>2, <1>1, <1>6, <1>8 DEF LentTo, Seats, Known
        <4>2. \/ k \in arena.retained \/ k \in arena.deferred \/ sched.stage[k] # Done
              \/ k \in Range(sched.settled) \/ k \in Range(sched.skipped)
          BY <4>1, <1>1 DEF Owned
        <4>3. /\ k \in arena.retained => k \in arena'.retained
              /\ k \in arena.deferred => k \in arena'.deferred
          BY <2>1, <3>2, <1>6, <1>8 DEF LentTo, Seats
        <4>4. sched'.stage[k] = sched.stage[k]
          BY <3>2, <4>1, <1>18
        <4> QED BY <4>2, <4>3, <4>4, <1>11
      <3> QED BY <3>1, <3>2
    <2> QED BY <2>1 DEF Owned
  <1>21. sched'.settled \in Seq(Docs') /\ sched'.settled = <<>> /\ sched'.skipped = <<>>
    BY <1>1, <1>11, EmptyIs
  <1> QED BY <1>1, <1>3, <1>14, <1>15, <1>16, <1>19, <1>20, <1>21 DEF Loans, LoansInv

\* Either way the loans are as they should be.
LEMMA AdmitLoans ==
    ASSUME BaseInv, QueueInv, Loans, NEW d, AdmitNext(d)
    PROVE  Loans'
  <1>1. PICK out \in Reserve(arena, d, Length(d), Capacity(d), tree.parent[d], Borrowed(d)) :
           IF out.ok THEN AdmitReserved(d, out.arena)
           ELSE /\ arena' = out.arena
                /\ sched' = Popped
                /\ chunk' = HeldBack(d)
                /\ pc' = "close"
                /\ UNCHANGED <<tree, exec>>
    BY DEF AdmitNext
  <1>2. CASE out.ok
    BY <1>1, <1>2, AdmitSucceeds
  <1>3. CASE ~out.ok
    BY <1>1, <1>3, AdmitFails
  <1> QED BY <1>2, <1>3

-----------------------------------------------------------------------------
(* A pass is submitted: its groups let go.                                 *)
\* The arena after each of the groups let go.
LetsGoOf(f) ==
    f = [n \in 0 .. Len(chunk.groups) |->
            IF n = 0 THEN arena ELSE LetGo(f[n - 1], chunk.groups[n])]

\* The recursion over the groups is the function it says.
LEMMA LetGoAllIs ==
    ASSUME Len(chunk.groups) \in Nat
    PROVE  \E f : LetsGoOf(f) /\ LetGoAll = f[Len(chunk.groups)]
  <1> DEFINE N == Len(chunk.groups)
             Up(f, m) == f = [n \in 0 .. m |-> IF n = 0 THEN arena ELSE LetGo(f[n - 1], chunk.groups[n])]
             T == {m \in Nat : \E f : Up(f, m)}
  <1>1. 0 \in T
    <2>1. Up([n \in 0 .. 0 |-> arena], 0)
      OBVIOUS
    <2> HIDE DEF Up
    <2> QED BY <2>1
  <1>2. ASSUME NEW m \in Nat, m \in T PROVE m + 1 \in T
    <2>1. PICK f : Up(f, m)
      BY <1>2
    <2> DEFINE h == [n \in 0 .. m + 1 |-> IF n = m + 1 THEN LetGo(f[m], chunk.groups[m + 1]) ELSE f[n]]
    <2>2. ASSUME NEW n \in 0 .. m + 1
          PROVE  h[n] = IF n = 0 THEN arena ELSE LetGo(h[n - 1], chunk.groups[n])
      <3>1. CASE n = m + 1
        <4>1. n # 0 /\ n - 1 = m /\ n - 1 \in 0 .. m + 1 /\ n - 1 # m + 1
          BY <3>1
        <4>2. h[n - 1] = f[m] /\ h[n] = LetGo(f[m], chunk.groups[m + 1])
          BY <3>1, <4>1
        <4> HIDE DEF h
        <4> QED BY <3>1, <4>1, <4>2
      <3>2. CASE n # m + 1
        <4>1. n \in 0 .. m
          BY <3>2
        <4>2. h[n] = f[n]
          BY <3>2
        <4>3. f[n] = IF n = 0 THEN arena ELSE LetGo(f[n - 1], chunk.groups[n])
          BY <2>1, <4>1
        <4>4. n # 0 => h[n - 1] = f[n - 1]
          BY <4>1
        <4> HIDE DEF h
        <4> QED BY <4>2, <4>3, <4>4
      <3> QED BY <3>1, <3>2
    <2>3. h = [n \in 0 .. m + 1 |-> h[n]]
      OBVIOUS
    <2> HIDE DEF h
    <2>4. h = [n \in 0 .. m + 1 |-> IF n = 0 THEN arena ELSE LetGo(h[n - 1], chunk.groups[n])]
      BY <2>2, <2>3
    <2>5. Up(h, m + 1)
      BY <2>4
    <2> HIDE DEF Up
    <2> QED BY <2>5
  <1> HIDE DEF T
  <1>3. Nat \subseteq T
    BY <1>1, <1>2, UpTo
  <1>4. \E f : LetsGoOf(f)
    <2>1. N \in T
      BY <1>3
    <2> QED BY <2>1 DEF T, LetsGoOf
  <1> DEFINE after == CHOOSE f : LetsGoOf(f)
  <1>5. LetsGoOf(after)
    BY <1>4
  <1>6. LetGoAll = after[Len(chunk.groups)]
    BY DEF LetGoAll, LetsGoOf
  <1> HIDE DEF after
  <1> QED BY <1>5, <1>6

\* The readers of k among the documents that have not let go of it yet.
Still(k, n) ==
    {d \in exec.reserved : tree.parent[d] = k /\ \A i \in 1 .. n : chunk.groups[i].doc # d}

\* The arena once n groups let go.
GoneSoFar(A, n) ==
    Yields(arena, A) /\ \A k \in Keys : A.reading[k] = Cardinality(Still(k, n))

\* What a group lets go: one hold on its parent, when its own rows are packed.
Unholds(A, B, g) ==
    \A k \in Docs : B.held[k] =
        IF g.carried /\ g.start = 0 /\ k = tree.parent[g.doc]
        THEN IF A.held[k] > 0 THEN A.held[k] - 1 ELSE 0
        ELSE A.held[k]

\* One more group lets go.
LEMMA LetGoKeeps ==
    ASSUME BaseInv, Members, Lending, Reading, ArenaInv(arena), NEW n \in Nat, n < Len(chunk.groups),
           NEW A, GoneSoFar(A, n)
    PROVE  /\ GoneSoFar(LetGo(A, chunk.groups[n + 1]), n + 1)
           /\ Unholds(A, LetGo(A, chunk.groups[n + 1]), chunk.groups[n + 1])
  <1> DEFINE g == chunk.groups[n + 1]
             p == tree.parent[g.doc]
             R == IF g.carried /\ g.start = 0 /\ p # None THEN Release(A, p) ELSE A
             B == LetGo(A, g)
  <1>1. g \in GroupType /\ g.doc \in Docs /\ Docs \subseteq Keys
    <2>1. chunk.groups \in Seq(GroupType)
      BY DEF Members, Types
    <2>2. Len(chunk.groups) \in Nat /\ n + 1 \in 1 .. Len(chunk.groups)
      BY <2>1
    <2>3. g \in GroupType
      BY <2>1, <2>2
    <2> QED BY <2>3, PlanIs DEF GroupType
  <1>2. \A i \in 1 .. n : chunk.groups[i].doc # g.doc
    <2>1. chunk.groups \in Seq(GroupType) /\ Once(chunk.groups)
      BY DEF Members, Types, Lists
    <2>2. DOMAIN chunk.groups = 1 .. Len(chunk.groups) /\ Len(chunk.groups) \in Nat
      BY <2>1
    <2>3. n + 1 \in 1 .. Len(chunk.groups)
      BY <2>2
    <2>4. ASSUME NEW i \in 1 .. n PROVE i \in 1 .. Len(chunk.groups) /\ i # n + 1
      BY <2>2
    <2> QED BY <2>1, <2>2, <2>3, <2>4 DEF Once
  <1>3. p \in Docs \union {None}
    BY <1>1 DEF Lending
  <1>4. ArenaInv(A) /\ Yields(arena, A)
    BY DEF GoneSoFar, Yields
  <1> HIDE DEF g, p
  <1>5. Yields(arena, R) /\ R.reading = A.reading /\ Unholds(A, R, g)
    <2>1. None \notin Docs
      BY PlanIs DEF None, Queued
    <2>2. CASE ~(g.carried /\ g.start = 0 /\ p # None)
      <3>1. R = A
        BY <2>2
      <3>2. Unholds(A, A, g)
        BY <2>1, <2>2 DEF Unholds, p
      <3> QED BY <3>1, <3>2, <1>4
    <2>3. CASE g.carried /\ g.start = 0 /\ p # None
      <3>1. p \in Keys /\ R = Release(A, p)
        BY <1>1, <1>3, <2>3
      <3>2. ArenaInv(R) /\ Lets(A, R) /\ Released(A, R, p)
        BY <1>4, <3>1, ReleaseKeeps, ReleaseSheds
      <3>3. Yields(A, R) /\ R.reading = A.reading
        BY <3>2 DEF Released, Yields
      <3>4. Unholds(A, R, g)
        <4>1. \A k \in Keys : R.held[k] =
                 IF k = p THEN IF A.held[k] > 0 THEN A.held[k] - 1 ELSE 0 ELSE A.held[k]
          BY <3>2 DEF Released
        <4> QED BY <1>1, <2>3, <4>1 DEF Unholds, p
      <3> QED BY <1>4, <3>3, <3>4, YieldsBoth
    <2> QED BY <2>2, <2>3
  <1>6. B = IF g.doc \in exec.reserved THEN DoneReading(R, p) ELSE R
    BY DEF LetGo, p
  <1> HIDE DEF R, B
  <1>7. ASSUME NEW k PROVE Still(k, n + 1) = Still(k, n) \ {g.doc} /\ IsFiniteSet(Still(k, n))
    <2>1. Still(k, n + 1) = Still(k, n) \ {g.doc}
      <3>1. \A i : i \in 1 .. n + 1 <=> i \in 1 .. n \/ i = n + 1
        OBVIOUS
      <3> QED BY <3>1 DEF Still, g
    <2>2. IsFiniteSet(Still(k, n))
      <3>1. Still(k, n) \subseteq Docs
        BY DEF Still, Reading, Members, Queues, InRun
      <3> QED BY <3>1, PlanIs, FS_Subset
    <2> QED BY <2>1, <2>2
  <1>8. CASE g.doc \notin exec.reserved
    <2>1. ASSUME NEW k PROVE Still(k, n + 1) = Still(k, n)
      <3>1. g.doc \notin Still(k, n)
        BY <1>8 DEF Still
      <3>2. Still(k, n + 1) = Still(k, n) \ {g.doc}
        BY <1>7
      <3> QED BY <3>1, <3>2
    <2>2. B = R
      BY <1>6, <1>8
    <2>3. \A k \in Keys : B.reading[k] = Cardinality(Still(k, n + 1))
      BY <1>5, <2>1, <2>2 DEF GoneSoFar
    <2>4. Unholds(A, B, g)
      BY <1>5, <2>2
    <2> QED BY <1>5, <2>2, <2>3, <2>4 DEF GoneSoFar, B, g
  <1>9. CASE g.doc \in exec.reserved
    <2>1. p \in Keys
      BY <1>1, <1>9 DEF Reading, p
    <2>2. g.doc \in Still(p, n) /\ \A k : k # p => g.doc \notin Still(k, n)
      BY <1>2, <1>9 DEF Still, p
    <2>3. /\ Cardinality(Still(p, n)) \in Nat
          /\ Cardinality(Still(p, n + 1)) = Cardinality(Still(p, n)) - 1
          /\ Cardinality(Still(p, n)) > 0
      <3>1. IsFiniteSet(Still(p, n)) /\ Still(p, n + 1) = Still(p, n) \ {g.doc}
        BY <1>7
      <3>2. Cardinality(Still(p, n)) \in Nat /\ Cardinality(Still(p, n + 1)) \in Nat
        BY <3>1, FS_CardinalityType, FS_Subset
      <3>3. Cardinality(Still(p, n) \ {g.doc}) = Cardinality(Still(p, n)) - 1
        <4> DEFINE T == Still(p, n)
        <4>1. IsFiniteSet(T) /\ g.doc \in T
          BY <2>2, <3>1
        <4> HIDE DEF T
        <4>2. Cardinality(T \ {g.doc}) = Cardinality(T) - 1
          BY <4>1, FS_RemoveElement
        <4> QED BY <4>2 DEF T
      <3>4. Cardinality(Still(p, n)) # 0
        BY <2>2, <3>1, FS_EmptySet
      <3>5. Cardinality(Still(p, n + 1)) = Cardinality(Still(p, n)) - 1
        BY <3>1, <3>3
      <3> HIDE DEF Still
      <3>6. \A a, b \in Nat : a # 0 /\ b = a - 1 => a > 0
        OBVIOUS
      <3> QED BY <3>2, <3>4, <3>5, <3>6
    <2>4. R.reading[p] = Cardinality(Still(p, n)) /\ R.reading[p] > 0
      BY <1>5, <2>1, <2>3 DEF GoneSoFar
    <2>5. ArenaInv(R)
      BY <1>5 DEF Yields
    <2>6. ArenaInv(B) /\ Lets(R, B) /\ ReadDone(R, B, p)
      BY <1>6, <1>9, <2>1, <2>4, <2>5, DoneReadingKeeps, DoneReadingSheds
    <2>7. Yields(arena, B)
      BY <1>4, <1>5, <2>6, YieldsBoth DEF ReadDone, Yields, GoneSoFar
    <2>8. R.reading \in [Keys -> Nat]
      BY <2>5, ArenaFields DEF ArenaInv
    <2>9. ASSUME NEW k \in Keys PROVE B.reading[k] = Cardinality(Still(k, n + 1))
      <3>1. CASE k = p
        BY <3>1, <2>1, <2>3, <2>4, <2>6, <2>8 DEF ReadDone
      <3>2. CASE k # p
        <4>1. B.reading[k] = R.reading[k]
          BY <3>2, <2>1, <2>6, <2>8 DEF ReadDone
        <4>2. Still(k, n + 1) = Still(k, n)
          BY <3>2, <2>2, <1>7
        <4> QED BY <4>1, <4>2, <1>5 DEF GoneSoFar
      <3> QED BY <3>1, <3>2
    <2>10. Unholds(A, B, g)
      <3>1. B.held = R.held
        BY <2>6 DEF ReadDone
      <3> QED BY <1>5, <3>1 DEF Unholds
    <2> QED BY <2>7, <2>9, <2>10 DEF GoneSoFar, B, g
  <1> QED BY <1>8, <1>9

\* All of them let go, and nobody reads any more.
LEMMA LetGoAllKeeps ==
    ASSUME BaseInv, Members, Lending, Reading, ArenaInv(arena)
    PROVE  Yields(arena, LetGoAll) /\ \A k \in Keys : LetGoAll.reading[k] = 0
  <1> DEFINE N == Len(chunk.groups)
  <1>1. N \in Nat /\ DOMAIN chunk.groups = 1 .. N
    <2>1. chunk.groups \in Seq(GroupType)
      BY DEF Members, Types
    <2>2. N \in Nat /\ DOMAIN chunk.groups = 1 .. N
      BY <2>1
    <2> QED BY <2>2
  <1>2. PICK f : LetsGoOf(f) /\ LetGoAll = f[N]
    BY <1>1, LetGoAllIs
  <1> HIDE DEF N
  <1> DEFINE T == {n \in Nat : n <= N => GoneSoFar(f[n], n)}
  <1>3. f[0] = arena /\ \A n \in Nat : n < N => f[n + 1] = LetGo(f[n], chunk.groups[n + 1])
    BY <1>1, <1>2 DEF LetsGoOf, N
  <1>4. 0 \in T
    <2>1. \A k : Still(k, 0) = ReadersOf(k)
      BY DEF Still, ReadersOf
    <2>2. Yields(arena, arena)
      BY YieldsNothing
    <2>3. GoneSoFar(arena, 0)
      BY <2>1, <2>2 DEF GoneSoFar, Reading
    <2> QED BY <1>3, <2>3
  <1>5. ASSUME NEW n \in Nat, n \in T PROVE n + 1 \in T
    <2> SUFFICES ASSUME n + 1 <= N PROVE GoneSoFar(f[n + 1], n + 1)
      OBVIOUS
    <2>1. n < N /\ n <= N
      BY <1>1
    <2>2. GoneSoFar(f[n], n)
      BY <1>5, <2>1
    <2>3. GoneSoFar(LetGo(f[n], chunk.groups[n + 1]), n + 1)
      BY <2>1, <2>2, LetGoKeeps DEF N
    <2> QED BY <1>3, <2>1, <2>3
  <1> HIDE DEF T
  <1>6. N \in T
    BY <1>1, <1>4, <1>5, UpTo
  <1>7. GoneSoFar(LetGoAll, N)
    BY <1>1, <1>2, <1>6 DEF T
  <1>8. ASSUME NEW k PROVE Still(k, N) = {}
    <2>1. ASSUME NEW d \in exec.reserved PROVE \E i \in 1 .. N : chunk.groups[i].doc = d
      BY <1>1 DEF Reading, Planned, DocsOf
    <2> QED BY <2>1 DEF Still
  <1>9. Cardinality({}) = 0
    BY FS_EmptySet
  <1> QED BY <1>7, <1>8, <1>9 DEF GoneSoFar

\* A submitted pass reads nothing any more.
LEMMA SubmitLoans ==
    ASSUME BaseInv, QueueInv, Loans, Submit
    PROVE  Loans'
  <1>1. pc = "submit" /\ Running /\ Running' /\ Members /\ Shapes /\ pc' = "top"
    BY DEF Submit, Running, QueueInv
  <1>2. Known(arena) /\ ArenaInv(arena) /\ Lending /\ Reading /\ Unplaced /\ Owned
        /\ sched.settled = <<>> /\ sched.skipped = <<>> /\ sched.settled \in Seq(Docs)
    BY <1>1 DEF Loans, Known, LoansInv
  <1>3. Yields(arena, arena') /\ \A k \in Keys : arena'.reading[k] = 0
    BY <1>1, <1>2, LetGoAllKeeps DEF Submit
  <1>4. plan' = plan /\ op' = op /\ tree' = tree /\ sched' = sched
    BY DEF Submit
  <1>5. exec'.lowest = exec.lowest /\ exec'.lenders = exec.lenders /\ exec'.borrowers = exec.borrowers
        /\ exec'.reserved = exec.reserved \ Planned
    <2>1. {g.doc : g \in Range(chunk.groups)} = Planned
      BY DEF Planned, DocsOf, Range
    <2> QED BY <1>1, <2>1 DEF Submit, Shapes, IsExec
  <1>6. Heirs
    <2>1. exec.borrowers \in [Docs -> Int] /\ \A d \in Docs : exec.borrowers[d] <= exec.borrowers[d]
      BY <1>2 DEF Lending
    <2> QED BY <1>4, <1>5, <2>1 DEF Heirs
  <1>7. Passed
    BY <1>4 DEF Passed, Settling
  <1>8. Known(arena)' /\ Lending' /\ Unplaced' /\ Owned'
    BY <1>2, <1>3, <1>4, <1>6, <1>7, LoansPass
  <1>9. Reading'
    <2>1. exec'.reserved = {}
      BY <1>2, <1>5 DEF Reading
    <2>2. \A k : ReadersOf(k)' = {}
      BY <2>1 DEF ReadersOf
    <2>3. Cardinality({}) = 0 /\ Keys' = Keys
      BY FS_EmptySet
    <2> QED BY <1>3, <2>1, <2>2, <2>3 DEF Reading
  <1>10. Docs' = Docs
    BY <1>4, Frozen
  <1> QED BY <1>1, <1>2, <1>4, <1>8, <1>9, <1>10 DEF Loans, LoansInv

-----------------------------------------------------------------------------
(* A stage was answered, or decided, and settled documents go.             *)
\* Whoever is not d is settling as before, or is skipped by the step.
OnlyLeaves(d) ==
    \A e \in Docs : /\ sched'.stage[e] = Queued => sched.stage[e] = Queued
                    /\ e # d /\ Settling(sched, e) => Settling(sched', e)

\* Only queued documents are skipped.
SkipsQueued ==
    \/ sched'.skipped = sched.skipped
    \/ \E rest \in SUBSET Docs : /\ \A e \in rest : sched.stage[e] = Queued
                                 /\ sched'.skipped = sched.skipped \o Ascending(rest)

\* No move settles a document ahead of a chunk, or prices it anew.
LEMMA MovedSettles ==
    ASSUME NEW S, IsSched(S), NEW d, NEW to, Moved(S, d, to)
    PROVE  sched'.settled = S.settled /\ sched'.carried = S.carried /\ sched'.cost = S.cost
  <1> DEFINE M == [S EXCEPT !.stage[d] = to.stage, !.next[d] = 0, !.received[d] = 0,
                            !.waiting = IF to.waits THEN Append(@, d) ELSE @,
                            !.won = IF to.survived THEN @ \union {d} ELSE @]
             N == [M EXCEPT !.ready = Sifted(@, Range(@) \ {d})]
  <1>1. IsSched(M) /\ M.settled = S.settled /\ M.carried = S.carried /\ M.cost = S.cost
    BY DEF IsSched
  <1>2. to.stage # Done => sched' = M
    BY DEF Moved
  <1>3. to.stage = Done => sched' = SettleGroup(N, d, to.survived)
    BY DEF Moved
  <1> HIDE DEF M
  <1>4. IsSched(N) /\ N.settled = M.settled /\ N.carried = M.carried /\ N.cost = M.cost
    BY <1>1 DEF IsSched
  <1> HIDE DEF N
  <1>5. /\ SettleGroup(N, d, to.survived).settled = N.settled
        /\ SettleGroup(N, d, to.survived).carried = N.carried
        /\ SettleGroup(N, d, to.survived).cost = N.cost
    <2> DEFINE g == GroupOf[d]
               less == [N EXCEPT !.busy[g] = Bigger(0, @ - 1)]
               rest == {e \in Range(N.pending) : N.stage[e] = Queued /\ GroupOf[e] = g}
               T == [less EXCEPT !.ended = @ \union {g},
                          !.skipped = @ \o Ascending(rest),
                          !.stage = [e \in Docs |-> IF e \in rest THEN Done ELSE @[e]],
                          !.zero = @ - Cardinality({e \in rest : N.cost[e] = 0})]
    <2>1. SettleGroup(N, d, to.survived) = IF GroupOf = <<>> THEN N
                                           ELSE IF ~to.survived \/ g \in N.ended THEN less ELSE T
      BY DEF SettleGroup
    <2>2. IsSched(less) /\ less.settled = N.settled /\ less.carried = N.carried
          /\ less.cost = N.cost
      BY <1>4 DEF IsSched
    <2> HIDE DEF less
    <2>3. T.settled = less.settled /\ T.carried = less.carried /\ T.cost = less.cost
      BY <2>2 DEF IsSched
    <2> HIDE DEF T, g
    <2> QED BY <2>1, <2>2, <2>3
  <1> QED BY <1>1, <1>2, <1>3, <1>4, <1>5

\* A document that moves on.
LEMMA MovedOnSettles ==
    ASSUME BaseInv, Members, NEW S, IsSched(S), S.stage = sched.stage, S.skipped = sched.skipped,
           S.settled = sched.settled, NEW d \in Docs,
           NEW k \in Stages, NEW w, Moved(S, d, At(k, w))
    PROVE  OnlyLeaves(d) /\ sched'.stage[d] = k /\ sched'.skipped = sched.skipped /\ arena' = arena
  <1>1. k # Done /\ k # Queued
    BY PlanIs
  <1>2. MovedTo(S, sched', d, k, w, FALSE)
    BY <1>1, MovedOn
  <1>3. sched'.stage = [sched.stage EXCEPT ![d] = k] /\ sched'.skipped = sched.skipped
    BY <1>2 DEF MovedTo
  <1>4. sched'.settled = sched.settled
    BY MovedSettles
  <1>5. sched'.stage[d] = k /\ \A e \in Docs : e # d => sched'.stage[e] = sched.stage[e]
    BY <1>3, PutIs DEF Members, Types
  <1>6. arena' = arena
    <2> DEFINE to == At(k, w)
    <2>1. to.stage = k
      BY DEF At
    <2> HIDE DEF to
    <2>2. Moved(S, d, to)
      BY DEF to
    <2> QED BY <1>1, <2>1, <2>2 DEF Moved
  <1>7. ASSUME NEW e \in Docs
        PROVE  /\ sched'.stage[e] = Queued => sched.stage[e] = Queued
               /\ e # d /\ Settling(sched, e) => Settling(sched', e)
    BY <1>1, <1>3, <1>4, <1>5 DEF Settling
  <1> QED BY <1>3, <1>5, <1>6, <1>7 DEF OnlyLeaves

\* A document that leaves, with the rest of its group.
LEMMA MovedOutSettles ==
    ASSUME BaseInv, Members, NEW S, IsSched(S), S.stage = sched.stage, S.skipped = sched.skipped,
           S.settled = sched.settled, S.pending = sched.pending, NEW d \in Docs,
           NEW b \in BOOLEAN, Moved(S, d, Out(b))
    PROVE  OnlyLeaves(d) /\ SkipsQueued /\ arena' \in Settle(d, b)
  <1>1. Leaves(S, d, b)
    BY MovedOut
  <1>2. PICK M, N :
           MovedTo(S, M, d, Done, FALSE, b) /\ Sieved(M, N, d) /\ GroupSettled(N, sched', d, b)
    BY <1>1 DEF Leaves
  <1>3. N.stage = [sched.stage EXCEPT ![d] = Done] /\ N.skipped = sched.skipped
        /\ N.pending = sched.pending
    BY <1>2 DEF MovedTo, Sieved
  <1>4. sched'.settled = sched.settled
    BY MovedSettles
  <1>5. N.stage[d] = Done /\ \A e \in Docs : e # d => N.stage[e] = sched.stage[e]
    BY <1>3, PutIs DEF Members, Types
  <1> DEFINE rest == RestOf(N, d)
  <1>6. \/ sched'.stage = N.stage /\ sched'.skipped = N.skipped
        \/ /\ sched'.stage = [e \in Docs |-> IF e \in rest THEN Done ELSE N.stage[e]]
           /\ sched'.skipped = N.skipped \o Ascending(rest)
    BY <1>2 DEF GroupSettled
  <1>7. rest \subseteq Docs
    BY <1>3, RangeIn DEF RestOf, Members, Types
  <1>8. Queued # Done
    BY PlanIs
  <1> HIDE DEF rest
  <1>9. ASSUME NEW e \in Docs
        PROVE  /\ sched'.stage[e] = Queued => sched.stage[e] = Queued
               /\ e # d /\ Settling(sched, e) => Settling(sched', e)
    <2>1. CASE sched'.stage = N.stage /\ sched'.skipped = N.skipped
      BY <2>1, <1>3, <1>4, <1>5, <1>8 DEF Settling
    <2>2. CASE /\ sched'.stage = [x \in Docs |-> IF x \in rest THEN Done ELSE N.stage[x]]
               /\ sched'.skipped = N.skipped \o Ascending(rest)
      <3>1. /\ Ascending(rest) \in Seq(Docs) /\ Range(Ascending(rest)) = rest
        <4>1. rest \subseteq Int /\ IsFiniteSet(rest)
          BY <1>7, PlanIs, FS_Subset
        <4> QED BY <4>1, <1>7, AscendingOf, SeqIn
      <3>2. Range(sched'.skipped) = Range(sched.skipped) \union rest
        BY <3>1, <2>2, <1>3, ConcatIs DEF Members, Types
      <3>3. sched'.stage[e] = IF e \in rest THEN Done ELSE N.stage[e]
        BY <2>2
      <3> QED BY <3>2, <3>3, <1>4, <1>5, <1>8 DEF Settling
    <2> QED BY <1>6, <2>1, <2>2
  <1>10. arena' \in Settle(d, b)
    <2> DEFINE to == Out(b)
    <2>1. to.stage = Done /\ to.survived = b
      BY DEF Out
    <2> HIDE DEF to
    <2>2. Moved(S, d, to)
      BY DEF to
    <2> QED BY <2>1, <2>2 DEF Moved
  <1>11. SkipsQueued
    <2>1. \A e \in rest : sched.stage[e] = Queued
      BY <1>5, <1>7, <1>8 DEF RestOf, rest
    <2> QED BY <2>1, <1>3, <1>6, <1>7 DEF SkipsQueued
  <1> QED BY <1>9, <1>10, <1>11 DEF OnlyLeaves

\* Settling a document only yields, and leaves it evictable or its pages owed.
LEMMA SettleYields ==
    ASSUME Known(arena), NEW d \in Docs, NEW b, NEW A \in Settle(d, b)
    PROVE  /\ Yields(arena, A) /\ A.reading = arena.reading
           /\ d \in Resident(A) => d \in A.retained \/ d \in A.deferred
  <1>1. ArenaInv(arena)
    BY DEF Known
  <1>2. CASE d \notin Resident(arena)
    <2>1. A = arena
      BY <1>2 DEF Settle
    <2> QED BY <1>1, <1>2, <2>1, YieldsNothing
  <1>3. CASE d \in Resident(arena)
    <2>1. arena.base[d] = Length(d)
      BY <1>3 DEF Known
    <2>2. CASE A \in Retain(arena, d, Length(d))
      <3>1. ArenaInv(A) /\ Lets(arena, A) /\ Parks(arena, A, d)
        BY <1>1, <1>3, <2>1, <2>2, RetainKeeps
      <3> QED BY <3>1 DEF Parks, Yields
    <2>3. CASE A = FreeKey(arena, d)
      <3>1. {d} \in SUBSET Resident(arena) /\ A = FreeAll(arena, {d})
        BY <1>3, <2>3 DEF FreeKey
      <3>2. /\ Yields(arena, A) /\ A.reading = arena.reading
            /\ \A k \in {d} : k \in Resident(A) => k \in A.deferred
        BY <1>1, <3>1, YieldsFree
      <3> QED BY <3>2
    <2> QED BY <1>3, <2>2, <2>3 DEF Settle
  <1> QED BY <1>2, <1>3

\* A move keeps the loans.
LEMMA MovedLoans ==
    ASSUME BaseInv, QueueInv, Loans, pc = "report", pc' = pc, Kin, Planned' = Planned,
           NEW S, IsSched(S), S.stage = sched.stage, S.skipped = sched.skipped,
           S.settled = sched.settled, S.pending = sched.pending, NEW d \in Docs,
           NEW to, Moved(S, d, to),
           \/ \E k \in Stages, w \in BOOLEAN : to = At(k, w)
           \/ \E b \in BOOLEAN : to = Out(b)
    PROVE  Loans'
  <1>1. Running /\ Members
    BY DEF QueueInv, Running
  <1>2. Known(arena) /\ ArenaInv(arena) /\ Lending /\ Reading /\ Unplaced /\ Owned
        /\ sched.settled = <<>>
    BY <1>1 DEF Loans, Known, LoansInv
  <1>3. sched'.settled = <<>> /\ <<>> \in Seq(Docs')
    BY <1>2, MovedSettles, EmptyIs
  <1>4. /\ OnlyLeaves(d) /\ Yields(arena, arena') /\ arena'.reading = arena.reading
        /\ d \in Resident(arena') /\ Settling(sched, d) =>
              d \in arena'.retained \/ d \in arena'.deferred \/ Settling(sched', d)
    <2>1. CASE \E k \in Stages, w \in BOOLEAN : to = At(k, w)
      <3>1. PICK k \in Stages, w \in BOOLEAN : to = At(k, w)
        BY <2>1
      <3>2. Moved(S, d, At(k, w))
        BY <3>1
      <3>3. OnlyLeaves(d) /\ sched'.stage[d] = k /\ arena' = arena
        BY <1>1, <3>2, MovedOnSettles
      <3>4. k # Done
        BY PlanIs
      <3> QED BY <1>2, <3>3, <3>4, YieldsNothing DEF Settling
    <2>2. CASE \E b \in BOOLEAN : to = Out(b)
      <3>1. PICK b \in BOOLEAN : to = Out(b)
        BY <2>2
      <3>2. Moved(S, d, Out(b))
        BY <3>1
      <3>3. OnlyLeaves(d) /\ arena' \in Settle(d, b)
        BY <1>1, <3>2, MovedOutSettles
      <3> QED BY <1>2, <3>3, SettleYields
    <2> QED BY <2>1, <2>2
  <1>5. Passed
    <2>1. ASSUME NEW k \in Resident(arena'), Settling(sched, k)
          PROVE  k \in arena'.retained \/ k \in arena'.deferred \/ Settling(sched', k)
      <3>1. k \in Docs
        BY <1>2, <1>4 DEF Known, Yields, Sheds
      <3> QED BY <3>1, <2>1, <1>4 DEF OnlyLeaves
    <2> QED BY <2>1 DEF Passed
  <1>6. \A e \in Docs : sched'.stage[e] = Queued => sched.stage[e] = Queued
    BY <1>4 DEF OnlyLeaves
  <1>7. Known(arena)' /\ Lending' /\ Reading' /\ Unplaced' /\ Owned'
    BY <1>2, <1>4, <1>5, <1>6, LoansKeep
  <1> QED BY <1>3, <1>7 DEF Loans, LoansInv

\* The three actions that move a document.
LEMMA ReportAdvanceLoans ==
    ASSUME BaseInv, QueueInv, Loans, ReportAdvance
    PROVE  Loans'
  <1> DEFINE d == Reported.doc
             S == [Received EXCEPT !.ready = Append(@, d)]
  <1>1. /\ Reporting /\ pc = "report" /\ GroupReported /\ Reported.stage < LastStage
        /\ plan' = plan /\ op' = op /\ chunk' = chunk /\ tree' = tree /\ pc' = pc
    BY DEF ReportAdvance, Reporting
  <1>2. PICK to \in Enter(d, Reported.stage + 1, FALSE) : Moved(S, d, to)
    BY DEF ReportAdvance
  <1>3. d \in Docs /\ Reported.stage \in Stages
    BY <1>1, AnsweredIs
  <1>4. Reported.stage + 1 \in Stages
    BY <1>1, <1>3, PlanIs
  <1>5. \/ \E k \in Stages, w \in BOOLEAN : to = At(k, w)
        \/ \E b \in BOOLEAN : to = Out(b)
    BY <1>2, <1>3, <1>4, EnterIs
  <1>6. /\ IsSched(S) /\ S.stage = sched.stage /\ S.skipped = sched.skipped
        /\ S.pending = sched.pending /\ S.settled = sched.settled
    <2>1. IsSched(sched)
      BY <1>1, ReportedIs DEF Shapes
    <2>2. /\ IsSched(Received) /\ Received.stage = sched.stage /\ Received.skipped = sched.skipped
          /\ Received.pending = sched.pending /\ Received.settled = sched.settled
      BY <2>1 DEF Received, IsSched
    <2> QED BY <2>2 DEF IsSched
  <1>7. Kin /\ Planned' = Planned
    <2>1. IsExec(exec)
      BY <1>1, ReportedIs DEF Shapes
    <2> QED BY <1>1, <2>1 DEF Kin, GroupReported, IsExec, Planned
  <1> HIDE DEF S, d
  <1> QED BY <1>1, <1>2, <1>3, <1>5, <1>6, <1>7, MovedLoans

LEMMA ReportSettleLoans ==
    ASSUME BaseInv, QueueInv, Loans, ReportSettle
    PROVE  Loans'
  <1> DEFINE d == Reported.doc
             S == Received
  <1>1. /\ Reporting /\ pc = "report" /\ GroupReported
        /\ plan' = plan /\ op' = op /\ chunk' = chunk /\ tree' = tree /\ pc' = pc
    BY DEF ReportSettle, Reporting
  <1>2. \E b \in BOOLEAN : Moved(S, d, Out(b))
    BY DEF ReportSettle
  <1>3. d \in Docs
    BY <1>1, AnsweredIs
  <1>4. /\ IsSched(S) /\ S.stage = sched.stage /\ S.skipped = sched.skipped
        /\ S.pending = sched.pending /\ S.settled = sched.settled
    <2>1. IsSched(sched)
      BY <1>1, ReportedIs DEF Shapes
    <2> QED BY <2>1 DEF Received, IsSched
  <1>5. Kin /\ Planned' = Planned
    <2>1. IsExec(exec)
      BY <1>1, ReportedIs DEF Shapes
    <2> QED BY <1>1, <2>1 DEF Kin, GroupReported, IsExec, Planned
  <1> HIDE DEF S, d
  <1>6. PICK to : Moved(S, d, to) /\ \E b \in BOOLEAN : to = Out(b)
    BY <1>2
  <1> QED BY <1>1, <1>3, <1>4, <1>5, <1>6, MovedLoans

LEMMA DecideWaitingLoans ==
    ASSUME BaseInv, QueueInv, Loans, DecideWaiting
    PROVE  Loans'
  <1> DEFINE d == Head(sched.waiting)
             S == [sched EXCEPT !.waiting = Tail(@)]
  <1>1. /\ pc = "report" /\ sched.waiting # <<>> /\ exec' = exec
        /\ plan' = plan /\ op' = op /\ chunk' = chunk /\ tree' = tree /\ pc' = pc
    BY DEF DecideWaiting
  <1>2. PICK to \in Enter(d, sched.stage[d], TRUE) : Moved(S, d, to)
    BY DEF DecideWaiting
  <1>3. Running /\ Shapes /\ Members
    BY <1>1 DEF QueueInv, Running
  <1>4. d \in Docs /\ sched.stage[d] \in Stages
    <2>1. sched.waiting \in Seq(Docs) /\ NoRepeats(sched.waiting)
      BY <1>3 DEF Members, Types, Lists
    <2>2. d \in Docs /\ d \in Range(sched.waiting)
      BY <1>1, <2>1, TailIs
    <2>3. d \in InRun
      BY <1>3, <2>2 DEF Members, Queues, Streams, ReadySet
    <2> HIDE DEF d
    <2>4. sched.stage[d] \in Stages
      BY <2>3 DEF InRun
    <2> QED BY <2>2, <2>4
  <1>5. \/ \E k \in Stages, w \in BOOLEAN : to = At(k, w)
        \/ \E b \in BOOLEAN : to = Out(b)
    BY <1>2, <1>4, EnterIs
  <1>6. /\ IsSched(S) /\ S.stage = sched.stage /\ S.skipped = sched.skipped
        /\ S.pending = sched.pending /\ S.settled = sched.settled
    BY <1>3 DEF Shapes, IsSched
  <1>7. Kin /\ Planned' = Planned
    BY <1>1 DEF Kin, Planned
  <1> HIDE DEF S, d
  <1> QED BY <1>1, <1>2, <1>4, <1>5, <1>6, <1>7, MovedLoans

\* The arena after each of the documents is skipped.
SkipsOf(f) ==
    f = [n \in 0 .. Len(sched.skipped) |->
            IF n = 0 THEN arena ELSE SkipOne(f[n - 1], sched.skipped[n])]

\* The recursion over the skipped documents is the function it says.
LEMMA SkipAllIs ==
    ASSUME Len(sched.skipped) \in Nat
    PROVE  \E f : SkipsOf(f) /\ SkipAll = f[Len(sched.skipped)]
  <1> DEFINE N == Len(sched.skipped)
             Up(f, m) == f = [n \in 0 .. m |-> IF n = 0 THEN arena ELSE SkipOne(f[n - 1], sched.skipped[n])]
             T == {m \in Nat : \E f : Up(f, m)}
  <1>1. 0 \in T
    <2>1. Up([n \in 0 .. 0 |-> arena], 0)
      OBVIOUS
    <2> HIDE DEF Up
    <2> QED BY <2>1
  <1>2. ASSUME NEW m \in Nat, m \in T PROVE m + 1 \in T
    <2>1. PICK f : Up(f, m)
      BY <1>2
    <2> DEFINE h == [n \in 0 .. m + 1 |-> IF n = m + 1 THEN SkipOne(f[m], sched.skipped[m + 1]) ELSE f[n]]
    <2>2. ASSUME NEW n \in 0 .. m + 1
          PROVE  h[n] = IF n = 0 THEN arena ELSE SkipOne(h[n - 1], sched.skipped[n])
      <3>1. CASE n = m + 1
        <4>1. n # 0 /\ n - 1 = m /\ n - 1 \in 0 .. m + 1 /\ n - 1 # m + 1
          BY <3>1
        <4>2. h[n - 1] = f[m] /\ h[n] = SkipOne(f[m], sched.skipped[m + 1])
          BY <3>1, <4>1
        <4> HIDE DEF h
        <4> QED BY <3>1, <4>1, <4>2
      <3>2. CASE n # m + 1
        <4>1. n \in 0 .. m
          BY <3>2
        <4>2. h[n] = f[n]
          BY <3>2
        <4>3. f[n] = IF n = 0 THEN arena ELSE SkipOne(f[n - 1], sched.skipped[n])
          BY <2>1, <4>1
        <4>4. n # 0 => h[n - 1] = f[n - 1]
          BY <4>1
        <4> HIDE DEF h
        <4> QED BY <4>2, <4>3, <4>4
      <3> QED BY <3>1, <3>2
    <2>3. h = [n \in 0 .. m + 1 |-> h[n]]
      OBVIOUS
    <2> HIDE DEF h
    <2>4. h = [n \in 0 .. m + 1 |-> IF n = 0 THEN arena ELSE SkipOne(h[n - 1], sched.skipped[n])]
      BY <2>2, <2>3
    <2>5. Up(h, m + 1)
      BY <2>4
    <2> HIDE DEF Up
    <2> QED BY <2>5
  <1> HIDE DEF T
  <1>3. Nat \subseteq T
    BY <1>1, <1>2, UpTo
  <1>4. \E f : SkipsOf(f)
    <2>1. N \in T
      BY <1>3
    <2> QED BY <2>1 DEF T, SkipsOf
  <1> DEFINE after == CHOOSE f : SkipsOf(f)
  <1>5. SkipsOf(after)
    BY <1>4
  <1>6. SkipAll = after[Len(sched.skipped)]
    BY DEF SkipAll, SkipsOf
  <1> HIDE DEF after
  <1> QED BY <1>5, <1>6

\* One more document is skipped.
Skipping(A, n) ==
    /\ Yields(arena, A) /\ A.reading = arena.reading
    /\ \A i \in 1 .. n : sched.skipped[i] \in Resident(A) => sched.skipped[i] \in A.deferred

LEMMA SkipOneKeeps ==
    ASSUME BaseInv, Members, ArenaInv(arena), NEW n \in Nat, n < Len(sched.skipped),
           NEW A, Skipping(A, n)
    PROVE  Skipping(SkipOne(A, sched.skipped[n + 1]), n + 1)
  <1> DEFINE d == sched.skipped[n + 1]
             p == tree.parent[d]
             R == IF p \in tree.admitted THEN Release(A, p) ELSE A
             B == IF d \in Resident(R) THEN FreeKey(R, d) ELSE R
  <1>1. SkipOne(A, d) = B
    BY DEF SkipOne
  <1>2. tree.admitted \subseteq Keys
    BY PlanIs DEF Members, Types
  <1>3. ArenaInv(A) /\ Yields(arena, A)
    BY DEF Skipping, Yields
  <1> HIDE DEF d, p
  <1>4. Yields(A, R) /\ R.reading = A.reading
    <2>1. CASE p \in tree.admitted
      <3>1. p \in Keys /\ R = Release(A, p)
        BY <1>2, <2>1
      <3> HIDE DEF R
      <3>2. ArenaInv(R) /\ Lets(A, R) /\ Released(A, R, p)
        BY <1>3, <3>1, ReleaseKeeps, ReleaseSheds
      <3> QED BY <3>2 DEF Released, Yields
    <2>2. CASE p \notin tree.admitted
      BY <1>3, <2>2, YieldsNothing
    <2> QED BY <2>1, <2>2
  <1> HIDE DEF R
  <1>5. /\ Yields(R, B) /\ B.reading = R.reading
        /\ d \in Resident(B) => d \in B.deferred
    <2>1. CASE d \in Resident(R)
      <3>1. {d} \in SUBSET Resident(R) /\ B = FreeAll(R, {d}) /\ ArenaInv(R)
        BY <1>4, <2>1 DEF FreeKey, Yields
      <3> HIDE DEF B
      <3>2. /\ Yields(R, B) /\ B.reading = R.reading
            /\ \A k \in {d} : k \in Resident(B) => k \in B.deferred
        BY <3>1, YieldsFree
      <3> QED BY <3>2
    <2>2. CASE d \notin Resident(R)
      <3>1. ArenaInv(R) /\ B = R
        BY <1>4, <2>2 DEF Yields
      <3> HIDE DEF B
      <3> QED BY <2>2, <3>1, YieldsNothing
    <2> QED BY <2>1, <2>2
  <1> HIDE DEF B
  <1>6. Yields(A, B)
    BY <1>3, <1>4, <1>5, YieldsBoth
  <1>7. Yields(arena, B)
    BY <1>3, <1>6, YieldsBoth
  <1>8. B.reading = arena.reading
    BY <1>4, <1>5 DEF Skipping
  <1>9. ASSUME NEW i \in 1 .. n + 1, sched.skipped[i] \in Resident(B)
        PROVE  sched.skipped[i] \in B.deferred
    <2>1. CASE i = n + 1
      BY <1>5, <1>9, <2>1 DEF d
    <2>2. CASE i # n + 1
      <3>1. i \in 1 .. n
        BY <2>2
      <3> QED BY <3>1, <1>6, <1>9 DEF Skipping, Yields, Sheds
    <2> QED BY <2>1, <2>2
  <1> QED BY <1>1, <1>7, <1>8, <1>9 DEF Skipping, d

\* All of them are skipped, and none stays.
LEMMA SkipAllKeeps ==
    ASSUME BaseInv, Members, ArenaInv(arena)
    PROVE  /\ Yields(arena, SkipAll) /\ SkipAll.reading = arena.reading
           /\ \A d \in Range(sched.skipped) : d \in Resident(SkipAll) => d \in SkipAll.deferred
  <1> DEFINE N == Len(sched.skipped)
  <1>1. N \in Nat /\ DOMAIN sched.skipped = 1 .. N
    <2>1. sched.skipped \in Seq(Docs)
      BY DEF Members, Types
    <2>2. N \in Nat /\ DOMAIN sched.skipped = 1 .. N
      BY <2>1
    <2> QED BY <2>2
  <1>2. PICK f : SkipsOf(f) /\ SkipAll = f[N]
    BY <1>1, SkipAllIs
  <1> HIDE DEF N
  <1> DEFINE T == {n \in Nat : n <= N => Skipping(f[n], n)}
  <1>3. f[0] = arena /\ \A n \in Nat : n < N => f[n + 1] = SkipOne(f[n], sched.skipped[n + 1])
    BY <1>1, <1>2 DEF SkipsOf, N
  <1>4. 0 \in T
    <2>1. Yields(arena, arena)
      BY YieldsNothing
    <2>2. Skipping(arena, 0)
      BY <2>1 DEF Skipping
    <2> QED BY <1>3, <2>2
  <1>5. ASSUME NEW n \in Nat, n \in T PROVE n + 1 \in T
    <2> SUFFICES ASSUME n + 1 <= N PROVE Skipping(f[n + 1], n + 1)
      OBVIOUS
    <2>1. n < N /\ n <= N
      BY <1>1
    <2>2. Skipping(f[n], n)
      BY <1>5, <2>1
    <2>3. Skipping(SkipOne(f[n], sched.skipped[n + 1]), n + 1)
      BY <2>1, <2>2, SkipOneKeeps DEF N
    <2> QED BY <1>3, <2>1, <2>3
  <1> HIDE DEF T
  <1>6. N \in T
    BY <1>1, <1>4, <1>5, UpTo
  <1>7. Skipping(SkipAll, N)
    BY <1>1, <1>2, <1>6 DEF T
  <1>8. \A d \in Range(sched.skipped) : \E i \in 1 .. N : sched.skipped[i] = d
    BY <1>1 DEF Range
  <1> QED BY <1>7, <1>8 DEF Skipping

\* The pass is off the list, and nothing is left to skip.
LEMMA EntryReportedLoans ==
    ASSUME BaseInv, QueueInv, Loans, EntryReported
    PROVE  Loans'
  <1> DEFINE skipped == Range(sched.skipped)
             gone(p) == {d \in skipped : tree.parent[d] = p}
  <1>1. /\ pc = "report" /\ plan' = plan /\ op' = op /\ chunk' = chunk
        /\ (pc' = "report" \/ pc' = back) /\ arena' = SkipAll
        /\ sched' = [sched EXCEPT !.skipped = <<>>]
        /\ tree' = [tree EXCEPT !.skipped = @ \union skipped]
        /\ exec' = [exec EXCEPT
                          !.outstanding = Tail(@),
                          !.borrowers = [p \in Docs |->
                              IF p \in tree.admitted THEN @[p]
                              ELSE @[p] - Cardinality(gone(p))]]
    BY DEF EntryReported, PassReported
  <1>2. Running /\ Shapes /\ Members /\ Turns
    BY <1>1 DEF QueueInv, Running
  <1>3. pc' \in {"report", "top", "submit"} /\ Running'
    BY <1>1, <1>2 DEF Turns, Running
  <1>4. Known(arena) /\ ArenaInv(arena) /\ Lending /\ Reading /\ Unplaced /\ Owned
        /\ sched.settled = <<>>
    BY <1>1, <1>2 DEF Loans, Known, LoansInv
  <1>5. sched'.settled = <<>> /\ sched'.skipped = <<>> /\ sched'.stage = sched.stage
    BY <1>1, <1>2, <1>4 DEF Shapes, IsSched
  <1>6. tree'.parent = tree.parent /\ tree'.shared = tree.shared
    BY <1>1, <1>2 DEF Shapes, IsTree
  <1>7. /\ exec'.lowest = exec.lowest /\ exec'.lenders = exec.lenders
        /\ exec'.reserved = exec.reserved
        /\ exec'.borrowers = [p \in Docs |-> IF p \in tree.admitted THEN exec.borrowers[p]
                                             ELSE exec.borrowers[p] - Cardinality(gone(p))]
    <2> HIDE DEF gone
    <2> QED BY <1>1, <1>2 DEF Shapes, IsExec
  <1>8. exec'.borrowers \in [Docs -> Int] /\ \A d \in Docs : exec'.borrowers[d] <= exec.borrowers[d]
    <2>1. ASSUME NEW p \in Docs PROVE Cardinality(gone(p)) \in Nat
      <3>1. sched.skipped \in Seq(Docs)
        BY <1>2 DEF Members, Types
      <3>2. gone(p) \subseteq Docs
        BY <3>1, RangeIn
      <3>3. IsFiniteSet(gone(p))
        BY <3>2, PlanIs, FS_Subset
      <3> QED BY <3>3, FS_CardinalityType
    <2> HIDE DEF gone
    <2>2. \A p \in Docs : exec.borrowers[p] \in Int
      BY <1>4 DEF Lending
    <2>3. ASSUME NEW p \in Docs
          PROVE  exec'.borrowers[p] \in Int /\ exec'.borrowers[p] <= exec.borrowers[p]
      <3>1. exec'.borrowers[p] = IF p \in tree.admitted THEN exec.borrowers[p]
                                 ELSE exec.borrowers[p] - Cardinality(gone(p))
        BY <1>7
      <3>2. exec.borrowers[p] \in Int /\ Cardinality(gone(p)) \in Nat
        BY <2>1, <2>2
      <3>3. CASE p \in tree.admitted
        BY <3>1, <3>2, <3>3
      <3>4. CASE p \notin tree.admitted
        BY <3>1, <3>2, <3>4
      <3> QED BY <3>3, <3>4
    <2>4. exec'.borrowers = [p \in Docs |-> exec'.borrowers[p]]
      BY <1>7
    <2> QED BY <2>3, <2>4
  <1> HIDE DEF gone
  <1>9. Heirs
    BY <1>1, <1>6, <1>7, <1>8 DEF Heirs
  <1>10. /\ Yields(arena, arena') /\ arena'.reading = arena.reading
         /\ \A d \in skipped : d \in Resident(arena') => d \in arena'.deferred
    BY <1>1, <1>2, <1>4, SkipAllKeeps
  <1>11. Passed
    BY <1>4, <1>5, <1>10 DEF Passed, Settling
  <1>12. Known(arena)' /\ Lending' /\ Unplaced' /\ Owned'
    <2>1. \A d \in Docs : sched'.stage[d] = Queued => sched.stage[d] = Queued
      BY <1>5
    <2> QED BY <2>1, <1>4, <1>9, <1>10, <1>11, LoansPass
  <1>13. Docs' = Docs /\ Planned' = Planned
    BY <1>1, Frozen DEF Planned
  <1>14. Reading'
    <2>1. \A k : ReadersOf(k)' = ReadersOf(k)
      BY <1>6, <1>7 DEF ReadersOf
    <2> QED BY <2>1, <1>4, <1>6, <1>7, <1>10, <1>13 DEF Reading
  <1>15. <<>> \in Seq(Docs')
    BY EmptyIs
  <1> QED BY <1>3, <1>5, <1>12, <1>14, <1>15 DEF Loans, LoansInv

-----------------------------------------------------------------------------
(* Every step, for the loans.                                              *)
\* Every other step leaves an operator's loop where it is.
LEMMA OthersStart ==
    ASSUME BaseInv, QueueInv, [Next]_vars, ~NextOperator, ~EndQuery, ~NextQuery, ~Rest, ~UNCHANGED vars
    PROVE  pc' \notin {"start", "done"}
  <1>1. pc = "report" => back \in {"top", "submit"}
    BY DEF QueueInv, Running, Turns
  <1>2. CASE EntryReported
    BY <1>1, <1>2 DEF EntryReported, PassReported
  <1>3. CASE \E d \in Docs : Admission(d)
    BY <1>3 DEF Admission, PopDead, HoldTurn, HoldForPages, HoldForRoom, HoldForSuffix, AdmitNext,
                AdmitReserved, Popping, Live, Eligible
  <1>4. CASE Top \/ MakeRoom \/ TakeReady \/ ReadyTaken \/ CloseChunk \/ Nothing \/ RunPass
    BY <1>4 DEF Top, MakeRoom, TakeReady, ReadyTaken, CloseChunk, Nothing, RunPass
  <1>5. CASE \/ StartOperator \/ PassRaises \/ Submit \/ ReportPart \/ ReportAdvance \/ ReportSettle
             \/ DecideWaiting \/ End
    BY <1>5 DEF StartOperator, Start, PassRaises, Submit, ReportPart, Reporting, ReportAdvance,
                ReportSettle, DecideWaiting, End
  <1> QED BY <1>2, <1>3, <1>4, <1>5 DEF Next

\* A step that changes nothing.
LEMMA SameLoans ==
    ASSUME Loans, StartInv, UNCHANGED vars
    PROVE  Loans' /\ StartInv'
  <1>1. /\ plan' = plan /\ op' = op /\ pc' = pc /\ arena' = arena /\ sched' = sched
        /\ tree' = tree /\ exec' = exec /\ chunk' = chunk
    BY DEF vars
  <1>2. /\ Docs' = Docs /\ \A d : Length(d)' = Length(d)
    BY <1>1, Frozen
  <1>3. Planned' = Planned /\ Running' = Running /\ \A k : ReadersOf(k)' = ReadersOf(k)
    BY <1>1 DEF Planned, Running, ReadersOf
  <1>4. Known(arena)'
    BY <1>1, <1>2 DEF Loans, Known
  <1>5. Parked(arena)' <=> Parked(arena)
    BY <1>1 DEF Parked, Idle
  <1>6. Lending => Lending'
    BY <1>1, <1>2 DEF Lending
  <1>7. Reading => Reading'
    BY <1>1, <1>2, <1>3 DEF Reading
  <1>8. (Unplaced => Unplaced') /\ (Owned => Owned')
    BY <1>1, <1>2 DEF Unplaced, Owned
  <1>9. LoansInv'
    BY <1>1, <1>2, <1>3, <1>5, <1>6, <1>7, <1>8 DEF Loans, LoansInv
  <1>10. StartInv'
    BY <1>1, <1>5 DEF StartInv
  <1> QED BY <1>4, <1>9, <1>10 DEF Loans

\* Every step keeps the loans.
LEMMA LoansKept ==
    ASSUME BaseInv, QueueInv, Loans, StartInv, [Next]_vars
    PROVE  Loans' /\ StartInv'
  <1>1. CASE Rest \/ UNCHANGED vars
    <2>1. UNCHANGED vars
      BY <1>1 DEF Rest
    <2> QED BY <2>1, SameLoans
  <1>2. CASE NextOperator \/ EndQuery \/ NextQuery
    BY <1>2, NextOperatorLoans, EndQueryLoans, NextQueryLoans
  <1>3. ASSUME ~NextOperator, ~EndQuery, ~NextQuery, ~Rest, ~UNCHANGED vars
        PROVE  Loans' /\ StartInv'
    <2>1. pc' \notin {"start", "done"}
      BY <1>3, OthersStart
    <2>2. StartInv'
      BY <2>1 DEF StartInv
    <2>3. CASE StartOperator
      BY <2>3, <2>2, StartLoans
    <2>4. CASE Top \/ MakeRoom \/ TakeReady \/ ReadyTaken \/ CloseChunk \/ Nothing \/ RunPass
      BY <2>4, <2>2, TopLoans, MakeRoomLoans, TakeReadyLoans, ReadyTakenLoans, CloseLoans,
         NothingLoans, RunPassLoans
    <2>5. CASE PassRaises \/ Submit \/ End
      BY <2>5, <2>2, PassRaisesLoans, SubmitLoans, EndLoans
    <2>6. CASE ReportPart \/ ReportAdvance \/ ReportSettle \/ DecideWaiting \/ EntryReported
      BY <2>6, <2>2, ReportPartLoans, ReportAdvanceLoans, ReportSettleLoans, DecideWaitingLoans,
         EntryReportedLoans
    <2>7. ASSUME NEW d \in Docs, Admission(d) PROVE Loans'
      <3>1. CASE AdmitNext(d)
        BY <3>1, AdmitLoans
      <3>2. CASE ~AdmitNext(d)
        <4>1. HoldsBack(d) \/ PopDead(d)
          BY <3>2, <2>7 DEF Admission, HoldsBack
        <4> QED BY <4>1, HoldsBackLoans
      <3> QED BY <3>1, <3>2
    <2> QED BY <1>3, <2>2, <2>3, <2>4, <2>5, <2>6, <2>7 DEF Next
  <1> QED BY <1>1, <1>2, <1>3

\* The first query starts on an empty arena.
LEMMA LoansAtFirst ==
    ASSUME Init
    PROVE  Loans /\ StartInv
  <1>1. arena = EmptyArena /\ pc = "start"
    BY DEF Init
  <1>2. Known(arena) /\ Resident(arena) = {}
    <2>1. ArenaInv(EmptyArena) /\ Resident(EmptyArena) = {}
      BY EmptyArenaFine
    <2>2. Kept(EmptyArena) = {}
      BY DEF Kept, EmptyArena
    <2> QED BY <1>1, <2>1, <2>2 DEF Known
  <1>3. Parked(arena)
    BY <1>2, EmptyIdle
  <1> QED BY <1>1, <1>2, <1>3 DEF Loans, LoansInv, Running, StartInv

\* The loans are as they should be throughout a run.
LEMMA LoansHold == Spec => [](IInv /\ Loans /\ StartInv)
  <1>1. Init => IInv /\ Loans /\ StartInv
    BY InitHolds, LoansAtFirst
  <1>2. (IInv /\ Loans /\ StartInv) /\ [Next]_vars => (IInv /\ Loans /\ StartInv)'
    BY StepKeeps, LoansKept DEF IInv
  <1> QED BY <1>1, <1>2, PTL DEF Spec

\* Nothing resident, every page is free.
LEMMA EmptyFree ==
    ASSUME NEW n \in Nat, NEW P, PoolInv(P, n), P.resident = {}
    PROVE  FreeCount(P) = n
  <1>1. P \in Pool(n) /\ HoldsCounted(P) /\ FreeUnread(P)
    BY DEF PoolInv, PoolOK
  <1>2. DOMAIN P.holds = 0 .. n - 1
    BY <1>1 DEF Pool
  <1>3. ASSUME NEW p \in 0 .. n - 1 PROVE P.holds[p] = 0
    <2>1. {k \in P.resident : p \in TableSet(P, k)} = {}
      OBVIOUS
    <2>2. P.holds[p] = Cardinality({k \in P.resident : p \in TableSet(P, k)})
      BY <1>1, <1>2 DEF HoldsCounted
    <2>3. Cardinality({}) = 0
      BY FS_EmptySet
    <2> QED BY <2>1, <2>2, <2>3
  <1>4. P.free = 0 .. n - 1
    BY <1>1, <1>2, <1>3 DEF FreeUnread
  <1>5. Cardinality(0 .. n - 1) = n
    BY FS_Interval
  <1> QED BY <1>4, <1>5 DEF FreeCount

\* Whatever an operator admits, lends, evicts, settles and skips, the arena's
\* pages stay accounted for, the tables that share a page agree on its rows,
\* and a free is owed only while something keeps the key (arena.py under
\* stage_executor.py run).
THEOREM ArenaStaysSound == Spec => []ArenaSound
  <1>1. IInv /\ Loans /\ StartInv => ArenaSound
    <2> SUFFICES ASSUME Loans PROVE ArenaSound
      OBVIOUS
    <2>1. ArenaInv(arena)
      BY DEF Loans, Known
    <2>2. Accounted(arena) /\ RowsAligned(arena)
      BY <2>1, RowsAlign
    <2> QED BY <2>1, <2>2 DEF ArenaSound, ArenaInv
  <1> QED BY <1>1, LoansHold, PTL

\* An operator leaves nothing held, read or owed, and what it leaves resident
\* evictable; a query leaves an empty arena with every page free
\* (stage_executor.py run, graph.py execute_single_graph).
THEOREM EndsCleanly == Spec => []EndsClean
  <1>1. IInv /\ Loans /\ StartInv => EndsClean
    <2> SUFFICES ASSUME Loans, StartInv PROVE EndsClean
      OBVIOUS
    <2>1. ArenaInv(arena)
      BY DEF Loans, Known
    <2>2. ASSUME pc = "between"
          PROVE  /\ \A k \in Keys : arena.held[k] = 0 /\ arena.reading[k] = 0
                 /\ arena.deferred = {} /\ Resident(arena) = arena.retained
      <3>1. Idle(arena) /\ Resident(arena) \subseteq arena.retained
        BY <2>2 DEF Loans, LoansInv, Running, Parked
      <3>2. arena.deferred = {}
        BY <2>1, <3>1, IdleOwes
      <3>3. arena.retained \subseteq Resident(arena)
        BY <2>1 DEF ArenaInv, Consistent
      <3> QED BY <3>1, <3>2, <3>3 DEF Idle
    <2>3. ASSUME pc = "done"
          PROVE  Resident(arena) = {} /\ FreeCount(arena.full) = NumPages
      <3>1. Resident(arena) = {}
        BY <2>3 DEF StartInv
      <3>2. PoolInv(arena.full, NumPages) /\ arena.full.resident = {}
        BY <2>1, <3>1 DEF ArenaInv, PoolFine, Resident
      <3>3. NumPages \in Nat
        BY PoolAssumption
      <3> QED BY <3>1, <3>2, <3>3, EmptyFree
    <2> QED BY <2>2, <2>3 DEF EndsClean
  <1> QED BY <1>1, LoansHold, PTL
=============================================================================
