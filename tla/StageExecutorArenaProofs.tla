---------------------- MODULE StageExecutorArenaProofs ----------------------
(***************************************************************************)
(* What an operator's loop does with the KV arena, for every set of plans: *)
(* that a parent's holds are for the borrowers that still come, that the   *)
(* pages a chunk is planned with are there, and that a pass reads KV of a  *)
(* document's own tokens only.                                             *)
(*                                                                         *)
(* Three more invariants, over those of StageExecutorProofs.  HeldInv      *)
(* counts the holds.  PricedInv says what the queued documents cost, so    *)
(* that the pages of a plan are there when it is taken.  ReadInv says that *)
(* two documents that read a page begin with the same rows up to its last, *)
(* and that what a page holds is the prefix of whoever has tokens on it,   *)
(* or will be once the planned chunk ran.  Each has a lemma for each       *)
(* action of the loop.                                                     *)
(***************************************************************************)
EXTENDS StageExecutorProofs

-----------------------------------------------------------------------------
(* Whom the holds are for.                                                 *)
\* A document that settles without being asked.
Spare(d) == Partners(d, 1) = 0 \/ Oversized(d, {})

\* The borrowers of p that may still come, and those whose rows the planned
\* chunk packs.
Coming(p) == {d \in Docs : /\ tree.parent[d] = p /\ d \notin tree.admitted
                           /\ d \notin tree.skipped \/ Spare(d)}
Packing == {g.doc : g \in {h \in Range(chunk.groups) : h.carried /\ h.start = 0}}
Loading(p) == {d \in Packing : tree.parent[d] = p}

\* What is held is held for them.
HeldForThem ==
    \A p \in Docs : arena.held[p] > 0
        => arena.held[p] = Cardinality(Coming(p)) + Cardinality(Loading(p))

\* Before a document is admitted nobody holds it, and its borrowers all wait.
NotYetHeld ==
    \A p \in Docs : p \notin tree.admitted =>
        /\ arena.held[p] = 0
        /\ p \notin tree.skipped => exec.borrowers[p] = Cardinality(Coming(p))

\* A borrower is asked for, has tokens of its own to pack, and is admitted
\* after its parent, or when that will not come.
Borrowers ==
    \A d \in Docs : tree.parent[d] # None =>
        /\ tree.parent[d] # d /\ tree.shared[d] < Length(d) /\ sched.carried[d] = Length(d)
        /\ sched.stage[d] = Queued \/ d \in Range(sched.skipped) => ~Spare(d)
        /\ d \in tree.admitted => tree.parent[d] \in tree.admitted \union tree.skipped

\* A document is skipped once.
SkipsOnce == NoRepeats(sched.skipped) /\ Range(sched.skipped) \intersect tree.skipped = {}

\* Whom the holds are for, while an operator runs.
HeldInv == Running => HeldForThem /\ NotYetHeld /\ Borrowers /\ SkipsOnce

\* Holds are as before, or dropped.
KeepsHolds(A, B) == \A k \in Keys : B.held[k] = A.held[k] \/ B.held[k] = 0

\* Frees, evictions and trims hold what was held.
LEMMA FreeHolds ==
    ASSUME NEW A \in Arena, NEW V
    PROVE  FreeAll(A, V).held = A.held
  BY DEF FreeAll, Arena

LEMMA EvictHolds ==
    ASSUME NEW A \in Arena, NEW n, NEW B \in EvictRetained(A, n)
    PROVE  B.held = A.held
  BY FreeHolds DEF EvictRetained, EvictUntil

LEMMA TrimHolds ==
    ASSUME NEW A \in Arena, NEW V
    PROVE  TrimWindows(A, V).held = A.held
  BY DEF TrimWindows, Arena

LEMMA DropKeepsHolds ==
    ASSUME NEW A, ArenaInv(A), NEW V \in SUBSET Keys
    PROVE  KeepsHolds(A, DropHolds(A, V))
  <1>1. \A k \in Keys : DropHolds(A, V).held[k] = IF k \in V THEN 0 ELSE A.held[k]
    BY YieldsDrop
  <1> QED BY <1>1 DEF KeepsHolds

\* A step that packs, admits and skips nothing.
Calm ==
    /\ plan' = plan /\ op' = op /\ tree' = tree /\ exec'.borrowers = exec.borrowers
    /\ Packing' = Packing /\ sched'.carried = sched.carried
    /\ \A d \in Docs : sched'.stage[d] = Queued => sched.stage[d] = Queued

\* Such a step keeps whom the holds are for.
LEMMA CalmKeeps ==
    ASSUME BaseInv, Members, Running, HeldInv, Calm, KeepsHolds(arena, arena'),
           NoRepeats(sched'.skipped),
           \A d \in Range(sched'.skipped) :
              d \in Range(sched.skipped) \/ (d \in Docs /\ sched.stage[d] = Queued)
    PROVE  HeldInv'
  <1>1. HeldForThem /\ NotYetHeld /\ Borrowers /\ SkipsOnce
    BY DEF HeldInv
  <1>2. /\ Docs' = Docs /\ \A d : Length(d)' = Length(d)
        /\ \A d : Spare(d)' = Spare(d)
    <2>1. plan' = plan /\ op' = op
      BY DEF Calm
    <2>2. This' = This /\ \A d, j : Partners(d, j)' = Partners(d, j)
      BY <2>1, Frozen
    <2>3. \A d : Spare(d)' = Spare(d)
      BY <2>1, <2>2, Frozen DEF Spare, Oversized, Capacity, FirstCost, PageCost, Budget
    <2> QED BY <2>1, <2>3, Frozen
  <1>3. (\A p : Coming(p)' = Coming(p)) /\ (\A p : Loading(p)' = Loading(p))
    BY <1>2 DEF Coming, Loading, Calm
  <1>4. Docs \subseteq Keys
    BY PlanIs
  <1>5. HeldForThem'
    <2>1. ASSUME NEW p \in Docs, arena'.held[p] > 0
          PROVE  arena'.held[p] = arena.held[p]
      BY <2>1, <1>4 DEF KeepsHolds
    <2> QED BY <2>1, <1>1, <1>2, <1>3 DEF HeldForThem
  <1>6. NotYetHeld'
    BY <1>1, <1>2, <1>3, <1>4 DEF NotYetHeld, Calm, KeepsHolds
  <1>7. Borrowers'
    BY <1>1, <1>2 DEF Borrowers, Calm
  <1>8. SkipsOnce'
    <2>1. Queued # Done
      BY PlanIs
    <2>2. \A d \in tree.skipped : sched.stage[d] = Done
      BY DEF Members, Queues
    <2>3. tree'.skipped = tree.skipped
      BY DEF Calm
    <2> QED BY <1>1, <2>1, <2>2, <2>3 DEF SkipsOnce
  <1> QED BY <1>5, <1>6, <1>7, <1>8 DEF HeldInv

\* A step that plans nothing, and skips nothing.
Idles ==
    /\ plan' = plan /\ op' = op /\ tree' = tree /\ exec'.borrowers = exec.borrowers
    /\ chunk'.groups = chunk.groups /\ sched'.carried = sched.carried
    /\ sched'.stage = sched.stage /\ sched'.skipped = sched.skipped

\* It is calm.
LEMMA IdlesKeeps ==
    ASSUME BaseInv, Members, Running, HeldInv, Idles, KeepsHolds(arena, arena')
    PROVE  HeldInv'
  <1>1. Packing' = Packing
    BY DEF Packing, Idles
  <1>2. Calm
    BY <1>1 DEF Calm, Idles
  <1>3. NoRepeats(sched'.skipped) /\ sched'.skipped = sched.skipped
    BY DEF HeldInv, SkipsOnce, Idles
  <1> QED BY <1>2, <1>3, CalmKeeps

\* An arena holds what it holds.
LEMMA SameHolds == \A A : KeepsHolds(A, A)
  BY DEF KeepsHolds

\* One lemma for each action of the loop.
LEMMA TopHolds ==
    ASSUME BaseInv, QueueInv, Loans, HeldInv, Top
    PROVE  HeldInv'
  <1>1. Running /\ Members /\ Shapes /\ arena \in Arena
    BY DEF Top, Running, QueueInv, Loans, Known, ArenaInv
  <1>2. Idles
    BY <1>1 DEF Top, Idles, Shapes, IsSched
  <1>3. arena' = FreeAll(arena, Range(sched.settled) \intersect Resident(arena))
    BY DEF Top
  <1>4. KeepsHolds(arena, arena')
    BY <1>1, <1>3, FreeHolds DEF KeepsHolds
  <1> QED BY <1>1, <1>2, <1>4, IdlesKeeps

LEMMA MakeRoomHolds ==
    ASSUME BaseInv, QueueInv, Loans, HeldInv, MakeRoom
    PROVE  HeldInv'
  <1>1. Running /\ Members /\ Shapes /\ arena \in Arena /\ chunk.groups = <<>>
    BY DEF MakeRoom, Running, QueueInv, Loans, Known, ArenaInv, Turns
  <1>2. sched' = [sched EXCEPT !.blocked = 0] /\ chunk'.groups = <<>>
    BY DEF MakeRoom, NoChunk
  <1>3. Idles
    BY <1>1, <1>2 DEF MakeRoom, Idles, Shapes, IsSched
  <1>4. KeepsHolds(arena, arena')
    <2>1. arena' \in EvictRetained(arena, sched.blocked) \/ arena' = arena
      BY DEF MakeRoom
    <2>2. arena'.held = arena.held
      BY <1>1, <2>1, EvictHolds
    <2> QED BY <2>2 DEF KeepsHolds
  <1> QED BY <1>1, <1>3, <1>4, IdlesKeeps

LEMMA TakeReadyHolds ==
    ASSUME BaseInv, QueueInv, Loans, HeldInv, TakeReady
    PROVE  HeldInv'
  <1>1. Running /\ Members /\ Shapes
    BY DEF TakeReady, Running, QueueInv
  <1>2. /\ plan' = plan /\ op' = op /\ tree' = tree /\ exec' = exec /\ arena' = arena
    BY DEF TakeReady
  <1>3. /\ sched'.carried = sched.carried /\ sched'.stage = sched.stage
        /\ sched'.skipped = sched.skipped
    BY <1>1 DEF TakeReady, Shapes, IsSched
  <1> DEFINE d == Head(sched.ready)
             j == sched.stage[d]
             i == sched.next[d]
             take == Take(d, j, i, chunk.room, chunk.pages)
             one == [chunk EXCEPT !.left = @ - 1]
             g == Group(d, j, i, take.end, FALSE)
  <1>4. \/ chunk' = chunk
        \/ chunk' = [one EXCEPT !.deferred = Append(@, d)]
        \/ chunk' = Launch(one, g, take.tokens, 0, take.pages)
    BY DEF TakeReady
  <1>5. g.carried = FALSE
    BY DEF Group
  <1> HIDE DEF g, take
  <1>6. IsChunk(one) /\ one.groups = chunk.groups
    BY <1>1 DEF Shapes, IsChunk
  <1> HIDE DEF one
  <1>7. chunk'.groups = chunk.groups \/ chunk'.groups = Append(chunk.groups, g)
    <2>1. [one EXCEPT !.deferred = Append(@, d)].groups = one.groups
      BY <1>6 DEF IsChunk
    <2>2. Launch(one, g, take.tokens, 0, take.pages).groups = Append(one.groups, g)
      BY <1>6 DEF Launch, IsChunk
    <2> QED BY <1>4, <1>6, <2>1, <2>2
  <1>8. Packing' = Packing
    <2>1. CASE chunk'.groups = chunk.groups
      BY <2>1 DEF Packing
    <2>2. CASE chunk'.groups = Append(chunk.groups, g)
      <3>1. chunk.groups \in Seq(GroupType)
        BY <1>1 DEF Members, Types
      <3>2. Range(chunk'.groups) = Range(chunk.groups) \union {g}
        <4>1. Len(chunk.groups) \in Nat /\ DOMAIN chunk.groups = 1 .. Len(chunk.groups)
          BY <3>1
        <4> DEFINE s == chunk.groups
                   t == Append(chunk.groups, g)
        <4>2. DOMAIN t = 1 .. Len(s) + 1 /\ t[Len(s) + 1] = g /\ \A n \in 1 .. Len(s) : t[n] = s[n]
          BY <3>1, <4>1
        <4>3. \A n : n \in 1 .. Len(s) + 1 <=> n \in 1 .. Len(s) \/ n = Len(s) + 1
          BY <4>1
        <4> HIDE DEF s, t
        <4>4. Range(t) = Range(s) \union {g}
          <5>1. DOMAIN s = 1 .. Len(s)
            BY <4>1 DEF s
          <5> QED BY <4>2, <4>3, <5>1 DEF Range
        <4> QED BY <2>2, <4>4 DEF s, t
      <3> QED BY <3>2, <1>5 DEF Packing
    <2> QED BY <1>7, <2>1, <2>2
  <1>9. Calm
    BY <1>2, <1>3, <1>8 DEF Calm
  <1>10. NoRepeats(sched'.skipped)
    BY <1>1, <1>3 DEF HeldInv, SkipsOnce
  <1> QED BY <1>1, <1>2, <1>3, <1>9, <1>10, SameHolds, CalmKeeps

LEMMA QuietHolds ==
    ASSUME BaseInv, QueueInv, Loans, HeldInv,
           ReadyTaken \/ CloseChunk \/ ReportPart \/ \E d : HoldsBack(d) \/ PopDead(d)
    PROVE  HeldInv'
  <1>1. Running /\ Members /\ Shapes
    BY DEF ReadyTaken, CloseChunk, ReportPart, Reporting, HoldsBack, PopDead, HoldTurn, HoldForPages,
           HoldForRoom, HoldForSuffix, Eligible, Live, Popping, Running, QueueInv
  <1>2. arena' = arena
    BY DEF ReadyTaken, CloseChunk, ReportPart, HoldsBack, PopDead, HoldTurn, HoldForPages,
           HoldForRoom, HoldForSuffix
  <1>3. CASE ReadyTaken
    BY <1>1, <1>2, <1>3, IdlesKeeps, SameHolds DEF ReadyTaken, Idles
  <1>4. CASE CloseChunk
    <2>1. Idles
      BY <1>1, <1>4 DEF CloseChunk, Idles, Shapes, IsSched, IsChunk
    <2> QED BY <1>1, <1>2, <2>1, IdlesKeeps, SameHolds
  <1>5. CASE ReportPart
    <2>1. Idles
      BY <1>1, <1>5 DEF ReportPart, Received, GroupReported, Idles, Shapes, IsSched, IsExec
    <2> QED BY <1>1, <1>2, <2>1, IdlesKeeps, SameHolds
  <1>6. ASSUME NEW d, HoldsBack(d) \/ PopDead(d) PROVE HeldInv'
    <2>1. /\ plan' = plan /\ op' = op /\ tree' = tree /\ exec' = exec
      BY <1>6 DEF HoldsBack, PopDead, HoldTurn, HoldForPages, HoldForRoom, HoldForSuffix
    <2>2. /\ sched'.carried = sched.carried /\ sched'.stage = sched.stage
          /\ sched'.skipped = sched.skipped
      BY ZenonT(30), <1>1, <1>6 DEF HoldsBack, PopDead, HoldTurn, HoldForPages, HoldForRoom, HoldForSuffix,
         Popped, Shapes, IsSched
    <2>3. chunk'.groups = chunk.groups
      BY <1>1, <1>6 DEF HoldsBack, PopDead, HoldTurn, HoldForPages, HoldForRoom, HoldForSuffix,
         HeldBack, Shapes, IsChunk
    <2> QED BY <1>1, <1>2, <2>1, <2>2, <2>3, IdlesKeeps, SameHolds DEF Idles
  <1> QED BY <1>3, <1>4, <1>5, <1>6

LEMMA NothingHolds ==
    ASSUME BaseInv, QueueInv, Loans, HeldInv, Nothing
    PROVE  HeldInv'
  <1>1. Running /\ Members /\ Lending /\ ArenaInv(arena) /\ arena \in Arena
    BY DEF Nothing, Running, QueueInv, Loans, LoansInv, Known, ArenaInv
  <1>2. Idles
    BY DEF Nothing, Idles
  <1>3. KeepsHolds(arena, arena')
    <2>1. \/ arena' = arena \/ arena' \in EvictRetained(arena, sched.blocked)
          \/ arena' = DropHolds(arena, exec.lenders)
      BY DEF Nothing
    <2>2. exec.lenders \in SUBSET Keys
      BY <1>1, PlanIs DEF Lending
    <2>3. arena'.held = arena.held \/ arena' = DropHolds(arena, exec.lenders)
      BY <1>1, <2>1, EvictHolds
    <2> QED BY <1>1, <2>2, <2>3, DropKeepsHolds DEF KeepsHolds
  <1> QED BY <1>1, <1>2, <1>3, IdlesKeeps

LEMMA RunPassHolds ==
    ASSUME BaseInv, QueueInv, Loans, HeldInv, RunPass
    PROVE  HeldInv'
  <1>1. Running /\ Members /\ arena \in Arena
    BY DEF RunPass, Running, QueueInv, Loans, Known, ArenaInv
  <1>2. Idles /\ arena' = TrimWindows(arena, Fresh)
    BY DEF RunPass, Idles
  <1>3. KeepsHolds(arena, arena')
    BY <1>1, <1>2, TrimHolds DEF KeepsHolds
  <1> QED BY <1>1, <1>2, <1>3, IdlesKeeps

LEMMA EndHolds ==
    ASSUME BaseInv, QueueInv, Loans, HeldInv, End
    PROVE  HeldInv'
  <1>1. Running /\ Members /\ Lending /\ ArenaInv(arena) /\ arena \in Arena
    BY DEF End, Running, QueueInv, Loans, LoansInv, Known, ArenaInv
  <1>2. Idles
    BY DEF End, Idles
  <1> DEFINE V == Range(sched.ready) \intersect Resident(arena)
             B == FreeAll(arena, V)
  <1>3. arena' = DropHolds(B, exec.lenders)
    BY DEF End
  <1>4. ArenaInv(B)
    <2>1. V \in SUBSET Resident(arena)
      OBVIOUS
    <2> HIDE DEF V
    <2>2. Yields(arena, B)
      BY <1>1, <2>1, YieldsFree
    <2> QED BY <2>2 DEF Yields
  <1>5. B.held = arena.held
    BY <1>1, FreeHolds
  <1> HIDE DEF B
  <1>6. exec.lenders \in SUBSET Keys
    BY <1>1, PlanIs DEF Lending
  <1>7. KeepsHolds(B, arena')
    BY <1>3, <1>4, <1>6, DropKeepsHolds
  <1>8. KeepsHolds(arena, arena')
    BY <1>5, <1>7 DEF KeepsHolds
  <1> QED BY <1>1, <1>2, <1>8, IdlesKeeps

\* Settling a document takes no hold.
LEMMA SettleHolds ==
    ASSUME Known(arena), NEW d \in Docs, NEW b, NEW A \in Settle(d, b)
    PROVE  KeepsHolds(arena, A)
  <1>1. ArenaInv(arena) /\ arena \in Arena
    BY DEF Known, ArenaInv
  <1>2. CASE d \notin Resident(arena)
    <2>1. A = arena
      BY <1>2 DEF Settle
    <2> QED BY <2>1, SameHolds
  <1>3. CASE d \in Resident(arena)
    <2>1. arena.base[d] = Length(d)
      BY <1>3 DEF Known
    <2>2. CASE A \in Retain(arena, d, Length(d))
      <3>1. Parks(arena, A, d)
        BY <1>1, <1>3, <2>1, <2>2, RetainKeeps
      <3> QED BY <3>1 DEF Parks, KeepsHolds
    <2>3. CASE A = FreeKey(arena, d)
      BY <1>1, <2>3, FreeHolds DEF FreeKey, KeepsHolds
    <2> QED BY <1>3, <2>2, <2>3 DEF Settle
  <1> QED BY <1>2, <1>3

\* Documents skipped at once are none of those skipped before.
LEMMA SkipsQueuedHolds ==
    ASSUME BaseInv, Members, SkipsOnce, SkipsQueued
    PROVE  /\ NoRepeats(sched'.skipped)
           /\ \A d \in Range(sched'.skipped) :
                 d \in Range(sched.skipped) \/ (d \in Docs /\ sched.stage[d] = Queued)
  <1>1. NoRepeats(sched.skipped)
    BY DEF SkipsOnce
  <1>2. CASE sched'.skipped = sched.skipped
    BY <1>1, <1>2
  <1>3. CASE ~(sched'.skipped = sched.skipped)
    <2>1. PICK rest \in SUBSET Docs : /\ \A e \in rest : sched.stage[e] = Queued
                                      /\ sched'.skipped = sched.skipped \o Ascending(rest)
      BY <1>3 DEF SkipsQueued
    <2>2. rest \subseteq Int /\ IsFiniteSet(rest)
      BY PlanIs, FS_Subset
    <2> DEFINE t == Ascending(rest)
    <2>3. t \in Seq(rest) /\ Range(t) = rest /\ NoRepeats(t)
      BY <2>2, AscendingOf
    <2>4. sched.skipped \in Seq(Docs)
      BY DEF Members, Types, Lists
    <2>5. t \in Seq(Docs)
      BY <2>3
    <2> HIDE DEF t
    <2>6. /\ Range(sched.skipped \o t) = Range(sched.skipped) \union rest
          /\ Range(sched.skipped) \intersect rest = {} => NoRepeats(sched.skipped \o t)
      BY <1>1, <2>3, <2>4, <2>5, ConcatIs
    <2>7. \A e \in Range(sched.skipped) : sched.stage[e] = Done
      BY DEF Members, Queues
    <2>8. Queued # Done
      BY PlanIs
    <2>9. Range(sched.skipped) \intersect rest = {}
      BY <2>1, <2>7, <2>8
    <2>10. sched'.skipped = sched.skipped \o t
      BY <2>1 DEF t
    <2> QED BY <2>1, <2>6, <2>9, <2>10
  <1> QED BY <1>2, <1>3

\* A move keeps whom the holds are for.
LEMMA MovedHolds ==
    ASSUME BaseInv, QueueInv, Loans, HeldInv, Running,
           plan' = plan, op' = op, tree' = tree, chunk' = chunk,
           exec'.borrowers = exec.borrowers,
           NEW S, IsSched(S), S.stage = sched.stage, S.skipped = sched.skipped,
           S.settled = sched.settled, S.pending = sched.pending, S.carried = sched.carried,
           NEW d \in Docs, NEW to, Moved(S, d, to),
           \/ \E k \in Stages, w \in BOOLEAN : to = At(k, w)
           \/ \E b \in BOOLEAN : to = Out(b)
    PROVE  HeldInv'
  <1>1. Members /\ SkipsOnce /\ Known(arena)
    BY DEF QueueInv, Running, HeldInv, Loans, LoansInv
  <1>2. sched'.carried = sched.carried
    BY MovedSettles
  <1>3. OnlyLeaves(d) /\ SkipsQueued /\ KeepsHolds(arena, arena')
    <2>1. ASSUME NEW k \in Stages, NEW w \in BOOLEAN, to = At(k, w)
          PROVE  OnlyLeaves(d) /\ SkipsQueued /\ KeepsHolds(arena, arena')
      <3>1. Moved(S, d, At(k, w))
        BY <2>1
      <3>2. OnlyLeaves(d) /\ sched'.skipped = sched.skipped /\ arena' = arena
        BY <1>1, <3>1, MovedOnSettles
      <3> QED BY <3>2, SameHolds DEF SkipsQueued
    <2>2. ASSUME NEW b \in BOOLEAN, to = Out(b)
          PROVE  OnlyLeaves(d) /\ SkipsQueued /\ KeepsHolds(arena, arena')
      <3>1. Moved(S, d, Out(b))
        BY <2>2
      <3>2. OnlyLeaves(d) /\ SkipsQueued /\ arena' \in Settle(d, b)
        BY <1>1, <3>1, MovedOutSettles
      <3>3. KeepsHolds(arena, arena')
        BY <1>1, <3>2, SettleHolds
      <3> QED BY <3>2, <3>3
    <2> QED BY <2>1, <2>2
  <1>4. Calm
    BY <1>2, <1>3 DEF Calm, OnlyLeaves, Packing
  <1>5. /\ NoRepeats(sched'.skipped)
        /\ \A e \in Range(sched'.skipped) :
              e \in Range(sched.skipped) \/ (e \in Docs /\ sched.stage[e] = Queued)
    BY <1>1, <1>3, SkipsQueuedHolds
  <1> QED BY <1>1, <1>3, <1>4, <1>5, CalmKeeps

LEMMA ReportAdvanceHolds ==
    ASSUME BaseInv, QueueInv, Loans, HeldInv, ReportAdvance
    PROVE  HeldInv'
  <1> DEFINE d == Reported.doc
             S == [Received EXCEPT !.ready = Append(@, d)]
  <1>1. /\ Reporting /\ Running /\ GroupReported /\ Reported.stage < LastStage
        /\ plan' = plan /\ op' = op /\ chunk' = chunk /\ tree' = tree
    BY DEF ReportAdvance, Reporting, Running
  <1>2. PICK to \in Enter(d, Reported.stage + 1, FALSE) : Moved(S, d, to)
    BY DEF ReportAdvance
  <1>3. d \in Docs /\ Reported.stage \in Stages
    BY <1>1, AnsweredIs
  <1>4. Reported.stage + 1 \in Stages
    BY <1>1, <1>3, PlanIs
  <1>5. \/ \E k \in Stages, w \in BOOLEAN : to = At(k, w)
        \/ \E b \in BOOLEAN : to = Out(b)
    BY <1>2, <1>3, <1>4, EnterIs
  <1>6. /\ IsSched(S) /\ S.stage = sched.stage /\ S.skipped = sched.skipped
        /\ S.pending = sched.pending /\ S.settled = sched.settled /\ S.carried = sched.carried
    <2>1. IsSched(sched)
      BY <1>1, ReportedIs DEF Shapes
    <2>2. /\ IsSched(Received) /\ Received.stage = sched.stage /\ Received.skipped = sched.skipped
          /\ Received.pending = sched.pending /\ Received.settled = sched.settled
          /\ Received.carried = sched.carried
      BY <2>1 DEF Received, IsSched
    <2> QED BY <2>2 DEF IsSched
  <1>7. exec'.borrowers = exec.borrowers
    <2>1. IsExec(exec)
      BY <1>1, ReportedIs DEF Shapes
    <2> QED BY <1>1, <2>1 DEF GroupReported, IsExec
  <1> HIDE DEF S, d
  <1> QED BY <1>1, <1>2, <1>3, <1>5, <1>6, <1>7, MovedHolds

LEMMA ReportSettleHolds ==
    ASSUME BaseInv, QueueInv, Loans, HeldInv, ReportSettle
    PROVE  HeldInv'
  <1> DEFINE d == Reported.doc
             S == Received
  <1>1. /\ Reporting /\ Running /\ GroupReported
        /\ plan' = plan /\ op' = op /\ chunk' = chunk /\ tree' = tree
    BY DEF ReportSettle, Reporting, Running
  <1>2. \E b \in BOOLEAN : Moved(S, d, Out(b))
    BY DEF ReportSettle
  <1>3. d \in Docs
    BY <1>1, AnsweredIs
  <1>4. /\ IsSched(S) /\ S.stage = sched.stage /\ S.skipped = sched.skipped
        /\ S.pending = sched.pending /\ S.settled = sched.settled /\ S.carried = sched.carried
    <2>1. IsSched(sched)
      BY <1>1, ReportedIs DEF Shapes
    <2> QED BY <2>1 DEF Received, IsSched
  <1>5. exec'.borrowers = exec.borrowers
    <2>1. IsExec(exec)
      BY <1>1, ReportedIs DEF Shapes
    <2> QED BY <1>1, <2>1 DEF GroupReported, IsExec
  <1> HIDE DEF S, d
  <1>6. PICK to : Moved(S, d, to) /\ \E b \in BOOLEAN : to = Out(b)
    BY <1>2
  <1> QED BY <1>1, <1>3, <1>4, <1>5, <1>6, MovedHolds

LEMMA DecideWaitingHolds ==
    ASSUME BaseInv, QueueInv, Loans, HeldInv, DecideWaiting
    PROVE  HeldInv'
  <1> DEFINE d == Head(sched.waiting)
             S == [sched EXCEPT !.waiting = Tail(@)]
  <1>1. /\ pc = "report" /\ sched.waiting # <<>> /\ exec' = exec
        /\ plan' = plan /\ op' = op /\ chunk' = chunk /\ tree' = tree
    BY DEF DecideWaiting
  <1>2. PICK to \in Enter(d, sched.stage[d], TRUE) : Moved(S, d, to)
    BY DEF DecideWaiting
  <1>3. Running /\ Shapes /\ Members
    BY <1>1 DEF QueueInv, Running
  <1>4. d \in Docs /\ sched.stage[d] \in Stages
    <2>1. sched.waiting \in Seq(Docs) /\ NoRepeats(sched.waiting)
      BY <1>3 DEF Members, Types, Lists
    <2>2. d \in Docs /\ d \in Range(sched.waiting)
      BY <1>1, <2>1, TailIs
    <2>3. d \in InRun
      BY <1>3, <2>2 DEF Members, Queues, Streams, ReadySet
    <2> HIDE DEF d
    <2>4. sched.stage[d] \in Stages
      BY <2>3 DEF InRun
    <2> QED BY <2>2, <2>4
  <1>5. \/ \E k \in Stages, w \in BOOLEAN : to = At(k, w)
        \/ \E b \in BOOLEAN : to = Out(b)
    BY <1>2, <1>4, EnterIs
  <1>6. /\ IsSched(S) /\ S.stage = sched.stage /\ S.skipped = sched.skipped
        /\ S.pending = sched.pending /\ S.settled = sched.settled /\ S.carried = sched.carried
    BY <1>3 DEF Shapes, IsSched
  <1> HIDE DEF S, d
  <1> QED BY <1>1, <1>2, <1>3, <1>4, <1>5, <1>6, MovedHolds

-----------------------------------------------------------------------------
(* Holds when a document is admitted.                                      *)
\* Who may come, and whose rows are planned, are finite sets.
LEMMA FewCome ==
    ASSUME BaseInv, Members
    PROVE  /\ \A p : IsFiniteSet(Coming(p)) /\ Coming(p) \subseteq Docs
           /\ Packing \subseteq Planned /\ Planned \subseteq Docs /\ IsFiniteSet(Packing)
           /\ \A p : IsFiniteSet(Loading(p)) /\ Loading(p) \subseteq Packing
           /\ Packing \subseteq tree.admitted
  <1>1. IsFiniteSet(Docs)
    BY PlanIs
  <1>2. Packing \subseteq Planned
    BY DEF Packing, Planned, DocsOf, Range
  <1>3. Planned \subseteq InRun /\ InRun \subseteq Docs /\ InRun \subseteq tree.admitted
    BY DEF Members, Queues, InRun
  <1>4. IsFiniteSet(Packing)
    BY <1>1, <1>2, <1>3, FS_Subset
  <1>5. \A p : Coming(p) \subseteq Docs /\ Loading(p) \subseteq Packing
    BY DEF Coming, Loading
  <1> QED BY <1>1, <1>2, <1>3, <1>4, <1>5, FS_Subset

\* What an admission asks of the document it takes.
LEMMA AdmitAsks ==
    ASSUME BaseInv, QueueInv, Loans, HeldInv, NEW d, AdmitNext(d)
    PROVE  /\ tree.parent[d] # None => /\ tree.parent[d] \in tree.skipped \union tree.admitted
                                       /\ tree.parent[d] \in Docs /\ tree.parent[d] # d
                                       /\ Packed(d) > 0 /\ ~Spare(d)
           /\ d \notin tree.admitted /\ d \notin tree.skipped
  <1>1. /\ pc = "admit" /\ Running /\ Members /\ d \in Docs /\ sched.stage[d] = Queued /\ Lending
    BY AdmitIs
  <1>2. ~Waits(d)
    BY DEF AdmitNext, Eligible
  <1>3. ASSUME tree.parent[d] # None
        PROVE  Packed(d) > 0 /\ ~Spare(d) /\ tree.parent[d] # d
    <2>1. /\ tree.shared[d] < Length(d) /\ sched.carried[d] = Length(d)
          /\ ~Spare(d) /\ tree.parent[d] # d
      BY <1>1, <1>3 DEF HeldInv, Borrowers
    <2>2. Length(d) \in Nat
      BY <1>1, PlanIs
    <2>3. tree.shared[d] \in Nat
      BY <1>1 DEF Lending
    <2>4. Borrowed(d) = 0 \/ Borrowed(d) = tree.shared[d]
      BY DEF Borrowed
    <2>5. Packed(d) > 0
      BY <2>1, <2>2, <2>3, <2>4 DEF Packed
    <2> QED BY <2>1, <2>5
  <1>4. d \notin tree.admitted /\ d \notin tree.skipped
    <2>1. Queued # Done
      BY PlanIs
    <2> QED BY <1>1, <2>1 DEF Members, Queues
  <1>5. tree.parent[d] # None => tree.parent[d] \in Docs
    BY <1>1 DEF Lending
  <1> QED BY <1>2, <1>3, <1>4, <1>5 DEF Waits

\* Who is planned with rows of its own once d was admitted.
LEMMA AdmitPacks ==
    ASSUME BaseInv, QueueInv, Loans, NEW d, AdmitNext(d), NEW A, AdmitReserved(d, A)
    PROVE  Packing' = IF Packed(d) > 0 THEN Packing \union {d} ELSE Packing
  <1>1. /\ Shapes /\ Members
    BY AdmitIs
  <1> DEFINE g == Group(d, 1, 0, FirstTake(d).end, Packed(d) > 0)
             s == chunk.groups
             t == Append(s, g)
  <1>2. chunk'.groups = t
    BY <1>1 DEF AdmitReserved, Launch, Shapes, IsChunk
  <1>3. g.doc = d /\ g.start = 0 /\ g.carried = (Packed(d) > 0)
    BY DEF Group
  <1>4. s \in Seq(GroupType)
    BY <1>1 DEF Members, Types
  <1> HIDE DEF g
  <1>5. /\ Len(s) \in Nat /\ DOMAIN s = 1 .. Len(s)
        /\ DOMAIN t = 1 .. Len(s) + 1 /\ t[Len(s) + 1] = g /\ \A n \in 1 .. Len(s) : t[n] = s[n]
    BY <1>4
  <1>6. \A n : n \in 1 .. Len(s) + 1 <=> n \in 1 .. Len(s) \/ n = Len(s) + 1
    BY <1>5
  <1> HIDE DEF s, t
  <1>7. Range(t) = Range(s) \union {g}
    BY <1>5, <1>6 DEF Range
  <1>8. Packing = {h.doc : h \in {e \in Range(s) : e.carried /\ e.start = 0}}
    BY DEF Packing, s
  <1>9. Packing' = {h.doc : h \in {e \in Range(t) : e.carried /\ e.start = 0}}
    BY <1>2 DEF Packing
  <1>10. CASE Packed(d) > 0
    BY <1>3, <1>7, <1>8, <1>9, <1>10
  <1>11. CASE ~(Packed(d) > 0)
    BY <1>3, <1>7, <1>8, <1>9, <1>11
  <1> QED BY <1>10, <1>11

\* Without pages the document waits on, and what is held stays.
LEMMA AdmitFailsHolds ==
    ASSUME BaseInv, QueueInv, Loans, HeldInv, NEW d, AdmitNext(d),
           NEW out \in Reserve(arena, d, Length(d), Capacity(d), tree.parent[d], Borrowed(d)),
           arena' = out.arena, sched' = Popped, chunk' = HeldBack(d), tree' = tree, exec' = exec
    PROVE  HeldInv'
  <1>1. /\ Running /\ Shapes /\ Members /\ d \in Docs
        /\ sched.stage[d] = Queued /\ Known(arena) /\ Lending /\ Unplaced
    BY AdmitIs
  <1> DEFINE s == Borrowed(d)
             p == IF s = 0 THEN d ELSE tree.parent[d]
  <1>2. /\ Request(arena, d, Length(d), Capacity(d), p, s)
        /\ out \in Reserve(arena, d, Length(d), Capacity(d), p, s)
    BY <1>1, AdmitRequest
  <1> HIDE DEF s, p
  <1>3. ArenaInv(arena)
    BY <1>1 DEF Known
  <1>4. Served(arena, out, d, Length(d))
    BY <1>2, <1>3, ReserveKeeps
  <1>5. KeepsHolds(arena, arena')
    BY <1>4 DEF Served, KeepsHolds
  <1>6. plan' = plan /\ op' = op
    BY DEF AdmitNext
  <1>7. Idles
    BY <1>1, <1>6 DEF Idles, Popped, HeldBack, Shapes, IsSched, IsChunk
  <1> QED BY <1>1, <1>5, <1>7, IdlesKeeps

\* One who comes is no longer waited for, and is planned.
LEMMA OneComes ==
    ASSUME BaseInv, Members, HeldInv, Running, NEW d \in Docs, NEW p \in Docs,
           d \notin tree.admitted, d \notin tree.skipped,
           tree.parent[d] # None => ~Spare(d),
           plan' = plan, op' = op, tree'.parent = tree.parent, tree'.skipped = tree.skipped,
           tree'.admitted = tree.admitted \union {d},
           NEW b \in BOOLEAN, tree.parent[d] # None => b,
           Packing' = IF b THEN Packing \union {d} ELSE Packing
    PROVE  /\ tree.parent[d] # p => Coming(p)' = Coming(p) /\ Loading(p)' = Loading(p)
           /\ Cardinality(Coming(p)') + Cardinality(Loading(p)')
                = Cardinality(Coming(p)) + Cardinality(Loading(p))
  <1>1. Docs' = Docs /\ \A e : Spare(e)' = Spare(e)
    <2>1. This' = This /\ \A e, j : Partners(e, j)' = Partners(e, j)
      BY Frozen
    <2> QED BY <2>1, Frozen DEF Spare, Oversized, Capacity, FirstCost, PageCost, Budget
  <1>2. p # None
    <2>1. Queued \notin Docs
      BY PlanIs
    <2> QED BY <2>1 DEF None, Queued
  <1>3. CASE tree.parent[d] # p
    <2>1. Coming(p)' = Coming(p)
      BY <1>1, <1>3 DEF Coming
    <2>2. Loading(p)' = Loading(p)
      BY <1>3 DEF Loading
    <2> QED BY <2>1, <2>2, <1>3
  <1>4. CASE tree.parent[d] = p
    <2>1. ~Spare(d) /\ b
      BY <1>2, <1>4
    <2>2. d \in Coming(p) /\ Coming(p)' = Coming(p) \ {d}
      BY <2>1, <1>1, <1>4 DEF Coming
    <2>3. d \notin Loading(p) /\ Loading(p)' = Loading(p) \union {d}
      BY <2>1, <1>4, FewCome DEF Loading
    <2>4. IsFiniteSet(Coming(p)) /\ IsFiniteSet(Loading(p))
      BY FewCome
    <2> DEFINE C == Coming(p)
               L == Loading(p)
    <2> HIDE DEF C, L
    <2>5. Cardinality(C \ {d}) = Cardinality(C) - 1
      BY <2>2, <2>4, FS_RemoveElement DEF C
    <2>6. Cardinality(L \union {d}) = Cardinality(L) + 1
      BY <2>3, <2>4, FS_AddElement DEF L
    <2>7. Cardinality(C) \in Nat /\ Cardinality(L) \in Nat
      BY <2>4, FS_CardinalityType DEF C, L
    <2>8. Cardinality(C \ {d}) + Cardinality(L \union {d}) = Cardinality(C) + Cardinality(L)
      BY <2>5, <2>6, <2>7
    <2> QED BY <1>4, <2>2, <2>3, <2>8 DEF C, L
  <1> QED BY <1>3, <1>4

\* With pages it is planned, and held for those that borrow from it.
LEMMA AdmitOkHolds ==
    ASSUME BaseInv, QueueInv, Loans, HeldInv, NEW d, AdmitNext(d),
           NEW out \in Reserve(arena, d, Length(d), Capacity(d), tree.parent[d], Borrowed(d)),
           out.ok, AdmitReserved(d, out.arena)
    PROVE  HeldInv'
  <1>1. /\ pc = "admit" /\ Running /\ Shapes /\ Members /\ d \in Docs
        /\ sched.stage[d] = Queued /\ Known(arena) /\ Lending /\ Unplaced
        /\ sched.skipped = <<>>
    BY AdmitIs
  <1>2. /\ tree.parent[d] # None => /\ tree.parent[d] \in tree.skipped \union tree.admitted
                                    /\ tree.parent[d] \in Docs /\ tree.parent[d] # d
                                    /\ Packed(d) > 0 /\ ~Spare(d)
        /\ d \notin tree.admitted /\ d \notin tree.skipped
    BY AdmitAsks
  <1>3. Packing' = IF Packed(d) > 0 THEN Packing \union {d} ELSE Packing
    BY AdmitPacks
  <1>4. plan' = plan /\ op' = op /\ arena' = Reserved(out.arena, d)
    BY DEF AdmitNext, AdmitReserved
  <1>5. /\ tree'.parent = tree.parent /\ tree'.shared = tree.shared /\ tree'.skipped = tree.skipped
        /\ tree'.admitted = tree.admitted \union {d} /\ exec'.borrowers = exec.borrowers
    BY <1>1 DEF AdmitReserved, Shapes, IsTree, IsExec
  <1>6. /\ sched'.stage = [sched.stage EXCEPT ![d] = 1] /\ sched'.carried = sched.carried
        /\ sched'.skipped = sched.skipped
    BY <1>1 DEF AdmitReserved, Popped, Shapes, IsSched
  <1>7. LentTo(out.arena, arena', d, Borrowed(d), tree.parent[d]) /\ out.arena.held = arena.held
    <2> DEFINE s == Borrowed(d)
               p == IF s = 0 THEN d ELSE tree.parent[d]
    <2>1. /\ Request(arena, d, Length(d), Capacity(d), p, s)
          /\ out \in Reserve(arena, d, Length(d), Capacity(d), p, s)
          /\ s \in Nat /\ (s > 0 => tree.parent[d] \in Docs)
      BY <1>1, AdmitRequest
    <2>2. Docs \subseteq Keys
      BY PlanIs
    <2>3. s > 0 => tree.parent[d] \in Keys
      BY <2>1, <2>2
    <2> HIDE DEF s, p
    <2>4. ArenaInv(arena)
      BY <1>1 DEF Known
    <2>5. ArenaInv(out.arena) /\ Served(arena, out, d, Length(d))
      BY <2>1, <2>4, ReserveKeeps
    <2>6. LentTo(out.arena, arena', d, s, tree.parent[d])
      BY <1>1, <1>4, <2>3, <2>5, ReservedLends DEF s
    <2> QED BY <2>5, <2>6 DEF s, Served
  <1>8. HeldForThem /\ NotYetHeld /\ Borrowers
    BY <1>1 DEF HeldInv
  <1>9. ASSUME NEW p \in Docs
        PROVE  /\ tree.parent[d] # p => Coming(p)' = Coming(p) /\ Loading(p)' = Loading(p)
               /\ Cardinality(Coming(p)') + Cardinality(Loading(p)')
                    = Cardinality(Coming(p)) + Cardinality(Loading(p))
    <2> DEFINE b == Packed(d) > 0
    <2>1. b \in BOOLEAN /\ (tree.parent[d] # None => b /\ ~Spare(d))
      BY <1>2
    <2>2. Packing' = IF b THEN Packing \union {d} ELSE Packing
      BY <1>3
    <2> HIDE DEF b
    <2> QED BY <1>1, <1>2, <1>4, <1>5, <2>1, <2>2, OneComes
  <1>10. Docs' = Docs /\ (\A e : Length(e)' = Length(e)) /\ (\A e : Spare(e)' = Spare(e))
    <2>1. This' = This /\ \A e, j : Partners(e, j)' = Partners(e, j)
      BY <1>4, Frozen
    <2> QED BY <1>4, <2>1, Frozen DEF Spare, Oversized, Capacity, FirstCost, PageCost, Budget
  <1>11. Docs \subseteq Keys
    BY PlanIs
  <1>12. \A k \in Keys : k # d => arena'.held[k] = arena.held[k]
    BY <1>7 DEF LentTo
  <1>13. ASSUME NEW p \in Docs, arena'.held[p] > 0
         PROVE  arena'.held[p] = Cardinality(Coming(p)') + Cardinality(Loading(p)')
    <2>1. CASE p # d
      <3>1. arena'.held[p] = arena.held[p]
        BY <1>11, <1>12, <2>1
      <3>2. arena.held[p] = Cardinality(Coming(p)) + Cardinality(Loading(p))
        BY <1>8, <1>13, <3>1 DEF HeldForThem
      <3> QED BY <1>9, <3>1, <3>2
    <2>2. CASE p = d
      <3>1. arena.held[d] = 0 /\ exec.borrowers[d] = Cardinality(Coming(d))
        BY <1>1, <1>2, <1>8 DEF NotYetHeld
      <3>2. arena'.held[d] = 0 + exec.borrowers[d]
        BY <1>7, <1>13, <2>2, <3>1 DEF LentTo
      <3>3. Loading(d) = {}
        <4>1. ASSUME NEW e \in Loading(d) PROVE FALSE
          <5>1. e \in tree.admitted /\ tree.parent[e] = d /\ e \in Docs
            BY <1>1, <4>1, FewCome DEF Loading
          <5>2. d # None
            BY <1>1, PlanIs DEF None, Queued
          <5> QED BY <1>2, <1>8, <5>1, <5>2 DEF Borrowers
        <4> QED BY <4>1
      <3>4. tree.parent[d] # d
        BY <1>1, <1>2, PlanIs DEF None, Queued
      <3>5. Coming(d)' = Coming(d) /\ Loading(d)' = {}
        BY <1>1, <1>9, <3>3, <3>4
      <3>6. Cardinality(Coming(d)) \in Nat /\ Cardinality({}) = 0
        BY <1>1, FewCome, FS_CardinalityType, FS_EmptySet
      <3> QED BY <2>2, <3>1, <3>2, <3>5, <3>6
    <2> QED BY <2>1, <2>2
  <1>14. HeldForThem'
    BY <1>10, <1>13 DEF HeldForThem
  <1>15. NotYetHeld'
    <2>1. ASSUME NEW p \in Docs, p \notin tree'.admitted
          PROVE  arena'.held[p] = 0 /\ (p \notin tree'.skipped =>
                    exec'.borrowers[p] = Cardinality(Coming(p)'))
      <3>1. p # d /\ p \notin tree.admitted
        BY <1>5, <2>1
      <3>2. arena'.held[p] = 0
        BY <1>8, <1>11, <1>12, <3>1 DEF NotYetHeld
      <3>3. ASSUME p \notin tree.skipped
            PROVE  exec.borrowers[p] = Cardinality(Coming(p)')
        <4>1. p # None
          BY PlanIs DEF None, Queued
        <4>2. tree.parent[d] # p
          BY <1>2, <3>1, <3>3, <4>1
        <4> QED BY <1>8, <1>9, <3>1, <3>3, <4>2 DEF NotYetHeld
      <3> QED BY <1>5, <3>2, <3>3
    <2> QED BY <1>10, <2>1 DEF NotYetHeld
  <1>16. Borrowers'
    <2>1. sched.stage \in [Docs -> Stages \union {Queued, Done}] /\ 1 # Queued
      BY <1>1, PlanIs DEF Members, Types, Queued
    <2>2. \A e \in Docs : sched'.stage[e] = Queued => sched.stage[e] = Queued
      BY <1>1, <1>6, <2>1
    <2> QED BY <1>2, <1>5, <1>6, <1>8, <1>10, <2>2 DEF Borrowers
  <1>17. SkipsOnce'
    BY <1>1, <1>5, <1>6 DEF HeldInv, SkipsOnce
  <1> QED BY <1>14, <1>15, <1>16, <1>17 DEF HeldInv

\* Either way the holds are for those that come.
LEMMA AdmitHolds ==
    ASSUME BaseInv, QueueInv, Loans, HeldInv, NEW d, AdmitNext(d)
    PROVE  HeldInv'
  <1>1. PICK out \in Reserve(arena, d, Length(d), Capacity(d), tree.parent[d], Borrowed(d)) :
           IF out.ok THEN AdmitReserved(d, out.arena)
           ELSE /\ arena' = out.arena
                /\ sched' = Popped
                /\ chunk' = HeldBack(d)
                /\ pc' = "close"
                /\ UNCHANGED <<tree, exec>>
    BY DEF AdmitNext
  <1>2. CASE out.ok
    BY <1>1, <1>2, AdmitOkHolds
  <1>3. CASE ~out.ok
    BY <1>1, <1>3, AdmitFailsHolds
  <1> QED BY <1>2, <1>3

-----------------------------------------------------------------------------
(* Holds when a pass is submitted.                                         *)
\* The borrowers of p whose group has not let go of it yet.
Owing(p, n) ==
    {d \in Docs : /\ tree.parent[d] = p
                  /\ \E i \in 1 .. Len(chunk.groups) :
                       /\ i > n /\ chunk.groups[i].doc = d
                       /\ chunk.groups[i].carried /\ chunk.groups[i].start = 0}

\* What is held is held for those that come and those still to let go.
OwedSoFar(A, n) ==
    /\ GoneSoFar(A, n)
    /\ \A p \in Docs : A.held[p] > 0 =>
          A.held[p] = Cardinality(Coming(p)) + Cardinality(Owing(p, n))

\* One more group lets go of its hold.
LEMMA LetGoOwes ==
    ASSUME BaseInv, Members, Lending, Reading, ArenaInv(arena), NEW n \in Nat, n < Len(chunk.groups),
           NEW A, OwedSoFar(A, n)
    PROVE  OwedSoFar(LetGo(A, chunk.groups[n + 1]), n + 1)
  <1> DEFINE g == chunk.groups[n + 1]
             B == LetGo(A, g)
             N == Len(chunk.groups)
             C == g.carried /\ g.start = 0
  <1>1. GoneSoFar(B, n + 1) /\ Unholds(A, B, g)
    BY LetGoKeeps DEF OwedSoFar
  <1>2. /\ N \in Nat /\ n + 1 \in 1 .. N /\ g.doc \in Docs
        /\ \A i \in 1 .. N : chunk.groups[i].doc = g.doc => i = n + 1
    <2>1. chunk.groups \in Seq(GroupType) /\ Once(chunk.groups)
      BY DEF Members, Types, Lists
    <2>2. DOMAIN chunk.groups = 1 .. Len(chunk.groups) /\ Len(chunk.groups) \in Nat
      BY <2>1
    <2>3. n + 1 \in 1 .. Len(chunk.groups)
      BY <2>2
    <2>4. g \in GroupType
      BY <2>1, <2>2, <2>3
    <2> QED BY <2>1, <2>2, <2>3, <2>4 DEF Once, GroupType
  <1>3. ArenaInv(A) /\ \A k \in Docs : A.held[k] \in Nat
    BY ArenaFields, PlanIs DEF OwedSoFar, GoneSoFar, Yields, ArenaInv
  <1>4. ASSUME NEW p \in Docs
        PROVE  /\ IsFiniteSet(Owing(p, n)) /\ Cardinality(Owing(p, n)) \in Nat
               /\ IsFiniteSet(Coming(p)) /\ Cardinality(Coming(p)) \in Nat
    <2>1. Owing(p, n) \subseteq Docs
      BY DEF Owing
    <2>2. IsFiniteSet(Owing(p, n)) /\ IsFiniteSet(Coming(p))
      BY <2>1, PlanIs, FewCome, FS_Subset
    <2> QED BY <2>2, FS_CardinalityType
  <1> HIDE DEF B
  <1>5. ASSUME NEW p \in Docs
        PROVE  /\ C /\ p = tree.parent[g.doc] =>
                     g.doc \in Owing(p, n) /\ Owing(p, n + 1) = Owing(p, n) \ {g.doc}
               /\ ~(C /\ p = tree.parent[g.doc]) => Owing(p, n + 1) = Owing(p, n)
    <2>1. \A i \in 1 .. N : i > n <=> i > n + 1 \/ i = n + 1
      BY <1>2
    <2>2. CASE C /\ p = tree.parent[g.doc]
      <3>1. g.doc \in Owing(p, n)
        BY <1>2, <2>1, <2>2 DEF Owing
      <3>2. g.doc \notin Owing(p, n + 1)
        <4>1. ~(n + 1 > n + 1)
          OBVIOUS
        <4> QED BY <1>2, <4>1 DEF Owing
      <3>3. Owing(p, n + 1) \subseteq Owing(p, n)
        BY <2>1 DEF Owing
      <3>4. ASSUME NEW d \in Owing(p, n), d # g.doc PROVE d \in Owing(p, n + 1)
        BY <1>2, <2>1, <3>4 DEF Owing
      <3> QED BY <2>2, <3>1, <3>2, <3>3, <3>4
    <2>3. CASE ~(C /\ p = tree.parent[g.doc])
      <3>1. Owing(p, n + 1) \subseteq Owing(p, n)
        BY <2>1 DEF Owing
      <3>2. ASSUME NEW d \in Owing(p, n) PROVE d \in Owing(p, n + 1)
        <4>1. PICK i \in 1 .. N : /\ i > n /\ chunk.groups[i].doc = d
                                  /\ chunk.groups[i].carried /\ chunk.groups[i].start = 0
          BY <3>2 DEF Owing
        <4>2. d \in Docs /\ tree.parent[d] = p
          BY <3>2 DEF Owing
        <4>3. i # n + 1
          BY <2>3, <4>1, <4>2
        <4> QED BY <2>1, <4>1, <4>2, <4>3 DEF Owing
      <3> QED BY <2>3, <3>1, <3>2
    <2> QED BY <2>2, <2>3
  <1>6. ASSUME NEW p \in Docs, B.held[p] > 0
        PROVE  B.held[p] = Cardinality(Coming(p)) + Cardinality(Owing(p, n + 1))
    <2>1. CASE C /\ p = tree.parent[g.doc]
      <3>1. B.held[p] = IF A.held[p] > 0 THEN A.held[p] - 1 ELSE 0
        BY <1>1, <2>1 DEF Unholds
      <3>2. A.held[p] > 0 /\ B.held[p] = A.held[p] - 1
        BY <1>6, <3>1
      <3>3. A.held[p] = Cardinality(Coming(p)) + Cardinality(Owing(p, n))
        BY <3>2 DEF OwedSoFar
      <3> DEFINE T == Owing(p, n)
      <3>4. IsFiniteSet(T) /\ g.doc \in T /\ Owing(p, n + 1) = T \ {g.doc}
        BY <1>4, <1>5, <2>1
      <3>5. Cardinality(T) \in Nat /\ Cardinality(Coming(p)) \in Nat
            /\ A.held[p] = Cardinality(Coming(p)) + Cardinality(T)
        BY <1>4, <3>3
      <3> HIDE DEF T
      <3>6. Cardinality(T \ {g.doc}) = Cardinality(T) - 1
        BY ZenonT(30), <3>4, FS_RemoveElement
      <3>7. B.held[p] = Cardinality(Coming(p)) + Cardinality(T \ {g.doc})
        BY <3>2, <3>5, <3>6
      <3> QED BY <3>4, <3>7
    <2>2. CASE ~(C /\ p = tree.parent[g.doc])
      <3>1. B.held[p] = A.held[p]
        BY <1>1, <2>2 DEF Unholds
      <3>2. A.held[p] = Cardinality(Coming(p)) + Cardinality(Owing(p, n))
        BY <1>6, <3>1 DEF OwedSoFar
      <3> QED BY <1>5, <2>2, <3>1, <3>2
    <2> QED BY <2>1, <2>2
  <1>7. OwedSoFar(B, n + 1)
    BY <1>1, <1>6 DEF OwedSoFar
  <1> QED BY <1>7 DEF B

\* Once they all did, only those that come are held for.
LEMMA LetGoAllOwes ==
    ASSUME BaseInv, Members, Lending, Reading, ArenaInv(arena), HeldForThem
    PROVE  /\ Yields(arena, LetGoAll)
           /\ \A p \in Docs : LetGoAll.held[p] > 0 => LetGoAll.held[p] = Cardinality(Coming(p))
  <1> DEFINE N == Len(chunk.groups)
  <1>1. N \in Nat /\ DOMAIN chunk.groups = 1 .. N
    <2>1. chunk.groups \in Seq(GroupType)
      BY DEF Members, Types
    <2>2. N \in Nat /\ DOMAIN chunk.groups = 1 .. N
      BY <2>1
    <2> QED BY <2>2
  <1>2. PICK f : LetsGoOf(f) /\ LetGoAll = f[N]
    BY <1>1, LetGoAllIs
  <1>3. f[0] = arena /\ \A n \in Nat : n < N => f[n + 1] = LetGo(f[n], chunk.groups[n + 1])
    BY <1>1, <1>2 DEF LetsGoOf
  <1>4. \A p \in Docs : Owing(p, 0) = Loading(p)
    <2>1. ASSUME NEW p \in Docs, NEW d \in Loading(p) PROVE d \in Owing(p, 0)
      <3>1. PICK g \in Range(chunk.groups) : g.doc = d /\ g.carried /\ g.start = 0
        BY <2>1 DEF Loading, Packing
      <3>2. PICK i \in 1 .. N : chunk.groups[i] = g
        BY <1>1, <3>1 DEF Range
      <3>3. i > 0 /\ d \in Docs /\ tree.parent[d] = p
        BY <1>1, <2>1, FewCome DEF Loading
      <3> QED BY <3>1, <3>2, <3>3 DEF Owing
    <2>2. ASSUME NEW p \in Docs, NEW d \in Owing(p, 0) PROVE d \in Loading(p)
      <3>1. PICK i \in 1 .. N : /\ chunk.groups[i].doc = d
                                /\ chunk.groups[i].carried /\ chunk.groups[i].start = 0
        BY <2>2 DEF Owing
      <3>2. chunk.groups[i] \in Range(chunk.groups)
        BY <1>1, <3>1 DEF Range
      <3>3. d \in Packing
        BY <3>1, <3>2 DEF Packing
      <3> QED BY <2>2, <3>3 DEF Owing, Loading
    <2> QED BY <2>1, <2>2
  <1> HIDE DEF N
  <1> DEFINE T == {n \in Nat : n <= N => OwedSoFar(f[n], n)}
  <1>5. 0 \in T
    <2>1. \A k : Still(k, 0) = ReadersOf(k)
      BY DEF Still, ReadersOf
    <2>2. Yields(arena, arena)
      BY YieldsNothing
    <2>3. GoneSoFar(arena, 0)
      BY <2>1, <2>2 DEF GoneSoFar, Reading
    <2>4. OwedSoFar(arena, 0)
      BY <1>4, <2>3 DEF OwedSoFar, HeldForThem
    <2> QED BY <1>3, <2>4
  <1>6. ASSUME NEW n \in Nat, n \in T PROVE n + 1 \in T
    <2> SUFFICES ASSUME n + 1 <= N PROVE OwedSoFar(f[n + 1], n + 1)
      OBVIOUS
    <2>1. n < N /\ n <= N
      BY <1>1
    <2>2. OwedSoFar(f[n], n)
      BY <1>6, <2>1
    <2>3. OwedSoFar(LetGo(f[n], chunk.groups[n + 1]), n + 1)
      BY <2>1, <2>2, LetGoOwes DEF N
    <2> QED BY <1>3, <2>1, <2>3
  <1> HIDE DEF T
  <1>7. N \in T
    BY <1>1, <1>5, <1>6, UpTo
  <1>8. OwedSoFar(LetGoAll, N)
    BY <1>1, <1>2, <1>7 DEF T
  <1>9. ASSUME NEW p \in Docs PROVE Owing(p, N) = {}
    <2>1. \A i \in 1 .. N : ~(i > N)
      BY <1>1
    <2> QED BY <2>1 DEF Owing, N
  <1>10. ASSUME NEW p \in Docs, LetGoAll.held[p] > 0
         PROVE  LetGoAll.held[p] = Cardinality(Coming(p))
    <2>1. LetGoAll.held[p] = Cardinality(Coming(p)) + Cardinality(Owing(p, N))
      BY <1>8, <1>10 DEF OwedSoFar
    <2>2. Cardinality({}) = 0 /\ Cardinality(Coming(p)) \in Nat
      BY FewCome, FS_EmptySet, FS_CardinalityType
    <2> QED BY <1>9, <2>1, <2>2
  <1> QED BY <1>8, <1>10 DEF OwedSoFar, GoneSoFar

\* A submitted pass keeps nothing on its way.
LEMMA SubmitHolds ==
    ASSUME BaseInv, QueueInv, Loans, HeldInv, Submit
    PROVE  HeldInv'
  <1>1. pc = "submit" /\ Running /\ Members /\ Shapes /\ HeldForThem /\ NotYetHeld /\ Borrowers
        /\ SkipsOnce
    BY DEF Submit, Running, QueueInv, HeldInv
  <1>2. ArenaInv(arena) /\ Lending /\ Reading
    BY <1>1 DEF Loans, Known, LoansInv
  <1>3. /\ Yields(arena, arena')
        /\ \A p \in Docs : arena'.held[p] > 0 => arena'.held[p] = Cardinality(Coming(p))
    BY <1>1, <1>2, LetGoAllOwes DEF Submit
  <1>4. plan' = plan /\ op' = op /\ tree' = tree /\ sched' = sched
    BY DEF Submit
  <1>5. exec'.borrowers = exec.borrowers /\ chunk'.groups = <<>>
    BY <1>1 DEF Submit, Shapes, IsExec, NoChunk
  <1>6. Packing' = {} /\ \A p : Loading(p)' = {}
    <2>1. Packing' = {}
      BY <1>5, EmptyIs DEF Packing
    <2> QED BY <2>1 DEF Loading
  <1>7. /\ Docs' = Docs /\ (\A d : Length(d)' = Length(d)) /\ (\A d : Spare(d)' = Spare(d))
    <2>1. This' = This /\ \A d, j : Partners(d, j)' = Partners(d, j)
      BY <1>4, Frozen
    <2> QED BY <1>4, <2>1, Frozen DEF Spare, Oversized, Capacity, FirstCost, PageCost, Budget
  <1>8. \A p : Coming(p)' = Coming(p)
    BY <1>4, <1>7 DEF Coming
  <1>9. HeldForThem'
    <2>1. ASSUME NEW p \in Docs, arena'.held[p] > 0
          PROVE  arena'.held[p] = Cardinality(Coming(p)') + Cardinality(Loading(p)')
      <3>1. arena'.held[p] = Cardinality(Coming(p)) /\ Cardinality(Coming(p)) \in Nat
        BY <1>1, <1>3, <2>1, FewCome, FS_CardinalityType
      <3>2. Cardinality({}) = 0
        BY FS_EmptySet
      <3> QED BY <1>6, <1>8, <3>1, <3>2
    <2> QED BY <1>7, <2>1 DEF HeldForThem
  <1>10. NotYetHeld'
    <2>1. ASSUME NEW p \in Docs, p \notin tree.admitted PROVE arena'.held[p] = 0
      <3>1. p \in Keys /\ arena.held[p] = 0
        BY <1>1, <2>1, PlanIs DEF NotYetHeld
      <3>2. arena'.held[p] \in Nat /\ arena'.held[p] <= arena.held[p]
        BY <1>3, <3>1, ArenaFields DEF Yields, Lets, ArenaInv
      <3> QED BY <3>1, <3>2
    <2> QED BY <1>1, <1>4, <1>5, <1>7, <1>8, <2>1 DEF NotYetHeld
  <1>11. Borrowers' /\ SkipsOnce'
    BY <1>1, <1>4, <1>7 DEF Borrowers, SkipsOnce
  <1> QED BY <1>9, <1>10, <1>11 DEF HeldInv

-----------------------------------------------------------------------------
(* Holds when documents are skipped.                                       *)
\* What a skipped document lets go: a hold on its parent, when that was admitted.
Unwaits(A, B, d) ==
    \A k \in Docs : B.held[k] =
        IF k \in tree.admitted /\ k = tree.parent[d]
        THEN IF A.held[k] > 0 THEN A.held[k] - 1 ELSE 0
        ELSE A.held[k]

\* Freeing a skipped document's pages takes no hold.
LEMMA SkipOneUnwaits ==
    ASSUME BaseInv, Members, NEW A, ArenaInv(A), NEW d
    PROVE  Unwaits(A, SkipOne(A, d), d)
  <1> DEFINE p == tree.parent[d]
             R == IF p \in tree.admitted THEN Release(A, p) ELSE A
             B == IF d \in Resident(R) THEN FreeKey(R, d) ELSE R
  <1>1. SkipOne(A, d) = B
    BY DEF SkipOne
  <1>2. tree.admitted \subseteq Keys /\ Docs \subseteq Keys
    BY PlanIs DEF Members, Types
  <1>3. Unwaits(A, R, d) /\ R \in Arena
    <2>1. CASE p \in tree.admitted
      <3>1. p \in Keys /\ R = Release(A, p)
        BY <1>2, <2>1
      <3> HIDE DEF R
      <3>2. ArenaInv(R) /\ Released(A, R, p)
        BY <3>1, ReleaseKeeps, ReleaseSheds
      <3>3. \A k \in Keys : R.held[k] =
               IF k = p THEN IF A.held[k] > 0 THEN A.held[k] - 1 ELSE 0 ELSE A.held[k]
        BY <3>1, <3>2 DEF Released
      <3> QED BY <1>2, <2>1, <3>2, <3>3 DEF Unwaits, ArenaInv
    <2>2. CASE p \notin tree.admitted
      BY <2>2 DEF Unwaits, ArenaInv
    <2> QED BY <2>1, <2>2
  <1> HIDE DEF R
  <1>4. B.held = R.held
    BY <1>3, FreeHolds DEF FreeKey
  <1> HIDE DEF B
  <1>5. Unwaits(A, B, d)
    BY <1>3, <1>4 DEF Unwaits
  <1> QED BY <1>1, <1>5

\* The borrowers of p that may still come once n documents were skipped.
Awaiting(p, n) == Coming(p) \ {sched.skipped[i] : i \in 1 .. n}

\* The arena once n documents were skipped.
WaitingSoFar(A, n) ==
    /\ Skipping(A, n)
    /\ \A p \in Docs : A.held[p] > 0 =>
          A.held[p] = Cardinality(Awaiting(p, n)) + Cardinality(Loading(p))

\* A document about to be skipped is one of those waited for.
LEMMA SkippedComes ==
    ASSUME BaseInv, Members, Borrowers, SkipsOnce, NEW d \in Range(sched.skipped)
    PROVE  /\ d \in Docs
           /\ \A p \in Docs : d \in Coming(p) <=> tree.parent[d] = p
           /\ tree.parent[d] \in Docs => ~Spare(d)
  <1>1. d \in Docs
    <2>1. sched.skipped \in Seq(Docs)
      BY DEF Members, Types
    <2> QED BY <2>1, RangeIn
  <1>2. d \notin tree.admitted /\ d \notin tree.skipped
    BY DEF Members, Queues, SkipsOnce
  <1>3. tree.parent[d] \in Docs => ~Spare(d)
    <2>1. None \notin Docs
      BY PlanIs DEF None, Queued
    <2> QED BY <1>1, <2>1 DEF Borrowers
  <1> QED BY <1>1, <1>2, <1>3 DEF Coming

\* One more document is skipped.
LEMMA SkipOneWaits ==
    ASSUME BaseInv, Members, Borrowers, SkipsOnce, ArenaInv(arena), NotYetHeld,
           NEW n \in Nat, n < Len(sched.skipped), NEW A, WaitingSoFar(A, n)
    PROVE  WaitingSoFar(SkipOne(A, sched.skipped[n + 1]), n + 1)
  <1> DEFINE d == sched.skipped[n + 1]
             B == SkipOne(A, d)
  <1>1. Skipping(A, n) /\ Skipping(B, n + 1)
    BY SkipOneKeeps DEF WaitingSoFar
  <1>2. ArenaInv(A) /\ Unwaits(A, B, d)
    BY <1>1, SkipOneUnwaits DEF Skipping, Yields
  <1>3. d \in Range(sched.skipped) /\ \A i \in 1 .. n : sched.skipped[i] # d
    <2>1. sched.skipped \in Seq(Docs) /\ NoRepeats(sched.skipped)
      BY DEF Members, Types, SkipsOnce
    <2>2. DOMAIN sched.skipped = 1 .. Len(sched.skipped) /\ Len(sched.skipped) \in Nat
      BY <2>1
    <2>3. n + 1 \in 1 .. Len(sched.skipped)
      BY <2>2
    <2>4. ASSUME NEW i \in 1 .. n PROVE i \in 1 .. Len(sched.skipped) /\ i # n + 1
      BY <2>2
    <2> QED BY <2>1, <2>2, <2>3, <2>4 DEF NoRepeats, Range
  <1>4. /\ d \in Docs /\ (\A p \in Docs : d \in Coming(p) <=> tree.parent[d] = p)
        /\ tree.parent[d] \in Docs => ~Spare(d)
    BY <1>3, SkippedComes
  <1>5. ASSUME NEW p PROVE Awaiting(p, n + 1) = Awaiting(p, n) \ {d}
    <2>1. \A i : i \in 1 .. n + 1 <=> i \in 1 .. n \/ i = n + 1
      OBVIOUS
    <2> QED BY <2>1 DEF Awaiting
  <1>6. \A p \in Docs : A.held[p] \in Nat /\ A.held[p] <= arena.held[p] /\ arena.held[p] \in Nat
    BY <1>1, <1>2, PlanIs, ArenaFields DEF Skipping, Yields, Lets, ArenaInv
  <1> HIDE DEF B
  <1>7. ASSUME NEW p \in Docs, B.held[p] > 0
        PROVE  B.held[p] = Cardinality(Awaiting(p, n + 1)) + Cardinality(Loading(p))
    <2> DEFINE T == Awaiting(p, n)
               L == Cardinality(Loading(p))
    <2>1. IsFiniteSet(T) /\ Cardinality(T) \in Nat /\ L \in Nat
      <3>1. T \subseteq Coming(p) /\ IsFiniteSet(Coming(p)) /\ IsFiniteSet(Loading(p))
        BY FewCome DEF Awaiting
      <3> QED BY <3>1, FS_Subset, FS_CardinalityType
    <2>2. A.held[p] > 0 => A.held[p] = Cardinality(T) + L
      BY DEF WaitingSoFar
    <2>3. Awaiting(p, n + 1) = T \ {d}
      BY <1>5
    <2>4. d \in T <=> tree.parent[d] = p
      BY <1>3, <1>4 DEF Awaiting
    <2>5. p \in tree.admitted
      <3>1. CASE A.held[p] > 0
        <4>1. arena.held[p] > 0
          BY <1>6, <3>1
        <4> QED BY <4>1 DEF NotYetHeld
      <3>2. CASE ~(A.held[p] > 0)
        <4>1. A.held[p] = 0
          BY <1>6, <3>2
        <4>2. B.held[p] = 0
          BY <1>2, <4>1 DEF Unwaits
        <4> QED BY <1>7, <4>2
      <3> QED BY <3>1, <3>2
    <2> HIDE DEF T, L
    <2>6. CASE tree.parent[d] = p
      <3>1. B.held[p] = IF A.held[p] > 0 THEN A.held[p] - 1 ELSE 0
        BY <1>2, <2>5, <2>6 DEF Unwaits
      <3>2. A.held[p] > 0 /\ B.held[p] = A.held[p] - 1
        BY <1>7, <3>1
      <3>3. Cardinality(T \ {d}) = Cardinality(T) - 1
        <4> HIDE DEF d
        <4>1. d \in T /\ IsFiniteSet(T)
          BY <2>1, <2>4, <2>6
        <4> QED BY <4>1, FS_RemoveElement
      <3>4. B.held[p] = Cardinality(T \ {d}) + L
        BY <2>1, <2>2, <3>2, <3>3
      <3> QED BY <2>3, <3>4 DEF L
    <2>7. CASE tree.parent[d] # p
      <3>1. B.held[p] = A.held[p]
        BY <1>2, <2>7 DEF Unwaits
      <3>2. T \ {d} = T
        BY <2>4, <2>7
      <3> QED BY <1>7, <2>2, <2>3, <3>1, <3>2 DEF L
    <2> QED BY <2>6, <2>7
  <1>8. WaitingSoFar(B, n + 1)
    BY <1>1, <1>7 DEF WaitingSoFar, B
  <1> QED BY <1>8 DEF B

\* Once they all were, none of them is held for.
LEMMA SkipAllWaits ==
    ASSUME BaseInv, Members, Borrowers, SkipsOnce, ArenaInv(arena), NotYetHeld, HeldForThem
    PROVE  /\ Yields(arena, SkipAll)
           /\ \A p \in Docs : SkipAll.held[p] > 0 => SkipAll.held[p] =
                 Cardinality(Coming(p) \ Range(sched.skipped)) + Cardinality(Loading(p))
  <1> DEFINE N == Len(sched.skipped)
  <1>1. N \in Nat /\ DOMAIN sched.skipped = 1 .. N
    <2>1. sched.skipped \in Seq(Docs)
      BY DEF Members, Types
    <2>2. N \in Nat /\ DOMAIN sched.skipped = 1 .. N
      BY <2>1
    <2> QED BY <2>2
  <1>2. PICK f : SkipsOf(f) /\ SkipAll = f[N]
    BY <1>1, SkipAllIs
  <1>3. f[0] = arena /\ \A n \in Nat : n < N => f[n + 1] = SkipOne(f[n], sched.skipped[n + 1])
    BY <1>1, <1>2 DEF SkipsOf
  <1> HIDE DEF N
  <1> DEFINE T == {n \in Nat : n <= N => WaitingSoFar(f[n], n)}
  <1>4. 0 \in T
    <2>1. Yields(arena, arena)
      BY YieldsNothing
    <2>2. Skipping(arena, 0)
      BY <2>1 DEF Skipping
    <2>3. \A p : Awaiting(p, 0) = Coming(p)
      BY DEF Awaiting
    <2>4. WaitingSoFar(arena, 0)
      BY <2>2, <2>3 DEF WaitingSoFar, HeldForThem
    <2> QED BY <1>3, <2>4
  <1>5. ASSUME NEW n \in Nat, n \in T PROVE n + 1 \in T
    <2> SUFFICES ASSUME n + 1 <= N PROVE WaitingSoFar(f[n + 1], n + 1)
      OBVIOUS
    <2>1. n < N /\ n <= N
      BY <1>1
    <2>2. WaitingSoFar(f[n], n)
      BY <1>5, <2>1
    <2>3. WaitingSoFar(SkipOne(f[n], sched.skipped[n + 1]), n + 1)
      BY <2>1, <2>2, SkipOneWaits DEF N
    <2> QED BY <1>3, <2>1, <2>3
  <1> HIDE DEF T
  <1>6. N \in T
    BY <1>1, <1>4, <1>5, UpTo
  <1>7. WaitingSoFar(SkipAll, N)
    BY <1>1, <1>2, <1>6 DEF T
  <1>8. \A p : Awaiting(p, N) = Coming(p) \ Range(sched.skipped)
    BY <1>1 DEF Awaiting, Range
  <1> QED BY <1>7, <1>8 DEF WaitingSoFar, Skipping

\* Skipped documents are taken off their parents' counts.
LEMMA EntryReportedHolds ==
    ASSUME BaseInv, QueueInv, Loans, HeldInv, EntryReported
    PROVE  HeldInv'
  <1> DEFINE K == Range(sched.skipped)
             gone(p) == {d \in K : tree.parent[d] = p}
  <1>1. /\ pc = "report" /\ plan' = plan /\ op' = op /\ chunk' = chunk
        /\ arena' = SkipAll
        /\ sched' = [sched EXCEPT !.skipped = <<>>]
        /\ tree' = [tree EXCEPT !.skipped = @ \union K]
        /\ exec' = [exec EXCEPT
                          !.outstanding = Tail(@),
                          !.borrowers = [p \in Docs |->
                              IF p \in tree.admitted THEN @[p]
                              ELSE @[p] - Cardinality(gone(p))]]
    BY DEF EntryReported, PassReported
  <1>2. Running /\ Shapes /\ Members
    BY <1>1 DEF QueueInv, Running
  <1>3. HeldForThem /\ NotYetHeld /\ Borrowers /\ SkipsOnce /\ ArenaInv(arena)
    BY <1>2 DEF HeldInv, Loans, Known
  <1>4. sched'.skipped = <<>> /\ sched'.stage = sched.stage /\ sched'.carried = sched.carried
    BY <1>1, <1>2 DEF Shapes, IsSched
  <1>5. /\ tree'.parent = tree.parent /\ tree'.shared = tree.shared
        /\ tree'.admitted = tree.admitted /\ tree'.skipped = tree.skipped \union K
    BY <1>1, <1>2 DEF Shapes, IsTree
  <1>6. exec'.borrowers = [p \in Docs |-> IF p \in tree.admitted THEN exec.borrowers[p]
                                          ELSE exec.borrowers[p] - Cardinality(gone(p))]
    <2> HIDE DEF gone
    <2> QED BY <1>1, <1>2 DEF Shapes, IsExec
  <1>7. /\ Docs' = Docs /\ (\A d : Length(d)' = Length(d)) /\ (\A d : Spare(d)' = Spare(d))
    <2>1. This' = This /\ \A d, j : Partners(d, j)' = Partners(d, j)
      BY <1>1, Frozen
    <2> QED BY <1>1, <2>1, Frozen DEF Spare, Oversized, Capacity, FirstCost, PageCost, Budget
  <1>8. Packing' = Packing /\ \A p : Loading(p)' = Loading(p)
    <2>1. Packing' = Packing
      BY <1>1 DEF Packing
    <2> QED BY <1>5, <2>1 DEF Loading
  <1>9. ASSUME NEW p \in Docs
        PROVE  /\ Coming(p)' = Coming(p) \ K
               /\ gone(p) \subseteq Coming(p) /\ Coming(p) \ gone(p) = Coming(p) \ K
    <2>1. \A d \in K : /\ d \in Docs /\ (d \in Coming(p) <=> tree.parent[d] = p)
                       /\ tree.parent[d] = p => ~Spare(d)
      BY <1>2, <1>3, SkippedComes
    <2>2. Coming(p)' = Coming(p) \ K
      BY <1>5, <1>7, <2>1 DEF Coming
    <2> QED BY <2>1, <2>2
  <1>10. ASSUME NEW p \in Docs
         PROVE  Cardinality(Coming(p)') = Cardinality(Coming(p)) - Cardinality(gone(p))
    <2> DEFINE C == Coming(p)
               G == gone(p)
    <2>1. IsFiniteSet(C) /\ C \intersect G = G
      BY <1>2, <1>9, FewCome
    <2>2. Coming(p)' = C \ G
      BY <1>9
    <2> HIDE DEF C, G
    <2>3. Cardinality(C \ G) = Cardinality(C) - Cardinality(G)
      BY <2>1, FS_Difference
    <2> QED BY <2>2, <2>3 DEF C, G
  <1> HIDE DEF gone
  <1>11. /\ Yields(arena, arena')
         /\ \A p \in Docs : arena'.held[p] > 0 => arena'.held[p] =
               Cardinality(Coming(p) \ K) + Cardinality(Loading(p))
    BY <1>1, <1>2, <1>3, SkipAllWaits
  <1> HIDE DEF K
  <1>12. HeldForThem'
    BY <1>7, <1>8, <1>9, <1>11 DEF HeldForThem
  <1>13. NotYetHeld'
    <2>1. ASSUME NEW p \in Docs, p \notin tree.admitted
          PROVE  arena'.held[p] = 0
      <3>1. p \in Keys /\ arena.held[p] = 0
        BY <1>3, <2>1, PlanIs DEF NotYetHeld
      <3>2. arena'.held[p] \in Nat /\ arena'.held[p] <= arena.held[p]
        BY <1>11, <3>1, ArenaFields DEF Yields, Lets, ArenaInv
      <3> QED BY <3>1, <3>2
    <2>2. ASSUME NEW p \in Docs, p \notin tree.admitted, p \notin tree.skipped
          PROVE  exec'.borrowers[p] = Cardinality(Coming(p)')
      <3>1. exec.borrowers[p] = Cardinality(Coming(p))
        BY <1>3, <2>2 DEF NotYetHeld
      <3>2. exec'.borrowers[p] = exec.borrowers[p] - Cardinality(gone(p))
        BY <1>6, <2>2
      <3> QED BY <1>10, <3>1, <3>2
    <2> QED BY <1>5, <1>7, <2>1, <2>2 DEF NotYetHeld
  <1>14. Borrowers'
    <2>1. Range(<<>>) = {}
      BY EmptyIs
    <2> QED BY <1>3, <1>4, <1>5, <1>7, <2>1 DEF Borrowers
  <1>15. SkipsOnce'
    BY <1>4, EmptyIs DEF SkipsOnce
  <1> QED BY <1>12, <1>13, <1>14, <1>15 DEF HeldInv

-----------------------------------------------------------------------------
(* Holds when an operator starts, and over every step.                     *)
\* A borrower keeps a token of its own, and its parent comes before it.
LEMMA BorrowsLess ==
    ASSUME BaseInv, NEW D \in SUBSET Docs, NEW d \in Docs, TreeParent(D)[d] # None
    PROVE  TreeParent(D)[d] # d /\ TreeShared(D)[d] < Length(d)
  <1>1. Length(d) \in Nat /\ Docs \subseteq Nat /\ d \in Nat
    BY PlanIs
  <1> DEFINE near == {Common(Previous(D, d), d), Bigger(0, Length(d) - 1)}
             n == Least(near, 0)
             sharing(e) == \A f \in D : e < f /\ f <= d => TreeShared(D)[f] >= TreeShared(D)[d]
             E == {e \in D : e < d /\ sharing(e)}
  <1>2. TreeShared(D)[d] # 0 /\ TreeParent(D)[d] = Least(E, None)
    BY DEF TreeParent
  <1>3. TreeParent(D)[d] # d
    <2>1. E \subseteq Nat /\ d \notin E
      <3>1. ~(d < d)
        BY <1>1
      <3>2. E \subseteq D /\ \A e \in E : e < d
        OBVIOUS
      <3> QED BY <1>1, <3>1, <3>2
    <2> HIDE DEF E
    <2>2. CASE E = {}
      BY <1>2, <2>2 DEF Least
    <2>3. CASE E # {}
      <3>1. Least(E, None) \in E
        BY <2>1, <2>3, LeastIs
      <3> QED BY <1>2, <2>1, <3>1
    <2> QED BY <2>2, <2>3
  <1> HIDE DEF E
  <1>4. Previous(D, d) # None /\ TreeShared(D)[d] = (n \div PageTokens) * PageTokens
    <2>1. ~(d \notin D \/ Previous(D, d) = None)
      BY <1>2 DEF TreeShared
    <2> QED BY <2>1 DEF TreeShared
  <1>5. Previous(D, d) \in Docs
    <2>1. {e \in D : e < d} \subseteq 0 .. d /\ d \in Nat
      <3>1. \A e \in D : e \in Nat
        BY <1>1
      <3>2. \A e \in D : e < d => e \in 0 .. d
        BY <1>1, <3>1
      <3> QED BY <1>1, <3>2
    <2>2. {e \in D : e < d} # {}
      BY <1>4 DEF Previous, Largest, None
    <2> QED BY <2>1, <2>2, LargestIs DEF Previous
  <1>6. Common(Previous(D, d), d) \in Nat
    <2>1. Length(Previous(D, d)) \in Nat
      BY <1>5, PlanIs
    <2> HIDE DEF near, n
    <2> QED BY <2>1, LargestIs DEF Common
  <1>7. Bigger(0, Length(d) - 1) \in Nat /\ (Length(d) > 0 => Bigger(0, Length(d) - 1) = Length(d) - 1)
        /\ (Length(d) = 0 => Bigger(0, Length(d) - 1) = 0)
    BY <1>1 DEF Bigger
  <1>8. n \in Nat /\ n <= Bigger(0, Length(d) - 1)
    <2>1. near \subseteq Nat /\ near # {} /\ Bigger(0, Length(d) - 1) \in near
      BY <1>6, <1>7
    <2> HIDE DEF near
    <2>2. n \in near /\ \A m \in near : n <= m
      BY <2>1, LeastIs
    <2> QED BY <2>1, <2>2
  <1> HIDE DEF near, n
  <1>9. /\ (n \div PageTokens) * PageTokens \in Nat
        /\ (n \div PageTokens) * PageTokens <= n
    BY <1>8, FloorPages
  <1>10. TreeShared(D)[d] < Length(d)
    <2> DEFINE s == TreeShared(D)[d]
    <2>1. s \in Nat /\ s <= n /\ s # 0
      BY <1>2, <1>4, <1>9
    <2> HIDE DEF s
    <2>2. s < Length(d)
      BY <1>1, <1>7, <1>8, <2>1
    <2> QED BY <2>2 DEF s
  <1> QED BY <1>3, <1>10

\* An operator holds nothing, and counts the borrowers of its tree.
LEMMA StartHolds ==
    ASSUME BaseInv, Loans, StartInv, StartOperator
    PROVE  HeldInv'
  <1>1. /\ pc = "start" /\ plan' = plan /\ op' = op /\ Known(arena) /\ ArenaInv(arena)
        /\ Parked(arena)
    BY DEF StartOperator, StartInv, Loans, Known
  <1>2. PICK A \in AppliedRetention :
           LET D == This.docs \intersect alive IN
           \/ arena' = PinAll(A, D \intersect Resident(A)) /\ pc' = "failed"
           \/ Start(A, D)
    BY DEF StartOperator
  <1> DEFINE D == This.docs \intersect alive
             resident == D \intersect Resident(A)
             asked == Asked(D, resident)
  <1>3. ArenaInv(A) /\ Parked(A)
    <2>1. Yields(arena, A)
      BY <1>1, RetentionYields
    <2> QED BY <1>1, <2>1, ParkedYields DEF Yields
  <1>4. D \subseteq Docs /\ asked \subseteq D
    <2>1. This \in OpRecord(Docs)
      BY PlanIs
    <2>2. This.docs \subseteq Docs
      BY <2>1 DEF OpRecord
    <2> QED BY <2>2 DEF Asked
  <1>5. /\ arena' = PinAll(A, resident)
        /\ \/ pc' = "failed"
           \/ /\ sched' = StartAdmission(A, D) /\ tree' = StartBorrowing(A, D)
              /\ exec' = StartExecutor(StartBorrowing(A, D)) /\ pc' = "top"
    BY <1>2 DEF Start
  <1>6. arena'.held = A.held
    <2>1. resident \in SUBSET Resident(A)
      OBVIOUS
    <2> HIDE DEF resident
    <2> QED BY <2>1, <1>3, <1>5, PinAllKeeps
  <1>7. CASE pc' = "failed"
    BY <1>7 DEF HeldInv, Running
  <1>8. CASE pc' = "top"
    <2>1. /\ Docs' = Docs /\ (\A d : Length(d)' = Length(d)) /\ (\A d : Spare(d)' = Spare(d))
      <3>1. This' = This /\ \A d, j : Partners(d, j)' = Partners(d, j)
        BY <1>1, Frozen
      <3> QED BY <1>1, <3>1, Frozen DEF Spare, Oversized, Capacity, FirstCost, PageCost, Budget
    <2>2. /\ sched'.stage = [d \in Docs |-> IF d \in asked THEN Queued ELSE Done]
          /\ sched'.carried = [d \in Docs |-> IF d \in resident THEN 0 ELSE Length(d)]
          /\ sched'.skipped = <<>>
      <3> DEFINE S == StartAdmission(A, D)
      <3>1. sched' = S
        BY <1>5, <1>8
      <3>2. /\ S.stage = [d \in Docs |-> IF d \in Asked(D, D \intersect Resident(A)) THEN Queued ELSE Done]
            /\ S.carried = [d \in Docs |-> IF d \in D \intersect Resident(A) THEN 0 ELSE Length(d)]
            /\ S.skipped = <<>>
        <4> HIDE DEF D
        <4> QED BY DEF StartAdmission
      <3> HIDE DEF D, S
      <3> QED BY <3>1, <3>2 DEF asked, resident
    <2>3. /\ tree'.parent = [d \in Docs |-> IF d \in D \ Resident(A) THEN TreeParent(D)[d] ELSE None]
          /\ tree'.shared = [d \in Docs |-> IF d \in D \ Resident(A) THEN TreeShared(D)[d] ELSE 0]
          /\ tree'.admitted = {} /\ tree'.skipped = D \ asked
          /\ exec'.borrowers = [p \in Docs |-> Cardinality({e \in Docs : tree'.parent[e] = p})]
      <3> DEFINE T == StartBorrowing(A, D)
      <3>1. tree' = T /\ exec' = StartExecutor(T)
        BY <1>5, <1>8
      <3>2. /\ T.parent = [d \in Docs |-> IF d \in D \ Resident(A) THEN TreeParent(D)[d] ELSE None]
            /\ T.shared = [d \in Docs |-> IF d \in D \ Resident(A) THEN TreeShared(D)[d] ELSE 0]
            /\ T.admitted = {} /\ T.skipped = D \ Asked(D, D \intersect Resident(A))
        <4> HIDE DEF D
        <4> QED BY DEF StartBorrowing
      <3> HIDE DEF D, T
      <3>3. StartExecutor(T).borrowers = [p \in Docs |-> Cardinality({e \in Docs : T.parent[e] = p})]
        BY DEF StartExecutor
      <3> QED BY <3>1, <3>2, <3>3 DEF asked, resident
    <2> HIDE DEF D
    <2>4. \A d \in Docs : d \in asked <=> d \in D /\ Partners(d, 1) > 0 /\ ~Oversized(d, resident)
      BY <1>4 DEF Asked
    <2> HIDE DEF asked
    <2>5. ASSUME NEW d \in Docs, tree'.parent[d] # None
          PROVE  /\ d \in D /\ d \notin resident /\ d \notin Resident(A)
                 /\ tree'.parent[d] # d /\ tree'.shared[d] < Length(d)
                 /\ d \in asked <=> ~Spare(d)
      <3>1. d \in D \ Resident(A)
        BY <2>3, <2>5
      <3>2. tree'.parent[d] = TreeParent(D)[d] /\ tree'.shared[d] = TreeShared(D)[d]
        BY <2>3, <3>1
      <3>3. tree'.parent[d] # d /\ tree'.shared[d] < Length(d)
        BY <1>4, <2>5, <3>2, BorrowsLess
      <3>4. Partners(d, 1) \in Nat
        BY PlanIs
      <3>5. Oversized(d, resident) <=> Oversized(d, {})
        BY <3>1 DEF Oversized, resident
      <3>6. d \in asked <=> ~Spare(d)
        BY <2>4, <3>1, <3>4, <3>5 DEF Spare
      <3> QED BY <3>1, <3>3, <3>6 DEF resident
    <2> HIDE DEF resident
    <2>6. \A k \in Keys : arena'.held[k] = 0
      BY <1>3, <1>6 DEF Parked, Idle
    <2>7. Docs \subseteq Keys /\ None \notin Docs
      BY PlanIs DEF None, Queued
    <2>8. HeldForThem'
      BY <2>1, <2>6, <2>7 DEF HeldForThem
    <2>9. ASSUME NEW p \in Docs PROVE exec'.borrowers[p] = Cardinality(Coming(p)')
      <3>1. \A d \in Docs : tree'.parent[d] = p => d \notin tree'.skipped \/ Spare(d)
        BY <2>3, <2>5, <2>7
      <3>2. Coming(p)' = {e \in Docs : tree'.parent[e] = p}
        BY <2>1, <2>3, <3>1 DEF Coming
      <3>3. exec'.borrowers[p] = Cardinality({e \in Docs : tree'.parent[e] = p})
        BY <2>3
      <3> QED BY <3>2, <3>3
    <2>10. NotYetHeld'
      BY <2>1, <2>6, <2>7, <2>9 DEF NotYetHeld
    <2>11. ASSUME NEW d \in Docs, tree'.parent[d] # None
           PROVE  /\ tree'.parent[d] # d /\ tree'.shared[d] < Length(d)
                  /\ sched'.carried[d] = Length(d)
                  /\ sched'.stage[d] = Queued \/ d \in Range(sched'.skipped) => ~Spare(d)
      <3>1. sched'.carried[d] = Length(d)
        BY <2>2, <2>5, <2>11
      <3>2. sched'.stage[d] = Queued => d \in asked
        BY <2>2 DEF Queued, Done
      <3>3. Range(sched'.skipped) = {}
        BY <2>2, EmptyIs
      <3> QED BY <2>5, <2>11, <3>1, <3>2, <3>3
    <2>12. Borrowers'
      <3>1. tree'.admitted = {}
        BY <2>3
      <3> QED BY <2>1, <2>11, <3>1 DEF Borrowers
    <2>13. SkipsOnce'
      BY <2>2, EmptyIs DEF SkipsOnce
    <2> QED BY <2>8, <2>10, <2>12, <2>13 DEF HeldInv
  <1> HIDE DEF D, resident, asked
  <1> QED BY <1>5, <1>7, <1>8

\* Every step keeps whom the holds are for.
LEMMA HeldKept ==
    ASSUME BaseInv, QueueInv, Loans, StartInv, HeldInv, [Next]_vars
    PROVE  HeldInv'
  <1>1. CASE Rest \/ UNCHANGED vars
    <2>1. /\ plan' = plan /\ op' = op /\ pc' = pc /\ arena' = arena /\ sched' = sched
          /\ tree' = tree /\ exec' = exec /\ chunk' = chunk
      BY <1>1 DEF Rest, vars
    <2>2. CASE ~Running
      BY <2>1, <2>2 DEF HeldInv, Running
    <2>3. CASE Running
      <3>1. Members
        BY <2>3 DEF QueueInv
      <3> QED BY <2>1, <2>3, <3>1, IdlesKeeps, SameHolds DEF Idles
    <2> QED BY <2>2, <2>3
  <1>2. CASE NextOperator \/ EndQuery \/ NextQuery \/ PassRaises
    BY <1>2 DEF NextOperator, EndQuery, NextQuery, PassRaises, HeldInv, Running
  <1>3. CASE StartOperator
    BY <1>3, StartHolds
  <1>4. CASE Top \/ MakeRoom \/ TakeReady \/ Nothing \/ RunPass \/ Submit \/ End
    BY <1>4, TopHolds, MakeRoomHolds, TakeReadyHolds, NothingHolds, RunPassHolds, SubmitHolds,
       EndHolds
  <1>5. CASE ReadyTaken \/ CloseChunk \/ ReportPart
    BY <1>5, QuietHolds
  <1>6. CASE ReportAdvance \/ ReportSettle \/ DecideWaiting \/ EntryReported
    BY <1>6, ReportAdvanceHolds, ReportSettleHolds, DecideWaitingHolds, EntryReportedHolds
  <1>7. ASSUME NEW d \in Docs, Admission(d) PROVE HeldInv'
    <2>1. CASE AdmitNext(d)
      BY <2>1, AdmitHolds
    <2>2. CASE ~AdmitNext(d)
      <3>1. HoldsBack(d) \/ PopDead(d)
        BY <2>2, <1>7 DEF Admission, HoldsBack
      <3> QED BY <3>1, QuietHolds
    <2> QED BY <2>1, <2>2
  <1> QED BY <1>1, <1>2, <1>3, <1>4, <1>5, <1>6, <1>7 DEF Next

\* The holds are for those that come throughout a run.
LEMMA HeldHolds == Spec => [](IInv /\ Loans /\ StartInv /\ HeldInv)
  <1>1. Init => IInv /\ Loans /\ StartInv /\ HeldInv
    <2>1. Init => HeldInv
      BY DEF Init, HeldInv, Running
    <2> QED BY <2>1, InitHolds, LoansAtFirst
  <1>2. (IInv /\ Loans /\ StartInv /\ HeldInv) /\ [Next]_vars
           => (IInv /\ Loans /\ StartInv /\ HeldInv)'
    BY StepKeeps, LoansKept, HeldKept DEF IInv
  <1> QED BY <1>1, <1>2, PTL DEF Spec

\* The borrowers that may come, spelled out.
LEMMA ComingAre ==
    ASSUME NEW p
    PROVE  Coming(p) = {d \in Docs : /\ tree.parent[d] = p
                                     /\ d \notin tree.admitted
                                     /\ \/ d \notin tree.skipped
                                        \/ Partners(d, 1) = 0
                                        \/ Oversized(d, {})}
  <1>1. \A d \in Docs : Spare(d) <=> (Partners(d, 1) = 0 \/ Oversized(d, {}))
    BY DEF Spare
  <1>2. Coming(p) = {d \in Docs : /\ tree.parent[d] = p /\ d \notin tree.admitted
                                  /\ (d \notin tree.skipped \/ Spare(d))}
    BY Zenon DEF Coming
  <1> QED BY <1>1, <1>2

\* What is held of a parent when a chunk begins is held for exactly the
\* borrowers that may still come (admission.py Borrowing, stage_executor.py
\* run and _release_skipped).
THEOREM HoldsMatch == Spec => []HoldsMatchQueue
  <1>1. IInv /\ Loans /\ StartInv /\ HeldInv => HoldsMatchQueue
    <2> SUFFICES ASSUME IInv, HeldInv, pc = "top", NEW p \in Docs, arena.held[p] > 0
                 PROVE  arena.held[p] =
                          Cardinality({d \in Docs : /\ tree.parent[d] = p
                                                    /\ d \notin tree.admitted
                                                    /\ \/ d \notin tree.skipped
                                                       \/ Partners(d, 1) = 0
                                                       \/ Oversized(d, {})})
      BY DEF HoldsMatchQueue
    <2>1. Running /\ BaseInv /\ Members /\ chunk.groups = <<>>
      BY DEF IInv, QueueInv, Running, Turns
    <2>2. HeldForThem
      BY <2>1 DEF HeldInv
    <2>3. arena.held[p] = Cardinality(Coming(p)) + Cardinality(Loading(p))
      BY <2>2 DEF HeldForThem
    <2>4. Loading(p) = {}
      <3>1. Packing = {}
        BY <2>1, EmptyIs DEF Packing
      <3> QED BY <3>1 DEF Loading
    <2>5. Cardinality(Loading(p)) = 0 /\ Cardinality(Coming(p)) \in Nat
      BY <2>1, <2>4, FewCome, FS_EmptySet, FS_CardinalityType
    <2>6. arena.held[p] = Cardinality(Coming(p))
      BY <2>3, <2>5
    <2> QED BY <2>6, ComingAre
  <1> QED BY <1>1, HeldHolds, PTL

-----------------------------------------------------------------------------
(* The pages a chunk is planned with.                                      *)
\* A loop that still plans chunks.
Looping == Running /\ pc \notin {"end", "between"}

\* What a queued document was priced at is what it takes, and nothing may
\* evict or free its pages.
PricedAs(d) ==
    /\ sched.cost[d] = AdmissionCost(arena, d)
    /\ d \notin arena.retained /\ d \notin arena.deferred /\ d \notin Range(sched.settled)
Priced == \A d \in Docs : sched.stage[d] = Queued => PricedAs(d)

\* What the plan counts on is there.
Planning == pc \in {"ready", "admit", "close", "pass"}
PagesThere == Planning =>
    /\ chunk.pages \in Int /\ chunk.temporary \in Int
    /\ chunk.pages + chunk.temporary <= FreePages(arena)

PricedInv == (Looping => Priced) /\ PagesThere

\* The price of a document that a call spares.
LEMMA CostSpared ==
    ASSUME BaseInv, NEW A, NEW B, ArenaInv(A), ArenaInv(B), NEW d \in Docs, Spares(A, B, d)
    PROVE  AdmissionCost(B, d) = AdmissionCost(A, d)
  <1>1. d \in Keys /\ Capacity(d) \in Nat
    <2>1. This \in OpRecord(Docs) /\ Length(d) \in Nat /\ d \in Keys
      BY PlanIs
    <2>2. This.extra \in Nat
      BY <2>1 DEF OpRecord
    <2> QED BY <2>1, <2>2 DEF Capacity
  <1>2. d \in Resident(B) <=> d \in Resident(A)
    BY DEF Spares
  <1>3. GrowthCost(B, d, Capacity(d)) = GrowthCost(A, d, Capacity(d))
    BY <1>1, SparesCost
  <1> QED BY <1>2, <1>3 DEF AdmissionCost

\* A step that spares what stays queued keeps the prices.
LEMMA PricesKeep ==
    ASSUME BaseInv, ArenaInv(arena), ArenaInv(arena'), Priced, plan' = plan, op' = op,
           sched'.cost = sched.cost,
           \A d \in Docs : sched'.stage[d] = Queued =>
              /\ sched.stage[d] = Queued /\ Spares(arena, arena', d)
              /\ d \in Range(sched'.settled) => d \in Range(sched.settled)
    PROVE  Priced'
  <1>1. Docs' = Docs /\ \A d : Capacity(d)' = Capacity(d)
    BY Frozen DEF Capacity
  <1>2. ASSUME NEW d \in Docs, sched'.stage[d] = Queued
        PROVE  PricedAs(d)'
    <2>1. PricedAs(d) /\ Spares(arena, arena', d)
      BY <1>2 DEF Priced
    <2>2. AdmissionCost(arena', d) = AdmissionCost(arena, d)
      BY <2>1, CostSpared
    <2>3. AdmissionCost(arena, d)' = AdmissionCost(arena', d)
      BY <1>1 DEF AdmissionCost
    <2>4. d \notin arena'.retained /\ d \notin arena'.deferred
      BY <2>1 DEF PricedAs, Spares
    <2>5. d \notin Range(sched'.settled)
      BY <2>1, <1>2 DEF PricedAs
    <2> QED BY <2>1, <2>2, <2>3, <2>4, <2>5 DEF PricedAs
  <1> QED BY <1>1, <1>2 DEF Priced

\* An arena spares itself.
LEMMA SparesItself == \A A, k : Spares(A, A, k)
  BY DEF Spares

\* A step that leaves the arena and the queue alone.
Priceless ==
    /\ plan' = plan /\ op' = op /\ arena' = arena /\ sched'.cost = sched.cost
    /\ sched'.stage = sched.stage /\ sched'.settled = sched.settled

LEMMA PricelessKeeps ==
    ASSUME BaseInv, Loans, Priced, Priceless
    PROVE  Priced'
  <1>1. ArenaInv(arena) /\ ArenaInv(arena')
    BY DEF Loans, Known, Priceless
  <1>2. \A d : Spares(arena, arena', d)
    BY SparesItself DEF Priceless
  <1> QED BY <1>1, <1>2, PricesKeep DEF Priceless

\* What every step starts from.
LEMMA FromHere ==
    ASSUME QueueInv, Loans, PricedInv, Looping
    PROVE  /\ Running /\ Shapes /\ Members /\ Turns /\ Priced /\ ArenaInv(arena) /\ arena \in Arena
           /\ LoansInv /\ Lending /\ Reading /\ Unplaced
  <1>1. Running
    BY DEF Looping
  <1> QED BY <1>1 DEF QueueInv, Loans, LoansInv, Known, ArenaInv, PricedInv

\* The arena a step leaves is as sound.
LEMMA ToThere ==
    ASSUME Loans'
    PROVE  ArenaInv(arena') /\ arena' \in Arena
  BY DEF Loans, Known, ArenaInv

\* One lemma for each action of the loop.
LEMMA TopPrices ==
    ASSUME BaseInv, QueueInv, Loans, Loans', PricedInv, Top
    PROVE  PricedInv'
  <1>1. Looping
    BY DEF Looping, Running, Top
  <1>2. Shapes /\ Priced /\ ArenaInv(arena) /\ ArenaInv(arena') /\ arena \in Arena
    BY <1>1, FromHere, ToThere
  <1>3. sched'.cost = sched.cost /\ sched'.stage = sched.stage /\ sched'.settled = <<>>
    BY <1>2 DEF Top, Shapes, IsSched
  <1>4. SparesBut(arena, arena', Range(sched.settled) \intersect Resident(arena))
    BY <1>2, FreeSpares DEF Top
  <1>5. ASSUME NEW d \in Docs, sched.stage[d] = Queued PROVE Spares(arena, arena', d)
    <2>1. d \notin Range(sched.settled)
      BY <1>2, <1>5 DEF Priced, PricedAs
    <2> QED BY <2>1, <1>4, PlanIs DEF SparesBut
  <1>6. Range(sched'.settled) = {}
    BY <1>3, EmptyIs
  <1>7. Priced'
    BY <1>2, <1>3, <1>5, <1>6, PricesKeep DEF Top
  <1>8. PagesThere'
    BY DEF Top, PagesThere, Planning
  <1> QED BY <1>7, <1>8 DEF PricedInv

LEMMA MakeRoomPrices ==
    ASSUME BaseInv, QueueInv, Loans, Loans', PricedInv, MakeRoom
    PROVE  PricedInv'
  <1>1. Looping
    BY DEF Looping, Running, MakeRoom
  <1>2. Shapes /\ Priced /\ ArenaInv(arena) /\ ArenaInv(arena') /\ arena' \in Arena
    BY <1>1, FromHere, ToThere
  <1>3. sched'.cost = sched.cost /\ sched'.stage = sched.stage /\ sched'.settled = sched.settled
    BY <1>2 DEF MakeRoom, Shapes, IsSched
  <1>4. SparesBut(arena, arena', arena.retained)
    <2>1. CASE arena' = arena
      BY <2>1, SparesItself DEF SparesBut
    <2>2. CASE arena' \in EvictRetained(arena, sched.blocked)
      BY <1>2, <2>2, EvictSpares DEF EvictRetained
    <2> QED BY <2>1, <2>2 DEF MakeRoom
  <1>5. ASSUME NEW d \in Docs, sched.stage[d] = Queued PROVE Spares(arena, arena', d)
    <2>1. d \notin arena.retained
      BY <1>2, <1>5 DEF Priced, PricedAs
    <2> QED BY <2>1, <1>4, PlanIs DEF SparesBut
  <1>6. Priced'
    BY <1>2, <1>3, <1>5, PricesKeep DEF MakeRoom
  <1>7. PagesThere'
    <2>1. chunk'.pages = FreePages(arena') /\ chunk'.temporary = 0
      BY DEF MakeRoom, NoChunk
    <2>2. FreePages(arena') \in Nat
      BY <1>2, FreePagesAre
    <2>3. chunk'.pages + chunk'.temporary <= FreePages(arena')
      BY <2>1, <2>2
    <2> QED BY <2>1, <2>2, <2>3 DEF PagesThere
  <1> QED BY <1>6, <1>7 DEF PricedInv

\* The temporary pages of a run are a number.
LEMMA PageCostIs ==
    ASSUME NEW n \in Int
    PROVE  PageCost(n) \in Int
  <1>1. PageTokens \in Nat /\ PageTokens > 0
    BY PageTokensAssumption
  <1>2. PagesNeeded(n) \in Int
    BY <1>1 DEF PagesNeeded
  <1>3. ASSUME HasSliding PROVE EveryTokenPages(PagesNeeded(n)) \in Int
    <2>1. NumPages \in Nat /\ NumSliding \in Nat /\ NumSliding > 0
      BY <1>3, PoolNats DEF HasSliding
    <2> QED BY <1>2, <2>1 DEF EveryTokenPages
  <1> QED BY <1>2, <1>3 DEF PageCost, Bigger

LEMMA TakesPages ==
    ASSUME BaseInv, NEW d \in Docs, NEW j \in Stages, NEW i \in Nat, NEW room, NEW pages
    PROVE  Take(d, j, i, room, pages).pages \in Int
  <1> DEFINE frame == IF i = 0 THEN This.frame ELSE 0
             fit == {n \in 0 .. Partners(d, j) - i :
                        frame + n * This.suffix <= room /\ n * SuffixPages(d) <= pages}
  <1>1. SuffixPages(d) \in Int
    <2>1. This \in OpRecord(Docs) /\ Length(d) \in Nat
      BY PlanIs
    <2>2. This.frame \in Nat /\ This.suffix \in Nat
      BY <2>1 DEF OpRecord
    <2>3. PageTokens \in Nat /\ PageTokens > 0
      BY PageTokensAssumption
    <2>4. ((Length(d) + This.frame) % PageTokens) + This.suffix \in Int
      BY <2>1, <2>2, <2>3
    <2> QED BY <2>4, PageCostIs DEF SuffixPages
  <1>2. Largest(fit) \in Nat
    <2>1. Partners(d, j) \in Nat
      BY PlanIs
    <2>2. CASE i <= Partners(d, j)
      <3>1. fit \subseteq 0 .. Partners(d, j) - i /\ Partners(d, j) - i \in Nat
        BY <2>1, <2>2
      <3> HIDE DEF fit
      <3> QED BY <3>1, LargestIs
    <2>3. CASE ~(i <= Partners(d, j))
      <3>1. fit \subseteq 0 .. 0
        BY <2>1, <2>3
      <3> HIDE DEF fit
      <3> QED BY <3>1, LargestIs
    <2> QED BY <2>2, <2>3
  <1>3. Take(d, j, i, room, pages).pages = Largest(fit) * SuffixPages(d)
    BY DEF Take
  <1>4. \A m \in Nat, n \in Int : m * n \in Int
    OBVIOUS
  <1> HIDE DEF fit
  <1>5. Largest(fit) * SuffixPages(d) \in Int
    BY <1>1, <1>2, <1>4
  <1> QED BY <1>3, <1>5

\* A step that plans nothing more keeps what the plan counts on.
LEMMA PagesStay ==
    ASSUME PagesThere, Planning' => Planning, arena' = arena,
           chunk'.pages = chunk.pages, chunk'.temporary = chunk.temporary
    PROVE  PagesThere'
  BY DEF PagesThere

LEMMA TakeReadyPrices ==
    ASSUME BaseInv, QueueInv, Loans, PricedInv, TakeReady
    PROVE  PricedInv'
  <1>1. Looping /\ Planning /\ pc = "ready" /\ sched.ready # <<>>
    <2>1. pc = "ready" /\ chunk.left > 0 /\ Running
      BY DEF TakeReady, Running
    <2>2. Members /\ Turns
      BY <2>1 DEF QueueInv
    <2>3. chunk.left <= Len(sched.ready) /\ chunk.left \in Nat
      BY <2>1, <2>2 DEF Turns, Members, Types
    <2>4. Len(sched.ready) # 0
      <3>1. sched.ready \in Seq(Docs)
        BY <2>2 DEF Members, Types
      <3>2. Len(sched.ready) \in Nat
        BY <3>1
      <3> QED BY <2>1, <2>3, <3>2
    <2> QED BY <2>1, <2>4, EmptyIs DEF Looping, Planning
  <1>2. Shapes /\ Members /\ Priced
    BY <1>1, FromHere
  <1>3. /\ sched'.cost = sched.cost /\ sched'.stage = sched.stage
        /\ sched'.settled = sched.settled
    BY <1>2 DEF TakeReady, Shapes, IsSched
  <1>4. Priced'
    BY <1>2, <1>3, PricelessKeeps DEF Priceless, TakeReady
  <1> DEFINE d == Head(sched.ready)
             j == sched.stage[d]
             i == sched.next[d]
             take == Take(d, j, i, chunk.room, chunk.pages)
             one == [chunk EXCEPT !.left = @ - 1]
             g == Group(d, j, i, take.end, FALSE)
  <1>5. \/ chunk' = chunk
        \/ chunk' = [one EXCEPT !.deferred = Append(@, d)]
        \/ chunk' = Launch(one, g, take.tokens, 0, take.pages)
    BY DEF TakeReady
  <1>6. take.pages \in Int
    <2>1. sched.ready \in Seq(Docs)
      BY <1>2 DEF Members, Types
    <2>2. d \in Docs /\ d \in ReadySet
      BY <1>1, <2>1, TailIs DEF ReadySet
    <2>3. j \in Stages /\ i \in Nat
      BY <1>2, <2>2 DEF Members, Queues, InRun, Types
    <2> QED BY <2>2, <2>3, TakesPages
  <1>7. chunk.pages \in Int /\ chunk.temporary \in Int
        /\ chunk.pages + chunk.temporary <= FreePages(arena)
    BY <1>1 DEF PricedInv, PagesThere
  <1> HIDE DEF g, take
  <1>8. IsChunk(one) /\ one.pages = chunk.pages /\ one.temporary = chunk.temporary
    BY <1>2 DEF Shapes, IsChunk
  <1> HIDE DEF one
  <1>9. \/ chunk'.pages = chunk.pages /\ chunk'.temporary = chunk.temporary
        \/ /\ chunk'.pages = chunk.pages - 0 - take.pages
           /\ chunk'.temporary = chunk.temporary + take.pages
    <2>1. CASE chunk' = [one EXCEPT !.deferred = Append(@, d)]
      BY <1>8, <2>1 DEF IsChunk
    <2>2. CASE chunk' = Launch(one, g, take.tokens, 0, take.pages)
      BY <1>8, <2>2 DEF Launch, IsChunk
    <2> QED BY <1>5, <2>1, <2>2
  <1>10. /\ chunk'.pages \in Int /\ chunk'.temporary \in Int
         /\ chunk'.pages + chunk'.temporary = chunk.pages + chunk.temporary
    BY <1>6, <1>7, <1>9
  <1>11. arena' = arena
    BY DEF TakeReady
  <1>12. PagesThere'
    BY <1>7, <1>10, <1>11 DEF PagesThere
  <1> QED BY <1>4, <1>12 DEF PricedInv

LEMMA QuietPrices ==
    ASSUME BaseInv, QueueInv, Loans, PricedInv,
           ReadyTaken \/ CloseChunk \/ ReportPart \/ \E d : HoldsBack(d) \/ PopDead(d)
    PROVE  PricedInv'
  <1>1. Looping
    BY DEF ReadyTaken, CloseChunk, ReportPart, Reporting, HoldsBack, PopDead, HoldTurn, HoldForPages,
           HoldForRoom, HoldForSuffix, Eligible, Live, Popping, Running, Looping
  <1>2. Shapes /\ Priced
    BY <1>1, FromHere
  <1>3. arena' = arena /\ plan' = plan /\ op' = op
    BY DEF ReadyTaken, CloseChunk, ReportPart, HoldsBack, PopDead, HoldTurn, HoldForPages,
           HoldForRoom, HoldForSuffix
  <1>4. CASE ReadyTaken
    <2>1. PagesThere'
      BY <1>4, PagesStay DEF ReadyTaken, PricedInv, Planning
    <2> QED BY <1>2, <1>4, <2>1, PricelessKeeps DEF ReadyTaken, Priceless, PricedInv
  <1>5. CASE CloseChunk
    <2>1. /\ sched'.cost = sched.cost /\ sched'.stage = sched.stage
          /\ sched'.settled = sched.settled
          /\ chunk'.pages = chunk.pages /\ chunk'.temporary = chunk.temporary
      BY <1>2, <1>5 DEF CloseChunk, Shapes, IsSched, IsChunk
    <2>2. Planning
      BY <1>5 DEF CloseChunk, Planning
    <2>3. PagesThere'
      BY <1>3, <2>1, <2>2, PagesStay DEF PricedInv
    <2> QED BY <1>2, <1>3, <2>1, <2>3, PricelessKeeps DEF Priceless, PricedInv
  <1>6. CASE ReportPart
    <2>1. /\ sched'.cost = sched.cost /\ sched'.stage = sched.stage
          /\ sched'.settled = sched.settled
      BY <1>2, <1>6 DEF ReportPart, Received, Shapes, IsSched
    <2>2. PagesThere'
      BY <1>6 DEF ReportPart, Reporting, PagesThere, Planning
    <2> QED BY <1>2, <1>3, <2>1, <2>2, PricelessKeeps DEF Priceless, PricedInv
  <1>7. ASSUME NEW d, HoldsBack(d) \/ PopDead(d) PROVE PricedInv'
    <2>1. /\ sched'.cost = sched.cost /\ sched'.stage = sched.stage
          /\ sched'.settled = sched.settled
      BY ZenonT(30), <1>2, <1>7 DEF HoldsBack, PopDead, HoldTurn, HoldForPages, HoldForRoom,
         HoldForSuffix, Popped, Shapes, IsSched
    <2>2. chunk'.pages = chunk.pages /\ chunk'.temporary = chunk.temporary
      BY <1>2, <1>7 DEF HoldsBack, PopDead, HoldTurn, HoldForPages, HoldForRoom, HoldForSuffix,
         HeldBack, Shapes, IsChunk
    <2>3. Planning
      BY <1>7 DEF HoldsBack, PopDead, HoldTurn, HoldForPages, HoldForRoom, HoldForSuffix,
         Eligible, Live, Popping, Planning
    <2>4. PagesThere'
      BY <1>3, <2>2, <2>3, PagesStay DEF PricedInv
    <2> QED BY <1>2, <1>3, <2>1, <2>4, PricelessKeeps DEF Priceless, PricedInv
  <1> QED BY <1>4, <1>5, <1>6, <1>7

LEMMA NothingPrices ==
    ASSUME BaseInv, QueueInv, Loans, Loans', PricedInv, Nothing
    PROVE  PricedInv'
  <1>1. Looping
    BY DEF Looping, Running, Nothing
  <1>2. Priced /\ ArenaInv(arena) /\ ArenaInv(arena') /\ Lending
    BY <1>1, FromHere, ToThere
  <1>3. SparesBut(arena, arena', arena.retained \union arena.deferred)
    <2>1. CASE arena' = arena
      BY <2>1, SparesItself DEF SparesBut
    <2>2. CASE arena' \in EvictRetained(arena, sched.blocked)
      <3>1. SparesBut(arena, arena', arena.retained)
        BY <1>2, <2>2, EvictSpares DEF EvictRetained
      <3> QED BY <3>1 DEF SparesBut
    <2>3. CASE arena' = DropHolds(arena, exec.lenders)
      <3>1. exec.lenders \in SUBSET Keys
        BY <1>2, PlanIs DEF Lending
      <3>2. SparesBut(arena, arena', arena.deferred)
        BY <1>2, <2>3, <3>1, DropHoldsKeeps
      <3> QED BY <3>2 DEF SparesBut
    <2> QED BY <2>1, <2>2, <2>3 DEF Nothing
  <1>4. ASSUME NEW d \in Docs, sched.stage[d] = Queued PROVE Spares(arena, arena', d)
    <2>1. d \notin arena.retained /\ d \notin arena.deferred
      BY <1>2, <1>4 DEF Priced, PricedAs
    <2> QED BY <2>1, <1>3, PlanIs DEF SparesBut
  <1>5. Priced'
    BY <1>2, <1>4, PricesKeep DEF Nothing
  <1>6. PagesThere'
    BY DEF Nothing, PagesThere, Planning
  <1> QED BY <1>5, <1>6 DEF PricedInv

LEMMA RunPassPrices ==
    ASSUME BaseInv, QueueInv, Loans, Loans', PricedInv, RunPass
    PROVE  PricedInv'
  <1>1. Looping
    BY DEF Looping, Running, RunPass
  <1>2. Priced /\ ArenaInv(arena) /\ ArenaInv(arena') /\ Members
    BY <1>1, FromHere, ToThere
  <1>3. Fresh \in SUBSET Keys
    <2>1. chunk.groups \in Seq(GroupType) /\ Docs \subseteq Keys
      BY <1>2, PlanIs DEF Members, Types
    <2>2. Range(chunk.groups) \subseteq GroupType
      BY <2>1, RangeIn
    <2> QED BY <2>1, <2>2 DEF Fresh, GroupType
  <1>4. SparesBut(arena, arena', {})
    BY <1>2, <1>3, TrimSpares DEF RunPass
  <1>5. \A d \in Docs : Spares(arena, arena', d)
    BY <1>4, PlanIs DEF SparesBut
  <1>6. Priced'
    BY <1>2, <1>5, PricesKeep DEF RunPass
  <1>7. PagesThere'
    BY DEF RunPass, PagesThere, Planning
  <1> QED BY <1>6, <1>7 DEF PricedInv

\* Prices are numbers, and nothing costs nothing.
LEMMA PriceIs ==
    ASSUME NEW n \in Int, NEW m \in Int
    PROVE  Price(n, m) \in Int /\ Price(0, 0) = 0
  <1>1. ASSUME HasSliding
        PROVE  EveryTokenPages(m) \in Int /\ EveryTokenPages(0) = 0
    <2>1. NumPages \in Nat /\ NumSliding \in Nat /\ NumSliding > 0
      BY <1>1, PoolNats DEF HasSliding
    <2>2. EveryTokenPages(m) \in Int
      BY <2>1 DEF EveryTokenPages
    <2>3. 0 * NumPages + NumSliding - 1 = NumSliding - 1
      BY <2>1
    <2>4. (NumSliding - 1) \div NumSliding = 0
      BY <2>1
    <2> QED BY <2>2, <2>3, <2>4 DEF EveryTokenPages
  <1> QED BY <1>1 DEF Price, Bigger

\* Reading the parent and holding the document changes no page.
LEMMA ReservedSpares ==
    ASSUME BaseInv, Lending, NEW d \in Docs, NEW A, ArenaInv(A),
           Borrowed(d) > 0 => tree.parent[d] \in Keys
    PROVE  /\ SamePools(A, Reserved(A, d))
           /\ Reserved(A, d).retained = A.retained /\ Reserved(A, d).deferred = A.deferred
  <1> DEFINE R == IF Borrowed(d) > 0 THEN ReadState(A, {tree.parent[d]}) ELSE A
             B == Reserved(A, d)
  <1>1. B = IF d \notin exec.holding /\ exec.borrowers[d] > 0
            THEN KeepWindow(HoldKey(R, d, exec.borrowers[d]), d, exec.lowest[d])
            ELSE R
    BY DEF Reserved
  <1>2. SamePools(A, R) /\ R \in Arena
    <2>1. CASE Borrowed(d) > 0
      <3>1. R = ReadState(A, {tree.parent[d]}) /\ {tree.parent[d]} \in SUBSET Keys
        BY <2>1
      <3> HIDE DEF R
      <3> QED BY <3>1, ReadStateKeeps DEF ArenaInv
    <2>2. CASE ~(Borrowed(d) > 0)
      BY <2>2 DEF SamePools, ArenaInv
    <2> QED BY <2>1, <2>2
  <1>3. B.retained = A.retained /\ B.deferred = A.deferred
    BY ReservedLends DEF LentTo
  <1> HIDE DEF R, B
  <1>4. SamePools(R, B)
    BY <1>1, <1>2 DEF SamePools, KeepWindow, HoldKey, Arena
  <1>5. SamePools(A, B)
    BY <1>2, <1>4 DEF SamePools
  <1> QED BY <1>3, <1>5 DEF B

\* What a document takes when it is admitted is what the scheduler counts.
LEMMA NeedIsPrice ==
    ASSUME BaseInv, Loans, Priced, Lending, Unplaced, NEW d \in Docs, sched.stage[d] = Queued
    PROVE  Price(NeedFull(arena, d, Capacity(d), Borrowed(d)),
                 NeedSliding(arena, d, Capacity(d), Borrowed(d))) = Need(d)
  <1> DEFINE s == Borrowed(d)
             p == IF s = 0 THEN d ELSE tree.parent[d]
  <1>1. Request(arena, d, Length(d), Capacity(d), p, s) /\ s \in Nat
    BY AdmitRequest DEF Loans
  <1> HIDE DEF p
  <1>2. sched.cost[d] = AdmissionCost(arena, d)
    BY DEF Priced, PricedAs
  <1>3. Capacity(d) \in Nat /\ s % PageTokens = 0
    BY <1>1 DEF Request
  <1>4. CASE d \in Resident(arena)
    <2>1. s = 0
      BY <1>1, <1>4 DEF Request
    <2>2. Need(d) = GrowthCost(arena, d, Capacity(d))
      BY <1>2, <1>4, <2>1 DEF Need, AdmissionCost
    <2> QED BY <1>4, <2>2, GrowthPrice
  <1>5. CASE d \notin Resident(arena)
    <2>1. Need(d) = PageCost(Capacity(d) - s)
      <3>1. CASE s = 0
        <4>1. Need(d) = PageCost(Capacity(d))
          BY <1>2, <1>5, <3>1 DEF Need, AdmissionCost
        <4>2. Capacity(d) - s = Capacity(d)
          BY <1>3, <3>1
        <4> QED BY <4>1, <4>2
      <3>2. CASE s # 0
        BY <3>2 DEF Need
      <3> QED BY <3>1, <3>2
    <2> HIDE DEF s
    <2>2. Price(NeedFull(arena, d, Capacity(d), s), NeedSliding(arena, d, Capacity(d), s))
             = PageCost(Capacity(d) - s)
      BY <1>1, <1>3, <1>5, FreshPrice
    <2> QED BY <2>1, <2>2 DEF s
  <1> QED BY <1>4, <1>5

\* The arena a reservation leaves has the pages left that the plan counts on.
LEMMA AdmitSpends ==
    ASSUME BaseInv, QueueInv, Loans, PricedInv, NEW d, AdmitNext(d),
           NEW out \in Reserve(arena, d, Length(d), Capacity(d), tree.parent[d], Borrowed(d))
    PROVE  /\ Need(d) \in Int /\ ArenaInv(out.arena) /\ out.arena \in Arena
           /\ FreePages(out.arena) \in Int /\ FreePages(arena) \in Int
           /\ out.ok => FreePages(out.arena) >= FreePages(arena) - Need(d)
           /\ ~out.ok => FreePages(out.arena) >= FreePages(arena)
           /\ \A e \in Docs : sched.stage[e] = Queued /\ (out.ok => e # d)
                 => Spares(arena, out.arena, e)
  <1> DEFINE s == Borrowed(d)
             p == IF s = 0 THEN d ELSE tree.parent[d]
             nf == NeedFull(arena, d, Capacity(d), s)
             ns == NeedSliding(arena, d, Capacity(d), s)
             A == out.arena
  <1>1. /\ pc = "admit" /\ Running /\ d \in Docs /\ sched.stage[d] = Queued /\ Known(arena)
        /\ Lending /\ Unplaced
    BY AdmitIs
  <1>2. Priced /\ ArenaInv(arena) /\ arena \in Arena
    BY <1>1, FromHere DEF Looping
  <1>3. /\ Request(arena, d, Length(d), Capacity(d), p, s)
        /\ out \in Reserve(arena, d, Length(d), Capacity(d), p, s)
    BY <1>1, AdmitRequest
  <1>4. Price(nf, ns) = Need(d)
    BY <1>1, <1>2, NeedIsPrice
  <1> HIDE DEF p, s
  <1>5. ArenaInv(A) /\ Spends(arena, out, d, nf, ns)
    BY <1>2, <1>3, ReserveKeeps
  <1>6. nf \in Int /\ ns \in Int
    BY <1>2, <1>3, NeedsAre DEF Request
  <1> HIDE DEF nf, ns
  <1>7. A \in Arena
    BY <1>5 DEF ArenaInv
  <1>8. FreePages(A) \in Nat /\ FreePages(arena) \in Nat
    BY <1>2, <1>7, FreePagesAre
  <1>9. Need(d) \in Int
    BY <1>4, <1>6, PriceIs
  <1>10. ASSUME out.ok PROVE FreePages(A) >= FreePages(arena) - Need(d)
    <2>1. /\ FreeCount(A.full) >= FreeCount(arena.full) - nf
          /\ HasSliding => FreeCount(A.slide) >= FreeCount(arena.slide) - ns
      BY <1>5, <1>10 DEF Spends
    <2>2. FreePages(A) >= FreePages(arena) - Price(nf, ns)
      BY <1>2, <1>6, <1>7, <2>1, FreePagesLeft
    <2> QED BY <1>4, <2>2
  <1>11. ASSUME ~out.ok PROVE FreePages(A) >= FreePages(arena)
    <2>1. /\ FreeCount(A.full) >= FreeCount(arena.full) - 0
          /\ HasSliding => FreeCount(A.slide) >= FreeCount(arena.slide) - 0
      BY <1>5, <1>11 DEF Spends
    <2>2. FreePages(A) >= FreePages(arena) - Price(0, 0)
      BY <1>2, <1>7, <2>1, FreePagesLeft
    <2>3. Price(0, 0) = 0
      BY PriceIs
    <2> QED BY <1>8, <2>2, <2>3
  <1>12. ASSUME NEW e \in Docs, sched.stage[e] = Queued, out.ok => e # d
         PROVE  Spares(arena, A, e)
    <2>1. e \notin arena.retained /\ e \notin arena.deferred
      BY <1>2, <1>12 DEF Priced, PricedAs
    <2>2. e \in Keys
      BY PlanIs
    <2> QED BY <1>5, <1>12, <2>1, <2>2 DEF Spends, SparesBut
  <1> QED BY <1>5, <1>7, <1>8, <1>9, <1>10, <1>11, <1>12

LEMMA AdmitPrices ==
    ASSUME BaseInv, QueueInv, Loans, Loans', PricedInv, NEW d, AdmitNext(d)
    PROVE  PricedInv'
  <1>1. /\ pc = "admit" /\ Running /\ Shapes /\ d \in Docs /\ sched.stage[d] = Queued
        /\ Lending /\ Members
    BY AdmitIs
  <1>2. Looping /\ Planning
    BY <1>1 DEF Looping, Planning
  <1>3. Priced /\ ArenaInv(arena) /\ ArenaInv(arena') /\ arena' \in Arena
    BY <1>2, FromHere, ToThere
  <1>4. /\ chunk.pages \in Int /\ chunk.temporary \in Int
        /\ chunk.pages + chunk.temporary <= FreePages(arena)
    BY <1>2 DEF PricedInv, PagesThere
  <1>5. PICK out \in Reserve(arena, d, Length(d), Capacity(d), tree.parent[d], Borrowed(d)) :
           IF out.ok THEN AdmitReserved(d, out.arena)
           ELSE /\ arena' = out.arena
                /\ sched' = Popped
                /\ chunk' = HeldBack(d)
                /\ pc' = "close"
                /\ UNCHANGED <<tree, exec>>
    BY DEF AdmitNext
  <1>6. plan' = plan /\ op' = op
    BY DEF AdmitNext
  <1> DEFINE A == out.arena
  <1>7. /\ Need(d) \in Int /\ ArenaInv(A) /\ A \in Arena
        /\ FreePages(A) \in Int /\ FreePages(arena) \in Int
        /\ out.ok => FreePages(A) >= FreePages(arena) - Need(d)
        /\ ~out.ok => FreePages(A) >= FreePages(arena)
        /\ \A e \in Docs : sched.stage[e] = Queued /\ (out.ok => e # d) => Spares(arena, A, e)
    BY AdmitSpends
  <1> HIDE DEF A
  <1>8. CASE ~out.ok
    <2>1. arena' = A /\ sched' = Popped /\ chunk' = HeldBack(d)
      BY <1>5, <1>8 DEF A
    <2>2. /\ sched'.cost = sched.cost /\ sched'.stage = sched.stage
          /\ sched'.settled = sched.settled
          /\ chunk'.pages = chunk.pages /\ chunk'.temporary = chunk.temporary
      BY <1>1, <2>1 DEF Popped, HeldBack, Shapes, IsSched, IsChunk
    <2>3. Priced'
      BY <1>3, <1>6, <1>7, <1>8, <2>1, <2>2, PricesKeep
    <2>4. chunk'.pages + chunk'.temporary <= FreePages(arena')
      BY <1>4, <1>7, <1>8, <2>1, <2>2
    <2>5. PagesThere'
      BY <1>4, <2>2, <2>4 DEF PagesThere
    <2> QED BY <2>3, <2>5 DEF PricedInv
  <1>9. CASE out.ok
    <2>1. AdmitReserved(d, A)
      BY <1>5, <1>9 DEF A
    <2>2. arena' = Reserved(A, d)
      BY <2>1 DEF AdmitReserved
    <2>3. Borrowed(d) > 0 => tree.parent[d] \in Keys
      <3>1. Docs \subseteq Keys
        BY PlanIs
      <3>2. Known(arena) /\ Unplaced
        BY AdmitIs
      <3> QED BY <1>1, <3>1, <3>2, AdmitRequest
    <2>4. SamePools(A, arena') /\ arena'.retained = A.retained /\ arena'.deferred = A.deferred
      BY <1>1, <1>7, <2>2, <2>3, ReservedSpares
    <2>5. FreePages(arena') = FreePages(A)
      BY <2>4 DEF SamePools, FreePages
    <2>6. /\ sched'.cost = sched.cost /\ sched'.stage = [sched.stage EXCEPT ![d] = 1]
          /\ sched'.settled = sched.settled
      BY <1>1, <2>1 DEF AdmitReserved, Popped, Shapes, IsSched
    <2>7. ASSUME NEW e \in Docs, sched'.stage[e] = Queued
          PROVE  sched.stage[e] = Queued /\ Spares(arena, arena', e)
      <3>1. sched.stage \in [Docs -> Stages \union {Queued, Done}] /\ 1 \in Stages /\ 1 # Queued
        BY <1>1, PlanIs DEF Members, Types
      <3>2. e # d /\ sched.stage[e] = Queued
        BY <2>6, <2>7, <3>1, <1>1
      <3>3. Spares(arena, A, e)
        BY <1>7, <3>2
      <3>4. Spares(A, arena', e)
        BY <2>4, MarksSpare
      <3> QED BY <3>2, <3>3, <3>4, SparesBoth
    <2>8. Priced'
      BY <1>3, <1>6, <2>6, <2>7, PricesKeep
    <2> DEFINE t == FirstTake(d).pages
    <2>9. t \in Int
      <3>1. 1 \in Stages /\ 0 \in Nat
        BY PlanIs
      <3> QED BY <1>1, <3>1, TakesPages DEF FirstTake
    <2>10. /\ chunk'.pages = chunk.pages - Need(d) - t
           /\ chunk'.temporary = chunk.temporary + t
      BY <1>1, <2>1 DEF AdmitReserved, Launch, Shapes, IsChunk
    <2> HIDE DEF t
    <2>11. /\ chunk'.pages \in Int /\ chunk'.temporary \in Int
           /\ chunk'.pages + chunk'.temporary <= FreePages(arena')
      BY <1>4, <1>7, <1>9, <2>5, <2>9, <2>10
    <2>12. PagesThere'
      BY <2>11 DEF PagesThere
    <2> QED BY <2>8, <2>12 DEF PricedInv
  <1> QED BY <1>8, <1>9

\* A queued document is spared as a group lets go.
LEMMA LetGoSpares ==
    ASSUME BaseInv, Members, Lending, Reading, ArenaInv(arena), NEW n \in Nat, n < Len(chunk.groups),
           NEW A, GoneSoFar(A, n), NEW d \in Docs, d \notin arena.deferred, Spares(arena, A, d)
    PROVE  Spares(arena, LetGo(A, chunk.groups[n + 1]), d)
  <1> DEFINE g == chunk.groups[n + 1]
             p == tree.parent[g.doc]
             R == IF g.carried /\ g.start = 0 /\ p # None THEN Release(A, p) ELSE A
             B == LetGo(A, g)
  <1>1. g.doc \in Docs /\ Docs \subseteq Keys
    <2>1. chunk.groups \in Seq(GroupType)
      BY DEF Members, Types
    <2>2. Len(chunk.groups) \in Nat /\ n + 1 \in 1 .. Len(chunk.groups)
      BY <2>1
    <2>3. g \in GroupType
      BY <2>1, <2>2
    <2> QED BY <2>3, PlanIs DEF GroupType
  <1>2. \A i \in 1 .. n : chunk.groups[i].doc # g.doc
    <2>1. chunk.groups \in Seq(GroupType) /\ Once(chunk.groups)
      BY DEF Members, Types, Lists
    <2>2. DOMAIN chunk.groups = 1 .. Len(chunk.groups) /\ Len(chunk.groups) \in Nat
      BY <2>1
    <2>3. n + 1 \in 1 .. Len(chunk.groups)
      BY <2>2
    <2>4. ASSUME NEW i \in 1 .. n PROVE i \in 1 .. Len(chunk.groups) /\ i # n + 1
      BY <2>2
    <2> QED BY <2>1, <2>2, <2>3, <2>4 DEF Once
  <1>3. p \in Docs \union {None}
    BY <1>1 DEF Lending
  <1>4. ArenaInv(A) /\ d \in Keys /\ d \notin A.deferred
    BY <1>1 DEF GoneSoFar, Yields, Spares
  <1>5. B = IF g.doc \in exec.reserved THEN DoneReading(R, p) ELSE R
    BY DEF LetGo
  <1> HIDE DEF g, p, B
  <1>6. /\ ArenaInv(R) /\ R.reading = A.reading
        /\ Spares(A, R, d) /\ d \notin R.deferred
    <2>1. CASE ~(g.carried /\ g.start = 0 /\ p # None)
      BY <1>4, <2>1, SparesItself
    <2>2. CASE g.carried /\ g.start = 0 /\ p # None
      <3>1. p \in Keys /\ R = Release(A, p)
        BY <1>1, <1>3, <2>2
      <3> HIDE DEF R
      <3>2. ArenaInv(R) /\ Released(A, R, p)
        BY <1>4, <3>1, ReleaseKeeps, ReleaseSheds
      <3>3. SparesBut(A, R, A.deferred)
        BY <1>4, <3>1, ReleaseSpares
      <3> QED BY <1>4, <3>2, <3>3 DEF Released, SparesBut, Spares
    <2> QED BY <2>1, <2>2
  <1> HIDE DEF R
  <1>7. Spares(R, B, d)
    <2>1. CASE g.doc \notin exec.reserved
      BY <1>5, <2>1, SparesItself
    <2>2. CASE g.doc \in exec.reserved
      <3>1. p \in Keys
        BY <1>1, <2>2 DEF Reading, p
      <3>2. g.doc \in Still(p, n)
        BY <1>2, <2>2 DEF Still, p
      <3>3. IsFiniteSet(Still(p, n))
        <4>1. Still(p, n) \subseteq Docs
          BY DEF Still, Reading, Members, Queues, InRun
        <4> QED BY <4>1, PlanIs, FS_Subset
      <3>4. Cardinality(Still(p, n)) \in Nat /\ Cardinality(Still(p, n)) # 0
        <4>1. Still(p, n) # {}
          BY <3>2
        <4> QED BY <3>3, <4>1, FS_EmptySet, FS_CardinalityType
      <3>5. R.reading[p] > 0
        BY <1>6, <3>1, <3>4 DEF GoneSoFar
      <3>6. SparesBut(R, B, R.deferred)
        BY <1>5, <1>6, <2>2, <3>1, <3>5, DoneReadingSpares
      <3> QED BY <1>4, <1>6, <3>6 DEF SparesBut
    <2> QED BY <2>1, <2>2
  <1>8. Spares(arena, B, d)
    BY <1>6, <1>7, SparesBoth
  <1> QED BY <1>8 DEF B, g

LEMMA LetGoAllSpares ==
    ASSUME BaseInv, Members, Lending, Reading, ArenaInv(arena), NEW d \in Docs,
           d \notin arena.deferred
    PROVE  Spares(arena, LetGoAll, d)
  <1> DEFINE N == Len(chunk.groups)
  <1>1. N \in Nat
    <2>1. chunk.groups \in Seq(GroupType)
      BY DEF Members, Types
    <2> QED BY <2>1
  <1>2. PICK f : LetsGoOf(f) /\ LetGoAll = f[N]
    BY <1>1, LetGoAllIs
  <1> HIDE DEF N
  <1> DEFINE T == {n \in Nat : n <= N => GoneSoFar(f[n], n) /\ Spares(arena, f[n], d)}
  <1>3. f[0] = arena /\ \A n \in Nat : n < N => f[n + 1] = LetGo(f[n], chunk.groups[n + 1])
    BY <1>1, <1>2 DEF LetsGoOf, N
  <1>4. 0 \in T
    <2>1. \A k : Still(k, 0) = ReadersOf(k)
      BY DEF Still, ReadersOf
    <2>2. Yields(arena, arena)
      BY YieldsNothing
    <2>3. GoneSoFar(arena, 0)
      BY <2>1, <2>2 DEF GoneSoFar, Reading
    <2>4. Spares(arena, arena, d)
      BY SparesItself
    <2> QED BY <1>3, <2>3, <2>4
  <1>5. ASSUME NEW n \in Nat, n \in T PROVE n + 1 \in T
    <2> SUFFICES ASSUME n + 1 <= N PROVE GoneSoFar(f[n + 1], n + 1) /\ Spares(arena, f[n + 1], d)
      OBVIOUS
    <2>1. n < N /\ n <= N
      BY <1>1
    <2>2. GoneSoFar(f[n], n) /\ Spares(arena, f[n], d)
      BY <1>5, <2>1
    <2>3. GoneSoFar(LetGo(f[n], chunk.groups[n + 1]), n + 1)
      BY <2>1, <2>2, LetGoKeeps DEF N
    <2>4. Spares(arena, LetGo(f[n], chunk.groups[n + 1]), d)
      BY <2>1, <2>2, LetGoSpares DEF N
    <2> QED BY <1>3, <2>1, <2>3, <2>4
  <1> HIDE DEF T
  <1>6. N \in T
    BY <1>1, <1>4, <1>5, UpTo
  <1> QED BY <1>1, <1>2, <1>6 DEF T

LEMMA SubmitPrices ==
    ASSUME BaseInv, QueueInv, Loans, Loans', PricedInv, Submit
    PROVE  PricedInv'
  <1>1. Looping
    BY DEF Looping, Running, Submit
  <1>2. Priced /\ ArenaInv(arena) /\ ArenaInv(arena') /\ Members /\ Lending /\ Reading
    BY <1>1, FromHere, ToThere
  <1>3. ASSUME NEW d \in Docs, sched.stage[d] = Queued PROVE Spares(arena, arena', d)
    <2>1. d \notin arena.deferred
      BY <1>2, <1>3 DEF Priced, PricedAs
    <2> QED BY <2>1, <1>2, LetGoAllSpares DEF Submit
  <1>4. Priced'
    BY <1>2, <1>3, PricesKeep DEF Submit
  <1>5. PagesThere'
    BY DEF Submit, PagesThere, Planning
  <1> QED BY <1>4, <1>5 DEF PricedInv

\* Settling a document spares the others but the evictable.
LEMMA SettleSpares ==
    ASSUME Known(arena), NEW d \in Docs, NEW b, NEW A \in Settle(d, b)
    PROVE  SparesBut(arena, A, arena.retained \union {d})
  <1>1. ArenaInv(arena) /\ arena \in Arena
    BY DEF Known, ArenaInv
  <1>2. CASE A = arena
    BY <1>2, SparesItself DEF SparesBut
  <1>3. CASE d \in Resident(arena) /\ A \in Retain(arena, d, Length(d))
    <2>1. arena.base[d] = Length(d)
      BY <1>3 DEF Known
    <2> QED BY <1>1, <1>3, <2>1, RetainKeeps
  <1>4. CASE A = FreeKey(arena, d)
    <2>1. SparesBut(arena, A, {d})
      BY <1>1, <1>4, FreeSpares DEF FreeKey
    <2> QED BY <2>1 DEF SparesBut
  <1> QED BY <1>2, <1>3, <1>4 DEF Settle

\* A move keeps the prices.
LEMMA MovedPrices ==
    ASSUME BaseInv, QueueInv, Loans, Loans', PricedInv, pc = "report", pc' = pc,
           plan' = plan, op' = op,
           NEW S, IsSched(S), S.stage = sched.stage, S.skipped = sched.skipped,
           S.settled = sched.settled, S.pending = sched.pending, S.cost = sched.cost,
           NEW d \in Docs, sched.stage[d] # Queued,
           NEW to, Moved(S, d, to),
           \/ \E k \in Stages, w \in BOOLEAN : to = At(k, w)
           \/ \E b \in BOOLEAN : to = Out(b)
    PROVE  PricedInv'
  <1>1. Looping
    BY DEF Looping, Running
  <1>2. Priced /\ ArenaInv(arena) /\ ArenaInv(arena') /\ Members /\ Known(arena)
    BY <1>1, FromHere, ToThere DEF Loans
  <1>3. sched'.settled = sched.settled /\ sched'.cost = sched.cost
    BY MovedSettles
  <1>4. OnlyLeaves(d) /\ SparesBut(arena, arena', arena.retained \union {d})
    <2>1. CASE \E k \in Stages, w \in BOOLEAN : to = At(k, w)
      <3>1. PICK k \in Stages, w \in BOOLEAN : to = At(k, w)
        BY <2>1
      <3>2. Moved(S, d, At(k, w))
        BY <3>1
      <3>3. OnlyLeaves(d) /\ arena' = arena
        BY <1>2, <3>2, MovedOnSettles
      <3> QED BY <3>3, SparesItself DEF SparesBut
    <2>2. CASE \E b \in BOOLEAN : to = Out(b)
      <3>1. PICK b \in BOOLEAN : to = Out(b)
        BY <2>2
      <3>2. Moved(S, d, Out(b))
        BY <3>1
      <3>3. OnlyLeaves(d) /\ arena' \in Settle(d, b)
        BY <1>2, <3>2, MovedOutSettles
      <3> QED BY <1>2, <3>3, SettleSpares
    <2> QED BY <2>1, <2>2
  <1>5. ASSUME NEW e \in Docs, sched'.stage[e] = Queued
        PROVE  sched.stage[e] = Queued /\ Spares(arena, arena', e)
    <2>1. sched.stage[e] = Queued
      BY <1>4, <1>5 DEF OnlyLeaves
    <2>2. e # d /\ e \notin arena.retained
      BY <1>2, <2>1 DEF Priced, PricedAs
    <2> QED BY <1>4, <2>1, <2>2, PlanIs DEF SparesBut
  <1>6. Priced'
    BY <1>2, <1>3, <1>5, PricesKeep
  <1>7. PagesThere'
    BY DEF PagesThere, Planning
  <1> QED BY <1>6, <1>7 DEF PricedInv

\* The three actions that move a document.
LEMMA ReportAdvancePrices ==
    ASSUME BaseInv, QueueInv, Loans, Loans', PricedInv, ReportAdvance
    PROVE  PricedInv'
  <1> DEFINE d == Reported.doc
             S == [Received EXCEPT !.ready = Append(@, d)]
  <1>1. /\ Reporting /\ pc = "report" /\ Reported.stage < LastStage
        /\ plan' = plan /\ op' = op /\ pc' = pc
    BY DEF ReportAdvance, Reporting
  <1>2. PICK to \in Enter(d, Reported.stage + 1, FALSE) : Moved(S, d, to)
    BY DEF ReportAdvance
  <1>3. d \in Docs /\ Reported.stage \in Stages /\ Reported.stage = sched.stage[d]
    BY <1>1, AnsweredIs
  <1>4. Reported.stage + 1 \in Stages /\ sched.stage[d] # Queued
    <2>1. /\ LastStage \in Nat /\ Stages = 1 .. LastStage /\ Queued \notin Stages
      BY PlanIs
    <2>2. sched.stage[d] # Queued
      BY <2>1, <1>3
    <2>3. Reported.stage + 1 \in Stages
      BY <2>1, <1>1, <1>3
    <2> QED BY <2>2, <2>3
  <1>5. \/ \E k \in Stages, w \in BOOLEAN : to = At(k, w)
        \/ \E b \in BOOLEAN : to = Out(b)
    BY <1>2, <1>3, <1>4, EnterIs
  <1>6. /\ IsSched(S) /\ S.stage = sched.stage /\ S.skipped = sched.skipped
        /\ S.pending = sched.pending /\ S.settled = sched.settled /\ S.cost = sched.cost
    <2>1. IsSched(sched)
      BY <1>1, ReportedIs DEF Shapes
    <2>2. /\ IsSched(Received) /\ Received.stage = sched.stage /\ Received.skipped = sched.skipped
          /\ Received.pending = sched.pending /\ Received.settled = sched.settled
          /\ Received.cost = sched.cost
      BY <2>1 DEF Received, IsSched
    <2> QED BY <2>2 DEF IsSched
  <1> HIDE DEF S, d
  <1> QED BY <1>1, <1>2, <1>3, <1>4, <1>5, <1>6, MovedPrices

LEMMA ReportSettlePrices ==
    ASSUME BaseInv, QueueInv, Loans, Loans', PricedInv, ReportSettle
    PROVE  PricedInv'
  <1> DEFINE d == Reported.doc
             S == Received
  <1>1. Reporting /\ pc = "report" /\ plan' = plan /\ op' = op /\ pc' = pc
    BY DEF ReportSettle, Reporting
  <1>2. \E b \in BOOLEAN : Moved(S, d, Out(b))
    BY DEF ReportSettle
  <1>3. d \in Docs /\ sched.stage[d] \in Stages
    BY <1>1, AnsweredIs
  <1>4. /\ IsSched(S) /\ S.stage = sched.stage /\ S.skipped = sched.skipped
        /\ S.pending = sched.pending /\ S.settled = sched.settled /\ S.cost = sched.cost
    <2>1. IsSched(sched)
      BY <1>1, ReportedIs DEF Shapes
    <2> QED BY <2>1 DEF Received, IsSched
  <1>5. sched.stage[d] # Queued
    BY <1>3, PlanIs
  <1> HIDE DEF S, d
  <1>6. PICK to : Moved(S, d, to) /\ \E b \in BOOLEAN : to = Out(b)
    BY <1>2
  <1> QED BY <1>1, <1>3, <1>4, <1>5, <1>6, MovedPrices

LEMMA DecideWaitingPrices ==
    ASSUME BaseInv, QueueInv, Loans, Loans', PricedInv, DecideWaiting
    PROVE  PricedInv'
  <1> DEFINE d == Head(sched.waiting)
             S == [sched EXCEPT !.waiting = Tail(@)]
  <1>1. /\ pc = "report" /\ sched.waiting # <<>> /\ plan' = plan /\ op' = op /\ pc' = pc
    BY DEF DecideWaiting
  <1>2. PICK to \in Enter(d, sched.stage[d], TRUE) : Moved(S, d, to)
    BY DEF DecideWaiting
  <1>3. Running /\ Shapes /\ Members
    BY <1>1 DEF QueueInv, Running
  <1>4. d \in Docs /\ sched.stage[d] \in Stages
    <2>1. sched.waiting \in Seq(Docs) /\ NoRepeats(sched.waiting)
      BY <1>3 DEF Members, Types, Lists
    <2>2. d \in Docs /\ d \in Range(sched.waiting)
      BY <1>1, <2>1, TailIs
    <2>3. d \in InRun
      BY <1>3, <2>2 DEF Members, Queues, Streams, ReadySet
    <2> HIDE DEF d
    <2>4. sched.stage[d] \in Stages
      BY <2>3 DEF InRun
    <2> QED BY <2>2, <2>4
  <1>5. \/ \E k \in Stages, w \in BOOLEAN : to = At(k, w)
        \/ \E b \in BOOLEAN : to = Out(b)
    BY <1>2, <1>4, EnterIs
  <1>6. /\ IsSched(S) /\ S.stage = sched.stage /\ S.skipped = sched.skipped
        /\ S.pending = sched.pending /\ S.settled = sched.settled /\ S.cost = sched.cost
    BY <1>3 DEF Shapes, IsSched
  <1>7. sched.stage[d] # Queued
    BY <1>4, PlanIs
  <1> HIDE DEF S, d
  <1> QED BY <1>1, <1>2, <1>4, <1>5, <1>6, <1>7, MovedPrices

\* Skipping a document spares the others that are not owed a free.
LEMMA SkipOneSpares ==
    ASSUME BaseInv, Members, NEW A, ArenaInv(A), NEW n \in 1 .. Len(sched.skipped),
           NEW d \in Docs, sched.stage[d] # Done, d \notin A.deferred
    PROVE  Spares(A, SkipOne(A, sched.skipped[n]), d)
  <1> DEFINE e == sched.skipped[n]
             p == tree.parent[e]
             R == IF p \in tree.admitted THEN Release(A, p) ELSE A
             B == IF e \in Resident(R) THEN FreeKey(R, e) ELSE R
  <1>1. SkipOne(A, e) = B
    BY DEF SkipOne
  <1>2. tree.admitted \subseteq Keys /\ d \in Keys
    BY PlanIs DEF Members, Types
  <1>3. e # d
    <2>1. sched.skipped \in Seq(Docs)
      BY DEF Members, Types
    <2>2. e \in Range(sched.skipped)
      <3>1. DOMAIN sched.skipped = 1 .. Len(sched.skipped)
        BY <2>1
      <3> QED BY <3>1 DEF Range
    <2>3. sched.stage[e] = Done
      BY <2>2 DEF Members, Queues
    <2> HIDE DEF e
    <2> QED BY <2>3
  <1> HIDE DEF e, p
  <1>4. ArenaInv(R) /\ Spares(A, R, d)
    <2>1. CASE p \in tree.admitted
      <3>1. p \in Keys /\ R = Release(A, p)
        BY <1>2, <2>1
      <3> HIDE DEF R
      <3>2. ArenaInv(R) /\ SparesBut(A, R, A.deferred)
        BY <3>1, ReleaseKeeps, ReleaseSpares
      <3> QED BY <1>2, <3>2 DEF SparesBut
    <2>2. CASE p \notin tree.admitted
      BY <2>2, SparesItself
    <2> QED BY <2>1, <2>2
  <1> HIDE DEF R
  <1>5. Spares(R, B, d)
    <2>1. CASE e \in Resident(R)
      <3>1. B = FreeAll(R, {e}) /\ R \in Arena
        BY <1>4, <2>1 DEF FreeKey, ArenaInv
      <3> HIDE DEF B
      <3>2. SparesBut(R, B, {e})
        BY <3>1, FreeSpares
      <3> QED BY <1>2, <1>3, <3>2 DEF SparesBut
    <2>2. CASE e \notin Resident(R)
      BY <2>2, SparesItself
    <2> QED BY <2>1, <2>2
  <1> HIDE DEF B
  <1>6. Spares(A, B, d)
    BY <1>4, <1>5, SparesBoth
  <1> QED BY <1>1, <1>6 DEF e

LEMMA SkipAllSpares ==
    ASSUME BaseInv, Members, ArenaInv(arena), NEW d \in Docs, sched.stage[d] # Done,
           d \notin arena.deferred
    PROVE  Spares(arena, SkipAll, d)
  <1> DEFINE N == Len(sched.skipped)
  <1>1. N \in Nat
    <2>1. sched.skipped \in Seq(Docs)
      BY DEF Members, Types
    <2> QED BY <2>1
  <1>2. PICK f : SkipsOf(f) /\ SkipAll = f[N]
    BY <1>1, SkipAllIs
  <1> HIDE DEF N
  <1> DEFINE T == {n \in Nat : n <= N => Skipping(f[n], n) /\ Spares(arena, f[n], d)}
  <1>3. f[0] = arena /\ \A n \in Nat : n < N => f[n + 1] = SkipOne(f[n], sched.skipped[n + 1])
    BY <1>1, <1>2 DEF SkipsOf, N
  <1>4. 0 \in T
    <2>1. Yields(arena, arena)
      BY YieldsNothing
    <2>2. Skipping(arena, 0)
      BY <2>1 DEF Skipping
    <2>3. Spares(arena, arena, d)
      BY SparesItself
    <2> QED BY <1>3, <2>2, <2>3
  <1>5. ASSUME NEW n \in Nat, n \in T PROVE n + 1 \in T
    <2> SUFFICES ASSUME n + 1 <= N PROVE Skipping(f[n + 1], n + 1) /\ Spares(arena, f[n + 1], d)
      OBVIOUS
    <2>1. n < N /\ n <= N /\ n + 1 \in 1 .. N
      BY <1>1
    <2>2. Skipping(f[n], n) /\ Spares(arena, f[n], d)
      BY <1>5, <2>1
    <2>3. Skipping(SkipOne(f[n], sched.skipped[n + 1]), n + 1)
      BY <2>1, <2>2, SkipOneKeeps DEF N
    <2>4. ArenaInv(f[n]) /\ d \notin f[n].deferred
      BY <2>2 DEF Skipping, Yields, Spares
    <2>5. Spares(f[n], SkipOne(f[n], sched.skipped[n + 1]), d)
      BY <2>1, <2>4, SkipOneSpares DEF N
    <2>6. Spares(arena, SkipOne(f[n], sched.skipped[n + 1]), d)
      BY <2>2, <2>5, SparesBoth
    <2> QED BY <1>3, <2>1, <2>3, <2>6
  <1> HIDE DEF T
  <1>6. N \in T
    BY <1>1, <1>4, <1>5, UpTo
  <1> QED BY <1>1, <1>2, <1>6 DEF T

LEMMA EntryReportedPrices ==
    ASSUME BaseInv, QueueInv, Loans, Loans', PricedInv, EntryReported
    PROVE  PricedInv'
  <1>1. /\ pc = "report" /\ plan' = plan /\ op' = op /\ arena' = SkipAll
        /\ (pc' = "report" \/ pc' = back) /\ sched' = [sched EXCEPT !.skipped = <<>>]
    BY DEF EntryReported, PassReported
  <1>2. Looping
    BY <1>1 DEF Looping, Running
  <1>3. Shapes /\ Priced /\ ArenaInv(arena) /\ ArenaInv(arena') /\ Members /\ Turns
    BY <1>2, FromHere, ToThere
  <1>4. sched'.cost = sched.cost /\ sched'.stage = sched.stage /\ sched'.settled = sched.settled
    BY <1>1, <1>3 DEF Shapes, IsSched
  <1>5. ASSUME NEW d \in Docs, sched.stage[d] = Queued PROVE Spares(arena, arena', d)
    <2>1. d \notin arena.deferred /\ sched.stage[d] # Done
      BY <1>3, <1>5, PlanIs DEF Priced, PricedAs
    <2> QED BY <2>1, <1>1, <1>3, SkipAllSpares
  <1>6. Priced'
    BY <1>1, <1>3, <1>4, <1>5, PricesKeep
  <1>7. PagesThere'
    BY <1>1, <1>3 DEF PagesThere, Planning, Turns
  <1> QED BY <1>6, <1>7 DEF PricedInv

\* An operator prices its documents as it pins them.
LEMMA StartPrices ==
    ASSUME BaseInv, Loans, Loans', StartInv, StartOperator
    PROVE  PricedInv'
  <1>1. /\ pc = "start" /\ plan' = plan /\ op' = op /\ Known(arena) /\ ArenaInv(arena)
        /\ Parked(arena)
    BY DEF StartOperator, StartInv, Loans, Known
  <1>2. PICK A \in AppliedRetention :
           LET D == This.docs \intersect alive IN
           \/ arena' = PinAll(A, D \intersect Resident(A)) /\ pc' = "failed"
           \/ Start(A, D)
    BY DEF StartOperator
  <1> DEFINE D == This.docs \intersect alive
             resident == D \intersect Resident(A)
             asked == Asked(D, resident)
  <1>3. Yields(arena, A)
    BY <1>1, RetentionYields
  <1>4. ArenaInv(A) /\ Known(A) /\ Parked(A)
    BY <1>1, <1>3, YieldsKnown, ParkedYields DEF Yields
  <1>5. D \subseteq Docs /\ asked \subseteq D
    <2>1. This \in OpRecord(Docs)
      BY PlanIs
    <2>2. This.docs \subseteq Docs
      BY <2>1 DEF OpRecord
    <2> QED BY <2>2 DEF Asked
  <1>6. \/ pc' = "failed"
        \/ /\ arena' = PinAll(A, resident) /\ sched' = StartAdmission(A, D)
           /\ chunk' = NoChunk /\ pc' = "top"
    BY <1>2 DEF Start
  <1>7. CASE pc' = "failed"
    BY <1>7 DEF PricedInv, Looping, Running, PagesThere, Planning
  <1>8. CASE arena' = PinAll(A, resident) /\ sched' = StartAdmission(A, D) /\ pc' = "top"
    <2>1. /\ sched'.stage = [d \in Docs |-> IF d \in asked THEN Queued ELSE Done]
          /\ sched'.cost = [d \in Docs |-> IF d \in asked THEN AdmissionCost(A, d) ELSE 0]
          /\ sched'.settled = Ascending(D \ asked)
      <3> DEFINE S == StartAdmission(A, D)
      <3>1. sched' = S
        BY <1>8
      <3>2. /\ S.stage = [d \in Docs |-> IF d \in Asked(D, D \intersect Resident(A)) THEN Queued ELSE Done]
            /\ S.cost = [d \in Docs |-> IF d \in Asked(D, D \intersect Resident(A))
                                        THEN AdmissionCost(A, d) ELSE 0]
            /\ S.settled = Ascending(D \ Asked(D, D \intersect Resident(A)))
        <4> HIDE DEF D
        <4> QED BY DEF StartAdmission
      <3> HIDE DEF D, S
      <3> QED BY <3>1, <3>2 DEF asked, resident
    <2>2. /\ ArenaInv(arena') /\ arena'.deferred = A.deferred
          /\ arena'.retained = A.retained \ resident
      <3>1. resident \in SUBSET Resident(A) /\ arena' = PinAll(A, resident)
        BY <1>8
      <3> HIDE DEF resident
      <3> QED BY <3>1, <1>4, PinAllKeeps
    <2>3. SamePools(A, arena')
      <3>1. A \in Arena /\ arena' = PinAll(A, resident)
        BY <1>4, <1>8 DEF ArenaInv
      <3> HIDE DEF resident
      <3> QED BY <3>1 DEF PinAll, SamePools, Arena
    <2>4. A.deferred = {} /\ A.retained \subseteq Resident(A)
      <3>1. A.deferred \subseteq Kept(A) /\ A.retained \subseteq Resident(A)
        BY <1>4 DEF ArenaInv, Consistent
      <3>2. Kept(A) = {}
        BY <1>4 DEF Parked, Idle, Kept
      <3> QED BY <3>1, <3>2
    <2>5. Range(sched'.settled) = D \ asked
      <3>1. D \ asked \subseteq Int /\ IsFiniteSet(D \ asked)
        BY <1>5, PlanIs, FS_Subset
      <3> HIDE DEF D, asked
      <3> QED BY <2>1, <3>1, AscendingOf
    <2>6. ASSUME NEW d \in Docs, sched'.stage[d] = Queued
          PROVE  /\ sched'.cost[d] = AdmissionCost(arena', d)
                 /\ d \notin arena'.retained /\ d \notin arena'.deferred
                 /\ d \notin Range(sched'.settled)
      <3>1. d \in asked /\ sched'.cost[d] = AdmissionCost(A, d)
        <4> HIDE DEF D, asked
        <4> QED BY <2>1, <2>6, PlanIs
      <3>2. d \in A.retained => d \in resident
        BY <1>5, <2>4, <3>1
      <3> HIDE DEF D, asked, resident
      <3>3. Spares(A, arena', d)
        BY <2>2, <2>3, MarksSpare
      <3>4. AdmissionCost(arena', d) = AdmissionCost(A, d)
        BY <1>4, <2>2, <3>3, CostSpared
      <3>5. d \notin arena'.retained
        BY <2>2, <3>2
      <3>6. d \notin arena'.deferred /\ d \notin Range(sched'.settled)
        BY <2>2, <2>4, <2>5, <3>1
      <3> QED BY <3>1, <3>4, <3>5, <3>6
    <2>7. Docs' = Docs /\ \A d : Capacity(d)' = Capacity(d)
      BY <1>1, Frozen DEF Capacity
    <2>8. \A d : AdmissionCost(arena, d)' = AdmissionCost(arena', d)
      BY <2>7 DEF AdmissionCost
    <2>9. Priced'
      BY <2>6, <2>7, <2>8 DEF Priced, PricedAs
    <2>10. PagesThere'
      BY <1>8 DEF PagesThere, Planning
    <2> QED BY <2>9, <2>10 DEF PricedInv
  <1> HIDE DEF D, resident, asked
  <1> QED BY <1>6, <1>7, <1>8

\* Every step keeps the prices and the pages planned with.
LEMMA PricesKept ==
    ASSUME BaseInv, QueueInv, Loans, Loans', StartInv, PricedInv, [Next]_vars
    PROVE  PricedInv'
  <1>1. CASE Rest \/ UNCHANGED vars
    <2>1. /\ plan' = plan /\ op' = op /\ pc' = pc /\ arena' = arena /\ sched' = sched
          /\ chunk' = chunk
      BY <1>1 DEF Rest, vars
    <2>2. PagesThere'
      BY <2>1, PagesStay DEF PricedInv, Planning
    <2>3. ASSUME Looping' PROVE Priced'
      <3>1. Looping
        BY <2>1, <2>3 DEF Looping, Running
      <3> QED BY <2>1, <3>1, PricelessKeeps DEF Priceless, PricedInv
    <2> QED BY <2>2, <2>3 DEF PricedInv
  <1>2. CASE NextOperator \/ EndQuery \/ NextQuery \/ PassRaises \/ End
    BY <1>2 DEF NextOperator, EndQuery, NextQuery, PassRaises, End, PricedInv, Looping, Running,
       PagesThere, Planning
  <1>3. CASE StartOperator
    BY <1>3, StartPrices
  <1>4. CASE Top \/ MakeRoom \/ TakeReady \/ Nothing \/ RunPass \/ Submit
    BY <1>4, TopPrices, MakeRoomPrices, TakeReadyPrices, NothingPrices, RunPassPrices, SubmitPrices
  <1>5. CASE ReadyTaken \/ CloseChunk \/ ReportPart
    BY <1>5, QuietPrices
  <1>6. CASE ReportAdvance \/ ReportSettle \/ DecideWaiting \/ EntryReported
    BY <1>6, ReportAdvancePrices, ReportSettlePrices, DecideWaitingPrices, EntryReportedPrices
  <1>7. ASSUME NEW d \in Docs, Admission(d) PROVE PricedInv'
    <2>1. CASE AdmitNext(d)
      BY <2>1, AdmitPrices
    <2>2. CASE ~AdmitNext(d)
      <3>1. HoldsBack(d) \/ PopDead(d)
        BY <2>2, <1>7 DEF Admission, HoldsBack
      <3> QED BY <3>1, QuietPrices
    <2> QED BY <2>1, <2>2
  <1> QED BY <1>1, <1>2, <1>3, <1>4, <1>5, <1>6, <1>7 DEF Next

\* The prices hold throughout a run.
LEMMA PricesHold == Spec => [](IInv /\ Loans /\ StartInv /\ PricedInv)
  <1>1. Init => IInv /\ Loans /\ StartInv /\ PricedInv
    <2>1. Init => PricedInv
      BY DEF Init, PricedInv, Looping, Running, PagesThere, Planning
    <2> QED BY <2>1, InitHolds, LoansAtFirst
  <1>2. (IInv /\ Loans /\ StartInv /\ PricedInv) /\ [Next]_vars
           => (IInv /\ Loans /\ StartInv /\ PricedInv)'
    BY StepKeeps, LoansKept, PricesKept DEF IInv
  <1> QED BY <1>1, <1>2, PTL DEF Spec

\* Whatever is admitted, lent, evicted, trimmed and settled between planning a
\* chunk and running it, the pages the scheduler still counts as free and the
\* temporary pages it set aside are free in the arena (admission.py next_chunk
\* against arena.py free_pages).
THEOREM PagesAreThere == Spec => []PlannedPagesFree
  <1>1. IInv /\ Loans /\ StartInv /\ PricedInv => PlannedPagesFree
    BY DEF PricedInv, PagesThere, Planning, PlannedPagesFree
  <1> QED BY <1>1, PricesHold, PTL

-----------------------------------------------------------------------------
(* What the pages hold.                                                    *)

\* Two documents begin with the same n tokens.
SameRows(d, e, n) ==
    /\ n <= Length(d) /\ n <= Length(e)
    /\ \A i \in 1 .. n : Text[d][i] = Text[e][i]

\* It does not matter which comes first, and fewer tokens agree as well.
LEMMA RowsTurn ==
    ASSUME BaseInv, NEW d \in Docs, NEW e \in Docs, NEW n \in Int, SameRows(d, e, n)
    PROVE  SameRows(e, d, n) /\ \A m \in Int : m <= n => SameRows(d, e, m)
  <1>1. Length(d) \in Nat /\ Length(e) \in Nat
    BY PlanIs
  <1>2. ASSUME NEW m \in Int, m <= n PROVE SameRows(d, e, m)
    BY <1>1, <1>2 DEF SameRows
  <1>3. SameRows(e, d, n)
    BY DEF SameRows
  <1> QED BY <1>2, <1>3

LEMMA RowsBoth ==
    ASSUME BaseInv, NEW d \in Docs, NEW e \in Docs, NEW f \in Docs, NEW n \in Int,
           SameRows(d, e, n), SameRows(e, f, n)
    PROVE  SameRows(d, f, n)
  BY DEF SameRows

\* Their prefixes of that length are the same.
LEMMA SameRowsPrefix ==
    ASSUME BaseInv, NEW d \in Docs, NEW e \in Docs, NEW n \in Int, SameRows(d, e, n)
    PROVE  Prefix(d, n) = Prefix(e, n)
  <1>1. Length(d) \in Nat /\ Length(e) \in Nat
    BY PlanIs
  <1>2. (IF n < Length(d) THEN n ELSE Length(d)) = n /\ (IF n < Length(e) THEN n ELSE Length(e)) = n
    BY <1>1 DEF SameRows
  <1>3. SubSeq(Text[d], 1, n) = SubSeq(Text[e], 1, n)
    BY DEF SameRows
  <1> QED BY <1>2, <1>3 DEF Prefix

\* What two documents have in common.
LEMMA CommonIs ==
    ASSUME BaseInv, NEW d \in Docs, NEW e \in Docs
    PROVE  Common(d, e) \in Nat /\ SameRows(d, e, Common(d, e))
  <1>1. Length(d) \in Nat /\ Length(e) \in Nat /\ Text[d] \in Seq(Nat) /\ Text[e] \in Seq(Nat)
    BY PlanIs
  <1> DEFINE S == {n \in 0 .. Length(d) : IsPrefix(SubSeq(Text[d], 1, n), Text[e])}
             c == Common(d, e)
  <1>2. c = Largest(S)
    BY DEF Common
  <1>3. 0 \in S
    <2>1. SubSeq(Text[d], 1, 0) = <<>>
      BY <1>1
    <2>2. SubSeq(Text[e], 1, 0) = <<>>
      BY <1>1
    <2> QED BY <1>1, <2>1, <2>2 DEF IsPrefix
  <1>4. S \subseteq 0 .. Length(d)
    OBVIOUS
  <1> HIDE DEF S
  <1>5. c \in S /\ c \in Nat
    BY <1>1, <1>2, <1>3, <1>4, LargestIs
  <1> HIDE DEF c
  <1>6. c \in 0 .. Length(d) /\ IsPrefix(SubSeq(Text[d], 1, c), Text[e])
    BY <1>5 DEF S
  <1>7. /\ Len(SubSeq(Text[d], 1, c)) = c
        /\ \A i \in 1 .. c : SubSeq(Text[d], 1, c)[i] = Text[d][i]
    BY <1>1, <1>6
  <1>8. c <= Len(Text[e]) /\ SubSeq(SubSeq(Text[d], 1, c), 1, c) = SubSeq(Text[e], 1, c)
    BY <1>6, <1>7 DEF IsPrefix
  <1>9. ASSUME NEW i \in 1 .. c PROVE Text[d][i] = Text[e][i]
    <2>1. SubSeq(SubSeq(Text[d], 1, c), 1, c)[i] = SubSeq(Text[d], 1, c)[i]
      BY <1>1, <1>6, <1>7
    <2>2. SubSeq(Text[e], 1, c)[i] = Text[e][i]
      BY <1>1, <1>6, <1>8
    <2> QED BY <1>7, <1>8, <2>1, <2>2
  <1>10. SameRows(d, e, c)
    <2>1. c <= Length(d) /\ c <= Length(e)
      BY <1>1, <1>6, <1>8 DEF Length
    <2> QED BY <2>1, <1>9 DEF SameRows
  <1> QED BY <1>5, <1>10 DEF c

\* A document has the tokens it may share in common with the one before it.
LEMMA SharesWithPrevious ==
    ASSUME BaseInv, NEW D \in SUBSET Docs, NEW d \in Docs, TreeShared(D)[d] # 0
    PROVE  /\ Previous(D, d) \in D /\ Previous(D, d) < d
           /\ \A e \in D : e < d => e <= Previous(D, d)
           /\ SameRows(Previous(D, d), d, TreeShared(D)[d])
  <1>1. Length(d) \in Nat /\ Docs \subseteq Nat /\ d \in Nat
    BY PlanIs
  <1> DEFINE near == {Common(Previous(D, d), d), Bigger(0, Length(d) - 1)}
             n == Least(near, 0)
  <1>2. Previous(D, d) # None /\ TreeShared(D)[d] = (n \div PageTokens) * PageTokens
    <2>1. ~(d \notin D \/ Previous(D, d) = None)
      BY DEF TreeShared
    <2> QED BY <2>1 DEF TreeShared
  <1> DEFINE B == {e \in D : e < d}
  <1>3. Previous(D, d) \in B /\ \A e \in B : e <= Previous(D, d)
    <2>1. B \subseteq 0 .. d
      <3>1. \A e \in D : e \in Nat
        BY <1>1
      <3>2. \A e \in D : e < d => e \in 0 .. d
        BY <1>1, <3>1
      <3> QED BY <1>1, <3>2
    <2>2. B # {}
      BY <1>2 DEF Previous, Largest, None
    <2>3. Previous(D, d) = Largest(B)
      BY DEF Previous
    <2> HIDE DEF B
    <2>4. d \in Nat
      BY <1>1
    <2>5. Largest(B) \in B /\ \A m \in B : m <= Largest(B)
      BY <2>1, <2>2, <2>4, LargestIs
    <2> QED BY <2>3, <2>5
  <1>4. Previous(D, d) \in Docs
    BY <1>3
  <1>5. Common(Previous(D, d), d) \in Nat /\ SameRows(Previous(D, d), d, Common(Previous(D, d), d))
    BY <1>4, CommonIs
  <1>6. Bigger(0, Length(d) - 1) \in Nat
    BY <1>1 DEF Bigger
  <1>7. n \in Nat /\ n <= Common(Previous(D, d), d)
    <2>1. near \subseteq Nat /\ near # {} /\ Common(Previous(D, d), d) \in near
      BY <1>5, <1>6
    <2> HIDE DEF near
    <2>2. n \in near /\ \A m \in near : n <= m
      BY <2>1, LeastIs
    <2> QED BY <2>1, <2>2
  <1> HIDE DEF near, n, B
  <1>8. TreeShared(D)[d] \in Nat /\ TreeShared(D)[d] <= Common(Previous(D, d), d)
    <2>1. /\ (n \div PageTokens) * PageTokens \in Nat
          /\ (n \div PageTokens) * PageTokens <= n
      BY <1>7, FloorPages
    <2> QED BY <1>2, <1>5, <1>7, <2>1
  <1>9. SameRows(Previous(D, d), d, TreeShared(D)[d])
    BY <1>4, <1>5, <1>8, RowsTurn
  <1> QED BY <1>3, <1>9 DEF B

\* A parent begins with all the tokens its borrower shares, since every
\* document between them shares as many with the one before it.
LEMMA SharesWithParent ==
    ASSUME BaseInv, NEW D \in SUBSET Docs, NEW d \in Docs, TreeParent(D)[d] # None
    PROVE  SameRows(TreeParent(D)[d], d, TreeShared(D)[d])
  <1>1. Length(d) \in Nat /\ Docs \subseteq Nat /\ d \in Nat /\ None \notin Docs
    BY PlanIs DEF None, Queued
  <1> DEFINE n == TreeShared(D)[d]
             p == TreeParent(D)[d]
             sharing(e) == \A f \in D : e < f /\ f <= d => TreeShared(D)[f] >= n
             E == {e \in D : e < d /\ sharing(e)}
             Far == {f \in D : p <= f /\ f <= d /\ ~SameRows(f, d, n)}
  <1>2. n # 0 /\ p = Least(E, None)
    BY DEF TreeParent
  <1>3. n \in Nat /\ n <= Length(d)
    BY TreeIs
  <1>4. p \in D /\ p < d /\ sharing(p)
    <2>1. E \subseteq Nat
      BY <1>1
    <2>2. E = {} => p = None
      <3> HIDE DEF E
      <3> QED BY <1>2 DEF Least
    <2>3. E # {} => Least(E, None) \in E
      <3> HIDE DEF E
      <3> QED BY <2>1, LeastIs
    <2> HIDE DEF p
    <2> QED BY <1>2, <2>2, <2>3 DEF p
  <1> HIDE DEF p, n
  <1>5. SUFFICES ASSUME Far # {} PROVE FALSE
    <2>1. p <= p /\ p <= d
      BY <1>1, <1>4
    <2>2. p \notin Far => SameRows(p, d, n)
      BY <1>4, <2>1
    <2> QED BY <2>2 DEF p, n
  <1>6. PICK m \in Far : \A f \in Far : f <= m
    <2>1. Far \subseteq 0 .. d
      <3>1. Far \subseteq D /\ \A f \in Far : f <= d
        OBVIOUS
      <3>2. \A f \in Nat : f <= d => f \in 0 .. d
        BY <1>1
      <3> HIDE DEF Far
      <3> QED BY <1>1, <3>1, <3>2
    <2> HIDE DEF Far
    <2>2. Largest(Far) \in Far /\ \A f \in Far : f <= Largest(Far)
      BY <1>1, <1>5, <2>1, LargestIs
    <2> QED BY <2>2
  <1>7. m \in D /\ m \in Docs /\ m \in Nat /\ p <= m /\ m <= d /\ ~SameRows(m, d, n)
    BY <1>1, <1>6
  <1>8. SameRows(d, d, n) /\ m # d
    BY <1>3, <1>7 DEF SameRows
  <1> DEFINE After == {f \in D : m < f /\ f <= d}
             f == Least(After, None)
  <1>9. d \in D
    <2>1. TreeShared(D)[d] # 0
      BY <1>2 DEF n
    <2> QED BY <2>1 DEF TreeShared
  <1>10. f \in After /\ \A g \in After : f <= g
    <2>1. After \subseteq Nat /\ d \in After
      <3>1. m < d /\ d <= d
        BY <1>1, <1>7, <1>8
      <3>2. d \in After
        BY <1>9, <3>1
      <3>3. After \subseteq D
        OBVIOUS
      <3> HIDE DEF After
      <3> QED BY <1>1, <3>2, <3>3
    <2> HIDE DEF After
    <2> QED BY <2>1, LeastIs
  <1> HIDE DEF f
  <1>11. f \in D /\ f \in Docs /\ f \in Nat /\ m < f /\ f <= d /\ p < f
    <2>1. f \in D /\ m < f /\ f <= d
      BY <1>10
    <2>2. p \in Nat
      BY <1>1, <1>4
    <2> QED BY <1>1, <1>7, <2>1, <2>2
  <1>12. TreeShared(D)[f] >= n /\ TreeShared(D)[f] \in Nat
    BY <1>4, <1>11, TreeIs
  <1>13. /\ Previous(D, f) \in D /\ Previous(D, f) < f
         /\ \A e \in D : e < f => e <= Previous(D, f)
         /\ SameRows(Previous(D, f), f, TreeShared(D)[f])
    <2>1. TreeShared(D)[f] # 0
      BY <1>2, <1>3, <1>12
    <2> QED BY <1>11, <2>1, SharesWithPrevious
  <1>14. Previous(D, f) = m
    <2> DEFINE q == Previous(D, f)
    <2>1. q \in D /\ q < f /\ m <= q /\ q \in Nat
      BY <1>1, <1>7, <1>11, <1>13
    <2>2. ~(m < q)
      <3>1. m < q => q \in After
        BY <1>1, <1>11, <2>1
      <3>2. q \in After => f <= q
        BY <1>10
      <3> HIDE DEF q, After
      <3> QED BY <1>11, <2>1, <3>1, <3>2
    <2> HIDE DEF q
    <2>3. q = m
      BY <1>7, <2>1, <2>2
    <2> QED BY <2>3 DEF q
  <1>15. SameRows(m, f, n)
    <2>1. SameRows(m, f, TreeShared(D)[f])
      BY <1>13, <1>14
    <2> QED BY <1>3, <1>7, <1>11, <1>12, <2>1, RowsTurn
  <1>16. SameRows(f, d, n)
    <2>1. f \notin Far
      <3>1. f \in Far => f <= m
        BY <1>6
      <3> QED BY <1>7, <1>11, <3>1
    <2> QED BY <1>7, <1>11, <2>1, <1>1, <1>4
  <1> QED BY <1>3, <1>7, <1>11, <1>15, <1>16, RowsBoth

\* A table names every page once, so it is no longer than the pool.
LEMMA TableFits ==
    ASSUME NEW n \in Nat, NEW P, PoolInv(P, n), NEW k \in Keys
    PROVE  Len(TablePages(P, k)) <= Cardinality(DOMAIN P.holds)
  <1> DEFINE s == TablePages(P, k)
             m == Len(s)
  <1>1. s \in Seq(Pages(n)) /\ Distinct(s) /\ DOMAIN P.holds = Pages(n)
    BY TableIs, Fields DEF PoolInv
  <1>2. m \in Nat /\ s \in [1 .. m -> Pages(n)]
    BY <1>1
  <1>3. IsFiniteSet(Pages(n))
    BY FS_Interval DEF Pages
  <1>4. \A i, j \in 1 .. m : s[i] = s[j] => i = j
    BY <1>1 DEF Distinct
  <1>5. IsFiniteSet(1 .. m) /\ Cardinality(1 .. m) = m
    <2> HIDE DEF m
    <2>1. Cardinality(1 .. m) = IF 1 > m THEN 0 ELSE m - 1 + 1
      BY <1>2, FS_Interval
    <2>2. IsFiniteSet(1 .. m)
      BY <1>2, FS_Interval
    <2> QED BY <1>2, <2>1, <2>2
  <1> HIDE DEF m, s
  <1>6. s \in Injection(1 .. m, Pages(n))
    BY <1>2, <1>4 DEF Injection, IsInjective
  <1>7. Cardinality(1 .. m) <= Cardinality(Pages(n))
    BY <1>3, <1>6, FS_Injection
  <1> QED BY <1>1, <1>5, <1>7 DEF m, s

\* What a pass writes: the pages of its fresh documents from the rows it packs.
LEMMA WrittenAre ==
    ASSUME NEW n \in Nat, NEW P, PoolInv(P, n), Fresh \subseteq Docs, Docs \subseteq Keys,
           NEW start, NEW w
    PROVE  w \in Written(P, start) <=>
             \E f \in Fresh : \E i \in 1 .. Len(TablePages(P, f)) :
                /\ w = <<TablePages(P, f)[i], f, i>>
                /\ start[f] + i * PageTokens > tree.chosen[f]
                /\ start[f] + (i - 1) * PageTokens < Length(f)
  <1> DEFINE G == {g \in Range(chunk.groups) : g.carried}
             I == 1 .. Cardinality(DOMAIN P.holds)
             In(g, i) == /\ i \in DOMAIN TablePages(P, g.doc)
                         /\ RowsThrough(start[g.doc], i) > tree.chosen[g.doc]
                         /\ RowsThrough(start[g.doc], i - 1) < Length(g.doc)
  <1>1. w \in Written(P, start) <=>
           \E g \in G, i \in I : In(g, i) /\ w = <<TablePages(P, g.doc)[i], g.doc, i>>
    <2>1. Written(P, start) = {<<TablePages(P, x[1].doc)[x[2]], x[1].doc, x[2]>> :
                                  x \in {y \in G \X I : In(y[1], y[2])}}
      BY DEF Written
    <2>2. ASSUME w \in Written(P, start)
          PROVE  \E g \in G, i \in I : In(g, i) /\ w = <<TablePages(P, g.doc)[i], g.doc, i>>
      <3>1. PICK x \in {y \in G \X I : In(y[1], y[2])} :
                w = <<TablePages(P, x[1].doc)[x[2]], x[1].doc, x[2]>>
        BY <2>1, <2>2
      <3>2. x[1] \in G /\ x[2] \in I /\ In(x[1], x[2])
        BY <3>1
      <3> HIDE DEF G, I, In
      <3> QED BY <3>1, <3>2
    <2>3. ASSUME NEW g \in G, NEW i \in I, In(g, i), w = <<TablePages(P, g.doc)[i], g.doc, i>>
          PROVE  w \in Written(P, start)
      <3> DEFINE x == <<g, i>>
      <3>1. x \in {y \in G \X I : In(y[1], y[2])}
        BY <2>3
      <3>2. w = <<TablePages(P, x[1].doc)[x[2]], x[1].doc, x[2]>>
        BY <2>3
      <3> HIDE DEF x, In, G, I
      <3> QED BY <2>1, <3>1, <3>2
    <2> HIDE DEF G, I, In
    <2> QED BY <2>2, <2>3
  <1>2. Fresh = {g.doc : g \in G}
    BY DEF Fresh
  <1>3. \A f \in Fresh : DOMAIN TablePages(P, f) = 1 .. Len(TablePages(P, f))
    BY TableIs DEF PoolInv
  <1>4. \A f \in Fresh : \A i \in 1 .. Len(TablePages(P, f)) : i \in I
    <2> SUFFICES ASSUME NEW f \in Fresh, NEW i \in 1 .. Len(TablePages(P, f)) PROVE i \in I
      OBVIOUS
    <2>1. Len(TablePages(P, f)) <= Cardinality(DOMAIN P.holds)
      BY TableFits
    <2>2. Len(TablePages(P, f)) \in Nat
      BY TableIs DEF PoolInv
    <2>3. Cardinality(DOMAIN P.holds) \in Nat
      <3>1. DOMAIN P.holds = 0 .. n - 1
        BY Fields DEF PoolInv, Pages
      <3> QED BY <3>1, FS_Interval, FS_CardinalityType
    <2> QED BY <2>1, <2>2, <2>3
  <1> HIDE DEF I
  <1>5. \A f \in Fresh : \E g \in G : g.doc = f
    BY <1>2
  <1>6. ASSUME w \in Written(P, start)
        PROVE  \E f \in Fresh : \E i \in 1 .. Len(TablePages(P, f)) :
                /\ w = <<TablePages(P, f)[i], f, i>>
                /\ start[f] + i * PageTokens > tree.chosen[f]
                /\ start[f] + (i - 1) * PageTokens < Length(f)
    <2>1. PICK g \in G, i \in I : In(g, i) /\ w = <<TablePages(P, g.doc)[i], g.doc, i>>
      BY <1>1, <1>6
    <2>2. g.doc \in Fresh
      BY <1>2
    <2> QED BY <1>3, <2>1, <2>2 DEF RowsThrough
  <1>7. ASSUME NEW f \in Fresh, NEW i \in 1 .. Len(TablePages(P, f)),
               w = <<TablePages(P, f)[i], f, i>>,
               start[f] + i * PageTokens > tree.chosen[f],
               start[f] + (i - 1) * PageTokens < Length(f)
        PROVE  w \in Written(P, start)
    <2>1. PICK g \in G : g.doc = f
      BY <1>5
    <2>2. In(g, i)
      BY <1>3, <1>7, <2>1 DEF RowsThrough
    <2> HIDE DEF In, G
    <2> QED BY <1>1, <1>4, <1>7, <2>1, <2>2
  <1> QED BY <1>6, <1>7

\* After a pass a page holds k's own tokens, when it did before or is one of
\* those the pass writes, whichever of its readers writes it.
LEMMA AfterPassIs ==
    ASSUME BaseInv, NEW n \in Nat, NEW P, PoolInv(P, n), NEW start \in [Keys -> Nat], Aligned(P, start),
           NEW s, \A d \in Docs : s[d] = start[d], Fresh \subseteq Docs,
           NEW content, DOMAIN content = Pages(n), NEW k \in Docs, NEW x \in Spots(P, start, k),
           \A f \in Docs : f # k /\ x \in Spots(P, start, f) => SameRows(f, k, x[2]),
           \/ content[x[1]] = Prefix(k, x[2])
           \/ \E f \in Fresh : /\ x \in Spots(P, start, f) /\ x[2] > tree.chosen[f]
                               /\ x[2] - PageTokens < Length(f)
    PROVE  AfterPass(content, P, s)[x[1]] = Prefix(k, x[2])
  <1>1. Docs \subseteq Keys /\ \A d \in Docs : Length(d) \in Nat
    BY PlanIs
  <1>2. PICK i \in 1 .. Len(TablePages(P, k)) : x = <<TablePages(P, k)[i], start[k] + i * PageTokens>>
    BY DEF Spots
  <1> DEFINE W == Written(P, s)
             here == {w \in W : w[1] = x[1]}
  <1>3. x[1] \in Pages(n) /\ x[2] \in Int
    <2>1. TablePages(P, k) \in Seq(Pages(n)) /\ start[k] \in Nat
      BY <1>1, TableIs DEF PoolInv
    <2>2. TablePages(P, k)[i] \in Pages(n)
      BY <2>1
    <2>3. i * PageTokens \in Int
      BY Times
    <2> QED BY <1>2, <2>1, <2>2, <2>3
  <1>4. AfterPass(content, P, s)[x[1]] =
           IF \E w \in W : w[1] = x[1]
           THEN LET w == CHOOSE w \in W : w[1] = x[1]
                IN  Prefix(w[2], RowsThrough(s[w[2]], w[3]))
           ELSE content[x[1]]
    BY <1>3 DEF AfterPass
  <1>5. ASSUME NEW w \in W, w[1] = x[1]
        PROVE  Prefix(w[2], RowsThrough(s[w[2]], w[3])) = Prefix(k, x[2])
    <2>1. PICK f \in Fresh : \E j \in 1 .. Len(TablePages(P, f)) : w = <<TablePages(P, f)[j], f, j>>
      BY <1>1, <1>5, WrittenAre
    <2>2. PICK j \in 1 .. Len(TablePages(P, f)) : w = <<TablePages(P, f)[j], f, j>>
      BY <2>1
    <2>3. f \in Docs /\ f \in Keys /\ k \in Keys
      BY <1>1
    <2>4. TablePages(P, f)[j] = TablePages(P, k)[i]
      BY <1>2, <1>5, <2>2
    <2>5. start[f] + j * PageTokens = x[2]
      BY <1>2, <2>3, <2>4 DEF Aligned
    <2>6. x \in Spots(P, start, f)
      BY <1>2, <2>4, <2>5 DEF Spots
    <2>7. Prefix(f, x[2]) = Prefix(k, x[2])
      <3>1. f = k \/ SameRows(f, k, x[2])
        BY <2>3, <2>6
      <3> QED BY <1>3, <2>3, <3>1, SameRowsPrefix
    <2>8. RowsThrough(s[w[2]], w[3]) = x[2] /\ w[2] = f
      BY <2>2, <2>3, <2>5 DEF RowsThrough
    <2> QED BY <2>7, <2>8
  <1>6. ASSUME ~ \E w \in W : w[1] = x[1] PROVE content[x[1]] = Prefix(k, x[2])
    <2> SUFFICES ASSUME NEW f \in Fresh, x \in Spots(P, start, f), x[2] > tree.chosen[f],
                        x[2] - PageTokens < Length(f)
                 PROVE  FALSE
      OBVIOUS
    <2>1. PICK j \in 1 .. Len(TablePages(P, f)) : x = <<TablePages(P, f)[j], start[f] + j * PageTokens>>
      BY DEF Spots
    <2>2. s[f] = start[f] /\ start[f] \in Nat
      BY <1>1
    <2>3. start[f] + (j - 1) * PageTokens = x[2] - PageTokens
      <3>1. (j - 1) * PageTokens = j * PageTokens - 1 * PageTokens /\ j * PageTokens \in Int
        BY Times
      <3>2. 1 * PageTokens = PageTokens
        BY PageTokensAssumption
      <3> QED BY <2>1, <2>2, <3>1, <3>2, PageTokensAssumption
    <2>4. <<TablePages(P, f)[j], f, j>> \in W
      <3>1. s[f] + j * PageTokens > tree.chosen[f] /\ s[f] + (j - 1) * PageTokens < Length(f)
        BY <2>1, <2>2, <2>3
      <3> QED BY <1>1, <3>1, WrittenAre
    <2> QED BY <1>6, <2>1, <2>4
  <1> HIDE DEF W
  <1> QED BY <1>4, <1>5, <1>6

-----------------------------------------------------------------------------
(* The invariant behind the KV a pass reads.                               *)

\* Documents whose rows a planned chunk packs, until it runs.
Unrun == IF Planning THEN Fresh ELSE {}

\* A page that two documents read holds rows both begin with.
AgreeOn(k, l) ==
    /\ \A x \in FullSpots(arena, k) \intersect FullSpots(arena, l) : SameRows(k, l, x[2])
    /\ HasSliding =>
          \A x \in SlideSpots(arena, k) \intersect SlideSpots(arena, l) : SameRows(k, l, x[2])
Agree == \A k, l \in Docs : k # l => AgreeOn(k, l)

\* The planned chunk computes the rows of f that the page x is for.
Due(f, x) == x[2] > tree.chosen[f] /\ x[2] - PageTokens < Length(f)

\* A page a document has tokens on holds the KV of its own prefix, or will
\* once the planned chunk ran.
FullComputed(k) ==
    \A x \in FullSpots(arena, k) : x[2] - PageTokens < Length(k) =>
        \/ kv.full[x[1]] = Prefix(k, x[2])
        \/ \E f \in Unrun : x \in FullSpots(arena, f) /\ Due(f, x)
SlideComputed(k) ==
    \A x \in SlideSpots(arena, k) : x[2] - PageTokens < Length(k) =>
        \/ kv.slide[x[1]] = Prefix(k, x[2])
        \/ \E f \in Unrun : x \in SlideSpots(arena, f) /\ Due(f, x)
Computed ==
    pc \notin {"failed", "refused"} =>
        \A k \in Docs : FullComputed(k) /\ (HasSliding => SlideComputed(k))

\* A borrower begins with the tokens it shares with its parent.
Kinship ==
    /\ tree.chosen \in [Docs -> Nat]
    /\ \A d \in Docs : tree.parent[d] # None =>
          SameRows(tree.parent[d], d, tree.shared[d]) /\ tree.shared[d] < Length(d)

\* The window of a document that is packed begins where its own rows need it.
Chose == HasSliding => \A f \in Unrun : arena.start[f] = Origin(tree.chosen[f])

\* A document that is asked has its pages, and nothing may evict or free them.
SeatedAt(d) ==
    d \in Resident(arena) /\ d \notin arena.retained /\ d \notin arena.deferred
        /\ d \notin Range(sched.settled)
Seated == \A d \in Docs : sched.stage[d] \in Stages => SeatedAt(d)

\* A queued document packs all of its rows, or none when it has its pages.
Carries ==
    \A d \in Docs : sched.stage[d] = Queued =>
        sched.carried[d] = IF d \in Resident(arena) THEN 0 ELSE Length(d)

ReadInv ==
    /\ DOMAIN kv.full = Pages(NumPages) /\ DOMAIN kv.slide = Pages(NumSliding)
    /\ Agree /\ Computed /\ Chose
    /\ Running => Kinship
    /\ Looping => Seated /\ Carries

\* What most steps leave as it is.
Plain ==
    /\ plan' = plan /\ op' = op /\ kv' = kv
    /\ tree'.parent = tree.parent /\ tree'.shared = tree.shared /\ tree'.chosen = tree.chosen
    /\ sched'.carried = sched.carried

\* Who reads no more than before agrees as before.
LEMMA AgreeKeeps ==
    ASSUME plan' = plan, Agree, \A k \in Docs : Narrower(arena, arena', k)
    PROVE  Agree'
  <1>1. Docs' = Docs /\ \A k, l, n : SameRows(k, l, n)' = SameRows(k, l, n)
    BY DEF SameRows, Docs, Text, Length
  <1>2. SUFFICES ASSUME NEW k \in Docs, NEW l \in Docs, k # l PROVE AgreeOn(k, l)'
    BY <1>1 DEF Agree
  <1>3. AgreeOn(k, l)
    BY <1>2 DEF Agree
  <1>4. Narrower(arena, arena', k) /\ Narrower(arena, arena', l)
    OBVIOUS
  <1>5. \A x \in FullSpots(arena', k) \intersect FullSpots(arena', l) : SameRows(k, l, x[2])
    BY <1>3, <1>4 DEF AgreeOn, Narrower
  <1>6. HasSliding =>
          \A x \in SlideSpots(arena', k) \intersect SlideSpots(arena', l) : SameRows(k, l, x[2])
    BY <1>3, <1>4 DEF AgreeOn, Narrower
  <1> QED BY <1>1, <1>5, <1>6 DEF AgreeOn

\* Pages read no more hold what they held, while no chunk is to run.
LEMMA ComputedKeeps ==
    ASSUME plan' = plan, kv' = kv, tree'.chosen = tree.chosen, Computed,
           pc \notin {"failed", "refused"} \/ pc' \in {"failed", "refused"},
           \A k \in Docs : Narrower(arena, arena', k),
           \/ Unrun = {}
           \/ Unrun' = Unrun /\ \A f \in Unrun : Stays(arena, arena', f)
    PROVE  Computed'
  <1>1. Docs' = Docs /\ (\A k, n : Prefix(k, n)' = Prefix(k, n)) /\ \A f, x : Due(f, x)' = Due(f, x)
    BY DEF Prefix, Docs, Text, Length, Due
  <1>2. SUFFICES ASSUME pc' \notin {"failed", "refused"}, NEW k \in Docs
                 PROVE  FullComputed(k)' /\ (HasSliding => SlideComputed(k)')
    BY <1>1 DEF Computed
  <1>3. FullComputed(k) /\ (HasSliding => SlideComputed(k))
    BY <1>2 DEF Computed
  <1>4. Narrower(arena, arena', k) /\ Length(k)' = Length(k)
    BY DEF Length, Text
  <1>5. ASSUME NEW x \in FullSpots(arena', k), x[2] - PageTokens < Length(k)
        PROVE  \/ kv.full[x[1]] = Prefix(k, x[2])
               \/ \E f \in Unrun' : x \in FullSpots(arena', f) /\ Due(f, x)
    <2>1. x \in FullSpots(arena, k)
      BY <1>4 DEF Narrower
    <2>2. \/ kv.full[x[1]] = Prefix(k, x[2])
          \/ \E f \in Unrun : x \in FullSpots(arena, f) /\ Due(f, x)
      BY <1>3, <1>5, <2>1 DEF FullComputed
    <2> QED BY <2>2 DEF Stays
  <1>6. ASSUME HasSliding, NEW x \in SlideSpots(arena', k), x[2] - PageTokens < Length(k)
        PROVE  \/ kv.slide[x[1]] = Prefix(k, x[2])
               \/ \E f \in Unrun' : x \in SlideSpots(arena', f) /\ Due(f, x)
    <2>1. x \in SlideSpots(arena, k)
      BY <1>4, <1>6 DEF Narrower
    <2>2. \/ kv.slide[x[1]] = Prefix(k, x[2])
          \/ \E f \in Unrun : x \in SlideSpots(arena, f) /\ Due(f, x)
      BY <1>3, <1>6, <2>1 DEF SlideComputed
    <2> QED BY <1>6, <2>2 DEF Stays
  <1>7. FullComputed(k)'
    BY <1>1, <1>4, <1>5 DEF FullComputed
  <1>8. HasSliding => SlideComputed(k)'
    BY <1>1, <1>4, <1>6 DEF SlideComputed
  <1> QED BY <1>7, <1>8

\* The tree stays.
LEMMA KinshipKeeps ==
    ASSUME plan' = plan, tree'.parent = tree.parent, tree'.shared = tree.shared,
           tree'.chosen = tree.chosen, Kinship
    PROVE  Kinship'
  <1>1. Docs' = Docs /\ \A k, l, n : SameRows(k, l, n)' = SameRows(k, l, n)
    BY DEF SameRows, Docs, Text, Length
  <1>2. \A d : Length(d)' = Length(d)
    BY DEF Text, Length
  <1> QED BY <1>1, <1>2 DEF Kinship

\* Documents asked and queued keep their places where a step spares them.
Lasts(d) ==
    /\ sched'.stage[d] = Queued => sched.stage[d] = Queued
    /\ sched'.stage[d] \in Stages => sched.stage[d] \in Stages
    /\ sched'.stage[d] # Done =>
          /\ Spares(arena, arena', d)
          /\ d \in Range(sched'.settled) => d \in Range(sched.settled)

LEMMA PlacesLast ==
    ASSUME BaseInv, plan' = plan, op' = op, Seated, Carries, sched'.carried = sched.carried,
           \A d \in Docs : Lasts(d)
    PROVE  Seated' /\ Carries'
  <1>1. /\ Docs' = Docs /\ Stages' = Stages /\ (\A d : Length(d)' = Length(d))
        /\ Done \notin Stages /\ Queued # Done
    BY PlanIs, Frozen
  <1>2. ASSUME NEW d \in Docs, sched'.stage[d] \in Stages PROVE SeatedAt(d)'
    <2>1. Lasts(d) /\ sched.stage[d] \in Stages /\ SeatedAt(d) /\ sched'.stage[d] # Done
      BY <1>1, <1>2 DEF Seated, Lasts
    <2>2. Spares(arena, arena', d) /\ (d \in Range(sched'.settled) => d \in Range(sched.settled))
      BY <2>1 DEF Lasts
    <2> QED BY <2>1, <2>2 DEF SeatedAt, Spares
  <1>3. ASSUME NEW d \in Docs, sched'.stage[d] = Queued
        PROVE  sched'.carried[d] = IF d \in Resident(arena') THEN 0 ELSE Length(d)
    <2>1. Lasts(d) /\ sched.stage[d] = Queued
      BY <1>3 DEF Lasts
    <2>2. Spares(arena, arena', d)
      BY <1>1, <1>3, <2>1 DEF Lasts
    <2> QED BY <2>1, <2>2 DEF Carries, Spares
  <1>4. Seated'
    BY <1>1, <1>2 DEF Seated
  <1>5. Carries'
    BY <1>1, <1>3 DEF Carries
  <1> QED BY <1>4, <1>5

\* Together: a step that only takes pages away, from whom nobody asks.
LEMMA ReadsKeep ==
    ASSUME BaseInv, ReadInv, Plain,
           pc \notin {"failed", "refused"} \/ pc' \in {"failed", "refused"},
           \A k \in Docs : Narrower(arena, arena', k),
           \/ Unrun = {} /\ Unrun' = {}
           \/ Unrun' = Unrun /\ \A f \in Unrun : Stays(arena, arena', f),
           Running' => Running,
           Looping' => Looping /\ \A d \in Docs : Lasts(d)
    PROVE  ReadInv'
  <1>1. Agree'
    BY AgreeKeeps DEF ReadInv, Plain
  <1>2. Computed'
    BY ComputedKeeps DEF ReadInv, Plain
  <1>3. Chose'
    BY DEF Chose, ReadInv, Plain, Stays
  <1>4. Running' => Kinship'
    BY KinshipKeeps DEF ReadInv, Plain
  <1>5. Looping' => Seated' /\ Carries'
    BY PlacesLast DEF ReadInv, Plain
  <1>6. DOMAIN kv'.full = Pages(NumPages) /\ DOMAIN kv'.slide = Pages(NumSliding)
    BY DEF ReadInv, Plain
  <1> QED BY <1>1, <1>2, <1>3, <1>4, <1>5, <1>6 DEF ReadInv

\* An arena that stays is no wider.
LEMMA NarrowItself == \A A, k : Narrower(A, A, k) /\ Stays(A, A, k)
  BY DEF Narrower, Stays

-----------------------------------------------------------------------------
(* Steps of the loop, for what is read.                                    *)

\* Nothing may evict or free a document that is queued or asked.
LEMMA SafeIs ==
    ASSUME BaseInv, QueueInv, Loans, PricedInv, ReadInv, Looping, NEW d \in Docs,
           sched.stage[d] # Done
    PROVE  d \in Keys /\ d \notin arena.retained /\ d \notin arena.deferred
              /\ d \notin Range(sched.settled)
  <1>1. Members /\ Priced /\ Seated
    BY FromHere DEF ReadInv
  <1>2. sched.stage[d] \in Stages \/ sched.stage[d] = Queued
    BY <1>1 DEF Members, Types
  <1>3. d \in Keys
    BY PlanIs
  <1> QED BY <1>1, <1>2, <1>3 DEF Seated, SeatedAt, Priced, PricedAs

\* A step that yields pages, with no chunk to run.
LEMMA YieldsNarrow ==
    ASSUME BaseInv, NEW A, NEW B, Yields(A, B)
    PROVE  \A k \in Docs : Narrower(A, B, k)
  BY PlanIs DEF Yields, Sheds

\* The documents a step may touch, and where the loop goes on.
LEMMA StagesStay ==
    ASSUME sched'.stage = sched.stage, sched'.settled = sched.settled,
           NEW d \in Docs, sched.stage[d] # Done => Spares(arena, arena', d)
    PROVE  Lasts(d)
  BY DEF Lasts

LEMMA TopReads ==
    ASSUME BaseInv, QueueInv, Loans, Loans', PricedInv, ReadInv, Top
    PROVE  ReadInv'
  <1>1. Looping /\ pc = "top" /\ pc' \in {"end", "report", "evict"}
    BY DEF Looping, Running, Top
  <1>2. Shapes /\ ArenaInv(arena) /\ arena \in Arena /\ Running
    BY <1>1, FromHere
  <1>3. /\ sched'.carried = sched.carried /\ sched'.stage = sched.stage /\ sched'.settled = <<>>
    BY <1>2 DEF Top, Shapes, IsSched
  <1>4. SparesBut(arena, arena', Range(sched.settled) \intersect Resident(arena))
    BY <1>2, FreeSpares DEF Top
  <1>5. Range(sched'.settled) = {}
    BY <1>3, EmptyIs
  <1>6. ASSUME NEW d \in Docs PROVE Lasts(d)
    <2>1. sched.stage[d] # Done => Spares(arena, arena', d)
      BY <1>1, <1>4, SafeIs DEF SparesBut
    <2> QED BY <1>3, <1>5, <2>1 DEF Lasts
  <1>7. \A k \in Docs : Narrower(arena, arena', k)
    BY <1>2, YieldsFree, YieldsNarrow DEF Top
  <1>8. Plain
    BY <1>3 DEF Top, Plain
  <1>9. Unrun = {} /\ Unrun' = {}
    BY <1>1 DEF Unrun, Planning
  <1> QED BY <1>1, <1>2, <1>6, <1>7, <1>8, <1>9, ReadsKeep

LEMMA MakeRoomReads ==
    ASSUME BaseInv, QueueInv, Loans, Loans', PricedInv, ReadInv, MakeRoom
    PROVE  ReadInv'
  <1>1. Looping /\ pc = "evict" /\ pc' \in {"empty", "ready"}
    BY DEF Looping, Running, MakeRoom
  <1>2. Shapes /\ ArenaInv(arena) /\ arena \in Arena /\ Running
    BY <1>1, FromHere
  <1>3. /\ sched'.carried = sched.carried /\ sched'.stage = sched.stage
        /\ sched'.settled = sched.settled
    BY <1>2 DEF MakeRoom, Shapes, IsSched
  <1>4. SparesBut(arena, arena', arena.retained) /\ \A k \in Docs : Narrower(arena, arena', k)
    <2>1. CASE arena' = arena
      BY <2>1, SparesItself, NarrowItself DEF SparesBut
    <2>2. CASE arena' \in EvictRetained(arena, sched.blocked)
      BY <1>2, <2>2, EvictSpares, YieldsEvict, YieldsNarrow DEF EvictRetained
    <2> QED BY <2>1, <2>2 DEF MakeRoom
  <1>5. ASSUME NEW d \in Docs PROVE Lasts(d)
    <2>1. sched.stage[d] # Done => Spares(arena, arena', d)
      BY <1>1, <1>4, SafeIs DEF SparesBut
    <2> QED BY <1>3, <2>1, StagesStay
  <1>6. Plain
    BY <1>3 DEF MakeRoom, Plain
  <1>7. Unrun = {}
    BY <1>1 DEF Unrun, Planning
  <1>8. Unrun' = {}
    <2>1. chunk'.groups = <<>>
      BY DEF MakeRoom, NoChunk
    <2>2. Range(chunk'.groups) = {}
      BY <2>1, EmptyIs
    <2> QED BY <2>2 DEF Unrun, Fresh
  <1> QED BY <1>1, <1>2, <1>4, <1>5, <1>6, <1>7, <1>8, ReadsKeep

\* A step that adds no document to pack and leaves the arena alone.
LEMMA IdleReads ==
    ASSUME BaseInv, ReadInv, Looping, arena' = arena, Plain,
           sched'.stage = sched.stage, sched'.settled = sched.settled,
           \/ Unrun' = Unrun
           \/ Unrun = {} /\ Unrun' = {},
           pc' \notin {"failed", "refused"}
    PROVE  ReadInv'
  <1>1. /\ \A k \in Docs : Narrower(arena, arena', k)
        /\ \A k : Stays(arena, arena', k)
    BY NarrowItself
  <1>2. \A d \in Docs : Lasts(d)
    BY SparesItself, StagesStay
  <1>3. Running
    BY DEF Looping
  <1>4. pc \notin {"failed", "refused"}
    BY <1>3 DEF Running
  <1> QED BY <1>1, <1>2, <1>3, <1>4, ReadsKeep

\* Groups that are not packed leave what is to be packed.
LEMMA FreshStays ==
    ASSUME Members, NEW g, chunk'.groups = Append(chunk.groups, g), ~g.carried
    PROVE  Fresh' = Fresh
  <1> DEFINE S == GroupType \union {g}
  <1>1. chunk.groups \in Seq(GroupType)
    BY DEF Members, Types
  <1>2. chunk.groups \in Seq(S) /\ g \in S
    BY <1>1
  <1> HIDE DEF S
  <1>3. Range(chunk'.groups) = Range(chunk.groups) \union {g}
    BY <1>2, AppendIs
  <1> QED BY <1>3 DEF Fresh

LEMMA TakeReadyReads ==
    ASSUME BaseInv, QueueInv, Loans, PricedInv, ReadInv, TakeReady
    PROVE  ReadInv'
  <1>1. Looping /\ pc = "ready" /\ pc' \in {"ready", "admit"}
    BY DEF TakeReady, Looping, Running
  <1>2. Shapes /\ Members
    BY <1>1, FromHere
  <1>3. /\ sched'.carried = sched.carried /\ sched'.stage = sched.stage
        /\ sched'.settled = sched.settled
    BY <1>2 DEF TakeReady, Shapes, IsSched
  <1> DEFINE d == Head(sched.ready)
             j == sched.stage[d]
             i == sched.next[d]
             take == Take(d, j, i, chunk.room, chunk.pages)
             one == [chunk EXCEPT !.left = @ - 1]
             g == Group(d, j, i, take.end, FALSE)
  <1>4. \/ chunk' = chunk
        \/ chunk' = [one EXCEPT !.deferred = Append(@, d)]
        \/ chunk' = Launch(one, g, take.tokens, 0, take.pages)
    BY DEF TakeReady
  <1>5. ~g.carried
    BY DEF Group
  <1> HIDE DEF g, take, d
  <1>6. IsChunk(one) /\ one.groups = chunk.groups
    BY <1>2 DEF Shapes, IsChunk
  <1> HIDE DEF one
  <1>7. chunk'.groups = chunk.groups \/ chunk'.groups = Append(chunk.groups, g)
    <2>1. CASE chunk' = chunk
      BY <2>1
    <2>2. CASE chunk' = [one EXCEPT !.deferred = Append(@, d)]
      BY <1>6, <2>2 DEF IsChunk
    <2>3. CASE chunk' = Launch(one, g, take.tokens, 0, take.pages)
      BY <1>6, <2>3 DEF Launch, IsChunk
    <2> QED BY <1>4, <2>1, <2>2, <2>3
  <1>8. Fresh' = Fresh
    <2>1. CASE chunk'.groups = chunk.groups
      BY <2>1 DEF Fresh
    <2> QED BY <1>2, <1>5, <1>7, <2>1, FreshStays
  <1>9. Unrun' = Unrun
    BY <1>1, <1>8 DEF Unrun, Planning
  <1>10. Plain /\ arena' = arena
    BY <1>3 DEF TakeReady, Plain
  <1> QED BY <1>1, <1>3, <1>9, <1>10, IdleReads

LEMMA QuietReads ==
    ASSUME BaseInv, QueueInv, Loans, PricedInv, ReadInv,
           ReadyTaken \/ CloseChunk \/ ReportPart \/ \E d : HoldsBack(d) \/ PopDead(d)
    PROVE  ReadInv'
  <1>1. Looping
    BY DEF ReadyTaken, CloseChunk, ReportPart, Reporting, HoldsBack, PopDead, HoldTurn, HoldForPages,
           HoldForRoom, HoldForSuffix, Eligible, Live, Popping, Running, Looping
  <1>2. Shapes /\ Members
    BY <1>1, FromHere
  <1>3. arena' = arena /\ plan' = plan /\ op' = op /\ kv' = kv /\ tree' = tree
    BY DEF ReadyTaken, CloseChunk, ReportPart, HoldsBack, PopDead, HoldTurn, HoldForPages,
           HoldForRoom, HoldForSuffix
  <1>4. CASE ReadyTaken
    <2>1. sched' = sched /\ Unrun' = Unrun /\ pc' = "admit"
      BY <1>4 DEF ReadyTaken, Unrun, Fresh, Planning
    <2> QED BY <1>1, <1>3, <2>1, IdleReads DEF Plain
  <1>5. CASE CloseChunk
    <2>1. /\ sched'.carried = sched.carried /\ sched'.stage = sched.stage
          /\ sched'.settled = sched.settled /\ chunk'.groups = chunk.groups
      BY <1>2, <1>5 DEF CloseChunk, Shapes, IsSched, IsChunk
    <2>2. Planning /\ Fresh' = Fresh
      BY <1>5, <2>1 DEF CloseChunk, Planning, Fresh
    <2>3. Unrun' = Unrun /\ pc' \in {"empty", "pass"}
      <3>1. CASE chunk.groups = <<>>
        <4>1. Range(chunk.groups) = {}
          BY <3>1, EmptyIs
        <4>2. Fresh = {}
          BY <4>1 DEF Fresh
        <4> QED BY <2>2, <3>1, <4>2, <1>5 DEF CloseChunk, Unrun, Planning
      <3>2. CASE chunk.groups # <<>>
        BY <2>2, <3>2, <1>5 DEF CloseChunk, Unrun, Planning
      <3> QED BY <3>1, <3>2
    <2> QED BY <1>1, <1>3, <2>1, <2>3, IdleReads DEF Plain
  <1>6. CASE ReportPart
    <2>1. /\ sched'.carried = sched.carried /\ sched'.stage = sched.stage
          /\ sched'.settled = sched.settled
      BY <1>2, <1>6 DEF ReportPart, Received, Shapes, IsSched
    <2>2. Unrun = {} /\ Unrun' = {} /\ pc' = "report"
      BY <1>6 DEF ReportPart, Reporting, Unrun, Planning
    <2> QED BY <1>1, <1>3, <2>1, <2>2, IdleReads DEF Plain
  <1>7. ASSUME NEW d, HoldsBack(d) \/ PopDead(d) PROVE ReadInv'
    <2>1. /\ sched'.carried = sched.carried /\ sched'.stage = sched.stage
          /\ sched'.settled = sched.settled
      BY ZenonT(30), <1>2, <1>7 DEF HoldsBack, PopDead, HoldTurn, HoldForPages, HoldForRoom,
         HoldForSuffix, Popped, Shapes, IsSched
    <2>2. chunk'.groups = chunk.groups
      BY <1>2, <1>7 DEF HoldsBack, PopDead, HoldTurn, HoldForPages, HoldForRoom, HoldForSuffix,
         HeldBack, Shapes, IsChunk
    <2>3. pc \in {"admit"} /\ pc' \in {"admit", "close"}
      BY <1>7 DEF HoldsBack, PopDead, HoldTurn, HoldForPages, HoldForRoom, HoldForSuffix,
         Eligible, Live, Popping
    <2>4. Unrun' = Unrun
      BY <2>2, <2>3 DEF Unrun, Fresh, Planning
    <2> QED BY <1>1, <1>3, <2>1, <2>3, <2>4, IdleReads DEF Plain
  <1> QED BY <1>4, <1>5, <1>6, <1>7

LEMMA NothingReads ==
    ASSUME BaseInv, QueueInv, Loans, Loans', PricedInv, ReadInv, Nothing
    PROVE  ReadInv'
  <1>1. Looping /\ pc = "empty" /\ pc' \in {"report", "top", "stuck"}
    BY DEF Looping, Running, Nothing
  <1>2. Running /\ ArenaInv(arena) /\ Lending
    BY <1>1, FromHere
  <1>3. /\ SparesBut(arena, arena', arena.retained \union arena.deferred)
        /\ \A k \in Docs : Narrower(arena, arena', k)
    <2>1. CASE arena' = arena
      BY <2>1, SparesItself, NarrowItself DEF SparesBut
    <2>2. CASE arena' \in EvictRetained(arena, sched.blocked)
      <3>1. SparesBut(arena, arena', arena.retained)
        BY <1>2, <2>2, EvictSpares DEF EvictRetained
      <3>2. \A k \in Docs : Narrower(arena, arena', k)
        BY <1>2, <2>2, YieldsEvict, YieldsNarrow
      <3> QED BY <3>1, <3>2 DEF SparesBut
    <2>3. CASE arena' = DropHolds(arena, exec.lenders)
      <3>1. exec.lenders \in SUBSET Keys
        BY <1>2, PlanIs DEF Lending
      <3>2. SparesBut(arena, arena', arena.deferred)
        BY <1>2, <2>3, <3>1, DropHoldsKeeps
      <3>3. \A k \in Docs : Narrower(arena, arena', k)
        BY <1>2, <2>3, <3>1, YieldsDrop, YieldsNarrow
      <3> QED BY <3>2, <3>3 DEF SparesBut
    <2> QED BY <2>1, <2>2, <2>3 DEF Nothing
  <1>4. ASSUME NEW d \in Docs PROVE Lasts(d)
    <2>1. sched.stage[d] # Done => Spares(arena, arena', d)
      BY <1>1, <1>3, SafeIs DEF SparesBut
    <2>2. sched' = sched
      BY DEF Nothing
    <2> QED BY <2>1, <2>2, StagesStay
  <1>5. Plain
    BY DEF Nothing, Plain
  <1>6. Unrun = {} /\ Unrun' = {}
    BY <1>1 DEF Unrun, Planning
  <1> QED BY <1>1, <1>2, <1>3, <1>4, <1>5, <1>6, ReadsKeep

LEMMA SubmitReads ==
    ASSUME BaseInv, QueueInv, Loans, Loans', PricedInv, ReadInv, Submit
    PROVE  ReadInv'
  <1>1. Looping /\ pc = "submit" /\ pc' = "top"
    BY DEF Looping, Running, Submit
  <1>2. Running /\ ArenaInv(arena) /\ Members /\ Lending /\ Reading
    BY <1>1, FromHere
  <1>3. \A k \in Docs : Narrower(arena, arena', k)
    BY <1>2, LetGoAllKeeps, YieldsNarrow DEF Submit
  <1>4. ASSUME NEW d \in Docs PROVE Lasts(d)
    <2>1. ASSUME sched.stage[d] # Done PROVE Spares(arena, arena', d)
      BY <1>1, <1>2, <2>1, SafeIs, LetGoAllSpares DEF Submit
    <2>2. sched' = sched
      BY DEF Submit
    <2> QED BY <2>1, <2>2, StagesStay
  <1>5. Plain
    BY DEF Submit, Plain
  <1>6. Unrun = {} /\ Unrun' = {}
    BY <1>1 DEF Unrun, Planning
  <1> QED BY <1>1, <1>2, <1>3, <1>4, <1>5, <1>6, ReadsKeep

LEMMA EntryReportedReads ==
    ASSUME BaseInv, QueueInv, Loans, Loans', PricedInv, ReadInv, EntryReported
    PROVE  ReadInv'
  <1>1. /\ pc = "report" /\ plan' = plan /\ op' = op /\ kv' = kv /\ arena' = SkipAll
        /\ (pc' = "report" \/ pc' = back) /\ sched' = [sched EXCEPT !.skipped = <<>>]
    BY DEF EntryReported, PassReported
  <1>2. Looping
    BY <1>1 DEF Looping, Running
  <1>3. Shapes /\ ArenaInv(arena) /\ Members /\ Turns /\ Running
    BY <1>2, FromHere
  <1>4. /\ sched'.carried = sched.carried /\ sched'.stage = sched.stage
        /\ sched'.settled = sched.settled
        /\ tree'.parent = tree.parent /\ tree'.shared = tree.shared /\ tree'.chosen = tree.chosen
    BY <1>1, <1>3 DEF Shapes, IsSched, IsTree, EntryReported, PassReported
  <1>5. \A k \in Docs : Narrower(arena, arena', k)
    BY <1>1, <1>3, SkipAllKeeps, YieldsNarrow
  <1>6. ASSUME NEW d \in Docs PROVE Lasts(d)
    <2>1. ASSUME sched.stage[d] # Done PROVE Spares(arena, arena', d)
      BY <1>1, <1>2, <1>3, <2>1, SafeIs, SkipAllSpares
    <2> QED BY <1>4, <2>1, StagesStay
  <1>7. Unrun = {} /\ Unrun' = {}
    BY <1>1, <1>3 DEF Unrun, Planning, Turns
  <1>8. Plain
    BY <1>1, <1>4 DEF Plain
  <1>9. Running' => Running
    BY <1>3
  <1> QED BY <1>1, <1>2, <1>5, <1>6, <1>7, <1>8, <1>9, ReadsKeep

-----------------------------------------------------------------------------
(* A stage was answered, or decided, for what is read.                     *)

\* The document that leaves is done.
LEMMA LeftIs ==
    ASSUME BaseInv, Members, NEW S, IsSched(S), S.stage = sched.stage, NEW d \in Docs,
           NEW b \in BOOLEAN, Moved(S, d, Out(b))
    PROVE  /\ sched'.stage[d] = Done
           /\ \A e \in Docs : sched'.stage[e] = sched.stage[e] \/ sched'.stage[e] = Done
  <1>1. Leaves(S, d, b)
    BY MovedOut
  <1>2. PICK M, N :
           MovedTo(S, M, d, Done, FALSE, b) /\ Sieved(M, N, d) /\ GroupSettled(N, sched', d, b)
    BY <1>1 DEF Leaves
  <1>3. N.stage = [sched.stage EXCEPT ![d] = Done]
    BY <1>2 DEF MovedTo, Sieved
  <1>4. N.stage[d] = Done /\ \A e \in Docs : e # d => N.stage[e] = sched.stage[e]
    BY <1>3, PutIs DEF Members, Types
  <1>5. \/ sched'.stage = N.stage
        \/ sched'.stage = [e \in Docs |-> IF e \in RestOf(N, d) THEN Done ELSE N.stage[e]]
    BY <1>2 DEF GroupSettled
  <1>6. \A e \in Docs : sched'.stage[e] = N.stage[e] \/ sched'.stage[e] = Done
    BY <1>5
  <1> QED BY <1>4, <1>6

\* Where a move leaves the documents: d goes on or leaves, and the others
\* stay where they are or are skipped.
LEMMA MovedStages ==
    ASSUME BaseInv, Members, NEW S, IsSched(S), S.stage = sched.stage, NEW d \in Docs,
           NEW to, Moved(S, d, to),
           \/ \E k \in Stages, w \in BOOLEAN : to = At(k, w)
           \/ \E b \in BOOLEAN : to = Out(b)
    PROVE  \A e \in Docs : \/ sched'.stage[e] = sched.stage[e]
                           \/ sched'.stage[e] = Done
                           \/ e = d /\ to.stage # Done /\ sched'.stage[e] \in Stages
  <1>1. CASE \E k \in Stages, w \in BOOLEAN : to = At(k, w)
    <2>1. PICK k \in Stages, w \in BOOLEAN : to = At(k, w)
      BY <1>1
    <2>2. k # Done /\ Moved(S, d, At(k, w)) /\ to.stage = k
      BY <2>1, PlanIs DEF At
    <2>3. MovedTo(S, sched', d, k, w, FALSE)
      BY <2>2, MovedOn
    <2>4. sched'.stage = [sched.stage EXCEPT ![d] = k]
      BY <2>3 DEF MovedTo
    <2>5. sched'.stage[d] = k /\ \A e \in Docs : e # d => sched'.stage[e] = sched.stage[e]
      BY <2>4, PutIs DEF Members, Types
    <2> QED BY <2>2, <2>5
  <1>2. CASE \E b \in BOOLEAN : to = Out(b)
    <2>1. PICK b \in BOOLEAN : to = Out(b)
      BY <1>2
    <2> QED BY <2>1, LeftIs
  <1> QED BY <1>1, <1>2

\* A move keeps what is read.
LEMMA MovedReads ==
    ASSUME BaseInv, QueueInv, Loans, Loans', PricedInv, ReadInv, pc = "report", pc' = pc,
           plan' = plan, op' = op, kv' = kv, tree' = tree,
           NEW S, IsSched(S), S.stage = sched.stage, S.skipped = sched.skipped,
           S.settled = sched.settled, S.pending = sched.pending, S.carried = sched.carried,
           NEW d \in Docs, sched.stage[d] \in Stages,
           NEW to, Moved(S, d, to),
           \/ \E k \in Stages, w \in BOOLEAN : to = At(k, w)
           \/ \E b \in BOOLEAN : to = Out(b)
    PROVE  ReadInv'
  <1>1. Looping
    BY DEF Looping, Running
  <1>2. Members /\ Known(arena) /\ ArenaInv(arena) /\ Running
    BY <1>1, FromHere DEF Loans
  <1>3. sched'.settled = sched.settled /\ sched'.carried = sched.carried
    BY MovedSettles
  <1>4. \A e \in Docs : \/ sched'.stage[e] = sched.stage[e]
                        \/ sched'.stage[e] = Done
                        \/ e = d /\ to.stage # Done /\ sched'.stage[e] \in Stages
    BY <1>2, MovedStages
  <1>5. /\ to.stage # Done => arena' = arena
        /\ SparesBut(arena, arena', arena.retained \union {d})
        /\ \A k \in Docs : Narrower(arena, arena', k)
        /\ to.stage = Done => sched'.stage[d] = Done
    <2>1. CASE \E k \in Stages, w \in BOOLEAN : to = At(k, w)
      <3>1. PICK k \in Stages, w \in BOOLEAN : to = At(k, w)
        BY <2>1
      <3>2. Moved(S, d, At(k, w)) /\ to.stage # Done
        BY <3>1, PlanIs DEF At
      <3>3. arena' = arena
        BY <1>2, <3>2, MovedOnSettles
      <3> QED BY <3>2, <3>3, SparesItself, NarrowItself DEF SparesBut
    <2>2. CASE \E b \in BOOLEAN : to = Out(b)
      <3>1. PICK b \in BOOLEAN : to = Out(b)
        BY <2>2
      <3>2. Moved(S, d, Out(b)) /\ to.stage = Done
        BY <3>1 DEF Out
      <3>3. arena' \in Settle(d, b)
        BY <1>2, <3>2, MovedOutSettles
      <3>4. \A k \in Docs : Narrower(arena, arena', k)
        BY <1>2, <3>3, SettleYields, YieldsNarrow
      <3>5. sched'.stage[d] = Done
        BY <3>2, <1>2, LeftIs
      <3> QED BY <1>2, <3>2, <3>3, <3>4, <3>5, SettleSpares
    <2> QED BY <2>1, <2>2
  <1>6. ASSUME NEW e \in Docs PROVE Lasts(e)
    <2>1. Queued \notin Stages /\ Done \notin Stages /\ Queued # Done
      BY PlanIs
    <2>2. /\ sched'.stage[e] = Queued => sched.stage[e] = Queued
          /\ sched'.stage[e] \in Stages => sched.stage[e] \in Stages
      BY <1>4, <2>1
    <2>3. ASSUME sched'.stage[e] # Done PROVE Spares(arena, arena', e)
      <3>1. CASE to.stage # Done
        BY <1>5, <3>1, SparesItself
      <3>2. CASE to.stage = Done
        <4>1. e # d /\ sched.stage[e] # Done
          BY <1>4, <1>5, <2>3, <3>2
        <4>2. e \in Keys /\ e \notin arena.retained
          BY <1>1, <4>1, SafeIs
        <4> QED BY <1>5, <4>1, <4>2 DEF SparesBut
      <3> QED BY <3>1, <3>2
    <2> QED BY <1>3, <2>2, <2>3 DEF Lasts
  <1>7. Plain
    BY <1>3 DEF Plain
  <1>8. Unrun = {} /\ Unrun' = {}
    BY DEF Unrun, Planning
  <1> QED BY <1>1, <1>2, <1>5, <1>6, <1>7, <1>8, ReadsKeep

LEMMA ReportAdvanceReads ==
    ASSUME BaseInv, QueueInv, Loans, Loans', PricedInv, ReadInv, ReportAdvance
    PROVE  ReadInv'
  <1> DEFINE d == Reported.doc
             S == [Received EXCEPT !.ready = Append(@, d)]
  <1>1. /\ Reporting /\ pc = "report" /\ Reported.stage < LastStage
        /\ plan' = plan /\ op' = op /\ pc' = pc /\ kv' = kv /\ tree' = tree
    BY DEF ReportAdvance, Reporting
  <1>2. PICK to \in Enter(d, Reported.stage + 1, FALSE) : Moved(S, d, to)
    BY DEF ReportAdvance
  <1>3. d \in Docs /\ Reported.stage \in Stages /\ Reported.stage = sched.stage[d]
    BY <1>1, AnsweredIs
  <1>4. Reported.stage + 1 \in Stages
    <2>1. LastStage \in Nat /\ Stages = 1 .. LastStage
      BY PlanIs
    <2> QED BY <2>1, <1>1, <1>3
  <1>5. \/ \E k \in Stages, w \in BOOLEAN : to = At(k, w)
        \/ \E b \in BOOLEAN : to = Out(b)
    BY <1>2, <1>3, <1>4, EnterIs
  <1>6. /\ IsSched(S) /\ S.stage = sched.stage /\ S.skipped = sched.skipped
        /\ S.pending = sched.pending /\ S.settled = sched.settled /\ S.carried = sched.carried
    <2>1. IsSched(sched)
      BY <1>1, ReportedIs DEF Shapes
    <2>2. /\ IsSched(Received) /\ Received.stage = sched.stage /\ Received.skipped = sched.skipped
          /\ Received.pending = sched.pending /\ Received.settled = sched.settled
          /\ Received.carried = sched.carried
      BY <2>1 DEF Received, IsSched
    <2> QED BY <2>2 DEF IsSched
  <1> HIDE DEF S, d
  <1> QED BY <1>1, <1>2, <1>3, <1>5, <1>6, MovedReads

LEMMA ReportSettleReads ==
    ASSUME BaseInv, QueueInv, Loans, Loans', PricedInv, ReadInv, ReportSettle
    PROVE  ReadInv'
  <1> DEFINE d == Reported.doc
             S == Received
  <1>1. /\ Reporting /\ pc = "report" /\ plan' = plan /\ op' = op /\ pc' = pc /\ kv' = kv
        /\ tree' = tree
    BY DEF ReportSettle, Reporting
  <1>2. \E b \in BOOLEAN : Moved(S, d, Out(b))
    BY DEF ReportSettle
  <1>3. d \in Docs /\ sched.stage[d] \in Stages
    BY <1>1, AnsweredIs
  <1>4. /\ IsSched(S) /\ S.stage = sched.stage /\ S.skipped = sched.skipped
        /\ S.pending = sched.pending /\ S.settled = sched.settled /\ S.carried = sched.carried
    <2>1. IsSched(sched)
      BY <1>1, ReportedIs DEF Shapes
    <2> QED BY <2>1 DEF Received, IsSched
  <1> HIDE DEF S, d
  <1>5. PICK to : Moved(S, d, to) /\ \E b \in BOOLEAN : to = Out(b)
    BY <1>2
  <1> QED BY <1>1, <1>3, <1>4, <1>5, MovedReads

LEMMA DecideWaitingReads ==
    ASSUME BaseInv, QueueInv, Loans, Loans', PricedInv, ReadInv, DecideWaiting
    PROVE  ReadInv'
  <1> DEFINE d == Head(sched.waiting)
             S == [sched EXCEPT !.waiting = Tail(@)]
  <1>1. /\ pc = "report" /\ sched.waiting # <<>> /\ plan' = plan /\ op' = op /\ pc' = pc
        /\ kv' = kv /\ tree' = tree
    BY DEF DecideWaiting
  <1>2. PICK to \in Enter(d, sched.stage[d], TRUE) : Moved(S, d, to)
    BY DEF DecideWaiting
  <1>3. Running /\ Shapes /\ Members
    BY <1>1 DEF QueueInv, Running
  <1>4. d \in Docs /\ sched.stage[d] \in Stages
    <2>1. sched.waiting \in Seq(Docs) /\ NoRepeats(sched.waiting)
      BY <1>3 DEF Members, Types, Lists
    <2>2. d \in Docs /\ d \in Range(sched.waiting)
      BY <1>1, <2>1, TailIs
    <2>3. d \in InRun
      BY <1>3, <2>2 DEF Members, Queues, Streams, ReadySet
    <2> HIDE DEF d
    <2>4. sched.stage[d] \in Stages
      BY <2>3 DEF InRun
    <2> QED BY <2>2, <2>4
  <1>5. \/ \E k \in Stages, w \in BOOLEAN : to = At(k, w)
        \/ \E b \in BOOLEAN : to = Out(b)
    BY <1>2, <1>4, EnterIs
  <1>6. /\ IsSched(S) /\ S.stage = sched.stage /\ S.skipped = sched.skipped
        /\ S.pending = sched.pending /\ S.settled = sched.settled /\ S.carried = sched.carried
    BY <1>3 DEF Shapes, IsSched
  <1> HIDE DEF S, d
  <1> QED BY <1>1, <1>2, <1>4, <1>5, <1>6, MovedReads

-----------------------------------------------------------------------------
(* What is read between loops, and where a query fails.                    *)

\* A key without pages reads none.
LEMMA NoSpotsIn ==
    ASSUME NEW n \in Nat, NEW P, PoolInv(P, n), NEW start, NEW k \in Keys, k \notin P.resident
    PROVE  Spots(P, start, k) = {}
  <1>1. P.owned[k] = <<>> /\ P.borrowed[k] = <<>>
    BY DEF PoolInv, PoolOK, NothingLeft
  <1>2. TablePages(P, k) = <<>> \o <<>>
    BY <1>1 DEF TablePages
  <1>3. Len(TablePages(P, k)) = 0
    BY <1>2
  <1> QED BY <1>3 DEF Spots

LEMMA NoSpots ==
    ASSUME NEW A, ArenaInv(A), NEW k \in Keys, k \notin Resident(A)
    PROVE  FullSpots(A, k) = {} /\ (HasSliding => SlideSpots(A, k) = {})
  <1>1. /\ PoolInv(A.full, NumPages) /\ NumPages \in Nat /\ NumSliding \in Nat
        /\ HasSliding => PoolInv(A.slide, NumSliding) /\ k \notin A.slide.resident
    BY PoolNats DEF ArenaInv, PoolFine, SlideFine, Consistent
  <1>2. FullSpots(A, k) = {}
    BY <1>1, NoSpotsIn DEF FullSpots, Resident
  <1>3. HasSliding => SlideSpots(A, k) = {}
    BY <1>1, NoSpotsIn DEF SlideSpots
  <1> QED BY <1>2, <1>3

\* A step that plans nothing and leaves no loop behind.
LEMMA AwayReads ==
    ASSUME BaseInv, ReadInv, plan' = plan, kv' = kv, tree' = tree,
           \A k \in Docs : Narrower(arena, arena', k),
           \/ pc' \in {"failed", "refused"}
           \/ pc \notin {"failed", "refused", "pass"} /\ Unrun = {}
           \/ \A k \in Docs : k \notin Resident(arena'),
           ~Planning', ~Looping', Running' => Running,
           ArenaInv(arena')
    PROVE  ReadInv'
  <1>1. Agree'
    BY AgreeKeeps DEF ReadInv
  <1>2. Unrun' = {}
    BY DEF Unrun
  <1>3. Computed'
    <2>1. CASE pc' \in {"failed", "refused"}
      BY <2>1 DEF Computed
    <2>2. CASE pc \notin {"failed", "refused", "pass"} /\ Unrun = {}
      BY <2>2, <1>2, ComputedKeeps DEF ReadInv
    <2>3. CASE \A k \in Docs : k \notin Resident(arena')
      <3>1. ASSUME NEW k \in Docs
            PROVE  FullSpots(arena', k) = {} /\ (HasSliding => SlideSpots(arena', k) = {})
        BY <2>3, <3>1, NoSpots, PlanIs
      <3>2. Docs' = Docs
        BY DEF Docs, Text
      <3> QED BY <3>1, <3>2 DEF Computed, FullComputed, SlideComputed
    <2> QED BY <2>1, <2>2, <2>3
  <1>4. Chose'
    BY <1>2 DEF Chose
  <1>5. Running' => Kinship'
    BY KinshipKeeps DEF ReadInv
  <1> QED BY <1>1, <1>3, <1>4, <1>5 DEF ReadInv

\* Between loops, and where a query fails.
LEMMA BetweenReads ==
    ASSUME BaseInv, QueueInv, Loans, Loans', StartInv, ReadInv,
           NextOperator \/ EndQuery \/ NextQuery \/ PassRaises \/ End
    PROVE  ReadInv'
  <1>1. /\ plan' = plan /\ kv' = kv /\ tree' = tree /\ ArenaInv(arena) /\ ArenaInv(arena')
        /\ ~Planning' /\ ~Looping' /\ (Running' => Running)
    BY DEF NextOperator, EndQuery, NextQuery, PassRaises, End, Planning, Looping, Running, Loans,
       Known
  <1>2. CASE NextOperator \/ PassRaises
    <2>1. \A k \in Docs : Narrower(arena, arena', k)
      BY <1>2, NarrowItself DEF NextOperator, PassRaises
    <2>2. \/ pc' = "failed"
          \/ pc = "between" /\ Unrun = {}
      BY <1>2 DEF NextOperator, PassRaises, Unrun, Planning
    <2> QED BY <1>1, <2>1, <2>2, AwayReads
  <1>3. CASE End
    <2>1. pc = "end" /\ Running /\ Unrun = {}
      BY <1>3 DEF End, Running, Unrun, Planning
    <2> DEFINE V == Range(sched.ready) \intersect Resident(arena)
               B == FreeAll(arena, V)
    <2>2. arena' = DropHolds(B, exec.lenders)
      BY <1>3 DEF End
    <2>3. V \in SUBSET Resident(arena)
      OBVIOUS
    <2> HIDE DEF V
    <2>4. Yields(arena, B)
      BY <1>1, <2>3, YieldsFree
    <2> HIDE DEF B
    <2>5. exec.lenders \in SUBSET Keys
      BY <2>1, PlanIs DEF Loans, LoansInv, Lending
    <2>6. Yields(B, arena')
      BY <2>2, <2>4, <2>5, YieldsDrop DEF Yields
    <2>7. \A k \in Docs : Narrower(arena, arena', k)
      BY <1>1, <2>4, <2>6, YieldsBoth, YieldsNarrow
    <2> QED BY <1>1, <2>1, <2>7, AwayReads
  <1>4. CASE EndQuery
    <2>1. pc = "between" /\ Unrun = {}
      BY <1>4 DEF EndQuery, Unrun, Planning
    <2>2. \A k \in Docs : Narrower(arena, arena', k)
      BY <1>1, <1>4, YieldsFree, YieldsNarrow DEF EndQuery
    <2> QED BY <1>1, <2>1, <2>2, AwayReads
  <1>5. CASE NextQuery
    <2>1. \/ arena' = FreeResident(arena)
          \/ arena' = EmptyArena
      BY <1>5 DEF NextQuery
    <2>2. pc' = "refused" \/ Resident(arena') = {}
      BY <1>5 DEF NextQuery
    <2>3. \A k \in Docs : Narrower(arena, arena', k)
      <3>1. CASE arena' = FreeResident(arena)
        BY <1>1, <3>1, FreeResidentKeeps, PlanIs DEF Sheds
      <3>2. CASE arena' = EmptyArena
        <4>1. Resident(arena') = {}
          BY <3>2 DEF EmptyArena, EmptyPool, Resident
        <4>2. \A k \in Docs :
                 FullSpots(arena', k) = {} /\ (HasSliding => SlideSpots(arena', k) = {})
          BY <1>1, <4>1, NoSpots, PlanIs
        <4> QED BY <4>2 DEF Narrower
      <3> QED BY <2>1, <3>1, <3>2
    <2> QED BY <1>1, <2>2, <2>3, AwayReads
  <1> QED BY <1>2, <1>3, <1>4, <1>5

-----------------------------------------------------------------------------
(* What is read when an operator starts.                                   *)

\* A step that changes nothing.
LEMMA RestReads ==
    ASSUME BaseInv, ReadInv, Rest \/ UNCHANGED vars
    PROVE  ReadInv'
  <1>1. /\ plan' = plan /\ op' = op /\ pc' = pc /\ arena' = arena /\ sched' = sched
        /\ chunk' = chunk /\ tree' = tree /\ kv' = kv
    BY DEF Rest, vars
  <1>2. Unrun' = Unrun
    BY <1>1 DEF Unrun, Planning, Fresh
  <1>3. (Running' => Running) /\ (Looping' => Looping)
    BY <1>1 DEF Running, Looping
  <1>4. \A d \in Docs : Lasts(d)
    BY <1>1, SparesItself, StagesStay
  <1>5. (\A k \in Docs : Narrower(arena, arena', k)) /\ \A k : Stays(arena, arena', k)
    BY <1>1, NarrowItself
  <1>6. Plain
    BY <1>1 DEF Plain
  <1>7. pc \notin {"failed", "refused"} \/ pc' \in {"failed", "refused"}
    BY <1>1
  <1> QED BY <1>1, <1>2, <1>3, <1>4, <1>5, <1>6, <1>7, ReadsKeep

\* What an operator's scheduler starts with.
LEMMA StartsWith ==
    ASSUME NEW A, NEW D, sched' = StartAdmission(A, D), tree' = StartBorrowing(A, D)
    PROVE  /\ sched'.stage = [d \in Docs |-> IF d \in Asked(D, D \intersect Resident(A))
                                            THEN Queued ELSE Done]
           /\ sched'.carried = [d \in Docs |-> IF d \in D \intersect Resident(A) THEN 0
                                                                               ELSE Length(d)]
           /\ tree'.parent = [d \in Docs |-> IF d \in D \ Resident(A) THEN TreeParent(D)[d]
                                                                    ELSE None]
           /\ tree'.shared = [d \in Docs |-> IF d \in D \ Resident(A) THEN TreeShared(D)[d]
                                                                    ELSE 0]
           /\ tree'.chosen = [d \in Docs |-> 0]
  BY DEF StartAdmission, StartBorrowing

\* An operator starts with a tree of its own documents.
LEMMA StartReads ==
    ASSUME BaseInv, Loans, Loans', StartInv, ReadInv, StartOperator
    PROVE  ReadInv'
  <1>1. /\ pc = "start" /\ plan' = plan /\ op' = op /\ kv' = kv /\ Known(arena)
        /\ ArenaInv(arena) /\ Parked(arena)
    BY DEF StartOperator, StartInv, Loans, Known
  <1>2. PICK A \in AppliedRetention :
           LET D == This.docs \intersect alive IN
           \/ arena' = PinAll(A, D \intersect Resident(A)) /\ pc' = "failed"
           \/ Start(A, D)
    BY DEF StartOperator
  <1> DEFINE D == This.docs \intersect alive
             resident == D \intersect Resident(A)
             asked == Asked(D, resident)
  <1>3. Yields(arena, A)
    BY <1>1, RetentionYields
  <1>4. A \in Arena
    BY <1>3 DEF Yields, ArenaInv
  <1>5. D \in SUBSET Docs /\ asked \subseteq D
    <2>1. This \in OpRecord(Docs)
      BY PlanIs
    <2>2. This.docs \subseteq Docs
      BY <2>1 DEF OpRecord
    <2> QED BY <2>2 DEF Asked
  <1>6. \/ pc' = "failed"
        \/ /\ sched' = StartAdmission(A, D) /\ tree' = StartBorrowing(A, D)
           /\ chunk' = NoChunk /\ pc' = "top"
    BY <1>2 DEF Start
  <1>7. arena' = PinAll(A, resident)
    BY <1>2 DEF Start
  <1>8. SamePools(A, arena')
    <2> HIDE DEF resident
    <2> QED BY <1>4, <1>7 DEF PinAll, SamePools, Arena
  <1>9. \A k \in Docs : Narrower(arena, arena', k)
    <2>1. \A k \in Docs : Narrower(arena, A, k) /\ Narrower(A, arena', k)
      BY <1>3, <1>8, YieldsNarrow, PoolsNarrow, PlanIs
    <2> QED BY <2>1 DEF Narrower
  <1>10. Agree'
    BY <1>1, <1>9, AgreeKeeps DEF ReadInv
  <1>11. Unrun = {} /\ Unrun' = {}
    <2>1. Unrun = {}
      BY <1>1 DEF Unrun, Planning
    <2> QED BY <2>1, <1>6 DEF Unrun, Planning
  <1>12. Chose' /\ DOMAIN kv'.full = Pages(NumPages) /\ DOMAIN kv'.slide = Pages(NumSliding)
    BY <1>1, <1>11 DEF Chose, ReadInv
  <1>13. CASE pc' = "failed"
    BY <1>10, <1>12, <1>13 DEF ReadInv, Computed, Running, Looping
  <1>14. CASE /\ sched' = StartAdmission(A, D) /\ tree' = StartBorrowing(A, D)
              /\ chunk' = NoChunk /\ pc' = "top"
    <2> HIDE DEF D
    <2>1. /\ sched'.stage = [d \in Docs |-> IF d \in asked THEN Queued ELSE Done]
          /\ sched'.carried = [d \in Docs |-> IF d \in resident THEN 0 ELSE Length(d)]
          /\ tree'.parent = [d \in Docs |-> IF d \in D \ Resident(A) THEN TreeParent(D)[d]
                                                                   ELSE None]
          /\ tree'.shared = [d \in Docs |-> IF d \in D \ Resident(A) THEN TreeShared(D)[d]
                                                                   ELSE 0]
          /\ tree'.chosen \in [Docs -> Nat]
      BY <1>14, StartsWith
    <2>2. Computed'
      <3>1. Computed
        BY DEF ReadInv
      <3>2. Docs' = Docs /\ (\A k, n : Prefix(k, n)' = Prefix(k, n)) /\ \A d : Length(d)' = Length(d)
        BY <1>1 DEF Prefix, Docs, Text, Length
      <3>3. ASSUME NEW k \in Docs
            PROVE  /\ \A x \in FullSpots(arena', k) : x[2] - PageTokens < Length(k)
                        => kv.full[x[1]] = Prefix(k, x[2])
                   /\ HasSliding =>
                        \A x \in SlideSpots(arena', k) : x[2] - PageTokens < Length(k)
                            => kv.slide[x[1]] = Prefix(k, x[2])
        <4>1. FullComputed(k) /\ (HasSliding => SlideComputed(k))
          BY <1>1, <3>1 DEF Computed
        <4> QED BY <4>1, <1>9, <1>11 DEF FullComputed, SlideComputed, Narrower
      <3>4. \A k \in Docs : FullComputed(k)' /\ (HasSliding => SlideComputed(k)')
        BY <1>1, <3>2, <3>3 DEF FullComputed, SlideComputed
      <3> QED BY <3>2, <3>4 DEF Computed
    <2>3. Kinship'
      <3>1. ASSUME NEW d \in Docs, tree'.parent[d] # None
            PROVE  SameRows(tree'.parent[d], d, tree'.shared[d]) /\ tree'.shared[d] < Length(d)
        <4>1. /\ tree'.parent[d] = TreeParent(D)[d] /\ tree'.shared[d] = TreeShared(D)[d]
              /\ TreeParent(D)[d] # None
          BY <2>1, <3>1
        <4> QED BY <1>5, <4>1, SharesWithParent, BorrowsLess
      <3>2. Docs' = Docs /\ (\A k, l, n : SameRows(k, l, n)' = SameRows(k, l, n))
            /\ \A d : Length(d)' = Length(d)
        BY <1>1 DEF SameRows, Docs, Text, Length
      <3> QED BY <2>1, <3>1, <3>2 DEF Kinship
    <2>4. Seated'
      <3>1. Docs' = Docs /\ Stages' = Stages /\ Queued \notin Stages /\ Done \notin Stages
        BY <1>1, Frozen, PlanIs
      <3>2. \A d \in Docs : sched'.stage[d] \notin Stages
        BY <2>1, <3>1
      <3> QED BY <3>1, <3>2 DEF Seated
    <2>5. Carries'
      <3>1. Docs' = Docs /\ (\A d : Length(d)' = Length(d)) /\ Queued # Done
        BY <1>1, PlanIs DEF Docs, Text, Length
      <3>2. Resident(arena') = Resident(A)
        BY <1>8 DEF SamePools, Resident
      <3>3. ASSUME NEW d \in Docs, sched'.stage[d] = Queued
            PROVE  sched'.carried[d] = IF d \in Resident(arena') THEN 0 ELSE Length(d)
        <4>1. d \in asked /\ asked \subseteq D
          BY <1>5, <2>1, <3>1, <3>3
        <4>2. d \in D
          BY <4>1
        <4> HIDE DEF asked
        <4> QED BY <2>1, <3>2, <4>2
      <3> QED BY <3>1, <3>3 DEF Carries
    <2> QED BY <1>10, <1>12, <2>2, <2>3, <2>4, <2>5 DEF ReadInv
  <1> HIDE DEF D, resident, asked
  <1> QED BY <1>6, <1>13, <1>14

-----------------------------------------------------------------------------
(* What a pass reads and leaves.                                           *)

\* Groups are of documents that are asked.
LEMMA GroupIs ==
    ASSUME BaseInv, Members, NEW g \in Range(chunk.groups)
    PROVE  /\ g \in GroupType /\ g.doc \in Docs /\ sched.stage[g.doc] \in Stages
           /\ g.carried => g.doc \in Fresh
  <1>1. chunk.groups \in Seq(GroupType)
    BY DEF Members, Types
  <1>2. g \in GroupType
    BY <1>1, RangeIn
  <1>3. g.doc \in Planned
    BY DEF Planned, DocsOf, Range
  <1>4. g.doc \in InRun
    BY <1>3 DEF Members, Queues
  <1> QED BY <1>2, <1>4 DEF InRun, GroupType, Fresh

LEMMA FreshIn ==
    ASSUME BaseInv, Members
    PROVE  Fresh \subseteq Docs /\ \A f \in Fresh : sched.stage[f] \in Stages
  BY GroupIs DEF Fresh

\* A pass leaves in each page a document has tokens on the KV of its own
\* prefix.
LEMMA PassComputes ==
    ASSUME BaseInv, Members, ArenaInv(arena), ReadInv, pc = "pass", NEW k \in Docs
    PROVE  /\ \A x \in FullSpots(arena, k) : x[2] - PageTokens < Length(k) =>
                 KVAfter.full[x[1]] = Prefix(k, x[2])
           /\ HasSliding =>
                 \A x \in SlideSpots(arena, k) : x[2] - PageTokens < Length(k) =>
                     KVAfter.slide[x[1]] = Prefix(k, x[2])
  <1>1. /\ Fresh \subseteq Docs /\ Unrun = Fresh /\ Docs \subseteq Keys
        /\ NumPages \in Nat /\ NumSliding \in Nat /\ arena.start \in [Keys -> Nat]
        /\ Zeros \in [Keys -> Nat]
    BY FreshIn, PlanIs, PoolNats, ArenaFields DEF Unrun, Planning, ArenaInv, Zeros
  <1>2. FullComputed(k) /\ (HasSliding => SlideComputed(k))
    BY DEF ReadInv, Computed
  <1>3. \A f \in Docs : f # k => AgreeOn(f, k)
    BY DEF ReadInv, Agree
  <1> DEFINE s == [d \in Docs |-> 0]
  <1>4. ASSUME NEW x \in FullSpots(arena, k), x[2] - PageTokens < Length(k)
        PROVE  KVAfter.full[x[1]] = Prefix(k, x[2])
    <2>1. PoolInv(arena.full, NumPages) /\ Aligned(arena.full, Zeros)
      BY DEF ArenaInv, PoolFine
    <2>2. \A d \in Docs : s[d] = Zeros[d]
      BY <1>1 DEF Zeros
    <2>3. DOMAIN kv.full = Pages(NumPages)
      BY DEF ReadInv
    <2>4. x \in Spots(arena.full, Zeros, k)
      BY <1>4 DEF FullSpots
    <2>5. \A f \in Docs : f # k /\ x \in Spots(arena.full, Zeros, f) => SameRows(f, k, x[2])
      BY <1>3, <1>4 DEF AgreeOn, FullSpots
    <2>6. \/ kv.full[x[1]] = Prefix(k, x[2])
          \/ \E f \in Fresh : /\ x \in Spots(arena.full, Zeros, f) /\ x[2] > tree.chosen[f]
                              /\ x[2] - PageTokens < Length(f)
      BY <1>1, <1>2, <1>4 DEF FullComputed, Due, FullSpots
    <2> HIDE DEF s
    <2>7. AfterPass(kv.full, arena.full, s)[x[1]] = Prefix(k, x[2])
      BY <1>1, <2>1, <2>2, <2>3, <2>4, <2>5, <2>6, AfterPassIs
    <2> QED BY <2>7 DEF KVAfter, s
  <1>5. ASSUME HasSliding, NEW x \in SlideSpots(arena, k), x[2] - PageTokens < Length(k)
        PROVE  KVAfter.slide[x[1]] = Prefix(k, x[2])
    <2>1. PoolInv(arena.slide, NumSliding) /\ Aligned(arena.slide, arena.start)
      BY <1>5 DEF ArenaInv, SlideFine, PoolFine
    <2>2. DOMAIN kv.slide = Pages(NumSliding)
      BY DEF ReadInv
    <2>3. x \in Spots(arena.slide, arena.start, k)
      BY <1>5 DEF SlideSpots
    <2>4. \A f \in Docs : f # k /\ x \in Spots(arena.slide, arena.start, f) => SameRows(f, k, x[2])
      BY <1>3, <1>5 DEF AgreeOn, SlideSpots
    <2>5. \/ kv.slide[x[1]] = Prefix(k, x[2])
          \/ \E f \in Fresh : /\ x \in Spots(arena.slide, arena.start, f) /\ x[2] > tree.chosen[f]
                              /\ x[2] - PageTokens < Length(f)
      BY <1>1, <1>2, <1>5 DEF SlideComputed, Due, SlideSpots
    <2>6. AfterPass(kv.slide, arena.slide, arena.start)[x[1]] = Prefix(k, x[2])
      BY <1>1, <2>1, <2>2, <2>3, <2>4, <2>5, AfterPassIs
    <2> QED BY <2>6 DEF KVAfter
  <1> QED BY <1>4, <1>5

LEMMA RunPassReads ==
    ASSUME BaseInv, QueueInv, Loans, Loans', PricedInv, ReadInv, RunPass
    PROVE  ReadInv'
  <1>1. /\ Looping /\ Running /\ pc = "pass" /\ pc' \in {"submit", "report"}
        /\ plan' = plan /\ op' = op /\ sched' = sched /\ tree' = tree /\ kv' = KVAfter
        /\ arena' = TrimWindows(arena, Fresh)
    BY DEF Looping, Running, RunPass
  <1>2. ArenaInv(arena) /\ Members
    BY <1>1, FromHere
  <1>3. Fresh \in SUBSET Keys
    BY <1>2, FreshIn, PlanIs
  <1>4. SparesBut(arena, arena', {}) /\ \A k \in Docs : Narrower(arena, arena', k)
    BY <1>1, <1>2, <1>3, TrimSpares, YieldsTrim, YieldsNarrow
  <1>5. \A d \in Docs : Spares(arena, arena', d)
    BY <1>4, PlanIs DEF SparesBut
  <1>6. Seated' /\ Carries'
    <2>1. \A d \in Docs : Lasts(d)
      BY <1>1, <1>5, StagesStay
    <2> QED BY <1>1, <2>1, PlacesLast DEF ReadInv
  <1>7. Agree' /\ Kinship'
    BY <1>1, <1>4, AgreeKeeps, KinshipKeeps DEF ReadInv
  <1>8. Unrun' = {}
    BY <1>1 DEF Unrun, Planning
  <1>9. DOMAIN kv'.full = Pages(NumPages) /\ DOMAIN kv'.slide = Pages(NumSliding)
    BY <1>1 DEF KVAfter, AfterPass, ReadInv
  <1>10. Computed'
    <2>1. Docs' = Docs /\ (\A k, n : Prefix(k, n)' = Prefix(k, n)) /\ \A d : Length(d)' = Length(d)
      BY <1>1 DEF Prefix, Docs, Text, Length
    <2>2. ASSUME NEW k \in Docs
          PROVE  /\ \A x \in FullSpots(arena', k) : x[2] - PageTokens < Length(k)
                      => kv'.full[x[1]] = Prefix(k, x[2])
                 /\ HasSliding =>
                      \A x \in SlideSpots(arena', k) : x[2] - PageTokens < Length(k)
                          => kv'.slide[x[1]] = Prefix(k, x[2])
      BY <1>1, <1>2, <1>4, PassComputes DEF Narrower
    <2>3. \A k \in Docs : FullComputed(k)' /\ (HasSliding => SlideComputed(k)')
      BY <2>1, <2>2 DEF FullComputed, SlideComputed
    <2> QED BY <2>1, <2>3 DEF Computed
  <1>11. Chose'
    BY <1>8 DEF Chose
  <1> QED BY <1>6, <1>7, <1>9, <1>10, <1>11 DEF ReadInv

\* A window that begins where the tokens need it reaches back far enough.
LEMMA OriginReaches ==
    ASSUME NEW t \in Nat
    PROVE  Origin(t) <= Bigger(0, t - Window)
  <1>1. Window \in Nat /\ PageTokens \in Nat /\ PageTokens > 0
    BY PoolNats, PageTokensAssumption
  <1>2. CASE t <= Window \/ Window = 0
    BY <1>1, <1>2 DEF Origin, Bigger
  <1>3. CASE ~(t <= Window \/ Window = 0)
    <2> DEFINE a == t - Window
    <2>1. Origin(t) = (a \div PageTokens) * PageTokens /\ a \in Nat
      BY <1>1, <1>3 DEF Origin
    <2> HIDE DEF a
    <2>2. (a \div PageTokens) * PageTokens <= a
      BY <1>1, <2>1
    <2>3. Bigger(0, a) = a
      BY <2>1 DEF Bigger
    <2> QED BY <2>1, <2>2, <2>3 DEF a
  <1> QED BY <1>2, <1>3

\* What a group of a planned chunk reads.
LEMMA GroupReads ==
    ASSUME BaseInv, QueueInv, Loans, ReadInv, pc = "pass", NEW g \in Range(chunk.groups),
           NEW d, d = g.doc, NEW first, first = IF g.carried THEN tree.chosen[d] ELSE Length(d)
    PROVE  LET low == Bigger(0, first - Window)
               full == TablePages(arena.full, d)
               slide == TablePages(arena.slide, d)
               start == arena.start[d]
           IN  /\ d \in Resident(arena)
               /\ RowsThrough(0, Len(full)) >= Length(d)
               /\ \A i \in DOMAIN full :
                     RowsThrough(0, i - 1) < Length(d)
                         => KVAfter.full[full[i]] = Prefix(d, RowsThrough(0, i))
               /\ HasSliding =>
                     /\ start <= low
                     /\ RowsThrough(start, Len(slide)) >= Length(d)
                     /\ \A i \in DOMAIN slide :
                           RowsThrough(start, i) > low /\ RowsThrough(start, i - 1) < Length(d)
                               => KVAfter.slide[slide[i]] = Prefix(d, RowsThrough(start, i))
  <1>1. Looping /\ Running /\ Unrun = Fresh
    BY DEF Looping, Running, Unrun, Planning
  <1>2. Members /\ Known(arena) /\ ArenaInv(arena) /\ Seated
    BY <1>1 DEF QueueInv, Loans, Known, ReadInv
  <1>3. d \in Docs /\ d \in Keys /\ Length(d) \in Nat /\ d \in Resident(arena)
        /\ (g.carried => d \in Fresh) /\ tree.chosen[d] \in Nat
    <2>1. d \in Docs /\ sched.stage[d] \in Stages /\ (g.carried => d \in Fresh)
      BY <1>2, GroupIs
    <2>2. tree.chosen[d] \in Nat
      BY <1>1, <2>1 DEF ReadInv, Kinship
    <2> QED BY <1>2, <2>1, <2>2, PlanIs DEF Seated, SeatedAt
  <1>4. arena.base[d] = Length(d) /\ PageTokens \in Nat /\ PageTokens > 0
    BY <1>2, <1>3, PageTokensAssumption DEF Known
  <1>5. /\ \A x \in FullSpots(arena, d) : x[2] - PageTokens < Length(d) =>
              KVAfter.full[x[1]] = Prefix(d, x[2])
        /\ HasSliding =>
              \A x \in SlideSpots(arena, d) : x[2] - PageTokens < Length(d) =>
                  KVAfter.slide[x[1]] = Prefix(d, x[2])
    BY <1>2, <1>3, PassComputes
  <1> DEFINE full == TablePages(arena.full, d)
             slide == TablePages(arena.slide, d)
             start == arena.start[d]
  <1>6. RowsThrough(0, Len(full)) >= Length(d)
    <2>1. Placed(arena.full, arena.base, Zeros, d) /\ Fits(arena.full, d)
      BY <1>2, <1>3 DEF ArenaInv, PoolFine
    <2>2. arena.full.tokens[d] = Length(d)
      BY <1>3, <1>4, <2>1 DEF Placed, Zeros
    <2>3. Length(d) <= Len(full) * PageTokens
      BY <2>1, <2>2 DEF Fits
    <2>4. Len(full) \in Nat
      BY <1>2, <1>3, TableIs, PoolNats, ArenaFields DEF ArenaInv
    <2> HIDE DEF full
    <2> QED BY <1>3, <1>4, <2>3, <2>4 DEF RowsThrough
  <1>7. ASSUME NEW i \in DOMAIN full, RowsThrough(0, i - 1) < Length(d)
        PROVE  KVAfter.full[full[i]] = Prefix(d, RowsThrough(0, i))
    <2>1. DOMAIN full = 1 .. Len(full) /\ Len(full) \in Nat
      BY <1>2, <1>3, TableIs, PoolNats, ArenaFields DEF ArenaInv
    <2>2. i \in 1 .. Len(full) /\ i \in Nat
      BY <1>7, <2>1
    <2> DEFINE x == <<full[i], Zeros[d] + i * PageTokens>>
    <2>3. x \in FullSpots(arena, d)
      BY <2>2 DEF FullSpots, Spots
    <2>4. x[1] = full[i] /\ x[2] = RowsThrough(0, i)
      BY <1>3 DEF RowsThrough, Zeros
    <2>5. RowsThrough(0, i) - PageTokens = RowsThrough(0, i - 1)
      BY <1>4, <2>2 DEF RowsThrough
    <2> HIDE DEF x, full
    <2> QED BY <1>5, <1>7, <2>3, <2>4, <2>5
  <1>8. ASSUME HasSliding
        PROVE  /\ start <= Bigger(0, first - Window)
               /\ RowsThrough(start, Len(slide)) >= Length(d)
               /\ \A i \in DOMAIN slide :
                     RowsThrough(start, i - 1) < Length(d)
                         => KVAfter.slide[slide[i]] = Prefix(d, RowsThrough(start, i))
    <2>1. /\ Placed(arena.slide, arena.base, arena.start, d) /\ Fits(arena.slide, d)
          /\ arena.start[d] <= Origin(Length(d))
      BY <1>2, <1>3, <1>4, <1>8 DEF ArenaInv, SlideFine, PoolFine, Anchored
    <2>2. start \in Nat /\ arena.slide.tokens[d] = Length(d) - start
      BY <1>4, <2>1 DEF Placed
    <2>3. start <= Origin(first) /\ first \in Nat
      <3>1. CASE g.carried
        <4>1. start = Origin(tree.chosen[d])
          BY <1>1, <1>3, <1>8, <3>1 DEF ReadInv, Chose
        <4> QED BY <1>3, <3>1, <4>1, <2>2
      <3>2. CASE ~g.carried
        BY <1>3, <2>1, <3>2
      <3> QED BY <3>1, <3>2
    <2>4. Origin(first) <= Bigger(0, first - Window) /\ Origin(first) \in Nat
          /\ Bigger(0, first - Window) \in Int
      BY <2>3, OriginReaches, OriginIs, PoolNats DEF Bigger
    <2>5. DOMAIN slide = 1 .. Len(slide) /\ Len(slide) \in Nat
      BY <1>2, <1>3, TableIs, PoolNats, ArenaFields DEF ArenaInv
    <2>6. Length(d) - start <= Len(slide) * PageTokens
      BY <2>1, <2>2 DEF Fits
    <2>7. ASSUME NEW i \in DOMAIN slide, RowsThrough(start, i - 1) < Length(d)
          PROVE  KVAfter.slide[slide[i]] = Prefix(d, RowsThrough(start, i))
      <3>1. i \in 1 .. Len(slide) /\ i \in Nat
        BY <2>5
      <3> DEFINE x == <<slide[i], arena.start[d] + i * PageTokens>>
      <3>2. x \in SlideSpots(arena, d)
        BY <3>1 DEF SlideSpots, Spots
      <3>3. x[1] = slide[i] /\ x[2] = RowsThrough(start, i)
        BY DEF RowsThrough
      <3>4. RowsThrough(start, i) - PageTokens = RowsThrough(start, i - 1)
        BY <1>4, <2>2, <3>1 DEF RowsThrough
      <3> HIDE DEF x, slide, start
      <3> QED BY <1>5, <1>8, <2>7, <3>2, <3>3, <3>4
    <2> HIDE DEF slide, start
    <2>8. start <= Bigger(0, first - Window)
      BY <2>2, <2>3, <2>4
    <2>9. RowsThrough(start, Len(slide)) >= Length(d)
      BY <1>3, <1>4, <2>2, <2>5, <2>6 DEF RowsThrough
    <2> QED BY <2>7, <2>8, <2>9
  <1> QED BY <1>3, <1>6, <1>7, <1>8

-----------------------------------------------------------------------------
(* What a document reads once it is admitted.                              *)

\* What d reads of the pool Q it is admitted to, where s rows are its
\* parent's: what it read before, pages past its tokens, its parent's, or
\* pages of its own from row s on, when it is fresh.
Gets(P, start, Q, start2, d, p, s, fresh) ==
    \A x \in Spots(Q, start2, d) :
        \/ x \in Spots(P, start, d)
        \/ x[2] - PageTokens >= Length(d) /\ Alone(Q, d, x[1])
        \/ s > 0 /\ x \in Spots(Q, start2, p) /\ x[2] <= s
        \/ fresh /\ x[2] > s /\ Alone(Q, d, x[1])

\* The parent it borrows from.
LentRows(d, p, s) == s > 0 => p \in Docs /\ p # d /\ SameRows(p, d, s)

\* A page is read by the key that reads it at some row.
LEMMA SpotRead ==
    ASSUME NEW n \in Nat, NEW P \in Pool(n), NEW start \in [Keys -> Nat], NEW k \in Keys,
           NEW x \in Spots(P, start, k)
    PROVE  x[1] \in TableSet(P, k) /\ x[2] \in Nat /\ x[2] >= PageTokens
  <1>1. PICK i \in 1 .. Len(TablePages(P, k)) :
           x = <<TablePages(P, k)[i], start[k] + i * PageTokens>>
    BY DEF Spots
  <1>2. /\ Len(TablePages(P, k)) \in Nat /\ PageTokens \in Nat /\ start[k] \in Nat
        /\ DOMAIN TablePages(P, k) = 1 .. Len(TablePages(P, k))
    BY TableIs, PageTokensAssumption
  <1>3. x[1] = TablePages(P, k)[i] /\ x[2] = start[k] + i * PageTokens
    BY <1>1
  <1>4. x[1] \in TableSet(P, k)
    BY <1>2, <1>3 DEF TableSet, Range
  <1>5. i * PageTokens \in Nat /\ i * PageTokens >= PageTokens
    BY <1>2
  <1> QED BY <1>2, <1>3, <1>4, <1>5

\* Who reads a page of d's new table begins with the same rows.
LEMMA AgreeGets ==
    ASSUME BaseInv, NEW n \in Nat, NEW P, NEW start, NEW Q \in Pool(n), NEW start2 \in [Keys -> Nat],
           NEW d \in Docs, NEW p, NEW s \in Nat, NEW fresh,
           \A l \in Docs \ {d} : Spots(Q, start2, l) \subseteq Spots(P, start, l),
           \A k, l \in Docs : k # l =>
              \A x \in Spots(P, start, k) \intersect Spots(P, start, l) : SameRows(k, l, x[2]),
           Gets(P, start, Q, start2, d, p, s, fresh), LentRows(d, p, s)
    PROVE  \A k, l \in Docs : k # l =>
              \A x \in Spots(Q, start2, k) \intersect Spots(Q, start2, l) : SameRows(k, l, x[2])
  <1>1. Docs \subseteq Keys
    BY PlanIs
  <1>2. ASSUME NEW k \in Docs \ {d}, NEW x \in Spots(Q, start2, k) \intersect Spots(Q, start2, d)
        PROVE  SameRows(k, d, x[2]) /\ x[2] \in Int
    <2>1. x[1] \in TableSet(Q, k) /\ x[2] \in Nat /\ k \in Keys \ {d}
      BY <1>1, SpotRead
    <2>2. ~Alone(Q, d, x[1])
      BY <2>1 DEF Alone
    <2>3. x \in Spots(P, start, k)
      OBVIOUS
    <2>4. \/ x \in Spots(P, start, d)
          \/ s > 0 /\ x \in Spots(Q, start2, p) /\ x[2] <= s
      BY <2>2 DEF Gets
    <2>5. CASE x \in Spots(P, start, d)
      BY <2>1, <2>3, <2>5
    <2>6. CASE s > 0 /\ x \in Spots(Q, start2, p) /\ x[2] <= s
      <3>1. p \in Docs /\ p # d /\ SameRows(p, d, s)
        BY <2>6 DEF LentRows
      <3>2. SameRows(p, d, x[2])
        BY <2>1, <2>6, <3>1, RowsTurn
      <3>3. CASE k = p
        BY <2>1, <3>2, <3>3
      <3>4. CASE k # p
        <4>1. x \in Spots(P, start, p)
          BY <2>6, <3>1
        <4>2. SameRows(k, p, x[2])
          BY <2>3, <3>1, <3>4, <4>1
        <4> QED BY <2>1, <3>1, <3>2, <4>2, RowsBoth
      <3> QED BY <3>3, <3>4
    <2> QED BY <2>4, <2>5, <2>6
  <1>3. ASSUME NEW k \in Docs, NEW l \in Docs, k # l,
               NEW x \in Spots(Q, start2, k) \intersect Spots(Q, start2, l)
        PROVE  SameRows(k, l, x[2])
    <2>1. CASE k = d
      <3>1. SameRows(l, d, x[2]) /\ x[2] \in Int
        BY <1>2, <1>3, <2>1
      <3> QED BY <2>1, <3>1, RowsTurn
    <2>2. CASE l = d
      BY <1>2, <1>3, <2>2
    <2>3. CASE k # d /\ l # d
      BY <1>3, <2>3
    <2> QED BY <2>1, <2>2, <2>3
  <1> QED BY <1>3

\* In the pool P each document's pages hold its prefix in content, or will
\* once the documents of U, packed from the rows chosen, ran.
HoldsIn(P, start, content, U, chosen) ==
    \A k \in Docs : \A x \in Spots(P, start, k) : x[2] - PageTokens < Length(k) =>
        \/ content[x[1]] = Prefix(k, x[2])
        \/ \E f \in U : /\ x \in Spots(P, start, f)
                        /\ x[2] > chosen[f] /\ x[2] - PageTokens < Length(f)

\* The documents of U read Q as they read P, and pack the same rows.
ReadAs(P, start, Q, start2, U, chosen, chosen2) ==
    \A f \in U : Spots(Q, start2, f) = Spots(P, start, f) /\ chosen2[f] = chosen[f]

\* The pages of d's new table hold its prefix, or will.
LEMMA HoldsGets ==
    ASSUME BaseInv, NEW n \in Nat, NEW P, NEW start, NEW Q \in Pool(n), NEW start2 \in [Keys -> Nat],
           NEW d \in Docs, NEW p, NEW s \in Nat, NEW fresh, NEW content, NEW U, NEW V,
           NEW chosen, NEW chosen2,
           \A l \in Docs \ {d} : Spots(Q, start2, l) \subseteq Spots(P, start, l),
           U \subseteq V, d \notin U, fresh /\ Length(d) > 0 => d \in V, chosen2[d] = s,
           ReadAs(P, start, Q, start2, U, chosen, chosen2),
           HoldsIn(P, start, content, U, chosen),
           Gets(P, start, Q, start2, d, p, s, fresh), LentRows(d, p, s)
    PROVE  HoldsIn(Q, start2, content, V, chosen2)
  <1>1. Docs \subseteq Keys /\ PageTokens \in Nat /\ PageTokens > 0 /\ \A k \in Docs : Length(k) \in Nat
    BY PlanIs, PageTokensAssumption
  <1>2. ASSUME NEW k \in Docs, NEW x \in Spots(P, start, k), x[2] - PageTokens < Length(k)
        PROVE  \/ content[x[1]] = Prefix(k, x[2])
               \/ \E f \in V : /\ x \in Spots(Q, start2, f)
                               /\ x[2] > chosen2[f] /\ x[2] - PageTokens < Length(f)
    <2>1. \/ content[x[1]] = Prefix(k, x[2])
          \/ \E f \in U : /\ x \in Spots(P, start, f)
                         /\ x[2] > chosen[f] /\ x[2] - PageTokens < Length(f)
      BY <1>2 DEF HoldsIn
    <2> QED BY <2>1 DEF ReadAs
  <1>3. ASSUME NEW x \in Spots(Q, start2, d), x[2] - PageTokens < Length(d)
        PROVE  \/ content[x[1]] = Prefix(d, x[2])
               \/ \E f \in V : /\ x \in Spots(Q, start2, f)
                               /\ x[2] > chosen2[f] /\ x[2] - PageTokens < Length(f)
    <2>1. x[2] \in Nat /\ x[2] >= PageTokens
      BY <1>1, SpotRead
    <2>2. \/ x \in Spots(P, start, d)
          \/ x[2] - PageTokens >= Length(d)
          \/ s > 0 /\ x \in Spots(Q, start2, p) /\ x[2] <= s
          \/ fresh /\ x[2] > s
      BY DEF Gets
    <2>3. CASE x \in Spots(P, start, d)
      BY <1>2, <1>3, <2>3
    <2>4. CASE s > 0 /\ x \in Spots(Q, start2, p) /\ x[2] <= s
      <3>1. p \in Docs /\ p # d /\ SameRows(p, d, s)
        BY <2>4 DEF LentRows
      <3>2. SameRows(p, d, x[2])
        BY <2>1, <2>4, <3>1, RowsTurn
      <3>3. Prefix(p, x[2]) = Prefix(d, x[2])
        BY <2>1, <3>1, <3>2, SameRowsPrefix
      <3>4. x \in Spots(P, start, p)
        BY <2>4, <3>1
      <3>5. x[2] - PageTokens < Length(p)
        <4>1. x[2] <= Length(p) /\ Length(p) \in Nat
          BY <1>1, <3>1, <3>2 DEF SameRows
        <4> QED BY <1>1, <2>1, <4>1
      <3> QED BY <1>2, <3>1, <3>3, <3>4, <3>5
    <2>5. CASE fresh /\ x[2] > s
      <3>1. Length(d) > 0
        BY <1>1, <1>3, <2>1
      <3>2. d \in V
        BY <2>5, <3>1
      <3> QED BY <1>3, <2>5, <3>2
    <2>6. CASE x[2] - PageTokens >= Length(d)
      BY <1>1, <1>3, <2>1, <2>6
    <2> QED BY <2>2, <2>3, <2>4, <2>5, <2>6
  <1>4. ASSUME NEW k \in Docs, k # d, NEW x \in Spots(Q, start2, k), x[2] - PageTokens < Length(k)
        PROVE  \/ content[x[1]] = Prefix(k, x[2])
               \/ \E f \in V : /\ x \in Spots(Q, start2, f)
                               /\ x[2] > chosen2[f] /\ x[2] - PageTokens < Length(f)
    <2>1. x \in Spots(P, start, k)
      BY <1>4
    <2> QED BY <1>2, <1>4, <2>1
  <1> QED BY <1>3, <1>4 DEF HoldsIn

\* Who lends to a document that is admitted.
LEMMA LenderIs ==
    ASSUME BaseInv, Known(arena), Lending, Unplaced, Kinship, NEW d \in Docs,
           sched.stage[d] = Queued
    PROVE  LentRows(d, tree.parent[d], Borrowed(d)) /\ (Borrowed(d) > 0 => Borrowed(d) < Length(d))
  <1> SUFFICES ASSUME Borrowed(d) > 0
               PROVE  /\ tree.parent[d] \in Docs /\ tree.parent[d] # d
                      /\ SameRows(tree.parent[d], d, Borrowed(d)) /\ Borrowed(d) < Length(d)
    BY DEF LentRows
  <1>1. /\ tree.parent[d] # None /\ Borrowed(d) = tree.shared[d]
        /\ CanBorrow(arena, tree.parent[d], tree.shared[d])
    BY DEF Borrowed
  <1>2. SameRows(tree.parent[d], d, tree.shared[d]) /\ tree.shared[d] < Length(d)
    BY <1>1 DEF Kinship
  <1>3. tree.parent[d] \in Resident(arena)
    BY <1>1 DEF CanBorrow
  <1>4. tree.parent[d] # d
    BY <1>1, <1>3 DEF Unplaced
  <1>5. tree.parent[d] \in Docs
    BY <1>1 DEF Lending
  <1> QED BY <1>1, <1>2, <1>4, <1>5

\* The pages a reservation gives d, in each pool.
LEMMA ClimbGets ==
    ASSUME NEW P, NEW start, NEW Q, NEW start2, NEW d, NEW p, NEW s, NEW fresh,
           Tops(P, Q, start, d, Length(d)), start2[d] = start[d]
    PROVE  Gets(P, start, Q, start2, d, p, s, fresh)
  <1>1. Spots(Q, start2, d) = Spots(Q, start, d)
    BY DEF Spots
  <1> QED BY <1>1 DEF Gets, Tops

LEMMA LandGets ==
    ASSUME NEW P, NEW start, NEW n \in Nat, NEW Q \in Pool(n), NEW start2 \in [Keys -> Nat],
           NEW d \in Keys, NEW q, NEW p, NEW s \in Nat, s > 0 => q = p, Lays(Q, start2, q, s, d)
    PROVE  Gets(P, start, Q, start2, d, p, s, TRUE)
  <1>1. ASSUME NEW x \in Spots(Q, start2, d)
        PROVE  \/ s > 0 /\ x \in Spots(Q, start2, p) /\ x[2] <= s
               \/ x[2] > s /\ Alone(Q, d, x[1])
    <2>1. x[2] \in Nat /\ x[2] >= PageTokens /\ PageTokens \in Nat /\ PageTokens > 0
      BY SpotRead, PageTokensAssumption
    <2>2. \/ x \in Spots(Q, start2, q) /\ x[2] <= s
          \/ x[2] > s /\ Alone(Q, d, x[1])
      BY DEF Lays
    <2>3. CASE x \in Spots(Q, start2, q) /\ x[2] <= s
      <3>1. s > 0
        BY <2>1, <2>3
      <3> QED BY <2>3, <3>1
    <2> QED BY <2>2, <2>3
  <1> QED BY <1>1 DEF Gets

LEMMA PlacesGets ==
    ASSUME NEW A \in Arena, NEW B \in Arena, NEW d \in Docs, d \in Keys,
           d \in Resident(A) => A.base[d] = Length(d),
           NEW p, NEW s \in Nat, NEW q, s > 0 => q = p, Places(A, B, d, q, s),
           NEW fresh \in BOOLEAN, fresh <=> d \notin Resident(A)
    PROVE  /\ Gets(A.full, Zeros, B.full, Zeros, d, p, s, fresh)
           /\ HasSliding => Gets(A.slide, A.start, B.slide, B.start, d, p, s, fresh)
           /\ HasSliding /\ fresh => B.start[d] = Origin(s)
  <1>1. /\ B.full \in Pool(NumPages) /\ B.slide \in Pool(NumSliding)
        /\ NumPages \in Nat /\ NumSliding \in Nat /\ B.start \in [Keys -> Nat]
        /\ Zeros \in [Keys -> Nat]
    BY ArenaFields, PoolNats DEF Zeros
  <1>2. CASE d \in Resident(A)
    <2>1. Climbs(A, B, d) /\ A.base[d] = Length(d) /\ fresh = FALSE
      BY <1>2 DEF Places
    <2>2. Gets(A.full, Zeros, B.full, Zeros, d, p, s, fresh)
      BY <2>1, ClimbGets DEF Climbs
    <2>3. HasSliding => Gets(A.slide, A.start, B.slide, B.start, d, p, s, fresh)
      BY <2>1, ClimbGets DEF Climbs
    <2> QED BY <2>1, <2>2, <2>3
  <1>3. CASE d \notin Resident(A)
    <2>1. Lands(B, d, q, s) /\ fresh = TRUE
      BY <1>3 DEF Places
    <2>2. Gets(A.full, Zeros, B.full, Zeros, d, p, s, TRUE)
      BY <1>1, <2>1, LandGets DEF Lands
    <2>3. HasSliding => Gets(A.slide, A.start, B.slide, B.start, d, p, s, TRUE)
      BY <1>1, <2>1, LandGets DEF Lands
    <2>4. HasSliding => B.start[d] = Origin(s)
      BY <2>1 DEF Lands
    <2> QED BY <2>1, <2>2, <2>3, <2>4
  <1> QED BY <1>2, <1>3

\* The arena a reservation leaves.
LEMMA AdmitFills ==
    ASSUME BaseInv, QueueInv, Loans, PricedInv, ReadInv, NEW d, AdmitNext(d),
           NEW out \in Reserve(arena, d, Length(d), Capacity(d), tree.parent[d], Borrowed(d)),
           NEW A, A = out.arena, NEW fresh \in BOOLEAN, fresh <=> d \notin Resident(arena)
    PROVE  /\ ArenaInv(A) /\ A \in Arena /\ Borrowed(d) \in Nat
           /\ LentRows(d, tree.parent[d], Borrowed(d))
           /\ \A l \in Docs : (out.ok => l # d) => Narrower(arena, A, l)
           /\ \A e \in Docs : sched.stage[e] # Done /\ (out.ok => e # d)
                 => Stays(arena, A, e) /\ Spares(arena, A, e)
           /\ A.deferred = arena.deferred
           /\ out.ok => /\ d \in Resident(A) /\ d \notin A.retained
                        /\ Gets(arena.full, Zeros, A.full, Zeros, d, tree.parent[d],
                                Borrowed(d), fresh)
                        /\ HasSliding => Gets(arena.slide, arena.start, A.slide, A.start, d,
                                              tree.parent[d], Borrowed(d), fresh)
                        /\ HasSliding /\ fresh => A.start[d] = Origin(Borrowed(d))
           /\ ~fresh => Borrowed(d) = 0
           /\ Borrowed(d) > 0 => Borrowed(d) < Length(d)
  <1> DEFINE s == Borrowed(d)
             q == IF s = 0 THEN d ELSE tree.parent[d]
  <1>1. /\ pc = "admit" /\ Running /\ d \in Docs /\ sched.stage[d] = Queued /\ Known(arena)
        /\ Lending /\ Unplaced /\ Looping
    BY AdmitIs DEF Looping
  <1>2. /\ ArenaInv(arena) /\ arena \in Arena /\ d \in Keys /\ Queued # Done /\ Docs \subseteq Keys
        /\ Kinship
    BY <1>1, PlanIs DEF Known, ArenaInv, ReadInv
  <1>3. /\ Request(arena, d, Length(d), Capacity(d), q, s)
        /\ out \in Reserve(arena, d, Length(d), Capacity(d), q, s) /\ s \in Nat
    BY <1>1, AdmitRequest
  <1>4. LentRows(d, tree.parent[d], s) /\ (s > 0 => s < Length(d))
    BY <1>1, <1>2, LenderIs
  <1>5. s > 0 => q = tree.parent[d]
    OBVIOUS
  <1>6. ~fresh => s = 0
    BY <1>3 DEF Request
  <1> HIDE DEF q, s
  <1> DEFINE nf == NeedFull(arena, d, Capacity(d), s)
             ns == NeedSliding(arena, d, Capacity(d), s)
  <1>7. /\ ArenaInv(A) /\ Served(arena, out, d, Length(d)) /\ Spends(arena, out, d, nf, ns)
        /\ Fills(arena, out, d, q, s)
    BY <1>2, <1>3, ReserveKeeps
  <1> HIDE DEF nf, ns
  <1>8. A \in Arena
    BY <1>7 DEF ArenaInv
  <1>9. ASSUME NEW l \in Docs, out.ok => l # d PROVE Narrower(arena, A, l)
    <2>1. CASE l # d
      BY <1>2, <1>7, <2>1 DEF Fills
    <2>2. CASE ~out.ok
      BY <1>2, <1>7, <2>2 DEF Served, Sheds
    <2> QED BY <1>9, <2>1, <2>2
  <1>10. ASSUME NEW e \in Docs, sched.stage[e] # Done, out.ok => e # d
         PROVE  Stays(arena, A, e) /\ Spares(arena, A, e)
    <2>1. e \in Keys /\ e \notin arena.retained /\ e \notin arena.deferred
      BY <1>1, <1>10, SafeIs
    <2> QED BY <1>7, <1>10, <2>1 DEF Fills, Spends, SparesBut
  <1>11. A.deferred = arena.deferred
    BY <1>7 DEF Fills
  <1>12. ASSUME out.ok
         PROVE  /\ d \in Resident(A) /\ d \notin A.retained
                /\ Gets(arena.full, Zeros, A.full, Zeros, d, tree.parent[d], s, fresh)
                /\ HasSliding => Gets(arena.slide, arena.start, A.slide, A.start, d,
                                      tree.parent[d], s, fresh)
                /\ HasSliding /\ fresh => A.start[d] = Origin(s)
    <2>1. d \in Resident(A)
      BY <1>7, <1>12 DEF Served, Seats
    <2>2. d \notin A.retained
      BY <1>1, <1>2, <1>7, <1>12, SafeIs DEF Fills
    <2>3. Places(arena, A, d, q, s)
      BY <1>7, <1>12 DEF Fills
    <2>4. d \in Resident(arena) => arena.base[d] = Length(d)
      BY <1>1 DEF Known
    <2>5. /\ Gets(arena.full, Zeros, A.full, Zeros, d, tree.parent[d], s, fresh)
          /\ HasSliding => Gets(arena.slide, arena.start, A.slide, A.start, d,
                                tree.parent[d], s, fresh)
          /\ HasSliding /\ fresh => A.start[d] = Origin(s)
      <3> HIDE DEF s, q
      <3>1. d \in Docs /\ d \in Keys /\ arena \in Arena /\ A \in Arena /\ s \in Nat
        BY <1>1, <1>2, <1>3, <1>8
      <3>2. fresh \in BOOLEAN /\ (fresh <=> d \notin Resident(arena))
        OBVIOUS
      <3>3. d \in Resident(arena) => arena.base[d] = Length(d)
        BY <2>4
      <3>4. s > 0 => q = tree.parent[d]
        BY <1>5
      <3>5. Places(arena, A, d, q, s)
        BY <2>3
      <3>6. \A p : (s > 0 => q = p)
                => /\ Gets(arena.full, Zeros, A.full, Zeros, d, p, s, fresh)
                   /\ HasSliding
                        => Gets(arena.slide, arena.start, A.slide, A.start, d, p, s, fresh)
                   /\ HasSliding /\ fresh => A.start[d] = Origin(s)
        BY <3>1, <3>2, <3>3, <3>5, PlacesGets
      <3> QED BY <3>4, <3>6
    <2> QED BY <2>1, <2>2, <2>5
  <1> QED BY <1>3, <1>4, <1>6, <1>7, <1>8, <1>9, <1>10, <1>11, <1>12 DEF s

\* A document that gets no pages packs nothing, and what it evicted nobody asks.
LEMMA AdmitFailsReads ==
    ASSUME BaseInv, QueueInv, Loans, PricedInv, ReadInv, NEW d, AdmitNext(d),
           NEW out \in Reserve(arena, d, Length(d), Capacity(d), tree.parent[d], Borrowed(d)),
           ~out.ok, arena' = out.arena, sched' = Popped, chunk' = HeldBack(d),
           pc' = "close", tree' = tree
    PROVE  ReadInv'
  <1>1. /\ pc = "admit" /\ Running /\ Shapes /\ Members /\ plan' = plan /\ op' = op /\ kv' = kv
    BY AdmitIs DEF AdmitNext
  <1>2. Looping /\ Planning /\ Planning' /\ Looping' /\ Running'
    BY <1>1 DEF Looping, Planning, Running
  <1>3. /\ \A l \in Docs : Narrower(arena, arena', l)
        /\ \A e \in Docs : sched.stage[e] # Done
              => Stays(arena, arena', e) /\ Spares(arena, arena', e)
    <2>1. \E b \in BOOLEAN : b <=> d \notin Resident(arena)
      OBVIOUS
    <2> QED BY <2>1, AdmitFills
  <1>4. /\ sched'.stage = sched.stage /\ sched'.settled = sched.settled
        /\ sched'.carried = sched.carried /\ chunk'.groups = chunk.groups
    BY <1>1 DEF Popped, HeldBack, Shapes, IsSched, IsChunk
  <1>5. Unrun' = Unrun /\ Unrun = Fresh
    BY <1>2, <1>4 DEF Unrun, Fresh
  <1>6. \A f \in Unrun : Stays(arena, arena', f)
    <2>1. Fresh \subseteq Docs /\ \A f \in Fresh : sched.stage[f] \in Stages
      BY <1>1, FreshIn
    <2>2. Done \notin Stages
      BY PlanIs
    <2> QED BY <1>3, <1>5, <2>1, <2>2
  <1>7. \A e \in Docs : Lasts(e)
    BY <1>3, <1>4 DEF Lasts
  <1>8. Plain
    BY <1>1, <1>4 DEF Plain
  <1> QED BY <1>1, <1>2, <1>3, <1>5, <1>6, <1>7, <1>8, ReadsKeep

\* What an admission changes.
LEMMA AdmittedIs ==
    ASSUME BaseInv, QueueInv, Loans, PricedInv, ReadInv, NEW d, AdmitNext(d),
           NEW A, ArenaInv(A), AdmitReserved(d, A)
    PROVE  /\ SamePools(A, arena') /\ arena'.retained = A.retained /\ arena'.deferred = A.deferred
           /\ sched'.stage = [sched.stage EXCEPT ![d] = 1] /\ sched'.settled = sched.settled
           /\ sched'.carried = sched.carried /\ pc' = pc
           /\ tree'.parent = tree.parent /\ tree'.shared = tree.shared
           /\ tree'.chosen = [tree.chosen EXCEPT ![d] = Borrowed(d)]
           /\ chunk'.groups = Append(chunk.groups, Group(d, 1, 0, FirstTake(d).end, Packed(d) > 0))
  <1>1. /\ Running /\ Shapes /\ d \in Docs /\ Lending /\ Known(arena) /\ Unplaced
    BY AdmitIs
  <1>2. arena' = Reserved(A, d)
    BY DEF AdmitReserved
  <1>3. Borrowed(d) > 0 => tree.parent[d] \in Keys
    <2>1. Docs \subseteq Keys
      BY PlanIs
    <2> QED BY <1>1, <2>1, AdmitIs, AdmitRequest
  <1>4. SamePools(A, arena') /\ arena'.retained = A.retained /\ arena'.deferred = A.deferred
    BY <1>1, <1>2, <1>3, ReservedSpares
  <1>5. /\ sched'.stage = [sched.stage EXCEPT ![d] = 1] /\ sched'.settled = sched.settled
        /\ sched'.carried = sched.carried /\ pc' = pc
    BY <1>1 DEF AdmitReserved, Popped, Shapes, IsSched
  <1>6. /\ tree'.parent = tree.parent /\ tree'.shared = tree.shared
        /\ tree'.chosen = [tree.chosen EXCEPT ![d] = Borrowed(d)]
    BY <1>1 DEF AdmitReserved, Shapes, IsTree
  <1>7. chunk'.groups = Append(chunk.groups, Group(d, 1, 0, FirstTake(d).end, Packed(d) > 0))
    BY <1>1 DEF AdmitReserved, Launch, Shapes, IsChunk
  <1> QED BY <1>4, <1>5, <1>6, <1>7

\* A document packs rows when it has none of its own yet.
LEMMA PacksFresh ==
    ASSUME BaseInv, Carries, NEW d \in Docs, sched.stage[d] = Queued,
           d \in Resident(arena) => Borrowed(d) = 0,
           Borrowed(d) \in Nat, Borrowed(d) > 0 => Borrowed(d) < Length(d)
    PROVE  /\ Packed(d) > 0 => d \notin Resident(arena)
           /\ d \notin Resident(arena) /\ Length(d) > 0 => Packed(d) > 0
  <1>1. Length(d) \in Nat /\ sched.carried[d] = IF d \in Resident(arena) THEN 0 ELSE Length(d)
    BY PlanIs DEF Carries
  <1>2. CASE Borrowed(d) = 0
    BY <1>1, <1>2 DEF Packed
  <1>3. CASE Borrowed(d) > 0
    BY <1>1, <1>3 DEF Packed
  <1> QED BY <1>2, <1>3

\* An admission adds its document to those the planned chunk packs.
LEMMA AdmitCarries ==
    ASSUME BaseInv, Members, NEW d \in Docs, sched.stage[d] = Queued, NEW g,
           chunk'.groups = Append(chunk.groups, g), g.doc = d
    PROVE  /\ Fresh \subseteq Docs \ {d} /\ Fresh \subseteq Fresh' /\ Fresh' \subseteq Fresh \union {d}
           /\ g.carried <=> d \in Fresh'
  <1> DEFINE S == GroupType \union {g}
  <1>1. chunk.groups \in Seq(GroupType)
    BY DEF Members, Types
  <1>2. chunk.groups \in Seq(S) /\ g \in S
    BY <1>1
  <1> HIDE DEF S
  <1>3. Range(chunk'.groups) = Range(chunk.groups) \union {g}
    BY <1>2, AppendIs
  <1>4. Fresh \subseteq Docs \ {d}
    BY FreshIn, PlanIs
  <1>5. Fresh \subseteq Fresh' /\ Fresh' \subseteq Fresh \union {d}
    BY <1>3 DEF Fresh
  <1>6. g.carried => d \in Fresh'
    BY <1>3 DEF Fresh
  <1>7. d \in Fresh' => g.carried
    <2> SUFFICES ASSUME d \in Fresh' PROVE g.carried
      OBVIOUS
    <2>1. PICK h \in Range(chunk'.groups) : h.carried /\ h.doc = d
      BY DEF Fresh
    <2>2. h \in Range(chunk.groups) => d \in Fresh
      BY <2>1 DEF Fresh
    <2> QED BY <1>3, <1>4, <2>1, <2>2
  <1> QED BY <1>4, <1>5, <1>6, <1>7

\* A document that gets its pages reads its parent's rows and pages of its own,
\* which the planned chunk will compute.
LEMMA AdmitGives ==
    ASSUME BaseInv, QueueInv, Loans, PricedInv, ReadInv, NEW d, AdmitNext(d),
           NEW out \in Reserve(arena, d, Length(d), Capacity(d), tree.parent[d], Borrowed(d)),
           out.ok, AdmitReserved(d, out.arena)
    PROVE  ReadInv'
  <1> DEFINE A == out.arena
             s == Borrowed(d)
             p == tree.parent[d]
  <1>1. /\ pc = "admit" /\ Running /\ Shapes /\ Members /\ d \in Docs /\ sched.stage[d] = Queued
        /\ Lending /\ plan' = plan /\ op' = op /\ kv' = kv
    BY AdmitIs DEF AdmitNext
  <1>2. Looping /\ Planning
    BY <1>1 DEF Looping, Planning
  <1>3. PICK fresh \in BOOLEAN : fresh <=> d \notin Resident(arena)
    <2>1. \E b \in BOOLEAN : b <=> d \notin Resident(arena)
      OBVIOUS
    <2> QED BY <2>1
  <1>4. /\ ArenaInv(A) /\ A \in Arena /\ s \in Nat /\ LentRows(d, p, s)
        /\ \A l \in Docs : l # d => Narrower(arena, A, l)
        /\ \A e \in Docs : sched.stage[e] # Done /\ e # d
              => Stays(arena, A, e) /\ Spares(arena, A, e)
        /\ A.deferred = arena.deferred /\ d \in Resident(A) /\ d \notin A.retained
        /\ Gets(arena.full, Zeros, A.full, Zeros, d, p, s, fresh)
        /\ HasSliding => Gets(arena.slide, arena.start, A.slide, A.start, d, p, s, fresh)
        /\ HasSliding /\ fresh => A.start[d] = Origin(s)
        /\ (~fresh => s = 0) /\ (s > 0 => s < Length(d))
    BY <1>3, AdmitFills
  <1>5. /\ SamePools(A, arena') /\ arena'.retained = A.retained /\ arena'.deferred = A.deferred
        /\ sched'.stage = [sched.stage EXCEPT ![d] = 1] /\ sched'.settled = sched.settled
        /\ sched'.carried = sched.carried /\ pc' = pc
        /\ tree'.parent = tree.parent /\ tree'.shared = tree.shared
        /\ tree'.chosen = [tree.chosen EXCEPT ![d] = s]
        /\ chunk'.groups = Append(chunk.groups, Group(d, 1, 0, FirstTake(d).end, Packed(d) > 0))
    BY <1>4, AdmittedIs
  <1> HIDE DEF A, s, p
  <1>6. /\ arena'.full = A.full /\ arena'.slide = A.slide /\ arena'.start = A.start
        /\ Resident(arena') = Resident(A)
    BY <1>5 DEF SamePools, Resident
  <1>7. /\ Agree /\ Computed /\ Chose /\ Kinship /\ Seated /\ Carries
        /\ DOMAIN kv.full = Pages(NumPages) /\ DOMAIN kv.slide = Pages(NumSliding)
    BY <1>1, <1>2 DEF ReadInv
  <1>8. /\ Looping' /\ Running' /\ Planning'
    BY <1>1, <1>5 DEF Looping, Running, Planning
  <1>9. /\ Docs' = Docs /\ Stages' = Stages /\ (\A e : Length(e)' = Length(e))
        /\ Done \notin Stages /\ Queued # Done /\ Queued \notin Stages /\ Docs \subseteq Keys
        /\ (\A k, l, n : SameRows(k, l, n)' = SameRows(k, l, n))
        /\ (\A k, n : Prefix(k, n)' = Prefix(k, n)) /\ 1 \in Stages
        /\ sched.stage \in [Docs -> Stages \union {Queued, Done}]
    BY <1>1, PlanIs, Frozen DEF SameRows, Prefix, Docs, Text, Length, Members, Types
  <1>10. /\ Fresh \subseteq Docs \ {d} /\ Fresh \subseteq Fresh' /\ Fresh' \subseteq Fresh \union {d}
         /\ (Packed(d) > 0 <=> d \in Fresh')
    <2>1. Group(d, 1, 0, FirstTake(d).end, Packed(d) > 0).doc = d
      BY DEF Group
    <2>2. Group(d, 1, 0, FirstTake(d).end, Packed(d) > 0).carried <=> Packed(d) > 0
      BY DEF Group
    <2> QED BY <1>1, <1>5, <2>1, <2>2, AdmitCarries
  <1>11. Unrun = Fresh /\ Unrun' = Fresh'
    BY <1>2, <1>8 DEF Unrun
  <1>12. (Packed(d) > 0 => fresh) /\ (fresh /\ Length(d) > 0 => Packed(d) > 0)
    BY <1>1, <1>3, <1>4, <1>7, PacksFresh DEF s
  <1>13. /\ NumPages \in Nat /\ NumSliding \in Nat /\ A.full \in Pool(NumPages)
         /\ A.slide \in Pool(NumSliding) /\ A.start \in [Keys -> Nat] /\ Zeros \in [Keys -> Nat]
    BY <1>4, ArenaFields, PoolNats DEF Zeros
  <1>14. /\ \A l \in Docs \ {d} : Spots(A.full, Zeros, l) \subseteq Spots(arena.full, Zeros, l)
         /\ HasSliding =>
              \A l \in Docs \ {d} : Spots(A.slide, A.start, l) \subseteq Spots(arena.slide, arena.start, l)
    BY <1>4 DEF Narrower, FullSpots, SlideSpots
  <1>15. ASSUME NEW f \in Fresh
         PROVE  Stays(arena, A, f) /\ f # d /\ f \in Docs
    BY <1>1, <1>4, <1>9, <1>10, FreshIn
  <1>16. Agree'
    <2>1. \A k, l \in Docs : k # l =>
             \A x \in Spots(A.full, Zeros, k) \intersect Spots(A.full, Zeros, l) : SameRows(k, l, x[2])
      <3>1. \A k, l \in Docs : k # l =>
               \A x \in Spots(arena.full, Zeros, k) \intersect Spots(arena.full, Zeros, l) :
                   SameRows(k, l, x[2])
        BY <1>7 DEF Agree, AgreeOn, FullSpots
      <3> QED BY <1>1, <1>4, <1>13, <1>14, <3>1, AgreeGets
    <2>2. ASSUME HasSliding
          PROVE  \A k, l \in Docs : k # l =>
                   \A x \in Spots(A.slide, A.start, k) \intersect Spots(A.slide, A.start, l) :
                       SameRows(k, l, x[2])
      <3>1. \A k, l \in Docs : k # l =>
               \A x \in Spots(arena.slide, arena.start, k) \intersect Spots(arena.slide, arena.start, l) :
                   SameRows(k, l, x[2])
        BY <1>7, <2>2 DEF Agree, AgreeOn, SlideSpots
      <3> QED BY <1>1, <1>4, <1>13, <1>14, <2>2, <3>1, AgreeGets
    <2>3. ASSUME NEW k \in Docs, NEW l \in Docs, k # l
          PROVE  AgreeOn(k, l)'
      <3>1. \A x \in FullSpots(arena', k) \intersect FullSpots(arena', l) : SameRows(k, l, x[2])
        BY <1>6, <2>1, <2>3 DEF FullSpots
      <3>2. HasSliding =>
              \A x \in SlideSpots(arena', k) \intersect SlideSpots(arena', l) : SameRows(k, l, x[2])
        BY <1>6, <2>2, <2>3 DEF SlideSpots
      <3> QED BY <1>9, <3>1, <3>2 DEF AgreeOn
    <2> QED BY <1>9, <2>3 DEF Agree
  <1>17. Computed'
    <2> DEFINE c == tree'.chosen
               V == Fresh'
    <2>1. c[d] = s /\ \A f \in Fresh : c[f] = tree.chosen[f]
      BY <1>1, <1>5, <1>7, <1>10 DEF Kinship
    <2>2. /\ V = Fresh' /\ Fresh \subseteq V /\ d \notin Fresh
          /\ (fresh /\ Length(d) > 0 => d \in V)
      BY <1>10, <1>12
    <2>3. \A k \in Docs : FullComputed(k) /\ (HasSliding => SlideComputed(k))
      BY <1>1, <1>7 DEF Computed
    <2> HIDE DEF c, V
    <2>4. HoldsIn(A.full, Zeros, kv.full, V, c)
      <3>1. HoldsIn(arena.full, Zeros, kv.full, Fresh, tree.chosen)
        BY <1>11, <2>3 DEF HoldsIn, FullComputed, FullSpots, Due
      <3>2. ReadAs(arena.full, Zeros, A.full, Zeros, Fresh, tree.chosen, c)
        BY <1>15, <2>1 DEF ReadAs, Stays, FullSpots
      <3>3. \A l \in Docs \ {d} : Spots(A.full, Zeros, l) \subseteq Spots(arena.full, Zeros, l)
        BY <1>14
      <3> QED BY <1>1, <1>4, <1>13, <2>1, <2>2, <3>1, <3>2, <3>3, HoldsGets
    <2>5. ASSUME HasSliding
          PROVE  HoldsIn(A.slide, A.start, kv.slide, V, c)
      <3>1. HoldsIn(arena.slide, arena.start, kv.slide, Fresh, tree.chosen)
        BY <1>11, <2>3, <2>5 DEF HoldsIn, SlideComputed, SlideSpots, Due
      <3>2. ReadAs(arena.slide, arena.start, A.slide, A.start, Fresh, tree.chosen, c)
        BY <1>15, <2>1, <2>5 DEF ReadAs, Stays, SlideSpots
      <3>3. \A l \in Docs \ {d} : Spots(A.slide, A.start, l) \subseteq Spots(arena.slide, arena.start, l)
        BY <1>14, <2>5
      <3> QED BY <1>1, <1>4, <1>13, <2>1, <2>2, <3>1, <3>2, <3>3, <2>5, HoldsGets
    <2>6. ASSUME NEW k \in Docs
          PROVE  FullComputed(k)' /\ (HasSliding => SlideComputed(k)')
      <3>1. FullComputed(k)'
        <4>1. ASSUME NEW x \in FullSpots(arena', k), x[2] - PageTokens < Length(k)
              PROVE  \/ kv.full[x[1]] = Prefix(k, x[2])
                     \/ \E f \in Fresh' : x \in FullSpots(arena', f) /\ Due(f, x)'
          BY <1>6, <1>9, <2>2, <2>4, <4>1 DEF FullSpots, Due, c, HoldsIn
        <4> QED BY <1>1, <1>9, <1>11, <4>1 DEF FullComputed
      <3>2. HasSliding => SlideComputed(k)'
        <4>1. ASSUME HasSliding, NEW x \in SlideSpots(arena', k), x[2] - PageTokens < Length(k)
              PROVE  \/ kv.slide[x[1]] = Prefix(k, x[2])
                     \/ \E f \in Fresh' : x \in SlideSpots(arena', f) /\ Due(f, x)'
          BY <1>6, <1>9, <2>2, <2>5, <4>1 DEF SlideSpots, Due, c, HoldsIn
        <4> QED BY <1>1, <1>9, <1>11, <4>1 DEF SlideComputed
      <3> QED BY <3>1, <3>2
    <2> QED BY <1>9, <2>6 DEF Computed
  <1>18. Chose'
    <2> SUFFICES ASSUME HasSliding, NEW f \in Fresh' PROVE arena'.start[f] = Origin(tree'.chosen[f])
      BY <1>11 DEF Chose
    <2>1. CASE f = d
      <3>1. fresh /\ tree'.chosen[d] = s
        BY <1>1, <1>5, <1>7, <1>10, <1>12, <2>1 DEF Kinship
      <3> QED BY <1>4, <1>6, <2>1, <3>1
    <2>2. CASE f # d
      <3>1. f \in Fresh
        BY <1>10, <2>2
      <3>2. A.start[f] = arena.start[f] /\ tree'.chosen[f] = tree.chosen[f]
        BY <1>5, <1>7, <1>15, <2>2, <3>1 DEF Kinship, Stays
      <3> QED BY <1>6, <1>7, <1>11, <3>1, <3>2 DEF Chose
    <2> QED BY <2>1, <2>2
  <1>19. Kinship'
    <2>1. tree'.chosen \in [Docs -> Nat]
      BY <1>1, <1>4, <1>5, <1>7 DEF Kinship
    <2> QED BY <1>5, <1>7, <1>9, <2>1 DEF Kinship
  <1>20. ASSUME NEW e \in Docs, e # d, sched.stage[e] # Done PROVE Spares(arena, arena', e)
    <2>1. Spares(arena, A, e)
      BY <1>4, <1>20
    <2>2. Spares(A, arena', e)
      BY <1>5, MarksSpare
    <2> QED BY <2>1, <2>2, SparesBoth
  <1>21. Seated'
    <2>1. ASSUME NEW e \in Docs, sched'.stage[e] \in Stages PROVE SeatedAt(e)'
      <3>1. CASE e = d
        <4>1. d \notin arena.deferred /\ d \notin Range(sched.settled)
          BY <1>1, <1>2, <1>9, SafeIs
        <4> QED BY <1>4, <1>5, <1>6, <3>1, <4>1 DEF SeatedAt
      <3>2. CASE e # d
        <4>1. sched.stage[e] \in Stages /\ SeatedAt(e)
          BY <1>5, <1>7, <1>9, <2>1, <3>2 DEF Seated
        <4>2. Spares(arena, arena', e)
          BY <1>9, <1>20, <3>2, <4>1
        <4> QED BY <1>5, <4>1, <4>2 DEF SeatedAt, Spares
      <3> QED BY <3>1, <3>2
    <2> QED BY <1>9, <2>1 DEF Seated
  <1>22. Carries'
    <2>1. ASSUME NEW e \in Docs, sched'.stage[e] = Queued
          PROVE  sched'.carried[e] = IF e \in Resident(arena') THEN 0 ELSE Length(e)
      <3>1. e # d /\ sched.stage[e] = Queued
        BY <1>1, <1>5, <1>9, <2>1
      <3>2. Spares(arena, arena', e)
        BY <1>9, <1>20, <3>1
      <3> QED BY <1>5, <1>7, <3>1, <3>2 DEF Carries, Spares
    <2> QED BY <1>9, <2>1 DEF Carries
  <1> QED BY <1>1, <1>7, <1>16, <1>17, <1>18, <1>19, <1>21, <1>22 DEF ReadInv

\* An admission.
LEMMA AdmitReads ==
    ASSUME BaseInv, QueueInv, Loans, PricedInv, ReadInv, NEW d, AdmitNext(d)
    PROVE  ReadInv'
  <1>1. PICK out \in Reserve(arena, d, Length(d), Capacity(d), tree.parent[d], Borrowed(d)) :
           IF out.ok THEN AdmitReserved(d, out.arena)
           ELSE /\ arena' = out.arena
                /\ sched' = Popped
                /\ chunk' = HeldBack(d)
                /\ pc' = "close"
                /\ UNCHANGED <<tree, exec>>
    BY DEF AdmitNext
  <1>2. CASE out.ok
    BY <1>1, <1>2, AdmitGives
  <1>3. CASE ~out.ok
    BY <1>1, <1>3, AdmitFailsReads
  <1> QED BY <1>2, <1>3

-----------------------------------------------------------------------------
(* Every step, for what is read.                                           *)

\* Nobody reads a page before the first operator starts.
LEMMA ReadAtFirst == Init => ReadInv
  <1> SUFFICES ASSUME Init PROVE ReadInv
    OBVIOUS
  <1>1. /\ pc = "start" /\ plan \in Plans /\ op = 1 /\ arena = EmptyArena
        /\ kv.full = [p \in 0 .. NumPages - 1 |-> <<>>]
        /\ kv.slide = [p \in 0 .. NumSliding - 1 |-> <<>>]
    BY DEF Init
  <1>2. ~Running /\ ~Looping /\ Unrun = {}
    BY <1>1 DEF Running, Looping, Unrun, Planning
  <1>3. Docs \subseteq Keys
    BY InitHolds, PlanIs DEF IInv
  <1>4. \A k \in Docs : FullSpots(arena, k) = {} /\ (HasSliding => SlideSpots(arena, k) = {})
    <2>1. ArenaInv(arena)
      BY LoansAtFirst DEF Loans, Known
    <2>2. Resident(arena) = {}
      BY <1>1 DEF Resident, EmptyArena, EmptyPool
    <2> QED BY <1>3, <2>1, <2>2, NoSpots
  <1>5. Agree
    BY <1>4 DEF Agree, AgreeOn
  <1>6. Computed
    BY <1>4 DEF Computed, FullComputed, SlideComputed
  <1>7. Chose
    BY <1>2 DEF Chose
  <1>8. DOMAIN kv.full = Pages(NumPages) /\ DOMAIN kv.slide = Pages(NumSliding)
    BY <1>1 DEF Pages
  <1> QED BY <1>2, <1>5, <1>6, <1>7, <1>8 DEF ReadInv

\* Every step keeps what is read.
LEMMA ReadsKept ==
    ASSUME BaseInv, QueueInv, Loans, Loans', StartInv, PricedInv, ReadInv, [Next]_vars
    PROVE  ReadInv'
  <1>1. CASE Rest \/ UNCHANGED vars
    BY <1>1, RestReads
  <1>2. CASE NextOperator \/ EndQuery \/ NextQuery \/ PassRaises \/ End
    BY <1>2, BetweenReads
  <1>3. CASE StartOperator
    BY <1>3, StartReads
  <1>4. CASE Top \/ MakeRoom \/ TakeReady \/ Nothing \/ RunPass \/ Submit
    BY <1>4, TopReads, MakeRoomReads, TakeReadyReads, NothingReads, RunPassReads, SubmitReads
  <1>5. CASE ReadyTaken \/ CloseChunk \/ ReportPart
    BY <1>5, QuietReads
  <1>6. CASE ReportAdvance \/ ReportSettle \/ DecideWaiting \/ EntryReported
    BY <1>6, ReportAdvanceReads, ReportSettleReads, DecideWaitingReads, EntryReportedReads
  <1>7. ASSUME NEW d \in Docs, Admission(d) PROVE ReadInv'
    <2>1. CASE AdmitNext(d)
      BY <2>1, AdmitReads
    <2>2. CASE ~AdmitNext(d)
      <3>1. HoldsBack(d) \/ PopDead(d)
        BY <2>2, <1>7 DEF Admission, HoldsBack
      <3> QED BY <3>1, QuietReads
    <2> QED BY <2>1, <2>2
  <1> QED BY <1>1, <1>2, <1>3, <1>4, <1>5, <1>6, <1>7 DEF Next

\* What is read holds throughout a run.
LEMMA ReadsHold == Spec => [](IInv /\ Loans /\ StartInv /\ PricedInv /\ ReadInv)
  <1>1. Init => IInv /\ Loans /\ StartInv /\ PricedInv /\ ReadInv
    <2>1. Init => PricedInv
      BY DEF Init, PricedInv, Looping, Running, PagesThere, Planning
    <2> QED BY <2>1, InitHolds, LoansAtFirst, ReadAtFirst
  <1>2. (IInv /\ Loans /\ StartInv /\ PricedInv /\ ReadInv) /\ [Next]_vars
           => (IInv /\ Loans /\ StartInv /\ PricedInv /\ ReadInv)'
    BY StepKeeps, LoansKept, PricesKept, ReadsKept DEF IInv
  <1> QED BY <1>1, <1>2, PTL DEF Spec

\* Whatever is borrowed, kept from an earlier operator, trimmed, evicted and
\* written over, a pass reads of a document only pages that hold the KV of
\* that document's own prefix, and its sliding pages reach back a whole window
\* (stage_executor.py _reserve, arena.py _borrow_plan, trim_window).
THEOREM ReadsOwnKV == Spec => []ReadsOwnPrefix
  <1>1. IInv /\ Loans /\ StartInv /\ PricedInv /\ ReadInv => ReadsOwnPrefix
    BY GroupReads DEF ReadsOwnPrefix, IInv
  <1> QED BY <1>1, ReadsHold, PTL
=============================================================================
