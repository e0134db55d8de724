----------------------------- MODULE StageExecutor -----------------------------
(***************************************************************************)
(* One GPU's run of a query's model operators: the admission scheduler     *)
(* (executor/admission.py, JoinAdmission and Borrowing), the loop that     *)
(* drives it over the KV arena (executor/stage_executor.py), and the       *)
(* retention applied between operators (retention.py, graph.py).           *)
(*                                                                         *)
(* Each operator asks its documents a sequence of stages.  Documents are   *)
(* numbered in sorted token order and are their own KV keys.  The code is  *)
(* one thread: pc says where in the loop it is, and a step is one queue    *)
(* entry, one reported group, or one call that may evict.  Nondeterminism  *)
(* is in the model's answers, in what a stage's requests ask of a document *)
(* that enters it, in which retained keys go first, and in the pass that   *)
(* raises.                                                                 *)
(*                                                                         *)
(* Left out: decoded answers and their branches (AnswerDecoding), stages   *)
(* that append to a document, checkpoint slots, and the halving of a chunk *)
(* whose temporary suffix pages do not fit: they are taken and freed while *)
(* the chunk is packed and run, and PlannedPagesFree says they are there.  *)
(***************************************************************************)
EXTENDS KVArena, SequencesExt, InOrder

CONSTANTS
    Plans,         \* plans a GPU may be given (see PlanRecord)
    StopWidth      \* documents of one group in flight

VARIABLES
    plan,    \* what every query on this GPU runs
    arena,   \* see KVArena
    query,   \* queries started on this GPU
    op,      \* the operator that runs
    pc,      \* where the loop is
    back,    \* where the loop goes on after reporting
    alive,   \* documents every operator so far let through
    sched,   \* JoinAdmission
    tree,    \* Borrowing
    chunk,   \* next_chunk's locals, then the groups of the planned chunk
    exec,    \* StageExecutor
    kv       \* ghost: the token prefix behind the KV each page holds

vars == <<plan, arena, query, op, pc, back, alive, sched, tree, chunk, exec, kv>>

None == 0
Queued == 0                          \* _stage -1
Done == -2                           \* _stage _DONE

\* What a stage's requests may answer for a document that enters it, and
\* whether the stage first decides the documents entering it together.
StageRecord == [requests : SUBSET {"ask", "DROP", "SKIP"}, prepare : BOOLEAN]

OpRecord(D) ==
    [docs   : SUBSET D,              \* the alias the operator reads
     join   : BOOLEAN,               \* retention is applied before it
     keep   : BOOLEAN,               \* keep_kv
     stages : Seq(StageRecord),
     limit  : Nat,                   \* 0 without a limit
     survival : 0 .. 100,            \* expected survivors, in percent
     extra  : Nat,                   \* rows past the prefix its pages cover
     frame  : Nat,                   \* rows of the frame before a first suffix
     suffix : Nat,                   \* rows of one suffix
     asks   : [D -> Seq(Nat)]]       \* suffixes a document asks, by stage

PlanRecord(p) ==
    LET D == DOMAIN p.text IN
    /\ p.text \in Seq(Seq(Nat))                    \* prefix tokens, sorted
    /\ D \subseteq Keys
    /\ p.ops \in Seq(OpRecord(D)) /\ Len(p.ops) > 0 \* the operators, in order
    /\ p.groups \in Seq(Nat) /\ Len(p.groups) \in {0, Len(p.text)} \* stop key groups
    /\ p.budget \in Nat                             \* tokens per forward pass
    /\ p.unified \in BOOLEAN          \* suffixes go to the document's own pages
    /\ HasSliding => p.unified
    /\ p.queries \in Nat \ {0}       \* bound: how often the GPU is given the plan
    /\ p.fails \in BOOLEAN            \* bound: whether a pass may raise
    /\ \A o \in DOMAIN p.ops :
          /\ 0 < p.ops[o].suffix /\ p.ops[o].frame + p.ops[o].suffix <= p.budget
          /\ p.ops[o].limit > 0 => Len(p.ops) = 1
          /\ Len(p.ops[o].stages) > 0 /\ p.ops[o].stages[1] = [requests |-> {"ask"}, prepare |-> FALSE]
          /\ \A d \in D : Len(p.ops[o].asks[d]) = Len(p.ops[o].stages)

ASSUME ExecutorAssumption ==
    /\ \A p \in Plans : PlanRecord(p)
    /\ StopWidth \in Nat \ {0}

Text == plan.text
Docs == DOMAIN Text
Ops == plan.ops
GroupOf == plan.groups
Budget == plan.budget
Unified == plan.unified

This == Ops[op]
Stages == DOMAIN This.stages
LastStage == Len(This.stages)
Length(d) == Len(Text[d])
Capacity(d) == Length(d) + This.extra

Least(S, default) == IF S = {} THEN default ELSE CHOOSE n \in S : \A m \in S : n <= m
Largest(S) == IF S = {} THEN 0 ELSE CHOOSE n \in S : \A m \in S : m <= n

--------------------------------------------------------------------------------
(* The prefix tree over the documents D (catalog/tokens.py, PrefixIndex).  *)

Common(d, e) == Largest({n \in 0 .. Length(d) : IsPrefix(SubSeq(Text[d], 1, n), Text[e])})

\* The document before d in sorted order.
Previous(D, d) == Largest({e \in D : e < d})

\* Whole pages shared with it; every document computes its final token.
TreeShared(D) ==
    [d \in Docs |->
        IF d \notin D \/ Previous(D, d) = None THEN 0
        ELSE (Least({Common(Previous(D, d), d), Bigger(0, Length(d) - 1)}, 0) \div PageTokens)
                 * PageTokens]

\* The first document from which on all share as many pages: the one the
\* climb from the predecessor, past ancestors that share as many, ends at.
TreeParent(D) ==
    LET shared == TreeShared(D)
        sharing(e, d) == \A f \in D : e < f /\ f <= d => shared[f] >= shared[d]
    IN  [d \in Docs |-> IF shared[d] = 0 THEN None
                       ELSE Least({e \in D : e < d /\ sharing(e, d)}, None)]

--------------------------------------------------------------------------------
(* An operator's prices.                                                   *)

Partners(d, j) == This.asks[d][j]

FirstCost(i) == This.suffix + IF i = 0 THEN This.frame ELSE 0

\* Temporary pages the unified path sets aside for one suffix.
SuffixPages(d) ==
    IF Unified THEN PageCost(((Length(d) + This.frame) % PageTokens) + This.suffix) ELSE 0

\* The partner run that fits room tokens and pages temporary pages.
Take(d, j, i, room, pages) ==
    LET frame == IF i = 0 THEN This.frame ELSE 0
        fit == {n \in 0 .. Partners(d, j) - i :
                   frame + n * This.suffix <= room /\ n * SuffixPages(d) <= pages}
        n == Largest(fit)
    IN  [end |-> i + n, tokens |-> frame + n * This.suffix, pages |-> n * SuffixPages(d)]

--------------------------------------------------------------------------------
(* An operator starts on the documents D: JoinAdmission is built.          *)

\* A document too long for a chunk or the arena settles unanswered, like
\* one with nothing to ask.
Oversized(d, resident) ==
    d \notin resident /\ \/ PageCost(Capacity(d)) > NumPages
                         \/ Length(d) + FirstCost(0) > Budget

Asked(D, resident) == {d \in D : Partners(d, 1) > 0 /\ ~Oversized(d, resident)}

\* A resident document's price is what growing it takes.
AdmissionCost(A, d) ==
    IF d \in Resident(A) THEN GrowthCost(A, d, Capacity(d)) ELSE PageCost(Capacity(d))

StartAdmission(A, D) ==
    LET resident == D \intersect Resident(A)
        asked == Asked(D, resident)
        carried == [d \in Docs |-> IF d \in resident THEN 0 ELSE Length(d)]
    IN  [pending  |-> Ascending(asked \intersect resident) \o Ascending(asked \ resident),
         ready    |-> <<>>,
         stage    |-> [d \in Docs |-> IF d \in asked THEN Queued ELSE Done],
         next     |-> [d \in Docs |-> 0],
         received |-> [d \in Docs |-> 0],
         cost     |-> [d \in Docs |-> IF d \in asked THEN AdmissionCost(A, d) ELSE 0],
         carried  |-> carried,
         fewest   |-> Least({Bigger(0, carried[d] - TreeShared(D)[d]) + FirstCost(0) :
                                d \in asked}, Budget + 1),
         reserve  |-> Largest({SuffixPages(d) : d \in asked}),
         zero     |-> Cardinality({d \in asked : AdmissionCost(A, d) = 0}),
         settled  |-> Ascending(D \ asked),
         skipped  |-> <<>>,
         waiting  |-> <<>>,
         flight   |-> 0,
         won      |-> {},
         blocked  |-> 0,
         busy     |-> [g \in Range(GroupOf) |-> 0],
         ended    |-> {}]

\* Residents detach from the tree; a document never asked lends nothing.
StartBorrowing(A, D) ==
    LET fresh == D \ Resident(A) IN
    [parent   |-> [d \in Docs |-> IF d \in fresh THEN TreeParent(D)[d] ELSE None],
     shared   |-> [d \in Docs |-> IF d \in fresh THEN TreeShared(D)[d] ELSE 0],
     admitted |-> {},
     skipped  |-> D \ Asked(D, D \intersect Resident(A)),
     chosen   |-> [d \in Docs |-> 0]]

StartExecutor(T) ==
    LET children(d) == {e \in Docs : T.parent[e] = d} IN
    [outstanding |-> <<>>,
     borrowers   |-> [d \in Docs |-> Cardinality(children(d))],
     lowest      |-> [d \in Docs |-> Least({T.shared[e] : e \in children(d)}, 0)],
     lenders     |-> {d \in Docs : children(d) # {}},
     holding     |-> {},
     reserved    |-> {}]

NoChunk ==
    [groups |-> <<>>, room |-> 0, pages |-> 0, temporary |-> 0, left |-> 0,
     blocked |-> FALSE, held |-> <<>>, deferred |-> <<>>, continued |-> <<>>,
     admitted |-> {}]

\* A variant that leaves them evictable, for ReadsOwnPrefix.
PinAllOnly(A, V) == [A EXCEPT !.pinned = @ \union V]

\* Every document the operator reads that is resident is pinned.
PinAll(A, V) ==
    [A EXCEPT !.pinned = @ \union V,
              !.retained = @ \ V,
              !.size = [k \in Keys |-> IF k \in V THEN 0 ELSE @[k]]]

Start(A, D) ==
    /\ arena' = PinAll(A, D \intersect Resident(A))
    /\ sched' = StartAdmission(A, D)
    /\ tree' = StartBorrowing(A, D)
    /\ exec' = StartExecutor(StartBorrowing(A, D))
    /\ chunk' = NoChunk
    /\ pc' = "top"
    /\ back' = "none"

\* retention.py, before a join: expired prefixes go, and the cap applies.
Expired(A) ==
    {d \in A.retained : d \notin alive \/ \A o \in op .. Len(Ops) : d \notin Ops[o].docs}

AppliedRetention ==
    LET fresh == FreeAll(arena, Expired(arena))
        priced == [fresh EXCEPT !.size = [k \in Keys |->
                      IF k \in fresh.retained THEN Cardinality(SoleHeld(fresh.full, k)) ELSE 0]]
    IN  IF This.join
        THEN EvictRetained(priced, Bigger(0, RetainedPages(priced) - CapPages))
        ELSE {arena}

\* _register raises when a document and one suffix exceed the arena.
SuffixTooLarge(D, resident) ==
    \E d \in Asked(D, resident) : PageCost(Capacity(d)) + SuffixPages(d) > NumPages

StartOperator ==
    /\ pc = "start"
    /\ \E A \in AppliedRetention :
          LET D == This.docs \intersect alive IN
          IF Unified /\ SuffixTooLarge(D, D \intersect Resident(A))
          THEN /\ arena' = PinAll(A, D \intersect Resident(A))
               /\ pc' = "failed"
               /\ UNCHANGED <<back, sched, tree, chunk, exec>>
          ELSE Start(A, D)
    /\ UNCHANGED <<plan, query, op, alive, kv>>

--------------------------------------------------------------------------------
(* The top of the loop (StageExecutor.run).                                *)

LimitReached == This.limit > 0 /\ Cardinality(sched.won) >= This.limit

RunDone ==
    /\ sched.flight = 0
    /\ LimitReached \/ /\ sched.ready = <<>>
                       /\ \A d \in Range(sched.pending) : sched.stage[d] = Done

\* Documents settled without a chunk are freed; then the oldest answers
\* are reported once two passes are out.
Top ==
    /\ pc = "top"
    /\ arena' = FreeAll(arena, Range(sched.settled) \intersect Resident(arena))
    /\ sched' = [sched EXCEPT !.settled = <<>>]
    /\ IF RunDone THEN pc' = "end" /\ UNCHANGED back
       ELSE IF Len(exec.outstanding) > 1 THEN pc' = "report" /\ back' = "evict"
       ELSE pc' = "evict" /\ UNCHANGED back
    /\ UNCHANGED <<plan, query, op, alive, tree, chunk, exec, kv>>

\* Retained KV makes room for what the last chunk could not place, and the
\* next chunk starts empty.
MakeRoom ==
    /\ pc = "evict"
    /\ arena' \in IF sched.blocked > 0 THEN EvictRetained(arena, sched.blocked) ELSE {arena}
    /\ sched' = [sched EXCEPT !.blocked = 0]
    /\ chunk' = [NoChunk EXCEPT !.room = Budget,
                                !.pages = FreePages(arena'),
                                !.left = Len(sched.ready)]
    /\ pc' = IF LimitReached THEN "empty" ELSE "ready"
    /\ UNCHANGED <<plan, query, op, back, alive, tree, exec, kv>>

--------------------------------------------------------------------------------
(* next_chunk: placed documents first.                                     *)

Group(d, j, start, end, carried) ==
    [doc |-> d, stage |-> j, start |-> start, end |-> end, carried |-> carried]

\* A variant that forgets the temporary pages, for PlannedPagesFree.
LaunchTokens(C, g, tokens, pages, temporary) ==
    [C EXCEPT !.groups = Append(@, g),
              !.room = @ - tokens,
              !.pages = @ - pages,
              !.temporary = @ + temporary,
              !.continued = IF g.end < Partners(g.doc, g.stage) THEN Append(@, g.doc) ELSE @]

\* _launch, with the room and pages the group takes.
Launch(C, g, tokens, pages, temporary) ==
    [C EXCEPT !.groups = Append(@, g),
              !.room = @ - tokens,
              !.pages = @ - pages - temporary,
              !.temporary = @ + temporary,
              !.continued = IF g.end < Partners(g.doc, g.stage) THEN Append(@, g.doc) ELSE @]

TakeReady ==
    /\ pc = "ready" /\ chunk.left > 0 /\ chunk.room > 0
    /\ LET d == Head(sched.ready)
           j == sched.stage[d]
           i == sched.next[d]
           take == Take(d, j, i, chunk.room, chunk.pages)
           popped == [sched EXCEPT !.ready = Tail(@)]
           one == [chunk EXCEPT !.left = @ - 1]
       IN  IF FirstCost(i) > chunk.room
           THEN /\ sched' = popped
                /\ chunk' = [one EXCEPT !.deferred = Append(@, d)]
                /\ UNCHANGED pc
           ELSE IF take.end = i
           THEN /\ sched' = [sched EXCEPT !.blocked = SuffixPages(d) - chunk.pages]
                /\ pc' = "admit"
                /\ UNCHANGED chunk
           ELSE /\ sched' = [popped EXCEPT !.next[d] = take.end, !.flight = @ + 1]
                /\ chunk' = Launch(one, Group(d, j, i, take.end, FALSE),
                                   take.tokens, 0, take.pages)
                /\ UNCHANGED pc
    /\ UNCHANGED <<arena, plan, query, op, back, alive, tree, exec, kv>>

ReadyTaken ==
    /\ pc = "ready" /\ (chunk.left = 0 \/ chunk.room = 0)
    /\ pc' = "admit"
    /\ UNCHANGED <<arena, plan, query, op, back, alive, sched, tree, chunk, exec, kv>>

--------------------------------------------------------------------------------
(* next_chunk: queued documents, in queue order.                           *)

\* Borrowing.decide: wait while the parent is queued, borrow what the arena
\* can serve, or pack the whole document.
Waits(d) ==
    /\ tree.parent[d] # None /\ tree.parent[d] \notin tree.skipped
    /\ tree.parent[d] \notin tree.admitted

Borrowed(d) ==
    IF /\ tree.parent[d] # None /\ tree.parent[d] \notin tree.skipped
       /\ CanBorrow(arena, tree.parent[d], tree.shared[d])
    THEN tree.shared[d] ELSE 0

Need(d) ==
    IF Borrowed(d) = 0 THEN sched.cost[d] ELSE PageCost(Capacity(d) - Borrowed(d))

Required(d) == Need(d) + Bigger(0, sched.reserve - chunk.temporary)

Packed(d) == IF Borrowed(d) = 0 THEN sched.carried[d] ELSE Length(d) - Borrowed(d)

FirstTake(d) ==
    Take(d, 1, 0, chunk.room - Packed(d), chunk.pages - Need(d))

\* A variant that counts only settled documents, for OneSurvivorPerGroup.
GroupEnded(d) == GroupOf # <<>> /\ GroupOf[d] \in sched.ended

GroupFull(d) == GroupOf # <<>> /\ sched.busy[GroupOf[d]] >= StopWidth

\* A variant that counts the settled ones too, for NeverStuck.
Ever == tree.admitted

\* Admitted and not yet settled.
InRun == {d \in Docs : sched.stage[d] \in Stages}

\* Under a limit, those in flight are expected to reach it.
Paced ==
    This.limit > 0
        /\ 100 * Cardinality(sched.won) + This.survival * Cardinality(InRun) >= 100 * This.limit

Popping(d) ==
    /\ pc = "admit" /\ chunk.room >= sched.fewest /\ ~Paced
    /\ sched.pending # <<>> /\ d = Head(sched.pending)

Popped == [sched EXCEPT !.pending = Tail(@)]
HeldBack(d) == [chunk EXCEPT !.held = Append(@, d)]

\* Skipped by its group's survivor while it was queued.
PopDead(d) ==
    /\ Popping(d) /\ sched.stage[d] = Done
    /\ sched' = Popped
    /\ UNCHANGED <<arena, plan, query, op, pc, back, alive, tree, chunk, exec, kv>>

Live(d) == Popping(d) /\ sched.stage[d] # Done

\* Its group has enough in flight, or its parent is still queued.
HoldTurn(d) ==
    /\ Live(d) /\ (GroupFull(d) \/ Waits(d))
    /\ sched' = Popped
    /\ chunk' = HeldBack(d)
    /\ UNCHANGED <<arena, plan, query, op, pc, back, alive, tree, exec, kv>>

Eligible(d) == Live(d) /\ ~GroupFull(d) /\ ~Waits(d)

\* Once a document waits for pages, only those that need none go on.
PagesShort(d) == (chunk.blocked /\ Need(d) > 0) \/ Required(d) > chunk.pages

HoldForPages(d) ==
    /\ Eligible(d) /\ PagesShort(d)
    /\ sched' = [Popped EXCEPT !.blocked =
                    IF chunk.blocked /\ Need(d) > 0 THEN @ ELSE Required(d) - chunk.pages]
    /\ chunk' = [HeldBack(d) EXCEPT !.blocked = TRUE]
    /\ pc' = IF sched.zero = 0 THEN "close" ELSE "admit"
    /\ UNCHANGED <<arena, plan, query, op, back, alive, tree, exec, kv>>

NoRoom(d) == Packed(d) + FirstCost(0) > chunk.room

HoldForRoom(d) ==
    /\ Eligible(d) /\ ~PagesShort(d) /\ NoRoom(d)
    /\ sched' = Popped
    /\ chunk' = HeldBack(d)
    /\ UNCHANGED <<arena, plan, query, op, pc, back, alive, tree, exec, kv>>

HoldForSuffix(d) ==
    /\ Eligible(d) /\ ~PagesShort(d) /\ ~NoRoom(d) /\ FirstTake(d).end = 0
    /\ sched' = [Popped EXCEPT !.blocked = Need(d) + SuffixPages(d) - chunk.pages]
    /\ chunk' = HeldBack(d)
    /\ pc' = "close"
    /\ UNCHANGED <<arena, plan, query, op, back, alive, tree, exec, kv>>

\* StageExecutor._reserved: a borrower reads its parent until its own pass,
\* and a lender is held for its borrowers from its admission on.
Reserved(A, d) ==
    LET read == IF Borrowed(d) > 0 THEN ReadState(A, {tree.parent[d]}) ELSE A IN
    IF d \notin exec.holding /\ exec.borrowers[d] > 0
    THEN KeepWindow(HoldKey(read, d, exec.borrowers[d]), d, exec.lowest[d])
    ELSE read

Busier(d) ==
    IF GroupOf = <<>> THEN sched.busy ELSE [sched.busy EXCEPT ![GroupOf[d]] = @ + 1]

AdmitReserved(d, A) ==
    LET take == FirstTake(d) IN
    /\ arena' = Reserved(A, d)
    /\ chunk' = [Launch(chunk, Group(d, 1, 0, take.end, Packed(d) > 0),
                        Packed(d) + take.tokens, Need(d), take.pages)
                    EXCEPT !.admitted = @ \union {d}]
    /\ sched' = [Popped EXCEPT !.stage[d] = 1, !.next[d] = take.end, !.flight = @ + 1,
                    !.zero = IF sched.cost[d] = 0 THEN @ - 1 ELSE @,
                    !.busy = Busier(d)]
    /\ tree' = [tree EXCEPT !.admitted = @ \union {d}, !.chosen[d] = Borrowed(d)]
    /\ exec' = [exec EXCEPT
                    !.holding = IF exec.borrowers[d] > 0 THEN @ \union {d} ELSE @,
                    !.reserved = IF Borrowed(d) > 0 THEN @ \union {d} ELSE @]
    /\ UNCHANGED pc

\* The arena has the pages, evicting retained keys if it must; when it has
\* not, the chunk closes without the document.
AdmitNext(d) ==
    /\ Eligible(d) /\ ~PagesShort(d) /\ ~NoRoom(d) /\ FirstTake(d).end > 0
    /\ \E out \in Reserve(arena, d, Length(d), Capacity(d), tree.parent[d], Borrowed(d)) :
           IF out.ok THEN AdmitReserved(d, out.arena)
           ELSE /\ arena' = out.arena
                /\ sched' = Popped
                /\ chunk' = HeldBack(d)
                /\ pc' = "close"
                /\ UNCHANGED <<tree, exec>>
    /\ UNCHANGED <<plan, query, op, back, alive, kv>>

\* A variant that drops what it held back, for NoDocumentLost.
CloseDropping ==
    /\ \/ pc = "close"
       \/ pc = "admit" /\ (sched.pending = <<>> \/ chunk.room < sched.fewest \/ Paced)
    /\ sched' = [sched EXCEPT !.ready = chunk.deferred \o chunk.continued \o @]
    /\ chunk' = [chunk EXCEPT !.held = <<>>, !.deferred = <<>>, !.continued = <<>>]
    /\ pc' = IF chunk.groups = <<>> THEN "empty" ELSE "pass"
    /\ UNCHANGED <<arena, plan, query, op, back, alive, tree, exec, kv>>

\* What was held back keeps its place in both queues.
CloseChunk ==
    /\ \/ pc = "close"
       \/ pc = "admit" /\ (sched.pending = <<>> \/ chunk.room < sched.fewest \/ Paced)
    /\ sched' = [sched EXCEPT
                    !.pending = chunk.held \o @,
                    !.ready = chunk.deferred \o chunk.continued \o @]
    /\ chunk' = [chunk EXCEPT !.held = <<>>, !.deferred = <<>>, !.continued = <<>>]
    /\ pc' = IF chunk.groups = <<>> THEN "empty" ELSE "pass"
    /\ UNCHANGED <<arena, plan, query, op, back, alive, tree, exec, kv>>

\* A variant without the last resort, for NeverStuck.
NothingMore ==
    /\ pc = "empty"
    /\ pc' = IF exec.outstanding # <<>> THEN "report" ELSE "stuck"
    /\ back' = "top"
    /\ UNCHANGED <<arena, plan, query, op, alive, sched, tree, chunk, exec, kv>>

\* Nothing buildable: answers first, then retained KV, then the holds of
\* freed parents; with none of them the run raises an AssertionError.
Nothing ==
    /\ pc = "empty"
    /\ IF exec.outstanding # <<>>
       THEN pc' = "report" /\ back' = "top" /\ UNCHANGED arena
       ELSE IF sched.blocked > 0 /\ Evictable(arena) # {}
       THEN arena' \in EvictRetained(arena, sched.blocked) /\ pc' = "top" /\ UNCHANGED back
       ELSE /\ arena' = DropHolds(arena, exec.lenders)
            /\ pc' = IF \E d \in exec.lenders : arena.held[d] > 0 THEN "top" ELSE "stuck"
            /\ UNCHANGED back
    /\ UNCHANGED <<plan, query, op, alive, sched, tree, chunk, exec, kv>>

--------------------------------------------------------------------------------
(* A pass: its rows write KV into their documents' pages, then read it.    *)

Prefix(d, rows) == SubSeq(Text[d], 1, IF rows < Length(d) THEN rows ELSE Length(d))

\* The rows page i of a table that starts at row start ends before.
RowsThrough(start, i) == start + i * PageTokens

\* Pages the chunk writes in a pool: the packed rows of its fresh documents,
\* from the borrowed ones on.  start is each table's first row.
Written(P, start) ==
    LET fresh == {g \in Range(chunk.groups) : g.carried}
        place == {x \in fresh \X (1 .. Cardinality(DOMAIN P.holds)) :
                     /\ x[2] \in DOMAIN TablePages(P, x[1].doc)
                     /\ RowsThrough(start[x[1].doc], x[2]) > tree.chosen[x[1].doc]
                     /\ RowsThrough(start[x[1].doc], x[2] - 1) < Length(x[1].doc)}
    IN  {<<TablePages(P, x[1].doc)[x[2]], x[1].doc, x[2]>> : x \in place}

AfterPass(content, P, start) ==
    LET at == Written(P, start) IN
    [p \in DOMAIN content |->
        IF \E x \in at : x[1] = p
        THEN LET x == CHOOSE x \in at : x[1] = p
             IN  Prefix(x[2], RowsThrough(start[x[2]], x[3]))
        ELSE content[p]]

KVAfter ==
    [full  |-> AfterPass(kv.full, arena.full, [d \in Docs |-> 0]),
     slide |-> AfterPass(kv.slide, arena.slide, arena.start)]

Fresh == {g.doc : g \in {h \in Range(chunk.groups) : h.carried}}

\* The chunk runs and its fresh documents trim their windows; the answers
\* of earlier passes are decided while it runs.
RunPass ==
    /\ pc = "pass"
    /\ kv' = KVAfter
    /\ arena' = TrimWindows(arena, Fresh)
    /\ IF exec.outstanding = <<>> THEN pc' = "submit" /\ UNCHANGED back
       ELSE pc' = "report" /\ back' = "submit"
    /\ UNCHANGED <<plan, query, op, alive, sched, tree, chunk, exec>>

\* Building, running or deciding raises: the query fails, and the arena
\* stays as the exception leaves it.
PassRaises ==
    /\ plan.fails /\ pc \in {"pass", "report"}
    /\ pc' = "failed"
    /\ UNCHANGED <<arena, plan, query, op, back, alive, sched, tree, chunk, exec, kv>>

\* A launched group: its borrower lets go of the parent's hold and reading.
LetGo(A, g) ==
    LET parent == tree.parent[g.doc]
        released == IF g.carried /\ g.start = 0 /\ parent # None
                    THEN Release(A, parent) ELSE A
    IN  IF g.doc \in exec.reserved THEN DoneReading(released, parent) ELSE released

LetGoAll ==
    LET after[n \in 0 .. Len(chunk.groups)] ==
            IF n = 0 THEN arena ELSE LetGo(after[n - 1], chunk.groups[n])
    IN  after[Len(chunk.groups)]

Submit ==
    /\ pc = "submit"
    /\ arena' = LetGoAll
    /\ exec' = [exec EXCEPT !.outstanding = Append(@, chunk.groups),
                            !.reserved = @ \ {g.doc : g \in Range(chunk.groups)}]
    /\ chunk' = NoChunk
    /\ pc' = "top"
    /\ UNCHANGED <<plan, query, op, back, alive, sched, tree, kv>>

--------------------------------------------------------------------------------
(* Answers are reported in launch order, one group a step.                 *)

\* _settle_group: the group's next document may start, or, once one
\* survived, its queued documents are skipped.
SettleGroup(S, d, survived) ==
    LET g == GroupOf[d]
        less == [S EXCEPT !.busy[g] = Bigger(0, @ - 1)]
        rest == {e \in Range(S.pending) : S.stage[e] = Queued /\ GroupOf[e] = g}
    IN  IF GroupOf = <<>> THEN S
        ELSE IF ~survived \/ g \in S.ended THEN less
        ELSE [less EXCEPT !.ended = @ \union {g},
                          !.skipped = @ \o Ascending(rest),
                          !.stage = [e \in Docs |-> IF e \in rest THEN Done ELSE @[e]],
                          !.zero = @ - Cardinality({e \in rest : S.cost[e] = 0})]

\* A settled document's KV is retained for a later operator or freed.
Settle(d, survived) ==
    IF d \notin Resident(arena) THEN {arena}
    ELSE IF survived /\ This.keep THEN Retain(arena, d, Length(d))
    ELSE {FreeKey(arena, d)}

Reporting == pc = "report" /\ Head(exec.outstanding) # <<>>
Reported == Head(Head(exec.outstanding))

\* A variant that loses count of the groups in flight, for QueryEnds.
ReceivedUncounted == [sched EXCEPT !.received[Reported.doc] = Reported.end]

Received ==
    [sched EXCEPT !.flight = @ - 1, !.received[Reported.doc] = Reported.end]

GroupReported ==
    exec' = [exec EXCEPT !.outstanding = <<Tail(Head(@))>> \o Tail(@)]

Complete(g) == g.end = Partners(g.doc, g.stage)

\* Part of a document's stage was answered.
ReportPart ==
    /\ Reporting /\ ~Complete(Reported)
    /\ sched' = Received
    /\ GroupReported
    /\ UNCHANGED <<arena, plan, query, op, pc, back, alive, tree, chunk, kv>>

\* Where a document ends up, and whether it waits there for the stage to
\* decide it.
At(j, waits) == [stage |-> j, waits |-> waits, survived |-> FALSE]
Out(survived) == [stage |-> Done, waits |-> FALSE, survived |-> survived]

\* _enter: from stage j on, the first stage that does not pass the document
\* on asks it, drops it, or, unless it has decided it, lets it wait.  One
\* with nothing to ask leaves.
Enter(d, j, decided) ==
    LET decides(k) == This.stages[k].prepare => decided /\ k = j
        may(k, r) == decides(k) /\ r \in This.stages[k].requests
        asks(k) == may(k, "ask") /\ Partners(d, k) > 0
        drops(k) == may(k, "DROP") \/ (may(k, "ask") /\ Partners(d, k) = 0)
        reached == {k \in j .. LastStage : \A i \in j .. k - 1 : may(i, "SKIP")}
    IN  {At(k, TRUE) : k \in {n \in reached : ~decides(n)}}
            \union {At(k, FALSE) : k \in {n \in reached : asks(n)}}
            \union {Out(FALSE) : k \in {n \in reached : drops(n)}}
            \union {Out(TRUE) : k \in {n \in reached : n = LastStage /\ may(n, "SKIP")}}

\* A document that leaves gives up its place in the queue.
Moved(S, d, to) ==
    LET moved == [S EXCEPT
                    !.stage[d] = to.stage, !.next[d] = 0, !.received[d] = 0,
                    !.waiting = IF to.waits THEN Append(@, d) ELSE @,
                    !.won = IF to.survived THEN @ \union {d} ELSE @]
    IN  IF to.stage # Done
        THEN sched' = moved /\ UNCHANGED arena
        ELSE /\ sched' = SettleGroup([moved EXCEPT !.ready = Sifted(@, Range(@) \ {d})],
                                     d, to.survived)
             /\ arena' \in Settle(d, to.survived)

\* A variant that starts the next stage where the last one ended, for
\* AnswersInOrder.
AdvanceOnly ==
    /\ Reporting /\ Complete(Reported) /\ Reported.stage < LastStage
    /\ LET d == Reported.doc IN
       /\ Partners(d, Reported.stage + 1) > 0
       /\ sched' = [Received EXCEPT !.stage[d] = @ + 1, !.next[d] = 0,
                                    !.ready = Append(@, d)]
    /\ GroupReported
    /\ UNCHANGED <<arena, plan, query, op, pc, back, alive, tree, chunk, kv>>

\* The whole stage was answered TRUE: on to the next one that asks.
ReportAdvance ==
    /\ Reporting /\ Complete(Reported) /\ Reported.stage < LastStage
    /\ LET d == Reported.doc IN
       \E to \in Enter(d, Reported.stage + 1, FALSE) :
          Moved([Received EXCEPT !.ready = Append(@, d)], d, to)
    /\ GroupReported
    /\ UNCHANGED <<plan, query, op, pc, back, alive, tree, chunk, kv>>

\* The document settles: answered FALSE, or TRUE at its last stage, which
\* it survives.
ReportSettle ==
    /\ Reporting /\ Complete(Reported)
    /\ \E survived \in IF Reported.stage = LastStage THEN BOOLEAN ELSE {FALSE} :
           Moved(Received, Reported.doc, Out(survived))
    /\ GroupReported
    /\ UNCHANGED <<plan, query, op, pc, back, alive, tree, chunk, kv>>

\* decide_waiting, once a pass is reported: stages decide the documents
\* that wait at them, which may wait again at a later one.
DecideWaiting ==
    /\ pc = "report" /\ Head(exec.outstanding) = <<>> /\ sched.waiting # <<>>
    /\ LET d == Head(sched.waiting) IN
       \E to \in Enter(d, sched.stage[d], TRUE) :
          Moved([sched EXCEPT !.waiting = Tail(@)], d, to)
    /\ UNCHANGED <<plan, query, op, pc, back, alive, tree, chunk, exec, kv>>

\* A variant that keeps the hold for a skipped document, for
\* HoldsMatchQueue.
SkipHeld(A, d) == IF d \in Resident(A) THEN FreeKey(A, d) ELSE A

\* _release_skipped: a skipped document's hold on its parent goes, or is
\* not taken when the parent is still queued.
SkipOne(A, d) ==
    LET parent == tree.parent[d]
        released == IF parent \in tree.admitted THEN Release(A, parent) ELSE A
    IN  IF d \in Resident(released) THEN FreeKey(released, d) ELSE released

SkipAll ==
    LET after[n \in 0 .. Len(sched.skipped)] ==
            IF n = 0 THEN arena ELSE SkipOne(after[n - 1], sched.skipped[n])
    IN  after[Len(sched.skipped)]

\* The pass is off the list.
PassReported ==
    /\ pc = "report" /\ Head(exec.outstanding) = <<>>
    /\ LET skipped == Range(sched.skipped)
           gone(p) == {d \in skipped : tree.parent[d] = p}
       IN  /\ arena' = SkipAll
           /\ tree' = [tree EXCEPT !.skipped = @ \union skipped]
           /\ exec' = [exec EXCEPT
                          !.outstanding = Tail(@),
                          !.borrowers = [p \in Docs |->
                              IF p \in tree.admitted THEN @[p]
                              ELSE @[p] - Cardinality(gone(p))]]
    /\ sched' = [sched EXCEPT !.skipped = <<>>]
    /\ pc' = IF back = "submit" /\ Len(exec.outstanding) > 1 THEN "report" ELSE back
    /\ UNCHANGED <<plan, query, op, back, alive, chunk, kv>>

EntryReported == sched.waiting = <<>> /\ PassReported

--------------------------------------------------------------------------------
(* An operator ends, and the query's next one starts.                      *)

\* A variant that leaves the placed documents, for EndsClean.
EndUndrained ==
    /\ pc = "end"
    /\ arena' = DropHolds(arena, exec.lenders)
    /\ alive' = (alive \ This.docs) \union sched.won
    /\ pc' = "between"
    /\ UNCHANGED <<plan, query, op, back, sched, tree, chunk, exec, kv>>

\* A limit leaves documents queued: drain frees those placed.  Holds left
\* over are dropped.
End ==
    /\ pc = "end"
    /\ arena' = DropHolds(FreeAll(arena, Range(sched.ready) \intersect Resident(arena)),
                          exec.lenders)
    /\ alive' = (alive \ This.docs) \union sched.won
    /\ pc' = "between"
    /\ UNCHANGED <<plan, query, op, back, sched, tree, chunk, exec, kv>>

NextOperator ==
    /\ pc = "between" /\ op < Len(Ops)
    /\ op' = op + 1
    /\ pc' = "start"
    /\ UNCHANGED <<arena, query, plan, back, alive, sched, tree, chunk, exec, kv>>

\* graph.py: a query's end frees what is resident.
EndQuery ==
    /\ pc = "between" /\ op = Len(Ops)
    /\ arena' = FreeAll(arena, Resident(arena))
    /\ pc' = "done"
    /\ UNCHANGED <<plan, query, op, back, alive, sched, tree, chunk, exec, kv>>

\* worker.py bind_query: the arena is resized, which refuses an arena that
\* still holds keys.  A GPU that refused was released, so the query after
\* loads it again.
NextQuery ==
    /\ pc \in {"done", "failed", "stuck", "refused"} /\ query < plan.queries
    /\ query' = query + 1
    /\ LET emptied == IF pc = "refused" THEN EmptyArena ELSE FreeResident(arena) IN
       /\ arena' = emptied
       /\ pc' = IF Resident(emptied) = {} THEN "start" ELSE "refused"
    /\ op' = 1
    /\ alive' = Docs
    /\ UNCHANGED <<plan, back, sched, tree, chunk, exec, kv>>

--------------------------------------------------------------------------------

\* The last query has ended.
Resting == pc \in {"done", "failed", "stuck", "refused"} /\ query = plan.queries
Rest == Resting /\ UNCHANGED vars

Init ==
    /\ plan \in Plans
    /\ arena = EmptyArena
    /\ query = 1 /\ op = 1 /\ pc = "start" /\ back = "none" /\ alive = Docs
    /\ sched = StartAdmission(EmptyArena, {})
    /\ tree = StartBorrowing(EmptyArena, {})
    /\ chunk = NoChunk
    /\ exec = StartExecutor(StartBorrowing(EmptyArena, {}))
    /\ kv = [full |-> [p \in 0 .. NumPages - 1 |-> <<>>],
             slide |-> [p \in 0 .. NumSliding - 1 |-> <<>>]]

Admission(d) ==
    PopDead(d) \/ HoldTurn(d) \/ HoldForPages(d) \/ HoldForRoom(d) \/ HoldForSuffix(d)
        \/ AdmitNext(d)

Next ==
    \/ StartOperator \/ Top \/ MakeRoom \/ TakeReady \/ ReadyTaken
    \/ (\E d \in Docs : Admission(d))
    \/ CloseChunk \/ Nothing \/ RunPass \/ PassRaises \/ Submit
    \/ ReportPart \/ ReportAdvance \/ ReportSettle \/ DecideWaiting \/ EntryReported
    \/ End \/ NextOperator \/ EndQuery \/ NextQuery \/ Rest

\* The executor is one thread: it goes on until it rests.  This is
\* WF_vars(Next) as long as a step is possible wherever the thread does not
\* rest, which the runs check as the absence of deadlock.
GoesOn == []<>Resting \/ []<><<TRUE>>_vars

Spec == Init /\ [][Next]_vars /\ GoesOn

--------------------------------------------------------------------------------
(* Properties.                                                             *)

Groups == {x \in (DOMAIN exec.outstanding) \X (1 .. Len(Text)) :
              x[2] \in DOMAIN exec.outstanding[x[1]]}

\* Whatever the scheduler admits, evicts, borrows, settles and keeps, every
\* page of the arena stays accounted for, and tables that share a page agree
\* on its rows (arena.py, pages.py under stage_executor.py run).
\* A free put off is owed only while something keeps the key, and happens
\* with the last release or reading (arena.py release, done_reading).
ArenaSound ==
    /\ Accounted(arena) /\ RowsAligned(arena) /\ Consistent(arena)
    /\ arena.deferred \subseteq Kept(arena)

\* A pass computes a document from KV of its own tokens only: each page it
\* reads of the prefix, borrowed, kept from an earlier operator or written
\* in the same pass, holds the KV of that very prefix; and the sliding pages
\* reach back a whole window (stage_executor.py _reserve, arena.py
\* _borrow_plan, trim_window).
ReadsOwnPrefix ==
    pc = "pass" =>
        \A g \in Range(chunk.groups) :
            LET d == g.doc
                first == IF g.carried THEN tree.chosen[d] ELSE Length(d)
                low == Bigger(0, first - Window)
                full == TablePages(arena.full, d)
                slide == TablePages(arena.slide, d)
                start == arena.start[d]
            IN  /\ d \in Resident(arena)
                /\ RowsThrough(0, Len(full)) >= Length(d)
                /\ \A i \in DOMAIN full :
                      RowsThrough(0, i - 1) < Length(d)
                          => KVAfter.full[full[i]] = Prefix(d, RowsThrough(0, i))
                /\ HasSliding =>
                      /\ start <= low
                      /\ RowsThrough(start, Len(slide)) >= Length(d)
                      /\ \A i \in DOMAIN slide :
                            RowsThrough(start, i) > low /\ RowsThrough(start, i - 1) < Length(d)
                                => KVAfter.slide[slide[i]] = Prefix(d, RowsThrough(start, i))

\* A held parent is held for exactly the borrowers that may still come:
\* those not yet packed, and those that settled without a chunk
\* (stage_executor.py _reserved, run, _release_skipped).
HoldsMatchQueue ==
    pc = "top" =>
        \A p \in Docs :
            arena.held[p] > 0 =>
                arena.held[p] = Cardinality({d \in Docs : /\ tree.parent[d] = p
                                                          /\ d \notin tree.admitted
                                                          /\ \/ d \notin tree.skipped
                                                             \/ Partners(d, 1) = 0
                                                             \/ Oversized(d, {})})

\* A document's answers arrive in partner order, for the stage it is at
\* (admission.py report raises otherwise), and no pass asks a document that
\* its stage has not decided (decide_waiting).
AnswersInOrder ==
    /\ \A x \in Groups :
          LET g == exec.outstanding[x[1]][x[2]]
              earlier == {y \in Groups : /\ exec.outstanding[y[1]][y[2]].doc = g.doc
                                         /\ \/ y[1] < x[1]
                                            \/ y[1] = x[1] /\ y[2] < x[2]}
          IN  /\ g.stage = sched.stage[g.doc]
              /\ g.end <= sched.next[g.doc]
              /\ g.start = Largest({sched.received[g.doc]}
                              \union {exec.outstanding[y[1]][y[2]].end : y \in earlier})
    /\ pc = "pass" => {g.doc : g \in Range(chunk.groups)} \intersect Range(sched.waiting) = {}

\* Between operators nothing is held, read or owed, and what is resident is
\* evictable; after a query the arena is empty (stage_executor.py run,
\* graph.py execute_single_graph).
EndsClean ==
    /\ pc = "between" => /\ \A k \in Keys : arena.held[k] = 0 /\ arena.reading[k] = 0
                         /\ arena.deferred = {} /\ Resident(arena) = arena.retained
    /\ pc = "done" => Resident(arena) = {} /\ FreeCount(arena.full) = NumPages

\* An operator ends with every document asked, settled without a chunk, or
\* skipped by its group's survivor, unless its limit was reached; none is
\* lost in the queues (admission.py next_chunk, decide_waiting, done).
NoDocumentLost ==
    pc = "between" /\ ~LimitReached =>
        /\ \A d \in Docs : sched.stage[d] = Done
        /\ \A d \in sched.won : d \in tree.admitted
        /\ tree.admitted \intersect tree.skipped = {}

\* One document of a stop key group survives, when one is asked at a time
\* (operators/filter.py stop_groups, admission.py _settle_group).
OneSurvivorPerGroup ==
    StopWidth = 1 /\ GroupOf # <<>> =>
        \A d, e \in sched.won : GroupOf[d] = GroupOf[e] => d = e

\* The pages a chunk is planned with are there: what the scheduler still
\* counts as free, and the temporary pages it set aside, are free in the
\* arena (admission.py next_chunk against arena.py free_pages).
PlannedPagesFree ==
    pc \in {"ready", "admit", "close", "pass"} =>
        chunk.pages + chunk.temporary <= FreePages(arena)

\* The loop's last resort always finds something to let go of
\* (stage_executor.py run, "nothing buildable and nothing in flight").
NeverStuck == pc # "stuck"

\* Every query that starts ends.
QueryEnds == pc = "start" ~> pc \in {"done", "failed"}

--------------------------------------------------------------------------------
(* What a comment says and the code does not keep: refuted by a run.       *)

\* "free_resident frees every resident key first" (arena.py resize): the
\* next query always starts on an empty arena, also after a query failed
\* with borrowers in its chunk.
EveryQueryStarts == pc # "refused"

================================================================================
