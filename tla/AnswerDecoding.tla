---------------------------- MODULE AnswerDecoding ----------------------------
(***************************************************************************)
(* Answers decoded token by token inside the stage executor's loop: the    *)
(* map decoder (executor/map_decoder.py), the growth, eviction and         *)
(* recomputation of answers (executor/stage_executor.py), the admission    *)
(* that keeps pages for them (executor/answer_admission.py) and the        *)
(* scheduler's queues (executor/admission.py), over the KV arena.          *)
(*                                                                         *)
(* The GPU runs passes in order and chooses a token per decode row; each   *)
(* pass's tokens travel to the host as one copy.  The host packs the next  *)
(* rows before it has read the last ones, so an answer may be evicted, or  *)
(* end, while its tokens are on their way.                                 *)
(*                                                                         *)
(* A stage is an "answer" (a map) or an "ask" (a filter).  Which token the *)
(* model chooses depends only on its position: slot s ends its answer at   *)
(* token plan.stop[s].  Nondeterminism is in the filters' answers, in how  *)
(* many copies have landed, in which answer is evicted, in the headroom    *)
(* the admission insists on, and in whether a pass's temporary pages fit.  *)
(*                                                                         *)
(* Left out: shared prefixes and branches (StageExecutor models            *)
(* borrowing), copy-constrained drafts, checkpoint slots, and a pass of    *)
(* one group that does not fit, which raises.  An answer stage after an    *)
(* earlier one attends the unified way or the tree way (plan.tree): they   *)
(* differ in what becomes of a later stage whose key has no pages.         *)
(***************************************************************************)
EXTENDS KVArena, SequencesExt, InOrder

CONSTANTS
    Slots,         \* documents, each its own key
    Earlier,       \* a key an earlier operator retained
    Plans          \* pipelines the loop may run (see PlanRecord)

VARIABLES
    plan,          \* the pipeline
    arena,         \* see KVArena
    pc,            \* where the loop is
    back,          \* where it goes on after reading answers
    sched,         \* JoinAdmission
    dec,           \* MapDecoder
    recomputing,   \* evicted answers and the rows recomputed so far
    pass,          \* the pass being planned, then what is left of it to run
    exec,          \* answers reported, and not
    rows           \* ghost: leading rows of a slot's KV that were computed

vars == <<plan, arena, pc, back, sched, dec, recomputing, pass, exec, rows>>

IN_FLIGHT == 2
NoMap == 0                           \* map -1
Queued == 0                          \* _stage -1

PlanRecord(p) ==
    /\ p.stages \in Seq({"answer", "ask"}) /\ Len(p.stages) > 0
    /\ p.document \in [Slots -> Nat \ {0}]      \* prefix rows
    /\ p.suffix \in Nat \ {0}                   \* rows of a frame and its suffix
    /\ p.limit \in Nat \ {0}                    \* tokens of an answer at most
    /\ p.stop \in [Slots -> Nat]                \* the stop token's index
    /\ p.budget \in Nat                         \* rows of a pass
    /\ p.tree \in BOOLEAN                       \* attention_path is "tree"
    /\ \A s \in Slots :
          /\ p.document[s] + p.suffix <= p.budget
          /\ PagesNeeded(p.document[s] + p.suffix + p.limit - 1) <= NumPages

ASSUME DecodingAssumption ==
    /\ Slots \subseteq Keys /\ Slots = 1 .. Cardinality(Slots) /\ Slots # {}
    /\ Earlier \in Keys \ Slots /\ NumSliding = 0
    /\ \A p \in Plans : PlanRecord(p)

Done == Len(plan.stages) + 1
Document(s) == plan.document[s]
Prompt(s) == plan.document[s] + plan.suffix          \* origin
Least(m, n) == IF m < n THEN m ELSE n

\* prefix + capacity_extra: every answer starts with a page of its own.
Capacity(s) == Prompt(s) + Least(PageTokens, plan.limit - 1)

PagedRows(A, s) == Len(TablePages(A.full, s)) * PageTokens

--------------------------------------------------------------------------------
(* The decoder.                                                            *)

Decoder ==
    [map      : [Slots -> Nat],      \* the stage whose answer a slot writes
     fed      : [Slots -> Nat],      \* decode rows packed
     written  : [Slots -> Nat],      \* tokens read, of the current answer
     paused   : SUBSET Slots,
     stopped  : SUBSET Slots,
     inflight : [Slots -> Nat],      \* copies that hold one of its tokens
     chosen   : [Slots -> Nat],      \* next_token: index of the one last chosen
     copies   : Seq(SUBSET [slot : Slots, index : Nat, map : Nat]),
     answered : SUBSET Slots,        \* finished, not yet reported
     lengths  : [Slots -> [1 .. Len(plan.stages) -> Int]]]

\* Slots whose next decode row can choose another token.
Running(D) ==
    {s \in Slots : /\ D.map[s] # NoMap /\ s \notin D.paused /\ s \notin D.stopped
                   /\ D.fed[s] + 1 < plan.limit}

\* eviction_order: every answer not evicted yet, its last tokens read or
\* not.
Victims(D) == {s \in Slots : D.map[s] # NoMap /\ s \notin D.paused}

StopAt(e) == e.index = plan.stop[e.slot]
Ends(e) == StopAt(e) \/ e.index + 1 >= plan.limit

\* A variant that forgets which answer a token was chosen for, for
\* AnswersWhole.
CurrentAnswer(D) ==
    {e \in Head(D.copies) : D.map[e.slot] # NoMap /\ e.slot \notin D.stopped}

\* Tokens of answers still being written; the rest were chosen past an end.
Current(D) ==
    {e \in Head(D.copies) : D.map[e.slot] = e.map /\ e.slot \notin D.stopped}

\* The host reads the oldest copy.
ReadCopy(D) ==
    LET read == Current(D)
        of(s, E) == \E e \in E : e.slot = s
        token(s) == CHOOSE e \in read : e.slot = s
        ended == {e \in read : Ends(e)}
    IN  [D EXCEPT
           !.copies = Tail(@),
           !.inflight = [s \in Slots |-> IF of(s, Head(D.copies)) THEN @[s] - 1 ELSE @[s]],
           !.written = [s \in Slots |->
               IF of(s, read) THEN Bigger(@[s], token(s).index + 1) ELSE @[s]],
           !.lengths = [s \in Slots |->
               IF of(s, ended)
               THEN [@[s] EXCEPT ![D.map[s]] =
                        token(s).index + IF StopAt(token(s)) THEN 0 ELSE 1]
               ELSE @[s]],
           !.stopped = @ \union {e.slot : e \in {x \in read : StopAt(x)}},
           !.map = [s \in Slots |-> IF of(s, ended) THEN NoMap ELSE @[s]],
           !.answered = @ \union {e.slot : e \in ended}]

\* The n oldest copies have landed.
ReadCopies(D, n) ==
    LET read[i \in 0 .. n] == IF i = 0 THEN D ELSE ReadCopy(read[i - 1])
    IN  read[n]

SlotsOf(groups) == {g.slot : g \in groups}

\* start: the answers of these groups, whose first tokens this pass chooses.
StartAnswers(D, groups) ==
    [D EXCEPT
       !.map = [s \in Slots |-> IF s \in SlotsOf(groups)
                                THEN (CHOOSE g \in groups : g.slot = s).stage ELSE @[s]],
       !.fed = [s \in Slots |-> IF s \in SlotsOf(groups) THEN 0 ELSE @[s]],
       !.written = [s \in Slots |-> IF s \in SlotsOf(groups) THEN 0 ELSE @[s]],
       !.stopped = @ \ SlotsOf(groups)]

\* A variant that goes on from the row it was evicted at, for ContextIsWhole.
ResumeFed(D, V) == [D EXCEPT !.paused = @ \ V]

\* resume: the prompt and every saved token are in KV again.
Resume(D, V) ==
    [D EXCEPT !.fed = [s \in Slots |-> IF s \in V THEN D.written[s] ELSE @[s]],
              !.paused = @ \ V]

\* submit: the tokens this pass chooses start their way to the host, which
\* waits for the oldest once more than IN_FLIGHT are out.
Submit(D, chosen) ==
    LET sent == [D EXCEPT
                   !.copies = Append(@, {[slot |-> s, index |-> D.fed[s], map |-> D.map[s]] :
                                            s \in chosen}),
                   !.inflight = [s \in Slots |-> IF s \in chosen THEN @[s] + 1 ELSE @[s]],
                   !.chosen = [s \in Slots |-> IF s \in chosen THEN D.fed[s] ELSE @[s]]]
    IN  IF chosen = {} THEN D
        ELSE IF Len(sent.copies) > IN_FLIGHT THEN ReadCopy(sent) ELSE sent

--------------------------------------------------------------------------------
(* The top of the loop: pages for the rows to come.                        *)

Group(s, j, carried) == [slot |-> s, stage |-> j, carried |-> carried]

NoPass ==
    [rows |-> {}, replays |-> <<>>, at |-> 1, room |-> 0, groups |-> <<>>, held |-> <<>>,
     parts |-> <<>>, chosen |-> {}]

\* A freed key's KV is gone.
Lose(V) == [s \in Slots |-> IF s \in V THEN 0 ELSE rows[s]]

Top ==
    /\ pc = "top"
    /\ IF \A s \in Slots : sched.stage[s] = Done
       THEN pc' = "done" /\ UNCHANGED arena
       ELSE /\ pc' = "grow"
            /\ arena' \in IF sched.blocked > 0 THEN EvictRetained(arena, sched.blocked)
                          ELSE {arena}
    /\ UNCHANGED <<plan, back, sched, dec, recomputing, pass, exec, rows>>

\* Answers whose next row is past their pages.
Growing == {s \in Running(dec) : Prompt(s) + dec.fed[s] >= PagedRows(arena, s)}

\* The answers that go on have their rows; the rest of the pass is planned.
GrownAll ==
    /\ pc = "grow" /\ Growing = {}
    /\ pass' = [NoPass EXCEPT !.rows = Running(dec),
                              !.room = Bigger(0, plan.budget - Cardinality(Running(dec)))]
    /\ pc' = "replay"
    /\ UNCHANGED <<plan, arena, back, sched, dec, recomputing, exec, rows>>

\* A victim's pages come free at once, its tokens land as usual.
Evict(A, s) ==
    /\ arena' = FreeKey(DropHolds(A, {s}), s)
    /\ rows' = Lose({s})
    /\ dec' = [dec EXCEPT !.paused = @ \union {s}]
    /\ recomputing' =
          LET anew == [slot |-> s, start |-> 0] IN
          IF \E e \in Range(recomputing) : e.slot = s
          THEN [i \in DOMAIN recomputing |->
                   IF recomputing[i].slot = s THEN anew ELSE recomputing[i]]
          ELSE Append(recomputing, anew)

\* _grow_answers: every answer that needs one gets a page, or an answer is
\* evicted, which may have no row left to feed, and the rest try again.
GrowAnswers ==
    /\ pc = "grow" /\ Growing # {}
    /\ \E out \in GrowPages(arena, Growing) :
          IF out.ok
          THEN arena' = out.arena /\ UNCHANGED <<dec, recomputing, rows>>
          ELSE \E victim \in Victims(dec) : Evict(out.arena, victim)
    /\ UNCHANGED <<plan, pc, back, sched, pass, exec>>

--------------------------------------------------------------------------------
(* _replays: evicted answers come back, in order.                          *)

Replay == recomputing[pass.at]
ReplayLength(s) == Prompt(s) + dec.written[s]
ReplayCapacity(s) ==
    Bigger(Capacity(s), ReplayLength(s) + Least(PageTokens, plan.limit - dec.written[s] - 1))

Replaying == pc = "replay" /\ pass.at <= Len(recomputing) /\ pass.room > 0

\* Its answer ended in a token that landed after the eviction.
DropReplay ==
    /\ Replaying /\ dec.map[Replay.slot] = NoMap
    /\ recomputing' = RemoveAt(recomputing, pass.at)
    /\ UNCHANGED <<plan, arena, pc, back, sched, dec, pass, exec, rows>>

\* A variant that does not wait for tokens on their way, for
\* TokensLandInOrder.
AnyTime(s) == s \in Slots

TokensLanded(s) == dec.inflight[s] = 0

WaitReplay ==
    /\ Replaying /\ dec.map[Replay.slot] # NoMap /\ ~TokensLanded(Replay.slot)
    /\ pass' = [pass EXCEPT !.at = @ + 1]
    /\ UNCHANGED <<plan, arena, pc, back, sched, dec, recomputing, exec, rows>>

ReplayEnd(s, start) == Least(ReplayLength(s), start + pass.room)

\* The rows that fit, once the answer has its pages again.
TakeReplay ==
    /\ Replaying /\ dec.map[Replay.slot] # NoMap /\ TokensLanded(Replay.slot)
    /\ LET s == Replay.slot
           end == ReplayEnd(s, Replay.start)
           taken == [pass EXCEPT !.at = @ + 1, !.room = @ - (end - Replay.start),
                       !.replays = Append(@, [slot |-> s, start |-> Replay.start, end |-> end])]
       IN  \E out \in IF s \in Resident(arena) THEN {[ok |-> TRUE, arena |-> arena]}
                      ELSE Reserve(arena, s, Document(s), ReplayCapacity(s), 0, 0) :
              /\ arena' = out.arena
              /\ IF out.ok THEN pass' = taken /\ UNCHANGED pc
                 ELSE pc' = "ready" /\ UNCHANGED pass
    /\ UNCHANGED <<plan, back, sched, dec, recomputing, exec, rows>>

ReplaysTaken ==
    /\ pc = "replay" /\ (pass.at > Len(recomputing) \/ pass.room = 0)
    /\ pc' = "ready"
    /\ UNCHANGED <<plan, arena, back, sched, dec, recomputing, pass, exec, rows>>

--------------------------------------------------------------------------------
(* next_chunk: later stages first, then queued documents.                  *)

\* Every later stage that still has room, in order.
TakeReady ==
    /\ pc = "ready"
    /\ LET n == Least(Len(sched.ready), pass.room \div plan.suffix)
           take == SubSeq(sched.ready, 1, n)
       IN  /\ pass' = [pass EXCEPT !.room = @ - n * plan.suffix, !.groups =
                          [i \in 1 .. n |-> Group(take[i], sched.stage[take[i]], FALSE)]]
           /\ sched' = [sched EXCEPT !.ready = SubSeq(@, n + 1, Len(@)), !.blocked = 0]
    /\ pc' = "admit"
    /\ UNCHANGED <<plan, arena, back, dec, recomputing, exec, rows>>

\* Rows the shortest prompt packs: below it no document is looked at.
Fewest == Prompt(CHOOSE s \in Slots : \A t \in Slots : Document(s) <= Document(t))

Admitting(s) ==
    /\ pc = "admit" /\ sched.pending # <<>> /\ s = Head(sched.pending)
    /\ pass.room >= Fewest

HoldBack(s) ==
    /\ sched' = [sched EXCEPT !.pending = Tail(@)]
    /\ pass' = [pass EXCEPT !.held = Append(@, s)]

HoldForPages(s) ==
    /\ Admitting(s) /\ PageCost(Capacity(s)) > FreePages(arena)
    /\ sched' = [sched EXCEPT !.blocked = PageCost(Capacity(s)) - FreePages(arena)]
    /\ pc' = "close"
    /\ UNCHANGED <<plan, arena, back, dec, recomputing, pass, exec, rows>>

HoldForRoom(s) ==
    /\ Admitting(s) /\ PageCost(Capacity(s)) <= FreePages(arena) /\ Prompt(s) > pass.room
    /\ HoldBack(s)
    /\ UNCHANGED <<plan, arena, pc, back, dec, recomputing, exec, rows>>

\* _replay_pages: what evicted answers without pages need to come back.
ReplayPages ==
    MapThenSumSet(LAMBDA s : PageCost(Bigger(Capacity(s), ReplayLength(s) + PageTokens)),
                  {s \in Slots : /\ \E e \in Range(recomputing) : e.slot = s
                                 /\ ~ \E e \in Range(pass.replays) : e.slot = s
                                 /\ dec.map[s] # NoMap /\ s \notin Resident(arena)})

\* HeadroomAdmission.allows: never the pages evicted answers need; how much
\* more it keeps free depends on the answers' curves.
Allows(s) ==
    IF FreePages(arena) - ReplayPages < PageCost(Capacity(s)) THEN {FALSE} ELSE BOOLEAN

\* A variant that waits though no answer can free pages, for RunEnds.
AlwaysWait == sched.pending # <<>>

\* waits: a running or an evicted answer may yet free pages.
AnswersWait ==
    Running(dec) # {} \/ \E s \in dec.paused : dec.map[s] # NoMap

\* A document is admitted, or ends the chunk until pages come free.
Admit(s) ==
    /\ Admitting(s) /\ PageCost(Capacity(s)) <= FreePages(arena) /\ Prompt(s) <= pass.room
    /\ \E allowed \in IF "answer" \in Range(plan.stages) THEN Allows(s) ELSE {TRUE} :
       \E out \in IF ~allowed /\ AnswersWait THEN {[ok |-> FALSE, arena |-> arena]}
                  ELSE Reserve(arena, s, Document(s), Capacity(s), 0, 0) :
          /\ arena' = out.arena
          /\ IF out.ok
             THEN /\ sched' = [sched EXCEPT !.pending = Tail(@), !.stage[s] = 1]
                  /\ pass' = [pass EXCEPT !.groups = Append(@, Group(s, 1, TRUE)),
                                          !.room = @ - Prompt(s)]
                  /\ UNCHANGED pc
             ELSE pc' = "close" /\ UNCHANGED <<sched, pass>>
    /\ UNCHANGED <<plan, back, dec, recomputing, exec, rows>>

CloseChunk ==
    /\ \/ pc = "close"
       \/ pc = "admit" /\ (sched.pending = <<>> \/ pass.room < Fewest)
    /\ sched' = [sched EXCEPT !.pending = pass.held \o @]
    /\ pass' = [pass EXCEPT !.held = <<>>, !.parts = <<pass.groups>>]
    /\ pc' = IF pass.groups = <<>> /\ pass.rows = {} /\ pass.replays = <<>>
             THEN "idle" ELSE "run"
    /\ UNCHANGED <<plan, arena, back, dec, recomputing, exec, rows>>

--------------------------------------------------------------------------------
(* A pass runs.                                                            *)

Part == Head(pass.parts)

\* Its temporary pages do not fit: retained KV makes room, or the groups
\* are halved; decode rows and replays stay with the first half.
Halve ==
    /\ pc = "run" /\ Part # <<>>
    /\ LET need == PageCost(FoldLeft(LAMBDA n, g : n + plan.suffix
                        + IF g.carried THEN Document(g.slot) ELSE 0, 0, Part))
           half == Len(Part) \div 2
       IN  IF Evictable(arena) # {} THEN arena' \in EvictRetained(arena, need) /\ UNCHANGED pass
           ELSE /\ Len(Part) > 1
                /\ pass' = [pass EXCEPT !.parts =
                      <<SubSeq(Part, 1, half), SubSeq(Part, half + 1, Len(Part))>> \o Tail(@)]
                /\ UNCHANGED arena
    /\ UNCHANGED <<plan, pc, back, sched, dec, recomputing, exec, rows>>

Answer(g) == plan.stages[g.stage] = "answer"

\* Replays that reach the last saved token.
Resumed == {e.slot : e \in {x \in Range(pass.replays) : x.end = ReplayLength(x.slot)}}

\* _build: decode rows are fed, replays counted, answers started or resumed.
Build ==
    LET begun == {g \in Range(Part) : Answer(g)}
        fed == [dec EXCEPT !.fed = [s \in Slots |-> IF s \in pass.rows THEN @[s] + 1 ELSE @[s]]]
    IN  /\ dec' = StartAnswers(Resume(fed, Resumed), begun)
        /\ pass' = [pass EXCEPT !.rows = {}, !.replays = <<>>,
                       !.chosen = pass.rows \union Resumed \union SlotsOf(begun)]
        /\ recomputing' =
              LET reached == [i \in DOMAIN recomputing |->
                      LET mine == {e \in Range(pass.replays) : e.slot = recomputing[i].slot}
                      IN  [recomputing[i] EXCEPT !.start =
                              IF mine = {} THEN @ ELSE (CHOOSE e \in mine : TRUE).end]]
              IN  Sifted(reached, {e \in Range(reached) : e.slot \notin Resumed})

\* The KV the pass writes.
Written ==
    [s \in Slots |->
        IF s \in pass.rows THEN Prompt(s) + dec.fed[s] + 1
        ELSE IF \E e \in Range(pass.replays) : e.slot = s
        THEN (CHOOSE e \in Range(pass.replays) : e.slot = s).end
        ELSE IF \E g \in Range(Part) : g.slot = s
        THEN LET g == CHOOSE x \in Range(Part) : x.slot = s IN
             IF Answer(g) THEN Prompt(s)
             ELSE IF g.carried THEN Document(s) ELSE Least(rows[s], Document(s))
        ELSE rows[s]]

\* A group of a later stage whose key has no pages.  Unified attention
\* refuses it; tree attention packs it with nothing to read, and an answer
\* then asks for its pages (pack_chunk, _build).  Nobody catches either.
Missing(g) == ~g.carried /\ g.slot \notin Resident(arena)
Raises == \E g \in Range(Part) : Missing(g) /\ (plan.tree => Answer(g))

RaisePart ==
    /\ pc = "run" /\ Raises
    /\ pc' = "raised"
    /\ UNCHANGED <<plan, arena, back, sched, dec, recomputing, pass, exec, rows>>

RunPart ==
    /\ pc = "run" /\ ~Raises
    /\ Build
    /\ rows' = Written
    /\ pc' = IF exec.outstanding = <<>> THEN "landed" ELSE "report"
    /\ back' = "submit"
    /\ UNCHANGED <<plan, arena, sched, exec>>

SubmitPart ==
    /\ pc = "submit"
    /\ dec' = Submit(dec, pass.chosen)
    /\ exec' = [exec EXCEPT !.outstanding = <<Part>>]
    /\ pass' = [pass EXCEPT !.parts = Tail(@), !.chosen = {}]
    /\ pc' = IF Len(pass.parts) > 1 THEN "run" ELSE "top"
    /\ UNCHANGED <<plan, arena, back, sched, recomputing, rows>>

--------------------------------------------------------------------------------
(* Answers are read and reported.                                          *)

\* A settled document lets its pages go.
Settle(A, V) == FreeAll(A, V \intersect Resident(A))

\* The stage of every document in order is complete; those in dropped were
\* answered FALSE.
Advance(S, order, dropped) ==
    LET done == {s \in Range(order) : s \in dropped \/ S.stage[s] = Len(plan.stages)} IN
    [S EXCEPT !.stage = [s \in Slots |-> IF s \in done THEN Done
                                         ELSE IF s \in Range(order) THEN @[s] + 1 ELSE @[s]],
              !.ready = @ \o Sifted(order, Slots \ done)]

\* Groups reported as groups tells, then the answers that ended in the next
\* n copies, in slot order.
Recorded(groups, dropped, n) ==
    LET read == ReadCopies(dec, n)
        deferred == exec.deferred \union SlotsOf({g \in Range(groups) : Answer(g)})
        ended == read.answered \intersect deferred
        asked == Sifted(groups, {g \in Range(groups) : ~Answer(g)})
        order == [i \in DOMAIN asked |-> asked[i].slot] \o Ascending(ended)
        after == Advance(sched, order, dropped)
        settled == {s \in Range(order) : after.stage[s] = Done}
    IN  /\ dec' = [read EXCEPT !.answered = @ \ ended]
        /\ exec' = [outstanding |-> <<>>, deferred |-> deferred \ ended]
        /\ sched' = after
        /\ arena' = Settle(arena, settled)
        /\ rows' = Lose(settled)

Asked(groups) == SlotsOf({g \in Range(groups) : ~Answer(g)})

\* _report: the oldest pass, and the copies that have landed by then.
Report ==
    /\ pc = "report"
    /\ \E dropped \in SUBSET Asked(Head(exec.outstanding)), n \in 0 .. Len(dec.copies) :
          Recorded(Head(exec.outstanding), dropped, n)
    /\ pc' = "landed"
    /\ UNCHANGED <<plan, back, recomputing, pass>>

\* _answers_landed, outside a pass's own report.
AnswersLanded ==
    /\ pc = "landed"
    /\ \E n \in 0 .. Len(dec.copies) : Recorded(<<>>, {}, n)
    /\ pc' = back
    /\ UNCHANGED <<plan, back, recomputing, pass>>

\* Nothing to pack: answers first, then tokens on their way, then retained
\* KV; with none of them the run raises an AssertionError.
Idle ==
    /\ pc = "idle"
    /\ IF exec.outstanding # <<>>
       THEN pc' = "report" /\ back' = "top" /\ UNCHANGED <<arena, dec, exec, sched, rows>>
       ELSE IF dec.copies # <<>>
       THEN Recorded(<<>>, {}, Len(dec.copies)) /\ pc' = "top" /\ UNCHANGED back
       ELSE /\ IF sched.blocked > 0 /\ Evictable(arena) # {}
               THEN arena' \in EvictRetained(arena, sched.blocked) /\ pc' = "top"
               ELSE pc' = "stuck" /\ UNCHANGED arena
            /\ UNCHANGED <<back, dec, exec, sched, rows>>
    /\ UNCHANGED <<plan, recomputing, pass>>

--------------------------------------------------------------------------------

\* An earlier operator retained a page of KV.
RetainedArena ==
    LET held == Activate(EmptyArena, Earlier, PageTokens, PageTokens, 0, 0) IN
    [held EXCEPT !.pinned = {}, !.retained = {Earlier}, !.size[Earlier] = 1]

Init ==
    /\ plan \in Plans
    /\ arena = RetainedArena
    /\ pc = "top" /\ back = "top"
    /\ sched = [pending |-> [s \in Slots |-> s], ready |-> <<>>,
                stage |-> [s \in Slots |-> Queued], blocked |-> 0]
    /\ dec = [map |-> [s \in Slots |-> NoMap], fed |-> [s \in Slots |-> 0],
              written |-> [s \in Slots |-> 0], paused |-> {}, stopped |-> {},
              inflight |-> [s \in Slots |-> 0], chosen |-> [s \in Slots |-> 0],
              copies |-> <<>>, answered |-> {},
              lengths |-> [s \in Slots |-> [j \in 1 .. Len(plan.stages) |-> -1]]]
    /\ recomputing = <<>>
    /\ pass = NoPass
    /\ exec = [outstanding |-> <<>>, deferred |-> {}]
    /\ rows = [s \in Slots |-> 0]

\* The loop has returned, or raised: for want of pages, or of a document's KV.
Resting == pc \in {"done", "stuck", "raised"}
Rest == Resting /\ UNCHANGED vars

Next ==
    \/ Top \/ GrownAll \/ GrowAnswers
    \/ DropReplay \/ WaitReplay \/ TakeReplay \/ ReplaysTaken
    \/ TakeReady \/ (\E s \in Slots : HoldForPages(s) \/ HoldForRoom(s) \/ Admit(s))
    \/ CloseChunk \/ Halve \/ RaisePart \/ RunPart \/ SubmitPart
    \/ Report \/ AnswersLanded \/ Idle \/ Rest

\* The loop is one thread: it goes on until it rests, as in StageExecutor.
GoesOn == []<>Resting \/ []<><<TRUE>>_vars

Spec == Init /\ [][Next]_vars /\ GoesOn

--------------------------------------------------------------------------------
(* Properties.                                                             *)

\* An answer a later stage starts after, or a filter asks after, still has
\* its document's KV (physical/nodes/map.py: it "reads the KV the operators
\* before it wrote").
LaterStageReadsKV ==
    pc = "run" =>
        \A g \in Range(Part) :
            ~g.carried => g.slot \in Resident(arena) /\ rows[g.slot] >= Document(g.slot)

\* A pass computes each row over the whole context before it, inside the
\* pages its answer holds, and a decode row feeds the token chosen last:
\* through growth, eviction, recomputation in pieces and halved passes
\* (stage_executor.py _grow_answers, _replays, groups.py rows).  Only the
\* stage after an answer that ended while it was evicted is without its
\* document, which LaterStageReadsKV is about.
ContextIsWhole ==
    pc = "run" =>
        /\ \A s \in pass.rows :
              LET at == Prompt(s) + dec.fed[s] IN
              s \in Resident(arena) /\ rows[s] = at /\ at < PagedRows(arena, s)
                 /\ dec.chosen[s] = dec.fed[s]
        /\ \A e \in Range(pass.replays) :
              rows[e.slot] = e.start /\ e.end <= PagedRows(arena, e.slot)
        /\ \A g \in Range(Part) : g.slot \notin dec.paused =>
              /\ Prompt(g.slot) <= PagedRows(arena, g.slot)
              /\ g.carried \/ rows[g.slot] >= Document(g.slot)

\* The copies on their way that hold a token of a slot's current answer.
Coming(D, s) ==
    {i \in DOMAIN D.copies : \E e \in D.copies[i] : e.slot = s /\ e.map = D.map[s]}

\* The tokens of an answer land each once, in order and in the answer that
\* chose them, whatever ended, was evicted or began in between
\* (map_decoder.py _read, submit; stage_executor.py _replays).
TokensLandInOrder ==
    \A s \in Slots : dec.map[s] # NoMap /\ s \notin dec.stopped =>
        LET coming == Coming(dec, s) IN
        \A i \in coming : \A e \in dec.copies[i] :
            e.slot = s => e.index = dec.written[s] + Cardinality({k \in coming : k < i})

\* When the loop ends, every document that reached an answer has all of its
\* tokens up to its stop token or the limit, no answer is half written, and
\* only what was retained before holds pages (stage_executor.py run,
\* _record_answers).
AnswersWhole ==
    /\ \A s \in Slots : \A j \in 1 .. Len(plan.stages) :
          dec.lengths[s][j] # -1 => dec.lengths[s][j] = Least(plan.stop[s], plan.limit)
    /\ pc = "done" =>
          /\ \A s \in Slots : dec.map[s] = NoMap
          /\ plan.stages[1] = "answer" => \A s \in Slots : dec.lengths[s][1] # -1
          /\ Resident(arena) \subseteq {Earlier} /\ Accounted(arena)

\* The loop ends: evicted answers come back, refused documents are admitted,
\* and the last resort is never missing (stage_executor.py run, "nothing
\* buildable and nothing in flight").  It may raise only at a later stage
\* that lost its document (RaisePart), never for want of pages.
RunEnds == <>(pc \in {"done", "raised"})

================================================================================
