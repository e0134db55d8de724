# Quail: TLA+ models and proofs

Quail answers SQL queries whose predicates ask a language model. A client sends a
query to a server; the server keeps a record of it and runs one query at a time in
a child process; the child runs the query's plan on its GPU, or in rounds on one
process per GPU, where every model operator is a loop over documents whose KV cache
pages are borrowed, kept and evicted, and whose answers are decoded token by token.
This directory models the parts of that path whose state is shared by several actors
or outlives a step: the query server, its durability, the GPU processes, the KV
arena, and the loop that fills it. The reference is the code under `src/quail`; paths
below are relative to it.

Contents: [inventory](#inventory) · [modules](#modules) · [runs](#runs) ·
[bounds](#bounds) · [fairness](#fairness) · [proofs](#proofs) ·
[disagreements](#disagreements-between-code-and-documentation) ·
[assumptions](#assumptions-and-what-is-left-out) · [plan](#plan)

## Inventory

| Component | State | Operations | Talks to |
|---|---|---|---|
| **Store** `server/store.py` | SQLite rows: state, revision, execution epoch, cancel flag, answers saved; two write counts; `submission_lock` | create, discard, next_queued, begin, update, finish, request_cancel, recover, backup | every thread of the server, through one lock per transaction |
| **Scheduler** `server/scheduler.py` | one thread; the query it runs, its epoch, its deadlines; `_stop` | run, run_one, its `emit` callback, stop | store, executor |
| **Executor** `server/executor.py` | the child process kept for the next query of the same model; per execution an event lock, a reader thread, `_done`, `_stopped` | start, stop, receive, wait | pipe to the child; calls `emit` on the reader's thread |
| **Server and routes** `server/app.py` | `submission_lock`, waiters, sync callbacks | submit, retry, cancel, wait, events, answers, uploads, start, stop | store, checkpoint, scheduler |
| **Checkpoint** `server/checkpoint.py`, `server/modal_app.py` | counts of the last copy, a timer, one lock | run_once by its thread, by a submission, by a stop; restore | store, volume |
| **Client and status page** `remote/client.py`, `server/static/status.html` | last revision seen | watch, wait, stream answers; an event stream with reconnects and fetches | routes, across restarts |
| **Page pools** `backends/quail/executor/pages.py` | free stack, holds per page, block tables | alloc, share, grow, rewind, drop, free, retain | arena |
| **KV arena** `.../arena.py` | residents, pinned and retained keys, holds, readings, floors, deferred frees | reserve, borrow, hold, release, read, retain, evict, trim, resize | stage executor, retention, answer decoder |
| **Admission** `.../admission.py` | two queues, stages, prices, groups, the prefix tree of borrowers | next_chunk, report, skip, settle, drain | stage executor |
| **Stage executor** `.../stage_executor.py`, `retention.py`, `graph.py`, `worker.py` | passes in flight, lenders, readings of the planned chunk | run, report, settle; retention between operators; bind_query | arena, admission |
| **Answer decoder** `.../answer_admission.py`, `map_decoder.py`, and parts of `stage_executor.py` | the answer each slot writes, tokens fed and read, copies of tokens on their way to the host, evicted answers | start, submit, read, grow, evict, recompute, resume | arena, admission, stage executor |
| **Engine and workers** `api/execute.py`, `backends/quail/worker.py`, `distributed.py`, `coordinator.py`, `planner/graph/shards.py` | the process's engine, its GPU and the boot prepared on it; one child per GPU with two pipes; which child holds a document | bind, prepare, execute; rounds of boot and groups; place, merge, retain | pipes to the children |
| **Baselines** `baselines/request_scheduling.py` | requests in flight, a cap of documents | filter, extract and join request loops | external servers |
| **Planner, SQL, logical and physical plans, cost model** | immutable trees | functions of their input | one another |

What is hard, and what makes each part correct:

- *Server.* The scheduler, a reader thread, routes and a child process act on one
  record. A cancel can land between the choice of a query and its start; a verdict
  can rest on a read made before the record changed; a reader can hold events of a
  job that was closed; a job can hang, die, or be reused. A closed record must stay
  closed, the active record must be the scheduler's own, revisions must grow, a
  success must have counted its answers, and every query, cancel and stop must end.
- *Durability.* The live database is lost with its machine. An id given to a client
  must be on the committed copy; a copy may miss writes made under it and must know
  that it did; the last copy of a stop may fail; readers meet records older than
  the ones they have shown.
- *Arena.* One page is read by several block tables, freed, trimmed and rewound in
  any order. A page must be free exactly when nobody reads it, must have one
  writer, must be read at the row it was written for, and must not be evicted from
  under a borrower that was promised it; a free put off must still happen.
- *Stage executor.* Two passes are in flight while a third is planned from page
  counts read earlier. Documents wait for parents, parents are held for documents,
  and retained KV gives way. No document may be lost or answered out of order, no
  pass may read KV of another text, nothing may stay held after a run, and the loop
  must always find something to do.
- *Answers.* The host packs an answer's next token before it has read the last one.
  An answer can end, be evicted, or give its slot to the next map's answer while its
  tokens travel. A row must be computed over the whole context before it, tokens must
  land once and in order in the answer that chose them, and documents that wait for
  pages must not wait for answers that no longer hold any.
- *Workers.* A round sends to every child and reads every child; a child may raise or
  die anywhere in between. A reply must be read by the round it answers, a GPU must
  run a query under that query's binding, several GPUs must answer as one, and a
  failure must cost no more than its query and the next.

## Modules

| Module | Models | Built on |
|---|---|---|
| `QueryRecord` | what the server promises of one record: the abstract specification | |
| `QueryServer` | store, scheduler, executor with its reader threads and children, submissions, crashes; refines `QueryRecord` | `QueryRecord` through INSTANCE |
| `QueryServerProofs` | theorems of `QueryServer` about records, submissions, jobs, pipes and readers, and that it implements `QueryRecord` | `QueryServer` |
| `CheckpointedStore` | the copy of the database, submissions that wait for it, restore, and the two readers that wait for a record's changes and follow it across a restart | |
| `CheckpointedStoreProofs` | theorems of `CheckpointedStore` | |
| `PageArena` | one page pool as a record and operators on it | |
| `KVArena` | the arena as a record of two pools: operators named after the methods | `PageArena` |
| `KVArenaProofs` | lemmas of `InOrder`'s operators, of the pool's (accounts, block tables) and of the arena's (rows, windows, holds, eviction, reservations) | `KVArena`, `InOrder` |
| `ArenaCalls` | the arena under any sequence of calls its methods accept | `KVArena` |
| `ArenaCallsProofs` | theorems of `ArenaCalls` | `ArenaCalls`, `KVArenaProofs` |
| `StageExecutor` | admission, borrowing, the run loop and retention over the arena | `KVArena`, `InOrder` |
| `StageExecutorProofs` | theorems of `StageExecutor` about where documents are, their answers and their groups, and that the arena stays sound and is left clean | `StageExecutor`, `KVArenaProofs` |
| `StageExecutorArenaProofs` | theorems of `StageExecutor` about holds, planned pages and the KV a pass reads | `StageExecutorProofs` |
| `AnswerDecoding` | the same loop with answers that decode, grow, are evicted and recomputed | `KVArena`, `InOrder` |
| `AnswerDecodingProofs` | theorems of `AnswerDecoding` about tokens, answers and the places of documents | `AnswerDecoding`, `KVArenaProofs` |
| `InOrder` | sets listed in an order and sequences filtered, without recursion | |
| `GpuWorkers` | the engine of a process, its GPU, its children and their rounds | `InOrder` |
| `GpuWorkersProofs` | theorems of `GpuWorkers`, and the lemmas of `InOrder` they need | `GpuWorkers` |
| `MC*` | symmetry, views and the instances' plans | |

### QueryServer

`db` is the `queries` table, `born` its order, `lines` the answers files; the
three survive a crash. `sched` is the scheduler's thread: its program counter and
the locals of `run_one` (`done`, `cancel` are what it read, and may be old when
it decides; `late` is a deadline that passed, `grace` the second deadline).
`exec[q]` is the execution object of q's job and its reader thread, `held` the event
it has received and not yet applied; `child[q]` the process spawned for q's job with
its pipe; `current` the child kept for the next query. One step is one store
transaction, one event received, one decision of the loop, or one event put by a
job.

| Code | Actions |
|---|---|
| `submit`, `add_sync`, `discard` | `SubmitNew`, `SubmitAgain`, `SyncOk`, `SyncFails` |
| `request_cancel` | `Cancel` |
| `next_queued`, `begin`, `start` | `PickQuery`, `BeginQuery`, `StartJob`, `StartFails` |
| `run_one`'s loop and its end | `WaitReturns`, `ReadRecord`, `CheckDone`, `CloseRecord`, `CheckContinues`, `StopExecution`, `EndQuery`, `DeadlinePasses` |
| the reader thread and `emit` | `Receive`, `PipeCloses`, `EmitUpdate`, `EmitProgress`, `EmitFlush`, `EmitFinal`, `EmitRaises` |
| the child | `JobExecutes`, `JobReports`, `JobEnds`, `JobDone`, `ChildDies` |
| process | `RequestStop`, `StopCompletes`, `Crash`, `Restart` (with `recover`) |

`QueryRecord` says the same of a record without any of these actors: it is
submitted, acknowledged or forgotten, started once, reported on, asked to cancel,
and closed once. `ImplementsRecord` is the refinement; the mapping reads the
record's state, revision and cancel flag from `db`.

### CheckpointedStore

`db`, `writes`, `durable` are the live file and its two counts; `file` is the copy
published on the volume's mount, `copy` the committed one. `copying` is the holder
of `Checkpoint._lock` with the counts it read before the backup; `seen` what the
last successful copy noted. A submission is `SubmitNew`, then its sync (`SyncStarts`
or `SyncSkips`, `CopyBackup`, `CopyCommits` or `CopyFails`), then `Acknowledge` or
`Discard`. `Crash`, `StopEnds` and `Restart` lose the machine and restore the copy.
`watch` is `QueryRun.watch`, `page` the script of the status page; `Followers` says
which of them a behaviour may have. Neither changes the server, so they are checked
one at a time. `wait` is the request a reader has inside `Server.wait_status`: it
`asks` (the event is taken before the record is read, so a write until then is seen by
the read), has `read` a record that is not newer, or `sleeps` until the event it took is
set. `notice` is a write whose listeners have not yet advanced the event (`_Changes`):
`Notified` does, and wakes those that sleep or are about to. `TimesOut` is the request's
deadline. A record has only the states the durability argument tells apart.

### PageArena, KVArena, ArenaCalls

A pool is a record: free pages, holds per page, and per key its borrowed and owned
pages. The arena is a record of an every-token pool and a pool for sliding-window
layers with pinned, retained, held, read and deferred keys. Methods that may evict
return the set of outcomes, because the order of eviction is left open. `ArenaCalls`
makes every call in every order a caller may, so its properties hold of the arena
without trusting the executor; `StageExecutor` then makes exactly the calls of the
code.

### StageExecutor

The loop is one thread. `pc` is where it is: `start` an operator, `top` of the
loop, `evict` retained pages, `ready` and `admit` inside `next_chunk`, `close` it,
`empty` when nothing was built, `pass`, `submit`, `report`, and the ends of a run, an
operator and a query. `sched` holds `JoinAdmission`'s fields, `tree`
`Borrowing`'s, `chunk` the locals of `next_chunk`, `exec` the executor's. `kv` is
a ghost: the prefix of tokens behind the KV each page holds, written by a pass where
the packed rows go. `plan` is chosen once: the documents' tokens, the operators with
their stages, stop key groups, tokens per pass, and the attention path.

A document that has answered a stage enters the next one (`Enter`): the stage asks it,
drops it or passes it on (`STAGE_DROP`, `STAGE_SKIP`), or, when it decides documents
together (`prepare`), lets it wait in `sched.waiting` until the pass is reported and
`DecideWaiting` moves it. Under a limit, admission stops while the documents in flight
are expected to reach it (`Paced`). The answers of the model, what a stage does with a
document among what its `requests` allow, the eviction order and a pass that raises are
the only choices.

### AnswerDecoding

The loop of `StageExecutor.run` again, for pipelines of maps (`answer`) and filters
(`ask`) without shared prefixes. `dec` is `MapDecoder`: per slot the map it answers,
the rows fed and the tokens read, the copies of tokens on their way, what is paused
or stopped. `recomputing` is the list of evicted answers, `pass` what the iteration
has planned (decode rows, replays, groups) and then the parts of it still to run.
`rows` is a ghost: the leading rows of a slot's KV that were computed.

| Code | Actions |
|---|---|
| the top of the loop, `_grow_answers` | `Top`, `GrowAnswers` (with `Evict`), `GrownAll` |
| `_replays` | `DropReplay`, `WaitReplay`, `TakeReplay`, `ReplaysTaken` |
| `next_chunk` with `HeadroomAdmission` | `TakeReady`, `HoldForPages`, `HoldForRoom`, `Admit`, `CloseChunk` |
| `_run_part`, `_build`, `submit` | `Halve`, `RunPart`, `RaisePart`, `SubmitPart` |
| `_report`, `_answers_landed`, nothing to build | `Report`, `AnswersLanded`, `Idle` |

Choices: the filters' answers, how many copies have landed when the host looks, the
victim of an eviction among the answers not evicted yet (`Victims`, as `eviction_order`
ranks them: one whose rows are all packed and whose last tokens are on their way too), the headroom beyond what evicted answers need, and whether
temporary pages fit. An answer that ends while it is evicted leaves its document without
KV. If a stage follows, unified attention refuses its group, and tree attention (`tree` of a
plan) packs a filter with nothing to read and fails at an answer: `RaisePart`, after
which the loop rests.

### GpuWorkers

One process: `Submit` binds the engine (`_BackendState.bind`), `Prepare` boots one GPU
ahead of the documents, `Tokens` waits for them and searches the plan again with their
exact lengths (`wait_for_tokens`), `ExecuteHere` runs on one GPU. A plan's settings, such as
`arena_pages`, are a number: `draft` before that search and `exact` after it, and a
GPU's binding is a query with the settings it was bound under. The GPU prepared for the draft is not
bound again, so `ExecuteHere` may run under the draft; children boot with the exact plan. With
several, `StartRounds` keeps or replaces the children, `Send`, `Receive` and
`RoundEnds` are `GpuWorkers.round` and the code around it, once for boot and once per
group of operators. `Child(i)` takes one message (`ChildBoots`, `ChildRuns`); `Dies(i)`
kills a child and leaves its replies in the pipe. `Contiguous`, `KeyedShards` and
`Place` are the shard algorithms, computed as the source computes them; `Balanced` ranks
the items and adds their sizes to the lightest load by a recursive function. Which
documents pass a group is a constant of the plan, so that one GPU's answer is a
definition (`OneGpu`) to compare several GPUs with.

## Runs

| Run | Shows |
|---|---|
| `server_one` | One query, two events, one loss of the process, under every interleaving. `SucceededCountsAnswers`: a success has counted every line of its answers file; `TerminalNeverChanges`; `EveryQueryCloses`, `ClosedJobStops`, `StopEnds`: jobs that hang hold up nothing; `CancelEnds`: a cancel does not wait for any deadline. |
| `server_two` | Two queries, two models. `ActiveIsScheduled`: the only active record is the scheduler's, under its epoch; `InFlightNotSelected`, `AckedKept`: submissions that are not durable are not run, and acknowledged ones are not forgotten; `OwnEvents`: a reader receives events of its own job although children are reused; `OldestStartsFirst`; `ImplementsRecord`. |
| `checkpoint` | A failing copy, a crash, a page or a client that follows. `AckedSurvives`, `CleanStopKeepsAll`; `StateChangesCopied`: the end of a query is copied although the progress timer may never pass; `PageEnds`: a page that follows a query through a restore shows its end; `WatchEndsWhileAhead`: so does a client's `watch`, while the machine stays up and its record was not restored to an older revision. |
| `checkpoint_repeated`, `checkpoint_watch` | Violations, see below. |
| `arena_calls` | Two documents of two lengths, two pools too small for both. `PagesAccounted`: holds count the readers of a page, a page is free exactly when unread and has one writer, and a free that was put off is still owed to a reader or a borrower; `RowsAgree`: shared pages sit at the same rows; `KeptKeysStay`. |
| `exec_plans` | Seven plans over every-token and sliding pages: two filtered aliases and a join, one filter after another, a limit, stop key groups, stages behind conditions without and with a limit, and three queries whose passes may raise. `ArenaSound`, `AnswersInOrder`, `NoDocumentLost`, `ReadsOwnPrefix`, `OneSurvivorPerGroup`, `HoldsMatchQueue`, `EndsClean`; `PlannedPagesFree`: pages a chunk is planned with are free in the arena; `NeverStuck`: the last resort of the loop always finds something; `QueryEnds`. |
| `exec_refused`, `exec_crowded` | Violations, see below. |
| `answers` | Pipelines of one map, a map and a filter, and two maps after a filter, in an arena where answers grow past their pages, with every pattern of early stops, and with later stages that lose their documents. `ContextIsWhole`: a row is computed over all the rows before it, inside pages its answer holds; `TokensLandInOrder`; `AnswersWhole`; `RunEnds`: the run returns, or raises at a stage that lost its document, never for want of pages. |
| `answers_later` | Violation, see below. |
| `workers` | Three queries of four kinds on one to three GPUs, exceptions and deaths. `RepliesInStep`; `QueriesRunAsBound`: no GPU runs a query under what another query bound, and every child runs under the exact plan; `AnswersAsOneGpu`, `KVAtHome`; `FailuresPaidFor`: a fault costs its query, and a pass that raised at most the next one too; `QueriesEnd`. |

Each property is checked to be able to fail: a definition is replaced by a variant
with a plausible bug (`LiveByEpoch`, `ResumeFed`, `ReceiveRaising`, `PinOnly`, ...) and the
property is then violated. The variants stand before the definitions they vary and
no specification uses them.

## Bounds

- `Ids`: one query shows every interleaving of its own actors; a second one is
  needed for order, for a child that is reused or replaced, and for the submission
  lock. Nothing in the code counts queries.
- `MaxEvents = 2` in `server_one`: an answer and a progress event, in either order.
  `server_two` uses 0 (a job's begin, run and end remain), since counts and files are
  per query. Its `ServerView` identifies states that differ only in absolute revisions,
  in a record that is over or in a child nobody reads; `server_one` has no view.
- `MaxDowns = 1`, `MaxFails = 1`: a crash at every step; a second one finds what the
  first left, which `recover` has made one of the states already seen.
- `MaxRev = 3` or 4: revisions only order snapshots; a copy must be able to lag by
  two writes.
- Arena: pages of two rows, documents of two and three pages, windows of a row and
  of a page, pools too small for all documents, so every reservation may have to
  evict; at most one hold and one reading per key (`MaxKept`) on top of block tables,
  and answers that grow by at most one page (`MaxGrown`).
  `ArenaView` drops page numbers, which no operator compares, and `Symmetric` permutes keys.
- Executor: up to six documents in chains, siblings and pairs that share one or two
  pages; a pass that fits one to three of them, so queues, holds and two passes in
  flight all occur; conditions over a chain and over two pairs, so a document waits for its
  stage while one that borrows from it is queued; eight every-token and seven sliding pages, so admission blocks and
  evicts. The arena has at least the pages of two chunks, as the planner gives it
  (`cost/budgets.py:231`, `execution_pages`): with fewer, the rounding of sliding pages
  (`arena.py:783`) can leave the scheduler counting a page the arena has not got.
- Answers: three documents, answers of at most four tokens, pages of two rows and six
  pages, of which an earlier operator retains one. Three answers cannot all reach their
  ends in them, so answers grow, evict one another with tokens in flight, and come back
  in pieces; `StopsAnywhere` takes every pattern of answers that stop at once, on the way
  or never. One decoded stage more, or a fourth document, adds no new neighbour.
- Workers: three queries, because a failed run can cost the next one; up to three GPUs,
  since the shard algorithms first differ from halving at three; two faults, so that a
  second falls on what the first left. `MaxFaults` and `MaxQueries` are bounds of the model.

## Fairness

- `QueryServer!FairSpec`: the scheduler and reader threads go on (weak fairness).
  A sync ends, a stop completes, a process that went down is started again.
  `PickQuery` has strong fairness: the loop polls `next_queued` at times of its own,
  while submissions hold and release the lock it only tries. A job, its child and a
  client owe nothing: a job may hang for ever. Deadlines are not part of it; properties
  that need them say `DeadlinesPass =>`, and `CancelEnds` and `StopEnds` do not.
- `CheckpointedStore!FairSpec`: the checkpoint thread, the event loop, a submission, a
  stop and the readers go on, a query that starts ends (which `EveryQueryCloses` shows of the
  server), a machine is replaced. `TimerPasses` has none, so `StateChangesCopied` does
  not rest on the progress timer, and `TimesOut` has none, so a reader learns of an end
  because the write wakes it and not because it looks again after a while; `CopyFails` is bounded by `MaxFails`.
- `StageExecutor!Spec` and `AnswerDecoding!Spec`: one thread that is never blocked. `GoesOn`
  says that it rests again and again or takes steps again and again. While no state is a
  deadlock, which TLC checks in these runs, that is weak fairness of `Next`; stated so,
  it spares TLC the ENABLED of a large action.
- `GpuWorkers!Spec`: weak fairness of the process and of each child. Nothing has to be
  submitted, and no fault has to happen.

## Proofs

Every theorem holds for every set of ids and models, every number of GPUs, and every
bound, every set of keys, size of pools and pages, window and cap. They assume what the
modules state of their constants (`ConstantsAssumption`, `CheckpointAssumption`,
`BoundsAssumption`, `PlansAssumption`, `ExecutorAssumption`, `PageTokensAssumption`, `KeysAssumption`,
`PoolAssumption`, `CallsAssumption`): `None` is no id, bounds and lengths are natural
numbers, a page has at least one row, keys are finitely many, a plan is well formed.

*Query server, records.* `TypeSafe` is `Spec => []TypeOK`. `TypeOK` alone is not
inductive: an action indexes `db`, `exec` and `child` by ids held in other variables, so
`TypeInv` adds `Pointers` (a scheduler past `pick` has a query, a live execution has a
child). `TerminalSafe` needs no more than types: every statement of the store that
changes a record's state names the states it may leave (`TerminalStep`). `ActiveSafe`,
`InFlightSafe` and `AckedSafe` are proved together: `LockInv` conjoins them with
`Reserved` (the record of a submission in flight exists and is neither acknowledged
nor picked). None is inductive alone: a submission could be discarded under
the scheduler unless it is known not to be selected, and it is not selected because
its lock is held.

*Query server, jobs.* `OwnEvents` and `SucceededCountsAnswers` speak of a pipe's contents
and a file's length; what makes them true is three layers down. `ThreadInv` says who
runs: nothing belongs to a query that has not started (`Fresh`), only the scheduler's
query has a reader that applies events (`OneRuns`), live executions have children of
their own (`Apart`), and a reader that was stopped drains the pipe of a dead child
(`Drains`). `StartInv` is the record between its begin and the start of its job.
`PipeInv` then follows one job's events from child to record (`ReaderInv`): what is left
in the pipe is that job's, `running` comes before `finished` and nothing after it, and
while the record accepts the reader's epoch its count is the number of lines written;
a child nobody reads has an empty pipe (`Free`), which is why
`ChildProcessExecutor.start` may reuse it. A success is written only by the reader that
has flushed its count, hence `CountsSafe`.

*Query server, promise.* `RecordRefinement` is `Spec => ImplementsRecord`. For every
action there is a lemma that names its abstract step (`SubmitMaps`, ..., or a stutter).
Two facts are needed that no type gives: `OneActive`, since a record may start only once,
and `Asked`, since the scheduler's verdict was read earlier and the record it closes
must still be one that was asked to cancel.

*Query server, order.* `OldestStarts` is `Spec => OldestStartsFirst`. `next_queued` and
`begin` are two steps with no lock between them, so the choice must survive whatever
comes in between (`StillOldest`). A submission enters the order at its end, a record never
becomes queued again, and a discard takes out one place, which is not that of the chosen
query (`InFlightNotSelected`). `BornOnce`, each id at most once in the order, makes the
chosen record's place the one `OldestStartsFirst` speaks of.

*Checkpoint.* `AckedSafe` (`AckedSurvives`) rests on `DurableInv`. Its heart is
`CountsAreFaithful`: when the counts noted after a copy equal the live counts, the
committed copy equals the live database; and `CopyIsFaithful`, the same of a copy in
flight, which holds because counts are read before the backup. `InFlight` and
`Owner` say which of the three callers of the lock a copy belongs to, so that a
sync that skips has nothing left to copy. `CleanStopSafe` adds that nothing writes
after the stop's last copy (`StopInv`).

*Workers.* `RepliesSafe` and `BoundSafe` rest on one invariant, `PipeInv`: between rounds
every pipe is empty unless a child is gone (`Quiet`), and then the children are replaced
before the next round. Inside a round each child has the round's message, or its reply,
or has been read (`Receiving`); a round that raises still reads every child it sent to
(`worker.py`, `GpuWorkers.round`), and that is what restores `Quiet`. What a child is
bound to comes with its boot message, which the coordinator makes after the last search, so it
is the exact plan; the GPU of a one-GPU query is bound before, and `BoundSafe` promises
of it that the query is its own.
`FailuresPaid` adds up who pays: `PaidInv` says that the queries that failed, the GPUs
whose arena is left read, and the troubles on their way to a query (`Owed`) are no more
than the faults, with one more for each run that raised (`Paid`). `HomeSafe` rests on
`HomeInv`: no two children retain KV of one document (`Apart`), the coordinator's map of
documents to children names the child that retains each document of the query when a
round is sent (`Settled`), and a child that has been asked, or has replied, has only
documents the map gives it (`Answers`). Which child a fresh document goes to is a fold
and does not matter: the map changes only where it names nobody. What a shard contains
is a fact about `Sifted` (`SiftedIs`).

`AnswersAsOne` compares several GPUs with one, and rests on `AnswerInv`: after each group
`ids` is what one GPU would have left (`InStep`, by `LeftAfter`), each child's message is
its shard and its reply what a run returns of it (`Dealt`), and the documents of one stop
key have one child (`Owned`, by `KeyHomes`). A round keeps this because
`KeyedShards` and `Place` give every document one child in range (`KeyedShardsIs`,
`PlaceIs`), so the shards divide the documents and no stop key's group is divided. What
survives a shard is therefore the shard's part of what survives all (`LastingShard`). The
replies ascend and are disjoint, so `Merged`, which sorts them, is `Ascending` of their
union (`MergedIs`). Owners never change during a round, for by `HomeInv` a reply
only retains what its child was given (`RetainedSame`). A last group with a limit may
return less than survives; then some child has met the limit, and so has the merge.
`Balanced`, `GroupTokens` and `LeftAfter` are recursive functions over ranks, documents
and groups: `RepeatsExists` says that such a function is the one its definition
describes, by an induction over sets of naturals (`UpTo`), and `LightestIs` that a
lightest GPU exists, which is all the placement needs.

*Arena.* The three safety properties of `ArenaCalls` rest on one inductive invariant,
`ArenaInv`. `PoolOK` alone is not inductive: to hand a free page out again, and to count
one release per reader, a table must not name a page twice (`PoolInv` adds it). That
tables which share a page read it at one row (`Aligned`) survives a borrow only if a
lent stretch begins on a page's first row and lies within the parent's pages, so
`PoolFine` adds that each key's start is whole pages, that its tokens are the rows from
its start to its base, and that they fit between the pages it borrows and the pages it has
(`Placed`, `Fits`); a window that is cut keeps this because floors are whole pages
(`FloorsWhole`). `KVArenaProofs` first shows what each pool operation does to counts and
tables, then that each keeps `PoolFine` and each method `ArenaInv`. `Lets` is
the promise to borrowers: from one arena to the next only keys that nothing keeps lose
pages. It composes, so a reservation, which reads two keys, evicts, allocates and ends
its readings, keeps it because each of its calls does; `Untouched` says that the rows it
priced before evicting are the rows it then takes. What a key reads is the set of its
`Spots`, each a page and the row the page ends at: `Stays` and `Narrower` say of a call
which keys read the same and which read less, and `Fills` what a reservation gives its own
key, namely whole pages of its parent, in place, up to the rows it was lent, and pages
nobody else reads (`Alone`) from there on.

*Executor.* `AnswersInOrder`, `NoDocumentLost` and `OneSurvivorPerGroup` are about queues,
and what can go wrong is that a document is in two of them, or in none. `QueueInv` says
where a document of a running operator may be: in the `Line` (queued, or held back by the
chunk that is filled), in the `ReadySet` (ready, or put off by that chunk), in a group of
the chunk (`Planned`), in a group of the pass that is out (`Sent`), or waiting for its
stage to be decided. `Queues` ties these to the stage the document is at, `Streams` to how
far it was asked: a document is ready exactly while its stage has partners left to ask.
`Chains` is what orders the answers: the group in flight starts at the answers received,
the planned one starts where that one ends, and a document with neither has received all
it asked. None of the three is inductive without the others, nor without `Turns`, which
says which lists are empty at which step of the loop: answers are settled only in
`report`, and that a run may end when nothing is queued, planned or out is read from four
lists at once. `GroupsInv` is the account of a stop key group: its documents enter one at
a time while one is busy, and once one has won, the others are done. When an operator has
ended (`~Running`) the records are left as they were, and the invariant says nothing of
them. There is a lemma for each action, and one for each of the ways a document moves on
(`MovedOn`, `MovedOut`, `GroupSettled`).

*Executor, arena.* `ArenaSound` and `EndsClean` are about the arena an operator's loop
calls, and `ArenaCalls` proves them only of calls the arena can serve: releasing a hold
nobody has, or freeing a key nobody knows, is not one. `Loans` is what makes every call
of the loop such a one. `Known`: only documents are resident, each with its own length,
and what is held or read is resident. `Lending`: parents lend whole pages, and only a
lender is held. `Reading`: a key is read once for each planned borrower of it that was
given its pages, which a submission then returns. `Unplaced`: a queued document has pages
only from an operator before, and then it borrows from nobody. `Owned`: whatever is
resident is evictable, owed a free, or some list's to settle, so that nothing is forgotten.
Between operators the arena is `Parked`: nothing held or read, and only evictable keys.
The loop's calls compose to one relation (`Yields`: what is kept stays, what is lost was
kept by nobody), and submissions and skips, which are recursions over a list in the code's
order, are followed group by group (`GoneSoFar`, `Skipping`).
`HoldsMatchQueue` needs `HeldInv` besides: at every step, and not only between chunks, a
parent's holds are for the borrowers that may still come (`Coming`) and those in the
planned chunk that have rows of their own to pack (`Loading`); one that is admitted moves
from the first to the second, one that is skipped leaves the first, one that is submitted
leaves the second. A borrower always has rows of its own (`Borrowers`), or its parent's
hold would never come back; and `SkipsOnce` says that no document is skipped twice.
`PlannedPagesFree` is about numbers two records apart: what `admit_ready` subtracts from
the chunk's pages is a price computed when the document was queued, what the arena takes
is computed when it is placed, and other documents are placed, evicted and freed between
the two. `PricedInv` is that a queued document's price stays right while the loop runs: no call of the
loop but its own reservation may touch it (`Spares`), because it is neither retained, nor
owed a free, nor anybody's to settle. So every admission takes exactly its price, every
eviction only adds pages, and the chunk's pages and temporary pages together never exceed
the free ones (`PagesThere`).

*Executor, KV.* `ReadsOwnPrefix` is about what pages hold, and a page that changes hands
keeps the rows of whoever wrote it last. `ReadInv` follows it from the page to every
document that reads it. `Agree`: two documents that read one page begin with the same
rows up to the page's last, because a borrower takes only whole pages of a parent it
shares them with (`Kinship`, from the sorted texts: `SharesWithParent`), and every other
page it is given is its own. `Computed`: a page a document has tokens on holds that
document's prefix, or is read by a document of the planned chunk that will compute it.
So when a pass writes a page, whichever of its readers writes it, what it writes is the
prefix of them all (`AfterPassIs`). `Chose` places the window of a packed document where
its own rows need it. `Seated` says that a document that is asked has its pages and
nothing may evict or free them, `Carries` that a queued one packs all its rows or, having
pages, none; without the second a document admitted with pages of its own could be
counted on to compute rows it never packs. `ReadInv` is not inductive alone: that an
admitted document is nobody's to evict is `PricedInv`, and that its parent is resident
is `Loans`.

*Answers.* `TokensLandInOrder` and `AnswersWhole` rest on `Inv` of `AnswerDecodingProofs`,
four statements about four records that are inductive only together. `PlaceInv` is where
a document is: its stage, and the one group, queue or list it is in (`InPlace`, `Waits`);
the groups of the pass that is out and of the parts still to run are one list of lots, so
that packing, halving and sending a pass only move cells of it (`Moves`). `DecInv` says of each slot that the
copies on their way that hold a token of its current answer account for the rows fed and
not yet read (`Paced`) and carry the next indices in order (`InSequence`); that tokens of
an earlier answer, which the host must skip, are ahead of those (`StaleFirst`); and that
an answer writes for the stage its document is at (`Staged`). `Houses` says who has pages:
a document in the middle of a stage and not evicted. `Evicted` says that an answer taken
for recomputation has no token on its way, so that it goes on from `written`. They need
each other: an answer may start only because no list holds its document twice and none
of its tokens counts as the new answer's; a slot that finished with a row in the chosen pass
still sends one token, which no answer counts (`s \in C => ... s \in stopped`). What a host
that looks at any time reads is any number of copies: `ReadSlot` is one copy, slot by
slot, and `Landed` any number of them, by induction over their number.
`AnswersWhole` follows: a stage beyond the first is reached only with the first one's
length set, and an answer's length is set only at its stop token or the limit.

| Theorem | States |
|---|---|
| `QueryServerProofs!TypeSafe` | `Spec => []TypeOK` |
| `QueryServerProofs!TerminalSafe` | `Spec => TerminalNeverChanges` |
| `QueryServerProofs!ActiveSafe` | `Spec => []ActiveIsScheduled` |
| `QueryServerProofs!InFlightSafe` | `Spec => []InFlightNotSelected` |
| `QueryServerProofs!AckedSafe` | `Spec => []AckedKept` |
| `QueryServerProofs!OwnEventsSafe` | `Spec => []OwnEvents` |
| `QueryServerProofs!CountsSafe` | `Spec => []SucceededCountsAnswers` |
| `QueryServerProofs!RecordRefinement` | `Spec => ImplementsRecord` |
| `QueryServerProofs!OldestStarts` | `Spec => OldestStartsFirst` |
| `CheckpointedStoreProofs!TypeSafe` | `Spec => []TypeOK` |
| `CheckpointedStoreProofs!AckedSafe` | `Spec => []AckedSurvives` |
| `CheckpointedStoreProofs!CleanStopSafe` | `Spec => []CleanStopKeepsAll` |
| `GpuWorkersProofs!RepliesSafe` | `Spec => []RepliesInStep` |
| `GpuWorkersProofs!BoundSafe` | `Spec => []QueriesRunAsBound` |
| `GpuWorkersProofs!FailuresPaid` | `Spec => []FailuresPaidFor` |
| `GpuWorkersProofs!HomeSafe` | `Spec => []KVAtHome` |
| `GpuWorkersProofs!AnswersAsOne` | `Spec => []AnswersAsOneGpu` |
| `ArenaCallsProofs!ArenaInvariant` | `ArenaSpec => []ArenaInv(arena)` |
| `ArenaCallsProofs!PagesAccountedAlways` | `ArenaSpec => []PagesAccounted` |
| `ArenaCallsProofs!RowsAgreeAlways` | `ArenaSpec => []RowsAgree` |
| `ArenaCallsProofs!KeptKeysStayAlways` | `ArenaSpec => KeptKeysStay` |
| `StageExecutorProofs!QueuesSound` | `Spec => []QueueInv` |
| `StageExecutorProofs!InOrderAlways` | `Spec => []AnswersInOrder` |
| `StageExecutorProofs!AllSettled` | `Spec => []NoDocumentLost` |
| `StageExecutorProofs!OneSurvives` | `Spec => []OneSurvivorPerGroup` |
| `StageExecutorProofs!ArenaStaysSound` | `Spec => []ArenaSound` |
| `StageExecutorProofs!EndsCleanly` | `Spec => []EndsClean` |
| `StageExecutorArenaProofs!HoldsMatch` | `Spec => []HoldsMatchQueue` |
| `StageExecutorArenaProofs!PagesAreThere` | `Spec => []PlannedPagesFree` |
| `StageExecutorArenaProofs!ReadsOwnKV` | `Spec => []ReadsOwnPrefix` |
| `AnswerDecodingProofs!AnswerDecodingInv` | `Spec => []Inv` |
| `AnswerDecodingProofs!TokensLand` | `Spec => []TokensLandInOrder` |
| `AnswerDecodingProofs!AnswersAreWhole` | `Spec => []AnswersWhole` |

Only model-checked: all liveness (TLAPS has no ENABLED, so no fairness); of the
executor `NeverStuck`; and `ContextIsWhole` of `AnswerDecoding`.
The last two do not hold of every plan. The pages that a plan's operators keep may leave a
later one no room (the finding of `exec_crowded`). Where another stage follows an answer
that was evicted with its last tokens on their way, its context is gone (the finding of
`answers_later`), so `ContextIsWhole` leaves out the groups of slots that ended while
evicted, and says all the rest of every plan of `answers` (`AnswerPlans`), which meet that too.
How evenly `Balanced` and `Contiguous` share the tokens is no property of the project:
it would need facts about sums along a recursion.

## Disagreements between code and documentation

Each is a violation run and a finding of `PROJECT.json`.

- `checkpoint_repeated`: a retry of an id "cannot see it, until the syncs have run or
  the record is discarded" (`server/app.py:286`), but a record cancelled while its sync
  failed is neither, and a retry is answered without a sync.
- `checkpoint_watch`: `watch` yields newer revisions "until done"
  (`remote/client.py:221`), but after the restore of an older copy a query can end at a
  revision not above the last one seen, and the loop goes on for ever.
- `exec_refused`: "nothing survives in the arena between queries"
  (`worker.py:140`), but a pass that raises leaves its readings, their keys are not
  freed, and the next query's resize refuses the arena.
- `exec_crowded`: the count of a retained key's pages "is a lower bound, and admission
  short of pages evicts anyway" (`pages.py:199`), and retention leaves two chunks free
  (`cost/retention.py:38`). But pages that two kept keys share count for neither, so the
  cap does not see them, and the next operator pins what it reads (`stage_executor.py:249`).
  A filter keeps three documents and their continuations; the partners of the join that
  follows are longer and need more temporary pages than are left. No document is
  admitted, nothing can be evicted, and the run raises "nothing buildable and nothing in
  flight" (`stage_executor.py:1053`). `NeverStuck` therefore holds of plans, such as those of
  `exec_plans`, and not of every plan.
- `answers_later`: a map that follows "reads the KV the operators before it wrote"
  (`physical/nodes/map.py:59`), but an answer that is evicted while the token that ends
  it travels leaves no recomputation (`stage_executor.py:536`), and its document goes to
  the next stage without KV. The token may be a stop token or the one at the limit, since
  an answer whose rows are all packed can be the victim (`map_decoder.py:316`). Unified
  attention raises (`chunk.py:727`), tree attention asks a filter that reads nothing, and
  a further answer fails at its pages. Each plan of `LaterStages` alone shows it.

Met while modelling, without a run of their own: on one GPU a query runs on the GPU that
was bound for its estimated plan (`api/execute.py:151`), although `wait_for_tokens` searches the
plan again with exact lengths (`api/query.py:371`) and `arena_pages` "resizes the KV pools to
the plan's split" (`worker.py:140`): `execute_quail_payload` uses the prepared boot and does
not bind again (`worker.py:385`), so `QueriesRunAsBound` asks for the exact plan of children only; the answers route's `done` "says whether
more can come" (`server/app.py:341`), but a record is closed before its execution is
stopped (`server/scheduler.py:157`), and an answer may still be appended; a refused submission can
have been copied by the checkpoint thread before it is discarded, and comes back
after a crash; the pages a retained key was counted for are not "a lower bound"
(`pages.py:199`) once another key borrows from it; a parent stays held for a borrower
that settled without a chunk until holds are dropped (`HoldsMatchQueue` counts it).

## Assumptions and what is left out

- *Server.* `created_at` grows with each submission. SQLite writes succeed, except inside
  `emit`, where the code catches them; the hazard at `store.py:408` (a write that fails
  inside `finish`, which the loop logs and leaves an active record behind) is therefore open.
  With one query `EveryQueryCloses` says nothing of a queue that starves behind the submission
  lock, and no write happens while a machine stops. Routes finish before the lifespan ends (uvicorn). The
  label `model_ready` and the wording of progress are left out, as are uploads, downloads,
  the query list, logs and the warm-up of a child, and with them two hazards of files
  that a crash cuts off from their records (`remote/artifacts.py:44`, `server/app.py:358`).
- *Checkpoint.* A commit that raises has no effect on the volume. The local disk of
  a container is lost with it. Artifacts and uploads on the volume are left out.
- *Arena.* The order of evictions is open; the order of the free stack is
  abstracted. Checkpoint slots of recurrent layers, temporary keys and the tensors
  are left out.
- *Executor.* Decoded answers, their replays and the halving of a chunk are in
  `AnswerDecoding`, without borrowing; borrowing, joins and retention between operators
  are in `StageExecutor`, without answers. Dependent branches, stages that append to a
  document, checkpoint slots and copy-constrained drafts are in neither. What an operator
  decides for a document at a stage is left open among what the stage's kind allows. A limit
  comes with a single operator, as in the code (`graph.py` sets none for a query with a
  join). A document has the same prefix for every operator. A borrower in its parent's own
  chunk always finds it resident, since a reservation allocates at admission.
- *Workers.* A message is received whole or not at all. The partners of a join go whole
  to every child and are left out, as are reports of time and memory. `ExecuteHere`
  applies a limit after the last group: the planner refuses a limit with several pipelines. Every scan
  arrives sharded, so `Place` finds no document without a child: what is checked of it is that
  it leaves those with one alone.
- *Not modelled*: forward pass and numerics, model operators, physical execution,
  baselines, SQL, logical plans, planner, cost model, specs, deployment. `PROJECT.json`
  gives the reason for each. They are tensor code, functions of their input, or, for the
  baselines, loops over external servers; together with benchmarks and experiments they
  are most of the repository's lines, and no state of theirs is shared or outlives a
  call. The map therefore covers a small share of the lines: the part of the program
  where steps interleave, and little else.

## Plan

What would add most next, in this order:

1. `NeverStuck` of `StageExecutor` and `ContextIsWhole` of `AnswerDecoding`, each for the
   plans it holds of: what must stay free between operators, and which answers may end early.
2. `RequestScheduling`: the baselines' request loops (`filter_document_cap`,
   `run_filter_sequence`, `run_extract_fields`, `run_join_grouped`): documents in
   flight never exceed the cap, every document is answered once, a failure ends
   the loop.
3. `SavedAnswers`: answers files and uploads across crashes, with the two hazards of
   files that are still open.
4. Borrowing and answers in one executor, with dependent branches and checkpoint slots.
   The question to ask first there is the count of survivors under a limit: `_enter`
   (`admission.py:405`) counts a document whose trailing conditions skip its last stage
   at once, outside `_counted`, and `_count_survivor` (`admission.py:878`) runs again
   when a branch of it ends. Whether a document can then count twice towards its limit
   has only been read, and no run here reaches it: `StageExecutor` has the conditions
   and the limit, and `AnswerDecoding` the answers, but neither has branches.
