------------------------------ MODULE GpuWorkers ------------------------------
(***************************************************************************)
(* The process that runs queries on GPUs, and the processes it starts when *)
(* a query asks for several: api/execute.py (one engine per process),      *)
(* backends/quail/worker.py (booting a GPU, the children and their         *)
(* rounds), distributed.py and coordinator.py (which child a document goes *)
(* to, and the merging of what the children return).                       *)
(*                                                                         *)
(* A query on one GPU runs in this process: the GPU is prepared from the   *)
(* plan alone, the documents are waited for, the plan is searched again    *)
(* with their exact lengths, and the query runs on what was prepared for   *)
(* the plan before.  A query on several GPUs runs in rounds: one message to   *)
(* every child, one reply from each.  A child may raise in any message and *)
(* may die at any time, leaving replies in its pipe.                       *)
(*                                                                         *)
(* What a pass over the documents computes is a constant of the plan: the  *)
(* documents that answer yes in each group of operators.  A worker's KV is *)
(* the set of documents it retains, each with the query it was computed    *)
(* for.  Left out: joins' partners, which go whole to every child, timing, *)
(* memory reports, and the order in which a survivor is found.             *)
(***************************************************************************)
EXTENDS SequencesExt, InOrder

CONSTANTS Plans,        \* the queries that may be submitted
          MaxQueries,   \* bound: how many are
          MaxChildren,  \* bound: the GPUs a plan asks for
          MaxFaults     \* bound: how many exceptions and deaths happen

(***************************************************************************)
(* A plan: its engine's configuration, its GPUs, its documents' lengths    *)
(* and stop key groups (numbered as they appear; <<>> without a stop key), *)
(* the documents that pass each group of operators, and a limit or 0.  The *)
(* settings a GPU is bound to (arena_pages, chunk_tokens) are a number:    *)
(* those of the plan made on a sample's lengths (draft) and those of the   *)
(* plan searched again with every length (exact).                          *)
(***************************************************************************)
PlanRecord(p) ==
    /\ p.gpus \in 1..MaxChildren /\ p.lengths \in Seq(Nat) /\ p.limit \in Nat
    /\ p.draft \in Nat /\ p.exact \in Nat
    /\ p.keys \in Seq(Nat) /\ (p.keys = <<>> \/ Len(p.keys) = Len(p.lengths))
    /\ p.passes \in Seq(SUBSET (DOMAIN p.lengths)) /\ Len(p.passes) > 0

ASSUME BoundsAssumption == MaxQueries \in Nat /\ MaxFaults \in Nat /\ MaxChildren \in Nat
ASSUME PlansAssumption == \A p \in Plans : PlanRecord(p)

VARIABLES
    pc,        \* what this process is doing
    plan,      \* the query that runs, or ran last
    settings,  \* query._plan's settings: the draft's, then the exact plan's
    count,     \* how many queries have been submitted: the running one's number
    engine,    \* the configuration the process's engine is for, or <<>>
    here,      \* the GPU loaded in this process
    prepared,  \* gpu.prepared_boot: the boot the next execution may use
    workers,   \* the children, <<>> when none were started
    started,   \* the configuration the children were started for
    todo,      \* each child's pipe, towards it
    replies,   \* each child's pipe, from it
    round,     \* the round in progress: 0 for boot, g for group g
    replied,   \* the replies read in it
    owners,    \* document -> the child that holds its KV, or 0
    ids,       \* the documents left, in their input order
    outcomes,  \* how each query ended
    faulted    \* each fault: the query it fell in, and whether a run raised

local == <<engine, here, prepared>>
pipes == <<workers, started, todo, replies>>
rounds == <<round, replied, owners, ids>>
vars == <<pc, plan, settings, count, local, pipes, rounds, outcomes, faulted>>

Documents == DOMAIN plan.lengths

-----------------------------------------------------------------------------
(* One GPU. *)

(* No model loaded: worker.py LoadedGpu is None. *)
NoGpu == [up |-> TRUE, gpu |-> "none", bound |-> [query |-> 0, settings |-> 0],
          context |-> 0, kv |-> {}]

(* What a GPU is bound to: a query, and the settings its plan had then.    *)
ThisPlan == [query |-> count, settings |-> settings]

(* _boot_gpu: load the model or reuse it, and bind the query; a failed     *)
(* boot releases the GPU.  bind_query resizes the arena, which refuses one *)
(* whose keys a pass that raised left read.                                *)
Boots(w) == w.gpu # "read"

(* A variant that keeps a GPU whose boot failed, for FailuresPaidFor. *)
BootKeeping(w, binding) ==
    IF Boots(w) THEN [w EXCEPT !.gpu = "loaded", !.bound = binding, !.context = 0, !.kv = {}]
                ELSE [w EXCEPT !.context = 0]

BootGpu(w, binding) ==
    IF Boots(w) THEN [w EXCEPT !.gpu = "loaded", !.bound = binding, !.context = 0, !.kv = {}]
                ELSE [w EXCEPT !.gpu = "none", !.context = 0, !.kv = {}]

(* The documents of a sequence that survive a group: those that pass, and  *)
(* of a stop key's documents the first that does.                          *)
Survives(p, g, docs, d) ==
    /\ d \in p.passes[g]
    /\ p.keys # <<>> =>
          \A e \in ToSet(docs) \cap p.passes[g] : p.keys[e] = p.keys[d] => d <= e
Survivors(p, g, docs) == Sifted(docs, {d \in ToSet(docs) : Survives(p, g, docs, d)})

(* The documents left of some after n groups on one GPU. *)
LeftAfter(p, docs, n) ==
    LET left[g \in 0..Len(p.passes)] == IF g = 0 THEN docs ELSE Survivors(p, g, left[g - 1])
    IN left[n]

(* What a run may return: a limit stops it once enough survive. *)
Returned(p, limit, g, docs) ==
    LET all == Survivors(p, g, docs) IN
    {Sifted(all, s) :
        s \in {s \in SUBSET ToSet(all) : s = ToSet(all) \/ (limit > 0 /\ Cardinality(s) >= limit)}}

-----------------------------------------------------------------------------
(* Where documents go: distributed.py and coordinator.py. *)

(* planner balanced_shards: the longest item first, to the least loaded. *)
Lightest(load) ==
    CHOOSE w \in DOMAIN load : \A v \in DOMAIN load : load[w] <= load[v] /\ (v < w => load[w] # load[v])
Balanced(items, size, gpus) ==
    LET Longer(x, y) == size[x] > size[y] \/ (size[x] = size[y] /\ x < y)
        order == Ranked(items, Longer)
        load[n \in 0..Cardinality(items)] ==
            IF n = 0 THEN [w \in 1..gpus |-> 0]
            ELSE [load[n - 1] EXCEPT ![Lightest(load[n - 1])] = @ + size[order[n]]]
    IN [x \in items |-> Lightest(load[Cardinality({y \in items : Longer(y, x)})])]

(* A variant that balances the documents themselves, for AnswersAsOneGpu. *)
DocumentShards(p) == Balanced(DOMAIN p.keys, p.lengths, p.gpus)

(* The tokens of a stop key's group, over the documents in turn. *)
GroupTokens(p, k) ==
    LET tokens[n \in 0..Len(p.keys)] ==
            IF n = 0 THEN 0
            ELSE IF p.keys[n] = k THEN tokens[n - 1] + p.lengths[n] ELSE tokens[n - 1]
    IN tokens[Len(p.keys)]

(* keyed_shards: every document of a stop key's group on one child. *)
KeyedShards(p) ==
    LET groups == ToSet(p.keys)
        of == Balanced(groups, [k \in groups |-> GroupTokens(p, k)], p.gpus)
    IN [d \in DOMAIN p.keys |-> of[p.keys[d]]]

(* planner contiguous_shards: ranges of documents, each as near as can be  *)
(* to an even part of the tokens left.  Tokens are compared times the      *)
(* workers left, as the source's quotients.                                *)
Total(lengths, n) == FoldLeft(+, 0, SubSeq(lengths, 1, n))
FirstIn(S, otherwise) == IF S = {} THEN otherwise ELSE CHOOSE n \in S : \A m \in S : n <= m
Distance(x, y) == IF x < y THEN y - x ELSE x - y

Stop(lengths, start, left) ==
    LET n == Len(lengths)
        used == Total(lengths, start)
        part == Total(lengths, n) - used
        Load(m) == Total(lengths, m) - used
        reached == FirstIn({m \in start + 1 .. n : Load(m) * left >= part}, n)
        nearer == /\ reached > start + 1 /\ Load(reached - 1) > 0
                  /\ Distance(part, Load(reached - 1) * left) <= Distance(part, Load(reached) * left)
        filled == FirstIn({m \in 0 .. n : Total(lengths, m) > used}, n + 1)
        empty == FirstIn({m \in filled .. n - 1 : lengths[m + 1] = 0}, n)
        stop == IF nearer THEN reached - 1 ELSE reached
    IN IF left = 1 THEN n ELSE IF empty < stop THEN empty ELSE stop

Contiguous(lengths, gpus) ==
    LET Add(stops, left) == Append(stops, Stop(lengths, IF stops = <<>> THEN 0 ELSE Last(stops), left))
        stops == FoldLeft(Add, <<>>, [w \in 1..gpus |-> gpus + 1 - w])
    IN [d \in DOMAIN lengths |-> FirstIn({w \in 1..gpus : d <= stops[w]}, 0)]

(* DistributedQuailExecution.__init__ *)
Placed(p) == IF p.keys # <<>> THEN KeyedShards(p) ELSE Contiguous(p.lengths, p.gpus)

(* A variant that places every document anew in each group, for KVAtHome. *)
PlaceAnew(at) == Balanced(ToSet(ids), [d \in Documents |-> plan.lengths[d] + d * round], plan.gpus)

(* _shards: the unplaced documents are balanced over the children. *)
Place(at) ==
    LET missing == {d \in ToSet(ids) : at[d] = 0}
        fresh == Balanced(missing, plan.lengths, plan.gpus)
    IN [d \in Documents |-> IF d \in missing THEN fresh[d] ELSE at[d]]

Shard(at, i) == Sifted(ids, {d \in Documents : at[d] = i})

-----------------------------------------------------------------------------
(* The process's engine and its queries. *)

NoWorkers == workers' = <<>> /\ todo' = <<>> /\ replies' = <<>>

(* _BackendState.bind: another configuration releases the loaded engine,   *)
(* its children and its GPU.                                               *)
Bind(p) ==
    IF engine = <<p.model, p.gpus>> THEN UNCHANGED <<engine, here, prepared, pipes>>
    ELSE /\ engine' = <<p.model, p.gpus>>
         /\ here' = NoGpu /\ prepared' = FALSE
         /\ NoWorkers /\ UNCHANGED started

(* execute_query *)
Submit(p) ==
    /\ pc = "idle" /\ count < MaxQueries
    /\ plan' = p /\ settings' = p.draft /\ count' = count + 1 /\ pc' = "prepare"
    /\ ids' = [d \in DOMAIN p.lengths |-> d]
    /\ round' = 0 /\ replied' = <<>> /\ owners' = Placed(p)
    /\ outcomes' = Append(outcomes, "running")
    /\ Bind(p) /\ UNCHANGED faulted

Ends(how) == pc' = "idle" /\ outcomes' = [outcomes EXCEPT ![count] = how]
(* Something fails: a run over documents raises, or something else. *)
Fault(raised) ==
    /\ Len(faulted) < MaxFaults
    /\ faulted' = Append(faulted, [query |-> count, raised |-> raised])

(* prepare_quail_request: one GPU boots before the documents are there.    *)
PrepareHere ==
    \/ /\ Boots(here) /\ here' = BootGpu(here, ThisPlan)
       /\ prepared' = TRUE /\ pc' = "tokens" /\ UNCHANGED <<outcomes, faulted>>
    \/ /\ ~Boots(here) /\ here' = BootGpu(here, ThisPlan)
       /\ prepared' = FALSE /\ Ends("failed") /\ UNCHANGED faulted
    \/ /\ Fault(FALSE) /\ here' = NoGpu
       /\ prepared' = FALSE /\ Ends("failed")

(* A variant that trusts a boot nobody used, for QueriesRunAsBound.        *)
PrepareOnce ==
    /\ pc = "prepare"
    /\ IF plan.gpus = 1 /\ ~prepared THEN PrepareHere
       ELSE pc' = "tokens" /\ UNCHANGED <<here, prepared, outcomes, faulted>>
    /\ UNCHANGED <<plan, settings, count, engine, pipes, rounds>>
Prepare ==
    /\ pc = "prepare"
    /\ \/ plan.gpus = 1 /\ PrepareHere
       \/ plan.gpus > 1 /\ pc' = "tokens" /\ UNCHANGED <<here, prepared, outcomes, faulted>>
    /\ UNCHANGED <<plan, settings, count, engine, pipes, rounds>>

(* wait_for_tokens, which searches the plan again with exact lengths, and  *)
(* _prepare_physical, which makes the request from it.  The GPU prepared   *)
(* for the draft is not bound again.  Either may raise, as when the exact  *)
(* plan is a refusal.                                                      *)
Tokens ==
    /\ pc = "tokens"
    /\ settings' = plan.exact
    /\ \/ pc' = "execute" /\ UNCHANGED <<outcomes, faulted>>
       \/ Fault(FALSE) /\ Ends("failed")
    /\ UNCHANGED <<plan, count, local, pipes, rounds>>

(* execute_quail_payload: the prepared boot is used once, as it was bound. *)
ExecuteHere ==
    /\ pc = "execute" /\ plan.gpus = 1
    /\ prepared' = FALSE
    /\ LET w == IF prepared THEN here ELSE BootGpu(here, ThisPlan)
           g == Len(plan.passes) IN
       \/ /\ \E left \in Returned(plan, plan.limit, g, LeftAfter(plan, ids, g - 1)) : ids' = left
          /\ here' = [w EXCEPT !.context = count, !.kv = {}]
          /\ Ends("ok") /\ UNCHANGED faulted
       \/ /\ Fault(TRUE) /\ Ends("failed") /\ UNCHANGED ids
          /\ \E gpu \in {"loaded", "read"}, s \in SUBSET ToSet(ids) :
                here' = [w EXCEPT !.gpu = gpu, !.context = count, !.kv = {<<count, d>> : d \in s}]
    /\ UNCHANGED <<plan, settings, count, engine, pipes, round, replied, owners>>

-----------------------------------------------------------------------------
(* The children and the rounds. *)

Alive == workers # <<>> /\ \A i \in DOMAIN workers : workers[i].up
(* A variant that keeps children as long as their configuration is the     *)
(* query's, for FailuresPaidFor.                                           *)
SameConfiguration == workers # <<>> /\ started = <<plan.model, plan.gpus>>

Reusable == Alive /\ started = <<plan.model, plan.gpus>>

(* _ensure_children, and the boot round's messages. *)
StartRounds ==
    /\ pc = "execute" /\ plan.gpus > 1
    /\ IF Reusable THEN UNCHANGED pipes
       ELSE /\ started' = <<plan.model, plan.gpus>>
            /\ workers' = [i \in 1..plan.gpus |-> NoGpu]
            /\ todo' = [i \in 1..plan.gpus |-> <<>>]
            /\ replies' = [i \in 1..plan.gpus |-> <<>>]
    /\ pc' = "send" /\ round' = 0 /\ replied' = <<>>
    /\ UNCHANGED <<plan, settings, count, local, owners, ids, outcomes, faulted>>

(* GpuWorkers.round: a message to every child.  A child that is gone       *)
(* breaks the pipe, and the children after it get nothing.                 *)
Message(i, at) ==
    [query |-> count, settings |-> settings, group |-> round, docs |-> IF round = 0 THEN <<>> ELSE Shard(at, i),
     plan |-> plan, limit |-> IF round = Len(plan.passes) THEN plan.limit ELSE 0]

Send ==
    /\ pc = "send"
    /\ LET at == IF round = 0 THEN owners ELSE Place(owners)
           gone == {i \in DOMAIN workers : ~workers[i].up}
           sent == {i \in DOMAIN workers : \A j \in gone : i < j} IN
       /\ owners' = at
       /\ todo' = [i \in DOMAIN todo |-> IF i \in sent THEN Append(todo[i], Message(i, at)) ELSE todo[i]]
       /\ IF gone = {} THEN pc' = "receive" /\ UNCHANGED outcomes ELSE Ends("failed")
    /\ replied' = <<>>
    /\ UNCHANGED <<plan, settings, count, local, workers, started, replies, round, ids, faulted>>

(* _child_main: one message.  An exception is a reply too. *)
Binding(m) == [query |-> m.query, settings |-> m.settings]
Reply(w, m, status, docs) ==
    [query |-> m.query, group |-> m.group,
     bound |-> w.bound, status |-> status, docs |-> docs, kv |-> w.kv]

Answer(i, m, w, status, docs) ==
    /\ workers' = [workers EXCEPT ![i] = w]
    /\ replies' = [replies EXCEPT ![i] = Append(@, Reply(w, m, status, docs))]

ChildBoots(i, m) ==
    /\ m.group = 0
    /\ \/ /\ Answer(i, m, BootGpu(workers[i], Binding(m)), IF Boots(workers[i]) THEN "ok" ELSE "err", <<>>)
          /\ UNCHANGED faulted
       \/ Fault(FALSE) /\ Answer(i, m, NoGpu, "err", <<>>)

(* _child_execute: the first group carries the query, and empties the      *)
(* arena; the last frees every key.                                        *)
Carrying(w, m) == IF m.group = 1 THEN [w EXCEPT !.context = m.query, !.kv = {}] ELSE w
Holding(w, docs) == [w EXCEPT !.kv = {<<w.context, d>> : d \in docs}]

ChildRuns(i, m) ==
    LET w == Carrying(workers[i], m)
        last == m.group = Len(m.plan.passes) IN
    /\ m.group > 0
    /\ \/ \E docs \in Returned(m.plan, m.limit, m.group, m.docs) :
          \E kept \in IF last THEN {{}} ELSE SUBSET ToSet(docs) :
             Answer(i, m, Holding(w, kept), "ok", docs) /\ UNCHANGED faulted
       \/ \E gpu \in {"loaded", "read"}, held \in SUBSET ToSet(m.docs) :
             Fault(TRUE) /\ Answer(i, m, Holding([w EXCEPT !.gpu = gpu], held), "err", <<>>)

Child(i) ==
    /\ workers[i].up /\ todo[i] # <<>>
    /\ ChildBoots(i, Head(todo[i])) \/ ChildRuns(i, Head(todo[i]))
    /\ todo' = [todo EXCEPT ![i] = Tail(@)]
    /\ UNCHANGED <<pc, plan, settings, count, local, started, rounds, outcomes>>

(* A child is killed, or its process aborts: what it sent can still be     *)
(* read.                                                                   *)
Dies(i) ==
    /\ workers[i].up /\ Fault(FALSE)
    /\ workers' = [workers EXCEPT ![i] = [NoGpu EXCEPT !.up = FALSE]]
    /\ UNCHANGED <<pc, plan, settings, count, local, started, todo, replies, rounds, outcomes>>

(* round: every reply is read before an error is raised; a child that is   *)
(* gone ends its pipe.                                                     *)
From == Len(replied) + 1
TakeReply ==
    /\ replies[From] # <<>>
    /\ replied' = Append(replied, Head(replies[From]))
    /\ replies' = [replies EXCEPT ![From] = Tail(@)]
PipeEnded ==
    /\ replies[From] = <<>> /\ ~workers[From].up
    /\ Ends("failed") /\ UNCHANGED <<replied, replies>>
(* Variants that raise at the first error they read, for RepliesInStep,    *)
(* and that wait for a child that is gone, for QueriesEnd.                 *)
ReceiveRaising ==
    /\ pc = "receive" /\ Len(replied) < plan.gpus
    /\ \/ TakeReply /\ IF Head(replies[From]).status = "err" THEN Ends("failed") ELSE UNCHANGED <<pc, outcomes>>
       \/ PipeEnded
    /\ UNCHANGED <<plan, settings, count, local, workers, started, todo, round, owners, ids, faulted>>
ReceiveWaiting ==
    /\ pc = "receive" /\ Len(replied) < plan.gpus
    /\ TakeReply /\ UNCHANGED <<pc, outcomes>>
    /\ UNCHANGED <<plan, settings, count, local, workers, started, todo, round, owners, ids, faulted>>

Receive ==
    /\ pc = "receive" /\ Len(replied) < plan.gpus
    /\ (TakeReply /\ UNCHANGED <<pc, outcomes>>) \/ PipeEnded
    /\ UNCHANGED <<plan, settings, count, local, workers, started, todo, round, owners, ids, faulted>>

(* merge_results: the children's documents, in their input order. *)
Merged ==
    LET found == UNION {{i} \X DOMAIN replied[i].docs : i \in DOMAIN replied}
        Doc(e) == replied[e[1]].docs[e[2]]
        Earlier(e, f) == e[1] < f[1] \/ (e[1] = f[1] /\ e[2] < f[2])
        Before(e, f) == Doc(e) < Doc(f) \/ (Doc(e) = Doc(f) /\ Earlier(e, f))
        order == Ranked(found, Before)
    IN [n \in DOMAIN order |-> Doc(order[n])]

(* _execute: retained KV sets its documents' owners. *)
Retained(at) ==
    [d \in Documents |->
        LET holding == {i \in DOMAIN replied : d \in {k[2] : k \in replied[i].kv}} IN
        IF holding = {} THEN at[d] ELSE CHOOSE i \in holding : \A j \in holding : j <= i]

RoundEnds ==
    /\ pc = "receive" /\ Len(replied) = plan.gpus
    /\ IF \E i \in DOMAIN replied : replied[i].status = "err"
       THEN Ends("failed") /\ UNCHANGED <<round, owners, ids>>
       ELSE /\ IF round = 0 THEN UNCHANGED <<owners, ids>>
                            ELSE ids' = Merged /\ owners' = Retained(owners)
            /\ IF round < Len(plan.passes)
               THEN pc' = "send" /\ round' = round + 1 /\ UNCHANGED outcomes
               ELSE Ends("ok") /\ UNCHANGED round
    /\ UNCHANGED <<plan, settings, count, local, pipes, replied, faulted>>

-----------------------------------------------------------------------------
Init ==
    /\ pc = "idle" /\ count = 0 /\ plan \in Plans /\ settings = plan.draft
    /\ engine = <<>> /\ here = NoGpu /\ prepared = FALSE
    /\ workers = <<>> /\ started = <<>> /\ todo = <<>> /\ replies = <<>>
    /\ round = 0 /\ replied = <<>> /\ owners = <<>> /\ ids = <<>>
    /\ outcomes = <<>> /\ faulted = <<>>

Process == (\E p \in Plans : Submit(p)) \/ Prepare \/ Tokens \/ ExecuteHere \/ StartRounds
               \/ Send \/ Receive \/ RoundEnds
Next == Process \/ \E i \in DOMAIN workers : Child(i) \/ Dies(i)

(* The process and its children keep running; nobody has to submit.        *)
Spec == Init /\ [][Next]_vars
            /\ WF_vars(Process)
            /\ \A i \in 1..MaxChildren : WF_vars(i \in DOMAIN workers /\ Child(i))

-----------------------------------------------------------------------------
(* Properties. *)

(* A round takes its own replies: the pipes stay in step with the children *)
(* although a round may end early, and a reply comes from a GPU bound to   *)
(* this query and its exact plan.  (GpuWorkers.round and _ensure_children) *)
RepliesInStep ==
    pc = "receive" => \A i \in DOMAIN replied :
        /\ replied[i].query = count /\ replied[i].group = round
        /\ replied[i].status = "ok" => replied[i].bound = ThisPlan

(* A GPU never runs a query under what another query bound, although it is *)
(* prepared before the documents are there and they may never come; and a  *)
(* child runs a group under the exact plan that came with its query.  On   *)
(* one GPU the query's own draft may be what is bound.                     *)
(* (prepare_quail_request, execute_quail_payload, _child_boot)             *)
QueriesRunAsBound ==
    /\ \A w \in {here} \cup ToSet(workers) : w.context # 0 => w.bound.query = w.context
    /\ pc = "receive" /\ round > 0 =>
          \A w \in ToSet(workers) : w.up => w.bound = ThisPlan

(* A query that ends well has the documents one GPU would have returned,   *)
(* each once and in their input order, or as many of them as its limit     *)
(* asks for: each stop key has one survivor although several GPUs read.    *)
(* (keyed_shards, _shards and merge_results)                               *)
OneGpu == LeftAfter(plan, [d \in Documents |-> d], Len(plan.passes))
AnswersAsOneGpu ==
    count > 0 /\ pc = "idle" /\ outcomes[count] = "ok" =>
        LET kept == Sifted(OneGpu, ToSet(ids)) IN
        /\ ids = kept
        /\ kept = OneGpu \/ (plan.limit > 0 /\ Len(kept) >= plan.limit)

(* A document is read where its KV is: no worker is asked for a document   *)
(* of this query that another one retains.  (distributed.py: "A document   *)
(* stays on the worker that holds its KV")                                 *)
KVAtHome ==
    \A i, j \in DOMAIN workers : i # j =>
        \A m \in ToSet(todo[i]) : \A d \in ToSet(m.docs) : <<m.query, d>> \notin workers[j].kv

(* What fails costs its own query, and a run that raised at most the next  *)
(* one, whose boot releases the GPU: nothing stays broken.                 *)
(* (_boot_gpu's rollback and _ensure_children's replacement)               *)
FailuresPaidFor ==
    Cardinality({n \in DOMAIN outcomes : outcomes[n] = "failed"})
        <= Len(faulted) + Cardinality({n \in DOMAIN faulted : faulted[n].raised})

(* Every query submitted ends, whatever raises and whoever dies.           *)
(* (round reads the end of a dead child's pipe)                            *)
QueriesEnd == pc # "idle" ~> pc = "idle"
=============================================================================
