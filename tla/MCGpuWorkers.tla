---------------------------- MODULE MCGpuWorkers ----------------------------
(***************************************************************************)
(* Queries for the checker: one GPU or two, two groups of operators or     *)
(* one with a stop key, and a limit; plans searched again with exact       *)
(* lengths get other settings, but for one whose lengths were all known.   *)
(***************************************************************************)
EXTENDS GpuWorkers

Query(gpus, draft, lengths, keys, passes, limit) ==
    [model |-> "m", gpus |-> gpus, draft |-> draft, exact |-> 2, lengths |-> lengths, keys |-> keys,
     passes |-> passes, limit |-> limit]

(* Two groups on one GPU. *)
Alone == Query(1, 1, <<2, 1>>, <<>>, <<{1, 2}, {2}>>, 1)

(* Two groups on two GPUs, with an empty document. *)
Groups == Query(2, 1, <<3, 0, 1>>, <<>>, <<{1, 2, 3}, {1, 3}>>, 1)

(* Three GPUs. *)
Three == Query(3, 2, <<2, 1, 1>>, <<>>, <<{1, 3}>>, 0)

(* A stop key whose first group of documents is read on one GPU. *)
Stops == Query(2, 1, <<2, 1, 2>>, <<1, 2, 1>>, <<{1, 2, 3}>>, 0)

Queries == {Alone, Groups, Stops, Three}
=============================================================================
