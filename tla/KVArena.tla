-------------------------------- MODULE KVArena --------------------------------
(***************************************************************************)
(* The KV arena of one GPU (executor/arena.py, class KVArena): an          *)
(* every-token pool and, for a model with sliding-window layers, a sliding *)
(* pool; the keys that queued borrowers hold, the keys a planned chunk     *)
(* reads, frees put off until both let go, the window each key keeps, and  *)
(* the retained keys the arena may evict.                                  *)
(*                                                                         *)
(* The arena is one record, and each method is an operator from arenas to  *)
(* arenas, so a caller that makes several calls composes them.  Where a    *)
(* call evicts, the operator gives the set of arenas it may leave: which   *)
(* retained keys go first depends on the planner's reuse priorities, and   *)
(* every order is allowed here.                                            *)
(*                                                                         *)
(* ArenaCalls drives them in any order, StageExecutor as the code does.    *)
(* AnswerDecoding with answers that grow page by page.  Left out:          *)
(* checkpoint slots, temporary suffix keys, and the row-index tensors,     *)
(* which are rebuilt from the tables whenever those change.                *)
(***************************************************************************)
EXTENDS PageArena

CONSTANTS
    NumPages,      \* pages of the every-token pool
    NumSliding,    \* pages of the sliding pool, 0 without sliding layers
    Window,        \* rows a sliding layer reads back
    CapPages       \* retention_cap_pages

ASSUME PoolAssumption ==
    NumPages \in Nat \ {0} /\ NumSliding \in Nat /\ Window \in Nat /\ CapPages \in Nat

HasSliding == NumSliding > 0
NoFloor == -1

Arena ==
    [full     : Pool(NumPages),
     slide    : Pool(NumSliding),
     base     : [Keys -> Nat],           \* _base: the window is anchored below it
     start    : [Keys -> Nat],           \* _sliding_start
     held     : [Keys -> Nat],           \* _holds, 0 for a key not in it
     reading  : [Keys -> Nat],           \* _reading, 0 for a key not in it
     deferred : SUBSET Keys,             \* _deferred
     floor    : [Keys -> Nat \union {NoFloor}],
     trimmed  : SUBSET Keys,
     pinned   : SUBSET Keys,
     retained : SUBSET Keys,
     size     : [Keys -> Nat]]           \* _retained_sizes, 0 when not retained

EmptyArena ==
    [full |-> EmptyPool(NumPages), slide |-> EmptyPool(NumSliding),
     base |-> [k \in Keys |-> 0], start |-> [k \in Keys |-> 0],
     held |-> [k \in Keys |-> 0], reading |-> [k \in Keys |-> 0],
     deferred |-> {}, floor |-> [k \in Keys |-> NoFloor], trimmed |-> {},
     pinned |-> {}, retained |-> {}, size |-> [k \in Keys |-> 0]]

Resident(A) == A.full.resident

\* A variant that overlooks the keys a chunk reads, for KeptKeysStay.
HeldOnly(A) == {k \in Keys : A.held[k] > 0}

Kept(A) == {k \in Keys : A.held[k] > 0 \/ A.reading[k] > 0}

\* _retained_pages: the sum of the sizes retained keys were given.
RetainedPages(A) == SumFunction(A.size)

\* Free pages in every-token pages: the tighter pool decides.
FreePages(A) ==
    LET scaled == (FreeCount(A.slide) * NumPages) \div NumSliding IN
    IF HasSliding /\ scaled < FreeCount(A.full) THEN scaled ELSE FreeCount(A.full)

Bigger(m, n) == IF m > n THEN m ELSE n

\* Sliding pages converted at the pools' size ratio, rounded up.
EveryTokenPages(n) == (n * NumPages + NumSliding - 1) \div NumSliding

--------------------------------------------------------------------------------
(* The window.                                                             *)

\* A variant that rounds the origin up, for ReadsOwnPrefix.
OriginUp(tokens) ==
    IF tokens <= Window \/ Window = 0 THEN 0 ELSE PagesNeeded(tokens - Window) * PageTokens

Origin(tokens) ==
    IF tokens <= Window \/ Window = 0 THEN 0
    ELSE ((tokens - Window) \div PageTokens) * PageTokens

\* Keep the sliding rows a borrower of shared tokens reads.
KeepWindow(A, k, shared) ==
    LET row == Origin(shared) IN
    [A EXCEPT !.floor[k] = IF @ = NoFloor \/ row < @ THEN row ELSE @]

\* How far a key's window is past its first sliding row.
Cut(A, k) ==
    LET low == IF A.floor[k] = NoFloor THEN A.base[k] ELSE A.floor[k]
        origin == IF low < Origin(A.base[k]) THEN low ELSE Origin(A.base[k])
    IN  Bigger(0, origin - A.start[k])

\* trim_window on every key of V: release the pages before its window.
TrimWindows(A, V) ==
    LET cut == [k \in Keys |-> IF k \in V THEN Cut(A, k) ELSE 0]
        dropped == DropLeading(A.slide, [k \in Keys |-> cut[k] \div PageTokens])
    IN  IF ~HasSliding THEN A
        ELSE [A EXCEPT !.trimmed = @ \union V,
                       !.slide = [dropped EXCEPT
                                    !.tokens = [k \in Keys |-> @[k] - cut[k]]],
                       !.start = [k \in Keys |-> @[k] + cut[k]]]

TrimWindow(A, k) == TrimWindows(A, {k})

--------------------------------------------------------------------------------
(* Frees, holds and readings.                                              *)

\* free_key on every key of V that nothing keeps; the others are put off.
FreeAll(A, V) ==
    LET now == V \ Kept(A) IN
    [A EXCEPT !.full = FreeKeys(@, now),
              !.slide = IF HasSliding THEN FreeKeys(@, now) ELSE @,
              !.deferred = @ \union (V \intersect Kept(A)),
              !.base = [k \in Keys |-> IF k \in now THEN 0 ELSE @[k]],
              !.start = [k \in Keys |-> IF k \in now THEN 0 ELSE @[k]],
              !.floor = [k \in Keys |-> IF k \in now THEN NoFloor ELSE @[k]],
              !.trimmed = @ \ now,
              !.pinned = @ \ now,
              !.retained = @ \ now,
              !.size = [k \in Keys |-> IF k \in now THEN 0 ELSE @[k]]]

FreeKey(A, k) == FreeAll(A, {k})

HoldKey(A, k, borrowers) == [A EXCEPT !.held[k] = @ + borrowers]

\* Release every hold on the keys of V: owed frees happen, otherwise rows
\* kept for the borrowers of a key that already trimmed may go.
DropHolds(A, V) ==
    LET gone == {k \in V : A.held[k] > 0}
        owed == gone \intersect A.deferred
        loose == [A EXCEPT
                    !.held = [k \in Keys |-> IF k \in gone THEN 0 ELSE @[k]],
                    !.floor = [k \in Keys |-> IF k \in gone \ owed THEN NoFloor ELSE @[k]],
                    !.deferred = @ \ owed]
    IN  TrimWindows(FreeAll(loose, owed),
                    {k \in gone \ owed : A.floor[k] # NoFloor /\ k \in A.trimmed})

\* One borrower was admitted, or will not come.
Release(A, k) ==
    IF A.held[k] > 1 THEN [A EXCEPT !.held[k] = @ - 1] ELSE DropHolds(A, {k})

ReadState(A, V) ==
    [A EXCEPT !.reading = [k \in Keys |-> IF k \in V THEN @[k] + 1 ELSE @[k]]]

\* A variant that forgets the owed free, for ArenaSound.
DoneOnly(A, k) == [A EXCEPT !.reading[k] = @ - 1]

\* Undo ReadState for one key; an owed free nothing else puts off happens.
DoneReading(A, k) ==
    LET done == [A EXCEPT !.reading[k] = @ - 1] IN
    IF done.reading[k] = 0 /\ k \in A.deferred /\ A.held[k] = 0
    THEN FreeKey([done EXCEPT !.deferred = @ \ {k}], k)
    ELSE done

--------------------------------------------------------------------------------
(* Eviction.                                                               *)

Evictable(A) == A.retained \ Kept(A)

\* _evict_until: evictable keys go one at a time and the loop stops at the
\* first set in enough, or when none is left.  Freeing more keys never
\* undoes the condition, so it failed just before the last key went.
EvictUntil(A, enough) ==
    {FreeAll(A, V) : V \in
        {W \in SUBSET Evictable(A) :
            /\ W \in enough \/ W = Evictable(A)
            /\ W = {} \/ \E k \in W : W \ {k} \notin enough}}

\* evict_retained: until so many pages came free.
EvictRetained(A, pages) ==
    EvictUntil(A, {W \in SUBSET Evictable(A) :
                      FreePages(FreeAll(A, W)) - FreePages(A) >= pages})

Covers(A, need, needSliding) ==
    /\ need <= FreeCount(A.full)
    /\ HasSliding => needSliding <= FreeCount(A.slide)

\* _evict_for_pages: until both pools have the pages.
EvictForPages(A, need, needSliding) ==
    EvictUntil(A, {W \in SUBSET Evictable(A) :
                      Covers(FreeAll(A, W), need, needSliding)})

--------------------------------------------------------------------------------
(* Allocation.                                                             *)

CanBorrow(A, parent, shared) ==
    /\ parent \in Resident(A)
    /\ shared <= A.full.tokens[parent]
    /\ HasSliding => A.start[parent] <= Origin(shared)

Pin(A, k) ==
    [A EXCEPT !.pinned = @ \union {k}, !.retained = @ \ {k}, !.size[k] = 0]

\* Pages a reservation takes from each pool.  shared is 0 without a parent.
NeedFull(A, k, capacity, shared) ==
    IF k \in Resident(A) THEN GrowthPages(A.full, k, capacity)
    ELSE PagesNeeded(capacity) - shared \div PageTokens

NeedSliding(A, k, capacity, shared) ==
    IF k \in Resident(A) THEN GrowthPages(A.slide, k, capacity - A.start[k])
    ELSE PagesNeeded(capacity - Origin(shared)) - (shared - Origin(shared)) \div PageTokens

\* A resident key grows in both pools.
GrowBoth(A, k, tokens, capacity) ==
    [A EXCEPT !.full = [Grow(@, k, capacity) EXCEPT !.tokens[k] = tokens],
              !.slide = IF HasSliding
                        THEN [Grow(@, k, capacity - A.start[k])
                                EXCEPT !.tokens[k] = tokens - A.start[k]]
                        ELSE @]

\* A fresh key's pages in both pools, leading ones borrowed from parent.
AllocBoth(A, k, tokens, capacity, parent, shared) ==
    LET from == IF shared = 0 THEN 0 ELSE Origin(shared)
        lent == IF shared = 0 THEN <<>> ELSE SharedPages(A.full, parent, shared, 0)
        lentSliding ==
            IF shared = 0 THEN <<>>
            ELSE SharedPages(A.slide, parent, shared - A.start[parent],
                             from - A.start[parent])
    IN  [A EXCEPT !.full = Alloc(@, k, tokens, capacity, lent),
                  !.slide = IF HasSliding
                            THEN Alloc(@, k, tokens - from, capacity - from, lentSliding)
                            ELSE @,
                  !.base[k] = tokens,
                  !.start[k] = IF HasSliding THEN from ELSE 0]

Activate(A, k, tokens, capacity, parent, shared) ==
    Pin(IF k \in Resident(A) THEN GrowBoth(A, k, tokens, capacity)
        ELSE AllocBoth(A, k, tokens, capacity, parent, shared), k)

\* Reserve a document's pages, evicting retained keys but neither the
\* document's nor its parent's.  Each outcome says whether it succeeded.
Reserve(A, k, tokens, capacity, parent, shared) ==
    LET need == NeedFull(A, k, capacity, shared)
        needSliding == NeedSliding(A, k, capacity, shared)
        protected == IF shared = 0 THEN {k} ELSE {k, parent}
        Unprotect(B) ==
            LET mine == DoneReading(B, k) IN
            IF shared = 0 THEN mine ELSE DoneReading(mine, parent)
    IN  {IF Covers(B, need, needSliding)
         THEN [ok |-> TRUE,
               arena |-> Unprotect(Activate(B, k, tokens, capacity, parent, shared))]
         ELSE [ok |-> FALSE, arena |-> Unprotect(B)] :
         B \in EvictForPages(ReadState(A, protected), need, needSliding)}

\* grow_pages: one more page to every key of V, or, with the pools short
\* even of what retained keys hold, none.  Each outcome says which.
GrowPages(A, V) ==
    LET n == Cardinality(V) IN
    {IF Covers(B, n, n)
     THEN [ok |-> TRUE,
           arena |-> [B EXCEPT !.full = GrowEach(@, V),
                               !.slide = IF HasSliding THEN GrowEach(@, V) ELSE @]]
     ELSE [ok |-> FALSE, arena |-> B] : B \in EvictForPages(A, n, n)}

--------------------------------------------------------------------------------
(* Retention.                                                              *)

\* Rewind a prefix and make it evictable, then evict down to the cap.
Retain(A, k, tokens) ==
    LET full == Rewind(A.full, k, tokens)
        kept == [A EXCEPT !.full = full,
                          !.slide = IF HasSliding THEN Rewind(@, k, tokens - A.start[k])
                                    ELSE @,
                          !.pinned = @ \ {k},
                          !.retained = @ \union {k},
                          !.size[k] = Cardinality(SoleHeld(full, k))]
    IN  EvictRetained(kept, Bigger(0, RetainedPages(kept) - CapPages))

\* resize(free_resident=True): every hold is dropped, every key is freed,
\* and a key still resident then is an error.
FreeResident(A) == LET B == DropHolds(A, Keys) IN FreeAll(B, Resident(B))

--------------------------------------------------------------------------------
(* Prices the scheduler and the executor read.                             *)

PageCost(tokens) ==
    IF HasSliding
    THEN Bigger(PagesNeeded(tokens), EveryTokenPages(PagesNeeded(tokens)))
    ELSE PagesNeeded(tokens)

GrowthCost(A, k, capacity) ==
    LET need == GrowthPages(A.full, k, capacity) IN
    IF HasSliding
    THEN Bigger(need, EveryTokenPages(GrowthPages(A.slide, k, capacity - A.start[k])))
    ELSE need

--------------------------------------------------------------------------------
(* What every caller may rely on, of an arena A.                           *)

\* The pool accounting of both pools.
Accounted(A) == PoolOK(A.full) /\ PoolOK(A.slide)

\* Only resident keys are pinned, retained or owed a free, and no key is
\* both in use and evictable.
Consistent(A) ==
    /\ A.pinned \union A.retained \union A.deferred \subseteq Resident(A)
    /\ A.pinned \intersect A.retained = {}
    /\ HasSliding => A.slide.resident = Resident(A)

\* Two tables that read one page read it at the same logical row.
RowsAligned(A) ==
    \A k, l \in Resident(A) :
        /\ \A i \in DOMAIN TablePages(A.full, k), j \in DOMAIN TablePages(A.full, l) :
              TablePages(A.full, k)[i] = TablePages(A.full, l)[j] => i = j
        /\ \A i \in DOMAIN TablePages(A.slide, k), j \in DOMAIN TablePages(A.slide, l) :
              TablePages(A.slide, k)[i] = TablePages(A.slide, l)[j]
                 => A.start[k] + i * PageTokens = A.start[l] + j * PageTokens

================================================================================
