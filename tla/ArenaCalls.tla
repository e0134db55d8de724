------------------------------- MODULE ArenaCalls ------------------------------
(***************************************************************************)
(* The KV arena under any sequence of the calls its methods accept,        *)
(* whoever makes them (executor/arena.py).  A caller frees, holds, reads,  *)
(* retains and trims resident keys only, pins what it reserves, borrows    *)
(* whole pages that CanBorrow allows, and never reuses a key whose free is *)
(* put off.                                                                *)
(***************************************************************************)
EXTENDS KVArena

CONSTANTS
    Lengths,       \* document lengths in tokens
    ExtraTokens,   \* rows past the prefix a reservation covers
    MaxKept,       \* bound on the holds and readings of one key
    MaxGrown       \* bound on the pages a document's answer grows by

ASSUME CallsAssumption ==
    Lengths \subseteq Nat /\ ExtraTokens \in Nat /\ MaxKept \in Nat

VARIABLE arena

Usable(k) == k \in Resident(arena) \ arena.deferred

\* Whole pages short of a document's last token.
Shares(tokens) == {n \in 0 .. tokens - 1 : n % PageTokens = 0}

CallReserve ==
    \E k \in Keys \ arena.deferred, parent \in Keys, tokens \in Lengths :
    \E shared \in Shares(tokens) :
        /\ IF k \in Resident(arena)
           THEN shared = 0 /\ tokens = arena.base[k]
           ELSE shared > 0 => CanBorrow(arena, parent, shared)
        /\ \E out \in Reserve(arena, k, tokens, tokens + ExtraTokens, parent, shared) :
               arena' = out.arena

\* Documents in use whose answers are about to write past their last page.
CallGrowPages ==
    \E V \in SUBSET {k \in arena.pinned : Usable(k)} :
        /\ V # {}
        /\ \A k \in V : Len(TablePages(arena.full, k))
                            < PagesNeeded(arena.base[k] + ExtraTokens) + MaxGrown
        /\ \E out \in GrowPages(arena, V) : arena' = out.arena

CallHold ==
    \E k \in Keys, n \in 1 .. MaxKept, shared \in UNION {Shares(t) : t \in Lengths} :
        /\ Usable(k) /\ arena.held[k] = 0 /\ 0 < shared /\ shared <= arena.base[k]
        /\ arena' = KeepWindow(HoldKey(arena, k, n), k, shared)

CallRelease == \E k \in Keys : arena.held[k] > 0 /\ arena' = Release(arena, k)

CallDropHolds == arena' = DropHolds(arena, Keys)

CallReadState ==
    \E k \in Resident(arena) :
        arena.reading[k] < MaxKept /\ arena' = ReadState(arena, {k})

CallDoneReading ==
    \E k \in Keys : arena.reading[k] > 0 /\ arena' = DoneReading(arena, k)

CallFreeKey == \E k \in Keys : Usable(k) /\ arena' = FreeKey(arena, k)

CallPin == \E k \in Keys : Usable(k) /\ arena' = Pin(arena, k)

CallRetain ==
    \E k \in arena.pinned : Usable(k) /\ arena' \in Retain(arena, k, arena.base[k])

CallEvictRetained == \E n \in 1 .. NumPages : arena' \in EvictRetained(arena, n)

CallTrimWindow == \E k \in Resident(arena) : arena' = TrimWindow(arena, k)

CallResize ==
    arena' = LET B == FreeResident(arena) IN
             IF Resident(B) = {} THEN EmptyArena ELSE B

ArenaInit == arena = EmptyArena

ArenaNext ==
    \/ CallReserve \/ CallGrowPages \/ CallHold \/ CallRelease \/ CallDropHolds
    \/ CallReadState \/ CallDoneReading \/ CallFreeKey \/ CallPin
    \/ CallRetain \/ CallEvictRetained \/ CallTrimWindow \/ CallResize

ArenaSpec == ArenaInit /\ [][ArenaNext]_arena

--------------------------------------------------------------------------------
(* Properties, of every arena a caller can reach.                          *)

\* Both pools account for every page: whatever the order of reservations,
\* borrows, window trims, deferred frees and evictions (arena.py alloc,
\* trim_window, free_key; pages.py release_pages), a page is free exactly
\* when no block table reads it, and no two keys write one page.  Only
\* resident keys are pinned, retained or owed a free, and a free put off is
\* owed while something keeps the key and no longer: it happens with the
\* last release or reading (arena.py release, done_reading, drop_holds).
PagesAccounted ==
    /\ Accounted(arena) /\ Consistent(arena)
    /\ arena.deferred \subseteq Kept(arena)

\* Two block tables that read one page read it at the same logical row, in
\* both pools (arena.py _borrow_plan, trim_window): KV is position-dependent,
\* so a page borrowed at another offset would be another document's.
RowsAgree == RowsAligned(arena)

\* A key that a queued borrower holds or a planned chunk reads keeps its
\* pages across every call, evictions included (arena.py _evict_until,
\* free_key): the borrower's pass would read reused pages otherwise.
KeptKeysStay ==
    [][\A k \in Keys :
          k \in Resident(arena) /\ k \notin Resident(arena')
             => arena'.held[k] = 0 /\ arena'.reading[k] = 0]_arena

================================================================================
