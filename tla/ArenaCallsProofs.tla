--------------------------- MODULE ArenaCallsProofs ---------------------------
(***************************************************************************)
(* The arena under any sequence of calls: every call keeps ArenaInv, and   *)
(* takes pages only from keys that nothing keeps.  For every set of keys,  *)
(* pool and page size, window, cap and document lengths.                   *)
(***************************************************************************)
EXTENDS ArenaCalls, KVArenaProofs

\* A key in use is one with pages.
LEMMA ResidentKeys ==
    ASSUME NEW A, ArenaInv(A)
    PROVE  Resident(A) \subseteq Keys /\ A.pinned \subseteq Keys
  <1>1. A \in Arena
    BY DEF ArenaInv
  <1>2. QED
    BY <1>1, ArenaFields, Fields, PoolNats DEF Resident

\* A reservation asks for whole pages that the parent may lend.
LEMMA ReserveCall ==
    ASSUME ArenaInv(arena), CallReserve
    PROVE  ArenaInv(arena') /\ Gone(arena, arena')
  <1>1. PICK k \in Keys \ arena.deferred, parent \in Keys, tokens \in Lengths :
            \E shared \in Shares(tokens) :
              /\ IF k \in Resident(arena)
                 THEN shared = 0 /\ tokens = arena.base[k]
                 ELSE shared > 0 => CanBorrow(arena, parent, shared)
              /\ \E out \in Reserve(arena, k, tokens, tokens + ExtraTokens, parent, shared) :
                     arena' = out.arena
    BY DEF CallReserve
  <1>2. PICK shared \in Shares(tokens) :
            /\ IF k \in Resident(arena)
               THEN shared = 0 /\ tokens = arena.base[k]
               ELSE shared > 0 => CanBorrow(arena, parent, shared)
            /\ \E out \in Reserve(arena, k, tokens, tokens + ExtraTokens, parent, shared) :
                   arena' = out.arena
    BY <1>1
  <1> DEFINE capacity == tokens + ExtraTokens
  <1>3. /\ tokens \in Nat /\ capacity \in Nat /\ tokens <= capacity
        /\ shared \in Nat /\ shared <= tokens /\ shared % PageTokens = 0
    BY CallsAssumption DEF Shares
  <1>4. PICK out \in Reserve(arena, k, tokens, capacity, parent, shared) : arena' = out.arena
    BY <1>2
  <1> HIDE DEF capacity
  <1>5. Request(arena, k, tokens, capacity, parent, shared)
    BY <1>1, <1>2, <1>3 DEF Request
  <1>6. ArenaInv(out.arena) /\ Gone(arena, out.arena)
    BY <1>4, <1>5, ReserveKeeps
  <1>7. QED
    BY <1>4, <1>6

\* Every call keeps the invariant and the pages of the keys something keeps.
LEMMA CallsKeep ==
    ASSUME ArenaInv(arena), ArenaNext
    PROVE  ArenaInv(arena') /\ Gone(arena, arena')
  <1>0. Resident(arena) \subseteq Keys
    BY ResidentKeys
  <1>1. CASE CallReserve
    BY <1>1, ReserveCall
  <1>2. CASE CallGrowPages
    <2>1. PICK V \in SUBSET {k \in arena.pinned : Usable(k)} :
              \E out \in GrowPages(arena, V) : arena' = out.arena
      BY <1>2 DEF CallGrowPages
    <2>2. PICK out \in GrowPages(arena, V) : arena' = out.arena
      BY <2>1
    <2>3. V \in SUBSET Resident(arena) /\ V \cap arena.retained = {}
      BY <2>1 DEF ArenaInv, Consistent
    <2>4. ArenaInv(out.arena) /\ Lets(arena, out.arena)
      BY <2>2, <2>3, GrowPagesKeeps
    <2>5. QED
      BY <2>2, <2>4, LetsGone
  <1>3. CASE CallHold
    <2>1. PICK k \in Keys, n \in 1 .. MaxKept, shared \in UNION {Shares(t) : t \in Lengths} :
              arena' = KeepWindow(HoldKey(arena, k, n), k, shared)
      BY <1>3 DEF CallHold
    <2>2. n \in Nat /\ shared \in Nat
      BY <2>1, CallsAssumption DEF Shares
    <2>3. ArenaInv(arena') /\ Resident(arena') = Resident(arena)
      BY <2>1, <2>2, HoldKeeps
    <2>4. QED
      BY <2>3 DEF Gone
  <1>4. CASE CallRelease
    <2>1. PICK k \in Keys : arena' = Release(arena, k)
      BY <1>4 DEF CallRelease
    <2>2. QED
      BY <2>1, ReleaseKeeps, LetsGone
  <1>5. CASE CallDropHolds
    BY <1>5, DropHoldsKeeps, LetsGone DEF CallDropHolds
  <1>6. CASE CallReadState
    <2>1. PICK k \in Resident(arena) : arena' = ReadState(arena, {k})
      BY <1>6 DEF CallReadState
    <2>2. {k} \in SUBSET Keys
      BY <1>0
    <2>3. ArenaInv(arena') /\ Resident(arena') = Resident(arena)
      BY <2>1, <2>2, ReadStateKeeps
    <2>4. QED
      BY <2>3 DEF Gone
  <1>7. CASE CallDoneReading
    <2>1. PICK k \in Keys : arena.reading[k] > 0 /\ arena' = DoneReading(arena, k)
      BY <1>7 DEF CallDoneReading
    <2>2. QED
      BY <2>1, DoneReadingKeeps, LetsGone
  <1>8. CASE CallFreeKey
    <2>1. PICK k \in Keys : Usable(k) /\ arena' = FreeKey(arena, k)
      BY <1>8 DEF CallFreeKey
    <2>2. {k} \in SUBSET Resident(arena) /\ arena' = FreeAll(arena, {k})
      BY <2>1 DEF Usable, FreeKey
    <2>3. QED
      BY <2>2, FreeAllKeeps, LetsGone
  <1>9. CASE CallPin
    <2>1. PICK k \in Keys : Usable(k) /\ arena' = Pin(arena, k)
      BY <1>9 DEF CallPin
    <2>2. QED
      BY <2>1, PinKeeps, LetsGone DEF Usable
  <1>10. CASE CallRetain
    <2>1. PICK k \in arena.pinned : Usable(k) /\ arena' \in Retain(arena, k, arena.base[k])
      BY <1>10 DEF CallRetain
    <2>2. QED
      BY <2>1, RetainKeeps, LetsGone DEF Usable
  <1>11. CASE CallEvictRetained
    <2>1. PICK n \in 1 .. NumPages : arena' \in EvictRetained(arena, n)
      BY <1>11 DEF CallEvictRetained
    <2>2. QED
      BY <2>1, EvictKeeps, LetsGone DEF EvictRetained
  <1>12. CASE CallTrimWindow
    <2>1. PICK k \in Resident(arena) : arena' = TrimWindows(arena, {k})
      BY <1>12 DEF CallTrimWindow, TrimWindow
    <2>2. {k} \in SUBSET Keys
      BY <1>0
    <2>3. QED
      BY <2>1, <2>2, TrimKeeps, LetsGone
  <1>13. CASE CallResize
    <2> DEFINE B == FreeResident(arena)
    <2>1. arena' = IF Resident(B) = {} THEN EmptyArena ELSE B
      BY <1>13 DEF CallResize
    <2>2. ArenaInv(B) /\ Lets(arena, B)
      BY FreeResidentKeeps
    <2> HIDE DEF B
    <2>3. Gone(arena, EmptyArena)
      BY DEF Gone, EmptyArena
    <2>4. QED
      BY <2>1, <2>2, <2>3, EmptyArenaFine, LetsGone
  <1>14. QED
    BY <1>1, <1>2, <1>3, <1>4, <1>5, <1>6, <1>7, <1>8, <1>9, <1>10, <1>11, <1>12, <1>13
       DEF ArenaNext

\* In every state the two pools are fine: the accounts are right, tables that
\* share a page agree on its row, and each key's pages cover its rows
\* (pages.py and arena.py, under any order of their calls).
THEOREM ArenaInvariant == ArenaSpec => []ArenaInv(arena)
  <1>1. ArenaInit => ArenaInv(arena)
    BY EmptyArenaFine DEF ArenaInit
  <1>2. ArenaInv(arena) /\ [ArenaNext]_arena => ArenaInv(arena)'
    <2>1. ASSUME ArenaInv(arena), ArenaNext PROVE ArenaInv(arena')
      BY <2>1, CallsKeep
    <2>2. ASSUME ArenaInv(arena), UNCHANGED arena PROVE ArenaInv(arena')
      BY <2>2
    <2>3. QED
      BY <2>1, <2>2
  <1>3. QED
    BY <1>1, <1>2, PTL DEF ArenaSpec

\* A page is free exactly when no block table reads it, no two keys write
\* one page, and a free put off is owed only while something keeps the key
\* (pages.py release_pages; arena.py free_key, release, done_reading).
THEOREM PagesAccountedAlways == ArenaSpec => []PagesAccounted
  <1>1. ArenaInv(arena) => PagesAccounted
    <2>1. SUFFICES ASSUME ArenaInv(arena) PROVE PagesAccounted
      OBVIOUS
    <2>2. Accounted(arena)
      BY <2>1, RowsAlign
    <2>3. QED
      BY <2>1, <2>2 DEF PagesAccounted, ArenaInv
  <1>2. QED
    BY <1>1, ArenaInvariant, PTL

\* Two block tables that read one page read it at the same row, in both pools
\* (arena.py _borrow_plan, trim_window).
THEOREM RowsAgreeAlways == ArenaSpec => []RowsAgree
  <1>1. ArenaInv(arena) => RowsAgree
    BY RowsAlign DEF RowsAgree
  <1>2. QED
    BY <1>1, ArenaInvariant, PTL

\* No call, evictions and reservations included, takes the pages of a key
\* that a queued borrower holds or a planned chunk reads (arena.py
\* _evict_until, free_key).
THEOREM KeptKeysStayAlways == ArenaSpec => KeptKeysStay
  <1>1. ArenaInv(arena) /\ [ArenaNext]_arena =>
            [\A k \in Keys : k \in Resident(arena) /\ k \notin Resident(arena')
                 => arena'.held[k] = 0 /\ arena'.reading[k] = 0]_arena
    <2>1. ASSUME ArenaInv(arena), ArenaNext
          PROVE  \A k \in Keys : k \in Resident(arena) /\ k \notin Resident(arena')
                     => arena'.held[k] = 0 /\ arena'.reading[k] = 0
      BY <2>1, CallsKeep DEF Gone
    <2>2. QED
      BY <2>1
  <1>2. QED
    BY <1>1, ArenaInvariant, PTL DEF ArenaSpec, KeptKeysStay

=============================================================================
