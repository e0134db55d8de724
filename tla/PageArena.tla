------------------------------- MODULE PageArena -------------------------------
(***************************************************************************)
(* Page accounting for one KV pool (executor/pages.py, class PageArena).   *)
(*                                                                         *)
(* A pool is a record.  resident is the set of keys with pages, holds[p]   *)
(* counts the keys whose block table reads page p, and free is the set of  *)
(* pages with no holder; the order in which the code's stack hands out     *)
(* free pages tells no property apart, so any distinct free pages do.      *)
(* A key's block table is borrowed[k] (leading pages it reads from a       *)
(* parent) followed by owned[k] (pages it alone writes).                   *)
(*                                                                         *)
(* Checkpoint slots (free_slots, slots, ext_slots, share_slots) belong to  *)
(* models with recurrent layers and are left out.  Retention state of the  *)
(* pool lives in KVArena, whose calls are the only ones to use it.         *)
(***************************************************************************)
EXTENDS Integers, Sequences, FiniteSets, Functions

CONSTANTS
    Keys,          \* every key a pool may hold
    PageTokens     \* tokens per page

ASSUME PageTokensAssumption == PageTokens \in Nat \ {0}
ASSUME KeysAssumption == IsFiniteSet(Keys)

Pool(n) ==
    [resident : SUBSET Keys,
     free     : SUBSET (0 .. n - 1),
     holds    : [0 .. n - 1 -> Nat],
     owned    : [Keys -> Seq(0 .. n - 1)],
     borrowed : [Keys -> Seq(0 .. n - 1)],
     tokens   : [Keys -> Nat]]

EmptyPool(n) ==
    [resident |-> {},
     free     |-> 0 .. n - 1,
     holds    |-> [p \in 0 .. n - 1 |-> 0],
     owned    |-> [k \in Keys |-> <<>>],
     borrowed |-> [k \in Keys |-> <<>>],
     tokens   |-> [k \in Keys |-> 0]]

PagesNeeded(tokens) == (tokens + PageTokens - 1) \div PageTokens

FreeCount(P) == Cardinality(P.free)

TablePages(P, k) == P.borrowed[k] \o P.owned[k]

TableSet(P, k) == Range(TablePages(P, k))

\* n distinct free pages.
TakePages(P, n) ==
    CHOOSE s \in [1 .. n -> P.free] : \A i, j \in 1 .. n : s[i] = s[j] => i = j

\* numpy's holds[pages] += 1: once per page.
Hold(P, pages) ==
    [p \in DOMAIN P.holds |-> IF p \in pages THEN P.holds[p] + 1 ELSE P.holds[p]]

\* A fresh key's pages; lent are the leading pages it borrows.  The caller
\* checks that the free list covers the rest.
Alloc(P, k, tokens, capacity, lent) ==
    LET own == TakePages(P, PagesNeeded(capacity) - Len(lent)) IN
    [P EXCEPT !.resident = @ \union {k},
              !.free = @ \ Range(own),
              !.holds = Hold(P, Range(lent \o own)),
              !.owned[k] = own,
              !.borrowed[k] = lent,
              !.tokens[k] = tokens]

\* A variant that borrows from a table's first page whatever row it is for,
\* for RowsAgree.
SharedFromFirst(P, parent, shared, start) ==
    SubSeq(TablePages(P, parent), 1, (shared - start) \div PageTokens)

\* The parent's pages for its rows [start, shared), to borrow.
SharedPages(P, parent, shared, start) ==
    SubSeq(TablePages(P, parent), start \div PageTokens + 1, shared \div PageTokens)

\* Each key k drops its hold on the pages lost[k]; the pages nobody holds
\* any longer go free.
ReleasePages(P, lost) ==
    LET drop == [p \in DOMAIN P.holds |-> Cardinality({k \in Keys : p \in lost[k]})] IN
    [P EXCEPT !.holds = [p \in DOMAIN @ |-> @[p] - drop[p]],
              !.free = @ \union {p \in DOMAIN P.holds :
                                    drop[p] > 0 /\ P.holds[p] = drop[p]}]

\* Each key k drops the first n[k] pages of its table, borrowed ones first.
DropLeading(P, n) ==
    LET past(k) == n[k] - Len(P.borrowed[k]) IN
    [ReleasePages(P, [k \in Keys |-> Range(SubSeq(TablePages(P, k), 1, n[k]))]) EXCEPT
        !.borrowed = [k \in Keys |-> SubSeq(@[k], n[k] + 1, Len(@[k]))],
        !.owned = [k \in Keys |-> IF past(k) > 0
                                  THEN SubSeq(@[k], past(k) + 1, Len(@[k])) ELSE @[k]]]

\* The keys of V keep nothing, and let go of the pages lost.
Forget(P, V, lost) ==
    [ReleasePages(P, [k \in Keys |-> IF k \in V THEN lost[k] ELSE {}]) EXCEPT
        !.resident = @ \ V,
        !.owned = [k \in Keys |-> IF k \in V THEN <<>> ELSE @[k]],
        !.borrowed = [k \in Keys |-> IF k \in V THEN <<>> ELSE @[k]],
        !.tokens = [k \in Keys |-> IF k \in V THEN 0 ELSE @[k]]]

\* A variant that keeps the holds of the pages a key borrowed, for
\* PagesAccounted.
FreeOwned(P, V) == Forget(P, V, [k \in Keys |-> Range(P.owned[k])])

\* Free every key of V.
FreeKeys(P, V) == Forget(P, V, [k \in Keys |-> TableSet(P, k)])

\* Keep the first tokens and return unused trailing pages.
Rewind(P, k, tokens) ==
    LET keep == PagesNeeded(tokens) - Len(P.borrowed[k])
        unused == Range(SubSeq(P.owned[k], keep + 1, Len(P.owned[k])))
    IN  [ReleasePages(P, [l \in Keys |-> IF l = k THEN unused ELSE {}]) EXCEPT
            !.owned[k] = SubSeq(@, 1, keep),
            !.tokens[k] = tokens]

\* Pages a key's table lacks to cover capacity rows.
GrowthPages(P, k, capacity) ==
    LET need == PagesNeeded(capacity) - Len(TablePages(P, k)) IN
    IF need > 0 THEN need ELSE 0

\* Add pages for capacity rows.
Grow(P, k, capacity) ==
    LET added == TakePages(P, GrowthPages(P, k, capacity)) IN
    [P EXCEPT !.free = @ \ Range(added),
              !.holds = Hold(P, Range(added)),
              !.owned[k] = @ \o added]

\* One more page to every key of V.
GrowEach(P, V) ==
    LET page == CHOOSE f \in [V -> P.free] : \A k, l \in V : f[k] = f[l] => k = l IN
    [P EXCEPT !.free = @ \ Range(page),
              !.holds = Hold(P, Range(page)),
              !.owned = [k \in Keys |-> IF k \in V THEN Append(@[k], page[k]) ELSE @[k]]]

\* Pages only k holds: what evicting it alone would free.
SoleHeld(P, k) == {p \in TableSet(P, k) : P.holds[p] = 1}

--------------------------------------------------------------------------------
(* What the accounting promises of one pool.                               *)

\* Every page's count is the number of tables that read it.
HoldsCounted(P) ==
    \A p \in DOMAIN P.holds :
        P.holds[p] = Cardinality({k \in P.resident : p \in TableSet(P, k)})

\* The free list is exactly the pages nobody reads: none is leaked, and
\* none is handed out while a table still reads it.
FreeUnread(P) == P.free = {p \in DOMAIN P.holds : P.holds[p] = 0}

\* A page is written by at most one key.
OneWriter(P) ==
    \A k, l \in P.resident :
        k # l => Range(P.owned[k]) \intersect Range(P.owned[l]) = {}

\* A key that left keeps nothing.
NothingLeft(P) ==
    \A k \in Keys \ P.resident :
        P.owned[k] = <<>> /\ P.borrowed[k] = <<>> /\ P.tokens[k] = 0

PoolOK(P) == HoldsCounted(P) /\ FreeUnread(P) /\ OneWriter(P) /\ NothingLeft(P)

================================================================================
