------------------------------- MODULE MCArenaCalls -------------------------------
(* Small instances of ArenaCalls for TLC.                                     *)
EXTENDS ArenaCalls, TLC

CONSTANTS a, b

TwoKeys == {a, b}
Symmetric == Permutations(Keys)

\* Page numbers mean nothing: a page is known by where tables read it.
Places(P, p) ==
    {<<k, i>> \in Keys \X (1 .. Cardinality(DOMAIN P.holds)) :
        i \in DOMAIN TablePages(P, k) /\ TablePages(P, k)[i] = p}

Unnumbered(P) ==
    <<P.resident, P.tokens, [k \in Keys |-> Len(P.borrowed[k])],
      {<<Places(P, p), P.holds[p], p \in P.free>> : p \in DOMAIN P.holds},
      Cardinality(P.free)>>

ArenaView ==
    <<Unnumbered(arena.full), Unnumbered(arena.slide),
      [arena EXCEPT !.full = {}, !.slide = {}]>>

================================================================================
