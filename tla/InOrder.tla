-------------------------------- MODULE InOrder --------------------------------
(***************************************************************************)
(* Sets listed in an order, and sequences filtered, by ranks.  These are   *)
(* what sorted() and boolean indexing do in the source; they count instead *)
(* of recursing, so that facts about them can be proved (KVArenaProofs).   *)
(***************************************************************************)
EXTENDS Integers, FiniteSets, Sequences

(* The elements of a finite set, each after those that come before it.     *)
Ranked(S, Before(_, _)) ==
    [n \in 1..Cardinality(S) |-> CHOOSE x \in S : Cardinality({y \in S : Before(y, x)}) = n - 1]

Ascending(S) == Ranked(S, <)

(* The elements of a sequence that are in a set, in the sequence's order.  *)
Sifted(s, keep) ==
    LET places == Ascending({n \in DOMAIN s : s[n] \in keep}) IN
    [n \in DOMAIN places |-> s[places[n]]]
=============================================================================
