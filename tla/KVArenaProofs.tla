---------------------------- MODULE KVArenaProofs ----------------------------
(***************************************************************************)
(* The pages of one pool, then the two pools of an arena and its           *)
(* operations, for every set of keys, pool sizes, page size, window and    *)
(* cap.  Each operation of PageArena keeps PoolOK; a pool is fine when it  *)
(* accounts for its pages, tables that share a page agree on its row, and  *)
(* each key's pages cover the rows between its start and its base.         *)
(*                                                                         *)
(* First come the facts about ordered lists and sequences that the loops   *)
(* working on an arena need: what InOrder's operators compute, for finite  *)
(* sets of numbers of any size, and lists without repetitions.             *)
(***************************************************************************)
EXTENDS KVArena, InOrder, FiniteSetTheorems, SequenceTheorems, WellFoundedInduction, TLAPS

-----------------------------------------------------------------------------
(* Numbers and sets in order *)

(* A set of naturals that is not empty has a least element.                *)
LEMMA LeastOf ==
    ASSUME NEW T, T \subseteq Nat, T # {}
    PROVE  \E x \in T : \A y \in T : x <= y
  <1> DEFINE R == OpToRel(<, Nat)
  <1>1. IsWellFoundedOn(R, Nat)
    BY NatLessThanWellFounded
  <1>2. \A x, y \in Nat : <<x, y>> \in R <=> x < y
    BY DEF OpToRel
  <1> HIDE DEF R
  <1>3. PICK x \in T : \A y \in T : ~ (<<y, x>> \in R)
    BY <1>1, WFMin
  <1>4. \A y \in T : ~ (y < x)
    BY <1>2, <1>3
  <1>5. \A y \in T : x <= y
    BY <1>4
  <1> QED BY <1>5

(* What holds of 0 and passes from a number to the next holds of them all. *)
LEMMA UpTo ==
    ASSUME NEW T, 0 \in T, \A n \in Nat : n \in T => n + 1 \in T
    PROVE  Nat \subseteq T
  <1> SUFFICES ASSUME Nat \ T # {} PROVE FALSE
    OBVIOUS
  <1>1. PICK x \in Nat \ T : \A y \in Nat \ T : x <= y
    BY LeastOf
  <1>2. x - 1 \in Nat /\ x - 1 \in T
    BY <1>1
  <1> QED BY <1>1, <1>2

(* The elements of a finite set of numbers up to one of them: how many     *)
(* there are is that one's place.                                          *)
RankIn(S, x) == Cardinality({y \in S : y < x}) + 1

LEMMA RankGrows ==
    ASSUME NEW S, S \subseteq Int, IsFiniteSet(S), NEW x \in S
    PROVE  /\ RankIn(S, x) \in 1..Cardinality(S)
           /\ \A z \in S : x < z => RankIn(S, x) < RankIn(S, z)
  <1> DEFINE Below(v) == {y \in S : y < v}
  <1>1. ASSUME NEW v \in S PROVE IsFiniteSet(Below(v)) /\ Cardinality(Below(v)) \in Nat
    <2>1. Below(v) \in SUBSET S
      OBVIOUS
    <2> QED BY <2>1, FS_Subset, FS_CardinalityType
  <1>2. IsFiniteSet(Below(x) \cup {x}) /\ Cardinality(Below(x) \cup {x}) = Cardinality(Below(x)) + 1
    <2>1. x \notin Below(x)
      OBVIOUS
    <2> QED BY <1>1, <2>1, FS_AddElement
  <1>3. Cardinality(Below(x) \cup {x}) <= Cardinality(S) /\ Cardinality(S) \in Nat
    <2>1. Below(x) \cup {x} \in SUBSET S
      OBVIOUS
    <2> QED BY <2>1, FS_Subset, FS_CardinalityType
  <1>4. ASSUME NEW z \in S, x < z PROVE RankIn(S, x) < RankIn(S, z)
    <2>1. Below(x) \cup {x} \in SUBSET Below(z)
      <3>1. x \in Int /\ z \in Int /\ \A y \in S : y \in Int
        BY <1>4
      <3>2. \A y \in S : y < x => y < z
        BY <1>4, <3>1
      <3> QED BY <1>4, <3>2
    <2>2. Cardinality(Below(x) \cup {x}) <= Cardinality(Below(z))
      BY <1>1, <2>1, FS_Subset
    <2> QED BY <1>1, <1>2, <2>2 DEF RankIn
  <1> QED BY <1>1, <1>2, <1>3, <1>4 DEF RankIn

(* Ascending lists every element of a finite set of numbers once, the      *)
(* smaller before the larger.                                              *)
LEMMA AscendingIs ==
    ASSUME NEW S, S \subseteq Int, IsFiniteSet(S)
    PROVE  /\ Cardinality(S) \in Nat /\ Ascending(S) \in [1..Cardinality(S) -> S]
           /\ \A x \in S : \E n \in 1..Cardinality(S) : Ascending(S)[n] = x
           /\ \A m, n \in 1..Cardinality(S) : m < n => Ascending(S)[m] < Ascending(S)[n]
  <1> DEFINE c == Cardinality(S)
             f == [x \in S |-> RankIn(S, x)]
  <1>1. c \in Nat
    BY FS_CardinalityType
  <1>2. f \in [S -> 1..c]
    BY RankGrows
  <1>3. \A x, z \in S : x # z => f[x] # f[z]
    <2> SUFFICES ASSUME NEW x \in S, NEW z \in S, x # z PROVE RankIn(S, x) # RankIn(S, z)
      OBVIOUS
    <2>1. x < z \/ z < x
      <3>1. x \in Int /\ z \in Int
        OBVIOUS
      <3> QED BY <3>1
    <2>2. /\ RankIn(S, x) \in 1..c /\ RankIn(S, z) \in 1..c
          /\ x < z => RankIn(S, x) < RankIn(S, z)
          /\ z < x => RankIn(S, z) < RankIn(S, x)
      BY RankGrows
    <2> QED BY <1>1, <2>1, <2>2
  <1>4. IsFiniteSet(1..c) /\ Cardinality(1..c) = c
    BY <1>1, FS_Interval
  <1>5. f \in Injection(S, 1..c)
    BY <1>2, <1>3 DEF Injection, IsInjective
  <1>6. f \in Surjection(S, 1..c)
    BY <1>4, <1>5, FS_Injection
  <1>7. ASSUME NEW n \in 1..c
        PROVE  /\ Ascending(S)[n] \in S /\ RankIn(S, Ascending(S)[n]) = n
    <2>1. PICK x \in S : f[x] = n
      BY <1>6 DEF Surjection
    <2>2. Cardinality({y \in S : y < x}) \in Nat
      <3>1. {y \in S : y < x} \in SUBSET S
        OBVIOUS
      <3> QED BY <3>1, FS_Subset, FS_CardinalityType
    <2>3. Cardinality({y \in S : y < x}) = n - 1
      BY <1>1, <2>1, <2>2 DEF RankIn
    <2>4. Ascending(S)[n] = CHOOSE y \in S : Cardinality({z \in S : z < y}) = n - 1
      BY DEF Ascending, Ranked
    <2>5. Ascending(S)[n] \in S /\ Cardinality({z \in S : z < Ascending(S)[n]}) = n - 1
      BY <2>3, <2>4
    <2> QED BY <1>1, <2>5 DEF RankIn
  <1>8. Ascending(S) \in [1..c -> S]
    <2>1. DOMAIN Ascending(S) = 1..c /\ Ascending(S) = [n \in 1..c |-> Ascending(S)[n]]
      BY SMTT(30) DEF Ascending, Ranked
    <2> QED BY <1>7, <2>1
  <1>9. \A x \in S : \E n \in 1..c : Ascending(S)[n] = x
    <2> SUFFICES ASSUME NEW x \in S PROVE \E n \in 1..c : Ascending(S)[n] = x
      OBVIOUS
    <2>1. f[x] \in 1..c /\ Ascending(S)[f[x]] \in S /\ f[Ascending(S)[f[x]]] = f[x]
      BY <1>2, <1>7
    <2>2. Ascending(S)[f[x]] = x
      BY <1>3, <2>1
    <2> QED BY <2>1, <2>2
  <1>10. \A m, n \in 1..c : m < n => Ascending(S)[m] < Ascending(S)[n]
    <2> SUFFICES ASSUME NEW m \in 1..c, NEW n \in 1..c, m < n
                 PROVE  Ascending(S)[m] < Ascending(S)[n]
      OBVIOUS
    <2> DEFINE x == Ascending(S)[m]
               z == Ascending(S)[n]
    <2>1. x \in S /\ z \in S /\ RankIn(S, x) = m /\ RankIn(S, z) = n
      BY <1>7
    <2>2. x < z \/ x = z \/ z < x
      <3>1. x \in Int /\ z \in Int
        BY <2>1
      <3> HIDE DEF x, z
      <3> QED BY <3>1
    <2>3. z < x => n < m
      BY <2>1, RankGrows
    <2> QED BY <2>1, <2>2, <2>3
  <1> QED BY <1>1, <1>8, <1>9, <1>10

(* Sifted keeps the elements of a sequence that are in a set, and no other,*)
(* in the order they had.                                                  *)
LEMMA SiftedIs ==
    ASSUME NEW s, NEW len \in Nat, DOMAIN s = 1..len, NEW keep
    PROVE  \E at :
              /\ at \in [DOMAIN Sifted(s, keep) -> 1..len]
              /\ \A n \in DOMAIN Sifted(s, keep) : Sifted(s, keep)[n] = s[at[n]] /\ s[at[n]] \in keep
              /\ \A k \in 1..len : s[k] \in keep => \E n \in DOMAIN Sifted(s, keep) : at[n] = k
              /\ \A m, n \in DOMAIN Sifted(s, keep) : m < n => at[m] < at[n]
              /\ \E size \in Nat : DOMAIN Sifted(s, keep) = 1..size /\ size <= len
  <1> DEFINE P == {n \in DOMAIN s : s[n] \in keep}
             at == Ascending(P)
  <1>1. IsFiniteSet(1..len) /\ Cardinality(1..len) = len
    BY FS_Interval
  <1>2. P \in SUBSET (1..len)
    OBVIOUS
  <1>3. P \subseteq Int /\ IsFiniteSet(P) /\ Cardinality(P) <= len
    BY <1>1, <1>2, FS_Subset
  <1>4. /\ Cardinality(P) \in Nat /\ at \in [1..Cardinality(P) -> P]
        /\ \A x \in P : \E n \in 1..Cardinality(P) : at[n] = x
        /\ \A m, n \in 1..Cardinality(P) : m < n => at[m] < at[n]
    BY <1>3, AscendingIs
  <1>5. Sifted(s, keep) = [n \in DOMAIN at |-> s[at[n]]]
    BY DEF Sifted
  <1>6. P \subseteq 1..len /\ \A k \in 1..len : k \in P <=> s[k] \in keep
    OBVIOUS
  <1> HIDE DEF P, at
  <1>7. DOMAIN Sifted(s, keep) = 1..Cardinality(P) /\ \A n \in 1..Cardinality(P) : Sifted(s, keep)[n] = s[at[n]]
    BY <1>4, <1>5
  <1> QED BY <1>3, <1>4, <1>6, <1>7

-----------------------------------------------------------------------------
(* Sequences without repetitions, and what is in them.                     *)
NoRepeats(s) == \A m, n \in DOMAIN s : s[m] = s[n] => m = n

LEMMA ListIs ==
    ASSUME NEW S, NEW n \in Nat, NEW f \in [1 .. n -> S]
    PROVE  f \in Seq(S)
  <1>1. f = [k \in 1 .. n |-> f[k]] /\ \A k \in 1 .. n : f[k] \in S
    OBVIOUS
  <1> QED BY <1>1

LEMMA TailIs ==
    ASSUME NEW S, NEW s \in Seq(S), s # <<>>
    PROVE  /\ Tail(s) \in Seq(S) /\ Len(Tail(s)) = Len(s) - 1 /\ Len(s) > 0
           /\ Head(s) \in S /\ Head(s) \in Range(s)
           /\ Range(s) = Range(Tail(s)) \union {Head(s)}
           /\ NoRepeats(s) => NoRepeats(Tail(s)) /\ Head(s) \notin Range(Tail(s))
  <1>1. /\ Len(s) \in Nat /\ Len(s) > 0 /\ DOMAIN s = 1 .. Len(s) /\ Head(s) = s[1]
        /\ Tail(s) \in Seq(S) /\ Len(Tail(s)) = Len(s) - 1
        /\ \A n \in 1 .. Len(s) - 1 : Tail(s)[n] = s[n + 1]
    OBVIOUS
  <1>2. DOMAIN Tail(s) = 1 .. Len(s) - 1
    BY <1>1
  <1>3. Range(s) = Range(Tail(s)) \union {Head(s)}
    <2>1. ASSUME NEW n \in 1 .. Len(s) PROVE s[n] \in Range(Tail(s)) \union {Head(s)}
      <3>1. CASE n = 1
        BY <3>1, <1>1
      <3>2. CASE n # 1
        <4>1. n - 1 \in 1 .. Len(s) - 1 /\ Tail(s)[n - 1] = s[n]
          BY <3>2, <1>1
        <4> QED BY <4>1, <1>2 DEF Range
      <3> QED BY <3>1, <3>2
    <2>2. ASSUME NEW n \in 1 .. Len(s) - 1 PROVE Tail(s)[n] \in Range(s)
      <3>1. n + 1 \in 1 .. Len(s) /\ Tail(s)[n] = s[n + 1]
        BY <1>1
      <3> QED BY <3>1, <1>1 DEF Range
    <2>3. Head(s) \in Range(s)
      BY <1>1 DEF Range
    <2> QED BY <2>1, <2>2, <2>3, <1>1, <1>2 DEF Range
  <1>4. ASSUME NoRepeats(s) PROVE NoRepeats(Tail(s)) /\ Head(s) \notin Range(Tail(s))
    <2>1. ASSUME NEW m \in 1 .. Len(s) - 1, NEW n \in 1 .. Len(s) - 1, Tail(s)[m] = Tail(s)[n]
          PROVE  m = n
      <3>1. m + 1 \in 1 .. Len(s) /\ n + 1 \in 1 .. Len(s) /\ s[m + 1] = s[n + 1]
        BY <1>1, <2>1
      <3> QED BY <3>1, <1>1, <1>4 DEF NoRepeats
    <2>2. ASSUME NEW n \in 1 .. Len(s) - 1 PROVE Tail(s)[n] # Head(s)
      <3>1. n + 1 \in 1 .. Len(s) /\ 1 \in 1 .. Len(s) /\ n + 1 # 1 /\ Tail(s)[n] = s[n + 1]
        BY <1>1
      <3> QED BY <3>1, <1>1, <1>4 DEF NoRepeats
    <2> QED BY <2>1, <2>2, <1>2 DEF NoRepeats, Range
  <1>5. Head(s) \in Range(s) /\ Head(s) \in S
    BY <1>1 DEF Range
  <1> QED BY <1>1, <1>3, <1>4, <1>5

LEMMA AppendIs ==
    ASSUME NEW S, NEW s \in Seq(S), NEW e \in S
    PROVE  /\ Append(s, e) \in Seq(S) /\ Len(Append(s, e)) = Len(s) + 1
           /\ Range(Append(s, e)) = Range(s) \union {e}
           /\ NoRepeats(s) /\ e \notin Range(s) => NoRepeats(Append(s, e))
  <1>1. /\ Len(s) \in Nat /\ DOMAIN s = 1 .. Len(s)
        /\ Append(s, e) \in Seq(S) /\ Len(Append(s, e)) = Len(s) + 1
        /\ Append(s, e)[Len(s) + 1] = e
        /\ \A n \in 1 .. Len(s) : Append(s, e)[n] = s[n]
    OBVIOUS
  <1>2. DOMAIN Append(s, e) = 1 .. Len(s) + 1
    BY <1>1
  <1>3. \A n \in 1 .. Len(s) + 1 : n \in 1 .. Len(s) \/ n = Len(s) + 1
    BY <1>1
  <1>4. 1 .. Len(s) \subseteq 1 .. Len(s) + 1 /\ Len(s) + 1 \in 1 .. Len(s) + 1
    BY <1>1
  <1>5. Range(Append(s, e)) = Range(s) \union {e}
    BY <1>1, <1>2, <1>3, <1>4 DEF Range
  <1>6. ASSUME NoRepeats(s), e \notin Range(s) PROVE NoRepeats(Append(s, e))
    <2>1. \A n \in 1 .. Len(s) : s[n] # e
      BY <1>6, <1>1 DEF Range
    <2> QED BY <1>6, <2>1, <1>1, <1>2, <1>3 DEF NoRepeats
  <1> QED BY <1>1, <1>5, <1>6

LEMMA ConcatIs ==
    ASSUME NEW S, NEW s \in Seq(S), NEW t \in Seq(S)
    PROVE  /\ s \o t \in Seq(S) /\ Range(s \o t) = Range(s) \union Range(t)
           /\ NoRepeats(s) /\ NoRepeats(t) /\ Range(s) \intersect Range(t) = {} => NoRepeats(s \o t)
  <1>1. /\ Len(s) \in Nat /\ DOMAIN s = 1 .. Len(s) /\ Len(t) \in Nat /\ DOMAIN t = 1 .. Len(t)
        /\ s \o t \in Seq(S) /\ DOMAIN (s \o t) = 1 .. Len(s) + Len(t)
        /\ \A n \in 1 .. Len(s) : (s \o t)[n] = s[n]
        /\ \A n \in 1 .. Len(s) + Len(t) : n > Len(s) => (s \o t)[n] = t[n - Len(s)]
    OBVIOUS
  <1>2. \A n \in 1 .. Len(s) + Len(t) :
           n \in 1 .. Len(s) \/ (n > Len(s) /\ n - Len(s) \in 1 .. Len(t))
    BY <1>1
  <1>3. /\ 1 .. Len(s) \subseteq 1 .. Len(s) + Len(t)
        /\ \A n \in 1 .. Len(t) : /\ n + Len(s) \in 1 .. Len(s) + Len(t)
                                  /\ n + Len(s) > Len(s) /\ (n + Len(s)) - Len(s) = n
    BY <1>1
  <1>4. Range(s \o t) = Range(s) \union Range(t)
    <2>1. ASSUME NEW n \in 1 .. Len(s) + Len(t) PROVE (s \o t)[n] \in Range(s) \union Range(t)
      BY <1>1, <1>2 DEF Range
    <2>2. ASSUME NEW n \in 1 .. Len(s) PROVE s[n] \in Range(s \o t)
      BY <1>1, <1>3 DEF Range
    <2>3. ASSUME NEW n \in 1 .. Len(t) PROVE t[n] \in Range(s \o t)
      <3>1. (s \o t)[n + Len(s)] = t[n]
        BY <1>1, <1>3
      <3> QED BY <3>1, <1>1, <1>3 DEF Range
    <2> QED BY <2>1, <2>2, <2>3, <1>1 DEF Range
  <1>5. ASSUME NoRepeats(s), NoRepeats(t), Range(s) \intersect Range(t) = {} PROVE NoRepeats(s \o t)
    <2> SUFFICES ASSUME NEW m \in 1 .. Len(s) + Len(t), NEW n \in 1 .. Len(s) + Len(t),
                        (s \o t)[m] = (s \o t)[n]
                 PROVE  m = n
      BY <1>1 DEF NoRepeats
    <2>1. CASE m \in 1 .. Len(s) /\ n \in 1 .. Len(s)
      BY <2>1, <1>1, <1>5 DEF NoRepeats
    <2>2. CASE m > Len(s) /\ n > Len(s)
      <3>1. m - Len(s) \in 1 .. Len(t) /\ n - Len(s) \in 1 .. Len(t)
        BY <2>2, <1>1
      <3>2. t[m - Len(s)] = t[n - Len(s)]
        BY <2>2, <1>1
      <3>3. m - Len(s) = n - Len(s)
        BY <3>1, <3>2, <1>1, <1>5 DEF NoRepeats
      <3> QED BY <3>3, <1>1
    <2>3. \A i \in 1 .. Len(s), k \in 1 .. Len(t) : s[i] # t[k]
      BY <1>5, <1>1 DEF Range
    <2>4. CASE m \in 1 .. Len(s) /\ n > Len(s)
      BY <2>3, <2>4, <1>1, <1>2
    <2>5. CASE n \in 1 .. Len(s) /\ m > Len(s)
      BY <2>3, <2>5, <1>1, <1>2
    <2> QED BY <2>1, <2>2, <2>4, <2>5, <1>2
  <1> QED BY <1>1, <1>4, <1>5

LEMMA SiftedOf ==
    ASSUME NEW S, NEW s \in Seq(S), NEW keep
    PROVE  /\ Sifted(s, keep) \in Seq(S) /\ Range(Sifted(s, keep)) = Range(s) \intersect keep
           /\ NoRepeats(s) => NoRepeats(Sifted(s, keep))
  <1> DEFINE t == Sifted(s, keep)
  <1>1. Len(s) \in Nat /\ DOMAIN s = 1 .. Len(s) /\ \A n \in 1 .. Len(s) : s[n] \in S
    OBVIOUS
  <1> HIDE DEF t
  <1>2. PICK at :
              /\ at \in [DOMAIN t -> 1 .. Len(s)]
              /\ \A n \in DOMAIN t : t[n] = s[at[n]] /\ s[at[n]] \in keep
              /\ \A k \in 1 .. Len(s) : s[k] \in keep => \E n \in DOMAIN t : at[n] = k
              /\ \A m, n \in DOMAIN t : m < n => at[m] < at[n]
              /\ \E size \in Nat : DOMAIN t = 1 .. size /\ size <= Len(s)
    BY <1>1, SiftedIs DEF t
  <1>3. PICK size \in Nat : DOMAIN t = 1 .. size
    BY <1>2
  <1>4. t = [n \in 1 .. size |-> t[n]]
    BY <1>3 DEF t, Sifted
  <1>5. t \in Seq(S)
    <2>1. \A n \in 1 .. size : t[n] \in S
      BY <1>1, <1>2, <1>3
    <2>2. t \in [1 .. size -> S]
      BY <1>4, <2>1
    <2> QED BY <2>2, ListIs
  <1>6. Range(t) = Range(s) \intersect keep
    BY <1>1, <1>2 DEF Range
  <1>7. ASSUME NoRepeats(s) PROVE NoRepeats(t)
    <2> SUFFICES ASSUME NEW m \in DOMAIN t, NEW n \in DOMAIN t, t[m] = t[n] PROVE m = n
      BY DEF NoRepeats
    <2>1. at[m] = at[n]
      BY <1>1, <1>2, <1>7 DEF NoRepeats
    <2>2. m \in Nat /\ n \in Nat /\ at[m] \in Nat /\ at[n] \in Nat
      BY <1>2, <1>3
    <2>3. m < n \/ n < m \/ m = n
      BY <2>2
    <2>4. ~(m < n) /\ ~(n < m)
      BY <1>2, <1>3, <2>1, <2>2
    <2> QED BY <2>3, <2>4
  <1> QED BY <1>5, <1>6, <1>7 DEF t

LEMMA AscendingOf ==
    ASSUME NEW S, S \subseteq Int, IsFiniteSet(S)
    PROVE  Ascending(S) \in Seq(S) /\ Range(Ascending(S)) = S /\ NoRepeats(Ascending(S))
  <1>1. /\ Cardinality(S) \in Nat /\ Ascending(S) \in [1..Cardinality(S) -> S]
        /\ \A x \in S : \E n \in 1..Cardinality(S) : Ascending(S)[n] = x
        /\ \A m, n \in 1..Cardinality(S) : m < n => Ascending(S)[m] < Ascending(S)[n]
    BY AscendingIs
  <1>2. ASSUME NEW m \in 1..Cardinality(S), NEW n \in 1..Cardinality(S),
               Ascending(S)[m] = Ascending(S)[n]
        PROVE  m = n
    <2>1. Ascending(S)[m] \in Int /\ Ascending(S)[n] \in Int
      <3>1. Ascending(S)[m] \in S /\ Ascending(S)[n] \in S
        BY <1>1
      <3> QED BY <3>1
    <2>2. m \in Nat /\ n \in Nat
      <3>1. Cardinality(S) \in Nat
        BY <1>1
      <3> QED BY <3>1
    <2> QED BY <2>1, <2>2, <1>1, <1>2
  <1>3. DOMAIN Ascending(S) = 1..Cardinality(S) /\ Ascending(S) \in Seq(S)
    BY <1>1, ListIs
  <1>4. Range(Ascending(S)) = S
    BY <1>1, <1>3 DEF Range
  <1> QED BY <1>2, <1>3, <1>4 DEF NoRepeats

LEMMA RangeIn ==
    ASSUME NEW S, NEW s \in Seq(S)
    PROVE  Range(s) \subseteq S
  <1>1. \A n \in DOMAIN s : s[n] \in S
    OBVIOUS
  <1> QED BY <1>1 DEF Range

LEMMA SeqIn ==
    ASSUME NEW S, NEW T, S \subseteq T, NEW s \in Seq(S)
    PROVE  s \in Seq(T)
  <1>1. Len(s) \in Nat /\ DOMAIN s = 1 .. Len(s) /\ \A n \in 1 .. Len(s) : s[n] \in T
    OBVIOUS
  <1>2. s \in [1 .. Len(s) -> T]
    OBVIOUS
  <1> QED BY <1>1, <1>2, ListIs

LEMMA PutIs ==
    ASSUME NEW D, NEW R, NEW f \in [D -> R], NEW a \in D, NEW r \in R
    PROVE  /\ [f EXCEPT ![a] = r] \in [D -> R] /\ [f EXCEPT ![a] = r][a] = r
           /\ \A e \in D : e # a => [f EXCEPT ![a] = r][e] = f[e]
  OBVIOUS

-----------------------------------------------------------------------------
(* Whole pages *)

\* Division by the page size rounds down.
LEMMA DivFloor ==
    ASSUME NEW a \in Int
    PROVE  /\ a \div PageTokens \in Int
           /\ (a \div PageTokens) * PageTokens <= a
           /\ a < (a \div PageTokens + 1) * PageTokens
           /\ a >= 0 => a \div PageTokens >= 0
  BY PageTokensAssumption

\* Multiples of the page size are in the order of their factors.
LEMMA TimesOrder ==
    ASSUME NEW m \in Int, NEW n \in Int
    PROVE  /\ m <= n <=> m * PageTokens <= n * PageTokens
           /\ m < n <=> m * PageTokens < n * PageTokens
  BY PageTokensAssumption

\* Sums, differences and quotients of multiples of the page size.
LEMMA Times ==
    ASSUME NEW m \in Int, NEW n \in Int
    PROVE  /\ m * PageTokens \in Int
           /\ (m - n) * PageTokens = m * PageTokens - n * PageTokens
           /\ (m + n) * PageTokens = m * PageTokens + n * PageTokens
           /\ (m * PageTokens) % PageTokens = 0
           /\ (m * PageTokens) \div PageTokens = m
  BY PageTokensAssumption

\* A whole number of pages is what division says it is.
LEMMA WholePages ==
    ASSUME NEW a \in Int, a % PageTokens = 0
    PROVE  (a \div PageTokens) * PageTokens = a
  BY PageTokensAssumption

\* PagesNeeded rounds up.
LEMMA PagesNeededBounds ==
    ASSUME NEW t \in Nat
    PROVE  /\ PagesNeeded(t) \in Nat
           /\ t <= PagesNeeded(t) * PageTokens
           /\ PagesNeeded(t) * PageTokens < t + PageTokens
  <1>1. t + PageTokens - 1 \in Int
    BY PageTokensAssumption
  <1>2. QED
    BY <1>1, PageTokensAssumption, DivFloor DEF PagesNeeded

-----------------------------------------------------------------------------
(* Tables and counts *)

Pages(n) == 0 .. n - 1

Distinct(s) == \A i, j \in 1 .. Len(s) : s[i] = s[j] => i = j

\* The keys that read a page.
Readers(P, p) == {k \in Keys : p \in TableSet(P, k)}

PoolInv(P, n) ==
    P \in Pool(n) /\ PoolOK(P) /\ \A k \in Keys : Distinct(TablePages(P, k))

\* The fields of a pool's record.
LEMMA Fields ==
    ASSUME NEW n \in Nat, NEW P \in Pool(n)
    PROVE  /\ P.resident \subseteq Keys /\ P.free \subseteq Pages(n)
           /\ P.holds \in [Pages(n) -> Nat]
           /\ P.owned \in [Keys -> Seq(Pages(n))] /\ P.borrowed \in [Keys -> Seq(Pages(n))]
           /\ P.tokens \in [Keys -> Nat]
  BY DEF Pool, Pages

\* A key's table: the pages it borrows, then those it owns.
LEMMA TableIs ==
    ASSUME NEW n \in Nat, NEW P \in Pool(n), NEW k \in Keys
    PROVE  /\ TablePages(P, k) \in Seq(Pages(n))
           /\ P.borrowed[k] \in Seq(Pages(n)) /\ P.owned[k] \in Seq(Pages(n))
           /\ Len(P.borrowed[k]) \in Nat /\ Len(P.owned[k]) \in Nat
           /\ Len(TablePages(P, k)) = Len(P.borrowed[k]) + Len(P.owned[k])
           /\ TableSet(P, k) = Range(P.borrowed[k]) \cup Range(P.owned[k])
           /\ TableSet(P, k) \subseteq Pages(n)
           /\ \A i \in 1 .. Len(TablePages(P, k)) :
                 TablePages(P, k)[i] = IF i <= Len(P.borrowed[k]) THEN P.borrowed[k][i]
                                       ELSE P.owned[k][i - Len(P.borrowed[k])]
  <1>1. P.borrowed[k] \in Seq(Pages(n)) /\ P.owned[k] \in Seq(Pages(n))
    BY Fields
  <1>2. /\ TablePages(P, k) \in Seq(Pages(n))
        /\ Len(TablePages(P, k)) = Len(P.borrowed[k]) + Len(P.owned[k])
        /\ \A i \in 1 .. Len(TablePages(P, k)) :
                 TablePages(P, k)[i] = IF i <= Len(P.borrowed[k]) THEN P.borrowed[k][i]
                                       ELSE P.owned[k][i - Len(P.borrowed[k])]
    BY ZenonT(30), <1>1, ConcatProperties DEF TablePages
  <1>3. Len(P.borrowed[k]) \in Nat /\ Len(P.owned[k]) \in Nat
    BY <1>1, LenProperties
  <1>4. TableSet(P, k) = Range(P.borrowed[k]) \cup Range(P.owned[k])
    BY <1>1, RangeConcatenation DEF TablePages, TableSet
  <1>5. TableSet(P, k) \subseteq Pages(n)
    BY <1>2, RangeOfSeq DEF TableSet
  <1>6. QED
    BY <1>1, <1>2, <1>3, <1>4, <1>5

\* A value of a sequence is at an index of it.
LEMMA InRange ==
    ASSUME NEW S, NEW s \in Seq(S)
    PROVE  /\ \A x : x \in Range(s) <=> \E i \in 1 .. Len(s) : x = s[i]
           /\ Range(s) \subseteq S
  BY RangeEquality, RangeOfSeq, LenProperties

\* Finitely many keys read a page.
LEMMA ReadersFinite ==
    ASSUME NEW P, NEW p
    PROVE  IsFiniteSet(Readers(P, p)) /\ Cardinality(Readers(P, p)) \in Nat
  <1>1. Readers(P, p) \in SUBSET Keys
    BY DEF Readers
  <1>2. QED
    BY <1>1, KeysAssumption, FS_Subset, FS_CardinalityType

\* Only resident keys read pages, so the counts are those of all readers.
LEMMA CountsAreReaders ==
    ASSUME NEW n \in Nat, NEW P \in Pool(n), NothingLeft(P), NEW p
    PROVE  Readers(P, p) = {k \in P.resident : p \in TableSet(P, k)}
  <1>1. ASSUME NEW k \in Keys, k \notin P.resident PROVE p \notin TableSet(P, k)
    <2>1. P.owned[k] = <<>> /\ P.borrowed[k] = <<>>
      BY <1>1 DEF NothingLeft
    <2>2. Range(<<>>) = {}
      BY DEF Range
    <2>3. QED
      BY ZenonT(30), <2>1, <2>2, TableIs
  <1>2. P.resident \subseteq Keys
    BY Fields
  <1>3. QED
    BY <1>1, <1>2 DEF Readers

\* A page's count is the number of its readers.
LEMMA HoldsAreReaders ==
    ASSUME NEW n \in Nat, NEW P, PoolInv(P, n), NEW p \in Pages(n)
    PROVE  P.holds[p] = Cardinality(Readers(P, p))
  BY CountsAreReaders, Fields DEF PoolInv, PoolOK, HoldsCounted

\* A free page is in no table.
LEMMA FreeIsUnread ==
    ASSUME NEW n \in Nat, NEW P, PoolInv(P, n), NEW p \in P.free, NEW k \in Keys
    PROVE  p \in Pages(n) /\ p \notin TableSet(P, k)
  <1>1. p \in Pages(n) /\ P.holds[p] = 0
    BY Fields DEF PoolInv, PoolOK, FreeUnread
  <1>2. Readers(P, p) = {}
    BY <1>1, HoldsAreReaders, ReadersFinite, FS_EmptySet
  <1>3. QED
    BY <1>1, <1>2 DEF Readers

\* From P to Q each key gains pages of its own, all of them free before.
Gains(P, Q, gain, all) ==
    /\ \A p : p \in all <=> \E k \in Keys : p \in gain[k]
    /\ \A k, l \in Keys : k # l => gain[k] \cap gain[l] = {}
    /\ \A k \in Keys : gain[k] \cap TableSet(P, k) = {}
    /\ \A k \in Keys : TableSet(Q, k) = TableSet(P, k) \cup gain[k]
    /\ Q.holds = Hold(P, all) /\ Q.free = P.free \ all

\* What one more reader does to the count of a page.
LEMMA GainCounts ==
    ASSUME NEW n \in Nat, NEW P, PoolInv(P, n), NEW Q \in Pool(n), NothingLeft(Q),
           NEW gain, NEW all, Gains(P, Q, gain, all)
    PROVE  HoldsCounted(Q) /\ FreeUnread(Q)
  <1>1. DOMAIN P.holds = Pages(n) /\ DOMAIN Q.holds = Pages(n)
    BY Fields DEF PoolInv
  <1>2. Q.holds = Hold(P, all) /\ Q.free = P.free \ all
    BY DEF Gains
  <1>3. ASSUME NEW p \in Pages(n) PROVE Q.holds[p] = Cardinality(Readers(Q, p))
    <2>1. CASE p \in all
      <3>1. PICK k \in Keys : p \in gain[k]
        BY <2>1 DEF Gains
      <3>2. Readers(Q, p) = Readers(P, p) \cup {k} /\ k \notin Readers(P, p)
        BY <3>1 DEF Readers, Gains
      <3>3. Cardinality(Readers(Q, p)) = Cardinality(Readers(P, p)) + 1
        BY <3>2, ReadersFinite, FS_AddElement
      <3>4. Q.holds[p] = P.holds[p] + 1
        BY <1>1, <1>2, <2>1 DEF Hold
      <3>5. QED
        BY <3>3, <3>4, HoldsAreReaders
    <2>2. CASE p \notin all
      <3>1. Readers(Q, p) = Readers(P, p)
        BY <2>2 DEF Readers, Gains
      <3>2. Q.holds[p] = P.holds[p]
        BY <1>1, <1>2, <2>2 DEF Hold
      <3>3. QED
        BY <3>1, <3>2, HoldsAreReaders
    <2>3. QED
      BY <2>1, <2>2
  <1>4. HoldsCounted(Q)
    <2>1. ASSUME NEW p \in Pages(n)
          PROVE  Readers(Q, p) = {k \in Q.resident : p \in TableSet(Q, k)}
      BY CountsAreReaders
    <2>2. QED
      BY <1>1, <1>3, <2>1 DEF HoldsCounted
  <1>5. FreeUnread(Q)
    <2>1. P.free = {p \in Pages(n) : P.holds[p] = 0}
      BY <1>1 DEF PoolInv, PoolOK, FreeUnread
    <2>2. ASSUME NEW p \in Pages(n)
          PROVE  Q.holds[p] = 0 <=> P.holds[p] = 0 /\ p \notin all
      BY <1>1, <1>2, Fields DEF Hold, PoolInv
    <2>3. QED
      BY <1>1, <1>2, <2>1, <2>2 DEF FreeUnread
  <1>6. QED
    BY <1>4, <1>5

\* Keys that let go of pages of their tables keep the counts.
LEMMA LossCounts ==
    ASSUME NEW n \in Nat, NEW P, PoolInv(P, n), NEW Q \in Pool(n), NothingLeft(Q),
           NEW lost \in [Keys -> SUBSET Pages(n)],
           \A k \in Keys : lost[k] \subseteq TableSet(P, k),
           \A k \in Keys : TableSet(Q, k) = TableSet(P, k) \ lost[k],
           Q.holds = ReleasePages(P, lost).holds, Q.free = ReleasePages(P, lost).free
    PROVE  HoldsCounted(Q) /\ FreeUnread(Q)
  <1> DEFINE drop == [p \in Pages(n) |-> Cardinality({k \in Keys : p \in lost[k]})]
  <1>1. DOMAIN P.holds = Pages(n) /\ DOMAIN Q.holds = Pages(n) /\ P \in Pool(n)
    BY Fields DEF PoolInv
  <1>2. /\ Q.holds = [p \in Pages(n) |-> P.holds[p] - drop[p]]
        /\ Q.free = P.free \cup {p \in Pages(n) : drop[p] > 0 /\ P.holds[p] = drop[p]}
    BY <1>1 DEF ReleasePages, Pool
  <1>3. ASSUME NEW p \in Pages(n)
        PROVE  /\ drop[p] \in Nat /\ P.holds[p] \in Nat
               /\ Cardinality(Readers(Q, p)) = P.holds[p] - drop[p]
    <2> DEFINE gone == {k \in Keys : p \in lost[k]}
    <2>1. gone \subseteq Readers(P, p) /\ Readers(Q, p) = Readers(P, p) \ gone
      BY DEF Readers
    <2>2. Readers(P, p) \cap gone = gone
      BY <2>1
    <2>3. IsFiniteSet(Readers(P, p)) /\ IsFiniteSet(gone)
      BY <2>1, ReadersFinite, FS_Subset
    <2>4. Cardinality(Readers(Q, p)) = Cardinality(Readers(P, p)) - Cardinality(gone)
      BY <2>1, <2>2, <2>3, FS_Difference
    <2>5. QED
      BY <2>3, <2>4, HoldsAreReaders, ReadersFinite, FS_CardinalityType
  <1> HIDE DEF drop
  <1>4. HoldsCounted(Q)
    BY <1>1, <1>2, <1>3, CountsAreReaders DEF HoldsCounted
  <1>5. FreeUnread(Q)
    <2>1. P.free = {p \in Pages(n) : P.holds[p] = 0}
      BY <1>1 DEF PoolInv, PoolOK, FreeUnread
    <2>2. ASSUME NEW p \in Pages(n)
          PROVE  Q.holds[p] = 0 <=> P.holds[p] = 0 \/ (drop[p] > 0 /\ P.holds[p] = drop[p])
      <3>1. P.holds[p] - drop[p] \in Nat
        BY <1>3, ReadersFinite
      <3>2. QED
        BY <1>2, <1>3, <3>1
    <2>3. QED
      BY <1>1, <1>2, <2>1, <2>2 DEF FreeUnread
  <1>6. QED
    BY <1>4, <1>5

-----------------------------------------------------------------------------
(* Free pages *)

\* Finitely many pages are free.
LEMMA FreeFinite ==
    ASSUME NEW n \in Nat, NEW P \in Pool(n)
    PROVE  IsFiniteSet(P.free) /\ FreeCount(P) \in Nat
  <1>1. IsFiniteSet(0 .. n - 1)
    BY FS_Interval
  <1>2. P.free \in SUBSET (0 .. n - 1)
    BY Fields DEF Pages
  <1>3. QED
    BY <1>1, <1>2, FS_Subset, FS_CardinalityType DEF FreeCount

\* As many free pages as there are can be taken, each once.
LEMMA TakePagesIs ==
    ASSUME NEW n \in Nat, NEW P \in Pool(n), NEW m \in Nat, m <= FreeCount(P)
    PROVE  /\ TakePages(P, m) \in Seq(Pages(n)) /\ Len(TakePages(P, m)) = m
           /\ Distinct(TakePages(P, m)) /\ Range(TakePages(P, m)) \subseteq P.free
  <1>1. PICK f : f \in Bijection(1 .. FreeCount(P), P.free)
    BY FreeFinite, FS_CardinalityType DEF FreeCount, ExistsBijection
  <1>2. /\ f \in [1 .. FreeCount(P) -> P.free] /\ FreeCount(P) \in Nat
        /\ \A i, j \in 1 .. FreeCount(P) : f[i] = f[j] => i = j
    BY <1>1, FreeFinite DEF Bijection, Injection, IsInjective
  <1> DEFINE s == [i \in 1 .. m |-> f[i]]
  <1>3. s \in [1 .. m -> P.free] /\ \A i, j \in 1 .. m : s[i] = s[j] => i = j
    BY <1>2
  <1> DEFINE t == TakePages(P, m)
  <1>4. t \in [1 .. m -> P.free] /\ \A i, j \in 1 .. m : t[i] = t[j] => i = j
    BY <1>3 DEF TakePages
  <1> HIDE DEF t
  <1>5. t \in [1 .. m -> Pages(n)]
    BY <1>4, Fields
  <1>6. t \in Seq(Pages(n)) /\ Len(t) = m
    BY <1>5, SeqDef
  <1>7. Range(t) \subseteq P.free
    BY <1>4 DEF Range
  <1>8. QED
    BY <1>4, <1>6, <1>7 DEF Distinct, t

\* So can one page for each key of a set no larger.
LEMMA OnePageEach ==
    ASSUME NEW n \in Nat, NEW P \in Pool(n), NEW V \in SUBSET Keys,
           Cardinality(V) <= FreeCount(P)
    PROVE  \E f \in [V -> P.free] : \A k, l \in V : f[k] = f[l] => k = l
  <1>1. IsFiniteSet(V) /\ Cardinality(V) \in Nat
    BY KeysAssumption, FS_Subset, FS_CardinalityType
  <1>2. PICK v : v \in Bijection(1 .. Cardinality(V), V)
    BY <1>1, FS_CardinalityType DEF ExistsBijection
  <1>3. v \in [1 .. Cardinality(V) -> V] /\ \A k \in V : \E i \in 1 .. Cardinality(V) : v[i] = k
    BY <1>2 DEF Bijection, Surjection
  <1>4. PICK f : f \in Bijection(1 .. FreeCount(P), P.free)
    BY FreeFinite, FS_CardinalityType DEF FreeCount, ExistsBijection
  <1>5. /\ f \in [1 .. FreeCount(P) -> P.free] /\ FreeCount(P) \in Nat
        /\ \A i, j \in 1 .. FreeCount(P) : f[i] = f[j] => i = j
    BY <1>4, FreeFinite DEF Bijection, Injection, IsInjective
  <1> DEFINE at == [k \in V |-> CHOOSE i \in 1 .. Cardinality(V) : v[i] = k]
             g == [k \in V |-> f[at[k]]]
  <1>6. \A k \in V : at[k] \in 1 .. Cardinality(V) /\ v[at[k]] = k
    BY <1>3
  <1> HIDE DEF at
  <1>7. \A k \in V : at[k] \in 1 .. FreeCount(P)
    BY <1>1, <1>5, <1>6
  <1>8. g \in [V -> P.free] /\ \A k, l \in V : g[k] = g[l] => k = l
    BY <1>5, <1>6, <1>7
  <1>9. QED
    BY <1>8

-----------------------------------------------------------------------------
(* Growing tables *)

\* Q's tables are P's with pages that were free added at their ends: two
\* tables that share a page in Q share it in P, at the same places.
Longer(P, Q) ==
    /\ \A k \in Keys :
          /\ Len(TablePages(P, k)) <= Len(TablePages(Q, k))
          /\ \A i \in 1 .. Len(TablePages(P, k)) : TablePages(Q, k)[i] = TablePages(P, k)[i]
    /\ \A k, l \in Keys : k # l =>
          \A i \in 1 .. Len(TablePages(Q, k)) : \A j \in 1 .. Len(TablePages(Q, l)) :
              TablePages(Q, k)[i] = TablePages(Q, l)[j] =>
                  i <= Len(TablePages(P, k)) /\ j <= Len(TablePages(P, l))

\* Grow and GrowEach: the keys' own pages are extended with free ones.
Extends(P, Q, added, all) ==
    /\ \A p : p \in all <=> \E k \in Keys : p \in Range(added[k])
    /\ all \subseteq P.free
    /\ \A k \in Keys : Distinct(added[k])
    /\ \A k, l \in Keys : k # l => Range(added[k]) \cap Range(added[l]) = {}
    /\ \A k \in Keys \ P.resident : added[k] = <<>>
    /\ Q.resident = P.resident /\ Q.borrowed = P.borrowed /\ Q.tokens = P.tokens
    /\ \A k \in Keys : Q.owned[k] = P.owned[k] \o added[k]
    /\ Q.holds = Hold(P, all) /\ Q.free = P.free \ all

\* A pool whose keys' tables gain free pages at their ends, each by one key,
\* keeps its accounts.
LEMMA Extended ==
    ASSUME NEW n \in Nat, NEW P, PoolInv(P, n), NEW Q \in Pool(n),
           NEW added \in [Keys -> Seq(Pages(n))], NEW all, Extends(P, Q, added, all)
    PROVE  /\ PoolInv(Q, n) /\ Longer(P, Q)
           /\ \A k \in Keys : Len(TablePages(Q, k)) = Len(TablePages(P, k)) + Len(added[k])
  <1>1. P \in Pool(n)
    BY DEF PoolInv
  <1>2. ASSUME NEW k \in Keys
        PROVE  /\ Len(added[k]) \in Nat /\ Len(TablePages(P, k)) \in Nat
               /\ Range(added[k]) \subseteq Pages(n)
               /\ Range(Q.owned[k]) = Range(P.owned[k]) \cup Range(added[k])
               /\ TableSet(Q, k) = TableSet(P, k) \cup Range(added[k])
               /\ TablePages(Q, k) = TablePages(P, k) \o added[k]
    <2>1. P.borrowed[k] \in Seq(Pages(n)) /\ P.owned[k] \in Seq(Pages(n)) /\ added[k] \in Seq(Pages(n))
      BY <1>1, TableIs
    <2>6. (P.borrowed[k] \o P.owned[k]) \o added[k] = P.borrowed[k] \o (P.owned[k] \o added[k])
      <3> DEFINE b == P.borrowed[k]
                 o == P.owned[k]
                 a == added[k]
      <3>1. b \in Seq(Pages(n)) /\ o \in Seq(Pages(n)) /\ a \in Seq(Pages(n))
        BY <2>1
      <3> HIDE DEF b, o, a
      <3>2. (b \o o) \o a = b \o (o \o a)
        BY <3>1, ConcatAssociative
      <3>3. QED
        BY <3>2 DEF b, o, a
    <2>10. Q.owned[k] = P.owned[k] \o added[k] /\ Q.borrowed = P.borrowed
      BY DEF Extends
    <2>2. TablePages(Q, k) = TablePages(P, k) \o added[k]
      BY <2>6, <2>10 DEF TablePages
    <2>7. TablePages(P, k) \in Seq(Pages(n))
      BY <1>1, TableIs
    <2>8. Range(TablePages(P, k) \o added[k]) = Range(TablePages(P, k)) \cup Range(added[k])
      BY <2>1, <2>7, RangeConcatenation
    <2>3. TableSet(Q, k) = TableSet(P, k) \cup Range(added[k])
      BY <2>2, <2>8 DEF TableSet
    <2>9. Range(P.owned[k] \o added[k]) = Range(P.owned[k]) \cup Range(added[k])
      BY <2>1, RangeConcatenation
    <2>4. Range(Q.owned[k]) = Range(P.owned[k]) \cup Range(added[k])
      BY <2>9, <2>10
    <2>5. QED
      BY <1>1, <2>1, <2>2, <2>3, <2>4, TableIs, LenProperties, RangeOfSeq
  <1>3. \A k \in Keys : Range(added[k]) \subseteq P.free
    BY DEF Extends
  <1>4. ASSUME NEW k \in Keys, NEW p \in P.free PROVE p \notin TableSet(P, k)
    BY <1>4, FreeIsUnread
  <1>5. NothingLeft(Q)
    <2>1. ASSUME NEW k \in Keys \ P.resident PROVE Q.owned[k] = <<>>
      <3>1. P.owned[k] = <<>> /\ added[k] = <<>> /\ Q.owned[k] = P.owned[k] \o added[k]
        BY DEF PoolInv, PoolOK, NothingLeft, Extends
      <3>2. QED
        BY <3>1
    <2>2. QED
      BY <2>1 DEF PoolInv, PoolOK, NothingLeft, Extends
  <1>6. HoldsCounted(Q) /\ FreeUnread(Q)
    <2> DEFINE gain == [k \in Keys |-> Range(added[k])]
    <2>1. /\ gain \in [Keys -> SUBSET Pages(n)]
          /\ \A k \in Keys : gain[k] = Range(added[k])
      BY <1>2
    <2> HIDE DEF gain
    <2>2. Gains(P, Q, gain, all)
      <3>1. /\ \A k, l \in Keys : k # l => gain[k] \cap gain[l] = {}
            /\ \A p : p \in all <=> \E k \in Keys : p \in gain[k]
        BY <2>1 DEF Extends
      <3>2. ASSUME NEW k \in Keys
            PROVE  /\ gain[k] \cap TableSet(P, k) = {}
                   /\ TableSet(Q, k) = TableSet(P, k) \cup gain[k]
        BY <1>2, <1>3, <1>4, <2>1
      <3>3. QED
        BY <3>1, <3>2 DEF Gains, Extends
    <2>3. QED
      BY <1>5, <2>2, GainCounts
  <1>7. OneWriter(Q)
    <2>1. ASSUME NEW k \in Keys PROVE Range(P.owned[k]) \cap P.free = {}
      <3>1. TableSet(P, k) = Range(P.borrowed[k]) \cup Range(P.owned[k])
        BY <1>1, TableIs
      <3>2. QED
        BY <1>4, <3>1
    <2>2. ASSUME NEW k \in P.resident, NEW l \in P.resident, k # l
          PROVE  Range(Q.owned[k]) \cap Range(Q.owned[l]) = {}
      <3>1. k \in Keys /\ l \in Keys
        BY <1>1, Fields
      <3>2. Range(P.owned[k]) \cap Range(P.owned[l]) = {}
        BY <2>2 DEF PoolInv, PoolOK, OneWriter
      <3>3. /\ Range(Q.owned[k]) = Range(P.owned[k]) \cup Range(added[k])
            /\ Range(Q.owned[l]) = Range(P.owned[l]) \cup Range(added[l])
        BY <1>2, <3>1
      <3>4. /\ Range(P.owned[k]) \cap P.free = {} /\ Range(P.owned[l]) \cap P.free = {}
            /\ Range(added[k]) \subseteq P.free /\ Range(added[l]) \subseteq P.free
            /\ Range(added[k]) \cap Range(added[l]) = {}
        BY <1>3, <2>1, <2>2, <3>1 DEF Extends
      <3>5. QED
        BY <3>2, <3>3, <3>4
    <2>3. QED
      BY <2>2 DEF OneWriter, Extends
  <1>8. ASSUME NEW k \in Keys
        PROVE  /\ Len(TablePages(Q, k)) = Len(TablePages(P, k)) + Len(added[k])
               /\ \A i \in 1 .. Len(TablePages(Q, k)) :
                     TablePages(Q, k)[i] = IF i <= Len(TablePages(P, k)) THEN TablePages(P, k)[i]
                                           ELSE added[k][i - Len(TablePages(P, k))]
    BY <1>1, <1>2, TableIs, ConcatProperties
  <1>9. ASSUME NEW k \in Keys, NEW i \in 1 .. Len(TablePages(Q, k))
        PROVE  IF i <= Len(TablePages(P, k)) THEN TablePages(Q, k)[i] \in TableSet(P, k)
               ELSE TablePages(Q, k)[i] \in Range(added[k])
    <2>1. added[k] \in Seq(Pages(n)) /\ TablePages(P, k) \in Seq(Pages(n))
      BY <1>1, TableIs
    <2>2. /\ \A j \in 1 .. Len(TablePages(P, k)) : TablePages(P, k)[j] \in TableSet(P, k)
          /\ \A j \in 1 .. Len(added[k]) : added[k][j] \in Range(added[k])
      BY <2>1, InRange DEF TableSet
    <2>3. CASE i <= Len(TablePages(P, k))
      <3>1. i \in 1 .. Len(TablePages(P, k)) /\ TablePages(Q, k)[i] = TablePages(P, k)[i]
        BY <1>2, <1>8, <2>3
      <3>2. QED
        BY <2>2, <2>3, <3>1
    <2>4. CASE ~(i <= Len(TablePages(P, k)))
      <3>1. i - Len(TablePages(P, k)) \in 1 .. Len(added[k])
        BY <1>2, <1>8, <2>4
      <3>2. QED
        BY <1>8, <2>2, <2>4, <3>1
    <2>5. QED
      BY <2>3, <2>4
  <1>10. ASSUME NEW k \in Keys PROVE Distinct(TablePages(Q, k))
    <2>1. Distinct(TablePages(P, k)) /\ Distinct(added[k])
      BY DEF PoolInv, Extends
    <2>2. ASSUME NEW i \in 1 .. Len(TablePages(Q, k)), NEW j \in 1 .. Len(TablePages(Q, k)),
                 TablePages(Q, k)[i] = TablePages(Q, k)[j]
          PROVE  i = j
      <3>1. i <= Len(TablePages(P, k)) <=> j <= Len(TablePages(P, k))
        BY <1>3, <1>4, <1>9, <2>2
      <3>2. CASE i <= Len(TablePages(P, k))
        <4>1. /\ i \in 1 .. Len(TablePages(P, k)) /\ j \in 1 .. Len(TablePages(P, k))
              /\ TablePages(P, k)[i] = TablePages(P, k)[j]
          BY <1>2, <1>8, <2>2, <3>1, <3>2
        <4>2. QED
          BY <2>1, <4>1 DEF Distinct
      <3>3. CASE ~(i <= Len(TablePages(P, k)))
        <4> DEFINE i0 == i - Len(TablePages(P, k))
                   j0 == j - Len(TablePages(P, k))
        <4>1. /\ i0 \in 1 .. Len(added[k]) /\ j0 \in 1 .. Len(added[k])
          BY <1>2, <1>8, <3>1, <3>3
        <4>2. added[k][i0] = added[k][j0]
          BY <1>8, <2>2, <3>1, <3>3
        <4>3. i0 = j0
          BY <2>1, <4>1, <4>2 DEF Distinct
        <4>4. QED
          BY <1>2, <4>3
      <3>4. QED
        BY <3>2, <3>3
    <2>3. QED
      BY <2>2 DEF Distinct
  <1>11. Longer(P, Q)
    <2>1. ASSUME NEW k \in Keys, NEW l \in Keys, k # l,
                 NEW i \in 1 .. Len(TablePages(Q, k)), NEW j \in 1 .. Len(TablePages(Q, l)),
                 TablePages(Q, k)[i] = TablePages(Q, l)[j]
          PROVE  i <= Len(TablePages(P, k)) /\ j <= Len(TablePages(P, l))
      <3>1. Range(added[k]) \cap Range(added[l]) = {}
        BY <2>1 DEF Extends
      <3> DEFINE p == TablePages(Q, k)[i]
      <3>2. /\ ~(i <= Len(TablePages(P, k))) => p \in Range(added[k])
            /\ i <= Len(TablePages(P, k)) => p \in TableSet(P, k)
            /\ ~(j <= Len(TablePages(P, l))) => p \in Range(added[l])
            /\ j <= Len(TablePages(P, l)) => p \in TableSet(P, l)
        BY <1>2, <1>9, <2>1
      <3>3. \A m \in Keys : p \in TableSet(P, m) => p \notin P.free
        BY <1>4
      <3>4. Range(added[k]) \subseteq P.free /\ Range(added[l]) \subseteq P.free
        BY <1>3
      <3> HIDE DEF p
      <3>5. QED
        BY <3>1, <3>2, <3>3, <3>4
    <2>2. ASSUME NEW k \in Keys
          PROVE  /\ Len(TablePages(P, k)) <= Len(TablePages(Q, k))
                 /\ \A i \in 1 .. Len(TablePages(P, k)) : TablePages(Q, k)[i] = TablePages(P, k)[i]
      BY <1>2, <1>8
    <2>3. QED
      BY <2>1, <2>2 DEF Longer
  <1>12. QED
    BY <1>5, <1>6, <1>7, <1>8, <1>10, <1>11 DEF PoolInv, PoolOK

\* Holding pages keeps the counts natural.
LEMMA HoldType ==
    ASSUME NEW n \in Nat, NEW P \in Pool(n), NEW pages
    PROVE  Hold(P, pages) \in [Pages(n) -> Nat]
  BY Fields DEF Hold

\* Grow: the key's table covers the capacity.
LEMMA GrowKeeps ==
    ASSUME NEW n \in Nat, NEW P, PoolInv(P, n), NEW k \in P.resident, NEW capacity \in Nat,
           GrowthPages(P, k, capacity) <= FreeCount(P),
           NEW Q, Q = Grow(P, k, capacity)
    PROVE  /\ PoolInv(Q, n) /\ Longer(P, Q)
           /\ Q.resident = P.resident /\ Q.borrowed = P.borrowed /\ Q.tokens = P.tokens
           /\ capacity <= Len(TablePages(Q, k)) * PageTokens
  <1>1. P \in Pool(n) /\ k \in Keys
    BY Fields DEF PoolInv
  <1>2. /\ GrowthPages(P, k, capacity) \in Nat
        /\ PagesNeeded(capacity) <= Len(TablePages(P, k)) + GrowthPages(P, k, capacity)
        /\ Len(TablePages(P, k)) \in Nat
    <2>1. PagesNeeded(capacity) \in Nat /\ Len(TablePages(P, k)) \in Nat
      BY <1>1, PagesNeededBounds, TableIs
    <2>2. QED
      BY <2>1 DEF GrowthPages
  <1> DEFINE more == TakePages(P, GrowthPages(P, k, capacity))
  <1>3. /\ more \in Seq(Pages(n)) /\ Len(more) = GrowthPages(P, k, capacity)
        /\ Distinct(more) /\ Range(more) \subseteq P.free
    BY <1>1, <1>2, TakePagesIs
  <1>4. Q = [P EXCEPT !.free = @ \ Range(more),
                      !.holds = Hold(P, Range(more)),
                      !.owned[k] = @ \o more]
    BY DEF Grow
  <1> HIDE DEF more
  <1>5. /\ Q.free = P.free \ Range(more) /\ Q.holds = Hold(P, Range(more))
        /\ Q.resident = P.resident /\ Q.borrowed = P.borrowed /\ Q.tokens = P.tokens
        /\ Q.owned = [P.owned EXCEPT ![k] = @ \o more]
    BY <1>1, <1>4 DEF Pool
  <1>6. Q \in Pool(n)
    <2>1. P.owned[k] \o more \in Seq(Pages(n))
      BY <1>1, <1>3, TableIs, ConcatProperties
    <2>2. Q.owned \in [Keys -> Seq(Pages(n))]
      BY <1>1, <1>5, <2>1, Fields
    <2>3. Q.holds \in [Pages(n) -> Nat] /\ Q.free \subseteq Pages(n)
      BY <1>1, <1>5, HoldType, Fields
    <2>4. QED
      BY <1>1, <1>4, <2>2, <2>3, <1>5 DEF Pool, Pages
  <1> DEFINE added == [l \in Keys |-> IF l = k THEN more ELSE <<>>]
  <1>7. /\ added \in [Keys -> Seq(Pages(n))] /\ added[k] = more
        /\ \A l \in Keys : l # k => added[l] = <<>>
    BY <1>1, <1>3
  <1> HIDE DEF added
  <1>8. Extends(P, Q, added, Range(more))
    <2>1. Range(<<>>) = {} /\ Distinct(<<>>)
      BY DEF Range, Distinct
    <2>2. ASSUME NEW l \in Keys PROVE Q.owned[l] = P.owned[l] \o added[l]
      <3>1. P.owned \in [Keys -> Seq(Pages(n))] /\ P.owned[l] \in Seq(Pages(n))
        BY <1>1, Fields
      <3>2. P.owned[l] \o <<>> = P.owned[l]
        BY <3>1, ConcatEmptySeq
      <3>3. CASE l = k
        BY <1>5, <1>7, <3>1, <3>3
      <3>4. CASE l # k
        BY <1>5, <1>7, <3>1, <3>2, <3>4
      <3>5. QED
        BY <3>3, <3>4
    <2>3. \A l \in Keys : Distinct(added[l])
      BY <1>3, <1>7, <2>1
    <2>4. \A l, m \in Keys : l # m => Range(added[l]) \cap Range(added[m]) = {}
      BY <1>7, <2>1
    <2>5. \A p : p \in Range(more) <=> \E l \in Keys : p \in Range(added[l])
      BY <1>1, <1>7, <2>1
    <2>6. \A l \in Keys \ P.resident : added[l] = <<>>
      BY <1>7
    <2>7. QED
      BY <1>3, <1>5, <2>2, <2>3, <2>4, <2>5, <2>6 DEF Extends
  <1>9. /\ PoolInv(Q, n) /\ Longer(P, Q)
        /\ Len(TablePages(Q, k)) = Len(TablePages(P, k)) + Len(added[k])
    BY <1>1, <1>6, <1>7, <1>8, Extended
  <1>10. PagesNeeded(capacity) <= Len(TablePages(Q, k)) /\ Len(TablePages(Q, k)) \in Nat
    BY <1>2, <1>3, <1>7, <1>9
  <1>11. PagesNeeded(capacity) * PageTokens <= Len(TablePages(Q, k)) * PageTokens
    BY <1>10, PagesNeededBounds, TimesOrder
  <1>12. capacity <= Len(TablePages(Q, k)) * PageTokens
    <2>1. capacity <= PagesNeeded(capacity) * PageTokens /\ PagesNeeded(capacity) \in Int
      BY PagesNeededBounds
    <2>2. /\ PagesNeeded(capacity) * PageTokens \in Int
          /\ Len(TablePages(Q, k)) * PageTokens \in Int
      BY <1>10, <2>1, Times
    <2>3. QED
      BY <1>11, <2>1, <2>2
  <1>13. QED
    BY <1>5, <1>9, <1>12

\* GrowEach: every key of V gains a page.
LEMMA GrowEachKeeps ==
    ASSUME NEW n \in Nat, NEW P, PoolInv(P, n), NEW V \in SUBSET P.resident,
           Cardinality(V) <= FreeCount(P),
           NEW Q, Q = GrowEach(P, V)
    PROVE  /\ PoolInv(Q, n) /\ Longer(P, Q)
           /\ Q.resident = P.resident /\ Q.borrowed = P.borrowed /\ Q.tokens = P.tokens
  <1>1. P \in Pool(n) /\ V \in SUBSET Keys
    BY Fields DEF PoolInv
  <1> DEFINE page == CHOOSE f \in [V -> P.free] : \A k, l \in V : f[k] = f[l] => k = l
  <1>2. page \in [V -> P.free] /\ \A k, l \in V : page[k] = page[l] => k = l
    BY <1>1, OnePageEach
  <1>3. Q = [P EXCEPT !.free = @ \ Range(page),
                      !.holds = Hold(P, Range(page)),
                      !.owned = [k \in Keys |-> IF k \in V THEN Append(@[k], page[k]) ELSE @[k]]]
    BY DEF GrowEach
  <1> HIDE DEF page
  <1>4. /\ Q.free = P.free \ Range(page) /\ Q.holds = Hold(P, Range(page))
        /\ Q.resident = P.resident /\ Q.borrowed = P.borrowed /\ Q.tokens = P.tokens
        /\ Q.owned = [k \in Keys |-> IF k \in V THEN Append(P.owned[k], page[k]) ELSE P.owned[k]]
    BY <1>1, <1>3 DEF Pool
  <1> DEFINE added == [k \in Keys |-> IF k \in V THEN <<page[k]>> ELSE <<>>]
  <1>5. ASSUME NEW k \in V
        PROVE  /\ page[k] \in P.free /\ page[k] \in Pages(n)
               /\ <<page[k]>> \in Seq(Pages(n)) /\ Range(<<page[k]>>) = {page[k]}
               /\ Distinct(<<page[k]>>)
    <2>1. page[k] \in P.free /\ page[k] \in Pages(n)
      BY <1>1, <1>2, Fields
    <2>2. Range(<<page[k]>>) = {page[k]}
      BY DEF Range
    <2>3. QED
      BY <2>1, <2>2 DEF Distinct
  <1>6. /\ added \in [Keys -> Seq(Pages(n))]
        /\ \A k \in V : added[k] = <<page[k]>>
        /\ \A k \in Keys \ V : added[k] = <<>>
    <2>1. ASSUME NEW k \in Keys
          PROVE  (IF k \in V THEN <<page[k]>> ELSE <<>>) \in Seq(Pages(n))
      <3>1. CASE k \in V
        BY <1>5, <3>1
      <3>2. CASE k \notin V
        BY <3>2
      <3>3. QED
        BY <3>1, <3>2
    <2>2. QED
      BY <1>1, <2>1
  <1>7. ASSUME NEW k \in Keys
        PROVE  Q.owned[k] = P.owned[k] \o added[k] /\ P.owned[k] \o added[k] \in Seq(Pages(n))
    <2>1. P.owned[k] \in Seq(Pages(n)) /\ added[k] \in Seq(Pages(n))
      BY <1>1, <1>6, Fields
    <2>2. P.owned[k] \o <<>> = P.owned[k]
      BY <2>1, ConcatEmptySeq
    <2>3. P.owned[k] \o added[k] \in Seq(Pages(n))
      BY <2>1, ConcatProperties
    <2>4. CASE k \in V
      <3>1. Append(P.owned[k], page[k]) = P.owned[k] \o <<page[k]>>
        BY <1>5, <2>1, <2>4, AppendIsConcat
      <3>2. QED
        BY <1>4, <1>6, <2>3, <2>4, <3>1
    <2>5. CASE k \notin V
      BY <1>4, <1>6, <2>2, <2>3, <2>5
    <2>6. QED
      BY <2>4, <2>5
  <1> HIDE DEF added
  <1>8. Q \in Pool(n)
    <2>1. Q.owned \in [Keys -> Seq(Pages(n))]
      BY <1>4, <1>7
    <2>2. Q.holds \in [Pages(n) -> Nat] /\ Q.free \subseteq Pages(n)
      BY <1>1, <1>4, HoldType, Fields
    <2>3. QED
      BY <1>1, <1>3, <1>4, <2>1, <2>2 DEF Pool, Pages
  <1>9. Extends(P, Q, added, Range(page))
    <2>1. Range(<<>>) = {} /\ Distinct(<<>>)
      BY DEF Range, Distinct
    <2>2. \A k \in Keys : Distinct(added[k])
      BY <1>5, <1>6, <2>1
    <2>3. ASSUME NEW k \in Keys
          PROVE  Range(added[k]) = IF k \in V THEN {page[k]} ELSE {}
      BY <1>5, <1>6, <2>1
    <2>4. ASSUME NEW k \in Keys, NEW l \in Keys, k # l
          PROVE  Range(added[k]) \cap Range(added[l]) = {}
      <3>1. CASE k \in V /\ l \in V
        <4>1. page[k] # page[l]
          BY <1>2, <2>4, <3>1
        <4>2. Range(added[k]) = {page[k]} /\ Range(added[l]) = {page[l]}
          BY <2>3, <3>1
        <4>3. QED
          BY <4>1, <4>2
      <3>2. CASE ~(k \in V /\ l \in V)
        <4>1. Range(added[k]) = {} \/ Range(added[l]) = {}
          BY <2>3, <3>2
        <4>2. QED
          BY <4>1
      <3>3. QED
        BY <3>1, <3>2
    <2>5. Range(page) = {page[k] : k \in V}
      BY <1>2 DEF Range
    <2>6. \A p : p \in Range(page) <=> \E k \in Keys : p \in Range(added[k])
      BY <1>1, <2>3, <2>5
    <2>7. Range(page) \subseteq P.free
      BY <1>5, <2>5
    <2>8. \A k \in Keys \ P.resident : added[k] = <<>>
      BY <1>6
    <2>9. QED
      BY <1>4, <1>7, <2>2, <2>4, <2>6, <2>7, <2>8 DEF Extends
  <1>10. QED
    BY <1>1, <1>4, <1>6, <1>8, <1>9, Extended

\* Alloc: a key without pages gets the lent ones, then free ones.
LEMMA AllocKeeps ==
    ASSUME NEW n \in Nat, NEW P, PoolInv(P, n), NEW k \in Keys, k \notin P.resident,
           NEW tokens \in Nat, NEW capacity \in Nat, NEW lent \in Seq(Pages(n)),
           Distinct(lent), Range(lent) \cap P.free = {},
           PagesNeeded(capacity) - Len(lent) \in 0 .. FreeCount(P),
           NEW Q, Q = Alloc(P, k, tokens, capacity, lent)
    PROVE  /\ PoolInv(Q, n) /\ Q.resident = P.resident \cup {k}
           /\ Q.tokens[k] = tokens /\ Q.borrowed[k] = lent
           /\ Len(TablePages(Q, k)) = PagesNeeded(capacity)
           /\ \A i \in 1 .. Len(TablePages(Q, k)) :
                 IF i <= Len(lent) THEN TablePages(Q, k)[i] = lent[i]
                 ELSE TablePages(Q, k)[i] \in P.free
           /\ \A l \in Keys \ {k} :
                 /\ TablePages(Q, l) = TablePages(P, l) /\ Q.tokens[l] = P.tokens[l]
                 /\ Q.borrowed[l] = P.borrowed[l]
  <1>1. P \in Pool(n)
    BY DEF PoolInv
  <1> DEFINE own == TakePages(P, PagesNeeded(capacity) - Len(lent))
  <1>2. /\ own \in Seq(Pages(n)) /\ Len(own) = PagesNeeded(capacity) - Len(lent)
        /\ Distinct(own) /\ Range(own) \subseteq P.free
    BY <1>1, TakePagesIs
  <1>3. Q = [P EXCEPT !.resident = @ \union {k},
                      !.free = @ \ Range(own),
                      !.holds = Hold(P, Range(lent \o own)),
                      !.owned[k] = own, !.borrowed[k] = lent, !.tokens[k] = tokens]
    BY DEF Alloc
  <1> HIDE DEF own
  <1>4. /\ Q.free = P.free \ Range(own) /\ Q.holds = Hold(P, Range(lent \o own))
        /\ Q.resident = P.resident \cup {k}
        /\ Q.owned = [P.owned EXCEPT ![k] = own]
        /\ Q.borrowed = [P.borrowed EXCEPT ![k] = lent]
        /\ Q.tokens = [P.tokens EXCEPT ![k] = tokens]
    BY <1>1, <1>3 DEF Pool
  <1>5. Q \in Pool(n)
    <2>1. /\ Q.owned \in [Keys -> Seq(Pages(n))] /\ Q.borrowed \in [Keys -> Seq(Pages(n))]
          /\ Q.tokens \in [Keys -> Nat]
      BY <1>1, <1>2, <1>4, Fields
    <2>2. Q.holds \in [Pages(n) -> Nat] /\ Q.free \subseteq Pages(n) /\ Q.resident \subseteq Keys
      BY <1>1, <1>4, HoldType, Fields
    <2>3. QED
      BY <1>1, <1>3, <1>4, <2>1, <2>2 DEF Pool, Pages
  <1>6. /\ Q.owned[k] = own /\ Q.borrowed[k] = lent /\ Q.tokens[k] = tokens
        /\ \A l \in Keys \ {k} : /\ Q.owned[l] = P.owned[l] /\ Q.borrowed[l] = P.borrowed[l]
                                 /\ Q.tokens[l] = P.tokens[l]
    BY <1>1, <1>4, Fields
  <1>7. /\ TablePages(Q, k) = lent \o own
        /\ \A l \in Keys \ {k} : TablePages(Q, l) = TablePages(P, l)
    BY <1>6 DEF TablePages
  <1>8. /\ Range(lent \o own) = Range(lent) \cup Range(own)
        /\ Range(lent \o own) \subseteq Pages(n)
    <2>1. Range(lent \o own) = Range(lent) \cup Range(own)
      BY <1>2, RangeConcatenation
    <2>2. QED
      BY <1>2, <2>1, RangeOfSeq
  <1>9. TableSet(P, k) = {}
    <2>1. P.owned[k] = <<>> /\ P.borrowed[k] = <<>>
      BY DEF PoolInv, PoolOK, NothingLeft
    <2>2. Range(<<>>) = {}
      BY DEF Range
    <2>3. TableSet(P, k) = Range(P.borrowed[k]) \cup Range(P.owned[k])
      BY ZenonT(30), <1>1, TableIs
    <2>4. QED
      BY <2>1, <2>2, <2>3
  <1>10. NothingLeft(Q)
    <2>1. ASSUME NEW l \in Keys, l \notin Q.resident PROVE l # k /\ l \notin P.resident
      BY <1>4, <2>1
    <2>2. QED
      BY <1>6, <2>1 DEF NothingLeft, PoolInv, PoolOK
  <1>11. HoldsCounted(Q) /\ FreeUnread(Q)
    <2> DEFINE gain == [l \in Keys |-> IF l = k THEN Range(lent \o own) ELSE {}]
    <2>1. /\ gain[k] = Range(lent \o own)
          /\ \A l \in Keys \ {k} : gain[l] = {}
      OBVIOUS
    <2> HIDE DEF gain
    <2>2. ASSUME NEW l \in Keys
          PROVE  gain[l] \cap TableSet(P, l) = {} /\ TableSet(Q, l) = TableSet(P, l) \cup gain[l]
      BY <1>7, <1>9, <2>1 DEF TableSet
    <2>3. Q.free = P.free \ Range(lent \o own)
      BY <1>4, <1>8
    <2>4. \A l, m \in Keys : l # m => gain[l] \cap gain[m] = {}
      BY <2>1
    <2>5. \A p : p \in Range(lent \o own) <=> \E l \in Keys : p \in gain[l]
      BY <2>1
    <2>6. Gains(P, Q, gain, Range(lent \o own))
      BY <1>4, <2>2, <2>3, <2>4, <2>5 DEF Gains
    <2>7. QED
      BY <1>5, <1>10, <2>6, GainCounts
  <1>12. OneWriter(Q)
    <2>1. ASSUME NEW l \in P.resident PROVE Range(P.owned[l]) \cap P.free = {}
      <3>1. l \in Keys
        BY <1>1, Fields
      <3>2. Range(P.owned[l]) \subseteq TableSet(P, l)
        <4>1. TableSet(P, l) = Range(P.borrowed[l]) \cup Range(P.owned[l])
          BY ZenonT(30), <1>1, <3>1, TableIs
        <4>2. QED
          BY <4>1
      <3>3. \A p \in P.free : p \notin TableSet(P, l)
        BY <3>1, FreeIsUnread
      <3>4. QED
        BY <3>2, <3>3
    <2>2. \A l, m \in P.resident : l # m => Range(P.owned[l]) \cap Range(P.owned[m]) = {}
      BY DEF PoolInv, PoolOK, OneWriter
    <2>3. \A l \in P.resident : l # k /\ l \in Keys
      BY <1>1, Fields
    <2>4. ASSUME NEW l \in Q.resident, NEW m \in Q.resident, l # m
          PROVE  Range(Q.owned[l]) \cap Range(Q.owned[m]) = {}
      <3>1. CASE l = k
        <4>1. m \in P.resident
          BY <1>4, <2>4, <3>1
        <4>2. Q.owned[l] = own /\ Q.owned[m] = P.owned[m]
          BY <1>6, <2>3, <3>1, <4>1
        <4>3. QED
          BY <1>2, <2>1, <4>1, <4>2
      <3>2. CASE m = k
        <4>1. l \in P.resident
          BY <1>4, <2>4, <3>2
        <4>2. Q.owned[m] = own /\ Q.owned[l] = P.owned[l]
          BY <1>6, <2>3, <3>2, <4>1
        <4>3. QED
          BY <1>2, <2>1, <4>1, <4>2
      <3>3. CASE l # k /\ m # k
        BY <1>4, <1>6, <2>2, <2>3, <2>4, <3>3
      <3>4. QED
        BY <3>1, <3>2, <3>3
    <2>5. QED
      BY <2>4 DEF OneWriter
  <1>13. /\ Len(lent) \in Nat /\ Len(own) \in Nat /\ Len(lent \o own) = Len(lent) + Len(own)
         /\ \A i \in 1 .. Len(lent \o own) :
               (lent \o own)[i] = IF i <= Len(lent) THEN lent[i] ELSE own[i - Len(lent)]
    <2>1. Len(lent) \in Nat /\ Len(own) \in Nat
      BY <1>2, LenProperties
    <2>2. Len(lent \o own) = Len(lent) + Len(own)
      BY <1>2, ConcatProperties
    <2>3. \A i \in 1 .. Len(lent) + Len(own) :
              (lent \o own)[i] = IF i <= Len(lent) THEN lent[i] ELSE own[i - Len(lent)]
      BY <1>2, ConcatProperties
    <2>4. QED
      BY <2>1, <2>2, <2>3
  <1>14. Len(TablePages(Q, k)) = PagesNeeded(capacity)
    BY <1>2, <1>7, <1>13, PagesNeededBounds
  <1>15. ASSUME NEW i \in 1 .. Len(TablePages(Q, k))
         PROVE  IF i <= Len(lent) THEN TablePages(Q, k)[i] = lent[i]
                ELSE TablePages(Q, k)[i] \in P.free
    <2>1. CASE i <= Len(lent)
      BY <1>7, <1>13, <2>1
    <2>2. CASE ~(i <= Len(lent))
      <3>1. TablePages(Q, k)[i] = own[i - Len(lent)] /\ i - Len(lent) \in 1 .. Len(own)
        BY <1>7, <1>13, <2>2
      <3>2. own[i - Len(lent)] \in Range(own)
        BY <1>2, <3>1, InRange
      <3>3. QED
        BY <1>2, <2>2, <3>1, <3>2
    <2>3. QED
      BY <2>1, <2>2
  <1>16. Distinct(TablePages(Q, k))
    <2>1. ASSUME NEW i \in 1 .. Len(lent \o own), NEW j \in 1 .. Len(lent \o own),
                 (lent \o own)[i] = (lent \o own)[j]
          PROVE  i = j
      <3>1. /\ i <= Len(lent) => (lent \o own)[i] \in Range(lent)
            /\ j <= Len(lent) => (lent \o own)[j] \in Range(lent)
        <4>1. \A m \in 1 .. Len(lent) : lent[m] \in Range(lent)
          BY InRange
        <4>2. QED
          BY <1>13, <4>1
      <3>2. /\ ~(i <= Len(lent)) => (lent \o own)[i] \in P.free
            /\ ~(j <= Len(lent)) => (lent \o own)[j] \in P.free
        BY <1>7, <1>15
      <3>3. i <= Len(lent) <=> j <= Len(lent)
        BY <2>1, <3>1, <3>2
      <3>4. CASE i <= Len(lent)
        <4>1. i \in 1 .. Len(lent) /\ j \in 1 .. Len(lent) /\ lent[i] = lent[j]
          BY <1>13, <2>1, <3>3, <3>4
        <4>2. QED
          BY <4>1 DEF Distinct
      <3>5. CASE ~(i <= Len(lent))
        <4> DEFINE i0 == i - Len(lent)
                   j0 == j - Len(lent)
        <4>1. i0 \in 1 .. Len(own) /\ j0 \in 1 .. Len(own)
          BY <1>13, <3>3, <3>5
        <4>2. own[i0] = own[j0]
          BY <1>13, <2>1, <3>3, <3>5
        <4>3. i0 = j0
          BY <1>2, <4>1, <4>2 DEF Distinct
        <4>4. QED
          BY <1>13, <4>3
      <3>6. QED
        BY <3>4, <3>5
    <2>2. QED
      BY <1>7, <2>1 DEF Distinct
  <1>17. \A l \in Keys : Distinct(TablePages(Q, l))
    BY <1>7, <1>16 DEF PoolInv
  <1>18. PoolInv(Q, n)
    BY <1>5, <1>10, <1>11, <1>12, <1>17 DEF PoolInv, PoolOK
  <1>19. QED
    BY <1>4, <1>6, <1>7, <1>14, <1>15, <1>18

-----------------------------------------------------------------------------
(* Shrinking tables *)

\* Each key's table in Q is a stretch of its table in P, off[k] pages in.
Shifted(P, Q, off) ==
    \A k \in Keys : \A i \in 1 .. Len(TablePages(Q, k)) :
        /\ i + off[k] \in 1 .. Len(TablePages(P, k))
        /\ TablePages(Q, k)[i] = TablePages(P, k)[i + off[k]]

\* From P to Q each key lets go of some of its pages.
Loses(P, Q, lost) ==
    /\ \A k \in Keys : lost[k] \subseteq TableSet(P, k)
    /\ \A k \in Keys : TableSet(Q, k) = TableSet(P, k) \ lost[k]
    /\ \A k \in Keys : Range(Q.owned[k]) \subseteq Range(P.owned[k])
    /\ Q.resident \subseteq P.resident
    /\ Q.holds = ReleasePages(P, lost).holds /\ Q.free = ReleasePages(P, lost).free

\* R is P but for its counts.
CountsOnly(P, R) == R = [P EXCEPT !.holds = R.holds, !.free = R.free]

\* Letting go of pages of one's own table keeps the counts natural.
LEMMA ReleaseType ==
    ASSUME NEW n \in Nat, NEW P, PoolInv(P, n), NEW lost \in [Keys -> SUBSET Pages(n)],
           \A k \in Keys : lost[k] \subseteq TableSet(P, k)
    PROVE  /\ ReleasePages(P, lost).holds \in [Pages(n) -> Nat]
           /\ ReleasePages(P, lost).free \in SUBSET Pages(n)
           /\ CountsOnly(P, ReleasePages(P, lost))
  <1> DEFINE drop == [p \in Pages(n) |-> Cardinality({k \in Keys : p \in lost[k]})]
             low == [p \in Pages(n) |-> P.holds[p] - drop[p]]
             freed == P.free \cup {p \in Pages(n) : drop[p] > 0 /\ P.holds[p] = drop[p]}
  <1>1. DOMAIN P.holds = Pages(n) /\ P \in Pool(n)
    BY Fields DEF PoolInv
  <1>2. ReleasePages(P, lost) = [P EXCEPT !.holds = low, !.free = freed]
    BY <1>1 DEF ReleasePages
  <1>3. ASSUME NEW p \in Pages(n) PROVE low[p] \in Nat
    <2> DEFINE gone == {k \in Keys : p \in lost[k]}
    <2>1. gone \subseteq Readers(P, p)
      BY DEF Readers
    <2>2. Cardinality(gone) <= Cardinality(Readers(P, p)) /\ Cardinality(gone) \in Nat
      BY <2>1, ReadersFinite, FS_Subset, FS_CardinalityType
    <2>3. P.holds[p] = Cardinality(Readers(P, p)) /\ drop[p] = Cardinality(gone)
      BY HoldsAreReaders
    <2>4. QED
      BY <2>2, <2>3, ReadersFinite
  <1>4. freed \subseteq Pages(n)
    BY <1>1, Fields
  <1> HIDE DEF drop, low, freed
  <1>5. ReleasePages(P, lost).holds = low /\ ReleasePages(P, lost).free = freed
    BY <1>1, <1>2 DEF Pool
  <1>6. low \in [Pages(n) -> Nat]
    BY <1>3 DEF low
  <1>7. QED
    BY <1>2, <1>4, <1>5, <1>6 DEF CountsOnly

\* A pool whose keys' tables lose the pages released keeps its accounts.
LEMMA Shrunk ==
    ASSUME NEW n \in Nat, NEW P, PoolInv(P, n), NEW Q \in Pool(n), NothingLeft(Q),
           NEW lost \in [Keys -> SUBSET Pages(n)], Loses(P, Q, lost),
           NEW off \in [Keys -> Nat], Shifted(P, Q, off)
    PROVE  PoolInv(Q, n)
  <1>1. P \in Pool(n)
    BY DEF PoolInv
  <1>2. HoldsCounted(Q) /\ FreeUnread(Q)
    BY LossCounts DEF Loses
  <1>3. OneWriter(Q)
    <2>1. \A k, l \in P.resident : k # l => Range(P.owned[k]) \cap Range(P.owned[l]) = {}
      BY DEF PoolInv, PoolOK, OneWriter
    <2>2. /\ Q.resident \subseteq P.resident
          /\ \A k \in Q.resident : Range(Q.owned[k]) \subseteq Range(P.owned[k])
      BY <1>1, Fields DEF Loses
    <2>3. QED
      BY <2>1, <2>2 DEF OneWriter
  <1>4. ASSUME NEW k \in Keys PROVE Distinct(TablePages(Q, k))
    <2>1. Distinct(TablePages(P, k)) /\ off[k] \in Nat /\ TablePages(Q, k) \in Seq(Pages(n))
      BY TableIs DEF PoolInv
    <2>2. ASSUME NEW i \in 1 .. Len(TablePages(Q, k)), NEW j \in 1 .. Len(TablePages(Q, k)),
                 TablePages(Q, k)[i] = TablePages(Q, k)[j]
          PROVE  i = j
      <3>1. /\ i + off[k] \in 1 .. Len(TablePages(P, k)) /\ j + off[k] \in 1 .. Len(TablePages(P, k))
            /\ TablePages(P, k)[i + off[k]] = TablePages(P, k)[j + off[k]]
        BY <2>2 DEF Shifted
      <3>2. i + off[k] = j + off[k]
        BY <2>1, <3>1 DEF Distinct
      <3>3. QED
        BY <2>1, <3>2
    <2>3. QED
      BY <2>2 DEF Distinct
  <1>5. QED
    BY <1>2, <1>3, <1>4 DEF PoolInv, PoolOK

\* FreeKeys: the keys of V keep nothing, the others everything.
LEMMA FreeKeysKeeps ==
    ASSUME NEW n \in Nat, NEW P, PoolInv(P, n), NEW V, NEW Q, Q = FreeKeys(P, V)
    PROVE  /\ PoolInv(Q, n) /\ Q.resident = P.resident \ V
           /\ \A k \in Keys \ V :
                 /\ TablePages(Q, k) = TablePages(P, k) /\ Q.tokens[k] = P.tokens[k]
                 /\ Q.borrowed[k] = P.borrowed[k]
           /\ P.free \subseteq Q.free
  <1>1. P \in Pool(n)
    BY DEF PoolInv
  <1> DEFINE lost == [k \in Keys |-> IF k \in V THEN TableSet(P, k) ELSE {}]
             R == ReleasePages(P, lost)
  <1>2. /\ lost \in [Keys -> SUBSET Pages(n)]
        /\ \A k \in Keys : lost[k] = IF k \in V THEN TableSet(P, k) ELSE {}
    BY <1>1, TableIs
  <1>3. Q = [R EXCEPT
                !.resident = @ \ V,
                !.owned = [k \in Keys |-> IF k \in V THEN <<>> ELSE @[k]],
                !.borrowed = [k \in Keys |-> IF k \in V THEN <<>> ELSE @[k]],
                !.tokens = [k \in Keys |-> IF k \in V THEN 0 ELSE @[k]]]
    BY DEF FreeKeys, Forget
  <1> HIDE DEF lost
  <1>4. /\ R.holds \in [Pages(n) -> Nat] /\ R.free \in SUBSET Pages(n)
        /\ CountsOnly(P, R)
    <2>1. \A k \in Keys : lost[k] \subseteq TableSet(P, k)
      BY <1>2
    <2>2. QED
      BY <1>2, <2>1, ReleaseType
  <1>5. P.free \subseteq R.free
    BY <1>1 DEF ReleasePages, Pool
  <1> HIDE DEF R
  <1>6. R \in Pool(n) /\ R.resident = P.resident /\ R.owned = P.owned
        /\ R.borrowed = P.borrowed /\ R.tokens = P.tokens
    BY <1>1, <1>4 DEF Pool, Pages, CountsOnly
  <1>7. /\ Q.resident = P.resident \ V /\ Q.holds = R.holds /\ Q.free = R.free
        /\ Q.owned = [k \in Keys |-> IF k \in V THEN <<>> ELSE P.owned[k]]
        /\ Q.borrowed = [k \in Keys |-> IF k \in V THEN <<>> ELSE P.borrowed[k]]
        /\ Q.tokens = [k \in Keys |-> IF k \in V THEN 0 ELSE P.tokens[k]]
    BY <1>3, <1>6 DEF Pool
  <1>8. Q \in Pool(n)
    <2>1. /\ Q.owned \in [Keys -> Seq(Pages(n))] /\ Q.borrowed \in [Keys -> Seq(Pages(n))]
          /\ Q.tokens \in [Keys -> Nat] /\ Q.resident \in SUBSET Keys
      BY <1>1, <1>7, Fields
    <2>2. QED
      BY <1>3, <1>4, <1>6, <1>7, <2>1 DEF Pool, Pages
  <1>9. ASSUME NEW k \in Keys
        PROVE  /\ k \in V => /\ Q.owned[k] = <<>> /\ Q.borrowed[k] = <<>> /\ Q.tokens[k] = 0
                             /\ TablePages(Q, k) = <<>>
               /\ k \notin V => /\ Q.owned[k] = P.owned[k] /\ Q.borrowed[k] = P.borrowed[k]
                                /\ Q.tokens[k] = P.tokens[k]
                                /\ TablePages(Q, k) = TablePages(P, k)
    <2>1. /\ k \in V => Q.owned[k] = <<>> /\ Q.borrowed[k] = <<>> /\ Q.tokens[k] = 0
          /\ k \notin V => /\ Q.owned[k] = P.owned[k] /\ Q.borrowed[k] = P.borrowed[k]
                           /\ Q.tokens[k] = P.tokens[k]
      BY <1>7
    <2>2. <<>> \o <<>> = <<>>
      OBVIOUS
    <2>3. QED
      BY <2>1, <2>2 DEF TablePages
  <1>10. Range(<<>>) = {} /\ Len(<<>>) = 0
    BY DEF Range
  <1>11. NothingLeft(Q)
    BY <1>7, <1>9 DEF NothingLeft, PoolInv, PoolOK
  <1>12. Loses(P, Q, lost)
    <2>1. \A k \in Keys : lost[k] \subseteq TableSet(P, k)
      BY <1>2
    <2>2. \A k \in Keys : TableSet(Q, k) = TableSet(P, k) \ lost[k]
      BY <1>2, <1>9, <1>10 DEF TableSet
    <2>3. \A k \in Keys : Range(Q.owned[k]) \subseteq Range(P.owned[k])
      BY <1>9, <1>10
    <2>4. QED
      BY <1>7, <2>1, <2>2, <2>3 DEF Loses, R
  <1> DEFINE off == [k \in Keys |-> 0]
  <1>13. Shifted(P, Q, off)
    <2>1. ASSUME NEW k \in Keys, NEW i \in 1 .. Len(TablePages(Q, k))
          PROVE  i + off[k] = i /\ TablePages(Q, k) = TablePages(P, k)
      BY <1>9, <1>10
    <2>2. QED
      BY <2>1 DEF Shifted
  <1>14. PoolInv(Q, n)
    <2>1. off \in [Keys -> Nat]
      OBVIOUS
    <2> HIDE DEF off
    <2>2. QED
      BY <1>2, <1>8, <1>11, <1>12, <1>13, <2>1, Shrunk
  <1>15. QED
    BY <1>5, <1>7, <1>9, <1>14

\* The entries of s after a, up to b.
LEMMA Stretch ==
    ASSUME NEW S, NEW s \in Seq(S), NEW a \in Nat, NEW b \in Nat, b <= Len(s)
    PROVE  /\ SubSeq(s, a + 1, b) \in Seq(S)
           /\ Len(SubSeq(s, a + 1, b)) = (IF a <= b THEN b - a ELSE 0)
           /\ \A i \in 1 .. Len(SubSeq(s, a + 1, b)) : SubSeq(s, a + 1, b)[i] = s[i + a]
           /\ Range(SubSeq(s, a + 1, b)) \subseteq Range(s)
  <1> DEFINE t == SubSeq(s, a + 1, b)
  <1>1. Len(s) \in Nat /\ \A i \in 1 .. Len(s) : s[i] \in S
    BY LenProperties, ElementOfSeq
  <1>2. /\ t \in Seq(S) /\ Len(t) = (IF a + 1 <= b THEN b - (a + 1) + 1 ELSE 0)
        /\ \A i \in 1 .. b - (a + 1) + 1 : t[i] = s[a + 1 + i - 1]
    <2>1. \A i \in a + 1 .. b : s[i] \in S
      BY <1>1
    <2>2. QED
      BY <2>1, SubSeqProperties
  <1> HIDE DEF t
  <1>3. Len(t) = (IF a <= b THEN b - a ELSE 0)
    BY <1>2
  <1>4. ASSUME NEW i \in 1 .. Len(t) PROVE t[i] = s[i + a] /\ i + a \in 1 .. Len(s)
    <2>1. i \in 1 .. b - (a + 1) + 1 /\ a + 1 + i - 1 = i + a /\ i + a \in 1 .. Len(s)
      BY <1>1, <1>3
    <2>2. QED
      BY <1>2, <2>1
  <1>5. Range(t) \subseteq Range(s)
    <2>1. \A x \in Range(t) : \E i \in 1 .. Len(t) : x = t[i]
      BY <1>2, InRange
    <2>2. \A i \in 1 .. Len(s) : s[i] \in Range(s)
      BY InRange
    <2>3. QED
      BY <1>4, <2>1, <2>2
  <1>6. QED
    BY <1>2, <1>3, <1>4, <1>5 DEF t

Cuts(u, s, a, b) ==
    Len(u) = (IF a <= b THEN b - a ELSE 0) /\ \A i \in 1 .. Len(u) : u[i] = s[i + a]

\* A stretch of a sequence has the values of its indices.
LEMMA CutIs ==
    ASSUME NEW S, NEW s \in Seq(S), NEW a \in Nat, NEW b \in Nat, b <= Len(s),
           NEW u, u = SubSeq(s, a + 1, b)
    PROVE  u \in Seq(S) /\ Cuts(u, s, a, b)
  <1>1. /\ Len(SubSeq(s, a + 1, b)) = (IF a <= b THEN b - a ELSE 0)
        /\ SubSeq(s, a + 1, b) \in Seq(S)
    BY Stretch
  <1>2. \A i \in 1 .. Len(SubSeq(s, a + 1, b)) : SubSeq(s, a + 1, b)[i] = s[i + a]
    BY Stretch
  <1>3. QED
    BY <1>1, <1>2 DEF Cuts

\* What DropLeading keeps of the borrowed pages b and of the own pages o.
KeptBorrowed(b, d) == SubSeq(b, d + 1, Len(b))
KeptOwned(b, o, d) == IF d - Len(b) > 0 THEN SubSeq(o, d - Len(b) + 1, Len(o)) ELSE o

\* s is t without its first d entries.
Without(s, t, d) ==
    /\ Len(s) = Len(t) - d
    /\ \A i \in 1 .. Len(s) : i + d \in 1 .. Len(t) /\ s[i] = t[i + d]

\* Dropping the first d entries of b \o o.
LEMMA DropConcat ==
    ASSUME NEW S, NEW b \in Seq(S), NEW o \in Seq(S), NEW d \in Nat,
           d <= Len(b) + Len(o),
           NEW x, x = KeptBorrowed(b, d), NEW y, y = KeptOwned(b, o, d)
    PROVE  /\ x \in Seq(S) /\ y \in Seq(S) /\ Range(y) \subseteq Range(o)
           /\ Len(x) = (IF d <= Len(b) THEN Len(b) - d ELSE 0)
           /\ Without(x \o y, b \o o, d)
  <1>1. Len(b) \in Nat /\ Len(o) \in Nat
    BY LenProperties
  <1>2. /\ Len(b \o o) = Len(b) + Len(o)
        /\ \A i \in 1 .. Len(b) + Len(o) :
              (b \o o)[i] = IF i <= Len(b) THEN b[i] ELSE o[i - Len(b)]
    BY ConcatProperties
  <1>3. /\ x \in Seq(S) /\ Len(x) = (IF d <= Len(b) THEN Len(b) - d ELSE 0)
        /\ \A i \in 1 .. Len(x) : x[i] = b[i + d]
    BY <1>1, Stretch DEF KeptBorrowed
  <1>4. CASE d <= Len(b)
    <2>1. y = o
      BY <1>1, <1>4 DEF KeptOwned
    <2>2. /\ Len(x \o y) = Len(x) + Len(o)
          /\ \A i \in 1 .. Len(x) + Len(o) :
                (x \o y)[i] = IF i <= Len(x) THEN x[i] ELSE o[i - Len(x)]
      <3>1. Len(x \o o) = Len(x) + Len(o)
        BY <1>3, ConcatProperties
      <3>2. \A i \in 1 .. Len(x) + Len(o) :
                (x \o o)[i] = IF i <= Len(x) THEN x[i] ELSE o[i - Len(x)]
        BY <1>3, ConcatProperties
      <3>3. QED
        BY <2>1, <3>1, <3>2
    <2>3. Len(x) = Len(b) - d
      BY <1>3, <1>4
    <2>4. Len(x \o y) = Len(b \o o) - d
      BY <1>1, <1>2, <2>2, <2>3
    <2>5. ASSUME NEW i \in 1 .. Len(x \o y)
          PROVE  i + d \in 1 .. Len(b \o o) /\ (x \o y)[i] = (b \o o)[i + d]
      <3>1. i + d \in 1 .. Len(b) + Len(o) /\ i \in 1 .. Len(x) + Len(o)
        BY <1>1, <1>2, <2>2, <2>4
      <3>2. CASE i <= Len(x)
        <4>1. x[i] = b[i + d]
          BY <1>1, <1>3, <2>3, <3>2
        <4>2. (b \o o)[i + d] = b[i + d]
          BY <1>1, <1>2, <2>3, <3>1, <3>2
        <4>3. (x \o y)[i] = x[i]
          BY <2>2, <3>1, <3>2
        <4>4. QED
          BY <1>2, <3>1, <4>1, <4>2, <4>3
      <3>3. CASE ~(i <= Len(x))
        <4>1. i + d - Len(b) = i - Len(x) /\ ~(i + d <= Len(b))
          BY <1>1, <2>3, <3>3
        <4>2. (b \o o)[i + d] = o[i + d - Len(b)]
          BY <1>2, <3>1, <4>1
        <4>3. (x \o y)[i] = o[i - Len(x)]
          BY <2>2, <3>1, <3>3
        <4>4. QED
          BY <1>2, <3>1, <4>1, <4>2, <4>3
      <3>4. QED
        BY <3>2, <3>3
    <2>6. QED
      BY <1>3, <2>1, <2>4, <2>5 DEF Without
  <1>5. CASE ~(d <= Len(b))
    <2> DEFINE m == d - Len(b)
    <2>1. m \in Nat /\ m <= Len(o) /\ y = SubSeq(o, m + 1, Len(o))
      BY <1>1, <1>5 DEF KeptOwned
    <2>2. Len(x) = 0
      BY <1>3, <1>5
    <2> HIDE DEF m
    <2>3. /\ y \in Seq(S) /\ Len(y) = Len(o) - m /\ Range(y) \subseteq Range(o)
          /\ \A i \in 1 .. Len(y) : y[i] = o[i + m]
      BY <1>1, <2>1, Stretch
    <2>4. x \o y = y
      <3>1. x = <<>>
        BY <1>3, <2>2, EmptySeq
      <3>2. QED
        BY <2>3, <3>1, ConcatEmptySeq
    <2>5. Len(x \o y) = Len(b \o o) - d
      BY <1>1, <1>2, <2>3, <2>4 DEF m
    <2>6. ASSUME NEW i \in 1 .. Len(x \o y)
          PROVE  i + d \in 1 .. Len(b \o o) /\ (x \o y)[i] = (b \o o)[i + d]
      <3>1. i + d \in 1 .. Len(b) + Len(o)
        BY <1>1, <1>2, <2>5
      <3>2. ~(i + d <= Len(b)) /\ i + d - Len(b) = i + m
        BY <1>1, <1>5 DEF m
      <3>3. (b \o o)[i + d] = o[i + m]
        BY <1>2, <3>1, <3>2
      <3>4. QED
        BY <1>2, <2>3, <2>4, <3>1, <3>3
    <2>7. QED
      BY <1>3, <2>3, <2>5, <2>6 DEF Without
  <1>6. QED
    BY <1>4, <1>5

\* A table without its first d entries reads the pages those did not.
LEMMA DropSet ==
    ASSUME NEW S, NEW t \in Seq(S), Distinct(t), NEW d \in Nat, d <= Len(t),
           NEW u \in Seq(S), Len(u) = Len(t) - d,
           \A i \in 1 .. Len(u) : u[i] = t[i + d]
    PROVE  /\ Range(u) = Range(t) \ Range(SubSeq(t, 1, d))
           /\ Range(SubSeq(t, 1, d)) \subseteq Range(t)
  <1> DEFINE v == SubSeq(t, 0 + 1, d)
  <1>1. Len(t) \in Nat
    BY LenProperties
  <1>2. /\ v \in Seq(S) /\ Len(v) = d /\ Range(v) \subseteq Range(t)
        /\ \A i \in 1 .. Len(v) : v[i] = t[i + 0]
    <2>1. Len(v) = (IF 0 <= d THEN d - 0 ELSE 0)
      BY <1>1, Stretch
    <2>2. v \in Seq(S) /\ Range(v) \subseteq Range(t)
      BY <1>1, Stretch
    <2>3. \A i \in 1 .. Len(v) : v[i] = t[i + 0]
      BY <1>1, Stretch
    <2>4. QED
      BY <2>1, <2>2, <2>3
  <1>3. SubSeq(t, 1, d) = v
    OBVIOUS
  <1> HIDE DEF v
  <1>4. \A x : x \in Range(v) <=> \E i \in 1 .. Len(v) : x = v[i]
    BY <1>2, InRange
  <1>5. \A x : x \in Range(t) <=> \E i \in 1 .. Len(t) : x = t[i]
    BY InRange
  <1>6. \A x : x \in Range(u) <=> \E i \in 1 .. Len(u) : x = u[i]
    BY InRange
  <1>7. ASSUME NEW x \in Range(u) PROVE x \in Range(t) /\ x \notin Range(v)
    <2>1. PICK i \in 1 .. Len(u) : x = u[i]
      BY <1>6
    <2>2. i + d \in 1 .. Len(t) /\ x = t[i + d]
      BY <1>1, <2>1
    <2>3. ASSUME NEW j \in 1 .. Len(v), x = v[j] PROVE FALSE
      <3>1. j \in 1 .. Len(t) /\ x = t[j] /\ j <= d
        BY <1>1, <1>2, <2>3
      <3>2. j = i + d
        BY <2>2, <3>1 DEF Distinct
      <3>3. QED
        BY <3>1, <3>2
    <2>4. QED
      BY <1>4, <1>5, <2>2, <2>3
  <1>8. ASSUME NEW x \in Range(t), x \notin Range(v) PROVE x \in Range(u)
    <2>1. PICK j \in 1 .. Len(t) : x = t[j]
      BY <1>5
    <2>2. ~(j <= d)
      <3>1. SUFFICES ASSUME j <= d PROVE FALSE
        OBVIOUS
      <3>2. j \in 1 .. Len(v) /\ v[j] = t[j + 0] /\ j + 0 = j
        BY <1>2, <3>1
      <3>3. QED
        BY <1>4, <1>8, <2>1, <3>2
    <2>3. j - d \in 1 .. Len(u) /\ (j - d) + d = j
      BY <1>1, <2>2
    <2>4. u[j - d] = t[j]
      BY <2>3
    <2>5. QED
      BY <1>6, <2>1, <2>3, <2>4
  <1>9. QED
    BY <1>2, <1>3, <1>7, <1>8

\* Each key's table, and what of it is borrowed, is off[k] pages shorter.
Shorter(P, Q, off) ==
    \A k \in Keys :
        /\ Len(TablePages(Q, k)) = Len(TablePages(P, k)) - off[k]
        /\ Len(Q.borrowed[k]) = (IF off[k] <= Len(P.borrowed[k])
                                THEN Len(P.borrowed[k]) - off[k] ELSE 0)

\* DropLeading: each key's table starts off[k] pages later.
LEMMA DropLeadingKeeps ==
    ASSUME NEW n \in Nat, NEW P, PoolInv(P, n), NEW off \in [Keys -> Nat],
           \A k \in Keys : off[k] <= Len(TablePages(P, k)),
           NEW Q, Q = DropLeading(P, off)
    PROVE  /\ PoolInv(Q, n) /\ Q.resident = P.resident /\ Q.tokens = P.tokens
           /\ Shifted(P, Q, off) /\ P.free \subseteq Q.free /\ Shorter(P, Q, off)
  <1>1. P \in Pool(n)
    BY DEF PoolInv
  <1> DEFINE lost == [k \in Keys |-> Range(SubSeq(TablePages(P, k), 1, off[k]))]
             R == ReleasePages(P, lost)
             lent == [k \in Keys |-> KeptBorrowed(P.borrowed[k], off[k])]
             own == [k \in Keys |-> KeptOwned(P.borrowed[k], P.owned[k], off[k])]
  <1>2. Q = [R EXCEPT !.borrowed = [k \in Keys |-> KeptBorrowed(@[k], off[k])],
                      !.owned = [k \in Keys |-> KeptOwned(P.borrowed[k], @[k], off[k])]]
    BY DEF DropLeading, KeptBorrowed, KeptOwned
  <1>3. \A k \in Keys : /\ lost[k] = Range(SubSeq(TablePages(P, k), 1, off[k]))
                        /\ lent[k] = KeptBorrowed(P.borrowed[k], off[k])
                        /\ own[k] = KeptOwned(P.borrowed[k], P.owned[k], off[k])
    OBVIOUS
  <1> HIDE DEF lost, lent, own
  <1>4. ASSUME NEW k \in Keys
        PROVE  /\ lent[k] \in Seq(Pages(n)) /\ own[k] \in Seq(Pages(n))
               /\ Range(own[k]) \subseteq Range(P.owned[k])
               /\ Len(lent[k]) = (IF off[k] <= Len(P.borrowed[k])
                                 THEN Len(P.borrowed[k]) - off[k] ELSE 0)
               /\ Len(lent[k] \o own[k]) = Len(TablePages(P, k)) - off[k]
               /\ \A i \in 1 .. Len(lent[k] \o own[k]) :
                     /\ i + off[k] \in 1 .. Len(TablePages(P, k))
                     /\ (lent[k] \o own[k])[i] = TablePages(P, k)[i + off[k]]
    <2> DEFINE b == P.borrowed[k]
               o == P.owned[k]
               d == off[k]
               x == lent[k]
               y == own[k]
    <2>1. /\ b \in Seq(Pages(n)) /\ o \in Seq(Pages(n)) /\ d \in Nat /\ d <= Len(b) + Len(o)
          /\ x = KeptBorrowed(b, d) /\ y = KeptOwned(b, o, d)
          /\ TablePages(P, k) = b \o o
      BY <1>1, <1>3, TableIs DEF TablePages
    <2> HIDE DEF b, o, d, x, y
    <2>6. x \in Seq(Pages(n)) /\ y \in Seq(Pages(n)) /\ Range(y) \subseteq Range(o)
      BY <2>1, DropConcat
    <2>7. Len(x) = (IF d <= Len(b) THEN Len(b) - d ELSE 0)
      <3>1. Len(b) \in Nat
        BY <2>1, LenProperties
      <3>2. Len(SubSeq(b, d + 1, Len(b))) = (IF d <= Len(b) THEN Len(b) - d ELSE 0)
        BY <2>1, <3>1, Stretch
      <3>3. QED
        BY <2>1, <3>2 DEF KeptBorrowed
    <2>2. /\ x \in Seq(Pages(n)) /\ y \in Seq(Pages(n)) /\ Range(y) \subseteq Range(o)
          /\ Len(x) = (IF d <= Len(b) THEN Len(b) - d ELSE 0)
      BY <2>6, <2>7
    <2>3. Without(x \o y, b \o o, d)
      BY <2>1, DropConcat
    <2>4. Without(lent[k] \o own[k], TablePages(P, k), off[k])
      BY <2>1, <2>3 DEF b, o, d, x, y
    <2>5. QED
      BY <2>2, <2>4 DEF b, o, d, x, y, Without
  <1>5. ASSUME NEW k \in Keys
        PROVE  /\ Range(lent[k] \o own[k]) = TableSet(P, k) \ lost[k]
               /\ lost[k] \subseteq TableSet(P, k)
    <2> DEFINE t == TablePages(P, k)
               d == off[k]
               u == lent[k] \o own[k]
    <2>1. /\ t \in Seq(Pages(n)) /\ Distinct(t) /\ d \in Nat /\ d <= Len(t)
          /\ TableSet(P, k) = Range(t) /\ lost[k] = Range(SubSeq(t, 1, d))
      BY <1>1, <1>3, TableIs DEF PoolInv, TableSet
    <2>2. u \in Seq(Pages(n))
      BY <1>4, ConcatProperties
    <2>3. Len(u) = Len(t) - d /\ \A i \in 1 .. Len(u) : u[i] = t[i + d]
      BY <1>4
    <2> HIDE DEF t, d, u
    <2>4. /\ Range(u) = Range(t) \ Range(SubSeq(t, 1, d))
          /\ Range(SubSeq(t, 1, d)) \subseteq Range(t)
      BY <2>1, <2>2, <2>3, DropSet
    <2>5. QED
      BY <2>1, <2>4 DEF u
  <1>6. lost \in [Keys -> SUBSET Pages(n)]
    <2>1. \A k \in Keys : lost[k] \in SUBSET Pages(n)
      BY <1>1, <1>5, TableIs
    <2>2. QED
      BY <2>1 DEF lost
  <1>7. /\ R.holds \in [Pages(n) -> Nat] /\ R.free \in SUBSET Pages(n)
        /\ CountsOnly(P, R)
    BY <1>5, <1>6, ReleaseType
  <1>8. P.free \subseteq R.free
    BY <1>1 DEF ReleasePages, Pool
  <1>9. R.holds = ReleasePages(P, lost).holds /\ R.free = ReleasePages(P, lost).free
    OBVIOUS
  <1> HIDE DEF R
  <1>10. R \in Pool(n) /\ R.resident = P.resident /\ R.owned = P.owned
         /\ R.borrowed = P.borrowed /\ R.tokens = P.tokens
    BY <1>1, <1>7 DEF Pool, Pages, CountsOnly
  <1>11. Q = [R EXCEPT !.borrowed = lent, !.owned = own]
    BY <1>2, <1>10 DEF lent, own
  <1>12. /\ Q.resident = P.resident /\ Q.holds = R.holds /\ Q.free = R.free
         /\ Q.tokens = P.tokens /\ Q.borrowed = lent /\ Q.owned = own
    BY <1>10, <1>11 DEF Pool
  <1>13. lent \in [Keys -> Seq(Pages(n))] /\ own \in [Keys -> Seq(Pages(n))]
    BY <1>4 DEF lent, own
  <1>14. Q \in Pool(n)
    BY <1>10, <1>11, <1>13 DEF Pool, Pages
  <1>15. \A k \in Keys : TablePages(Q, k) = lent[k] \o own[k]
    BY <1>12 DEF TablePages
  <1>16. Shifted(P, Q, off)
    BY <1>4, <1>15 DEF Shifted
  <1>17. NothingLeft(Q)
    <2>1. ASSUME NEW k \in Keys, k \notin P.resident
          PROVE  own[k] = <<>> /\ lent[k] = <<>>
      <3>1. P.owned[k] = <<>> /\ P.borrowed[k] = <<>>
        BY <2>1 DEF PoolInv, PoolOK, NothingLeft
      <3>2. /\ Len(TablePages(P, k)) = Len(P.borrowed[k]) + Len(P.owned[k])
            /\ off[k] <= Len(TablePages(P, k))
        BY <1>1, TableIs
      <3>3. off[k] = 0 /\ Len(P.borrowed[k]) = 0
        BY <3>1, <3>2
      <3>4. ~(off[k] - Len(P.borrowed[k]) > 0)
        BY <3>3
      <3>5. own[k] = <<>>
        BY <1>3, <3>1, <3>4 DEF KeptOwned
      <3>6. Len(lent[k]) = 0 /\ lent[k] \in Seq(Pages(n))
        <4>1. off[k] <= Len(P.borrowed[k]) /\ Len(P.borrowed[k]) - off[k] = 0
          BY <3>3
        <4>2. QED
          BY <1>4, <4>1
      <3>7. QED
        BY <3>5, <3>6, EmptySeq
    <2>2. \A k \in Keys : k \notin P.resident => P.tokens[k] = 0
      BY DEF PoolInv, PoolOK, NothingLeft
    <2>3. QED
      BY <1>12, <2>1, <2>2 DEF NothingLeft
  <1>18. Loses(P, Q, lost)
    <2>1. \A k \in Keys : TableSet(Q, k) = TableSet(P, k) \ lost[k]
      BY <1>5, <1>15 DEF TableSet
    <2>2. \A k \in Keys : Range(Q.owned[k]) \subseteq Range(P.owned[k])
      BY <1>4, <1>12
    <2>3. \A k \in Keys : lost[k] \subseteq TableSet(P, k)
      BY <1>5
    <2>4. QED
      BY <1>9, <1>12, <2>1, <2>2, <2>3 DEF Loses
  <1>19. PoolInv(Q, n)
    BY <1>6, <1>14, <1>16, <1>17, <1>18, Shrunk
  <1>20. QED
    BY <1>4, <1>8, <1>12, <1>15, <1>16, <1>19 DEF Shorter

\* The two parts of a table without repetitions share no page.
LEMMA DistinctParts ==
    ASSUME NEW S, NEW s \in Seq(S), NEW t \in Seq(S), Distinct(s \o t)
    PROVE  Range(s) = Range(s \o t) \ Range(t)
  <1>1. Len(s) \in Nat /\ Len(t) \in Nat
    BY LenProperties
  <1>2. /\ Len(s \o t) = Len(s) + Len(t)
        /\ \A i \in 1 .. Len(s) + Len(t) :
              (s \o t)[i] = IF i <= Len(s) THEN s[i] ELSE t[i - Len(s)]
    BY ConcatProperties
  <1>3. ASSUME NEW i \in 1 .. Len(s), NEW j \in 1 .. Len(t), s[i] = t[j] PROVE FALSE
    <2>1. /\ i \in 1 .. Len(s) + Len(t) /\ j + Len(s) \in 1 .. Len(s) + Len(t)
          /\ ~(j + Len(s) <= Len(s)) /\ j + Len(s) - Len(s) = j
      BY <1>1
    <2>2. (s \o t)[i] = s[i] /\ (s \o t)[j + Len(s)] = t[j]
      BY <1>2, <2>1
    <2>3. i = j + Len(s)
      BY <1>2, <1>3, <2>1, <2>2 DEF Distinct
    <2>4. QED
      BY <1>1, <2>3
  <1>4. \A x : x \in Range(s) <=> \E i \in 1 .. Len(s) : x = s[i]
    BY InRange
  <1>5. \A x : x \in Range(t) <=> \E i \in 1 .. Len(t) : x = t[i]
    BY InRange
  <1>6. Range(s) \cap Range(t) = {}
    BY <1>3, <1>4, <1>5
  <1>7. Range(s \o t) = Range(s) \cup Range(t)
    BY RangeConcatenation
  <1>8. QED
    BY <1>6, <1>7

Begins(s, t) == Len(s) <= Len(t) /\ \A i \in 1 .. Len(s) : s[i] = t[i]

\* Keeping the first m of the own pages o, after the borrowed pages b.
LEMMA RewindSet ==
    ASSUME NEW S, NEW b \in Seq(S), NEW o \in Seq(S), Distinct(b \o o),
           NEW m \in Nat, m <= Len(o)
    PROVE  /\ SubSeq(o, 1, m) \in Seq(S) /\ Range(SubSeq(o, 1, m)) \subseteq Range(o)
           /\ Len(b \o SubSeq(o, 1, m)) = Len(b) + m
           /\ Begins(b \o SubSeq(o, 1, m), b \o o)
           /\ \A x : x \in Range(b \o SubSeq(o, 1, m)) <=>
                       x \in Range(b \o o) /\ x \notin Range(SubSeq(o, m + 1, Len(o)))
           /\ Range(SubSeq(o, m + 1, Len(o))) \subseteq Range(o)
  <1> DEFINE p == SubSeq(o, 1, m)
             q == SubSeq(o, m + 1, Len(o))
  <1>1. Len(b) \in Nat /\ Len(o) \in Nat
    BY LenProperties
  <1>2. p \o q = o
    <2>1. SubSeq(o, 1, Len(o)) = o
      BY SubSeqFull
    <2>2. /\ 1 \in 1 .. Len(o) + 1 /\ m \in 1 - 1 .. Len(o) /\ Len(o) \in m .. Len(o)
      BY <1>1
    <2>3. SubSeq(o, 1, m) \o SubSeq(o, m + 1, Len(o)) = SubSeq(o, 1, Len(o))
      BY <2>2, ConcatAdjacentSubSeq
    <2>4. QED
      BY <2>1, <2>3
  <1>3. p \in Seq(S) /\ Len(p) = m
    <2>1. SubSeq(o, 0 + 1, m) \in Seq(S)
      BY <1>1, Stretch
    <2>2. Len(SubSeq(o, 0 + 1, m)) = (IF 0 <= m THEN m - 0 ELSE 0)
      BY <1>1, Stretch
    <2>3. SubSeq(o, 0 + 1, m) = p
      OBVIOUS
    <2> HIDE DEF p
    <2>4. QED
      BY <2>1, <2>2, <2>3
  <1>4. q \in Seq(S)
    BY <1>1, Stretch
  <1> HIDE DEF p, q
  <1>5. Range(o) = Range(p) \cup Range(q)
    BY ZenonT(30), <1>2, <1>3, <1>4, RangeConcatenation
  <1>6. b \o p \in Seq(S) /\ Len(b \o p) = Len(b) + m
    BY <1>3, ConcatProperties
  <1>7. (b \o p) \o q = b \o o
    <2>1. (b \o p) \o q = b \o (p \o q)
      BY SMTT(30), <1>3, <1>4, ConcatAssociative
    <2>2. QED
      BY <1>2, <2>1
  <1>8. Range(b \o p) = Range(b \o o) \ Range(q)
    <2>1. Distinct((b \o p) \o q)
      BY <1>7
    <2> DEFINE u == b \o p
    <2>2. u \in Seq(S) /\ Distinct(u \o q)
      BY <1>6, <2>1
    <2> HIDE DEF u
    <2>3. Range(u) = Range(u \o q) \ Range(q)
      BY <1>4, <2>2, DistinctParts
    <2>4. QED
      BY <1>7, <2>3 DEF u
  <1>9. Begins(b \o p, b \o o)
    <2>1. Len(b \o o) = Len(b \o p) + Len(q) /\ Len(q) \in Nat /\ Len(b \o p) \in Nat
      BY <1>4, <1>6, <1>7, ConcatProperties, LenProperties
    <2>2. \A i \in 1 .. Len(b \o p) + Len(q) :
             ((b \o p) \o q)[i] = IF i <= Len(b \o p) THEN (b \o p)[i] ELSE q[i - Len(b \o p)]
      BY <1>4, <1>6, ConcatProperties
    <2>3. QED
      BY <1>7, <2>1, <2>2 DEF Begins
  <1>10. QED
    BY <1>3, <1>5, <1>6, <1>8, <1>9 DEF p, q

OthersKeep(P, Q, k) == \A l \in Keys \ {k} : TablePages(Q, l) = TablePages(P, l)

\* The pages for the tokens end within those k owns.
EndsInOwned(P, k, tokens) ==
    PagesNeeded(tokens) - Len(P.borrowed[k]) \in 0 .. Len(P.owned[k])

Rewound(P, Q, k, tokens) ==
    /\ Q.resident = P.resident /\ Q.borrowed = P.borrowed
    /\ Q.tokens = [P.tokens EXCEPT ![k] = tokens]
    /\ Len(TablePages(Q, k)) = PagesNeeded(tokens)
    /\ \A l \in Keys : Begins(TablePages(Q, l), TablePages(P, l))
    /\ OthersKeep(P, Q, k)

\* Rewind: k's table keeps the pages for the tokens.
LEMMA RewindKeeps ==
    ASSUME NEW n \in Nat, NEW P, PoolInv(P, n), NEW k \in P.resident, NEW tokens \in Nat,
           EndsInOwned(P, k, tokens), NEW Q, Q = Rewind(P, k, tokens)
    PROVE  PoolInv(Q, n) /\ Rewound(P, Q, k, tokens)
  <1> SUFFICES ASSUME PagesNeeded(tokens) - Len(P.borrowed[k]) \in 0 .. Len(P.owned[k])
               PROVE  PoolInv(Q, n) /\ Rewound(P, Q, k, tokens)
    BY DEF EndsInOwned
  <1>1. P \in Pool(n) /\ k \in Keys
    BY Fields DEF PoolInv
  <1> DEFINE b == P.borrowed[k]
             o == P.owned[k]
             m == PagesNeeded(tokens) - Len(b)
             first == SubSeq(o, 1, m)
             gone == Range(SubSeq(o, m + 1, Len(o)))
             lost == [l \in Keys |-> IF l = k THEN gone ELSE {}]
             R == ReleasePages(P, lost)
  <1>2. Q = [R EXCEPT !.owned[k] = SubSeq(@, 1, m), !.tokens[k] = tokens]
    BY DEF Rewind
  <1>3. /\ b \in Seq(Pages(n)) /\ o \in Seq(Pages(n)) /\ Distinct(b \o o)
        /\ Len(b) \in Nat /\ Len(o) \in Nat /\ TableSet(P, k) = Range(b \o o)
        /\ TablePages(P, k) = b \o o /\ TableSet(P, k) \subseteq Pages(n)
        /\ TableSet(P, k) = Range(b) \cup Range(o)
    BY <1>1, TableIs DEF PoolInv, TablePages, TableSet
  <1>4. m \in Nat /\ m <= Len(o) /\ PagesNeeded(tokens) = Len(b) + m
    <2>1. m \in 0 .. Len(o)
      OBVIOUS
    <2>2. PagesNeeded(tokens) \in Nat
      BY PagesNeededBounds
    <2> HIDE DEF b, o
    <2>3. QED
      BY <1>3, <2>1, <2>2
  <1> HIDE DEF m, b, o
  <1>5. /\ first \in Seq(Pages(n)) /\ Range(first) \subseteq Range(o)
        /\ Begins(b \o first, b \o o)
        /\ Range(b \o first) = Range(b \o o) \ gone /\ gone \subseteq Range(o)
    <2>1. first \in Seq(Pages(n)) /\ Range(first) \subseteq Range(o)
      BY <1>3, <1>4, RewindSet
    <2>2. Begins(b \o first, b \o o)
      BY <1>3, <1>4, RewindSet
    <2>6. \A x : x \in Range(b \o first) <=> x \in Range(b \o o) /\ x \notin gone
      BY <1>3, <1>4, RewindSet
    <2> HIDE DEF first, gone
    <2>3. Range(b \o first) = Range(b \o o) \ gone
      BY <2>6
    <2> USE DEF first, gone
    <2>4. gone \subseteq Range(o)
      BY <1>3, <1>4, RewindSet
    <2>5. QED
      BY <2>1, <2>2, <2>3, <2>4
  <1>6. Len(b \o first) = Len(b) + m
    BY <1>3, <1>4, RewindSet
  <1> HIDE DEF first, gone
  <1>7. /\ lost \in [Keys -> SUBSET Pages(n)]
        /\ lost[k] = gone /\ \A l \in Keys \ {k} : lost[l] = {}
        /\ \A l \in Keys : lost[l] \subseteq TableSet(P, l)
    BY <1>1, <1>3, <1>5
  <1>8. R.holds = ReleasePages(P, lost).holds /\ R.free = ReleasePages(P, lost).free
    OBVIOUS
  <1> HIDE DEF lost
  <1>9. /\ R.holds \in [Pages(n) -> Nat] /\ R.free \in SUBSET Pages(n)
        /\ CountsOnly(P, R)
    <2>1. lost \in [Keys -> SUBSET Pages(n)] /\ \A l \in Keys : lost[l] \subseteq TableSet(P, l)
      BY <1>7
    <2>2. QED
      BY <2>1, ReleaseType
  <1> HIDE DEF R
  <1>10. R \in Pool(n) /\ R.resident = P.resident /\ R.owned = P.owned
         /\ R.borrowed = P.borrowed /\ R.tokens = P.tokens
    BY <1>1, <1>9 DEF Pool, Pages, CountsOnly
  <1>11. /\ Q.resident = P.resident /\ Q.holds = R.holds /\ Q.free = R.free
         /\ Q.tokens = [P.tokens EXCEPT ![k] = tokens] /\ Q.borrowed = P.borrowed
         /\ Q.owned = [P.owned EXCEPT ![k] = first]
    BY <1>2, <1>10 DEF Pool, first, o
  <1>12. Q \in Pool(n)
    <2>1. Q.owned \in [Keys -> Seq(Pages(n))] /\ Q.tokens \in [Keys -> Nat]
      BY <1>1, <1>5, <1>11, Fields
    <2>2. Q = [R EXCEPT !.owned = Q.owned, !.tokens = Q.tokens]
      BY <1>2, <1>10 DEF Pool
    <2>3. QED
      BY <1>10, <2>1, <2>2 DEF Pool, Pages
  <1>13. /\ Q.owned[k] = first /\ Q.borrowed[k] = b
         /\ \A l \in Keys \ {k} : Q.owned[l] = P.owned[l]
         /\ TablePages(Q, k) = b \o first
         /\ \A l \in Keys \ {k} : TablePages(Q, l) = TablePages(P, l)
    <2>1. /\ Q.owned[k] = first /\ Q.borrowed[k] = b
          /\ \A l \in Keys \ {k} : Q.owned[l] = P.owned[l]
      BY <1>1, <1>11, Fields DEF b
    <2>2. QED
      BY <1>11, <2>1 DEF TablePages
  <1>14. ASSUME NEW l \in Keys PROVE Begins(TablePages(Q, l), TablePages(P, l))
    <2>1. CASE l = k
      BY <1>3, <1>5, <1>13, <2>1
    <2>2. CASE l # k
      <3>1. Len(TablePages(P, l)) \in Nat
        BY <1>1, TableIs
      <3>2. QED
        BY <1>13, <2>2, <3>1 DEF Begins
    <2>3. QED
      BY <2>1, <2>2
  <1> DEFINE off == [l \in Keys |-> 0]
  <1>15. off \in [Keys -> Nat] /\ Shifted(P, Q, off)
    <2>1. ASSUME NEW l \in Keys, NEW i \in 1 .. Len(TablePages(Q, l))
          PROVE  /\ i + off[l] \in 1 .. Len(TablePages(P, l))
                 /\ TablePages(Q, l)[i] = TablePages(P, l)[i + off[l]]
      <3>1. Len(TablePages(P, l)) \in Nat /\ Len(TablePages(Q, l)) \in Nat
        BY <1>1, <1>12, TableIs
      <3>2. i + off[l] = i
        OBVIOUS
      <3>3. QED
        BY <1>14, <3>1, <3>2 DEF Begins
    <2>2. QED
      BY <2>1 DEF Shifted
  <1>16. NothingLeft(Q)
    <2>1. \A l \in Keys \ P.resident : l # k
      OBVIOUS
    <2>2. QED
      BY <1>1, <1>11, <1>13, <2>1, Fields DEF NothingLeft, PoolInv, PoolOK
  <1>17. Loses(P, Q, lost)
    <2>1. \A l \in Keys : TableSet(Q, l) = TableSet(P, l) \ lost[l]
      BY <1>3, <1>5, <1>7, <1>13 DEF TableSet
    <2>2. \A l \in Keys : Range(Q.owned[l]) \subseteq Range(P.owned[l])
      <3>1. Range(Q.owned[k]) \subseteq Range(P.owned[k])
        BY <1>5, <1>13 DEF o
      <3>2. \A l \in Keys \ {k} : Range(Q.owned[l]) = Range(P.owned[l])
        BY <1>13
      <3>3. QED
        BY <3>1, <3>2
    <2>3. QED
      BY <1>7, <1>8, <1>11, <2>1, <2>2 DEF Loses
  <1> HIDE DEF off
  <1>18. PoolInv(Q, n)
    BY <1>7, <1>12, <1>15, <1>16, <1>17, Shrunk
  <1>19. QED
    BY <1>4, <1>6, <1>11, <1>13, <1>14, <1>18 DEF OthersKeep, Rewound

-----------------------------------------------------------------------------
(* Rows *)

\* Two tables that read one page read it at the same row.
Aligned(P, start) ==
    \A k, l \in Keys :
        \A i \in 1 .. Len(TablePages(P, k)) : \A j \in 1 .. Len(TablePages(P, l)) :
            TablePages(P, k)[i] = TablePages(P, l)[j] =>
                start[k] + i * PageTokens = start[l] + j * PageTokens

\* A key's pages cover its tokens, and its own tokens follow what it borrows.
Fits(P, k) ==
    /\ Len(P.borrowed[k]) * PageTokens <= P.tokens[k]
    /\ P.tokens[k] <= Len(TablePages(P, k)) * PageTokens

Placed(P, base, start, k) ==
    /\ start[k] \in Nat /\ base[k] \in Nat /\ start[k] <= base[k]
    /\ start[k] % PageTokens = 0 /\ P.tokens[k] = base[k] - start[k]

PoolFine(P, n, base, start) ==
    /\ PoolInv(P, n) /\ Aligned(P, start)
    /\ \A k \in Keys : Placed(P, base, start, k) /\ Fits(P, k)

\* The pages k reads, each with the row it ends before.
Spots(P, start, k) ==
    {<<TablePages(P, k)[i], start[k] + i * PageTokens>> : i \in 1 .. Len(TablePages(P, k))}

\* No other key reads the page.
Alone(P, k, p) == \A l \in Keys \ {k} : p \notin TableSet(P, l)

\* What k reads in Q and not in P holds rows from r on, and is k's alone.
Tops(P, Q, start, k, r) ==
    \A x \in Spots(Q, start, k) :
        x \in Spots(P, start, k) \/ (x[2] - PageTokens >= r /\ Alone(Q, k, x[1]))

\* What k reads is its parent's up to the shared rows, and k's alone after.
Lays(P, start, parent, shared, k) ==
    \A x \in Spots(P, start, k) :
        \/ x \in Spots(P, start, parent) /\ x[2] <= shared
        \/ x[2] > shared /\ Alone(P, k, x[1])

\* The same table from the same row has the same spots.
LEMMA SpotsSame ==
    ASSUME NEW P, NEW Q, NEW start, NEW moved, NEW k,
           TablePages(Q, k) = TablePages(P, k), moved[k] = start[k]
    PROVE  Spots(Q, moved, k) = Spots(P, start, k)
  BY DEF Spots

\* A table that is another's beginning has some of its spots.
LEMMA SpotsBegin ==
    ASSUME NEW P, NEW Q, NEW start, NEW k, Begins(TablePages(Q, k), TablePages(P, k)),
           Len(TablePages(Q, k)) \in Nat, Len(TablePages(P, k)) \in Nat
    PROVE  Spots(Q, start, k) \subseteq Spots(P, start, k)
  <1>1. \A i \in 1 .. Len(TablePages(Q, k)) :
            i \in 1 .. Len(TablePages(P, k)) /\ TablePages(Q, k)[i] = TablePages(P, k)[i]
    BY DEF Begins
  <1> QED BY <1>1 DEF Spots

\* Tables that lose their first pages, and start as much later, lose spots.
LEMMA SpotsShift ==
    ASSUME NEW P, NEW Q, NEW off \in [Keys -> Nat], Shifted(P, Q, off), NEW k \in Keys,
           NEW start, NEW moved, start[k] \in Int, moved[k] = start[k] + off[k] * PageTokens
    PROVE  Spots(Q, moved, k) \subseteq Spots(P, start, k)
  <1>1. SUFFICES ASSUME NEW i \in 1 .. Len(TablePages(Q, k))
                 PROVE  <<TablePages(Q, k)[i], moved[k] + i * PageTokens>> \in Spots(P, start, k)
    BY DEF Spots
  <1> DEFINE j == i + off[k]
  <1>2. j \in 1 .. Len(TablePages(P, k)) /\ TablePages(Q, k)[i] = TablePages(P, k)[j]
    BY DEF Shifted
  <1>3. moved[k] + i * PageTokens = start[k] + j * PageTokens
    <2>1. /\ j * PageTokens = i * PageTokens + off[k] * PageTokens
          /\ i * PageTokens \in Int /\ off[k] * PageTokens \in Int
      <3>1. i \in Int /\ off[k] \in Int
        OBVIOUS
      <3> HIDE DEF j
      <3> QED BY <3>1, Times DEF j
    <2> HIDE DEF j
    <2> DEFINE x == i * PageTokens
               y == off[k] * PageTokens
               z == j * PageTokens
    <2>2. z = x + y /\ x \in Int /\ y \in Int /\ moved[k] = start[k] + y
      BY <2>1
    <2>3. moved[k] + x = start[k] + z
      <3> HIDE DEF x, y, z
      <3> QED BY <2>2
    <2> QED BY <2>3
  <1> HIDE DEF j
  <1> QED BY <1>2, <1>3 DEF Spots

\* Free pages at a table's end are its own, and hold the rows after it.
LEMMA SpotsLonger ==
    ASSUME NEW n \in Nat, NEW P, NEW base, NEW start, PoolFine(P, n, base, start),
           NEW Q, PoolInv(Q, n), Longer(P, Q), NEW k \in Keys
    PROVE  Tops(P, Q, start, k, base[k])
  <1>1. PoolInv(P, n) /\ Placed(P, base, start, k) /\ Fits(P, k)
    BY DEF PoolFine
  <1> DEFINE l == Len(TablePages(P, k))
  <1>2. l \in Nat /\ Len(TablePages(Q, k)) \in Nat
    BY <1>1, TableIs DEF PoolInv
  <1>3. start[k] \in Nat /\ base[k] \in Nat /\ base[k] - start[k] <= l * PageTokens
    BY <1>1 DEF Placed, Fits
  <1>4. SUFFICES ASSUME NEW i \in 1 .. Len(TablePages(Q, k)),
                        NEW x, x = <<TablePages(Q, k)[i], start[k] + i * PageTokens>>
                 PROVE  x \in Spots(P, start, k)
                            \/ (x[2] - PageTokens >= base[k] /\ Alone(Q, k, x[1]))
    BY DEF Tops, Spots
  <1>5. CASE i <= l
    <2>1. i \in 1 .. l /\ TablePages(Q, k)[i] = TablePages(P, k)[i]
      BY <1>2, <1>5 DEF Longer
    <2> QED BY <1>4, <2>1 DEF Spots
  <1>6. CASE ~(i <= l)
    <2>1. Alone(Q, k, x[1])
      <3>1. ASSUME NEW m \in Keys \ {k}, x[1] \in TableSet(Q, m) PROVE FALSE
        <4>1. TablePages(Q, m) \in Seq(Pages(n))
          BY TableIs DEF PoolInv
        <4>2. PICK j \in 1 .. Len(TablePages(Q, m)) : x[1] = TablePages(Q, m)[j]
          BY <3>1, <4>1, InRange DEF TableSet
        <4>3. TablePages(Q, k)[i] = TablePages(Q, m)[j]
          BY <1>4, <4>2
        <4> QED BY <1>6, <4>3 DEF Longer
      <3> QED BY <3>1 DEF Alone
    <2>2. x[2] - PageTokens >= base[k]
      <3>1. l <= i - 1 /\ i - 1 \in Int
        BY <1>2, <1>6
      <3>2. /\ l * PageTokens <= (i - 1) * PageTokens
            /\ (i - 1) * PageTokens = i * PageTokens - 1 * PageTokens
            /\ l * PageTokens \in Int /\ i * PageTokens \in Int
            /\ 1 * PageTokens = PageTokens /\ PageTokens \in Nat
        BY <1>2, <3>1, TimesOrder, Times, PageTokensAssumption
      <3>3. x[2] = start[k] + i * PageTokens
        BY <1>4
      <3> HIDE DEF l
      <3> QED BY <1>3, <3>2, <3>3
    <2> QED BY <2>1, <2>2
  <1> QED BY <1>5, <1>6

\* Free pages at the ends of tables leave the rows aligned.
LEMMA AlignedLonger ==
    ASSUME NEW n \in Nat, NEW P, PoolInv(P, n), NEW Q, PoolInv(Q, n), Longer(P, Q),
           NEW start, Aligned(P, start)
    PROVE  Aligned(Q, start)
  <1>1. SUFFICES ASSUME NEW k \in Keys, NEW l \in Keys,
                        NEW i \in 1 .. Len(TablePages(Q, k)),
                        NEW j \in 1 .. Len(TablePages(Q, l)),
                        TablePages(Q, k)[i] = TablePages(Q, l)[j]
                 PROVE  start[k] + i * PageTokens = start[l] + j * PageTokens
    BY DEF Aligned
  <1>2. CASE k = l
    <2>1. i = j
      BY <1>1, <1>2 DEF PoolInv, Distinct
    <2>2. QED
      BY <1>2, <2>1
  <1>3. CASE k # l
    <2>1. i <= Len(TablePages(P, k)) /\ j <= Len(TablePages(P, l))
      BY <1>1, <1>3 DEF Longer
    <2>2. Len(TablePages(P, k)) \in Nat /\ Len(TablePages(P, l)) \in Nat
      BY TableIs DEF PoolInv
    <2>3. i \in 1 .. Len(TablePages(P, k)) /\ j \in 1 .. Len(TablePages(P, l))
      BY <2>1, <2>2
    <2>4. TablePages(Q, k)[i] = TablePages(P, k)[i] /\ TablePages(Q, l)[j] = TablePages(P, l)[j]
      BY <2>3 DEF Longer
    <2>5. TablePages(P, k)[i] = TablePages(P, l)[j]
      BY <1>1, <2>4
    <2>6. QED
      BY <2>3, <2>5 DEF Aligned
  <1>4. QED
    BY <1>2, <1>3

\* Each table starts off[k] pages later than it did.
StartsLater(Q, start, moved, off) ==
    \A k \in Keys : Len(TablePages(Q, k)) > 0 =>
        start[k] \in Int /\ moved[k] = start[k] + off[k] * PageTokens

\* Tables that lose their first pages, and start as much later, stay aligned.
LEMMA AlignedShifted ==
    ASSUME NEW P, NEW Q, NEW off \in [Keys -> Nat], Shifted(P, Q, off),
           NEW start, Aligned(P, start), NEW moved, StartsLater(Q, start, moved, off)
    PROVE  Aligned(Q, moved)
  <1>1. SUFFICES ASSUME NEW k \in Keys, NEW l \in Keys,
                        NEW i \in 1 .. Len(TablePages(Q, k)),
                        NEW j \in 1 .. Len(TablePages(Q, l)),
                        TablePages(Q, k)[i] = TablePages(Q, l)[j]
                 PROVE  moved[k] + i * PageTokens = moved[l] + j * PageTokens
    BY DEF Aligned
  <1> DEFINE i0 == i + off[k]
             j0 == j + off[l]
  <1>2. /\ i0 \in 1 .. Len(TablePages(P, k)) /\ j0 \in 1 .. Len(TablePages(P, l))
        /\ TablePages(P, k)[i0] = TablePages(P, l)[j0]
    BY <1>1 DEF Shifted
  <1>3. start[k] + i0 * PageTokens = start[l] + j0 * PageTokens
    <2> HIDE DEF i0, j0
    <2>1. QED
      BY <1>2 DEF Aligned
  <1>4. /\ moved[k] = start[k] + off[k] * PageTokens /\ start[k] \in Int
        /\ moved[l] = start[l] + off[l] * PageTokens /\ start[l] \in Int
    BY DEF StartsLater
  <1>5. /\ i0 * PageTokens = i * PageTokens + off[k] * PageTokens
        /\ j0 * PageTokens = j * PageTokens + off[l] * PageTokens
        /\ i * PageTokens \in Int /\ j * PageTokens \in Int
        /\ off[k] * PageTokens \in Int /\ off[l] * PageTokens \in Int
    <2>1. i \in Int /\ j \in Int /\ off[k] \in Int /\ off[l] \in Int
      OBVIOUS
    <2> DEFINE a == off[k]
               b == off[l]
    <2>2. a \in Int /\ b \in Int
      BY <2>1
    <2> HIDE DEF a, b
    <2>3. /\ (i + a) * PageTokens = i * PageTokens + a * PageTokens
          /\ (j + b) * PageTokens = j * PageTokens + b * PageTokens
      BY <2>1, <2>2, Times
    <2>4. /\ i * PageTokens \in Int /\ j * PageTokens \in Int
          /\ a * PageTokens \in Int /\ b * PageTokens \in Int
      BY <2>1, <2>2, Times
    <2>5. QED
      BY <2>3, <2>4 DEF a, b
  <1> HIDE DEF i0, j0
  <1>6. QED
    BY SMTT(30), <1>3, <1>4, <1>5

\* Sums and differences of whole pages are whole.
LEMMA WholeSum ==
    ASSUME NEW a \in Int, NEW b \in Int, a % PageTokens = 0, b % PageTokens = 0
    PROVE  (a + b) % PageTokens = 0 /\ (a - b) % PageTokens = 0
  <1> DEFINE m == a \div PageTokens
             j == b \div PageTokens
  <1>1. m \in Int /\ j \in Int
    BY DivFloor
  <1>2. a = m * PageTokens /\ b = j * PageTokens
    BY WholePages
  <1> HIDE DEF m, j
  <1>3. a + b = (m + j) * PageTokens /\ a - b = (m - j) * PageTokens
    BY <1>1, <1>2, Times
  <1>4. m + j \in Int /\ m - j \in Int
    BY <1>1
  <1>5. ((m + j) * PageTokens) % PageTokens = 0 /\ ((m - j) * PageTokens) % PageTokens = 0
    BY <1>4, Times
  <1>6. QED
    BY <1>3, <1>5

-----------------------------------------------------------------------------
(* The pool operations keep a pool fine *)

\* Freeing keys keeps a pool fine.
LEMMA FineFree ==
    ASSUME NEW n \in Nat, NEW P, NEW base, NEW start, PoolFine(P, n, base, start),
           NEW V, NEW Q, Q = FreeKeys(P, V), NEW base2, NEW start2,
           \A k \in Keys : IF k \in V THEN base2[k] = 0 /\ start2[k] = 0
                           ELSE base2[k] = base[k] /\ start2[k] = start[k]
    PROVE  PoolFine(Q, n, base2, start2)
  <1>1. PoolInv(P, n) /\ Aligned(P, start)
    BY DEF PoolFine
  <1>2. /\ PoolInv(Q, n) /\ Q.resident = P.resident \ V
        /\ \A k \in Keys \ V :
              /\ TablePages(Q, k) = TablePages(P, k) /\ Q.tokens[k] = P.tokens[k]
              /\ Q.borrowed[k] = P.borrowed[k]
    BY <1>1, FreeKeysKeeps
  <1>3. ASSUME NEW k \in Keys, k \in V
        PROVE  TablePages(Q, k) = <<>> /\ Q.borrowed[k] = <<>> /\ Q.tokens[k] = 0
    <2>1. Q.owned[k] = <<>> /\ Q.borrowed[k] = <<>> /\ Q.tokens[k] = 0
      BY <1>2, <1>3 DEF PoolInv, PoolOK, NothingLeft
    <2>2. <<>> \o <<>> = <<>>
      OBVIOUS
    <2>3. QED
      BY <2>1, <2>2 DEF TablePages
  <1>4. Aligned(Q, start2)
    <2>1. ASSUME NEW k \in Keys, NEW i \in 1 .. Len(TablePages(Q, k)) PROVE k \notin V
      BY <1>3
    <2>2. \A k \in Keys \ V : TablePages(Q, k) = TablePages(P, k) /\ start2[k] = start[k]
      BY <1>2
    <2>3. QED
      BY <1>1, <2>1, <2>2 DEF Aligned
  <1>5. ASSUME NEW k \in Keys PROVE Placed(Q, base2, start2, k) /\ Fits(Q, k)
    <2>1. CASE k \in V
      <3>1. base2[k] = 0 /\ start2[k] = 0 /\ Len(<<>>) = 0 /\ 0 % PageTokens = 0 /\ 0 * PageTokens = 0
        BY <2>1, PageTokensAssumption
      <3>2. QED
        BY <1>3, <2>1, <3>1 DEF Placed, Fits
    <2>2. CASE k \notin V
      <3>1. Placed(P, base, start, k) /\ Fits(P, k)
        BY DEF PoolFine
      <3>2. QED
        BY <1>2, <2>2, <3>1 DEF Placed, Fits
    <2>3. QED
      BY <2>1, <2>2
  <1>6. QED
    BY <1>2, <1>4, <1>5 DEF PoolFine

\* Only the token counts change.
SameTables(P, Q) ==
    /\ Q.resident = P.resident /\ Q.free = P.free /\ Q.holds = P.holds
    /\ Q.owned = P.owned /\ Q.borrowed = P.borrowed

\* New token counts leave the accounts and tables as they were.
LEMMA Retoken ==
    ASSUME NEW n \in Nat, NEW P, PoolInv(P, n), NEW t \in [Keys -> Nat],
           \A k \in Keys \ P.resident : t[k] = 0,
           NEW Q, Q = [P EXCEPT !.tokens = t]
    PROVE  /\ PoolInv(Q, n) /\ SameTables(P, Q) /\ Q.tokens = t
           /\ \A k \in Keys : TablePages(Q, k) = TablePages(P, k)
  <1>1. P \in Pool(n)
    BY DEF PoolInv
  <1>2. SameTables(P, Q) /\ Q.tokens = t /\ Q \in Pool(n)
    BY <1>1 DEF SameTables, Pool
  <1>3. \A k \in Keys : TablePages(Q, k) = TablePages(P, k) /\ TableSet(Q, k) = TableSet(P, k)
    BY <1>2 DEF SameTables, TablePages, TableSet
  <1>4. HoldsCounted(Q)
    <2>1. P.resident \subseteq Keys
      BY <1>1, Fields
    <2>2. \A p : {k \in Q.resident : p \in TableSet(Q, k)} = {k \in P.resident : p \in TableSet(P, k)}
      BY <1>2, <1>3, <2>1 DEF SameTables
    <2>3. QED
      BY <1>2, <2>2 DEF SameTables, HoldsCounted, PoolInv, PoolOK
  <1>5. FreeUnread(Q) /\ OneWriter(Q) /\ NothingLeft(Q)
    BY <1>2 DEF SameTables, FreeUnread, OneWriter, NothingLeft, PoolInv, PoolOK
  <1>6. QED
    BY <1>2, <1>3, <1>4, <1>5 DEF PoolInv, PoolOK

KeysStay(P, Q) == Q.resident = P.resident

\* A pool with the tables of a shifted one is shifted as far.
LEMMA ShiftedLike ==
    ASSUME NEW P, NEW R, NEW Q, NEW off, Shifted(P, R, off),
           \A k \in Keys : TablePages(Q, k) = TablePages(R, k)
    PROVE  Shifted(P, Q, off)
  <1>1. ASSUME NEW k \in Keys, NEW i \in 1 .. Len(TablePages(Q, k))
        PROVE  /\ i + off[k] \in 1 .. Len(TablePages(P, k))
               /\ TablePages(Q, k)[i] = TablePages(P, k)[i + off[k]]
    <2>1. TablePages(Q, k) = TablePages(R, k)
      OBVIOUS
    <2>2. i \in 1 .. Len(TablePages(R, k))
      BY <2>1
    <2>3. QED
      BY <2>1, <2>2 DEF Shifted
  <1>2. QED
    BY <1>1 DEF Shifted

\* The window of each key moves up by whole pages, never past its base.
LEMMA FineTrim ==
    ASSUME NEW n \in Nat, NEW P, NEW base, NEW start, PoolFine(P, n, base, start),
           NEW cut \in [Keys -> Nat],
           \A k \in Keys : cut[k] % PageTokens = 0 /\ cut[k] <= base[k] - start[k],
           NEW R, R = DropLeading(P, [k \in Keys |-> cut[k] \div PageTokens]),
           NEW Q, Q = [R EXCEPT !.tokens = [k \in Keys |-> @[k] - cut[k]]],
           NEW start2, \A k \in Keys : start2[k] = start[k] + cut[k]
    PROVE  /\ PoolFine(Q, n, base, start2) /\ KeysStay(P, Q)
           /\ \A k \in Keys : Spots(Q, start2, k) \subseteq Spots(P, start, k)
  <1> DEFINE off == [k \in Keys |-> cut[k] \div PageTokens]
  <1>1. PoolInv(P, n) /\ Aligned(P, start) /\ P \in Pool(n)
    BY DEF PoolFine, PoolInv
  <1>2. ASSUME NEW k \in Keys
        PROVE  /\ start[k] \in Nat /\ base[k] \in Nat /\ start[k] <= base[k]
               /\ start[k] % PageTokens = 0 /\ P.tokens[k] = base[k] - start[k]
               /\ Len(P.borrowed[k]) * PageTokens <= P.tokens[k]
               /\ P.tokens[k] <= Len(TablePages(P, k)) * PageTokens
    BY DEF PoolFine, Placed, Fits
  <1>3. ASSUME NEW k \in Keys
        PROVE  /\ off[k] \in Nat /\ off[k] * PageTokens = cut[k]
               /\ off[k] <= Len(TablePages(P, k))
    <2>1. off[k] \in Nat /\ off[k] * PageTokens = cut[k]
      <3>1. cut[k] \in Nat /\ cut[k] % PageTokens = 0
        OBVIOUS
      <3>2. cut[k] \div PageTokens \in Nat /\ (cut[k] \div PageTokens) * PageTokens = cut[k]
        BY SMTT(30), <3>1, PageTokensAssumption
      <3>3. QED
        BY <3>2
    <2>2. Len(TablePages(P, k)) \in Nat
      BY <1>1, TableIs
    <2> HIDE DEF off
    <2>3. off[k] * PageTokens <= Len(TablePages(P, k)) * PageTokens
      <3>1. Len(TablePages(P, k)) * PageTokens \in Int
        BY <2>2, Times
      <3>2. QED
        BY <1>2, <2>1, <3>1
    <2>4. QED
      BY <2>1, <2>2, <2>3, TimesOrder
  <1>4. off \in [Keys -> Nat]
    BY <1>3
  <1>5. R = DropLeading(P, off)
    OBVIOUS
  <1> HIDE DEF off
  <1>6. /\ PoolInv(R, n) /\ R.resident = P.resident /\ R.tokens = P.tokens
        /\ Shifted(P, R, off)
    BY <1>1, <1>3, <1>4, <1>5, DropLeadingKeeps
  <1>7. ASSUME NEW k \in Keys
        PROVE  /\ Len(TablePages(R, k)) = Len(TablePages(P, k)) - off[k]
               /\ Len(R.borrowed[k]) = (IF off[k] <= Len(P.borrowed[k])
                                       THEN Len(P.borrowed[k]) - off[k] ELSE 0)
    <2>1. \A l \in Keys : off[l] <= Len(TablePages(P, l))
      BY <1>3
    <2>2. Shorter(P, R, off)
      BY <1>1, <1>4, <1>5, <2>1, DropLeadingKeeps
    <2>3. QED
      BY <2>2 DEF Shorter
  <1> DEFINE t == [k \in Keys |-> P.tokens[k] - cut[k]]
  <1>8. t \in [Keys -> Nat] /\ \A k \in Keys : t[k] = P.tokens[k] - cut[k]
    <2>1. ASSUME NEW k \in Keys PROVE P.tokens[k] - cut[k] \in Nat
      <3>1. /\ cut[k] <= base[k] - start[k] /\ P.tokens[k] = base[k] - start[k]
            /\ cut[k] \in Nat /\ start[k] \in Nat /\ base[k] \in Nat
        BY <1>2
      <3>2. QED
        BY <3>1
    <2>2. QED
      BY <2>1
  <1>9. Q = [R EXCEPT !.tokens = t]
    BY <1>6 DEF Pool, PoolInv
  <1> HIDE DEF t
  <1>10. \A k \in Keys \ R.resident : t[k] = 0
    <2>1. ASSUME NEW k \in Keys \ P.resident PROVE t[k] = 0
      <3>1. P.tokens[k] = 0
        BY <1>1 DEF PoolInv, PoolOK, NothingLeft
      <3>2. QED
        BY <1>2, <1>8, <3>1
    <2>2. QED
      BY <1>6, <2>1
  <1>11. /\ PoolInv(Q, n) /\ SameTables(R, Q) /\ Q.tokens = t
         /\ \A k \in Keys : TablePages(Q, k) = TablePages(R, k)
    BY <1>6, <1>8, <1>9, <1>10, Retoken
  <1>12. Aligned(Q, start2)
    <2>1. Shifted(P, Q, off)
      BY <1>6, <1>11, ShiftedLike
    <2>2. StartsLater(Q, start, start2, off)
      BY <1>2, <1>3 DEF StartsLater
    <2>3. QED
      BY <1>1, <1>4, <2>1, <2>2, AlignedShifted
  <1>13. ASSUME NEW k \in Keys PROVE Placed(Q, base, start2, k)
    <2>1. start2[k] % PageTokens = 0
      <3>1. start[k] \in Nat /\ start[k] % PageTokens = 0 /\ cut[k] \in Nat /\ cut[k] % PageTokens = 0
        BY <1>2
      <3>2. (start[k] + cut[k]) % PageTokens = 0
        BY <3>1, WholeSum
      <3>3. QED
        BY <3>2
    <2>2. /\ start2[k] \in Nat /\ start2[k] <= base[k]
          /\ Q.tokens[k] = base[k] - start2[k] /\ base[k] \in Nat
      <3>1. /\ start[k] \in Nat /\ base[k] \in Nat /\ cut[k] \in Nat
            /\ cut[k] <= base[k] - start[k] /\ P.tokens[k] = base[k] - start[k]
            /\ start2[k] = start[k] + cut[k]
        BY <1>2
      <3>2. Q.tokens[k] = P.tokens[k] - cut[k]
        BY <1>8, <1>11
      <3>3. QED
        BY <3>1, <3>2
    <2>3. QED
      BY <2>1, <2>2 DEF Placed
  <1>14. ASSUME NEW k \in Keys PROVE Fits(Q, k)
    <2> DEFINE b == Len(P.borrowed[k])
               l == Len(TablePages(P, k))
               d == off[k]
    <2>1. b \in Nat /\ l \in Nat /\ d \in Nat /\ cut[k] = d * PageTokens
      BY <1>1, <1>3, TableIs
    <2>2. Q.tokens[k] = P.tokens[k] - cut[k] /\ P.tokens[k] \in Nat /\ Q.tokens[k] \in Nat
      BY <1>1, <1>8, <1>11, Fields
    <2>3. b * PageTokens <= P.tokens[k] /\ P.tokens[k] <= l * PageTokens
      BY <1>2
    <2>4. /\ Len(TablePages(Q, k)) = l - d
          /\ Len(Q.borrowed[k]) = (IF d <= b THEN b - d ELSE 0)
      BY <1>7, <1>11 DEF SameTables
    <2> HIDE DEF b, l, d
    <2>5. /\ (l - d) * PageTokens = l * PageTokens - d * PageTokens
          /\ (b - d) * PageTokens = b * PageTokens - d * PageTokens
          /\ l * PageTokens \in Int /\ b * PageTokens \in Int /\ d * PageTokens \in Int
          /\ 0 * PageTokens = 0
      BY <2>1, Times, PageTokensAssumption
    <2>6. Q.tokens[k] <= (l - d) * PageTokens
      BY <2>1, <2>2, <2>3, <2>5
    <2>7. CASE d <= b
      BY SMTT(30), <2>1, <2>2, <2>3, <2>4, <2>5, <2>6, <2>7 DEF Fits
    <2>8. CASE ~(d <= b)
      BY <2>2, <2>4, <2>5, <2>6, <2>8 DEF Fits
    <2>9. QED
      BY <2>7, <2>8
  <1>15. ASSUME NEW k \in Keys PROVE Spots(Q, start2, k) \subseteq Spots(P, start, k)
    <2>1. Shifted(P, Q, off)
      BY <1>6, <1>11, ShiftedLike
    <2>2. start[k] \in Int /\ start2[k] = start[k] + off[k] * PageTokens
      BY <1>2, <1>3
    <2> QED BY <1>4, <2>1, <2>2, SpotsShift
  <1>16. QED
    BY <1>6, <1>11, <1>12, <1>13, <1>14, <1>15 DEF PoolFine, SameTables, KeysStay

\* Growing keeps a pool fine: tokens and borrowed pages are as before.
LEMMA FineLonger ==
    ASSUME NEW n \in Nat, NEW P, NEW base, NEW start, PoolFine(P, n, base, start),
           NEW Q, PoolInv(Q, n), Longer(P, Q), Q.borrowed = P.borrowed, Q.tokens = P.tokens
    PROVE  PoolFine(Q, n, base, start)
  <1>1. PoolInv(P, n) /\ Aligned(P, start)
    BY DEF PoolFine
  <1>2. Aligned(Q, start)
    BY <1>1, AlignedLonger
  <1>3. ASSUME NEW k \in Keys PROVE Placed(Q, base, start, k) /\ Fits(Q, k)
    <2>1. Placed(P, base, start, k) /\ Fits(P, k)
      BY DEF PoolFine
    <2>2. Len(TablePages(P, k)) \in Nat /\ Len(TablePages(Q, k)) \in Nat /\ P.tokens[k] \in Nat
      BY <1>1, TableIs, Fields DEF PoolInv
    <2>3. Len(TablePages(P, k)) <= Len(TablePages(Q, k))
      BY DEF Longer
    <2>4. /\ Len(TablePages(P, k)) * PageTokens <= Len(TablePages(Q, k)) * PageTokens
          /\ Len(TablePages(P, k)) * PageTokens \in Int /\ Len(TablePages(Q, k)) * PageTokens \in Int
      BY <2>2, <2>3, TimesOrder, Times
    <2>5. P.tokens[k] <= Len(TablePages(Q, k)) * PageTokens
      <3>1. P.tokens[k] <= Len(TablePages(P, k)) * PageTokens
        BY <2>1 DEF Fits
      <3>2. QED
        BY <2>2, <2>4, <3>1
    <2>6. QED
      BY <2>1, <2>5 DEF Placed, Fits
  <1>4. QED
    BY <1>2, <1>3 DEF PoolFine

\* k's pages cover capacity rows, of which v hold tokens.
GrowTo(P, k, capacity, v) == [Grow(P, k, capacity) EXCEPT !.tokens[k] = v]

\* Growing a key keeps a pool fine.
LEMMA FineGrow ==
    ASSUME NEW n \in Nat, NEW P, NEW base, NEW start, PoolFine(P, n, base, start),
           NEW k \in P.resident, NEW capacity \in Nat,
           GrowthPages(P, k, capacity) <= FreeCount(P),
           NEW v, v = base[k] - start[k],
           NEW Q, Q = GrowTo(P, k, capacity, v)
    PROVE  /\ PoolFine(Q, n, base, start) /\ KeysStay(P, Q)
           /\ Tops(P, Q, start, k, base[k])
  <1> DEFINE R == Grow(P, k, capacity)
  <1>1. PoolInv(P, n) /\ P \in Pool(n) /\ k \in Keys
    BY Fields DEF PoolFine, PoolInv
  <1>2. /\ PoolInv(R, n) /\ Longer(P, R)
        /\ R.resident = P.resident /\ R.borrowed = P.borrowed /\ R.tokens = P.tokens
    BY <1>1, GrowKeeps
  <1>3. Q = [R EXCEPT !.tokens[k] = v]
    BY DEF GrowTo
  <1> HIDE DEF R
  <1>4. PoolFine(R, n, base, start)
    BY <1>2, FineLonger
  <1>5. R.tokens[k] = v /\ R.tokens \in [Keys -> Nat] /\ R \in Pool(n)
    <2>1. Placed(P, base, start, k)
      BY <1>1 DEF PoolFine
    <2>2. QED
      BY <1>1, <1>2, <2>1, Fields DEF Placed, PoolInv
  <1>6. [R.tokens EXCEPT ![k] = v] = R.tokens
    BY <1>1, <1>5
  <1>7. Q = [R EXCEPT !.tokens = R.tokens]
    BY <1>3, <1>5, <1>6 DEF Pool
  <1>8. Q = R
    BY <1>5, <1>7 DEF Pool
  <1>9. Tops(P, R, start, k, base[k])
    BY <1>1, <1>2, SpotsLonger
  <1>10. QED
    BY <1>2, <1>4, <1>8, <1>9 DEF KeysStay

\* Growing keys by a page each keeps a pool fine.
LEMMA FineGrowEach ==
    ASSUME NEW n \in Nat, NEW P, NEW base, NEW start, PoolFine(P, n, base, start),
           NEW V \in SUBSET P.resident, Cardinality(V) <= FreeCount(P),
           NEW Q, Q = GrowEach(P, V)
    PROVE  PoolFine(Q, n, base, start) /\ Q.resident = P.resident
  <1>1. PoolInv(P, n)
    BY DEF PoolFine
  <1>2. /\ PoolInv(Q, n) /\ Longer(P, Q)
        /\ Q.resident = P.resident /\ Q.borrowed = P.borrowed /\ Q.tokens = P.tokens
    BY <1>1, GrowEachKeeps
  <1>3. QED
    BY <1>2, FineLonger

\* Rewinding to the rows a key already holds keeps a pool fine.
LEMMA FineRewind ==
    ASSUME NEW n \in Nat, NEW P, NEW base, NEW start, PoolFine(P, n, base, start),
           NEW k \in P.resident, NEW v, v = base[k] - start[k],
           NEW Q, Q = Rewind(P, k, v)
    PROVE  /\ PoolFine(Q, n, base, start) /\ Q.resident = P.resident /\ OthersKeep(P, Q, k)
           /\ \A l \in Keys : Spots(Q, start, l) \subseteq Spots(P, start, l)
  <1>1. PoolInv(P, n) /\ Aligned(P, start) /\ P \in Pool(n) /\ k \in Keys
    BY Fields DEF PoolFine, PoolInv
  <1> DEFINE b == Len(P.borrowed[k])
             o == Len(P.owned[k])
             m == PagesNeeded(v)
  <1>2. b \in Nat /\ o \in Nat /\ Len(TablePages(P, k)) = b + o
    BY <1>1, TableIs
  <1>3. /\ v \in Nat /\ P.tokens[k] = v /\ b * PageTokens <= v
        /\ v <= (b + o) * PageTokens
    <2>1. Placed(P, base, start, k) /\ Fits(P, k)
      BY <1>1 DEF PoolFine
    <2>2. v \in Nat /\ P.tokens[k] = v
      BY <2>1 DEF Placed
    <2>3. QED
      BY <1>2, <2>1, <2>2 DEF Fits
  <1>4. m \in Nat /\ v <= m * PageTokens /\ m * PageTokens < v + PageTokens
    BY <1>3, PagesNeededBounds
  <1> HIDE DEF b, o, m
  <1>5. m - b \in 0 .. o
    <2>1. /\ b * PageTokens \in Int /\ m * PageTokens \in Int /\ (b + o) * PageTokens \in Int
          /\ (m - 1) * PageTokens = m * PageTokens - 1 * PageTokens
          /\ 1 * PageTokens = PageTokens /\ PageTokens \in Nat
      BY <1>2, <1>4, Times, PageTokensAssumption
    <2>2. b * PageTokens <= m * PageTokens
      BY <1>3, <1>4, <2>1
    <2>3. b <= m
      BY <1>2, <1>4, <2>2, TimesOrder
    <2>4. (m - 1) * PageTokens < (b + o) * PageTokens
      BY <1>3, <1>4, <2>1
    <2>5. m - 1 \in Int /\ b + o \in Int
      BY <1>2, <1>4
    <2>6. m - 1 < b + o
      BY <2>4, <2>5, TimesOrder
    <2>7. QED
      BY <1>2, <1>4, <2>3, <2>6
  <1>6. PoolInv(Q, n) /\ Rewound(P, Q, k, v)
    <2>1. EndsInOwned(P, k, v)
      BY <1>5 DEF b, o, m, EndsInOwned
    <2>2. QED
      BY <1>1, <1>3, <2>1, RewindKeeps
  <1>7. /\ PoolInv(Q, n) /\ Q.resident = P.resident /\ Q.borrowed = P.borrowed
        /\ Q.tokens = [P.tokens EXCEPT ![k] = v]
        /\ Len(TablePages(Q, k)) = PagesNeeded(v)
    BY <1>6 DEF Rewound
  <1>8. /\ \A l \in Keys : Begins(TablePages(Q, l), TablePages(P, l))
        /\ \A l \in Keys \ {k} : TablePages(Q, l) = TablePages(P, l)
    BY <1>6 DEF Rewound, OthersKeep
  <1>9. Q.tokens = P.tokens
    BY <1>1, <1>3, <1>7, Fields
  <1>10. Aligned(Q, start)
    <2>1. ASSUME NEW l \in Keys, NEW i \in 1 .. Len(TablePages(Q, l))
          PROVE  i \in 1 .. Len(TablePages(P, l)) /\ TablePages(Q, l)[i] = TablePages(P, l)[i]
      <3>1. Len(TablePages(Q, l)) \in Nat /\ Len(TablePages(P, l)) \in Nat
        BY <1>1, <1>7, TableIs DEF PoolInv
      <3>2. QED
        BY <1>8, <3>1 DEF Begins
    <2>2. QED
      BY <1>1, <2>1 DEF Aligned
  <1>11. ASSUME NEW l \in Keys PROVE Placed(Q, base, start, l) /\ Fits(Q, l)
    <2>1. Placed(P, base, start, l) /\ Fits(P, l)
      BY DEF PoolFine
    <2>2. Placed(Q, base, start, l)
      BY <1>9, <2>1 DEF Placed
    <2>3. CASE l = k
      <3>1. Len(TablePages(Q, k)) = m
        BY <1>7 DEF m
      <3>2. QED
        BY <1>3, <1>4, <1>7, <1>9, <2>2, <2>3, <3>1 DEF Fits, b
    <2>4. CASE l # k
      BY <1>7, <1>8, <1>9, <2>1, <2>2, <2>4 DEF Fits
    <2>5. QED
      BY <2>3, <2>4
  <1>12. OthersKeep(P, Q, k)
    BY <1>6 DEF Rewound
  <1>13. ASSUME NEW l \in Keys PROVE Spots(Q, start, l) \subseteq Spots(P, start, l)
    <2>1. Len(TablePages(Q, l)) \in Nat /\ Len(TablePages(P, l)) \in Nat
      BY <1>1, <1>7, TableIs DEF PoolInv
    <2> QED BY <1>8, <2>1, SpotsBegin
  <1>14. QED
    BY <1>7, <1>10, <1>11, <1>12, <1>13 DEF PoolFine

\* lent is a stretch of the parent's table, d pages in.
Lends(P, lent, parent, d) ==
    \A i \in 1 .. Len(lent) :
        i + d \in 1 .. Len(TablePages(P, parent)) /\ lent[i] = TablePages(P, parent)[i + d]

\* What the parent lends for its rows [from, shared).
LEMMA SharedPagesIs ==
    ASSUME NEW n \in Nat, NEW P, NEW base, NEW start, PoolFine(P, n, base, start),
           NEW parent \in Keys, NEW shared \in Nat, NEW from \in Nat,
           start[parent] <= from, from <= shared, shared <= base[parent],
           from % PageTokens = 0, shared % PageTokens = 0,
           NEW lent,
           lent = SharedPages(P, parent, shared - start[parent], from - start[parent])
    PROVE  \E d \in Nat :
               /\ lent \in Seq(Pages(n)) /\ Lends(P, lent, parent, d)
               /\ from = start[parent] + d * PageTokens
               /\ Len(lent) * PageTokens = shared - from
               /\ Len(lent) = (shared - from) \div PageTokens
  <1> DEFINE st == start[parent]
             t == TablePages(P, parent)
             d == (from - st) \div PageTokens
             e == (shared - st) \div PageTokens
  <1>1. P \in Pool(n)
    BY DEF PoolFine, PoolInv
  <1>2. /\ st \in Nat /\ st % PageTokens = 0 /\ base[parent] \in Nat
        /\ P.tokens[parent] = base[parent] - st /\ P.tokens[parent] <= Len(t) * PageTokens
    BY DEF PoolFine, Placed, Fits
  <1>3. t \in Seq(Pages(n)) /\ Len(t) \in Nat
    BY <1>1, TableIs, LenProperties
  <1> HIDE DEF st, t
  <1>4. /\ from - st \in Nat /\ shared - st \in Nat
        /\ (from - st) % PageTokens = 0 /\ (shared - st) % PageTokens = 0
    <2>1. from - st \in Nat /\ shared - st \in Nat
      BY <1>2 DEF st
    <2>2. QED
      BY <1>2, <2>1, WholeSum
  <1>5. /\ d \in Nat /\ d * PageTokens = from - st
        /\ e \in Nat /\ e * PageTokens = shared - st
    BY <1>4, DivFloor, WholePages
  <1>6. lent = SubSeq(t, d + 1, e)
    BY DEF SharedPages, st, t
  <1> HIDE DEF d, e
  <1>7. d <= e
    <2>1. d * PageTokens <= e * PageTokens
      BY <1>2, <1>5
    <2>2. QED
      BY <1>5, <2>1, TimesOrder
  <1>8. e <= Len(t)
    <2>1. Len(t) * PageTokens \in Int
      BY <1>3, Times
    <2>2. e * PageTokens <= Len(t) * PageTokens
      BY <1>2, <1>5, <2>1 DEF st
    <2>3. QED
      BY <1>3, <1>5, <2>2, TimesOrder
  <1>9. /\ lent \in Seq(Pages(n))
        /\ \A i \in 1 .. Len(lent) : lent[i] = t[i + d]
    <2>1. lent \in Seq(Pages(n)) /\ Cuts(lent, t, d, e)
      BY <1>3, <1>5, <1>6, <1>8, CutIs
    <2>2. QED
      BY <2>1 DEF Cuts
  <1>10. Len(lent) = e - d
    <2>1. Cuts(lent, t, d, e)
      BY <1>3, <1>5, <1>6, <1>8, CutIs
    <2>2. QED
      BY <1>7, <2>1 DEF Cuts
  <1>11. Lends(P, lent, parent, d)
    <2>1. \A i \in 1 .. Len(lent) : i + d \in 1 .. Len(t)
      BY <1>3, <1>5, <1>7, <1>8, <1>10
    <2>2. QED
      BY <1>9, <2>1 DEF Lends, t
  <1>12. (e - d) * PageTokens = shared - from
    <2>1. (e - d) * PageTokens = e * PageTokens - d * PageTokens
      BY <1>5, Times
    <2>2. QED
      BY <1>2, <1>5, <2>1
  <1>13. (shared - from) \div PageTokens = e - d
    <2>1. e - d \in Int
      BY <1>5
    <2>2. ((e - d) * PageTokens) \div PageTokens = e - d
      BY <2>1, Times
    <2>3. QED
      BY <1>12, <2>2
  <1>14. from = start[parent] + d * PageTokens
    BY <1>2, <1>5 DEF st
  <1>15. QED
    BY <1>5, <1>9, <1>10, <1>11, <1>12, <1>13, <1>14

Joins(P, Q, k) == Q.resident = P.resident \cup {k}

\* What a fresh key takes from a pool.
FreshTable(P, n, start, k, tokens, capacity, from, lent, parent, d) ==
    /\ k \in Keys /\ k \notin P.resident /\ tokens \in Nat /\ capacity \in Nat
    /\ tokens <= capacity /\ from \in Nat /\ from % PageTokens = 0
    /\ lent \in Seq(Pages(n)) /\ Len(lent) * PageTokens <= tokens
    /\ parent \in Keys /\ d \in Nat /\ Lends(P, lent, parent, d)
    /\ Len(lent) > 0 => from = start[parent] + d * PageTokens
    /\ PagesNeeded(capacity) - Len(lent) \in 0 .. FreeCount(P)

\* k's rows begin at from; the other keys' are as before.
AddsRows(base, start, base2, start2, k, tokens, from) ==
    /\ base2[k] = tokens + from /\ start2[k] = from
    /\ \A l \in Keys \ {k} : base2[l] = base[l] /\ start2[l] = start[l]

\* A fresh key's table, lent pages first, then free ones.
LaidOn(P, Q, k, lent) ==
    /\ \A i \in 1 .. Len(TablePages(Q, k)) :
          IF i <= Len(lent) THEN TablePages(Q, k)[i] = lent[i]
          ELSE TablePages(Q, k)[i] \in P.free
    /\ OthersKeep(P, Q, k)

\* The lent pages are the parent's, for the same rows; the others nobody reads.
LEMMA SpotsLaid ==
    ASSUME NEW n \in Nat, NEW P, PoolInv(P, n), NEW Q, PoolInv(Q, n),
           NEW k \in Keys, k \notin P.resident, NEW parent \in Keys, NEW d \in Nat,
           NEW lent \in Seq(Pages(n)), Lends(P, lent, parent, d), LaidOn(P, Q, k, lent),
           NEW start, start[parent] \in Nat, NEW from \in Nat,
           Len(lent) > 0 => from = start[parent] + d * PageTokens,
           NEW start2, start2[k] = from, \A l \in Keys \ {k} : start2[l] = start[l]
    PROVE  Lays(Q, start2, parent, from + Len(lent) * PageTokens, k)
  <1>1. Len(lent) \in Nat
    BY LenProperties
  <1> DEFINE L == Len(lent)
             r == L * PageTokens
  <1>2. L \in Nat /\ r \in Int
    BY <1>1, Times
  <1>3. SUFFICES ASSUME NEW i \in 1 .. Len(TablePages(Q, k)),
                        NEW x, x = <<TablePages(Q, k)[i], start2[k] + i * PageTokens>>
                 PROVE  \/ x \in Spots(Q, start2, parent) /\ x[2] <= from + r
                        \/ x[2] > from + r /\ Alone(Q, k, x[1])
    BY DEF Lays, Spots
  <1>4. /\ i * PageTokens \in Int /\ x[1] = TablePages(Q, k)[i] /\ x[2] = from + i * PageTokens
        /\ i <= L <=> i * PageTokens <= r
    <2>1. x[1] = TablePages(Q, k)[i] /\ x[2] = from + i * PageTokens
      BY <1>3
    <2>2. i \in Int /\ L \in Int
      BY <1>2
    <2> HIDE DEF L
    <2>3. i * PageTokens \in Int /\ (i <= L <=> i * PageTokens <= L * PageTokens)
      BY <2>2, Times, TimesOrder
    <2> QED BY <2>1, <2>3
  <1>5. CASE i <= L
    <2> DEFINE j == i + d
    <2>1. /\ i \in 1 .. L /\ j \in 1 .. Len(TablePages(P, parent)) /\ L > 0
          /\ TablePages(Q, k)[i] = TablePages(P, parent)[j]
      BY <1>2, <1>5 DEF LaidOn, Lends
    <2>2. parent # k
      <3>1. SUFFICES ASSUME parent = k PROVE FALSE
        OBVIOUS
      <3>2. P.owned[k] = <<>> /\ P.borrowed[k] = <<>>
        BY DEF PoolInv, PoolOK, NothingLeft
      <3>3. TablePages(P, parent) = <<>> \o <<>>
        BY <3>1, <3>2 DEF TablePages
      <3>4. Len(TablePages(P, parent)) = 0
        BY <3>3
      <3> QED BY <2>1, <3>4
    <2>3. TablePages(Q, parent) = TablePages(P, parent) /\ start2[parent] = start[parent]
      BY <2>2 DEF LaidOn, OthersKeep
    <2>4. x[2] = start2[parent] + j * PageTokens
      <3>1. /\ j * PageTokens = i * PageTokens + d * PageTokens /\ d * PageTokens \in Int
            /\ from = start[parent] + d * PageTokens
        BY <2>1, Times
      <3> DEFINE a == i * PageTokens
                 b == d * PageTokens
                 c == j * PageTokens
      <3>2. /\ c = a + b /\ a \in Int /\ b \in Int /\ from = start[parent] + b
            /\ x[2] = from + a
        BY <1>4, <3>1
      <3> HIDE DEF a, b, c, j
      <3>3. x[2] = start[parent] + c
        BY <3>2
      <3> QED BY <2>3, <3>3 DEF c
    <2> HIDE DEF j, r, L
    <2>5. x \in Spots(Q, start2, parent)
      <3>1. x = <<x[1], x[2]>>
        BY <1>3
      <3> QED BY <1>4, <2>1, <2>3, <2>4, <3>1 DEF Spots
    <2>6. x[2] <= from + r
      BY <1>2, <1>4, <1>5
    <2> QED BY <2>5, <2>6
  <1>6. CASE ~(i <= L)
    <2>1. x[1] \in P.free
      BY <1>4, <1>6 DEF LaidOn
    <2>2. Alone(Q, k, x[1])
      <3>1. \A l \in Keys \ {k} : TableSet(Q, l) = TableSet(P, l)
        BY DEF LaidOn, OthersKeep, TableSet
      <3> QED BY <2>1, <3>1, FreeIsUnread DEF Alone
    <2> HIDE DEF r, L
    <2>3. x[2] > from + r
      BY <1>2, <1>4, <1>6
    <2> QED BY <2>2, <2>3
  <1> QED BY <1>5, <1>6

\* A fresh key, with the lent pages first, keeps a pool fine.
LEMMA FineAlloc ==
    ASSUME NEW n \in Nat, NEW P, NEW base, NEW start, PoolFine(P, n, base, start),
           NEW k, NEW tokens, NEW capacity, NEW from, NEW lent, NEW parent, NEW d,
           FreshTable(P, n, start, k, tokens, capacity, from, lent, parent, d),
           NEW base2, NEW start2, AddsRows(base, start, base2, start2, k, tokens, from),
           NEW Q, Q = Alloc(P, k, tokens, capacity, lent)
    PROVE  /\ PoolFine(Q, n, base2, start2) /\ Joins(P, Q, k) /\ OthersKeep(P, Q, k)
           /\ Lays(Q, start2, parent, from + Len(lent) * PageTokens, k)
  <1> SUFFICES ASSUME k \in Keys, k \notin P.resident, tokens \in Nat, capacity \in Nat,
                      tokens <= capacity, from \in Nat, from % PageTokens = 0,
                      lent \in Seq(Pages(n)), Len(lent) * PageTokens <= tokens,
                      parent \in Keys, d \in Nat, Lends(P, lent, parent, d),
                      Len(lent) > 0 => from = start[parent] + d * PageTokens,
                      PagesNeeded(capacity) - Len(lent) \in 0 .. FreeCount(P),
                      base2[k] = tokens + from, start2[k] = from,
                      \A l \in Keys \ {k} : base2[l] = base[l] /\ start2[l] = start[l]
               PROVE  /\ PoolFine(Q, n, base2, start2) /\ Joins(P, Q, k) /\ OthersKeep(P, Q, k)
                      /\ Lays(Q, start2, parent, from + Len(lent) * PageTokens, k)
    BY DEF FreshTable, AddsRows
  <1>1. PoolInv(P, n) /\ Aligned(P, start) /\ P \in Pool(n)
    BY DEF PoolFine, PoolInv
  <1> DEFINE t == TablePages(P, parent)
  <1>2. t \in Seq(Pages(n)) /\ Len(t) \in Nat /\ Distinct(t) /\ Range(t) = TableSet(P, parent)
    BY <1>1, TableIs, LenProperties DEF PoolInv, TableSet
  <1>3. \A i \in 1 .. Len(lent) : i + d \in 1 .. Len(t) /\ lent[i] = t[i + d]
    BY DEF Lends
  <1> HIDE DEF t
  <1>4. Distinct(lent)
    <2>1. ASSUME NEW i \in 1 .. Len(lent), NEW j \in 1 .. Len(lent), lent[i] = lent[j]
          PROVE  i = j
      <3>1. i + d \in 1 .. Len(t) /\ j + d \in 1 .. Len(t) /\ t[i + d] = t[j + d]
        BY <1>3, <2>1
      <3>2. i + d = j + d
        BY <1>2, <3>1 DEF Distinct
      <3>3. QED
        BY <3>2
    <2>2. QED
      BY <2>1 DEF Distinct
  <1>5. Range(lent) \cap P.free = {}
    <2>1. ASSUME NEW p \in Range(lent) PROVE p \notin P.free
      <3>1. PICK i \in 1 .. Len(lent) : p = lent[i]
        BY InRange
      <3>2. p \in TableSet(P, parent)
        <4>1. i + d \in 1 .. Len(t) /\ p = t[i + d]
          BY <1>3, <3>1
        <4>2. \A j \in 1 .. Len(t) : t[j] \in Range(t)
          BY <1>2, InRange
        <4>3. QED
          BY <1>2, <4>1, <4>2
      <3>3. QED
        BY <1>1, <3>2, FreeIsUnread
    <2>2. QED
      BY <2>1
  <1>6. /\ PoolInv(Q, n) /\ Q.resident = P.resident \cup {k}
        /\ Q.tokens[k] = tokens /\ Q.borrowed[k] = lent
        /\ Len(TablePages(Q, k)) = PagesNeeded(capacity)
    BY <1>1, <1>4, <1>5, AllocKeeps
  <1>7. \A i \in 1 .. Len(TablePages(Q, k)) :
                 IF i <= Len(lent) THEN TablePages(Q, k)[i] = lent[i]
                 ELSE TablePages(Q, k)[i] \in P.free
    BY <1>1, <1>4, <1>5, AllocKeeps
  <1>8. \A l \in Keys \ {k} :
                 /\ TablePages(Q, l) = TablePages(P, l) /\ Q.tokens[l] = P.tokens[l]
                 /\ Q.borrowed[l] = P.borrowed[l]
    BY <1>1, <1>4, <1>5, AllocKeeps
  <1>9. ASSUME NEW l \in Keys, l # k,
               NEW i \in 1 .. Len(TablePages(Q, k)), NEW j \in 1 .. Len(TablePages(P, l)),
               TablePages(Q, k)[i] = TablePages(P, l)[j]
        PROVE  from + i * PageTokens = start[l] + j * PageTokens
    <2>1. TablePages(P, l)[j] \notin P.free
      <3>1. TablePages(P, l)[j] \in TableSet(P, l)
        BY <1>1, TableIs, InRange DEF TableSet
      <3>2. QED
        BY <1>1, <3>1, FreeIsUnread
    <2>2. i <= Len(lent)
      BY <1>7, <1>9, <2>1
    <2>3. i \in 1 .. Len(lent) /\ TablePages(Q, k)[i] = lent[i] /\ Len(lent) > 0
      <3>1. Len(lent) \in Nat
        BY LenProperties
      <3>2. QED
        BY <1>7, <2>2, <3>1
    <2> DEFINE i0 == i + d
    <2>4. i0 \in 1 .. Len(t) /\ lent[i] = t[i0]
      BY <1>3, <2>3
    <2> HIDE DEF i0
    <2>5. start[parent] + i0 * PageTokens = start[l] + j * PageTokens
      <3>1. /\ i0 \in 1 .. Len(TablePages(P, parent))
            /\ TablePages(P, parent)[i0] = TablePages(P, l)[j]
        BY <1>9, <2>3, <2>4 DEF t
      <3>2. QED
        BY <1>1, <3>1 DEF Aligned
    <2>6. i0 * PageTokens = i * PageTokens + d * PageTokens
      BY Times DEF i0
    <2>7. /\ i * PageTokens \in Int /\ d * PageTokens \in Int /\ start[parent] \in Nat
          /\ start[l] \in Nat /\ j * PageTokens \in Int
      BY Times DEF PoolFine, Placed
    <2>8. from = start[parent] + d * PageTokens
      BY <2>3
    <2> DEFINE x == d * PageTokens
               y == i * PageTokens
               z == j * PageTokens
    <2>9. /\ from = start[parent] + x /\ start[parent] + (y + x) = start[l] + z
          /\ x \in Int /\ y \in Int /\ z \in Int /\ start[parent] \in Nat /\ start[l] \in Nat
      BY <2>5, <2>6, <2>7, <2>8
    <2>10. from + y = start[l] + z
      <3> HIDE DEF x, y, z
      <3>1. QED
        BY SMTT(30), <2>9
    <2>11. QED
      BY <2>10
  <1>10. Aligned(Q, start2)
    <2>1. ASSUME NEW l \in Keys, NEW m \in Keys,
                 NEW i \in 1 .. Len(TablePages(Q, l)), NEW j \in 1 .. Len(TablePages(Q, m)),
                 TablePages(Q, l)[i] = TablePages(Q, m)[j]
          PROVE  start2[l] + i * PageTokens = start2[m] + j * PageTokens
      <3>1. CASE l = m
        <4>1. i = j
          BY <1>6, <2>1, <3>1 DEF PoolInv, Distinct
        <4>2. QED
          BY <3>1, <4>1
      <3>2. CASE l = k /\ m # k
        BY <1>8, <1>9, <2>1, <3>2
      <3>3. CASE l # k /\ m = k
        <4>1. TablePages(Q, l) = TablePages(P, l)
          BY <1>8, <3>3
        <4>2. from + j * PageTokens = start[l] + i * PageTokens
          BY <1>9, <2>1, <3>3, <4>1
        <4>3. QED
          BY <3>3, <4>2
      <3>4. CASE l # k /\ m # k
        <4>1. TablePages(Q, l) = TablePages(P, l) /\ TablePages(Q, m) = TablePages(P, m)
          BY <1>8, <3>4
        <4>2. start[l] + i * PageTokens = start[m] + j * PageTokens
          BY <1>1, <2>1, <4>1 DEF Aligned
        <4>3. QED
          BY <3>4, <4>2
      <3>5. QED
        BY <3>1, <3>2, <3>3, <3>4
    <2>2. QED
      BY <2>1 DEF Aligned
  <1>11. ASSUME NEW l \in Keys PROVE Placed(Q, base2, start2, l) /\ Fits(Q, l)
    <2>1. Placed(P, base, start, l) /\ Fits(P, l)
      BY DEF PoolFine
    <2>2. CASE l = k
      <3>1. tokens <= PagesNeeded(capacity) * PageTokens
        <4>1. capacity <= PagesNeeded(capacity) * PageTokens /\ PagesNeeded(capacity) \in Nat
          BY PagesNeededBounds
        <4>2. PagesNeeded(capacity) * PageTokens \in Int
          BY <4>1, Times
        <4>3. QED
          BY <4>1, <4>2
      <3>2. Fits(Q, k)
        BY <1>6, <3>1 DEF Fits
      <3>3. Placed(Q, base2, start2, k)
        BY <1>6 DEF Placed
      <3>4. QED
        BY <2>2, <3>2, <3>3
    <2>3. CASE l # k
      BY <1>8, <2>1, <2>3 DEF Placed, Fits
    <2>4. QED
      BY <2>2, <2>3
  <1>12. OthersKeep(P, Q, k)
    BY <1>8 DEF OthersKeep
  <1>13. Lays(Q, start2, parent, from + Len(lent) * PageTokens, k)
    <2>1. LaidOn(P, Q, k, lent)
      BY <1>7, <1>12 DEF LaidOn
    <2>2. start[parent] \in Nat
      BY DEF PoolFine, Placed
    <2>3. PoolInv(P, n) /\ PoolInv(Q, n)
      BY <1>6 DEF PoolFine
    <2> HIDE DEF FreshTable, AddsRows
    <2>4. /\ k \in Keys /\ k \notin P.resident /\ from \in Nat /\ lent \in Seq(Pages(n))
          /\ parent \in Keys /\ d \in Nat /\ Lends(P, lent, parent, d)
          /\ Len(lent) > 0 => from = start[parent] + d * PageTokens
      BY DEF FreshTable
    <2>5. start2[k] = from /\ \A l \in Keys \ {k} : start2[l] = start[l]
      BY DEF AddsRows
    <2> QED BY <2>1, <2>2, <2>3, <2>4, <2>5, SpotsLaid
  <1>14. QED
    BY <1>6, <1>10, <1>11, <1>12, <1>13 DEF PoolFine, Joins

-----------------------------------------------------------------------------
(* The arena *)

Zeros == [k \in Keys |-> 0]

SlideFine(A) ==
    IF HasSliding
    THEN PoolFine(A.slide, NumSliding, A.base, A.start)
    ELSE PoolInv(A.slide, NumSliding)

\* A floor is the row of a page's first token.
FloorsWhole(A) == \A k \in Keys : A.floor[k] = NoFloor \/ A.floor[k] % PageTokens = 0

\* A window begins at its key's origin or before.
Anchored(A) == HasSliding => \A k \in Keys : A.start[k] <= Origin(A.base[k])

ArenaInv(A) ==
    /\ A \in Arena
    /\ PoolFine(A.full, NumPages, A.base, Zeros) /\ SlideFine(A) /\ Anchored(A)
    /\ Consistent(A) /\ A.deferred \subseteq Kept(A) /\ FloorsWhole(A)

\* The pages of each pool k reads, with the rows they end before.
FullSpots(A, k) == Spots(A.full, Zeros, k)
SlideSpots(A, k) == Spots(A.slide, A.start, k)

\* In B k reads no more than in A.
Narrower(A, B, k) ==
    /\ FullSpots(B, k) \subseteq FullSpots(A, k)
    /\ HasSliding => SlideSpots(B, k) \subseteq SlideSpots(A, k)

\* From A to B only keys that nothing keeps lose their pages.
Lets(A, B) ==
    \A k \in Keys :
        /\ B.held[k] <= A.held[k] /\ B.reading[k] <= A.reading[k]
        /\ k \in Resident(A) \ Resident(B) => B.held[k] = 0 /\ B.reading[k] = 0

\* The fields of an arena's record.
LEMMA ArenaFields ==
    ASSUME NEW A \in Arena
    PROVE  /\ A.full \in Pool(NumPages) /\ A.slide \in Pool(NumSliding)
           /\ A.base \in [Keys -> Nat] /\ A.start \in [Keys -> Nat]
           /\ A.held \in [Keys -> Nat] /\ A.reading \in [Keys -> Nat]
           /\ A.deferred \in SUBSET Keys /\ A.floor \in [Keys -> Nat \cup {NoFloor}]
           /\ A.trimmed \in SUBSET Keys /\ A.pinned \in SUBSET Keys
           /\ A.retained \in SUBSET Keys /\ A.size \in [Keys -> Nat]
  BY DEF Arena

\* The sizes are numbers.
LEMMA PoolNats == NumPages \in Nat /\ NumSliding \in Nat /\ Window \in Nat
  BY PoolAssumption

\* B is a record of an arena's fields.
Shape(B) ==
    B = [full |-> B.full, slide |-> B.slide, base |-> B.base, start |-> B.start,
         held |-> B.held, reading |-> B.reading, deferred |-> B.deferred,
         floor |-> B.floor, trimmed |-> B.trimmed, pinned |-> B.pinned,
         retained |-> B.retained, size |-> B.size]

Typed(B) ==
    /\ B.full \in Pool(NumPages) /\ B.slide \in Pool(NumSliding)
    /\ B.base \in [Keys -> Nat] /\ B.start \in [Keys -> Nat]
    /\ B.held \in [Keys -> Nat] /\ B.reading \in [Keys -> Nat]
    /\ B.deferred \in SUBSET Keys /\ B.floor \in [Keys -> Nat \cup {NoFloor}]
    /\ B.trimmed \in SUBSET Keys /\ B.pinned \in SUBSET Keys
    /\ B.retained \in SUBSET Keys /\ B.size \in [Keys -> Nat]

\* A record with typed fields is an arena.
LEMMA ArenaIs ==
    ASSUME NEW B, Shape(B), Typed(B)
    PROVE  B \in Arena
  BY DEF Shape, Typed, Arena

\* B has nothing left of the keys of now, and all of the others.
FreedFields(A, B, now, putOff) ==
    /\ B.full = FreeKeys(A.full, now)
    /\ B.slide = (IF HasSliding THEN FreeKeys(A.slide, now) ELSE A.slide)
    /\ B.held = A.held /\ B.reading = A.reading
    /\ B.deferred = A.deferred \cup putOff
    /\ B.base = [k \in Keys |-> IF k \in now THEN 0 ELSE A.base[k]]
    /\ B.start = [k \in Keys |-> IF k \in now THEN 0 ELSE A.start[k]]
    /\ B.floor = [k \in Keys |-> IF k \in now THEN NoFloor ELSE A.floor[k]]
    /\ B.trimmed = A.trimmed \ now /\ B.pinned = A.pinned \ now
    /\ B.retained = A.retained \ now
    /\ B.size = [k \in Keys |-> IF k \in now THEN 0 ELSE A.size[k]]

\* What freeing the keys of V does to each field.
LEMMA FreeAllIs ==
    ASSUME NEW A \in Arena, NEW V, NEW B, B = FreeAll(A, V)
    PROVE  FreedFields(A, B, V \ Kept(A), V \cap Kept(A)) /\ Shape(B)
  <1> DEFINE now == V \ Kept(A)
             putOff == V \cap Kept(A)
  <1>1. B = [A EXCEPT !.full = FreeKeys(@, now),
              !.slide = IF HasSliding THEN FreeKeys(@, now) ELSE @,
              !.deferred = @ \union putOff,
              !.base = [k \in Keys |-> IF k \in now THEN 0 ELSE @[k]],
              !.start = [k \in Keys |-> IF k \in now THEN 0 ELSE @[k]],
              !.floor = [k \in Keys |-> IF k \in now THEN NoFloor ELSE @[k]],
              !.trimmed = @ \ now,
              !.pinned = @ \ now,
              !.retained = @ \ now,
              !.size = [k \in Keys |-> IF k \in now THEN 0 ELSE @[k]]]
    BY DEF FreeAll
  <1> HIDE DEF now, putOff
  <1>2. /\ B.full = FreeKeys(A.full, now)
        /\ B.slide = (IF HasSliding THEN FreeKeys(A.slide, now) ELSE A.slide)
        /\ B.held = A.held /\ B.reading = A.reading
        /\ B.deferred = A.deferred \cup putOff
    BY <1>1 DEF Arena
  <1>3. /\ B.base = [k \in Keys |-> IF k \in now THEN 0 ELSE A.base[k]]
        /\ B.start = [k \in Keys |-> IF k \in now THEN 0 ELSE A.start[k]]
        /\ B.floor = [k \in Keys |-> IF k \in now THEN NoFloor ELSE A.floor[k]]
        /\ B.size = [k \in Keys |-> IF k \in now THEN 0 ELSE A.size[k]]
    BY <1>1 DEF Arena
  <1>4. /\ B.trimmed = A.trimmed \ now /\ B.pinned = A.pinned \ now
        /\ B.retained = A.retained \ now
    BY <1>1 DEF Arena
  <1>5. Shape(B)
    BY <1>1 DEF Arena, Shape
  <1>6. QED
    BY <1>2, <1>3, <1>4, <1>5 DEF FreedFields, now, putOff

\* The window of no tokens begins at no row.
LEMMA OriginZero == Origin(0) = 0 /\ 0 <= Origin(0)
  BY PoolNats DEF Origin

\* A key that nothing keeps has no holds and no readings.
LEMMA KeptIs ==
    ASSUME NEW A \in Arena, NEW k \in Keys
    PROVE  k \notin Kept(A) => A.held[k] = 0 /\ A.reading[k] = 0
  BY ArenaFields DEF Kept

\* Freeing keys, or putting the free off, keeps the arena consistent.
LEMMA FreeAllKeeps ==
    ASSUME NEW A, ArenaInv(A), NEW V \in SUBSET Resident(A), NEW B, B = FreeAll(A, V)
    PROVE  ArenaInv(B) /\ Lets(A, B) /\ Resident(B) = Resident(A) \ (V \ Kept(A))
  <1> DEFINE now == V \ Kept(A)
             putOff == V \cap Kept(A)
  <1>1. A \in Arena /\ Consistent(A) /\ A.deferred \subseteq Kept(A) /\ FloorsWhole(A)
    BY DEF ArenaInv
  <1>2. FreedFields(A, B, now, putOff) /\ Shape(B)
    BY <1>1, FreeAllIs
  <1>3. now \subseteq V /\ putOff \subseteq V /\ now \cap Kept(A) = {} /\ putOff \subseteq Kept(A)
    OBVIOUS
  <1> HIDE DEF now, putOff
  <1>4. V \subseteq Keys
    BY <1>1, ArenaFields, Fields, PoolNats DEF Resident
  <1>5. /\ \A k \in Keys : IF k \in now THEN B.base[k] = 0 ELSE B.base[k] = A.base[k]
        /\ \A k \in Keys : IF k \in now THEN B.start[k] = 0 ELSE B.start[k] = A.start[k]
        /\ \A k \in Keys : IF k \in now THEN B.floor[k] = NoFloor ELSE B.floor[k] = A.floor[k]
    BY <1>2 DEF FreedFields
  <1>6. PoolFine(B.full, NumPages, B.base, Zeros) /\ B.full.resident = A.full.resident \ now
    <2>1. PoolFine(A.full, NumPages, A.base, Zeros) /\ B.full = FreeKeys(A.full, now)
      BY <1>2 DEF ArenaInv, FreedFields
    <2>2. \A k \in Keys : IF k \in now THEN B.base[k] = 0 /\ Zeros[k] = 0
                          ELSE B.base[k] = A.base[k] /\ Zeros[k] = Zeros[k]
      BY <1>5 DEF Zeros
    <2>3. PoolFine(B.full, NumPages, B.base, Zeros)
      BY <2>1, <2>2, FineFree, PoolNats
    <2>4. B.full.resident = A.full.resident \ now
      BY <2>1, FreeKeysKeeps, PoolNats DEF PoolFine
    <2>5. QED
      BY <2>3, <2>4
  <1>7. SlideFine(B) /\ (HasSliding => B.slide.resident = A.slide.resident \ now)
    <2>1. CASE HasSliding
      <3>1. PoolFine(A.slide, NumSliding, A.base, A.start) /\ B.slide = FreeKeys(A.slide, now)
        BY <1>2, <2>1 DEF ArenaInv, SlideFine, FreedFields
      <3>2. \A k \in Keys : IF k \in now THEN B.base[k] = 0 /\ B.start[k] = 0
                            ELSE B.base[k] = A.base[k] /\ B.start[k] = A.start[k]
        BY <1>5
      <3>3. PoolFine(B.slide, NumSliding, B.base, B.start)
        BY <3>1, <3>2, FineFree, PoolNats
      <3>4. B.slide.resident = A.slide.resident \ now
        BY <3>1, FreeKeysKeeps, PoolNats DEF PoolFine
      <3>5. QED
        BY <2>1, <3>3, <3>4 DEF SlideFine
    <2>2. CASE ~HasSliding
      BY <1>2, <2>2 DEF ArenaInv, SlideFine, FreedFields
    <2>3. QED
      BY <2>1, <2>2
  <1>8. Typed(B)
    <2>1. B.full \in Pool(NumPages) /\ B.slide \in Pool(NumSliding)
      BY <1>6, <1>7 DEF PoolFine, SlideFine, PoolInv
    <2>2. /\ B.base \in [Keys -> Nat] /\ B.start \in [Keys -> Nat] /\ B.size \in [Keys -> Nat]
          /\ B.floor \in [Keys -> Nat \cup {NoFloor}]
      BY <1>1, <1>2, ArenaFields DEF FreedFields
    <2>3. /\ B.held \in [Keys -> Nat] /\ B.reading \in [Keys -> Nat]
          /\ B.trimmed \in SUBSET Keys /\ B.pinned \in SUBSET Keys
          /\ B.retained \in SUBSET Keys /\ B.deferred \in SUBSET Keys
      BY <1>1, <1>2, <1>3, <1>4, ArenaFields DEF FreedFields
    <2>4. QED
      BY <2>1, <2>2, <2>3 DEF Typed
  <1>9. B \in Arena
    BY <1>2, <1>8, ArenaIs
  <1>10. B.deferred \subseteq Kept(B) /\ Kept(B) = Kept(A)
    <2>1. Kept(B) = Kept(A)
      BY <1>2 DEF FreedFields, Kept
    <2>2. QED
      BY <1>1, <1>2, <1>3, <2>1 DEF FreedFields
  <1>11. Consistent(B)
    <2>1. /\ B.pinned = A.pinned \ now /\ B.retained = A.retained \ now
          /\ B.deferred = A.deferred \cup putOff
      BY <1>2 DEF FreedFields
    <2>2. A.deferred \cap now = {}
      BY <1>1, <1>3
    <2>3. /\ A.pinned \cup A.retained \cup A.deferred \subseteq A.full.resident
          /\ A.pinned \cap A.retained = {}
          /\ HasSliding => A.slide.resident = A.full.resident
      BY <1>1 DEF Consistent, Resident
    <2>4. putOff \subseteq A.full.resident /\ putOff \cap now = {}
      BY <1>3 DEF Resident
    <2>5. B.full.resident = A.full.resident \ now
      BY <1>6
    <2>6. B.pinned \cup B.retained \cup B.deferred \subseteq B.full.resident
      <3>1. B.pinned \subseteq B.full.resident /\ B.retained \subseteq B.full.resident
        BY <2>1, <2>3, <2>5
      <3>2. B.deferred \subseteq B.full.resident
        BY <2>1, <2>2, <2>3, <2>4, <2>5
      <3>3. QED
        BY <3>1, <3>2
    <2>7. B.pinned \cap B.retained = {}
      BY <2>1, <2>3
    <2>8. HasSliding => B.slide.resident = B.full.resident
      BY <1>7, <2>3, <2>5
    <2>9. QED
      BY <2>6, <2>7, <2>8 DEF Consistent, Resident
  <1>12. FloorsWhole(B) /\ Anchored(B)
    <2>1. FloorsWhole(B)
      BY <1>1, <1>5 DEF FloorsWhole
    <2>2. Anchored(B)
      BY <1>5, OriginZero DEF Anchored, ArenaInv
    <2> QED BY <2>1, <2>2
  <1>13. ArenaInv(B)
    BY <1>6, <1>7, <1>9, <1>10, <1>11, <1>12 DEF ArenaInv
  <1>14. Resident(B) = Resident(A) \ (V \ Kept(A))
    BY <1>6 DEF Resident, now
  <1>15. Lets(A, B)
    <2>1. ASSUME NEW k \in Keys
          PROVE  /\ B.held[k] <= A.held[k] /\ B.reading[k] <= A.reading[k]
                 /\ k \in Resident(A) \ Resident(B) => B.held[k] = 0 /\ B.reading[k] = 0
      <3>1. B.held = A.held /\ B.reading = A.reading /\ A.held[k] \in Nat /\ A.reading[k] \in Nat
        BY <1>1, <1>2, ArenaFields DEF FreedFields
      <3>2. k \in Resident(A) \ Resident(B) => k \notin Kept(A)
        BY <1>14
      <3>3. QED
        BY <1>1, <3>1, <3>2, KeptIs
    <2>2. QED
      BY <2>1 DEF Lets
  <1>16. QED
    BY <1>13, <1>14, <1>15

\* B has no key that A has not, and the keys it has are of the same length,
\* read no more pages, and are evictable and owed a free as before.
Sheds(A, B) ==
    /\ Resident(B) \subseteq Resident(A)
    /\ \A k \in Resident(B) :
          /\ B.base[k] = A.base[k]
          /\ k \in A.retained => k \in B.retained
          /\ k \in A.deferred => k \in B.deferred
    /\ \A k \in Keys : Narrower(A, B, k)

\* Calls that shed compose.
LEMMA ShedsBoth ==
    ASSUME NEW A, NEW B, NEW C, Sheds(A, B), Sheds(B, C)
    PROVE  Sheds(A, C)
  <1>1. ASSUME NEW k \in Keys PROVE Narrower(A, C, k)
    <2>1. Narrower(A, B, k) /\ Narrower(B, C, k)
      BY DEF Sheds
    <2> QED BY <2>1 DEF Narrower
  <1> QED BY <1>1 DEF Sheds

\* A freed key reads nothing, and the others what they read.
LEMMA FreeNarrows ==
    ASSUME NEW n \in Nat, NEW P \in Pool(n), NEW now, NEW start, NEW moved, NEW k \in Keys,
           k \notin now => moved[k] = start[k]
    PROVE  Spots(FreeKeys(P, now), moved, k) \subseteq Spots(P, start, k)
  <1> DEFINE Q == FreeKeys(P, now)
  <1>1. CASE k \in now
    <2>1. Q.owned[k] = <<>> /\ Q.borrowed[k] = <<>>
      BY <1>1 DEF Pool, FreeKeys, Forget, ReleasePages
    <2> HIDE DEF Q
    <2>2. TablePages(Q, k) = <<>> \o <<>>
      BY <2>1 DEF TablePages
    <2>3. Len(TablePages(Q, k)) = 0
      BY <2>2
    <2>4. Spots(Q, moved, k) = {}
      BY <2>3 DEF Spots
    <2> QED BY <2>4 DEF Q
  <1>2. CASE k \notin now
    <2>1. TablePages(Q, k) = TablePages(P, k)
      BY <1>2 DEF Pool, FreeKeys, Forget, ReleasePages, TablePages
    <2> HIDE DEF Q
    <2>2. Spots(Q, moved, k) = Spots(P, start, k)
      BY <1>2, <2>1, SpotsSame
    <2> QED BY <2>2 DEF Q
  <1> QED BY <1>1, <1>2

\* What stays when keys are freed is owed the free.
LEMMA FreeAllSheds ==
    ASSUME NEW A \in Arena, NEW V, NEW B, B = FreeAll(A, V)
    PROVE  /\ Sheds(A, B) /\ B.reading = A.reading /\ B.held = A.held
           /\ \A k \in V : k \in Resident(B) => k \in B.deferred
           /\ Resident(B) = Resident(A) \ (V \ Kept(A))
  <1> DEFINE now == V \ Kept(A)
             putOff == V \cap Kept(A)
  <1>1. FreedFields(A, B, now, putOff)
    BY FreeAllIs
  <1>2. V \subseteq now \cup putOff
    OBVIOUS
  <1> HIDE DEF now, putOff
  <1>3. Resident(B) = Resident(A) \ now
    <2>1. FreeKeys(A.full, now).resident = A.full.resident \ now
      <3>1. A.full \in Pool(NumPages)
        BY ArenaFields
      <3>2. QED
        BY <3>1 DEF Pool, FreeKeys, Forget, ReleasePages
    <2>2. QED
      BY <1>1, <2>1 DEF Resident, FreedFields
  <1>4. Resident(A) \subseteq Keys
    BY ArenaFields, Fields, PoolNats DEF Resident
  <1>5. ASSUME NEW k \in Resident(B)
        PROVE  /\ B.base[k] = A.base[k]
               /\ k \in A.retained => k \in B.retained
               /\ k \in A.deferred => k \in B.deferred
               /\ k \in V => k \in B.deferred
    <2>1. k \in Keys /\ k \notin now
      BY <1>3, <1>4
    <2>2. k \in V => k \in putOff
      BY <1>2, <2>1
    <2>3. QED
      BY <1>1, <2>1, <2>2 DEF FreedFields
  <1>6. Sheds(A, B)
    <2>1. ASSUME NEW k \in Keys PROVE Narrower(A, B, k)
      <3>1. A.full \in Pool(NumPages) /\ A.slide \in Pool(NumSliding)
        BY ArenaFields
      <3>2. FullSpots(B, k) \subseteq FullSpots(A, k)
        BY <1>1, <3>1, FreeNarrows, PoolNats DEF FreedFields, FullSpots
      <3>3. k \notin now => B.start[k] = A.start[k]
        BY <1>1 DEF FreedFields
      <3>4. HasSliding => SlideSpots(B, k) \subseteq SlideSpots(A, k)
        BY <1>1, <3>1, <3>3, FreeNarrows, PoolNats DEF FreedFields, SlideSpots
      <3> QED BY <3>2, <3>4 DEF Narrower
    <2> QED BY <1>3, <1>5, <2>1 DEF Sheds
  <1>7. B.reading = A.reading /\ B.held = A.held
    BY <1>1 DEF FreedFields
  <1>8. QED
    BY <1>3, <1>5, <1>6, <1>7 DEF now

\* B keeps the pools of A, and rows, and may differ in its marks.
SamePools(A, B) ==
    B.full = A.full /\ B.slide = A.slide /\ B.base = A.base /\ B.start = A.start

\* The same pools are read alike.
LEMMA PoolsNarrow ==
    ASSUME NEW A, NEW B, SamePools(A, B)
    PROVE  \A k \in Keys : Narrower(A, B, k) /\ Narrower(B, A, k)
  BY DEF SamePools, Narrower, FullSpots, SlideSpots

\* The marks of B name resident keys, and no key is in use and evictable.
Marks(B) ==
    /\ B.held \in [Keys -> Nat] /\ B.reading \in [Keys -> Nat]
    /\ B.floor \in [Keys -> Nat \cup {NoFloor}] /\ B.trimmed \in SUBSET Keys
    /\ B.size \in [Keys -> Nat]
    /\ B.pinned \in SUBSET Resident(B) /\ B.retained \in SUBSET Resident(B)
    /\ B.deferred \in SUBSET Resident(B) /\ B.pinned \cap B.retained = {}
    /\ B.deferred \subseteq Kept(B) /\ FloorsWhole(B)

\* The marks of an arena that satisfies the invariant.
LEMMA MarksOf ==
    ASSUME NEW A, ArenaInv(A)
    PROVE  Marks(A)
  <1>1. A \in Arena
    BY DEF ArenaInv
  <1>2. QED
    BY <1>1, ArenaFields DEF ArenaInv, Consistent, Marks

\* A change of marks keeps the arena's invariant.
LEMMA MarksKeep ==
    ASSUME NEW A, ArenaInv(A), NEW B, Shape(B), SamePools(A, B), Marks(B)
    PROVE  ArenaInv(B) /\ Resident(B) = Resident(A)
  <1>1. A \in Arena
    BY DEF ArenaInv
  <1>2. Resident(B) = Resident(A) /\ Resident(A) \subseteq Keys
    BY <1>1, ArenaFields, Fields, PoolNats DEF SamePools, Resident
  <1>3. Typed(B)
    <2>1. /\ B.full \in Pool(NumPages) /\ B.slide \in Pool(NumSliding)
          /\ B.base \in [Keys -> Nat] /\ B.start \in [Keys -> Nat]
      BY <1>1, ArenaFields DEF SamePools
    <2>2. /\ B.deferred \in SUBSET Keys /\ B.pinned \in SUBSET Keys /\ B.retained \in SUBSET Keys
      BY <1>2 DEF Marks
    <2>3. QED
      BY <2>1, <2>2 DEF Typed, Marks
  <1>4. B \in Arena
    BY <1>3, ArenaIs
  <1>5. Consistent(B)
    <2>1. HasSliding => B.slide.resident = Resident(B)
      BY <1>2 DEF ArenaInv, Consistent, SamePools
    <2>2. B.pinned \cup B.retained \cup B.deferred \subseteq Resident(B)
      BY DEF Marks
    <2>3. QED
      BY <2>1, <2>2 DEF Consistent, Marks
  <1>6. PoolFine(B.full, NumPages, B.base, Zeros) /\ SlideFine(B) /\ Anchored(B)
    BY DEF ArenaInv, SlideFine, Anchored, SamePools
  <1>7. QED
    BY <1>2, <1>4, <1>5, <1>6 DEF ArenaInv, Marks

\* Letting go composes.
LEMMA LetsBoth ==
    ASSUME NEW A, NEW B, NEW C, A \in Arena, B \in Arena, C \in Arena, Lets(A, B), Lets(B, C)
    PROVE  Lets(A, C)
  <1>1. SUFFICES ASSUME NEW k \in Keys
                 PROVE  /\ C.held[k] <= A.held[k] /\ C.reading[k] <= A.reading[k]
                        /\ k \in Resident(A) \ Resident(C) => C.held[k] = 0 /\ C.reading[k] = 0
    BY DEF Lets
  <1>2. /\ A.held[k] \in Nat /\ A.reading[k] \in Nat /\ B.held[k] \in Nat
        /\ B.reading[k] \in Nat /\ C.held[k] \in Nat /\ C.reading[k] \in Nat
    BY ArenaFields
  <1>3. /\ B.held[k] <= A.held[k] /\ B.reading[k] <= A.reading[k]
        /\ C.held[k] <= B.held[k] /\ C.reading[k] <= B.reading[k]
        /\ k \in Resident(A) \ Resident(B) => B.held[k] = 0 /\ B.reading[k] = 0
        /\ k \in Resident(B) \ Resident(C) => C.held[k] = 0 /\ C.reading[k] = 0
    BY DEF Lets
  <1>4. QED
    BY <1>2, <1>3

\* Only marks fall: nothing loses its pages.
LEMMA LetsMarks ==
    ASSUME NEW A, NEW B, Resident(A) \subseteq Resident(B),
           \A k \in Keys : B.held[k] <= A.held[k] /\ B.reading[k] <= A.reading[k]
    PROVE  Lets(A, B)
  BY DEF Lets

-----------------------------------------------------------------------------
(* What a call leaves of the keys it is not about *)

\* Whole pages taken off a number of tokens are taken off its pages.
LEMMA PagesShift ==
    ASSUME NEW t \in Int, NEW q \in Int
    PROVE  PagesNeeded(t - q * PageTokens) = PagesNeeded(t) - q
  <1> DEFINE u == t + PageTokens - 1
             m == u \div PageTokens
  <1>1. u \in Int /\ q * PageTokens \in Int /\ PageTokens \in Nat \ {0}
    BY PageTokensAssumption
  <1>2. m \in Int /\ m * PageTokens <= u /\ u < (m + 1) * PageTokens
    BY <1>1, DivFloor
  <1> DEFINE w == u - q * PageTokens
             j == w \div PageTokens
  <1>3. w \in Int /\ j \in Int /\ j * PageTokens <= w /\ w < (j + 1) * PageTokens
    BY <1>1, DivFloor
  <1>4. PagesNeeded(t) = m /\ PagesNeeded(t - q * PageTokens) = j
    BY <1>1 DEF PagesNeeded
  <1> HIDE DEF m, j
  <1>5. /\ (m - q) * PageTokens = m * PageTokens - q * PageTokens
        /\ (m + 1 - q) * PageTokens = (m + 1) * PageTokens - q * PageTokens
        /\ (j + 1) * PageTokens \in Int /\ (m + 1) * PageTokens \in Int
        /\ j * PageTokens \in Int /\ m * PageTokens \in Int
    BY <1>2, <1>3, Times
  <1>6. (m - q) * PageTokens < (j + 1) * PageTokens /\ j * PageTokens < (m + 1 - q) * PageTokens
    BY <1>1, <1>2, <1>3, <1>5
  <1>7. m - q < j + 1 /\ j < m + 1 - q
    BY <1>2, <1>3, <1>6, TimesOrder
  <1> QED BY <1>2, <1>3, <1>4, <1>7

\* Its pages end at the same row, and it is not newly evictable or owed a free.
Spares(A, B, k) ==
    /\ k \in Resident(B) <=> k \in Resident(A)
    /\ Len(TablePages(B.full, k)) = Len(TablePages(A.full, k))
    /\ HasSliding => B.start[k] + Len(TablePages(B.slide, k)) * PageTokens
                        = A.start[k] + Len(TablePages(A.slide, k)) * PageTokens
    /\ k \in B.retained => k \in A.retained
    /\ k \in B.deferred => k \in A.deferred

SparesBut(A, B, V) == \A k \in Keys \ V : Spares(A, B, k)

LEMMA SparesBoth ==
    ASSUME NEW A, NEW B, NEW C, NEW k, Spares(A, B, k), Spares(B, C, k)
    PROVE  Spares(A, C, k)
  BY DEF Spares

\* What it takes to grow a key a call spares is what it took.
LEMMA SparesCost ==
    ASSUME NEW A, ArenaInv(A), NEW B, ArenaInv(B), NEW k \in Keys, Spares(A, B, k),
           NEW capacity \in Nat
    PROVE  GrowthCost(B, k, capacity) = GrowthCost(A, k, capacity)
  <1>1. GrowthPages(B.full, k, capacity) = GrowthPages(A.full, k, capacity)
    BY DEF Spares, GrowthPages
  <1>2. ASSUME HasSliding
        PROVE  GrowthPages(B.slide, k, capacity - B.start[k])
                   = GrowthPages(A.slide, k, capacity - A.start[k])
    <2> DEFINE Past(C) == PagesNeeded(capacity - C.start[k]) - Len(TablePages(C.slide, k))
    <2>1. ASSUME NEW C, ArenaInv(C)
          PROVE  /\ Past(C) \in Int /\ C.start[k] \in Nat
                 /\ Len(TablePages(C.slide, k)) \in Nat
                 /\ Past(C) * PageTokens = PagesNeeded(capacity) * PageTokens
                      - (C.start[k] + Len(TablePages(C.slide, k)) * PageTokens)
      <3> DEFINE q == C.start[k] \div PageTokens
                 l == Len(TablePages(C.slide, k))
                 n == PagesNeeded(capacity)
      <3>1. C.start[k] \in Nat /\ C.start[k] % PageTokens = 0
        BY <1>2, <2>1 DEF ArenaInv, SlideFine, PoolFine, Placed
      <3>2. q \in Int /\ q * PageTokens = C.start[k]
        BY <3>1, DivFloor, WholePages
      <3>3. l \in Nat
        <4>1. C.slide \in Pool(NumSliding)
          BY <2>1, ArenaFields DEF ArenaInv
        <4> QED BY <4>1, TableIs, PoolNats
      <3>4. n \in Nat
        BY PagesNeededBounds
      <3> HIDE DEF q, l, n
      <3>5. PagesNeeded(capacity - C.start[k]) = n - q
        BY <3>2, PagesShift DEF n
      <3>6. Past(C) = n - q - l
        BY <3>5 DEF l
      <3>7. (n - q - l) * PageTokens = n * PageTokens - q * PageTokens - l * PageTokens
        <4>1. (n - q - l) * PageTokens = (n - q) * PageTokens - l * PageTokens
          BY <3>2, <3>3, <3>4, Times
        <4> QED BY <3>2, <3>4, <4>1, Times
      <3>8. l * PageTokens \in Int /\ n * PageTokens \in Int
        BY <3>3, <3>4, Times
      <3> QED BY <3>1, <3>2, <3>3, <3>4, <3>6, <3>7, <3>8 DEF l, n
    <2>2. B.start[k] + Len(TablePages(B.slide, k)) * PageTokens
              = A.start[k] + Len(TablePages(A.slide, k)) * PageTokens
      BY <1>2 DEF Spares
    <2>3. Past(A) \in Int /\ Past(B) \in Int /\ Past(A) * PageTokens = Past(B) * PageTokens
      BY <2>1, <2>2
    <2>4. Past(A) = Past(B)
      <3> HIDE DEF Past
      <3>1. Past(A) <= Past(B) /\ Past(B) <= Past(A)
        <4>1. Past(A) * PageTokens \in Int
          BY <2>3, Times
        <4> QED BY <2>3, <4>1, TimesOrder
      <3> QED BY <2>3, <3>1
    <2> QED BY <2>4 DEF GrowthPages
  <1> QED BY <1>1, <1>2 DEF GrowthCost

\* Calls that only free keys leave at least the pages there were.
Roomier(A, B) == A.full.free \subseteq B.full.free /\ A.slide.free \subseteq B.slide.free

\* They have at least as many.
LEMMA RoomierCounts ==
    ASSUME NEW A \in Arena, NEW B \in Arena, Roomier(A, B)
    PROVE  /\ FreeCount(A.full) \in Nat /\ FreeCount(B.full) \in Nat
           /\ FreeCount(A.slide) \in Nat /\ FreeCount(B.slide) \in Nat
           /\ FreeCount(A.full) <= FreeCount(B.full) /\ FreeCount(A.slide) <= FreeCount(B.slide)
  <1>1. ASSUME NEW n \in Nat, NEW P \in Pool(n), NEW Q \in Pool(n), P.free \subseteq Q.free
        PROVE  FreeCount(P) \in Nat /\ FreeCount(Q) \in Nat /\ FreeCount(P) <= FreeCount(Q)
    BY <1>1, FreeFinite, FS_Subset DEF FreeCount
  <1>2. /\ A.full \in Pool(NumPages) /\ A.slide \in Pool(NumSliding)
        /\ B.full \in Pool(NumPages) /\ B.slide \in Pool(NumSliding)
    BY ArenaFields
  <1> QED BY <1>1, <1>2, PoolNats DEF Roomier

\* Freeing keys spares the others.
LEMMA FreeSpares ==
    ASSUME NEW A \in Arena, NEW V, NEW B, B = FreeAll(A, V)
    PROVE  SparesBut(A, B, V) /\ Roomier(A, B)
  <1> DEFINE now == V \ Kept(A)
             putOff == V \cap Kept(A)
  <1>1. FreedFields(A, B, now, putOff)
    BY FreeAllIs
  <1>2. now \subseteq V /\ putOff \subseteq V
    OBVIOUS
  <1> HIDE DEF now, putOff
  <1>3. ASSUME NEW n \in Nat, NEW P \in Pool(n)
        PROVE  /\ FreeKeys(P, now).resident = P.resident \ now
               /\ P.free \subseteq FreeKeys(P, now).free
               /\ \A k \in Keys \ now : TablePages(FreeKeys(P, now), k) = TablePages(P, k)
    BY DEF Pool, FreeKeys, Forget, ReleasePages, TablePages
  <1>4. A.full \in Pool(NumPages) /\ A.slide \in Pool(NumSliding) /\ A.start \in [Keys -> Nat]
    BY ArenaFields
  <1>5. Roomier(A, B)
    BY <1>1, <1>3, <1>4, PoolNats DEF FreedFields, Roomier
  <1>6. ASSUME NEW k \in Keys \ V PROVE Spares(A, B, k)
    <2>1. k \notin now /\ k \notin putOff
      BY <1>2
    <2>2. k \in Resident(B) <=> k \in Resident(A)
      BY <1>1, <1>3, <1>4, <2>1, PoolNats DEF FreedFields, Resident
    <2>3. TablePages(B.full, k) = TablePages(A.full, k)
      BY <1>1, <1>3, <1>4, <2>1, PoolNats DEF FreedFields
    <2>4. HasSliding => TablePages(B.slide, k) = TablePages(A.slide, k)
      BY <1>1, <1>3, <1>4, <2>1, PoolNats DEF FreedFields
    <2>5. B.start[k] = A.start[k]
      BY <1>1, <2>1 DEF FreedFields
    <2>6. (k \in B.retained => k \in A.retained) /\ (k \in B.deferred => k \in A.deferred)
      BY <1>1, <2>1 DEF FreedFields
    <2> QED BY <2>2, <2>3, <2>4, <2>5, <2>6 DEF Spares
  <1> QED BY <1>5, <1>6 DEF SparesBut

\* A change of marks spares the keys it does not make evictable or owe a free.
LEMMA MarksSpare ==
    ASSUME NEW A, NEW B, SamePools(A, B), NEW k,
           k \in B.retained => k \in A.retained, k \in B.deferred => k \in A.deferred
    PROVE  Spares(A, B, k)
  BY DEF SamePools, Spares, Resident

\* Eviction spares what is not evictable.
LEMMA EvictSpares ==
    ASSUME NEW A, ArenaInv(A), NEW enough, NEW B \in EvictUntil(A, enough)
    PROVE  SparesBut(A, B, A.retained) /\ Roomier(A, B)
  <1>1. PICK V \in SUBSET Evictable(A) : B = FreeAll(A, V)
    BY DEF EvictUntil
  <1>2. SparesBut(A, B, V) /\ Roomier(A, B)
    BY <1>1, FreeSpares DEF ArenaInv
  <1>3. V \subseteq A.retained
    BY DEF Evictable
  <1> QED BY <1>2, <1>3 DEF SparesBut

-----------------------------------------------------------------------------
(* The window *)

\* A window's origin is a page's first row, no later than the tokens.
LEMMA OriginIs ==
    ASSUME NEW t \in Nat
    PROVE  Origin(t) \in Nat /\ Origin(t) <= t /\ Origin(t) % PageTokens = 0
  <1>1. CASE t <= Window \/ Window = 0
    <2>1. Origin(t) = 0
      BY <1>1 DEF Origin
    <2>2. 0 % PageTokens = 0
      BY PageTokensAssumption
    <2>3. QED
      BY <2>1, <2>2
  <1>2. CASE ~(t <= Window \/ Window = 0)
    <2> DEFINE m == (t - Window) \div PageTokens
    <2>1. t - Window \in Nat /\ t - Window \in Int
      BY <1>2, PoolNats
    <2>2. m \in Int /\ m * PageTokens <= t - Window /\ m >= 0
      BY <2>1, DivFloor
    <2>3. Origin(t) = m * PageTokens
      BY <1>2 DEF Origin
    <2> HIDE DEF m
    <2>4. 0 * PageTokens <= m * PageTokens /\ 0 * PageTokens = 0
      <3>1. 0 \in Int /\ 0 <= m
        BY <2>2
      <3>2. 0 * PageTokens = 0
        BY PageTokensAssumption
      <3>3. QED
        BY <2>2, <3>1, <3>2, TimesOrder
    <2>5. m * PageTokens \in Int /\ (m * PageTokens) % PageTokens = 0
      BY <2>2, Times
    <2>6. QED
      BY <2>1, <2>2, <2>3, <2>4, <2>5, PoolNats
  <1>3. QED
    BY <1>1, <1>2

\* A window is cut by whole pages, and never past its key's base.
LEMMA CutWhole ==
    ASSUME NEW A, A \in Arena, FloorsWhole(A), NEW k \in Keys,
           A.start[k] <= A.base[k], A.start[k] % PageTokens = 0
    PROVE  /\ Cut(A, k) \in Nat /\ Cut(A, k) % PageTokens = 0
           /\ Cut(A, k) <= A.base[k] - A.start[k]
           /\ A.start[k] <= Origin(A.base[k]) => A.start[k] + Cut(A, k) <= Origin(A.base[k])
  <1> DEFINE low == IF A.floor[k] = NoFloor THEN A.base[k] ELSE A.floor[k]
             origin == IF low < Origin(A.base[k]) THEN low ELSE Origin(A.base[k])
  <1>1. /\ A.base[k] \in Nat /\ A.start[k] \in Nat
        /\ A.floor[k] = NoFloor \/ A.floor[k] \in Nat
    BY ArenaFields
  <1>2. /\ Origin(A.base[k]) \in Nat /\ Origin(A.base[k]) <= A.base[k]
        /\ Origin(A.base[k]) % PageTokens = 0
    BY <1>1, OriginIs
  <1>3. A.floor[k] = NoFloor \/ A.floor[k] % PageTokens = 0
    BY DEF FloorsWhole
  <1>4. /\ origin \in Nat /\ origin <= A.base[k] /\ origin % PageTokens = 0
        /\ origin <= Origin(A.base[k])
    BY <1>1, <1>2, <1>3
  <1>5. Cut(A, k) = Bigger(0, origin - A.start[k])
    BY DEF Cut
  <1> HIDE DEF low, origin
  <1>6. CASE origin - A.start[k] < 0
    <2>1. Cut(A, k) = 0
      BY <1>1, <1>4, <1>5, <1>6 DEF Bigger
    <2>2. 0 % PageTokens = 0 /\ 0 <= A.base[k] - A.start[k]
      BY <1>1, PageTokensAssumption
    <2>3. A.start[k] + 0 = A.start[k]
      BY <1>1
    <2>4. QED
      BY <2>1, <2>2, <2>3
  <1>7. CASE ~(origin - A.start[k] < 0)
    <2>1. Cut(A, k) = origin - A.start[k]
      BY <1>1, <1>4, <1>5, <1>7 DEF Bigger
    <2>2. (origin - A.start[k]) % PageTokens = 0
      <3>1. /\ origin \in Int /\ A.start[k] \in Int
            /\ origin % PageTokens = 0 /\ A.start[k] % PageTokens = 0
        BY <1>1, <1>4
      <3> QED BY <3>1, WholeSum
    <2>3. A.start[k] + (origin - A.start[k]) <= Origin(A.base[k])
      BY <1>1, <1>2, <1>4
    <2>4. origin - A.start[k] \in Nat /\ origin - A.start[k] <= A.base[k] - A.start[k]
      BY <1>1, <1>4, <1>7
    <2>5. QED
      BY <2>1, <2>2, <2>3, <2>4
  <1>8. QED
    BY <1>6, <1>7

\* The fields a trim leaves alone.
Trimmed(A, B) ==
    /\ B.full = A.full /\ B.base = A.base /\ B.held = A.held /\ B.reading = A.reading
    /\ B.deferred = A.deferred /\ B.floor = A.floor /\ B.pinned = A.pinned
    /\ B.retained = A.retained /\ B.size = A.size

\* Releasing the pages before the windows keeps the arena's invariant.
LEMMA TrimKeeps ==
    ASSUME NEW A, ArenaInv(A), NEW V \in SUBSET Keys, NEW B, B = TrimWindows(A, V)
    PROVE  /\ ArenaInv(B) /\ Lets(A, B) /\ Trimmed(A, B) /\ Resident(B) = Resident(A)
           /\ \A k \in Keys : Narrower(A, B, k)
  <1>0. A \in Arena /\ FloorsWhole(A)
    BY DEF ArenaInv
  <1>1. CASE ~HasSliding
    <2>1. B = A
      BY <1>1 DEF TrimWindows
    <2>2. \A k \in Keys : A.held[k] \in Nat /\ A.reading[k] \in Nat
      BY <1>0, ArenaFields
    <2>3. \A k \in Keys : A.held[k] <= A.held[k] /\ A.reading[k] <= A.reading[k]
      BY <2>2
    <2>4. Lets(A, A)
      BY <2>3, LetsMarks
    <2>5. Trimmed(A, A) /\ \A k \in Keys : Narrower(A, A, k)
      BY DEF Trimmed, Narrower
    <2>6. QED
      BY <2>1, <2>4, <2>5
  <1>2. CASE HasSliding
    <2> DEFINE cut == [k \in Keys |-> IF k \in V THEN Cut(A, k) ELSE 0]
               R == DropLeading(A.slide, [k \in Keys |-> cut[k] \div PageTokens])
               Q == [R EXCEPT !.tokens = [k \in Keys |-> @[k] - cut[k]]]
               start2 == [k \in Keys |-> A.start[k] + cut[k]]
    <2>1. B = [A EXCEPT !.trimmed = @ \union V, !.slide = Q,
                        !.start = [k \in Keys |-> @[k] + cut[k]]]
      BY <1>2 DEF TrimWindows
    <2>2. PoolFine(A.slide, NumSliding, A.base, A.start)
      BY <1>2 DEF ArenaInv, SlideFine
    <2>3. ASSUME NEW k \in Keys
          PROVE  /\ cut[k] \in Nat /\ cut[k] % PageTokens = 0 /\ cut[k] <= A.base[k] - A.start[k]
                 /\ A.start[k] + cut[k] <= Origin(A.base[k])
      <3>1. /\ A.start[k] \in Nat /\ A.base[k] \in Nat /\ A.start[k] <= A.base[k]
            /\ A.start[k] % PageTokens = 0 /\ A.start[k] <= Origin(A.base[k])
        BY <1>2, <2>2 DEF PoolFine, Placed, ArenaInv, Anchored
      <3>2. /\ Cut(A, k) \in Nat /\ Cut(A, k) % PageTokens = 0
            /\ Cut(A, k) <= A.base[k] - A.start[k]
            /\ A.start[k] + Cut(A, k) <= Origin(A.base[k])
        BY <1>0, <3>1, CutWhole
      <3>3. 0 % PageTokens = 0
        BY PageTokensAssumption
      <3>4. QED
        BY <3>1, <3>2, <3>3
    <2>4. cut \in [Keys -> Nat]
      BY <2>3
    <2>5. R = DropLeading(A.slide, [k \in Keys |-> cut[k] \div PageTokens])
          /\ Q = [R EXCEPT !.tokens = [k \in Keys |-> @[k] - cut[k]]]
      OBVIOUS
    <2>6. start2 = [k \in Keys |-> A.start[k] + cut[k]]
      OBVIOUS
    <2> HIDE DEF cut, R, Q, start2
    <2>7. /\ PoolFine(Q, NumSliding, A.base, start2) /\ Q.resident = A.slide.resident
          /\ \A k \in Keys : Spots(Q, start2, k) \subseteq Spots(A.slide, A.start, k)
      <3>1. \A k \in Keys : start2[k] = A.start[k] + cut[k]
        BY <2>6
      <3>2. \A k \in Keys : cut[k] % PageTokens = 0 /\ cut[k] <= A.base[k] - A.start[k]
        BY <2>3
      <3> DEFINE P == A.slide
                 base == A.base
                 start == A.start
      <3>3. PoolFine(P, NumSliding, base, start) /\ NumSliding \in Nat
        BY <2>2, PoolNats
      <3>4. R = DropLeading(P, [k \in Keys |-> cut[k] \div PageTokens])
        BY <2>5
      <3>5. Q = [R EXCEPT !.tokens = [k \in Keys |-> @[k] - cut[k]]]
        BY <2>5
      <3>6. /\ \A k \in Keys : start2[k] = start[k] + cut[k]
            /\ \A k \in Keys : cut[k] % PageTokens = 0 /\ cut[k] <= base[k] - start[k]
        BY <3>1, <3>2
      <3> HIDE DEF P, base, start
      <3>7. /\ PoolFine(Q, NumSliding, base, start2) /\ KeysStay(P, Q)
            /\ \A k \in Keys : Spots(Q, start2, k) \subseteq Spots(P, start, k)
        BY <2>4, <3>3, <3>4, <3>5, <3>6, FineTrim, SMTT(60)
      <3>8. Q.resident = P.resident
        BY <3>7 DEF KeysStay
      <3>9. QED
        BY <3>7, <3>8 DEF P, base, start
    <2>8. /\ Trimmed(A, B) /\ B.slide = Q /\ B.trimmed = A.trimmed \cup V
      BY <1>0, <2>1 DEF Arena, Trimmed
    <2>9. B.start = start2
      BY <1>0, <2>1, <2>6 DEF Arena
    <2>10. Shape(B)
      BY <1>0, <2>1 DEF Arena, Shape
    <2>11. Typed(B)
      <3>1. B.slide \in Pool(NumSliding)
        BY <2>7, <2>8 DEF PoolFine, PoolInv
      <3>2. B.start \in [Keys -> Nat]
        <4>1. \A k \in Keys : A.start[k] \in Nat /\ cut[k] \in Nat
          BY <1>0, <2>3, ArenaFields
        <4>2. QED
          BY <2>6, <2>9, <4>1
      <3>3. B.trimmed \in SUBSET Keys
        BY <1>0, <2>8, ArenaFields
      <3>4. /\ B.full \in Pool(NumPages) /\ B.base \in [Keys -> Nat]
            /\ B.held \in [Keys -> Nat] /\ B.reading \in [Keys -> Nat]
            /\ B.deferred \in SUBSET Keys /\ B.floor \in [Keys -> Nat \cup {NoFloor}]
            /\ B.pinned \in SUBSET Keys /\ B.retained \in SUBSET Keys
            /\ B.size \in [Keys -> Nat]
        BY <1>0, <2>8, ArenaFields DEF Trimmed
      <3>5. QED
        BY <3>1, <3>2, <3>3, <3>4 DEF Typed
    <2>12. B \in Arena
      BY <2>10, <2>11, ArenaIs
    <2>13. SlideFine(B) /\ PoolFine(B.full, NumPages, B.base, Zeros)
      BY <1>2, <2>7, <2>8, <2>9 DEF ArenaInv, SlideFine, Trimmed
    <2>14. Resident(B) = Resident(A)
      BY <2>8 DEF Resident, Trimmed
    <2>15. Consistent(B)
      BY <2>7, <2>8, <2>14 DEF ArenaInv, Consistent, Trimmed
    <2>16. B.deferred \subseteq Kept(B) /\ FloorsWhole(B) /\ Anchored(B)
      <3>1. B.deferred \subseteq Kept(B) /\ FloorsWhole(B)
        BY <2>8 DEF ArenaInv, Trimmed, Kept, FloorsWhole
      <3>2. Anchored(B)
        BY <2>3, <2>6, <2>8, <2>9 DEF Anchored, Trimmed
      <3> QED BY <3>1, <3>2
    <2>17. ArenaInv(B)
      BY <2>12, <2>13, <2>15, <2>16 DEF ArenaInv
    <2>18. Lets(A, B)
      <3>1. \A k \in Keys : A.held[k] \in Nat /\ A.reading[k] \in Nat
        BY <1>0, ArenaFields
      <3>2. \A k \in Keys : B.held[k] <= A.held[k] /\ B.reading[k] <= A.reading[k]
        BY <2>8, <3>1 DEF Trimmed
      <3>3. QED
        BY <2>14, <3>2, LetsMarks
    <2>19. ASSUME NEW k \in Keys PROVE Narrower(A, B, k)
      BY <2>7, <2>8, <2>9 DEF Trimmed, Narrower, FullSpots, SlideSpots
    <2>20. QED
      BY <2>8, <2>14, <2>17, <2>18, <2>19
  <1>3. QED
    BY <1>1, <1>2

\* Trimming windows lets go of no key.
LEMMA TrimSheds ==
    ASSUME NEW A, ArenaInv(A), NEW V \in SUBSET Keys, NEW B, B = TrimWindows(A, V)
    PROVE  Sheds(A, B) /\ B.reading = A.reading /\ B.held = A.held /\ Resident(B) = Resident(A)
  <1>1. Trimmed(A, B) /\ Resident(B) = Resident(A) /\ \A k \in Keys : Narrower(A, B, k)
    BY TrimKeeps
  <1>2. QED
    BY <1>1 DEF Trimmed, Sheds

\* Trimming a window takes its first pages, and leaves where they end.
LEMMA TrimSpares ==
    ASSUME NEW A, ArenaInv(A), NEW V \in SUBSET Keys, NEW B, B = TrimWindows(A, V)
    PROVE  SparesBut(A, B, {})
  <1>0. A \in Arena /\ FloorsWhole(A) /\ Trimmed(A, B) /\ Resident(B) = Resident(A)
    BY TrimKeeps DEF ArenaInv
  <1>1. ASSUME HasSliding, NEW k \in Keys
        PROVE  B.start[k] + Len(TablePages(B.slide, k)) * PageTokens
                   = A.start[k] + Len(TablePages(A.slide, k)) * PageTokens
    <2> DEFINE cut == [l \in Keys |-> IF l \in V THEN Cut(A, l) ELSE 0]
               off == [l \in Keys |-> cut[l] \div PageTokens]
               R == DropLeading(A.slide, off)
    <2>1. /\ B.slide = [R EXCEPT !.tokens = [l \in Keys |-> @[l] - cut[l]]]
          /\ B.start = [l \in Keys |-> A.start[l] + cut[l]]
      BY <1>0, <1>1 DEF TrimWindows, Arena
    <2>2. PoolFine(A.slide, NumSliding, A.base, A.start)
      BY <1>1 DEF ArenaInv, SlideFine
    <2>3. ASSUME NEW l \in Keys
          PROVE  /\ cut[l] \in Nat /\ off[l] \in Nat /\ off[l] * PageTokens = cut[l]
                 /\ off[l] <= Len(TablePages(A.slide, l))
                 /\ Len(TablePages(A.slide, l)) \in Nat
      <3>1. /\ A.start[l] \in Nat /\ A.base[l] \in Nat /\ A.start[l] <= A.base[l]
            /\ A.start[l] % PageTokens = 0 /\ A.slide.tokens[l] = A.base[l] - A.start[l]
            /\ A.slide.tokens[l] <= Len(TablePages(A.slide, l)) * PageTokens
        BY <2>2 DEF PoolFine, Placed, Fits
      <3>2. /\ Cut(A, l) \in Nat /\ Cut(A, l) % PageTokens = 0
            /\ Cut(A, l) <= A.base[l] - A.start[l]
        BY <1>0, <3>1, CutWhole
      <3>3. 0 % PageTokens = 0
        BY PageTokensAssumption
      <3>4. cut[l] \in Nat /\ cut[l] % PageTokens = 0 /\ cut[l] <= A.base[l] - A.start[l]
        BY <3>1, <3>2, <3>3
      <3>5. Len(TablePages(A.slide, l)) \in Nat
        <4>1. A.slide \in Pool(NumSliding)
          BY <1>0, ArenaFields
        <4> QED BY <4>1, TableIs, PoolNats
      <3>6. off[l] = cut[l] \div PageTokens
        OBVIOUS
      <3> HIDE DEF cut, off
      <3>7. off[l] \in Nat /\ off[l] * PageTokens = cut[l]
        BY <3>4, <3>6, DivFloor, WholePages
      <3>8. off[l] * PageTokens <= Len(TablePages(A.slide, l)) * PageTokens
        <4>1. Len(TablePages(A.slide, l)) * PageTokens \in Int
          BY <3>5, Times
        <4> QED BY <3>1, <3>4, <3>7, <4>1
      <3> QED BY <3>4, <3>5, <3>7, <3>8, TimesOrder
    <2>4. off \in [Keys -> Nat]
      BY <2>3
    <2> HIDE DEF cut, off
    <2>5. PoolInv(A.slide, NumSliding)
      BY <2>2 DEF PoolFine
    <2>6. Shorter(A.slide, R, off) /\ PoolInv(R, NumSliding)
      <3>1. \A l \in Keys : off[l] <= Len(TablePages(A.slide, l))
        BY <2>3
      <3> QED BY <2>4, <2>5, <3>1, DropLeadingKeeps, PoolNats
    <2> HIDE DEF R
    <2>7. TablePages(B.slide, k) = TablePages(R, k)
      <3>1. R \in Pool(NumSliding)
        BY <2>6 DEF PoolInv
      <3> QED BY <2>1, <3>1 DEF TablePages, Pool
    <2>8. Len(TablePages(B.slide, k)) = Len(TablePages(A.slide, k)) - off[k]
      BY <2>6, <2>7 DEF Shorter
    <2>9. B.start[k] = A.start[k] + cut[k] /\ A.start[k] \in Nat
      BY <1>0, <2>1, ArenaFields
    <2>10. (Len(TablePages(A.slide, k)) - off[k]) * PageTokens
               = Len(TablePages(A.slide, k)) * PageTokens - off[k] * PageTokens
           /\ Len(TablePages(A.slide, k)) * PageTokens \in Int
      <3>1. off[k] \in Int /\ Len(TablePages(A.slide, k)) \in Int
        BY <2>3
      <3> QED BY <3>1, Times
    <2> QED BY <2>3, <2>8, <2>9, <2>10
  <1>2. B.full = A.full /\ B.retained = A.retained /\ B.deferred = A.deferred
    BY <1>0 DEF Trimmed
  <1> QED BY <1>0, <1>1, <1>2 DEF SparesBut, Spares

-----------------------------------------------------------------------------
(* Holds and readings *)

\* Queued borrowers hold a key, which keeps the rows they read.
LEMMA HoldKeeps ==
    ASSUME NEW A, ArenaInv(A), NEW k \in Keys, NEW n \in Nat, NEW shared \in Nat,
           NEW B, B = KeepWindow(HoldKey(A, k, n), k, shared)
    PROVE  ArenaInv(B) /\ Resident(B) = Resident(A)
  <1>0. A \in Arena
    BY DEF ArenaInv
  <1> DEFINE row == Origin(shared)
  <1>1. row \in Nat /\ row % PageTokens = 0
    BY OriginIs
  <1>2. B = [A EXCEPT !.held[k] = @ + n,
                      !.floor[k] = IF @ = NoFloor \/ row < @ THEN row ELSE @]
    BY <1>0 DEF KeepWindow, HoldKey, Arena
  <1> HIDE DEF row
  <1>3. SamePools(A, B) /\ Shape(B)
    BY <1>0, <1>2 DEF Arena, Shape, SamePools
  <1>4. /\ B.held = [A.held EXCEPT ![k] = @ + n]
        /\ B.floor = [A.floor EXCEPT ![k] = IF @ = NoFloor \/ row < @ THEN row ELSE @]
        /\ B.reading = A.reading /\ B.deferred = A.deferred /\ B.trimmed = A.trimmed
        /\ B.pinned = A.pinned /\ B.retained = A.retained /\ B.size = A.size
    BY <1>0, <1>2 DEF Arena
  <1>5. Marks(A)
    BY MarksOf
  <1>6. B.held \in [Keys -> Nat] /\ B.floor \in [Keys -> Nat \cup {NoFloor}]
    BY <1>1, <1>4, <1>5 DEF Marks
  <1>7. FloorsWhole(B)
    <2>1. FloorsWhole(A) /\ A.floor \in [Keys -> Nat \cup {NoFloor}]
      BY <1>5 DEF Marks
    <2>2. ASSUME NEW l \in Keys PROVE B.floor[l] = A.floor[l] \/ B.floor[l] = row
      BY <1>4, <2>1
    <2>3. QED
      BY <1>1, <2>1, <2>2 DEF FloorsWhole
  <1>8. Kept(A) \subseteq Kept(B)
    <2>1. A.held \in [Keys -> Nat]
      BY <1>5 DEF Marks
    <2>2. ASSUME NEW l \in Keys, A.held[l] > 0 PROVE B.held[l] > 0
      BY <1>4, <2>1, <2>2
    <2>3. QED
      BY <1>4, <2>2 DEF Kept
  <1>9. Resident(B) = Resident(A)
    BY <1>3 DEF SamePools, Resident
  <1>10. Marks(B)
    <2>1. B.deferred \subseteq Kept(B)
      BY <1>4, <1>5, <1>8 DEF Marks
    <2>2. QED
      BY <1>4, <1>5, <1>6, <1>7, <1>9, <2>1 DEF Marks
  <1>11. QED
    BY <1>3, <1>10, MarksKeep

\* A change of marks that raises no hold and no reading.
LEMMA LoosenKeeps ==
    ASSUME NEW A, ArenaInv(A), NEW B, Shape(B), SamePools(A, B), Marks(B),
           \A l \in Keys : B.held[l] <= A.held[l] /\ B.reading[l] <= A.reading[l]
    PROVE  ArenaInv(B) /\ Lets(A, B) /\ Resident(B) = Resident(A)
  <1>1. ArenaInv(B) /\ Resident(B) = Resident(A)
    BY MarksKeep
  <1>2. Lets(A, B)
    BY <1>1, LetsMarks
  <1>3. QED
    BY <1>1, <1>2

\* The holds of V ended, and no others.
Dropped(A, B, V) ==
    /\ Sheds(A, B) /\ B.reading = A.reading
    /\ \A k \in Keys : B.held[k] = IF k \in V THEN 0 ELSE A.held[k]

\* Dropping holds lets the frees they put off happen, and the rows go that
\* they kept.
LEMMA DropHoldsKeeps ==
    ASSUME NEW A, ArenaInv(A), NEW V \in SUBSET Keys, NEW B, B = DropHolds(A, V)
    PROVE  ArenaInv(B) /\ Lets(A, B) /\ Dropped(A, B, V) /\ SparesBut(A, B, A.deferred)
  <1> DEFINE gone == {k \in V : A.held[k] > 0}
             owed == gone \cap A.deferred
             loose == [A EXCEPT
                    !.held = [k \in Keys |-> IF k \in gone THEN 0 ELSE @[k]],
                    !.floor = [k \in Keys |-> IF k \in gone \ owed THEN NoFloor ELSE @[k]],
                    !.deferred = @ \ owed]
             W == {k \in gone \ owed : A.floor[k] # NoFloor /\ k \in A.trimmed}
             C == FreeAll(loose, owed)
  <1>0. A \in Arena /\ Marks(A)
    BY MarksOf DEF ArenaInv
  <1>1. B = TrimWindows(C, W)
    BY DEF DropHolds
  <1>2. W \in SUBSET Keys /\ gone \subseteq Keys /\ owed \subseteq A.deferred
    OBVIOUS
  <1>3. \A k \in gone : k \in A.deferred => k \in owed
    OBVIOUS
  <1>4. loose = [A EXCEPT
                    !.held = [k \in Keys |-> IF k \in gone THEN 0 ELSE @[k]],
                    !.floor = [k \in Keys |-> IF k \in gone \ owed THEN NoFloor ELSE @[k]],
                    !.deferred = @ \ owed]
    OBVIOUS
  <1>5. C = FreeAll(loose, owed)
    OBVIOUS
  <1> HIDE DEF gone, owed, loose, W, C
  <1>6. SamePools(A, loose) /\ Shape(loose)
    BY <1>0, <1>4 DEF Arena, Shape, SamePools
  <1>7. /\ loose.held = [k \in Keys |-> IF k \in gone THEN 0 ELSE A.held[k]]
        /\ loose.floor = [k \in Keys |-> IF k \in gone \ owed THEN NoFloor ELSE A.floor[k]]
        /\ loose.deferred = A.deferred \ owed
        /\ loose.reading = A.reading /\ loose.trimmed = A.trimmed
        /\ loose.pinned = A.pinned /\ loose.retained = A.retained /\ loose.size = A.size
    BY <1>0, <1>4 DEF Arena
  <1>8. Resident(loose) = Resident(A)
    BY <1>6 DEF SamePools, Resident
  <1>9. Marks(loose)
    <2>1. loose.held \in [Keys -> Nat] /\ loose.floor \in [Keys -> Nat \cup {NoFloor}]
      BY <1>0, <1>7 DEF Marks
    <2>2. FloorsWhole(loose)
      BY <1>0, <1>7 DEF Marks, FloorsWhole
    <2>3. loose.deferred \subseteq Kept(loose)
      <3>1. ASSUME NEW k \in loose.deferred PROVE k \in Kept(loose)
        <4>1. k \in A.deferred /\ k \notin owed /\ k \in Kept(A) /\ k \in Keys
          BY <1>0, <1>7 DEF Marks, Kept
        <4>2. k \notin gone
          BY <1>3, <4>1
        <4>3. loose.held[k] = A.held[k] /\ loose.reading[k] = A.reading[k]
          BY <1>7, <4>1, <4>2
        <4>4. QED
          BY <4>1, <4>3 DEF Kept
      <3>2. QED
        BY <3>1
    <2>4. QED
      BY <1>0, <1>7, <1>8, <2>1, <2>2, <2>3 DEF Marks
  <1>10. ArenaInv(loose) /\ Lets(A, loose)
    <2>1. \A k \in Keys : A.held[k] \in Nat /\ A.reading[k] \in Nat
      BY <1>0, ArenaFields
    <2>2. \A k \in Keys : loose.held[k] <= A.held[k] /\ loose.reading[k] <= A.reading[k]
      BY <1>7, <2>1
    <2>3. QED
      BY <1>6, <1>9, <2>2, LoosenKeeps
  <1>11. ArenaInv(C) /\ Lets(loose, C)
    <2>1. owed \in SUBSET Resident(loose)
      BY <1>0, <1>2, <1>8 DEF Marks
    <2>2. QED
      BY <1>5, <1>10, <2>1, FreeAllKeeps
  <1>12. ArenaInv(B) /\ Lets(C, B)
    BY <1>1, <1>2, <1>11, TrimKeeps
  <1>13. /\ A \in Arena /\ loose \in Arena /\ C \in Arena /\ B \in Arena
    BY <1>10, <1>11, <1>12 DEF ArenaInv
  <1>14. Lets(A, C)
    BY <1>10, <1>11, <1>13, LetsBoth
  <1>15. Lets(A, B)
    BY <1>12, <1>13, <1>14, LetsBoth
  <1>16. /\ Sheds(loose, C) /\ C.reading = loose.reading /\ C.held = loose.held
         /\ \A k \in owed : k \in Resident(C) => k \in C.deferred
    BY <1>5, <1>13, FreeAllSheds
  <1>17. Sheds(A, C)
    <2>1. loose.base = A.base
      BY <1>6 DEF SamePools
    <2>2. \A k : k \in A.deferred => k \in loose.deferred \/ k \in owed
      BY <1>7
    <2>3. \A k \in Keys : Narrower(A, C, k)
      <3>1. \A k \in Keys : Narrower(A, loose, k) /\ Narrower(loose, C, k)
        BY <1>6, <1>16, PoolsNarrow DEF Sheds
      <3> QED BY <3>1 DEF Narrower
    <2>4. QED
      BY <1>7, <1>8, <1>16, <2>1, <2>2, <2>3 DEF Sheds
  <1>18. Sheds(C, B) /\ B.reading = C.reading /\ B.held = C.held
    BY <1>1, <1>2, <1>11, TrimSheds
  <1>19. Sheds(A, B)
    BY <1>17, <1>18, ShedsBoth
  <1>20. ASSUME NEW k \in Keys PROVE B.held[k] = IF k \in V THEN 0 ELSE A.held[k]
    <2>1. A.held[k] \in Nat /\ B.held[k] = IF k \in gone THEN 0 ELSE A.held[k]
      BY <1>0, <1>7, <1>16, <1>18, ArenaFields
    <2>2. k \in gone <=> k \in V /\ A.held[k] > 0
      BY DEF gone
    <2>3. QED
      BY <2>1, <2>2
  <1>21. B.reading = A.reading
    BY <1>7, <1>16, <1>18
  <1>22. SparesBut(A, B, A.deferred)
    <2>1. SparesBut(loose, C, owed)
      BY <1>5, <1>13, FreeSpares
    <2>2. SparesBut(C, B, {})
      BY <1>1, <1>2, <1>11, TrimSpares
    <2>3. ASSUME NEW k \in Keys \ A.deferred PROVE Spares(A, B, k)
      <3>1. Spares(A, loose, k)
        BY <1>6, <1>7, MarksSpare
      <3>2. Spares(loose, C, k)
        BY <1>2, <2>1 DEF SparesBut
      <3>3. Spares(C, B, k)
        BY <2>2 DEF SparesBut
      <3> QED BY <3>1, <3>2, <3>3, SparesBoth
    <2> QED BY <2>3 DEF SparesBut
  <1>23. QED
    BY <1>12, <1>15, <1>19, <1>20, <1>21, <1>22 DEF Dropped


\* A released hold is the last one, or leaves another.
LEMMA ReleaseKeeps ==
    ASSUME NEW A, ArenaInv(A), NEW k \in Keys, NEW B, B = Release(A, k)
    PROVE  ArenaInv(B) /\ Lets(A, B)
  <1>1. CASE ~(A.held[k] > 1)
    <2>1. B = DropHolds(A, {k})
      BY <1>1 DEF Release
    <2>2. QED
      BY <2>1, DropHoldsKeeps
  <1>2. CASE A.held[k] > 1
    <2>0. A \in Arena /\ Marks(A)
      BY MarksOf DEF ArenaInv
    <2>1. B = [A EXCEPT !.held[k] = @ - 1]
      BY <1>2 DEF Release
    <2>2. SamePools(A, B) /\ Shape(B)
      BY <2>0, <2>1 DEF Arena, Shape, SamePools
    <2>3. /\ B.held = [A.held EXCEPT ![k] = @ - 1] /\ B.floor = A.floor
          /\ B.reading = A.reading /\ B.deferred = A.deferred /\ B.trimmed = A.trimmed
          /\ B.pinned = A.pinned /\ B.retained = A.retained /\ B.size = A.size
      BY <2>0, <2>1 DEF Arena
    <2>4. A.held \in [Keys -> Nat] /\ A.reading \in [Keys -> Nat]
      BY <2>0 DEF Marks
    <2>5. \A l \in Keys : /\ B.held[l] \in Nat /\ B.held[l] <= A.held[l]
                          /\ A.held[l] > 0 <=> B.held[l] > 0
      BY <1>2, <2>3, <2>4
    <2>6. Kept(B) = Kept(A)
      BY <2>3, <2>5 DEF Kept
    <2>7. Resident(B) = Resident(A)
      BY <2>2 DEF SamePools, Resident
    <2>8. Marks(B)
      <3>1. B.held \in [Keys -> Nat]
        BY <2>3, <2>4, <2>5
      <3>2. QED
        BY <2>0, <2>3, <2>6, <2>7, <3>1 DEF Marks, FloorsWhole
    <2>9. \A l \in Keys : B.held[l] <= A.held[l] /\ B.reading[l] <= A.reading[l]
      BY <2>3, <2>4, <2>5
    <2>10. QED
      BY <2>2, <2>8, <2>9, LoosenKeeps
  <1>3. QED
    BY <1>1, <1>2

\* A planned chunk reads the keys of V.
LEMMA ReadStateKeeps ==
    ASSUME NEW A, ArenaInv(A), NEW V \in SUBSET Keys, NEW B, B = ReadState(A, V)
    PROVE  /\ ArenaInv(B) /\ SamePools(A, B) /\ Resident(B) = Resident(A) /\ B.held = A.held
           /\ \A k \in Keys : B.reading[k] = IF k \in V THEN A.reading[k] + 1 ELSE A.reading[k]
           /\ B.retained = A.retained /\ B.deferred = A.deferred
  <1>0. A \in Arena /\ Marks(A)
    BY MarksOf DEF ArenaInv
  <1>1. B = [A EXCEPT !.reading = [k \in Keys |-> IF k \in V THEN @[k] + 1 ELSE @[k]]]
    BY DEF ReadState
  <1>2. SamePools(A, B) /\ Shape(B)
    BY <1>0, <1>1 DEF Arena, Shape, SamePools
  <1>3. /\ B.reading = [k \in Keys |-> IF k \in V THEN A.reading[k] + 1 ELSE A.reading[k]]
        /\ B.floor = A.floor /\ B.held = A.held /\ B.deferred = A.deferred
        /\ B.trimmed = A.trimmed /\ B.pinned = A.pinned /\ B.retained = A.retained
        /\ B.size = A.size
    BY <1>0, <1>1 DEF Arena
  <1>4. A.reading \in [Keys -> Nat]
    BY <1>0 DEF Marks
  <1>5. \A k \in Keys : B.reading[k] = IF k \in V THEN A.reading[k] + 1 ELSE A.reading[k]
    BY <1>3
  <1>6. Kept(A) \subseteq Kept(B)
    BY <1>3, <1>4, <1>5 DEF Kept
  <1>7. Resident(B) = Resident(A)
    BY <1>2 DEF SamePools, Resident
  <1>8. B.reading \in [Keys -> Nat]
    BY <1>3, <1>4, <1>5
  <1>9. B.deferred \subseteq Kept(B)
    BY <1>0, <1>3, <1>6 DEF Marks
  <1>10. Marks(B)
    BY <1>0, <1>3, <1>7, <1>8, <1>9 DEF Marks, FloorsWhole
  <1>11. ArenaInv(B)
    BY <1>2, <1>10, MarksKeep
  <1>12. QED
    BY <1>2, <1>3, <1>5, <1>7, <1>11

\* A chunk's reading ends; an owed free that nothing else puts off happens.
LEMMA DoneReadingKeeps ==
    ASSUME NEW A, ArenaInv(A), NEW k \in Keys, A.reading[k] > 0,
           NEW B, B = DoneReading(A, k)
    PROVE  ArenaInv(B) /\ Lets(A, B)
  <1> DEFINE done == [A EXCEPT !.reading[k] = @ - 1]
             free == done.reading[k] = 0 /\ k \in A.deferred /\ A.held[k] = 0
             loose == IF free THEN [done EXCEPT !.deferred = @ \ {k}] ELSE done
  <1>0. A \in Arena /\ Marks(A)
    BY MarksOf DEF ArenaInv
  <1>1. B = (IF free THEN FreeAll(loose, {k}) ELSE loose)
    BY DEF DoneReading, FreeKey
  <1>2. SamePools(A, loose) /\ Shape(loose)
    BY <1>0 DEF Arena, Shape, SamePools
  <1>3. /\ loose.reading = [A.reading EXCEPT ![k] = @ - 1]
        /\ loose.deferred = (IF free THEN A.deferred \ {k} ELSE A.deferred)
        /\ loose.floor = A.floor /\ loose.held = A.held
        /\ loose.trimmed = A.trimmed /\ loose.pinned = A.pinned
        /\ loose.retained = A.retained /\ loose.size = A.size
    BY <1>0 DEF Arena
  <1>4. A.reading \in [Keys -> Nat] /\ A.held \in [Keys -> Nat]
    BY <1>0 DEF Marks
  <1>5. free <=> loose.reading[k] = 0 /\ k \in A.deferred /\ A.held[k] = 0
    <2>1. done.reading = loose.reading
      BY <1>0, <1>3 DEF Arena
    <2>2. QED
      BY <2>1
  <1> HIDE DEF done, free, loose
  <1>6. \A l \in Keys : /\ loose.reading[l] \in Nat /\ loose.reading[l] <= A.reading[l]
                        /\ l # k => loose.reading[l] = A.reading[l]
    BY <1>3, <1>4
  <1>7. Resident(loose) = Resident(A)
    BY <1>2 DEF SamePools, Resident
  <1>8. loose.deferred \subseteq Kept(loose)
    <2>1. ASSUME NEW l \in loose.deferred PROVE l \in Kept(loose)
      <3>1. l \in A.deferred /\ l \in Kept(A) /\ l \in Keys
        BY <1>0, <1>3, <2>1 DEF Marks, Kept
      <3>2. CASE l # k
        BY <1>3, <1>6, <3>1, <3>2 DEF Kept
      <3>3. CASE l = k
        <4>1. ~free
          BY <1>3, <2>1, <3>3
        <4>2. loose.reading[k] # 0 \/ loose.held[k] # 0
          BY <1>3, <1>5, <3>1, <3>3, <4>1
        <4>3. loose.reading[k] \in Nat /\ loose.held[k] \in Nat
          BY <1>3, <1>4, <1>6
        <4>4. QED
          BY <3>3, <4>2, <4>3 DEF Kept
      <3>4. QED
        BY <3>2, <3>3
    <2>2. QED
      BY <2>1
  <1>9. Marks(loose)
    <2>1. loose.reading \in [Keys -> Nat]
      BY <1>3, <1>4, <1>6
    <2>2. loose.deferred \in SUBSET Resident(loose)
      BY <1>0, <1>3, <1>7 DEF Marks
    <2>3. QED
      BY <1>0, <1>3, <1>7, <1>8, <2>1, <2>2 DEF Marks, FloorsWhole
  <1>10. ArenaInv(loose) /\ Lets(A, loose)
    <2>1. \A l \in Keys : loose.held[l] <= A.held[l] /\ loose.reading[l] <= A.reading[l]
      BY <1>3, <1>4, <1>6
    <2>2. QED
      BY <1>2, <1>9, <2>1, LoosenKeeps
  <1>11. CASE free
    <2>1. {k} \in SUBSET Resident(loose) /\ B = FreeAll(loose, {k})
      BY <1>0, <1>1, <1>5, <1>7, <1>11 DEF Marks
    <2>2. ArenaInv(B) /\ Lets(loose, B)
      BY <1>10, <2>1, FreeAllKeeps
    <2>3. A \in Arena /\ loose \in Arena /\ B \in Arena
      BY <1>10, <2>2 DEF ArenaInv
    <2>4. QED
      BY <1>10, <2>2, <2>3, LetsBoth
  <1>12. CASE ~free
    BY <1>1, <1>10, <1>12
  <1>13. QED
    BY <1>11, <1>12

\* Only k's readings change.
LEMMA DoneReadingOthers ==
    ASSUME NEW A, ArenaInv(A), NEW k \in Keys, NEW B, B = DoneReading(A, k)
    PROVE  \A l \in Keys \ {k} : B.reading[l] = A.reading[l]
  <1>0. A \in Arena
    BY DEF ArenaInv
  <1> DEFINE done == [A EXCEPT !.reading[k] = @ - 1]
             loose == [done EXCEPT !.deferred = @ \ {k}]
             C == FreeAll(loose, {k})
  <1>1. B = C \/ B = done
    BY DEF DoneReading, FreeKey
  <1>2. done.reading = [A.reading EXCEPT ![k] = @ - 1] /\ loose.reading = done.reading
    BY <1>0 DEF Arena
  <1>3. C.reading = loose.reading
    BY <1>0 DEF FreeAll, Arena
  <1>4. A.reading \in [Keys -> Nat]
    BY <1>0, ArenaFields
  <1> HIDE DEF done, loose, C
  <1>5. \A l \in Keys \ {k} : done.reading[l] = A.reading[l]
    BY <1>2, <1>4
  <1>6. QED
    BY <1>1, <1>2, <1>3, <1>5

\* A released hold ends, or one of several does.
Released(A, B, k) ==
    /\ Sheds(A, B) /\ B.reading = A.reading
    /\ \A l \in Keys \ {k} : B.held[l] = A.held[l]
    /\ B.held[k] = IF A.held[k] > 0 THEN A.held[k] - 1 ELSE 0

LEMMA ReleaseSheds ==
    ASSUME NEW A, ArenaInv(A), NEW k \in Keys, NEW B, B = Release(A, k)
    PROVE  Released(A, B, k)
  <1>0. A \in Arena /\ A.held \in [Keys -> Nat]
    BY ArenaFields DEF ArenaInv
  <1>1. CASE ~(A.held[k] > 1)
    <2>1. B = DropHolds(A, {k})
      BY <1>1 DEF Release
    <2>2. Dropped(A, B, {k})
      BY <2>1, DropHoldsKeeps
    <2>3. B.held[k] = 0 /\ \A l \in Keys \ {k} : B.held[l] = A.held[l]
      BY <2>2 DEF Dropped
    <2>4. (IF A.held[k] > 0 THEN A.held[k] - 1 ELSE 0) = 0
      BY <1>0, <1>1
    <2>5. QED
      BY <2>2, <2>3, <2>4 DEF Dropped, Released
  <1>2. CASE A.held[k] > 1
    <2>1. B = [A EXCEPT !.held[k] = @ - 1]
      BY <1>2 DEF Release
    <2>2. /\ B.held = [A.held EXCEPT ![k] = @ - 1] /\ B.reading = A.reading
          /\ B.deferred = A.deferred /\ B.retained = A.retained /\ SamePools(A, B)
      BY <1>0, <2>1 DEF Arena, SamePools
    <2>3. Sheds(A, B)
      BY <2>2, PoolsNarrow DEF Sheds, Resident, SamePools
    <2>4. /\ B.held[k] = A.held[k] - 1 /\ \A l \in Keys \ {k} : B.held[l] = A.held[l]
      BY <1>0, <2>2
    <2>5. A.held[k] > 0
      BY <1>0, <1>2
    <2>6. QED
      BY <2>2, <2>3, <2>4, <2>5 DEF Released
  <1>3. QED
    BY <1>1, <1>2

\* A reading of k ended; k may go with the last one, if its free was owed.
ReadDone(A, B, k) ==
    /\ Sheds(A, B) /\ B.held = A.held /\ B.reading = [A.reading EXCEPT ![k] = @ - 1]
    /\ Resident(A) \ {k} \subseteq Resident(B)
    /\ (k \in A.deferred => A.held[k] > 0 \/ A.reading[k] > 1) =>
          Resident(B) = Resident(A) /\ B.deferred = A.deferred /\ SamePools(A, B)

LEMMA DoneReadingSheds ==
    ASSUME NEW A, ArenaInv(A), NEW k \in Keys, A.reading[k] > 0, NEW B, B = DoneReading(A, k)
    PROVE  ReadDone(A, B, k)
  <1> DEFINE done == [A EXCEPT !.reading[k] = @ - 1]
             loose == [done EXCEPT !.deferred = @ \ {k}]
  <1>0. A \in Arena /\ A.held \in [Keys -> Nat] /\ A.reading \in [Keys -> Nat]
        /\ A.deferred \in SUBSET Keys
    BY ArenaFields DEF ArenaInv
  <1>1. /\ done.reading = [A.reading EXCEPT ![k] = @ - 1] /\ done.held = A.held
        /\ done.deferred = A.deferred /\ done.retained = A.retained
        /\ done.full = A.full /\ done.base = A.base /\ SamePools(A, done)
    BY <1>0 DEF Arena, SamePools
  <1>2. /\ loose.reading = done.reading /\ loose.held = A.held
        /\ loose.deferred = A.deferred \ {k} /\ loose.retained = A.retained
        /\ loose.full = A.full /\ loose.base = A.base /\ SamePools(A, loose)
    BY <1>0 DEF Arena, SamePools
  <1>3. loose \in Arena
    <2>1. [A.reading EXCEPT ![k] = @ - 1] \in [Keys -> Nat]
      <3>1. A.reading[k] - 1 \in Nat
        BY <1>0
      <3>2. QED
        BY <1>0, <3>1
    <2>2. A.deferred \ {k} \in SUBSET Keys
      BY <1>0
    <2>3. QED
      BY <1>0, <2>1, <2>2 DEF Arena
  <1>4. B = IF done.reading[k] = 0 /\ k \in A.deferred /\ A.held[k] = 0
            THEN FreeAll(loose, {k}) ELSE done
    BY DEF DoneReading, FreeKey
  <1> HIDE DEF done, loose
  <1>5. CASE done.reading[k] = 0 /\ k \in A.deferred /\ A.held[k] = 0
    <2>1. /\ Sheds(loose, B) /\ B.reading = loose.reading /\ B.held = loose.held
          /\ k \in Resident(B) => k \in B.deferred
          /\ Resident(B) = Resident(loose) \ ({k} \ Kept(loose))
      BY <1>3, <1>4, <1>5, FreeAllSheds
    <2>2. Resident(loose) = Resident(A)
      BY <1>2 DEF Resident
    <2>3. Sheds(A, B)
      <3>1. ASSUME NEW l \in Keys PROVE Narrower(A, B, l)
        <4>1. Narrower(A, loose, l) /\ Narrower(loose, B, l)
          BY <1>2, <2>1, PoolsNarrow DEF Sheds
        <4> QED BY <4>1 DEF Narrower
      <3>2. \A l \in Resident(B) :
                /\ B.base[l] = A.base[l]
                /\ l \in A.retained => l \in B.retained
                /\ l \in A.deferred => l \in B.deferred
        BY <1>2, <2>1, <2>2 DEF Sheds
      <3> QED BY <2>1, <2>2, <3>1, <3>2 DEF Sheds
    <2>4. Resident(A) \ {k} \subseteq Resident(B)
      BY <2>1, <2>2
    <2>5. ~(A.held[k] > 0 \/ A.reading[k] > 1)
      <3>1. A.reading[k] - 1 = 0
        BY <1>0, <1>1, <1>5
      <3>2. QED
        BY <1>0, <1>5, <3>1
    <2>6. QED
      BY <1>1, <1>2, <1>5, <2>1, <2>3, <2>4, <2>5 DEF ReadDone
  <1>6. CASE ~(done.reading[k] = 0 /\ k \in A.deferred /\ A.held[k] = 0)
    <2>1. B = done
      BY <1>4, <1>6
    <2>2. Resident(B) = Resident(A)
      BY <1>1, <2>1 DEF Resident
    <2>3. Sheds(A, B)
      BY <1>1, <2>1, <2>2, PoolsNarrow DEF Sheds
    <2>4. QED
      BY <1>1, <2>1, <2>2, <2>3 DEF ReadDone
  <1>7. QED
    BY <1>5, <1>6

\* A release spares what is owed no free.
LEMMA ReleaseSpares ==
    ASSUME NEW A, ArenaInv(A), NEW k \in Keys, NEW B, B = Release(A, k)
    PROVE  SparesBut(A, B, A.deferred)
  <1>0. A \in Arena
    BY DEF ArenaInv
  <1>1. CASE ~(A.held[k] > 1)
    <2>1. B = DropHolds(A, {k})
      BY <1>1 DEF Release
    <2> QED BY <2>1, DropHoldsKeeps
  <1>2. CASE A.held[k] > 1
    <2>1. B = [A EXCEPT !.held[k] = @ - 1]
      BY <1>2 DEF Release
    <2>2. SamePools(A, B) /\ B.retained = A.retained /\ B.deferred = A.deferred
      BY <1>0, <2>1 DEF Arena, SamePools
    <2> QED BY <2>2, MarksSpare DEF SparesBut
  <1> QED BY <1>1, <1>2

\* The end of a reading spares what is owed no free, and takes no page.
LEMMA DoneReadingSpares ==
    ASSUME NEW A, ArenaInv(A), NEW k \in Keys, A.reading[k] > 0, NEW B, B = DoneReading(A, k)
    PROVE  SparesBut(A, B, A.deferred) /\ Roomier(A, B)
  <1> DEFINE done == [A EXCEPT !.reading[k] = @ - 1]
             loose == [done EXCEPT !.deferred = @ \ {k}]
  <1>0. A \in Arena /\ A.reading \in [Keys -> Nat] /\ A.deferred \in SUBSET Keys
    BY ArenaFields DEF ArenaInv
  <1>1. /\ SamePools(A, done) /\ done.retained = A.retained /\ done.deferred = A.deferred
        /\ SamePools(A, loose) /\ loose.retained = A.retained
        /\ loose.deferred = A.deferred \ {k}
    BY <1>0 DEF Arena, SamePools
  <1>2. loose \in Arena
    <2>1. [A.reading EXCEPT ![k] = @ - 1] \in [Keys -> Nat]
      <3>1. A.reading[k] - 1 \in Nat
        BY <1>0
      <3> QED BY <1>0, <3>1
    <2>2. A.deferred \ {k} \in SUBSET Keys
      BY <1>0
    <2> QED BY <1>0, <2>1, <2>2 DEF Arena
  <1>3. \/ B = done
        \/ k \in A.deferred /\ B = FreeAll(loose, {k})
    BY DEF DoneReading, FreeKey
  <1> HIDE DEF done, loose
  <1>4. CASE B = done
    BY <1>1, <1>4, MarksSpare DEF SparesBut, Roomier, SamePools
  <1>5. CASE k \in A.deferred /\ B = FreeAll(loose, {k})
    <2>1. SparesBut(loose, B, {k}) /\ Roomier(loose, B)
      BY <1>2, <1>5, FreeSpares
    <2>2. ASSUME NEW l \in Keys \ A.deferred PROVE Spares(A, B, l)
      <3>1. Spares(A, loose, l)
        BY <1>1, MarksSpare
      <3>2. Spares(loose, B, l)
        BY <1>5, <2>1 DEF SparesBut
      <3> QED BY <3>1, <3>2, SparesBoth
    <2> QED BY <1>1, <2>1, <2>2 DEF SparesBut, Roomier, SamePools
  <1> QED BY <1>3, <1>4, <1>5

\* The marks of B are those of A.
SameMarks(A, B) ==
    /\ B.held = A.held /\ B.reading = A.reading /\ B.deferred = A.deferred
    /\ B.floor = A.floor /\ B.trimmed = A.trimmed /\ B.pinned = A.pinned
    /\ B.retained = A.retained /\ B.size = A.size

\* A change of pools that loses no key keeps the arena's invariant.
LEMMA PoolsKeep ==
    ASSUME NEW A, ArenaInv(A), NEW B, Shape(B), SameMarks(A, B),
           B.base \in [Keys -> Nat], B.start \in [Keys -> Nat],
           PoolFine(B.full, NumPages, B.base, Zeros), SlideFine(B), Anchored(B),
           Resident(A) \subseteq Resident(B), HasSliding => B.slide.resident = Resident(B)
    PROVE  ArenaInv(B) /\ Lets(A, B)
  <1>0. A \in Arena /\ Marks(A)
    BY MarksOf DEF ArenaInv
  <1>1. Typed(B)
    <2>1. B.full \in Pool(NumPages) /\ B.slide \in Pool(NumSliding)
      BY DEF PoolFine, PoolInv, SlideFine
    <2>2. /\ B.held \in [Keys -> Nat] /\ B.reading \in [Keys -> Nat]
          /\ B.deferred \in SUBSET Keys /\ B.floor \in [Keys -> Nat \cup {NoFloor}]
          /\ B.trimmed \in SUBSET Keys /\ B.pinned \in SUBSET Keys
          /\ B.retained \in SUBSET Keys /\ B.size \in [Keys -> Nat]
      BY <1>0, ArenaFields DEF SameMarks
    <2>3. QED
      BY <2>1, <2>2 DEF Typed
  <1>2. B \in Arena
    BY <1>1, ArenaIs
  <1>3. Consistent(B)
    <2>1. B.pinned \cup B.retained \cup B.deferred \subseteq Resident(B)
      BY <1>0 DEF Marks, SameMarks
    <2>2. B.pinned \cap B.retained = {}
      BY <1>0 DEF Marks, SameMarks
    <2>3. QED
      BY <2>1, <2>2 DEF Consistent
  <1>4. B.deferred \subseteq Kept(B) /\ FloorsWhole(B)
    BY <1>0 DEF Marks, SameMarks, Kept, FloorsWhole
  <1>5. ArenaInv(B)
    BY <1>2, <1>3, <1>4 DEF ArenaInv
  <1>6. Lets(A, B)
    <2>1. \A k \in Keys : A.held[k] \in Nat /\ A.reading[k] \in Nat
      BY <1>0, ArenaFields
    <2>2. \A k \in Keys : B.held[k] <= A.held[k] /\ B.reading[k] <= A.reading[k]
      BY <2>1 DEF SameMarks
    <2>3. QED
      BY <2>2, LetsMarks
  <1>7. QED
    BY <1>5, <1>6

\* A resident key is in use again.
LEMMA PinKeeps ==
    ASSUME NEW A, ArenaInv(A), NEW k \in Resident(A), NEW B, B = Pin(A, k)
    PROVE  /\ ArenaInv(B) /\ Lets(A, B) /\ Resident(B) = Resident(A)
           /\ B.held = A.held /\ B.reading = A.reading
  <1>0. A \in Arena /\ Marks(A)
    BY MarksOf DEF ArenaInv
  <1>1. B = [A EXCEPT !.pinned = @ \union {k}, !.retained = @ \ {k}, !.size[k] = 0]
    BY DEF Pin
  <1>2. SamePools(A, B) /\ Shape(B)
    BY <1>0, <1>1 DEF Arena, Shape, SamePools
  <1>3. /\ B.held = A.held /\ B.reading = A.reading /\ B.deferred = A.deferred
        /\ B.floor = A.floor /\ B.trimmed = A.trimmed
        /\ B.pinned = A.pinned \cup {k} /\ B.retained = A.retained \ {k}
        /\ B.size = [A.size EXCEPT ![k] = 0]
    BY <1>0, <1>1 DEF Arena
  <1>4. Resident(B) = Resident(A) /\ Kept(B) = Kept(A)
    BY <1>2, <1>3 DEF SamePools, Resident, Kept
  <1>5. Marks(B)
    <2>1. B.size \in [Keys -> Nat]
      <3>1. A.size \in [Keys -> Nat]
        BY <1>0 DEF Marks
      <3>2. B.size = [A.size EXCEPT ![k] = 0]
        BY <1>3
      <3>3. k \in Keys
        BY <1>0, ArenaFields, Fields, PoolNats DEF Resident
      <3>4. QED
        BY <3>1, <3>2, <3>3
    <2>2. /\ B.pinned \in SUBSET Resident(B) /\ B.retained \in SUBSET Resident(B)
          /\ B.pinned \cap B.retained = {}
      BY <1>0, <1>3, <1>4 DEF Marks
    <2>3. QED
      BY <1>0, <1>3, <1>4, <2>1, <2>2 DEF Marks, FloorsWhole
  <1>6. \A l \in Keys : A.held[l] \in Nat /\ A.reading[l] \in Nat
    BY <1>0, ArenaFields
  <1>7. \A l \in Keys : B.held[l] <= A.held[l] /\ B.reading[l] <= A.reading[l]
    BY <1>3, <1>6
  <1>8. ArenaInv(B) /\ Lets(A, B)
    BY <1>2, <1>5, <1>7, LoosenKeeps
  <1>9. QED
    BY <1>3, <1>4, <1>8

\* The eviction left k as it was.
Untouched(A, B, k) ==
    /\ B.base[k] = A.base[k] /\ B.start[k] = A.start[k]
    /\ B.full.tokens[k] = A.full.tokens[k]
    /\ TablePages(B.full, k) = TablePages(A.full, k)
    /\ HasSliding => TablePages(B.slide, k) = TablePages(A.slide, k)
    /\ k \in Resident(B) <=> k \in Resident(A)

\* Eviction frees retained keys that nothing keeps, and touches no other.
LEMMA EvictKeeps ==
    ASSUME NEW A, ArenaInv(A), NEW enough, NEW B \in EvictUntil(A, enough)
    PROVE  /\ ArenaInv(B) /\ Lets(A, B) /\ B.held = A.held /\ B.reading = A.reading
           /\ B.pinned \subseteq A.pinned
           /\ \A k \in Keys \ Evictable(A) : Untouched(A, B, k)
  <1>0. A \in Arena /\ Marks(A)
    BY MarksOf DEF ArenaInv
  <1>1. PICK V \in SUBSET Evictable(A) : B = FreeAll(A, V)
    BY DEF EvictUntil
  <1>2. V \in SUBSET Resident(A) /\ V \ Kept(A) = V
    BY <1>0 DEF Marks, Evictable
  <1>3. ArenaInv(B) /\ Lets(A, B) /\ Resident(B) = Resident(A) \ V
    <2>1. ArenaInv(B) /\ Lets(A, B) /\ Resident(B) = Resident(A) \ (V \ Kept(A))
      BY <1>1, <1>2, FreeAllKeeps
    <2>2. QED
      BY <1>2, <2>1
  <1>4. FreedFields(A, B, V, V \cap Kept(A))
    <2>1. FreedFields(A, B, V \ Kept(A), V \cap Kept(A))
      BY <1>0, <1>1, FreeAllIs
    <2>2. QED
      BY <1>2, <2>1
  <1>5. B.held = A.held /\ B.reading = A.reading /\ B.pinned \subseteq A.pinned
    BY <1>4 DEF FreedFields
  <1>6. ASSUME NEW k \in Keys \ Evictable(A) PROVE Untouched(A, B, k)
    <2>1. k \in Keys \ V
      OBVIOUS
    <2>2. B.base[k] = A.base[k] /\ B.start[k] = A.start[k]
      BY <1>4, <2>1 DEF FreedFields
    <2>3. PoolInv(A.full, NumPages) /\ B.full = FreeKeys(A.full, V)
      BY <1>4 DEF ArenaInv, PoolFine, FreedFields
    <2>4. /\ B.full.tokens[k] = A.full.tokens[k]
          /\ TablePages(B.full, k) = TablePages(A.full, k)
      BY <2>1, <2>3, FreeKeysKeeps, PoolNats
    <2>5. ASSUME HasSliding PROVE TablePages(B.slide, k) = TablePages(A.slide, k)
      <3>1. PoolInv(A.slide, NumSliding) /\ B.slide = FreeKeys(A.slide, V)
        BY <1>4, <2>5 DEF ArenaInv, SlideFine, PoolFine, FreedFields
      <3>2. QED
        BY <2>1, <3>1, FreeKeysKeeps, PoolNats
    <2>6. k \in Resident(B) <=> k \in Resident(A)
      BY <1>3, <2>1
    <2>7. QED
      BY <2>2, <2>4, <2>5, <2>6 DEF Untouched
  <1>7. QED
    BY <1>3, <1>5, <1>6

\* Eviction sheds retained keys, and puts no free off.
LEMMA EvictSheds ==
    ASSUME NEW A, ArenaInv(A), NEW enough, NEW B \in EvictUntil(A, enough)
    PROVE  Sheds(A, B) /\ B.deferred = A.deferred /\ B.reading = A.reading /\ B.held = A.held
  <1>0. A \in Arena
    BY DEF ArenaInv
  <1>1. PICK V \in SUBSET Evictable(A) : B = FreeAll(A, V)
    BY DEF EvictUntil
  <1>2. Sheds(A, B) /\ B.reading = A.reading /\ B.held = A.held
    BY <1>0, <1>1, FreeAllSheds
  <1>3. V \cap Kept(A) = {}
    BY DEF Evictable
  <1>4. B.deferred = A.deferred
    <2>1. FreedFields(A, B, V \ Kept(A), V \cap Kept(A))
      BY <1>0, <1>1, FreeAllIs
    <2>2. QED
      BY <1>3, <2>1 DEF FreedFields
  <1>5. QED
    BY <1>2, <1>4

\* Documents in use grow by a page each, or none does.
LEMMA GrowPagesKeeps ==
    ASSUME NEW A, ArenaInv(A), NEW V \in SUBSET Resident(A), V \cap A.retained = {},
           NEW out \in GrowPages(A, V)
    PROVE  ArenaInv(out.arena) /\ Lets(A, out.arena)
  <1>0. A \in Arena /\ Marks(A)
    BY MarksOf DEF ArenaInv
  <1> DEFINE n == Cardinality(V)
             Grown(B) == [B EXCEPT !.full = GrowEach(@, V),
                               !.slide = IF HasSliding THEN GrowEach(@, V) ELSE @]
  <1>1. PICK B \in EvictForPages(A, n, n) :
            out = IF Covers(B, n, n) THEN [ok |-> TRUE, arena |-> Grown(B)]
                  ELSE [ok |-> FALSE, arena |-> B]
    BY Zenon DEF GrowPages
  <1>2. /\ ArenaInv(B) /\ Lets(A, B)
        /\ \A k \in Keys \ Evictable(A) : Untouched(A, B, k)
    BY <1>1, EvictKeeps DEF EvictForPages
  <1>3. B \in Arena
    BY <1>2 DEF ArenaInv
  <1>4. CASE ~Covers(B, n, n)
    BY <1>1, <1>2, <1>4
  <1>5. CASE Covers(B, n, n)
    <2> DEFINE C == Grown(B)
    <2>1. V \in SUBSET Resident(B)
      <3>1. ASSUME NEW k \in V PROVE k \in Resident(B)
        <4>1. k \in Resident(A) /\ k \notin A.retained /\ k \in Keys
          BY <1>0, ArenaFields DEF Marks, Resident, Pool
        <4>2. Untouched(A, B, k)
          BY <1>2, <4>1 DEF Evictable
        <4>3. QED
          BY <4>1, <4>2 DEF Untouched
      <3>2. QED
        BY <3>1
    <2>2. C = [B EXCEPT !.full = GrowEach(@, V),
                        !.slide = IF HasSliding THEN GrowEach(@, V) ELSE @]
      OBVIOUS
    <2> HIDE DEF C
    <2>3. SameMarks(B, C) /\ Shape(C)
      BY <1>3, <2>2 DEF Arena, Shape, SameMarks
    <2>4. /\ C.full = GrowEach(B.full, V) /\ C.base = B.base /\ C.start = B.start
          /\ C.slide = (IF HasSliding THEN GrowEach(B.slide, V) ELSE B.slide)
      BY <1>3, <2>2 DEF Arena
    <2>5. PoolFine(C.full, NumPages, B.base, Zeros) /\ C.full.resident = B.full.resident
      <3>1. PoolFine(B.full, NumPages, B.base, Zeros)
        BY <1>2 DEF ArenaInv
      <3>2. V \in SUBSET B.full.resident /\ Cardinality(V) <= FreeCount(B.full)
        BY <1>5, <2>1 DEF Covers, Resident
      <3>3. QED
        BY <2>4, <3>1, <3>2, FineGrowEach, PoolNats
    <2>6. /\ SlideFine(C)
          /\ HasSliding => C.slide.resident = B.slide.resident
      <3>1. CASE HasSliding
        <4>1. PoolFine(B.slide, NumSliding, B.base, B.start)
          BY <1>2, <3>1 DEF ArenaInv, SlideFine
        <4>2. V \in SUBSET B.slide.resident /\ Cardinality(V) <= FreeCount(B.slide)
          BY <1>2, <1>5, <2>1, <3>1 DEF Covers, ArenaInv, Consistent
        <4>3. PoolFine(C.slide, NumSliding, B.base, B.start) /\ C.slide.resident = B.slide.resident
          BY <2>4, <3>1, <4>1, <4>2, FineGrowEach, PoolNats
        <4>4. QED
          BY <2>4, <3>1, <4>3 DEF SlideFine
      <3>2. CASE ~HasSliding
        BY <1>2, <2>4, <3>2 DEF ArenaInv, SlideFine
      <3>3. QED
        BY <3>1, <3>2
    <2>7. Resident(C) = Resident(B)
      BY <2>5 DEF Resident
    <2>8. HasSliding => C.slide.resident = Resident(C)
      BY <1>2, <2>6, <2>7 DEF ArenaInv, Consistent
    <2>9. C.base \in [Keys -> Nat] /\ C.start \in [Keys -> Nat]
      BY <1>3, <2>4, ArenaFields
    <2>10. PoolFine(C.full, NumPages, C.base, Zeros) /\ Anchored(C)
      BY <1>2, <2>4, <2>5 DEF ArenaInv, Anchored
    <2>11. ArenaInv(C) /\ Lets(B, C)
      BY <1>2, <2>3, <2>6, <2>7, <2>8, <2>9, <2>10, PoolsKeep
    <2>12. A \in Arena /\ C \in Arena
      BY <1>0, <2>11 DEF ArenaInv
    <2>13. Lets(A, C)
      BY <1>0, <1>2, <1>3, <2>11, <2>12, LetsBoth
    <2>14. out.arena = C
      BY <1>1, <1>5 DEF C
    <2>15. QED
      BY <2>11, <2>13, <2>14
  <1>6. QED
    BY <1>4, <1>5

\* Freeing every key, at a resize.
LEMMA FreeResidentKeeps ==
    ASSUME NEW A, ArenaInv(A), NEW B, B = FreeResident(A)
    PROVE  /\ ArenaInv(B) /\ Lets(A, B) /\ Sheds(A, B)
           /\ B.reading = A.reading /\ \A k \in Keys : B.held[k] = 0
  <1> DEFINE C == DropHolds(A, Keys)
  <1>1. ArenaInv(C) /\ Lets(A, C) /\ Dropped(A, C, Keys)
    BY DropHoldsKeeps
  <1>2. B = FreeAll(C, Resident(C))
    BY DEF FreeResident
  <1> HIDE DEF C
  <1>3. ArenaInv(B) /\ Lets(C, B)
    BY <1>1, <1>2, FreeAllKeeps
  <1>4. A \in Arena /\ B \in Arena /\ C \in Arena
    BY <1>1, <1>3 DEF ArenaInv
  <1>5. Sheds(C, B) /\ B.reading = C.reading /\ B.held = C.held
    BY <1>2, <1>4, FreeAllSheds
  <1>6. /\ Sheds(A, C) /\ C.reading = A.reading
        /\ \A k \in Keys : C.held[k] = 0
    BY <1>1 DEF Dropped
  <1>7. Sheds(A, B)
    BY <1>5, <1>6, ShedsBoth
  <1>8. Lets(A, B)
    BY <1>1, <1>3, <1>4, LetsBoth
  <1>9. QED
    BY <1>3, <1>5, <1>6, <1>7, <1>8

\* What is left of k is evictable.
Parks(A, B, k) ==
    /\ Sheds(A, B) /\ B.reading = A.reading /\ B.held = A.held
    /\ k \in Resident(B) => k \in B.retained

\* A retained prefix keeps the rows it has, and is evictable.
LEMMA RetainKeeps ==
    ASSUME NEW A, ArenaInv(A), NEW k \in Resident(A),
           NEW B \in Retain(A, k, A.base[k])
    PROVE  /\ ArenaInv(B) /\ Lets(A, B) /\ Parks(A, B, k)
           /\ SparesBut(A, B, A.retained \cup {k})
  <1>0. A \in Arena /\ Marks(A)
    BY MarksOf DEF ArenaInv
  <1> DEFINE full == Rewind(A.full, k, A.base[k])
             slide == IF HasSliding THEN Rewind(A.slide, k, A.base[k] - A.start[k])
                      ELSE A.slide
             R == [A EXCEPT !.full = full, !.slide = slide]
             size == Cardinality(SoleHeld(full, k))
             C == [A EXCEPT !.full = full, !.slide = slide,
                            !.pinned = @ \ {k}, !.retained = @ \union {k},
                            !.size[k] = size]
  <1>1. B \in EvictRetained(C, Bigger(0, RetainedPages(C) - CapPages))
    <2>1. C = [A EXCEPT !.full = full,
                          !.slide = IF HasSliding
                                    THEN Rewind(@, k, A.base[k] - A.start[k]) ELSE @,
                          !.pinned = @ \ {k},
                          !.retained = @ \union {k},
                          !.size[k] = Cardinality(SoleHeld(full, k))]
      BY <1>0 DEF Arena
    <2>2. QED
      BY <2>1 DEF Retain
  <1>2. full = Rewind(A.full, k, A.base[k])
    OBVIOUS
  <1>3. HasSliding => slide = Rewind(A.slide, k, A.base[k] - A.start[k])
    OBVIOUS
  <1>4. ~HasSliding => slide = A.slide
    OBVIOUS
  <1>5. size = Cardinality(SoleHeld(full, k))
    OBVIOUS
  <1>6. /\ R = [A EXCEPT !.full = full, !.slide = slide]
        /\ C = [A EXCEPT !.full = full, !.slide = slide,
                            !.pinned = @ \ {k}, !.retained = @ \union {k},
                            !.size[k] = size]
    OBVIOUS
  <1> HIDE DEF full, slide, R, size, C
  <1>7. k \in Keys /\ A.base[k] \in Nat
    BY <1>0, ArenaFields, Fields, PoolNats DEF Resident
  <1>8. PoolFine(full, NumPages, A.base, Zeros) /\ full.resident = A.full.resident
    <2>1. PoolFine(A.full, NumPages, A.base, Zeros) /\ k \in A.full.resident
      BY DEF ArenaInv, Resident
    <2>2. A.base[k] = A.base[k] - Zeros[k]
      BY <1>7 DEF Zeros
    <2>3. QED
      BY <1>2, <2>1, <2>2, FineRewind, PoolNats
  <1>10. HasSliding => /\ PoolFine(slide, NumSliding, A.base, A.start)
                       /\ slide.resident = A.slide.resident
    <2>1. SUFFICES ASSUME HasSliding
                   PROVE  /\ PoolFine(slide, NumSliding, A.base, A.start)
                          /\ slide.resident = A.slide.resident
      OBVIOUS
    <2>2. PoolFine(A.slide, NumSliding, A.base, A.start) /\ A.slide.resident = A.full.resident
      BY <2>1 DEF ArenaInv, SlideFine, Consistent, Resident
    <2>3. k \in A.slide.resident
      BY <2>2 DEF Resident
    <2>4. slide = Rewind(A.slide, k, A.base[k] - A.start[k])
      BY <1>3, <2>1
    <2>5. QED
      BY <2>2, <2>3, <2>4, FineRewind, PoolNats
  <1>11. /\ Shape(R) /\ SameMarks(A, R) /\ R.base = A.base /\ R.start = A.start
         /\ R.full = full /\ R.slide = slide
    BY <1>0, <1>6 DEF Arena, Shape, SameMarks
  <1>12. ArenaInv(R) /\ Lets(A, R) /\ Resident(R) = Resident(A)
    <2>1. R.base \in [Keys -> Nat] /\ R.start \in [Keys -> Nat]
      BY <1>0, <1>11, ArenaFields
    <2>2. PoolFine(R.full, NumPages, R.base, Zeros) /\ Anchored(R)
      BY <1>8, <1>11 DEF ArenaInv, Anchored
    <2>3. SlideFine(R)
      BY <1>4, <1>10, <1>11 DEF ArenaInv, SlideFine
    <2>4. Resident(R) = Resident(A)
      BY <1>8, <1>11 DEF Resident
    <2>5. HasSliding => R.slide.resident = Resident(R)
      BY <1>10, <1>11, <2>4 DEF ArenaInv, Consistent
    <2>6. QED
      BY <1>11, <2>1, <2>2, <2>3, <2>4, <2>5, PoolsKeep
  <1>13. size \in Nat
    <2>1. full \in Pool(NumPages)
      BY <1>8 DEF PoolFine, PoolInv
    <2>2. SoleHeld(full, k) \subseteq Pages(NumPages)
      BY <1>7, <2>1, TableIs, PoolNats DEF SoleHeld
    <2>3. IsFiniteSet(Pages(NumPages))
      BY FS_Interval, PoolNats DEF Pages
    <2>4. IsFiniteSet(SoleHeld(full, k))
      BY <2>2, <2>3, FS_Subset
    <2>5. QED
      BY <1>5, <2>4, FS_CardinalityType
  <1>14. /\ Shape(C) /\ SamePools(R, C)
         /\ C.held = R.held /\ C.reading = R.reading /\ C.deferred = R.deferred
         /\ C.floor = R.floor /\ C.trimmed = R.trimmed
         /\ C.pinned = R.pinned \ {k} /\ C.retained = R.retained \cup {k}
    BY <1>0, <1>6 DEF Arena, Shape, SamePools
  <1>15. C.size = [A.size EXCEPT ![k] = size] /\ R.size = A.size
    BY <1>0, <1>6 DEF Arena
  <1>16. Resident(C) = Resident(R) /\ Kept(C) = Kept(R)
    BY <1>14 DEF SamePools, Resident, Kept
  <1>17. Marks(R) /\ R \in Arena
    BY <1>12, MarksOf DEF ArenaInv
  <1>18. Marks(C)
    <2>1. C.size \in [Keys -> Nat]
      <3>1. A.size \in [Keys -> Nat]
        BY <1>0 DEF Marks
      <3>2. QED
        BY <1>7, <1>13, <1>15, <3>1
    <2>2. /\ C.pinned \in SUBSET Resident(C) /\ C.retained \in SUBSET Resident(C)
          /\ C.pinned \cap C.retained = {}
      BY <1>12, <1>14, <1>16, <1>17 DEF Marks
    <2>3. QED
      BY <1>14, <1>16, <1>17, <2>1, <2>2 DEF Marks, FloorsWhole
  <1>19. ArenaInv(C) /\ Lets(R, C)
    <2>1. \A l \in Keys : R.held[l] \in Nat /\ R.reading[l] \in Nat
      BY <1>17, ArenaFields
    <2>2. \A l \in Keys : C.held[l] <= R.held[l] /\ C.reading[l] <= R.reading[l]
      BY <1>14, <2>1
    <2>3. QED
      BY <1>12, <1>14, <1>18, <2>2, LoosenKeeps
  <1>20. ArenaInv(B) /\ Lets(C, B)
    BY <1>1, <1>19, EvictKeeps DEF EvictRetained
  <1>21. B \in Arena /\ C \in Arena
    BY <1>19, <1>20 DEF ArenaInv
  <1>22. Lets(A, C)
    BY <1>0, <1>12, <1>17, <1>19, <1>21, LetsBoth
  <1>23. Lets(A, B)
    BY <1>0, <1>20, <1>21, <1>22, LetsBoth
  <1>24. Sheds(C, B) /\ B.reading = C.reading /\ B.held = C.held
    BY <1>1, <1>19, EvictSheds DEF EvictRetained
  <1>25. /\ Resident(C) = Resident(A) /\ C.base = A.base /\ C.deferred = A.deferred
         /\ C.reading = A.reading /\ C.held = A.held /\ C.retained = A.retained \cup {k}
    BY <1>11, <1>12, <1>14, <1>16 DEF SamePools, SameMarks
  <1>26. Sheds(A, C)
    <2>1. C.full = full /\ C.slide = slide /\ C.start = A.start
      BY <1>11, <1>14 DEF SamePools
    <2>2. ASSUME NEW l \in Keys PROVE Spots(full, Zeros, l) \subseteq Spots(A.full, Zeros, l)
      <3>1. PoolFine(A.full, NumPages, A.base, Zeros) /\ k \in A.full.resident
        BY DEF ArenaInv, Resident
      <3>2. A.base[k] = A.base[k] - Zeros[k]
        BY <1>7 DEF Zeros
      <3> QED BY <1>2, <3>1, <3>2, FineRewind, PoolNats
    <2>3. ASSUME HasSliding, NEW l \in Keys
          PROVE  Spots(slide, A.start, l) \subseteq Spots(A.slide, A.start, l)
      <3>1. PoolFine(A.slide, NumSliding, A.base, A.start) /\ k \in A.slide.resident
        BY <2>3 DEF ArenaInv, SlideFine, Consistent, Resident
      <3> QED BY <1>3, <2>3, <3>1, FineRewind, PoolNats
    <2>4. \A l \in Keys : Narrower(A, C, l)
      BY <2>1, <2>2, <2>3 DEF Narrower, FullSpots, SlideSpots
    <2> QED BY <1>25, <2>4 DEF Sheds
  <1>27. Sheds(A, B)
    BY <1>24, <1>26, ShedsBoth
  <1>28. k \in Resident(B) => k \in B.retained
    BY <1>24, <1>25 DEF Sheds
  <1>29. SparesBut(A, B, A.retained \cup {k})
    <2>1. SparesBut(C, B, C.retained)
      BY <1>1, <1>19, EvictSpares DEF EvictRetained
    <2>2. ASSUME NEW l \in Keys \ (A.retained \cup {k}) PROVE Spares(A, B, l)
      <3>1. TablePages(full, l) = TablePages(A.full, l)
        <4>1. PoolFine(A.full, NumPages, A.base, Zeros) /\ k \in A.full.resident
          BY DEF ArenaInv, Resident
        <4>2. A.base[k] = A.base[k] - Zeros[k]
          BY <1>7 DEF Zeros
        <4>3. OthersKeep(A.full, full, k)
          BY <1>2, <4>1, <4>2, FineRewind, PoolNats
        <4> QED BY <4>3 DEF OthersKeep
      <3>2. ASSUME HasSliding PROVE TablePages(slide, l) = TablePages(A.slide, l)
        <4>1. PoolFine(A.slide, NumSliding, A.base, A.start) /\ k \in A.slide.resident
          BY <3>2 DEF ArenaInv, SlideFine, Consistent, Resident
        <4>2. OthersKeep(A.slide, slide, k)
          BY <1>3, <3>2, <4>1, FineRewind, PoolNats
        <4> QED BY <4>2 DEF OthersKeep
      <3>3. C.full = full /\ C.slide = slide /\ C.start = A.start
        BY <1>11, <1>14 DEF SamePools
      <3>4. Spares(A, C, l)
        BY <1>25, <3>1, <3>2, <3>3 DEF Spares
      <3>5. Spares(C, B, l)
        BY <1>25, <2>1 DEF SparesBut
      <3> QED BY <3>4, <3>5, SparesBoth
    <2> QED BY <2>2 DEF SparesBut
  <1>30. QED
    BY <1>20, <1>23, <1>24, <1>25, <1>27, <1>28, <1>29 DEF Parks

-----------------------------------------------------------------------------
(* Reservations *)

\* Taking pages leaves the others.
LEMMA LeftAfter ==
    ASSUME NEW n \in Nat, NEW P \in Pool(n), NEW m \in Nat, m <= FreeCount(P)
    PROVE  Cardinality(P.free \ Range(TakePages(P, m))) >= FreeCount(P) - m
  <1> DEFINE s == TakePages(P, m)
             T == Range(s)
  <1>1. s \in Seq(Pages(n)) /\ Len(s) = m /\ T \subseteq P.free
    BY TakePagesIs
  <1> HIDE DEF s
  <1>2. s \in Surjection(1 .. m, T)
    BY <1>1 DEF Surjection, Range
  <1>3. IsFiniteSet(1 .. m) /\ Cardinality(1 .. m) = m
    BY FS_Interval
  <1> HIDE DEF T
  <1>4. IsFiniteSet(T) /\ Cardinality(T) <= m
    BY <1>2, <1>3, FS_Surjection
  <1>5. Cardinality(P.free \ T) = Cardinality(P.free) - Cardinality(P.free \cap T)
    BY FreeFinite, FS_Difference
  <1>6. P.free \cap T = T
    BY <1>1
  <1>7. Cardinality(T) \in Nat /\ Cardinality(P.free) \in Nat
    BY <1>4, FreeFinite, FS_CardinalityType
  <1> QED BY <1>4, <1>5, <1>6, <1>7 DEF FreeCount, T, s

\* The other keys keep their tables, and all but n free pages stay free.
Draws(P, Q, k, n) == OthersKeep(P, Q, k) /\ FreeCount(Q) >= FreeCount(P) - n

\* A key that grows takes the pages it lacks.
LEMMA GrowDraws ==
    ASSUME NEW n \in Nat, NEW P \in Pool(n), NEW k \in Keys, NEW c \in Nat, NEW v,
           GrowthPages(P, k, c) <= FreeCount(P)
    PROVE  Draws(P, [Grow(P, k, c) EXCEPT !.tokens[k] = v], k, GrowthPages(P, k, c))
  <1> DEFINE m == GrowthPages(P, k, c)
             s == TakePages(P, m)
             Q == [Grow(P, k, c) EXCEPT !.tokens[k] = v]
  <1>1. m \in Nat
    BY TableIs, PagesNeededBounds DEF GrowthPages
  <1>2. Q = [[P EXCEPT !.free = @ \ Range(s), !.holds = Hold(P, Range(s)), !.owned[k] = @ \o s]
                EXCEPT !.tokens[k] = v]
    BY DEF Grow
  <1>3. Cardinality(P.free \ Range(s)) >= FreeCount(P) - m
    BY <1>1, LeftAfter
  <1> HIDE DEF m, s
  <1>4. /\ Q.free = P.free \ Range(s) /\ Q.borrowed = P.borrowed
        /\ \A l \in Keys \ {k} : Q.owned[l] = P.owned[l]
    BY <1>2 DEF Pool
  <1> HIDE DEF Q
  <1>5. OthersKeep(P, Q, k)
    BY <1>4 DEF OthersKeep, TablePages
  <1>6. FreeCount(Q) >= FreeCount(P) - m
    BY <1>3, <1>4 DEF FreeCount
  <1> QED BY <1>5, <1>6 DEF Draws, Q, m

\* A fresh key takes the pages it does not borrow.
LEMMA AllocDraws ==
    ASSUME NEW n \in Nat, NEW P \in Pool(n), NEW k \in Keys, NEW t, NEW c, NEW lent,
           PagesNeeded(c) - Len(lent) \in 0 .. FreeCount(P)
    PROVE  Draws(P, Alloc(P, k, t, c, lent), k, PagesNeeded(c) - Len(lent))
  <1> DEFINE m == PagesNeeded(c) - Len(lent)
             s == TakePages(P, m)
             Q == Alloc(P, k, t, c, lent)
  <1>1. m \in Nat /\ m <= FreeCount(P)
    BY FreeFinite
  <1>2. Q = [P EXCEPT !.resident = @ \union {k}, !.free = @ \ Range(s),
                      !.holds = Hold(P, Range(lent \o s)), !.owned[k] = s,
                      !.borrowed[k] = lent, !.tokens[k] = t]
    BY DEF Alloc
  <1> HIDE DEF m
  <1>3. Cardinality(P.free \ Range(s)) >= FreeCount(P) - m
    BY <1>1, LeftAfter
  <1> HIDE DEF s
  <1>4. /\ Q.free = P.free \ Range(s)
        /\ \A l \in Keys \ {k} : Q.owned[l] = P.owned[l] /\ Q.borrowed[l] = P.borrowed[l]
    BY <1>2 DEF Pool
  <1> HIDE DEF Q
  <1>5. OthersKeep(P, Q, k)
    BY <1>4 DEF OthersKeep, TablePages
  <1>6. FreeCount(Q) >= FreeCount(P) - m
    BY <1>3, <1>4 DEF FreeCount
  <1> QED BY <1>5, <1>6 DEF Draws, Q, m

\* The key k takes at most nf and ns pages from the pools, and the other keys
\* are spared.
Supplies(A, B, k, nf, ns) ==
    /\ SparesBut(A, B, {k})
    /\ FreeCount(B.full) >= FreeCount(A.full) - nf
    /\ HasSliding => FreeCount(B.slide) >= FreeCount(A.slide) - ns

LEMMA PoolsSupply ==
    ASSUME NEW A, NEW B, SameMarks(A, B), NEW k \in Keys, NEW nf, NEW ns,
           Draws(A.full, B.full, k, nf), HasSliding => Draws(A.slide, B.slide, k, ns),
           \A l \in Keys \ {k} : /\ l \in Resident(B) <=> l \in Resident(A)
                                 /\ B.start[l] = A.start[l]
    PROVE  Supplies(A, B, k, nf, ns)
  <1>1. ASSUME NEW l \in Keys \ {k} PROVE Spares(A, B, l)
    BY <1>1 DEF Draws, OthersKeep, Spares, SameMarks
  <1> QED BY <1>1 DEF Draws, SparesBut, Supplies

\* What a parent lends, or nothing without one.
Loan(P, n, start, lent, parent, shared, from, d) ==
    /\ lent \in Seq(Pages(n)) /\ Lends(P, lent, parent, d)
    /\ Len(lent) > 0 => from = start[parent] + d * PageTokens
    /\ Len(lent) * PageTokens = shared - from
    /\ Len(lent) = (shared - from) \div PageTokens

\* A loan is a stretch of the parent, and covers the rows it is for.
LEMMA LentIs ==
    ASSUME NEW n \in Nat, NEW P, NEW base, NEW start, PoolFine(P, n, base, start),
           NEW parent \in Keys, NEW shared \in Nat, shared % PageTokens = 0,
           NEW from \in Nat, from % PageTokens = 0, from <= shared,
           shared > 0 => start[parent] <= from /\ shared <= base[parent],
           NEW lent,
           lent = IF shared = 0 THEN <<>>
                  ELSE SharedPages(P, parent, shared - start[parent], from - start[parent])
    PROVE  \E d \in Nat : Loan(P, n, start, lent, parent, shared, from, d)
  <1>1. CASE shared = 0
    <2>1. lent = <<>> /\ Len(lent) = 0 /\ from = 0 /\ lent \in Seq(Pages(n))
      BY <1>1
    <2>2. 0 * PageTokens = 0 /\ 0 \div PageTokens = 0
      BY PageTokensAssumption
    <2>3. Lends(P, lent, parent, 0)
      BY <2>1 DEF Lends
    <2>4. Loan(P, n, start, lent, parent, shared, from, 0)
      BY <1>1, <2>1, <2>2, <2>3 DEF Loan
    <2>5. QED
      BY <2>4
  <1>2. CASE shared > 0
    <2>1. lent = SharedPages(P, parent, shared - start[parent], from - start[parent])
      BY <1>2
    <2>2. \E d \in Nat :
               /\ lent \in Seq(Pages(n)) /\ Lends(P, lent, parent, d)
               /\ from = start[parent] + d * PageTokens
               /\ Len(lent) * PageTokens = shared - from
               /\ Len(lent) = (shared - from) \div PageTokens
      BY <1>2, <2>1, SharedPagesIs
    <2>3. QED
      BY <2>2 DEF Loan
  <1>3. QED
    BY <1>1, <1>2

\* A fresh key whose leading rows, up to shared, are the parent's.
Borrows(P, base, start, k, tokens, capacity, parent, shared, from) ==
    /\ k \in Keys /\ k \notin P.resident /\ parent \in Keys
    /\ shared \in Nat /\ shared % PageTokens = 0
    /\ from \in Nat /\ from % PageTokens = 0 /\ from <= shared
    /\ tokens \in Nat /\ capacity \in Nat /\ shared <= tokens /\ tokens <= capacity
    /\ shared > 0 => start[parent] <= from /\ shared <= base[parent]
    /\ PagesNeeded(capacity - from) - (shared - from) \div PageTokens <= FreeCount(P)

\* The pages it borrows, and its table in the pool.
Lent(P, start, parent, shared, from) ==
    IF shared = 0 THEN <<>>
    ELSE SharedPages(P, parent, shared - start[parent], from - start[parent])

\* A fresh key that borrows keeps a pool fine.
LEMMA FineBorrow ==
    ASSUME NEW n \in Nat, NEW P, NEW base, NEW start, PoolFine(P, n, base, start),
           NEW k, NEW tokens, NEW capacity, NEW parent, NEW shared, NEW from,
           Borrows(P, base, start, k, tokens, capacity, parent, shared, from),
           NEW base2, NEW start2, base2[k] = tokens, start2[k] = from,
           \A l \in Keys \ {k} : base2[l] = base[l] /\ start2[l] = start[l],
           NEW Q, Q = Alloc(P, k, tokens - from, capacity - from,
                            Lent(P, start, parent, shared, from))
    PROVE  /\ PoolFine(Q, n, base2, start2) /\ Joins(P, Q, k)
           /\ Draws(P, Q, k, PagesNeeded(capacity - from) - (shared - from) \div PageTokens)
           /\ Lays(Q, start2, parent, shared, k)
  <1> DEFINE lent == Lent(P, start, parent, shared, from)
  <1> SUFFICES ASSUME k \in Keys, k \notin P.resident, parent \in Keys,
                      shared \in Nat, shared % PageTokens = 0,
                      from \in Nat, from % PageTokens = 0, from <= shared,
                      tokens \in Nat, capacity \in Nat, shared <= tokens, tokens <= capacity,
                      shared > 0 => start[parent] <= from /\ shared <= base[parent],
                      PagesNeeded(capacity - from) - (shared - from) \div PageTokens
                          <= FreeCount(P)
               PROVE  /\ PoolFine(Q, n, base2, start2) /\ Joins(P, Q, k)
                      /\ Draws(P, Q, k, PagesNeeded(capacity - from)
                                            - (shared - from) \div PageTokens)
                      /\ Lays(Q, start2, parent, shared, k)
    BY DEF Borrows
  <1>0. Q = Alloc(P, k, tokens - from, capacity - from, lent) /\
        lent = IF shared = 0 THEN <<>>
               ELSE SharedPages(P, parent, shared - start[parent], from - start[parent])
    BY DEF Lent
  <1> HIDE DEF lent
  <1>1. PICK d \in Nat : Loan(P, n, start, lent, parent, shared, from, d)
    BY <1>0, LentIs
  <1>2. /\ lent \in Seq(Pages(n)) /\ Lends(P, lent, parent, d)
        /\ Len(lent) > 0 => from = start[parent] + d * PageTokens
        /\ Len(lent) * PageTokens = shared - from
        /\ Len(lent) = (shared - from) \div PageTokens
    BY <1>1 DEF Loan
  <1> DEFINE t == tokens - from
             c == capacity - from
             m == PagesNeeded(c)
  <1>3. t \in Nat /\ c \in Nat /\ t <= c /\ shared - from <= t /\ t + from = tokens
    OBVIOUS
  <1> HIDE DEF t, c
  <1>4. m \in Nat /\ c <= m * PageTokens
    BY <1>3, PagesNeededBounds
  <1>5. m - Len(lent) <= FreeCount(P)
    BY <1>2 DEF c
  <1> HIDE DEF m
  <1>6. Len(lent) \in Nat
    BY <1>2, LenProperties
  <1>7. Len(lent) <= m
    <2>1. m * PageTokens \in Int /\ Len(lent) * PageTokens \in Int
      BY <1>4, <1>6, Times
    <2>2. Len(lent) * PageTokens <= m * PageTokens
      BY <1>2, <1>3, <1>4, <2>1
    <2>3. QED
      BY <1>4, <1>6, <2>2, TimesOrder
  <1>8. FreeCount(P) \in Nat
    <2>1. P \in Pool(n)
      BY DEF PoolFine, PoolInv
    <2>2. QED
      BY <2>1, FreeFinite
  <1>9. PagesNeeded(c) - Len(lent) \in 0 .. FreeCount(P)
    <2>1. m - Len(lent) \in 0 .. FreeCount(P)
      BY <1>4, <1>5, <1>6, <1>7, <1>8
    <2>2. QED
      BY <2>1 DEF m
  <1>10. Len(lent) * PageTokens <= t
    BY <1>2, <1>3
  <1>11. AddsRows(base, start, base2, start2, k, t, from)
    BY <1>3 DEF AddsRows
  <1>12. Q = Alloc(P, k, t, c, lent)
    BY <1>0 DEF t, c
  <1>13. FreshTable(P, n, start, k, t, c, from, lent, parent, d)
    BY <1>2, <1>3, <1>9, <1>10 DEF FreshTable
  <1>14. PoolFine(Q, n, base2, start2) /\ Joins(P, Q, k) /\ Lays(Q, start2, parent, shared, k)
    <2>1. from + Len(lent) * PageTokens = shared
      BY <1>2
    <2> QED BY <1>11, <1>12, <1>13, <2>1, FineAlloc
  <1>15. Draws(P, Q, k, PagesNeeded(capacity - from) - (shared - from) \div PageTokens)
    <2>1. P \in Pool(n)
      BY DEF PoolFine, PoolInv
    <2>2. Draws(P, Q, k, PagesNeeded(c) - Len(lent))
      BY <1>9, <1>12, <2>1, AllocDraws
    <2> QED BY <1>2, <2>2 DEF c
  <1>16. QED
    BY <1>14, <1>15

\* A document asks for rows of its own, or whose first ones its parent has.
Request(A, k, tokens, capacity, parent, shared) ==
    /\ k \in Keys /\ parent \in Keys /\ tokens \in Nat /\ capacity \in Nat /\ shared \in Nat
    /\ tokens <= capacity /\ shared <= tokens /\ shared % PageTokens = 0
    /\ k \in Resident(A) => shared = 0 /\ tokens = A.base[k]
    /\ k \notin Resident(A) /\ shared > 0 => CanBorrow(A, parent, shared)

\* A window that begins for fewer tokens begins earlier.
LEMMA OriginRises ==
    ASSUME NEW t \in Nat, NEW u \in Nat, t <= u
    PROVE  Origin(t) <= Origin(u)
  <1>1. Origin(u) \in Nat
    BY OriginIs
  <1>2. CASE t <= Window \/ Window = 0
    BY <1>1, <1>2 DEF Origin
  <1>3. CASE ~(t <= Window \/ Window = 0)
    <2> DEFINE a == (t - Window) \div PageTokens
               b == (u - Window) \div PageTokens
    <2>1. t - Window \in Int /\ u - Window \in Int /\ t - Window <= u - Window
      BY PoolNats
    <2>2. /\ a \in Int /\ a * PageTokens <= t - Window
          /\ b \in Int /\ u - Window < (b + 1) * PageTokens
      BY <2>1, DivFloor
    <2>3. Origin(t) = a * PageTokens /\ Origin(u) = b * PageTokens
      BY <1>3, PoolNats DEF Origin
    <2> HIDE DEF a, b
    <2>4. a * PageTokens < (b + 1) * PageTokens
      <3>1. a * PageTokens \in Int /\ (b + 1) * PageTokens \in Int
        BY <2>2, Times
      <3> QED BY <2>1, <2>2, <3>1
    <2>5. a < b + 1
      <3>1. b + 1 \in Int
        BY <2>2
      <3> QED BY <2>2, <2>4, <3>1, TimesOrder
    <2>6. a <= b
      BY <2>2, <2>5
    <2> QED BY <2>2, <2>3, <2>6, TimesOrder
  <1> QED BY <1>2, <1>3

\* k reads what it read.
Stays(A, B, k) ==
    /\ FullSpots(B, k) = FullSpots(A, k) /\ B.start[k] = A.start[k]
    /\ HasSliding => SlideSpots(B, k) = SlideSpots(A, k)

\* What k reads anew in B holds rows past those it had, and is its alone.
Climbs(A, B, k) ==
    /\ B.start[k] = A.start[k]
    /\ Tops(A.full, B.full, Zeros, k, A.base[k])
    /\ HasSliding => Tops(A.slide, B.slide, A.start, k, A.base[k])

\* k reads its parent's pages up to the shared rows, and its own after.
Lands(B, k, parent, shared) ==
    /\ Lays(B.full, Zeros, parent, shared, k)
    /\ HasSliding => /\ B.start[k] = Origin(shared)
                     /\ Lays(B.slide, B.start, parent, shared, k)

\* The key k comes to read so, whether it was resident in A or not.
Places(A, B, k, parent, shared) ==
    IF k \in Resident(A) THEN Climbs(A, B, k) ELSE Lands(B, k, parent, shared)

\* Unchanged tables are read alike.
LEMMA KeepStays ==
    ASSUME NEW A, NEW B, NEW k, B.start[k] = A.start[k],
           TablePages(B.full, k) = TablePages(A.full, k),
           HasSliding => TablePages(B.slide, k) = TablePages(A.slide, k)
    PROVE  Stays(A, B, k)
  BY SpotsSame DEF Stays, FullSpots, SlideSpots

LEMMA StaysBoth ==
    ASSUME NEW A, NEW B, NEW C, NEW k, Stays(A, B, k), Stays(B, C, k)
    PROVE  Stays(A, C, k)
  BY DEF Stays

\* The same pools are read alike.
LEMMA PoolsStay ==
    ASSUME NEW A, NEW B, SamePools(A, B), NEW k
    PROVE  Stays(A, B, k)
  BY DEF SamePools, Stays, FullSpots, SlideSpots

\* Placing k goes by its pages, before and after.
LEMMA PlacesSame ==
    ASSUME NEW A, NEW B, NEW C, NEW D, NEW k, NEW parent, NEW shared,
           Places(B, C, k, parent, shared), Stays(A, B, k), SamePools(C, D),
           B.base[k] = A.base[k], k \in Resident(B) <=> k \in Resident(A)
    PROVE  Places(A, D, k, parent, shared)
  <1>1. D.full = C.full /\ D.slide = C.slide /\ D.start = C.start
    BY DEF SamePools
  <1>2. CASE k \in Resident(A)
    <2>1. Climbs(B, C, k)
      BY <1>2 DEF Places
    <2>2. /\ B.start[k] = A.start[k] /\ Spots(B.full, Zeros, k) = Spots(A.full, Zeros, k)
          /\ HasSliding => Spots(B.slide, B.start, k) = Spots(A.slide, A.start, k)
      BY DEF Stays, FullSpots, SlideSpots
    <2>3. D.start[k] = A.start[k]
      BY <1>1, <2>1, <2>2 DEF Climbs
    <2>4. Tops(A.full, D.full, Zeros, k, A.base[k])
      BY <1>1, <2>1, <2>2 DEF Climbs, Tops
    <2>5. HasSliding => Tops(A.slide, D.slide, A.start, k, A.base[k])
      <3>1. Spots(D.slide, A.start, k) = Spots(D.slide, B.start, k)
        BY <2>2, SpotsSame
      <3> QED BY <1>1, <2>1, <2>2, <3>1 DEF Climbs, Tops
    <2> QED BY <1>2, <2>3, <2>4, <2>5 DEF Places, Climbs
  <1>3. CASE k \notin Resident(A)
    BY <1>1, <1>3 DEF Places, Lands
  <1> QED BY <1>2, <1>3

\* A resident document's pages come to cover the rows it asks for.
LEMMA GrowBothKeeps ==
    ASSUME NEW A, ArenaInv(A), NEW k \in Resident(A), NEW capacity \in Nat,
           A.base[k] <= capacity,
           GrowthPages(A.full, k, capacity) <= FreeCount(A.full),
           HasSliding => GrowthPages(A.slide, k, capacity - A.start[k]) <= FreeCount(A.slide),
           NEW B, B = GrowBoth(A, k, A.base[k], capacity)
    PROVE  /\ ArenaInv(B) /\ Lets(A, B) /\ SameMarks(A, B) /\ Resident(B) = Resident(A)
           /\ Supplies(A, B, k, GrowthPages(A.full, k, capacity),
                       GrowthPages(A.slide, k, capacity - A.start[k]))
           /\ Climbs(A, B, k) /\ \A l \in Keys \ {k} : Stays(A, B, l)
  <1>0. A \in Arena /\ k \in Keys
    <2>1. A \in Arena
      BY DEF ArenaInv
    <2>2. QED
      BY <2>1, ArenaFields, Fields, PoolNats DEF Resident
  <1> DEFINE v == A.base[k]
             w == A.base[k] - A.start[k]
             full == GrowTo(A.full, k, capacity, v)
             slide == GrowTo(A.slide, k, capacity - A.start[k], w)
  <1>1. B = [A EXCEPT !.full = full, !.slide = IF HasSliding THEN slide ELSE @]
    BY <1>0 DEF GrowBoth, GrowTo, Arena
  <1>2. /\ full = GrowTo(A.full, k, capacity, v)
        /\ slide = GrowTo(A.slide, k, capacity - A.start[k], w)
    OBVIOUS
  <1>3. v = A.base[k] - Zeros[k] /\ w = A.base[k] - A.start[k]
    BY <1>0, ArenaFields DEF Zeros
  <1> HIDE DEF v, w, full, slide
  <1>4. /\ PoolFine(full, NumPages, A.base, Zeros) /\ KeysStay(A.full, full)
        /\ Draws(A.full, full, k, GrowthPages(A.full, k, capacity))
        /\ Tops(A.full, full, Zeros, k, A.base[k])
    <2>1. PoolFine(A.full, NumPages, A.base, Zeros) /\ k \in A.full.resident
      BY DEF ArenaInv, Resident
    <2>2. /\ PoolFine(full, NumPages, A.base, Zeros) /\ KeysStay(A.full, full)
          /\ Tops(A.full, full, Zeros, k, A.base[k])
      BY <1>2, <1>3, <2>1, FineGrow, PoolNats
    <2>3. Draws(A.full, full, k, GrowthPages(A.full, k, capacity))
      BY <1>0, <1>2, ArenaFields, GrowDraws, PoolNats DEF GrowTo
    <2>4. QED
      BY <2>2, <2>3
  <1>5. HasSliding => /\ PoolFine(slide, NumSliding, A.base, A.start)
                      /\ KeysStay(A.slide, slide)
                      /\ Draws(A.slide, slide, k,
                               GrowthPages(A.slide, k, capacity - A.start[k]))
                      /\ Tops(A.slide, slide, A.start, k, A.base[k])
    <2>1. SUFFICES ASSUME HasSliding
                   PROVE  /\ PoolFine(slide, NumSliding, A.base, A.start)
                          /\ KeysStay(A.slide, slide)
                          /\ Draws(A.slide, slide, k,
                                   GrowthPages(A.slide, k, capacity - A.start[k]))
                          /\ Tops(A.slide, slide, A.start, k, A.base[k])
      OBVIOUS
    <2>2. PoolFine(A.slide, NumSliding, A.base, A.start) /\ A.slide.resident = A.full.resident
      BY <2>1 DEF ArenaInv, SlideFine, Consistent, Resident
    <2>3. k \in A.slide.resident
      BY <2>2 DEF Resident
    <2> DEFINE c == capacity - A.start[k]
    <2>4. c \in Nat
      <3>1. A.start[k] \in Nat /\ A.base[k] \in Nat /\ A.start[k] <= A.base[k]
        BY <1>0, <2>2 DEF PoolFine, Placed
      <3>2. QED
        BY <3>1
    <2>5. /\ GrowthPages(A.slide, k, c) <= FreeCount(A.slide)
          /\ slide = GrowTo(A.slide, k, c, w)
      BY <1>2, <2>1
    <2> HIDE DEF c
    <2>6. /\ PoolFine(slide, NumSliding, A.base, A.start) /\ KeysStay(A.slide, slide)
          /\ Tops(A.slide, slide, A.start, k, A.base[k])
      BY <1>3, <2>2, <2>3, <2>4, <2>5, FineGrow, PoolNats
    <2>7. Draws(A.slide, slide, k, GrowthPages(A.slide, k, c))
      BY <1>0, <2>4, <2>5, ArenaFields, GrowDraws, PoolNats DEF GrowTo
    <2>8. QED
      BY <2>6, <2>7 DEF c
  <1>6. /\ Shape(B) /\ SameMarks(A, B) /\ B.base = A.base /\ B.start = A.start
        /\ B.full = full /\ B.slide = (IF HasSliding THEN slide ELSE A.slide)
    BY <1>0, <1>1 DEF Arena, Shape, SameMarks
  <1>7. Resident(B) = Resident(A)
    BY <1>4, <1>6 DEF Resident, KeysStay
  <1>8. ArenaInv(B) /\ Lets(A, B)
    <2>1. B.base \in [Keys -> Nat] /\ B.start \in [Keys -> Nat]
      BY <1>0, <1>6, ArenaFields
    <2>2. PoolFine(B.full, NumPages, B.base, Zeros) /\ Anchored(B)
      BY <1>4, <1>6 DEF ArenaInv, Anchored
    <2>3. SlideFine(B)
      BY <1>5, <1>6 DEF ArenaInv, SlideFine
    <2>4. HasSliding => B.slide.resident = Resident(B)
      BY <1>5, <1>6, <1>7 DEF ArenaInv, Consistent, KeysStay
    <2>5. QED
      BY <1>6, <1>7, <2>1, <2>2, <2>3, <2>4, PoolsKeep
  <1>9. Supplies(A, B, k, GrowthPages(A.full, k, capacity),
                 GrowthPages(A.slide, k, capacity - A.start[k]))
    BY <1>0, <1>4, <1>5, <1>6, <1>7, PoolsSupply
  <1>10. Climbs(A, B, k)
    BY <1>4, <1>5, <1>6 DEF Climbs
  <1>11. ASSUME NEW l \in Keys \ {k} PROVE Stays(A, B, l)
    <2>1. TablePages(full, l) = TablePages(A.full, l)
      BY <1>4 DEF Draws, OthersKeep
    <2>2. HasSliding => TablePages(slide, l) = TablePages(A.slide, l)
      BY <1>5 DEF Draws, OthersKeep
    <2> QED BY <1>6, <2>1, <2>2, KeepStays
  <1>12. QED
    BY <1>6, <1>7, <1>8, <1>9, <1>10, <1>11

\* A fresh document takes its pages in both pools.
LEMMA AllocBothKeeps ==
    ASSUME NEW A, ArenaInv(A), NEW k, NEW tokens, NEW capacity, NEW parent, NEW shared,
           Request(A, k, tokens, capacity, parent, shared), k \notin Resident(A),
           Covers(A, NeedFull(A, k, capacity, shared), NeedSliding(A, k, capacity, shared)),
           NEW B, B = AllocBoth(A, k, tokens, capacity, parent, shared)
    PROVE  /\ ArenaInv(B) /\ Lets(A, B) /\ SameMarks(A, B) /\ Joins(A.full, B.full, k)
           /\ Supplies(A, B, k, NeedFull(A, k, capacity, shared),
                       NeedSliding(A, k, capacity, shared))
           /\ Lands(B, k, parent, shared) /\ \A l \in Keys \ {k} : Stays(A, B, l)
  <1>0. A \in Arena
    BY DEF ArenaInv
  <1>1. /\ k \in Keys /\ parent \in Keys /\ tokens \in Nat /\ capacity \in Nat
        /\ shared \in Nat /\ tokens <= capacity /\ shared <= tokens
        /\ shared % PageTokens = 0
    BY DEF Request
  <1>2. shared > 0 => /\ shared <= A.full.tokens[parent]
                      /\ HasSliding => A.start[parent] <= Origin(shared)
    BY DEF Request, CanBorrow
  <1> DEFINE from == Origin(shared)
             lent == IF shared = 0 THEN <<>> ELSE SharedPages(A.full, parent, shared, 0)
             lentSliding ==
                IF shared = 0 THEN <<>>
                ELSE SharedPages(A.slide, parent, shared - A.start[parent],
                                 from - A.start[parent])
             full == Alloc(A.full, k, tokens, capacity, lent)
             slide == Alloc(A.slide, k, tokens - from, capacity - from, lentSliding)
             base == [A.base EXCEPT ![k] = tokens]
             start == [A.start EXCEPT ![k] = IF HasSliding THEN from ELSE 0]
  <1>3. from \in Nat /\ from <= shared /\ from % PageTokens = 0
    BY <1>1, OriginIs
  <1>4. B = [A EXCEPT !.full = full, !.slide = IF HasSliding THEN slide ELSE @,
                      !.base = base, !.start = start]
    <2>1. (IF shared = 0 THEN 0 ELSE Origin(shared)) = from
      BY <1>1, <1>3
    <2>2. B = [A EXCEPT !.full = full, !.slide = IF HasSliding THEN slide ELSE @,
                        !.base[k] = tokens, !.start[k] = IF HasSliding THEN from ELSE 0]
      BY <2>1 DEF AllocBoth
    <2>3. QED
      BY <1>0, <2>2 DEF Arena
  <1>5. /\ full = Alloc(A.full, k, tokens, capacity, lent)
        /\ slide = Alloc(A.slide, k, tokens - from, capacity - from, lentSliding)
        /\ base = [A.base EXCEPT ![k] = tokens]
        /\ start = [A.start EXCEPT ![k] = IF HasSliding THEN from ELSE 0]
    OBVIOUS
  <1>6. lent = (IF shared = 0 THEN <<>> ELSE SharedPages(A.full, parent, shared, 0))
    OBVIOUS
  <1>7. lentSliding = (IF shared = 0 THEN <<>>
                       ELSE SharedPages(A.slide, parent, shared - A.start[parent],
                                        from - A.start[parent]))
    OBVIOUS
  <1>8. HasSliding => PagesNeeded(capacity - from) - (shared - from) \div PageTokens
                          <= FreeCount(A.slide)
    BY DEF Covers, NeedSliding
  <1>9. PagesNeeded(capacity) - shared \div PageTokens <= FreeCount(A.full)
    BY DEF Covers, NeedFull
  <1>10. shared > 0 /\ HasSliding => A.start[parent] <= from
    BY <1>2
  <1> HIDE DEF from, lent, lentSliding, full, slide, base, start
  <1>11. A.base \in [Keys -> Nat] /\ A.start \in [Keys -> Nat]
    BY <1>0, ArenaFields
  <1>12. /\ base[k] = tokens /\ start[k] = (IF HasSliding THEN from ELSE 0)
         /\ \A l \in Keys \ {k} : base[l] = A.base[l] /\ start[l] = A.start[l]
         /\ base \in [Keys -> Nat] /\ start \in [Keys -> Nat]
    BY <1>1, <1>3, <1>5, <1>11
  <1>13. /\ PoolFine(full, NumPages, base, Zeros) /\ Joins(A.full, full, k)
         /\ Draws(A.full, full, k, PagesNeeded(capacity) - shared \div PageTokens)
         /\ Lays(full, Zeros, parent, shared, k)
    <2> DEFINE P == A.full
               old == A.base
    <2>1. PoolFine(P, NumPages, old, Zeros) /\ k \notin P.resident
      BY DEF ArenaInv, Resident
    <2>2. Zeros[parent] = 0 /\ Zeros[k] = 0
      BY <1>1 DEF Zeros
    <2>3. shared > 0 => Zeros[parent] <= 0 /\ shared <= old[parent]
      <3>1. Placed(P, old, Zeros, parent)
        BY <1>1, <2>1 DEF PoolFine
      <3>2. QED
        BY <1>2, <2>2, <3>1 DEF Placed
    <2>4. lent = Lent(P, Zeros, parent, shared, 0)
      <3>1. shared - Zeros[parent] = shared /\ 0 - Zeros[parent] = 0
        BY <1>1, <2>2
      <3>2. QED
        BY <1>6, <3>1 DEF Lent
    <2>5. /\ tokens - 0 = tokens /\ capacity - 0 = capacity /\ shared - 0 = shared
          /\ 0 \in Nat /\ 0 % PageTokens = 0 /\ 0 <= shared
      BY <1>1, PageTokensAssumption
    <2>6. full = Alloc(P, k, tokens - 0, capacity - 0, Lent(P, Zeros, parent, shared, 0))
      BY <1>5, <2>4, <2>5
    <2>7. base[k] = tokens /\ \A l \in Keys \ {k} : base[l] = old[l] /\ Zeros[l] = Zeros[l]
      BY <1>12
    <2>8. PagesNeeded(capacity - 0) - (shared - 0) \div PageTokens <= FreeCount(P)
      BY <1>9, <2>5
    <2> HIDE DEF P, old
    <2>9. Borrows(P, old, Zeros, k, tokens, capacity, parent, shared, 0)
      BY <1>1, <2>1, <2>3, <2>5, <2>8 DEF Borrows
    <2>10. /\ PoolFine(full, NumPages, base, Zeros) /\ Joins(P, full, k)
           /\ Draws(P, full, k, PagesNeeded(capacity - 0) - (shared - 0) \div PageTokens)
           /\ Lays(full, Zeros, parent, shared, k)
      BY <2>1, <2>2, <2>6, <2>7, <2>9, FineBorrow, PoolNats
    <2>11. QED
      BY <2>5, <2>10 DEF P
  <1>14. HasSliding =>
            /\ PoolFine(slide, NumSliding, base, start) /\ Joins(A.slide, slide, k)
            /\ Draws(A.slide, slide, k,
                     PagesNeeded(capacity - from) - (shared - from) \div PageTokens)
            /\ Lays(slide, start, parent, shared, k)
    <2>1. SUFFICES ASSUME HasSliding
                   PROVE  /\ PoolFine(slide, NumSliding, base, start) /\ Joins(A.slide, slide, k)
                          /\ Draws(A.slide, slide, k, PagesNeeded(capacity - from)
                                                         - (shared - from) \div PageTokens)
                          /\ Lays(slide, start, parent, shared, k)
      OBVIOUS
    <2> DEFINE P == A.slide
               old == A.base
               was == A.start
    <2>2. PoolFine(P, NumSliding, old, was) /\ k \notin P.resident
      BY <2>1 DEF ArenaInv, SlideFine, Consistent
    <2>3. shared > 0 => was[parent] <= from /\ shared <= old[parent]
      <3>1. Placed(A.full, old, Zeros, parent)
        BY <1>1 DEF ArenaInv, PoolFine
      <3>2. Zeros[parent] = 0
        BY <1>1 DEF Zeros
      <3>3. QED
        BY <1>2, <1>10, <2>1, <3>1, <3>2 DEF Placed
    <2>4. /\ slide = Alloc(P, k, tokens - from, capacity - from,
                           Lent(P, was, parent, shared, from))
          /\ PagesNeeded(capacity - from) - (shared - from) \div PageTokens <= FreeCount(P)
      BY <1>5, <1>7, <1>8, <2>1 DEF Lent
    <2>5. /\ base[k] = tokens /\ start[k] = from
          /\ \A l \in Keys \ {k} : base[l] = old[l] /\ start[l] = was[l]
      BY <1>12, <2>1
    <2> HIDE DEF P, old, was
    <2>6. Borrows(P, old, was, k, tokens, capacity, parent, shared, from)
      BY <1>1, <1>3, <2>2, <2>3, <2>4 DEF Borrows
    <2>7. QED
      BY <2>2, <2>4, <2>5, <2>6, FineBorrow, PoolNats DEF P
  <1>15. /\ Shape(B) /\ SameMarks(A, B) /\ B.base = base /\ B.start = start
         /\ B.full = full /\ B.slide = (IF HasSliding THEN slide ELSE A.slide)
    BY <1>0, <1>4 DEF Arena, Shape, SameMarks
  <1>16. ArenaInv(B) /\ Lets(A, B)
    <2>1. B.base \in [Keys -> Nat] /\ B.start \in [Keys -> Nat]
      BY <1>12, <1>15
    <2>2. PoolFine(B.full, NumPages, B.base, Zeros) /\ Anchored(B)
      <3>1. PoolFine(B.full, NumPages, B.base, Zeros)
        BY <1>13, <1>15
      <3>2. from <= Origin(tokens)
        BY <1>1, OriginRises DEF from
      <3>3. Anchored(B)
        BY <1>12, <1>15, <3>2 DEF ArenaInv, Anchored
      <3> QED BY <3>1, <3>3
    <2>3. SlideFine(B)
      BY <1>14, <1>15 DEF ArenaInv, SlideFine
    <2>4. Resident(B) = Resident(A) \cup {k}
      BY <1>13, <1>15 DEF Resident, Joins
    <2>5. HasSliding => B.slide.resident = Resident(B)
      BY <1>14, <1>15, <2>4 DEF ArenaInv, Consistent, Joins
    <2>6. QED
      BY <1>15, <2>1, <2>2, <2>3, <2>4, <2>5, PoolsKeep
  <1>17. Supplies(A, B, k, NeedFull(A, k, capacity, shared), NeedSliding(A, k, capacity, shared))
    <2>1. /\ NeedFull(A, k, capacity, shared) = PagesNeeded(capacity) - shared \div PageTokens
          /\ NeedSliding(A, k, capacity, shared)
                = PagesNeeded(capacity - from) - (shared - from) \div PageTokens
      BY DEF NeedFull, NeedSliding, from
    <2>2. \A l \in Keys \ {k} : /\ l \in Resident(B) <=> l \in Resident(A)
                                /\ B.start[l] = A.start[l]
      BY <1>12, <1>13, <1>15 DEF Joins, Resident
    <2>3. QED
      BY <1>1, <1>13, <1>14, <1>15, <2>1, <2>2, PoolsSupply
  <1>18. Lands(B, k, parent, shared)
    BY <1>12, <1>13, <1>14, <1>15 DEF Lands, from
  <1>19. ASSUME NEW l \in Keys \ {k} PROVE Stays(A, B, l)
    <2>1. TablePages(full, l) = TablePages(A.full, l)
      BY <1>13 DEF Draws, OthersKeep
    <2>2. HasSliding => TablePages(slide, l) = TablePages(A.slide, l)
      BY <1>14 DEF Draws, OthersKeep
    <2>3. B.start[l] = A.start[l]
      BY <1>12, <1>15
    <2> QED BY <1>15, <2>1, <2>2, <2>3, KeepStays
  <1>20. QED
    BY <1>13, <1>15, <1>16, <1>17, <1>18, <1>19

\* A reservation that the free pages cover puts the document in use.
LEMMA ActivateKeeps ==
    ASSUME NEW A, ArenaInv(A), NEW k, NEW tokens, NEW capacity, NEW parent, NEW shared,
           Request(A, k, tokens, capacity, parent, shared),
           Covers(A, NeedFull(A, k, capacity, shared), NeedSliding(A, k, capacity, shared)),
           NEW B, B = Activate(A, k, tokens, capacity, parent, shared)
    PROVE  /\ ArenaInv(B) /\ Lets(A, B) /\ B.held = A.held /\ B.reading = A.reading
           /\ Supplies(A, B, k, NeedFull(A, k, capacity, shared),
                       NeedSliding(A, k, capacity, shared))
           /\ Places(A, B, k, parent, shared) /\ \A l \in Keys \ {k} : Stays(A, B, l)
  <1> DEFINE C == IF k \in Resident(A) THEN GrowBoth(A, k, tokens, capacity)
                  ELSE AllocBoth(A, k, tokens, capacity, parent, shared)
  <1>1. B = Pin(C, k)
    BY DEF Activate
  <1>2. /\ ArenaInv(C) /\ Lets(A, C) /\ SameMarks(A, C) /\ k \in Resident(C)
        /\ Supplies(A, C, k, NeedFull(A, k, capacity, shared),
                    NeedSliding(A, k, capacity, shared))
        /\ Places(A, C, k, parent, shared) /\ \A l \in Keys \ {k} : Stays(A, C, l)
    <2>1. CASE k \in Resident(A)
      <3>1. C = GrowBoth(A, k, A.base[k], capacity) /\ capacity \in Nat /\ A.base[k] <= capacity
        BY <2>1 DEF Request
      <3>2. /\ GrowthPages(A.full, k, capacity) <= FreeCount(A.full)
            /\ HasSliding => GrowthPages(A.slide, k, capacity - A.start[k]) <= FreeCount(A.slide)
        BY <2>1 DEF Covers, NeedFull, NeedSliding
      <3> HIDE DEF C
      <3>3. /\ ArenaInv(C) /\ Lets(A, C) /\ SameMarks(A, C) /\ Resident(C) = Resident(A)
            /\ Supplies(A, C, k, GrowthPages(A.full, k, capacity),
                        GrowthPages(A.slide, k, capacity - A.start[k]))
            /\ Climbs(A, C, k) /\ \A l \in Keys \ {k} : Stays(A, C, l)
        BY <2>1, <3>1, <3>2, GrowBothKeeps
      <3>4. QED
        BY <2>1, <3>3 DEF NeedFull, NeedSliding, Places
    <2>2. CASE k \notin Resident(A)
      <3>1. C = AllocBoth(A, k, tokens, capacity, parent, shared)
        BY <2>2
      <3> HIDE DEF C
      <3>2. /\ ArenaInv(C) /\ Lets(A, C) /\ SameMarks(A, C) /\ Joins(A.full, C.full, k)
            /\ Supplies(A, C, k, NeedFull(A, k, capacity, shared),
                        NeedSliding(A, k, capacity, shared))
            /\ Lands(C, k, parent, shared) /\ \A l \in Keys \ {k} : Stays(A, C, l)
        BY <2>2, <3>1, AllocBothKeeps
      <3>3. QED
        BY <2>2, <3>2 DEF Joins, Resident, Places
    <2>3. QED
      BY <2>1, <2>2
  <1> HIDE DEF C
  <1>3. ArenaInv(B) /\ Lets(C, B) /\ B.held = C.held /\ B.reading = C.reading
    BY <1>1, <1>2, PinKeeps
  <1>4. A \in Arena /\ B \in Arena /\ C \in Arena
    BY <1>2, <1>3 DEF ArenaInv
  <1>5. Lets(A, B)
    BY <1>2, <1>3, <1>4, LetsBoth
  <1>6. Supplies(A, B, k, NeedFull(A, k, capacity, shared), NeedSliding(A, k, capacity, shared))
    <2>1. /\ B.full = C.full /\ B.slide = C.slide /\ B.start = C.start
          /\ B.retained \subseteq C.retained /\ B.deferred = C.deferred
      BY <1>1, <1>4 DEF Pin, Arena
    <2>2. \A l \in Keys \ {k} : Spares(A, C, l)
      BY <1>2 DEF Supplies, SparesBut
    <2>3. \A l \in Keys \ {k} : Spares(A, B, l)
      BY <2>1, <2>2 DEF Spares, Resident
    <2>4. QED
      BY <1>2, <2>1, <2>3 DEF Supplies, SparesBut
  <1>7. Places(A, B, k, parent, shared) /\ \A l \in Keys \ {k} : Stays(A, B, l)
    <2>1. SamePools(C, B)
      BY <1>1, <1>4 DEF Pin, Arena, SamePools
    <2>2. SamePools(A, A)
      BY DEF SamePools
    <2>3. Places(A, B, k, parent, shared)
      BY <1>2, <2>1, <2>2, PlacesSame, PoolsStay
    <2>4. \A l \in Keys \ {k} : Stays(A, B, l)
      BY <1>2, <2>1, PoolsStay, StaysBoth
    <2> QED BY <2>3, <2>4
  <1>8. QED
    BY <1>2, <1>3, <1>5, <1>6, <1>7 DEF SameMarks

\* The key k comes to have its pages, and no other key changes.
Takes(A, B, k, tokens) ==
    /\ Resident(B) = Resident(A) \cup {k}
    /\ B.base[k] = tokens /\ \A l \in Keys \ {k} : B.base[l] = A.base[l]
    /\ B.retained = A.retained \ {k} /\ B.deferred = A.deferred
    /\ B.held = A.held /\ B.reading = A.reading

\* A document that gets its pages is in use.
LEMMA ActivateTakes ==
    ASSUME NEW A \in Arena, NEW k \in Keys, NEW tokens, NEW capacity, NEW parent, NEW shared,
           k \in Resident(A) => tokens = A.base[k],
           NEW B, B = Activate(A, k, tokens, capacity, parent, shared)
    PROVE  Takes(A, B, k, tokens)
  <1> DEFINE C == IF k \in Resident(A) THEN GrowBoth(A, k, tokens, capacity)
                  ELSE AllocBoth(A, k, tokens, capacity, parent, shared)
             Same(X) == /\ X.retained = A.retained /\ X.deferred = A.deferred
                        /\ X.held = A.held /\ X.reading = A.reading
  <1>0. A.full \in Pool(NumPages) /\ A.base \in [Keys -> Nat]
    BY ArenaFields
  <1>1. B = [C EXCEPT !.pinned = @ \union {k}, !.retained = @ \ {k}, !.size[k] = 0]
    BY DEF Activate, Pin
  <1>2. /\ DOMAIN C = DOMAIN A /\ Same(C)
        /\ C.full.resident = A.full.resident \cup {k}
        /\ C.base[k] = tokens /\ \A l \in Keys \ {k} : C.base[l] = A.base[l]
    <2>1. CASE k \in Resident(A)
      <3> DEFINE slide == IF HasSliding
                          THEN [Grow(A.slide, k, capacity - A.start[k])
                                   EXCEPT !.tokens[k] = tokens - A.start[k]]
                          ELSE A.slide
                 full == [Grow(A.full, k, capacity) EXCEPT !.tokens[k] = tokens]
      <3>1. C = [A EXCEPT !.full = full, !.slide = slide]
        BY <2>1 DEF GrowBoth, Arena
      <3>2. full.resident = A.full.resident
        BY <1>0 DEF Grow, Pool
      <3> HIDE DEF full, slide, C
      <3>3. /\ C.full = full /\ C.base = A.base /\ DOMAIN C = DOMAIN A /\ Same(C)
        BY <3>1 DEF Arena
      <3>4. QED
        BY <2>1, <3>2, <3>3 DEF Resident
    <2>2. CASE k \notin Resident(A)
      <3> DEFINE from == IF shared = 0 THEN 0 ELSE Origin(shared)
                 lent == IF shared = 0 THEN <<>> ELSE SharedPages(A.full, parent, shared, 0)
                 lentSliding ==
                     IF shared = 0 THEN <<>>
                     ELSE SharedPages(A.slide, parent, shared - A.start[parent],
                                      from - A.start[parent])
                 slide == IF HasSliding
                          THEN Alloc(A.slide, k, tokens - from, capacity - from, lentSliding)
                          ELSE A.slide
                 start == IF HasSliding THEN from ELSE 0
                 full == Alloc(A.full, k, tokens, capacity, lent)
      <3>1. C = [A EXCEPT !.full = full, !.slide = slide, !.base[k] = tokens, !.start[k] = start]
        BY <2>2 DEF AllocBoth, Arena
      <3>2. full.resident = A.full.resident \cup {k}
        BY <1>0 DEF Alloc, Pool
      <3> HIDE DEF full, slide, start, C
      <3>3. /\ C.full = full /\ C.base = [A.base EXCEPT ![k] = tokens]
            /\ DOMAIN C = DOMAIN A /\ Same(C)
        BY <3>1 DEF Arena
      <3>4. QED
        BY <1>0, <3>2, <3>3
    <2>3. QED
      BY <2>1, <2>2
  <1>3. DOMAIN A = {"full", "slide", "base", "start", "held", "reading", "deferred", "floor",
                    "trimmed", "pinned", "retained", "size"}
    BY DEF Arena
  <1> HIDE DEF C
  <1>4. /\ B.full = C.full /\ B.base = C.base /\ B.held = C.held /\ B.reading = C.reading
        /\ B.deferred = C.deferred /\ B.retained = C.retained \ {k}
    BY <1>1, <1>2, <1>3
  <1>5. QED
    BY <1>2, <1>4 DEF Takes, Resident

\* The key k has its pages, and the keys that still have theirs are as before.
Seats(A, B, k, tokens) ==
    /\ k \in Resident(B) /\ B.base[k] = tokens /\ Resident(B) \subseteq Resident(A) \cup {k}
    /\ \A l \in Resident(B) \ {k} :
          /\ B.base[l] = A.base[l]
          /\ l \in A.retained => l \in B.retained
          /\ l \in A.deferred => l \in B.deferred

\* A reservation seats k, or, when it fails, only evicts.
Served(A, out, k, tokens) ==
    /\ out.arena.reading = A.reading /\ out.arena.held = A.held
    /\ out.ok \in BOOLEAN
    /\ out.ok => Seats(A, out.arena, k, tokens)
    /\ ~out.ok => Sheds(A, out.arena)

\* The pages a reservation takes are numbers.
LEMMA NeedsAre ==
    ASSUME NEW A \in Arena, NEW k \in Keys, NEW capacity \in Nat, NEW shared \in Nat
    PROVE  NeedFull(A, k, capacity, shared) \in Int /\ NeedSliding(A, k, capacity, shared) \in Int
  <1>1. \A x \in Int : PagesNeeded(x) \in Int /\ x \div PageTokens \in Int
    BY PageTokensAssumption, DivFloor DEF PagesNeeded
  <1>2. /\ A.full \in Pool(NumPages) /\ A.slide \in Pool(NumSliding) /\ A.start[k] \in Nat
    BY ArenaFields
  <1>3. Len(TablePages(A.full, k)) \in Int /\ Len(TablePages(A.slide, k)) \in Int
    BY <1>2, TableIs, PoolNats
  <1>4. Origin(shared) \in Int
    BY OriginIs
  <1> DEFINE a == capacity - A.start[k]
             b == capacity - Origin(shared)
             c == shared - Origin(shared)
  <1>5. a \in Int /\ b \in Int /\ c \in Int /\ capacity \in Int /\ shared \in Int
    BY <1>2, <1>4
  <1>6. /\ PagesNeeded(a) \in Int /\ PagesNeeded(b) \in Int /\ PagesNeeded(capacity) \in Int
        /\ c \div PageTokens \in Int /\ shared \div PageTokens \in Int
    BY <1>1, <1>5
  <1>7. NeedFull(A, k, capacity, shared) \in Int
    BY <1>3, <1>6 DEF NeedFull, GrowthPages
  <1>8. NeedSliding(A, k, capacity, shared) \in Int
    <2>1. CASE k \in Resident(A)
      <3>1. NeedSliding(A, k, capacity, shared) = GrowthPages(A.slide, k, a)
        BY <2>1 DEF NeedSliding
      <3> HIDE DEF a
      <3> QED BY <1>3, <1>6, <3>1 DEF GrowthPages
    <2>2. CASE k \notin Resident(A)
      <3>1. NeedSliding(A, k, capacity, shared) = PagesNeeded(b) - c \div PageTokens
        BY <2>2 DEF NeedSliding
      <3> HIDE DEF b, c
      <3> QED BY <1>6, <3>1
    <2> QED BY <2>1, <2>2
  <1> QED BY <1>7, <1>8

\* A reservation spares the keys but the evictable ones, those owed a free
\* and, when it succeeds, k, which takes at most nf and ns pages.
Spends(A, out, k, nf, ns) ==
    /\ SparesBut(A, out.arena, A.retained \cup A.deferred \cup IF out.ok THEN {k} ELSE {})
    /\ FreeCount(out.arena.full) >= FreeCount(A.full) - IF out.ok THEN nf ELSE 0
    /\ HasSliding => FreeCount(out.arena.slide) >= FreeCount(A.slide) - IF out.ok THEN ns ELSE 0

\* A reservation takes no other key's pages but retained ones', and none but
\* k comes to read more.  It owes no more frees, and k is in use.
Fills(A, out, k, parent, shared) ==
    /\ \A l \in Keys \ {k} : Narrower(A, out.arena, l)
    /\ \A l \in Keys \ A.retained : (out.ok => l # k) => Stays(A, out.arena, l)
    /\ out.ok => Places(A, out.arena, k, parent, shared)
    /\ out.arena.deferred = A.deferred
    /\ out.ok /\ k \notin A.deferred => k \notin out.arena.retained

\* What a call may not do: take the pages of a key something keeps.
Gone(A, B) ==
    \A k \in Keys : k \in Resident(A) /\ k \notin Resident(B)
                        => B.held[k] = 0 /\ B.reading[k] = 0

\* Where only unkept keys lose pages, no kept key does.
LEMMA LetsGone ==
    ASSUME NEW A, NEW B, Lets(A, B)
    PROVE  Gone(A, B)
  BY DEF Lets, Gone

\* What a reservation takes, evicts and places does not depend on a parent it
\* borrows nothing from.
LEMMA ReserveAlone ==
    ASSUME NEW A, NEW k, NEW t, NEW c, NEW p, NEW q
    PROVE  /\ Reserve(A, k, t, c, p, 0) = Reserve(A, k, t, c, q, 0)
           /\ Activate(A, k, t, c, p, 0) = Activate(A, k, t, c, q, 0)
  <1>1. \A B : AllocBoth(B, k, t, c, p, 0) = AllocBoth(B, k, t, c, q, 0)
    BY DEF AllocBoth
  <1>2. \A B : Activate(B, k, t, c, p, 0) = Activate(B, k, t, c, q, 0)
    BY <1>1 DEF Activate
  <1> QED BY <1>2, Zenon DEF Reserve

\* While a reservation evicts, it reads its document and the parent, so the
\* rows it was asked for are the rows it takes.
LEMMA ReserveKeeps ==
    ASSUME NEW A, ArenaInv(A), NEW k, NEW tokens, NEW capacity, NEW parent, NEW shared,
           Request(A, k, tokens, capacity, parent, shared),
           NEW out \in Reserve(A, k, tokens, capacity, parent, shared)
    PROVE  /\ ArenaInv(out.arena) /\ Gone(A, out.arena) /\ Served(A, out, k, tokens)
           /\ shared > 0 => parent \in Resident(out.arena)
           /\ Spends(A, out, k, NeedFull(A, k, capacity, shared),
                     NeedSliding(A, k, capacity, shared))
           /\ Fills(A, out, k, parent, shared)
  <1> DEFINE need == NeedFull(A, k, capacity, shared)
             needSliding == NeedSliding(A, k, capacity, shared)
             protected == IF shared = 0 THEN {k} ELSE {k, parent}
             R == ReadState(A, protected)
             Mine(B) == DoneReading(B, k)
             Unprotect(B) == IF shared = 0 THEN Mine(B) ELSE DoneReading(Mine(B), parent)
             Taken(B) == Activate(B, k, tokens, capacity, parent, shared)
  <1>0. NeedFull(A, k, capacity, shared) = need /\ NeedSliding(A, k, capacity, shared) = needSliding
    OBVIOUS
  <1>1. PICK B \in EvictForPages(R, need, needSliding) :
            out = IF Covers(B, need, needSliding)
                  THEN [ok |-> TRUE, arena |-> Unprotect(Taken(B))]
                  ELSE [ok |-> FALSE, arena |-> Unprotect(B)]
    BY DEF Reserve
  <1>2. /\ k \in Keys /\ parent \in Keys /\ shared \in Nat
        /\ shared > 0 => k \notin Resident(A) /\ parent \in Resident(A) /\ parent # k
    BY DEF Request, CanBorrow
  <1>3. k \in protected /\ (shared > 0 => parent \in protected)
    BY <1>2
  <1>4. protected \in SUBSET Keys
    BY <1>2
  <1> HIDE DEF protected
  <1>5. /\ ArenaInv(R) /\ SamePools(A, R) /\ Resident(R) = Resident(A) /\ R.held = A.held
        /\ \A p \in Keys : R.reading[p] = IF p \in protected THEN A.reading[p] + 1 ELSE A.reading[p]
    BY <1>4, ReadStateKeeps
  <1>6. A.reading \in [Keys -> Nat] /\ A \in Arena /\ R \in Arena
    BY <1>5, ArenaFields DEF ArenaInv
  <1>7. \A p \in protected : p \in Keys /\ R.reading[p] > 0
    BY <1>4, <1>5, <1>6
  <1> HIDE DEF R
  <1>8. /\ ArenaInv(B) /\ Lets(R, B) /\ B.reading = R.reading
        /\ \A p \in Keys \ Evictable(R) : Untouched(R, B, p)
    BY <1>1, <1>5, EvictKeeps DEF EvictForPages
  <1>9. \A p \in protected : Untouched(R, B, p)
    BY <1>7, <1>8 DEF Evictable, Kept
  <1>10. Request(B, k, tokens, capacity, parent, shared)
    <2>1. Untouched(R, B, k) /\ (shared > 0 => Untouched(R, B, parent))
      BY <1>3, <1>9
    <2>2. /\ B.base[k] = A.base[k]
          /\ k \in Resident(B) <=> k \in Resident(A)
      BY <1>3, <1>5, <1>9 DEF Untouched, SamePools
    <2>3. shared > 0 => /\ B.start[parent] = A.start[parent]
                        /\ B.full.tokens[parent] = A.full.tokens[parent]
                        /\ parent \in Resident(B)
      <3>1. SUFFICES ASSUME shared > 0
                     PROVE  /\ B.start[parent] = A.start[parent]
                            /\ B.full.tokens[parent] = A.full.tokens[parent]
                            /\ parent \in Resident(B)
        OBVIOUS
      <3>2. Untouched(R, B, parent)
        BY <1>3, <1>9, <3>1
      <3>3. QED
        BY <1>2, <1>5, <3>1, <3>2 DEF Untouched, SamePools
    <2>4. k \in Resident(B) => shared = 0 /\ tokens = B.base[k]
      BY <2>2 DEF Request
    <2>5. k \notin Resident(B) /\ shared > 0 => CanBorrow(B, parent, shared)
      BY <2>2, <2>3 DEF Request, CanBorrow
    <2>6. QED
      BY <2>4, <2>5 DEF Request
  <1>11. /\ NeedFull(B, k, capacity, shared) = need
         /\ HasSliding => NeedSliding(B, k, capacity, shared) = needSliding
         /\ Covers(B, need, needSliding) =>
            Covers(B, NeedFull(B, k, capacity, shared), NeedSliding(B, k, capacity, shared))
    <2>1. Untouched(R, B, k)
      BY <1>3, <1>9
    <2>2. /\ k \in Resident(B) <=> k \in Resident(A)
          /\ TablePages(B.full, k) = TablePages(A.full, k) /\ B.start[k] = A.start[k]
          /\ HasSliding => TablePages(B.slide, k) = TablePages(A.slide, k)
      BY <1>5, <2>1 DEF Untouched, SamePools
    <2>3. NeedFull(B, k, capacity, shared) = need
      BY <2>2 DEF NeedFull, GrowthPages
    <2>4. HasSliding => NeedSliding(B, k, capacity, shared) = needSliding
      BY <2>2 DEF NeedSliding, GrowthPages
    <2>5. QED
      BY <2>3, <2>4 DEF Covers
  <1> HIDE DEF need, needSliding
  <1> DEFINE C == IF Covers(B, need, needSliding) THEN Taken(B) ELSE B
             D == Mine(C)
             E == Unprotect(C)
  <1>12. out.arena = E
    BY <1>1
  <1>13. ArenaInv(C) /\ Lets(B, C) /\ C.reading = B.reading
    <2>1. CASE Covers(B, need, needSliding)
      <3> DEFINE T == Taken(B)
      <3>1. T = Activate(B, k, tokens, capacity, parent, shared) /\ C = T
        BY <2>1
      <3> HIDE DEF C, T
      <3>2. ArenaInv(T) /\ Lets(B, T) /\ T.reading = B.reading
        BY <1>8, <1>10, <1>11, <2>1, <3>1, ActivateKeeps
      <3>3. QED
        BY <3>1, <3>2
    <2>2. CASE ~Covers(B, need, needSliding)
      <3>1. C = B
        BY <2>2
      <3>2. B \in Arena
        BY <1>8 DEF ArenaInv
      <3>3. \A l \in Keys : B.held[l] \in Nat /\ B.reading[l] \in Nat
        BY <3>2, ArenaFields
      <3>4. \A l \in Keys : B.held[l] <= B.held[l] /\ B.reading[l] <= B.reading[l]
        BY <3>3
      <3>5. Lets(B, B)
        BY <3>4, LetsMarks
      <3>6. QED
        BY <1>8, <3>1, <3>5
    <2>3. QED
      BY <2>1, <2>2
  <1>14. D = DoneReading(C, k) /\ E = IF shared = 0 THEN D ELSE DoneReading(D, parent)
    OBVIOUS
  <1> HIDE DEF C, D, E
  <1>15. shared > 0 => C.reading[parent] > 0
    BY <1>3, <1>7, <1>8, <1>13
  <1>16. C.reading[k] > 0
    BY <1>3, <1>7, <1>8, <1>13
  <1>17. ArenaInv(D) /\ Lets(C, D)
    BY <1>2, <1>13, <1>14, <1>16, DoneReadingKeeps
  <1>18. \A l \in Keys \ {k} : D.reading[l] = C.reading[l]
    BY <1>2, <1>13, <1>14, <1>16, DoneReadingOthers
  <1>19. ArenaInv(E) /\ (E = D \/ Lets(D, E))
    <2>1. CASE shared = 0
      BY <1>14, <1>17, <2>1
    <2>2. CASE shared # 0
      <3>1. parent \in Keys \ {k} /\ C.reading[parent] > 0
        BY <1>2, <1>15, <1>16, <2>2
      <3>2. D.reading[parent] > 0 /\ E = DoneReading(D, parent)
        BY <1>14, <1>18, <2>2, <3>1
      <3>3. QED
        BY <1>17, <3>1, <3>2, DoneReadingKeeps
    <2>3. QED
      BY <2>1, <2>2
  <1>20. B \in Arena /\ C \in Arena /\ D \in Arena /\ E \in Arena
    BY <1>8, <1>13, <1>17, <1>19 DEF ArenaInv
  <1>21. Lets(R, C)
    BY <1>6, <1>8, <1>13, <1>20, LetsBoth
  <1>22. Lets(R, D)
    BY <1>6, <1>17, <1>20, <1>21, LetsBoth
  <1>23. Lets(R, E)
    BY <1>6, <1>19, <1>20, <1>22, LetsBoth
  <1>24. Gone(A, E)
    BY <1>5, <1>23 DEF Lets, Gone
  <1>25. /\ \A p \in protected : C.reading[p] = A.reading[p] + 1
         /\ \A p \in Keys \ protected : C.reading[p] = A.reading[p]
         /\ C.held = A.held
    <2>1. C.held = B.held
      <3>1. CASE Covers(B, need, needSliding)
        <4>1. C = Activate(B, k, tokens, capacity, parent, shared)
          BY <3>1 DEF C
        <4>2. C.held = B.held
          BY <1>8, <1>10, <1>11, <3>1, <4>1, ActivateKeeps
        <4>3. QED
          BY <4>2
      <3>2. CASE ~Covers(B, need, needSliding)
        BY <3>2 DEF C
      <3>3. QED
        BY <3>1, <3>2
    <2>2. B.held = A.held
      BY <1>1, <1>5, EvictSheds DEF EvictForPages
    <2>3. QED
      BY <1>4, <1>5, <1>8, <1>13, <2>1, <2>2
  <1>26. Sheds(A, B) /\ B.deferred = A.deferred
    <2>1. Sheds(R, B) /\ B.deferred = R.deferred
      BY <1>1, <1>5, EvictSheds DEF EvictForPages
    <2>2. /\ R.deferred = A.deferred /\ R.retained = A.retained /\ R.base = A.base
      BY <1>5, <1>6 DEF ReadState, Arena, SamePools, R
    <2>3. \A l \in Keys : Narrower(A, B, l)
      <3>1. \A l \in Keys : Narrower(A, R, l) /\ Narrower(R, B, l)
        BY <1>5, <2>1, PoolsNarrow DEF Sheds
      <3> QED BY <3>1 DEF Narrower
    <2>4. QED
      BY <1>5, <2>1, <2>2, <2>3 DEF Sheds
  <1>27. IF Covers(B, need, needSliding) THEN Takes(B, C, k, tokens) ELSE C = B
    <2>1. CASE Covers(B, need, needSliding)
      <3>1. C = Activate(B, k, tokens, capacity, parent, shared)
        BY <2>1 DEF C
      <3>2. B \in Arena /\ k \in Keys /\ (k \in Resident(B) => tokens = B.base[k])
        BY <1>8, <1>10 DEF ArenaInv, Request
      <3>3. QED
        BY <2>1, <3>1, <3>2, ActivateTakes
    <2>2. CASE ~Covers(B, need, needSliding)
      BY <2>2 DEF C
    <2>3. QED
      BY <2>1, <2>2
  <1>28. C.deferred = A.deferred
    BY <1>26, <1>27 DEF Takes
  <1>29. \A p \in protected : p \in A.deferred => A.held[p] > 0 \/ A.reading[p] > 0
    BY DEF ArenaInv, Kept
  <1>30. /\ ReadDone(C, D, k) /\ D.deferred = C.deferred /\ Resident(D) = Resident(C)
         /\ SamePools(C, D)
    <2>1. ReadDone(C, D, k)
      BY <1>2, <1>13, <1>14, <1>16, DoneReadingSheds
    <2>2. k \in C.deferred => C.held[k] > 0 \/ C.reading[k] > 1
      BY <1>2, <1>3, <1>6, <1>25, <1>28, <1>29
    <2>3. QED
      BY <2>1, <2>2 DEF ReadDone
  <1>31. shared # 0 => /\ ReadDone(D, E, parent) /\ E.deferred = D.deferred
                       /\ Resident(E) = Resident(D) /\ SamePools(D, E)
    <2> SUFFICES ASSUME shared # 0
                 PROVE  /\ ReadDone(D, E, parent) /\ E.deferred = D.deferred
                        /\ Resident(E) = Resident(D) /\ SamePools(D, E)
      OBVIOUS
    <2>1. parent \in Keys \ {k} /\ parent \in protected /\ E = DoneReading(D, parent)
      BY <1>2, <1>3, <1>14
    <2>2. D.reading[parent] = A.reading[parent] + 1 /\ D.held = A.held
      BY <1>18, <1>25, <1>30, <2>1 DEF ReadDone
    <2>3. D.reading[parent] > 0
      BY <1>6, <2>1, <2>2
    <2>4. ReadDone(D, E, parent)
      BY <1>17, <2>1, <2>3, DoneReadingSheds
    <2>5. parent \in D.deferred => D.held[parent] > 0 \/ D.reading[parent] > 1
      BY <1>6, <1>28, <1>29, <1>30, <2>1, <2>2
    <2>6. QED
      BY <2>4, <2>5 DEF ReadDone
  <1>32. /\ Resident(E) = Resident(C) /\ E.deferred = C.deferred /\ E.held = A.held
         /\ Sheds(C, E) /\ E.reading = A.reading
    <2>1. C.reading \in [Keys -> Nat] /\ E.reading \in [Keys -> Nat] /\ D.reading \in [Keys -> Nat]
      BY <1>20, ArenaFields
    <2>2. D.reading = [C.reading EXCEPT ![k] = @ - 1] /\ D.held = C.held /\ Sheds(C, D)
      BY <1>30 DEF ReadDone
    <2>3. CASE shared = 0
      <3>1. E = D /\ protected = {k}
        BY <1>14, <2>3 DEF protected
      <3>2. \A p \in Keys : D.reading[p] = A.reading[p]
        BY <1>2, <1>6, <1>25, <2>1, <2>2, <3>1
      <3>3. D.reading = A.reading
        BY <1>6, <2>1, <3>2
      <3>4. QED
        BY <1>25, <1>30, <2>2, <3>1, <3>3
    <2>4. CASE shared # 0
      <3>1. parent \in Keys \ {k} /\ protected = {k, parent}
        BY <1>2, <2>4 DEF protected
      <3>2. E.reading = [D.reading EXCEPT ![parent] = @ - 1] /\ E.held = D.held /\ Sheds(D, E)
        BY <1>31, <2>4 DEF ReadDone
      <3>3. \A p \in Keys : E.reading[p] = A.reading[p]
        <4>1. \A p \in Keys \ {k, parent} : E.reading[p] = A.reading[p]
          BY <1>25, <2>1, <2>2, <3>1, <3>2
        <4>2. E.reading[k] = A.reading[k]
          BY <1>2, <1>3, <1>6, <1>25, <2>1, <2>2, <3>1, <3>2
        <4>3. E.reading[parent] = A.reading[parent]
          BY <1>2, <1>6, <1>25, <2>1, <2>2, <3>1, <3>2
        <4>4. QED
          BY <4>1, <4>2, <4>3
      <3>4. E.reading = A.reading
        BY <1>6, <2>1, <3>3
      <3>5. Sheds(C, E)
        BY <2>2, <3>2, ShedsBoth
      <3>6. QED
        BY <1>25, <1>30, <1>31, <2>2, <2>4, <3>2, <3>4, <3>5
    <2>5. QED
      BY <2>3, <2>4
  <1>33. Served(A, out, k, tokens)
    <2>1. CASE Covers(B, need, needSliding)
      <3>1. out.ok = TRUE
        BY <1>1, <2>1
      <3>2. Takes(B, C, k, tokens) /\ Resident(B) \subseteq Keys
        <4>1. Resident(B) \subseteq Keys
          BY <1>20, ArenaFields, Fields, PoolNats DEF Resident
        <4>2. QED
          BY <1>27, <2>1, <4>1
      <3>4. Seats(A, E, k, tokens)
        <4>1. k \in Resident(E) /\ E.base[k] = tokens
          BY <1>32, <3>2 DEF Takes, Sheds
        <4>2. Resident(E) \subseteq Resident(A) \cup {k}
          BY <1>26, <1>32, <3>2 DEF Takes, Sheds
        <4>3. ASSUME NEW l \in Resident(E) \ {k}
              PROVE  /\ E.base[l] = A.base[l]
                     /\ l \in A.retained => l \in E.retained
                     /\ l \in A.deferred => l \in E.deferred
          <5>1. l \in Resident(C) /\ l \in Resident(B) /\ l \in Keys
            BY <1>32, <3>2 DEF Takes
          <5>2. /\ E.base[l] = C.base[l]
                /\ l \in C.retained => l \in E.retained
                /\ l \in C.deferred => l \in E.deferred
            BY <1>32 DEF Sheds
          <5>3. /\ C.base[l] = B.base[l] /\ C.retained = B.retained \ {k}
                /\ C.deferred = B.deferred
            BY <3>2, <5>1 DEF Takes
          <5>4. /\ B.base[l] = A.base[l]
                /\ l \in A.retained => l \in B.retained
                /\ l \in A.deferred => l \in B.deferred
            BY <1>26, <5>1 DEF Sheds
          <5>5. QED
            BY <5>2, <5>3, <5>4
        <4>4. QED
          BY <4>1, <4>2, <4>3 DEF Seats
      <3>5. QED
        BY <1>12, <1>32, <3>1, <3>4 DEF Served
    <2>2. CASE ~Covers(B, need, needSliding)
      <3>1. out.ok = FALSE
        BY <1>1, <2>2
      <3>2. Sheds(A, E)
        BY <1>26, <1>27, <1>32, <2>2, ShedsBoth
      <3>3. QED
        BY <1>12, <1>32, <3>1, <3>2 DEF Served
    <2>3. QED
      BY <2>1, <2>2
  <1>34. shared > 0 => parent \in Resident(E)
    <2> SUFFICES ASSUME shared > 0 PROVE parent \in Resident(E)
      OBVIOUS
    <2>1. Untouched(R, B, parent)
      BY <1>3, <1>9
    <2>2. parent \in Resident(B)
      BY <1>2, <1>5, <2>1 DEF Untouched
    <2>3. parent \in Resident(C)
      BY <1>27, <2>2 DEF Takes
    <2>4. QED
      BY <1>32, <2>3
  <1>35. SparesBut(A, B, A.retained) /\ Roomier(A, B)
    <2>1. SparesBut(R, B, R.retained) /\ Roomier(R, B)
      BY <1>1, <1>5, EvictSpares DEF EvictForPages
    <2>2. SamePools(A, R) /\ R.retained = A.retained /\ R.deferred = A.deferred
      BY <1>4, <1>5, ReadStateKeeps DEF R
    <2>3. \A l \in Keys : Spares(A, R, l)
      BY <2>2, MarksSpare
    <2>4. \A l \in Keys \ A.retained : Spares(A, B, l)
      BY <2>1, <2>2, <2>3, SparesBoth DEF SparesBut
    <2>5. Roomier(A, B)
      BY <2>1, <2>2 DEF Roomier, SamePools
    <2> QED BY <2>4, <2>5 DEF SparesBut
  <1>36. IF Covers(B, need, needSliding) THEN Supplies(B, C, k, need, needSliding) ELSE C = B
    <2>1. CASE Covers(B, need, needSliding)
      <3>1. C = Activate(B, k, tokens, capacity, parent, shared)
        BY <2>1 DEF C
      <3>2. Supplies(B, C, k, NeedFull(B, k, capacity, shared),
                     NeedSliding(B, k, capacity, shared))
        BY <1>8, <1>10, <1>11, <2>1, <3>1, ActivateKeeps
      <3> QED BY <1>11, <2>1, <3>2 DEF Supplies
    <2>2. CASE ~Covers(B, need, needSliding)
      BY <2>2 DEF C
    <2> QED BY <2>1, <2>2
  <1>37. SparesBut(C, E, A.deferred) /\ Roomier(C, E)
    <2>1. SparesBut(C, D, A.deferred) /\ Roomier(C, D)
      BY <1>2, <1>13, <1>14, <1>16, <1>28, DoneReadingSpares
    <2>2. CASE shared = 0
      BY <1>14, <2>1, <2>2
    <2>3. CASE shared # 0
      <3>1. parent \in Keys \ {k} /\ C.reading[parent] > 0
        BY <1>2, <1>15, <1>16, <2>3
      <3>2. D.reading[parent] > 0 /\ E = DoneReading(D, parent)
        BY <1>14, <1>18, <2>3, <3>1
      <3>3. SparesBut(D, E, D.deferred) /\ Roomier(D, E)
        BY <1>17, <3>1, <3>2, DoneReadingSpares
      <3>4. D.deferred = A.deferred
        BY <1>28, <1>30
      <3>5. SparesBut(C, E, A.deferred)
        BY <2>1, <3>3, <3>4, SparesBoth DEF SparesBut
      <3> QED BY <2>1, <3>3, <3>5 DEF Roomier
    <2> QED BY <2>2, <2>3
  <1>38. /\ FreeCount(A.full) <= FreeCount(B.full) /\ FreeCount(A.slide) <= FreeCount(B.slide)
         /\ FreeCount(C.full) <= FreeCount(E.full) /\ FreeCount(C.slide) <= FreeCount(E.slide)
         /\ FreeCount(A.full) \in Nat /\ FreeCount(B.full) \in Nat
         /\ FreeCount(C.full) \in Nat /\ FreeCount(E.full) \in Nat
         /\ FreeCount(A.slide) \in Nat /\ FreeCount(B.slide) \in Nat
         /\ FreeCount(C.slide) \in Nat /\ FreeCount(E.slide) \in Nat
    BY <1>6, <1>20, <1>35, <1>37, RoomierCounts
  <1>39. Spends(A, out, k, need, needSliding)
    <2>1. CASE Covers(B, need, needSliding)
      <3>1. out.ok = TRUE /\ Supplies(B, C, k, need, needSliding)
        BY <1>1, <1>36, <2>1
      <3>2. \A l \in Keys \ (A.retained \cup A.deferred \cup {k}) : Spares(A, E, l)
        BY <1>35, <1>37, <3>1, SparesBoth DEF SparesBut, Supplies
      <3>3. need \in Int /\ needSliding \in Int
        BY <1>0, <1>2, <1>6, NeedsAre DEF Request
      <3>4. /\ FreeCount(E.full) >= FreeCount(A.full) - need
            /\ HasSliding => FreeCount(E.slide) >= FreeCount(A.slide) - needSliding
        BY <1>38, <3>1, <3>3 DEF Supplies
      <3> QED BY <1>12, <3>1, <3>2, <3>4 DEF Spends, SparesBut
    <2>2. CASE ~Covers(B, need, needSliding)
      <3>1. out.ok = FALSE /\ C = B
        BY <1>1, <1>36, <2>2
      <3>2. \A l \in Keys \ (A.retained \cup A.deferred) : Spares(A, E, l)
        BY <1>35, <1>37, <3>1, SparesBoth DEF SparesBut
      <3>3. FreeCount(E.full) >= FreeCount(A.full) - 0 /\ FreeCount(E.slide) >= FreeCount(A.slide) - 0
        BY <1>38, <3>1
      <3> QED BY <1>12, <3>1, <3>2, <3>3 DEF Spends, SparesBut
    <2> QED BY <2>1, <2>2
  <1>40. SamePools(C, E)
    BY <1>14, <1>30, <1>31 DEF SamePools
  <1>41. ASSUME NEW l \in Keys, l \notin A.retained \/ l = k PROVE Stays(A, B, l)
    <2>1. Stays(A, R, l)
      BY <1>5, PoolsStay
    <2>2. Untouched(R, B, l)
      <3>1. R.retained = A.retained
        BY <1>4, ReadStateKeeps DEF R
      <3> QED BY <1>3, <1>8, <1>9, <1>41, <3>1 DEF Evictable
    <2>3. Stays(R, B, l)
      BY <2>2, KeepStays DEF Untouched
    <2> QED BY <2>1, <2>3, StaysBoth
  <1>42. IF Covers(B, need, needSliding)
         THEN Places(B, C, k, parent, shared) /\ \A l \in Keys \ {k} : Stays(B, C, l)
         ELSE C = B
    <2>1. CASE Covers(B, need, needSliding)
      <3>1. C = Activate(B, k, tokens, capacity, parent, shared)
        BY <2>1 DEF C
      <3>2. Places(B, C, k, parent, shared) /\ \A l \in Keys \ {k} : Stays(B, C, l)
        BY <1>8, <1>10, <1>11, <2>1, <3>1, ActivateKeeps
      <3> QED BY <2>1, <3>2
    <2>2. CASE ~Covers(B, need, needSliding)
      BY <2>2 DEF C
    <2> QED BY <2>1, <2>2
  <1>43. Fills(A, out, k, parent, shared)
    <2>1. ASSUME NEW l \in Keys \ {k} PROVE Narrower(A, E, l)
      <3>1. Narrower(A, B, l)
        BY <1>26 DEF Sheds
      <3>2. Stays(B, C, l)
        <4>1. CASE C = B
          BY <4>1 DEF Stays
        <4> QED BY <1>42, <4>1
      <3>3. Stays(B, E, l)
        BY <1>40, <3>2, PoolsStay, StaysBoth
      <3> QED BY <3>1, <3>3 DEF Narrower, Stays
    <2>2. ASSUME NEW l \in Keys \ A.retained, out.ok => l # k PROVE Stays(A, E, l)
      <3>1. Stays(A, B, l)
        BY <1>41
      <3>2. Stays(B, C, l)
        <4>1. CASE Covers(B, need, needSliding)
          <5>1. l # k
            BY <1>1, <2>2, <4>1
          <5> QED BY <1>42, <4>1, <5>1
        <4>2. CASE ~Covers(B, need, needSliding)
          BY <1>42, <4>2 DEF Stays
        <4> QED BY <4>1, <4>2
      <3> QED BY <1>40, <3>1, <3>2, PoolsStay, StaysBoth
    <2>3. ASSUME out.ok PROVE Places(A, E, k, parent, shared)
      <3>1. Places(B, C, k, parent, shared)
        BY <1>1, <1>42, <2>3
      <3>2. Stays(A, B, k)
        BY <1>2, <1>41
      <3>3. B.base[k] = A.base[k] /\ (k \in Resident(B) <=> k \in Resident(A))
        BY <1>3, <1>5, <1>9 DEF Untouched, SamePools
      <3> QED BY <1>40, <3>1, <3>2, <3>3, PlacesSame
    <2>4. E.deferred = A.deferred
      BY <1>28, <1>32
    <2>5. ASSUME out.ok, k \notin A.deferred PROVE k \notin E.retained
      <3>1. Takes(B, C, k, tokens)
        BY <1>1, <1>27, <2>5
      <3>2. k \notin C.retained
        BY <3>1 DEF Takes
      <3> QED BY <1>2, <1>37, <2>5, <3>2 DEF SparesBut, Spares
    <2> QED BY <1>12, <2>1, <2>2, <2>3, <2>4, <2>5 DEF Fills
  <1>44. QED
    BY <1>12, <1>19, <1>24, <1>33, <1>34, <1>39, <1>43, <1>0

-----------------------------------------------------------------------------
(* Prices *)

\* Division rounds down.
LEMMA Quotient ==
    ASSUME NEW s \in Nat \ {0}, NEW a \in Int
    PROVE  /\ a \div s \in Int /\ (a \div s) * s <= a /\ a < (a \div s + 1) * s
           /\ a >= 0 => a \div s >= 0
  OBVIOUS

LEMMA Multiples ==
    ASSUME NEW s \in Nat \ {0}, NEW a \in Int, NEW b \in Int
    PROVE  /\ a * s \in Int /\ b * s \in Int /\ (a - b) * s = a * s - b * s
           /\ (a + b) * s = a * s + b * s
           /\ a * s < b * s => a < b
           /\ a <= b => a * s <= b * s
  OBVIOUS

\* Sliding pages given up come off the every-token pages they stand for.
LEMMA ScaledLess ==
    ASSUME NEW s \in Nat \ {0}, NEW w \in Nat \ {0}, NEW x \in Int, NEW y \in Int, NEW m \in Int,
           y >= x - m
    PROVE  (y * w) \div s >= (x * w) \div s - (m * w + s - 1) \div s
  <1> DEFINE a == (x * w) \div s
             b == (y * w) \div s
             q == (m * w + s - 1) \div s
  <1>1. x * w \in Int /\ y * w \in Int /\ m * w \in Int
    BY Multiples
  <1>2. /\ a \in Int /\ a * s <= x * w
        /\ b \in Int /\ y * w < (b + 1) * s
    BY <1>1, Quotient
  <1>3. q \in Int /\ m * w + s - 1 < (q + 1) * s
    BY <1>1, Quotient
  <1> HIDE DEF a, b, q
  <1>4. x * w - m * w <= y * w
    <2>1. x - m \in Int /\ (x - m) * w = x * w - m * w /\ (x - m) * w <= y * w
      BY Multiples
    <2> QED BY <2>1
  <1>5. /\ (q + 1) * s = q * s + s /\ (b + 1) * s = b * s + s
        /\ (a - q) * s = a * s - q * s
        /\ q * s \in Int /\ b * s \in Int /\ a * s \in Int
    BY <1>2, <1>3, Multiples
  <1>6. (a - q) * s < (b + 1) * s
    BY <1>1, <1>2, <1>3, <1>4, <1>5
  <1>7. a - q < b + 1
    BY <1>2, <1>3, <1>6, Multiples
  <1> QED BY <1>2, <1>3, <1>7 DEF a, b, q

\* n every-token pages and m sliding ones, in every-token pages.
Price(n, m) == IF HasSliding THEN Bigger(n, EveryTokenPages(m)) ELSE n

LEMMA FreePagesAre ==
    ASSUME NEW A \in Arena
    PROVE  FreePages(A) \in Nat
  <1>1. FreeCount(A.full) \in Nat /\ FreeCount(A.slide) \in Nat
    BY ArenaFields, FreeFinite, PoolNats
  <1> DEFINE y == FreeCount(A.slide)
             z == (y * NumPages) \div NumSliding
  <1>2. HasSliding => z \in Nat
    <2>1. HasSliding => NumSliding \in Nat \ {0} /\ NumPages \in Nat
      BY PoolNats DEF HasSliding
    <2>2. y * NumPages \in Nat
      BY <1>1, PoolNats
    <2> HIDE DEF y
    <2> QED BY <2>1, <2>2, Quotient
  <1> QED BY <1>1, <1>2 DEF FreePages

\* What calls leave free covers what was free, less what they took.
LEMMA FreePagesLeft ==
    ASSUME NEW A \in Arena, NEW B \in Arena, NEW n \in Int, NEW m \in Int,
           FreeCount(B.full) >= FreeCount(A.full) - n,
           HasSliding => FreeCount(B.slide) >= FreeCount(A.slide) - m
    PROVE  FreePages(B) >= FreePages(A) - Price(n, m)
  <1>1. /\ FreeCount(A.full) \in Nat /\ FreeCount(A.slide) \in Nat
        /\ FreeCount(B.full) \in Nat /\ FreeCount(B.slide) \in Nat
    BY ArenaFields, FreeFinite, PoolNats
  <1>2. CASE ~HasSliding
    BY <1>1, <1>2 DEF FreePages, Price
  <1>3. CASE HasSliding
    <2> DEFINE x == FreeCount(A.slide)
               y == FreeCount(B.slide)
               a == (x * NumPages) \div NumSliding
               b == (y * NumPages) \div NumSliding
               q == (m * NumPages + NumSliding - 1) \div NumSliding
    <2>1. NumSliding \in Nat \ {0} /\ NumPages \in Nat \ {0}
      BY <1>3, PoolAssumption DEF HasSliding
    <2>2. x \in Int /\ y \in Int /\ y >= x - m
      BY <1>1, <1>3
    <2>3. /\ FreePages(A) = (IF a < FreeCount(A.full) THEN a ELSE FreeCount(A.full))
          /\ FreePages(B) = (IF b < FreeCount(B.full) THEN b ELSE FreeCount(B.full))
          /\ Price(n, m) = (IF n > q THEN n ELSE q)
      BY <1>3 DEF FreePages, Price, Bigger, EveryTokenPages
    <2> HIDE DEF x, y
    <2>4. b >= a - q
      BY <2>1, <2>2, ScaledLess
    <2>5. a \in Int /\ b \in Int /\ q \in Int
      BY <2>1, <2>2, Quotient, Multiples
    <2> HIDE DEF a, b, q
    <2> QED BY <1>1, <2>3, <2>4, <2>5
  <1> QED BY <1>2, <1>3

\* Where no page is taken there is as much.
LEMMA RoomierPages ==
    ASSUME NEW A \in Arena, NEW B \in Arena, Roomier(A, B)
    PROVE  FreePages(A) <= FreePages(B)
  <1>1. /\ FreeCount(B.full) >= FreeCount(A.full) - 0
        /\ FreeCount(B.slide) >= FreeCount(A.slide) - 0
    BY RoomierCounts
  <1>2. FreePages(B) >= FreePages(A) - Price(0, 0)
    BY <1>1, FreePagesLeft
  <1>3. Price(0, 0) = 0
    <2>1. HasSliding => EveryTokenPages(0) = 0
      BY PoolAssumption DEF HasSliding, EveryTokenPages
    <2> QED BY <2>1 DEF Price, Bigger
  <1> QED BY <1>2, <1>3, FreePagesAre

\* A fresh document's reservation takes the pages of the rows it does not borrow.
LEMMA FreshPrice ==
    ASSUME NEW A, NEW k, k \notin Resident(A), NEW capacity \in Nat, NEW shared \in Nat,
           shared % PageTokens = 0
    PROVE  Price(NeedFull(A, k, capacity, shared), NeedSliding(A, k, capacity, shared))
               = PageCost(capacity - shared)
  <1> DEFINE q == shared \div PageTokens
             o == Origin(shared)
             r == (shared - o) \div PageTokens
  <1>1. q \in Int /\ q * PageTokens = shared
    BY DivFloor, WholePages
  <1>2. PagesNeeded(capacity - shared) = PagesNeeded(capacity) - q
    BY <1>1, PagesShift
  <1>3. o \in Nat /\ o <= shared /\ o % PageTokens = 0
    BY OriginIs
  <1> HIDE DEF o
  <1>4. (shared - o) % PageTokens = 0
    <2>1. (o \div PageTokens) * PageTokens = o /\ o \div PageTokens \in Int
      BY <1>3, DivFloor, WholePages
    <2>2. shared - o = (q - o \div PageTokens) * PageTokens
      BY <1>1, <2>1, Times
    <2>3. q - o \div PageTokens \in Int
      BY <1>1, <2>1
    <2> QED BY <2>2, <2>3, Times
  <1>5. r \in Int /\ r * PageTokens = shared - o
    <2>1. shared - o \in Int
      BY <1>3
    <2> QED BY <1>4, <2>1, DivFloor, WholePages
  <1> HIDE DEF r, q
  <1>6. PagesNeeded(capacity - shared) = PagesNeeded(capacity - o) - r
    <2>1. capacity - o \in Int /\ capacity - o - r * PageTokens = capacity - shared
      BY <1>3, <1>5
    <2>2. PagesNeeded(capacity - o - r * PageTokens) = PagesNeeded(capacity - o) - r
      BY <1>5, <2>1, PagesShift
    <2> QED BY <2>1, <2>2
  <1>7. /\ NeedFull(A, k, capacity, shared) = PagesNeeded(capacity - shared)
        /\ NeedSliding(A, k, capacity, shared) = PagesNeeded(capacity - shared)
    BY <1>2, <1>6 DEF NeedFull, NeedSliding, q, r, o
  <1> QED BY <1>7 DEF Price, PageCost

\* A resident one takes those it lacks.
LEMMA GrowthPrice ==
    ASSUME NEW A, NEW k, k \in Resident(A), NEW capacity, NEW shared
    PROVE  Price(NeedFull(A, k, capacity, shared), NeedSliding(A, k, capacity, shared))
               = GrowthCost(A, k, capacity)
  BY DEF NeedFull, NeedSliding, Price, GrowthCost

-----------------------------------------------------------------------------
(* The empty arena, and what the invariant says *)

\* An empty pool is fine.
LEMMA EmptyFine ==
    ASSUME NEW n \in Nat, NEW base \in [Keys -> {0}], NEW start \in [Keys -> {0}]
    PROVE  PoolFine(EmptyPool(n), n, base, start)
  <1> DEFINE P == EmptyPool(n)
  <1>1. /\ P.resident = {} /\ P.free = 0 .. n - 1 /\ P.holds = [p \in 0 .. n - 1 |-> 0]
        /\ P.owned = [k \in Keys |-> <<>>] /\ P.borrowed = [k \in Keys |-> <<>>]
        /\ P.tokens = [k \in Keys |-> 0]
    BY DEF EmptyPool
  <1>2. P \in Pool(n)
    BY DEF EmptyPool, Pool
  <1> HIDE DEF P
  <1>3. <<>> \o <<>> = <<>> /\ Len(<<>>) = 0 /\ Range(<<>>) = {}
    BY DEF Range
  <1>4. \A k \in Keys : TablePages(P, k) = <<>> /\ TableSet(P, k) = {}
    BY <1>1, <1>3 DEF TablePages, TableSet
  <1>5. PoolOK(P)
    <2>1. HoldsCounted(P)
      <3>1. DOMAIN P.holds = 0 .. n - 1 /\ \A p \in 0 .. n - 1 : P.holds[p] = 0
        BY <1>1
      <3>2. \A p : {k \in P.resident : p \in TableSet(P, k)} = {}
        BY <1>1
      <3>3. Cardinality({}) = 0
        BY FS_EmptySet
      <3>4. QED
        BY <3>1, <3>2, <3>3 DEF HoldsCounted
    <2>2. FreeUnread(P)
      BY <1>1 DEF FreeUnread
    <2>3. OneWriter(P) /\ NothingLeft(P)
      BY <1>1 DEF OneWriter, NothingLeft
    <2>4. QED
      BY <2>1, <2>2, <2>3 DEF PoolOK
  <1>6. PoolInv(P, n)
    BY <1>2, <1>3, <1>4, <1>5 DEF PoolInv, Distinct
  <1>7. Aligned(P, start)
    BY <1>3, <1>4 DEF Aligned
  <1>8. ASSUME NEW k \in Keys PROVE Placed(P, base, start, k) /\ Fits(P, k)
    <2>1. base[k] = 0 /\ start[k] = 0 /\ P.tokens[k] = 0 /\ P.borrowed[k] = <<>>
      BY <1>1
    <2>2. 0 % PageTokens = 0 /\ 0 * PageTokens = 0
      BY PageTokensAssumption
    <2>3. QED
      BY <1>3, <1>4, <2>1, <2>2 DEF Placed, Fits
  <1>9. QED
    BY <1>6, <1>7, <1>8 DEF PoolFine, P

\* The arena a resize leaves satisfies the invariant.
LEMMA EmptyArenaFine ==
    ArenaInv(EmptyArena) /\ Resident(EmptyArena) = {}
  <1> DEFINE A == EmptyArena
  <1>1. /\ A.full = EmptyPool(NumPages) /\ A.slide = EmptyPool(NumSliding)
        /\ A.base = [k \in Keys |-> 0] /\ A.start = [k \in Keys |-> 0]
        /\ A.held = [k \in Keys |-> 0] /\ A.reading = [k \in Keys |-> 0]
        /\ A.deferred = {} /\ A.floor = [k \in Keys |-> NoFloor] /\ A.trimmed = {}
        /\ A.pinned = {} /\ A.retained = {} /\ A.size = [k \in Keys |-> 0]
        /\ Shape(A)
    BY DEF EmptyArena, Shape
  <1> HIDE DEF A
  <1>2. A.base \in [Keys -> {0}] /\ A.start \in [Keys -> {0}] /\ Zeros \in [Keys -> {0}]
    BY <1>1 DEF Zeros
  <1>3. PoolFine(A.full, NumPages, A.base, Zeros) /\ PoolFine(A.slide, NumSliding, A.base, A.start)
    BY <1>1, <1>2, EmptyFine, PoolNats
  <1>4. A.full.resident = {} /\ A.slide.resident = {}
    BY <1>1 DEF EmptyPool
  <1>5. Typed(A)
    <2>1. A.full \in Pool(NumPages) /\ A.slide \in Pool(NumSliding)
      BY <1>3 DEF PoolFine, PoolInv
    <2>2. QED
      BY <1>1, <2>1 DEF Typed
  <1>6. A \in Arena
    BY <1>1, <1>5, ArenaIs
  <1>7. SlideFine(A)
    BY <1>3 DEF SlideFine, PoolFine
  <1>8. Consistent(A) /\ A.deferred \subseteq Kept(A) /\ FloorsWhole(A)
    BY <1>1, <1>4 DEF Consistent, Resident, FloorsWhole
  <1>9. Anchored(A)
    BY <1>1, OriginZero DEF Anchored
  <1>10. QED
    BY <1>3, <1>4, <1>6, <1>7, <1>8, <1>9 DEF ArenaInv, Resident, A

\* Rows that agree for any two keys agree for resident ones.
LEMMA RowsAlign ==
    ASSUME NEW A, ArenaInv(A)
    PROVE  Accounted(A) /\ RowsAligned(A)
  <1>1. PoolInv(A.full, NumPages) /\ Aligned(A.full, Zeros)
    BY DEF ArenaInv, PoolFine
  <1>2. PoolInv(A.slide, NumSliding) /\ (HasSliding => Aligned(A.slide, A.start))
    BY DEF ArenaInv, SlideFine, PoolFine
  <1>3. A \in Arena /\ Resident(A) \subseteq Keys
    BY ArenaFields, Fields, PoolNats DEF ArenaInv, Resident
  <1>4. ASSUME NEW k \in Keys
        PROVE  /\ DOMAIN TablePages(A.full, k) = 1 .. Len(TablePages(A.full, k))
               /\ DOMAIN TablePages(A.slide, k) = 1 .. Len(TablePages(A.slide, k))
    <2>1. /\ TablePages(A.full, k) \in Seq(Pages(NumPages))
          /\ TablePages(A.slide, k) \in Seq(Pages(NumSliding))
      BY <1>1, <1>2, TableIs, PoolNats DEF PoolInv
    <2>2. QED
      BY <2>1
  <1>5. ASSUME NEW k \in Resident(A), NEW l \in Resident(A),
               NEW i \in DOMAIN TablePages(A.full, k), NEW j \in DOMAIN TablePages(A.full, l),
               TablePages(A.full, k)[i] = TablePages(A.full, l)[j]
        PROVE  i = j
    <2>1. /\ k \in Keys /\ l \in Keys
          /\ i \in 1 .. Len(TablePages(A.full, k)) /\ j \in 1 .. Len(TablePages(A.full, l))
      BY <1>3, <1>4
    <2>2. Zeros[k] + i * PageTokens = Zeros[l] + j * PageTokens
      BY <1>1, <1>5, <2>1 DEF Aligned
    <2>3. Zeros[k] = 0 /\ Zeros[l] = 0 /\ i \in Int /\ j \in Int
      BY <2>1 DEF Zeros
    <2>4. i * PageTokens \in Int /\ j * PageTokens \in Int
      BY <2>3, Times
    <2>5. i * PageTokens = j * PageTokens
      BY <2>2, <2>3, <2>4
    <2>6. i <= j /\ j <= i
      BY <2>3, <2>4, <2>5, TimesOrder
    <2>7. QED
      BY <2>3, <2>6
  <1>6. ASSUME NEW k \in Resident(A), NEW l \in Resident(A),
               NEW i \in DOMAIN TablePages(A.slide, k), NEW j \in DOMAIN TablePages(A.slide, l),
               TablePages(A.slide, k)[i] = TablePages(A.slide, l)[j]
        PROVE  A.start[k] + i * PageTokens = A.start[l] + j * PageTokens
    <2>1. /\ k \in Keys /\ l \in Keys
          /\ i \in 1 .. Len(TablePages(A.slide, k)) /\ j \in 1 .. Len(TablePages(A.slide, l))
      BY <1>3, <1>4
    <2>2. CASE HasSliding
      BY <1>2, <1>6, <2>1, <2>2 DEF Aligned
    <2>3. CASE ~HasSliding
      <3>1. NumSliding = 0
        BY <2>3, PoolNats DEF HasSliding
      <3>2. TablePages(A.slide, k)[i] \in Pages(NumSliding)
        <4>1. TablePages(A.slide, k) \in Seq(Pages(NumSliding))
          BY <1>2, <2>1, TableIs, PoolNats DEF PoolInv
        <4>2. QED
          BY <2>1, <4>1
      <3>3. QED
        BY <3>1, <3>2 DEF Pages
    <2>4. QED
      BY <2>2, <2>3
  <1>7. QED
    BY <1>1, <1>2, <1>5, <1>6 DEF Accounted, RowsAligned, PoolInv

=============================================================================
