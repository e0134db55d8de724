--------------------------- MODULE GpuWorkersProofs ---------------------------
(***************************************************************************)
(* What is proved of GpuWorkers, for any number of GPUs, queries, faults   *)
(* and groups of operators: a round reads its own replies (RepliesInStep), *)
(* no GPU runs a query under another one's boot (QueriesRunAsBound), no    *)
(* child is asked for a document another one retains (KVAtHome), each      *)
(* query that fails is paid for by a fault (FailuresPaidFor), and several  *)
(* GPUs answer as one would (AnswersAsOneGpu).                             *)
(*                                                                         *)
(* PipeInv says what is in the pipes.  Between rounds they are empty       *)
(* unless a child is gone, and then the children are replaced before the   *)
(* next round; during a round each child has the round's message, or its   *)
(* reply, or has been read.  PaidInv, HomeInv and AnswerInv rest on it;    *)
(* AnswerInv rests on HomeInv too, by which no owner ever changes, and on  *)
(* what the placement and the merging compute: every document left gets    *)
(* one child, documents of a stop key the same one, and disjoint ascending *)
(* replies are merged into one ascending list.                             *)
(***************************************************************************)
EXTENDS GpuWorkers, Functions, FiniteSetTheorems, WellFoundedInduction, TLAPS

-----------------------------------------------------------------------------
(* What InOrder's operators compute, here without the constants of the     *)
(* arena that KVArenaProofs has beside them.                               *)

(* A set of naturals that is not empty has a least element.                *)
LEMMA LeastOf ==
    ASSUME NEW T, T \subseteq Nat, T # {}
    PROVE  \E x \in T : \A y \in T : x <= y
  <1> DEFINE R == OpToRel(<, Nat)
  <1>1. IsWellFoundedOn(R, Nat)
    BY NatLessThanWellFounded
  <1>2. \A x, y \in Nat : <<x, y>> \in R <=> x < y
    BY DEF OpToRel
  <1> HIDE DEF R
  <1>3. PICK x \in T : \A y \in T : ~ (<<y, x>> \in R)
    BY <1>1, WFMin
  <1>4. \A y \in T : ~ (y < x)
    BY <1>2, <1>3
  <1>5. \A y \in T : x <= y
    BY <1>4
  <1> QED BY <1>5

(* What holds of 0 and passes from a number to the next holds of them all. *)
LEMMA UpTo ==
    ASSUME NEW T, 0 \in T, \A n \in Nat : n \in T => n + 1 \in T
    PROVE  Nat \subseteq T
  <1> SUFFICES ASSUME Nat \ T # {} PROVE FALSE
    OBVIOUS
  <1>1. PICK x \in Nat \ T : \A y \in Nat \ T : x <= y
    BY LeastOf
  <1>2. x - 1 \in Nat /\ x - 1 \in T
    BY <1>1
  <1> QED BY <1>1, <1>2

(* The elements of a finite set of numbers up to one of them: how many     *)
(* there are is that one's place.                                          *)
RankIn(S, x) == Cardinality({y \in S : y < x}) + 1

LEMMA RankGrows ==
    ASSUME NEW S, S \subseteq Int, IsFiniteSet(S), NEW x \in S
    PROVE  /\ RankIn(S, x) \in 1..Cardinality(S)
           /\ \A z \in S : x < z => RankIn(S, x) < RankIn(S, z)
  <1> DEFINE Below(v) == {y \in S : y < v}
  <1>1. ASSUME NEW v \in S PROVE IsFiniteSet(Below(v)) /\ Cardinality(Below(v)) \in Nat
    <2>1. Below(v) \in SUBSET S
      OBVIOUS
    <2> QED BY <2>1, FS_Subset, FS_CardinalityType
  <1>2. IsFiniteSet(Below(x) \cup {x}) /\ Cardinality(Below(x) \cup {x}) = Cardinality(Below(x)) + 1
    <2>1. x \notin Below(x)
      OBVIOUS
    <2> QED BY <1>1, <2>1, FS_AddElement
  <1>3. Cardinality(Below(x) \cup {x}) <= Cardinality(S) /\ Cardinality(S) \in Nat
    <2>1. Below(x) \cup {x} \in SUBSET S
      OBVIOUS
    <2> QED BY <2>1, FS_Subset, FS_CardinalityType
  <1>4. ASSUME NEW z \in S, x < z PROVE RankIn(S, x) < RankIn(S, z)
    <2>1. Below(x) \cup {x} \in SUBSET Below(z)
      <3>1. x \in Int /\ z \in Int /\ \A y \in S : y \in Int
        BY <1>4
      <3>2. \A y \in S : y < x => y < z
        BY <1>4, <3>1
      <3> QED BY <1>4, <3>2
    <2>2. Cardinality(Below(x) \cup {x}) <= Cardinality(Below(z))
      BY <1>1, <2>1, FS_Subset
    <2> QED BY <1>1, <1>2, <2>2 DEF RankIn
  <1> QED BY <1>1, <1>2, <1>3, <1>4 DEF RankIn

(* Ascending lists every element of a finite set of numbers once, the      *)
(* smaller before the larger.                                              *)
LEMMA AscendingIs ==
    ASSUME NEW S, S \subseteq Int, IsFiniteSet(S)
    PROVE  /\ Cardinality(S) \in Nat /\ Ascending(S) \in [1..Cardinality(S) -> S]
           /\ \A x \in S : \E n \in 1..Cardinality(S) : Ascending(S)[n] = x
           /\ \A m, n \in 1..Cardinality(S) : m < n => Ascending(S)[m] < Ascending(S)[n]
  <1> DEFINE c == Cardinality(S)
             f == [x \in S |-> RankIn(S, x)]
  <1>1. c \in Nat
    BY FS_CardinalityType
  <1>2. f \in [S -> 1..c]
    BY RankGrows
  <1>3. \A x, z \in S : x # z => f[x] # f[z]
    <2> SUFFICES ASSUME NEW x \in S, NEW z \in S, x # z PROVE RankIn(S, x) # RankIn(S, z)
      OBVIOUS
    <2>1. x < z \/ z < x
      <3>1. x \in Int /\ z \in Int
        OBVIOUS
      <3> QED BY <3>1
    <2>2. /\ RankIn(S, x) \in 1..c /\ RankIn(S, z) \in 1..c
          /\ x < z => RankIn(S, x) < RankIn(S, z)
          /\ z < x => RankIn(S, z) < RankIn(S, x)
      BY RankGrows
    <2> QED BY <1>1, <2>1, <2>2
  <1>4. IsFiniteSet(1..c) /\ Cardinality(1..c) = c
    BY <1>1, FS_Interval
  <1>5. f \in Injection(S, 1..c)
    BY <1>2, <1>3 DEF Injection, IsInjective
  <1>6. f \in Surjection(S, 1..c)
    BY <1>4, <1>5, FS_Injection
  <1>7. ASSUME NEW n \in 1..c
        PROVE  /\ Ascending(S)[n] \in S /\ RankIn(S, Ascending(S)[n]) = n
    <2>1. PICK x \in S : f[x] = n
      BY <1>6 DEF Surjection
    <2>2. Cardinality({y \in S : y < x}) \in Nat
      <3>1. {y \in S : y < x} \in SUBSET S
        OBVIOUS
      <3> QED BY <3>1, FS_Subset, FS_CardinalityType
    <2>3. Cardinality({y \in S : y < x}) = n - 1
      BY <1>1, <2>1, <2>2 DEF RankIn
    <2>4. Ascending(S)[n] = CHOOSE y \in S : Cardinality({z \in S : z < y}) = n - 1
      BY DEF Ascending, Ranked
    <2>5. Ascending(S)[n] \in S /\ Cardinality({z \in S : z < Ascending(S)[n]}) = n - 1
      BY <2>3, <2>4
    <2> QED BY <1>1, <2>5 DEF RankIn
  <1>8. Ascending(S) \in [1..c -> S]
    <2>1. DOMAIN Ascending(S) = 1..c /\ Ascending(S) = [n \in 1..c |-> Ascending(S)[n]]
      BY SMTT(30) DEF Ascending, Ranked
    <2> QED BY <1>7, <2>1
  <1>9. \A x \in S : \E n \in 1..c : Ascending(S)[n] = x
    <2> SUFFICES ASSUME NEW x \in S PROVE \E n \in 1..c : Ascending(S)[n] = x
      OBVIOUS
    <2>1. f[x] \in 1..c /\ Ascending(S)[f[x]] \in S /\ f[Ascending(S)[f[x]]] = f[x]
      BY <1>2, <1>7
    <2>2. Ascending(S)[f[x]] = x
      BY <1>3, <2>1
    <2> QED BY <2>1, <2>2
  <1>10. \A m, n \in 1..c : m < n => Ascending(S)[m] < Ascending(S)[n]
    <2> SUFFICES ASSUME NEW m \in 1..c, NEW n \in 1..c, m < n
                 PROVE  Ascending(S)[m] < Ascending(S)[n]
      OBVIOUS
    <2> DEFINE x == Ascending(S)[m]
               z == Ascending(S)[n]
    <2>1. x \in S /\ z \in S /\ RankIn(S, x) = m /\ RankIn(S, z) = n
      BY <1>7
    <2>2. x < z \/ x = z \/ z < x
      <3>1. x \in Int /\ z \in Int
        BY <2>1
      <3> HIDE DEF x, z
      <3> QED BY <3>1
    <2>3. z < x => n < m
      BY <2>1, RankGrows
    <2> QED BY <2>1, <2>2, <2>3
  <1> QED BY <1>1, <1>8, <1>9, <1>10

(* Sifted keeps the elements of a sequence that are in a set, and no other,*)
(* in the order they had.                                                  *)
LEMMA SiftedIs ==
    ASSUME NEW s, NEW len \in Nat, DOMAIN s = 1..len, NEW keep
    PROVE  \E at :
              /\ at \in [DOMAIN Sifted(s, keep) -> 1..len]
              /\ \A n \in DOMAIN Sifted(s, keep) : Sifted(s, keep)[n] = s[at[n]] /\ s[at[n]] \in keep
              /\ \A k \in 1..len : s[k] \in keep => \E n \in DOMAIN Sifted(s, keep) : at[n] = k
              /\ \A m, n \in DOMAIN Sifted(s, keep) : m < n => at[m] < at[n]
              /\ \E size \in Nat : DOMAIN Sifted(s, keep) = 1..size /\ size <= len
  <1> DEFINE P == {n \in DOMAIN s : s[n] \in keep}
             at == Ascending(P)
  <1>1. IsFiniteSet(1..len) /\ Cardinality(1..len) = len
    BY FS_Interval
  <1>2. P \in SUBSET (1..len)
    OBVIOUS
  <1>3. P \subseteq Int /\ IsFiniteSet(P) /\ Cardinality(P) <= len
    BY <1>1, <1>2, FS_Subset
  <1>4. /\ Cardinality(P) \in Nat /\ at \in [1..Cardinality(P) -> P]
        /\ \A x \in P : \E n \in 1..Cardinality(P) : at[n] = x
        /\ \A m, n \in 1..Cardinality(P) : m < n => at[m] < at[n]
    BY <1>3, AscendingIs
  <1>5. Sifted(s, keep) = [n \in DOMAIN at |-> s[at[n]]]
    BY DEF Sifted
  <1>6. P \subseteq 1..len /\ \A k \in 1..len : k \in P <=> s[k] \in keep
    OBVIOUS
  <1> HIDE DEF P, at
  <1>7. DOMAIN Sifted(s, keep) = 1..Cardinality(P) /\ \A n \in 1..Cardinality(P) : Sifted(s, keep)[n] = s[at[n]]
    BY <1>4, <1>5
  <1> QED BY <1>3, <1>4, <1>6, <1>7

(* A list of numbers, each larger than those before it, is the list of its *)
(* elements in ascending order.                                            *)
Increasing(f, n) ==
    /\ DOMAIN f = 1..n /\ f = [m \in 1..n |-> f[m]]
    /\ \A m \in 1..n : f[m] \in Int
    /\ \A k, m \in 1..n : k < m => f[k] < f[m]
Within(f, n) == {f[m] : m \in 1..n}

LEMMA IncreasingIs ==
    ASSUME NEW n \in Nat, NEW f, Increasing(f, n)
    PROVE  IsFiniteSet(Within(f, n)) /\ Cardinality(Within(f, n)) = n /\ f = Ascending(Within(f, n))
  <1> DEFINE S == {f[m] : m \in 1..n}
             Before(m) == {y \in S : y < f[m]}
  <1>0. /\ DOMAIN f = 1..n /\ f = [m \in 1..n |-> f[m]]
        /\ \A m \in 1..n : f[m] \in Int
        /\ \A k, m \in 1..n : k < m => f[k] < f[m]
    BY DEF Increasing
  <1> USE <1>0
  <1>1. \A k, m \in 1..n : k # m => f[k] # f[m]
    <2> SUFFICES ASSUME NEW k \in 1..n, NEW m \in 1..n, k # m PROVE f[k] # f[m]
      OBVIOUS
    <2>1. (k < m \/ m < k) /\ f[k] \in Int /\ f[m] \in Int
      OBVIOUS
    <2>2. f[k] < f[m] \/ f[m] < f[k]
      BY <2>1
    <2> QED BY <2>1, <2>2
  <1>2. ASSUME NEW m \in 0..n
        PROVE  IsFiniteSet({f[k] : k \in 1..m}) /\ Cardinality({f[k] : k \in 1..m}) = m
    <2> DEFINE g == [k \in 1..m |-> f[k]]
               V == {f[k] : k \in 1..m}
    <2>1. m \in Nat /\ 1..m \subseteq 1..n
      OBVIOUS
    <2>2. IsFiniteSet(1..m) /\ Cardinality(1..m) = m
      BY <2>1, FS_Interval
    <2>3. g \in Bijection(1..m, V)
      <3>1. g \in [1..m -> V] /\ \A y \in V : \E k \in 1..m : g[k] = y
        OBVIOUS
      <3>2. \A j, k \in 1..m : g[j] = g[k] => j = k
        BY <1>1, <2>1
      <3> HIDE DEF g, V
      <3> QED BY <3>1, <3>2 DEF Bijection, Injection, Surjection, IsInjective
    <2> HIDE DEF g, V
    <2>4. IsFiniteSet(V) /\ Cardinality(V) = m
      <3> DEFINE W == 1..m
      <3>1. IsFiniteSet(W) /\ Cardinality(W) = m /\ g \in Bijection(W, V)
        BY <2>2, <2>3
      <3> HIDE DEF W
      <3> QED BY <3>1, FS_Bijection DEF ExistsBijection
    <2> QED BY <2>4 DEF V
  <1>3. IsFiniteSet(S) /\ Cardinality(S) = n
    <2>1. n \in 0..n
      OBVIOUS
    <2> QED BY <1>2, <2>1
  <1>4. ASSUME NEW m \in 1..n PROVE Cardinality(Before(m)) = m - 1
    <2>1. Before(m) = {f[k] : k \in 1..(m - 1)}
      <3>1. ASSUME NEW y \in Before(m) PROVE \E k \in 1..(m - 1) : y = f[k]
        <4>1. PICK k \in 1..n : y = f[k]
          OBVIOUS
        <4>2. f[k] < f[m] /\ f[k] \in Int /\ f[m] \in Int
          BY <4>1
        <4>3. ~(m < k) /\ k # m
          <5>1. m < k => f[m] < f[k]
            OBVIOUS
          <5> QED BY <4>2, <5>1
        <4>4. k \in 1..(m - 1)
          BY <4>3
        <4> QED BY <4>1, <4>4
      <3>2. ASSUME NEW k \in 1..(m - 1) PROVE f[k] \in Before(m)
        <4>1. k \in 1..n /\ k < m
          OBVIOUS
        <4> QED BY <4>1
      <3> HIDE DEF Before
      <3> QED BY <3>1, <3>2
    <2>2. m - 1 \in 0..n
      OBVIOUS
    <2> HIDE DEF Before
    <2> QED BY <1>2, <2>1, <2>2
  <1>5. ASSUME NEW m \in 1..n PROVE Ascending(S)[m] = f[m]
    <2>1. Ascending(S)[m] = CHOOSE x \in S : Cardinality({y \in S : y < x}) = m - 1
      BY <1>3 DEF Ascending, Ranked
    <2>2. f[m] \in S /\ Cardinality({y \in S : y < f[m]}) = m - 1
      BY <1>4
    <2>3. \A x \in S : Cardinality({y \in S : y < x}) = m - 1 => x = f[m]
      <3> SUFFICES ASSUME NEW x \in S, Cardinality({y \in S : y < x}) = m - 1 PROVE x = f[m]
        OBVIOUS
      <3>1. PICK k \in 1..n : x = f[k]
        OBVIOUS
      <3>2. Cardinality({y \in S : y < x}) = k - 1
        BY <1>4, <3>1
      <3>3. k = m
        BY <3>2
      <3> QED BY <3>1, <3>3
    <2> HIDE DEF S
    <2> QED BY <2>1, <2>2, <2>3
  <1>6. DOMAIN Ascending(S) = 1..n /\ Ascending(S) = [m \in 1..n |-> Ascending(S)[m]]
    <2> HIDE DEF S
    <2>1. Ascending(S) \in [1..n -> S]
      <3>1. S \subseteq Int
        BY DEF S
      <3> QED BY <1>3, <3>1, AscendingIs
    <2> QED BY <2>1
  <1>7. S = Within(f, n)
    BY DEF Within
  <1> HIDE DEF S
  <1>8. [m \in 1..n |-> Ascending(S)[m]] = [m \in 1..n |-> f[m]]
    BY <1>5
  <1>9. Ascending(S) = f
    BY <1>0, <1>6, <1>8
  <1> QED BY <1>3, <1>7, <1>9

(* The same for a strict order given as a set of pairs.                    *)
Orders(R, S) ==
    /\ \A x \in S : <<x, x>> \notin R
    /\ \A x, y \in S : x = y \/ <<x, y>> \in R \/ <<y, x>> \in R
    /\ \A x, y, z \in S : <<x, y>> \in R /\ <<y, z>> \in R => <<x, z>> \in R

RankedBy(S, R) ==
    [n \in 1..Cardinality(S) |-> CHOOSE x \in S : Cardinality({y \in S : <<y, x>> \in R}) = n - 1]

LEMMA RankedByIs ==
    ASSUME NEW S, IsFiniteSet(S), NEW R, Orders(R, S)
    PROVE  /\ Cardinality(S) \in Nat /\ RankedBy(S, R) \in [1..Cardinality(S) -> S]
           /\ \A x \in S : \E n \in 1..Cardinality(S) : RankedBy(S, R)[n] = x
           /\ \A m, n \in 1..Cardinality(S) : m < n => <<RankedBy(S, R)[m], RankedBy(S, R)[n]>> \in R
           /\ \A n \in 1..Cardinality(S) : \A x \in S :
                 Cardinality({y \in S : <<y, x>> \in R}) = n - 1 <=> x = RankedBy(S, R)[n]
  <1> DEFINE c == Cardinality(S)
             Below(v) == {y \in S : <<y, v>> \in R}
             f == [x \in S |-> Cardinality(Below(x)) + 1]
             r == RankedBy(S, R)
  <1>1. c \in Nat
    BY FS_CardinalityType
  <1>2. ASSUME NEW v \in S PROVE IsFiniteSet(Below(v)) /\ Cardinality(Below(v)) \in Nat
    <2>1. Below(v) \in SUBSET S
      OBVIOUS
    <2> QED BY <2>1, FS_Subset, FS_CardinalityType
  <1>3. ASSUME NEW x \in S
        PROVE  /\ IsFiniteSet(Below(x) \cup {x})
               /\ Cardinality(Below(x) \cup {x}) = Cardinality(Below(x)) + 1
    <2>1. x \notin Below(x)
      BY DEF Orders
    <2> HIDE DEF Below
    <2> QED BY <1>2, <2>1, FS_AddElement
  <1>4. ASSUME NEW x \in S PROVE f[x] \in 1..c
    <2>1. Below(x) \cup {x} \in SUBSET S
      OBVIOUS
    <2>2. Cardinality(Below(x) \cup {x}) <= c
      BY <2>1, FS_Subset
    <2>3. f[x] = Cardinality(Below(x)) + 1
      OBVIOUS
    <2>4. Cardinality(Below(x)) \in Nat /\ f[x] <= c
      BY <1>2, <1>3, <2>2, <2>3
    <2> HIDE DEF Below, f, c
    <2> QED BY <1>1, <2>3, <2>4
  <1>5. ASSUME NEW x \in S, NEW z \in S, <<x, z>> \in R PROVE f[x] < f[z]
    <2>1. Below(x) \cup {x} \in SUBSET Below(z)
      BY <1>5 DEF Orders
    <2>2. Cardinality(Below(x) \cup {x}) <= Cardinality(Below(z))
      BY <1>2, <2>1, FS_Subset
    <2>3. f[x] = Cardinality(Below(x)) + 1 /\ f[z] = Cardinality(Below(z)) + 1
      OBVIOUS
    <2> HIDE DEF Below, f
    <2> QED BY <1>2, <1>3, <2>2, <2>3
  <1> HIDE DEF f
  <1>6. \A x, z \in S : x # z => f[x] # f[z]
    <2> SUFFICES ASSUME NEW x \in S, NEW z \in S, x # z PROVE f[x] # f[z]
      OBVIOUS
    <2>1. <<x, z>> \in R \/ <<z, x>> \in R
      BY DEF Orders
    <2>2. f[x] \in 1..c /\ f[z] \in 1..c
      BY <1>4
    <2>3. f[x] < f[z] \/ f[z] < f[x]
      BY <1>5, <2>1
    <2> QED BY <1>1, <2>2, <2>3
  <1>7. IsFiniteSet(1..c) /\ Cardinality(1..c) = c
    BY <1>1, FS_Interval
  <1>8. f \in Injection(S, 1..c)
    <2>1. f \in [S -> 1..c]
      BY <1>4 DEF f
    <2> QED BY <1>6, <2>1 DEF Injection, IsInjective
  <1>9. f \in Surjection(S, 1..c)
    BY <1>7, <1>8, FS_Injection
  <1>10. ASSUME NEW n \in 1..c PROVE r[n] \in S /\ f[r[n]] = n
    <2>1. PICK x \in S : f[x] = n
      BY <1>9 DEF Surjection
    <2>2. Cardinality(Below(x)) = n - 1
      <3>1. Cardinality(Below(x)) + 1 = n
        BY <2>1 DEF f
      <3> HIDE DEF Below
      <3> QED BY <1>2, <3>1
    <2>3. r[n] = CHOOSE y \in S : Cardinality(Below(y)) = n - 1
      BY DEF RankedBy
    <2> HIDE DEF r, Below
    <2>4. r[n] \in S /\ Cardinality(Below(r[n])) = n - 1
      BY <2>2, <2>3
    <2>5. f[r[n]] = Cardinality(Below(r[n])) + 1
      BY <2>4 DEF f
    <2> QED BY <1>1, <2>4, <2>5
  <1>11. r \in [1..c -> S]
    <2> DEFINE At(n) == CHOOSE x \in S : Cardinality({y \in S : <<y, x>> \in R}) = n - 1
    <2>1. r = [n \in 1..c |-> At(n)]
      BY DEF RankedBy
    <2> HIDE DEF r, At
    <2>2. DOMAIN r = 1..c /\ r = [n \in 1..c |-> r[n]]
      BY <2>1
    <2> QED BY <1>10, <2>2
  <1> HIDE DEF r
  <1>12. \A x \in S : \E n \in 1..c : r[n] = x
    <2> SUFFICES ASSUME NEW x \in S PROVE \E n \in 1..c : r[n] = x
      OBVIOUS
    <2>1. f[x] \in 1..c /\ r[f[x]] \in S /\ f[r[f[x]]] = f[x]
      BY <1>4, <1>10
    <2>2. r[f[x]] = x
      BY <1>6, <2>1
    <2> QED BY <2>1, <2>2
  <1>13. \A m, n \in 1..c : m < n => <<r[m], r[n]>> \in R
    <2> SUFFICES ASSUME NEW m \in 1..c, NEW n \in 1..c, m < n PROVE <<r[m], r[n]>> \in R
      OBVIOUS
    <2>1. r[m] \in S /\ r[n] \in S /\ f[r[m]] = m /\ f[r[n]] = n
      BY <1>10
    <2>2. r[m] # r[n]
      BY <2>1
    <2>3. ~(<<r[n], r[m]>> \in R)
      <3>1. <<r[n], r[m]>> \in R => f[r[n]] < f[r[m]]
        BY <1>5, <2>1
      <3> QED BY <2>1, <3>1
    <2> QED BY <2>1, <2>2, <2>3 DEF Orders
  <1>14. ASSUME NEW n \in 1..c, NEW x \in S
         PROVE  Cardinality({y \in S : <<y, x>> \in R}) = n - 1 <=> x = r[n]
    <2>1. f[x] = Cardinality(Below(x)) + 1 /\ Cardinality(Below(x)) \in Nat
      BY <1>2 DEF f
    <2>2. Cardinality(Below(x)) = n - 1 <=> f[x] = n
      <3> HIDE DEF Below
      <3> QED BY <1>1, <2>1
    <2>3. f[x] = n <=> x = r[n]
      BY <1>6, <1>10
    <2> QED BY <2>2, <2>3
  <1> QED BY <1>1, <1>11, <1>12, <1>13, <1>14 DEF r

-----------------------------------------------------------------------------
(* The types of the variables *)

IsWorker(w) ==
    w = [up |-> w.up, gpu |-> w.gpu, bound |-> w.bound, context |-> w.context, kv |-> w.kv]

(* The indices of a list are a sequence's, whatever its elements are.      *)
Listed(s) == \E n \in Nat : DOMAIN s = 1..n

Shape ==
    /\ pc # "idle" => Listed(ids)
    /\ plan \in Plans /\ count \in Nat /\ round \in Nat
    /\ \E S : replied \in Seq(S)
    /\ DOMAIN todo = DOMAIN workers /\ DOMAIN replies = DOMAIN workers
    /\ workers # <<>> => DOMAIN workers = 1..started[2]
    /\ IsWorker(here) /\ \A i \in DOMAIN workers : IsWorker(workers[i])

InRound == pc \in {"send", "receive"}
RoundShape == InRound => DOMAIN workers = 1..plan.gpus

(* What a child was asked and what it answered. *)
Runs(w, m) ==
    /\ m.group \in Nat /\ Listed(m.docs)
    /\ m.group > 0 /\ w.up => w.bound = Binding(m)
    /\ m.group > 1 /\ w.up => w.context = m.query
Messages ==
    \A i \in DOMAIN workers : todo[i] = <<>> \/ \E m : todo[i] = <<m>> /\ Runs(workers[i], m)

Good(r) ==
    /\ r.query = count /\ r.group = round /\ r.status \in {"ok", "err"} /\ Listed(r.docs)
    /\ r.status = "ok" => r.bound = ThisPlan
Booted(w, r) ==
    /\ Good(r)
    /\ w.up /\ r.status = "ok" => w.bound = ThisPlan /\ (round > 0 => w.context = count)

Clear(i) == todo[i] = <<>> /\ replies[i] = <<>>
Asked(i) ==
    /\ replies[i] = <<>>
    /\ \E m : todo[i] = <<m>> /\ Binding(m) = ThisPlan /\ m.query = count /\ m.group = round
Answered(i) == todo[i] = <<>> /\ \E r : replies[i] = <<r>> /\ Booted(workers[i], r)
WasRead(i) == Clear(i) /\ Booted(workers[i], replied[i])

Quiet == ~InRound /\ Alive => \A i \in DOMAIN workers : Clear(i)
Sending == pc = "send" => \A i \in DOMAIN workers : Clear(i)
Receiving ==
    pc = "receive" =>
        /\ Len(replied) <= plan.gpus
        /\ \A i \in DOMAIN workers :
              /\ i <= Len(replied) => WasRead(i)
              /\ i > Len(replied) => Asked(i) \/ Answered(i)

(* After the boot round every child is bound to this query, and after the  *)
(* first group it reads for it.                                            *)
BoundInRounds ==
    InRound => \A i \in DOMAIN workers : workers[i].up =>
        /\ round > 0 => workers[i].bound = ThisPlan
        /\ round > 1 => workers[i].context = count

(* On one GPU the boot made for a query is there when it runs. *)
PreparedHere ==
    pc \in {"tokens", "execute"} /\ plan.gpus = 1 => prepared /\ here.bound.query = count

ContextsBound ==
    /\ here.context # 0 => here.bound.query = here.context
    /\ \A i \in DOMAIN workers : workers[i].context # 0 => workers[i].bound.query = workers[i].context

PipeInv ==
    /\ Shape /\ RoundShape /\ Messages /\ Quiet /\ Sending /\ Receiving /\ BoundInRounds
    /\ PreparedHere /\ ContextsBound

-----------------------------------------------------------------------------
(* A sequence appended to keeps its elements.                              *)
LEMMA AppendKeeps ==
    ASSUME NEW S, NEW s \in Seq(S), NEW x
    PROVE  /\ Append(s, x) \in Seq(S \cup {x})
           /\ Len(Append(s, x)) = Len(s) + 1 /\ Len(s) \in Nat
           /\ \A i \in 1..Len(s) : Append(s, x)[i] = s[i]
           /\ Append(s, x)[Len(s) + 1] = x
  <1>1. s \in Seq(S \cup {x}) /\ x \in S \cup {x}
    OBVIOUS
  <1> QED BY <1>1

(* What is sifted from a list is a list, of some of its elements.          *)
LEMMA SiftedListed ==
    ASSUME NEW s, Listed(s), NEW keep
    PROVE  /\ Listed(Sifted(s, keep))
           /\ ToSet(Sifted(s, keep)) \subseteq ToSet(s) \cap keep
  <1>1. PICK len \in Nat : DOMAIN s = 1..len
    BY DEF Listed
  <1>2. PICK at :
              /\ at \in [DOMAIN Sifted(s, keep) -> 1..len]
              /\ \A n \in DOMAIN Sifted(s, keep) : Sifted(s, keep)[n] = s[at[n]] /\ s[at[n]] \in keep
              /\ \E size \in Nat : DOMAIN Sifted(s, keep) = 1..size /\ size <= len
    BY <1>1, SiftedIs
  <1> QED BY <1>1, <1>2 DEF Listed, ToSet

(* The places of the documents in the replies.                             *)
Found(n) == UNION {{i} \X DOMAIN replied[i].docs : i \in 1..n}
DocAt(e) == replied[e[1]].docs[e[2]]
EarlierAt(e, f) == e[1] < f[1] \/ (e[1] = f[1] /\ e[2] < f[2])
BeforeAt(e, f) == DocAt(e) < DocAt(f) \/ (DocAt(e) = DocAt(f) /\ EarlierAt(e, f))

LEMMA FoundFinite ==
    ASSUME NEW n \in Nat, \A i \in 1..n : Listed(replied[i].docs)
    PROVE  IsFiniteSet(Found(n)) /\ Cardinality(Found(n)) \in Nat
  <1> DEFINE Places(i) == {i} \X DOMAIN replied[i].docs
             f == [i \in 1..n |-> Places(i)]
             all == {Places(i) : i \in 1..n}
  <1>1. ASSUME NEW i \in 1..n PROVE IsFiniteSet(Places(i))
    <2>1. PICK k \in Nat : DOMAIN replied[i].docs = 1..k
      BY DEF Listed
    <2>2. IsFiniteSet(1..k)
      BY FS_Interval
    <2>3. IsFiniteSet({i})
      BY FS_Singleton
    <2> QED BY <2>1, <2>2, <2>3, FS_Product
  <1>2. f \in Surjection(1..n, all)
    BY DEF Surjection
  <1>3. IsFiniteSet(all)
    BY <1>2, FS_Interval, FS_Surjection
  <1>4. Found(n) = UNION all
    BY DEF Found
  <1>5. \A places \in all : IsFiniteSet(places)
    BY <1>1
  <1> HIDE DEF all
  <1>6. IsFiniteSet(Found(n))
    BY <1>3, <1>4, <1>5, FS_UNION
  <1> QED BY <1>6, FS_CardinalityType

(* The documents of some lists are merged into a list.                     *)
LEMMA MergedListed ==
    ASSUME NEW n \in Nat, DOMAIN replied = 1..n, \A i \in 1..n : Listed(replied[i].docs)
    PROVE  Listed(Merged)
  <1> DEFINE found == UNION {{i} \X DOMAIN replied[i].docs : i \in DOMAIN replied}
  <1>1. found = Found(n)
    BY DEF Found
  <1>2. Cardinality(found) \in Nat
    BY <1>1, FoundFinite
  <1>3. DOMAIN Merged = 1..Cardinality(found)
    BY DEF Merged, Ranked
  <1> HIDE DEF found
  <1> QED BY <1>2, <1>3 DEF Listed

(* A message or reply put into an empty pipe is alone in it.               *)
LEMMA PutInEmpty ==
    ASSUME NEW x
    PROVE  Append(<<>>, x) = <<x>> /\ Head(<<x>>) = x /\ Tail(<<x>>) = <<>> /\ <<x>> # <<>>
  <1>1. <<>> \in Seq({x})
    OBVIOUS
  <1> QED BY <1>1

(* Booting, or failing to, changes what a worker holds, not what it is.    *)
LEMMA BootWorker ==
    ASSUME NEW w, IsWorker(w), NEW n
    PROVE  /\ IsWorker(BootGpu(w, n)) /\ BootGpu(w, n).up = w.up
           /\ BootGpu(w, n).context = 0 /\ BootGpu(w, n).kv = {} /\ BootGpu(w, n).gpu # "read"
           /\ Boots(w) => BootGpu(w, n).bound = n
  BY DEF IsWorker, BootGpu, Boots

LEMMA NoGpuWorker ==
    IsWorker(NoGpu) /\ NoGpu.context = 0 /\ NoGpu.up /\ NoGpu.kv = {} /\ NoGpu.gpu = "none"
  BY DEF IsWorker, NoGpu

(* Carrying a query sets its context, and the rest of what a run does      *)
(* leaves the binding and the context alone.                               *)
LEMMA CarryingWorker ==
    ASSUME NEW w, IsWorker(w), NEW m
    PROVE  LET c == Carrying(w, m) IN
           /\ IsWorker(c) /\ c.up = w.up /\ c.bound = w.bound /\ c.gpu = w.gpu
           /\ c.context = IF m.group = 1 THEN m.query ELSE w.context
  BY DEF IsWorker, Carrying

LEMMA HoldingWorker ==
    ASSUME NEW w, IsWorker(w), NEW docs
    PROVE  LET h == Holding(w, docs) IN
           /\ IsWorker(h) /\ h.up = w.up /\ h.bound = w.bound /\ h.context = w.context
           /\ h.gpu = w.gpu /\ h.kv = {<<w.context, d>> : d \in docs}
  BY DEF IsWorker, Holding

LEMMA GpuOfWorker ==
    ASSUME NEW w, IsWorker(w), NEW gpu
    PROVE  LET h == [w EXCEPT !.gpu = gpu] IN
           IsWorker(h) /\ h.up = w.up /\ h.bound = w.bound /\ h.context = w.context
  BY DEF IsWorker

LEMMA UpOfWorker ==
    ASSUME NEW w, IsWorker(w), NEW up
    PROVE  LET h == [w EXCEPT !.up = up] IN
           IsWorker(h) /\ h.up = up /\ h.bound = w.bound /\ h.context = w.context
  BY DEF IsWorker

LEMMA PipeInit == Init => PipeInv
  <1> SUFFICES ASSUME Init PROVE PipeInv
    OBVIOUS
  <1>1. replied \in Seq({}) /\ DOMAIN workers = {}
    BY DEF Init
  <1>2. Shape
    BY <1>1, NoGpuWorker DEF Init, Shape
  <1> QED BY <1>1, <1>2, NoGpuWorker DEF Init, PipeInv, RoundShape, Messages, Quiet, Sending,
        Receiving, BoundInRounds, PreparedHere, ContextsBound, InRound, Alive

(* What a plan says of its GPUs and groups.                                *)
LEMMA PlanFacts ==
    ASSUME plan \in Plans PROVE plan.gpus \in Nat /\ plan.gpus > 0 /\ Len(plan.passes) \in Nat
  <1>1. PlanRecord(plan)
    BY PlansAssumption
  <1>2. plan.passes \in Seq(SUBSET (DOMAIN plan.lengths)) /\ plan.gpus \in 1..MaxChildren
    BY <1>1 DEF PlanRecord
  <1> QED BY <1>2, BoundsAssumption

-----------------------------------------------------------------------------
(* Between rounds: a query that is submitted, prepared or run here leaves  *)
(* the children alone, or replaces them.                                   *)
LEMMA SubmitKeeps ==
    ASSUME PipeInv, NEW p \in Plans, Submit(p) PROVE PipeInv'
  <1> USE DEF PipeInv
  <1>1. /\ pc = "idle" /\ pc' = "prepare" /\ plan' = p /\ count' = count + 1 /\ round' = 0
        /\ replied' = <<>> /\ Bind(p)
    BY DEF Submit
  <1>2. \/ UNCHANGED <<here, workers, started, todo, replies>>
        \/ here' = NoGpu /\ workers' = <<>> /\ todo' = <<>> /\ replies' = <<>>
    BY <1>1 DEF Bind, NoWorkers, pipes
  <1>3. replied' \in Seq({}) /\ Listed(ids')
    <2>1. ids' = [d \in DOMAIN p.lengths |-> d] /\ p.lengths \in Seq(Nat)
      BY PlansAssumption DEF Submit, PlanRecord
    <2> QED BY <1>1, <2>1 DEF Listed
  <1>4. Shape'
    BY <1>1, <1>2, <1>3, NoGpuWorker DEF Shape
  <1>5. Messages' /\ ContextsBound'
    BY <1>2, NoGpuWorker DEF Messages, Runs, ContextsBound
  <1>6. Quiet'
    BY <1>1, <1>2 DEF Quiet, InRound, Alive, Clear
  <1> QED BY <1>1, <1>4, <1>5, <1>6
        DEF RoundShape, InRound, Sending, Receiving, BoundInRounds, PreparedHere

LEMMA PrepareKeeps ==
    ASSUME PipeInv, Prepare PROVE PipeInv'
  <1> USE DEF PipeInv
  <1>1. /\ pc = "prepare" /\ pc' \in {"tokens", "idle"}
        /\ UNCHANGED <<plan, settings, count, workers, started, todo, replies, round, replied, ids>>
        /\ ThisPlan' = ThisPlan
    BY DEF Prepare, PrepareHere, Ends, pipes, rounds, ThisPlan
  <1>2. /\ IsWorker(here') /\ (here'.context # 0 => here'.bound.query = here'.context)
        /\ pc' = "tokens" /\ plan.gpus = 1 => prepared' /\ here'.bound.query = count
    <2>1. CASE plan.gpus = 1 /\ PrepareHere
      <3>1. here' = NoGpu \/ here' = BootGpu(here, ThisPlan)
        BY <2>1 DEF PrepareHere
      <3>2. IsWorker(here') /\ here'.context = 0
        BY <3>1, BootWorker, NoGpuWorker DEF Shape
      <3>3. pc' = "tokens" => Boots(here) /\ here' = BootGpu(here, ThisPlan) /\ prepared'
        BY <2>1 DEF PrepareHere, Ends
      <3>4. pc' = "tokens" => here'.bound.query = count
        BY <3>3, BootWorker DEF Shape, ThisPlan
      <3> QED BY <3>2, <3>3, <3>4
    <2>2. CASE plan.gpus > 1 /\ pc' = "tokens" /\ UNCHANGED here
      BY <2>2, PlanFacts DEF Shape, ContextsBound
    <2> QED BY <2>1, <2>2 DEF Prepare
  <1>3. Shape'
    BY <1>1, <1>2 DEF Shape
  <1>4. Messages' /\ ContextsBound' /\ Quiet' /\ PreparedHere'
    BY <1>1, <1>2 DEF Messages, Runs, ContextsBound, Quiet, InRound, Alive, Clear, PreparedHere
  <1> QED BY <1>1, <1>3, <1>4 DEF RoundShape, InRound, Sending, Receiving, BoundInRounds

LEMMA TokensKeeps ==
    ASSUME PipeInv, Tokens PROVE PipeInv'
  <1> USE DEF PipeInv
  <1>1. /\ pc = "tokens" /\ pc' \in {"execute", "idle"}
        /\ UNCHANGED <<plan, count, here, prepared, workers, started, todo, replies, round, replied, ids>>
    BY DEF Tokens, Ends, local, pipes, rounds
  <1>2. Shape' /\ Messages' /\ ContextsBound' /\ Quiet' /\ PreparedHere'
    BY <1>1 DEF Shape, Messages, Runs, ContextsBound, Quiet, InRound, Alive, Clear, PreparedHere
  <1> QED BY <1>1, <1>2 DEF RoundShape, InRound, Sending, Receiving, BoundInRounds

LEMMA ExecuteHereKeeps ==
    ASSUME PipeInv, ExecuteHere PROVE PipeInv'
  <1> USE DEF PipeInv
  <1> DEFINE w == IF prepared THEN here ELSE BootGpu(here, ThisPlan)
  <1>1. /\ pc = "execute" /\ pc' = "idle" /\ plan.gpus = 1
        /\ UNCHANGED <<plan, settings, count, workers, started, todo, replies, round, replied>>
        /\ ThisPlan' = ThisPlan
    BY DEF ExecuteHere, Ends, pipes, ThisPlan
  <1>2. IsWorker(w) /\ w.bound.query = count
    BY <1>1 DEF Shape, PreparedHere
  <1>3. \/ here' = [w EXCEPT !.context = count, !.kv = {}]
        \/ \E gpu, kv : here' = [w EXCEPT !.gpu = gpu, !.context = count, !.kv = kv]
    BY Zenon DEF ExecuteHere
  <1>4. IsWorker(here') /\ here'.bound.query = count /\ here'.context = count
    <2> HIDE DEF w
    <2> QED BY <1>2, <1>3 DEF IsWorker
  <1>5. Shape'
    BY <1>1, <1>4 DEF Shape
  <1>6. Messages' /\ ContextsBound' /\ Quiet'
    BY <1>1, <1>4 DEF Messages, Runs, ContextsBound, Quiet, InRound, Alive, Clear
  <1> QED BY <1>1, <1>5, <1>6 DEF RoundShape, InRound, Sending, Receiving, BoundInRounds, PreparedHere

(* The children a query starts with have nothing in their pipes: they are  *)
(* new, or all of them are alive.                                          *)
LEMMA StartRoundsKeeps ==
    ASSUME PipeInv, StartRounds PROVE PipeInv'
  <1> USE DEF PipeInv
  <1>1. /\ pc = "execute" /\ pc' = "send" /\ round' = 0 /\ replied' = <<>>
        /\ UNCHANGED <<plan, settings, count, here, ids>> /\ ThisPlan' = ThisPlan
    BY DEF StartRounds, local, ThisPlan
  <1>2. plan.gpus \in Nat /\ plan.gpus > 0
    BY PlanFacts DEF Shape
  <1>3. /\ DOMAIN workers' = 1..plan.gpus /\ started'[2] = plan.gpus
        /\ DOMAIN todo' = DOMAIN workers' /\ DOMAIN replies' = DOMAIN workers'
        /\ \A i \in DOMAIN workers' :
              /\ todo'[i] = <<>> /\ replies'[i] = <<>>
              /\ IsWorker(workers'[i])
              /\ workers'[i].context # 0 => workers'[i].bound.query = workers'[i].context
    <2>1. CASE Reusable
      <3>1. Alive /\ started[2] = plan.gpus /\ workers # <<>>
        BY <2>1 DEF Reusable, Alive
      <3>2. \A i \in DOMAIN workers : Clear(i)
        BY <1>1, <3>1 DEF Quiet, InRound
      <3>3. UNCHANGED <<workers, started, todo, replies>>
        BY <2>1 DEF StartRounds, pipes
      <3> QED BY <3>1, <3>2, <3>3 DEF Shape, Clear, ContextsBound
    <2>2. CASE ~Reusable
      <3>1. /\ started' = <<plan.model, plan.gpus>>
            /\ workers' = [i \in 1..plan.gpus |-> NoGpu]
            /\ todo' = [i \in 1..plan.gpus |-> <<>>]
            /\ replies' = [i \in 1..plan.gpus |-> <<>>]
        BY <2>2 DEF StartRounds
      <3> QED BY <3>1, NoGpuWorker
    <2> QED BY <2>1, <2>2
  <1>4. replied' \in Seq({})
    BY <1>1
  <1>5. Shape'
    BY <1>1, <1>3, <1>4 DEF Shape
  <1>6. RoundShape' /\ Messages' /\ Sending' /\ ContextsBound'
    BY <1>1, <1>3 DEF RoundShape, Messages, Sending, Clear, ContextsBound, Shape
  <1> QED BY <1>1, <1>5, <1>6 DEF Quiet, InRound, Receiving, BoundInRounds, PreparedHere

-----------------------------------------------------------------------------
(* A round.  A message to every child; when a child is gone the round ends *)
(* and the children with it.                                               *)
LEMMA SendKeeps ==
    ASSUME PipeInv, Send PROVE PipeInv'
  <1> USE DEF PipeInv
  <1>1. /\ pc = "send" /\ replied' = <<>>
        /\ UNCHANGED <<plan, settings, count, here, prepared, workers, started, replies, round, ids>>
        /\ ThisPlan' = ThisPlan
    BY DEF Send, local, ThisPlan
  <1> DEFINE at == IF round = 0 THEN owners ELSE Place(owners)
             gone == {i \in DOMAIN workers : ~workers[i].up}
             sent == {i \in DOMAIN workers : \A j \in gone : i < j}
  <1>2. /\ todo' = [i \in DOMAIN todo |->
                         IF i \in sent THEN Append(todo[i], Message(i, at)) ELSE todo[i]]
        /\ IF gone = {} THEN pc' = "receive" ELSE pc' = "idle"
    BY DEF Send, Ends
  <1> HIDE DEF at
  <1>3. DOMAIN workers = 1..plan.gpus /\ DOMAIN todo = DOMAIN workers
    BY <1>1 DEF RoundShape, InRound, Shape
  <1>4. \A i \in DOMAIN workers : todo[i] = <<>> /\ replies[i] = <<>>
    BY <1>1 DEF Sending, Clear
  <1>5. ASSUME NEW i \in DOMAIN workers
        PROVE  /\ todo'[i] = IF i \in sent THEN <<Message(i, at)>> ELSE <<>>
               /\ Message(i, at).query = count /\ Message(i, at).group = round
               /\ Binding(Message(i, at)) = ThisPlan /\ Listed(Message(i, at).docs)
    <2>1. Listed(<<>>)
      BY DOMAIN <<>> = 1..0 DEF Listed
    <2>2. Listed(Shard(at, i))
      BY <1>1, SiftedListed DEF Shape, Shard
    <2> QED BY <1>2, <1>3, <1>4, <2>1, <2>2, PutInEmpty DEF Message, Binding, ThisPlan
  <1>6. replied' \in Seq({}) /\ Len(replied') = 0
    BY <1>1
  <1>7. Shape'
    BY <1>1, <1>2, <1>6 DEF Shape
  <1>8. Messages'
    <2> SUFFICES ASSUME NEW i \in DOMAIN workers
                 PROVE  todo'[i] = <<>> \/ \E m : todo'[i] = <<m>> /\ Runs(workers[i], m)
      BY <1>1 DEF Messages, Runs
    <2>1. Runs(workers[i], Message(i, at))
      BY <1>1, <1>5 DEF Runs, BoundInRounds, InRound, Shape
    <2> QED BY <1>5, <2>1
  <1>9. Quiet' /\ ContextsBound'
    BY <1>1, <1>2 DEF Quiet, InRound, Alive, ContextsBound
  <1>10. Receiving'
    <2> SUFFICES ASSUME pc' = "receive", NEW i \in DOMAIN workers
                 PROVE  Asked(i)' /\ ~(i <= Len(replied'))
      BY <1>1, <1>6, PlanFacts DEF Receiving, Shape
    <2>1. i \in sent
      BY <1>2
    <2>2. replies'[i] = <<>> /\ todo'[i] = <<Message(i, at)>>
      BY <1>1, <1>4, <1>5, <2>1
    <2>3. /\ Message(i, at).query = count' /\ Message(i, at).group = round'
          /\ Binding(Message(i, at)) = ThisPlan'
      BY <1>1, <1>5
    <2>4. ~(i <= Len(replied'))
      BY <1>3, <1>6, PlanFacts DEF Shape
    <2> QED BY <2>2, <2>3, <2>4 DEF Asked
  <1>11. BoundInRounds' /\ RoundShape'
    BY <1>1, <1>3 DEF BoundInRounds, RoundShape, InRound
  <1> QED BY <1>1, <1>2, <1>7, <1>8, <1>9, <1>10, <1>11 DEF Sending, PreparedHere

(* A child that fails was broken already and is not afterwards, or a fault *)
(* pays for it: twice when the run may have left the GPU's keys read.      *)
Pays(i, v, r) ==
    \/ r.status = "ok" /\ (v.gpu = "read" => workers[i].gpu = "read") /\ faulted' = faulted
    \/ workers[i].gpu = "read" /\ v.gpu # "read" /\ faulted' = faulted
    \/ v.gpu # "read" /\ Fault(FALSE)
    \/ Fault(TRUE)

(* A child answers one message: what its worker is afterwards, and what    *)
(* the reply says.                                                         *)
Answering(i, m, v, r) ==
    /\ workers' = [workers EXCEPT ![i] = v]
    /\ replies' = [replies EXCEPT ![i] = Append(@, r)]
    /\ IsWorker(v) /\ v.up /\ (v.context # 0 => v.bound.query = v.context)
    /\ r.query = m.query /\ r.group = m.group /\ r.status \in {"ok", "err"}
    /\ Listed(r.docs) /\ r.kv = v.kv
    /\ r.status = "ok" => r.bound = Binding(m) /\ v.bound = Binding(m)
    /\ m.group = 0 => v.kv = {}
    /\ m.group > 0 =>
          /\ v.bound = workers[i].bound
          /\ v.context = IF m.group = 1 THEN m.query ELSE workers[i].context
          /\ v.kv \subseteq {<<v.context, d>> : d \in ToSet(m.docs)}
          /\ r.status = "ok" => r.docs \in Returned(m.plan, m.limit, m.group, m.docs)
    /\ Pays(i, v, r)

LEMMA ReplyFields ==
    ASSUME NEW w, NEW m, NEW status, NEW docs
    PROVE  LET r == Reply(w, m, status, docs) IN
           /\ r.query = m.query /\ r.group = m.group /\ r.status = status /\ r.bound = w.bound
           /\ r.docs = docs /\ r.kv = w.kv
  BY DEF Reply

LEMMA BootAnswers ==
    ASSUME NEW i, NEW m, IsWorker(workers[i]), workers[i].up, ChildBoots(i, m)
    PROVE  \E v, r : Answering(i, m, v, r)
  <1> DEFINE w == BootGpu(workers[i], Binding(m))
  <1>1. /\ IsWorker(w) /\ w.up /\ w.context = 0 /\ w.kv = {} /\ w.gpu # "read"
        /\ Boots(workers[i]) => w.bound = Binding(m)
    BY BootWorker
  <1>2. m.group = 0 /\ Listed(<<>>)
    BY DOMAIN <<>> = 1..0 DEF ChildBoots, Listed
  <1>3. CASE /\ Answer(i, m, w, IF Boots(workers[i]) THEN "ok" ELSE "err", <<>>)
             /\ faulted' = faulted
    <2> DEFINE status == IF Boots(workers[i]) THEN "ok" ELSE "err"
               r == Reply(w, m, status, <<>>)
    <2>1. /\ r.query = m.query /\ r.group = m.group /\ r.status = status /\ r.bound = w.bound
          /\ r.docs = <<>> /\ r.kv = w.kv
      BY ReplyFields
    <2>2. Pays(i, w, r)
      <3> HIDE DEF w, r
      <3> QED BY <1>1, <1>3, <2>1 DEF Pays, Boots
    <2>3. workers' = [workers EXCEPT ![i] = w] /\ replies' = [replies EXCEPT ![i] = Append(@, r)]
      BY <1>3 DEF Answer
    <2> HIDE DEF w, r
    <2>4. Answering(i, m, w, r)
      BY <1>1, <1>2, <2>1, <2>2, <2>3 DEF Answering
    <2> QED BY <2>4
  <1>4. CASE Fault(FALSE) /\ Answer(i, m, NoGpu, "err", <<>>)
    <2> DEFINE r == Reply(NoGpu, m, "err", <<>>)
    <2>1. /\ r.query = m.query /\ r.group = m.group /\ r.status = "err" /\ r.bound = NoGpu.bound
          /\ r.docs = <<>> /\ r.kv = NoGpu.kv
      BY ReplyFields
    <2>2. Pays(i, NoGpu, r)
      BY <1>4, NoGpuWorker DEF Pays
    <2>3. workers' = [workers EXCEPT ![i] = NoGpu] /\ replies' = [replies EXCEPT ![i] = Append(@, r)]
      BY <1>4 DEF Answer
    <2> HIDE DEF r
    <2>4. Answering(i, m, NoGpu, r)
      BY <1>2, <2>1, <2>2, <2>3, NoGpuWorker DEF Answering
    <2> QED BY <2>4
  <1> QED BY <1>3, <1>4 DEF ChildBoots

(* What a run returns is among its documents.                              *)
LEMMA ReturnsSome ==
    ASSUME NEW p, NEW limit, NEW g, NEW docs, Listed(docs), NEW kept \in Returned(p, limit, g, docs)
    PROVE  Listed(kept) /\ ToSet(kept) \subseteq ToSet(docs)
  <1> DEFINE all == Survivors(p, g, docs)
  <1>1. Listed(all) /\ ToSet(all) \subseteq ToSet(docs)
    BY SiftedListed DEF Survivors
  <1>2. \E s : kept = Sifted(all, s)
    BY DEF Returned
  <1> HIDE DEF all
  <1> QED BY <1>1, <1>2, SiftedListed

LEMMA RunAnswers ==
    ASSUME NEW i, NEW m, IsWorker(workers[i]), workers[i].up, ChildRuns(i, m), Listed(m.docs),
           m.group \in Nat, workers[i].context # 0 => workers[i].bound.query = workers[i].context,
           workers[i].bound = Binding(m)
    PROVE  \E v, r : Answering(i, m, v, r)
  <1> DEFINE w == Carrying(workers[i], m)
  <1>1. /\ IsWorker(w) /\ w.up /\ w.bound = workers[i].bound /\ w.gpu = workers[i].gpu
        /\ w.context # 0 => w.bound.query = w.context
        /\ w.context = IF m.group = 1 THEN m.query ELSE workers[i].context
    <2>1. workers[i].bound.query = m.query
      BY DEF Binding
    <2> QED BY <2>1, CarryingWorker
  <1>2. m.group > 0
    BY DEF ChildRuns
  <1>3. PICK v, status, docs, kept :
          /\ Answer(i, m, v, status, docs) /\ kept \subseteq ToSet(m.docs) /\ Listed(docs)
          /\ status = "ok" => docs \in Returned(m.plan, m.limit, m.group, m.docs)
          /\ \/ v = Holding(w, kept) /\ status = "ok" /\ faulted' = faulted
             \/ \E gpu : v = Holding([w EXCEPT !.gpu = gpu], kept) /\ status = "err" /\ Fault(TRUE)
    <2> DEFINE last == m.group = Len(m.plan.passes)
    <2>1. CASE \E docs \in Returned(m.plan, m.limit, m.group, m.docs) :
                 \E kept \in IF last THEN {{}} ELSE SUBSET ToSet(docs) :
                    Answer(i, m, Holding(w, kept), "ok", docs) /\ faulted' = faulted
      <3>1. PICK docs \in Returned(m.plan, m.limit, m.group, m.docs) :
               \E kept \in IF last THEN {{}} ELSE SUBSET ToSet(docs) :
                  Answer(i, m, Holding(w, kept), "ok", docs) /\ faulted' = faulted
        BY <2>1
      <3>2. PICK kept \in IF last THEN {{}} ELSE SUBSET ToSet(docs) :
               Answer(i, m, Holding(w, kept), "ok", docs) /\ faulted' = faulted
        BY <3>1
      <3>3. Listed(docs) /\ ToSet(docs) \subseteq ToSet(m.docs)
        BY ReturnsSome
      <3>4. kept \subseteq ToSet(docs)
        OBVIOUS
      <3> HIDE DEF w
      <3> QED BY <3>2, <3>3, <3>4
    <2>2. CASE \E gpu \in {"loaded", "read"}, held \in SUBSET ToSet(m.docs) :
                 Fault(TRUE) /\ Answer(i, m, Holding([w EXCEPT !.gpu = gpu], held), "err", <<>>)
      <3>1. Listed(<<>>)
        BY DOMAIN <<>> = 1..0 DEF Listed
      <3> HIDE DEF w
      <3> QED BY <2>2, <3>1
    <2> QED BY <2>1, <2>2 DEF ChildRuns
  <1> HIDE DEF w
  <1>4. /\ IsWorker(v) /\ v.up /\ v.bound = w.bound /\ v.context = w.context
        /\ v.kv = {<<w.context, d>> : d \in kept}
        /\ status \in {"ok", "err"} /\ (status = "ok" => v.gpu = w.gpu)
    <2>1. CASE v = Holding(w, kept) /\ status = "ok"
      BY <1>1, <2>1, HoldingWorker
    <2>2. CASE \E gpu : v = Holding([w EXCEPT !.gpu = gpu], kept) /\ status = "err"
      <3>1. PICK gpu : v = Holding([w EXCEPT !.gpu = gpu], kept) /\ status = "err"
        BY <2>2
      <3> DEFINE h == [w EXCEPT !.gpu = gpu]
      <3>2. IsWorker(h) /\ h.up /\ h.bound = w.bound /\ h.context = w.context
        BY <1>1, GpuOfWorker
      <3>3. v = Holding(h, kept)
        BY <3>1
      <3> HIDE DEF h
      <3>4. /\ IsWorker(v) /\ v.up = h.up /\ v.bound = h.bound /\ v.context = h.context
            /\ v.kv = {<<h.context, d>> : d \in kept}
        BY <3>2, <3>3, HoldingWorker
      <3> QED BY <3>1, <3>2, <3>4
    <2> QED BY <1>3, <2>1, <2>2
  <1> DEFINE r == Reply(v, m, status, docs)
  <1>5. /\ r.query = m.query /\ r.group = m.group /\ r.status = status /\ r.bound = v.bound
        /\ r.docs = docs /\ r.kv = v.kv
    BY ReplyFields
  <1>6. workers' = [workers EXCEPT ![i] = v] /\ replies' = [replies EXCEPT ![i] = Append(@, r)]
    BY <1>3 DEF Answer
  <1> HIDE DEF r
  <1>7. Pays(i, v, r)
    BY <1>1, <1>3, <1>4, <1>5 DEF Pays
  <1>8. v.kv \subseteq {<<v.context, d>> : d \in ToSet(m.docs)}
    BY <1>3, <1>4
  <1>9. Answering(i, m, v, r)
    BY <1>1, <1>2, <1>3, <1>4, <1>5, <1>6, <1>7, <1>8 DEF Answering
  <1> QED BY <1>9

LEMMA ChildAnswers ==
    ASSUME PipeInv, NEW i \in DOMAIN workers, Child(i)
    PROVE  \E m, v, r : todo[i] = <<m>> /\ Answering(i, m, v, r)
  <1>1. PICK m : todo[i] = <<m>> /\ Runs(workers[i], m)
    BY DEF Child, PipeInv, Messages
  <1>2. Head(todo[i]) = m /\ workers[i].up
    BY <1>1, PutInEmpty DEF Child
  <1>3. IsWorker(workers[i]) /\ (workers[i].context # 0 => workers[i].bound.query = workers[i].context)
    BY DEF PipeInv, Shape, ContextsBound
  <1>4. CASE ChildBoots(i, m)
    BY <1>1, <1>2, <1>3, <1>4, BootAnswers
  <1>5. CASE ChildRuns(i, m)
    <2>1. workers[i].bound = Binding(m) /\ Listed(m.docs) /\ m.group \in Nat
      BY <1>1, <1>2, <1>5 DEF ChildRuns, Runs
    <2> QED BY <1>1, <1>2, <1>3, <1>5, <2>1, RunAnswers
  <1> QED BY <1>2, <1>4, <1>5 DEF Child

(* A child answers during a round only, or while another child is gone.    *)
LEMMA ChildKeeps ==
    ASSUME PipeInv, NEW i \in DOMAIN workers, Child(i) PROVE PipeInv'
  <1> USE DEF PipeInv
  <1>1. /\ UNCHANGED <<pc, plan, settings, count, here, prepared, started, round, replied, ids>>
        /\ ThisPlan' = ThisPlan
        /\ todo' = [todo EXCEPT ![i] = Tail(@)] /\ workers[i].up
    BY DEF Child, local, rounds, ThisPlan
  <1>2. PICK m, v, r : todo[i] = <<m>> /\ Answering(i, m, v, r)
    BY ChildAnswers
  <1>3. /\ DOMAIN workers' = DOMAIN workers /\ workers'[i] = v
        /\ \A j \in DOMAIN workers : j # i =>
              workers'[j] = workers[j] /\ todo'[j] = todo[j] /\ replies'[j] = replies[j]
        /\ DOMAIN todo' = DOMAIN workers /\ DOMAIN replies' = DOMAIN workers
        /\ todo'[i] = <<>> /\ replies'[i] = Append(replies[i], r)
    BY <1>1, <1>2, PutInEmpty DEF Answering, Shape
  <1>4. ~Clear(i) /\ ~WasRead(i) /\ ~Answered(i)
    BY <1>2, PutInEmpty DEF Clear, WasRead, Answered
  <1>5. workers' # <<>> => DOMAIN workers' = 1..started'[2]
    BY <1>1, <1>3 DEF Shape
  <1>6. Shape'
    BY <1>1, <1>2, <1>3, <1>5 DEF Shape, Answering
  <1>7. Messages' /\ ContextsBound'
    BY <1>1, <1>2, <1>3 DEF Messages, Runs, ContextsBound, Answering
  <1>8. Quiet' /\ Sending'
    <2>1. pc # "send"
      BY <1>4 DEF Sending
    <2>2. InRound \/ ~Alive
      BY <1>4 DEF Quiet
    <2>3. ASSUME NEW j \in DOMAIN workers, ~workers[j].up PROVE ~workers'[j].up
      BY <1>1, <1>3, <2>3
    <2>4. ~Alive => ~Alive'
      BY <1>3, <2>3 DEF Alive
    <2> QED BY <1>1, <2>1, <2>2, <2>4 DEF Quiet, Sending, InRound
  <1>9. Receiving'
    <2> SUFFICES ASSUME pc = "receive" PROVE Receiving'
      BY <1>1 DEF Receiving
    <2>1. i > Len(replied) /\ Asked(i)
      BY <1>4 DEF Receiving, RoundShape, InRound, Shape
    <2>2. /\ m.query = count /\ m.group = round /\ replies[i] = <<>>
          /\ Binding(m) = ThisPlan
      BY <1>2, <2>1, PutInEmpty DEF Asked
    <2>3. Answered(i)'
      <3>1. v.up /\ r.status = "ok" => v.bound = ThisPlan /\ (round > 0 => v.context = count)
        <4>1. round > 1 => workers[i].context = count
          BY <1>1 DEF BoundInRounds, InRound
        <4> QED BY <1>2, <2>2, <4>1 DEF Answering, Shape
      <3>2. Booted(v, r)
        BY <1>2, <2>2, <3>1 DEF Answering, Booted, Good
      <3>3. todo'[i] = <<>> /\ replies'[i] = <<r>> /\ workers'[i] = v
        BY <1>3, <2>2, PutInEmpty
      <3>4. Booted(v, r)'
        BY <1>1, <3>2 DEF Booted, Good
      <3> QED BY <3>3, <3>4 DEF Answered
    <2>4. ASSUME NEW j \in DOMAIN workers, j # i
          PROVE  (WasRead(j) => WasRead(j)') /\ (Asked(j) => Asked(j)') /\ (Answered(j) => Answered(j)')
      BY <1>1, <1>3, <2>4 DEF WasRead, Clear, Asked, Answered, Booted, Good
    <2>5. Len(replied') = Len(replied) /\ plan' = plan /\ pc' = pc
      BY <1>1
    <2>6. ASSUME NEW j \in DOMAIN workers
          PROVE  /\ j <= Len(replied) => WasRead(j)'
                 /\ j > Len(replied) => Asked(j)' \/ Answered(j)'
      <3>1. CASE j = i
        <4>1. ~(i <= Len(replied))
          BY <1>4 DEF Receiving
        <4> QED BY <2>3, <3>1, <4>1
      <3>2. CASE j # i
        BY <2>4, <3>2 DEF Receiving
      <3> QED BY <3>1, <3>2
    <2> QED BY <1>3, <2>5, <2>6 DEF Receiving
  <1>10. BoundInRounds'
    <2>1. pc = "send" => Clear(i)
      BY DEF Sending
    <2>2. pc = "receive" => m.group = round
      BY <1>2, <1>4, PutInEmpty DEF Receiving, Asked, RoundShape, InRound, Shape
    <2>3. \A j \in DOMAIN workers' : j # i => workers'[j] = workers[j]
      BY <1>3
    <2>4. InRound => pc = "receive" /\ v.up /\ workers[i].up
      BY <1>1, <1>2, <1>4, <2>1 DEF InRound, Answering
    <2>5. InRound /\ round > 0 => v.bound = workers[i].bound
      BY <1>2, <2>2, <2>4 DEF Answering
    <2>6. InRound /\ round > 1 => v.context = workers[i].context
      BY <1>2, <2>2, <2>4 DEF Answering, Shape
    <2>7. InRound' = InRound /\ round' = round /\ count' = count /\ DOMAIN workers' = DOMAIN workers
          /\ workers'[i] = v /\ ThisPlan' = ThisPlan
      BY <1>1, <1>3 DEF InRound
    <2> QED BY <2>3, <2>4, <2>5, <2>6, <2>7 DEF BoundInRounds
  <1>11. RoundShape' /\ PreparedHere'
    BY <1>1, <1>3 DEF RoundShape, InRound, PreparedHere
  <1> QED BY <1>6, <1>7, <1>8, <1>9, <1>10, <1>11

(* A child that dies keeps its replies, and is missed by the next boot.    *)
LEMMA DiesKeeps ==
    ASSUME PipeInv, NEW i \in DOMAIN workers, Dies(i) PROVE PipeInv'
  <1> USE DEF PipeInv
  <1> DEFINE dead == [NoGpu EXCEPT !.up = FALSE]
  <1>1. /\ UNCHANGED <<pc, plan, settings, count, here, prepared, started, todo, replies, round, replied, ids>>
        /\ ThisPlan' = ThisPlan
        /\ workers' = [workers EXCEPT ![i] = dead]
    BY DEF Dies, local, rounds, ThisPlan
  <1>2. IsWorker(dead) /\ ~dead.up /\ dead.context = 0
    BY NoGpuWorker, UpOfWorker
  <1> HIDE DEF dead
  <1>3. /\ DOMAIN workers' = DOMAIN workers /\ workers'[i] = dead
        /\ \A j \in DOMAIN workers : j # i => workers'[j] = workers[j]
    BY <1>1
  <1>4. workers' # <<>> => DOMAIN workers' = 1..started'[2]
    BY <1>1, <1>3 DEF Shape
  <1>5. Shape'
    BY <1>1, <1>2, <1>3, <1>4 DEF Shape
  <1>6. Messages' /\ ContextsBound'
    BY <1>1, <1>2, <1>3 DEF Messages, Runs, ContextsBound
  <1>7. Quiet' /\ Sending' /\ BoundInRounds'
    BY <1>1, <1>2, <1>3 DEF Quiet, Alive, Sending, BoundInRounds, InRound, Clear
  <1>8. Receiving'
    <2>1. ASSUME NEW j \in DOMAIN workers
          PROVE  (WasRead(j) => WasRead(j)') /\ (Asked(j) => Asked(j)') /\ (Answered(j) => Answered(j)')
      BY <1>1, <1>2, <1>3 DEF WasRead, Clear, Asked, Answered, Booted, Good
    <2> QED BY <1>1, <1>3, <2>1 DEF Receiving
  <1>9. RoundShape' /\ PreparedHere'
    BY <1>1, <1>3 DEF RoundShape, InRound, PreparedHere
  <1> QED BY <1>5, <1>6, <1>7, <1>8, <1>9

(* The next reply is read from a child that answered; the round ends when  *)
(* that child is gone and left none.                                       *)
LEMMA ReceiveKeeps ==
    ASSUME PipeInv, Receive PROVE PipeInv'
  <1> USE DEF PipeInv
  <1>1. /\ pc = "receive" /\ Len(replied) < plan.gpus
        /\ UNCHANGED <<plan, settings, count, here, prepared, workers, started, todo, round, ids>>
        /\ ThisPlan' = ThisPlan
    BY DEF Receive, local, ThisPlan
  <1>2. DOMAIN workers = 1..plan.gpus /\ plan.gpus \in Nat
    BY <1>1, PlanFacts DEF RoundShape, InRound, Shape
  <1>3. PICK S : replied \in Seq(S)
    BY DEF Shape
  <1>4. From \in DOMAIN workers /\ From = Len(replied) + 1 /\ Len(replied) \in Nat
    BY <1>1, <1>2, <1>3 DEF From
  <1>5. CASE TakeReply /\ UNCHANGED <<pc, outcomes>>
    <2>1. /\ replies[From] # <<>> /\ replied' = Append(replied, Head(replies[From]))
          /\ replies' = [replies EXCEPT ![From] = Tail(@)]
      BY <1>5 DEF TakeReply
    <2>2. Answered(From)
      BY <1>1, <1>4, <2>1 DEF Receiving, Asked
    <2>3. PICK r : replies[From] = <<r>> /\ Booted(workers[From], r) /\ todo[From] = <<>>
      BY <2>2 DEF Answered
    <2>4. replied' = Append(replied, r) /\ replies'[From] = <<>>
      BY <1>4, <2>1, <2>3, PutInEmpty DEF Shape
    <2>5. /\ replied' \in Seq(S \cup {r}) /\ Len(replied') = Len(replied) + 1
          /\ \A j \in 1..Len(replied) : replied'[j] = replied[j]
          /\ replied'[Len(replied) + 1] = r
      BY <1>3, <2>4, AppendKeeps
    <2>6. DOMAIN replies' = DOMAIN replies /\ \A j \in DOMAIN workers : j # From => replies'[j] = replies[j]
      BY <2>1 DEF Shape
    <2>7. Shape'
      BY <1>1, <1>5, <2>5, <2>6 DEF Shape
    <2>8. Receiving'
      <3>1. ASSUME NEW j \in DOMAIN workers
            PROVE  /\ j <= Len(replied') => WasRead(j)'
                   /\ j > Len(replied') => Asked(j)' \/ Answered(j)'
        <4>1. CASE j = From
          <5>1. WasRead(j)'
            BY <1>1, <1>4, <2>3, <2>4, <2>5, <4>1 DEF WasRead, Clear, Booted, Good
          <5>2. ~(j > Len(replied'))
            BY <1>4, <2>5, <4>1
          <5> QED BY <5>1, <5>2
        <4>2. CASE j # From
          <5>1. replies'[j] = replies[j] /\ j \in 1..plan.gpus
            BY <1>2, <2>6, <4>2
          <5>2. CASE j <= Len(replied)
            <6>1. WasRead(j) /\ replied'[j] = replied[j]
              BY <1>1, <1>4, <2>5, <5>1, <5>2 DEF Receiving
            <6>2. WasRead(j)'
              BY <1>1, <5>1, <6>1 DEF WasRead, Clear, Booted, Good
            <6>3. ~(j > Len(replied'))
              BY <1>2, <1>4, <2>5, <5>1, <5>2
            <6> QED BY <6>2, <6>3
          <5>3. CASE ~(j <= Len(replied))
            <6>1. Asked(j) \/ Answered(j)
              BY <1>1, <1>2, <1>4, <5>1, <5>3 DEF Receiving
            <6>2. Asked(j)' \/ Answered(j)'
              BY <1>1, <5>1, <6>1 DEF Asked, Answered, Booted, Good
            <6>3. ~(j <= Len(replied'))
              BY <1>2, <1>4, <2>5, <4>2, <5>1, <5>3
            <6> QED BY <6>2, <6>3
          <5> QED BY <5>2, <5>3
        <4> QED BY <4>1, <4>2
      <3>2. Len(replied') <= plan.gpus
        BY <1>1, <1>2, <1>4, <2>5
      <3> QED BY <1>1, <3>1, <3>2 DEF Receiving
    <2>9. pc' = pc
      BY <1>5
    <2> QED BY <1>1, <2>7, <2>8, <2>9 DEF RoundShape, Messages, Runs, Quiet, Sending, BoundInRounds,
              InRound, PreparedHere, ContextsBound
  <1>6. CASE PipeEnded
    <2>1. pc' = "idle" /\ ~workers[From].up /\ UNCHANGED <<replied, replies>>
      BY <1>6 DEF PipeEnded, Ends
    <2>2. Shape' /\ ~Alive'
      BY <1>1, <1>4, <2>1 DEF Shape, Alive
    <2> QED BY <1>1, <2>1, <2>2 DEF RoundShape, Messages, Runs, Quiet, Sending, Receiving,
              BoundInRounds, InRound, PreparedHere, ContextsBound
  <1> QED BY <1>5, <1>6 DEF Receive

(* Every reply was read: the pipes are empty when a round ends, whatever   *)
(* the replies say.                                                        *)
LEMMA RoundEndsKeeps ==
    ASSUME PipeInv, RoundEnds PROVE PipeInv'
  <1> USE DEF PipeInv
  <1>1. /\ pc = "receive" /\ Len(replied) = plan.gpus
        /\ UNCHANGED <<plan, settings, count, here, prepared, workers, started, todo, replies, replied>>
        /\ ThisPlan' = ThisPlan
    BY DEF RoundEnds, local, pipes, ThisPlan
  <1>2. DOMAIN workers = 1..plan.gpus /\ plan.gpus \in Nat
    BY <1>1, PlanFacts DEF RoundShape, InRound, Shape
  <1>3. PICK S : replied \in Seq(S)
    BY DEF Shape
  <1>4. DOMAIN replied = 1..plan.gpus
    BY <1>1, <1>3
  <1>5. \A i \in DOMAIN workers : Clear(i) /\ Booted(workers[i], replied[i])
    BY <1>1, <1>2 DEF Receiving, WasRead
  <1>6. \/ pc' = "idle" /\ round' = round
        \/ /\ pc' = "send" /\ round' = round + 1
           /\ \A i \in DOMAIN replied : replied[i].status # "err"
    BY DEF RoundEnds, Ends
  <1>7. Shape'
    <2>1. \A i \in DOMAIN replied : Listed(replied[i].docs)
      BY <1>2, <1>4, <1>5 DEF Booted, Good
    <2>2. ids' = ids \/ ids' = Merged
      BY DEF RoundEnds
    <2>3. Listed(ids')
      BY <1>1, <1>2, <1>4, <2>1, <2>2, MergedListed DEF Shape
    <2> QED BY <1>1, <1>6, <2>3 DEF Shape
  <1>8. Quiet' /\ Sending' /\ Messages' /\ ContextsBound'
    BY <1>1, <1>5 DEF Quiet, Sending, Clear, Messages, Runs, ContextsBound
  <1>9. BoundInRounds'
    <2> SUFFICES ASSUME InRound', NEW i \in DOMAIN workers, workers[i].up
                 PROVE  workers[i].bound = ThisPlan /\ (round' > 1 => workers[i].context = count)
      BY <1>1 DEF BoundInRounds
    <2>1. replied[i].status # "err" /\ round' = round + 1
      BY <1>2, <1>4, <1>6 DEF InRound
    <2> QED BY <1>5, <2>1 DEF Booted, Good, Shape
  <1>10. RoundShape' /\ Receiving' /\ PreparedHere'
    BY <1>1, <1>2, <1>6 DEF RoundShape, InRound, Receiving, PreparedHere
  <1> QED BY <1>7, <1>8, <1>9, <1>10

-----------------------------------------------------------------------------
LEMMA PipeStep == PipeInv /\ [Next]_vars => PipeInv'
  <1> SUFFICES ASSUME PipeInv, [Next]_vars PROVE PipeInv'
    OBVIOUS
  <1>1. CASE UNCHANGED vars
    <2>1. /\ UNCHANGED <<pc, plan, settings, count, here, prepared, workers, started, todo, replies,
                         round, replied, ids>>
          /\ ThisPlan' = ThisPlan
      BY <1>1 DEF vars, local, pipes, rounds, ThisPlan
    <2>2. Shape' /\ RoundShape' /\ Messages' /\ Quiet' /\ Sending' /\ BoundInRounds' /\ PreparedHere'
             /\ ContextsBound'
      BY <2>1 DEF PipeInv, Shape, RoundShape, Messages, Runs, Quiet, Alive, Sending, BoundInRounds,
              InRound, Clear, PreparedHere, ContextsBound
    <2>3. Receiving'
      BY <2>1 DEF PipeInv, Receiving, WasRead, Asked, Answered, Clear, Booted, Good
    <2> QED BY <2>2, <2>3 DEF PipeInv
  <1>2. CASE Process
    BY <1>2, SubmitKeeps, PrepareKeeps, TokensKeeps, ExecuteHereKeeps, StartRoundsKeeps, SendKeeps,
       ReceiveKeeps, RoundEndsKeeps DEF Process
  <1>3. CASE \E i \in DOMAIN workers : Child(i) \/ Dies(i)
    BY <1>3, ChildKeeps, DiesKeeps
  <1> QED BY <1>1, <1>2, <1>3 DEF Next

LEMMA PipesHold == Spec => []PipeInv
  BY PipeInit, PipeStep, PTL DEF Spec

(* A round reads its own replies: although rounds end early when a child   *)
(* dies and late when one raises, no reply to an earlier round or query is *)
(* ever read, and none comes from a GPU bound to another query.            *)
(* (GpuWorkers.round, _ensure_children)                                    *)
THEOREM RepliesSafe == Spec => []RepliesInStep
  <1>1. PipeInv => RepliesInStep
    <2> SUFFICES ASSUME PipeInv, pc = "receive", NEW i \in DOMAIN replied
                 PROVE  Good(replied[i])
      BY DEF RepliesInStep, Good
    <2>1. PICK S : replied \in Seq(S)
      BY DEF PipeInv, Shape
    <2>2. DOMAIN workers = 1..plan.gpus /\ plan.gpus \in Nat /\ Len(replied) <= plan.gpus
      BY PlanFacts DEF PipeInv, RoundShape, InRound, Shape, Receiving
    <2>3. i \in DOMAIN workers /\ i <= Len(replied)
      BY <2>1, <2>2
    <2> QED BY <2>3 DEF PipeInv, Receiving, WasRead, Booted
  <1> QED BY <1>1, PipesHold, PTL

(* No GPU runs a query under another query's boot, whatever became of the  *)
(* query it was prepared for, and every child that runs a group is bound   *)
(* to the exact plan sent with the query, although this process searches   *)
(* the plan again between preparing a GPU and running on it.               *)
(* (prepare_quail_request, execute_quail_payload, _child_boot)             *)
THEOREM BoundSafe == Spec => []QueriesRunAsBound
  <1>1. PipeInv => QueriesRunAsBound
    <2>1. ASSUME ContextsBound, NEW w \in {here} \cup ToSet(workers), w.context # 0
          PROVE  w.bound.query = w.context
      <3>1. w = here \/ \E i \in DOMAIN workers : w = workers[i]
        BY DEF ToSet
      <3> QED BY <2>1, <3>1 DEF ContextsBound
    <2>2. ASSUME BoundInRounds, pc = "receive", round > 0, NEW w \in ToSet(workers), w.up
          PROVE  w.bound = ThisPlan
      <3>1. \E i \in DOMAIN workers : w = workers[i]
        BY DEF ToSet
      <3> QED BY <2>2, <3>1 DEF BoundInRounds, InRound
    <2> QED BY <2>1, <2>2 DEF PipeInv, QueriesRunAsBound
  <1> QED BY <1>1, PipesHold, PTL
-----------------------------------------------------------------------------
(* What fails, and what pays for it: each query that failed, each GPU that *)
(* is left broken, and a round that must end badly, by a fault, and by one *)
(* more if a run raised.                                                   *)
Failed == {n \in DOMAIN outcomes : outcomes[n] = "failed"}
Raised == {n \in DOMAIN faulted : faulted[n].raised}
Reading == {i \in DOMAIN workers : workers[i].gpu = "read"}
HereReads == IF here.gpu = "read" THEN 1 ELSE 0

Erred(i) ==
    \/ i <= Len(replied) /\ replied[i].status = "err"
    \/ replies[i] # <<>> /\ Head(replies[i]).status = "err"
Trouble ==
    \/ InRound /\ \E i \in DOMAIN workers : ~workers[i].up
    \/ pc = "receive" /\ \E i \in DOMAIN workers : Erred(i)
Troubles == IF Trouble THEN 1 ELSE 0

Owed == Cardinality(Failed) + Cardinality(Reading) + HereReads + Troubles
Paid == Len(faulted) + Cardinality(Raised)

Ways == {"running", "ok", "failed"}
Counted ==
    /\ outcomes \in Seq(Ways) /\ Len(outcomes) = count
    /\ pc # "idle" => count > 0 /\ outcomes[count] = "running"
    /\ faulted \in Seq([query : Nat, raised : BOOLEAN])
    /\ IsFiniteSet(Failed) /\ IsFiniteSet(Raised) /\ IsFiniteSet(Reading)
PaidInv == Counted /\ Owed <= Paid

(* The numbers are numbers.                                                *)
LEMMA CountsAre ==
    ASSUME Counted
    PROVE  /\ Cardinality(Failed) \in Nat /\ Cardinality(Raised) \in Nat /\ Cardinality(Reading) \in Nat
           /\ Paid \in Nat /\ HereReads \in {0, 1} /\ Troubles \in {0, 1}
           /\ IsFiniteSet(Failed) /\ IsFiniteSet(Raised) /\ IsFiniteSet(Reading)
           /\ outcomes \in Seq(Ways) /\ Len(outcomes) = count /\ count \in Nat
           /\ faulted \in Seq([query : Nat, raised : BOOLEAN]) /\ Len(faulted) \in Nat
  <1>1. /\ IsFiniteSet(Failed) /\ IsFiniteSet(Raised) /\ IsFiniteSet(Reading)
        /\ outcomes \in Seq(Ways) /\ Len(outcomes) = count /\ count \in Nat
        /\ faulted \in Seq([query : Nat, raised : BOOLEAN]) /\ Len(faulted) \in Nat
    BY DEF Counted
  <1>2. Cardinality(Failed) \in Nat /\ Cardinality(Raised) \in Nat /\ Cardinality(Reading) \in Nat
    BY <1>1, FS_CardinalityType
  <1> QED BY <1>1, <1>2 DEF HereReads, Troubles, Paid

(* A query that ends badly counts once.                                    *)
LEMMA EndsCounts ==
    ASSUME Counted, pc # "idle", NEW how \in Ways, Ends(how), count' = count
    PROVE  /\ outcomes' \in Seq(Ways) /\ Len(outcomes') = count' /\ IsFiniteSet(Failed') /\ pc' = "idle"
           /\ Cardinality(Failed') = Cardinality(Failed) + IF how = "failed" THEN 1 ELSE 0
  <1>1. outcomes' = [outcomes EXCEPT ![count] = how] /\ pc' = "idle" /\ count \in DOMAIN outcomes
    BY DEF Ends, Counted
  <1>2. outcomes' \in Seq(Ways) /\ Len(outcomes') = count' /\ DOMAIN outcomes' = DOMAIN outcomes
    BY <1>1 DEF Counted
  <1>3. count \notin Failed
    BY DEF Counted, Failed
  <1>4. Failed' = IF how = "failed" THEN Failed \cup {count} ELSE Failed
    BY <1>1, <1>2, <1>3 DEF Failed
  <1>5. IsFiniteSet(Failed) /\ Cardinality(Failed) \in Nat
    BY CountsAre
  <1>6. IsFiniteSet(Failed \cup {count}) /\ Cardinality(Failed \cup {count}) = Cardinality(Failed) + 1
    BY <1>3, <1>5, FS_AddElement
  <1> QED BY <1>1, <1>2, <1>4, <1>5, <1>6

(* A fault pays once, or twice when a run raised.                          *)
LEMMA FaultPays ==
    ASSUME Counted, count \in Nat, NEW raised \in BOOLEAN, Fault(raised)
    PROVE  /\ faulted' \in Seq([query : Nat, raised : BOOLEAN]) /\ IsFiniteSet(Raised')
           /\ Paid' = Paid + IF raised THEN 2 ELSE 1
  <1> DEFINE f == [query |-> count, raised |-> raised]
             n == Len(faulted) + 1
  <1>1. faulted' = Append(faulted, f) /\ f \in [query : Nat, raised : BOOLEAN] /\ f.raised = raised
    BY DEF Fault
  <1> HIDE DEF f
  <1>2. /\ faulted' \in Seq([query : Nat, raised : BOOLEAN]) /\ Len(faulted') = n /\ Len(faulted) \in Nat
        /\ DOMAIN faulted' = 1..n /\ DOMAIN faulted = 1..Len(faulted) /\ faulted'[n] = f
        /\ \A k \in DOMAIN faulted : faulted'[k] = faulted[k]
    BY <1>1 DEF Counted
  <1>3. Raised' = IF raised THEN Raised \cup {n} ELSE Raised
    <2> HIDE DEF n
    <2>1. DOMAIN faulted' = DOMAIN faulted \cup {n} /\ n \notin DOMAIN faulted
      BY <1>2 DEF n
    <2> QED BY <1>1, <1>2, <2>1 DEF Raised
  <1>4. n \notin Raised
    BY <1>2 DEF Raised
  <1>5. IsFiniteSet(Raised) /\ Cardinality(Raised) \in Nat
    BY CountsAre
  <1> HIDE DEF n
  <1>6. IsFiniteSet(Raised \cup {n}) /\ Cardinality(Raised \cup {n}) = Cardinality(Raised) + 1
    BY <1>4, <1>5, FS_AddElement
  <1>7. Len(faulted') = Len(faulted) + 1
    BY <1>2 DEF n
  <1>8. Len(faulted) \in Nat
    BY CountsAre
  <1>9. Cardinality(Raised') = Cardinality(Raised) + IF raised THEN 1 ELSE 0
    BY <1>3, <1>5, <1>6
  <1>10. IsFiniteSet(Raised')
    BY <1>3, <1>5, <1>6
  <1>11. Paid' = Paid + IF raised THEN 2 ELSE 1
    BY <1>5, <1>7, <1>8, <1>9 DEF Paid
  <1> QED BY <1>2, <1>10, <1>11

LEMMA NoFault ==
    ASSUME Counted, faulted' = faulted
    PROVE  /\ faulted' \in Seq([query : Nat, raised : BOOLEAN]) /\ IsFiniteSet(Raised')
           /\ Paid' = Paid
  <1>1. Raised' = Raised
    BY DEF Raised
  <1> QED BY <1>1 DEF Counted, Paid

(* Away from the children, no round is in trouble and no child changes.    *)
LEMMA AwayFromRounds ==
    ASSUME Counted, ~InRound, ~InRound', workers' = workers \/ Reading' = {}
    PROVE  /\ Troubles' = 0 /\ HereReads' \in {0, 1}
           /\ IsFiniteSet(Reading') /\ Cardinality(Reading') \in Nat
           /\ Cardinality(Reading') <= Cardinality(Reading)
  <1>1. Troubles' = 0 /\ HereReads' \in {0, 1}
    BY DEF Troubles, Trouble, InRound, HereReads
  <1>2. Reading' = Reading \/ Reading' = {}
    BY DEF Reading
  <1>3. IsFiniteSet(Reading) /\ Cardinality(Reading) \in Nat
    BY CountsAre
  <1>4. IsFiniteSet({}) /\ Cardinality({}) = 0
    BY FS_EmptySet
  <1> QED BY <1>1, <1>2, <1>3, <1>4

LEMMA PaidInit == Init => PaidInv
  <1> SUFFICES ASSUME Init PROVE PaidInv
    OBVIOUS
  <1>1. Failed = {} /\ Raised = {} /\ Reading = {} /\ ~Trouble
    BY DEF Init, Failed, Raised, Reading, Trouble, InRound
  <1>2. Counted
    BY <1>1, FS_EmptySet DEF Init, Counted
  <1>3. HereReads = 0 /\ Troubles = 0 /\ Len(faulted) = 0
    BY <1>1, NoGpuWorker DEF Init, HereReads, Troubles
  <1> QED BY <1>1, <1>2, <1>3, FS_EmptySet DEF PaidInv, Owed, Paid

LEMMA SubmitPays ==
    ASSUME PipeInv, PaidInv, NEW p \in Plans, Submit(p) PROVE PaidInv'
  <1> USE DEF PaidInv
  <1>1. /\ pc = "idle" /\ pc' = "prepare" /\ count' = count + 1
        /\ outcomes' = Append(outcomes, "running") /\ faulted' = faulted /\ Bind(p)
    BY DEF Submit
  <1>2. \/ UNCHANGED <<here, workers>>
        \/ here' = NoGpu /\ workers' = <<>>
    BY <1>1 DEF Bind, NoWorkers, pipes
  <1>3. /\ outcomes' \in Seq(Ways) /\ Len(outcomes') = count' /\ count' > 0 /\ outcomes'[count'] = "running"
        /\ Failed' = Failed
    <2>1. /\ outcomes' \in Seq(Ways) /\ Len(outcomes') = count + 1 /\ DOMAIN outcomes = 1..count
          /\ DOMAIN outcomes' = 1..(count + 1) /\ count \in Nat /\ outcomes'[count + 1] = "running"
          /\ \A k \in DOMAIN outcomes : outcomes'[k] = outcomes[k]
      <3>1. outcomes \in Seq(Ways) /\ Len(outcomes) = count /\ count \in Nat /\ "running" \in Ways
        BY CountsAre DEF Ways
      <3>2. /\ Append(outcomes, "running") \in Seq(Ways \cup {"running"})
            /\ Len(Append(outcomes, "running")) = Len(outcomes) + 1
            /\ \A k \in 1..Len(outcomes) : Append(outcomes, "running")[k] = outcomes[k]
            /\ Append(outcomes, "running")[Len(outcomes) + 1] = "running"
        BY <3>1, AppendKeeps
      <3>3. Ways \cup {"running"} = Ways
        BY <3>1
      <3> QED BY <1>1, <3>1, <3>2, <3>3
    <2>2. DOMAIN outcomes' = DOMAIN outcomes \cup {count + 1}
      BY <2>1
    <2> QED BY <1>1, <2>1, <2>2 DEF Failed
  <1>4. workers' = workers \/ Reading' = {}
    BY <1>2 DEF Reading
  <1>5. /\ Troubles' = 0 /\ HereReads' \in {0, 1} /\ IsFiniteSet(Reading')
       /\ Cardinality(Reading') \in Nat /\ Cardinality(Reading') <= Cardinality(Reading)
    BY <1>1, <1>4, AwayFromRounds DEF InRound
  <1>6. HereReads' <= HereReads
    BY <1>2, NoGpuWorker DEF HereReads
  <1>7. Counted' /\ Paid' = Paid
    <2>1. faulted' \in Seq([query : Nat, raised : BOOLEAN]) /\ IsFiniteSet(Raised') /\ Paid' = Paid
      BY <1>1, <1>3, <1>5, NoFault
    <2>2. Len(outcomes) = count /\ outcomes \in Seq(Ways) /\ IsFiniteSet(Failed)
      BY CountsAre
    <2> QED BY <1>1, <1>3, <1>5, <2>1, <2>2 DEF Counted
  <1> QED BY <1>1, <1>3, <1>5, <1>6, <1>7, CountsAre DEF Owed

(* A boot that releases a GPU left broken fails for the run that broke it. *)
LEMMA PreparePays ==
    ASSUME PipeInv, PaidInv, Prepare PROVE PaidInv'
  <1> USE DEF PaidInv
  <1>1. pc = "prepare" /\ UNCHANGED <<count, workers>> /\ count \in Nat
    BY DEF Prepare, pipes, PipeInv, Shape
  <1>2. \/ pc' = "tokens" /\ HereReads' <= HereReads /\ UNCHANGED <<outcomes, faulted>>
        \/ HereReads = 1 /\ HereReads' = 0 /\ Ends("failed") /\ UNCHANGED faulted
        \/ HereReads' = 0 /\ Ends("failed") /\ Fault(FALSE)
    <2>1. CASE plan.gpus = 1 /\ PrepareHere
      <3>1. IsWorker(here)
        BY DEF PipeInv, Shape
      <3>2. BootGpu(here, ThisPlan).gpu # "read" /\ NoGpu.gpu # "read"
        BY <3>1, BootWorker, NoGpuWorker
      <3>3. HereReads \in {0, 1} /\ (~Boots(here) => HereReads = 1)
        BY DEF HereReads, Boots
      <3>4. here' = NoGpu \/ here' = BootGpu(here, ThisPlan)
        BY <2>1 DEF PrepareHere
      <3>5. HereReads' = 0
        BY <3>2, <3>4 DEF HereReads
      <3>6. \/ pc' = "tokens" /\ UNCHANGED <<outcomes, faulted>>
            \/ ~Boots(here) /\ Ends("failed") /\ UNCHANGED faulted
            \/ Ends("failed") /\ Fault(FALSE)
        BY <2>1 DEF PrepareHere
      <3>7. HereReads' <= HereReads
        BY <3>3, <3>5
      <3> QED BY Zenon, <3>3, <3>5, <3>6, <3>7
    <2>2. CASE pc' = "tokens" /\ UNCHANGED <<here, outcomes, faulted>>
      BY <2>2 DEF HereReads
    <2> QED BY <2>1, <2>2 DEF Prepare
  <1>3. /\ Troubles' = 0 /\ HereReads' \in {0, 1} /\ IsFiniteSet(Reading')
       /\ Cardinality(Reading') \in Nat /\ Cardinality(Reading') <= Cardinality(Reading)
    BY <1>1, <1>2, AwayFromRounds DEF InRound, Ends
  <1>4. CASE pc' = "tokens" /\ HereReads' <= HereReads /\ UNCHANGED <<outcomes, faulted>>
    <2>1. Failed' = Failed
      BY <1>4 DEF Failed
    <2>2. Counted' /\ Paid' = Paid
      <3>1. faulted' \in Seq([query : Nat, raised : BOOLEAN]) /\ IsFiniteSet(Raised') /\ Paid' = Paid
        BY <1>1, <1>3, <1>4, <2>1, NoFault
      <3>2. Len(outcomes) = count /\ outcomes \in Seq(Ways) /\ IsFiniteSet(Failed)
        BY CountsAre
      <3> QED BY <1>1, <1>3, <1>4, <2>1, <3>1, <3>2 DEF Counted
    <2> QED BY <1>3, <1>4, <2>1, <2>2, CountsAre DEF Owed
  <1>5. CASE HereReads = 1 /\ HereReads' = 0 /\ Ends("failed") /\ UNCHANGED faulted
    <2>1. /\ outcomes' \in Seq(Ways) /\ Len(outcomes') = count' /\ IsFiniteSet(Failed') /\ pc' = "idle"
          /\ Cardinality(Failed') = Cardinality(Failed) + 1
      BY <1>1, <1>5, EndsCounts DEF Ways
    <2>2. Counted' /\ Paid' = Paid
      <3>1. faulted' \in Seq([query : Nat, raised : BOOLEAN]) /\ IsFiniteSet(Raised') /\ Paid' = Paid
        BY <1>3, <1>5, <2>1, NoFault
      <3>2. Len(outcomes) = count /\ outcomes \in Seq(Ways) /\ IsFiniteSet(Failed)
        BY CountsAre
      <3> QED BY <1>3, <1>5, <2>1, <3>1, <3>2 DEF Counted
    <2> QED BY <1>3, <1>5, <2>1, <2>2, CountsAre DEF Owed
  <1>6. CASE HereReads' = 0 /\ Ends("failed") /\ Fault(FALSE)
    <2>1. /\ outcomes' \in Seq(Ways) /\ Len(outcomes') = count' /\ IsFiniteSet(Failed') /\ pc' = "idle"
          /\ Cardinality(Failed') = Cardinality(Failed) + 1
      BY <1>1, <1>6, EndsCounts DEF Ways
    <2>2. Counted' /\ Paid' = Paid + 1
      <3>1. /\ faulted' \in Seq([query : Nat, raised : BOOLEAN]) /\ IsFiniteSet(Raised')
            /\ Paid' = Paid + 1
        BY <1>1, <1>3, <1>6, <2>1, FaultPays
      <3> QED BY <1>1, <1>3, <1>6, <2>1, <3>1 DEF Counted
    <2> QED BY <1>3, <1>6, <2>1, <2>2, CountsAre DEF Owed
  <1> QED BY <1>2, <1>4, <1>5, <1>6

LEMMA TokensPays ==
    ASSUME PipeInv, PaidInv, Tokens PROVE PaidInv'
  <1> USE DEF PaidInv
  <1>1. pc = "tokens" /\ UNCHANGED <<count, workers, here>> /\ count \in Nat
    BY DEF Tokens, local, pipes, PipeInv, Shape
  <1>2. HereReads' = HereReads /\ (pc' = "execute" \/ pc' = "idle")
    BY <1>1 DEF HereReads, Tokens, Ends
  <1>3. /\ Troubles' = 0 /\ HereReads' \in {0, 1} /\ IsFiniteSet(Reading')
       /\ Cardinality(Reading') \in Nat /\ Cardinality(Reading') <= Cardinality(Reading)
    BY <1>1, <1>2, AwayFromRounds DEF InRound
  <1>4. CASE pc' = "execute" /\ UNCHANGED <<outcomes, faulted>>
    <2>1. Failed' = Failed
      BY <1>4 DEF Failed
    <2>2. Counted' /\ Paid' = Paid
      <3>1. faulted' \in Seq([query : Nat, raised : BOOLEAN]) /\ IsFiniteSet(Raised') /\ Paid' = Paid
        BY <1>1, <1>3, <1>4, <2>1, NoFault
      <3>2. Len(outcomes) = count /\ outcomes \in Seq(Ways) /\ IsFiniteSet(Failed)
        BY CountsAre
      <3> QED BY <1>1, <1>3, <1>4, <2>1, <3>1, <3>2 DEF Counted
    <2> QED BY <1>2, <1>3, <1>4, <2>1, <2>2, CountsAre DEF Owed
  <1>5. CASE Fault(FALSE) /\ Ends("failed")
    <2>1. /\ outcomes' \in Seq(Ways) /\ Len(outcomes') = count' /\ IsFiniteSet(Failed') /\ pc' = "idle"
          /\ Cardinality(Failed') = Cardinality(Failed) + 1
      BY <1>1, <1>5, EndsCounts DEF Ways
    <2>2. Counted' /\ Paid' = Paid + 1
      <3>1. /\ faulted' \in Seq([query : Nat, raised : BOOLEAN]) /\ IsFiniteSet(Raised')
            /\ Paid' = Paid + 1
        BY <1>1, <1>3, <1>5, <2>1, FaultPays
      <3> QED BY <1>1, <1>3, <1>5, <2>1, <3>1 DEF Counted
    <2> QED BY SMTT(30), <1>2, <1>3, <2>1, <2>2, CountsAre DEF Owed
  <1> QED BY <1>4, <1>5 DEF Tokens

(* A run here that raises pays for itself, and for the GPU it leaves.      *)
LEMMA ExecuteHerePays ==
    ASSUME PipeInv, PaidInv, ExecuteHere PROVE PaidInv'
  <1> USE DEF PaidInv
  <1> DEFINE w == IF prepared THEN here ELSE BootGpu(here, ThisPlan)
  <1>1. pc = "execute" /\ UNCHANGED <<count, workers>> /\ count \in Nat /\ plan.gpus = 1 /\ pc' = "idle"
    BY DEF ExecuteHere, pipes, PipeInv, Shape, Ends
  <1>2. w = here /\ IsWorker(here)
    BY <1>1 DEF PipeInv, PreparedHere, Shape
  <1>3. /\ Troubles' = 0 /\ HereReads' \in {0, 1} /\ IsFiniteSet(Reading')
       /\ Cardinality(Reading') \in Nat /\ Cardinality(Reading') <= Cardinality(Reading)
    BY <1>1, AwayFromRounds DEF InRound
  <1>4. CASE here' = [w EXCEPT !.context = count, !.kv = {}] /\ Ends("ok") /\ UNCHANGED faulted
    <2>1. HereReads' = HereReads
      <3> HIDE DEF w
      <3> QED BY <1>2, <1>4 DEF HereReads, IsWorker
    <2>2. /\ outcomes' \in Seq(Ways) /\ Len(outcomes') = count' /\ IsFiniteSet(Failed') /\ pc' = "idle"
          /\ Cardinality(Failed') = Cardinality(Failed)
      <3>1. Cardinality(Failed) \in Nat
        BY CountsAre
      <3> QED BY <1>1, <1>4, <3>1, EndsCounts DEF Ways
    <2>3. Counted' /\ Paid' = Paid
      <3>1. faulted' \in Seq([query : Nat, raised : BOOLEAN]) /\ IsFiniteSet(Raised') /\ Paid' = Paid
        BY <1>3, <1>4, <2>2, NoFault
      <3>2. Len(outcomes) = count /\ outcomes \in Seq(Ways) /\ IsFiniteSet(Failed)
        BY CountsAre
      <3> QED BY <1>3, <1>4, <2>2, <3>1, <3>2 DEF Counted
    <2> QED BY <1>3, <2>1, <2>2, <2>3, CountsAre DEF Owed
  <1>5. CASE Fault(TRUE) /\ Ends("failed")
    <2>1. HereReads' \in {0, 1} /\ HereReads >= 0
      BY DEF HereReads
    <2>2. /\ outcomes' \in Seq(Ways) /\ Len(outcomes') = count' /\ IsFiniteSet(Failed') /\ pc' = "idle"
          /\ Cardinality(Failed') = Cardinality(Failed) + 1
      BY <1>1, <1>5, EndsCounts DEF Ways
    <2>3. Counted' /\ Paid' = Paid + 2
      <3>1. /\ faulted' \in Seq([query : Nat, raised : BOOLEAN]) /\ IsFiniteSet(Raised')
            /\ Paid' = Paid + 2
        BY <1>1, <1>3, <1>5, <2>2, FaultPays
      <3> QED BY <1>1, <1>3, <1>5, <2>2, <3>1 DEF Counted
    <2> QED BY SMTT(30), <1>3, <2>1, <2>2, <2>3, CountsAre DEF Owed
  <1> QED BY <1>4, <1>5 DEF ExecuteHere

(* The children a query starts with are all alive.                         *)
LEMMA StartRoundsPays ==
    ASSUME PipeInv, PaidInv, StartRounds PROVE PaidInv'
  <1> USE DEF PaidInv
  <1>1. pc = "execute" /\ pc' = "send" /\ UNCHANGED <<count, here, outcomes, faulted>>
    BY DEF StartRounds, local
  <1>2. /\ \A i \in DOMAIN workers' : workers'[i].up
        /\ Reading' \subseteq Reading
    <2>1. CASE Reusable
      BY <2>1 DEF StartRounds, pipes, Reusable, Alive, Reading
    <2>2. CASE ~Reusable
      BY <2>2, NoGpuWorker DEF StartRounds, Reading
    <2> QED BY <2>1, <2>2
  <1>3. ~Trouble' /\ Failed' = Failed /\ HereReads' = HereReads
    BY <1>1, <1>2 DEF Trouble, Failed, HereReads
  <1>4. /\ IsFiniteSet(Reading') /\ Cardinality(Reading') \in Nat
        /\ Cardinality(Reading') <= Cardinality(Reading)
    BY <1>2, CountsAre, FS_Subset, FS_CardinalityType
  <1>5. Counted' /\ Paid' = Paid
    <2>1. faulted' \in Seq([query : Nat, raised : BOOLEAN]) /\ IsFiniteSet(Raised') /\ Paid' = Paid
      BY <1>1, <1>3, <1>4, NoFault
    <2>2. Len(outcomes) = count /\ outcomes \in Seq(Ways) /\ IsFiniteSet(Failed)
      BY CountsAre
    <2> QED BY <1>1, <1>3, <1>4, <2>1, <2>2 DEF Counted
  <1>6. Troubles' = 0
    BY <1>3 DEF Troubles
  <1> QED BY <1>1, <1>3, <1>4, <1>5, <1>6, CountsAre DEF Owed

(* A round that cannot be sent was in trouble already.                     *)
LEMMA SendPays ==
    ASSUME PipeInv, PaidInv, Send PROVE PaidInv'
  <1> USE DEF PaidInv
  <1>1. pc = "send" /\ UNCHANGED <<count, here, workers, replies, faulted>> /\ replied' = <<>>
    BY DEF Send, local
  <1>2. Reading' = Reading /\ HereReads' = HereReads
    BY <1>1 DEF Reading, HereReads
  <1>3. CASE pc' = "receive" /\ UNCHANGED outcomes /\ \A i \in DOMAIN workers : workers[i].up
    <2>1. \A i \in DOMAIN workers : replies[i] = <<>> /\ ~(i <= Len(replied'))
      <3>1. \A i \in DOMAIN workers : replies[i] = <<>>
        BY <1>1 DEF PipeInv, Sending, Clear
      <3>2. DOMAIN workers = 1..plan.gpus /\ plan.gpus \in Nat
        BY <1>1, PlanFacts DEF PipeInv, RoundShape, InRound, Shape
      <3> QED BY <1>1, <3>1, <3>2
    <2>2. ~Trouble' /\ Failed' = Failed
      BY <1>1, <1>3, <2>1 DEF Trouble, Erred, Failed
    <2>3. Counted' /\ Paid' = Paid /\ Troubles' = 0
      <3>1. faulted' \in Seq([query : Nat, raised : BOOLEAN]) /\ IsFiniteSet(Raised') /\ Paid' = Paid
        BY <1>1, <1>2, <1>3, <2>2, NoFault
      <3>2. Len(outcomes) = count /\ outcomes \in Seq(Ways) /\ IsFiniteSet(Failed)
        BY CountsAre
      <3> QED BY <1>1, <1>2, <1>3, <2>2, <3>1, <3>2 DEF Counted, Troubles
    <2> QED BY <1>1, <1>2, <2>2, <2>3, CountsAre DEF Owed
  <1>4. CASE Ends("failed") /\ \E i \in DOMAIN workers : ~workers[i].up
    <2>1. Troubles = 1
      BY <1>1, <1>4 DEF Troubles, Trouble, InRound
    <2>2. /\ outcomes' \in Seq(Ways) /\ Len(outcomes') = count' /\ IsFiniteSet(Failed') /\ pc' = "idle"
          /\ Cardinality(Failed') = Cardinality(Failed) + 1
      BY <1>1, <1>4, EndsCounts DEF Ways
    <2>3. Counted' /\ Paid' = Paid /\ Troubles' = 0
      <3>1. faulted' \in Seq([query : Nat, raised : BOOLEAN]) /\ IsFiniteSet(Raised') /\ Paid' = Paid
        BY <1>1, <1>2, <2>2, NoFault
      <3>2. Len(outcomes) = count /\ outcomes \in Seq(Ways) /\ IsFiniteSet(Failed)
        BY CountsAre
      <3> QED BY <1>1, <1>2, <2>2, <3>1, <3>2 DEF Counted, Troubles, Trouble, InRound
    <2> QED BY <1>1, <1>2, <2>1, <2>2, <2>3, CountsAre DEF Owed
  <1> QED BY <1>3, <1>4 DEF Send

(* A child that fails passes its trouble to the round.                     *)
LEMMA ChildPays ==
    ASSUME PipeInv, PaidInv, NEW i \in DOMAIN workers, Child(i) PROVE PaidInv'
  <1> USE DEF PaidInv
  <1>1. /\ UNCHANGED <<pc, count, here, replied, outcomes>> /\ workers[i].up
        /\ todo' = [todo EXCEPT ![i] = Tail(@)]
    BY DEF Child, local, rounds
  <1>2. PICK m, v, r : todo[i] = <<m>> /\ Answering(i, m, v, r)
    BY ChildAnswers
  <1>3. /\ DOMAIN workers' = DOMAIN workers /\ workers'[i] = v /\ v.up
        /\ \A j \in DOMAIN workers : j # i => workers'[j] = workers[j] /\ replies'[j] = replies[j]
        /\ replies'[i] = Append(replies[i], r)
    BY <1>2 DEF Answering, PipeInv, Shape
  <1>4. pc = "receive" => replies[i] = <<>> /\ ~(i <= Len(replied))
    <2> SUFFICES ASSUME pc = "receive" PROVE replies[i] = <<>> /\ ~(i <= Len(replied))
      OBVIOUS
    <2>1. ~WasRead(i) /\ ~Answered(i)
      BY <1>2, PutInEmpty DEF WasRead, Clear, Answered
    <2>2. i \in 1..plan.gpus /\ plan.gpus \in Nat
      BY PlanFacts DEF PipeInv, RoundShape, InRound, Shape
    <2>3. ~(i <= Len(replied))
      BY <2>1 DEF PipeInv, Receiving
    <2>4. Len(replied) \in Nat
      BY DEF PipeInv, Shape
    <2>5. Asked(i)
      BY <2>1, <2>2, <2>3, <2>4 DEF PipeInv, Receiving
    <2> QED BY <2>3, <2>5 DEF Asked
  <1>5. pc # "send"
    BY <1>2, PutInEmpty DEF PipeInv, Sending, Clear
  <1>6. Trouble' => Trouble \/ r.status = "err"
    <2>1. ASSUME NEW j \in DOMAIN workers, ~workers'[j].up PROVE ~workers[j].up
      BY <1>3, <2>1
    <2>2. ASSUME NEW j \in DOMAIN workers, j # i, Erred(j)' PROVE Erred(j)
      BY <1>1, <1>3, <2>2 DEF Erred
    <2>3. ASSUME pc = "receive", Erred(i)' PROVE r.status = "err"
      BY <1>1, <1>3, <1>4, <2>3, PutInEmpty DEF Erred
    <2> QED BY <1>1, <1>3, <2>1, <2>2, <2>3 DEF Trouble, InRound
  <1>7. /\ HereReads' = HereReads /\ HereReads \in {0, 1} /\ Failed' = Failed
        /\ Troubles \in {0, 1} /\ Troubles' \in {0, 1} /\ (Troubles' > Troubles => r.status = "err")
    BY <1>1, <1>6 DEF HereReads, Failed, Troubles
  <1>8. /\ IsFiniteSet(Reading) /\ Cardinality(Reading) \in Nat /\ Cardinality(Failed) \in Nat
        /\ Paid \in Nat /\ count \in Nat
    BY CountsAre
  <1>9. /\ Reading' \subseteq Reading \cup {i}
        /\ v.gpu # "read" => Reading' \subseteq Reading \ {i}
        /\ workers[i].gpu = "read" <=> i \in Reading
    BY <1>3 DEF Reading
  <1>10. /\ IsFiniteSet(Reading') /\ Cardinality(Reading') \in Nat
         /\ Cardinality(Reading') <= Cardinality(Reading) + 1
         /\ Reading' \subseteq Reading => Cardinality(Reading') <= Cardinality(Reading)
    <2>1. /\ IsFiniteSet(Reading \cup {i})
          /\ Cardinality(Reading \cup {i}) = Cardinality(Reading) + IF i \in Reading THEN 0 ELSE 1
      BY <1>8, FS_AddElement
    <2>2. IsFiniteSet(Reading') /\ Cardinality(Reading') <= Cardinality(Reading \cup {i})
      BY <1>9, <2>1, FS_Subset
    <2>3. Reading' \subseteq Reading => Cardinality(Reading') <= Cardinality(Reading)
      BY <1>8, FS_Subset
    <2>4. Cardinality(Reading') \in Nat
      BY <2>2, FS_CardinalityType
    <2> QED BY <1>8, <2>1, <2>2, <2>3, <2>4
  <1>11. i \in Reading /\ v.gpu # "read" => Cardinality(Reading') <= Cardinality(Reading) - 1
    <2> SUFFICES ASSUME i \in Reading, v.gpu # "read" PROVE Cardinality(Reading') <= Cardinality(Reading) - 1
      OBVIOUS
    <2>1. IsFiniteSet(Reading \ {i}) /\ Cardinality(Reading \ {i}) = Cardinality(Reading) - 1
      BY <1>8, FS_RemoveElement
    <2> QED BY <1>9, <2>1, FS_Subset
  <1>12. /\ faulted' \in Seq([query : Nat, raised : BOOLEAN]) /\ IsFiniteSet(Raised') /\ Paid' \in Nat
         /\ Owed' <= Paid'
    <2>1. CASE r.status = "ok" /\ (v.gpu = "read" => workers[i].gpu = "read") /\ faulted' = faulted
      <3>1. Reading' \subseteq Reading
        BY <1>9, <2>1
      <3>2. faulted' \in Seq([query : Nat, raised : BOOLEAN]) /\ IsFiniteSet(Raised') /\ Paid' = Paid
        BY <2>1, NoFault
      <3> QED BY SMTT(30), <1>7, <1>8, <1>10, <2>1, <3>1, <3>2 DEF Owed
    <2>2. CASE workers[i].gpu = "read" /\ v.gpu # "read" /\ faulted' = faulted
      <3>1. faulted' \in Seq([query : Nat, raised : BOOLEAN]) /\ IsFiniteSet(Raised') /\ Paid' = Paid
        BY <2>2, NoFault
      <3> QED BY SMTT(30), <1>7, <1>8, <1>9, <1>10, <1>11, <2>2, <3>1 DEF Owed
    <2>3. CASE v.gpu # "read" /\ Fault(FALSE)
      <3>1. Reading' \subseteq Reading
        BY <1>9, <2>3
      <3>2. /\ faulted' \in Seq([query : Nat, raised : BOOLEAN]) /\ IsFiniteSet(Raised')
            /\ Paid' = Paid + 1
        BY <1>8, <2>3, FaultPays
      <3>3. Cardinality(Reading') <= Cardinality(Reading) /\ Troubles' <= Troubles + 1
        BY <1>7, <1>10, <3>1
      <3>4. Owed' <= Owed + 1 /\ Owed \in Nat /\ Owed' \in Nat
        BY <1>7, <1>8, <1>10, <3>3 DEF Owed
      <3> HIDE DEF PaidInv
      <3>5. Owed <= Paid
        BY DEF PaidInv
      <3> QED BY <1>8, <3>2, <3>4, <3>5
    <2>4. CASE Fault(TRUE)
      <3>1. /\ faulted' \in Seq([query : Nat, raised : BOOLEAN]) /\ IsFiniteSet(Raised')
            /\ Paid' = Paid + 2
        BY <1>8, <2>4, FaultPays
      <3> QED BY SMTT(30), <1>7, <1>8, <1>10, <3>1 DEF Owed
    <2>5. Pays(i, v, r)
      BY <1>2 DEF Answering
    <2> QED BY <2>1, <2>2, <2>3, <2>4, <2>5 DEF Pays
  <1>13. Counted'
    BY <1>1, <1>7, <1>10, <1>12 DEF Counted
  <1> QED BY <1>12, <1>13

(* A death pays for the round it ends.                                     *)
LEMMA DiesPays ==
    ASSUME PipeInv, PaidInv, NEW i \in DOMAIN workers, Dies(i) PROVE PaidInv'
  <1> USE DEF PaidInv
  <1> DEFINE dead == [NoGpu EXCEPT !.up = FALSE]
  <1>1. /\ UNCHANGED <<pc, count, here, outcomes>> /\ Fault(FALSE)
        /\ workers' = [workers EXCEPT ![i] = dead]
    BY DEF Dies, local, rounds
  <1>2. dead.gpu = "none"
    BY DEF NoGpu
  <1> HIDE DEF dead
  <1>3. /\ Reading' \subseteq Reading /\ HereReads' = HereReads /\ HereReads \in {0, 1}
        /\ Failed' = Failed /\ Troubles' \in {0, 1} /\ Troubles \in {0, 1}
    BY <1>1, <1>2 DEF Reading, HereReads, Failed, Troubles
  <1>4. /\ IsFiniteSet(Reading) /\ Cardinality(Reading) \in Nat /\ Cardinality(Failed) \in Nat
        /\ Paid \in Nat /\ count \in Nat
    BY CountsAre
  <1>5. /\ IsFiniteSet(Reading') /\ Cardinality(Reading') <= Cardinality(Reading)
        /\ Cardinality(Reading') \in Nat
    BY <1>3, <1>4, FS_Subset, FS_CardinalityType
  <1>6. /\ faulted' \in Seq([query : Nat, raised : BOOLEAN]) /\ IsFiniteSet(Raised')
        /\ Paid' = Paid + 1
    BY <1>1, <1>4, FaultPays
  <1>7. Counted'
    BY <1>1, <1>3, <1>5, <1>6 DEF Counted
  <1> QED BY <1>3, <1>4, <1>5, <1>6, <1>7 DEF Owed

(* A reply that is read stays what it was; a pipe ends for a child that is *)
(* gone.                                                                   *)
LEMMA ReceivePays ==
    ASSUME PipeInv, PaidInv, Receive PROVE PaidInv'
  <1> USE DEF PaidInv
  <1>1. /\ pc = "receive" /\ Len(replied) < plan.gpus
        /\ UNCHANGED <<count, here, workers, faulted>>
    BY DEF Receive, local
  <1>2. DOMAIN workers = 1..plan.gpus /\ plan.gpus \in Nat /\ Len(replied) \in Nat
    BY <1>1, PlanFacts DEF PipeInv, RoundShape, InRound, Shape
  <1>3. From \in DOMAIN workers /\ From = Len(replied) + 1
    BY <1>1, <1>2 DEF From
  <1>4. Reading' = Reading /\ HereReads' = HereReads
    BY <1>1 DEF Reading, HereReads
  <1>5. /\ IsFiniteSet(Reading) /\ Cardinality(Reading) \in Nat /\ Cardinality(Failed) \in Nat
        /\ Paid \in Nat /\ HereReads \in {0, 1} /\ Troubles \in {0, 1}
    BY CountsAre
  <1>6. faulted' \in Seq([query : Nat, raised : BOOLEAN]) /\ IsFiniteSet(Raised') /\ Paid' = Paid
    BY <1>1, NoFault
  <1>7. CASE TakeReply /\ UNCHANGED <<pc, outcomes>>
    <2>1. /\ replied' = Append(replied, Head(replies[From])) /\ replies[From] # <<>>
          /\ replies' = [replies EXCEPT ![From] = Tail(@)]
      BY <1>7 DEF TakeReply
    <2>2. PICK S : replied \in Seq(S)
      BY DEF PipeInv, Shape
    <2>3. Answered(From)
      BY <1>1, <1>2, <1>3, <2>1 DEF PipeInv, Receiving, Asked
    <2>4. PICK r : replies[From] = <<r>>
      BY <2>3 DEF Answered
    <2>5. /\ Len(replied') = Len(replied) + 1 /\ \A j \in 1..Len(replied) : replied'[j] = replied[j]
          /\ replied'[Len(replied) + 1] = r
      BY <2>1, <2>2, <2>4, AppendKeeps, PutInEmpty
    <2>6. /\ replies'[From] = <<>>
          /\ \A j \in DOMAIN workers : j # From => replies'[j] = replies[j]
      BY <1>3, <2>1, <2>4, PutInEmpty DEF PipeInv, Shape
    <2>7. ASSUME NEW j \in DOMAIN workers, Erred(j)' PROVE Erred(j)
      <3>1. CASE j = From
        BY <1>3, <2>4, <2>5, <2>6, <2>7, <3>1, PutInEmpty DEF Erred
      <3>2. CASE j # From
        <4>1. j \in Nat /\ j > 0 /\ (j <= Len(replied') <=> j <= Len(replied))
          BY <1>2, <1>3, <2>5, <3>2
        <4>2. j <= Len(replied) => replied'[j] = replied[j]
          BY <1>2, <2>5, <4>1
        <4> QED BY <2>6, <2>7, <3>2, <4>1, <4>2 DEF Erred
      <3> QED BY <3>1, <3>2
    <2>8. Trouble' => Trouble
      BY <1>1, <1>7, <2>7 DEF Trouble, InRound
    <2>9. Troubles' \in {0, 1} /\ Troubles' <= Troubles /\ Failed' = Failed
      BY <1>7, <2>8 DEF Troubles, Failed
    <2>10. Counted'
      BY <1>1, <1>4, <1>6, <1>7, <2>9 DEF Counted
    <2> QED BY <1>4, <1>5, <1>6, <2>9, <2>10 DEF Owed
  <1>8. CASE PipeEnded
    <2>1. ~workers[From].up /\ Ends("failed")
      BY <1>8 DEF PipeEnded
    <2>2. Troubles = 1
      BY <1>1, <1>3, <2>1 DEF Troubles, Trouble, InRound
    <2>3. /\ outcomes' \in Seq(Ways) /\ Len(outcomes') = count' /\ IsFiniteSet(Failed') /\ pc' = "idle"
          /\ Cardinality(Failed') = Cardinality(Failed) + 1
      BY <1>1, <2>1, EndsCounts DEF Ways
    <2>4. Troubles' = 0
      BY <2>3 DEF Troubles, Trouble, InRound
    <2>5. Counted'
      BY <1>1, <1>4, <1>5, <1>6, <2>3 DEF Counted
    <2> QED BY <1>4, <1>5, <1>6, <2>2, <2>3, <2>4, <2>5 DEF Owed
  <1> QED BY <1>7, <1>8 DEF Receive

(* A round with an error among its replies was in trouble.                 *)
LEMMA RoundEndsPays ==
    ASSUME PipeInv, PaidInv, RoundEnds PROVE PaidInv'
  <1> USE DEF PaidInv
  <1>1. /\ pc = "receive" /\ Len(replied) = plan.gpus
        /\ UNCHANGED <<count, here, workers, faulted>>
    BY DEF RoundEnds, local, pipes
  <1>2. DOMAIN workers = 1..plan.gpus /\ DOMAIN replied = 1..plan.gpus /\ plan.gpus \in Nat
    BY <1>1, PlanFacts DEF PipeInv, RoundShape, InRound, Shape
  <1>3. Reading' = Reading /\ HereReads' = HereReads
    BY <1>1 DEF Reading, HereReads
  <1>4. /\ IsFiniteSet(Reading) /\ Cardinality(Reading) \in Nat /\ Cardinality(Failed) \in Nat
        /\ Paid \in Nat /\ HereReads \in {0, 1} /\ Troubles \in {0, 1}
    BY CountsAre
  <1>5. faulted' \in Seq([query : Nat, raised : BOOLEAN]) /\ IsFiniteSet(Raised') /\ Paid' = Paid
    BY <1>1, NoFault
  <1>6. \/ Ends("failed") /\ \E i \in DOMAIN replied : replied[i].status = "err"
        \/ Ends("ok")
        \/ pc' = "send" /\ UNCHANGED outcomes
    BY DEF RoundEnds
  <1>7. CASE Ends("failed") /\ \E i \in DOMAIN replied : replied[i].status = "err"
    <2>1. Troubles = 1
      BY <1>1, <1>2, <1>7 DEF Troubles, Trouble, Erred
    <2>2. /\ outcomes' \in Seq(Ways) /\ Len(outcomes') = count' /\ IsFiniteSet(Failed') /\ pc' = "idle"
          /\ Cardinality(Failed') = Cardinality(Failed) + 1
      BY <1>1, <1>7, EndsCounts DEF Ways
    <2>3. Troubles' = 0
      BY <2>2 DEF Troubles, Trouble, InRound
    <2>4. Counted'
      BY <1>1, <1>3, <1>4, <1>5, <2>2 DEF Counted
    <2> QED BY <1>3, <1>4, <1>5, <2>1, <2>2, <2>3, <2>4 DEF Owed
  <1>8. CASE Ends("ok")
    <2>1. /\ outcomes' \in Seq(Ways) /\ Len(outcomes') = count' /\ IsFiniteSet(Failed') /\ pc' = "idle"
          /\ Cardinality(Failed') = Cardinality(Failed)
      BY <1>1, <1>4, <1>8, EndsCounts DEF Ways
    <2>2. Troubles' = 0
      BY <2>1 DEF Troubles, Trouble, InRound
    <2>3. Counted'
      BY <1>1, <1>3, <1>4, <1>5, <2>1 DEF Counted
    <2> QED BY <1>3, <1>4, <1>5, <2>1, <2>2, <2>3 DEF Owed
  <1>9. CASE pc' = "send" /\ UNCHANGED outcomes
    <2>1. Troubles' \in {0, 1} /\ Troubles' <= Troubles /\ Failed' = Failed
      BY <1>1, <1>9 DEF Troubles, Trouble, InRound, Failed
    <2>2. Counted'
      BY <1>1, <1>3, <1>4, <1>5, <1>9, <2>1 DEF Counted
    <2> QED BY <1>3, <1>4, <1>5, <2>1, <2>2 DEF Owed
  <1> QED BY <1>6, <1>7, <1>8, <1>9

LEMMA PaidStep == PipeInv /\ PaidInv /\ [Next]_vars => PaidInv'
  <1> SUFFICES ASSUME PipeInv, PaidInv, [Next]_vars PROVE PaidInv'
    OBVIOUS
  <1>1. CASE UNCHANGED vars
    <2>1. UNCHANGED <<pc, count, here, workers, replies, replied, outcomes, faulted>>
      BY <1>1 DEF vars, local, pipes, rounds
    <2>2. /\ Failed' = Failed /\ Reading' = Reading /\ Raised' = Raised /\ HereReads' = HereReads
          /\ Troubles' = Troubles /\ Paid' = Paid
      BY <2>1 DEF Failed, Reading, Raised, HereReads, Troubles, Trouble, Erred, InRound, Paid
    <2> QED BY <2>1, <2>2 DEF PaidInv, Counted, Owed
  <1>2. CASE Process
    BY <1>2, SubmitPays, PreparePays, TokensPays, ExecuteHerePays, StartRoundsPays, SendPays,
       ReceivePays, RoundEndsPays DEF Process
  <1>3. CASE \E i \in DOMAIN workers : Child(i) \/ Dies(i)
    BY <1>3, ChildPays, DiesPays
  <1> QED BY <1>1, <1>2, <1>3 DEF Next

(* No more queries fail than there were faults, but for one more for each  *)
(* run that raised: what breaks costs its own query, what a run leaves     *)
(* broken the next one, and nothing stays broken.                          *)
(* (_boot_gpu's rollback and _ensure_children's replacement)               *)
THEOREM FailuresPaid == Spec => []FailuresPaidFor
  <1>1. PaidInv => FailuresPaidFor
    <2> SUFFICES ASSUME PaidInv PROVE Cardinality(Failed) <= Paid
      BY DEF FailuresPaidFor, Failed, Paid, Raised
    <2>1. /\ Cardinality(Failed) \in Nat /\ Cardinality(Reading) \in Nat /\ Paid \in Nat
          /\ HereReads \in {0, 1} /\ Troubles \in {0, 1}
      BY CountsAre DEF PaidInv
    <2> QED BY <2>1 DEF PaidInv, Owed
  <1> QED BY <1>1, PaidInit, PaidStep, PipesHold, PTL DEF Spec

-----------------------------------------------------------------------------
(* Where keys are: no two children retain, or are asked for, a document of *)
(* the same query.  Between groups the owners say which child retains each *)
(* of this query's documents; during a group they say whom it was sent to, *)
(* and no reply retains another child's.                                   *)
AskedFor(i) ==
    IF todo[i] = <<>> THEN {} ELSE {<<Head(todo[i]).query, d>> : d \in ToSet(Head(todo[i]).docs)}
Have(i) == workers[i].kv \cup AskedFor(i)
Apart == \A i, j \in DOMAIN workers : i # j => Have(i) \cap Have(j) = {}

At(i, k) == k[2] \in Documents /\ owners[k[2]] = i
Settled ==
    pc = "send" /\ round > 0 =>
        \A i \in DOMAIN workers : \A k \in workers[i].kv : k[1] = count => At(i, k)

RepliedHome(i, r) ==
    /\ round = 0 => r.kv = {}
    /\ round > 0 => \A k \in r.kv : At(i, k)
    /\ workers[i].kv \subseteq r.kv
Answers ==
    pc = "receive" => \A i \in DOMAIN workers :
        /\ round > 0 => \A k \in AskedFor(i) : At(i, k)
        /\ i <= Len(replied) => RepliedHome(i, replied[i])
        /\ replies[i] # <<>> => RepliedHome(i, Head(replies[i]))

HomeInv == Apart /\ Settled /\ Answers

LEMMA HomeInit == Init => HomeInv
  <1> SUFFICES ASSUME Init PROVE HomeInv
    OBVIOUS
  <1>1. DOMAIN workers = {} /\ pc = "idle"
    BY DEF Init
  <1> QED BY <1>1 DEF HomeInv, Apart, Settled, Answers

(* Outside the rounds only what the children have matters.                 *)
LEMMA NoRoundHome ==
    ASSUME HomeInv, ~InRound', UNCHANGED <<workers, todo>> \/ workers' = <<>>
    PROVE  HomeInv'
  <1>1. Apart'
    <2>1. CASE UNCHANGED <<workers, todo>>
      BY <2>1 DEF HomeInv, Apart, Have, AskedFor
    <2>2. CASE workers' = <<>>
      <3>1. DOMAIN workers' = {}
        BY <2>2
      <3> QED BY <3>1 DEF Apart
    <2> QED BY <2>1, <2>2
  <1>2. Settled' /\ Answers'
    BY DEF Settled, Answers, InRound
  <1> QED BY <1>1, <1>2 DEF HomeInv

LEMMA SubmitHome ==
    ASSUME HomeInv, NEW p \in Plans, Submit(p) PROVE HomeInv'
  <1>1. pc' = "prepare" /\ Bind(p)
    BY DEF Submit
  <1>2. UNCHANGED <<workers, todo>> \/ workers' = <<>>
    BY <1>1 DEF Bind, NoWorkers, pipes
  <1> QED BY <1>1, <1>2, NoRoundHome DEF InRound

LEMMA PrepareHome ==
    ASSUME HomeInv, Prepare PROVE HomeInv'
  <1>1. pc' \in {"tokens", "idle"} /\ UNCHANGED <<workers, todo>>
    BY DEF Prepare, PrepareHere, Ends, pipes
  <1> QED BY <1>1, NoRoundHome DEF InRound

LEMMA TokensHome ==
    ASSUME HomeInv, Tokens PROVE HomeInv'
  <1>1. pc' \in {"execute", "idle"} /\ UNCHANGED <<workers, todo>>
    BY DEF Tokens, Ends, pipes
  <1> QED BY <1>1, NoRoundHome DEF InRound

LEMMA ExecuteHereHome ==
    ASSUME HomeInv, ExecuteHere PROVE HomeInv'
  <1>1. pc' = "idle" /\ UNCHANGED <<workers, todo>>
    BY DEF ExecuteHere, Ends, pipes
  <1> QED BY <1>1, NoRoundHome DEF InRound

LEMMA StartRoundsHome ==
    ASSUME HomeInv, StartRounds PROVE HomeInv'
  <1>1. pc' = "send" /\ round' = 0
    BY DEF StartRounds
  <1>2. Apart'
    <2>1. CASE Reusable
      <3>1. UNCHANGED <<workers, todo>>
        BY <2>1 DEF StartRounds, pipes
      <3> QED BY <3>1 DEF HomeInv, Apart, Have, AskedFor
    <2>2. CASE ~Reusable
      <3>1. /\ workers' = [i \in 1..plan.gpus |-> NoGpu]
            /\ todo' = [i \in 1..plan.gpus |-> <<>>]
        BY <2>2 DEF StartRounds
      <3>2. \A i \in DOMAIN workers' : Have(i)' = {}
        BY <3>1, NoGpuWorker DEF Have, AskedFor
      <3> QED BY <3>2 DEF Apart
    <2> QED BY <2>1, <2>2
  <1> QED BY <1>1, <1>2 DEF HomeInv, Settled, Answers

(* A document goes to the child that retains it, and to one child.         *)
LEMMA SendHome ==
    ASSUME PipeInv, HomeInv, Send PROVE HomeInv'
  <1> DEFINE at == IF round = 0 THEN owners ELSE Place(owners)
             gone == {i \in DOMAIN workers : ~workers[i].up}
             sent == {i \in DOMAIN workers : \A j \in gone : i < j}
             For(i) == {<<count, d>> : d \in ToSet(Message(i, at).docs)}
  <1>1. /\ pc = "send" /\ pc' # "send" /\ replied' = <<>> /\ owners' = at
        /\ UNCHANGED <<plan, count, workers, replies, round, ids>>
        /\ todo' = [i \in DOMAIN todo |->
                         IF i \in sent THEN Append(todo[i], Message(i, at)) ELSE todo[i]]
    BY DEF Send, Ends
  <1>2. DOMAIN workers = 1..plan.gpus /\ plan.gpus \in Nat /\ DOMAIN todo = DOMAIN workers /\ Listed(ids)
    BY <1>1, PlanFacts DEF PipeInv, RoundShape, InRound, Shape
  <1>3. \A i \in DOMAIN workers : todo[i] = <<>> /\ replies[i] = <<>>
    BY <1>1 DEF PipeInv, Sending, Clear
  <1>4. ASSUME NEW i \in DOMAIN workers, NEW d \in ToSet(Message(i, at).docs)
        PROVE  round # 0 /\ d \in Documents /\ at[d] = i
    <2>1. Message(i, at).docs = IF round = 0 THEN <<>> ELSE Shard(at, i)
      BY DEF Message
    <2>2. ToSet(<<>>) = {}
      BY DEF ToSet
    <2>3. round # 0 /\ d \in ToSet(Shard(at, i))
      BY <1>4, <2>1, <2>2
    <2>4. ToSet(Shard(at, i)) \subseteq {e \in Documents : at[e] = i}
      BY <1>2, SiftedListed DEF Shard
    <2> QED BY <2>3, <2>4
  <1>5. ASSUME NEW d \in Documents, round # 0, owners[d] # 0
        PROVE  at[d] = owners[d]
    <2> DEFINE missing == {e \in ToSet(ids) : owners[e] = 0}
    <2>1. d \notin missing
      BY <1>5
    <2>2. \E fresh : at = [e \in Documents |-> IF e \in missing THEN fresh[e] ELSE owners[e]]
      BY <1>5 DEF Place
    <2> HIDE DEF missing
    <2> QED BY <2>1, <2>2
  <1> HIDE DEF at, sent
  <1>6. ASSUME NEW i \in DOMAIN workers
        PROVE  AskedFor(i)' \subseteq For(i)
    <2>1. i \in sent => todo'[i] = <<Message(i, at)>>
      BY <1>1, <1>2, <1>3, PutInEmpty
    <2>2. i \notin sent => todo'[i] = <<>>
      BY <1>1, <1>2, <1>3
    <2>3. Message(i, at).query = count
      BY DEF Message
    <2>4. CASE i \in sent
      <3>1. todo'[i] # <<>> /\ Head(todo'[i]) = Message(i, at)
        BY <2>1, <2>4, PutInEmpty
      <3> QED BY <2>3, <3>1 DEF AskedFor
    <2>5. CASE i \notin sent
      BY <2>2, <2>5 DEF AskedFor
    <2> QED BY <2>4, <2>5
  <1>7. ASSUME NEW i \in DOMAIN workers, NEW j \in DOMAIN workers, i # j, NEW k \in For(i)
        PROVE  k \notin For(j) /\ k \notin workers[j].kv
    <2>1. PICK d \in ToSet(Message(i, at).docs) : k = <<count, d>>
      BY <1>7
    <2>2. round # 0 /\ d \in Documents /\ at[d] = i
      BY <1>4, <2>1
    <2>3. k \notin For(j)
      <3>1. SUFFICES ASSUME k \in For(j) PROVE FALSE
        OBVIOUS
      <3>2. PICK e \in ToSet(Message(j, at).docs) : k = <<count, e>>
        BY <3>1
      <3>3. e = d /\ at[e] = j
        BY <1>4, <2>1, <3>2
      <3> QED BY <1>7, <2>2, <3>3
    <2>4. k \notin workers[j].kv
      <3>1. SUFFICES ASSUME k \in workers[j].kv PROVE FALSE
        OBVIOUS
      <3>2. k[1] = count /\ k[2] = d
        BY <2>1
      <3>3. round > 0
        BY <2>2 DEF PipeInv, Shape
      <3>4. At(j, k)
        BY <1>1, <3>1, <3>2, <3>3 DEF HomeInv, Settled
      <3>5. owners[d] = j /\ j # 0
        BY <1>2, <3>2, <3>4 DEF At
      <3>6. at[d] = j
        BY <1>5, <2>2, <3>5
      <3> QED BY <1>7, <2>2, <3>6
    <2> QED BY <2>3, <2>4
  <1>8. Apart'
    <2> SUFFICES ASSUME NEW i \in DOMAIN workers, NEW j \in DOMAIN workers, i # j, NEW k,
                        k \in Have(i)', k \in Have(j)'
                 PROVE  FALSE
      BY <1>1 DEF Apart
    <2>1. (k \in workers[i].kv \/ k \in For(i)) /\ (k \in workers[j].kv \/ k \in For(j))
      BY <1>1, <1>6 DEF Have
    <2>2. ~(k \in workers[i].kv /\ k \in workers[j].kv)
      BY DEF HomeInv, Apart, Have
    <2> QED BY <1>7, <2>1, <2>2
  <1>9. Answers'
    <2> SUFFICES ASSUME NEW i \in DOMAIN workers
                 PROVE  /\ round > 0 => \A k \in AskedFor(i)' : At(i, k)'
                        /\ ~(i <= Len(replied')) /\ replies[i] = <<>>
      BY <1>1 DEF Answers
    <2>1. ~(i <= Len(replied')) /\ replies[i] = <<>>
      BY <1>1, <1>2, <1>3
    <2>2. ASSUME NEW k \in AskedFor(i)' PROVE At(i, k)'
      <3>1. PICK d \in ToSet(Message(i, at).docs) : k = <<count, d>>
        BY <1>6
      <3>2. d \in Documents /\ at[d] = i /\ k[2] = d
        BY <1>4, <3>1
      <3> QED BY <1>1, <3>2 DEF At, Documents
    <2> QED BY <2>1, <2>2
  <1>10. Settled'
    BY <1>1 DEF Settled
  <1> QED BY <1>8, <1>9, <1>10 DEF HomeInv

(* What a child keeps, it was asked for or kept already.                   *)
LEMMA ChildHome ==
    ASSUME PipeInv, HomeInv, NEW i \in DOMAIN workers, Child(i) PROVE HomeInv'
  <1>1. /\ UNCHANGED <<pc, plan, count, owners, round, replied>>
        /\ todo' = [todo EXCEPT ![i] = Tail(@)] /\ workers[i].up
    BY DEF Child, rounds
  <1>2. PICK m, v, r : todo[i] = <<m>> /\ Answering(i, m, v, r)
    BY ChildAnswers
  <1>3. m.group \in Nat /\ (m.group > 1 => workers[i].context = m.query) /\ Head(todo[i]) = m /\ todo[i] # <<>>
    <2>1. PICK n : todo[i] = <<n>> /\ Runs(workers[i], n)
      BY <1>2, PutInEmpty DEF PipeInv, Messages
    <2>2. n = m
      BY <1>2, <2>1, PutInEmpty
    <2> QED BY <1>1, <1>2, <2>1, <2>2, PutInEmpty DEF Runs
  <1>4. v.kv \subseteq AskedFor(i)
    <2>1. CASE m.group = 0
      BY <1>2, <2>1 DEF Answering
    <2>2. CASE m.group > 0
      <3>1. v.context = m.query /\ v.kv \subseteq {<<v.context, d>> : d \in ToSet(m.docs)}
        BY <1>2, <1>3, <2>2 DEF Answering
      <3> QED BY <1>3, <3>1 DEF AskedFor
    <2> QED BY <1>3, <2>1, <2>2
  <1>5. /\ DOMAIN workers' = DOMAIN workers /\ workers'[i] = v
        /\ \A j \in DOMAIN workers : j # i =>
              workers'[j] = workers[j] /\ todo'[j] = todo[j] /\ replies'[j] = replies[j]
        /\ todo'[i] = <<>> /\ replies'[i] = Append(replies[i], r) /\ r.kv = v.kv
    BY <1>1, <1>2, PutInEmpty DEF Answering, PipeInv, Shape
  <1>6. Have(i)' \subseteq Have(i) /\ \A j \in DOMAIN workers : j # i => Have(j)' = Have(j)
    BY <1>4, <1>5 DEF Have, AskedFor
  <1>7. Apart'
    BY <1>5, <1>6 DEF HomeInv, Apart
  <1>8. pc # "send"
    BY <1>2, PutInEmpty DEF PipeInv, Sending, Clear
  <1>9. Answers'
    <2> SUFFICES ASSUME pc = "receive", NEW j \in DOMAIN workers
                 PROVE  /\ round > 0 => \A k \in AskedFor(j)' : At(j, k)'
                        /\ j <= Len(replied) => RepliedHome(j, replied[j])'
                        /\ replies'[j] # <<>> => RepliedHome(j, Head(replies[j]))'
      BY <1>1, <1>5 DEF Answers
    <2>1. \A a, k : At(a, k)' <=> At(a, k)
      BY <1>1 DEF At, Documents
    <2>2. CASE j # i
      <3>1. AskedFor(j)' = AskedFor(j) /\ workers'[j] = workers[j] /\ replies'[j] = replies[j]
        BY <1>5, <2>2 DEF AskedFor
      <3>2. /\ round > 0 => \A k \in AskedFor(j) : At(j, k)
            /\ j <= Len(replied) => RepliedHome(j, replied[j])
            /\ replies[j] # <<>> => RepliedHome(j, Head(replies[j]))
        BY DEF HomeInv, Answers
      <3> QED BY <1>1, <2>1, <3>1, <3>2 DEF RepliedHome
    <2>3. CASE j = i
      <3>1. ~WasRead(i) /\ ~Answered(i)
        BY <1>2, PutInEmpty DEF WasRead, Clear, Answered
      <3>2. ~(i <= Len(replied))
        BY <3>1 DEF PipeInv, Receiving
      <3>3. i \in 1..plan.gpus /\ plan.gpus \in Nat /\ Len(replied) \in Nat
        BY PlanFacts DEF PipeInv, RoundShape, InRound, Shape
      <3>4. Asked(i)
        BY <3>1, <3>2, <3>3 DEF PipeInv, Receiving
      <3>5. replies[i] = <<>> /\ m.group = round
        BY <1>2, <3>4, PutInEmpty DEF Asked
      <3>6. replies'[i] = <<r>> /\ Head(replies'[i]) = r /\ AskedFor(i)' = {}
        BY <1>5, <3>5, PutInEmpty DEF AskedFor
      <3>7. RepliedHome(i, r)'
        <4>1. round = 0 => r.kv = {}
          BY <1>2, <3>5 DEF Answering
        <4>2. round > 0 => \A k \in r.kv : At(i, k)
          BY <1>4, <1>5 DEF HomeInv, Answers
        <4> QED BY <1>1, <1>5, <2>1, <4>1, <4>2 DEF RepliedHome
      <3> QED BY <1>1, <2>3, <3>2, <3>6, <3>7
    <2> QED BY <2>2, <2>3
  <1>10. Settled'
    BY <1>1, <1>8 DEF Settled
  <1> QED BY <1>7, <1>9, <1>10 DEF HomeInv

LEMMA DiesHome ==
    ASSUME PipeInv, HomeInv, NEW i \in DOMAIN workers, Dies(i) PROVE HomeInv'
  <1> DEFINE dead == [NoGpu EXCEPT !.up = FALSE]
  <1>1. /\ UNCHANGED <<pc, plan, count, owners, todo, replies, round, replied>>
        /\ workers' = [workers EXCEPT ![i] = dead]
    BY DEF Dies, rounds
  <1>2. dead.kv = {}
    BY DEF NoGpu
  <1> HIDE DEF dead
  <1>3. /\ DOMAIN workers' = DOMAIN workers
        /\ \A j \in DOMAIN workers : workers'[j].kv \subseteq workers[j].kv
    BY <1>1, <1>2
  <1>4. \A j \in DOMAIN workers : AskedFor(j)' = AskedFor(j) /\ Have(j)' \subseteq Have(j)
    BY <1>1, <1>3 DEF Have, AskedFor
  <1>5. \A a, k : At(a, k)' <=> At(a, k)
    BY <1>1 DEF At, Documents
  <1>6. Apart'
    BY <1>3, <1>4 DEF HomeInv, Apart
  <1>7. Settled'
    <2> SUFFICES ASSUME pc = "send", round > 0, NEW j \in DOMAIN workers,
                        NEW k \in workers[j].kv, k[1] = count
                 PROVE  At(j, k)
      BY <1>1, <1>3, <1>5 DEF Settled
    <2> QED BY DEF HomeInv, Settled
  <1>8. Answers'
    <2> SUFFICES ASSUME pc = "receive", NEW j \in DOMAIN workers
                 PROVE  /\ round > 0 => \A k \in AskedFor(j) : At(j, k)
                        /\ j <= Len(replied) => RepliedHome(j, replied[j])'
                        /\ replies[j] # <<>> => RepliedHome(j, Head(replies[j]))'
      BY <1>1, <1>3, <1>4, <1>5 DEF Answers
    <2>1. /\ RepliedHome(j, replied[j]) => RepliedHome(j, replied[j])'
          /\ RepliedHome(j, Head(replies[j])) => RepliedHome(j, Head(replies[j]))'
      BY <1>1, <1>3, <1>5 DEF RepliedHome
    <2>2. /\ round > 0 => \A k \in AskedFor(j) : At(j, k)
          /\ j <= Len(replied) => RepliedHome(j, replied[j])
          /\ replies[j] # <<>> => RepliedHome(j, Head(replies[j]))
      BY DEF HomeInv, Answers
    <2> QED BY <1>1, <2>1, <2>2
  <1> QED BY <1>6, <1>7, <1>8 DEF HomeInv

LEMMA ReceiveHome ==
    ASSUME PipeInv, HomeInv, Receive PROVE HomeInv'
  <1>1. /\ pc = "receive" /\ Len(replied) < plan.gpus
        /\ UNCHANGED <<plan, count, workers, todo, round, owners>>
    BY DEF Receive
  <1>2. DOMAIN workers = 1..plan.gpus /\ plan.gpus \in Nat /\ Len(replied) \in Nat
    BY <1>1, PlanFacts DEF PipeInv, RoundShape, InRound, Shape
  <1>3. From \in DOMAIN workers /\ From = Len(replied) + 1
    BY <1>1, <1>2 DEF From
  <1>4. CASE TakeReply /\ UNCHANGED <<pc, outcomes>>
    <2>1. /\ replied' = Append(replied, Head(replies[From])) /\ replies[From] # <<>>
          /\ replies' = [replies EXCEPT ![From] = Tail(@)]
      BY <1>4 DEF TakeReply
    <2>2. PICK S : replied \in Seq(S)
      BY DEF PipeInv, Shape
    <2>3. Answered(From)
      BY <1>1, <1>2, <1>3, <2>1 DEF PipeInv, Receiving, Asked
    <2>4. PICK r : replies[From] = <<r>> /\ Head(replies[From]) = r
      BY <2>3, PutInEmpty DEF Answered
    <2>5. /\ Len(replied') = Len(replied) + 1 /\ \A j \in 1..Len(replied) : replied'[j] = replied[j]
          /\ replied'[Len(replied) + 1] = r
      BY <2>1, <2>2, <2>4, AppendKeeps
    <2>6. /\ replies'[From] = <<>>
          /\ \A j \in DOMAIN workers : j # From => replies'[j] = replies[j]
      BY <1>3, <2>1, <2>4, PutInEmpty DEF PipeInv, Shape
    <2>7. \A a, k : At(a, k)' <=> At(a, k)
      BY <1>1 DEF At, Documents
    <2>8. \A j \in DOMAIN workers : AskedFor(j)' = AskedFor(j)
      BY <1>1 DEF AskedFor
    <2>9. Apart'
      BY <1>1 DEF HomeInv, Apart, Have, AskedFor
    <2>10. Settled'
      BY <1>1, <1>4 DEF Settled
    <2>11. ASSUME NEW j \in DOMAIN workers, NEW x, RepliedHome(j, x) PROVE RepliedHome(j, x)'
      BY <1>1, <2>7, <2>11 DEF RepliedHome
    <2>12. Answers'
      <3> SUFFICES ASSUME NEW j \in DOMAIN workers
                   PROVE  /\ round > 0 => \A k \in AskedFor(j) : At(j, k)
                          /\ j <= Len(replied') => RepliedHome(j, replied'[j])
                          /\ replies'[j] # <<>> => RepliedHome(j, Head(replies'[j]))
        BY <1>1, <2>7, <2>8 DEF Answers, RepliedHome
      <3>1. /\ round > 0 => \A k \in AskedFor(j) : At(j, k)
            /\ j <= Len(replied) => RepliedHome(j, replied[j])
            /\ replies[j] # <<>> => RepliedHome(j, Head(replies[j]))
        BY <1>1 DEF HomeInv, Answers
      <3>2. CASE j = From
        BY <1>3, <2>1, <2>4, <2>5, <2>6, <3>1, <3>2
      <3>3. CASE j # From
        <4>1. j \in 1..plan.gpus
          BY <1>2
        <4>2. j <= Len(replied') => j \in 1..Len(replied)
          BY <1>2, <1>3, <2>5, <3>3, <4>1
        <4> QED BY <2>5, <2>6, <3>1, <3>3, <4>2
      <3> QED BY <3>2, <3>3
    <2> QED BY <2>9, <2>10, <2>12 DEF HomeInv
  <1>5. CASE PipeEnded
    <2>1. pc' = "idle"
      BY <1>5 DEF PipeEnded, Ends
    <2> QED BY <1>1, <2>1, NoRoundHome DEF InRound
  <1> QED BY <1>4, <1>5 DEF Receive

(* When a group ends, its owners are the children that retain.             *)
LEMMA RoundEndsHome ==
    ASSUME PipeInv, HomeInv, RoundEnds PROVE HomeInv'
  <1>1. /\ pc = "receive" /\ Len(replied) = plan.gpus
        /\ UNCHANGED <<plan, count, workers, todo>>
    BY DEF RoundEnds, pipes
  <1>2. DOMAIN workers = 1..plan.gpus /\ plan.gpus \in Nat /\ DOMAIN replied = 1..plan.gpus /\ round \in Nat
    BY <1>1, PlanFacts DEF PipeInv, RoundShape, InRound, Shape
  <1>3. CASE pc' = "idle"
    BY <1>1, <1>3, NoRoundHome DEF InRound
  <1>4. CASE pc' = "send" /\ (round = 0 \/ owners' = Retained(owners))
    <2>1. Apart'
      BY <1>1 DEF HomeInv, Apart, Have, AskedFor
    <2>2. ASSUME NEW i \in DOMAIN workers PROVE RepliedHome(i, replied[i])
      BY <1>1, <1>2 DEF HomeInv, Answers
    <2>3. Settled'
      <3> SUFFICES ASSUME NEW i \in DOMAIN workers, NEW k \in workers[i].kv
                   PROVE  At(i, k)'
        BY <1>1 DEF Settled
      <3>1. k \in replied[i].kv
        BY <2>2 DEF RepliedHome
      <3>2. round # 0 /\ At(i, k)
        BY <1>2, <2>2, <3>1 DEF RepliedHome
      <3> DEFINE d == k[2]
                 holding == {j \in DOMAIN replied : d \in {x[2] : x \in replied[j].kv}}
      <3>3. i \in holding
        BY <1>2, <3>1
      <3>4. ASSUME NEW j \in holding PROVE j = i
        <4>1. PICK x \in replied[j].kv : x[2] = d
          OBVIOUS
        <4>2. At(j, x)
          BY <1>2, <2>2, <3>2, <4>1 DEF RepliedHome
        <4> QED BY <3>2, <4>1, <4>2 DEF At
      <3>5. holding = {i}
        BY <3>3, <3>4
      <3>6. d \in Documents /\ i <= i
        BY <1>2, <3>2 DEF At
      <3>7. owners'[d] = CHOOSE a \in holding : \A b \in holding : b <= a
        <4>1. holding # {}
          BY <3>3
        <4> QED BY <1>4, <3>2, <3>6, <4>1 DEF Retained
      <3> HIDE DEF holding
      <3>8. owners'[d] = i
        BY <3>5, <3>6, <3>7
      <3> QED BY <1>1, <3>6, <3>8 DEF At, Documents
    <2> QED BY <1>4, <2>1, <2>3 DEF HomeInv, Answers
  <1> QED BY <1>3, <1>4 DEF RoundEnds, Ends

LEMMA HomeStep == PipeInv /\ HomeInv /\ [Next]_vars => HomeInv'
  <1> SUFFICES ASSUME PipeInv, HomeInv, [Next]_vars PROVE HomeInv'
    OBVIOUS
  <1>1. CASE UNCHANGED vars
    <2>1. UNCHANGED <<pc, plan, count, workers, todo, replies, round, replied, owners>>
      BY <1>1 DEF vars, pipes, rounds
    <2> QED BY <2>1 DEF HomeInv, Apart, Have, AskedFor, Settled, Answers, RepliedHome, At, Documents
  <1>2. CASE Process
    BY <1>2, SubmitHome, PrepareHome, TokensHome, ExecuteHereHome, StartRoundsHome, SendHome,
       ReceiveHome, RoundEndsHome DEF Process
  <1>3. CASE \E i \in DOMAIN workers : Child(i) \/ Dies(i)
    BY <1>3, ChildHome, DiesHome
  <1> QED BY <1>1, <1>2, <1>3 DEF Next

(* No child is asked for a document of this query that another one         *)
(* retains, whatever the plan's placement was, and although each group's   *)
(* replies move the owners.  (distributed.py's _shards and _execute)       *)
THEOREM HomeSafe == Spec => []KVAtHome
  <1>1. PipeInv /\ HomeInv => KVAtHome
    <2> SUFFICES ASSUME PipeInv, HomeInv, NEW i \in DOMAIN workers, NEW j \in DOMAIN workers, i # j,
                        NEW m \in ToSet(todo[i]), NEW d \in ToSet(m.docs), <<m.query, d>> \in workers[j].kv
                 PROVE  FALSE
      BY DEF KVAtHome
    <2>1. PICK n \in DOMAIN todo[i] : m = todo[i][n]
      BY DEF ToSet
    <2>2. todo[i] # <<>>
      BY <2>1
    <2>3. PICK x : todo[i] = <<x>>
      BY <2>2 DEF PipeInv, Messages
    <2>4. m = x /\ Head(todo[i]) = x
      BY <2>1, <2>3, PutInEmpty
    <2>5. <<m.query, d>> \in Have(i)
      BY <2>2, <2>4 DEF Have, AskedFor
    <2> QED BY <2>5 DEF HomeInv, Apart, Have
  <1> QED BY <1>1, HomeInit, HomeStep, PipesHold, PTL DEF Spec

-----------------------------------------------------------------------------
(* A recursion over 0..N is the function it says.                          *)
Repeats(f, N, base, step) == f = [n \in 0..N |-> IF n = 0 THEN base ELSE step[<<f[n - 1], n>>]]

LEMMA RepeatsExists ==
    ASSUME NEW N \in Nat, NEW V, NEW base \in V, NEW step \in [V \X (1..N) -> V]
    PROVE  \E f \in [0..N -> V] : Repeats(f, N, base, step)
  <1> DEFINE Up(f, m) ==
                 f \in [0..m -> V] /\ \A n \in 0..m : f[n] = IF n = 0 THEN base ELSE step[<<f[n - 1], n>>]
             T == {m \in Nat : m <= N => \E f : Up(f, m)}
  <1>1. 0 \in T
    <2>1. Up([n \in 0..0 |-> base], 0)
      OBVIOUS
    <2> HIDE DEF Up
    <2> QED BY <2>1
  <1>2. ASSUME NEW m \in Nat, m \in T PROVE m + 1 \in T
    <2> SUFFICES ASSUME m + 1 <= N PROVE \E h : Up(h, m + 1)
      OBVIOUS
    <2>1. PICK f : Up(f, m)
      BY <1>2
    <2> DEFINE last == step[<<f[m], m + 1>>]
               h == [n \in 0..m + 1 |-> IF n = m + 1 THEN last ELSE f[n]]
    <2>2. last \in V
      <3>1. f[m] \in V /\ m + 1 \in 1..N
        BY <2>1
      <3> QED BY <3>1
    <2>3. h \in [0..m + 1 -> V]
      <3>1. \A n \in 0..m + 1 : n # m + 1 => n \in 0..m
        OBVIOUS
      <3>2. \A n \in 0..m + 1 : (IF n = m + 1 THEN last ELSE f[n]) \in V
        BY <2>1, <2>2, <3>1
      <3> HIDE DEF last
      <3> QED BY <3>2
    <2>4. ASSUME NEW n \in 0..m + 1 PROVE h[n] = IF n = 0 THEN base ELSE step[<<h[n - 1], n>>]
      <3>1. CASE n = m + 1
        <4>1. n # 0 /\ n - 1 = m /\ n - 1 \in 0..m + 1 /\ n - 1 # m + 1
          BY <3>1
        <4>2. h[n - 1] = f[m] /\ h[n] = step[<<f[m], m + 1>>]
          BY <3>1, <4>1
        <4> HIDE DEF h
        <4> QED BY <3>1, <4>1, <4>2
      <3>2. CASE n # m + 1
        <4>1. n \in 0..m
          BY <3>2
        <4>2. h[n] = f[n]
          BY <3>2
        <4>3. f[n] = IF n = 0 THEN base ELSE step[<<f[n - 1], n>>]
          BY <2>1, <4>1
        <4>4. n # 0 => h[n - 1] = f[n - 1]
          BY <4>1
        <4> HIDE DEF h
        <4> QED BY <4>2, <4>3, <4>4
      <3> QED BY <3>1, <3>2
    <2> HIDE DEF h
    <2>5. Up(h, m + 1)
      BY <2>3, <2>4
    <2> HIDE DEF Up
    <2> QED BY <2>5
  <1> HIDE DEF T
  <1>3. Nat \subseteq T
    BY <1>1, <1>2, UpTo
  <1>4. PICK f : Up(f, N)
    <2>1. N \in T
      BY <1>3
    <2> QED BY <2>1 DEF T
  <1>5. f = [n \in 0..N |-> IF n = 0 THEN base ELSE step[<<f[n - 1], n>>]]
    <2>1. f = [n \in 0..N |-> f[n]]
      BY <1>4
    <2> QED BY <1>4, <2>1
  <1> QED BY <1>4, <1>5 DEF Repeats

(* Finite sets of a plan's documents.                                      *)
LEMMA DocumentsFinite ==
    ASSUME NEW n \in Nat, NEW D \in SUBSET (1..n)
    PROVE  D \subseteq Int /\ IsFiniteSet(D)
  <1>1. IsFiniteSet(1..n) /\ 1..n \subseteq Int
    BY FS_Interval
  <1> QED BY <1>1, FS_Subset

(* What Ascending lists is what it was given.                              *)
LEMMA AscendingList ==
    ASSUME NEW n \in Nat, NEW D \in SUBSET (1..n)
    PROVE  Listed(Ascending(D)) /\ ToSet(Ascending(D)) = D /\ Len(Ascending(D)) = Cardinality(D)
  <1>1. D \subseteq Int /\ IsFiniteSet(D)
    BY DocumentsFinite
  <1>2. /\ Cardinality(D) \in Nat /\ Ascending(D) \in [1..Cardinality(D) -> D]
        /\ \A x \in D : \E k \in 1..Cardinality(D) : Ascending(D)[k] = x
    BY <1>1, AscendingIs
  <1>3. Len(Ascending(D)) = Cardinality(D)
    <2> DEFINE c == Cardinality(D)
    <2>1. Ascending(D) \in Seq(D)
      BY <1>2
    <2>2. Len(Ascending(D)) \in Nat /\ DOMAIN Ascending(D) = 1..Len(Ascending(D))
      BY <2>1
    <2>3. DOMAIN Ascending(D) = 1..c /\ c \in Nat
      BY <1>2
    <2> HIDE DEF c
    <2>4. Len(Ascending(D)) \in 1..c \/ Len(Ascending(D)) = 0
      BY <2>2, <2>3
    <2>5. c \in 1..Len(Ascending(D)) \/ c = 0
      BY <2>2, <2>3
    <2> DEFINE len == Len(Ascending(D))
    <2>6. len = c
      <3>1. len \in Nat /\ c \in Nat /\ 1..len = 1..c
        BY <2>2, <2>3
      <3> HIDE DEF len
      <3>2. (len > 0 => len \in 1..len) /\ (c > 0 => c \in 1..c)
        BY <3>1
      <3>3. (len > 0 => len \in 1..c) /\ (c > 0 => c \in 1..len)
        BY <3>1, <3>2
      <3> QED BY <3>1, <3>3
    <2> QED BY <2>6 DEF c
  <1> QED BY <1>2, <1>3 DEF Listed, ToSet

(* The whole of 1..n is its own list.                                      *)
LEMMA AscendingAll ==
    ASSUME NEW n \in Nat PROVE [d \in 1..n |-> d] = Ascending(1..n)
  <1> DEFINE f == [d \in 1..n |-> d]
  <1>1. Increasing(f, n)
    BY DEF Increasing
  <1>2. Within(f, n) = 1..n
    BY DEF Within
  <1> HIDE DEF f
  <1>3. f = Ascending(Within(f, n))
    BY <1>1, IncreasingIs
  <1> QED BY <1>2, <1>3 DEF f

(* Sifting a list of numbers in ascending order lists those that are kept. *)
LEMMA SiftedAscending ==
    ASSUME NEW n \in Nat, NEW D \in SUBSET (1..n), NEW keep
    PROVE  Sifted(Ascending(D), keep) = Ascending(D \cap keep)
  <1> DEFINE a == Ascending(D)
             s == Sifted(a, keep)
             c == Cardinality(D)
  <1>1. D \subseteq Int /\ IsFiniteSet(D)
    BY DocumentsFinite
  <1>2. /\ c \in Nat /\ a \in [1..c -> D]
        /\ \A x \in D : \E k \in 1..c : a[k] = x
        /\ \A k, m \in 1..c : k < m => a[k] < a[m]
    BY <1>1, AscendingIs
  <1> HIDE DEF a, c
  <1>3. DOMAIN a = 1..c
    BY <1>2
  <1>4. PICK at :
          /\ at \in [DOMAIN s -> 1..c]
          /\ \A k \in DOMAIN s : s[k] = a[at[k]] /\ a[at[k]] \in keep
          /\ \A k \in 1..c : a[k] \in keep => \E m \in DOMAIN s : at[m] = k
          /\ \A k, m \in DOMAIN s : k < m => at[k] < at[m]
          /\ \E size \in Nat : DOMAIN s = 1..size /\ size <= c
    BY <1>2, <1>3, SiftedIs
  <1>5. PICK size \in Nat : DOMAIN s = 1..size
    BY <1>4
  <1>6. s = [k \in 1..size |-> s[k]]
    <2>1. \E e : s = [k \in DOMAIN e |-> a[e[k]]]
      BY DEF Sifted
    <2> QED BY <1>5, <2>1
  <1> HIDE DEF s
  <1>7. \A k \in 1..size : at[k] \in 1..c /\ s[k] = a[at[k]] /\ s[k] \in keep /\ s[k] \in D
    BY <1>2, <1>4, <1>5
  <1>8. \A k \in 1..size : s[k] \in Int
    BY <1>1, <1>7
  <1>9. \A k, m \in 1..size : k < m => s[k] < s[m]
    <2> SUFFICES ASSUME NEW k \in 1..size, NEW m \in 1..size, k < m PROVE s[k] < s[m]
      OBVIOUS
    <2>1. at[k] < at[m] /\ at[k] \in 1..c /\ at[m] \in 1..c /\ s[k] = a[at[k]] /\ s[m] = a[at[m]]
      BY <1>4, <1>5, <1>7
    <2> QED BY <1>2, <2>1
  <1>10. Within(s, size) = D \cap keep
    <2>1. \A k \in 1..size : s[k] \in D \cap keep
      BY <1>7
    <2>2. ASSUME NEW x \in D \cap keep PROVE \E k \in 1..size : s[k] = x
      <3>1. PICK j \in 1..c : a[j] = x
        BY <1>2
      <3>2. PICK m \in 1..size : at[m] = j
        BY <1>4, <1>5, <3>1
      <3> QED BY <1>7, <3>1, <3>2
    <2> QED BY <2>1, <2>2 DEF Within
  <1>11. Increasing(s, size)
    BY <1>5, <1>6, <1>8, <1>9 DEF Increasing
  <1>12. s = Ascending(Within(s, size))
    BY <1>11, IncreasingIs
  <1> QED BY <1>10, <1>12 DEF s, a

-----------------------------------------------------------------------------
(* The documents one GPU has left.                                         *)
Start(p) == [d \in DOMAIN p.lengths |-> d]
Lasting(p, g, D) == {d \in D : Survives(p, g, Ascending(D), d)}

LEMMA PlanSays ==
    ASSUME NEW p \in Plans
    PROVE  /\ Len(p.lengths) \in Nat /\ DOMAIN p.lengths = 1..Len(p.lengths)
           /\ Len(p.passes) \in Nat /\ Len(p.passes) > 0
           /\ p.gpus \in Nat /\ p.gpus > 0 /\ p.limit \in Nat
           /\ \A d \in DOMAIN p.lengths : p.lengths[d] \in Nat
           /\ p.keys \in Seq(Nat)
           /\ p.keys # <<>> => Len(p.keys) = Len(p.lengths) /\ DOMAIN p.keys = DOMAIN p.lengths
  <1>1. PlanRecord(p)
    BY PlansAssumption
  <1>2. /\ p.lengths \in Seq(Nat) /\ p.limit \in Nat /\ Len(p.passes) > 0
        /\ p.passes \in Seq(SUBSET (DOMAIN p.lengths)) /\ p.gpus \in 1..MaxChildren
        /\ p.keys \in Seq(Nat) /\ (p.keys = <<>> \/ Len(p.keys) = Len(p.lengths))
    BY <1>1 DEF PlanRecord
  <1>3. p.gpus \in Nat /\ p.gpus > 0
    BY <1>2, BoundsAssumption
  <1> QED BY <1>2, <1>3

LEMMA SurvivorsAre ==
    ASSUME NEW n \in Nat, NEW D \in SUBSET (1..n), NEW p, NEW g
    PROVE  Survivors(p, g, Ascending(D)) = Ascending(Lasting(p, g, D))
  <1> DEFINE keep == {d \in ToSet(Ascending(D)) : Survives(p, g, Ascending(D), d)}
  <1>1. ToSet(Ascending(D)) = D
    BY AscendingList
  <1>2. keep = Lasting(p, g, D) /\ D \cap keep = Lasting(p, g, D)
    BY <1>1 DEF Lasting
  <1>3. Survivors(p, g, Ascending(D)) = Sifted(Ascending(D), keep)
    BY DEF Survivors
  <1>4. Sifted(Ascending(D), keep) = Ascending(D \cap keep)
    BY SiftedAscending
  <1> QED BY <1>2, <1>3, <1>4

LEMMA LastingSome == ASSUME NEW p, NEW g, NEW D PROVE Lasting(p, g, D) \subseteq D
  BY DEF Lasting

(* An induction that stops.                                                *)
LEMMA UpToBound ==
    ASSUME NEW N \in Nat, NEW T, 0 \in T, \A n \in 1..N : n - 1 \in T => n \in T
    PROVE  0..N \subseteq T
  <1> DEFINE U == {n \in Nat : n <= N => n \in T}
  <1>1. 0 \in U
    OBVIOUS
  <1>2. ASSUME NEW n \in Nat, n \in U PROVE n + 1 \in U
    <2>1. n + 1 <= N => n + 1 \in 1..N /\ (n + 1) - 1 = n /\ n <= N
      OBVIOUS
    <2> QED BY <1>2, <2>1
  <1> HIDE DEF U
  <1>3. Nat \subseteq U
    BY <1>1, <1>2, UpTo
  <1> QED BY <1>3 DEF U

LeavesBy(f, p, docs) ==
    f = [g \in 0..Len(p.passes) |-> IF g = 0 THEN docs ELSE Survivors(p, g, f[g - 1])]

LEMMA LeftAfterIs ==
    ASSUME NEW p \in Plans
    PROVE  /\ LeftAfter(p, Start(p), 0) = Start(p)
           /\ \A n \in 1..Len(p.passes) :
                 LeftAfter(p, Start(p), n) = Survivors(p, n, LeftAfter(p, Start(p), n - 1))
           /\ \A n \in 0..Len(p.passes) : \E D \in SUBSET DOMAIN p.lengths :
                 LeftAfter(p, Start(p), n) = Ascending(D)
  <1> DEFINE N == Len(p.passes)
             Docs == DOMAIN p.lengths
             V == {Ascending(D) : D \in SUBSET Docs}
             base == Start(p)
             step == [e \in V \X (1..N) |-> Survivors(p, e[2], e[1])]
             left == CHOOSE f : LeavesBy(f, p, base)
  <1>1. N \in Nat /\ Docs = 1..Len(p.lengths) /\ Len(p.lengths) \in Nat
    BY PlanSays
  <1>2. base \in V
    <2>1. base = Ascending(Docs)
      BY <1>1, AscendingAll DEF Start
    <2> QED BY <2>1
  <1>3. ASSUME NEW v \in V, NEW g PROVE Survivors(p, g, v) \in V
    <2>1. PICK D \in SUBSET Docs : v = Ascending(D)
      OBVIOUS
    <2>2. Survivors(p, g, v) = Ascending(Lasting(p, g, D)) /\ Lasting(p, g, D) \in SUBSET Docs
      BY <1>1, <2>1, SurvivorsAre, LastingSome
    <2> QED BY <2>2
  <1> HIDE DEF V, base
  <1>4. step \in [V \X (1..N) -> V]
    BY <1>3
  <1>5. PICK f \in [0..N -> V] : Repeats(f, N, base, step)
    <2> HIDE DEF step, N
    <2> QED BY <1>1, <1>2, <1>4, RepeatsExists
  <1>6. LeavesBy(f, p, base)
    <2>1. f = [n \in 0..N |-> IF n = 0 THEN base ELSE step[<<f[n - 1], n>>]]
      BY <1>5 DEF Repeats
    <2>2. ASSUME NEW n \in 0..N, n # 0 PROVE step[<<f[n - 1], n>>] = Survivors(p, n, f[n - 1])
      <3>1. n - 1 \in 0..N /\ n \in 1..N
        BY <1>1, <2>2
      <3>2. f[n - 1] \in V
        BY <1>5, <3>1
      <3> QED BY <3>1, <3>2
    <2> HIDE DEF step
    <2>3. \A n \in 0..N : f[n] = IF n = 0 THEN base ELSE Survivors(p, n, f[n - 1])
      BY <2>1, <2>2
    <2>4. f = [n \in 0..N |-> f[n]]
      BY <2>1
    <2>5. f = [n \in 0..N |-> IF n = 0 THEN base ELSE Survivors(p, n, f[n - 1])]
      BY <2>3, <2>4
    <2> QED BY <2>5 DEF LeavesBy
  <1>7. LeavesBy(left, p, base)
    BY <1>6
  <1>8. ASSUME NEW n PROVE LeftAfter(p, base, n) = left[n]
    BY DEF LeftAfter, LeavesBy
  <1> HIDE DEF left
  <1>9. \A n \in 0..N : left[n] = IF n = 0 THEN base ELSE Survivors(p, n, left[n - 1])
    BY <1>7 DEF LeavesBy
  <1>10. \A n \in 0..N : left[n] \in V
    <2> DEFINE T == {n \in 0..N : left[n] \in V}
    <2>1. 0 \in T
      BY <1>1, <1>2, <1>9
    <2>2. ASSUME NEW n \in 1..N, n - 1 \in T PROVE n \in T
      BY <1>1, <1>3, <1>9, <2>2
    <2> HIDE DEF T
    <2>3. 0..N \subseteq T
      BY <1>1, <2>1, <2>2, UpToBound
    <2> QED BY <2>3 DEF T
  <1>11. \A n \in 1..N : n \in 0..N /\ n # 0
    BY <1>1
  <1>12. LeftAfter(p, base, 0) = base
    <2>1. 0 \in 0..N
      BY <1>1
    <2> QED BY <1>8, <1>9, <2>1
  <1>13. ASSUME NEW n \in 1..N PROVE LeftAfter(p, base, n) = Survivors(p, n, LeftAfter(p, base, n - 1))
    <2>1. left[n] = Survivors(p, n, left[n - 1])
      BY <1>9, <1>11
    <2> QED BY <1>8, <2>1
  <1>14. ASSUME NEW n \in 0..N PROVE \E D \in SUBSET Docs : LeftAfter(p, base, n) = Ascending(D)
    <2>1. LeftAfter(p, base, n) \in V
      BY <1>8, <1>10
    <2> QED BY <2>1 DEF V
  <1> QED BY <1>12, <1>13, <1>14 DEF base

(* A child whose documents include every other of their stop keys has the  *)
(* survivors among them that one GPU has.                                  *)
Kindred(p, E, D) ==
    p.keys # <<>> => \A d \in E : \A e \in D : p.keys[e] = p.keys[d] => e \in E

LEMMA LastingShard ==
    ASSUME NEW n \in Nat, NEW D \in SUBSET (1..n), NEW E \in SUBSET D, NEW p, NEW g, Kindred(p, E, D)
    PROVE  Lasting(p, g, E) = Lasting(p, g, D) \cap E
  <1>1. ToSet(Ascending(D)) = D /\ ToSet(Ascending(E)) = E
    BY AscendingList
  <1>2. ASSUME NEW d \in E
        PROVE  Survives(p, g, Ascending(E), d) <=> Survives(p, g, Ascending(D), d)
    <2>1. \A e \in D \cap p.passes[g] : p.keys # <<>> /\ p.keys[e] = p.keys[d] => e \in E \cap p.passes[g]
      BY DEF Kindred
    <2> QED BY <1>1, <2>1 DEF Survives
  <1> QED BY <1>2 DEF Lasting

-----------------------------------------------------------------------------
(* Where documents go.  The least loaded child, the first of several.      *)
LEMMA LightestIs ==
    ASSUME NEW gpus \in Nat, gpus > 0, NEW load \in [1..gpus -> Nat]
    PROVE  Lightest(load) \in 1..gpus
  <1> DEFINE loads == {load[w] : w \in 1..gpus}
  <1>1. 1 \in 1..gpus /\ 1..gpus \subseteq Nat
    OBVIOUS
  <1>2. loads \subseteq Nat /\ loads # {}
    BY <1>1
  <1>3. PICK least \in loads : \A l \in loads : least <= l
    BY <1>2, LeastOf
  <1> DEFINE light == {w \in 1..gpus : load[w] = least}
  <1>4. light \subseteq Nat /\ light # {}
    BY <1>1
  <1>5. PICK w \in light : \A v \in light : w <= v
    BY <1>4, LeastOf
  <1>6. ASSUME NEW v \in 1..gpus PROVE load[w] <= load[v] /\ (v < w => load[w] # load[v])
    <2>1. load[w] = least /\ load[v] \in loads
      BY <1>5
    <2>2. v < w => v \notin light
      BY <1>1, <1>4, <1>5
    <2>3. v < w => load[v] # least
      BY <2>2
    <2> QED BY <1>3, <2>1, <2>3
  <1>7. w \in 1..gpus /\ DOMAIN load = 1..gpus
    BY <1>5
  <1> QED BY <1>6, <1>7 DEF Lightest

(* balanced_shards gives every item a child.                               *)
Longest(size, x, y) == size[x] > size[y] \/ (size[x] = size[y] /\ x < y)
LoadsBy(f, items, size, gpus, order) ==
    f = [n \in 0..Cardinality(items) |->
            IF n = 0 THEN [w \in 1..gpus |-> 0]
            ELSE [f[n - 1] EXCEPT ![Lightest(f[n - 1])] = @ + size[order[n]]]]

LEMMA BalancedIs ==
    ASSUME NEW items, items \subseteq Int, IsFiniteSet(items),
           NEW size, \A x \in items : size[x] \in Nat, NEW gpus \in Nat, gpus > 0
    PROVE  Balanced(items, size, gpus) \in [items -> 1..gpus]
  <1> DEFINE R == {e \in items \X items : Longest(size, e[1], e[2])}
             Longer(x, y) == Longest(size, x, y)
             order == Ranked(items, Longer)
             c == Cardinality(items)
             V == [1..gpus -> Nat]
             base == [w \in 1..gpus |-> 0]
             Add(v, x) == [v EXCEPT ![Lightest(v)] = @ + size[x]]
             step == [e \in V \X (1..c) |-> Add(e[1], order[e[2]])]
             load == CHOOSE f : LoadsBy(f, items, size, gpus, order)
  <1>1. c \in Nat
    BY FS_CardinalityType
  <1>2. \A x, y \in items : <<x, y>> \in R <=> Longest(size, x, y)
    OBVIOUS
  <1>3. Orders(R, items)
    <2>1. \A x \in items : size[x] \in Nat /\ x \in Int
      OBVIOUS
    <2>2. /\ \A x \in items : ~Longest(size, x, x)
          /\ \A x, y \in items : x = y \/ Longest(size, x, y) \/ Longest(size, y, x)
      BY <2>1 DEF Longest
    <2>3. \A x, y, z \in items : Longest(size, x, y) /\ Longest(size, y, z) => Longest(size, x, z)
      <3> SUFFICES ASSUME NEW x \in items, NEW y \in items, NEW z \in items,
                          Longest(size, x, y), Longest(size, y, z)
                   PROVE  Longest(size, x, z)
        OBVIOUS
      <3>1. /\ size[x] \in Nat /\ size[y] \in Nat /\ size[z] \in Nat
            /\ x \in Int /\ y \in Int /\ z \in Int
        BY <2>1
      <3> QED BY <3>1 DEF Longest
    <2> HIDE DEF R
    <2> QED BY <1>2, <2>2, <2>3 DEF Orders
  <1> HIDE DEF R
  <1>4. ASSUME NEW n \in 1..c PROVE order[n] \in items
    <2> DEFINE x == RankedBy(items, R)[n]
    <2>1. x \in items /\ Cardinality({y \in items : <<y, x>> \in R}) = n - 1
      BY <1>3, RankedByIs
    <2> HIDE DEF x
    <2>2. {y \in items : <<y, x>> \in R} = {y \in items : Longest(size, y, x)}
      BY <1>2, <2>1
    <2>3. Cardinality({y \in items : Longest(size, y, x)}) = n - 1
      BY <2>1, <2>2
    <2>4. order[n] = CHOOSE z \in items : Cardinality({y \in items : Longest(size, y, z)}) = n - 1
      BY DEF Ranked
    <2> QED BY <2>1, <2>3, <2>4
  <1> HIDE DEF order
  <1>5. base \in V
    OBVIOUS
  <1>6. ASSUME NEW v \in V, NEW x \in items PROVE Add(v, x) \in V
    <2>1. Lightest(v) \in 1..gpus
      BY LightestIs
    <2>2. v[Lightest(v)] + size[x] \in Nat
      BY <2>1
    <2> QED BY <2>1, <2>2
  <1> HIDE DEF Add, base, V
  <1>7. step \in [V \X (1..c) -> V]
    BY <1>4, <1>6
  <1>8. PICK f \in [0..c -> V] : Repeats(f, c, base, step)
    <2> HIDE DEF step, c
    <2> QED BY <1>1, <1>5, <1>7, RepeatsExists
  <1>9. LoadsBy(f, items, size, gpus, order)
    <2>1. f = [n \in 0..c |-> IF n = 0 THEN base ELSE step[<<f[n - 1], n>>]]
      BY <1>8 DEF Repeats
    <2>2. ASSUME NEW n \in 0..c, n # 0 PROVE step[<<f[n - 1], n>>] = Add(f[n - 1], order[n])
      <3>1. n - 1 \in 0..c /\ n \in 1..c
        BY <1>1, <2>2
      <3>2. f[n - 1] \in V
        BY <1>8, <3>1
      <3> QED BY <3>1, <3>2
    <2> HIDE DEF step
    <2>3. \A n \in 0..c : f[n] = IF n = 0 THEN base ELSE Add(f[n - 1], order[n])
      BY <2>1, <2>2
    <2>4. f = [n \in 0..c |-> f[n]]
      BY <2>1
    <2>5. f = [n \in 0..c |-> IF n = 0 THEN base ELSE Add(f[n - 1], order[n])]
      BY <2>3, <2>4
    <2> QED BY <2>5 DEF LoadsBy, Add, base
  <1>10. LoadsBy(load, items, size, gpus, order)
    BY <1>9
  <1>11. Balanced(items, size, gpus) =
            [x \in items |-> Lightest(load[Cardinality({y \in items : Longest(size, y, x)})])]
    BY DEF Balanced, LoadsBy, order, Longest
  <1> HIDE DEF load
  <1>12. \A n \in 0..c : load[n] = IF n = 0 THEN base ELSE Add(load[n - 1], order[n])
    BY <1>10 DEF LoadsBy, Add, base
  <1>13. \A n \in 0..c : load[n] \in V
    <2> DEFINE T == {n \in 0..c : load[n] \in V}
    <2>1. 0 \in T
      BY <1>1, <1>5, <1>12
    <2>2. ASSUME NEW n \in 1..c, n - 1 \in T PROVE n \in T
      <3>1. n \in 0..c /\ n # 0
        BY <1>1
      <3> QED BY <1>4, <1>6, <1>12, <2>2, <3>1
    <2> HIDE DEF T
    <2>3. 0..c \subseteq T
      BY <1>1, <2>1, <2>2, UpToBound
    <2> QED BY <2>3 DEF T
  <1>14. ASSUME NEW x \in items
         PROVE  Lightest(load[Cardinality({y \in items : Longest(size, y, x)})]) \in 1..gpus
    <2> DEFINE before == {y \in items : Longest(size, y, x)}
    <2>1. before \in SUBSET items
      OBVIOUS
    <2>2. Cardinality(before) \in Nat /\ Cardinality(before) <= c
      BY <2>1, FS_Subset, FS_CardinalityType
    <2>3. load[Cardinality(before)] \in V
      BY <1>1, <1>13, <2>2
    <2> HIDE DEF before
    <2>4. Lightest(load[Cardinality(before)]) \in 1..gpus
      BY <2>3, LightestIs DEF V
    <2> QED BY <2>4 DEF before
  <1> QED BY <1>11, <1>14

-----------------------------------------------------------------------------
(* Every document of a stop key's group has the same child.                *)
KeyHomes(p, at) ==
    p.keys # <<>> =>
        /\ \A d \in DOMAIN p.lengths : at[d] \in 1..p.gpus
        /\ \A d, e \in DOMAIN p.lengths : p.keys[d] = p.keys[e] => at[d] = at[e]

TokensBy(f, p, k) ==
    f = [n \in 0..Len(p.keys) |->
            IF n = 0 THEN 0
            ELSE IF p.keys[n] = k THEN f[n - 1] + p.lengths[n] ELSE f[n - 1]]

LEMMA GroupTokensIs ==
    ASSUME NEW p \in Plans, p.keys # <<>>, NEW k PROVE GroupTokens(p, k) \in Nat
  <1> DEFINE N == Len(p.keys)
             Add(v, n) == IF p.keys[n] = k THEN v + p.lengths[n] ELSE v
             step == [e \in Nat \X (1..N) |-> Add(e[1], e[2])]
             tokens == CHOOSE f : TokensBy(f, p, k)
  <1>1. /\ N \in Nat /\ N = Len(p.lengths) /\ DOMAIN p.lengths = 1..N
        /\ \A d \in 1..N : p.lengths[d] \in Nat
    BY PlanSays
  <1>2. ASSUME NEW v \in Nat, NEW n \in 1..N PROVE Add(v, n) \in Nat
    BY <1>1
  <1> HIDE DEF Add
  <1>3. step \in [Nat \X (1..N) -> Nat]
    BY <1>2
  <1>4. PICK f \in [0..N -> Nat] : Repeats(f, N, 0, step)
    <2> HIDE DEF step, N
    <2> QED BY <1>1, <1>3, RepeatsExists
  <1>5. TokensBy(f, p, k)
    <2>1. f = [n \in 0..N |-> IF n = 0 THEN 0 ELSE step[<<f[n - 1], n>>]]
      BY <1>4 DEF Repeats
    <2>2. ASSUME NEW n \in 0..N, n # 0 PROVE step[<<f[n - 1], n>>] = Add(f[n - 1], n)
      <3>1. n - 1 \in 0..N /\ n \in 1..N
        BY <1>1, <2>2
      <3>2. f[n - 1] \in Nat
        BY <1>4, <3>1
      <3> QED BY <3>1, <3>2
    <2> HIDE DEF step
    <2>3. \A n \in 0..N : f[n] = IF n = 0 THEN 0 ELSE Add(f[n - 1], n)
      BY <2>1, <2>2
    <2>4. f = [n \in 0..N |-> f[n]]
      BY <2>1
    <2>5. f = [n \in 0..N |-> IF n = 0 THEN 0 ELSE Add(f[n - 1], n)]
      BY <2>3, <2>4
    <2> QED BY <2>5 DEF TokensBy, Add
  <1>6. TokensBy(tokens, p, k)
    BY <1>5
  <1>7. GroupTokens(p, k) = tokens[N]
    BY DEF GroupTokens, TokensBy
  <1> HIDE DEF tokens
  <1>8. \A n \in 0..N : tokens[n] = IF n = 0 THEN 0 ELSE Add(tokens[n - 1], n)
    BY <1>6 DEF TokensBy, Add
  <1> DEFINE T == {n \in 0..N : tokens[n] \in Nat}
  <1>9. 0 \in T
    BY <1>1, <1>8
  <1>10. ASSUME NEW n \in 1..N, n - 1 \in T PROVE n \in T
    <2>1. n \in 0..N /\ n # 0
      BY <1>1
    <2> QED BY <1>2, <1>8, <1>10, <2>1
  <1> HIDE DEF T
  <1>11. 0..N \subseteq T
    BY <1>1, <1>9, <1>10, UpToBound
  <1>12. N \in T
    BY <1>1, <1>11
  <1> QED BY <1>7, <1>12 DEF T

LEMMA KeyedShardsIs ==
    ASSUME NEW p \in Plans, p.keys # <<>>
    PROVE  /\ KeyedShards(p) \in [DOMAIN p.lengths -> 1..p.gpus]
           /\ \A d, e \in DOMAIN p.lengths : p.keys[d] = p.keys[e] => KeyedShards(p)[d] = KeyedShards(p)[e]
  <1> DEFINE groups == ToSet(p.keys)
             tokens == [k \in groups |-> GroupTokens(p, k)]
             of == Balanced(groups, tokens, p.gpus)
  <1>1. /\ DOMAIN p.keys = DOMAIN p.lengths /\ p.keys \in Seq(Nat) /\ Len(p.keys) \in Nat
        /\ p.gpus \in Nat /\ p.gpus > 0
    BY PlanSays
  <1>2. DOMAIN p.keys = 1..Len(p.keys) /\ \A d \in DOMAIN p.keys : p.keys[d] \in groups /\ p.keys[d] \in Nat
    BY <1>1 DEF ToSet
  <1>3. groups \subseteq Int /\ IsFiniteSet(groups)
    <2>1. IsFiniteSet(1..Len(p.keys))
      BY <1>1, FS_Interval
    <2>2. groups = {p.keys[d] : d \in DOMAIN p.keys}
      BY DEF ToSet
    <2>3. p.keys \in Surjection(1..Len(p.keys), groups)
      <3>1. p.keys \in [1..Len(p.keys) -> groups]
        <4>1. p.keys = [d \in 1..Len(p.keys) |-> p.keys[d]]
          BY <1>1
        <4> HIDE DEF groups
        <4> QED BY <1>2, <4>1
      <3> QED BY <1>2, <2>2, <3>1 DEF Surjection
    <2>4. groups \subseteq Int
      BY <1>2, <2>2
    <2> HIDE DEF groups
    <2> QED BY <2>1, <2>3, <2>4, FS_Surjection
  <1>4. \A k \in groups : tokens[k] \in Nat
    BY GroupTokensIs
  <1> HIDE DEF groups, tokens
  <1>5. of \in [groups -> 1..p.gpus]
    BY <1>1, <1>3, <1>4, BalancedIs
  <1>6. KeyedShards(p) = [d \in DOMAIN p.keys |-> of[p.keys[d]]]
    BY DEF KeyedShards, groups, tokens
  <1> HIDE DEF of
  <1> QED BY <1>1, <1>2, <1>5, <1>6

LEMMA PlacedIs ==
    ASSUME NEW p \in Plans
    PROVE  Placed(p) \in [DOMAIN p.lengths -> 0..p.gpus] /\ KeyHomes(p, Placed(p))
  <1>1. p.gpus \in Nat
    BY PlanSays
  <1>2. CASE p.keys # <<>>
    <2>1. Placed(p) = KeyedShards(p)
      BY <1>2 DEF Placed
    <2>2. 1..p.gpus \subseteq 0..p.gpus
      BY <1>1
    <2>3. /\ KeyedShards(p) \in [DOMAIN p.lengths -> 1..p.gpus]
          /\ \A d, e \in DOMAIN p.lengths : p.keys[d] = p.keys[e] => KeyedShards(p)[d] = KeyedShards(p)[e]
      BY <1>2, KeyedShardsIs
    <2> QED BY <2>1, <2>2, <2>3 DEF KeyHomes
  <1>3. CASE p.keys = <<>>
    <2>1. Placed(p) = Contiguous(p.lengths, p.gpus)
      BY <1>3 DEF Placed
    <2>2. PICK stops : Contiguous(p.lengths, p.gpus) =
                 [d \in DOMAIN p.lengths |-> FirstIn({w \in 1..p.gpus : d <= stops[w]}, 0)]
      BY DEF Contiguous
    <2>3. ASSUME NEW W \in SUBSET (1..p.gpus) PROVE FirstIn(W, 0) \in 0..p.gpus
      <3>1. CASE W = {}
        BY <1>1, <3>1 DEF FirstIn
      <3>2. CASE W # {}
        <4>1. W \subseteq Nat /\ W \subseteq 0..p.gpus
          BY <1>1
        <4>2. \E w \in W : \A v \in W : w <= v
          BY <3>2, <4>1, LeastOf
        <4> QED BY <3>2, <4>1, <4>2 DEF FirstIn
      <3> QED BY <3>1, <3>2
    <2>4. ASSUME NEW d \in DOMAIN p.lengths
          PROVE  FirstIn({w \in 1..p.gpus : d <= stops[w]}, 0) \in 0..p.gpus
      <3>1. {w \in 1..p.gpus : d <= stops[w]} \in SUBSET (1..p.gpus)
        OBVIOUS
      <3> QED BY <2>3, <3>1
    <2> QED BY <1>3, <2>1, <2>2, <2>4 DEF KeyHomes
  <1> QED BY <1>2, <1>3

(* The unplaced documents of a group are placed, and the others stay.      *)
LEMMA PlaceIs ==
    ASSUME plan \in Plans, NEW at \in [Documents -> 0..plan.gpus], KeyHomes(plan, at),
           NEW D \in SUBSET Documents, ids = Ascending(D)
    PROVE  /\ Place(at) \in [Documents -> 0..plan.gpus] /\ KeyHomes(plan, Place(at))
           /\ \A d \in D : Place(at)[d] \in 1..plan.gpus
  <1> DEFINE missing == {d \in ToSet(ids) : at[d] = 0}
             fresh == Balanced(missing, plan.lengths, plan.gpus)
  <1>1. /\ Documents = 1..Len(plan.lengths) /\ Len(plan.lengths) \in Nat
        /\ plan.gpus \in Nat /\ plan.gpus > 0 /\ \A d \in Documents : plan.lengths[d] \in Nat
    BY PlanSays DEF Documents
  <1>2. ToSet(ids) = D
    BY <1>1, AscendingList
  <1>3. missing \in SUBSET (1..Len(plan.lengths))
    BY <1>1, <1>2
  <1>4. missing \subseteq Int /\ IsFiniteSet(missing)
    <2> HIDE DEF missing
    <2> QED BY <1>1, <1>3, DocumentsFinite
  <1>5. fresh \in [missing -> 1..plan.gpus]
    <2>1. \A d \in missing : plan.lengths[d] \in Nat
      BY <1>1, <1>3
    <2> HIDE DEF missing
    <2> QED BY <1>1, <1>4, <2>1, BalancedIs
  <1>6. Place(at) = [d \in Documents |-> IF d \in missing THEN fresh[d] ELSE at[d]]
    BY DEF Place
  <1>7. \A d \in D : d \notin missing => at[d] \in 1..plan.gpus
    BY <1>1, <1>2
  <1>8. 1..plan.gpus \subseteq 0..plan.gpus
    BY <1>1
  <1>9. plan.keys # <<>> => missing = {}
    BY <1>1, <1>2 DEF KeyHomes, Documents
  <1> HIDE DEF missing, fresh
  <1>10. \A d \in Documents : Place(at)[d] = IF d \in missing THEN fresh[d] ELSE at[d]
    BY <1>6
  <1>11. KeyHomes(plan, Place(at))
    BY <1>9, <1>10 DEF KeyHomes, Documents
  <1>12. Place(at) \in [Documents -> 0..plan.gpus]
    BY <1>5, <1>6, <1>8
  <1>13. \A d \in D : Place(at)[d] \in 1..plan.gpus
    BY <1>5, <1>7, <1>10
  <1> QED BY <1>11, <1>12, <1>13

-----------------------------------------------------------------------------
(* Disjoint ascending replies are merged into one ascending list.          *)
Pieces(s, n, N) ==
    /\ DOMAIN replied = 1..n /\ s \in [1..n -> SUBSET (1..N)]
    /\ \A i \in 1..n : replied[i].docs = Ascending(s[i])
    /\ \A i, j \in 1..n : i # j => s[i] \cap s[j] = {}

Whole(s, n) == UNION {s[i] : i \in 1..n}

LEMMA MergedIs ==
    ASSUME NEW n \in Nat, NEW N \in Nat, NEW s, Pieces(s, n, N)
    PROVE  Merged = Ascending(Whole(s, n))
  <1> DEFINE found == Found(n)
             R == {e \in found \X found : DocAt(e[1]) < DocAt(e[2])}
             order == Ranked(found, BeforeAt)
             c == Cardinality(found)
  <1>0. /\ DOMAIN replied = 1..n /\ s \in [1..n -> SUBSET (1..N)]
        /\ \A i \in 1..n : replied[i].docs = Ascending(s[i])
        /\ \A i, j \in 1..n : i # j => s[i] \cap s[j] = {}
    BY DEF Pieces
  <1> USE <1>0
  <1>1. ASSUME NEW i \in 1..n
        PROVE  /\ Listed(replied[i].docs) /\ DOMAIN replied[i].docs \subseteq Nat
               /\ \A k \in DOMAIN replied[i].docs : replied[i].docs[k] \in s[i]
               /\ \A x \in s[i] : \E k \in DOMAIN replied[i].docs : replied[i].docs[k] = x
               /\ \A k, m \in DOMAIN replied[i].docs : k < m => replied[i].docs[k] < replied[i].docs[m]
    <2> DEFINE a == Ascending(s[i])
               d == Cardinality(s[i])
    <2>1. s[i] \subseteq Int /\ IsFiniteSet(s[i]) /\ Listed(a) /\ replied[i].docs = a
      BY DocumentsFinite, AscendingList
    <2>2. /\ d \in Nat /\ a \in [1..d -> s[i]]
          /\ \A x \in s[i] : \E k \in 1..d : a[k] = x
          /\ \A k, m \in 1..d : k < m => a[k] < a[m]
      BY <2>1, AscendingIs
    <2> HIDE DEF a, d
    <2>3. DOMAIN a = 1..d /\ 1..d \subseteq Nat /\ \A k \in 1..d : a[k] \in s[i]
      BY <2>2
    <2> QED BY <2>1, <2>2, <2>3
  <1>2. IsFiniteSet(found) /\ c \in Nat
    BY <1>1, FoundFinite
  <1>3. ASSUME NEW e \in found
        PROVE  /\ e = <<e[1], e[2]>> /\ e[1] \in 1..n /\ e[2] \in DOMAIN replied[e[1]].docs
               /\ DocAt(e) \in s[e[1]] /\ DocAt(e) \in Int
    <2>1. PICK i \in 1..n : e \in {i} \X DOMAIN replied[i].docs
      BY DEF Found
    <2>2. e = <<e[1], e[2]>> /\ e[1] = i /\ e[2] \in DOMAIN replied[i].docs
      BY <2>1
    <2>3. DocAt(e) \in s[i] /\ s[i] \subseteq 1..N
      BY <1>1, <2>2 DEF DocAt
    <2> QED BY <2>2, <2>3
  <1>4. ASSUME NEW e \in found, NEW f \in found, DocAt(e) = DocAt(f) PROVE e = f
    <2>1. e[1] = f[1]
      BY <1>3, <1>4
    <2> DEFINE docs == replied[e[1]].docs
    <2>2. e[1] \in 1..n /\ e[2] \in DOMAIN docs /\ f[2] \in DOMAIN docs /\ docs[e[2]] = docs[f[2]]
      BY <1>3, <1>4, <2>1 DEF DocAt
    <2>3. /\ e[2] \in Nat /\ f[2] \in Nat /\ docs[e[2]] \in Int
          /\ e[2] < f[2] => docs[e[2]] < docs[f[2]]
          /\ f[2] < e[2] => docs[f[2]] < docs[e[2]]
      <3>1. DocAt(e) \in Int /\ DocAt(e) = docs[e[2]]
        BY <1>3 DEF DocAt
      <3> QED BY <1>1, <2>2, <3>1
    <2> HIDE DEF docs
    <2>4. e[2] = f[2]
      BY <2>2, <2>3
    <2>5. e = <<e[1], e[2]>> /\ f = <<f[1], f[2]>>
      BY <1>3
    <2> QED BY <2>1, <2>4, <2>5
  <1>5. \A x, y \in found : <<x, y>> \in R <=> DocAt(x) < DocAt(y)
    OBVIOUS
  <1>6. \A x, y \in found : BeforeAt(x, y) <=> DocAt(x) < DocAt(y)
    <2> SUFFICES ASSUME NEW x \in found, NEW y \in found, DocAt(x) = DocAt(y) PROVE ~EarlierAt(x, y)
      BY DEF BeforeAt
    <2>1. x = y /\ x[1] \in Nat /\ x[2] \in Nat
      BY <1>1, <1>3, <1>4
    <2> QED BY <2>1 DEF EarlierAt
  <1> HIDE DEF found, R
  <1>7. Orders(R, found)
    <2>1. \A x \in found : DocAt(x) \in Int
      BY <1>3
    <2>2. \A x, y \in found : x = y \/ DocAt(x) < DocAt(y) \/ DocAt(y) < DocAt(x)
      BY <1>4, <2>1
    <2>3. \A x, y, z \in found : DocAt(x) < DocAt(y) /\ DocAt(y) < DocAt(z) => DocAt(x) < DocAt(z)
      BY <2>1
    <2>4. \A x \in found : ~(DocAt(x) < DocAt(x))
      BY <2>1
    <2> QED BY <1>5, <2>2, <2>3, <2>4 DEF Orders
  <1> DEFINE r == RankedBy(found, R)
  <1>8. /\ r \in [1..c -> found]
        /\ \A x \in found : \E k \in 1..c : r[k] = x
        /\ \A k, m \in 1..c : k < m => <<r[k], r[m]>> \in R
        /\ \A k \in 1..c : \A x \in found : Cardinality({y \in found : <<y, x>> \in R}) = k - 1 <=> x = r[k]
    BY <1>2, <1>7, RankedByIs
  <1> HIDE DEF r
  <1>9. DOMAIN order = 1..c
    BY DEF Ranked
  <1>10. ASSUME NEW k \in 1..c PROVE order[k] = r[k]
    <2>1. \A x \in found : {y \in found : <<y, x>> \in R} = {y \in found : BeforeAt(y, x)}
      BY <1>5, <1>6
    <2>2. \A x \in found : Cardinality({y \in found : BeforeAt(y, x)}) = k - 1 <=> x = r[k]
      BY <1>8, <2>1
    <2>3. r[k] \in found
      BY <1>8
    <2>4. order[k] = CHOOSE x \in found : Cardinality({y \in found : BeforeAt(y, x)}) = k - 1
      BY DEF Ranked
    <2>5. order[k] \in found /\ Cardinality({y \in found : BeforeAt(y, order[k])}) = k - 1
      BY <2>2, <2>3, <2>4
    <2> HIDE DEF order
    <2> QED BY <2>2, <2>5
  <1>11. Merged = [k \in DOMAIN order |-> DocAt(order[k])]
    <2> DEFINE all == UNION {{i} \X DOMAIN replied[i].docs : i \in DOMAIN replied}
               ranked == Ranked(all, BeforeAt)
    <2>1. all = found
      BY DEF found, Found
    <2>2. Merged = [k \in DOMAIN ranked |-> DocAt(ranked[k])]
      BY DEF Merged, DocAt, BeforeAt, EarlierAt
    <2>3. ranked = order
      <3> HIDE DEF all
      <3> QED BY <2>1
    <2> HIDE DEF ranked, order
    <2> QED BY <2>2, <2>3
  <1> HIDE DEF order
  <1>12. Merged = [k \in 1..c |-> DocAt(r[k])]
    BY <1>9, <1>10, <1>11
  <1>13. Increasing(Merged, c)
    <2>1. \A k \in 1..c : Merged[k] = DocAt(r[k]) /\ r[k] \in found
      BY <1>8, <1>12
    <2>2. ASSUME NEW k \in 1..c, NEW m \in 1..c, k < m PROVE Merged[k] < Merged[m]
      <3>1. <<r[k], r[m]>> \in R /\ r[k] \in found /\ r[m] \in found
        BY <1>8, <2>1, <2>2
      <3>2. DocAt(r[k]) < DocAt(r[m])
        BY <1>5, <3>1
      <3> QED BY <2>1, <3>2
    <2>3. \A k \in 1..c : Merged[k] \in Int
      BY <1>3, <2>1
    <2>4. DOMAIN Merged = 1..c /\ Merged = [k \in 1..c |-> Merged[k]]
      BY <1>12
    <2> QED BY <2>2, <2>3, <2>4 DEF Increasing
  <1>14. Within(Merged, c) = Whole(s, n)
    <2>1. ASSUME NEW k \in 1..c PROVE Merged[k] \in Whole(s, n)
      <3>1. Merged[k] = DocAt(r[k]) /\ r[k] \in found
        BY <1>8, <1>12
      <3> QED BY <1>3, <3>1 DEF Whole
    <2>2. ASSUME NEW i \in 1..n, NEW x \in s[i] PROVE \E k \in 1..c : Merged[k] = x
      <3>1. PICK m \in DOMAIN replied[i].docs : replied[i].docs[m] = x
        BY <1>1
      <3>2. <<i, m>> \in found /\ DocAt(<<i, m>>) = x
        BY <3>1 DEF found, Found, DocAt
      <3>3. PICK k \in 1..c : r[k] = <<i, m>>
        BY <1>8, <3>2
      <3> QED BY <1>12, <3>2, <3>3
    <2> QED BY <2>1, <2>2 DEF Within, Whole
  <1>15. Merged = Ascending(Within(Merged, c))
    BY <1>2, <1>13, IncreasingIs
  <1> QED BY <1>14, <1>15

-----------------------------------------------------------------------------
(* Answers.  Before the rounds nothing is left out; in a round ids is what *)
(* one GPU would have after the groups done; each child's message is its   *)
(* shard, and its reply is what a run returns of it.                       *)
Done == IF round = 0 THEN 0 ELSE round - 1
Limit == IF round = Len(plan.passes) THEN plan.limit ELSE 0
Part(i, r) ==
    round > 0 /\ r.status = "ok" => r.docs \in Returned(plan, Limit, round, Shard(owners, i))

Owned == pc # "idle" => owners \in [Documents -> 0..plan.gpus] /\ KeyHomes(plan, owners)
Untouched == pc \in {"prepare", "tokens", "execute"} => ids = Start(plan)
InStep == InRound => round <= Len(plan.passes) /\ ids = LeftAfter(plan, Start(plan), Done)
Dealt ==
    pc = "receive" =>
        /\ round > 0 => \A d \in ToSet(ids) : owners[d] \in 1..plan.gpus
        /\ \A i \in DOMAIN workers :
              /\ todo[i] # <<>> => Head(todo[i]) = Message(i, owners)
              /\ replies[i] # <<>> => Part(i, Head(replies[i]))
              /\ i <= Len(replied) => Part(i, replied[i])
AnswerInv == Owned /\ Untouched /\ InStep /\ Dealt /\ AnswersAsOneGpu

LEMMA AnswerInit == Init => AnswerInv
  <1> SUFFICES ASSUME Init PROVE AnswerInv
    OBVIOUS
  <1>1. pc = "idle" /\ count = 0
    BY DEF Init
  <1> QED BY <1>1 DEF AnswerInv, Owned, Untouched, InStep, InRound, Dealt, AnswersAsOneGpu

(* A query that ends badly answers nothing.                                *)
LEMMA EndsFailed ==
    ASSUME Counted, pc # "idle", Ends("failed"), count' = count PROVE AnswerInv'
  <1>1. pc' = "idle" /\ outcomes' = [outcomes EXCEPT ![count] = "failed"] /\ count \in DOMAIN outcomes
    BY DEF Ends, Counted
  <1>2. outcomes'[count'] # "ok"
    BY <1>1
  <1> QED BY <1>1, <1>2 DEF AnswerInv, Owned, Untouched, InStep, InRound, Dealt, AnswersAsOneGpu

(* What a run returns of an ascending list.                                *)
Enough(s, all, limit) == s = all \/ (limit > 0 /\ Cardinality(s) >= limit)

LEMMA ReturnedIs ==
    ASSUME NEW n \in Nat, NEW D \in SUBSET (1..n), NEW p, NEW g, NEW limit,
           NEW docs \in Returned(p, limit, g, Ascending(D))
    PROVE  \E s \in SUBSET Lasting(p, g, D) : docs = Ascending(s) /\ Enough(s, Lasting(p, g, D), limit)
  <1> DEFINE V == Lasting(p, g, D)
             all == Survivors(p, g, Ascending(D))
  <1>1. V \in SUBSET (1..n)
    BY LastingSome
  <1>2. all = Ascending(V)
    BY SurvivorsAre
  <1>3. ToSet(all) = V
    BY <1>1, <1>2, AscendingList
  <1>4. \E s \in SUBSET ToSet(all) : docs = Sifted(all, s) /\ Enough(s, ToSet(all), limit)
    BY DEF Returned, Enough
  <1> HIDE DEF V, all
  <1>5. PICK s \in SUBSET V : docs = Sifted(all, s) /\ Enough(s, V, limit)
    BY <1>3, <1>4
  <1>6. Sifted(all, s) = Ascending(V \cap s) /\ V \cap s = s
    BY <1>1, <1>2, <1>5, SiftedAscending
  <1> QED BY <1>5, <1>6 DEF V

(* A query ends well with enough of the last group's survivors.            *)
LEMMA EndsWell ==
    ASSUME plan \in Plans, plan' = plan, NEW D \in SUBSET Documents,
           LeftAfter(plan, Start(plan), Len(plan.passes) - 1) = Ascending(D),
           NEW s \in SUBSET Lasting(plan, Len(plan.passes), D),
           Enough(s, Lasting(plan, Len(plan.passes), D), plan.limit), ids' = Ascending(s)
    PROVE  AnswersAsOneGpu'
  <1> DEFINE L == Len(plan.passes)
             V == Lasting(plan, L, D)
             kept == Sifted(Ascending(V), s)
  <1>1. L \in 1..L /\ L \in Nat /\ Documents = 1..Len(plan.lengths) /\ Len(plan.lengths) \in Nat
    BY PlanSays DEF Documents
  <1>2. V \in SUBSET (1..Len(plan.lengths)) /\ s \in SUBSET (1..Len(plan.lengths))
    BY <1>1, LastingSome
  <1>3. OneGpu = Survivors(plan, L, Ascending(D))
    <2>1. OneGpu = LeftAfter(plan, Start(plan), L)
      BY DEF OneGpu, Start, Documents
    <2> QED BY <1>1, <2>1, LeftAfterIs
  <1>4. OneGpu = Ascending(V)
    BY <1>1, <1>3, SurvivorsAre
  <1>5. OneGpu' = OneGpu
    BY DEF OneGpu, Documents
  <1>6. ToSet(ids') = s /\ Len(Ascending(s)) = Cardinality(s)
    <2>1. ToSet(Ascending(s)) = s /\ Len(Ascending(s)) = Cardinality(s)
      BY <1>1, <1>2, AscendingList
    <2> QED BY <2>1
  <1>7. kept = Ascending(V \cap s) /\ V \cap s = s
    BY <1>1, <1>2, SiftedAscending
  <1>8. Sifted(OneGpu, ToSet(ids))' = kept
    BY <1>4, <1>5, <1>6
  <1>9. /\ ids' = kept
        /\ kept = OneGpu' \/ (plan'.limit > 0 /\ Len(kept) >= plan'.limit)
    <2>1. s = V \/ (plan.limit > 0 /\ Cardinality(s) >= plan.limit)
      BY DEF Enough
    <2> HIDE DEF kept, V
    <2> QED BY <1>4, <1>5, <1>6, <1>7, <2>1
  <1> HIDE DEF kept
  <1> QED BY <1>8, <1>9 DEF AnswersAsOneGpu

-----------------------------------------------------------------------------
LEMMA SubmitAnswers ==
    ASSUME NEW p \in Plans, Submit(p) PROVE AnswerInv'
  <1>1. pc' = "prepare" /\ plan' = p /\ owners' = Placed(p) /\ ids' = [d \in DOMAIN p.lengths |-> d]
    BY DEF Submit
  <1>2. Documents' = DOMAIN p.lengths /\ ids' = Start(p)
    BY <1>1 DEF Documents, Start
  <1>3. Owned'
    BY <1>1, <1>2, PlacedIs DEF Owned
  <1> QED BY <1>1, <1>2, <1>3 DEF AnswerInv, Untouched, InStep, InRound, Dealt, AnswersAsOneGpu

LEMMA PrepareAnswers ==
    ASSUME Counted, AnswerInv, Prepare PROVE AnswerInv'
  <1>1. pc = "prepare" /\ UNCHANGED <<plan, count, owners, ids>>
    BY DEF Prepare, rounds
  <1>2. CASE Ends("failed")
    BY <1>1, <1>2, EndsFailed
  <1>3. CASE pc' = "tokens"
    BY <1>1, <1>3 DEF AnswerInv, Owned, Documents, Untouched, InStep, InRound, Dealt, AnswersAsOneGpu
  <1> QED BY <1>2, <1>3 DEF Prepare, PrepareHere

LEMMA TokensAnswers ==
    ASSUME Counted, AnswerInv, Tokens PROVE AnswerInv'
  <1>1. pc = "tokens" /\ UNCHANGED <<plan, count, owners, ids>>
    BY DEF Tokens, rounds
  <1>2. CASE Ends("failed")
    BY <1>1, <1>2, EndsFailed
  <1>3. CASE pc' = "execute"
    BY <1>1, <1>3 DEF AnswerInv, Owned, Documents, Untouched, InStep, InRound, Dealt, AnswersAsOneGpu
  <1> QED BY <1>2, <1>3 DEF Tokens

LEMMA ExecuteHereAnswers ==
    ASSUME PipeInv, Counted, AnswerInv, ExecuteHere PROVE AnswerInv'
  <1> DEFINE L == Len(plan.passes)
  <1>1. pc = "execute" /\ UNCHANGED <<plan, settings, count>> /\ plan \in Plans
    BY DEF ExecuteHere, PipeInv, Shape
  <1>2. CASE Ends("failed")
    BY <1>1, <1>2, EndsFailed
  <1>3. CASE Ends("ok") /\ \E left \in Returned(plan, plan.limit, L, LeftAfter(plan, ids, L - 1)) : ids' = left
    <2>1. ids = Start(plan) /\ pc' = "idle"
      BY <1>1, <1>3 DEF AnswerInv, Untouched, Ends
    <2>2. L \in Nat /\ L - 1 \in 0..L /\ Documents = 1..Len(plan.lengths) /\ Len(plan.lengths) \in Nat
      BY <1>1, PlanSays DEF Documents
    <2>3. PICK D \in SUBSET Documents : LeftAfter(plan, Start(plan), L - 1) = Ascending(D)
      BY <1>1, <2>2, LeftAfterIs DEF Documents
    <2>4. ids' \in Returned(plan, plan.limit, L, Ascending(D))
      BY <1>3, <2>1, <2>3
    <2>5. PICK s \in SUBSET Lasting(plan, L, D) : ids' = Ascending(s) /\ Enough(s, Lasting(plan, L, D), plan.limit)
      BY <2>2, <2>4, ReturnedIs
    <2>6. AnswersAsOneGpu'
      BY <1>1, <2>3, <2>5, EndsWell
    <2> QED BY <2>1, <2>6 DEF AnswerInv, Owned, Untouched, InStep, InRound, Dealt
  <1> QED BY <1>2, <1>3 DEF ExecuteHere

LEMMA StartRoundsAnswers ==
    ASSUME PipeInv, AnswerInv, StartRounds PROVE AnswerInv'
  <1>1. /\ pc = "execute" /\ pc' = "send" /\ round' = 0 /\ UNCHANGED <<plan, settings, count, owners, ids>>
        /\ plan \in Plans
    BY DEF StartRounds, PipeInv, Shape
  <1>2. ids = LeftAfter(plan, Start(plan), 0) /\ 0 <= Len(plan.passes)
    BY <1>1, LeftAfterIs, PlanSays DEF AnswerInv, Untouched
  <1>3. InStep'
    BY <1>1, <1>2 DEF InStep, Done
  <1>4. Owned'
    BY <1>1 DEF AnswerInv, Owned, Documents
  <1> QED BY <1>1, <1>3, <1>4 DEF AnswerInv, Untouched, Dealt, AnswersAsOneGpu

(* The documents left, as a set.                                           *)
LEMMA LeftIs ==
    ASSUME PipeInv, AnswerInv, InRound
    PROVE  /\ round \in 0..Len(plan.passes) /\ Done \in 0..Len(plan.passes) /\ Len(plan.passes) \in Nat
           /\ plan \in Plans /\ Documents = 1..Len(plan.lengths) /\ Len(plan.lengths) \in Nat
           /\ \E D \in SUBSET Documents : ids = Ascending(D) /\ ToSet(ids) = D
  <1>1. plan \in Plans /\ round \in Nat
    BY DEF PipeInv, Shape
  <1>2. Documents = 1..Len(plan.lengths) /\ Len(plan.lengths) \in Nat /\ Len(plan.passes) \in Nat
    BY <1>1, PlanSays DEF Documents
  <1>3. round <= Len(plan.passes) /\ ids = LeftAfter(plan, Start(plan), Done)
    BY DEF AnswerInv, InStep
  <1>4. round \in 0..Len(plan.passes) /\ Done \in 0..Len(plan.passes)
    BY <1>1, <1>2, <1>3 DEF Done
  <1>5. PICK D \in SUBSET Documents : ids = Ascending(D)
    BY <1>1, <1>3, <1>4, LeftAfterIs DEF Documents
  <1>6. ToSet(Ascending(D)) = D
    BY <1>2, AscendingList
  <1> QED BY <1>1, <1>2, <1>4, <1>5, <1>6

LEMMA SendAnswers ==
    ASSUME PipeInv, Counted, AnswerInv, Send PROVE AnswerInv'
  <1> DEFINE at == IF round = 0 THEN owners ELSE Place(owners)
             gone == {i \in DOMAIN workers : ~workers[i].up}
             sent == {i \in DOMAIN workers : \A j \in gone : i < j}
  <1>1. /\ pc = "send" /\ replied' = <<>> /\ owners' = at
        /\ UNCHANGED <<plan, settings, count, workers, replies, round, ids>>
        /\ todo' = [i \in DOMAIN todo |->
                         IF i \in sent THEN Append(todo[i], Message(i, at)) ELSE todo[i]]
        /\ IF gone = {} THEN pc' = "receive" ELSE Ends("failed")
    BY DEF Send
  <1>2. CASE Ends("failed")
    BY <1>1, <1>2, EndsFailed
  <1>3. CASE pc' = "receive"
    <2>1. plan \in Plans /\ owners \in [Documents -> 0..plan.gpus] /\ KeyHomes(plan, owners)
      BY <1>1 DEF PipeInv, Shape, AnswerInv, Owned
    <2>2. PICK D \in SUBSET Documents : ids = Ascending(D) /\ ToSet(ids) = D
      BY <1>1, LeftIs DEF InRound
    <2>3. /\ at \in [Documents -> 0..plan.gpus] /\ KeyHomes(plan, at)
          /\ round # 0 => \A d \in ToSet(ids) : at[d] \in 1..plan.gpus
      BY <2>1, <2>2, PlaceIs
    <2>4. Owned'
      BY <1>1, <2>3 DEF Owned, Documents
    <2>5. InStep'
      BY <1>1 DEF AnswerInv, InStep, InRound, Done
    <2>6. DOMAIN workers = 1..plan.gpus /\ DOMAIN todo = DOMAIN workers /\ plan.gpus \in Nat /\ round \in Nat
      BY <1>1, PlanFacts DEF PipeInv, RoundShape, InRound, Shape
    <2>7. \A i \in DOMAIN workers : todo[i] = <<>> /\ replies[i] = <<>>
      BY <1>1 DEF PipeInv, Sending, Clear
    <2> HIDE DEF at, sent, gone
    <2>8. ASSUME NEW i \in DOMAIN workers
          PROVE  /\ todo'[i] # <<>> => Head(todo'[i]) = Message(i, owners)'
                 /\ replies'[i] = <<>> /\ ~(i <= Len(replied'))
      <3>1. todo'[i] = <<>> \/ todo'[i] = <<Message(i, at)>>
        BY <1>1, <2>6, <2>7, PutInEmpty
      <3>2. Message(i, owners)' = Message(i, at)
        BY <1>1 DEF Message, Shard, Documents
      <3>3. ~(i <= Len(replied'))
        BY <1>1, <2>6
      <3> QED BY <1>1, <2>7, <3>1, <3>2, <3>3, PutInEmpty
    <2>9. Dealt'
      <3>1. round > 0 => \A d \in ToSet(ids) : owners'[d] \in 1..plan.gpus
        BY <1>1, <2>3, <2>6
      <3> QED BY <1>1, <2>8, <3>1 DEF Dealt
    <2> QED BY <1>3, <2>4, <2>5, <2>9 DEF AnswerInv, Untouched, AnswersAsOneGpu
  <1> QED BY <1>1, <1>2, <1>3

(* What does not change the round does not change a reply's meaning.       *)
LEMMA PartSame ==
    ASSUME UNCHANGED <<plan, settings, count, round, owners, ids>>
    PROVE  /\ \A i, r : Part(i, r)' <=> Part(i, r)
           /\ \A i : Message(i, owners)' = Message(i, owners)
           /\ Done' = Done /\ Documents' = Documents
  BY DEF Part, Limit, Shard, Documents, Message, Done

LEMMA ChildAnswersPart ==
    ASSUME PipeInv, AnswerInv, NEW i \in DOMAIN workers, Child(i) PROVE AnswerInv'
  <1>1. /\ UNCHANGED <<pc, plan, settings, count, owners, round, replied, ids, outcomes>>
        /\ todo' = [todo EXCEPT ![i] = Tail(@)] /\ workers[i].up
    BY DEF Child, rounds
  <1>2. PICK m, v, r : todo[i] = <<m>> /\ Answering(i, m, v, r)
    BY ChildAnswers
  <1>3. Head(todo[i]) = m /\ todo[i] # <<>>
    BY <1>2, PutInEmpty
  <1>4. /\ DOMAIN workers' = DOMAIN workers
        /\ \A j \in DOMAIN workers : j # i => todo'[j] = todo[j] /\ replies'[j] = replies[j]
        /\ todo'[i] = <<>> /\ replies'[i] = Append(replies[i], r)
    BY <1>1, <1>2, PutInEmpty DEF Answering, PipeInv, Shape
  <1>5. Owned' /\ Untouched' /\ InStep' /\ AnswersAsOneGpu'
    BY <1>1, PartSame DEF AnswerInv, Owned, Untouched, InStep, InRound, AnswersAsOneGpu, OneGpu
  <1>6. Dealt'
    <2> SUFFICES ASSUME pc = "receive" PROVE Dealt'
      BY <1>1 DEF Dealt
    <2>1. ASSUME NEW j \in DOMAIN workers
          PROVE  /\ todo'[j] # <<>> => Head(todo'[j]) = Message(j, owners)
                 /\ replies'[j] # <<>> => Part(j, Head(replies'[j]))
                 /\ j <= Len(replied) => Part(j, replied[j])
      <3>0. /\ todo[j] # <<>> => Head(todo[j]) = Message(j, owners)
            /\ replies[j] # <<>> => Part(j, Head(replies[j]))
            /\ j <= Len(replied) => Part(j, replied[j])
        BY DEF AnswerInv, Dealt
      <3>1. CASE j # i
        BY <1>4, <3>0, <3>1
      <3>2. CASE j = i
        <4>1. ~WasRead(i) /\ ~Answered(i)
          BY <1>2, PutInEmpty DEF WasRead, Clear, Answered
        <4>2. ~(i <= Len(replied))
          BY <4>1 DEF PipeInv, Receiving
        <4>3. i \in 1..plan.gpus /\ plan.gpus \in Nat /\ Len(replied) \in Nat
          BY PlanFacts DEF PipeInv, RoundShape, InRound, Shape
        <4>4. Asked(i)
          BY <4>1, <4>2, <4>3 DEF PipeInv, Receiving
        <4>5. replies[i] = <<>>
          BY <4>4 DEF Asked
        <4>6. replies'[i] = <<r>> /\ Head(replies'[i]) = r
          BY <1>4, <4>5, PutInEmpty
        <4>7. m = Message(i, owners)
          BY <1>3, <3>0, <3>2
        <4>8. /\ m.group = round /\ m.plan = plan /\ m.limit = Limit
              /\ round > 0 => m.docs = Shard(owners, i)
          BY <4>7 DEF Message, Limit
        <4>9. Part(i, r)
          BY <1>2, <4>8 DEF Part, Answering
        <4> QED BY <1>4, <3>2, <4>2, <4>6, <4>9
      <3> QED BY <3>1, <3>2
    <2>2. round > 0 => \A d \in ToSet(ids) : owners[d] \in 1..plan.gpus
      BY DEF AnswerInv, Dealt
    <2> QED BY <1>1, <1>4, <2>1, <2>2, PartSame DEF Dealt
  <1> QED BY <1>5, <1>6 DEF AnswerInv

LEMMA DiesAnswers ==
    ASSUME AnswerInv, NEW i \in DOMAIN workers, Dies(i) PROVE AnswerInv'
  <1>1. /\ UNCHANGED <<pc, plan, settings, count, owners, round, replied, ids, outcomes, todo, replies>>
        /\ DOMAIN workers' = DOMAIN workers
    BY DEF Dies, rounds
  <1> QED BY <1>1, PartSame
        DEF AnswerInv, Owned, Untouched, InStep, InRound, Dealt, AnswersAsOneGpu, OneGpu

LEMMA ReceiveAnswers ==
    ASSUME PipeInv, Counted, AnswerInv, Receive PROVE AnswerInv'
  <1>1. /\ pc = "receive" /\ Len(replied) < plan.gpus
        /\ UNCHANGED <<plan, settings, count, workers, todo, round, owners, ids>>
    BY DEF Receive
  <1>2. CASE PipeEnded
    BY <1>1, <1>2, EndsFailed DEF PipeEnded
  <1>3. CASE TakeReply /\ UNCHANGED <<pc, outcomes>>
    <2>1. /\ replied' = Append(replied, Head(replies[From])) /\ replies[From] # <<>>
          /\ replies' = [replies EXCEPT ![From] = Tail(@)]
      BY <1>3 DEF TakeReply
    <2>2. PICK S : replied \in Seq(S)
      BY DEF PipeInv, Shape
    <2>3. DOMAIN workers = 1..plan.gpus /\ plan.gpus \in Nat /\ Len(replied) \in Nat
      BY <1>1, PlanFacts DEF PipeInv, RoundShape, InRound, Shape
    <2>4. From \in DOMAIN workers /\ From = Len(replied) + 1
      BY <1>1, <2>3 DEF From
    <2>5. Answered(From)
      BY <1>1, <2>1, <2>3, <2>4 DEF PipeInv, Receiving, Asked
    <2>6. PICK r : replies[From] = <<r>> /\ Head(replies[From]) = r
      BY <2>5, PutInEmpty DEF Answered
    <2>7. /\ Len(replied') = Len(replied) + 1 /\ \A j \in 1..Len(replied) : replied'[j] = replied[j]
          /\ replied'[Len(replied) + 1] = r
      BY <2>1, <2>2, <2>6, AppendKeeps
    <2>8. replies'[From] = <<>> /\ \A j \in DOMAIN workers : j # From => replies'[j] = replies[j]
      BY <2>1, <2>4, <2>6, PutInEmpty DEF PipeInv, Shape
    <2>9. ASSUME NEW j \in DOMAIN workers
          PROVE  /\ todo[j] # <<>> => Head(todo[j]) = Message(j, owners)
                 /\ replies'[j] # <<>> => Part(j, Head(replies'[j]))
                 /\ j <= Len(replied') => Part(j, replied'[j])
      <3>1. /\ todo[j] # <<>> => Head(todo[j]) = Message(j, owners)
            /\ replies[j] # <<>> => Part(j, Head(replies[j]))
            /\ j <= Len(replied) => Part(j, replied[j])
        BY <1>1 DEF AnswerInv, Dealt
      <3>2. CASE j = From
        BY <2>1, <2>4, <2>6, <2>7, <2>8, <3>1, <3>2
      <3>3. CASE j # From
        <4>1. j <= Len(replied') => j \in 1..Len(replied)
          BY <2>3, <2>4, <2>7, <3>3
        <4> QED BY <2>7, <2>8, <3>1, <3>3, <4>1
      <3> QED BY <3>2, <3>3
    <2>10. round > 0 => \A d \in ToSet(ids) : owners[d] \in 1..plan.gpus
      BY <1>1 DEF AnswerInv, Dealt
    <2>11. Dealt'
      BY <1>1, <2>9, <2>10, PartSame DEF Dealt
    <2> QED BY <1>1, <1>3, <2>11, PartSame
          DEF AnswerInv, Owned, Untouched, InStep, InRound, AnswersAsOneGpu
  <1> QED BY <1>2, <1>3 DEF Receive

-----------------------------------------------------------------------------
(* A group's round that ends well.  The replies' documents are disjoint    *)
(* parts of what one GPU would have, all of it when no limit stops a run.  *)
LEMMA RoundMerges ==
    ASSUME PipeInv, AnswerInv, pc = "receive", round > 0, Len(replied) = plan.gpus,
           \A i \in DOMAIN replied : replied[i].status # "err",
           NEW D \in SUBSET Documents, ids = Ascending(D), ToSet(ids) = D
    PROVE  \E s \in SUBSET Lasting(plan, round, D) :
              Merged = Ascending(s) /\ Enough(s, Lasting(plan, round, D), Limit)
  <1> DEFINE n == Len(plan.lengths)
             V == Lasting(plan, round, D)
             E == [i \in 1..plan.gpus |-> {d \in D : owners[d] = i}]
             s == [i \in 1..plan.gpus |-> ToSet(replied[i].docs)]
             all == UNION {s[i] : i \in 1..plan.gpus}
  <1>1. /\ round \in Nat /\ plan \in Plans /\ Documents = 1..n /\ n \in Nat
        /\ round \in 0..Len(plan.passes) /\ Len(plan.passes) \in Nat
    BY LeftIs DEF PipeInv, Shape, InRound
  <1>2. /\ DOMAIN workers = 1..plan.gpus /\ plan.gpus \in Nat /\ DOMAIN replied = 1..plan.gpus
        /\ plan.limit \in Nat
    BY <1>1, PlanSays DEF PipeInv, RoundShape, InRound, Shape
  <1>3. /\ owners \in [Documents -> 0..plan.gpus] /\ KeyHomes(plan, owners)
        /\ \A d \in D : owners[d] \in 1..plan.gpus
    BY DEF AnswerInv, Owned, Dealt
  <1>4. ASSUME NEW i \in 1..plan.gpus
        PROVE  /\ replied[i].docs = Ascending(s[i]) /\ s[i] \in SUBSET (V \cap E[i])
               /\ Enough(s[i], V \cap E[i], Limit)
    <2>1. replied[i].status = "ok"
      <3>1. WasRead(i)
        BY <1>2 DEF PipeInv, Receiving
      <3> QED BY <1>2, <3>1 DEF WasRead, Booted, Good
    <2>2. replied[i].docs \in Returned(plan, Limit, round, Shard(owners, i))
      <3>1. Part(i, replied[i])
        BY <1>2 DEF AnswerInv, Dealt
      <3> QED BY <2>1, <3>1 DEF Part
    <2> DEFINE mine == {d \in D : owners[d] = i}
    <2>3. E[i] = mine /\ s[i] = ToSet(replied[i].docs)
      OBVIOUS
    <2>4. Shard(owners, i) = Ascending(mine)
      <3> DEFINE keep == {d \in Documents : owners[d] = i}
      <3>1. D \cap keep = mine
        OBVIOUS
      <3>2. Sifted(Ascending(D), keep) = Ascending(D \cap keep)
        BY <1>1, SiftedAscending
      <3> QED BY <3>1, <3>2 DEF Shard
    <2>5. Kindred(plan, mine, D)
      BY <1>3 DEF Kindred, KeyHomes, Documents
    <2>6. mine \in SUBSET D
      OBVIOUS
    <2> HIDE DEF mine, E, s, V, n
    <2>7. Lasting(plan, round, mine) = V \cap mine
      BY <1>1, <2>5, <2>6, LastingShard DEF V
    <2>8. PICK t \in SUBSET Lasting(plan, round, mine) :
             replied[i].docs = Ascending(t) /\ Enough(t, Lasting(plan, round, mine), Limit)
      <3>1. mine \in SUBSET (1..n)
        BY <1>1, <2>6
      <3> QED BY <1>1, <2>2, <2>4, <3>1, ReturnedIs
    <2>9. ToSet(Ascending(t)) = t
      <3>1. t \in SUBSET (1..n)
        BY <1>1, <2>6, <2>7, <2>8
      <3> QED BY <1>1, <3>1, AscendingList
    <2> QED BY <2>3, <2>7, <2>8, <2>9
  <1>5. V \in SUBSET D
    BY LastingSome
  <1>6. s \in [1..plan.gpus -> SUBSET (1..n)]
    <2>1. s = [i \in 1..plan.gpus |-> s[i]]
      OBVIOUS
    <2> HIDE DEF s, V, E, n
    <2>2. \A i \in 1..plan.gpus : s[i] \in SUBSET (1..n)
      BY <1>1, <1>4, <1>5
    <2> QED BY <2>1, <2>2
  <1>7. \A i, j \in 1..plan.gpus : i # j => E[i] \cap E[j] = {}
    OBVIOUS
  <1>8. \A i, j \in 1..plan.gpus : i # j => s[i] \cap s[j] = {}
    <2> HIDE DEF s, V, E
    <2> QED BY <1>4, <1>7
  <1>9. Merged = Ascending(all)
    <2> HIDE DEF s, V, E, n
    <2>1. Pieces(s, plan.gpus, n)
      BY <1>2, <1>4, <1>6, <1>8 DEF Pieces
    <2>2. Merged = Ascending(Whole(s, plan.gpus))
      BY <1>1, <1>2, <2>1, MergedIs
    <2> QED BY <2>2 DEF Whole
  <1>10. all \in SUBSET V
    <2> HIDE DEF s, V, E
    <2> QED BY <1>4
  <1>11. \A d \in V : \E i \in 1..plan.gpus : d \in E[i]
    BY <1>3, <1>5
  <1>12. Enough(all, V, Limit)
    <2>1. CASE \A i \in 1..plan.gpus : s[i] = V \cap E[i]
      <3> HIDE DEF s, V, E
      <3>1. V \subseteq all
        BY <1>11, <2>1
      <3> QED BY <1>10, <3>1 DEF Enough
    <2>2. CASE \E i \in 1..plan.gpus : s[i] # V \cap E[i]
      <3>1. PICK i \in 1..plan.gpus : s[i] # V \cap E[i]
        BY <2>2
      <3>2. Limit > 0 /\ Cardinality(s[i]) >= Limit
        <4> HIDE DEF s, V, E
        <4> QED BY <1>4, <3>1 DEF Enough
      <3>3. s[i] \in SUBSET all
        <4> HIDE DEF s
        <4> QED OBVIOUS
      <3>4. IsFiniteSet(all)
        <4>1. all \in SUBSET (1..n)
          <5> HIDE DEF s, V, all, n
          <5> QED BY <1>1, <1>5, <1>10
        <4> HIDE DEF all, n
        <4> QED BY <1>1, <4>1, DocumentsFinite
      <3> HIDE DEF s, V, E, all
      <3>5. Cardinality(s[i]) <= Cardinality(all) /\ Cardinality(s[i]) \in Nat /\ Cardinality(all) \in Nat
        BY <3>3, <3>4, FS_Subset, FS_CardinalityType
      <3>6. Limit \in Nat
        BY <1>2 DEF Limit
      <3> QED BY <3>2, <3>5, <3>6 DEF Enough
    <2> QED BY <2>1, <2>2
  <1> HIDE DEF s, V, E, all
  <1> QED BY <1>9, <1>10, <1>12 DEF V

(* Retained KV is where its owners say already, so no owner changes.       *)
LEMMA RetainedSame ==
    ASSUME PipeInv, HomeInv, AnswerInv, pc = "receive", round > 0, Len(replied) = plan.gpus
    PROVE  Retained(owners) = owners
  <1>1. DOMAIN workers = 1..plan.gpus /\ plan.gpus \in Nat /\ DOMAIN replied = 1..plan.gpus
    BY PlanFacts DEF PipeInv, RoundShape, InRound, Shape
  <1>2. owners \in [Documents -> 0..plan.gpus]
    BY DEF AnswerInv, Owned
  <1>3. ASSUME NEW i \in DOMAIN replied, NEW k \in replied[i].kv PROVE owners[k[2]] = i
    <2>1. RepliedHome(i, replied[i])
      BY <1>1 DEF HomeInv, Answers
    <2> QED BY <2>1 DEF RepliedHome, At
  <1> DEFINE holding(d) == {i \in DOMAIN replied : d \in {k[2] : k \in replied[i].kv}}
             moved(d) == IF holding(d) = {} THEN owners[d]
                         ELSE CHOOSE i \in holding(d) : \A j \in holding(d) : j <= i
  <1>4. Retained(owners) = [d \in Documents |-> moved(d)]
    BY DEF Retained
  <1>5. ASSUME NEW d \in Documents PROVE moved(d) = owners[d]
    <2>1. ASSUME NEW i \in holding(d) PROVE i = owners[d] /\ i \in 1..plan.gpus
      <3>1. PICK k \in replied[i].kv : k[2] = d
        OBVIOUS
      <3> QED BY <1>1, <1>3, <3>1
    <2> HIDE DEF holding
    <2>2. CASE holding(d) = {}
      BY <2>2
    <2>3. CASE holding(d) # {}
      <3>1. PICK i \in holding(d) : TRUE
        BY <2>3
      <3>2. i = owners[d] /\ i \in 1..plan.gpus /\ holding(d) = {i}
        BY <2>1, <3>1
      <3>3. i <= i
        BY <1>1, <3>2
      <3> QED BY <3>2, <3>3
    <2> QED BY <2>2, <2>3
  <1> HIDE DEF moved
  <1> QED BY <1>2, <1>4, <1>5

LEMMA RoundEndsAnswers ==
    ASSUME PipeInv, HomeInv, Counted, AnswerInv, RoundEnds PROVE AnswerInv'
  <1> DEFINE L == Len(plan.passes)
  <1>1. pc = "receive" /\ Len(replied) = plan.gpus /\ UNCHANGED <<plan, settings, count>>
    BY DEF RoundEnds
  <1>2. CASE Ends("failed")
    BY <1>1, <1>2, EndsFailed
  <1>3. CASE /\ \A i \in DOMAIN replied : replied[i].status # "err"
             /\ IF round = 0 THEN UNCHANGED <<owners, ids>>
                             ELSE ids' = Merged /\ owners' = Retained(owners)
             /\ IF round < L THEN pc' = "send" /\ round' = round + 1 /\ UNCHANGED outcomes
                             ELSE Ends("ok") /\ UNCHANGED round
    <2>1. /\ round \in 0..L /\ L \in Nat /\ plan \in Plans
          /\ Documents = 1..Len(plan.lengths) /\ Len(plan.lengths) \in Nat /\ L > 0
      BY <1>1, LeftIs, PlanSays DEF InRound
    <2>2. PICK D \in SUBSET Documents : ids = Ascending(D) /\ ToSet(ids) = D
      BY <1>1, LeftIs DEF InRound
    <2>3. ids = LeftAfter(plan, Start(plan), Done)
      BY <1>1 DEF AnswerInv, InStep, InRound
    <2>4. owners' = owners
      BY <1>1, <1>3, <2>1, RetainedSame
    <2>5. pc' # "idle" => Owned'
      BY <1>1, <2>4 DEF AnswerInv, Owned, Documents
    <2>6. CASE round = 0
      <3>1. round < L /\ pc' = "send" /\ round' = 1 /\ ids' = ids
        BY <1>3, <2>1, <2>6
      <3>2. Done' = 0 /\ Done = 0 /\ round' <= L
        BY <2>1, <2>6, <3>1 DEF Done
      <3>3. InStep'
        BY <1>1, <2>3, <3>1, <3>2 DEF InStep
      <3> QED BY <2>5, <3>1, <3>3 DEF AnswerInv, Untouched, Dealt, AnswersAsOneGpu
    <2>7. CASE round # 0
      <3> DEFINE V == Lasting(plan, round, D)
      <3>1. PICK s \in SUBSET V : Merged = Ascending(s) /\ Enough(s, V, Limit)
        <4>1. round > 0
          BY <2>1, <2>7
        <4>2. \A i \in DOMAIN replied : replied[i].status # "err"
          BY <1>3
        <4>3. pc = "receive" /\ Len(replied) = plan.gpus
          BY <1>1
        <4>4. \E s \in SUBSET Lasting(plan, round, D) :
                 Merged = Ascending(s) /\ Enough(s, Lasting(plan, round, D), Limit)
          BY <2>2, <4>1, <4>2, <4>3, RoundMerges
        <4> QED BY <4>4, Zenon
      <3>2. ids' = Ascending(s) /\ Done = round - 1 /\ round \in 1..L
        BY <1>3, <2>1, <2>7, <3>1 DEF Done
      <3>3. CASE round < L
        <4>1. pc' = "send" /\ round' = round + 1 /\ Done' = round /\ round' <= L
          <5>1. pc' = "send" /\ round' = round + 1
            BY <1>3, <3>3
          <5> QED BY <2>1, <3>2, <3>3, <5>1 DEF Done
        <4>2. s = V
          <5>1. Limit = 0
            BY <2>1, <3>3 DEF Limit
          <5> QED BY <3>1, <5>1 DEF Enough
        <4>3. Survivors(plan, round, Ascending(D)) = Ascending(V)
          BY <2>1, SurvivorsAre
        <4>4. LeftAfter(plan, Start(plan), round) = Ascending(V)
          BY <2>1, <2>2, <2>3, <3>2, <4>3, LeftAfterIs
        <4>5. InStep'
          BY <1>1, <3>2, <4>1, <4>2, <4>4 DEF InStep
        <4> QED BY <2>5, <4>1, <4>5 DEF AnswerInv, Untouched, Dealt, AnswersAsOneGpu
      <3>4. CASE ~(round < L)
        <4>1. round = L /\ pc' = "idle" /\ Limit = plan.limit
          BY <1>3, <2>1, <3>4 DEF Ends, Limit
        <4>2. LeftAfter(plan, Start(plan), L - 1) = Ascending(D)
          BY <2>2, <2>3, <3>2, <4>1
        <4>3. s \in SUBSET Lasting(plan, L, D) /\ Enough(s, Lasting(plan, L, D), plan.limit)
          BY <3>1, <4>1
        <4>4. AnswersAsOneGpu'
          BY <1>1, <2>1, <3>2, <4>2, <4>3, EndsWell
        <4> QED BY <4>1, <4>4 DEF AnswerInv, Owned, Untouched, InStep, InRound, Dealt
      <3> QED BY <3>3, <3>4
    <2> QED BY <2>6, <2>7
  <1>4. \/ Ends("failed")
        \/ /\ \A i \in DOMAIN replied : replied[i].status # "err"
           /\ IF round = 0 THEN UNCHANGED <<owners, ids>>
                           ELSE ids' = Merged /\ owners' = Retained(owners)
           /\ IF round < L THEN pc' = "send" /\ round' = round + 1 /\ UNCHANGED outcomes
                           ELSE Ends("ok") /\ UNCHANGED round
    BY DEF RoundEnds
  <1> QED BY <1>2, <1>3, <1>4

LEMMA AnswerStep == PipeInv /\ HomeInv /\ PaidInv /\ AnswerInv /\ [Next]_vars => AnswerInv'
  <1> SUFFICES ASSUME PipeInv, HomeInv, PaidInv, AnswerInv, [Next]_vars PROVE AnswerInv'
    OBVIOUS
  <1>0. Counted
    BY DEF PaidInv
  <1>1. CASE UNCHANGED vars
    <2>1. /\ UNCHANGED <<pc, plan, settings, count, owners, round, replied, ids, outcomes, todo, replies>>
          /\ DOMAIN workers' = DOMAIN workers
      BY <1>1 DEF vars, pipes, rounds
    <2> QED BY <2>1, PartSame
          DEF AnswerInv, Owned, Untouched, InStep, InRound, Dealt, AnswersAsOneGpu, OneGpu
  <1>2. CASE Process
    BY <1>0, <1>2, SubmitAnswers, PrepareAnswers, TokensAnswers, ExecuteHereAnswers,
       StartRoundsAnswers, SendAnswers, ReceiveAnswers, RoundEndsAnswers DEF Process
  <1>3. CASE \E i \in DOMAIN workers : Child(i) \/ Dies(i)
    BY <1>3, ChildAnswersPart, DiesAnswers
  <1> QED BY <1>1, <1>2, <1>3 DEF Next

(* A query that ends well has what one GPU would have returned, in input   *)
(* order and each once, or as much of it as its limit asks for: for any    *)
(* number of GPUs and groups of operators, any stop keys, any placement    *)
(* the shards give, and whatever fails.  (keyed_shards, _shards and        *)
(* merge_results: "a run on several GPUs returns what a run on one would") *)
THEOREM AnswersAsOne == Spec => []AnswersAsOneGpu
  <1>1. AnswerInv => AnswersAsOneGpu
    BY DEF AnswerInv
  <1>2. Spec => [](PipeInv /\ HomeInv /\ PaidInv)
    BY HomeInit, HomeStep, PaidInit, PaidStep, PipesHold, PTL DEF Spec
  <1> QED BY <1>1, <1>2, AnswerInit, AnswerStep, PTL DEF Spec
=============================================================================
