------------------------- MODULE AnswerDecodingProofs -------------------------
(***************************************************************************)
(* Proofs about AnswerDecoding, for every pipeline, arena and number of    *)
(* documents: tokens land in order, and no answer is left half written.    *)
(*                                                                         *)
(* The invariant has four parts.  The places (PlaceInv) say that a         *)
(* document is in one group, one queue or one list at a time, and at which *)
(* stage.  The decoder (DecInv) says, slot by slot, that the copies on     *)
(* their way hold the tokens fed and not yet read, in order, and that the  *)
(* tokens of an earlier answer are ahead of those of the current one.      *)
(* Houses says who has pages, and Evicted that an evicted answer resumes   *)
(* only when its tokens have landed and its pages are back.                *)
(*                                                                         *)
(* They need each other: an answer may start only because its document is  *)
(* in one group (places), with no token of it still counted as current     *)
(* (decoder); it may resume because the queue holds only paused answers.   *)
(***************************************************************************)
EXTENDS AnswerDecoding, KVArenaProofs

Stages == Len(plan.stages)

\* What a pipeline is: its stages, and the sizes it works with.
LEMMA PlanIs ==
    ASSUME plan \in Plans
    PROVE  /\ Stages \in Nat /\ Stages > 0 /\ \A j \in 1 .. Stages : plan.stages[j] \in {"answer", "ask"}
           /\ plan.document \in [Slots -> Nat \ {0}] /\ plan.suffix \in Nat \ {0}
           /\ plan.limit \in Nat \ {0} /\ plan.stop \in [Slots -> Nat]
  BY DecodingAssumption DEF PlanRecord, Stages

\* Documents are numbers and keys of the arena, finitely many, and none is the
\* key an earlier operator retained.
LEMMA SlotsAre == Slots \subseteq Nat /\ Slots \subseteq Keys /\ IsFiniteSet(Slots) /\ Earlier \notin Slots
  <1>1. Slots \subseteq Keys /\ Slots = 1 .. Cardinality(Slots) /\ Earlier \notin Slots
    BY DecodingAssumption
  <1>2. IsFiniteSet(Slots)
    BY <1>1, KeysAssumption, FS_Subset
  <1>3. Cardinality(Slots) \in Nat
    BY <1>2, FS_CardinalityType
  <1> QED BY <1>1, <1>2, <1>3

-----------------------------------------------------------------------------
(* Sets of places in the queue of copies: one more at its end, the first   *)
(* one gone.                                                               *)
Before(S, i) == {k \in S : k < i}

\* A set of places is finite.
LEMMA PlacesFinite ==
    ASSUME NEW n \in Nat, NEW S \in SUBSET (1 .. n)
    PROVE  IsFiniteSet(S) /\ Cardinality(S) \in Nat
  <1>1. IsFiniteSet(1 .. n)
    BY FS_Interval
  <1> QED BY <1>1, FS_Subset, FS_CardinalityType

\* The first place gone and the others one up: how many are left.
LEMMA ShiftCount ==
    ASSUME NEW n \in Nat, NEW S \in SUBSET (1 .. n),
           NEW T, T = {i \in 1 .. (n - 1) : i + 1 \in S}
    PROVE  Cardinality(T) = IF 1 \in S THEN Cardinality(S) - 1 ELSE Cardinality(S)
  <1> DEFINE f == [i \in T |-> i + 1]
  <1>1. IsFiniteSet(S) /\ IsFiniteSet(S \ {1})
        /\ Cardinality(S \ {1}) = IF 1 \in S THEN Cardinality(S) - 1 ELSE Cardinality(S)
    BY PlacesFinite, FS_RemoveElement
  <1>2. IsFiniteSet(T)
    <2>1. T \in SUBSET (1 .. (n - 1)) /\ n - 1 \in Int
      OBVIOUS
    <2>2. IsFiniteSet(1 .. (n - 1))
      BY <2>1, FS_Interval
    <2> QED BY <2>1, <2>2, FS_Subset
  <1>3. f \in Bijection(T, S \ {1})
    <2>1. f \in [T -> S \ {1}]
      OBVIOUS
    <2>2. \A i, j \in T : f[i] = f[j] => i = j
      OBVIOUS
    <2>3. ASSUME NEW k \in S \ {1} PROVE \E i \in T : f[i] = k
      <3>1. k - 1 \in T /\ f[k - 1] = k
        OBVIOUS
      <3> QED BY <3>1
    <2> HIDE DEF f
    <2> QED BY <2>1, <2>2, <2>3 DEF Bijection, Injection, Surjection, IsInjective
  <1> HIDE DEF f
  <1>4. ExistsBijection(T, S \ {1})
    BY <1>3 DEF ExistsBijection
  <1>5. Cardinality(S \ {1}) = Cardinality(T)
    BY <1>2, <1>4, FS_Bijection
  <1> QED BY <1>1, <1>5

\* The first place gone and the others one up: how many are before each.
LEMMA ShiftBefore ==
    ASSUME NEW n \in Nat, NEW S \in SUBSET (1 .. n),
           NEW T, T = {i \in 1 .. (n - 1) : i + 1 \in S}, NEW i \in T
    PROVE  Cardinality(Before(T, i))
               = IF 1 \in S THEN Cardinality(Before(S, i + 1)) - 1
                 ELSE Cardinality(Before(S, i + 1))
  <1> DEFINE B == Before(S, i + 1)
             A == Before(T, i)
  <1>1. B \in SUBSET (1 .. n) /\ (1 \in B <=> 1 \in S)
    <2>1. i \in Nat /\ 1 < i + 1
      OBVIOUS
    <2> QED BY <2>1 DEF Before
  <1>2. A = {k \in 1 .. (n - 1) : k + 1 \in B}
    BY DEF Before
  <1> HIDE DEF A, B
  <1>3. Cardinality(A) = IF 1 \in B THEN Cardinality(B) - 1 ELSE Cardinality(B)
    BY <1>1, <1>2, ShiftCount
  <1> QED BY <1>1, <1>3 DEF A, B

\* One more place, after all the others.
LEMMA LastCount ==
    ASSUME NEW n \in Nat, NEW S \in SUBSET (1 .. n)
    PROVE  /\ Cardinality(S \cup {n + 1}) = Cardinality(S) + 1
           /\ Before(S \cup {n + 1}, n + 1) = S
           /\ \A i \in S : Before(S \cup {n + 1}, i) = Before(S, i)
  <1>1. IsFiniteSet(S) /\ n + 1 \notin S
    <2>1. n + 1 \notin 1 .. n
      OBVIOUS
    <2> QED BY <2>1, PlacesFinite
  <1>2. Cardinality(S \cup {n + 1}) = Cardinality(S) + 1
    BY <1>1, FS_AddElement
  <1>3. Before(S \cup {n + 1}, n + 1) = S
    <2>1. \A k \in S : k < n + 1
      OBVIOUS
    <2>2. ~ (n + 1 < n + 1)
      OBVIOUS
    <2> QED BY <2>1, <2>2, Zenon DEF Before
  <1>4. ASSUME NEW i \in S PROVE Before(S \cup {n + 1}, i) = Before(S, i)
    <2>1. ~ (n + 1 < i)
      OBVIOUS
    <2> QED BY <2>1, Zenon DEF Before
  <1> QED BY <1>2, <1>3, <1>4

-----------------------------------------------------------------------------
(* The decoder's part of the invariant, slot by slot.  C is the slots whose*)
(* token this pass chose and has not sent, stage the stage each slot is at,*)
(* and fresh the slots whose stage has not begun an answer.                *)
Token == [slot : Slots, index : Nat, map : Nat]
Tokens(D, s) == {i \in DOMAIN D.copies : \E e \in D.copies[i] : e.slot = s}

OnePerSlot(copy) == \A e, f \in copy : e.slot = f.slot => e = f

Counted(D, s) == D.inflight[s] = Cardinality(Tokens(D, s))

StaleFirst(D, s) ==
    /\ D.map[s] # NoMap =>
          \A i \in Coming(D, s), k \in Tokens(D, s) : i < k => k \in Coming(D, s)
    /\ D.map[s] = NoMap /\ s \notin D.stopped => Coming(D, s) = {}

Paced(D, C, s) ==
    /\ s \notin D.stopped
    /\ D.written[s] <= plan.stop[s] /\ D.written[s] < plan.limit /\ D.fed[s] < plan.limit
    /\ D.fed[s] + (IF s \in C THEN 0 ELSE 1) = D.written[s] + Cardinality(Coming(D, s))

InSequence(D, s) ==
    \A i \in Coming(D, s) : \A e \in D.copies[i] :
        e.slot = s => e.index = D.written[s] + Cardinality(Before(Coming(D, s), i))

Writing(D, C, s) == D.map[s] # NoMap => Paced(D, C, s) /\ InSequence(D, s)

LengthsWhole(D, stage, s) ==
    /\ \A j \in 1 .. Stages :
          D.lengths[s][j] # -1 => D.lengths[s][j] = Least(plan.stop[s], plan.limit)
    /\ s \in D.answered =>
          stage[s] \in 1 .. Stages /\ D.map[s] = NoMap /\ D.lengths[s][stage[s]] # -1
    /\ plan.stages[1] = "answer" /\ stage[s] > 1 => D.lengths[s][1] # -1

Staged(D, C, stage, fresh, s) ==
    /\ D.map[s] # NoMap => D.map[s] = stage[s] /\ stage[s] \in 1 .. Stages
    /\ \A i \in Tokens(D, s) : \A e \in D.copies[i] : e.slot = s =>
          e.map <= stage[s] /\ (s \in fresh => e.map < stage[s])
    /\ s \in fresh => D.map[s] = NoMap /\ s \notin D.answered
    /\ s \in C => stage[s] > 0 /\ (D.map[s] = NoMap => s \in D.stopped)

SlotInv(D, C, stage, fresh, s) ==
    /\ Counted(D, s) /\ StaleFirst(D, s) /\ Writing(D, C, s)
    /\ LengthsWhole(D, stage, s) /\ Staged(D, C, stage, fresh, s)

DecInv(D, C, stage, fresh) ==
    /\ D \in Decoder
    /\ \A i \in DOMAIN D.copies : OnePerSlot(D.copies[i])
    /\ \A s \in Slots : SlotInv(D, C, stage, fresh, s)

\* The decoder, field by field.
LEMMA DecoderFields ==
    ASSUME NEW D \in Decoder
    PROVE  /\ D.map \in [Slots -> Nat] /\ D.fed \in [Slots -> Nat] /\ D.written \in [Slots -> Nat]
           /\ D.paused \in SUBSET Slots /\ D.stopped \in SUBSET Slots
           /\ D.inflight \in [Slots -> Nat] /\ D.chosen \in [Slots -> Nat]
           /\ D.copies \in Seq(SUBSET Token) /\ D.answered \in SUBSET Slots
           /\ D.lengths \in [Slots -> [1 .. Stages -> Int]]
  BY DEF Decoder, Token, Stages

\* The copies that hold a slot's tokens are places of the queue of copies.
LEMMA PlacesAre ==
    ASSUME NEW D \in Decoder, NEW s
    PROVE  /\ Tokens(D, s) \in SUBSET (1 .. Len(D.copies)) /\ Len(D.copies) \in Nat
           /\ Coming(D, s) \in SUBSET Tokens(D, s)
           /\ Coming(D, s) \in SUBSET (1 .. Len(D.copies))
           /\ Cardinality(Coming(D, s)) \in Nat /\ Cardinality(Tokens(D, s)) \in Nat
           /\ Tokens(D, s) = {} <=> Cardinality(Tokens(D, s)) = 0
  <1>1. DOMAIN D.copies = 1 .. Len(D.copies) /\ Len(D.copies) \in Nat
    BY DecoderFields
  <1>2. /\ Tokens(D, s) \in SUBSET (1 .. Len(D.copies))
        /\ Coming(D, s) \in SUBSET Tokens(D, s)
    BY <1>1 DEF Tokens, Coming
  <1>3. Coming(D, s) \in SUBSET (1 .. Len(D.copies))
    BY <1>2
  <1>4. IsFiniteSet(Tokens(D, s)) /\ Cardinality(Coming(D, s)) \in Nat
        /\ Cardinality(Tokens(D, s)) \in Nat
    BY <1>1, <1>2, <1>3, PlacesFinite
  <1> QED BY <1>1, <1>2, <1>3, <1>4, FS_EmptySet

(* The first copy goes.                                                    *)
LEMMA TailPlaces ==
    ASSUME NEW D \in Decoder, D.copies # <<>>, NEW E, E.copies = Tail(D.copies), NEW s
    PROVE  LET n == Len(D.copies) IN
           /\ n \in Nat /\ n > 0 /\ DOMAIN E.copies = 1 .. (n - 1) /\ 1 \in DOMAIN D.copies
           /\ \A i \in 1 .. (n - 1) : E.copies[i] = D.copies[i + 1] /\ i + 1 \in DOMAIN D.copies
           /\ Tokens(E, s) = {i \in 1 .. (n - 1) : i + 1 \in Tokens(D, s)}
           /\ E.map[s] = D.map[s] =>
                 Coming(E, s) = {i \in 1 .. (n - 1) : i + 1 \in Coming(D, s)}
  <1> DEFINE n == Len(D.copies)
  <1>1. D.copies \in Seq(SUBSET Token)
    BY DecoderFields
  <1>2. n \in Nat /\ n > 0 /\ DOMAIN D.copies = 1 .. n
    BY <1>1
  <1>3. DOMAIN E.copies = 1 .. (n - 1) /\ \A i \in 1 .. (n - 1) : E.copies[i] = D.copies[i + 1]
    BY <1>1
  <1>4. \A i \in 1 .. (n - 1) : i + 1 \in DOMAIN D.copies
    BY <1>2
  <1>5. Tokens(E, s) = {i \in 1 .. (n - 1) : i + 1 \in Tokens(D, s)}
    BY <1>3, <1>4, Zenon DEF Tokens
  <1>6. ASSUME E.map[s] = D.map[s]
        PROVE  Coming(E, s) = {i \in 1 .. (n - 1) : i + 1 \in Coming(D, s)}
    BY <1>3, <1>4, <1>6, Zenon DEF Coming
  <1>7. 1 \in DOMAIN D.copies
    BY <1>2
  <1> QED BY <1>2, <1>3, <1>4, <1>5, <1>6, <1>7

-----------------------------------------------------------------------------
(* Reading a copy: what becomes of a slot whose token is read, and of one  *)
(* with none to read.                                                      *)
IsRead(D, s, e) ==
    /\ e \in D.copies[1] /\ e.slot = s /\ e.map = D.map[s] /\ s \notin D.stopped

Advances(D, E, s, e) ==
    /\ E.written[s] = Bigger(D.written[s], e.index + 1)
    /\ E.map[s] = IF Ends(e) THEN NoMap ELSE D.map[s]
    /\ s \in E.answered <=> s \in D.answered \/ Ends(e)
    /\ s \in E.stopped <=> StopAt(e)
    /\ E.lengths[s] = IF Ends(e)
                      THEN [D.lengths[s] EXCEPT ![D.map[s]] = e.index + IF StopAt(e) THEN 0 ELSE 1]
                      ELSE D.lengths[s]

Same(D, E, s) ==
    /\ E.written[s] = D.written[s] /\ E.map[s] = D.map[s]
    /\ s \in E.answered <=> s \in D.answered
    /\ s \in E.stopped <=> s \in D.stopped
    /\ E.lengths[s] = D.lengths[s]

ReadSlot(D, E, s) ==
    /\ E.inflight[s] = IF 1 \in Tokens(D, s) THEN D.inflight[s] - 1 ELSE D.inflight[s]
    /\ \A e : IsRead(D, s, e) => Advances(D, E, s, e)
    /\ (\A e : ~IsRead(D, s, e)) => Same(D, E, s)

\* ReadCopy, field by field and slot by slot (map_decoder.py _read).
LEMMA ReadCopyIs ==
    ASSUME NEW D \in Decoder, D.copies # <<>>, OnePerSlot(D.copies[1]),
           NEW E, E = ReadCopy(D)
    PROVE  /\ E.copies = Tail(D.copies) /\ E.fed = D.fed /\ E.paused = D.paused
           /\ E.chosen = D.chosen
           /\ E = [map |-> E.map, fed |-> E.fed, written |-> E.written, paused |-> E.paused,
                   stopped |-> E.stopped, inflight |-> E.inflight, chosen |-> E.chosen,
                   copies |-> E.copies, answered |-> E.answered, lengths |-> E.lengths]
           /\ E.answered \in SUBSET Slots /\ E.stopped \in SUBSET Slots
           /\ DOMAIN E.map = Slots /\ DOMAIN E.written = Slots /\ DOMAIN E.inflight = Slots
           /\ DOMAIN E.lengths = Slots
           /\ E.map = [s \in Slots |-> E.map[s]] /\ E.written = [s \in Slots |-> E.written[s]]
           /\ E.inflight = [s \in Slots |-> E.inflight[s]]
           /\ E.lengths = [s \in Slots |-> E.lengths[s]]
           /\ \A s \in Slots : ReadSlot(D, E, s)
  <1> DEFINE read == Current(D)
             of(s, G) == \E e \in G : e.slot = s
             token(s) == CHOOSE e \in read : e.slot = s
             ended == {e \in read : Ends(e)}
             map == [s \in Slots |-> IF of(s, ended) THEN NoMap ELSE D.map[s]]
             written == [s \in Slots |->
               IF of(s, read) THEN Bigger(D.written[s], token(s).index + 1) ELSE D.written[s]]
             lengths == [s \in Slots |->
               IF of(s, ended)
               THEN [D.lengths[s] EXCEPT ![D.map[s]] =
                        token(s).index + IF StopAt(token(s)) THEN 0 ELSE 1]
               ELSE D.lengths[s]]
             inflight == [s \in Slots |-> IF of(s, Head(D.copies)) THEN D.inflight[s] - 1
                                          ELSE D.inflight[s]]
             stopped == D.stopped \union {e.slot : e \in {x \in read : StopAt(x)}}
             answered == D.answered \union {e.slot : e \in ended}
  <1>1. E = [map |-> map, fed |-> D.fed, written |-> written, paused |-> D.paused,
             stopped |-> stopped, inflight |-> inflight, chosen |-> D.chosen,
             copies |-> Tail(D.copies), answered |-> answered, lengths |-> lengths]
    <2>1. D = [map |-> D.map, fed |-> D.fed, written |-> D.written, paused |-> D.paused,
               stopped |-> D.stopped, inflight |-> D.inflight, chosen |-> D.chosen,
               copies |-> D.copies, answered |-> D.answered, lengths |-> D.lengths]
      BY DEF Decoder
    <2>2. /\ DOMAIN D.map = Slots /\ DOMAIN D.written = Slots /\ DOMAIN D.inflight = Slots
          /\ DOMAIN D.lengths = Slots
      BY DecoderFields
    <2> QED BY <2>1, <2>2 DEF ReadCopy
  <1>2. Head(D.copies) = D.copies[1] /\ 1 \in DOMAIN D.copies
    BY DecoderFields
  <1>3. \A e : e \in read <=> e \in D.copies[1] /\ D.map[e.slot] = e.map /\ e.slot \notin D.stopped
    BY <1>2 DEF Current
  <1>4. \A e \in read : e.slot \in Slots
    BY <1>2, <1>3, DecoderFields DEF Token
  <1>5. \A s : \A e : IsRead(D, s, e) <=> e \in read /\ e.slot = s
    BY <1>3 DEF IsRead
  <1>6. ASSUME NEW s \in Slots, NEW e, IsRead(D, s, e) PROVE Advances(D, E, s, e)
    <2>1. e \in read /\ e.slot = s /\ s \notin D.stopped
      BY <1>5, <1>6 DEF IsRead
    <2>2. \A f \in read : f.slot = s => f = e
      BY <1>3, <2>1 DEF OnePerSlot
    <2>3. token(s) = e
      BY <2>1, <2>2
    <2>4. of(s, read) /\ (of(s, ended) <=> Ends(e))
      BY <2>1, <2>2
    <2>5. s \in stopped <=> StopAt(e)
      BY <2>1, <2>2
    <2>6. s \in answered <=> s \in D.answered \/ Ends(e)
      BY <2>1, <2>2
    <2> HIDE DEF read, of, token, ended
    <2>7. /\ written[s] = Bigger(D.written[s], e.index + 1)
          /\ map[s] = IF Ends(e) THEN NoMap ELSE D.map[s]
          /\ lengths[s] = IF Ends(e)
                THEN [D.lengths[s] EXCEPT ![D.map[s]] = e.index + IF StopAt(e) THEN 0 ELSE 1]
                ELSE D.lengths[s]
      BY <2>3, <2>4
    <2> HIDE DEF map, written, lengths, stopped, answered, inflight
    <2> QED BY <1>1, <2>5, <2>6, <2>7 DEF Advances
  <1>7. ASSUME NEW s \in Slots, \A e : ~IsRead(D, s, e) PROVE Same(D, E, s)
    <2>1. ~ of(s, read) /\ ~ of(s, ended)
      BY <1>5, <1>7
    <2>2. (s \in stopped <=> s \in D.stopped) /\ (s \in answered <=> s \in D.answered)
      BY <1>5, <1>7
    <2> HIDE DEF read, of, token, ended
    <2>3. written[s] = D.written[s] /\ map[s] = D.map[s] /\ lengths[s] = D.lengths[s]
      BY <2>1
    <2> HIDE DEF map, written, lengths, stopped, answered, inflight
    <2> QED BY <1>1, <2>2, <2>3 DEF Same
  <1>8. ASSUME NEW s \in Slots
        PROVE  E.inflight[s] = IF 1 \in Tokens(D, s) THEN D.inflight[s] - 1 ELSE D.inflight[s]
    <2>1. 1 \in Tokens(D, s) <=> of(s, Head(D.copies))
      BY <1>2 DEF Tokens
    <2>2. inflight[s] = IF of(s, Head(D.copies)) THEN D.inflight[s] - 1 ELSE D.inflight[s]
      OBVIOUS
    <2> HIDE DEF map, written, lengths, stopped, answered, inflight, of
    <2> QED BY <1>1, <2>1, <2>2
  <1>9. answered \in SUBSET Slots /\ stopped \in SUBSET Slots
    BY <1>4, DecoderFields
  <1>10. /\ map = [s \in Slots |-> map[s]] /\ written = [s \in Slots |-> written[s]]
         /\ inflight = [s \in Slots |-> inflight[s]] /\ lengths = [s \in Slots |-> lengths[s]]
         /\ DOMAIN map = Slots /\ DOMAIN written = Slots /\ DOMAIN inflight = Slots
         /\ DOMAIN lengths = Slots
    OBVIOUS
  <1> HIDE DEF read, of, token, ended, map, written, lengths, stopped, answered, inflight
  <1>11. \A s \in Slots : ReadSlot(D, E, s)
    BY <1>6, <1>7, <1>8 DEF ReadSlot
  <1> QED BY <1>1, <1>9, <1>10, <1>11

\* With the oldest copy gone, one place less where it held a token of the slot.
LEMMA ReadMoves ==
    ASSUME NEW D \in Decoder, D.copies # <<>>, NEW E, E.copies = Tail(D.copies), NEW s \in Slots
    PROVE  /\ Cardinality(Tokens(E, s))
                 = IF 1 \in Tokens(D, s) THEN Cardinality(Tokens(D, s)) - 1
                   ELSE Cardinality(Tokens(D, s))
           /\ E.map[s] = D.map[s] =>
                 /\ Cardinality(Coming(E, s))
                       = IF 1 \in Coming(D, s) THEN Cardinality(Coming(D, s)) - 1
                         ELSE Cardinality(Coming(D, s))
                 /\ \A i \in Coming(E, s) :
                       Cardinality(Before(Coming(E, s), i))
                           = IF 1 \in Coming(D, s)
                             THEN Cardinality(Before(Coming(D, s), i + 1)) - 1
                             ELSE Cardinality(Before(Coming(D, s), i + 1))
  <1> DEFINE n == Len(D.copies)
  <1>1. n \in Nat /\ Tokens(D, s) \in SUBSET (1 .. n) /\ Coming(D, s) \in SUBSET (1 .. n)
    BY PlacesAre
  <1>2. Tokens(E, s) = {i \in 1 .. (n - 1) : i + 1 \in Tokens(D, s)}
    BY TailPlaces
  <1>3. E.map[s] = D.map[s] => Coming(E, s) = {i \in 1 .. (n - 1) : i + 1 \in Coming(D, s)}
    BY TailPlaces
  <1> HIDE DEF n
  <1>4. Cardinality(Tokens(E, s))
                 = IF 1 \in Tokens(D, s) THEN Cardinality(Tokens(D, s)) - 1
                   ELSE Cardinality(Tokens(D, s))
    BY <1>1, <1>2, ShiftCount
  <1>5. ASSUME E.map[s] = D.map[s]
        PROVE  Cardinality(Coming(E, s))
                       = IF 1 \in Coming(D, s) THEN Cardinality(Coming(D, s)) - 1
                         ELSE Cardinality(Coming(D, s))
    BY <1>1, <1>3, <1>5, ShiftCount
  <1>6. ASSUME E.map[s] = D.map[s], NEW i \in Coming(E, s)
        PROVE  Cardinality(Before(Coming(E, s), i))
                           = IF 1 \in Coming(D, s)
                             THEN Cardinality(Before(Coming(D, s), i + 1)) - 1
                             ELSE Cardinality(Before(Coming(D, s), i + 1))
    BY <1>1, <1>3, <1>6, ShiftBefore
  <1> QED BY <1>4, <1>5, <1>6

(* Every copy but the first is left where it was, one place nearer.        *)
LEMMA TokensStay ==
    ASSUME NEW D \in Decoder, D.copies # <<>>, NEW E, E.copies = Tail(D.copies), NEW s,
           NEW i \in Tokens(E, s)
    PROVE  i \in Nat /\ i + 1 \in Tokens(D, s) /\ E.copies[i] = D.copies[i + 1]
  BY TailPlaces

\* A copy still to come after one was read was to come before, one place later.
LEMMA ComingStays ==
    ASSUME NEW D \in Decoder, D.copies # <<>>, NEW E, E.copies = Tail(D.copies), NEW s,
           E.map[s] = D.map[s], NEW i \in Coming(E, s)
    PROVE  i \in Nat /\ i + 1 \in Coming(D, s) /\ E.copies[i] = D.copies[i + 1]
  BY TailPlaces

\* A copy that was to come still is, one place earlier.
LEMMA ComingComes ==
    ASSUME NEW D \in Decoder, D.copies # <<>>, NEW E, E.copies = Tail(D.copies), NEW s,
           E.map[s] = D.map[s], NEW i \in Tokens(E, s), i + 1 \in Coming(D, s)
    PROVE  i \in Coming(E, s)
  BY TailPlaces

\* Reading keeps each token's answer at or before the slot's stage.
LEMMA StagedRead ==
    ASSUME NEW D \in Decoder, D.copies # <<>>, NEW E, E.copies = Tail(D.copies),
           NEW s \in Slots, NEW stage, NEW fresh, NEW C, Staged(D, C, stage, fresh, s)
    PROVE  \A i \in Tokens(E, s) : \A e \in E.copies[i] : e.slot = s =>
               e.map <= stage[s] /\ (s \in fresh => e.map < stage[s])
  <1> SUFFICES ASSUME NEW i \in Tokens(E, s), NEW e \in E.copies[i], e.slot = s
               PROVE  e.map <= stage[s] /\ (s \in fresh => e.map < stage[s])
    OBVIOUS
  <1>1. i + 1 \in Tokens(D, s) /\ E.copies[i] = D.copies[i + 1]
    BY TokensStay
  <1>2. e \in D.copies[i + 1]
    BY <1>1
  <1> QED BY <1>1, <1>2, Zenon DEF Staged

(* A slot with no token to read.                                           *)
LEMMA SkipKeeps ==
    ASSUME NEW D \in Decoder, D.copies # <<>>, NEW E, E.copies = Tail(D.copies), E.fed = D.fed,
           NEW s \in Slots, NEW C, NEW stage, NEW fresh, SlotInv(D, C, stage, fresh, s),
           ReadSlot(D, E, s), \A e : ~IsRead(D, s, e)
    PROVE  SlotInv(E, C, stage, fresh, s)
  <1>1. Same(D, E, s) /\ E.map[s] = D.map[s]
    BY DEF ReadSlot, Same
  <1>2. Counted(E, s)
    BY ReadMoves DEF SlotInv, Counted, ReadSlot
  <1>3. StaleFirst(E, s)
    <2>1. ASSUME D.map[s] # NoMap, NEW i \in Coming(E, s), NEW k \in Tokens(E, s), i < k
          PROVE  k \in Coming(E, s)
      <3>1. i \in Nat /\ k \in Nat /\ i + 1 \in Coming(D, s) /\ k + 1 \in Tokens(D, s) /\ i + 1 < k + 1
        BY <1>1, <2>1, ComingStays, TokensStay
      <3>2. k + 1 \in Coming(D, s)
        BY <2>1, <3>1 DEF SlotInv, StaleFirst
      <3> QED BY <1>1, <2>1, <3>2, ComingComes
    <2>2. ASSUME D.map[s] = NoMap, s \notin D.stopped, NEW i \in Coming(E, s) PROVE FALSE
      <3>1. i + 1 \in Coming(D, s)
        BY <1>1, <2>2, ComingStays
      <3> QED BY <2>2, <3>1 DEF SlotInv, StaleFirst
    <2> QED BY <1>1, <2>1, <2>2 DEF StaleFirst, Same
  <1>4. ASSUME D.map[s] # NoMap PROVE 1 \notin Coming(D, s)
    <2>1. s \notin D.stopped
      BY <1>4 DEF SlotInv, Writing, Paced
    <2> QED BY <2>1 DEF Coming, IsRead
  <1>5. Writing(E, C, s)
    <2> SUFFICES ASSUME D.map[s] # NoMap PROVE Paced(E, C, s) /\ InSequence(E, s)
      BY <1>1 DEF Writing
    <2>1. Paced(D, C, s) /\ InSequence(D, s)
      BY DEF SlotInv, Writing
    <2>2. Cardinality(Coming(E, s)) = Cardinality(Coming(D, s))
      BY <1>1, <1>4, ReadMoves
    <2>3. Paced(E, C, s)
      BY <1>1, <2>1, <2>2 DEF Paced, Same
    <2>4. ASSUME NEW i \in Coming(E, s), NEW e \in E.copies[i], e.slot = s
          PROVE  e.index = E.written[s] + Cardinality(Before(Coming(E, s), i))
      <3>1. Cardinality(Before(Coming(E, s), i)) = Cardinality(Before(Coming(D, s), i + 1))
        BY <1>1, <1>4, ReadMoves
      <3>2. i + 1 \in Coming(D, s) /\ e \in D.copies[i + 1]
        <4>1. i + 1 \in Coming(D, s) /\ E.copies[i] = D.copies[i + 1]
          BY <1>1, ComingStays
        <4> QED BY <4>1
      <3>3. e.index = D.written[s] + Cardinality(Before(Coming(D, s), i + 1))
        BY <2>1, <2>4, <3>2, Zenon DEF InSequence
      <3>4. E.written[s] = D.written[s]
        BY <1>1 DEF Same
      <3> QED BY <3>1, <3>3, <3>4
    <2> QED BY <2>3, <2>4 DEF InSequence
  <1>6. LengthsWhole(E, stage, s)
    BY <1>1 DEF SlotInv, LengthsWhole, Same
  <1>7. Staged(E, C, stage, fresh, s)
    <2>1. Staged(D, C, stage, fresh, s)
      BY DEF SlotInv
    <2>2. \A i \in Tokens(E, s) : \A e \in E.copies[i] : e.slot = s =>
               e.map <= stage[s] /\ (s \in fresh => e.map < stage[s])
      BY <2>1, StagedRead
    <2> QED BY <1>1, <2>1, <2>2, Zenon DEF Staged, Same
  <1> QED BY <1>2, <1>3, <1>5, <1>6, <1>7 DEF SlotInv

(* A slot whose token is read: its first, and the next its answer needs.   *)
LEMMA ReadIsNext ==
    ASSUME NEW D \in Decoder, D.copies # <<>>, OnePerSlot(D.copies[1]), plan \in Plans,
           NEW s \in Slots, NEW C, NEW stage, NEW fresh, SlotInv(D, C, stage, fresh, s),
           NEW e, IsRead(D, s, e)
    PROVE  /\ D.map[s] # NoMap /\ 1 \in Coming(D, s) /\ Paced(D, C, s) /\ InSequence(D, s)
           /\ e.index = D.written[s] /\ e.index \in Nat
           /\ D.map[s] = stage[s] /\ stage[s] \in 1 .. Stages
           /\ Cardinality(Coming(D, s)) >= 1
           /\ D.written[s] \in Nat /\ D.fed[s] \in Nat /\ plan.stop[s] \in Nat /\ plan.limit \in Nat
  <1>1. 1 \in DOMAIN D.copies
    BY DecoderFields
  <1>2. 1 \in Coming(D, s) /\ e \in D.copies[1] /\ e.slot = s /\ s \notin D.stopped
    BY <1>1 DEF Coming, IsRead
  <1>3. D.map[s] # NoMap
    BY <1>2 DEF SlotInv, StaleFirst
  <1>4. Paced(D, C, s) /\ InSequence(D, s)
    BY <1>3 DEF SlotInv, Writing
  <1>5. Before(Coming(D, s), 1) = {}
    <2>1. Coming(D, s) \in SUBSET (1 .. Len(D.copies))
      BY PlacesAre
    <2>2. \A k \in Coming(D, s) : ~ (k < 1)
      BY <2>1
    <2> QED BY <2>2 DEF Before
  <1>6. e.index = D.written[s] + 0
    BY <1>2, <1>4, <1>5, FS_EmptySet DEF InSequence
  <1>7. D.written[s] \in Nat /\ D.fed[s] \in Nat /\ plan.stop[s] \in Nat /\ plan.limit \in Nat
    BY DecoderFields, PlanIs
  <1>8. Cardinality(Coming(D, s)) >= 1
    <2>1. IsFiniteSet(Coming(D, s)) /\ Cardinality(Coming(D, s)) \in Nat
      BY PlacesAre, PlacesFinite
    <2>2. Cardinality(Coming(D, s)) # 0
      BY <1>2, <2>1, FS_EmptySet
    <2> QED BY <2>1, <2>2
  <1>9. D.map[s] = stage[s] /\ stage[s] \in 1 .. Stages
    BY <1>3 DEF SlotInv, Staged
  <1> QED BY <1>2, <1>3, <1>4, <1>6, <1>7, <1>8, <1>9

(* The answer goes on.                                                     *)
LEMMA GoesOnKeeps ==
    ASSUME NEW D \in Decoder, D.copies # <<>>, OnePerSlot(D.copies[1]), plan \in Plans,
           NEW E, E.copies = Tail(D.copies), E.fed = D.fed,
           NEW s \in Slots, NEW C, NEW stage, NEW fresh, SlotInv(D, C, stage, fresh, s),
           ReadSlot(D, E, s), NEW e, IsRead(D, s, e), ~Ends(e)
    PROVE  SlotInv(E, C, stage, fresh, s)
  <1>1. /\ D.map[s] # NoMap /\ 1 \in Coming(D, s) /\ Paced(D, C, s) /\ InSequence(D, s)
        /\ e.index = D.written[s] /\ e.index \in Nat
        /\ D.written[s] \in Nat /\ D.fed[s] \in Nat /\ plan.stop[s] \in Nat /\ plan.limit \in Nat
    BY ReadIsNext
  <1>2. /\ E.written[s] = D.written[s] + 1 /\ E.map[s] = D.map[s]
        /\ s \in E.answered <=> s \in D.answered
        /\ s \notin E.stopped /\ s \notin D.stopped /\ E.lengths[s] = D.lengths[s]
        /\ e.index # plan.stop[s] /\ e.index + 1 < plan.limit
    <2>1. Advances(D, E, s, e) /\ s \notin D.stopped /\ e.slot = s
      BY DEF ReadSlot, IsRead
    <2>2. ~StopAt(e) /\ ~ (e.index + 1 >= plan.limit)
      BY DEF Ends
    <2>3. Bigger(D.written[s], e.index + 1) = D.written[s] + 1
      BY <1>1 DEF Bigger
    <2> QED BY <1>1, <2>1, <2>2, <2>3 DEF Advances, StopAt
  <1>3. Counted(E, s)
    BY ReadMoves DEF SlotInv, Counted, ReadSlot
  <1>4. StaleFirst(E, s)
    <2>1. ASSUME NEW i \in Coming(E, s), NEW k \in Tokens(E, s), i < k
          PROVE  k \in Coming(E, s)
      <3>1. i \in Nat /\ k \in Nat /\ i + 1 \in Coming(D, s) /\ k + 1 \in Tokens(D, s) /\ i + 1 < k + 1
        BY <1>2, <2>1, ComingStays, TokensStay
      <3>2. k + 1 \in Coming(D, s)
        BY <1>1, <3>1 DEF SlotInv, StaleFirst
      <3> QED BY <1>2, <2>1, <3>2, ComingComes
    <2> QED BY <1>1, <1>2, <2>1 DEF StaleFirst
  <1>5. Writing(E, C, s)
    <2>1. Cardinality(Coming(E, s)) = Cardinality(Coming(D, s)) - 1 /\ Cardinality(Coming(D, s)) \in Nat
      BY <1>1, <1>2, ReadMoves, PlacesAre
    <2>2. Paced(E, C, s)
      BY <1>1, <1>2, <2>1 DEF Paced
    <2>3. ASSUME NEW i \in Coming(E, s), NEW f \in E.copies[i], f.slot = s
          PROVE  f.index = E.written[s] + Cardinality(Before(Coming(E, s), i))
      <3>1. Cardinality(Before(Coming(E, s), i)) = Cardinality(Before(Coming(D, s), i + 1)) - 1
        BY <1>1, <1>2, ReadMoves
      <3>2. i + 1 \in Coming(D, s) /\ f \in D.copies[i + 1]
        <4>1. E.map[s] = D.map[s]
          BY <1>2
        <4>2. i + 1 \in Coming(D, s) /\ E.copies[i] = D.copies[i + 1]
          BY <4>1, ComingStays
        <4> QED BY <4>2
      <3>3. f.index = D.written[s] + Cardinality(Before(Coming(D, s), i + 1))
        BY <1>1, <2>3, <3>2, Zenon DEF InSequence
      <3>4. Cardinality(Before(Coming(D, s), i + 1)) \in Nat
        <4>1. Before(Coming(D, s), i + 1) \in SUBSET (1 .. Len(D.copies)) /\ Len(D.copies) \in Nat
          BY PlacesAre DEF Before
        <4> QED BY <4>1, PlacesFinite
      <3> QED BY <1>1, <1>2, <3>1, <3>3, <3>4
    <2> QED BY <2>2, <2>3, Zenon DEF Writing, InSequence
  <1>6. LengthsWhole(E, stage, s)
    BY <1>2 DEF SlotInv, LengthsWhole
  <1>7. Staged(E, C, stage, fresh, s)
    <2>1. Staged(D, C, stage, fresh, s)
      BY DEF SlotInv
    <2>2. \A i \in Tokens(E, s) : \A f \in E.copies[i] : f.slot = s =>
               f.map <= stage[s] /\ (s \in fresh => f.map < stage[s])
      BY <2>1, StagedRead
    <2> QED BY <1>2, <2>1, <2>2, Zenon DEF Staged
  <1> QED BY <1>3, <1>4, <1>5, <1>6, <1>7 DEF SlotInv

(* The answer ends: what is left of it on its way is past its end.         *)
LEMMA EndsKeeps ==
    ASSUME NEW D \in Decoder, D.copies # <<>>, \A i \in DOMAIN D.copies : OnePerSlot(D.copies[i]),
           plan \in Plans, NEW E, E.copies = Tail(D.copies), E.fed = D.fed,
           NEW s \in Slots, NEW C, NEW stage, NEW fresh, SlotInv(D, C, stage, fresh, s),
           ReadSlot(D, E, s), NEW e, IsRead(D, s, e), Ends(e)
    PROVE  SlotInv(E, C, stage, fresh, s)
  <1>1. /\ D.map[s] # NoMap /\ 1 \in Coming(D, s) /\ Paced(D, C, s)
        /\ e.index = D.written[s] /\ e.index \in Nat
        /\ D.map[s] = stage[s] /\ stage[s] \in 1 .. Stages
        /\ Cardinality(Coming(D, s)) >= 1
        /\ D.written[s] \in Nat /\ D.fed[s] \in Nat /\ plan.stop[s] \in Nat /\ plan.limit \in Nat
    <2>1. OnePerSlot(D.copies[1])
      BY DecoderFields
    <2> QED BY <2>1, ReadIsNext
  <1>2. /\ E.map[s] = NoMap /\ s \in E.answered /\ (s \in E.stopped <=> StopAt(e))
        /\ E.lengths[s] = [D.lengths[s] EXCEPT ![stage[s]] = e.index + IF StopAt(e) THEN 0 ELSE 1]
        /\ StopAt(e) <=> e.index = plan.stop[s]
        /\ StopAt(e) \/ e.index + 1 >= plan.limit
    <2>1. Advances(D, E, s, e) /\ e.slot = s
      BY DEF ReadSlot, IsRead
    <2> QED BY <1>1, <2>1 DEF Advances, StopAt, Ends
  <1>3. Counted(E, s)
    BY ReadMoves DEF SlotInv, Counted, ReadSlot
  <1>4. StaleFirst(E, s)
    <2> SUFFICES ASSUME NEW i \in Coming(E, s) PROVE FALSE
      BY <1>2 DEF StaleFirst
    <2>1. PICK f \in E.copies[i] : f.slot = s /\ f.map = NoMap
      BY <1>2 DEF Coming
    <2>2. i \in Tokens(E, s)
      BY PlacesAre DEF Coming, Tokens
    <2>3. i \in Nat /\ i + 1 \in Tokens(D, s) /\ E.copies[i] = D.copies[i + 1]
      BY <2>2, TokensStay
    <2>4. i + 1 \in Coming(D, s)
      <3>1. 1 < i + 1
        <4>1. i \in 1 .. (Len(D.copies) - 1)
          BY <2>2, TailPlaces
        <4> QED BY <4>1
      <3> QED BY <1>1, <2>3, <3>1 DEF SlotInv, StaleFirst
    <2>5. PICK g \in D.copies[i + 1] : g.slot = s /\ g.map = D.map[s]
      BY <2>4 DEF Coming
    <2>6. i + 1 \in DOMAIN D.copies
      BY <2>3 DEF Tokens
    <2>7. f = g
      <3>1. OnePerSlot(D.copies[i + 1])
        BY <2>6
      <3>2. f \in D.copies[i + 1]
        BY <2>1, <2>3
      <3> QED BY <2>1, <2>5, <3>1, <3>2 DEF OnePerSlot
    <2> QED BY <1>1, <2>1, <2>5, <2>7
  <1>5. Writing(E, C, s)
    BY <1>2 DEF Writing
  <1>6. LengthsWhole(E, stage, s)
    <2> DEFINE l == e.index + IF StopAt(e) THEN 0 ELSE 1
    <2>1. l # -1 /\ l = Least(plan.stop[s], plan.limit)
      <3>1. CASE StopAt(e)
        BY <1>1, <1>2, <3>1 DEF Paced, Least
      <3>2. CASE ~StopAt(e)
        BY <1>1, <1>2, <3>2 DEF Paced, Least
      <3> QED BY <3>1, <3>2
    <2>2. \A j \in 1 .. Stages : E.lengths[s][j] = IF j = stage[s] THEN l ELSE D.lengths[s][j]
      <3>1. D.lengths[s] \in [1 .. Stages -> Int]
        BY DecoderFields
      <3>2. E.lengths[s] = [D.lengths[s] EXCEPT ![stage[s]] = l]
        BY <1>2
      <3> HIDE DEF l
      <3> QED BY <3>1, <3>2
    <2> HIDE DEF l
    <2>3. \A j \in 1 .. Stages :
             D.lengths[s][j] # -1 => D.lengths[s][j] = Least(plan.stop[s], plan.limit)
      BY DEF SlotInv, LengthsWhole
    <2>4. plan.stages[1] = "answer" /\ stage[s] > 1 => E.lengths[s][1] # -1
      <3>1. 1 \in 1 .. Stages
        BY PlanIs
      <3> QED BY <2>1, <2>2, <3>1 DEF SlotInv, LengthsWhole
    <2> QED BY <1>1, <1>2, <2>1, <2>2, <2>3, <2>4 DEF LengthsWhole
  <1>7. Staged(E, C, stage, fresh, s)
    <2>1. Staged(D, C, stage, fresh, s)
      BY DEF SlotInv
    <2>2. \A i \in Tokens(E, s) : \A f \in E.copies[i] : f.slot = s =>
               f.map <= stage[s] /\ (s \in fresh => f.map < stage[s])
      BY <2>1, StagedRead
    <2>3. s \notin fresh
      BY <1>1, <2>1 DEF Staged
    <2>4. stage[s] > 0
      BY <1>1
    <2>5. s \in C => s \in E.stopped
      <3> SUFFICES ASSUME s \in C, ~StopAt(e) PROVE FALSE
        BY <1>2
      <3>1. Cardinality(Coming(D, s)) \in Nat
        BY PlacesAre
      <3> QED BY <1>1, <1>2, <3>1 DEF Paced
    <2> QED BY <1>2, <2>2, <2>3, <2>4, <2>5, Zenon DEF Staged
  <1> QED BY <1>3, <1>4, <1>5, <1>6, <1>7 DEF SlotInv

(* What reading copies leaves as it was.                                   *)
Reads(D, E) ==
    /\ E.paused = D.paused /\ E.fed = D.fed /\ E.chosen = D.chosen
    /\ \A s \in Slots : E.map[s] \in {D.map[s], NoMap}

\* Reading a copy keeps the decoder's invariant: the token read is the next one
\* of its answer, or was chosen past an end and is dropped.
LEMMA ReadCopyKeeps ==
    ASSUME plan \in Plans, NEW C, NEW stage, NEW fresh, NEW D, DecInv(D, C, stage, fresh),
           D.copies # <<>>, NEW E, E = ReadCopy(D)
    PROVE  /\ DecInv(E, C, stage, fresh) /\ Reads(D, E)
           /\ Len(E.copies) = Len(D.copies) - 1 /\ Len(D.copies) \in Nat
  <1>1. D \in Decoder /\ \A i \in DOMAIN D.copies : OnePerSlot(D.copies[i])
    BY DEF DecInv
  <1>2. D.copies \in Seq(SUBSET Token) /\ 1 \in DOMAIN D.copies
    BY <1>1, DecoderFields
  <1>3. /\ E.copies = Tail(D.copies) /\ E.fed = D.fed /\ E.paused = D.paused
        /\ E.chosen = D.chosen
        /\ E = [map |-> E.map, fed |-> E.fed, written |-> E.written, paused |-> E.paused,
                stopped |-> E.stopped, inflight |-> E.inflight, chosen |-> E.chosen,
                copies |-> E.copies, answered |-> E.answered, lengths |-> E.lengths]
        /\ E.answered \in SUBSET Slots /\ E.stopped \in SUBSET Slots
        /\ E.map = [s \in Slots |-> E.map[s]] /\ E.written = [s \in Slots |-> E.written[s]]
        /\ E.inflight = [s \in Slots |-> E.inflight[s]]
        /\ E.lengths = [s \in Slots |-> E.lengths[s]]
        /\ \A s \in Slots : ReadSlot(D, E, s)
    BY <1>1, <1>2, ReadCopyIs
  <1>4. ASSUME NEW s \in Slots
        PROVE  /\ SlotInv(E, C, stage, fresh, s) /\ E.map[s] \in {D.map[s], NoMap}
               /\ E.map[s] \in Nat /\ E.written[s] \in Nat /\ E.inflight[s] \in Nat
               /\ E.lengths[s] \in [1 .. Stages -> Int]
    <2>1. SlotInv(D, C, stage, fresh, s) /\ ReadSlot(D, E, s)
      BY <1>3 DEF DecInv
    <2>2. D.map[s] \in Nat /\ D.written[s] \in Nat /\ D.lengths[s] \in [1 .. Stages -> Int]
      BY <1>1, DecoderFields
    <2>3. E.inflight[s] \in Nat
      <3>1. E.inflight[s] = Cardinality(Tokens(E, s))
        <4>1. Cardinality(Tokens(E, s))
                 = IF 1 \in Tokens(D, s) THEN Cardinality(Tokens(D, s)) - 1
                   ELSE Cardinality(Tokens(D, s))
          <5>1. E.copies = Tail(D.copies)
            BY <1>3
          <5> QED BY <1>1, <5>1, ReadMoves
        <4> QED BY <2>1, <4>1 DEF SlotInv, Counted, ReadSlot
      <3>2. E.copies \in Seq(SUBSET Token)
        BY <1>2, <1>3
      <3>3. Tokens(E, s) \in SUBSET (1 .. Len(E.copies)) /\ Len(E.copies) \in Nat
        BY <3>2 DEF Tokens
      <3> QED BY <3>1, <3>3, PlacesFinite
    <2>4. CASE \A e : ~IsRead(D, s, e)
      <3>1. SlotInv(E, C, stage, fresh, s)
        BY <1>1, <1>2, <1>3, <2>1, <2>4, SkipKeeps
      <3>2. Same(D, E, s)
        BY <2>1, <2>4 DEF ReadSlot
      <3> QED BY <2>2, <2>3, <3>1, <3>2 DEF Same
    <2>5. ASSUME NEW e, IsRead(D, s, e)
          PROVE  /\ SlotInv(E, C, stage, fresh, s) /\ E.map[s] \in {D.map[s], NoMap}
                 /\ E.map[s] \in Nat /\ E.written[s] \in Nat
                 /\ E.lengths[s] \in [1 .. Stages -> Int]
      <3>1. e.index \in Nat
        BY <1>1, <1>2, <2>1, <2>5, ReadIsNext
      <3>2. Advances(D, E, s, e)
        BY <2>1, <2>5 DEF ReadSlot
      <3>3. SlotInv(E, C, stage, fresh, s)
        <4>1. CASE Ends(e)
          BY <1>1, <1>2, <1>3, <2>1, <2>5, <4>1, EndsKeeps
        <4>2. CASE ~Ends(e)
          BY <1>1, <1>2, <1>3, <2>1, <2>5, <4>2, GoesOnKeeps
        <4> QED BY <4>1, <4>2
      <3>4. E.map[s] \in {D.map[s], NoMap} /\ E.map[s] \in Nat /\ E.written[s] \in Nat
        BY <2>2, <3>1, <3>2 DEF Advances, Bigger, NoMap
      <3>5. E.lengths[s] \in [1 .. Stages -> Int]
        <4> DEFINE l == e.index + IF StopAt(e) THEN 0 ELSE 1
        <4>1. l \in Int
          BY <3>1
        <4>2. E.lengths[s] = IF Ends(e) THEN [D.lengths[s] EXCEPT ![D.map[s]] = l] ELSE D.lengths[s]
          BY <3>2 DEF Advances
        <4> HIDE DEF l
        <4> QED BY <2>2, <4>1, <4>2
      <3> QED BY <3>3, <3>4, <3>5
    <2> QED BY <2>3, <2>4, <2>5
  <1>5. E \in Decoder
    <2>1. /\ E.map \in [Slots -> Nat] /\ E.written \in [Slots -> Nat] /\ E.inflight \in [Slots -> Nat]
          /\ E.lengths \in [Slots -> [1 .. Stages -> Int]]
      BY <1>3, <1>4
    <2>2. E.copies \in Seq(SUBSET Token)
      BY <1>2, <1>3
    <2> QED BY <1>1, <1>3, <2>1, <2>2, DecoderFields DEF Decoder, Token, Stages
  <1>6. \A i \in DOMAIN E.copies : OnePerSlot(E.copies[i])
    BY <1>1, <1>2, <1>3
  <1> QED BY <1>2, <1>3, <1>4, <1>5, <1>6 DEF DecInv, Reads

-----------------------------------------------------------------------------
(* Reading several copies is reading them one by one.                      *)
ReadsOn(f, D, n) == f = [i \in 0 .. n |-> IF i = 0 THEN D ELSE ReadCopy(f[i - 1])]

\* The function that reads copies one after another is what it says it is.
LEMMA ReadsOnExists ==
    ASSUME NEW D, NEW N \in Nat
    PROVE  \E f : ReadsOn(f, D, N)
  <1> DEFINE Up(f, m) ==
                 /\ f = [i \in 0 .. m |-> f[i]]
                 /\ \A i \in 0 .. m : f[i] = IF i = 0 THEN D ELSE ReadCopy(f[i - 1])
             T == {m \in Nat : \E f : Up(f, m)}
  <1>1. 0 \in T
    <2>1. Up([i \in 0 .. 0 |-> D], 0)
      OBVIOUS
    <2> HIDE DEF Up
    <2> QED BY <2>1
  <1>2. ASSUME NEW m \in Nat, m \in T PROVE m + 1 \in T
    <2>1. PICK f : Up(f, m)
      BY <1>2
    <2> DEFINE last == ReadCopy(f[m])
               h == [i \in 0 .. m + 1 |-> IF i = m + 1 THEN last ELSE f[i]]
    <2>2. ASSUME NEW i \in 0 .. m + 1 PROVE h[i] = IF i = 0 THEN D ELSE ReadCopy(h[i - 1])
      <3>1. CASE i = m + 1
        <4>1. i # 0 /\ i - 1 = m /\ i - 1 \in 0 .. m + 1 /\ i - 1 # m + 1
          BY <3>1
        <4>2. h[i - 1] = f[m] /\ h[i] = ReadCopy(f[m])
          BY <3>1, <4>1
        <4> HIDE DEF h
        <4> QED BY <3>1, <4>1, <4>2
      <3>2. CASE i # m + 1
        <4>1. i \in 0 .. m
          BY <3>2
        <4>2. h[i] = f[i]
          BY <3>2
        <4>3. f[i] = IF i = 0 THEN D ELSE ReadCopy(f[i - 1])
          BY <2>1, <4>1
        <4>4. i # 0 => h[i - 1] = f[i - 1]
          BY <4>1
        <4> HIDE DEF h
        <4> QED BY <4>2, <4>3, <4>4
      <3> QED BY <3>1, <3>2
    <2>3. h = [i \in 0 .. m + 1 |-> h[i]]
      OBVIOUS
    <2> HIDE DEF h
    <2>4. Up(h, m + 1)
      BY <2>2, <2>3
    <2> HIDE DEF Up
    <2> QED BY <2>4
  <1> HIDE DEF T
  <1>3. Nat \subseteq T
    BY <1>1, <1>2, UpTo
  <1>4. PICK f : Up(f, N)
    <2>1. N \in T
      BY <1>3
    <2> QED BY <2>1 DEF T
  <1>5. ReadsOn(f, D, N)
    BY <1>4 DEF ReadsOn
  <1> QED BY <1>5

Landed(D, E, n, C, stage, fresh) ==
    /\ DecInv(E, C, stage, fresh) /\ Reads(D, E) /\ Len(E.copies) = Len(D.copies) - n

\* What reading leaves alone, reading twice leaves alone.
LEMMA ReadsBoth ==
    ASSUME NEW D, NEW E, NEW G, Reads(D, E), Reads(E, G)
    PROVE  Reads(D, G)
  BY DEF Reads

\* Reading any number of copies keeps the decoder's invariant.
LEMMA ReadCopiesKeep ==
    ASSUME plan \in Plans, NEW C, NEW stage, NEW fresh, NEW D, DecInv(D, C, stage, fresh),
           NEW n \in 0 .. Len(D.copies), NEW E, E = ReadCopies(D, n)
    PROVE  Landed(D, E, n, C, stage, fresh)
  <1> DEFINE read == CHOOSE f : ReadsOn(f, D, n)
  <1>1. Len(D.copies) \in Nat /\ n \in Nat
    <2>1. D \in Decoder
      BY DEF DecInv
    <2>2. Len(D.copies) \in Nat
      BY <2>1, DecoderFields
    <2> QED BY <2>2
  <1>2. E = read[n]
    BY Zenon DEF ReadCopies, ReadsOn
  <1>3. ReadsOn(read, D, n)
    BY <1>1, ReadsOnExists
  <1> HIDE DEF read
  <1>4. \A i \in 0 .. n : read[i] = IF i = 0 THEN D ELSE ReadCopy(read[i - 1])
    BY <1>3 DEF ReadsOn
  <1> DEFINE T == {i \in Nat : i <= n => Landed(D, read[i], i, C, stage, fresh)}
  <1>5. 0 \in T
    <2>1. read[0] = D
      BY <1>1, <1>4
    <2>2. Landed(D, D, 0, C, stage, fresh)
      BY <1>1 DEF Landed, Reads
    <2> QED BY <2>1, <2>2
  <1>6. ASSUME NEW i \in Nat, i \in T PROVE i + 1 \in T
    <2> SUFFICES ASSUME i + 1 <= n PROVE Landed(D, read[i + 1], i + 1, C, stage, fresh)
      OBVIOUS
    <2>1. Landed(D, read[i], i, C, stage, fresh)
      BY <1>1, <1>6
    <2>2. read[i + 1] = ReadCopy(read[i])
      <3>1. i + 1 \in 0 .. n /\ i + 1 # 0 /\ (i + 1) - 1 = i
        BY <1>1
      <3> QED BY <1>4, <3>1
    <2> DEFINE G == read[i]
               H == read[i + 1]
    <2>3. Len(G.copies) = Len(D.copies) - i /\ DecInv(G, C, stage, fresh) /\ Reads(D, G)
      BY <2>1 DEF Landed
    <2>4. G.copies # <<>>
      <3>1. Len(G.copies) > 0
        BY <1>1, <2>3
      <3> QED BY <3>1
    <2>5. H = ReadCopy(G)
      BY <2>2
    <2> HIDE DEF G, H
    <2>6. DecInv(H, C, stage, fresh) /\ Reads(G, H) /\ Len(H.copies) = Len(G.copies) - 1
      <3>1. DecInv(G, C, stage, fresh)
        BY <2>3
      <3> QED BY <2>4, <2>5, <3>1, ReadCopyKeeps
    <2>7. Reads(D, H)
      BY <2>3, <2>6, ReadsBoth
    <2>8. Len(H.copies) = Len(D.copies) - (i + 1)
      BY <1>1, <2>3, <2>6
    <2>9. Landed(D, H, i + 1, C, stage, fresh)
      BY <2>6, <2>7, <2>8 DEF Landed
    <2> QED BY <2>9 DEF H
  <1> HIDE DEF T
  <1>7. Nat \subseteq T
    BY <1>5, <1>6, UpTo
  <1>8. n \in T /\ n <= n
    BY <1>1, <1>7
  <1> QED BY <1>2, <1>8 DEF T

-----------------------------------------------------------------------------
(* The arena between the loop's calls: nothing is held or read, only what  *)
(* was retained before may be evicted, and only documents have pages else. *)
Home(A) ==
    /\ ArenaInv(A) /\ A.held = [k \in Keys |-> 0] /\ A.reading = [k \in Keys |-> 0]
    /\ A.retained \subseteq {Earlier} /\ Resident(A) \subseteq Slots \cup {Earlier}

Lodged(A) == Resident(A) \cap Slots

\* What the arena between calls amounts to.
LEMMA HomeIs ==
    ASSUME NEW A, Home(A)
    PROVE  /\ ArenaInv(A) /\ A \in Arena /\ Kept(A) = {} /\ A.deferred = {}
           /\ Resident(A) \in SUBSET Keys /\ A.retained \in SUBSET Resident(A)
           /\ \A s \in Slots : s \notin A.retained
  <1>1. ArenaInv(A) /\ A \in Arena
    BY DEF Home, ArenaInv
  <1>2. Kept(A) = {}
    BY DEF Home, Kept
  <1>3. A.deferred = {}
    BY <1>1, <1>2 DEF ArenaInv
  <1>4. Resident(A) \in SUBSET Keys
    BY <1>1, ArenaFields DEF Resident, Pool
  <1>5. A.retained \in SUBSET Resident(A)
    BY <1>1 DEF ArenaInv, Consistent
  <1>6. \A s \in Slots : s \notin A.retained
    BY SlotsAre DEF Home
  <1> QED BY <1>1, <1>2, <1>3, <1>4, <1>5, <1>6

\* Freed keys have no pages any more, the others keep theirs.
LEMMA FreeHome ==
    ASSUME NEW A, Home(A), NEW V \in SUBSET Resident(A), NEW B, B = FreeAll(A, V)
    PROVE  Home(B) /\ Lodged(B) = Lodged(A) \ V
  <1>1. A \in Arena /\ Kept(A) = {} /\ ArenaInv(A)
    BY HomeIs
  <1>2. ArenaInv(B) /\ Resident(B) = Resident(A) \ V
    BY <1>1, FreeAllKeeps
  <1>3. B.held = A.held /\ B.reading = A.reading
    BY <1>1, FreeAllSheds
  <1>4. B.retained = A.retained \ V
    <2>1. FreedFields(A, B, V \ Kept(A), V \cap Kept(A))
      BY <1>1, FreeAllIs
    <2>2. B.retained = A.retained \ (V \ Kept(A))
      BY <2>1 DEF FreedFields
    <2> QED BY <1>1, <2>2
  <1> QED BY <1>2, <1>3, <1>4 DEF Home, Lodged

\* Evicting retained KV takes no document's pages.
LEMMA EvictHome ==
    ASSUME NEW A, Home(A), NEW enough, NEW B \in EvictUntil(A, enough)
    PROVE  Home(B) /\ Lodged(B) = Lodged(A)
  <1>1. PICK V \in SUBSET Evictable(A) : B = FreeAll(A, V)
    BY DEF EvictUntil
  <1>2. V \in SUBSET Resident(A) /\ V \cap Slots = {}
    BY <1>1, HomeIs DEF Evictable
  <1>3. Home(B) /\ Lodged(B) = Lodged(A) \ V
    BY <1>1, <1>2, FreeHome
  <1> QED BY <1>2, <1>3 DEF Lodged

\* Growing running answers gives no key pages that had none.
LEMMA GrowHome ==
    ASSUME NEW A, Home(A), NEW V \in SUBSET Lodged(A), NEW out \in GrowPages(A, V)
    PROVE  Home(out.arena) /\ Lodged(out.arena) = Lodged(A)
  <1>1. ArenaInv(A) /\ V \in SUBSET Resident(A) /\ V \cap A.retained = {}
    BY HomeIs DEF Lodged
  <1>2. ArenaInv(out.arena)
    BY <1>1, GrowPagesKeeps
  <1> DEFINE n == Cardinality(V)
             Grown(B) == [B EXCEPT !.full = GrowEach(@, V),
                               !.slide = IF HasSliding THEN GrowEach(@, V) ELSE @]
  <1>3. PICK B \in EvictForPages(A, n, n) :
            out = IF Covers(B, n, n) THEN [ok |-> TRUE, arena |-> Grown(B)]
                  ELSE [ok |-> FALSE, arena |-> B]
    BY Zenon DEF GrowPages
  <1> HIDE DEF n
  <1>4. Home(B) /\ Lodged(B) = Lodged(A)
    BY <1>3, EvictHome DEF EvictForPages
  <1>5. CASE out.arena = B
    BY <1>4, <1>5
  <1>6. CASE out.arena = Grown(B)
    <2> DEFINE C == Grown(B)
    <2>1. B \in Arena
      BY <1>4, HomeIs
    <2>2. /\ C.held = B.held /\ C.reading = B.reading /\ C.retained = B.retained
          /\ C.full = GrowEach(B.full, V)
      BY <2>1 DEF Arena
    <2> HIDE DEF C
    <2>3. C.full.resident = B.full.resident
      <3>1. B.full \in Pool(NumPages)
        BY <2>1, ArenaFields
      <3> QED BY <2>2, <3>1 DEF GrowEach, Pool
    <2>4. out.arena = C
      BY <1>6 DEF C
    <2> QED BY <1>2, <1>4, <2>2, <2>3, <2>4 DEF Home, Lodged, Resident
  <1>7. out.arena = B \/ out.arena = Grown(B)
    BY <1>3
  <1> QED BY <1>5, <1>6, <1>7

(* A victim holds nothing a borrower reads: its pages come free at once.   *)
LEMMA VictimHome ==
    ASSUME NEW A, Home(A), NEW s \in Lodged(A), NEW B, B = FreeKey(DropHolds(A, {s}), s)
    PROVE  Home(B) /\ Lodged(B) = Lodged(A) \ {s}
  <1> DEFINE C == DropHolds(A, {s})
  <1>1. ArenaInv(A) /\ A \in Arena /\ A.deferred = {} /\ {s} \in SUBSET Keys /\ s \in Keys
        /\ Resident(A) \in SUBSET Keys
    BY HomeIs DEF Lodged
  <1>2. ArenaInv(C) /\ Dropped(A, C, {s}) /\ SparesBut(A, C, A.deferred)
    BY <1>1, DropHoldsKeeps
  <1> HIDE DEF C
  <1>3. \A k \in Keys : Spares(A, C, k)
    BY <1>1, <1>2 DEF SparesBut
  <1>4. Resident(C) = Resident(A)
    <2>1. C \in Arena
      BY <1>2 DEF ArenaInv
    <2>2. Resident(C) \in SUBSET Keys
      BY <2>1, ArenaFields DEF Resident, Pool
    <2> QED BY <1>1, <1>3, <2>2 DEF Spares
  <1>5. C.retained \subseteq A.retained
    <2>1. C \in Arena
      BY <1>2 DEF ArenaInv
    <2> QED BY <1>3, <2>1, ArenaFields DEF Spares
  <1>6. C.held = [k \in Keys |-> 0] /\ C.reading = [k \in Keys |-> 0]
    <2>1. C.held \in [Keys -> Nat]
      BY <1>2, ArenaFields DEF ArenaInv
    <2>2. \A k \in Keys : C.held[k] = 0
      BY <1>2 DEF Dropped, Home
    <2> QED BY <1>2, <2>1, <2>2 DEF Dropped, Home
  <1>7. Home(C)
    BY <1>2, <1>4, <1>5, <1>6 DEF Home
  <1>8. {s} \in SUBSET Resident(C) /\ B = FreeAll(C, {s})
    BY <1>4 DEF FreeKey, C, Lodged
  <1>9. Home(B) /\ Lodged(B) = Lodged(C) \ {s}
    <2> DEFINE V == {s}
    <2>1. V \in SUBSET Resident(C) /\ B = FreeAll(C, V)
      BY <1>8
    <2> HIDE DEF V
    <2>2. Home(B) /\ Lodged(B) = Lodged(C) \ V
      BY <1>7, <2>1, FreeHome
    <2> QED BY <2>2 DEF V
  <1> QED BY <1>4, <1>9 DEF Lodged

\* A reservation gives the document its pages or leaves them all as they were.
LEMMA ReserveHome ==
    ASSUME NEW A, Home(A), NEW s \in Slots, s \notin Resident(A),
           NEW tokens \in Nat, NEW capacity \in Nat, tokens <= capacity,
           NEW out \in Reserve(A, s, tokens, capacity, 0, 0)
    PROVE  /\ Home(out.arena) /\ out.ok \in BOOLEAN
           /\ Lodged(out.arena) = Lodged(A) \cup IF out.ok THEN {s} ELSE {}
  <1>1. /\ ArenaInv(A) /\ A \in Arena /\ A.deferred = {} /\ s \in Keys
        /\ Resident(A) \in SUBSET Keys /\ A.retained \in SUBSET Resident(A)
        /\ \A t \in Slots : t \notin A.retained /\ t \in Keys
    BY HomeIs, SlotsAre
  <1>2. out \in Reserve(A, s, tokens, capacity, s, 0)
    BY ReserveAlone
  <1>3. Request(A, s, tokens, capacity, s, 0)
    BY <1>1, PageTokensAssumption DEF Request
  <1> DEFINE B == out.arena
  <1>4. ArenaInv(B) /\ Served(A, out, s, tokens)
        /\ Spends(A, out, s, NeedFull(A, s, capacity, 0), NeedSliding(A, s, capacity, 0))
        /\ Fills(A, out, s, s, 0)
    BY <1>1, <1>2, <1>3, ReserveKeeps
  <1> HIDE DEF B
  <1>5. B \in Arena
    BY <1>4 DEF ArenaInv
  <1>6. Resident(B) \in SUBSET Keys /\ B.retained \in SUBSET Resident(B)
    <2>1. Resident(B) \in SUBSET Keys
      BY <1>5, ArenaFields DEF Resident, Pool
    <2> QED BY <1>4, <2>1 DEF ArenaInv, Consistent
  <1>7. B.held = A.held /\ B.reading = A.reading /\ out.ok \in BOOLEAN
    BY <1>4 DEF Served, B
  <1>8. \A k \in Keys : k \notin A.retained /\ k # s =>
            /\ k \in Resident(B) <=> k \in Resident(A)
            /\ k \in B.retained => k \in A.retained
    BY <1>1, <1>4 DEF Spends, SparesBut, Spares, B
  <1>9. ~out.ok => Resident(B) \subseteq Resident(A)
    BY <1>4 DEF Served, Sheds, B
  <1>10. out.ok => s \in Resident(B) /\ s \notin B.retained
    BY <1>1, <1>4 DEF Served, Seats, Fills, B
  <1>11. B.retained \subseteq {Earlier}
    <2> SUFFICES ASSUME NEW k \in B.retained PROVE k \in {Earlier}
      OBVIOUS
    <2>1. k \in Keys /\ k \in Resident(B)
      BY <1>6
    <2>2. CASE k \in A.retained
      BY <2>2 DEF Home
    <2>3. CASE k \notin A.retained
      <3>1. k = s
        BY <1>8, <2>1, <2>3
      <3> QED BY <1>9, <1>10, <2>1, <3>1, <1>7
    <2> QED BY <2>2, <2>3
  <1>12. Lodged(B) = Lodged(A) \cup IF out.ok THEN {s} ELSE {}
    <2>1. \A t \in Slots : t # s => (t \in Resident(B) <=> t \in Resident(A))
      BY <1>1, <1>8
    <2>2. s \in Resident(B) <=> out.ok
      BY <1>9, <1>10
    <2> QED BY <1>7, <2>1, <2>2 DEF Lodged
  <1>13. Resident(B) \subseteq Slots \cup {Earlier}
    <2> SUFFICES ASSUME NEW k \in Resident(B), k \notin Slots, k # Earlier PROVE FALSE
      OBVIOUS
    <2>1. k \in Keys /\ k \notin A.retained /\ k # s
      BY <1>6 DEF Home
    <2>2. k \in Resident(A)
      BY <1>8, <2>1
    <2> QED BY <2>2 DEF Home
  <1> QED BY <1>4, <1>7, <1>11, <1>12, <1>13 DEF Home, B

(* What an earlier operator left.                                          *)
Evictably(A, k) == [A EXCEPT !.pinned = {}, !.retained = {k}, !.size[k] = 1]

EvictableIs(B, k, C) ==
    /\ SamePools(B, C) /\ Shape(C) /\ C.held = B.held /\ C.reading = B.reading
    /\ C.retained = {k} /\ C.pinned = {} /\ C.deferred = B.deferred /\ C.floor = B.floor
    /\ C.trimmed = B.trimmed /\ C.size = [B.size EXCEPT ![k] = 1] /\ C.full = B.full
    /\ C.base = B.base /\ C.start = B.start

\* A key whose pages were retained, field by field.
LEMMA EvictableFields ==
    ASSUME NEW B \in Arena, NEW k, NEW C, C = Evictably(B, k)
    PROVE  EvictableIs(B, k, C)
  <1>1. C = [full |-> B.full, slide |-> B.slide, base |-> B.base, start |-> B.start,
             held |-> B.held, reading |-> B.reading, deferred |-> B.deferred,
             floor |-> B.floor, trimmed |-> B.trimmed, pinned |-> {},
             retained |-> {k}, size |-> [B.size EXCEPT ![k] = 1]]
    BY DEF Arena, Evictably
  <1> QED BY <1>1 DEF SamePools, Shape, EvictableIs

\* The arena before the loop: only what was retained has pages.
LEMMA RetainedHome == Home(RetainedArena) /\ Lodged(RetainedArena) = {}
  <1> DEFINE A == EmptyArena
             k == Earlier
             B == Activate(A, k, PageTokens, PageTokens, k, 0)
             C == [B EXCEPT !.pinned = {}, !.retained = {k}, !.size[k] = 1]
  <1>1. ArenaInv(A) /\ Resident(A) = {} /\ A \in Arena
    BY EmptyArenaFine DEF ArenaInv
  <1>2. k \in Keys /\ k \notin Slots /\ NumSliding = 0 /\ PageTokens \in Nat \ {0}
        /\ NumPages \in Nat \ {0}
    BY DecodingAssumption, PageTokensAssumption, PoolAssumption
  <1>3. C = RetainedArena
    <2>1. B = Activate(A, k, PageTokens, PageTokens, 0, 0)
      BY ReserveAlone
    <2> HIDE DEF B
    <2> QED BY <2>1 DEF RetainedArena
  <1>4. A.held = [l \in Keys |-> 0] /\ A.reading = [l \in Keys |-> 0] /\ A.retained = {}
        /\ A.full.free = 0 .. NumPages - 1 /\ A.deferred = {}
    BY DEF EmptyArena, EmptyPool
  <1>5. Request(A, k, PageTokens, PageTokens, k, 0)
    BY <1>1, <1>2 DEF Request
  <1>6. NeedFull(A, k, PageTokens, 0) = 1
    <2>1. PagesNeeded(PageTokens) = 1
      <3>1. PagesNeeded(PageTokens) \in Nat /\ PageTokens <= PagesNeeded(PageTokens) * PageTokens
            /\ PagesNeeded(PageTokens) * PageTokens < PageTokens + PageTokens
        BY <1>2, PagesNeededBounds
      <3> DEFINE n == PagesNeeded(PageTokens)
      <3>2. n \in Nat /\ PageTokens <= n * PageTokens /\ n * PageTokens < PageTokens + PageTokens
        BY <3>1
      <3> HIDE DEF n
      <3>3. n # 0
        BY <1>2, <3>2
      <3>4. ~ (n >= 2)
        <4> SUFFICES ASSUME n >= 2 PROVE FALSE
          OBVIOUS
        <4>1. PICK m \in Nat : n = m + 2
          <5>1. n - 2 \in Nat /\ n = (n - 2) + 2
            BY <3>2
          <5> QED BY <5>1
        <4>2. n * PageTokens = m * PageTokens + PageTokens + PageTokens
          BY <1>2, <4>1
        <4>3. m * PageTokens \in Nat
          BY <1>2, <4>1
        <4> QED BY <1>2, <3>2, <4>2, <4>3
      <3> QED BY <3>2, <3>3, <3>4 DEF n
    <2>2. 0 \div PageTokens = 0
      BY <1>2
    <2> QED BY <1>1, <2>1, <2>2 DEF NeedFull
  <1>7. Covers(A, 1, NeedSliding(A, k, PageTokens, 0))
    <2>1. FreeCount(A.full) = NumPages
      BY <1>2, <1>4, FS_Interval DEF FreeCount
    <2> QED BY <1>2, <2>1 DEF Covers, HasSliding
  <1> HIDE DEF A
  <1>8. ArenaInv(B) /\ B.held = A.held /\ B.reading = A.reading
    BY <1>1, <1>5, <1>6, <1>7, ActivateKeeps
  <1>9. Resident(B) = {k} /\ B.deferred = {} /\ B.retained = {}
    <2> DEFINE L == AllocBoth(A, k, PageTokens, PageTokens, k, 0)
    <2>1. B = Pin(L, k)
      BY <1>1 DEF Activate
    <2>2. L.full.resident = A.full.resident \cup {k} /\ L.deferred = A.deferred
          /\ L.retained = A.retained /\ L.pinned = A.pinned /\ L.size = A.size
      <3>1. A.full \in Pool(NumPages)
        BY <1>1, ArenaFields
      <3>2. L.full = Alloc(A.full, k, PageTokens, PageTokens, <<>>) /\ L.deferred = A.deferred
            /\ L.retained = A.retained /\ L.pinned = A.pinned /\ L.size = A.size
        BY <1>1 DEF AllocBoth, Arena
      <3>3. Alloc(A.full, k, PageTokens, PageTokens, <<>>).resident = A.full.resident \cup {k}
        BY <3>1 DEF Alloc, Pool
      <3> QED BY <3>2, <3>3
    <2>3. DOMAIN L = DOMAIN A
      BY DEF AllocBoth
    <2> HIDE DEF L
    <2>4. /\ Pin(L, k).full = L.full /\ Pin(L, k).deferred = L.deferred
          /\ Pin(L, k).retained = L.retained \ {k}
      BY <1>1, <2>3 DEF Pin, Arena
    <2> QED BY <1>1, <1>4, <2>1, <2>2, <2>4 DEF Resident
  <1> HIDE DEF B
  <1>10. B \in Arena /\ Marks(B)
    BY <1>8, MarksOf DEF ArenaInv
  <1>14. C = Evictably(B, k)
    BY DEF Evictably
  <1> HIDE DEF C
  <1>11. SamePools(B, C) /\ Shape(C) /\ C.held = B.held /\ C.reading = B.reading
         /\ C.retained = {k} /\ C.pinned = {} /\ C.deferred = B.deferred /\ C.floor = B.floor
         /\ C.trimmed = B.trimmed /\ C.size = [B.size EXCEPT ![k] = 1] /\ C.full = B.full
         /\ C.base = B.base /\ C.start = B.start
    <2>1. EvictableIs(B, k, C)
      BY <1>10, <1>14, EvictableFields
    <2> QED BY <2>1 DEF EvictableIs
  <1>12. Marks(C)
    <2>1. Resident(C) = {k}
      BY <1>9, <1>11 DEF Resident
    <2>2. C.size \in [Keys -> Nat]
      BY <1>2, <1>10, <1>11 DEF Marks
    <2>3. FloorsWhole(C)
      BY <1>10, <1>11 DEF Marks, FloorsWhole
    <2> QED BY <1>9, <1>10, <1>11, <2>1, <2>2, <2>3 DEF Marks
  <1>13. ArenaInv(C) /\ Resident(C) = Resident(B)
    BY <1>8, <1>11, <1>12, MarksKeep
  <1> QED BY <1>2, <1>3, <1>4, <1>8, <1>9, <1>11, <1>13 DEF Home, Lodged

-----------------------------------------------------------------------------
(* The calls between two readings: a slot they leave alone, one whose      *)
(* stage is complete, one whose answer starts, one that goes on, and one   *)
(* whose rows are all in KV again.                                         *)
LEMMA PlacesStill ==
    ASSUME NEW D, NEW E, E.copies = D.copies, NEW s
    PROVE  Tokens(E, s) = Tokens(D, s) /\ (E.map[s] = D.map[s] => Coming(E, s) = Coming(D, s))
  BY DEF Tokens, Coming

Agree(D, E, s) == Same(D, E, s) /\ E.fed[s] = D.fed[s] /\ E.inflight[s] = D.inflight[s]

\* A slot whose answer nothing touched keeps its part of the invariant.
LEMMA SlotSame ==
    ASSUME NEW D, NEW E, E.copies = D.copies, NEW s \in Slots, NEW C, NEW C2, NEW stage,
           NEW stage2, NEW fresh, NEW fresh2, SlotInv(D, C, stage, fresh, s), Agree(D, E, s),
           stage2[s] = stage[s], s \in fresh2 => s \in fresh, s \in C2 <=> s \in C
    PROVE  SlotInv(E, C2, stage2, fresh2, s)
  <1>1. E.map[s] = D.map[s] /\ E.written[s] = D.written[s] /\ E.fed[s] = D.fed[s]
        /\ E.inflight[s] = D.inflight[s] /\ E.lengths[s] = D.lengths[s]
        /\ (s \in E.answered <=> s \in D.answered) /\ (s \in E.stopped <=> s \in D.stopped)
    BY DEF Agree, Same
  <1>2. Tokens(E, s) = Tokens(D, s) /\ Coming(E, s) = Coming(D, s)
    BY <1>1, PlacesStill
  <1>3. Counted(E, s) /\ StaleFirst(E, s)
    BY <1>1, <1>2 DEF SlotInv, Counted, StaleFirst
  <1>4. Writing(E, C2, s)
    BY <1>1, <1>2 DEF SlotInv, Writing, Paced, InSequence
  <1>5. LengthsWhole(E, stage2, s)
    BY <1>1 DEF SlotInv, LengthsWhole
  <1>6. Staged(E, C2, stage2, fresh2, s)
    BY <1>1, <1>2 DEF SlotInv, Staged
  <1> QED BY <1>3, <1>4, <1>5, <1>6 DEF SlotInv

\* A token on its way: a slot, a place in its answer, a stage.
LEMMA TokenStages ==
    ASSUME NEW D \in Decoder, NEW s, NEW i \in Tokens(D, s), NEW e \in D.copies[i]
    PROVE  e.map \in Nat /\ e.slot \in Slots /\ e.index \in Nat
  BY DecoderFields DEF Tokens, Token

\* A slot that goes on to a later stage keeps its part of the invariant.
LEMMA SlotUp ==
    ASSUME NEW D \in Decoder, NEW E, E.copies = D.copies, NEW s \in Slots, NEW C, NEW C2,
           NEW stage, NEW stage2, NEW fresh, NEW fresh2, SlotInv(D, C, stage, fresh, s),
           D.map[s] = NoMap, E.map[s] = NoMap, s \in E.stopped <=> s \in D.stopped,
           E.inflight[s] = D.inflight[s], E.lengths[s] = D.lengths[s], s \notin E.answered,
           stage[s] \in Nat, stage2[s] \in Nat, stage[s] < stage2[s],
           plan.stages[1] = "answer" => D.lengths[s][1] # -1, s \in C2 <=> s \in C
    PROVE  SlotInv(E, C2, stage2, fresh2, s)
  <1>1. Tokens(E, s) = Tokens(D, s) /\ Coming(E, s) = Coming(D, s)
    BY PlacesStill
  <1>2. Counted(E, s) /\ StaleFirst(E, s)
    BY <1>1 DEF SlotInv, Counted, StaleFirst
  <1>3. Writing(E, C2, s)
    BY DEF Writing
  <1>4. LengthsWhole(E, stage2, s)
    BY DEF SlotInv, LengthsWhole
  <1>5. Staged(E, C2, stage2, fresh2, s)
    <2>1. \A i \in Tokens(E, s) : \A e \in E.copies[i] : e.slot = s =>
              e.map <= stage2[s] /\ (s \in fresh2 => e.map < stage2[s])
      <3> SUFFICES ASSUME NEW i \in Tokens(D, s), NEW e \in D.copies[i], e.slot = s
                   PROVE  e.map < stage2[s] /\ e.map <= stage2[s]
        BY <1>1
      <3>1. e.map \in Nat
        BY TokenStages
      <3>2. e.map <= stage[s]
        BY DEF SlotInv, Staged
      <3> QED BY <3>1, <3>2
    <2>2. s \in C => s \in D.stopped
      BY DEF SlotInv, Staged
    <2> QED BY <2>1, <2>2 DEF Staged
  <1> QED BY <1>2, <1>3, <1>4, <1>5 DEF SlotInv

\* A slot whose answer starts in this pass.
LEMMA SlotStarts ==
    ASSUME plan \in Plans, NEW D \in Decoder, NEW E, E.copies = D.copies, NEW s \in Slots,
           NEW C2, NEW stage, NEW fresh, NEW fresh2, SlotInv(D, {}, stage, fresh, s),
           s \in fresh, s \notin fresh2, s \in C2, stage[s] \in 1 .. Stages,
           E.map[s] = stage[s], E.fed[s] = 0, E.written[s] = 0, s \notin E.stopped,
           E.inflight[s] = D.inflight[s], E.lengths[s] = D.lengths[s],
           s \in E.answered <=> s \in D.answered
    PROVE  SlotInv(E, C2, stage, fresh2, s)
  <1>1. Tokens(E, s) = Tokens(D, s)
    BY PlacesStill
  <1>2. Staged(D, {}, stage, fresh, s)
    BY DEF SlotInv
  <1>3. Stages \in Nat /\ stage[s] # NoMap
    BY PlanIs DEF NoMap
  <1>4. Coming(E, s) = {}
    <2> SUFFICES ASSUME NEW i \in Coming(E, s) PROVE FALSE
      OBVIOUS
    <2>1. PICK e \in D.copies[i] : e.slot = s /\ e.map = stage[s]
      BY DEF Coming
    <2>2. i \in Tokens(D, s)
      BY <2>1 DEF Coming, Tokens
    <2>3. e.map < stage[s]
      BY <1>2, <2>1, <2>2 DEF Staged
    <2> QED BY <1>3, <2>1, <2>3
  <1>5. Counted(E, s) /\ StaleFirst(E, s)
    BY <1>1, <1>4 DEF SlotInv, Counted, StaleFirst
  <1>6. Writing(E, C2, s)
    <2>1. plan.stop[s] \in Nat /\ plan.limit \in Nat \ {0}
      BY PlanIs
    <2>2. Cardinality(Coming(E, s)) = 0
      BY <1>4, FS_EmptySet
    <2>3. Paced(E, C2, s)
      BY <2>1, <2>2 DEF Paced
    <2> QED BY <1>4, <2>3 DEF Writing, InSequence
  <1>7. LengthsWhole(E, stage, s)
    BY <1>2 DEF SlotInv, LengthsWhole, Staged
  <1>8. Staged(E, C2, stage, fresh2, s)
    BY <1>1, <1>2, <1>3 DEF Staged
  <1> QED BY <1>5, <1>6, <1>7, <1>8 DEF SlotInv

(* A row more: the token it chooses is counted as this pass's.             *)
LEMMA SlotFeeds ==
    ASSUME plan \in Plans, NEW D \in Decoder, NEW E, E.copies = D.copies, NEW s \in Slots,
           NEW C2, NEW stage, NEW fresh, NEW fresh2, SlotInv(D, {}, stage, fresh, s),
           s \in fresh2 => s \in fresh, s \in C2, Same(D, E, s), D.map[s] # NoMap,
           E.inflight[s] = D.inflight[s], E.fed[s] \in Nat, E.fed[s] < plan.limit,
           E.fed[s] = D.written[s] + Cardinality(Coming(D, s))
    PROVE  SlotInv(E, C2, stage, fresh2, s)
  <1>1. E.map[s] = D.map[s] /\ E.written[s] = D.written[s] /\ E.lengths[s] = D.lengths[s]
        /\ (s \in E.answered <=> s \in D.answered) /\ (s \in E.stopped <=> s \in D.stopped)
    BY DEF Same
  <1>2. Tokens(E, s) = Tokens(D, s) /\ Coming(E, s) = Coming(D, s)
    BY <1>1, PlacesStill
  <1>3. Counted(E, s) /\ StaleFirst(E, s)
    BY <1>1, <1>2 DEF SlotInv, Counted, StaleFirst
  <1>4. Paced(D, {}, s) /\ InSequence(D, s) /\ stage[s] \in 1 .. Stages
    BY DEF SlotInv, Writing, Staged
  <1>5. Writing(E, C2, s)
    <2>1. InSequence(E, s)
      BY <1>1, <1>2, <1>4 DEF InSequence
    <2>2. Paced(E, C2, s)
      BY <1>1, <1>2, <1>4 DEF Paced
    <2> QED BY <2>1, <2>2 DEF Writing
  <1>6. LengthsWhole(E, stage, s)
    BY <1>1 DEF SlotInv, LengthsWhole
  <1>7. Staged(E, C2, stage, fresh2, s)
    <2>1. stage[s] > 0
      BY <1>4
    <2> QED BY <1>1, <1>2, <2>1 DEF SlotInv, Staged
  <1> QED BY <1>3, <1>5, <1>6, <1>7 DEF SlotInv

Fed(D, R) == [D EXCEPT !.fed = [s \in Slots |-> IF s \in R THEN @[s] + 1 ELSE @[s]]]

\* The decoder after a pass is built, field by field (_build).
LEMMA BuiltIs ==
    ASSUME NEW D \in Decoder, NEW R, NEW V, NEW groups,
           NEW E, E = StartAnswers(Resume(Fed(D, R), V), groups)
    PROVE  LET start == SlotsOf(groups) IN
           E = [map |-> [s \in Slots |-> IF s \in start
                                         THEN (CHOOSE g \in groups : g.slot = s).stage
                                         ELSE D.map[s]],
                fed |-> [s \in Slots |-> IF s \in start THEN 0
                                         ELSE IF s \in V THEN D.written[s]
                                         ELSE IF s \in R THEN D.fed[s] + 1 ELSE D.fed[s]],
                written |-> [s \in Slots |-> IF s \in start THEN 0 ELSE D.written[s]],
                paused |-> D.paused \ V, stopped |-> D.stopped \ start,
                inflight |-> D.inflight, chosen |-> D.chosen, copies |-> D.copies,
                answered |-> D.answered, lengths |-> D.lengths]
  <1> DEFINE start == SlotsOf(groups)
  <1>1. D = [map |-> D.map, fed |-> D.fed, written |-> D.written, paused |-> D.paused,
             stopped |-> D.stopped, inflight |-> D.inflight, chosen |-> D.chosen,
             copies |-> D.copies, answered |-> D.answered, lengths |-> D.lengths]
    BY DEF Decoder
  <1> DEFINE fed1 == [s \in Slots |-> IF s \in R THEN D.fed[s] + 1 ELSE D.fed[s]]
             fed2 == [s \in Slots |-> IF s \in V THEN D.written[s] ELSE fed1[s]]
             F == Fed(D, R)
             G == Resume(F, V)
  <1>2. F = [map |-> D.map, fed |-> fed1, written |-> D.written, paused |-> D.paused,
             stopped |-> D.stopped, inflight |-> D.inflight, chosen |-> D.chosen,
             copies |-> D.copies, answered |-> D.answered, lengths |-> D.lengths]
    BY <1>1 DEF Fed
  <1> HIDE DEF F, fed1
  <1>3. G = [map |-> D.map, fed |-> fed2, written |-> D.written, paused |-> D.paused \ V,
             stopped |-> D.stopped, inflight |-> D.inflight, chosen |-> D.chosen,
             copies |-> D.copies, answered |-> D.answered, lengths |-> D.lengths]
    <2>1. F.written = D.written /\ F.fed = fed1
      BY <1>2
    <2>2. G = [F EXCEPT !.fed = fed2, !.paused = @ \ V]
      BY <2>1, Zenon DEF Resume
    <2> HIDE DEF G, fed2
    <2> QED BY <1>2, <2>2
  <1> HIDE DEF G, fed2
  <1> DEFINE map3 == [s \in Slots |-> IF s \in start
                                      THEN (CHOOSE g \in groups : g.slot = s).stage ELSE D.map[s]]
             fed3 == [s \in Slots |-> IF s \in start THEN 0 ELSE fed2[s]]
             written3 == [s \in Slots |-> IF s \in start THEN 0 ELSE D.written[s]]
  <1>4. E = [map |-> map3, fed |-> fed3, written |-> written3, paused |-> D.paused \ V,
             stopped |-> D.stopped \ start, inflight |-> D.inflight, chosen |-> D.chosen,
             copies |-> D.copies, answered |-> D.answered, lengths |-> D.lengths]
    <2>1. E = StartAnswers(G, groups)
      BY DEF G, F
    <2>2. G.map = D.map /\ G.fed = fed2 /\ G.written = D.written
      BY <1>3
    <2> DEFINE map4 == [s \in Slots |-> IF s \in start
                                        THEN (CHOOSE g \in groups : g.slot = s).stage ELSE G.map[s]]
               fed4 == [s \in Slots |-> IF s \in start THEN 0 ELSE G.fed[s]]
               written4 == [s \in Slots |-> IF s \in start THEN 0 ELSE G.written[s]]
    <2>4. E = [G EXCEPT !.map = map4, !.fed = fed4, !.written = written4, !.stopped = @ \ start]
      BY <2>1 DEF StartAnswers
    <2>5. map4 = map3 /\ fed4 = fed3 /\ written4 = written3
      BY <2>2
    <2>3. E = [G EXCEPT !.map = map3, !.fed = fed3, !.written = written3, !.stopped = @ \ start]
      BY <2>4, <2>5
    <2> HIDE DEF start, map3, fed3, written3
    <2> QED BY <1>3, <2>3
  <1>5. fed3 = [s \in Slots |-> IF s \in start THEN 0
                                ELSE IF s \in V THEN D.written[s]
                                ELSE IF s \in R THEN D.fed[s] + 1 ELSE D.fed[s]]
    BY DEF fed1, fed2
  <1> QED BY <1>4, <1>5

(* A pass is built: rows go on, answers resume, answers start.             *)
LEMMA BuildKeeps ==
    ASSUME plan \in Plans, NEW stage \in [Slots -> Nat], NEW fresh, NEW D,
           DecInv(D, {}, stage, fresh), NEW R, NEW V, NEW groups,
           R \subseteq Running(D),
           \A s \in V : s \in D.paused /\ D.map[s] # NoMap /\ D.inflight[s] = 0,
           \A g \in groups : g.slot \in Slots /\ g.slot \in fresh /\ g.stage = stage[g.slot]
                                /\ g.stage \in 1 .. Stages,
           NEW E, E = StartAnswers(Resume(Fed(D, R), V), groups)
    PROVE  DecInv(E, R \cup V \cup SlotsOf(groups), stage, fresh \ SlotsOf(groups))
  <1> DEFINE start == SlotsOf(groups)
             C == R \cup V \cup start
             fresh2 == fresh \ start
  <1>1. D \in Decoder /\ \A i \in DOMAIN D.copies : OnePerSlot(D.copies[i])
    BY DEF DecInv
  <1>2. \A s \in start : /\ s \in Slots /\ s \in fresh /\ stage[s] \in 1 .. Stages
                         /\ (CHOOSE g \in groups : g.slot = s).stage = stage[s]
    BY DEF SlotsOf
  <1> DEFINE map == [s \in Slots |-> IF s \in start THEN (CHOOSE g \in groups : g.slot = s).stage
                                     ELSE D.map[s]]
             fed == [s \in Slots |-> IF s \in start THEN 0
                                     ELSE IF s \in V THEN D.written[s]
                                     ELSE IF s \in R THEN D.fed[s] + 1 ELSE D.fed[s]]
             written == [s \in Slots |-> IF s \in start THEN 0 ELSE D.written[s]]
  <1>3. E = [map |-> map, fed |-> fed, written |-> written, paused |-> D.paused \ V,
             stopped |-> D.stopped \ start, inflight |-> D.inflight, chosen |-> D.chosen,
             copies |-> D.copies, answered |-> D.answered, lengths |-> D.lengths]
    BY <1>1, BuiltIs
  <1>4. \A s \in Slots :
           /\ map[s] = IF s \in start THEN stage[s] ELSE D.map[s]
           /\ fed[s] = IF s \in start THEN 0
                       ELSE IF s \in V THEN D.written[s]
                       ELSE IF s \in R THEN D.fed[s] + 1 ELSE D.fed[s]
           /\ written[s] = IF s \in start THEN 0 ELSE D.written[s]
    BY <1>2
  <1>5. map \in [Slots -> Nat] /\ fed \in [Slots -> Nat] /\ written \in [Slots -> Nat]
    <2>1. /\ D.map \in [Slots -> Nat] /\ D.fed \in [Slots -> Nat] /\ D.written \in [Slots -> Nat]
      BY <1>1, DecoderFields
    <2>2. \A s \in Slots : map[s] \in Nat /\ fed[s] \in Nat /\ written[s] \in Nat
      BY <1>4, <2>1
    <2> QED BY <2>2
  <1> HIDE DEF map, fed, written, start
  <1>6. E.map = map /\ E.fed = fed /\ E.written = written /\ E.paused = D.paused \ V
        /\ E.stopped = D.stopped \ start /\ E.inflight = D.inflight /\ E.chosen = D.chosen
        /\ E.copies = D.copies /\ E.answered = D.answered /\ E.lengths = D.lengths
    BY <1>3
  <1>7. E \in Decoder
    <2>1. /\ D.paused \in SUBSET Slots /\ D.stopped \in SUBSET Slots
          /\ D.inflight \in [Slots -> Nat] /\ D.chosen \in [Slots -> Nat]
          /\ D.copies \in Seq(SUBSET [slot : Slots, index : Nat, map : Nat])
          /\ D.answered \in SUBSET Slots
          /\ D.lengths \in [Slots -> [1 .. Len(plan.stages) -> Int]]
      BY <1>1 DEF Decoder
    <2>2. D.paused \ V \in SUBSET Slots /\ D.stopped \ start \in SUBSET Slots
      BY <2>1
    <2> QED BY <1>3, <1>5, <2>1, <2>2 DEF Decoder
  <1>8. ASSUME NEW s \in Slots PROVE SlotInv(E, C, stage, fresh2, s)
    <2>1. SlotInv(D, {}, stage, fresh, s)
      BY DEF DecInv
    <2>2. D.fed[s] \in Nat /\ D.written[s] \in Nat /\ plan.limit \in Nat
      BY <1>1, DecoderFields, PlanIs
    <2>3. CASE s \in start
      <3>1. E.map[s] = stage[s] /\ E.fed[s] = 0 /\ E.written[s] = 0 /\ s \notin E.stopped
            /\ stage[s] \in 1 .. Stages /\ s \in fresh /\ s \notin fresh2 /\ s \in C
        BY <1>2, <1>4, <1>6, <2>3
      <3> HIDE DEF C, fresh2
      <3> QED BY <1>1, <1>6, <2>1, <3>1, SlotStarts
    <2>4. CASE s \notin start
      <3>1. Same(D, E, s) /\ (s \in fresh2 => s \in fresh)
        BY <1>4, <1>6, <2>4 DEF Same
      <3>2. CASE s \in V
        <4>1. D.map[s] # NoMap /\ D.inflight[s] = 0 /\ E.fed[s] = D.written[s] /\ s \in C
          BY <1>4, <1>6, <2>4, <3>2
        <4>2. Cardinality(Coming(D, s)) = 0
          <5>1. Cardinality(Tokens(D, s)) = 0
            BY <2>1, <4>1 DEF SlotInv, Counted
          <5>2. Coming(D, s) \in SUBSET Tokens(D, s) /\ Tokens(D, s) = {}
            BY <1>1, <5>1, PlacesAre
          <5> QED BY <5>2, FS_EmptySet
        <4>3. E.fed[s] < plan.limit
          BY <2>1, <4>1 DEF SlotInv, Writing, Paced
        <4>4. E.fed[s] = D.written[s] + Cardinality(Coming(D, s)) /\ E.fed[s] \in Nat
          BY <2>2, <4>1, <4>2
        <4> HIDE DEF C, fresh2
        <4> QED BY <1>1, <1>6, <2>1, <3>1, <4>1, <4>3, <4>4, SlotFeeds
      <3>3. CASE s \notin V /\ s \in R
        <4>1. D.map[s] # NoMap /\ D.fed[s] + 1 < plan.limit /\ E.fed[s] = D.fed[s] + 1 /\ s \in C
          BY <1>4, <1>6, <2>4, <3>3 DEF Running
        <4>2. E.fed[s] = D.written[s] + Cardinality(Coming(D, s)) /\ E.fed[s] \in Nat
              /\ E.fed[s] < plan.limit
          BY <2>1, <2>2, <4>1 DEF SlotInv, Writing, Paced
        <4> HIDE DEF C, fresh2
        <4> QED BY <1>1, <1>6, <2>1, <3>1, <4>1, <4>2, SlotFeeds
      <3>4. CASE s \notin V /\ s \notin R
        <4>1. Agree(D, E, s) /\ s \notin C
          BY <1>4, <1>6, <2>4, <3>1, <3>4 DEF Agree
        <4> HIDE DEF C, fresh2
        <4> QED BY <1>6, <2>1, <3>1, <4>1, SlotSame
      <3> QED BY <3>2, <3>3, <3>4
    <2> QED BY <2>3, <2>4
  <1> QED BY <1>1, <1>6, <1>7, <1>8 DEF DecInv, start

-----------------------------------------------------------------------------
(* The tokens a pass chose start their way to the host.                    *)
TokensOf(D, C) == {[slot |-> s, index |-> D.fed[s], map |-> D.map[s]] : s \in C}

SentOn(D, C) ==
    [D EXCEPT !.copies = Append(@, TokensOf(D, C)),
              !.inflight = [s \in Slots |-> IF s \in C THEN @[s] + 1 ELSE @[s]],
              !.chosen = [s \in Slots |-> IF s \in C THEN D.fed[s] ELSE @[s]]]

SentShape(D, C, E) ==
    /\ E.copies = Append(D.copies, TokensOf(D, C))
    /\ E.inflight = [s \in Slots |-> IF s \in C THEN D.inflight[s] + 1 ELSE D.inflight[s]]
    /\ E.map = D.map /\ E.fed = D.fed /\ E.written = D.written /\ E.paused = D.paused
    /\ E.stopped = D.stopped /\ E.answered = D.answered /\ E.lengths = D.lengths
    /\ E \in Decoder /\ TokensOf(D, C) \in SUBSET Token

\* The decoder after tokens were sent, field by field (map_decoder.py submit).
LEMMA SentIs ==
    ASSUME NEW D \in Decoder, NEW C \in SUBSET Slots, NEW E, E = SentOn(D, C)
    PROVE  SentShape(D, C, E)
  <1>1. D = [map |-> D.map, fed |-> D.fed, written |-> D.written, paused |-> D.paused,
             stopped |-> D.stopped, inflight |-> D.inflight, chosen |-> D.chosen,
             copies |-> D.copies, answered |-> D.answered, lengths |-> D.lengths]
    BY DEF Decoder
  <1> DEFINE inflight == [s \in Slots |-> IF s \in C THEN D.inflight[s] + 1 ELSE D.inflight[s]]
             chosen == [s \in Slots |-> IF s \in C THEN D.fed[s] ELSE D.chosen[s]]
             copies == Append(D.copies, TokensOf(D, C))
  <1>2. E = [map |-> D.map, fed |-> D.fed, written |-> D.written, paused |-> D.paused,
             stopped |-> D.stopped, inflight |-> inflight, chosen |-> chosen,
             copies |-> copies, answered |-> D.answered, lengths |-> D.lengths]
    BY <1>1 DEF SentOn
  <1>3. TokensOf(D, C) \in SUBSET Token
    <2> SUFFICES ASSUME NEW s \in C PROVE [slot |-> s, index |-> D.fed[s], map |-> D.map[s]] \in Token
      BY DEF TokensOf
    <2>1. s \in Slots /\ D.fed[s] \in Nat /\ D.map[s] \in Nat
      BY DecoderFields
    <2> QED BY <2>1 DEF Token
  <1>4. /\ inflight \in [Slots -> Nat] /\ chosen \in [Slots -> Nat]
        /\ copies \in Seq(SUBSET Token)
    BY <1>3, DecoderFields
  <1> HIDE DEF inflight, chosen, copies
  <1>5. E \in Decoder
    BY <1>2, <1>4, DecoderFields DEF Decoder, Token, Stages
  <1> QED BY <1>2, <1>3, <1>5 DEF inflight, copies, SentShape

(* One place more: the slots this pass chose a token for.                  *)
LEMMA LastPlaces ==
    ASSUME NEW D \in Decoder, NEW C \in SUBSET Slots, NEW E, E = SentOn(D, C), NEW s \in Slots
    PROVE  LET n == Len(D.copies) IN
           /\ n \in Nat /\ DOMAIN E.copies = 1 .. (n + 1)
           /\ E.copies[n + 1] = TokensOf(D, C)
           /\ \A i \in 1 .. n : E.copies[i] = D.copies[i]
           /\ Tokens(E, s) = IF s \in C THEN Tokens(D, s) \cup {n + 1} ELSE Tokens(D, s)
           /\ Coming(E, s) = IF s \in C THEN Coming(D, s) \cup {n + 1} ELSE Coming(D, s)
           /\ s \in C => \A e \in TokensOf(D, C) :
                            e.slot = s => e.index = D.fed[s] /\ e.map = D.map[s]
  <1> DEFINE n == Len(D.copies)
             new == TokensOf(D, C)
  <1>1. E.copies = Append(D.copies, new) /\ E.map = D.map /\ new \in SUBSET Token
    <2>1. SentShape(D, C, E)
      BY SentIs
    <2> QED BY <2>1 DEF SentShape
  <1>2. D.copies \in Seq(SUBSET Token) /\ n \in Nat /\ DOMAIN D.copies = 1 .. n
    BY DecoderFields
  <1>3. /\ (\E e \in new : e.slot = s) => s \in C
        /\ s \in C => \E e \in new : e.slot = s /\ e.map = D.map[s]
        /\ \A e \in new : e.slot = s => e.index = D.fed[s] /\ e.map = D.map[s]
    <2>1. ASSUME NEW e \in new, e.slot = s
          PROVE  s \in C /\ e.index = D.fed[s] /\ e.map = D.map[s]
      BY <2>1 DEF TokensOf
    <2>2. ASSUME s \in C PROVE \E e \in new : e.slot = s /\ e.map = D.map[s]
      <3> DEFINE e == [slot |-> s, index |-> D.fed[s], map |-> D.map[s]]
      <3>1. e \in new
        BY <2>2 DEF TokensOf
      <3>2. e.slot = s /\ e.map = D.map[s]
        OBVIOUS
      <3> HIDE DEF e, new
      <3> QED BY <3>1, <3>2
    <2> HIDE DEF new
    <2> QED BY <2>1, <2>2
  <1> HIDE DEF new
  <1>4. /\ DOMAIN E.copies = 1 .. (n + 1) /\ E.copies[n + 1] = new
        /\ \A i \in 1 .. n : E.copies[i] = D.copies[i]
    BY <1>1, <1>2
  <1> HIDE DEF n
  <1>5. \A i : i \in 1 .. (n + 1) <=> i \in 1 .. n \/ i = n + 1
    BY <1>2
  <1>6. Tokens(E, s) = IF s \in C THEN Tokens(D, s) \cup {n + 1} ELSE Tokens(D, s)
    <2>1. \A i : i \in Tokens(E, s) <=> i \in Tokens(D, s) \/ (i = n + 1 /\ s \in C)
      BY <1>2, <1>3, <1>4, <1>5, Zenon DEF Tokens
    <2> QED BY <2>1
  <1>7. Coming(E, s) = IF s \in C THEN Coming(D, s) \cup {n + 1} ELSE Coming(D, s)
    <2>1. \A i : i \in Coming(E, s) <=> i \in Coming(D, s) \/ (i = n + 1 /\ s \in C)
      BY <1>1, <1>2, <1>3, <1>4, <1>5, Zenon DEF Coming
    <2> QED BY <2>1
  <1> QED BY <1>2, <1>3, <1>4, <1>6, <1>7 DEF n, new

\* Sending the chosen tokens keeps the invariant: each is the next of its answer.
LEMMA SentKeeps ==
    ASSUME plan \in Plans, NEW stage \in [Slots -> Nat], NEW fresh, NEW D, NEW C \in SUBSET Slots,
           DecInv(D, C, stage, fresh), NEW E, E = SentOn(D, C)
    PROVE  DecInv(E, {}, stage, fresh)
  <1> DEFINE n == Len(D.copies)
  <1>1. D \in Decoder /\ \A i \in DOMAIN D.copies : OnePerSlot(D.copies[i])
    BY DEF DecInv
  <1>2. /\ E.inflight = [s \in Slots |-> IF s \in C THEN D.inflight[s] + 1 ELSE D.inflight[s]]
        /\ E.map = D.map /\ E.fed = D.fed /\ E.written = D.written
        /\ E.stopped = D.stopped /\ E.answered = D.answered /\ E.lengths = D.lengths
        /\ E \in Decoder
    <2>1. SentShape(D, C, E)
      BY <1>1, SentIs
    <2> QED BY <2>1 DEF SentShape
  <1>3. n \in Nat /\ DOMAIN D.copies = 1 .. n
    BY <1>1, DecoderFields
  <1>4. \A i \in DOMAIN E.copies : OnePerSlot(E.copies[i])
    <2>1. OnePerSlot(TokensOf(D, C))
      BY DEF OnePerSlot, TokensOf
    <2>2. E.copies = Append(D.copies, TokensOf(D, C))
      <3>1. SentShape(D, C, E)
        BY <1>1, SentIs
      <3> QED BY <3>1 DEF SentShape
    <2>3. D.copies \in Seq(SUBSET Token)
      BY <1>1, DecoderFields
    <2>4. DOMAIN E.copies = 1 .. (n + 1) /\ E.copies[n + 1] = TokensOf(D, C)
          /\ \A i \in 1 .. n : E.copies[i] = D.copies[i]
      BY <2>2, <2>3
    <2>5. \A i \in 1 .. (n + 1) : i \in 1 .. n \/ i = n + 1
      BY <1>3
    <2> QED BY <1>1, <1>3, <2>1, <2>4, <2>5, Zenon
  <1>5. ASSUME NEW s \in Slots, s \notin C PROVE SlotInv(E, {}, stage, fresh, s)
    <2>1. /\ Tokens(E, s) = Tokens(D, s) /\ Coming(E, s) = Coming(D, s)
          /\ \A i \in 1 .. n : E.copies[i] = D.copies[i]
      BY <1>1, <1>5, LastPlaces
    <2>2. Tokens(D, s) \in SUBSET (1 .. n) /\ Coming(D, s) \in SUBSET (1 .. n)
      BY <1>1, PlacesAre
    <2>3. SlotInv(D, C, stage, fresh, s) /\ E.inflight[s] = D.inflight[s]
      BY <1>2, <1>5 DEF DecInv
    <2>4. Counted(E, s) /\ StaleFirst(E, s)
      BY <1>2, <2>1, <2>3 DEF SlotInv, Counted, StaleFirst
    <2>5. Writing(E, {}, s)
      <3> SUFFICES ASSUME D.map[s] # NoMap PROVE Paced(E, {}, s) /\ InSequence(E, s)
        BY <1>2 DEF Writing
      <3>1. Paced(D, C, s) /\ InSequence(D, s)
        BY <2>3 DEF SlotInv, Writing
      <3>2. Paced(E, {}, s)
        BY <1>2, <1>5, <2>1, <3>1 DEF Paced
      <3>3. ASSUME NEW i \in Coming(E, s), NEW e \in E.copies[i], e.slot = s
            PROVE  e.index = E.written[s] + Cardinality(Before(Coming(E, s), i))
        <4>1. i \in Coming(D, s) /\ e \in D.copies[i]
          BY <2>1, <2>2, <3>3
        <4>2. e.index = D.written[s] + Cardinality(Before(Coming(D, s), i))
          BY <3>1, <3>3, <4>1 DEF InSequence
        <4> QED BY <1>2, <2>1, <4>2
      <3>4. InSequence(E, s)
        BY <3>3 DEF InSequence
      <3> QED BY <3>2, <3>4
    <2>6. LengthsWhole(E, stage, s)
      BY <1>2, <2>3 DEF SlotInv, LengthsWhole
    <2>7. Staged(E, {}, stage, fresh, s)
      BY <1>2, <2>1, <2>2, <2>3, Zenon DEF SlotInv, Staged
    <2> QED BY <2>4, <2>5, <2>6, <2>7 DEF SlotInv
  <1>6. ASSUME NEW s \in C PROVE SlotInv(E, {}, stage, fresh, s)
    <2> DEFINE T == Tokens(D, s)
               S == Coming(D, s)
    <2>0. s \in Slots
      OBVIOUS
    <2>1. /\ Tokens(E, s) = T \cup {n + 1} /\ Coming(E, s) = S \cup {n + 1}
          /\ \A i \in 1 .. n : E.copies[i] = D.copies[i]
          /\ \A e \in E.copies[n + 1] : e.slot = s => e.index = D.fed[s] /\ e.map = D.map[s]
      BY <1>1, <2>0, LastPlaces
    <2>2. T \in SUBSET (1 .. n) /\ S \in SUBSET (1 .. n)
      BY <1>1, PlacesAre
    <2>3. SlotInv(D, C, stage, fresh, s) /\ E.inflight[s] = D.inflight[s] + 1
      BY <1>2, <2>0 DEF DecInv
    <2>4. /\ Cardinality(T \cup {n + 1}) = Cardinality(T) + 1
          /\ Cardinality(S \cup {n + 1}) = Cardinality(S) + 1
          /\ Before(S \cup {n + 1}, n + 1) = S
          /\ \A i \in S : Before(S \cup {n + 1}, i) = Before(S, i)
      BY <1>3, <2>2, LastCount
    <2>5. Counted(E, s)
      BY <2>1, <2>3, <2>4 DEF SlotInv, Counted
    <2>6. Staged(D, C, stage, fresh, s) /\ stage[s] > 0 /\ stage[s] \in Nat
      BY <2>0, <2>3 DEF SlotInv, Staged
    <2>7. StaleFirst(E, s)
      <3>1. ASSUME D.map[s] # NoMap, NEW i \in S \cup {n + 1}, NEW k \in T \cup {n + 1}, i < k
            PROVE  k \in S \cup {n + 1}
        <4>1. CASE k \in T /\ i \in S
          BY <2>3, <3>1, <4>1 DEF SlotInv, StaleFirst
        <4>2. k \in T => i # n + 1
          BY <1>3, <2>2, <3>1
        <4> QED BY <4>1, <4>2
      <3>2. D.map[s] = NoMap => s \in D.stopped
        BY <2>6 DEF Staged
      <3> QED BY <1>2, <2>1, <3>1, <3>2 DEF StaleFirst
    <2>8. Writing(E, {}, s)
      <3> SUFFICES ASSUME D.map[s] # NoMap PROVE Paced(E, {}, s) /\ InSequence(E, s)
        BY <1>2 DEF Writing
      <3>1. Paced(D, C, s) /\ InSequence(D, s)
        BY <2>3 DEF SlotInv, Writing
      <3>2. D.fed[s] \in Nat /\ D.written[s] \in Nat /\ Cardinality(S) \in Nat
        BY <1>1, <2>0, DecoderFields, PlacesAre
      <3>3. D.fed[s] = D.written[s] + Cardinality(S)
        BY <3>1, <3>2 DEF Paced
      <3>4. Paced(E, {}, s)
        <4>1. Cardinality(Coming(E, s)) = Cardinality(S) + 1
          BY <2>1, <2>4
        <4> HIDE DEF S, T
        <4> QED BY <1>2, <3>1, <3>2, <3>3, <4>1 DEF Paced
      <3>5. ASSUME NEW i \in Coming(E, s), NEW e \in E.copies[i], e.slot = s
            PROVE  e.index = E.written[s] + Cardinality(Before(Coming(E, s), i))
        <4>1. CASE i = n + 1
          <5>1. e.index = D.fed[s]
            BY <2>1, <3>5, <4>1
          <5>2. Before(Coming(E, s), i) = S
            BY <2>1, <2>4, <4>1
          <5> QED BY <1>2, <3>3, <5>1, <5>2
        <4>2. CASE i \in S
          <5>1. e \in D.copies[i]
            BY <2>1, <2>2, <4>2
          <5>2. e.index = D.written[s] + Cardinality(Before(S, i))
            BY <3>1, <3>5, <4>2, <5>1 DEF InSequence
          <5>3. Before(Coming(E, s), i) = Before(S, i)
            BY <2>1, <2>4, <4>2
          <5> QED BY <1>2, <5>2, <5>3
        <4> QED BY <2>1, <4>1, <4>2
      <3> QED BY <3>4, <3>5 DEF InSequence
    <2>9. LengthsWhole(E, stage, s)
      BY <1>2, <2>3 DEF SlotInv, LengthsWhole
    <2>10. Staged(E, {}, stage, fresh, s)
      <3>1. ASSUME NEW i \in Tokens(E, s), NEW e \in E.copies[i], e.slot = s
            PROVE  e.map <= stage[s] /\ (s \in fresh => e.map < stage[s])
        <4>1. CASE i = n + 1
          <5>1. e.map = D.map[s]
            BY <2>1, <3>1, <4>1
          <5>2. D.map[s] = NoMap \/ (D.map[s] = stage[s] /\ s \notin fresh)
            BY <2>6 DEF Staged
          <5> QED BY <2>6, <5>1, <5>2 DEF NoMap
        <4>2. CASE i \in T
          <5>1. e \in D.copies[i]
            BY <2>1, <2>2, <4>2
          <5> QED BY <2>6, <3>1, <4>2, <5>1 DEF Staged
        <4> QED BY <2>1, <4>1, <4>2
      <3> QED BY <1>2, <2>6, <3>1 DEF Staged
    <2> QED BY <2>5, <2>7, <2>8, <2>9, <2>10 DEF SlotInv
  <1> QED BY <1>2, <1>4, <1>5, <1>6 DEF DecInv

\* Sending, and reading the oldest copy when too many are out, keeps it too.
LEMMA SubmitKeeps ==
    ASSUME plan \in Plans, NEW stage \in [Slots -> Nat], NEW fresh, NEW D, NEW C \in SUBSET Slots,
           DecInv(D, C, stage, fresh), NEW E, E = Submit(D, C)
    PROVE  DecInv(E, {}, stage, fresh) /\ E.paused = D.paused
  <1> DEFINE sent == SentOn(D, C)
  <1>1. D \in Decoder
    BY DEF DecInv
  <1>2. CASE C = {}
    BY <1>2 DEF Submit
  <1>3. CASE C # {}
    <2>1. E = IF Len(sent.copies) > IN_FLIGHT THEN ReadCopy(sent) ELSE sent
      BY <1>3, Zenon DEF Submit, SentOn, TokensOf
    <2>6. SentShape(D, C, sent)
      BY <1>1, SentIs
    <2>2. DecInv(sent, {}, stage, fresh) /\ sent.paused = D.paused
      BY <1>1, <2>6, SentKeeps DEF SentShape
    <2>3. sent.copies # <<>>
      <3>1. sent.copies = Append(D.copies, TokensOf(D, C)) /\ D.copies \in Seq(SUBSET Token)
            /\ TokensOf(D, C) \in SUBSET Token
        BY <1>1, <2>6, DecoderFields DEF SentShape
      <3> HIDE DEF sent
      <3> QED BY <3>1
    <2> HIDE DEF sent
    <2>4. CASE E = sent
      BY <2>2, <2>4
    <2>5. CASE E = ReadCopy(sent)
      <3>1. DecInv(E, {}, stage, fresh) /\ Reads(sent, E)
        BY <2>2, <2>3, <2>5, ReadCopyKeeps
      <3> QED BY <2>2, <3>1 DEF Reads
    <2> QED BY <2>1, <2>4, <2>5
  <1> QED BY <1>2, <1>3

-----------------------------------------------------------------------------
(* Stages complete: the filters' documents in asked, and the documents     *)
(* whose answers ended.                                                    *)
Recording(D, V) == [D EXCEPT !.answered = @ \ V]

Completes(asked, ended, stage, stage2, fresh, fresh2) ==
    /\ \A s \in asked : /\ s \in fresh /\ stage[s] \in 1 .. Stages
                        /\ plan.stages[stage[s]] # "answer"
    /\ \A s \in asked \cup ended : stage[s] < stage2[s]
    /\ \A s \in Slots \ (asked \cup ended) : stage2[s] = stage[s] /\ (s \in fresh2 => s \in fresh)

\* Stages that complete keep the invariant, the answers reported being forgotten.
LEMMA RecordKeeps ==
    ASSUME plan \in Plans, NEW stage \in [Slots -> Nat], NEW stage2 \in [Slots -> Nat],
           NEW fresh, NEW fresh2, NEW C, NEW D, DecInv(D, C, stage, fresh),
           NEW asked \in SUBSET Slots, NEW ended, ended \subseteq D.answered,
           Completes(asked, ended, stage, stage2, fresh, fresh2)
    PROVE  DecInv(Recording(D, ended), C, stage2, fresh2)
  <1> DEFINE E == Recording(D, ended)
  <1>6. E = [D EXCEPT !.answered = @ \ ended]
    BY DEF Recording
  <1>7. /\ \A s \in asked : s \in fresh /\ stage[s] \in 1 .. Stages /\ plan.stages[stage[s]] # "answer"
        /\ \A s \in asked \cup ended : stage[s] < stage2[s]
        /\ \A s \in Slots \ (asked \cup ended) :
               stage2[s] = stage[s] /\ (s \in fresh2 => s \in fresh)
    BY DEF Completes
  <1> HIDE DEF E
  <1> USE <1>6, <1>7
  <1>1. D \in Decoder /\ \A i \in DOMAIN D.copies : OnePerSlot(D.copies[i])
    BY DEF DecInv
  <1>2. /\ E.copies = D.copies /\ E.map = D.map /\ E.fed = D.fed /\ E.written = D.written
        /\ E.stopped = D.stopped /\ E.inflight = D.inflight /\ E.lengths = D.lengths
        /\ E.answered = D.answered \ ended
    BY <1>1 DEF Decoder
  <1>3. E \in Decoder
    <2>1. D.answered \ ended \in SUBSET Slots
      BY <1>1 DEF Decoder
    <2> QED BY <1>1, <2>1 DEF Decoder
  <1>4. 1 \in 1 .. Stages
    BY PlanIs
  <1>5. ASSUME NEW s \in Slots PROVE SlotInv(E, C, stage2, fresh2, s)
    <2>1. SlotInv(D, C, stage, fresh, s)
      BY DEF DecInv
    <2>2. stage[s] \in Nat /\ stage2[s] \in Nat
      OBVIOUS
    <2>3. CASE s \in ended
      <3>1. s \in D.answered /\ s \notin E.answered
        BY <1>2, <2>3
      <3>2. stage[s] \in 1 .. Stages /\ D.map[s] = NoMap /\ D.lengths[s][stage[s]] # -1
            /\ (plan.stages[1] = "answer" /\ stage[s] > 1 => D.lengths[s][1] # -1)
        BY <2>1, <3>1 DEF SlotInv, LengthsWhole
      <3>3. plan.stages[1] = "answer" => D.lengths[s][1] # -1
        <4>1. CASE stage[s] = 1
          BY <3>2, <4>1
        <4>2. CASE stage[s] # 1
          BY <2>2, <3>2, <4>2
        <4> QED BY <4>1, <4>2
      <3>4. stage[s] < stage2[s] /\ E.map[s] = NoMap /\ (s \in E.stopped <=> s \in D.stopped)
            /\ E.inflight[s] = D.inflight[s] /\ E.lengths[s] = D.lengths[s]
        BY <1>2, <2>3, <3>2
      <3> QED BY <1>1, <1>2, <2>1, <2>2, <3>1, <3>2, <3>3, <3>4, SlotUp
    <2>4. CASE s \in asked /\ s \notin ended
      <3>1. D.map[s] = NoMap /\ s \notin D.answered /\ stage[s] \in 1 .. Stages
            /\ plan.stages[stage[s]] # "answer" /\ stage[s] < stage2[s]
        BY <2>1, <2>4 DEF SlotInv, Staged
      <3>2. plan.stages[1] = "answer" => D.lengths[s][1] # -1
        <4> SUFFICES ASSUME plan.stages[1] = "answer" PROVE D.lengths[s][1] # -1
          OBVIOUS
        <4>1. stage[s] > 1
          BY <2>2, <3>1
        <4> QED BY <2>1, <4>1 DEF SlotInv, LengthsWhole
      <3>3. s \notin E.answered /\ E.map[s] = NoMap /\ (s \in E.stopped <=> s \in D.stopped)
            /\ E.inflight[s] = D.inflight[s] /\ E.lengths[s] = D.lengths[s]
        BY <1>2, <3>1
      <3>4. D.map[s] = NoMap /\ stage[s] < stage2[s] /\ E.copies = D.copies
        BY <1>2, <3>1
      <3>5. D \in Decoder
        BY <1>1
      <3> QED BY <2>1, <2>2, <3>2, <3>3, <3>4, <3>5, SlotUp
    <2>5. CASE s \notin asked /\ s \notin ended
      <3>1. stage2[s] = stage[s] /\ (s \in fresh2 => s \in fresh)
        BY <2>5
      <3>2. Agree(D, E, s)
        BY <1>2, <2>5 DEF Agree, Same
      <3> QED BY <1>2, <2>1, <3>1, <3>2, SlotSame
    <2> QED BY <2>3, <2>4, <2>5
  <1> QED BY <1>1, <1>2, <1>3, <1>5 DEF DecInv, E

(* Nothing of a slot's answer changes, wherever the slots are counted.     *)
LEMMA DecStays ==
    ASSUME NEW D, NEW C, NEW stage, NEW stage2, NEW fresh, NEW fresh2, DecInv(D, C, stage, fresh),
           \A s \in Slots : stage2[s] = stage[s] /\ (s \in fresh2 => s \in fresh)
    PROVE  DecInv(D, C, stage2, fresh2)
  <1>1. ASSUME NEW s \in Slots PROVE SlotInv(D, C, stage2, fresh2, s)
    <2>1. SlotInv(D, C, stage, fresh, s) /\ Agree(D, D, s)
      BY DEF DecInv, Agree, Same
    <2>2. stage2[s] = stage[s] /\ (s \in fresh2 => s \in fresh)
      OBVIOUS
    <2> QED BY <2>1, <2>2, SlotSame
  <1> QED BY <1>1 DEF DecInv

(* An answer is paused, or not: no token moves.                            *)
LEMMA PauseKeeps ==
    ASSUME NEW D, NEW C, NEW stage, NEW fresh, DecInv(D, C, stage, fresh),
           NEW V \in SUBSET Slots, NEW E, E = [D EXCEPT !.paused = V]
    PROVE  DecInv(E, C, stage, fresh) /\ E.paused = V
  <1>1. D \in Decoder
    BY DEF DecInv
  <1>2. /\ E.copies = D.copies /\ E.map = D.map /\ E.fed = D.fed /\ E.written = D.written
        /\ E.stopped = D.stopped /\ E.inflight = D.inflight /\ E.lengths = D.lengths
        /\ E.answered = D.answered /\ E.paused = V /\ E \in Decoder
    BY <1>1 DEF Decoder
  <1>3. ASSUME NEW s \in Slots PROVE SlotInv(E, C, stage, fresh, s)
    <2>1. SlotInv(D, C, stage, fresh, s) /\ Agree(D, E, s)
      BY <1>2 DEF DecInv, Agree, Same
    <2> QED BY <1>2, <2>1, SlotSame
  <1> QED BY <1>2, <1>3 DEF DecInv

(* A document is admitted: its first stage has not begun.                  *)
LEMMA AdmittedKeeps ==
    ASSUME plan \in Plans, NEW stage \in [Slots -> Nat], NEW stage2 \in [Slots -> Nat],
           NEW fresh, NEW D, DecInv(D, {}, stage, fresh), NEW a \in Slots, a \in fresh,
           stage[a] = 0, stage2[a] = 1, \A s \in Slots \ {a} : stage2[s] = stage[s]
    PROVE  DecInv(D, {}, stage2, fresh)
  <1>1. D \in Decoder
    BY DEF DecInv
  <1>2. ASSUME NEW s \in Slots, s # a PROVE SlotInv(D, {}, stage2, fresh, s)
    <2>1. SlotInv(D, {}, stage, fresh, s) /\ Agree(D, D, s) /\ stage2[s] = stage[s]
      BY <1>2 DEF DecInv, Agree, Same
    <2> QED BY <2>1, SlotSame
  <1>3. SlotInv(D, {}, stage2, fresh, a)
    <2>1. SlotInv(D, {}, stage, fresh, a)
      BY DEF DecInv
    <2>2. D.map[a] = NoMap /\ a \notin D.answered
      BY <2>1 DEF SlotInv, Staged
    <2>3. Counted(D, a) /\ StaleFirst(D, a) /\ Writing(D, {}, a)
      BY <2>1 DEF SlotInv
    <2>4. LengthsWhole(D, stage2, a)
      BY <2>1, <2>2 DEF SlotInv, LengthsWhole
    <2>5. Staged(D, {}, stage2, fresh, a)
      <3>1. \A i \in Tokens(D, a) : \A e \in D.copies[i] : e.slot = a =>
                e.map <= stage2[a] /\ (a \in fresh => e.map < stage2[a])
        <4> SUFFICES ASSUME NEW i \in Tokens(D, a), NEW e \in D.copies[i], e.slot = a
                     PROVE  e.map <= stage2[a] /\ e.map < stage2[a]
          OBVIOUS
        <4>1. e.map \in Nat
          BY <1>1, TokenStages
        <4>2. e.map <= stage[a]
          BY <2>1 DEF SlotInv, Staged
        <4> QED BY <4>1, <4>2
      <3> QED BY <2>2, <3>1 DEF Staged
    <2> QED BY <2>3, <2>4, <2>5 DEF SlotInv
  <1> QED BY <1>2, <1>3 DEF DecInv

-----------------------------------------------------------------------------
(* Where a document is: waiting to be admitted, ready for a later stage,   *)
(* in a group of the pass that is out (the first lot) or of a part of the  *)
(* pass that is filled or runs (the others), or, its answer begun, put off.*)
GroupType == [slot : Slots, stage : Nat, carried : BOOLEAN]

Filling == pc \in {"admit", "close"}

\* The first part was built and waits to be sent.
Packed == pc \in {"report", "landed", "submit"} /\ back = "submit"

Out == IF exec.outstanding = <<>> THEN <<>> ELSE Head(exec.outstanding)

Parts == IF Filling THEN <<pass.groups>> ELSE IF pc \in {"run", "raised"} \/ Packed THEN pass.parts
         ELSE <<>>

Lots == <<Out>> \o Parts

Cells(L) == UNION {{<<i, k>> : k \in DOMAIN L[i]} : i \in DOMAIN L}
At(L, c) == L[c[1]][c[2]]
Apart(L) == \A c, d \in Cells(L) : At(L, c).slot = At(L, d).slot => c = d
InLots(L) == {At(L, c).slot : c \in Cells(L)}

GroupAt(g, stage) == g \in GroupType /\ stage[g.slot] = g.stage /\ g.stage \in 1 .. Stages

InPlace(L, ready, deferred, stage) ==
    /\ Apart(L)
    /\ \A c \in Cells(L) : GroupAt(At(L, c), stage) /\ At(L, c).slot \notin deferred
    /\ NoRepeats(ready)
    /\ \A s \in Range(ready) :
          stage[s] \in 1 .. Stages /\ s \notin deferred /\ s \notin InLots(L)
    /\ \A s \in deferred : stage[s] \in 1 .. Stages /\ plan.stages[stage[s]] = "answer"

Waits(held, pending, stage) ==
    /\ NoRepeats(held) /\ NoRepeats(pending) /\ Range(held) \cap Range(pending) = {}
    /\ \A s \in Range(held) \cup Range(pending) : stage[s] = Queued

PlaceType ==
    /\ plan \in Plans /\ sched.pending \in Seq(Slots) /\ sched.ready \in Seq(Slots)
    /\ sched.stage \in [Slots -> 0 .. Stages + 1]
    /\ sched = [pending |-> sched.pending, ready |-> sched.ready, stage |-> sched.stage,
                blocked |-> sched.blocked]
    /\ exec.outstanding \in Seq(Seq(GroupType)) /\ exec.deferred \in SUBSET Slots
    /\ exec = [outstanding |-> exec.outstanding, deferred |-> exec.deferred]
    /\ pass.held \in Seq(Slots) /\ pass.groups \in Seq(GroupType)
    /\ pass.parts \in Seq(Seq(GroupType)) /\ pass.chosen \in SUBSET Slots
    /\ pass.at \in Nat \ {0} /\ pass.room \in Nat
    /\ pass = [rows |-> pass.rows, replays |-> pass.replays, at |-> pass.at, room |-> pass.room,
               groups |-> pass.groups, held |-> pass.held, parts |-> pass.parts,
               chosen |-> pass.chosen]

Steps ==
    /\ back \in {"top", "submit"}
    /\ pc = "report" => exec.outstanding # <<>>
    /\ pc \in {"landed", "submit"} => exec.outstanding = <<>>
    /\ pc = "submit" => back = "submit"
    /\ pc = "run" \/ Packed => pass.parts # <<>>
    /\ ~Filling => pass.held = <<>>
    /\ ~Packed => pass.chosen = {}
    /\ Packed => pass.rows = {} /\ pass.replays = <<>>
    /\ pc = "done" => \A s \in Slots : sched.stage[s] = Done
    /\ Len(exec.outstanding) <= 1

PlaceInv ==
    /\ PlaceType /\ Steps
    /\ InPlace(Lots, sched.ready, exec.deferred, sched.stage)
    /\ Waits(pass.held, sched.pending, sched.stage)

Starters(gs) == {g.slot : g \in {h \in Range(gs) : Answer(h)}}

\* Documents whose answer at their stage began.
Begun ==
    exec.deferred \cup Starters(Out) \cup IF Packed THEN Starters(Part) ELSE {}

Fresh == Slots \ Begun

\* Who has pages: the documents in the middle of a stage that were not evicted.
Houses(A, stage, paused) ==
    \A s \in Slots :
        /\ stage[s] \in 1 .. Stages /\ s \notin paused => s \in Lodged(A)
        /\ stage[s] \in {Queued, Stages + 1} => s \notin Lodged(A)

Planning == pc \in {"replay", "ready", "admit", "close", "run"}

ReplayType == [slot : Slots, start : Int, end : Int]

Evicted ==
    /\ recomputing \in Seq([slot : Slots, start : Int])
    /\ \A i \in DOMAIN recomputing : recomputing[i].slot \in dec.paused
    /\ Planning =>
          /\ pass.rows \subseteq Running(dec)
          /\ pass.replays \in Seq(ReplayType)
          /\ \A i \in DOMAIN pass.replays :
                LET s == pass.replays[i].slot IN
                /\ s \in dec.paused /\ dec.map[s] # NoMap /\ dec.inflight[s] = 0
                /\ s \in Lodged(arena)

Inv ==
    /\ PlaceInv /\ DecInv(dec, pass.chosen, sched.stage, Fresh)
    /\ Home(arena) /\ Houses(arena, sched.stage, dec.paused) /\ Evicted

(* Cells, one by one.                                                      *)
LEMMA CellIs ==
    ASSUME NEW L, NEW c
    PROVE  c \in Cells(L) <=> \E i \in DOMAIN L : \E k \in DOMAIN L[i] : c = <<i, k>>
  BY DEF Cells

\* The group in a cell.
LEMMA CellAt ==
    ASSUME NEW L, NEW i \in DOMAIN L, NEW k \in DOMAIN L[i]
    PROVE  <<i, k>> \in Cells(L) /\ At(L, <<i, k>>) = L[i][k] /\ L[i][k].slot \in InLots(L)
  <1>1. <<i, k>> \in Cells(L) /\ At(L, <<i, k>>) = L[i][k]
    BY CellIs DEF At
  <1> QED BY <1>1 DEF InLots

\* Lots that hold no group but those of others, each once, are as apart.
Moves(L, M, f) ==
    /\ \A c \in Cells(M) : f[c] \in Cells(L) /\ At(M, c) = At(L, f[c])
    /\ \A c, d \in Cells(M) : f[c] = f[d] => c = d

\* Lots whose cells come from those of others are as apart, and in place.
LEMMA LotsMove ==
    ASSUME NEW L, NEW M, NEW f, Moves(L, M, f), NEW ready, NEW deferred, NEW stage,
           InPlace(L, ready, deferred, stage)
    PROVE  InPlace(M, ready, deferred, stage)
  <1>1. InLots(M) \subseteq InLots(L)
    BY DEF InLots, Moves
  <1>2. Apart(M)
    BY DEF Apart, Moves, InPlace
  <1>3. \A c \in Cells(M) : GroupAt(At(M, c), stage) /\ At(M, c).slot \notin deferred
    BY DEF InPlace, Moves
  <1> QED BY <1>1, <1>2, <1>3 DEF InPlace

\* Fewer lots.
LEMMA LotsPrefix ==
    ASSUME NEW L, NEW M, \A c \in Cells(M) : c \in Cells(L) /\ At(M, c) = At(L, c),
           NEW ready, NEW deferred, NEW stage, InPlace(L, ready, deferred, stage)
    PROVE  InPlace(M, ready, deferred, stage)
  <1> DEFINE f == [c \in Cells(M) |-> c]
  <1>1. Moves(L, M, f)
    BY DEF Moves
  <1> HIDE DEF f
  <1> QED BY <1>1, LotsMove

LotsOf(out, parts) == <<out>> \o parts

LotsShape(L, out, parts) ==
    /\ L \in Seq(Seq(GroupType)) /\ DOMAIN L = 1 .. (Len(parts) + 1) /\ L[1] = out
    /\ \A i \in 1 .. Len(parts) : L[i + 1] = parts[i]
    /\ Len(parts) \in Nat /\ DOMAIN parts = 1 .. Len(parts)

\* The outstanding groups followed by the parts.
LEMMA LotsAre ==
    ASSUME NEW out \in Seq(GroupType), NEW parts \in Seq(Seq(GroupType)),
           NEW L, L = LotsOf(out, parts)
    PROVE  LotsShape(L, out, parts)
  <1>1. /\ L \in Seq(Seq(GroupType)) /\ DOMAIN L = 1 .. (Len(parts) + 1) /\ L[1] = out
        /\ \A i \in 1 .. Len(parts) : L[i + 1] = parts[i]
        /\ Len(parts) \in Nat /\ DOMAIN parts = 1 .. Len(parts)
    BY DEF LotsOf
  <1> QED BY <1>1 DEF LotsShape

\* The lots are groups, lot by lot.
LEMMA LotsNow ==
    ASSUME PlaceType
    PROVE  Out \in Seq(GroupType) /\ Parts \in Seq(Seq(GroupType)) /\ LotsShape(Lots, Out, Parts)
  <1>1. Out \in Seq(GroupType)
    BY DEF PlaceType, Out
  <1>2. Parts \in Seq(Seq(GroupType))
    BY DEF PlaceType, Parts
  <1>3. Lots = LotsOf(Out, Parts)
    BY Zenon DEF Lots, LotsOf
  <1> QED BY <1>1, <1>2, <1>3, LotsAre

-----------------------------------------------------------------------------
(* The pipeline stays what it is: what the invariant says of a later state *)
(* may be read of that state's parts.                                      *)
LEMMA SamePlan ==
    ASSUME plan' = plan
    PROVE  /\ Stages' = Stages /\ \A g : Answer(g)' <=> Answer(g)
           /\ \A gs : Starters(gs)' = Starters(gs)
  BY DEF Stages, Answer, Starters

\* The slot's part of the invariant reads the pipeline, which stays.
LEMMA SameSlot ==
    ASSUME plan' = plan, NEW D, NEW C, NEW stage, NEW fresh, NEW s
    PROVE  SlotInv(D, C, stage, fresh, s)' <=> SlotInv(D, C, stage, fresh, s)
  <1>1. Stages' = Stages
    BY SamePlan
  <1>2. /\ Counted(D, s)' <=> Counted(D, s)
        /\ StaleFirst(D, s)' <=> StaleFirst(D, s)
    BY DEF Counted, StaleFirst, Tokens, Coming
  <1>3. Writing(D, C, s)' <=> Writing(D, C, s)
    BY DEF Writing, Paced, InSequence, Coming, Before
  <1>4. LengthsWhole(D, stage, s)' <=> LengthsWhole(D, stage, s)
    BY <1>1 DEF LengthsWhole
  <1>5. Staged(D, C, stage, fresh, s)' <=> Staged(D, C, stage, fresh, s)
    BY <1>1 DEF Staged, Tokens
  <1> QED BY <1>2, <1>3, <1>4, <1>5 DEF SlotInv

\* So does the decoder's.
LEMMA SameDec ==
    ASSUME plan' = plan, NEW D, NEW C, NEW stage, NEW fresh
    PROVE  DecInv(D, C, stage, fresh)' <=> DecInv(D, C, stage, fresh)
  <1>1. Decoder' = Decoder
    BY DEF Decoder
  <1>2. \A s : SlotInv(D, C, stage, fresh, s)' <=> SlotInv(D, C, stage, fresh, s)
    BY SameSlot
  <1> QED BY <1>1, <1>2 DEF DecInv, OnePerSlot

\* So does what is said of the places.
LEMMA SamePlaces ==
    ASSUME plan' = plan, NEW L, NEW ready, NEW deferred, NEW stage
    PROVE  InPlace(L, ready, deferred, stage)' <=> InPlace(L, ready, deferred, stage)
  <1>1. Stages' = Stages
    BY SamePlan
  <1>2. GroupType' = GroupType
    BY DEF GroupType
  <1> QED BY <1>1, <1>2, Zenon DEF InPlace, GroupAt, Apart, Cells, At, InLots, NoRepeats

\* So does what is said of pages.
LEMMA SameHouses ==
    ASSUME plan' = plan, NEW A, NEW stage, NEW V
    PROVE  Houses(A, stage, V)' <=> Houses(A, stage, V)
  <1>1. Stages' = Stages
    BY SamePlan
  <1> QED BY <1>1 DEF Houses, Lodged, Resident

(* The decoder's part of the invariant, step by step.                      *)
LEMMA DecNext ==
    ASSUME plan' = plan, NEW D, D = dec', NEW C, C = pass'.chosen, NEW stage, stage = sched'.stage,
           NEW fresh, fresh = Fresh', DecInv(D, C, stage, fresh)
    PROVE  DecInv(dec, pass.chosen, sched.stage, Fresh)'
  BY SameDec

\* What holds of the parts of the next state holds in the next state: the places.
LEMMA InPlaceNext ==
    ASSUME plan' = plan, NEW L, L = Lots', InPlace(L, sched'.ready, exec'.deferred, sched'.stage)
    PROVE  InPlace(Lots, sched.ready, exec.deferred, sched.stage)'
  BY SamePlaces

-----------------------------------------------------------------------------
(* Before the loop: every document waits, nothing is written.              *)
LEMMA InitDec ==
    ASSUME Init PROVE DecInv(dec, {}, sched.stage, Slots)
  <1>1. plan \in Plans /\ sched.stage = [s \in Slots |-> Queued]
    BY DEF Init
  <1>2. /\ dec.map = [s \in Slots |-> NoMap] /\ dec.fed = [s \in Slots |-> 0]
        /\ dec.written = [s \in Slots |-> 0] /\ dec.paused = {} /\ dec.stopped = {}
        /\ dec.inflight = [s \in Slots |-> 0] /\ dec.chosen = [s \in Slots |-> 0]
        /\ dec.copies = <<>> /\ dec.answered = {}
        /\ dec.lengths = [s \in Slots |-> [j \in 1 .. Stages |-> -1]]
        /\ dec = [map |-> dec.map, fed |-> dec.fed, written |-> dec.written,
                  paused |-> dec.paused, stopped |-> dec.stopped, inflight |-> dec.inflight,
                  chosen |-> dec.chosen, copies |-> dec.copies, answered |-> dec.answered,
                  lengths |-> dec.lengths]
    BY DEF Init, Stages
  <1>3. dec \in Decoder
    <2>1. dec.copies \in Seq(SUBSET [slot : Slots, index : Nat, map : Nat])
      BY <1>2
    <2>2. /\ dec.map \in [Slots -> Nat] /\ dec.fed \in [Slots -> Nat] /\ dec.written \in [Slots -> Nat]
          /\ dec.inflight \in [Slots -> Nat] /\ dec.chosen \in [Slots -> Nat]
      BY <1>2 DEF NoMap
    <2>3. dec.lengths \in [Slots -> [1 .. Len(plan.stages) -> Int]]
      BY <1>2 DEF Stages
    <2> QED BY <1>2, <2>1, <2>2, <2>3 DEF Decoder
  <1>4. DOMAIN dec.copies = {}
    BY <1>2
  <1>5. ASSUME NEW s \in Slots PROVE SlotInv(dec, {}, sched.stage, Slots, s)
    <2>1. Tokens(dec, s) = {} /\ Coming(dec, s) = {}
      BY <1>4 DEF Tokens, Coming
    <2>2. dec.map[s] = NoMap /\ dec.inflight[s] = 0 /\ sched.stage[s] = 0
          /\ \A j \in 1 .. Stages : dec.lengths[s][j] = -1
      BY <1>1, <1>2 DEF Queued
    <2>3. Counted(dec, s)
      BY <2>1, <2>2, FS_EmptySet DEF Counted
    <2>4. StaleFirst(dec, s) /\ Writing(dec, {}, s)
      BY <2>1, <2>2 DEF StaleFirst, Writing
    <2>5. LengthsWhole(dec, sched.stage, s)
      BY <1>2, <2>2 DEF LengthsWhole
    <2>6. Staged(dec, {}, sched.stage, Slots, s)
      BY <1>2, <2>1, <2>2 DEF Staged
    <2> QED BY <2>3, <2>4, <2>5, <2>6 DEF SlotInv
  <1> QED BY <1>3, <1>4, <1>5 DEF DecInv

\* Before the loop every document waits and nothing is planned.
LEMMA InitPlaces ==
    ASSUME Init PROVE PlaceInv /\ Fresh = Slots /\ pass.chosen = {}
  <1>1. /\ plan \in Plans /\ pc = "top" /\ back = "top"
        /\ sched = [pending |-> [s \in Slots |-> s], ready |-> <<>>,
                    stage |-> [s \in Slots |-> Queued], blocked |-> 0]
        /\ pass = NoPass /\ exec = [outstanding |-> <<>>, deferred |-> {}]
    BY DEF Init
  <1>2. /\ pass.held = <<>> /\ pass.groups = <<>> /\ pass.parts = <<>> /\ pass.chosen = {}
        /\ pass.at = 1 /\ pass.room = 0
        /\ pass = [rows |-> pass.rows, replays |-> pass.replays, at |-> pass.at, room |-> pass.room,
                   groups |-> pass.groups, held |-> pass.held, parts |-> pass.parts,
                   chosen |-> pass.chosen]
    BY <1>1 DEF NoPass
  <1>3. /\ sched.ready = <<>> /\ sched.stage = [s \in Slots |-> Queued]
        /\ sched.pending = [s \in Slots |-> s] /\ exec.outstanding = <<>> /\ exec.deferred = {}
    BY <1>1
  <1>4. sched.pending \in Seq(Slots) /\ NoRepeats(sched.pending)
    <2>1. Slots = 1 .. Cardinality(Slots) /\ Cardinality(Slots) \in Nat
      BY DecodingAssumption, SlotsAre, FS_CardinalityType
    <2>2. sched.pending \in [1 .. Cardinality(Slots) -> Slots]
      BY <1>3, <2>1
    <2> QED BY <1>3, <2>1, <2>2 DEF NoRepeats
  <1>5. Stages \in Nat
    BY <1>1, PlanIs
  <1>6. PlaceType
    <2>1. sched.stage \in [Slots -> 0 .. Stages + 1]
      BY <1>3, <1>5 DEF Queued
    <2> QED BY <1>1, <1>2, <1>3, <1>4, <2>1 DEF PlaceType
  <1>7. Steps
    BY <1>1, <1>2, <1>3 DEF Steps, Packed, Filling
  <1>8. Lots = <<<<>>>>
    BY <1>1, <1>3 DEF Lots, Out, Parts, Filling, Packed
  <1>9. Cells(Lots) = {}
    BY <1>8 DEF Cells
  <1>10. InPlace(Lots, sched.ready, exec.deferred, sched.stage)
    <2>1. Range(sched.ready) = {} /\ NoRepeats(sched.ready)
      BY <1>3 DEF Range, NoRepeats
    <2> QED BY <1>3, <1>9, <2>1 DEF InPlace, Apart
  <1>11. Waits(pass.held, sched.pending, sched.stage)
    <2>1. Range(pass.held) = {} /\ NoRepeats(pass.held)
      BY <1>2 DEF Range, NoRepeats
    <2>2. \A s \in Range(sched.pending) : s \in Slots
      BY <1>4 DEF Range
    <2>3. \A s \in Slots : sched.stage[s] = Queued
      BY <1>3
    <2> QED BY <1>4, <2>1, <2>2, <2>3 DEF Waits
  <1>12. Fresh = Slots
    <2>1. Starters(Out) = {}
      BY <1>3 DEF Starters, Out, Range
    <2> QED BY <1>1, <1>3, <2>1 DEF Fresh, Begun, Packed
  <1> QED BY <1>2, <1>6, <1>7, <1>10, <1>11, <1>12 DEF PlaceInv

\* The invariant holds before the loop.
LEMMA InitInv == ASSUME Init PROVE Inv
  <1>1. PlaceInv /\ DecInv(dec, pass.chosen, sched.stage, Fresh)
    BY InitDec, InitPlaces
  <1>2. Home(arena) /\ Lodged(arena) = {}
    BY RetainedHome DEF Init
  <1>3. Houses(arena, sched.stage, dec.paused)
    <2>1. \A s \in Slots : sched.stage[s] = 0
      BY DEF Init, Queued
    <2> QED BY <1>2, <2>1 DEF Houses
  <1>4. Evicted
    <2>1. recomputing = <<>> /\ pc = "top"
      BY DEF Init
    <2> QED BY <2>1 DEF Evicted, Planning
  <1> QED BY <1>1, <1>2, <1>3, <1>4 DEF Inv

-----------------------------------------------------------------------------
(* Between the passes and while the next is looked for, no group is placed *)
(* but in the pass that is out.                                            *)
Calm == {"top", "grow", "replay", "ready", "done", "idle", "stuck"}

\* The planned pass, its groups left alone.
PassType ==
    /\ pass.held \in Seq(Slots) /\ pass.groups \in Seq(GroupType)
    /\ pass.parts \in Seq(Seq(GroupType)) /\ pass.chosen \in SUBSET Slots
    /\ pass.at \in Nat \ {0} /\ pass.room \in Nat
    /\ pass = [rows |-> pass.rows, replays |-> pass.replays, at |-> pass.at, room |-> pass.room,
               groups |-> pass.groups, held |-> pass.held, parts |-> pass.parts,
               chosen |-> pass.chosen]

\* Steps that plan nothing and report nothing leave the places alone.
LEMMA QuietKeeps ==
    ASSUME PlaceInv, pc \in Calm, pc' \in Calm, plan' = plan, back' = back, sched' = sched,
           exec' = exec, PassType', pass'.held = <<>>, pass'.chosen = {},
           pc' = "done" => \A s \in Slots : sched.stage[s] = Done
    PROVE  PlaceInv' /\ Fresh' = Fresh
  <1>1. PlaceType'
    <2>1. Stages' = Stages /\ GroupType' = GroupType
      BY SamePlan DEF GroupType
    <2> QED BY <2>1 DEF PlaceInv, PlaceType, PassType
  <1>2. Steps'
    <2>1. Done' = Done
      BY DEF Done
    <2> QED BY <2>1 DEF PlaceInv, Steps, Calm, Packed, Filling
  <1>3. Parts = <<>> /\ Parts' = <<>> /\ Out' = Out /\ Lots' = Lots
    BY DEF Calm, Parts, Out, Packed, Filling, Lots
  <1>4. InPlace(Lots, sched.ready, exec.deferred, sched.stage)'
    <2>1. InPlace(Lots, sched.ready, exec.deferred, sched.stage)
      BY DEF PlaceInv
    <2> QED BY <1>3, <2>1, SamePlaces
  <1>5. Waits(pass.held, sched.pending, sched.stage)'
    <2>1. pass.held = <<>>
      BY DEF PlaceInv, Steps, Calm, Filling
    <2>2. Waits(pass.held, sched.pending, sched.stage)
      BY DEF PlaceInv
    <2> QED BY <2>1, <2>2 DEF Waits, NoRepeats
  <1>6. Fresh' = Fresh
    <2>1. Begun' = Begun
      <3>1. Starters(Out)' = Starters(Out)
        BY <1>3, SamePlan
      <3> QED BY <3>1 DEF Begun, Calm, Packed
    <2> QED BY <2>1 DEF Fresh
  <1> QED BY <1>1, <1>2, <1>4, <1>5, <1>6 DEF PlaceInv

\* The places and the decoder stay; what is left is the arena and the queue
\* of evicted answers.
LEMMA QuietInv ==
    ASSUME Inv, pc \in Calm, pc' \in Calm, plan' = plan, back' = back, sched' = sched,
           exec' = exec, dec' = dec, PassType', pass'.held = <<>>, pass'.chosen = {},
           pc' = "done" => \A s \in Slots : sched.stage[s] = Done,
           Home(arena'), Lodged(arena) \subseteq Lodged(arena'),
           \A s \in Lodged(arena') : s \in Lodged(arena) \/ sched.stage[s] \in 1 .. Stages,
           Evicted'
    PROVE  Inv'
  <1>1. PlaceInv' /\ Fresh' = Fresh
    BY QuietKeeps DEF Inv
  <1>2. pass.chosen = {}
    BY DEF Inv, PlaceInv, Steps, Packed, Calm
  <1>3. DecInv(dec, pass.chosen, sched.stage, Fresh)'
    <2>1. DecInv(dec, pass.chosen, sched.stage, Fresh)
      BY DEF Inv
    <2> QED BY <1>1, <1>2, <2>1, SameDec
  <1>4. Home(arena)'
    BY DEF Home, Resident
  <1>5. Houses(arena, sched.stage, dec.paused)'
    <2>1. \A s \in Slots : sched.stage[s] \in {Queued, Stages + 1} => sched.stage[s] \notin 1 .. Stages
      <3>1. Stages \in Nat
        BY PlanIs DEF Inv, PlaceInv, PlaceType
      <3> QED BY <3>1 DEF Queued
    <2>2. Houses(arena', sched.stage, dec.paused)
      BY <2>1 DEF Houses, Inv
    <2> QED BY <2>2, SameHouses
  <1> QED BY <1>1, <1>3, <1>4, <1>5 DEF Inv

-----------------------------------------------------------------------------
(* The steps that only plan, one by one.                                   *)
LEMMA QueueSame ==
    ASSUME Evicted, recomputing' = recomputing, dec' = dec,
           Planning' => Planning /\ pass'.rows = pass.rows /\ pass'.replays = pass.replays
                           /\ Lodged(arena) \subseteq Lodged(arena)', plan' = plan
    PROVE  Evicted'
  <1>1. Running(dec)' = Running(dec) /\ ReplayType' = ReplayType
    BY DEF Running, ReplayType
  <1> QED BY <1>1 DEF Evicted

\* The top of the loop (stage_executor.py run).
LEMMA TopInv == ASSUME Inv, Top PROVE Inv'
  <1>1. /\ pc = "top" /\ pc' \in {"done", "grow"} /\ plan' = plan /\ back' = back /\ sched' = sched
        /\ dec' = dec /\ recomputing' = recomputing /\ pass' = pass /\ exec' = exec
        /\ pc' = "done" => \A s \in Slots : sched.stage[s] = Done
        /\ \/ arena' = arena
           \/ arena' \in EvictRetained(arena, sched.blocked)
    BY DEF Top
  <1>2. Home(arena') /\ Lodged(arena') = Lodged(arena)
    BY <1>1, EvictHome DEF EvictRetained, Inv
  <1>3. PassType' /\ pass'.held = <<>> /\ pass'.chosen = {}
    <2>1. PassType
      BY DEF Inv, PlaceInv, PlaceType, PassType
    <2>2. PassType'
      BY <1>1, <2>1 DEF PassType, GroupType
    <2> QED BY <1>1, <2>2 DEF Inv, PlaceInv, Steps, Packed, Filling
  <1>4. Evicted'
    <2>1. ~Planning'
      BY <1>1 DEF Planning
    <2> QED BY <1>1, <2>1, QueueSame DEF Inv
  <1> QED BY <1>1, <1>2, <1>3, <1>4, QuietInv DEF Calm

\* Every answer that goes on has a page for its row.
LEMMA GrownAllInv == ASSUME Inv, GrownAll PROVE Inv'
  <1>1. /\ pc = "grow" /\ pc' = "replay" /\ plan' = plan /\ back' = back /\ sched' = sched
        /\ dec' = dec /\ recomputing' = recomputing /\ arena' = arena /\ exec' = exec
        /\ pass' = [NoPass EXCEPT !.rows = Running(dec),
                                  !.room = Bigger(0, plan.budget - Cardinality(Running(dec)))]
    BY DEF GrownAll
  <1>2. Bigger(0, plan.budget - Cardinality(Running(dec))) \in Nat
    <2>1. Running(dec) \in SUBSET Slots
      BY DEF Running
    <2>2. Cardinality(Running(dec)) \in Nat
      BY <2>1, SlotsAre, FS_Subset, FS_CardinalityType
    <2>3. plan.budget \in Nat
      BY DecodingAssumption DEF Inv, PlaceInv, PlaceType, PlanRecord
    <2> QED BY <2>2, <2>3 DEF Bigger
  <1>3. /\ pass'.rows = Running(dec) /\ pass'.replays = <<>> /\ pass'.at = 1
        /\ pass'.room = Bigger(0, plan.budget - Cardinality(Running(dec)))
        /\ pass'.groups = <<>> /\ pass'.held = <<>> /\ pass'.parts = <<>> /\ pass'.chosen = {}
        /\ pass' = [rows |-> pass'.rows, replays |-> pass'.replays, at |-> pass'.at,
                    room |-> pass'.room, groups |-> pass'.groups, held |-> pass'.held,
                    parts |-> pass'.parts, chosen |-> pass'.chosen]
    BY <1>1 DEF NoPass
  <1>4. PassType'
    BY <1>2, <1>3 DEF PassType
  <1>5. Evicted'
    <2>1. Running(dec)' = Running(dec)
      BY <1>1 DEF Running
    <2>2. /\ recomputing \in Seq([slot : Slots, start : Int])
          /\ \A i \in DOMAIN recomputing : recomputing[i].slot \in dec.paused
      BY DEF Inv, Evicted
    <2>3. pass'.replays \in Seq(ReplayType') /\ DOMAIN pass'.replays = {}
      BY <1>3
    <2> QED BY <1>1, <1>3, <2>1, <2>2, <2>3 DEF Evicted
  <1>6. Home(arena') /\ Lodged(arena') = Lodged(arena)
    BY <1>1 DEF Inv
  <1> QED BY <1>1, <1>3, <1>4, <1>5, <1>6, QuietInv DEF Calm

\* A part of a sequence.
LEMMA PartIs ==
    ASSUME NEW S, NEW q \in Seq(S), NEW a \in Nat \ {0}, NEW b \in Nat, b <= Len(q)
    PROVE  /\ SubSeq(q, a, b) \in Seq(S) /\ Len(q) \in Nat /\ DOMAIN q = 1 .. Len(q)
           /\ DOMAIN SubSeq(q, a, b) = 1 .. Len(SubSeq(q, a, b))
           /\ Len(SubSeq(q, a, b)) = IF a <= b THEN b - a + 1 ELSE 0
           /\ \A i \in DOMAIN SubSeq(q, a, b) :
                 SubSeq(q, a, b)[i] = q[a + i - 1] /\ a + i - 1 \in a .. b /\ a + i - 1 \in DOMAIN q
  OBVIOUS

\* A queue of evicted answers without one of them.
LEMMA RemovedIs ==
    ASSUME NEW S, NEW q \in Seq(S), NEW n \in 1 .. Len(q)
    PROVE  /\ RemoveAt(q, n) \in Seq(S)
           /\ \A i \in DOMAIN RemoveAt(q, n) : \E k \in DOMAIN q : RemoveAt(q, n)[i] = q[k]
  <1>1. SubSeq(q, 1, n - 1) \in Seq(S) /\ SubSeq(q, n + 1, Len(q)) \in Seq(S)
    OBVIOUS
  <1>2. /\ \A i \in DOMAIN SubSeq(q, 1, n - 1) : \E k \in DOMAIN q : SubSeq(q, 1, n - 1)[i] = q[k]
        /\ \A i \in DOMAIN SubSeq(q, n + 1, Len(q)) :
              \E k \in DOMAIN q : SubSeq(q, n + 1, Len(q))[i] = q[k]
    <2>1. 1 \in Nat \ {0} /\ n - 1 \in Nat /\ n - 1 <= Len(q)
          /\ n + 1 \in Nat \ {0} /\ Len(q) \in Nat /\ Len(q) <= Len(q)
      OBVIOUS
    <2>2. \A i \in DOMAIN SubSeq(q, 1, n - 1) :
             SubSeq(q, 1, n - 1)[i] = q[1 + i - 1] /\ 1 + i - 1 \in DOMAIN q
      BY <2>1, PartIs
    <2>3. \A i \in DOMAIN SubSeq(q, n + 1, Len(q)) :
             /\ SubSeq(q, n + 1, Len(q))[i] = q[n + 1 + i - 1]
             /\ n + 1 + i - 1 \in DOMAIN q
      BY <2>1, PartIs
    <2> QED BY <2>2, <2>3, Zenon
  <1> DEFINE a == SubSeq(q, 1, n - 1)
             b == SubSeq(q, n + 1, Len(q))
  <1>3. a \in Seq(S) /\ b \in Seq(S) /\ RemoveAt(q, n) = a \o b
    BY <1>1 DEF RemoveAt
  <1>4. /\ \A i \in DOMAIN a : \E k \in DOMAIN q : a[i] = q[k]
        /\ \A i \in DOMAIN b : \E k \in DOMAIN q : b[i] = q[k]
    BY <1>2
  <1> HIDE DEF a, b
  <1>5. \A i \in DOMAIN (a \o b) : \/ i \in DOMAIN a /\ (a \o b)[i] = a[i]
                                   \/ i - Len(a) \in DOMAIN b /\ (a \o b)[i] = b[i - Len(a)]
    <2> SUFFICES ASSUME NEW i \in DOMAIN (a \o b)
                 PROVE  \/ i \in DOMAIN a /\ (a \o b)[i] = a[i]
                        \/ i - Len(a) \in DOMAIN b /\ (a \o b)[i] = b[i - Len(a)]
      OBVIOUS
    <2>1. i \in 1 .. (Len(a) + Len(b)) /\ Len(a) \in Nat /\ Len(b) \in Nat
          /\ DOMAIN a = 1 .. Len(a) /\ DOMAIN b = 1 .. Len(b)
      BY <1>3
    <2>2. CASE i <= Len(a)
      <3>1. i \in 1 .. Len(a)
        BY <2>1, <2>2
      <3>2. (a \o b)[i] = a[i]
        BY <1>3, <2>1, <3>1
      <3>3. i \in DOMAIN a
        BY <2>1, <3>1, Zenon
      <3> QED BY <3>2, <3>3, Zenon
    <2>3. CASE i > Len(a)
      <3>1. (a \o b)[i] = b[i - Len(a)]
        BY <1>3, <2>1, <2>3
      <3>2. i - Len(a) \in 1 .. Len(b)
        BY <2>1, <2>3
      <3> QED BY <2>1, <3>1, <3>2
    <2> QED BY <2>1, <2>2, <2>3
  <1>6. \A i \in DOMAIN (a \o b) : \E k \in DOMAIN q : (a \o b)[i] = q[k]
    <2> SUFFICES ASSUME NEW i \in DOMAIN (a \o b) PROVE \E k \in DOMAIN q : (a \o b)[i] = q[k]
      OBVIOUS
    <2>1. CASE i \in DOMAIN a /\ (a \o b)[i] = a[i]
      BY <1>4, <2>1
    <2>2. CASE i - Len(a) \in DOMAIN b /\ (a \o b)[i] = b[i - Len(a)]
      <3> DEFINE j == i - Len(a)
      <3>1. j \in DOMAIN b /\ (a \o b)[i] = b[j]
        BY <2>2
      <3> HIDE DEF j
      <3> QED BY <1>4, <3>1
    <2> QED BY <1>5, <2>1, <2>2
  <1>7. a \o b \in Seq(S)
    BY <1>3
  <1> QED BY <1>3, <1>6, <1>7

\* An evicted answer that ended leaves the queue.
LEMMA DropReplayInv == ASSUME Inv, DropReplay PROVE Inv'
  <1>1. /\ pc = "replay" /\ pc' = pc /\ plan' = plan /\ back' = back /\ sched' = sched
        /\ dec' = dec /\ arena' = arena /\ exec' = exec /\ pass' = pass
        /\ recomputing' = RemoveAt(recomputing, pass.at) /\ pass.at <= Len(recomputing)
    BY DEF DropReplay, Replaying
  <1>2. PassType' /\ pass'.held = <<>> /\ pass'.chosen = {}
    <2>1. PassType
      BY DEF Inv, PlaceInv, PlaceType, PassType
    <2>2. PassType'
      BY <1>1, <2>1 DEF PassType, GroupType
    <2> QED BY <1>1, <2>2 DEF Inv, PlaceInv, Steps, Packed, Filling
  <1>3. Evicted'
    <2> DEFINE Item == [slot : Slots, start : Int]
    <2>1. recomputing \in Seq(Item) /\ \A i \in DOMAIN recomputing : recomputing[i].slot \in dec.paused
      BY DEF Inv, Evicted
    <2>2. pass.at \in 1 .. Len(recomputing)
      BY <1>1, <2>1 DEF Inv, PlaceInv, PlaceType
    <2> HIDE DEF Item
    <2>3. /\ recomputing' \in Seq(Item)
          /\ \A i \in DOMAIN recomputing' : \E k \in DOMAIN recomputing : recomputing'[i] = recomputing[k]
      BY <1>1, <2>1, <2>2, RemovedIs
    <2>4. \A i \in DOMAIN recomputing' : recomputing'[i].slot \in dec.paused
      BY <2>1, <2>3
    <2>5. Running(dec)' = Running(dec) /\ ReplayType' = ReplayType /\ Lodged(arena)' = Lodged(arena)
      BY <1>1 DEF Running, ReplayType, Lodged, Resident
    <2> QED BY <1>1, <2>3, <2>4, <2>5 DEF Inv, Evicted, Planning, Item
  <1>4. Home(arena') /\ Lodged(arena') = Lodged(arena)
    BY <1>1 DEF Inv
  <1> QED BY <1>1, <1>2, <1>3, <1>4, QuietInv DEF Calm

\* An evicted answer waits for its tokens.
LEMMA WaitReplayInv == ASSUME Inv, WaitReplay PROVE Inv'
  <1>1. /\ pc = "replay" /\ pc' = pc /\ plan' = plan /\ back' = back /\ sched' = sched
        /\ dec' = dec /\ arena' = arena /\ exec' = exec /\ recomputing' = recomputing
        /\ pass' = [pass EXCEPT !.at = @ + 1]
    BY DEF WaitReplay, Replaying
  <1>2. PassType /\ pass.held = <<>> /\ pass.chosen = {}
    BY <1>1 DEF Inv, PlaceInv, PlaceType, PassType, Steps, Packed, Filling
  <1>3. /\ pass'.rows = pass.rows /\ pass'.replays = pass.replays /\ pass'.at = pass.at + 1
        /\ pass'.room = pass.room /\ pass'.groups = pass.groups /\ pass'.held = pass.held
        /\ pass'.parts = pass.parts /\ pass'.chosen = pass.chosen
        /\ pass' = [rows |-> pass'.rows, replays |-> pass'.replays, at |-> pass'.at,
                    room |-> pass'.room, groups |-> pass'.groups, held |-> pass'.held,
                    parts |-> pass'.parts, chosen |-> pass'.chosen]
    BY <1>1, <1>2 DEF PassType
  <1>4. PassType'
    BY <1>2, <1>3 DEF PassType, GroupType
  <1>5. Evicted'
    <2>1. Lodged(arena)' = Lodged(arena) /\ Planning
      BY <1>1 DEF Lodged, Resident, Planning
    <2> QED BY <1>1, <1>3, <2>1, QueueSame DEF Inv
  <1>6. Home(arena') /\ Lodged(arena') = Lodged(arena)
    BY <1>1 DEF Inv
  <1> QED BY <1>1, <1>2, <1>3, <1>4, <1>5, <1>6, QuietInv DEF Calm

\* The replays are planned.
LEMMA ReplaysTakenInv == ASSUME Inv, ReplaysTaken PROVE Inv'
  <1>1. /\ pc = "replay" /\ pc' = "ready" /\ plan' = plan /\ back' = back /\ sched' = sched
        /\ dec' = dec /\ arena' = arena /\ exec' = exec /\ recomputing' = recomputing
        /\ pass' = pass
    BY DEF ReplaysTaken
  <1>2. PassType /\ pass.held = <<>> /\ pass.chosen = {}
    BY <1>1 DEF Inv, PlaceInv, PlaceType, PassType, Steps, Packed, Filling
  <1>3. PassType'
    BY <1>1, <1>2 DEF PassType, GroupType
  <1>4. Evicted'
    <2>1. Lodged(arena)' = Lodged(arena) /\ Planning
      BY <1>1 DEF Lodged, Resident, Planning
    <2> QED BY <1>1, <2>1, QueueSame DEF Inv
  <1>5. Home(arena') /\ Lodged(arena') = Lodged(arena)
    BY <1>1 DEF Inv
  <1> QED BY <1>1, <1>2, <1>3, <1>4, <1>5, QuietInv DEF Calm


(* An evicted answer takes its pages again.                                *)
LEMMA ReplayRequest ==
    ASSUME Inv, NEW s \in Slots, dec.map[s] # NoMap
    PROVE  /\ Document(s) \in Nat /\ ReplayCapacity(s) \in Nat /\ Document(s) <= ReplayCapacity(s)
           /\ ReplayLength(s) \in Nat /\ sched.stage[s] \in 1 .. Stages
  <1>1. /\ plan.document[s] \in Nat /\ plan.suffix \in Nat \ {0} /\ plan.limit \in Nat \ {0}
        /\ PageTokens \in Nat
    BY PlanIs, PageTokensAssumption DEF Inv, PlaceInv, PlaceType
  <1>2. dec \in Decoder /\ SlotInv(dec, pass.chosen, sched.stage, Fresh, s)
    BY DEF Inv, DecInv
  <1>3. dec.written[s] \in Nat
    BY <1>2, DecoderFields
  <1>4. Capacity(s) \in Nat /\ Document(s) <= Capacity(s)
    BY <1>1 DEF Capacity, Prompt, Document, Least
  <1>5. ReplayLength(s) \in Nat
    BY <1>1, <1>3 DEF ReplayLength, Prompt
  <1>6. Least(PageTokens, plan.limit - dec.written[s] - 1) \in Int
    BY <1>1, <1>3 DEF Least
  <1> DEFINE more == Least(PageTokens, plan.limit - dec.written[s] - 1)
  <1>7. ReplayCapacity(s) = Bigger(Capacity(s), ReplayLength(s) + more) /\ more \in Int
    BY <1>6 DEF ReplayCapacity
  <1> HIDE DEF more
  <1>8. ReplayCapacity(s) \in Nat /\ Capacity(s) <= ReplayCapacity(s)
    BY <1>4, <1>5, <1>7 DEF Bigger
  <1>9. ReplayCapacity(s) \in Nat /\ Document(s) <= ReplayCapacity(s) /\ Document(s) \in Nat
    BY <1>1, <1>4, <1>8 DEF Document
  <1>10. sched.stage[s] \in 1 .. Stages
    BY <1>2 DEF SlotInv, Staged
  <1> QED BY <1>5, <1>9, <1>10

\* An evicted answer gets its pages and as many rows as fit (_replays).
LEMMA TakeReplayInv == ASSUME Inv, TakeReplay PROVE Inv'
  <1> DEFINE s == Replay.slot
             end == ReplayEnd(s, Replay.start)
             item == [slot |-> s, start |-> Replay.start, end |-> end]
             taken == [pass EXCEPT !.at = @ + 1, !.room = @ - (end - Replay.start),
                                   !.replays = Append(@, item)]
  <1>1. /\ pc = "replay" /\ pass.at <= Len(recomputing) /\ dec.map[s] # NoMap /\ TokensLanded(s)
        /\ plan' = plan /\ back' = back /\ sched' = sched /\ dec' = dec
        /\ recomputing' = recomputing /\ exec' = exec
    BY DEF TakeReplay, Replaying
  <1>2. PICK out \in IF s \in Resident(arena) THEN {[ok |-> TRUE, arena |-> arena]}
                     ELSE Reserve(arena, s, Document(s), ReplayCapacity(s), 0, 0) :
            /\ arena' = out.arena
            /\ IF out.ok THEN pass' = taken /\ pc' = pc ELSE pc' = "ready" /\ pass' = pass
    BY Zenon DEF TakeReplay
  <1>3. PassType /\ pass.held = <<>> /\ pass.chosen = {} /\ Evicted
    BY <1>1 DEF Inv, PlaceInv, PlaceType, PassType, Steps, Packed, Filling
  <1>4. Replay \in [slot : Slots, start : Int] /\ s \in dec.paused /\ s \in Slots
    <2>1. pass.at \in DOMAIN recomputing /\ recomputing \in Seq([slot : Slots, start : Int])
      BY <1>1, <1>3 DEF Evicted, PassType
    <2>2. Replay \in [slot : Slots, start : Int]
      <3> DEFINE Item == [slot : Slots, start : Int]
      <3>1. recomputing \in Seq(Item) /\ pass.at \in DOMAIN recomputing /\ Replay = recomputing[pass.at]
        BY <2>1 DEF Replay
      <3> HIDE DEF Item
      <3>2. Replay \in Item
        BY <3>1
      <3> QED BY <3>2 DEF Item
    <2>3. Replay.slot \in dec.paused
      BY <1>3, <2>1 DEF Evicted, Replay
    <2> QED BY <2>2, <2>3
  <1>5. /\ Document(s) \in Nat /\ ReplayCapacity(s) \in Nat /\ Document(s) <= ReplayCapacity(s)
        /\ ReplayLength(s) \in Nat /\ sched.stage[s] \in 1 .. Stages
    BY <1>1, <1>4, ReplayRequest
  <1>6. end \in Int /\ end <= Replay.start + pass.room
    <2>1. pass.room \in Nat /\ Replay.start \in Int
      BY <1>3, <1>4 DEF PassType
    <2> QED BY <1>5, <2>1 DEF ReplayEnd, Least
  <1>7. item \in ReplayType /\ item.slot = s
    BY <1>4, <1>6 DEF ReplayType
  <1>8. /\ Home(arena') /\ out.ok \in BOOLEAN
        /\ Lodged(arena') = Lodged(arena) \cup IF out.ok THEN {s} ELSE {}
    <2>1. CASE s \in Resident(arena)
      <3>1. arena' = arena /\ out.ok = TRUE
        BY <1>2, <2>1
      <3> QED BY <1>4, <2>1, <3>1 DEF Inv, Lodged
    <2>2. CASE s \notin Resident(arena)
      <3>1. out \in Reserve(arena, s, Document(s), ReplayCapacity(s), 0, 0) /\ arena' = out.arena
        BY <1>2, <2>2
      <3> HIDE DEF s
      <3> QED BY <1>4, <1>5, <2>2, <3>1, ReserveHome DEF Inv
    <2> QED BY <2>1, <2>2
  <1> HIDE DEF end, s, item
  <1>9. CASE out.ok
    <2>1. pass' = taken /\ pc' = pc
      BY <1>2, <1>9
    <2>2. /\ pass'.rows = pass.rows /\ pass'.replays = Append(pass.replays, item)
          /\ pass'.at = pass.at + 1 /\ pass'.room = pass.room - (end - Replay.start)
          /\ pass'.groups = pass.groups /\ pass'.held = pass.held
          /\ pass'.parts = pass.parts /\ pass'.chosen = pass.chosen
          /\ pass' = [rows |-> pass'.rows, replays |-> pass'.replays, at |-> pass'.at,
                      room |-> pass'.room, groups |-> pass'.groups, held |-> pass'.held,
                      parts |-> pass'.parts, chosen |-> pass'.chosen]
      BY <2>1, <1>3 DEF PassType
    <2>3. pass.room - (end - Replay.start) \in Nat
      BY <1>3, <1>4, <1>6 DEF PassType
    <2>4. PassType'
      BY <1>3, <2>2, <2>3 DEF PassType, GroupType
    <2>5. Evicted'
      <3>1. /\ recomputing \in Seq([slot : Slots, start : Int]) /\ pass.rows \subseteq Running(dec)
            /\ \A i \in DOMAIN recomputing : recomputing[i].slot \in dec.paused
            /\ pass.replays \in Seq(ReplayType)
            /\ \A i \in DOMAIN pass.replays :
                  LET r == pass.replays[i].slot IN
                  r \in dec.paused /\ dec.map[r] # NoMap /\ dec.inflight[r] = 0 /\ r \in Lodged(arena)
        BY <1>1, <1>3 DEF Evicted, Planning
      <3>2. Running(dec)' = Running(dec) /\ ReplayType' = ReplayType
        BY <1>1 DEF Running, ReplayType
      <3>3. Lodged(arena)' = Lodged(arena) \cup {s}
        BY <1>8, <1>9 DEF Lodged, Resident
      <3>4. pass'.replays \in Seq(ReplayType) /\ Len(pass.replays) \in Nat
            /\ DOMAIN pass'.replays = 1 .. (Len(pass.replays) + 1)
            /\ DOMAIN pass.replays = 1 .. Len(pass.replays)
            /\ pass'.replays[Len(pass.replays) + 1] = item
            /\ \A i \in DOMAIN pass.replays : pass'.replays[i] = pass.replays[i]
        BY <1>7, <2>2, <3>1
      <3>5. ASSUME NEW i \in DOMAIN pass'.replays
            PROVE  LET r == pass'.replays[i].slot IN
                   r \in dec.paused /\ dec.map[r] # NoMap /\ dec.inflight[r] = 0 /\ r \in Lodged(arena)'
        <4>1. CASE i = Len(pass.replays) + 1
          BY <1>1, <1>4, <1>7, <3>3, <3>4, <4>1 DEF TokensLanded
        <4>2. CASE i # Len(pass.replays) + 1
          <5>1. i \in DOMAIN pass.replays /\ pass'.replays[i] = pass.replays[i]
            BY <3>4, <4>2
          <5> QED BY <3>1, <3>3, <5>1
        <4> QED BY <4>1, <4>2
      <3> QED BY <1>1, <2>2, <3>1, <3>2, <3>4, <3>5 DEF Evicted
    <2>6. pc' \in Calm /\ pc \in Calm /\ pc' # "done"
      BY <1>1, <2>1 DEF Calm
    <2>7. \A t \in Lodged(arena') : t \in Lodged(arena) \/ sched.stage[t] \in 1 .. Stages
      BY <1>5, <1>8
    <2> QED BY <1>1, <1>3, <1>8, <2>2, <2>4, <2>5, <2>6, <2>7, QuietInv
  <1>10. CASE ~out.ok
    <2>1. pass' = pass /\ pc' = "ready" /\ Lodged(arena') = Lodged(arena)
      BY <1>2, <1>8, <1>10
    <2>2. PassType'
      BY <1>3, <2>1 DEF PassType, GroupType
    <2>3. Evicted'
      <3>1. Lodged(arena)' = Lodged(arena) /\ Planning
        BY <1>1, <2>1 DEF Lodged, Resident, Planning
      <3> QED BY <1>1, <1>3, <2>1, <3>1, QueueSame
    <2> QED BY <1>1, <1>3, <1>8, <2>1, <2>2, <2>3, QuietInv DEF Calm
  <1> QED BY <1>9, <1>10


(* Who may be evicted has pages: it was not since its answer began.        *)
LEMMA VictimLodges ==
    ASSUME Inv, NEW s \in Victims(dec)
    PROVE  s \in Slots /\ s \in Lodged(arena) /\ sched.stage[s] \in 1 .. Stages
  <1>1. s \in Slots /\ dec.map[s] # NoMap /\ s \notin dec.paused
    BY DEF Victims
  <1>2. SlotInv(dec, pass.chosen, sched.stage, Fresh, s)
    BY <1>1 DEF Inv, DecInv
  <1>3. sched.stage[s] \in 1 .. Stages
    BY <1>1, <1>2 DEF SlotInv, Staged
  <1> QED BY <1>1, <1>3 DEF Inv, Houses

\* The victim joins the queue of evicted answers, or starts over in it.
LEMMA EvictQueues ==
    ASSUME NEW queue, NEW v \in Slots, NEW V \in SUBSET Slots, queue \in Seq([slot : Slots, start : Int]),
           \A i \in DOMAIN queue : queue[i].slot \in V, NEW q,
           q = LET anew == [slot |-> v, start |-> 0] IN
               IF \E e \in Range(queue) : e.slot = v
               THEN [i \in DOMAIN queue |-> IF queue[i].slot = v THEN anew ELSE queue[i]]
               ELSE Append(queue, anew)
    PROVE  q \in Seq([slot : Slots, start : Int]) /\ \A i \in DOMAIN q : q[i].slot \in V \cup {v}
  <1> DEFINE Item == [slot : Slots, start : Int]
             anew == [slot |-> v, start |-> 0]
             over == [i \in DOMAIN queue |-> IF queue[i].slot = v THEN anew ELSE queue[i]]
  <1>1. anew \in Item /\ queue \in Seq(Item) /\ anew.slot = v
    OBVIOUS
  <1>2. q = over \/ q = Append(queue, anew)
    OBVIOUS
  <1> HIDE DEF Item, anew
  <1>3. CASE q = over
    <2>1. Len(queue) \in Nat /\ DOMAIN queue = 1 .. Len(queue) /\ \A i \in DOMAIN queue : queue[i] \in Item
      BY <1>1
    <2>2. over \in [1 .. Len(queue) -> Item] /\ DOMAIN over = DOMAIN queue
      BY <1>1, <2>1
    <2>3. \A i \in DOMAIN over : over[i].slot \in V \cup {v}
      BY <1>1
    <2> HIDE DEF over
    <2>4. over \in Seq(Item)
      BY <2>1, <2>2
    <2> QED BY <1>3, <2>3, <2>4 DEF Item
  <1>4. CASE q = Append(queue, anew)
    <2>1. q \in Seq(Item)
      BY <1>1, <1>4
    <2>2. \A i \in DOMAIN q : q[i] = anew \/ (i \in DOMAIN queue /\ q[i] = queue[i])
      BY <1>1, <1>4
    <2>3. \A i \in DOMAIN q : q[i].slot \in V \cup {v}
      BY <1>1, <2>2
    <2> QED BY <2>1, <2>3 DEF Item
  <1> QED BY <1>2, <1>3, <1>4

\* Answers grow, or one is evicted (_grow_answers).
LEMMA GrowAnswersInv == ASSUME Inv, GrowAnswers PROVE Inv'
  <1>1. /\ pc = "grow" /\ pc' = pc /\ plan' = plan /\ back' = back /\ sched' = sched
        /\ exec' = exec /\ pass' = pass
    BY DEF GrowAnswers
  <1>2. PICK out \in GrowPages(arena, Growing) :
            IF out.ok THEN arena' = out.arena /\ dec' = dec /\ recomputing' = recomputing
            ELSE \E victim \in Victims(dec) : Evict(out.arena, victim)
    BY DEF GrowAnswers
  <1>3. Growing \in SUBSET Lodged(arena)
    BY VictimLodges DEF Growing, Running, Victims
  <1>4. Home(out.arena) /\ Lodged(out.arena) = Lodged(arena)
    BY <1>3, GrowHome DEF Inv
  <1>5. PassType /\ pass.held = <<>> /\ pass.chosen = {} /\ Evicted
    BY <1>1 DEF Inv, PlaceInv, PlaceType, PassType, Steps, Packed, Filling
  <1>6. PassType' /\ pc \in Calm /\ pc' # "done" /\ ~Planning'
    BY <1>1, <1>5 DEF PassType, GroupType, Calm, Planning
  <1>7. CASE out.ok
    <2>1. Evicted'
      BY <1>1, <1>2, <1>5, <1>6, <1>7, QueueSame
    <2> QED BY <1>1, <1>2, <1>4, <1>5, <1>6, <1>7, <2>1, QuietInv
  <1>8. CASE ~out.ok
    <2>1. PICK v \in Victims(dec) : Evict(out.arena, v)
      BY <1>2, <1>8
    <2>2. v \in Slots /\ v \in Lodged(arena)
      BY VictimLodges
    <2>3. /\ arena' = FreeKey(DropHolds(out.arena, {v}), v)
          /\ dec' = [dec EXCEPT !.paused = @ \cup {v}]
      BY <2>1 DEF Evict
    <2>4. Home(arena') /\ Lodged(arena') = Lodged(arena) \ {v}
      BY <1>4, <2>2, <2>3, VictimHome
    <2>5. PlaceInv' /\ Fresh' = Fresh
      BY <1>1, <1>5, <1>6, QuietKeeps DEF Inv
    <2> DEFINE V == dec.paused \cup {v}
    <2>6. dec.paused \in SUBSET Slots /\ V \in SUBSET Slots
      BY <2>2, DecoderFields DEF Inv, DecInv
    <2>7. dec' = [dec EXCEPT !.paused = V]
      BY <2>3
    <2> HIDE DEF V
    <2>8. DecInv(dec', pass.chosen, sched.stage, Fresh) /\ dec'.paused = V
      BY <2>6, <2>7, PauseKeeps DEF Inv
    <2>9. DecInv(dec, pass.chosen, sched.stage, Fresh)'
      BY <1>1, <2>5, <2>8, SameDec
    <2>10. Home(arena)'
      BY <2>4 DEF Home, Resident
    <2>11. Houses(arena, sched.stage, dec.paused)'
      <3>1. Houses(arena', sched.stage, V)
        BY <2>4, Zenon DEF Inv, Houses, V
      <3> QED BY <1>1, <2>8, <3>1, SameHouses
    <2>12. Evicted'
      <3>1. /\ recomputing \in Seq([slot : Slots, start : Int])
            /\ \A i \in DOMAIN recomputing : recomputing[i].slot \in dec.paused
        BY <1>5 DEF Evicted
      <3>2. recomputing' = LET anew == [slot |-> v, start |-> 0] IN
                IF \E e \in Range(recomputing) : e.slot = v
                THEN [i \in DOMAIN recomputing |->
                         IF recomputing[i].slot = v THEN anew ELSE recomputing[i]]
                ELSE Append(recomputing, anew)
        BY <2>1, Zenon DEF Evict
      <3>3. /\ recomputing' \in Seq([slot : Slots, start : Int])
            /\ \A i \in DOMAIN recomputing' : recomputing'[i].slot \in dec.paused \cup {v}
        BY <2>2, <2>6, <3>1, <3>2, EvictQueues
      <3> QED BY <1>6, <2>8, <3>3 DEF Evicted, V
    <2> QED BY <2>5, <2>9, <2>10, <2>11, <2>12 DEF Inv
  <1> QED BY <1>7, <1>8


-----------------------------------------------------------------------------
(* Documents are put in groups of the next pass.                           *)

\* New groups, of documents that are nowhere else, in lots that else stay.
LEMMA LotsJoin ==
    ASSUME NEW L, NEW M, NEW N, N \subseteq Cells(M),
           \A c \in Cells(M) \ N : c \in Cells(L) /\ At(M, c) = At(L, c),
           NEW ready, NEW deferred, NEW stage, InPlace(L, ready, deferred, stage),
           deferred \subseteq Slots, Range(ready) \subseteq Slots,
           NEW stage2, \A s \in Slots : stage[s] \in 1 .. Stages => stage2[s] = stage[s],
           \A c \in N : GroupAt(At(M, c), stage2) /\ At(M, c).slot \notin deferred
                           /\ At(M, c).slot \notin InLots(L),
           \A c, d \in N : At(M, c).slot = At(M, d).slot => c = d,
           NEW ready2, NoRepeats(ready2), Range(ready2) \subseteq Range(ready),
           \A c \in N : At(M, c).slot \notin Range(ready2)
    PROVE  InPlace(M, ready2, deferred, stage2)
  <1>1. \A c \in Cells(M) \ N : At(M, c).slot \in InLots(L)
    BY DEF InLots
  <1>2. Apart(M)
    <2> SUFFICES ASSUME NEW c \in Cells(M), NEW d \in Cells(M), At(M, c).slot = At(M, d).slot
                 PROVE  c = d
      BY DEF Apart
    <2>1. CASE c \in N /\ d \in N
      BY <2>1
    <2>2. CASE c \notin N /\ d \notin N
      BY <2>2 DEF InPlace, Apart
    <2>3. CASE (c \in N /\ d \notin N) \/ (c \notin N /\ d \in N)
      BY <1>1, <2>3
    <2> QED BY <2>1, <2>2, <2>3
  <1>3. \A c \in Cells(M) : GroupAt(At(M, c), stage2) /\ At(M, c).slot \notin deferred
    <2> SUFFICES ASSUME NEW c \in Cells(M) PROVE GroupAt(At(M, c), stage2) /\ At(M, c).slot \notin deferred
      OBVIOUS
    <2>1. CASE c \in N
      BY <2>1
    <2>2. CASE c \notin N
      <3>1. GroupAt(At(M, c), stage) /\ At(M, c).slot \notin deferred
        BY <2>2 DEF InPlace
      <3>2. At(M, c).slot \in Slots
        BY <3>1 DEF GroupAt, GroupType
      <3> QED BY <3>1, <3>2 DEF GroupAt
    <2> QED BY <2>1, <2>2
  <1>4. \A s \in Range(ready2) :
            stage2[s] \in 1 .. Stages /\ s \notin deferred /\ s \notin InLots(M)
    <2> SUFFICES ASSUME NEW s \in Range(ready2)
                 PROVE  stage2[s] \in 1 .. Stages /\ s \notin deferred /\ s \notin InLots(M)
      OBVIOUS
    <2>1. stage[s] \in 1 .. Stages /\ s \notin deferred /\ s \notin InLots(L)
      BY DEF InPlace
    <2>2. s \notin InLots(M)
      <3> SUFFICES ASSUME NEW c \in Cells(M), At(M, c).slot = s PROVE FALSE
        BY DEF InLots
      <3> QED BY <1>1, <2>1
    <2> QED BY <2>1, <2>2
  <1>5. \A s \in deferred : stage2[s] \in 1 .. Stages /\ plan.stages[stage2[s]] = "answer"
    BY DEF InPlace
  <1> QED BY <1>2, <1>3, <1>4, <1>5 DEF InPlace

\* As many later stages as fit leave the room a natural number.
LEMMA WholeRooms ==
    ASSUME NEW m \in Nat, NEW d \in Nat \ {0}
    PROVE  m \div d \in Nat /\ m - (m \div d) * d \in Nat
  <1>1. m \div d \in Nat /\ (m \div d) * d <= m
    BY SMTT(30)
  <1> DEFINE q == m \div d
  <1>2. q \in Nat /\ q * d <= m
    BY <1>1
  <1> HIDE DEF q
  <1>3. q * d \in Nat
    BY <1>2
  <1>4. m - q * d \in Nat
    BY <1>2, <1>3
  <1> QED BY <1>2, <1>4 DEF q

\* The cells of one lot and of two.
LEMMA TwoLots ==
    ASSUME NEW out \in Seq(GroupType), NEW groups \in Seq(GroupType), NEW L, L = <<out>>,
           NEW M, M = <<out, groups>>
    PROVE  /\ \A c \in Cells(L) : c \in Cells(M) /\ At(M, c) = At(L, c)
           /\ \A c \in Cells(M) : \/ c \in Cells(L)
                                  \/ \E k \in DOMAIN groups : c = <<2, k>> /\ At(M, c) = groups[k]
           /\ \A k \in DOMAIN groups : <<2, k>> \in Cells(M) /\ At(M, <<2, k>>) = groups[k]
           /\ \A k : <<2, k>> \notin Cells(L)
  <1>1. DOMAIN L = {1} /\ L[1] = out /\ DOMAIN M = {1, 2} /\ M[1] = out /\ M[2] = groups
    OBVIOUS
  <1>2. \A k \in DOMAIN groups : <<2, k>> \in Cells(M) /\ At(M, <<2, k>>) = groups[k]
    BY <1>1, CellIs DEF At
  <1>3. ASSUME NEW c \in Cells(L) PROVE c \in Cells(M) /\ At(M, c) = At(L, c)
    <2>1. PICK k \in DOMAIN out : c = <<1, k>>
      BY <1>1, CellIs
    <2> QED BY <1>1, <2>1, CellIs DEF At
  <1>4. ASSUME NEW c \in Cells(M)
        PROVE  \/ c \in Cells(L)
               \/ \E k \in DOMAIN groups : c = <<2, k>> /\ At(M, c) = groups[k]
    <2>1. PICK i \in DOMAIN M : \E k \in DOMAIN M[i] : c = <<i, k>>
      BY CellIs
    <2>2. CASE i = 1
      BY <1>1, <2>1, <2>2, CellIs
    <2>3. CASE i = 2
      BY <1>1, <1>2, <2>1, <2>3
    <2> QED BY <1>1, <2>2, <2>3
  <1>5. \A k : <<2, k>> \notin Cells(L)
    BY <1>1, CellIs
  <1> QED BY <1>2, <1>3, <1>4, <1>5

\* The places of a concatenation.
LEMMA ConcatAt ==
    ASSUME NEW S, NEW s \in Seq(S), NEW t \in Seq(S)
    PROVE  /\ Len(s) \in Nat /\ DOMAIN s = 1 .. Len(s) /\ Len(t) \in Nat /\ DOMAIN t = 1 .. Len(t)
           /\ s \o t \in Seq(S) /\ DOMAIN (s \o t) = 1 .. Len(s) + Len(t)
           /\ Len(s \o t) = Len(s) + Len(t)
           /\ \A n \in 1 .. Len(s) : (s \o t)[n] = s[n]
           /\ \A n \in 1 .. Len(s) + Len(t) : n > Len(s) => (s \o t)[n] = t[n - Len(s)]
           /\ \A n \in 1 .. Len(t) : (s \o t)[Len(s) + n] = t[n] /\ Len(s) + n \in DOMAIN (s \o t)
  <1>1. /\ Len(s) \in Nat /\ DOMAIN s = 1 .. Len(s) /\ Len(t) \in Nat /\ DOMAIN t = 1 .. Len(t)
        /\ s \o t \in Seq(S) /\ DOMAIN (s \o t) = 1 .. Len(s) + Len(t)
        /\ Len(s \o t) = Len(s) + Len(t)
        /\ \A n \in 1 .. Len(s) : (s \o t)[n] = s[n]
        /\ \A n \in 1 .. Len(s) + Len(t) : n > Len(s) => (s \o t)[n] = t[n - Len(s)]
    OBVIOUS
  <1>2. \A n \in 1 .. Len(t) : /\ Len(s) + n \in 1 .. Len(s) + Len(t)
                              /\ Len(s) + n > Len(s) /\ (Len(s) + n) - Len(s) = n
    BY <1>1
  <1>3. \A n \in 1 .. Len(t) : (s \o t)[Len(s) + n] = t[n]
    BY <1>1, <1>2
  <1> QED BY <1>1, <1>2, <1>3

\* Lots of one and of two.
LEMMA JoinedLots ==
    ASSUME NEW out, NEW groups
    PROVE  <<out>> \o <<>> = <<out>> /\ <<out>> \o <<groups>> = <<out, groups>>
  <1> DEFINE S == {out, groups}
             a == <<out>>
             b == <<groups>>
             c == <<out, groups>>
  <1>1. a \in Seq(S) /\ b \in Seq(S) /\ c \in Seq(S) /\ Len(a) = 1 /\ Len(b) = 1 /\ Len(c) = 2
        /\ a[1] = out /\ b[1] = groups /\ c[1] = out /\ c[2] = groups
        /\ a = [i \in 1 .. 1 |-> out] /\ c = [i \in 1 .. 2 |-> c[i]]
    OBVIOUS
  <1>2. a \o <<>> = a
    OBVIOUS
  <1> HIDE DEF S, a, b, c
  <1>5. a \in Seq(S) /\ b \in Seq(S)
    BY <1>1
  <1>3. a \o b \in Seq(S) /\ Len(a \o b) = Len(a) + Len(b)
        /\ (\A n \in 1 .. Len(a) : (a \o b)[n] = a[n])
        /\ (\A n \in 1 .. Len(b) : (a \o b)[Len(a) + n] = b[n])
    BY <1>5, ConcatAt
  <1>4. a \o b = c
    <2>1. Len(a \o b) = 2
      BY <1>1, <1>3
    <2>2. (a \o b)[1] = out /\ (a \o b)[2] = groups
      BY <1>1, <1>3
    <2> DEFINE d == a \o b
    <2>3. d \in Seq(S) /\ Len(d) = 2 /\ d[1] = out /\ d[2] = groups
      BY <1>3, <2>1, <2>2
    <2> HIDE DEF d
    <2>4. d = c
      BY <1>1, <2>3
    <2> QED BY <2>4 DEF d
  <1> QED BY <1>2, <1>4 DEF a, b, c

\* Where n fit, fewer fit.
LEMMA FewerFit ==
    ASSUME NEW m \in Nat, NEW n \in Nat, NEW d \in Nat, NEW r \in Nat, m <= n, r - n * d \in Nat
    PROVE  r - m * d \in Nat
  <1>1. m * d \in Nat /\ n * d \in Nat /\ m * d <= n * d
    <2>1. n = m + (n - m) /\ n - m \in Nat
      OBVIOUS
    <2> DEFINE k == n - m
    <2>2. k \in Nat /\ n = m + k
      BY <2>1
    <2> HIDE DEF k
    <2>3. n * d = m * d + k * d /\ k * d \in Nat /\ m * d \in Nat
      BY <2>2, SMTT(30)
    <2> QED BY <2>3
  <1> QED BY <1>1

\* Later stages move from the ready list into the chunk: no document twice.
LEMMA TakeReadyPlaces ==
    ASSUME Inv, TakeReady
    PROVE  PlaceInv' /\ Fresh' = Fresh /\ pass'.chosen = {} /\ sched'.stage = sched.stage
           /\ pass'.rows = pass.rows /\ pass'.replays = pass.replays
  <1> DEFINE n == Least(Len(sched.ready), pass.room \div plan.suffix)
             take == SubSeq(sched.ready, 1, n)
             groups == [i \in 1 .. n |-> Group(take[i], sched.stage[take[i]], FALSE)]
             rest == SubSeq(sched.ready, n + 1, Len(sched.ready))
             room == pass.room - n * plan.suffix
  <1>1. /\ pc = "ready" /\ pc' = "admit" /\ plan' = plan /\ back' = back /\ exec' = exec
        /\ pass' = [pass EXCEPT !.room = @ - n * plan.suffix, !.groups = groups]
        /\ sched' = [sched EXCEPT !.ready = SubSeq(@, n + 1, Len(@)), !.blocked = 0]
    BY DEF TakeReady
  <1>2. /\ PlaceType /\ pass.held = <<>> /\ pass.chosen = {} /\ Steps
        /\ InPlace(Lots, sched.ready, exec.deferred, sched.stage)
        /\ Waits(pass.held, sched.pending, sched.stage) /\ plan \in Plans
    BY <1>1 DEF Inv, PlaceInv, PlaceType, Steps, Packed, Filling
  <1>3. n \in 0 .. Len(sched.ready) /\ room \in Nat /\ Len(sched.ready) \in Nat
    <2>1. plan.suffix \in Nat \ {0} /\ pass.room \in Nat /\ sched.ready \in Seq(Slots)
      BY <1>2, PlanIs DEF PlaceType
    <2> DEFINE q == pass.room \div plan.suffix
    <2>2. q \in Nat /\ pass.room - q * plan.suffix \in Nat
      BY <2>1, WholeRooms
    <2>3. n = Least(Len(sched.ready), q) /\ Len(sched.ready) \in Nat
      BY <2>1
    <2> HIDE DEF q, n
    <2>4. n \in Nat /\ n <= q /\ n <= Len(sched.ready)
      BY <2>2, <2>3 DEF Least
    <2>5. pass.room - n * plan.suffix \in Nat
      BY <2>1, <2>2, <2>4, FewerFit
    <2>6. n \in 0 .. Len(sched.ready)
      BY <2>3, <2>4
    <2> QED BY <2>3, <2>5, <2>6
  <1> HIDE DEF n, room
  <1>4. /\ take \in Seq(Slots) /\ DOMAIN take = 1 .. n /\ \A i \in 1 .. n : take[i] = sched.ready[i]
        /\ DOMAIN sched.ready = 1 .. Len(sched.ready)
        /\ \A i \in 1 .. n : take[i] \in Slots /\ i \in DOMAIN sched.ready
        /\ rest \in Seq(Slots)
        /\ \A i \in DOMAIN rest : rest[i] = sched.ready[n + i] /\ n + i \in DOMAIN sched.ready
                                     /\ i \in Nat \ {0}
    <2>1. sched.ready \in Seq(Slots)
      BY <1>2 DEF PlaceType
    <2>2. take \in Seq(Slots) /\ DOMAIN take = 1 .. n /\ \A i \in 1 .. n : take[i] = sched.ready[i]
      BY <1>3, <2>1, PartIs
    <2>3. /\ rest \in Seq(Slots)
          /\ \A i \in DOMAIN rest : rest[i] = sched.ready[n + i] /\ n + i \in DOMAIN sched.ready
                                       /\ i \in Nat \ {0}
      <3> DEFINE a == n + 1
      <3>1. a \in Nat \ {0} /\ rest = SubSeq(sched.ready, a, Len(sched.ready))
        BY <1>3
      <3>2. /\ rest \in Seq(Slots) /\ DOMAIN rest = 1 .. Len(rest)
            /\ \A i \in DOMAIN rest : rest[i] = sched.ready[a + i - 1] /\ a + i - 1 \in DOMAIN sched.ready
        BY <1>3, <2>1, <3>1, PartIs
      <3> HIDE DEF rest
      <3>3. \A i \in DOMAIN rest : i \in Nat \ {0} /\ a + i - 1 = n + i
        BY <1>3, <3>2
      <3> QED BY <3>2, <3>3
    <2>4. \A i \in 1 .. n : take[i] \in Slots /\ i \in DOMAIN sched.ready
      BY <1>3, <2>1, <2>2
    <2> QED BY <2>1, <2>2, <2>3, <2>4
  <1> HIDE DEF take, rest
  <1>5. sched' = [sched EXCEPT !.ready = rest, !.blocked = 0]
    BY <1>1 DEF rest
  <1>6. /\ sched'.pending = sched.pending /\ sched'.ready = rest /\ sched'.stage = sched.stage
        /\ sched' = [pending |-> sched'.pending, ready |-> sched'.ready, stage |-> sched'.stage,
                     blocked |-> sched'.blocked]
    BY <1>2, <1>5 DEF PlaceType
  <1>7. /\ groups \in Seq(GroupType) /\ DOMAIN groups = 1 .. n
        /\ \A i \in 1 .. n : groups[i].slot = sched.ready[i] /\ GroupAt(groups[i], sched.stage)
    <2>1. \A i \in 1 .. n : sched.ready[i] \in Range(sched.ready)
      BY <1>4 DEF Range
    <2>2. \A i \in 1 .. n : take[i] = sched.ready[i] /\ take[i] \in Slots
                            /\ sched.stage[take[i]] \in 1 .. Stages
      BY <1>2, <1>4, <2>1 DEF InPlace
    <2>3. Stages \in Nat
      BY <1>2, PlanIs
    <2>4. \A i \in 1 .. n : Group(take[i], sched.stage[take[i]], FALSE) \in GroupType
      BY <2>2, <2>3 DEF Group, GroupType
    <2>5. groups \in Seq(GroupType) /\ DOMAIN groups = 1 .. n
      <3>1. groups \in [1 .. n -> GroupType]
        BY <2>4, Zenon
      <3>2. n \in Nat
        BY <1>3
      <3> HIDE DEF groups
      <3> QED BY <3>1, <3>2
    <2>6. \A i \in 1 .. n : /\ groups[i] \in GroupType /\ groups[i].slot = take[i]
                            /\ groups[i].stage = sched.stage[take[i]]
      BY <2>4 DEF Group
    <2> QED BY <2>2, <2>5, <2>6 DEF GroupAt
  <1> HIDE DEF groups
  <1>8. /\ pass'.rows = pass.rows /\ pass'.replays = pass.replays /\ pass'.at = pass.at
        /\ pass'.room = room /\ pass'.groups = groups /\ pass'.held = pass.held
        /\ pass'.parts = pass.parts /\ pass'.chosen = pass.chosen
        /\ pass' = [rows |-> pass'.rows, replays |-> pass'.replays, at |-> pass'.at,
                    room |-> pass'.room, groups |-> pass'.groups, held |-> pass'.held,
                    parts |-> pass'.parts, chosen |-> pass'.chosen]
    BY <1>1, <1>2 DEF PlaceType, room
  <1>9. PlaceType'
    <2>1. Stages' = Stages /\ GroupType' = GroupType
      BY <1>1, SamePlan DEF GroupType
    <2> QED BY <1>1, <1>2, <1>3, <1>4, <1>6, <1>7, <1>8, <2>1 DEF PlaceType
  <1>10. Steps'
    BY <1>1, <1>2, <1>6, <1>8 DEF Steps, Filling, Packed
  <1>11. Lots = <<Out>> /\ Lots' = <<Out, groups>> /\ Out' = Out /\ Out \in Seq(GroupType)
    <2>1. Parts = <<>> /\ Parts' = <<groups>>
      BY <1>1, <1>8 DEF Parts, Packed, Filling
    <2>2. Out' = Out
      BY <1>1 DEF Out
    <2>3. Out \in Seq(GroupType)
      BY <1>2 DEF Out, PlaceType
    <2>4. Lots = <<Out>> \o Parts /\ Lots' = <<Out'>> \o Parts'
      BY Zenon DEF Lots
    <2>5. Lots = <<Out>> \o <<>> /\ Lots' = <<Out>> \o <<groups>>
      BY <2>1, <2>2, <2>4
    <2> QED BY <2>2, <2>3, <2>5, JoinedLots
  <1>12. InPlace(Lots, sched.ready, exec.deferred, sched.stage)'
    <2> DEFINE L == <<Out>>
               M == <<Out, groups>>
               N == {<<2, k>> : k \in 1 .. n}
    <2>1. /\ \A c \in Cells(L) : c \in Cells(M) /\ At(M, c) = At(L, c)
          /\ \A c \in Cells(M) : \/ c \in Cells(L)
                                 \/ \E k \in DOMAIN groups : c = <<2, k>> /\ At(M, c) = groups[k]
          /\ \A k \in DOMAIN groups : <<2, k>> \in Cells(M) /\ At(M, <<2, k>>) = groups[k]
          /\ \A k : <<2, k>> \notin Cells(L)
      BY <1>7, <1>11, TwoLots
    <2> HIDE DEF L, M
    <2>2. \A c \in N : \E k \in 1 .. n : c = <<2, k>> /\ At(M, c) = groups[k] /\ c \in Cells(M)
      BY <1>7, <2>1
    <2>3. \A k \in 1 .. n : <<2, k>> \in N
      OBVIOUS
    <2> HIDE DEF N
    <2>4. N \subseteq Cells(M) /\ \A c \in Cells(M) \ N : c \in Cells(L) /\ At(M, c) = At(L, c)
      BY <1>7, <2>1, <2>2, <2>3
    <2>5. InPlace(L, sched.ready, exec.deferred, sched.stage)
      BY <1>2, <1>11 DEF L
    <2>6. ASSUME NEW c \in N
          PROVE  /\ GroupAt(At(M, c), sched.stage) /\ At(M, c).slot \notin exec.deferred
                 /\ At(M, c).slot \notin InLots(L) /\ At(M, c).slot \notin Range(rest)
      <3>1. PICK k \in 1 .. n : At(M, c) = groups[k]
        BY <2>2
      <3>2. groups[k].slot = sched.ready[k] /\ GroupAt(groups[k], sched.stage) /\ k \in DOMAIN sched.ready
        BY <1>4, <1>7
      <3>3. sched.ready[k] \in Range(sched.ready)
        BY <3>2 DEF Range
      <3>4. sched.ready[k] \notin Range(rest)
        <4> SUFFICES ASSUME NEW i \in DOMAIN rest, rest[i] = sched.ready[k] PROVE FALSE
          BY DEF Range
        <4>1. n + i = k
          BY <1>2, <1>4, <3>2 DEF InPlace, NoRepeats
        <4> QED BY <1>3, <1>4, <4>1
      <3> QED BY <2>5, <3>1, <3>2, <3>3, <3>4 DEF InPlace
    <2>7. ASSUME NEW c \in N, NEW d \in N, At(M, c).slot = At(M, d).slot
          PROVE  c = d
      <3>1. PICK j \in 1 .. n : c = <<2, j>> /\ At(M, c) = groups[j]
        BY <2>2
      <3>2. PICK k \in 1 .. n : d = <<2, k>> /\ At(M, d) = groups[k]
        BY <2>2
      <3>3. sched.ready[j] = sched.ready[k] /\ j \in DOMAIN sched.ready /\ k \in DOMAIN sched.ready
        BY <1>4, <1>7, <2>7, <3>1, <3>2
      <3>4. j = k
        BY <1>2, <3>3 DEF InPlace, NoRepeats
      <3> QED BY <3>1, <3>2, <3>4
    <2>8. NoRepeats(rest) /\ Range(rest) \subseteq Range(sched.ready)
      <3>1. ASSUME NEW i \in DOMAIN rest, NEW k \in DOMAIN rest, rest[i] = rest[k] PROVE i = k
        <4>1. n + i = n + k
          BY <1>2, <1>4, <3>1 DEF InPlace, NoRepeats
        <4> QED BY <1>3, <1>4, <4>1
      <3>2. Range(rest) \subseteq Range(sched.ready)
        BY <1>4 DEF Range
      <3> QED BY <3>1, <3>2 DEF NoRepeats
    <2>11. exec.deferred \subseteq Slots /\ Range(sched.ready) \subseteq Slots
      BY <1>2, RangeIn DEF PlaceType
    <2>9. InPlace(M, rest, exec.deferred, sched.stage)
      BY <2>4, <2>5, <2>6, <2>7, <2>8, <2>11, LotsJoin
    <2>10. Lots' = M
      BY <1>11 DEF M
    <2> QED BY <1>1, <1>6, <2>9, <2>10, InPlaceNext
  <1>13. Waits(pass.held, sched.pending, sched.stage)'
    BY <1>2, <1>6, <1>8 DEF Waits, NoRepeats
  <1>14. Fresh' = Fresh
    <2>1. Starters(Out)' = Starters(Out)
      BY <1>1, <1>11, SamePlan
    <2>2. Begun' = Begun
      BY <1>1, <2>1 DEF Begun, Packed
    <2> QED BY <2>2 DEF Fresh
  <1> QED BY <1>2, <1>6, <1>8, <1>9, <1>10, <1>12, <1>13, <1>14 DEF PlaceInv


\* Groups change places: no document's stage, answer or pages change.
LEMMA StillInv ==
    ASSUME Inv, plan' = plan, PlaceInv', Fresh' = Fresh, dec' = dec, pass'.chosen = pass.chosen,
           sched'.stage = sched.stage, Home(arena'), Lodged(arena') = Lodged(arena),
           recomputing' = recomputing,
           Planning' => Planning /\ pass'.rows = pass.rows /\ pass'.replays = pass.replays
    PROVE  Inv'
  <1>1. DecInv(dec, pass.chosen, sched.stage, Fresh)'
    <2>1. DecInv(dec, pass.chosen, sched.stage, Fresh)
      BY DEF Inv
    <2> QED BY <2>1, SameDec
  <1>2. Home(arena)'
    BY DEF Home, Resident
  <1>3. Houses(arena, sched.stage, dec.paused)'
    <2>1. Houses(arena', sched.stage, dec.paused)
      BY DEF Inv, Houses
    <2> QED BY <2>1, SameHouses
  <1>4. Lodged(arena)' = Lodged(arena)
    BY DEF Lodged, Resident
  <1>5. Evicted'
    BY <1>4, QueueSame DEF Inv
  <1> QED BY <1>1, <1>2, <1>3, <1>5 DEF Inv

\* Later stages are taken first (admission.py next_chunk).
LEMMA TakeReadyInv == ASSUME Inv, TakeReady PROVE Inv'
  <1>1. /\ pc = "ready" /\ pc' = "admit" /\ plan' = plan /\ arena' = arena /\ dec' = dec
        /\ recomputing' = recomputing
    BY DEF TakeReady
  <1>2. /\ PlaceInv' /\ Fresh' = Fresh /\ pass'.chosen = {} /\ sched'.stage = sched.stage
        /\ pass'.rows = pass.rows /\ pass'.replays = pass.replays
    BY TakeReadyPlaces
  <1>3. pass.chosen = {}
    BY <1>1 DEF Inv, PlaceInv, Steps, Packed
  <1>4. Home(arena') /\ Planning
    BY <1>1 DEF Inv, Planning
  <1> QED BY <1>1, <1>2, <1>3, <1>4, StillInv

(* While the chunk is filled, documents at the head of the queue are held  *)
(* back or end it.                                                         *)
LEMMA FillingKeeps ==
    ASSUME Inv, pc = "admit", pc' \in {"admit", "close"}, plan' = plan, back' = back, exec' = exec,
           sched'.stage = sched.stage, sched'.ready = sched.ready, sched'.pending \in Seq(Slots),
           sched' = [pending |-> sched'.pending, ready |-> sched'.ready, stage |-> sched'.stage,
                     blocked |-> sched'.blocked],
           PassType', pass'.groups = pass.groups, pass'.chosen = pass.chosen,
           Waits(pass'.held, sched'.pending, sched'.stage)
    PROVE  PlaceInv' /\ Fresh' = Fresh
  <1>1. PlaceType /\ Steps
    BY DEF Inv, PlaceInv
  <1>2. PlaceType'
    <2>1. Stages' = Stages /\ GroupType' = GroupType
      BY SamePlan DEF GroupType
    <2> QED BY <1>1, <2>1 DEF PlaceType, PassType
  <1>3. Steps'
    BY <1>1 DEF Steps, Filling, Packed
  <1>4. Lots' = Lots /\ Out' = Out
    <2>1. Out' = Out
      BY DEF Out
    <2>2. Parts' = Parts
      BY DEF Parts, Filling
    <2> QED BY <2>1, <2>2 DEF Lots
  <1>5. InPlace(Lots, sched.ready, exec.deferred, sched.stage)'
    <2>1. InPlace(Lots, sched.ready, exec.deferred, sched.stage)
      BY DEF Inv, PlaceInv
    <2> QED BY <1>4, <2>1, SamePlaces
  <1>6. Waits(pass.held, sched.pending, sched.stage)'
    BY DEF Waits, NoRepeats
  <1>7. Fresh' = Fresh
    <2>1. Starters(Out)' = Starters(Out)
      BY <1>4, SamePlan
    <2>2. Begun' = Begun
      BY <2>1 DEF Begun, Packed
    <2> QED BY <2>2 DEF Fresh
  <1> QED BY <1>2, <1>3, <1>5, <1>6, <1>7 DEF PlaceInv

\* The head of the queue waits for pages.
LEMMA HoldForPagesInv ==
    ASSUME Inv, NEW s \in Slots, HoldForPages(s)
    PROVE  Inv'
  <1>1. /\ pc = "admit" /\ pc' = "close" /\ plan' = plan /\ back' = back /\ exec' = exec
        /\ arena' = arena /\ dec' = dec /\ recomputing' = recomputing /\ pass' = pass
        /\ sched' = [sched EXCEPT !.blocked = PageCost(Capacity(s)) - FreePages(arena)]
    BY DEF HoldForPages, Admitting
  <1>2. PlaceType /\ PassType /\ Waits(pass.held, sched.pending, sched.stage)
    BY DEF Inv, PlaceInv, PlaceType, PassType
  <1> DEFINE b == PageCost(Capacity(s)) - FreePages(arena)
  <1>3. sched' = [sched EXCEPT !.blocked = b]
    BY <1>1
  <1> HIDE DEF b
  <1>4. /\ sched'.pending = sched.pending /\ sched'.ready = sched.ready /\ sched'.stage = sched.stage
        /\ sched' = [pending |-> sched'.pending, ready |-> sched'.ready, stage |-> sched'.stage,
                     blocked |-> sched'.blocked]
    BY <1>2, <1>3 DEF PlaceType
  <1>5. PassType' /\ sched'.pending \in Seq(Slots)
    BY <1>1, <1>2, <1>4 DEF PassType, GroupType, PlaceType
  <1>6. PlaceInv' /\ Fresh' = Fresh
    BY <1>1, <1>2, <1>4, <1>5, FillingKeeps
  <1>7. Home(arena') /\ Planning
    BY <1>1 DEF Inv, Planning
  <1> QED BY <1>1, <1>4, <1>6, <1>7, StillInv

\* The head of the queue is held back for the next chunk.
LEMMA HoldForRoomInv ==
    ASSUME Inv, NEW s \in Slots, HoldForRoom(s)
    PROVE  Inv'
  <1>1. /\ pc = "admit" /\ pc' = pc /\ plan' = plan /\ back' = back /\ exec' = exec
        /\ arena' = arena /\ dec' = dec /\ recomputing' = recomputing
        /\ sched' = [sched EXCEPT !.pending = Tail(@)]
        /\ pass' = [pass EXCEPT !.held = Append(@, s)]
        /\ sched.pending # <<>> /\ s = Head(sched.pending)
    BY DEF HoldForRoom, HoldBack, Admitting
  <1>2. PlaceType /\ PassType /\ Waits(pass.held, sched.pending, sched.stage)
    BY DEF Inv, PlaceInv, PlaceType, PassType
  <1>3. /\ sched'.pending = Tail(sched.pending) /\ sched'.ready = sched.ready
        /\ sched'.stage = sched.stage
        /\ sched' = [pending |-> sched'.pending, ready |-> sched'.ready, stage |-> sched'.stage,
                     blocked |-> sched'.blocked]
    BY <1>1, <1>2 DEF PlaceType
  <1>4. /\ pass'.rows = pass.rows /\ pass'.replays = pass.replays /\ pass'.at = pass.at
        /\ pass'.room = pass.room /\ pass'.groups = pass.groups /\ pass'.held = Append(pass.held, s)
        /\ pass'.parts = pass.parts /\ pass'.chosen = pass.chosen
        /\ pass' = [rows |-> pass'.rows, replays |-> pass'.replays, at |-> pass'.at,
                    room |-> pass'.room, groups |-> pass'.groups, held |-> pass'.held,
                    parts |-> pass'.parts, chosen |-> pass'.chosen]
    BY <1>1, <1>2 DEF PassType
  <1>5. /\ Tail(sched.pending) \in Seq(Slots)
        /\ Range(sched.pending) = Range(Tail(sched.pending)) \cup {s}
        /\ NoRepeats(sched.pending) =>
              NoRepeats(Tail(sched.pending)) /\ s \notin Range(Tail(sched.pending))
    BY <1>1, <1>2, TailIs DEF PlaceType
  <1>6. /\ Append(pass.held, s) \in Seq(Slots)
        /\ Range(Append(pass.held, s)) = Range(pass.held) \cup {s}
        /\ NoRepeats(pass.held) /\ s \notin Range(pass.held) => NoRepeats(Append(pass.held, s))
    BY <1>2, AppendIs DEF PassType
  <1>7. PassType' /\ sched'.pending \in Seq(Slots)
    BY <1>2, <1>3, <1>4, <1>5, <1>6 DEF PassType, GroupType
  <1>8. Waits(pass'.held, sched'.pending, sched'.stage)
    BY <1>2, <1>3, <1>4, <1>5, <1>6 DEF Waits
  <1>9. PlaceInv' /\ Fresh' = Fresh
    BY <1>1, <1>3, <1>4, <1>7, <1>8, FillingKeeps
  <1>10. Home(arena') /\ Planning
    BY <1>1 DEF Inv, Planning
  <1> QED BY <1>1, <1>3, <1>4, <1>9, <1>10, StillInv


\* M has cell n, that holds g, and those of L.
OneMore(L, M, n, g) ==
    /\ n \in Cells(M) /\ At(M, n) = g
    /\ \A c \in Cells(M) \ {n} : c \in Cells(L) /\ At(M, c) = At(L, c)

\* One more group: its cell is new, the others stay.
LEMMA LotGrows ==
    ASSUME NEW out \in Seq(GroupType), NEW groups \in Seq(GroupType), NEW g \in GroupType,
           NEW L, L = <<out, groups>>, NEW M, M = <<out, Append(groups, g)>>,
           NEW n, n = <<2, Len(groups) + 1>>
    PROVE  OneMore(L, M, n, g)
  <1> DEFINE more == Append(groups, g)
  <1>1. /\ Len(groups) \in Nat /\ DOMAIN groups = 1 .. Len(groups) /\ more \in Seq(GroupType)
        /\ DOMAIN more = 1 .. Len(groups) + 1 /\ more[Len(groups) + 1] = g
        /\ \A k \in 1 .. Len(groups) : more[k] = groups[k]
    OBVIOUS
  <1> HIDE DEF more
  <1>2. M = <<out, more>>
    BY DEF more
  <1>3. DOMAIN L = {1, 2} /\ L[1] = out /\ DOMAIN M = {1, 2} /\ M[1] = out /\ M[2] = more /\ L[2] = groups
    BY <1>2
  <1>4. Len(groups) + 1 \in DOMAIN more
    BY <1>1
  <1>5. n \in Cells(M) /\ At(M, n) = g
    <2>1. n \in Cells(M)
      BY <1>3, <1>4, CellIs
    <2>2. n[1] = 2 /\ n[2] = Len(groups) + 1
      OBVIOUS
    <2> QED BY <1>1, <1>3, <2>1, <2>2 DEF At
  <1>6. ASSUME NEW c \in Cells(M), c # n PROVE c \in Cells(L) /\ At(M, c) = At(L, c)
    <2>1. PICK i \in DOMAIN M : \E k \in DOMAIN M[i] : c = <<i, k>>
      BY CellIs
    <2>2. CASE i = 1
      <3>1. PICK k \in DOMAIN out : c = <<1, k>>
        BY <1>3, <2>1, <2>2
      <3>2. c \in Cells(L)
        BY <1>3, <3>1, CellIs
      <3> QED BY <1>3, <3>1, <3>2 DEF At
    <2>3. CASE i = 2
      <3>1. PICK k \in DOMAIN more : c = <<2, k>>
        BY <1>3, <2>1, <2>3
      <3>2. k \in 1 .. Len(groups)
        BY <1>1, <1>6, <3>1
      <3>3. c \in Cells(L)
        BY <1>1, <1>3, <3>1, <3>2, CellIs
      <3>4. c[1] = 2 /\ c[2] = k /\ more[k] = groups[k]
        BY <1>1, <3>1, <3>2
      <3> QED BY <1>3, <3>3, <3>4 DEF At
    <2> QED BY <1>3, <2>2, <2>3
  <1> QED BY <1>5, <1>6 DEF OneMore

\* Who is out, or ready, or put off, is at a stage.
LEMMA NotWaiting ==
    ASSUME PlaceInv, NEW s \in Slots, sched.stage[s] \notin 1 .. Stages
    PROVE  s \notin InLots(Lots) /\ s \notin exec.deferred /\ s \notin Range(sched.ready)
           /\ s \in Fresh /\ (pc \in {"admit", "close"} => Fresh = Slots \ (exec.deferred \cup Starters(Out)))
  <1>1. s \notin InLots(Lots)
    <2> SUFFICES ASSUME NEW c \in Cells(Lots), At(Lots, c).slot = s PROVE FALSE
      BY DEF InLots
    <2>1. GroupAt(At(Lots, c), sched.stage)
      BY DEF PlaceInv, InPlace
    <2> QED BY <2>1 DEF GroupAt
  <1>2. s \notin exec.deferred /\ s \notin Range(sched.ready)
    BY DEF PlaceInv, InPlace
  <1>3. Out \in Seq(GroupType) /\ Parts \in Seq(Seq(GroupType)) /\ LotsShape(Lots, Out, Parts)
    BY LotsNow DEF PlaceInv
  <1>4. /\ DOMAIN Lots = 1 .. (Len(Parts) + 1) /\ Lots[1] = Out
        /\ \A i \in 1 .. Len(Parts) : Lots[i + 1] = Parts[i]
        /\ Len(Parts) \in Nat /\ DOMAIN Parts = 1 .. Len(Parts)
    BY <1>3 DEF LotsShape
  <1>5. \A g \in Range(Out) : g.slot \in InLots(Lots)
    <2> SUFFICES ASSUME NEW k \in DOMAIN Out PROVE Out[k].slot \in InLots(Lots)
      BY DEF Range
    <2>1. 1 \in DOMAIN Lots /\ k \in DOMAIN Lots[1]
      BY <1>4
    <2> QED BY <1>4, <2>1, CellAt
  <1>6. Packed => \A g \in Range(Part) : g.slot \in InLots(Lots)
    <2> SUFFICES ASSUME Packed, NEW k \in DOMAIN Part PROVE Part[k].slot \in InLots(Lots)
      BY DEF Range
    <2>1. Parts = pass.parts /\ pass.parts # <<>> /\ ~Filling
      BY DEF Parts, Packed, Filling, PlaceInv, Steps
    <2>2. 1 \in 1 .. Len(Parts) /\ Part = Parts[1]
      <3>1. Parts # <<>> /\ Parts \in Seq(Seq(GroupType)) /\ Part = Head(Parts)
        BY <1>3, <2>1 DEF Part
      <3> QED BY <3>1
    <2>3. Lots[2] = Part /\ 2 \in DOMAIN Lots
      BY <1>4, <2>2
    <2> QED BY <2>3, CellAt
  <1>7. s \in Fresh
    BY <1>1, <1>2, <1>5, <1>6 DEF Fresh, Begun, Starters
  <1>8. pc \in {"admit", "close"} => Fresh = Slots \ (exec.deferred \cup Starters(Out))
    BY DEF Fresh, Begun, Packed
  <1> QED BY <1>1, <1>2, <1>7, <1>8


(* A document is admitted.                                                 *)
Admitted(s) ==
    /\ sched' = [sched EXCEPT !.pending = Tail(@), !.stage[s] = 1]
    /\ pass' = [pass EXCEPT !.groups = Append(@, Group(s, 1, TRUE)), !.room = @ - Prompt(s)]
    /\ pc = "admit" /\ pc' = pc /\ plan' = plan /\ back' = back /\ exec' = exec /\ dec' = dec
    /\ sched.pending # <<>> /\ s = Head(sched.pending) /\ Prompt(s) <= pass.room

\* What the step leaves of the records.
AdmittedAre(s, g) ==
    /\ sched'.pending = Tail(sched.pending) /\ sched'.ready = sched.ready
    /\ sched'.stage = [sched.stage EXCEPT ![s] = 1]
    /\ sched' = [pending |-> sched'.pending, ready |-> sched'.ready, stage |-> sched'.stage,
                 blocked |-> sched'.blocked]
    /\ pass'.rows = pass.rows /\ pass'.replays = pass.replays /\ pass'.at = pass.at
    /\ pass'.room = pass.room - Prompt(s) /\ pass'.groups = Append(pass.groups, g)
    /\ pass'.held = pass.held /\ pass'.parts = pass.parts /\ pass'.chosen = pass.chosen
    /\ pass' = [rows |-> pass'.rows, replays |-> pass'.replays, at |-> pass'.at,
                room |-> pass'.room, groups |-> pass'.groups, held |-> pass'.held,
                parts |-> pass'.parts, chosen |-> pass'.chosen]

\* The state after an admission, field by field.
LEMMA AdmittedFields ==
    ASSUME PlaceInv, NEW s \in Slots, Admitted(s), NEW g, g = Group(s, 1, TRUE)
    PROVE  AdmittedAre(s, g) /\ s \in Range(sched.pending) /\ sched.stage[s] = 0
  <1>1. PlaceType
    BY DEF PlaceInv
  <1>2. sched' = [sched EXCEPT !.pending = Tail(@), !.stage[s] = 1]
    BY DEF Admitted
  <1>3. /\ sched'.pending = Tail(sched.pending) /\ sched'.ready = sched.ready
        /\ sched'.stage = [sched.stage EXCEPT ![s] = 1]
        /\ sched' = [pending |-> sched'.pending, ready |-> sched'.ready, stage |-> sched'.stage,
                     blocked |-> sched'.blocked]
    BY <1>1, <1>2 DEF PlaceType
  <1>4. pass' = [pass EXCEPT !.groups = Append(@, g), !.room = @ - Prompt(s)]
    BY DEF Admitted
  <1>5. /\ pass'.rows = pass.rows /\ pass'.replays = pass.replays /\ pass'.at = pass.at
        /\ pass'.room = pass.room - Prompt(s) /\ pass'.groups = Append(pass.groups, g)
        /\ pass'.held = pass.held /\ pass'.parts = pass.parts /\ pass'.chosen = pass.chosen
        /\ pass' = [rows |-> pass'.rows, replays |-> pass'.replays, at |-> pass'.at,
                    room |-> pass'.room, groups |-> pass'.groups, held |-> pass'.held,
                    parts |-> pass'.parts, chosen |-> pass'.chosen]
    BY <1>1, <1>4 DEF PlaceType
  <1>6. s \in Range(sched.pending)
    BY <1>1, TailIs DEF Admitted, PlaceType
  <1>7. sched.stage[s] = 0
    BY <1>6 DEF PlaceInv, Waits, Queued
  <1> QED BY <1>3, <1>5, <1>6, <1>7 DEF AdmittedAre

\* An admitted document leaves the queue for the chunk.
LEMMA AdmittedPlaces ==
    ASSUME PlaceInv, NEW s \in Slots, Admitted(s)
    PROVE  PlaceInv' /\ Fresh' = Fresh
  <1> DEFINE g == Group(s, 1, TRUE)
             n == <<2, Len(pass.groups) + 1>>
             L == <<Out, pass.groups>>
             M == <<Out, Append(pass.groups, g)>>
             stage2 == sched'.stage
  <1>1. AdmittedAre(s, g) /\ s \in Range(sched.pending) /\ sched.stage[s] = 0
    BY AdmittedFields
  <1>2. /\ pc = "admit" /\ pc' = pc /\ plan' = plan /\ back' = back /\ exec' = exec
        /\ sched.pending # <<>> /\ s = Head(sched.pending) /\ Prompt(s) <= pass.room
    BY DEF Admitted
  <1>3. PlaceType /\ Steps /\ plan \in Plans
    BY DEF PlaceInv, PlaceType
  <1>4. Stages \in Nat /\ Stages > 0 /\ Prompt(s) \in Nat
    BY <1>3, PlanIs DEF Prompt
  <1>5. /\ g \in GroupType /\ g.slot = s /\ g.stage = 1
        /\ Append(pass.groups, g) \in Seq(GroupType) /\ pass.groups \in Seq(GroupType)
    <2>1. g \in GroupType /\ g.slot = s /\ g.stage = 1
      BY DEF Group, GroupType
    <2>2. pass.groups \in Seq(GroupType)
      BY <1>3 DEF PlaceType
    <2> HIDE DEF g
    <2> QED BY <2>1, <2>2
  <1> HIDE DEF g
  <1>6. /\ stage2 \in [Slots -> 0 .. Stages + 1] /\ stage2[s] = 1
        /\ \A t \in Slots : t # s => stage2[t] = sched.stage[t]
    <2>1. sched.stage \in [Slots -> 0 .. Stages + 1] /\ 1 \in 0 .. Stages + 1
      BY <1>3, <1>4 DEF PlaceType
    <2> QED BY <1>1, <2>1, PutIs DEF AdmittedAre
  <1>7. /\ Tail(sched.pending) \in Seq(Slots)
        /\ Range(sched.pending) = Range(Tail(sched.pending)) \cup {s}
        /\ NoRepeats(sched.pending) =>
              NoRepeats(Tail(sched.pending)) /\ s \notin Range(Tail(sched.pending))
    BY <1>2, <1>3, TailIs DEF PlaceType
  <1>8. PlaceType'
    <2>1. Stages' = Stages /\ GroupType' = GroupType
      BY <1>2, SamePlan DEF GroupType
    <2>2. pass.room - Prompt(s) \in Nat
      BY <1>2, <1>3, <1>4 DEF PlaceType
    <2> QED BY <1>1, <1>2, <1>3, <1>5, <1>6, <1>7, <2>1, <2>2 DEF PlaceType, AdmittedAre
  <1>9. Steps'
    BY <1>1, <1>2, <1>3 DEF Steps, AdmittedAre, Filling, Packed
  <1>10. Lots = L /\ Lots' = M /\ Out' = Out /\ Out \in Seq(GroupType)
    <2>1. Parts = <<pass.groups>> /\ Parts' = <<pass'.groups>>
      BY <1>2 DEF Parts, Filling
    <2>2. Out' = Out
      BY <1>2 DEF Out
    <2>3. Out \in Seq(GroupType)
      BY <1>3, LotsNow
    <2>4. Lots = <<Out>> \o Parts /\ Lots' = <<Out'>> \o Parts'
      BY Zenon DEF Lots
    <2>5. pass'.groups = Append(pass.groups, g)
      BY <1>1 DEF AdmittedAre
    <2>6. Lots = <<Out>> \o <<pass.groups>> /\ Lots' = <<Out>> \o <<pass'.groups>>
      BY <2>1, <2>2, <2>4
    <2>7. Lots = <<Out, pass.groups>> /\ Lots' = <<Out, pass'.groups>>
      BY <2>6, JoinedLots
    <2> QED BY <2>2, <2>3, <2>5, <2>7
  <1>11. InPlace(Lots, sched.ready, exec.deferred, sched.stage)'
    <2>1. /\ n \in Cells(M) /\ At(M, n) = g
          /\ \A c \in Cells(M) \ {n} : c \in Cells(L) /\ At(M, c) = At(L, c)
      <3>1. /\ Out \in Seq(GroupType) /\ pass.groups \in Seq(GroupType) /\ g \in GroupType
            /\ L = <<Out, pass.groups>> /\ M = <<Out, Append(pass.groups, g)>>
            /\ n = <<2, Len(pass.groups) + 1>>
        BY <1>5, <1>10
      <3> HIDE DEF L, M, n
      <3>2. OneMore(L, M, n, g)
        BY <3>1, LotGrows
      <3> QED BY <3>2 DEF OneMore
    <2>2. s \notin InLots(Lots) /\ s \notin exec.deferred /\ s \notin Range(sched.ready)
      BY <1>1, <1>4, NotWaiting
    <2>3. InPlace(L, sched.ready, exec.deferred, sched.stage) /\ s \notin InLots(L)
      BY <1>10, <2>2 DEF PlaceInv
    <2> DEFINE N == {n}
    <2>4. N \subseteq Cells(M) /\ (\A c \in Cells(M) \ N : c \in Cells(L) /\ At(M, c) = At(L, c))
          /\ (\A c \in N : At(M, c) = g) /\ (\A c, d \in N : c = d)
      BY <2>1
    <2> HIDE DEF N, L, M, n, stage2
    <2>5. \A c \in N : GroupAt(At(M, c), stage2) /\ At(M, c).slot \notin exec.deferred
                          /\ At(M, c).slot \notin InLots(L) /\ At(M, c).slot \notin Range(sched.ready)
      <3>1. GroupAt(g, stage2)
        BY <1>4, <1>5, <1>6 DEF GroupAt
      <3> QED BY <1>5, <2>2, <2>3, <2>4, <3>1
    <2>6. \A t \in Slots : sched.stage[t] \in 1 .. Stages => stage2[t] = sched.stage[t]
      BY <1>1, <1>4, <1>6
    <2>7. NoRepeats(sched.ready)
      BY <2>3 DEF InPlace
    <2>8. exec.deferred \subseteq Slots /\ Range(sched.ready) \subseteq Slots
      BY <1>3, RangeIn DEF PlaceType
    <2>9. \A c, d \in N : At(M, c).slot = At(M, d).slot => c = d
      BY <2>4
    <2>10. InPlace(M, sched.ready, exec.deferred, stage2)
      BY <2>3, <2>4, <2>5, <2>6, <2>7, <2>8, <2>9, LotsJoin
    <2>11. sched'.ready = sched.ready /\ exec'.deferred = exec.deferred /\ Lots' = M
      BY <1>1, <1>2, <1>10 DEF AdmittedAre
    <2> QED BY <1>2, <2>10, <2>11, InPlaceNext DEF stage2
  <1>12. Waits(pass.held, sched.pending, sched.stage)'
    <2>1. Waits(pass.held, sched.pending, sched.stage)
      BY DEF PlaceInv
    <2>2. Range(pass.held) \subseteq Slots /\ Range(Tail(sched.pending)) \subseteq Slots
      BY <1>3, <1>7, RangeIn DEF PlaceType
    <2>3. Waits(pass.held, Tail(sched.pending), stage2)
      <3>1. NoRepeats(pass.held) /\ NoRepeats(Tail(sched.pending))
            /\ Range(pass.held) \cap Range(Tail(sched.pending)) = {}
        BY <1>7, <2>1 DEF Waits
      <3>2. \A t \in Range(pass.held) \cup Range(Tail(sched.pending)) : t # s /\ t \in Slots
        BY <1>1, <1>7, <2>1, <2>2 DEF Waits
      <3>3. \A t \in Range(pass.held) \cup Range(Tail(sched.pending)) : stage2[t] = Queued
        BY <1>6, <1>7, <2>1, <3>2 DEF Waits
      <3> HIDE DEF stage2
      <3> QED BY <3>1, <3>3 DEF Waits
    <2>4. pass'.held = pass.held /\ sched'.pending = Tail(sched.pending)
      BY <1>1 DEF AdmittedAre
    <2> QED BY <2>3, <2>4 DEF Waits, NoRepeats
  <1>13. Fresh' = Fresh
    <2>1. Starters(Out)' = Starters(Out)
      BY <1>2, <1>10, SamePlan
    <2>2. Begun' = Begun
      BY <1>2, <2>1 DEF Begun, Packed
    <2> QED BY <2>2 DEF Fresh
  <1> QED BY <1>8, <1>9, <1>11, <1>12, <1>13 DEF PlaceInv


\* A document is admitted, or ends the chunk (admission.py next_chunk).
LEMMA AdmitInv ==
    ASSUME Inv, NEW s \in Slots, Admit(s)
    PROVE  Inv'
  <1>1. /\ pc = "admit" /\ sched.pending # <<>> /\ s = Head(sched.pending) /\ Prompt(s) <= pass.room
        /\ plan' = plan /\ back' = back /\ dec' = dec /\ recomputing' = recomputing /\ exec' = exec
    BY DEF Admit, Admitting
  <1>2. PICK out :
            /\ \/ out = [ok |-> FALSE, arena |-> arena]
               \/ out \in Reserve(arena, s, Document(s), Capacity(s), 0, 0)
            /\ arena' = out.arena
            /\ IF out.ok
               THEN /\ sched' = [sched EXCEPT !.pending = Tail(@), !.stage[s] = 1]
                    /\ pass' = [pass EXCEPT !.groups = Append(@, Group(s, 1, TRUE)),
                                            !.room = @ - Prompt(s)]
                    /\ pc' = pc
               ELSE pc' = "close" /\ sched' = sched /\ pass' = pass
    BY Zenon DEF Admit
  <1>3. PlaceInv /\ PlaceType /\ PassType /\ plan \in Plans /\ Planning
        /\ Waits(pass.held, sched.pending, sched.stage) /\ Steps
    BY <1>1 DEF Inv, PlaceInv, PlaceType, PassType, Planning
  <1>4. sched.stage[s] = Queued
    <2>1. s \in Range(sched.pending)
      BY <1>1, <1>3, TailIs DEF PlaceType
    <2> QED BY <1>3, <2>1 DEF Waits
  <1>5. s \notin Lodged(arena) /\ s \notin Resident(arena)
    BY <1>4 DEF Inv, Houses, Lodged
  <1>6. Document(s) \in Nat /\ Capacity(s) \in Nat /\ Document(s) <= Capacity(s)
    <2>1. /\ plan.document[s] \in Nat /\ plan.suffix \in Nat \ {0} /\ plan.limit \in Nat \ {0}
          /\ PageTokens \in Nat
      BY <1>3, PlanIs, PageTokensAssumption
    <2> QED BY <2>1 DEF Document, Capacity, Prompt, Least
  <1>7. /\ Home(arena') /\ out.ok \in BOOLEAN
        /\ Lodged(arena') = Lodged(arena) \cup IF out.ok THEN {s} ELSE {}
    <2>1. CASE out = [ok |-> FALSE, arena |-> arena]
      <3>1. out.ok = FALSE /\ arena' = arena
        BY <1>2, <2>1
      <3> QED BY <3>1 DEF Inv
    <2>2. CASE out \in Reserve(arena, s, Document(s), Capacity(s), 0, 0)
      <3>1. arena' = out.arena
        BY <1>2
      <3> QED BY <1>5, <1>6, <2>2, <3>1, ReserveHome DEF Inv
    <2> QED BY <1>2, <2>1, <2>2
  <1>8. CASE ~out.ok
    <2>1. pc' = "close" /\ sched' = sched /\ pass' = pass /\ Lodged(arena') = Lodged(arena)
      BY <1>2, <1>7, <1>8
    <2>2. PassType' /\ sched'.pending \in Seq(Slots)
      BY <1>3, <2>1 DEF PassType, GroupType, PlaceType
    <2>3. PlaceInv' /\ Fresh' = Fresh
      <3>1. sched' = [pending |-> sched'.pending, ready |-> sched'.ready, stage |-> sched'.stage,
                      blocked |-> sched'.blocked]
        BY <1>3, <2>1 DEF PlaceType
      <3> QED BY <1>1, <1>3, <2>1, <2>2, <3>1, FillingKeeps
    <2> QED BY <1>1, <1>3, <1>7, <2>1, <2>3, StillInv
  <1>9. CASE out.ok
    <2> DEFINE g == Group(s, 1, TRUE)
    <2>1. Admitted(s) /\ pc' = pc
      BY <1>1, <1>2, <1>9 DEF Admitted
    <2>2. AdmittedAre(s, g)
      BY <1>3, <2>1, AdmittedFields
    <2> HIDE DEF g
    <2>3. PlaceInv' /\ Fresh' = Fresh
      BY <1>3, <2>1, AdmittedPlaces
    <2> DEFINE stage2 == sched'.stage
    <2>4. /\ stage2 \in [Slots -> Nat] /\ stage2[s] = 1 /\ sched.stage \in [Slots -> Nat]
          /\ \A t \in Slots : t # s => stage2[t] = sched.stage[t]
      <3>1. Stages \in Nat
        BY <1>3, PlanIs
      <3>2. sched.stage \in [Slots -> Nat]
        BY <1>3, <3>1 DEF PlaceType
      <3>3. stage2 = [sched.stage EXCEPT ![s] = 1]
        BY <2>2 DEF AdmittedAre
      <3> QED BY <3>2, <3>3, PutIs
    <2> HIDE DEF stage2
    <2>5. DecInv(dec, pass.chosen, sched.stage, Fresh)'
      <3>1. pass.chosen = {} /\ pass'.chosen = {}
        BY <1>1, <1>3, <2>2 DEF Steps, Packed, AdmittedAre
      <3>2. s \in Fresh
        <4>1. sched.stage[s] \notin 1 .. Stages
          BY <1>4 DEF Queued
        <4> QED BY <1>3, <4>1, NotWaiting
      <3> DEFINE fresh == Fresh
                 stage == sched.stage
      <3>3. /\ stage \in [Slots -> Nat] /\ DecInv(dec, {}, stage, fresh) /\ s \in fresh /\ stage[s] = 0
            /\ \A t \in Slots \ {s} : stage2[t] = stage[t]
        BY <1>4, <2>4, <3>1, <3>2 DEF Inv, Queued
      <3> HIDE DEF fresh, stage
      <3>4. DecInv(dec, {}, stage2, fresh)
        BY <1>3, <2>4, <3>3, AdmittedKeeps
      <3> QED BY <1>1, <2>3, <3>1, <3>4, SameDec DEF stage2, fresh
    <2>6. Home(arena)'
      BY <1>7 DEF Home, Resident
    <2>7. Houses(arena, sched.stage, dec.paused)'
      <3>1. Lodged(arena') = Lodged(arena) \cup {s}
        BY <1>7, <1>9
      <3>2. Stages \in Nat /\ Stages > 0
        BY <1>3, PlanIs
      <3>3. Houses(arena, sched.stage, dec.paused)
        BY DEF Inv
      <3>4. ASSUME NEW t \in Slots
            PROVE  /\ stage2[t] \in 1 .. Stages /\ t \notin dec.paused => t \in Lodged(arena')
                   /\ stage2[t] \in {Queued, Stages + 1} => t \notin Lodged(arena')
        <4>1. CASE t = s
          BY <2>4, <3>1, <3>2, <4>1 DEF Queued
        <4>2. CASE t # s
          BY <2>4, <3>1, <3>3, <4>2 DEF Houses
        <4> QED BY <4>1, <4>2
      <3>5. Houses(arena', stage2, dec.paused)
        BY <3>4 DEF Houses
      <3> QED BY <1>1, <3>5, SameHouses DEF stage2
    <2>8. Evicted'
      <3>1. Lodged(arena) \subseteq Lodged(arena)' /\ Evicted
        BY <1>7 DEF Lodged, Resident, Inv
      <3>2. pass'.rows = pass.rows /\ pass'.replays = pass.replays
        BY <2>2 DEF AdmittedAre
      <3> QED BY <1>1, <1>3, <3>1, <3>2, QueueSame
    <2> QED BY <2>3, <2>5, <2>6, <2>7, <2>8 DEF Inv
  <1> QED BY <1>7, <1>8, <1>9


(* The chunk is closed: what was held back goes before what still waits.   *)
LEMMA CloseChunkInv == ASSUME Inv, CloseChunk PROVE Inv'
  <1> DEFINE groups == pass.groups
  <1>1. /\ pc \in {"admit", "close"} /\ plan' = plan /\ arena' = arena /\ back' = back /\ dec' = dec
        /\ recomputing' = recomputing /\ exec' = exec
        /\ sched' = [sched EXCEPT !.pending = pass.held \o @]
        /\ pass' = [pass EXCEPT !.held = <<>>, !.parts = <<groups>>]
        /\ pc' \in {"idle", "run"} /\ (pc' = "idle" => groups = <<>>)
    BY DEF CloseChunk
  <1>2. PlaceInv /\ PlaceType /\ Steps /\ Planning /\ ~Packed /\ Filling
        /\ Waits(pass.held, sched.pending, sched.stage)
    BY <1>1 DEF Inv, PlaceInv, Planning, Packed, Filling
  <1>3. groups \in Seq(GroupType) /\ pass.held \in Seq(Slots) /\ sched.pending \in Seq(Slots)
    BY <1>2 DEF PlaceType
  <1> HIDE DEF groups
  <1>4. /\ sched'.pending = pass.held \o sched.pending /\ sched'.ready = sched.ready
        /\ sched'.stage = sched.stage
        /\ sched' = [pending |-> sched'.pending, ready |-> sched'.ready, stage |-> sched'.stage,
                     blocked |-> sched'.blocked]
    BY <1>1, <1>2 DEF PlaceType
  <1>5. /\ pass'.rows = pass.rows /\ pass'.replays = pass.replays /\ pass'.at = pass.at
        /\ pass'.room = pass.room /\ pass'.groups = pass.groups /\ pass'.held = <<>>
        /\ pass'.parts = <<groups>> /\ pass'.chosen = pass.chosen
        /\ pass' = [rows |-> pass'.rows, replays |-> pass'.replays, at |-> pass'.at,
                    room |-> pass'.room, groups |-> pass'.groups, held |-> pass'.held,
                    parts |-> pass'.parts, chosen |-> pass'.chosen]
    BY <1>1, <1>2 DEF PlaceType
  <1>6. /\ pass.held \o sched.pending \in Seq(Slots)
        /\ Range(pass.held \o sched.pending) = Range(pass.held) \cup Range(sched.pending)
        /\ NoRepeats(pass.held \o sched.pending)
    BY <1>2, <1>3, ConcatIs DEF Waits
  <1>7. PlaceType'
    <2>1. Stages' = Stages /\ GroupType' = GroupType
      BY <1>1, SamePlan DEF GroupType
    <2>2. <<groups>> \in Seq(Seq(GroupType)) /\ <<>> \in Seq(Slots)
      BY <1>3
    <2> QED BY <1>1, <1>2, <1>4, <1>5, <1>6, <2>1, <2>2 DEF PlaceType
  <1>8. Steps'
    <2>1. pass.chosen = {}
      BY <1>2 DEF Steps
    <2>2. <<groups>> # <<>>
      OBVIOUS
    <2> QED BY <1>1, <1>2, <1>4, <1>5, <2>1, <2>2 DEF Steps, Filling, Packed
  <1>9. /\ Out' = Out /\ Out \in Seq(GroupType) /\ Lots = <<Out, groups>>
        /\ pc' = "run" => Lots' = Lots
        /\ pc' = "idle" => Lots' = <<Out>>
    <2>1. Parts = <<groups>>
      BY <1>2 DEF Parts, groups
    <2>2. (pc' = "run" => Parts' = <<groups>>) /\ (pc' = "idle" => Parts' = <<>>)
      BY <1>5 DEF Parts, Filling, Packed
    <2>3. Out' = Out
      BY <1>1 DEF Out
    <2>4. Lots = <<Out>> \o Parts /\ Lots' = <<Out'>> \o Parts'
      BY Zenon DEF Lots
    <2>5. Out \in Seq(GroupType)
      BY <1>2, LotsNow
    <2>6. Lots = <<Out>> \o <<groups>>
      BY <2>1, <2>4
    <2>7. pc' = "run" => Lots' = <<Out>> \o <<groups>>
      BY <2>2, <2>3, <2>4
    <2>8. pc' = "idle" => Lots' = <<Out>> \o <<>>
      BY <2>2, <2>3, <2>4
    <2> QED BY <2>3, <2>5, <2>6, <2>7, <2>8, JoinedLots
  <1>10. InPlace(Lots, sched.ready, exec.deferred, sched.stage)'
    <2> DEFINE L == Lots
               M == Lots'
    <2>1. InPlace(L, sched.ready, exec.deferred, sched.stage)
      BY <1>2 DEF PlaceInv
    <2>2. \A c \in Cells(M) : c \in Cells(L) /\ At(M, c) = At(L, c)
      <3>1. CASE pc' = "run"
        BY <1>9, <3>1
      <3>2. CASE pc' = "idle"
        <4> DEFINE one == <<Out>>
                   two == <<Out, groups>>
        <4>1. \A c \in Cells(one) : c \in Cells(two) /\ At(two, c) = At(one, c)
          BY <1>3, <1>9, TwoLots
        <4>2. M = one /\ L = two
          BY <1>9, <3>2
        <4> HIDE DEF one, two, L, M
        <4> QED BY <4>1, <4>2
      <3> QED BY <1>1, <3>1, <3>2
    <2>3. M = Lots'
      OBVIOUS
    <2> HIDE DEF L, M
    <2>4. InPlace(M, sched.ready, exec.deferred, sched.stage)
      BY <2>1, <2>2, LotsPrefix
    <2> QED BY <1>1, <1>4, <2>3, <2>4, InPlaceNext
  <1>11. Waits(pass.held, sched.pending, sched.stage)'
    <2>1. Range(<<>>) = {} /\ NoRepeats(<<>>)
      BY DEF Range, NoRepeats
    <2>2. \A s \in Range(sched'.pending) : sched'.stage[s] = Queued
      BY <1>2, <1>4, <1>6 DEF Waits
    <2>3. Waits(pass'.held, sched'.pending, sched'.stage)
      BY <1>4, <1>5, <1>6, <2>1, <2>2 DEF Waits
    <2> QED BY <2>3 DEF Waits, NoRepeats
  <1>12. PlaceInv'
    BY <1>7, <1>8, <1>10, <1>11 DEF PlaceInv
  <1>13. Fresh' = Fresh
    <2>1. Starters(Out)' = Starters(Out)
      BY <1>1, <1>9, SamePlan
    <2>2. Begun' = Begun
      BY <1>1, <1>2, <2>1 DEF Begun, Packed
    <2> QED BY <2>2 DEF Fresh
  <1>14. Home(arena') /\ Lodged(arena') = Lodged(arena)
    BY <1>1 DEF Inv
  <1> QED BY <1>1, <1>2, <1>4, <1>5, <1>12, <1>13, <1>14, StillInv


-----------------------------------------------------------------------------
(* The pass runs.                                                          *)

\* A sequence of lots whose first is cut in two.
SplitShape(parts, half, M) ==
    /\ M \in Seq(Seq(GroupType)) /\ Len(M) = Len(parts) + 1 /\ DOMAIN M = 1 .. Len(parts) + 1
    /\ M[1] = SubSeq(parts[1], 1, half) /\ M[2] = SubSeq(parts[1], half + 1, Len(parts[1]))
    /\ \A i \in 3 .. Len(parts) + 1 : M[i] = parts[i - 1]

\* Two halves in place of a part.
LEMMA SplitIs ==
    ASSUME NEW parts \in Seq(Seq(GroupType)), parts # <<>>, NEW half \in Nat, half <= Len(parts[1]),
           NEW M, M = <<SubSeq(parts[1], 1, half), SubSeq(parts[1], half + 1, Len(parts[1]))>> \o Tail(parts)
    PROVE  SplitShape(parts, half, M)
  <1> DEFINE a == SubSeq(parts[1], 1, half)
             b == SubSeq(parts[1], half + 1, Len(parts[1]))
             two == <<a, b>>
             rest == Tail(parts)
             S == Seq(GroupType)
  <1>1. /\ Len(parts) \in Nat /\ Len(parts) > 0 /\ rest \in Seq(S) /\ Len(rest) = Len(parts) - 1
        /\ \A i \in 1 .. Len(parts) - 1 : rest[i] = parts[i + 1]
        /\ parts[1] \in S
    OBVIOUS
  <1>2. a \in S /\ b \in S
    BY <1>1
  <1> HIDE DEF a, b, rest
  <1>3. two \in Seq(S) /\ Len(two) = 2 /\ two[1] = a /\ two[2] = b
    BY <1>2
  <1>4. M = two \o rest
    BY DEF a, b, rest
  <1> HIDE DEF two, S
  <1>5. /\ M \in Seq(S) /\ DOMAIN M = 1 .. Len(two) + Len(rest) /\ Len(M) = Len(two) + Len(rest)
        /\ \A n \in 1 .. Len(two) : M[n] = two[n]
        /\ \A n \in 1 .. Len(rest) : M[Len(two) + n] = rest[n]
    <2>1. two \in Seq(S) /\ rest \in Seq(S)
      BY <1>1, <1>3
    <2>2. /\ two \o rest \in Seq(S) /\ DOMAIN (two \o rest) = 1 .. Len(two) + Len(rest)
          /\ Len(two \o rest) = Len(two) + Len(rest)
          /\ \A n \in 1 .. Len(two) : (two \o rest)[n] = two[n]
          /\ \A n \in 1 .. Len(rest) : (two \o rest)[Len(two) + n] = rest[n]
      BY <2>1, ConcatAt
    <2> QED BY <1>4, <2>2
  <1>6. Len(M) = Len(parts) + 1 /\ DOMAIN M = 1 .. Len(parts) + 1
    BY <1>1, <1>3, <1>5
  <1>7. M[1] = a /\ M[2] = b
    BY <1>3, <1>5
  <1>8. \A i \in 3 .. Len(parts) + 1 : M[i] = parts[i - 1]
    <2> SUFFICES ASSUME NEW i \in 3 .. Len(parts) + 1 PROVE M[i] = parts[i - 1]
      OBVIOUS
    <2>1. i - 2 \in 1 .. Len(rest) /\ i - 2 \in 1 .. Len(parts) - 1 /\ 2 + (i - 2) = i
          /\ (i - 2) + 1 = i - 1
      BY <1>1
    <2>2. M[2 + (i - 2)] = rest[i - 2]
      BY <1>3, <1>5, <2>1
    <2>3. rest[i - 2] = parts[(i - 2) + 1]
      BY <1>1, <2>1
    <2> QED BY <2>1, <2>2, <2>3
  <1> QED BY <1>5, <1>6, <1>7, <1>8 DEF SplitShape, a, b, S

\* No group is lost or doubled when a part is cut in two.
LEMMA SplitMoves ==
    ASSUME NEW out \in Seq(GroupType), NEW parts \in Seq(Seq(GroupType)), parts # <<>>,
           NEW half \in Nat, half <= Len(parts[1]), NEW more, SplitShape(parts, half, more),
           NEW L, LotsShape(L, out, parts), NEW M, LotsShape(M, out, more)
    PROVE  \E f : Moves(L, M, f)
  <1> DEFINE f == [c \in Cells(M) |-> IF c[1] \in {1, 2} THEN c
                                      ELSE IF c[1] = 3 THEN <<2, half + c[2]>>
                                      ELSE <<c[1] - 1, c[2]>>]
  <1>1. /\ DOMAIN L = 1 .. Len(parts) + 1 /\ L[1] = out /\ Len(parts) \in Nat /\ Len(parts) > 0
        /\ \A i \in 1 .. Len(parts) : L[i + 1] = parts[i]
        /\ DOMAIN M = 1 .. Len(more) + 1 /\ M[1] = out
        /\ \A i \in 1 .. Len(more) : M[i + 1] = more[i]
        /\ Len(more) = Len(parts) + 1
        /\ more[1] = SubSeq(parts[1], 1, half) /\ more[2] = SubSeq(parts[1], half + 1, Len(parts[1]))
        /\ \A i \in 3 .. Len(parts) + 1 : more[i] = parts[i - 1]
    <2>1. /\ DOMAIN L = 1 .. Len(parts) + 1 /\ L[1] = out
          /\ \A i \in 1 .. Len(parts) : L[i + 1] = parts[i]
          /\ DOMAIN M = 1 .. Len(more) + 1 /\ M[1] = out
          /\ \A i \in 1 .. Len(more) : M[i + 1] = more[i]
      BY Zenon DEF LotsShape
    <2>2. /\ Len(more) = Len(parts) + 1
          /\ more[1] = SubSeq(parts[1], 1, half) /\ more[2] = SubSeq(parts[1], half + 1, Len(parts[1]))
          /\ \A i \in 3 .. Len(parts) + 1 : more[i] = parts[i - 1]
      BY Zenon DEF SplitShape
    <2>3. Len(parts) \in Nat /\ Len(parts) > 0
      BY SMTT(30)
    <2> QED BY <2>1, <2>2, <2>3, Zenon
  <1>0. Len(parts) \in Nat /\ Len(parts) > 0 /\ DOMAIN L = 1 .. Len(parts) + 1
        /\ Len(more) = Len(parts) + 1 /\ DOMAIN M = 1 .. Len(more) + 1
    BY <1>1
  <1>2. /\ L[2] = parts[1] /\ 2 \in DOMAIN L /\ 1 \in DOMAIN L
        /\ M[2] = SubSeq(parts[1], 1, half) /\ M[3] = SubSeq(parts[1], half + 1, Len(parts[1]))
    <2>1. 1 \in 1 .. Len(parts) /\ 1 \in 1 .. Len(more) /\ 2 \in 1 .. Len(more)
      BY <1>1
    <2>2. L[1 + 1] = parts[1] /\ M[1 + 1] = more[1] /\ M[2 + 1] = more[2]
      BY <1>1, <2>1
    <2> QED BY <1>1, <2>1, <2>2
  <1>3. ASSUME NEW i \in DOMAIN M, i > 3 PROVE M[i] = L[i - 1] /\ i - 1 \in DOMAIN L /\ i \in Nat
    <2>1. i - 1 \in 1 .. Len(more) /\ i - 1 \in 3 .. Len(parts) + 1 /\ i - 2 \in 1 .. Len(parts)
          /\ (i - 1) + 1 = i /\ (i - 1) - 1 = i - 2 /\ (i - 2) + 1 = i - 1 /\ i \in Nat
          /\ i - 1 \in 1 .. Len(parts) + 1
      BY <1>0, <1>3, SMTT(30)
    <2>2. M[(i - 1) + 1] = more[i - 1]
      BY <1>1, <2>1
    <2>3. more[i - 1] = parts[(i - 1) - 1]
      BY <1>1, <2>1
    <2>4. L[(i - 2) + 1] = parts[i - 2]
      BY <1>1, <2>1
    <2> QED BY <1>0, <2>1, <2>2, <2>3, <2>4
  <1>4. parts[1] \in Seq(GroupType) /\ Len(parts[1]) \in Nat /\ DOMAIN parts[1] = 1 .. Len(parts[1])
    BY <1>1
  <1>5. /\ DOMAIN M[2] = 1 .. half /\ \A k \in 1 .. half : M[2][k] = parts[1][k] /\ k \in DOMAIN parts[1]
        /\ \A k \in DOMAIN M[3] : /\ M[3][k] = parts[1][half + k] /\ half + k \in DOMAIN parts[1]
                                  /\ k \in Nat \ {0}
    <2> DEFINE h == SubSeq(parts[1], 1, half)
    <2>6. /\ DOMAIN h = 1 .. Len(h) /\ Len(h) = IF 1 <= half THEN half - 1 + 1 ELSE 0
          /\ \A k \in DOMAIN h : h[k] = parts[1][1 + k - 1] /\ 1 + k - 1 \in DOMAIN parts[1]
      BY <1>4, PartIs
    <2>7. M[2] = h
      BY <1>2
    <2> HIDE DEF h
    <2>8. Len(h) = half
      BY <2>6
    <2>9. \A k \in 1 .. half : 1 + k - 1 = k
      OBVIOUS
    <2>1. DOMAIN M[2] = 1 .. half /\ \A k \in 1 .. half : M[2][k] = parts[1][k] /\ k \in DOMAIN parts[1]
      BY <2>6, <2>7, <2>8, <2>9
    <2> DEFINE a == half + 1
               s == SubSeq(parts[1], a, Len(parts[1]))
    <2>2. /\ DOMAIN s = 1 .. Len(s) /\ a \in Nat \ {0} /\ Len(s) \in Nat
          /\ \A k \in DOMAIN s : s[k] = parts[1][a + k - 1] /\ a + k - 1 \in DOMAIN parts[1]
      BY <1>4, PartIs
    <2>3. M[3] = s
      BY <1>2
    <2> HIDE DEF s
    <2>10. DOMAIN s = 1 .. Len(s) /\ Len(s) \in Nat
      BY <2>2
    <2>4. \A k \in DOMAIN s : k \in Nat \ {0} /\ a + k - 1 = half + k
      <3> SUFFICES ASSUME NEW k \in DOMAIN s PROVE k \in Nat \ {0} /\ a + k - 1 = half + k
        OBVIOUS
      <3>1. k \in 1 .. Len(s)
        BY <2>10
      <3> QED BY <3>1, <2>10
    <2> QED BY <2>1, <2>2, <2>3, <2>4
  <1> HIDE DEF f
  <1>6. ASSUME NEW c \in Cells(M)
        PROVE  \E i \in DOMAIN M : \E k \in DOMAIN M[i] :
                  /\ c = <<i, k>> /\ At(M, c) = M[i][k] /\ i \in Nat
                  /\ f[c] = IF i \in {1, 2} THEN <<i, k>>
                            ELSE IF i = 3 THEN <<2, half + k>> ELSE <<i - 1, k>>
    <2>1. PICK i \in DOMAIN M : \E k \in DOMAIN M[i] : c = <<i, k>>
      BY CellIs
    <2>2. PICK k \in DOMAIN M[i] : c = <<i, k>>
      BY <2>1
    <2>3. c[1] = i /\ c[2] = k
      BY <2>2
    <2>4. At(M, c) = M[i][k]
      BY <2>3 DEF At
    <2>5. f[c] = IF i \in {1, 2} THEN c ELSE IF i = 3 THEN <<2, half + k>> ELSE <<i - 1, k>>
      BY <2>3 DEF f
    <2>6. i \in Nat
      BY <1>1
    <2> QED BY <2>2, <2>4, <2>5, <2>6
  <1>7. ASSUME NEW c \in Cells(M) PROVE f[c] \in Cells(L) /\ At(M, c) = At(L, f[c])
    <2>1. PICK i \in DOMAIN M : \E k \in DOMAIN M[i] :
                  /\ c = <<i, k>> /\ At(M, c) = M[i][k] /\ i \in Nat
                  /\ f[c] = IF i \in {1, 2} THEN <<i, k>>
                            ELSE IF i = 3 THEN <<2, half + k>> ELSE <<i - 1, k>>
      BY <1>6
    <2>2. PICK k \in DOMAIN M[i] :
                  /\ c = <<i, k>> /\ At(M, c) = M[i][k] /\ i \in Nat
                  /\ f[c] = IF i \in {1, 2} THEN <<i, k>>
                            ELSE IF i = 3 THEN <<2, half + k>> ELSE <<i - 1, k>>
      BY <2>1
    <2>3. CASE i = 1
      <3>1. f[c] = <<1, k>> /\ k \in DOMAIN L[1] /\ M[1][k] = L[1][k]
        BY <1>1, <2>2, <2>3
      <3> QED BY <1>2, <2>2, <2>3, <3>1, CellAt
    <2>4. CASE i = 2
      <3>1. f[c] = <<2, k>> /\ k \in DOMAIN L[2] /\ M[2][k] = L[2][k]
        BY <1>2, <1>5, <2>2, <2>4
      <3> QED BY <1>2, <2>2, <2>4, <3>1, CellAt
    <2>5. CASE i = 3
      <3>1. f[c] = <<2, half + k>> /\ half + k \in DOMAIN L[2] /\ M[3][k] = L[2][half + k]
        BY <1>2, <1>5, <2>2, <2>5
      <3> QED BY <1>2, <2>2, <2>5, <3>1, CellAt
    <2>6. CASE i > 3
      <3>1. f[c] = <<i - 1, k>> /\ k \in DOMAIN L[i - 1] /\ M[i][k] = L[i - 1][k] /\ i - 1 \in DOMAIN L
        BY <1>3, <2>2, <2>6
      <3> QED BY <2>2, <3>1, CellAt
    <2>7. i = 1 \/ i = 2 \/ i = 3 \/ i > 3
      <3>1. i \in 1 .. Len(more) + 1 /\ Len(more) \in Nat
        BY <1>0
      <3> HIDE DEF f
      <3>2. i \in Nat /\ i >= 1
        BY <3>1
      <3> QED BY <3>2
    <2> QED BY <2>3, <2>4, <2>5, <2>6, <2>7
  <1>8. ASSUME NEW c \in Cells(M), NEW d \in Cells(M), f[c] = f[d] PROVE c = d
    <2>1. PICK i \in DOMAIN M : \E k \in DOMAIN M[i] :
                  /\ c = <<i, k>> /\ At(M, c) = M[i][k] /\ i \in Nat
                  /\ f[c] = IF i \in {1, 2} THEN <<i, k>>
                            ELSE IF i = 3 THEN <<2, half + k>> ELSE <<i - 1, k>>
      BY <1>6
    <2>2. PICK k \in DOMAIN M[i] :
                  /\ c = <<i, k>> /\ At(M, c) = M[i][k] /\ i \in Nat
                  /\ f[c] = IF i \in {1, 2} THEN <<i, k>>
                            ELSE IF i = 3 THEN <<2, half + k>> ELSE <<i - 1, k>>
      BY <2>1
    <2>3. PICK j \in DOMAIN M : \E m \in DOMAIN M[j] :
                  /\ d = <<j, m>> /\ At(M, d) = M[j][m] /\ j \in Nat
                  /\ f[d] = IF j \in {1, 2} THEN <<j, m>>
                            ELSE IF j = 3 THEN <<2, half + m>> ELSE <<j - 1, m>>
      BY <1>6
    <2>4. PICK m \in DOMAIN M[j] :
                  /\ d = <<j, m>> /\ At(M, d) = M[j][m] /\ j \in Nat
                  /\ f[d] = IF j \in {1, 2} THEN <<j, m>>
                            ELSE IF j = 3 THEN <<2, half + m>> ELSE <<j - 1, m>>
      BY <2>3
    <2>5. (IF i \in {1, 2} THEN <<i, k>> ELSE IF i = 3 THEN <<2, half + k>> ELSE <<i - 1, k>>)
          = (IF j \in {1, 2} THEN <<j, m>> ELSE IF j = 3 THEN <<2, half + m>> ELSE <<j - 1, m>>)
      BY <1>8, <2>2, <2>4
    <2>6. (i = 2 => k \in 1 .. half) /\ (j = 2 => m \in 1 .. half)
      BY <1>5
    <2>7. (i = 3 => k \in Nat \ {0}) /\ (j = 3 => m \in Nat \ {0})
      BY <1>5
    <2>8. i \in Nat /\ j \in Nat /\ i >= 1 /\ j >= 1
      BY <1>0
    <2>9. i = j /\ k = m
      <3>1. CASE i = 3
        <4>1. <<2, half + k>> = IF j \in {1, 2} THEN <<j, m>>
                                ELSE IF j = 3 THEN <<2, half + m>> ELSE <<j - 1, m>>
          BY <2>5, <3>1
        <4>2. CASE j = 3
          <5>1. half + k = half + m
            BY <4>1, <4>2
          <5> QED BY <2>7, <3>1, <4>2, <5>1
        <4>3. CASE j = 2
          <5>1. half + k = m
            BY <4>1, <4>3
          <5> QED BY <2>6, <2>7, <3>1, <4>3, <5>1
        <4>4. CASE j = 1
          BY <4>1, <4>4
        <4>5. CASE j > 3
          <5>1. j # 1 /\ j # 2 /\ j # 3
            BY <2>8, <4>5
          <5>2. 2 = j - 1
            BY <4>1, <5>1
          <5> QED BY <2>8, <4>5, <5>2
        <4> QED BY <2>8, <4>2, <4>3, <4>4, <4>5
      <3>2. CASE j = 3 /\ i # 3
        <4>1. <<2, half + m>> = IF i \in {1, 2} THEN <<i, k>> ELSE <<i - 1, k>>
          BY <2>5, <3>2
        <4>2. CASE i = 2
          <5>1. half + m = k
            BY <4>1, <4>2
          <5> QED BY <2>6, <2>7, <3>2, <4>2, <5>1
        <4>3. CASE i = 1
          BY <4>1, <4>3
        <4>4. CASE i > 3
          <5>1. i # 1 /\ i # 2 /\ i # 3
            BY <2>8, <4>4
          <5>2. 2 = i - 1
            BY <4>1, <5>1
          <5> QED BY <2>8, <4>4, <5>2
        <4> QED BY <2>8, <3>2, <4>2, <4>3, <4>4
      <3>3. CASE i # 3 /\ j # 3
        <4>1. (IF i \in {1, 2} THEN <<i, k>> ELSE <<i - 1, k>>)
              = (IF j \in {1, 2} THEN <<j, m>> ELSE <<j - 1, m>>)
          BY <2>5, <3>3
        <4>2. (IF i \in {1, 2} THEN i ELSE i - 1) = (IF j \in {1, 2} THEN j ELSE j - 1) /\ k = m
          BY <4>1
        <4>3. i = j
          BY <2>8, <3>3, <4>2
        <4> QED BY <4>2, <4>3
      <3> QED BY <3>1, <3>2, <3>3
    <2> QED BY <2>2, <2>4, <2>9
  <1>9. Moves(L, M, f)
    BY <1>7, <1>8 DEF Moves
  <1> QED BY <1>9


\* Retained KV makes room for the part, or it is halved.
LEMMA HalveInv == ASSUME Inv, Halve PROVE Inv'
  <1> DEFINE half == Len(Part) \div 2
             more == <<SubSeq(Part, 1, half), SubSeq(Part, half + 1, Len(Part))>> \o Tail(pass.parts)
             parts == pass.parts
             out == Out
  <1>1. /\ pc = "run" /\ pc' = "run" /\ plan' = plan /\ back' = back /\ sched' = sched /\ dec' = dec
        /\ recomputing' = recomputing /\ exec' = exec /\ Part # <<>>
        /\ \/ pass' = pass /\ \E n : arena' \in EvictRetained(arena, n)
           \/ arena' = arena /\ pass' = [pass EXCEPT !.parts = more]
    BY DEF Halve
  <1>2. PlaceInv /\ PlaceType /\ Steps /\ Planning /\ ~Packed /\ ~Filling /\ ~Packed' /\ ~Filling'
        /\ Waits(pass.held, sched.pending, sched.stage) /\ pass.chosen = {} /\ pass.held = <<>>
        /\ pass.parts # <<>>
    BY <1>1 DEF Inv, PlaceInv, Planning, Packed, Filling, Steps
  <1>3. Home(arena') /\ Lodged(arena') = Lodged(arena)
    BY <1>1, EvictHome DEF EvictRetained, Inv
  <1>4. CASE pass' = pass
    <2>1. /\ PassType' /\ GroupType' = GroupType /\ Stages' = Stages
      BY <1>1, <1>2, <1>4, SamePlan DEF PassType, PlaceType, GroupType
    <2>2. PlaceType'
      BY <1>1, <1>2, <1>4, <2>1 DEF PlaceType
    <2>3. Steps'
      BY <1>1, <1>2, <1>4 DEF Steps
    <2>4. Lots' = Lots /\ Out' = Out
      BY <1>1, <1>4 DEF Lots, Out, Parts, Filling, Packed
    <2>5. InPlace(Lots, sched.ready, exec.deferred, sched.stage)'
      <3>1. InPlace(Lots, sched.ready, exec.deferred, sched.stage)
        BY <1>2 DEF PlaceInv
      <3> QED BY <1>1, <2>4, <3>1, SamePlaces
    <2>6. Waits(pass.held, sched.pending, sched.stage)'
      BY <1>1, <1>2, <1>4 DEF Waits, NoRepeats
    <2>7. PlaceInv'
      BY <2>2, <2>3, <2>5, <2>6 DEF PlaceInv
    <2>8. Fresh' = Fresh
      <3>1. Starters(Out)' = Starters(Out)
        BY <1>1, <2>4, SamePlan
      <3> QED BY <1>1, <1>2, <3>1 DEF Fresh, Begun
    <2> QED BY <1>1, <1>2, <1>3, <1>4, <2>7, <2>8, StillInv
  <1>5. CASE pass' = [pass EXCEPT !.parts = more]
    <2>1. parts \in Seq(Seq(GroupType)) /\ parts # <<>> /\ out \in Seq(GroupType)
          /\ LotsShape(Lots, Out, Parts) /\ Parts = parts
      BY <1>1, <1>2, LotsNow DEF PlaceType, Parts, Filling
    <2>2. Part = parts[1]
      BY <2>1 DEF Part
    <2>3. half \in Nat /\ half <= Len(parts[1])
      <3> DEFINE p == parts[1]
      <3>1. p \in Seq(GroupType)
        BY <2>1
      <3> HIDE DEF p
      <3>2. Len(p) \in Nat
        BY <3>1
      <3>3. Len(p) \div 2 \in Nat /\ Len(p) - (Len(p) \div 2) * 2 \in Nat
        BY <3>2, WholeRooms
      <3>4. Len(p) \div 2 <= Len(p)
        BY <3>2, <3>3
      <3> QED BY <2>2, <3>3, <3>4 DEF p
    <2>4. more = <<SubSeq(parts[1], 1, half), SubSeq(parts[1], half + 1, Len(parts[1]))>> \o Tail(parts)
      BY <2>2
    <2>5. /\ pass'.rows = pass.rows /\ pass'.replays = pass.replays /\ pass'.at = pass.at
          /\ pass'.room = pass.room /\ pass'.groups = pass.groups /\ pass'.held = pass.held
          /\ pass'.parts = more /\ pass'.chosen = pass.chosen
          /\ pass' = [rows |-> pass'.rows, replays |-> pass'.replays, at |-> pass'.at,
                      room |-> pass'.room, groups |-> pass'.groups, held |-> pass'.held,
                      parts |-> pass'.parts, chosen |-> pass'.chosen]
      BY <1>2, <1>5 DEF PlaceType
    <2> HIDE DEF half, more, parts, out
    <2>6. SplitShape(parts, half, more)
      BY <2>1, <2>3, <2>4, SplitIs
    <2>7. more \in Seq(Seq(GroupType)) /\ more # <<>>
      <3>1. more \in Seq(Seq(GroupType)) /\ Len(more) = Len(parts) + 1 /\ Len(parts) \in Nat
        BY <2>1, <2>6 DEF SplitShape
      <3> QED BY <3>1
    <2>8. Stages' = Stages /\ GroupType' = GroupType
      BY <1>1, SamePlan DEF GroupType
    <2>9. PlaceType'
      <3>1. PlaceType
        BY <1>2
      <3>2. /\ plan' \in Plans /\ sched'.pending \in Seq(Slots) /\ sched'.ready \in Seq(Slots)
            /\ sched'.stage \in [Slots -> 0 .. Stages' + 1]
            /\ sched' = [pending |-> sched'.pending, ready |-> sched'.ready, stage |-> sched'.stage,
                         blocked |-> sched'.blocked]
            /\ exec'.outstanding \in Seq(Seq(GroupType')) /\ exec'.deferred \in SUBSET Slots
            /\ exec' = [outstanding |-> exec'.outstanding, deferred |-> exec'.deferred]
        BY <1>1, <2>8, <3>1 DEF PlaceType
      <3>3. /\ pass'.held \in Seq(Slots) /\ pass'.groups \in Seq(GroupType')
            /\ pass'.parts \in Seq(Seq(GroupType')) /\ pass'.chosen \in SUBSET Slots
            /\ pass'.at \in Nat \ {0} /\ pass'.room \in Nat
        BY <2>5, <2>7, <2>8, <3>1 DEF PlaceType
      <3> QED BY <2>5, <3>2, <3>3 DEF PlaceType
    <2>10. Steps'
      <3>1. pass'.parts # <<>> /\ pass'.held = <<>> /\ pass'.chosen = {}
        BY <1>2, <2>5, <2>7
      <3>2. Steps
        BY <1>2
      <3> QED BY <1>1, <1>2, <3>1, <3>2 DEF Steps
    <2>11. Out' = Out /\ Parts' = more /\ Lots' = LotsOf(Out, more)
      <3>1. Out' = Out
        BY <1>1 DEF Out
      <3>2. Parts' = more
        BY <1>1, <2>5 DEF Parts, Filling
      <3>3. Lots' = <<Out'>> \o Parts'
        BY Zenon DEF Lots
      <3> QED BY <3>1, <3>2, <3>3 DEF LotsOf
    <2>12. InPlace(Lots, sched.ready, exec.deferred, sched.stage)'
      <3> DEFINE L == Lots
                 M == Lots'
      <3>1. M = LotsOf(out, more)
        BY <2>11 DEF out
      <3>2. LotsShape(L, out, parts)
        BY <2>1 DEF out
      <3>3. InPlace(L, sched.ready, exec.deferred, sched.stage)
        BY <1>2 DEF PlaceInv
      <3>4. M = Lots'
        OBVIOUS
      <3> HIDE DEF L, M
      <3>5. LotsShape(M, out, more)
        BY <2>1, <2>7, <3>1, LotsAre
      <3>6. \E f : Moves(L, M, f)
        BY <2>1, <2>3, <2>6, <3>2, <3>5, SplitMoves
      <3>7. InPlace(M, sched.ready, exec.deferred, sched.stage)
        BY <3>3, <3>6, LotsMove
      <3> QED BY <1>1, <3>4, <3>7, InPlaceNext
    <2>13. Waits(pass.held, sched.pending, sched.stage)'
      BY <1>1, <1>2, <2>5 DEF Waits, NoRepeats
    <2>14. PlaceInv'
      BY <2>9, <2>10, <2>12, <2>13 DEF PlaceInv
    <2>15. Fresh' = Fresh
      <3>1. Starters(Out)' = Starters(Out)
        BY <1>1, <2>11, SamePlan
      <3> QED BY <1>1, <1>2, <3>1 DEF Fresh, Begun
    <2> QED BY <1>1, <1>2, <1>3, <2>5, <2>14, <2>15, StillInv
  <1> QED BY <1>1, <1>4, <1>5


\* A group of the first part: it is where its document is, and its
\* document's answer has not begun.
LEMMA PartFresh ==
    ASSUME PlaceInv, pc = "run", NEW g \in Range(Part)
    PROVE  GroupAt(g, sched.stage) /\ g.slot \in Slots /\ g.slot \in Fresh
  <1>1. /\ PlaceType /\ ~Packed /\ ~Filling /\ pass.parts # <<>> /\ Parts = pass.parts
        /\ InPlace(Lots, sched.ready, exec.deferred, sched.stage)
    BY DEF PlaceInv, Steps, Packed, Filling, Parts
  <1> DEFINE parts == pass.parts
  <1>2. /\ parts \in Seq(Seq(GroupType)) /\ Out \in Seq(GroupType) /\ LotsShape(Lots, Out, parts)
    BY <1>1, LotsNow
  <1>3. /\ Len(parts) \in Nat /\ Len(parts) > 0 /\ DOMAIN parts = 1 .. Len(parts)
    BY <1>1, <1>2
  <1>4. Part = parts[1]
    BY <1>1, <1>2 DEF Part
  <1>5. DOMAIN Lots = 1 .. (Len(parts) + 1) /\ Lots[1] = Out /\ Lots[1 + 1] = parts[1]
    <2>1. 1 \in 1 .. Len(parts)
      BY <1>3
    <2> QED BY <1>2, <2>1 DEF LotsShape
  <1>6. 1 \in DOMAIN Lots /\ 2 \in DOMAIN Lots /\ Lots[2] = Part
    BY <1>3, <1>4, <1>5
  <1>7. PICK k \in DOMAIN Part : g = Part[k]
    BY DEF Range
  <1>8. <<2, k>> \in Cells(Lots) /\ At(Lots, <<2, k>>) = g
    BY <1>6, <1>7, CellAt
  <1>9. GroupAt(g, sched.stage) /\ g.slot \notin exec.deferred
    BY <1>1, <1>8 DEF InPlace
  <1>10. g.slot \notin Starters(Out)
    <2> SUFFICES ASSUME g.slot \in Starters(Out) PROVE FALSE
      OBVIOUS
    <2>1. PICK h \in Range(Out) : h.slot = g.slot
      BY DEF Starters
    <2>2. PICK m \in DOMAIN Out : h = Out[m]
      BY <2>1 DEF Range
    <2>3. <<1, m>> \in Cells(Lots) /\ At(Lots, <<1, m>>) = h
      BY <1>5, <1>6, <2>2, CellAt
    <2>4. <<1, m>> = <<2, k>>
      BY <1>1, <1>8, <2>1, <2>3 DEF InPlace, Apart
    <2> QED BY <2>4
  <1>11. g.slot \in Slots
    BY <1>9 DEF GroupAt, GroupType
  <1> QED BY <1>1, <1>9, <1>10, <1>11 DEF Fresh, Begun

\* The rows a pass recomputes reach into the queue of evicted answers.
Reached ==
    [i \in DOMAIN recomputing |->
        LET mine == {e \in Range(pass.replays) : e.slot = recomputing[i].slot}
        IN  [recomputing[i] EXCEPT !.start =
                IF mine = {} THEN @ ELSE (CHOOSE e \in mine : TRUE).end]]

\* Every evicted answer keeps its place in the queue while rows are recomputed.
LEMMA ReachedIs ==
    ASSUME Evicted, Planning
    PROVE  /\ Reached \in Seq([slot : Slots, start : Int])
           /\ \A e \in Range(Reached) : e.slot \in dec.paused
  <1> DEFINE Q == [slot : Slots, start : Int]
             mine(i) == {e \in Range(pass.replays) : e.slot = recomputing[i].slot}
             start(i) == IF mine(i) = {} THEN recomputing[i].start
                         ELSE (CHOOSE e \in mine(i) : TRUE).end
  <1>1. /\ recomputing \in Seq(Q) /\ Len(recomputing) \in Nat
        /\ DOMAIN recomputing = 1 .. Len(recomputing)
        /\ \A i \in DOMAIN recomputing : recomputing[i] \in Q /\ recomputing[i].slot \in dec.paused
    <2>1. recomputing \in Seq(Q) /\ \A i \in DOMAIN recomputing : recomputing[i].slot \in dec.paused
      BY DEF Evicted
    <2> HIDE DEF Q
    <2>2. Len(recomputing) \in Nat /\ DOMAIN recomputing = 1 .. Len(recomputing)
          /\ \A i \in 1 .. Len(recomputing) : recomputing[i] \in Q
      BY <2>1
    <2> QED BY <2>1, <2>2
  <1>2. ASSUME NEW i \in DOMAIN recomputing PROVE start(i) \in Int
    <2>1. CASE mine(i) = {}
      BY <1>1, <2>1
    <2>2. CASE mine(i) # {}
      <3> DEFINE e == CHOOSE e \in mine(i) : TRUE
      <3>1. e \in mine(i)
        BY <2>2
      <3>2. e \in Range(pass.replays) /\ pass.replays \in Seq(ReplayType)
        BY <3>1 DEF Evicted
      <3>3. e \in ReplayType
        BY <3>2, RangeIn
      <3> QED BY <2>2, <3>3 DEF ReplayType
    <2> QED BY <2>1, <2>2
  <1>3. Reached = [i \in DOMAIN recomputing |-> [recomputing[i] EXCEPT !.start = start(i)]]
    BY DEF Reached
  <1> HIDE DEF start, mine
  <1>4. ASSUME NEW i \in 1 .. Len(recomputing)
        PROVE  Reached[i] \in Q /\ Reached[i].slot \in dec.paused
    <2>1. recomputing[i] \in Q /\ recomputing[i].slot \in dec.paused /\ start(i) \in Int
      BY <1>1, <1>2
    <2>2. Reached[i] = [recomputing[i] EXCEPT !.start = start(i)]
      BY <1>1, <1>3
    <2> QED BY <2>1, <2>2
  <1>5. Reached \in [1 .. Len(recomputing) -> Q] /\ DOMAIN Reached = 1 .. Len(recomputing)
    BY <1>1, <1>3, <1>4
  <1>6. Reached \in Seq(Q)
    BY <1>1, <1>5, ListIs
  <1>7. \A e \in Range(Reached) : e.slot \in dec.paused
    BY <1>4, <1>5 DEF Range
  <1> QED BY <1>6, <1>7

\* An answer that resumes has its pages, and none of its tokens is on its way.
LEMMA ResumedAre ==
    ASSUME Evicted, Planning, NEW s \in Resumed
    PROVE  s \in dec.paused /\ dec.map[s] # NoMap /\ dec.inflight[s] = 0 /\ s \in Lodged(arena)
  <1>1. PICK e \in Range(pass.replays) : e.slot = s
    BY DEF Resumed
  <1>2. PICK i \in DOMAIN pass.replays : pass.replays[i] = e
    BY DEF Range
  <1> QED BY <1>1, <1>2 DEF Evicted


\* The first part runs: rows go on, answers resume or start (_build).
LEMMA RunPartInv == ASSUME Inv, RunPart PROVE Inv'
  <1> DEFINE begun == {g \in Range(Part) : Answer(g)}
             start == SlotsOf(begun)
             chosen == pass.rows \cup Resumed \cup start
  <1>1. /\ pc = "run" /\ plan' = plan /\ arena' = arena /\ sched' = sched /\ exec' = exec
        /\ back' = "submit" /\ pc' = IF exec.outstanding = <<>> THEN "landed" ELSE "report"
        /\ dec' = StartAnswers(Resume(Fed(dec, pass.rows), Resumed), begun)
        /\ pass' = [pass EXCEPT !.rows = {}, !.replays = <<>>, !.chosen = chosen]
        /\ recomputing' = Sifted(Reached, {e \in Range(Reached) : e.slot \notin Resumed})
    BY Zenon DEF RunPart, Build, Fed, Reached
  <1>2. /\ PlaceInv /\ PlaceType /\ Steps /\ Planning /\ ~Packed /\ ~Filling /\ Packed' /\ ~Filling'
        /\ ~Planning' /\ Evicted
        /\ Waits(pass.held, sched.pending, sched.stage) /\ pass.chosen = {} /\ pass.held = <<>>
        /\ pass.parts # <<>> /\ DecInv(dec, {}, sched.stage, Fresh) /\ dec \in Decoder
    <2>1. PlaceInv /\ PlaceType /\ Steps /\ Evicted /\ DecInv(dec, pass.chosen, sched.stage, Fresh)
          /\ Waits(pass.held, sched.pending, sched.stage)
      BY DEF Inv, PlaceInv
    <2>2. Planning /\ ~Packed /\ ~Filling /\ Packed' /\ ~Filling' /\ ~Planning'
      BY <1>1 DEF Planning, Packed, Filling
    <2> QED BY <1>1, <2>1, <2>2 DEF Steps, DecInv
  <1>3. /\ pass'.rows = {} /\ pass'.replays = <<>> /\ pass'.at = pass.at
        /\ pass'.room = pass.room /\ pass'.groups = pass.groups /\ pass'.held = pass.held
        /\ pass'.parts = pass.parts /\ pass'.chosen = chosen
        /\ pass' = [rows |-> pass'.rows, replays |-> pass'.replays, at |-> pass'.at,
                    room |-> pass'.room, groups |-> pass'.groups, held |-> pass'.held,
                    parts |-> pass'.parts, chosen |-> pass'.chosen]
    BY <1>1, <1>2 DEF PlaceType
  <1>4. \A g \in begun : /\ g.slot \in Slots /\ g.slot \in Fresh /\ g.stage = sched.stage[g.slot]
                         /\ g.stage \in 1 .. Stages
    <2> SUFFICES ASSUME NEW g \in begun
                 PROVE  /\ g.slot \in Slots /\ g.slot \in Fresh /\ g.stage = sched.stage[g.slot]
                        /\ g.stage \in 1 .. Stages
      OBVIOUS
    <2>1. g \in Range(Part)
      OBVIOUS
    <2>2. GroupAt(g, sched.stage) /\ g.slot \in Slots /\ g.slot \in Fresh
      BY <1>1, <1>2, <2>1, PartFresh
    <2> QED BY <2>2 DEF GroupAt
  <1>5. \A s \in Resumed : /\ s \in dec.paused /\ dec.map[s] # NoMap /\ dec.inflight[s] = 0
                           /\ s \in Lodged(arena)
    BY <1>2, ResumedAre
  <1>6. pass.rows \subseteq Running(dec)
    BY <1>2 DEF Evicted
  <1>7. chosen \subseteq Slots
    <2>1. start \subseteq Slots
      BY <1>4 DEF SlotsOf
    <2>2. Resumed \subseteq Slots
      BY <1>5 DEF Lodged
    <2>3. pass.rows \subseteq Slots
      BY <1>6 DEF Running
    <2> QED BY <2>1, <2>2, <2>3
  <1>8. start = Starters(Part)
    BY Zenon DEF SlotsOf, Starters
  <1>9. Stages' = Stages /\ GroupType' = GroupType
    BY <1>1, SamePlan DEF GroupType
  <1> HIDE DEF begun, start, chosen
  <1>10. PlaceType'
    <2>1. /\ plan' \in Plans /\ sched'.pending \in Seq(Slots) /\ sched'.ready \in Seq(Slots)
          /\ sched'.stage \in [Slots -> 0 .. Stages' + 1]
          /\ sched' = [pending |-> sched'.pending, ready |-> sched'.ready, stage |-> sched'.stage,
                       blocked |-> sched'.blocked]
          /\ exec'.outstanding \in Seq(Seq(GroupType')) /\ exec'.deferred \in SUBSET Slots
          /\ exec' = [outstanding |-> exec'.outstanding, deferred |-> exec'.deferred]
      BY <1>1, <1>2, <1>9 DEF PlaceType
    <2>2. /\ pass'.held \in Seq(Slots) /\ pass'.groups \in Seq(GroupType')
          /\ pass'.parts \in Seq(Seq(GroupType')) /\ pass'.chosen \in SUBSET Slots
          /\ pass'.at \in Nat \ {0} /\ pass'.room \in Nat
      BY <1>2, <1>3, <1>7, <1>9 DEF PlaceType
    <2> QED BY <1>3, <2>1, <2>2 DEF PlaceType
  <1>11. Steps'
    BY <1>1, <1>2, <1>3 DEF Steps
  <1>12. Out' = Out /\ Part' = Part /\ Lots' = Lots
    <2>1. Out' = Out
      BY <1>1 DEF Out
    <2>2. Part' = Part
      BY <1>3 DEF Part
    <2>3. Parts' = pass.parts /\ Parts = pass.parts
      BY <1>1, <1>2, <1>3 DEF Parts
    <2> QED BY <2>1, <2>2, <2>3, Zenon DEF Lots
  <1>13. InPlace(Lots, sched.ready, exec.deferred, sched.stage)'
    <2>1. InPlace(Lots, sched.ready, exec.deferred, sched.stage)
      BY <1>2 DEF PlaceInv
    <2>2. InPlace(Lots', sched'.ready, exec'.deferred, sched'.stage)
      BY <1>1, <1>12, <2>1
    <2> QED BY <1>1, <2>2, InPlaceNext
  <1>14. Waits(pass.held, sched.pending, sched.stage)'
    BY <1>1, <1>2, <1>3 DEF Waits, NoRepeats
  <1>15. PlaceInv'
    BY <1>10, <1>11, <1>13, <1>14 DEF PlaceInv
  <1>16. Fresh' = Fresh \ start
    <2>1. Starters(Out)' = Starters(Out) /\ Starters(Part)' = Starters(Part)
      BY <1>1, <1>12, SamePlan
    <2>2. Begun' = Begun \cup start
      BY <1>1, <1>2, <1>8, <2>1 DEF Begun
    <2> QED BY <2>2 DEF Fresh
  <1>17. DecInv(dec, pass.chosen, sched.stage, Fresh)'
    <2>1. sched.stage \in [Slots -> Nat]
      <3>1. sched.stage \in [Slots -> 0 .. Stages + 1] /\ Stages \in Nat
        BY <1>2, PlanIs DEF PlaceType
      <3> QED BY <3>1
    <2>2. plan \in Plans
      BY <1>2 DEF PlaceType
    <2> DEFINE E == dec'
    <2>3. E = StartAnswers(Resume(Fed(dec, pass.rows), Resumed), begun)
      BY <1>1
    <2>4. E = dec'
      OBVIOUS
    <2> HIDE DEF E
    <2>5. DecInv(E, pass.rows \cup Resumed \cup SlotsOf(begun), sched.stage, Fresh \ SlotsOf(begun))
      BY <1>2, <1>4, <1>5, <1>6, <2>1, <2>2, <2>3, BuildKeeps
    <2>6. DecInv(E, chosen, sched.stage, Fresh \ start)
      BY <2>5 DEF chosen, start
    <2> QED BY <1>1, <1>3, <1>16, <2>4, <2>6, DecNext
  <1>18. dec'.paused = dec.paused \ Resumed
    <2> DEFINE E == dec'
    <2>1. E = StartAnswers(Resume(Fed(dec, pass.rows), Resumed), begun)
      BY <1>1
    <2> HIDE DEF E
    <2>2. E.paused = dec.paused \ Resumed
      BY <1>2, <2>1, BuiltIs
    <2> QED BY <2>2 DEF E
  <1>19. Home(arena)'
    BY <1>1 DEF Inv, Home, Resident
  <1>20. Houses(arena, sched.stage, dec.paused)'
    <2>1. Houses(arena, sched.stage, dec.paused)
      BY DEF Inv
    <2>2. Houses(arena, sched.stage, dec.paused \ Resumed)
      BY <1>5, <2>1 DEF Houses
    <2> QED BY <1>1, <1>18, <2>2, SameHouses
  <1>21. Evicted'
    <2> DEFINE Q == [slot : Slots, start : Int]
               keep == {e \in Range(Reached) : e.slot \notin Resumed}
    <2>1. Reached \in Seq(Q) /\ \A e \in Range(Reached) : e.slot \in dec.paused
      BY <1>2, ReachedIs
    <2> HIDE DEF Q, keep
    <2>2. Sifted(Reached, keep) \in Seq(Q) /\ Range(Sifted(Reached, keep)) = Range(Reached) \cap keep
      BY <2>1, SiftedOf
    <2>3. recomputing' \in Seq(Q) /\ Range(recomputing') = Range(Reached) \cap keep
      BY <1>1, <2>2 DEF keep
    <2>4. \A i \in DOMAIN recomputing' : recomputing'[i] \in Range(Reached) \cap keep
      BY <2>3 DEF Range
    <2>5. \A e \in Range(Reached) \cap keep : e.slot \in dec.paused /\ e.slot \notin Resumed
      BY <2>1 DEF keep
    <2>6. \A i \in DOMAIN recomputing' : recomputing'[i].slot \in dec'.paused
      BY <1>18, <2>4, <2>5
    <2> QED BY <1>2, <2>3, <2>6 DEF Evicted, Q
  <1> QED BY <1>15, <1>17, <1>19, <1>20, <1>21 DEF Inv


-----------------------------------------------------------------------------
(* The first part is sent: its groups are the outstanding ones.            *)
LEMMA SendMoves ==
    ASSUME NEW parts \in Seq(Seq(GroupType)), parts # <<>>,
           NEW L, LotsShape(L, <<>>, parts), NEW M, LotsShape(M, parts[1], Tail(parts))
    PROVE  \E f : Moves(L, M, f)
  <1> DEFINE f == [c \in Cells(M) |-> <<c[1] + 1, c[2]>>]
             rest == Tail(parts)
  <1>1. /\ Len(parts) \in Nat /\ Len(parts) > 0 /\ Len(rest) = Len(parts) - 1
        /\ \A i \in 1 .. Len(parts) - 1 : rest[i] = parts[i + 1]
    BY SMTT(30)
  <1>2. LotsShape(M, parts[1], rest)
    OBVIOUS
  <1> HIDE DEF rest
  <1>3. /\ DOMAIN L = 1 .. (Len(parts) + 1) /\ \A i \in 1 .. Len(parts) : L[i + 1] = parts[i]
        /\ DOMAIN M = 1 .. (Len(rest) + 1) /\ \A i \in 1 .. Len(rest) : M[i + 1] = rest[i]
        /\ M[1] = parts[1]
    BY <1>2 DEF LotsShape
  <1>4. ASSUME NEW i \in DOMAIN M PROVE i \in Nat /\ i + 1 \in DOMAIN L /\ M[i] = L[i + 1]
    <2>1. i \in Nat /\ i >= 1 /\ i <= Len(parts) /\ i \in 1 .. Len(parts) /\ i + 1 \in DOMAIN L
      BY <1>1, <1>3
    <2>2. L[i + 1] = parts[i]
      BY <1>3, <2>1
    <2>3. CASE i = 1
      BY <1>3, <2>1, <2>2, <2>3
    <2>4. CASE i # 1
      <3> DEFINE k == i - 1
      <3>1. k \in 1 .. Len(rest) /\ k \in 1 .. Len(parts) - 1 /\ k + 1 = i
        BY <1>1, <2>1, <2>4
      <3> HIDE DEF k
      <3>2. M[k + 1] = rest[k] /\ rest[k] = parts[k + 1]
        BY <1>1, <1>3, <3>1
      <3> QED BY <2>1, <2>2, <3>1, <3>2
    <2> QED BY <2>3, <2>4
  <1>5. ASSUME NEW c \in Cells(M)
        PROVE  \E i \in DOMAIN M : \E k \in DOMAIN M[i] :
                  c = <<i, k>> /\ At(M, c) = M[i][k] /\ f[c] = <<i + 1, k>>
    <2>1. PICK i \in DOMAIN M : \E k \in DOMAIN M[i] : c = <<i, k>>
      BY CellIs
    <2>2. PICK k \in DOMAIN M[i] : c = <<i, k>>
      BY <2>1
    <2>3. c[1] = i /\ c[2] = k
      BY <2>2
    <2>4. At(M, c) = M[i][k]
      BY <2>3 DEF At
    <2>5. f[c] = <<i + 1, k>>
      BY <2>3
    <2> QED BY <2>2, <2>4, <2>5
  <1> HIDE DEF f
  <1>6. ASSUME NEW c \in Cells(M) PROVE f[c] \in Cells(L) /\ At(M, c) = At(L, f[c])
    <2>1. PICK i \in DOMAIN M : \E k \in DOMAIN M[i] :
                  c = <<i, k>> /\ At(M, c) = M[i][k] /\ f[c] = <<i + 1, k>>
      BY <1>5
    <2>2. PICK k \in DOMAIN M[i] : c = <<i, k>> /\ At(M, c) = M[i][k] /\ f[c] = <<i + 1, k>>
      BY <2>1
    <2> DEFINE j == i + 1
    <2>3. j \in DOMAIN L /\ M[i] = L[j]
      BY <1>4
    <2>4. f[c] = <<j, k>> /\ k \in DOMAIN L[j] /\ At(M, c) = L[j][k]
      BY <2>2, <2>3
    <2> HIDE DEF j
    <2> QED BY <2>3, <2>4, CellAt
  <1>7. ASSUME NEW c \in Cells(M), NEW d \in Cells(M), f[c] = f[d] PROVE c = d
    <2>1. PICK i \in DOMAIN M : \E k \in DOMAIN M[i] :
                  c = <<i, k>> /\ At(M, c) = M[i][k] /\ f[c] = <<i + 1, k>>
      BY <1>5
    <2>2. PICK j \in DOMAIN M : \E k \in DOMAIN M[j] :
                  d = <<j, k>> /\ At(M, d) = M[j][k] /\ f[d] = <<j + 1, k>>
      BY <1>5
    <2>3. i \in Nat /\ j \in Nat
      BY <1>4
    <2> QED BY <1>7, <2>1, <2>2, <2>3
  <1>8. Moves(L, M, f)
    BY <1>6, <1>7 DEF Moves
  <1> QED BY <1>8

\* The tokens are sent, the groups are outstanding.
LEMMA SubmitPartInv == ASSUME Inv, SubmitPart PROVE Inv'
  <1> DEFINE parts == pass.parts
  <1>1. /\ pc = "submit" /\ plan' = plan /\ arena' = arena /\ sched' = sched /\ back' = back
        /\ recomputing' = recomputing /\ dec' = Submit(dec, pass.chosen)
        /\ exec' = [exec EXCEPT !.outstanding = <<Part>>]
        /\ pass' = [pass EXCEPT !.parts = Tail(parts), !.chosen = {}]
        /\ pc' = IF Len(parts) > 1 THEN "run" ELSE "top"
    BY DEF SubmitPart
  <1>2. /\ PlaceInv /\ PlaceType /\ Steps /\ Packed /\ ~Filling /\ ~Packed' /\ ~Filling'
        /\ Waits(pass.held, sched.pending, sched.stage) /\ pass.held = <<>> /\ Evicted
        /\ parts # <<>> /\ DecInv(dec, pass.chosen, sched.stage, Fresh) /\ exec.outstanding = <<>>
        /\ pass.rows = {} /\ pass.replays = <<>>
    <2>1. PlaceInv /\ PlaceType /\ Steps /\ Evicted /\ DecInv(dec, pass.chosen, sched.stage, Fresh)
          /\ Waits(pass.held, sched.pending, sched.stage)
      BY DEF Inv, PlaceInv
    <2>2. Packed /\ ~Filling /\ ~Packed' /\ ~Filling'
      BY <1>1, <2>1 DEF Steps, Packed, Filling
    <2> QED BY <1>1, <2>1, <2>2 DEF Steps
  <1>3. /\ pass'.rows = pass.rows /\ pass'.replays = pass.replays /\ pass'.at = pass.at
        /\ pass'.room = pass.room /\ pass'.groups = pass.groups /\ pass'.held = pass.held
        /\ pass'.parts = Tail(parts) /\ pass'.chosen = {}
        /\ pass' = [rows |-> pass'.rows, replays |-> pass'.replays, at |-> pass'.at,
                    room |-> pass'.room, groups |-> pass'.groups, held |-> pass'.held,
                    parts |-> pass'.parts, chosen |-> pass'.chosen]
    BY <1>1, <1>2 DEF PlaceType
  <1>4. /\ exec'.outstanding = <<Part>> /\ exec'.deferred = exec.deferred
        /\ exec' = [outstanding |-> exec'.outstanding, deferred |-> exec'.deferred]
    BY <1>1, <1>2 DEF PlaceType
  <1>5. parts \in Seq(Seq(GroupType)) /\ Out = <<>> /\ Parts = parts
    BY <1>2 DEF PlaceType, Out, Parts
  <1>6. Part = parts[1] /\ Part \in Seq(GroupType)
    <2>1. Part = parts[1]
      BY <1>2, <1>5 DEF Part
    <2>2. parts[1] \in Seq(GroupType)
      BY <1>2, <1>5
    <2> QED BY <2>1, <2>2
  <1>7. /\ Tail(parts) \in Seq(Seq(GroupType)) /\ Len(Tail(parts)) = Len(parts) - 1
        /\ Len(parts) \in Nat /\ Len(parts) > 0
    BY <1>2, <1>5
  <1>23. Tail(parts) = <<>> <=> Len(Tail(parts)) = 0
    <2> DEFINE rest == Tail(parts)
    <2>1. rest \in Seq(Seq(GroupType))
      BY <1>7
    <2> HIDE DEF rest
    <2>2. rest = <<>> <=> Len(rest) = 0
      BY <2>1
    <2> QED BY <2>2 DEF rest
  <1> HIDE DEF parts
  <1>8. Stages' = Stages /\ GroupType' = GroupType
    BY <1>1, SamePlan DEF GroupType
  <1>9. <<Part>> \in Seq(Seq(GroupType)) /\ Len(<<Part>>) = 1 /\ <<Part>> # <<>> /\ Head(<<Part>>) = Part
    BY <1>6
  <1>10. PlaceType'
    <2>1. /\ plan' \in Plans /\ sched'.pending \in Seq(Slots) /\ sched'.ready \in Seq(Slots)
          /\ sched'.stage \in [Slots -> 0 .. Stages' + 1]
          /\ sched' = [pending |-> sched'.pending, ready |-> sched'.ready, stage |-> sched'.stage,
                       blocked |-> sched'.blocked]
          /\ exec'.deferred \in SUBSET Slots
      BY <1>1, <1>2, <1>4, <1>8 DEF PlaceType
    <2>2. exec'.outstanding \in Seq(Seq(GroupType'))
      BY <1>4, <1>8, <1>9
    <2>3. /\ pass'.held \in Seq(Slots) /\ pass'.groups \in Seq(GroupType')
          /\ pass'.parts \in Seq(Seq(GroupType')) /\ pass'.chosen \in SUBSET Slots
          /\ pass'.at \in Nat \ {0} /\ pass'.room \in Nat
      BY <1>2, <1>3, <1>7, <1>8 DEF PlaceType
    <2> QED BY <1>3, <1>4, <2>1, <2>2, <2>3 DEF PlaceType
  <1>11. Steps'
    <2>1. Len(exec'.outstanding) <= 1
      BY <1>4, <1>9
    <2>2. pc' = "run" => pass'.parts # <<>>
      <3> SUFFICES ASSUME pc' = "run" PROVE pass'.parts # <<>>
        OBVIOUS
      <3>1. Len(Tail(parts)) > 0
        BY <1>1, <1>7
      <3>2. Tail(parts) # <<>>
        BY <1>23, <3>1
      <3> QED BY <1>3, <3>2
    <2>3. Steps
      BY <1>2
    <2> QED BY <1>1, <1>2, <1>3, <2>1, <2>2, <2>3 DEF Steps
  <1>12. Out' = Part /\ Parts' = Tail(parts) /\ Lots' = LotsOf(Part, Tail(parts))
    <2>1. Out' = Part
      BY <1>4, <1>9 DEF Out
    <2>2. Parts' = Tail(parts)
      <3>1. CASE pc' = "run"
        BY <1>2, <1>3, <3>1 DEF Parts
      <3>2. CASE pc' = "top"
        <4>1. Len(Tail(parts)) = 0
          BY <1>1, <1>7, <3>2
        <4>2. Tail(parts) = <<>>
          BY <1>23, <4>1
        <4> QED BY <1>2, <3>2, <4>2 DEF Parts
      <3> QED BY <1>1, <3>1, <3>2
    <2>3. Lots' = <<Out'>> \o Parts'
      BY Zenon DEF Lots
    <2> QED BY <2>1, <2>2, <2>3 DEF LotsOf
  <1>13. InPlace(Lots, sched.ready, exec.deferred, sched.stage)'
    <2> DEFINE L == Lots
               M == Lots'
               rest == Tail(parts)
    <2>1. M = LotsOf(Part, rest)
      BY <1>12
    <2>2. LotsShape(L, <<>>, parts)
      BY <1>2, <1>5, LotsNow
    <2>3. InPlace(L, sched.ready, exec.deferred, sched.stage)
      BY <1>2 DEF PlaceInv
    <2>4. M = Lots' /\ rest \in Seq(Seq(GroupType))
      BY <1>7
    <2> HIDE DEF L, M, rest
    <2>5. LotsShape(M, Part, rest)
      BY <1>6, <2>1, <2>4, LotsAre
    <2>6. LotsShape(M, parts[1], Tail(parts))
      BY <1>6, <2>5 DEF rest
    <2>7. \E f : Moves(L, M, f)
      BY <1>2, <1>5, <2>2, <2>6, SendMoves DEF parts
    <2>8. InPlace(M, sched.ready, exec.deferred, sched.stage)
      BY <2>3, <2>7, LotsMove
    <2> QED BY <1>1, <1>4, <2>4, <2>8, InPlaceNext
  <1>14. Waits(pass.held, sched.pending, sched.stage)'
    BY <1>1, <1>2, <1>3 DEF Waits, NoRepeats
  <1>15. PlaceInv'
    BY <1>10, <1>11, <1>13, <1>14 DEF PlaceInv
  <1>16. Fresh' = Fresh
    <2>1. Starters(Out)' = Starters(Part)
      BY <1>1, <1>12, SamePlan
    <2>2. Starters(Out) = {}
      BY <1>5 DEF Starters, Range
    <2>3. Begun' = Begun
      BY <1>2, <1>4, <2>1, <2>2 DEF Begun
    <2> QED BY <2>3 DEF Fresh
  <1> DEFINE E == dec'
             C == pass.chosen
  <1>17. DecInv(E, {}, sched.stage, Fresh) /\ E.paused = dec.paused
    <2>1. sched.stage \in [Slots -> Nat]
      <3>1. sched.stage \in [Slots -> 0 .. Stages + 1] /\ Stages \in Nat
        BY <1>2, PlanIs DEF PlaceType
      <3> QED BY <3>1
    <2>2. plan \in Plans /\ C \in SUBSET Slots
      BY <1>2 DEF PlaceType
    <2>3. E = Submit(dec, C) /\ DecInv(dec, C, sched.stage, Fresh)
      BY <1>1, <1>2
    <2> HIDE DEF E, C
    <2> QED BY <2>1, <2>2, <2>3, SubmitKeeps
  <1>18. E = dec'
    OBVIOUS
  <1> HIDE DEF E, C
  <1>19. DecInv(dec, pass.chosen, sched.stage, Fresh)'
    BY <1>1, <1>3, <1>16, <1>17, <1>18, DecNext
  <1>20. Home(arena)'
    BY <1>1 DEF Inv, Home, Resident
  <1>21. Houses(arena, sched.stage, dec.paused)'
    <2>1. Houses(arena, sched.stage, dec.paused)
      BY DEF Inv
    <2> QED BY <1>1, <1>17, <1>18, <2>1, SameHouses
  <1>22. Evicted'
    <2>1. recomputing' = recomputing /\ dec'.paused = dec.paused /\ Evicted
      BY <1>1, <1>2, <1>17, <1>18
    <2>2. pass'.rows = {} /\ pass'.replays = <<>>
      BY <1>2, <1>3
    <2>3. <<>> \in Seq(ReplayType') /\ DOMAIN <<>> = {} /\ {} \subseteq Running(dec)'
      OBVIOUS
    <2> QED BY <2>1, <2>2, <2>3 DEF Evicted
  <1> QED BY <1>15, <1>19, <1>20, <1>21, <1>22 DEF Inv


-----------------------------------------------------------------------------
(* Answers are recorded.  The outstanding groups are reported: whoever was *)
(* asked is done with the stage, whoever started an answer is deferred.    *)
Unsent == LotsOf(<<>>, Parts)

\* What is not sent yet: the lots but for the outstanding groups.
LEMMA RestIs ==
    ASSUME PlaceInv
    PROVE  /\ LotsShape(Unsent, <<>>, Parts)
           /\ \A c \in Cells(Unsent) : /\ c \in Cells(Lots) /\ At(Unsent, c) = At(Lots, c)
                                      /\ \A k : c # <<1, k>>
           /\ \A k \in DOMAIN Out : <<1, k>> \in Cells(Lots) /\ At(Lots, <<1, k>>) = Out[k]
  <1>1. PlaceType
    BY DEF PlaceInv
  <1>2. Out \in Seq(GroupType) /\ Parts \in Seq(Seq(GroupType)) /\ LotsShape(Lots, Out, Parts)
    BY <1>1, LotsNow
  <1> DEFINE M == Unsent
             L == Lots
             parts == Parts
             out == Out
             none == <<>>
  <1>3. none \in Seq(GroupType) /\ DOMAIN none = {} /\ M = LotsOf(none, parts)
    BY DEF Unsent
  <1>4. parts \in Seq(Seq(GroupType)) /\ LotsShape(L, out, parts)
    BY <1>2
  <1> HIDE DEF M, L, parts, out, none
  <1>5. LotsShape(M, none, parts)
    BY <1>3, <1>4, LotsAre
  <1>6. /\ Len(parts) \in Nat /\ DOMAIN M = 1 .. Len(parts) + 1 /\ DOMAIN L = 1 .. Len(parts) + 1
        /\ M[1] = none /\ L[1] = out
        /\ \A i \in 1 .. Len(parts) : M[i + 1] = parts[i] /\ L[i + 1] = parts[i]
    BY <1>4, <1>5 DEF LotsShape
  <1>7. \A i \in DOMAIN M : i # 1 => M[i] = L[i]
    <2> SUFFICES ASSUME NEW i \in DOMAIN M, i # 1 PROVE M[i] = L[i]
      OBVIOUS
    <2> DEFINE k == i - 1
    <2>1. k \in 1 .. Len(parts) /\ k + 1 = i
      BY <1>6
    <2> HIDE DEF k
    <2>2. M[k + 1] = parts[k] /\ L[k + 1] = parts[k]
      BY <1>6, <2>1
    <2> QED BY <2>1, <2>2
  <1>8. DOMAIN M = DOMAIN L /\ 1 \in DOMAIN L
    BY <1>6
  <1>9. ASSUME NEW c \in Cells(M) PROVE c \in Cells(L) /\ At(M, c) = At(L, c) /\ \A k : c # <<1, k>>
    <2>1. PICK i \in DOMAIN M : \E k \in DOMAIN M[i] : c = <<i, k>>
      BY CellIs
    <2>2. PICK k \in DOMAIN M[i] : c = <<i, k>>
      BY <2>1
    <2>3. i # 1
      BY <1>3, <1>6, <2>2
    <2>4. M[i] = L[i] /\ i \in DOMAIN L /\ k \in DOMAIN L[i]
      BY <1>7, <1>8, <2>2, <2>3
    <2>5. <<i, k>> \in Cells(L) /\ At(L, <<i, k>>) = L[i][k] /\ At(M, <<i, k>>) = M[i][k]
      BY <2>2, <2>4, CellAt
    <2> QED BY <2>2, <2>3, <2>4, <2>5
  <1>10. ASSUME NEW k \in DOMAIN out PROVE <<1, k>> \in Cells(L) /\ At(L, <<1, k>>) = out[k]
    BY <1>6, <1>8, CellAt
  <1> QED BY <1>5, <1>9, <1>10 DEF M, L, parts, out, none

\* Whoever was asked, and whose answer began.
Started == exec.deferred \cup Starters(Out)

\* The outstanding groups: each document once, in its stage, and nowhere else.
LEMMA OutOnce ==
    ASSUME PlaceInv
    PROVE  /\ NoRepeats(Out) /\ Out \in Seq(GroupType)
           /\ \A g, h \in Range(Out) : g.slot = h.slot => g = h
           /\ \A g \in Range(Out) : /\ GroupAt(g, sched.stage) /\ g.slot \in Slots
                                    /\ g.slot \notin exec.deferred
                                    /\ g.slot \notin Range(sched.ready)
                                    /\ g.slot \notin InLots(Unsent)
  <1>1. InPlace(Lots, sched.ready, exec.deferred, sched.stage) /\ PlaceType
    BY DEF PlaceInv
  <1>2. Out \in Seq(GroupType)
    BY <1>1, LotsNow
  <1>3. \A k \in DOMAIN Out : <<1, k>> \in Cells(Lots) /\ At(Lots, <<1, k>>) = Out[k]
    BY RestIs
  <1>4. ASSUME NEW k \in DOMAIN Out, NEW m \in DOMAIN Out, Out[k].slot = Out[m].slot
        PROVE  k = m
    <2>1. <<1, k>> = <<1, m>>
      BY <1>1, <1>3, <1>4 DEF InPlace, Apart
    <2> QED BY <2>1
  <1>5. NoRepeats(Out) /\ \A g, h \in Range(Out) : g.slot = h.slot => g = h
    BY <1>4 DEF NoRepeats, Range
  <1>6. ASSUME NEW g \in Range(Out)
        PROVE  /\ GroupAt(g, sched.stage) /\ g.slot \in Slots
               /\ g.slot \notin exec.deferred
               /\ g.slot \notin Range(sched.ready)
               /\ g.slot \notin InLots(Unsent)
    <2>1. PICK k \in DOMAIN Out : g = Out[k]
      BY DEF Range
    <2>2. <<1, k>> \in Cells(Lots) /\ At(Lots, <<1, k>>) = g
      BY <1>3, <2>1
    <2>3. GroupAt(g, sched.stage) /\ g.slot \notin exec.deferred
      BY <1>1, <2>2 DEF InPlace
    <2>4. g.slot \in InLots(Lots)
      BY <2>2 DEF InLots
    <2>5. g.slot \notin Range(sched.ready)
      BY <1>1, <2>4 DEF InPlace
    <2>6. g.slot \notin InLots(Unsent)
      <3> SUFFICES ASSUME g.slot \in InLots(Unsent) PROVE FALSE
        OBVIOUS
      <3>1. PICK c \in Cells(Unsent) : At(Unsent, c).slot = g.slot
        BY DEF InLots
      <3>2. c \in Cells(Lots) /\ At(Lots, c).slot = g.slot /\ c # <<1, k>>
        BY <3>1, RestIs
      <3> QED BY <1>1, <2>2, <3>2 DEF InPlace, Apart
    <2> QED BY <2>3, <2>5, <2>6 DEF GroupAt, GroupType
  <1> QED BY <1>2, <1>5, <1>6

\* The documents asked by a filter have started no answer.
LEMMA AskedAre ==
    ASSUME PlaceInv, NEW s \in Asked(Out)
    PROVE  /\ s \in Slots /\ sched.stage[s] \in 1 .. Stages
           /\ plan.stages[sched.stage[s]] # "answer"
           /\ s \notin Started /\ s \notin Range(sched.ready) /\ s \notin InLots(Unsent)
  <1>1. PICK g \in Range(Out) : g.slot = s /\ ~Answer(g)
    BY DEF Asked, SlotsOf
  <1>2. GroupAt(g, sched.stage) /\ s \in Slots /\ s \notin exec.deferred
        /\ s \notin Range(sched.ready) /\ s \notin InLots(Unsent)
    BY <1>1, OutOnce
  <1>3. s \notin Starters(Out)
    <2> SUFFICES ASSUME s \in Starters(Out) PROVE FALSE
      OBVIOUS
    <2>1. PICK h \in Range(Out) : h.slot = s /\ Answer(h)
      BY DEF Starters
    <2>2. g = h
      BY <1>1, <2>1, OutOnce
    <2> QED BY <1>1, <2>1, <2>2
  <1> QED BY <1>1, <1>2, <1>3 DEF Started, GroupAt, Answer

\* The documents whose answer began are in its stage and nowhere else.
LEMMA StartedAre ==
    ASSUME PlaceInv, NEW s \in Started
    PROVE  /\ s \in Slots /\ sched.stage[s] \in 1 .. Stages
           /\ plan.stages[sched.stage[s]] = "answer"
           /\ s \notin Asked(Out) /\ s \notin Range(sched.ready) /\ s \notin InLots(Unsent)
  <1>1. InPlace(Lots, sched.ready, exec.deferred, sched.stage) /\ exec.deferred \in SUBSET Slots
    BY DEF PlaceInv, PlaceType
  <1>2. s \notin Asked(Out)
    BY AskedAre
  <1>3. CASE s \in exec.deferred
    <2>1. s \in Slots /\ sched.stage[s] \in 1 .. Stages /\ plan.stages[sched.stage[s]] = "answer"
          /\ s \notin Range(sched.ready)
      BY <1>1, <1>3 DEF InPlace
    <2>2. s \notin InLots(Unsent)
      <3> SUFFICES ASSUME s \in InLots(Unsent) PROVE FALSE
        OBVIOUS
      <3>1. PICK c \in Cells(Unsent) : At(Unsent, c).slot = s
        BY DEF InLots
      <3>2. c \in Cells(Lots) /\ At(Lots, c).slot = s
        BY <3>1, RestIs
      <3> QED BY <1>1, <1>3, <3>2 DEF InPlace
    <2> QED BY <1>2, <2>1, <2>2
  <1>4. CASE s \in Starters(Out)
    <2>1. PICK g \in Range(Out) : g.slot = s /\ Answer(g)
      BY <1>4 DEF Starters
    <2>2. GroupAt(g, sched.stage) /\ s \in Slots
          /\ s \notin Range(sched.ready) /\ s \notin InLots(Unsent)
      BY <2>1, OutOnce
    <2> QED BY <1>2, <2>1, <2>2 DEF GroupAt, Answer
  <1> QED BY <1>3, <1>4 DEF Started

\* The asked have not begun an answer, not in the part under way either.
LEMMA AskedFresh ==
    ASSUME PlaceInv, pc # "run", ~Filling, NEW s \in Asked(Out)
    PROVE  s \in Fresh
  <1>1. s \in Slots /\ s \notin Started /\ s \notin InLots(Unsent)
    BY AskedAre
  <1>2. ASSUME Packed PROVE s \notin Starters(Part)
    <2> SUFFICES ASSUME s \in Starters(Part) PROVE FALSE
      OBVIOUS
    <2>1. PICK g \in Range(Part) : g.slot = s
      BY DEF Starters
    <2>2. PICK k \in DOMAIN Part : g = Part[k]
      BY <2>1 DEF Range
    <2> DEFINE parts == pass.parts
    <2>3. parts \in Seq(Seq(GroupType)) /\ parts # <<>> /\ Parts = parts
      BY <1>2 DEF PlaceInv, PlaceType, Steps, Parts
    <2>4. Part = parts[1] /\ Len(parts) \in Nat /\ Len(parts) > 0
      BY <2>3 DEF Part
    <2>5. LotsShape(Unsent, <<>>, parts)
      BY <2>3, RestIs
    <2> HIDE DEF parts
    <2>6. 1 \in 1 .. Len(parts)
      BY <2>4
    <2>7. Unsent[1 + 1] = parts[1] /\ DOMAIN Unsent = 1 .. Len(parts) + 1
      BY <2>5, <2>6 DEF LotsShape
    <2>8. Unsent[2] = Part /\ 2 \in DOMAIN Unsent
      BY <2>4, <2>7
    <2>9. Unsent[2][k].slot \in InLots(Unsent)
      BY <2>2, <2>8, CellAt
    <2> QED BY <1>1, <2>1, <2>2, <2>8, <2>9
  <1> QED BY <1>1, <1>2 DEF Fresh, Begun, Started


\* The order in which the stages complete: the asked in their order, the
\* documents whose answers ended in slot order.
Settling(E) ==
    LET asked == Sifted(Out, {g \in Range(Out) : ~Answer(g)})
    IN  [i \in DOMAIN asked |-> asked[i].slot] \o Ascending(E)

\* Stages complete once each, for the asked and for the answers that ended.
LEMMA SettlingIs ==
    ASSUME PlaceInv, NEW E, E \subseteq Started
    PROVE  /\ Settling(E) \in Seq(Slots) /\ NoRepeats(Settling(E))
           /\ Range(Settling(E)) = Asked(Out) \cup E
  <1> DEFINE keep == {g \in Range(Out) : ~Answer(g)}
             asked == Sifted(Out, keep)
             slots == [i \in DOMAIN asked |-> asked[i].slot]
             ended == Ascending(E)
  <1>1. Out \in Seq(GroupType) /\ NoRepeats(Out) /\ Range(Out) \subseteq GroupType
    BY OutOnce, RangeIn
  <1>2. asked \in Seq(GroupType) /\ Range(asked) = keep /\ NoRepeats(asked)
    <2>1. Range(asked) = Range(Out) \cap keep
      BY <1>1, SiftedOf
    <2>2. Range(Out) \cap keep = keep
      OBVIOUS
    <2> QED BY <1>1, <2>1, <2>2, SiftedOf
  <1>3. \A g, h \in keep : g.slot = h.slot => g = h
    BY OutOnce
  <1>4. Asked(Out) = {g.slot : g \in keep}
    BY Zenon DEF Asked, SlotsOf
  <1>5. slots = [i \in DOMAIN asked |-> asked[i].slot]
    OBVIOUS
  <1>6. \A i \in DOMAIN asked : asked[i] \in keep
    BY <1>2 DEF Range
  <1> HIDE DEF asked, keep, slots, ended
  <1>7. slots \in Seq(Slots)
    <2>1. Len(asked) \in Nat /\ DOMAIN asked = 1 .. Len(asked)
      BY <1>2
    <2>2. \A i \in DOMAIN asked : asked[i].slot \in Slots
      <3>1. \A i \in DOMAIN asked : asked[i] \in Range(Out)
        BY <1>6 DEF keep
      <3> QED BY <3>1, OutOnce
    <2>3. slots \in [1 .. Len(asked) -> Slots]
      BY <1>5, <2>1, <2>2
    <2> QED BY <2>1, <2>3, ListIs
  <1>8. Range(slots) = Asked(Out)
    <2>1. ASSUME NEW s \in Range(slots) PROVE s \in Asked(Out)
      <3>1. PICK i \in DOMAIN asked : s = asked[i].slot
        BY <1>5 DEF Range
      <3> QED BY <1>4, <1>6, <3>1
    <2>2. ASSUME NEW s \in Asked(Out) PROVE s \in Range(slots)
      <3>1. PICK g \in keep : s = g.slot
        BY <1>4
      <3>2. PICK i \in DOMAIN asked : asked[i] = g
        BY <1>2 DEF Range
      <3> QED BY <1>5, <3>1, <3>2 DEF Range
    <2> QED BY <2>1, <2>2
  <1>9. NoRepeats(slots)
    <2>1. ASSUME NEW i \in DOMAIN slots, NEW j \in DOMAIN slots, slots[i] = slots[j] PROVE i = j
      <3>1. i \in DOMAIN asked /\ j \in DOMAIN asked /\ asked[i].slot = asked[j].slot
        BY <1>5, <2>1
      <3>2. asked[i] = asked[j]
        BY <1>3, <1>6, <3>1
      <3> QED BY <1>2, <3>1, <3>2 DEF NoRepeats
    <2> QED BY <2>1 DEF NoRepeats
  <1>10. ended \in Seq(Slots) /\ Range(ended) = E /\ NoRepeats(ended)
    <2>1. E \subseteq Slots
      BY StartedAre
    <2>4. Slots \subseteq Int /\ IsFiniteSet(Slots)
      BY SlotsAre
    <2>5. IsFiniteSet(E)
      BY <2>1, <2>4, FS_Subset
    <2>2. E \subseteq Int /\ IsFiniteSet(E)
      BY <2>1, <2>4, <2>5
    <2>3. ended \in Seq(E) /\ Range(ended) = E /\ NoRepeats(ended)
      BY <2>2, AscendingOf DEF ended
    <2> QED BY <2>1, <2>3, SeqIn
  <1>11. Range(slots) \cap Range(ended) = {}
    BY <1>8, <1>10, StartedAre
  <1>12. slots \o ended \in Seq(Slots) /\ Range(slots \o ended) = Range(slots) \cup Range(ended)
         /\ NoRepeats(slots \o ended)
    BY <1>7, <1>9, <1>10, <1>11, ConcatIs
  <1>13. Settling(E) = slots \o ended
    BY Zenon DEF Settling, slots, ended, asked, keep
  <1> QED BY <1>8, <1>10, <1>12, <1>13

\* Documents that need no more, and where the others are next.
Through(order, dropped) == {s \in Range(order) : s \in dropped \/ sched.stage[s] = Stages}

NextStage(order, dropped) ==
    [s \in Slots |-> IF s \in Through(order, dropped) THEN Stages + 1
                     ELSE IF s \in Range(order) THEN sched.stage[s] + 1 ELSE sched.stage[s]]

\* A document's stage grows by one, or is past the last.
LEMMA NextStageIs ==
    ASSUME PlaceInv, NEW E, E \subseteq Started, NEW order, order = Settling(E), NEW dropped
    PROVE  /\ NextStage(order, dropped) \in [Slots -> 0 .. Stages + 1]
           /\ \A s \in Range(order) :
                 /\ sched.stage[s] \in 1 .. Stages
                 /\ sched.stage[s] < NextStage(order, dropped)[s]
                 /\ s \in Through(order, dropped) => NextStage(order, dropped)[s] = Stages + 1
                 /\ s \notin Through(order, dropped) => NextStage(order, dropped)[s] \in 1 .. Stages
           /\ \A s \in Slots \ Range(order) : /\ NextStage(order, dropped)[s] = sched.stage[s]
                                              /\ s \notin Through(order, dropped)
  <1>1. Range(order) = Asked(Out) \cup E
    BY SettlingIs
  <1>2. \A s \in Range(order) : s \in Slots /\ sched.stage[s] \in 1 .. Stages
    BY <1>1, AskedAre, StartedAre
  <1>3. sched.stage \in [Slots -> 0 .. Stages + 1] /\ Stages \in Nat /\ Stages > 0
    BY PlanIs DEF PlaceInv, PlaceType
  <1> DEFINE next == NextStage(order, dropped)
             gone == Through(order, dropped)
  <1>4. \A s \in Slots : next[s] = IF s \in gone THEN Stages + 1
                                   ELSE IF s \in Range(order) THEN sched.stage[s] + 1
                                   ELSE sched.stage[s]
    BY DEF NextStage
  <1>5. \A s \in gone : s \in Range(order)
    BY DEF Through
  <1>6. \A s \in Range(order) : s \notin gone => sched.stage[s] # Stages
    BY DEF Through
  <1>7. DOMAIN next = Slots /\ next = [s \in Slots |-> next[s]]
    BY DEF NextStage
  <1> HIDE DEF next, gone
  <1>8. ASSUME NEW s \in Range(order)
        PROVE  /\ sched.stage[s] \in 1 .. Stages /\ sched.stage[s] < next[s]
               /\ s \in gone => next[s] = Stages + 1
               /\ s \notin gone => next[s] \in 1 .. Stages
               /\ next[s] \in 0 .. Stages + 1
    <2>1. s \in Slots /\ sched.stage[s] \in 1 .. Stages
      BY <1>2
    <2>2. CASE s \in gone
      BY <1>3, <1>4, <2>1, <2>2
    <2>3. CASE s \notin gone
      <3>1. next[s] = sched.stage[s] + 1 /\ sched.stage[s] # Stages
        BY <1>4, <1>6, <2>1, <2>3
      <3> QED BY <1>3, <2>1, <2>3, <3>1
    <2> QED BY <2>2, <2>3
  <1>9. \A s \in Slots \ Range(order) : next[s] = sched.stage[s] /\ s \notin gone
    BY <1>4, <1>5
  <1>10. \A s \in Slots : next[s] \in 0 .. Stages + 1
    <2> SUFFICES ASSUME NEW s \in Slots PROVE next[s] \in 0 .. Stages + 1
      OBVIOUS
    <2>1. CASE s \in Range(order)
      BY <1>8, <2>1
    <2>2. CASE s \notin Range(order)
      BY <1>3, <1>9, <2>2
    <2> QED BY <2>1, <2>2
  <1> QED BY <1>7, <1>8, <1>9, <1>10 DEF next, gone


\* The places after: what is not sent yet, and the documents that go on.
LEMMA RecordedPlaces ==
    ASSUME PlaceInv, NEW E, E \subseteq Started, NEW order, order = Settling(E), NEW dropped,
           NEW stage2, stage2 = NextStage(order, dropped),
           NEW ready2, ready2 = sched.ready \o Sifted(order, Slots \ Through(order, dropped))
    PROVE  InPlace(Unsent, ready2, Started \ E, stage2) /\ ready2 \in Seq(Slots)
  <1>1. /\ InPlace(Lots, sched.ready, exec.deferred, sched.stage) /\ sched.ready \in Seq(Slots)
    BY DEF PlaceInv, PlaceType
  <1>2. order \in Seq(Slots) /\ NoRepeats(order) /\ Range(order) = Asked(Out) \cup E
    BY SettlingIs
  <1> DEFINE gone == Through(order, dropped)
             on == Sifted(order, Slots \ gone)
  <1>3. /\ \A s \in Range(order) : s \notin gone => stage2[s] \in 1 .. Stages
        /\ \A s \in Slots \ Range(order) : stage2[s] = sched.stage[s]
    BY NextStageIs
  <1>4. ready2 = sched.ready \o on
    OBVIOUS
  <1>5. on \in Seq(Slots) /\ NoRepeats(on) /\ Range(on) = Range(order) \cap (Slots \ gone)
    BY <1>2, SiftedOf
  <1> HIDE DEF gone, on
  <1>6. Range(sched.ready) \cap Range(order) = {}
    BY <1>2, AskedAre, StartedAre
  <1>7. /\ ready2 \in Seq(Slots) /\ Range(ready2) = Range(sched.ready) \cup Range(on)
        /\ NoRepeats(ready2)
    <2>1. Range(sched.ready) \cap Range(on) = {}
      BY <1>5, <1>6
    <2>2. NoRepeats(sched.ready)
      BY <1>1 DEF InPlace
    <2> DEFINE was == sched.ready
    <2>3. was \in Seq(Slots) /\ NoRepeats(was) /\ Range(was) \cap Range(on) = {}
      BY <1>1, <2>1, <2>2
    <2>4. ready2 = was \o on
      BY <1>4
    <2> HIDE DEF was
    <2>5. /\ was \o on \in Seq(Slots) /\ Range(was \o on) = Range(was) \cup Range(on)
          /\ NoRepeats(was \o on)
      BY <1>5, <2>3, ConcatIs
    <2>6. ready2 \in Seq(Slots) /\ Range(ready2) = Range(was) \cup Range(on) /\ NoRepeats(ready2)
      BY <2>4, <2>5
    <2> QED BY <2>6 DEF was
  <1>8. \A s \in InLots(Unsent) : s \notin Range(order) /\ s \notin Started /\ s \notin E
    BY <1>2, AskedAre, StartedAre
  <1>9. Apart(Unsent)
    <2>1. Apart(Lots)
      BY <1>1 DEF InPlace
    <2> QED BY <2>1, RestIs DEF Apart
  <1>10. ASSUME NEW c \in Cells(Unsent)
         PROVE  GroupAt(At(Unsent, c), stage2) /\ At(Unsent, c).slot \notin Started \ E
    <2>1. c \in Cells(Lots) /\ At(Unsent, c) = At(Lots, c)
      BY RestIs
    <2>2. GroupAt(At(Unsent, c), sched.stage)
      BY <1>1, <2>1 DEF InPlace
    <2>3. At(Unsent, c).slot \in InLots(Unsent)
      BY DEF InLots
    <2>4. At(Unsent, c).slot \in Slots
      BY <2>2 DEF GroupAt, GroupType
    <2>5. stage2[At(Unsent, c).slot] = sched.stage[At(Unsent, c).slot]
      BY <1>3, <1>8, <2>3, <2>4
    <2> QED BY <1>8, <2>2, <2>3, <2>5 DEF GroupAt
  <1>11. ASSUME NEW s \in Range(ready2)
         PROVE  stage2[s] \in 1 .. Stages /\ s \notin Started \ E /\ s \notin InLots(Unsent)
    <2>1. CASE s \in Range(sched.ready)
      <3>1. sched.stage[s] \in 1 .. Stages /\ s \notin InLots(Lots)
        BY <1>1, <2>1 DEF InPlace
      <3>2. s \in Slots
        BY <1>1, <2>1, RangeIn
      <3>3. stage2[s] = sched.stage[s]
        BY <1>3, <1>6, <2>1, <3>2
      <3>4. s \notin Started
        BY <2>1, StartedAre
      <3>5. s \notin InLots(Unsent)
        BY <3>1, RestIs DEF InLots
      <3> QED BY <3>1, <3>3, <3>4, <3>5
    <2>2. CASE s \in Range(on)
      <3>1. s \in Range(order) /\ s \notin gone
        BY <1>5, <2>2
      <3>2. stage2[s] \in 1 .. Stages
        BY <1>3, <3>1
      <3>3. s \notin Started \ E
        BY <1>2, <3>1, AskedAre
      <3> QED BY <1>8, <3>1, <3>2, <3>3
    <2> QED BY <1>7, <2>1, <2>2
  <1>12. ASSUME NEW s \in Started \ E
         PROVE  stage2[s] \in 1 .. Stages /\ plan.stages[stage2[s]] = "answer"
    <2>1. s \in Slots /\ sched.stage[s] \in 1 .. Stages /\ plan.stages[sched.stage[s]] = "answer"
          /\ s \notin Asked(Out)
      BY StartedAre
    <2>2. stage2[s] = sched.stage[s]
      BY <1>2, <1>3, <2>1
    <2> QED BY <2>1, <2>2
  <1> QED BY <1>7, <1>9, <1>10, <1>11, <1>12 DEF InPlace


\* Answers are read and reported; the rest of the pass waits.
LEMMA RecordedInv ==
    ASSUME Inv, plan' = plan, back' = back, recomputing' = recomputing, pass' = pass,
           NEW n \in 0 .. Len(dec.copies), NEW dropped, Recorded(Out, dropped, n),
           pc \in {"report", "landed", "idle"}, pc' \in {"landed", "submit", "top"},
           Packed' <=> Packed, pc' = "submit" => back = "submit"
    PROVE  Inv'
  <1> DEFINE read == ReadCopies(dec, n)
             E == read.answered \cap Started
             order == Settling(E)
             next == NextStage(order, dropped)
             gone == Through(order, dropped)
             C == pass.chosen
  <1>1. /\ PlaceInv /\ PlaceType /\ Steps /\ ~Filling /\ ~Filling' /\ ~Planning'
        /\ Waits(pass.held, sched.pending, sched.stage) /\ pass.held = <<>> /\ Evicted
        /\ DecInv(dec, C, sched.stage, Fresh) /\ Home(arena)
        /\ Houses(arena, sched.stage, dec.paused)
    <2>1. PlaceInv /\ PlaceType /\ Steps /\ Evicted /\ DecInv(dec, pass.chosen, sched.stage, Fresh)
          /\ Waits(pass.held, sched.pending, sched.stage) /\ Home(arena)
          /\ Houses(arena, sched.stage, dec.paused)
      BY DEF Inv, PlaceInv
    <2>2. ~Filling /\ ~Filling' /\ ~Planning'
      BY DEF Filling, Planning
    <2> QED BY <2>1, <2>2 DEF Steps
  <1>2. plan \in Plans /\ Stages \in Nat /\ sched.stage \in [Slots -> Nat]
    <2>1. plan \in Plans /\ Stages \in Nat /\ sched.stage \in [Slots -> 0 .. Stages + 1]
      BY <1>1, PlanIs DEF PlaceType
    <2> QED BY <2>1
  <1>3. /\ dec' = [read EXCEPT !.answered = @ \ E]
        /\ exec' = [outstanding |-> <<>>, deferred |-> Started \ E]
        /\ sched' = Advance(sched, order, dropped)
        /\ arena' = Settle(arena, {s \in Range(order) : Advance(sched, order, dropped).stage[s] = Done})
    <2>1. Started = exec.deferred \cup SlotsOf({g \in Range(Out) : Answer(g)})
      BY Zenon DEF Started, Starters, SlotsOf
    <2> QED BY <2>1, Zenon DEF Recorded, Settling
  <1>4. DecInv(read, C, sched.stage, Fresh) /\ read.paused = dec.paused
    <2> DEFINE D == read
    <2>1. D = ReadCopies(dec, n)
      OBVIOUS
    <2> HIDE DEF D
    <2>2. Landed(dec, D, n, C, sched.stage, Fresh)
      BY <1>1, <1>2, <2>1, ReadCopiesKeep
    <2>3. DecInv(D, C, sched.stage, Fresh) /\ D.paused = dec.paused
      BY <2>2 DEF Landed, Reads
    <2> QED BY <2>3 DEF D
  <1> HIDE DEF read, C
  <1>5. E \subseteq Started /\ E \subseteq read.answered
    OBVIOUS
  <1> HIDE DEF E
  <1>6. order \in Seq(Slots) /\ NoRepeats(order) /\ Range(order) = Asked(Out) \cup E
    BY <1>1, <1>5, SettlingIs
  <1>7. order = Settling(E) /\ next = NextStage(order, dropped) /\ gone = Through(order, dropped)
    OBVIOUS
  <1> HIDE DEF order, next, gone
  <1>8. /\ next \in [Slots -> 0 .. Stages + 1]
        /\ \A s \in Range(order) :
              /\ sched.stage[s] \in 1 .. Stages /\ sched.stage[s] < next[s]
              /\ s \in gone => next[s] = Stages + 1
              /\ s \notin gone => next[s] \in 1 .. Stages
        /\ \A s \in Slots \ Range(order) : next[s] = sched.stage[s] /\ s \notin gone
    BY <1>1, <1>5, <1>7, NextStageIs
  <1> DEFINE ready2 == sched.ready \o Sifted(order, Slots \ gone)
  <1>9. /\ sched'.pending = sched.pending /\ sched'.ready = ready2 /\ sched'.stage = next
        /\ sched'.blocked = sched.blocked
        /\ sched' = [pending |-> sched'.pending, ready |-> sched'.ready, stage |-> sched'.stage,
                     blocked |-> sched'.blocked]
    <2>1. sched' = [sched EXCEPT !.stage = next, !.ready = ready2]
      BY <1>3, <1>7, Zenon DEF Advance, NextStage, Through, Stages, Done
    <2>2. sched = [pending |-> sched.pending, ready |-> sched.ready, stage |-> sched.stage,
                   blocked |-> sched.blocked]
      BY <1>1 DEF PlaceType
    <2> HIDE DEF ready2
    <2> QED BY <2>1, <2>2
  <1>10. /\ InPlace(Unsent, ready2, Started \ E, next) /\ ready2 \in Seq(Slots)
    <2>1. ready2 = sched.ready \o Sifted(order, Slots \ Through(order, dropped))
      BY <1>7
    <2> HIDE DEF ready2
    <2> QED BY <1>1, <1>5, <1>7, <2>1, RecordedPlaces
  <1> HIDE DEF ready2
  <1>11. arena' = FreeAll(arena, gone \cap Resident(arena))
    <2>1. Advance(sched, order, dropped).stage = next
      BY <1>3, <1>9
    <2>2. {s \in Range(order) : next[s] = Done} = gone
      <3>1. Done = Stages + 1
        BY DEF Done, Stages
      <3>2. \A s \in gone : s \in Range(order)
        BY <1>7 DEF Through
      <3>3. \A s \in Range(order) : next[s] = Stages + 1 <=> s \in gone
        BY <1>2, <1>8
      <3> QED BY <3>1, <3>2, <3>3
    <2> QED BY <1>3, <2>1, <2>2 DEF Settle
  <1>12. Home(arena') /\ Lodged(arena') = Lodged(arena) \ gone
    <2> DEFINE V == gone \cap Resident(arena)
    <2>1. V \in SUBSET Resident(arena) /\ arena' = FreeAll(arena, V)
      BY <1>11
    <2>2. Home(arena') /\ Lodged(arena') = Lodged(arena) \ V
      BY <1>1, <2>1, FreeHome
    <2> QED BY <2>2 DEF Lodged
  <1>13. Houses(arena, sched.stage, dec.paused)'
    <2>1. ASSUME NEW s \in Slots
          PROVE  /\ next[s] \in 1 .. Stages /\ s \notin dec.paused => s \in Lodged(arena')
                 /\ next[s] \in {Queued, Stages + 1} => s \notin Lodged(arena')
      <3>1. /\ sched.stage[s] \in 1 .. Stages /\ s \notin dec.paused => s \in Lodged(arena)
            /\ sched.stage[s] \in {Queued, Stages + 1} => s \notin Lodged(arena)
        BY <1>1 DEF Houses
      <3>2. CASE s \in Range(order)
        BY <1>2, <1>8, <1>12, <3>1, <3>2 DEF Queued
      <3>3. CASE s \notin Range(order)
        BY <1>8, <1>12, <3>1, <3>3
      <3> QED BY <3>2, <3>3
    <2>2. Houses(arena', next, dec.paused)
      BY <2>1 DEF Houses
    <2>3. dec'.paused = dec.paused
      <3>1. read \in Decoder
        BY <1>4 DEF DecInv
      <3> QED BY <1>3, <1>4, <3>1 DEF Decoder
    <2> QED BY <1>9, <2>2, <2>3, SameHouses
  <1>14. Home(arena)'
    BY <1>12 DEF Home, Resident
  <1>15. Evicted'
    <2>1. dec'.paused = dec.paused
      <3>1. read \in Decoder
        BY <1>4 DEF DecInv
      <3> QED BY <1>3, <1>4, <3>1 DEF Decoder
    <2> QED BY <1>1, <2>1 DEF Evicted
  <1>16. Stages' = Stages /\ GroupType' = GroupType
    BY SamePlan DEF GroupType
  <1>17. exec'.outstanding = <<>> /\ exec'.deferred = Started \ E
         /\ exec' = [outstanding |-> exec'.outstanding, deferred |-> exec'.deferred]
    BY <1>3
  <1>18. PlaceType'
    <2>1. sched'.pending \in Seq(Slots) /\ sched'.ready \in Seq(Slots)
          /\ sched'.stage \in [Slots -> 0 .. Stages' + 1] /\ plan' \in Plans
      BY <1>1, <1>2, <1>8, <1>9, <1>10, <1>16 DEF PlaceType
    <2>2. exec'.outstanding \in Seq(Seq(GroupType')) /\ exec'.deferred \in SUBSET Slots
      <3>1. Started \subseteq Slots
        BY <1>1, StartedAre
      <3> QED BY <1>17, <3>1
    <2>3. /\ pass'.held \in Seq(Slots) /\ pass'.groups \in Seq(GroupType')
          /\ pass'.parts \in Seq(Seq(GroupType')) /\ pass'.chosen \in SUBSET Slots
          /\ pass'.at \in Nat \ {0} /\ pass'.room \in Nat
          /\ pass' = [rows |-> pass'.rows, replays |-> pass'.replays, at |-> pass'.at,
                      room |-> pass'.room, groups |-> pass'.groups, held |-> pass'.held,
                      parts |-> pass'.parts, chosen |-> pass'.chosen]
      BY <1>1, <1>16 DEF PlaceType
    <2> QED BY <1>9, <1>17, <2>1, <2>2, <2>3 DEF PlaceType
  <1>19. Steps'
    <2>1. Len(exec'.outstanding) <= 1
      BY <1>17
    <2>2. Steps
      BY <1>1
    <2> QED BY <1>1, <1>17, <2>1, <2>2 DEF Steps
  <1>20. Out' = <<>> /\ Parts' = Parts /\ Lots' = Unsent
    <2>1. Out' = <<>>
      BY <1>17 DEF Out
    <2>2. Parts' = Parts
      BY <1>1 DEF Parts
    <2>3. Lots' = <<Out'>> \o Parts'
      BY Zenon DEF Lots
    <2> QED BY <2>1, <2>2, <2>3 DEF Unsent, LotsOf
  <1>21. InPlace(Lots, sched.ready, exec.deferred, sched.stage)'
    <2> DEFINE M == Lots'
    <2>1. M = Lots' /\ InPlace(M, sched'.ready, exec'.deferred, sched'.stage)
      BY <1>9, <1>10, <1>17, <1>20
    <2> HIDE DEF M
    <2> QED BY <2>1, InPlaceNext
  <1>22. Waits(pass.held, sched.pending, sched.stage)'
    <2>1. Range(<<>>) = {}
      BY DEF Range
    <2>2. ASSUME NEW s \in Range(sched.pending) PROVE next[s] = Queued
      <3>1. sched.stage[s] = Queued /\ s \in Slots
        <4>1. sched.pending \in Seq(Slots)
          BY <1>1 DEF PlaceType
        <4> QED BY <1>1, <4>1, RangeIn DEF Waits
      <3>2. s \notin Range(order)
        BY <1>2, <1>8, <3>1 DEF Queued
      <3> QED BY <1>8, <3>1, <3>2
    <2>3. Waits(pass'.held, sched'.pending, sched'.stage)
      BY <1>1, <1>9, <2>1, <2>2 DEF Waits
    <2> QED BY <2>3 DEF Waits, NoRepeats
  <1>23. PlaceInv'
    BY <1>18, <1>19, <1>21, <1>22 DEF PlaceInv
  <1>24. DecInv(dec, pass.chosen, sched.stage, Fresh)'
    <2> DEFINE D == dec'
               fresh2 == Fresh'
    <2>1. D = [read EXCEPT !.answered = @ \ E]
      BY <1>3
    <2>2. \A s \in Slots \ (Asked(Out) \cup E) :
              next[s] = sched.stage[s] /\ (s \in fresh2 => s \in Fresh)
      <3>1. Starters(Out)' = {}
        BY <1>20 DEF Starters, Range
      <3>2. Part' = Part /\ Starters(Part)' = Starters(Part)
        <4>1. Part' = Part
          BY DEF Part
        <4> QED BY <4>1, SamePlan
      <3>3. Begun' = (Started \ E) \cup IF Packed THEN Starters(Part) ELSE {}
        BY <1>17, <3>1, <3>2 DEF Begun
      <3>4. Begun = Started \cup IF Packed THEN Starters(Part) ELSE {}
        BY DEF Begun, Started
      <3>5. \A s \in Slots \ E : s \in fresh2 => s \in Fresh
        BY <3>3, <3>4 DEF Fresh
      <3> QED BY <1>6, <1>8, <3>5
    <2>3. \A s \in Asked(Out) : s \in Fresh /\ sched.stage[s] \in 1 .. Stages
                                  /\ plan.stages[sched.stage[s]] # "answer"
      BY <1>1, AskedAre, AskedFresh
    <2>4. \A s \in Asked(Out) \cup E : sched.stage[s] < next[s]
      BY <1>6, <1>8
    <2>5. Asked(Out) \in SUBSET Slots
      BY <1>1, AskedAre
    <2>6. next \in [Slots -> Nat]
      BY <1>2, <1>8
    <2>7. D = dec' /\ fresh2 = Fresh'
      OBVIOUS
    <2> DEFINE asked == Asked(Out)
               stage == sched.stage
               fresh == Fresh
    <2>10. Completes(asked, E, stage, next, fresh, fresh2)
      BY <2>2, <2>3, <2>4 DEF Completes
    <2>11. plan \in Plans /\ E \subseteq read.answered /\ stage \in [Slots -> Nat]
           /\ DecInv(read, C, stage, fresh) /\ asked \in SUBSET Slots
      BY <1>2, <1>4, <1>5, <2>5
    <2>12. D = Recording(read, E)
      BY <2>1 DEF Recording
    <2> HIDE DEF D, fresh2, asked, stage, fresh
    <2>13. DecInv(Recording(read, E), C, next, fresh2)
      BY <2>6, <2>10, <2>11, RecordKeeps
    <2>8. DecInv(D, C, next, fresh2)
      BY <2>12, <2>13
    <2>9. C = pass'.chosen /\ next = sched'.stage
      BY <1>9 DEF C
    <2> QED BY <2>7, <2>8, <2>9, DecNext
  <1> QED BY <1>13, <1>14, <1>15, <1>23, <1>24 DEF Inv


\* The oldest pass is reported (_report).
LEMMA ReportInv == ASSUME Inv, Report PROVE Inv'
  <1>1. /\ pc = "report" /\ pc' = "landed" /\ plan' = plan /\ back' = back
        /\ recomputing' = recomputing /\ pass' = pass
    BY DEF Report
  <1>2. exec.outstanding # <<>>
    BY <1>1 DEF Inv, PlaceInv, Steps
  <1>3. Out = Head(exec.outstanding)
    BY <1>2 DEF Out
  <1>4. PICK dropped \in SUBSET Asked(Head(exec.outstanding)), n \in 0 .. Len(dec.copies) :
            Recorded(Head(exec.outstanding), dropped, n)
    BY Zenon DEF Report
  <1>6. Recorded(Out, dropped, n)
    BY <1>3, <1>4
  <1>5. Packed' <=> Packed
    BY <1>1 DEF Packed
  <1> QED BY <1>1, <1>5, <1>6, RecordedInv

\* Answers that landed are recorded (_answers_landed).
LEMMA AnswersLandedInv == ASSUME Inv, AnswersLanded PROVE Inv'
  <1>1. /\ pc = "landed" /\ pc' = back /\ plan' = plan /\ back' = back
        /\ recomputing' = recomputing /\ pass' = pass
    BY DEF AnswersLanded
  <1>2. exec.outstanding = <<>> /\ back \in {"top", "submit"}
    BY <1>1 DEF Inv, PlaceInv, Steps
  <1>3. Out = <<>>
    BY <1>2 DEF Out
  <1>4. PICK n \in 0 .. Len(dec.copies) : Recorded(Out, {}, n)
    BY <1>3, Zenon DEF AnswersLanded
  <1>5. (Packed' <=> Packed) /\ pc' \in {"landed", "submit", "top"} /\ (pc' = "submit" => back = "submit")
    BY <1>1, <1>2 DEF Packed
  <1> DEFINE none == {}
  <1>6. Recorded(Out, none, n)
    BY <1>4
  <1> HIDE DEF none
  <1> QED BY <1>1, <1>5, <1>6, RecordedInv

\* Nothing to pack: answers, tokens, retained KV, in this order.
LEMMA IdleInv == ASSUME Inv, Idle PROVE Inv'
  <1>1. pc = "idle" /\ plan' = plan /\ recomputing' = recomputing /\ pass' = pass
    BY DEF Idle
  <1>2. /\ PlaceInv /\ PlaceType /\ Steps /\ pass.held = <<>> /\ pass.chosen = {} /\ ~Packed /\ ~Filling
        /\ Waits(pass.held, sched.pending, sched.stage) /\ Home(arena) /\ Evicted
        /\ DecInv(dec, pass.chosen, sched.stage, Fresh)
    <2>1. ~Packed /\ ~Filling
      BY <1>1 DEF Packed, Filling
    <2> QED BY <2>1 DEF Inv, PlaceInv, Steps
  <1>3. CASE exec.outstanding # <<>>
    <2>1. /\ pc' = "report" /\ back' = "top" /\ arena' = arena /\ dec' = dec /\ exec' = exec
          /\ sched' = sched
      BY <1>3 DEF Idle
    <2>2. ~Packed' /\ ~Filling' /\ ~Planning'
      BY <2>1 DEF Packed, Filling, Planning
    <2>3. Stages' = Stages /\ GroupType' = GroupType
      BY <1>1, SamePlan DEF GroupType
    <2>4. PlaceType'
      BY <1>1, <1>2, <2>1, <2>3 DEF PlaceType
    <2>5. Steps'
      BY <1>1, <1>2, <1>3, <2>1, <2>2 DEF Steps
    <2>6. Out' = Out /\ Lots' = Lots
      BY <1>1, <1>2, <2>1, <2>2 DEF Out, Lots, Parts
    <2>7. InPlace(Lots, sched.ready, exec.deferred, sched.stage)'
      <3>1. InPlace(Lots, sched.ready, exec.deferred, sched.stage)
        BY <1>2 DEF PlaceInv
      <3> QED BY <1>1, <2>1, <2>6, <3>1, SamePlaces
    <2>8. Waits(pass.held, sched.pending, sched.stage)'
      BY <1>1, <1>2, <2>1 DEF Waits, NoRepeats
    <2>9. PlaceInv'
      BY <2>4, <2>5, <2>7, <2>8 DEF PlaceInv
    <2>10. Fresh' = Fresh
      <3>1. Starters(Out)' = Starters(Out)
        BY <1>1, <2>6, SamePlan
      <3> QED BY <1>2, <2>1, <2>2, <3>1 DEF Fresh, Begun
    <2> QED BY <1>1, <1>2, <2>1, <2>2, <2>9, <2>10, StillInv
  <1>4. CASE exec.outstanding = <<>> /\ dec.copies # <<>>
    <2>1. pc' = "top" /\ back' = back /\ Recorded(<<>>, {}, Len(dec.copies))
      BY <1>4 DEF Idle
    <2>2. Out = <<>>
      BY <1>4 DEF Out
    <2> DEFINE none == {}
               n == Len(dec.copies)
    <2>3. Recorded(Out, none, n)
      BY <2>1, <2>2
    <2>4. n \in 0 .. Len(dec.copies)
      <3>1. dec \in Decoder
        BY <1>2 DEF DecInv
      <3>2. Len(dec.copies) \in Nat
        BY <3>1 DEF Decoder
      <3> QED BY <3>2
    <2>5. Packed' <=> Packed
      BY <1>1, <2>1 DEF Packed
    <2> HIDE DEF none, n
    <2> QED BY <1>1, <2>1, <2>3, <2>4, <2>5, RecordedInv
  <1>5. CASE exec.outstanding = <<>> /\ dec.copies = <<>>
    <2>1. /\ pc' \in {"top", "stuck"} /\ back' = back /\ dec' = dec /\ exec' = exec /\ sched' = sched
          /\ \/ arena' = arena
             \/ arena' \in EvictRetained(arena, sched.blocked)
      BY <1>5 DEF Idle
    <2>2. Home(arena') /\ Lodged(arena') = Lodged(arena)
      BY <1>2, <2>1, EvictHome DEF EvictRetained
    <2>3. PassType' /\ pass'.held = <<>> /\ pass'.chosen = {}
      <3>1. PassType
        BY <1>2 DEF PlaceType, PassType
      <3>2. PassType'
        BY <1>1, <3>1 DEF PassType, GroupType
      <3> QED BY <1>1, <1>2, <3>2
    <2>4. Evicted'
      <3>1. ~Planning'
        BY <2>1 DEF Planning
      <3> QED BY <1>1, <1>2, <2>1, <3>1, QueueSame
    <2> QED BY <1>1, <2>1, <2>2, <2>3, <2>4, QuietInv DEF Calm
  <1> QED BY <1>3, <1>4, <1>5

\* A loop that rests.
LEMMA RestInv == ASSUME Inv, UNCHANGED vars PROVE Inv'
  <1>1. /\ pc' = pc /\ plan' = plan /\ back' = back /\ sched' = sched /\ dec' = dec /\ exec' = exec
        /\ recomputing' = recomputing /\ pass' = pass /\ arena' = arena
    BY DEF vars
  <1>2. Packed' = Packed /\ Filling' = Filling /\ Planning' = Planning
    BY <1>1 DEF Packed, Filling, Planning
  <1>3. PlaceInv /\ PlaceType /\ Steps
    BY DEF Inv, PlaceInv
  <1>4. Stages' = Stages /\ GroupType' = GroupType /\ Done' = Done
    BY <1>1, SamePlan DEF GroupType, Done
  <1>5. PlaceType'
    BY <1>1, <1>3, <1>4 DEF PlaceType
  <1>6. Steps'
    BY <1>1, <1>2, <1>3, <1>4 DEF Steps
  <1>7. Out' = Out /\ Lots' = Lots /\ Part' = Part
    BY <1>1, <1>2 DEF Out, Lots, Parts, Part
  <1>8. InPlace(Lots, sched.ready, exec.deferred, sched.stage)'
    <2>1. InPlace(Lots, sched.ready, exec.deferred, sched.stage)
      BY <1>3 DEF PlaceInv
    <2> QED BY <1>1, <1>7, <2>1, SamePlaces
  <1>9. Waits(pass.held, sched.pending, sched.stage)'
    <2>1. Waits(pass.held, sched.pending, sched.stage)
      BY <1>3 DEF PlaceInv
    <2> QED BY <1>1, <2>1 DEF Waits, NoRepeats
  <1>10. PlaceInv'
    BY <1>5, <1>6, <1>8, <1>9 DEF PlaceInv
  <1>11. Fresh' = Fresh
    <2>1. Starters(Out)' = Starters(Out) /\ Starters(Part)' = Starters(Part)
      BY <1>1, <1>7, SamePlan
    <2> QED BY <1>1, <1>2, <2>1 DEF Fresh, Begun
  <1>12. Home(arena')
    BY <1>1 DEF Inv
  <1> QED BY <1>1, <1>2, <1>10, <1>11, <1>12, StillInv

\* The loop raises at a stage that lost its document: all stays as it was.
LEMMA RaisePartInv == ASSUME Inv, RaisePart PROVE Inv'
  <1>1. /\ pc = "run" /\ pc' = "raised" /\ plan' = plan /\ back' = back /\ sched' = sched
        /\ dec' = dec /\ exec' = exec /\ recomputing' = recomputing /\ pass' = pass
        /\ arena' = arena
    BY DEF RaisePart
  <1>2. ~Packed /\ ~Packed' /\ ~Filling /\ ~Filling' /\ ~Planning'
    BY <1>1 DEF Packed, Filling, Planning
  <1>3. PlaceInv /\ PlaceType /\ Steps
    BY DEF Inv, PlaceInv
  <1>4. Stages' = Stages /\ GroupType' = GroupType
    BY <1>1, SamePlan DEF GroupType
  <1>5. PlaceType'
    BY <1>1, <1>3, <1>4 DEF PlaceType
  <1>6. Steps'
    BY <1>1, <1>2, <1>3 DEF Steps
  <1>7. Out' = Out /\ Lots' = Lots
    BY <1>1, <1>2 DEF Out, Lots, Parts
  <1>8. InPlace(Lots, sched.ready, exec.deferred, sched.stage)'
    <2>1. InPlace(Lots, sched.ready, exec.deferred, sched.stage)
      BY <1>3 DEF PlaceInv
    <2> QED BY <1>1, <1>7, <2>1, SamePlaces
  <1>9. Waits(pass.held, sched.pending, sched.stage)'
    <2>1. Waits(pass.held, sched.pending, sched.stage)
      BY <1>3 DEF PlaceInv
    <2> QED BY <1>1, <2>1 DEF Waits, NoRepeats
  <1>10. PlaceInv'
    BY <1>5, <1>6, <1>8, <1>9 DEF PlaceInv
  <1>11. Fresh' = Fresh
    <2>1. Starters(Out)' = Starters(Out)
      BY <1>1, <1>7, SamePlan
    <2> QED BY <1>1, <1>2, <2>1 DEF Fresh, Begun
  <1>12. Home(arena')
    BY <1>1 DEF Inv
  <1> QED BY <1>1, <1>2, <1>10, <1>11, <1>12, StillInv

\* Every step keeps the invariant.
LEMMA NextInv == ASSUME Inv, [Next]_vars PROVE Inv'
  <1>1. CASE Top
    BY <1>1, TopInv
  <1>2. CASE GrownAll
    BY <1>2, GrownAllInv
  <1>3. CASE GrowAnswers
    BY <1>3, GrowAnswersInv
  <1>4. CASE DropReplay
    BY <1>4, DropReplayInv
  <1>5. CASE WaitReplay
    BY <1>5, WaitReplayInv
  <1>6. CASE TakeReplay
    BY <1>6, TakeReplayInv
  <1>7. CASE ReplaysTaken
    BY <1>7, ReplaysTakenInv
  <1>8. CASE TakeReady
    BY <1>8, TakeReadyInv
  <1>9. ASSUME NEW s \in Slots, HoldForPages(s) PROVE Inv'
    BY <1>9, HoldForPagesInv
  <1>10. ASSUME NEW s \in Slots, HoldForRoom(s) PROVE Inv'
    BY <1>10, HoldForRoomInv
  <1>11. ASSUME NEW s \in Slots, Admit(s) PROVE Inv'
    BY <1>11, AdmitInv
  <1>12. CASE CloseChunk
    BY <1>12, CloseChunkInv
  <1>13. CASE Halve
    BY <1>13, HalveInv
  <1>14. CASE RunPart
    BY <1>14, RunPartInv
  <1>15. CASE SubmitPart
    BY <1>15, SubmitPartInv
  <1>16. CASE Report
    BY <1>16, ReportInv
  <1>17. CASE AnswersLanded
    BY <1>17, AnswersLandedInv
  <1>18. CASE Idle
    BY <1>18, IdleInv
  <1>19. CASE Rest
    BY <1>19, RestInv DEF Rest
  <1>20. CASE UNCHANGED vars
    BY <1>20, RestInv
  <1>21. CASE RaisePart
    BY <1>21, RaisePartInv
  <1> QED BY <1>1, <1>2, <1>3, <1>4, <1>5, <1>6, <1>7, <1>8, <1>9, <1>10, <1>11, <1>12, <1>13,
             <1>14, <1>15, <1>16, <1>17, <1>18, <1>19, <1>20, <1>21 DEF Next

\* Places, tokens and pages agree in every state.
THEOREM AnswerDecodingInv == Spec => []Inv
  <1>1. Init => Inv
    BY InitInv
  <1>2. Inv /\ [Next]_vars => Inv'
    BY NextInv
  <1> QED BY <1>1, <1>2, PTL DEF Spec


\* The tokens of an answer land each once, in order and in the answer that
\* chose them, whatever ended, was evicted or began in between
\* (map_decoder.py _read, submit; stage_executor.py _replays).
THEOREM TokensLand == Spec => []TokensLandInOrder
  <1>1. ASSUME Inv PROVE TokensLandInOrder
    <2>1. ASSUME NEW s \in Slots, dec.map[s] # NoMap PROVE InSequence(dec, s)
      <3>1. SlotInv(dec, pass.chosen, sched.stage, Fresh, s)
        BY <1>1 DEF Inv, DecInv
      <3> QED BY <2>1, <3>1 DEF SlotInv, Writing
    <2> QED BY <2>1 DEF TokensLandInOrder, InSequence, Before
  <1> QED BY <1>1, AnswerDecodingInv, PTL

\* When the loop ends, every document that reached an answer has all of its
\* tokens up to its stop token or the limit, no answer is half written, and
\* only what was retained before holds pages (stage_executor.py run,
\* _record_answers).
THEOREM AnswersAreWhole == Spec => []AnswersWhole
  <1>1. ASSUME Inv PROVE AnswersWhole
    <2>1. ASSUME NEW s \in Slots PROVE SlotInv(dec, pass.chosen, sched.stage, Fresh, s)
      BY <1>1 DEF Inv, DecInv
    <2>2. PlaceType /\ Steps /\ Home(arena) /\ Houses(arena, sched.stage, dec.paused)
      BY <1>1 DEF Inv, PlaceInv
    <2>3. Stages \in Nat /\ Stages > 0
      BY <2>2, PlanIs DEF PlaceType
    <2>4. \A s \in Slots : \A j \in 1 .. Len(plan.stages) :
              dec.lengths[s][j] # -1 => dec.lengths[s][j] = Least(plan.stop[s], plan.limit)
      BY <2>1 DEF SlotInv, LengthsWhole, Stages
    <2>5. ASSUME pc = "done"
          PROVE  /\ \A s \in Slots : dec.map[s] = NoMap
                 /\ plan.stages[1] = "answer" => \A s \in Slots : dec.lengths[s][1] # -1
                 /\ Resident(arena) \subseteq {Earlier} /\ Accounted(arena)
      <3>1. \A s \in Slots : sched.stage[s] = Stages + 1
        BY <2>2, <2>5 DEF Steps, Done, Stages
      <3>2. ASSUME NEW s \in Slots PROVE dec.map[s] = NoMap
        <4>1. dec.map[s] # NoMap => sched.stage[s] \in 1 .. Stages
          BY <2>1 DEF SlotInv, Staged
        <4> QED BY <2>3, <3>1, <4>1
      <3>3. ASSUME plan.stages[1] = "answer", NEW s \in Slots PROVE dec.lengths[s][1] # -1
        <4>1. sched.stage[s] > 1
          BY <2>3, <3>1
        <4> QED BY <2>1, <3>3, <4>1 DEF SlotInv, LengthsWhole
      <3>4. Resident(arena) \subseteq {Earlier}
        <4>1. \A s \in Slots : s \notin Lodged(arena)
          BY <2>2, <3>1 DEF Houses
        <4>2. Resident(arena) \subseteq Slots \cup {Earlier}
          BY <2>2 DEF Home
        <4> QED BY <4>1, <4>2 DEF Lodged
      <3>5. Accounted(arena)
        BY <2>2, RowsAlign DEF Home
      <3> QED BY <3>2, <3>3, <3>4, <3>5
    <2> QED BY <2>4, <2>5 DEF AnswersWhole
  <1> QED BY <1>1, AnswerDecodingInv, PTL
=============================================================================
