---------------------------- MODULE RankingProofs ----------------------------
(***************************************************************************)
(* Theorems about the ranking and the trimming of a search (Ranking), for  *)
(* every set of itineraries and any number of them.                        *)
(***************************************************************************)
EXTENDS Ranking, FiniteSetTheorems, TLAPS

\* Once ranked, the rows are the pool in its order, matched against the first.
RankedOK ==
  /\ phase = "ranking" => order = <<>> /\ next = 1
  /\ phase # "ranking" =>
       /\ order \in Orders
       /\ pool # <<>> =>
            match = [k \in Rows |-> MatchOf(Best(Cost(Row(1))), Cost(Row(k)))]

\* seen counts the rows kept.
CountOK == \A m \in Modes : seen[m] = Cardinality(kept \cap RowsOf(m))

\* A row is dropped only behind as many of its mode as the mode may have.
DropOK ==
  \A l \in (1..(next - 1)) \ kept :
    /\ seen[Row(l).mode] = Limit(Row(l).mode)
    /\ \A k \in kept \cap RowsOf(Row(l).mode) : k < l

\* The first row is kept, the limits being positive.
FirstOK == next > 1 => 1 \in kept

DoneOK == phase = "done" => next = Len(order) + 1

Inv == TypeOK /\ RankedOK /\ CountOK /\ DropOK /\ FirstOK /\ DoneOK

-----------------------------------------------------------------------------
LEMMA LimitFacts == \A m : Limit(m) \in {1, 2}
BY DEF Limit

\* The cost of an itinerary is a number, and no less than its fare.
LEMMA CostFacts ==
  ASSUME NEW it \in Itinerary
  PROVE  Cost(it) \in Int /\ it.fare \in Int /\ Cost(it) >= it.fare
BY DEF Itinerary, Cost, Credit

LEMMA PoolFacts ==
  ASSUME NEW p \in Pools
  PROVE  /\ Len(p) \in Nat /\ DOMAIN p = 1..Len(p)
         /\ \A i \in 1..Len(p) : p[i] \in Itinerary
         /\ p = <<>> <=> Len(p) = 0
<1>1. PICK n \in 0..MaxPool : p \in [1..n -> Offers]
  BY DEF Pools
<1>2. n \in Nat
  BY RankingAssumption
<1>3. Len(p) = n /\ DOMAIN p = 1..n
  BY <1>1, <1>2
<1>4. p = <<>> <=> n = 0
  <2>1. n = 0 => p = <<>>
    BY <1>1, <1>2
  <2>2. p = <<>> => Len(p) = 0
    OBVIOUS
  <2>3. QED
    BY <1>3, <2>1, <2>2
<1>5. QED
  BY <1>1, <1>2, <1>3, <1>4, RankingAssumption

\* The rows are a finite interval, and each of them an itinerary.
LEMMA RowFacts ==
  ASSUME TypeOK
  PROVE  /\ Len(order) \in Nat /\ Rows = 1..Len(order)
         /\ \A k \in Rows : Row(k) \in Itinerary /\ Row(k).mode \in Modes
         /\ IsFiniteSet(Rows)
         /\ next \in Nat
<1>1. PICK n \in {0, Len(pool)} : order \in [1..n -> 1..Len(pool)]
  BY DEF TypeOK
<1>2. Len(pool) \in Nat /\ n \in Nat
  BY <1>1, PoolFacts DEF TypeOK
<1>3. Len(order) = n /\ Rows = 1..n
  BY <1>1, <1>2 DEF Rows
<1>4. \A k \in Rows : Row(k) \in Itinerary
  BY <1>1, <1>3, PoolFacts DEF TypeOK, Row
<1>5. IsFiniteSet(1..n)
  BY <1>2, FS_Interval
<1>6. QED
  BY <1>2, <1>3, <1>4, <1>5 DEF Itinerary, TypeOK

\* The kept rows of a mode are finitely many.
LEMMA KeptFacts ==
  ASSUME TypeOK, NEW m \in Modes
  PROVE  /\ IsFiniteSet(RowsOf(m)) /\ Cardinality(RowsOf(m)) \in Nat
         /\ IsFiniteSet(kept \cap RowsOf(m))
         /\ Cardinality(kept \cap RowsOf(m)) \in Nat
         /\ Cardinality(kept \cap RowsOf(m)) <= Cardinality(RowsOf(m))
<1>1. IsFiniteSet(RowsOf(m))
  BY RowFacts, FS_Subset DEF RowsOf
<1>2. kept \cap RowsOf(m) \in SUBSET RowsOf(m)
  OBVIOUS
<1>3. QED
  BY <1>1, <1>2, FS_Subset, FS_CardinalityType

-----------------------------------------------------------------------------
(* Rounding and matching.                                                  *)

LEMMA MatchIsPercent ==
  ASSUME NEW best \in Int, NEW cost \in Int
  PROVE  MatchOf(best, cost) \in 1..100
<1> DEFINE c == AtLeast1(cost)
<1>1. c \in Nat /\ c > 0
  BY DEF AtLeast1
<1>2. 100 * best \in Int
  OBVIOUS
<1>3. RoundDiv(100 * best, c) \in Int
  <2>1. \A a \in Int, b \in Nat : b > 0 => a \div b \in Int
    OBVIOUS
  <2>2. (100 * best) \div c \in Int
    BY <1>1, <1>2, <2>1
  <2>3. QED
    BY <2>2 DEF RoundDiv
<1>4. QED
  BY <1>3 DEF MatchOf, AtLeast1

\* The best matches itself in full, its cost being taken for at least 1.
LEMMA BestMatches ==
  ASSUME NEW cost \in Int
  PROVE  MatchOf(Best(cost), cost) = 100
<1> DEFINE b == AtLeast1(cost)
<1>1. b \in Int /\ b > 0 /\ b = Best(cost)
  BY DEF AtLeast1, Best
<1>2. \A x \in Int : x > 0 => (100 * x) \div x = 100 /\ (100 * x) % x = 0
  OBVIOUS
<1>3. RoundDiv(100 * b, b) = 100
  BY <1>1, <1>2 DEF RoundDiv
<1>4. MatchOf(b, cost) =
        IF RoundDiv(100 * b, b) > 100 THEN 100 ELSE AtLeast1(RoundDiv(100 * b, b))
  BY DEF MatchOf
<1>5. QED
  BY <1>1, <1>3, <1>4 DEF AtLeast1

\* A match less a half is no more than the fraction, and with a half no less.
LEMMA RoundNear ==
  ASSUME NEW a \in Int, NEW b \in Nat \ {0}
  PROVE  /\ RoundDiv(a, b) \in Int
         /\ (2 * RoundDiv(a, b) - 1) * b <= 2 * a
         /\ 2 * a <= (2 * RoundDiv(a, b) + 1) * b
<1> DEFINE q == a \div b
          r == a % b
<1>1. q \in Int /\ r \in 0..(b - 1) /\ a = b * q + r
  OBVIOUS
<1>2. CASE RoundDiv(a, b) = q
  <2>1. 2 * r <= b
    BY <1>1, <1>2 DEF RoundDiv
  <2>2. (2 * q - 1) * b = 2 * (b * q) - b /\ (2 * q + 1) * b = 2 * (b * q) + b
        /\ b * q \in Int
    BY <1>1
  <2> HIDE DEF q, r
  <2> QED
    BY <1>1, <1>2, <2>1, <2>2
<1>3. CASE RoundDiv(a, b) = q + 1
  <2>1. 2 * r >= b
    BY <1>1, <1>3 DEF RoundDiv
  <2>2. (2 * (q + 1) - 1) * b = 2 * (b * q) + b
        /\ (2 * (q + 1) + 1) * b = 2 * (b * q) + 3 * b /\ b * q \in Int
    BY <1>1
  <2> HIDE DEF q, r
  <2> QED
    BY <1>1, <1>3, <2>1, <2>2
<1>4. QED
  BY <1>1, <1>2, <1>3 DEF RoundDiv

\* Of two fractions of one whole, the one with more parts rounds to no more.
LEMMA RoundFalls ==
  ASSUME NEW a \in Nat, NEW b \in Nat \ {0}, NEW c \in Nat \ {0}, b <= c
  PROVE  RoundDiv(a, c) <= RoundDiv(a, b)
<1> DEFINE m == RoundDiv(a, b)
          n == RoundDiv(a, c)
<1>1. /\ m \in Int /\ 2 * a <= (2 * m + 1) * b
      /\ n \in Int /\ (2 * n - 1) * c <= 2 * a
  <2>1. 2 * a <= (2 * m + 1) * b /\ m \in Int
    BY RoundNear
  <2>2. (2 * n - 1) * c <= 2 * a /\ n \in Int
    BY RoundNear
  <2>3. QED
    BY <2>1, <2>2
<1> HIDE DEF m, n
<1>2. 2 * m + 1 > 0
  <2>1. 2 * m + 1 <= 0 => (2 * m + 1) * b <= 0
    BY <1>1
  <2>2. 2 * m + 1 # 0
    BY <1>1
  <2>3. 2 * m + 1 < 0 => (2 * m + 1) * b < 0
    BY <1>1, <2>2
  <2> QED
    BY <1>1, <2>2, <2>3
<1>3. SUFFICES ASSUME n >= m + 1 PROVE FALSE
  BY <1>1 DEF m, n
<1>4. (2 * m + 1) * b <= (2 * m + 1) * c
  BY <1>1, <1>2
<1>5. (2 * m + 1) * c <= (2 * n - 1) * c
  BY <1>1, <1>3
<1>6. (2 * m + 1) * b = (2 * m + 1) * c
  BY <1>1, <1>4, <1>5
<1>7. b = c
  BY <1>1, <1>2, <1>6
<1>8. QED
  BY <1>1, <1>3, <1>7 DEF m, n

\* The dearer of two options matches no better.
LEMMA MatchFalls ==
  ASSUME NEW cost \in Int, NEW x \in Int, NEW y \in Int, x <= y
  PROVE  MatchOf(Best(cost), y) <= MatchOf(Best(cost), x)
<1> DEFINE a == 100 * Best(cost)
          p == AtLeast1(x)
          q == AtLeast1(y)
<1>1. p \in Nat \ {0} /\ q \in Nat \ {0} /\ p <= q /\ a \in Nat
  BY DEF AtLeast1, Best
<1>2. RoundDiv(a, q) <= RoundDiv(a, p)
  <2> HIDE DEF a, p, q
  <2>1. QED
    BY <1>1, RoundFalls
<1>3. RoundDiv(a, q) \in Int /\ RoundDiv(a, p) \in Int
  <2> HIDE DEF a, p, q
  <2>1. RoundDiv(a, q) \in Int
    BY <1>1, RoundNear
  <2>2. RoundDiv(a, p) \in Int
    BY <1>1, RoundNear
  <2>3. QED
    BY <2>1, <2>2
<1>4. \A m, n \in Int : m <= n =>
        (IF m > 100 THEN 100 ELSE AtLeast1(m)) <= (IF n > 100 THEN 100 ELSE AtLeast1(n))
  BY DEF AtLeast1
<1>5. QED
  BY <1>2, <1>3, <1>4 DEF MatchOf

-----------------------------------------------------------------------------
LEMMA InitInv == Init => Inv
<1>1. SUFFICES ASSUME Init PROVE Inv
  OBVIOUS
<1>2. order = <<>> /\ Len(order) = 0 /\ DOMAIN order = {} /\ kept = {}
  BY <1>1 DEF Init
<1>3. TypeOK
  <2>1. Len(pool) \in Nat
    BY <1>1, PoolFacts DEF Init
  <2>2. order \in [1..0 -> 1..Len(pool)]
    BY <1>2
  <2>3. order \in UNION {[1..n -> 1..Len(pool)] : n \in {0, Len(pool)}}
    BY <2>2
  <2>4. match \in [DOMAIN order -> 1..100]
    BY <1>1, <1>2 DEF Init
  <2>5. seen \in [Modes -> 0..2] /\ \A m \in Modes : seen[m] <= Limit(m)
    BY <1>1, LimitFacts DEF Init
  <2>6. QED
    BY <1>1, <1>2, <2>3, <2>4, <2>5 DEF Init, TypeOK
<1>4. CountOK
  BY <1>1, <1>2, FS_EmptySet DEF Init, CountOK
<1>5. RankedOK /\ DropOK /\ FirstOK /\ DoneOK
  BY <1>1 DEF Init, RankedOK, DropOK, FirstOK, DoneOK
<1>6. QED
  BY <1>3, <1>4, <1>5 DEF Inv

\* Ranking fills in the rows; nothing is kept yet.
LEMMA RankKeeps == Inv /\ Rank => Inv'
<1>1. SUFFICES ASSUME Inv, Rank PROVE Inv'
  OBVIOUS
<1> DEFINE n == Len(pool)
           best == Best(Cost(pool[order'[1]]))
<1>2. /\ order' \in [1..n -> 1..n] /\ order' \in Orders
      /\ match' = [k \in DOMAIN order' |-> MatchOf(best, Cost(pool[order'[k]]))]
      /\ phase' = "trimming" /\ UNCHANGED <<pool, next, seen, kept>>
  BY <1>1 DEF Rank, Orders
<1>3. n \in Nat /\ pool \in Pools /\ next = 1 /\ kept = {}
  BY <1>1, PoolFacts DEF Inv, TypeOK, RankedOK, Rank
<1>4. Len(order') = n /\ DOMAIN order' = 1..n
  BY <1>2, <1>3
<1>5. \A k \in 1..n : Cost(pool[order'[k]]) \in Int
  BY <1>2, <1>3, PoolFacts, CostFacts
<1>6. match' \in [DOMAIN order' -> 1..100]
  <2>1. ASSUME NEW k \in 1..n PROVE MatchOf(best, Cost(pool[order'[k]])) \in 1..100
    <3>1. 1 \in 1..n
      BY <1>3
    <3>2. best \in Int
      BY <1>5, <3>1 DEF AtLeast1, Best
    <3>3. QED
      BY <1>5, <3>2, MatchIsPercent
  <2>2. QED
    BY <1>2, <1>4, <2>1
<1>7. TypeOK'
  <2>1. order' \in UNION {[1..i -> 1..n] : i \in {0, n}}
    BY <1>2
  <2>2. next' \in 1..(Len(order') + 1)
    BY <1>2, <1>3, <1>4
  <2>3. QED
    BY <1>1, <1>2, <1>3, <1>6, <2>1, <2>2 DEF Inv, TypeOK
<1>8. RankedOK'
  <2>1. Orders' = Orders
    BY <1>2 DEF Orders, Before
  <2>2. match' = [k \in Rows' |-> MatchOf(Best(Cost(Row(1)')), Cost(Row(k)'))]
    BY <1>2, <1>4 DEF Row, Rows
  <2>3. QED
    BY <1>2, <2>1, <2>2 DEF RankedOK
<1>9. CountOK'
  BY <1>1, <1>2, <1>3, FS_EmptySet DEF Inv, CountOK
<1>10. DropOK' /\ FirstOK' /\ DoneOK'
  BY <1>2, <1>3 DEF DropOK, FirstOK, DoneOK
<1>11. QED
  BY <1>7, <1>8, <1>9, <1>10 DEF Inv

-----------------------------------------------------------------------------
\* A kept row is one more of its mode, and of no other; that its mode was not
\* full says that none of it had been dropped.
LEMMA KeepKeeps == Inv /\ Keep => Inv'
<1>1. SUFFICES ASSUME Inv, Keep PROVE Inv'
  OBVIOUS
<1> DEFINE mode == Row(next).mode
<1>2. /\ next \in Rows /\ next \notin kept /\ mode \in Modes
      /\ next \in 1..Len(order) /\ Len(order) \in Nat
  <2>1. Len(order) \in Nat /\ Rows = 1..Len(order) /\ next \in Nat
        /\ \A k \in Rows : Row(k).mode \in Modes
    BY <1>1, RowFacts DEF Inv
  <2>2. next \in 1..Len(order)
    BY <1>1, <2>1 DEF Inv, TypeOK, Keep, Trimming
  <2>3. next \notin kept
    BY <1>1, <2>1 DEF Inv, TypeOK
  <2>4. QED
    BY <2>1, <2>2, <2>3
<1>3. /\ seen' = [seen EXCEPT ![mode] = @ + 1]
      /\ kept' = kept \cup {next} /\ next' = next + 1
      /\ UNCHANGED <<pool, phase, order, match>>
      /\ seen[mode] < Limit(mode)
  <2>1. seen[mode] \in Nat /\ Limit(mode) \in Nat
    BY <1>1, <1>2, LimitFacts DEF Inv, TypeOK
  <2>2. QED
    BY <1>1, <2>1 DEF Keep, Full
<1>4. \A m \in Modes : RowsOf(m)' = RowsOf(m)
  BY <1>3 DEF RowsOf, Rows, Row
<1>5. seen \in [Modes -> 0..2] /\ \A m \in Modes : seen[m] <= Limit(m)
  BY <1>1 DEF Inv, TypeOK
<1>6. seen' \in [Modes -> 0..2] /\ \A m \in Modes : seen'[m] <= Limit(m)
  BY <1>2, <1>3, <1>5, LimitFacts
<1>7. TypeOK'
  <2>1. kept' \subseteq 1..(next' - 1) /\ next' \in 1..(Len(order') + 1)
    BY <1>1, <1>2, <1>3 DEF Inv, TypeOK
  <2>2. QED
    BY <1>1, <1>3, <1>6, <2>1 DEF Inv, TypeOK
<1>8. CountOK'
  <2>1. SUFFICES ASSUME NEW m \in Modes
                 PROVE  seen'[m] = Cardinality(kept' \cap RowsOf(m))
    BY <1>4 DEF CountOK
  <2>2. seen[m] = Cardinality(kept \cap RowsOf(m)) /\ IsFiniteSet(kept \cap RowsOf(m))
    BY <1>1, KeptFacts DEF Inv, CountOK
  <2>3. CASE m = mode
    <3>1. kept' \cap RowsOf(m) = (kept \cap RowsOf(m)) \cup {next}
      BY <1>2, <1>3, <2>3 DEF RowsOf
    <3>2. Cardinality(kept' \cap RowsOf(m)) = Cardinality(kept \cap RowsOf(m)) + 1
      BY <1>2, <2>2, <3>1, FS_AddElement
    <3>3. QED
      BY <1>2, <1>3, <1>5, <2>2, <2>3, <3>2
  <2>4. CASE m # mode
    <3>1. kept' \cap RowsOf(m) = kept \cap RowsOf(m)
      BY <1>3, <2>4 DEF RowsOf
    <3>2. QED
      BY <1>3, <1>5, <2>2, <2>4, <3>1
  <2>5. QED
    BY <2>3, <2>4
<1>9. DropOK'
  <2>1. SUFFICES ASSUME NEW l \in (1..next) \ kept, l # next
                 PROVE  /\ seen'[Row(l).mode] = Limit(Row(l).mode)
                        /\ \A k \in kept' \cap RowsOf(Row(l).mode) : k < l
    <3>1. (1..(next' - 1)) \ kept' = ((1..next) \ kept) \ {next}
      BY <1>2, <1>3
    <3>2. \A l \in Rows : Row(l)' = Row(l)
      BY <1>3 DEF Row
    <3>3. \A l \in 1..next : l \in Rows
      BY <1>1, <1>2, RowFacts DEF Inv
    <3>4. QED
      BY <1>1, <1>3, <1>4, <3>1, <3>2, <3>3, RowFacts DEF Inv, DropOK
  <2>2. l \in (1..(next - 1)) \ kept
    BY <1>2, <2>1
  <2>3. seen[Row(l).mode] = Limit(Row(l).mode)
        /\ \A k \in kept \cap RowsOf(Row(l).mode) : k < l
    BY <1>1, <2>2 DEF Inv, DropOK
  <2>4. Row(l).mode # mode
    BY <1>3, <2>3, LimitFacts
  <2>5. QED
    BY <1>3, <1>5, <2>3, <2>4 DEF RowsOf
<1>10. FirstOK'
  BY <1>1, <1>2, <1>3 DEF Inv, FirstOK
<1>11. RankedOK' /\ DoneOK'
  <2>1. Orders' = Orders
    BY <1>3 DEF Orders, Before
  <2>2. phase = "trimming"
    BY <1>1 DEF Keep, Trimming
  <2>3. QED
    BY <1>1, <1>3, <2>1, <2>2 DEF Inv, RankedOK, DoneOK, Row, Rows
<1>12. QED
  BY <1>7, <1>8, <1>9, <1>10, <1>11 DEF Inv

\* A row is dropped behind the kept ones of its mode, which is full.
LEMMA DropKeeps == Inv /\ Drop => Inv'
<1>1. SUFFICES ASSUME Inv, Drop PROVE Inv'
  OBVIOUS
<1> DEFINE mode == Row(next).mode
<1>2. /\ next \in Rows /\ mode \in Modes
      /\ next \in 1..Len(order) /\ Len(order) \in Nat
  <2>1. Len(order) \in Nat /\ Rows = 1..Len(order) /\ next \in Nat
        /\ \A k \in Rows : Row(k).mode \in Modes
    BY <1>1, RowFacts DEF Inv
  <2>2. next \in 1..Len(order)
    BY <1>1, <2>1 DEF Inv, TypeOK, Drop, Trimming
  <2>3. next \notin kept
    BY <1>1, <2>1 DEF Inv, TypeOK
  <2>4. QED
    BY <2>1, <2>2, <2>3
<1>3. /\ next' = next + 1
      /\ UNCHANGED <<pool, phase, order, match, seen, kept>>
      /\ seen[mode] >= Limit(mode)
  BY <1>1 DEF Drop, Full
<1>4. seen[mode] = Limit(mode)
  BY <1>1, <1>2, <1>3, LimitFacts DEF Inv, TypeOK
<1>5. \A k \in kept : k < next
  BY <1>1, <1>2 DEF Inv, TypeOK
<1>6. TypeOK'
  BY <1>1, <1>2, <1>3 DEF Inv, TypeOK
<1>7. \A m \in Modes : RowsOf(m)' = RowsOf(m)
  BY <1>3 DEF RowsOf, Rows, Row
<1>8. CountOK'
  BY <1>1, <1>3, <1>7 DEF Inv, CountOK
<1>9. DropOK'
  <2>1. SUFFICES ASSUME NEW l \in (1..next) \ kept
                 PROVE  /\ seen[Row(l).mode] = Limit(Row(l).mode)
                        /\ \A k \in kept \cap RowsOf(Row(l).mode) : k < l
    <3>1. (1..(next' - 1)) \ kept' = (1..next) \ kept
      BY <1>2, <1>3
    <3>2. \A l \in Rows : Row(l)' = Row(l) /\ Row(l).mode \in Modes
      BY <1>1, <1>3, RowFacts DEF Inv, Row
    <3>3. \A l \in 1..next : l \in Rows
      BY <1>1, <1>2, RowFacts DEF Inv
    <3>4. QED
      BY <1>3, <1>7, <3>1, <3>2, <3>3 DEF DropOK
  <2>2. CASE l = next
    BY <1>4, <1>5, <2>2
  <2>3. CASE l # next
    <3>1. l \in (1..(next - 1)) \ kept
      BY <1>2, <2>3
    <3>2. QED
      BY <1>1, <3>1 DEF Inv, DropOK
  <2>4. QED
    BY <2>2, <2>3
<1>10. FirstOK'
  <2>1. CASE next = 1
    <3>1. kept \cap RowsOf(mode) = {}
      BY <1>5, <2>1, RowFacts, <1>1 DEF Inv, RowsOf
    <3>2. seen[mode] = 0
      BY <1>1, <1>2, <3>1, FS_EmptySet DEF Inv, CountOK
    <3>3. Limit(mode) \in {1, 2}
      BY LimitFacts
    <3>4. QED
      BY <1>4, <3>2, <3>3
  <2>2. CASE next # 1
    BY <1>1, <1>2, <1>3, <2>2 DEF Inv, FirstOK
  <2>3. QED
    BY <2>1, <2>2
<1>11. RankedOK' /\ DoneOK'
  <2>1. Orders' = Orders
    BY <1>3 DEF Orders, Before
  <2>2. phase = "trimming"
    BY <1>1 DEF Drop, Trimming
  <2>3. QED
    BY <1>1, <1>3, <2>1, <2>2 DEF Inv, RankedOK, DoneOK, Row, Rows
<1>12. QED
  BY <1>6, <1>8, <1>9, <1>10, <1>11 DEF Inv

LEMMA NextInv == Inv /\ [Next]_vars => Inv'
<1>1. SUFFICES ASSUME Inv, [Next]_vars PROVE Inv'
  OBVIOUS
<1>2. CASE Rank
  BY <1>1, <1>2, RankKeeps
<1>3. CASE Keep
  BY <1>1, <1>3, KeepKeeps
<1>4. CASE Drop
  BY <1>1, <1>4, DropKeeps
<1>5. CASE Finish
  <2>1. /\ UNCHANGED <<pool, order, match, next, seen, kept>>
        /\ phase = "trimming" /\ phase' = "done" /\ next = Len(order) + 1
    BY <1>5 DEF Finish
  <2>2. Orders' = Orders
    BY <2>1 DEF Orders, Before
  <2>3. TypeOK' /\ RankedOK' /\ FirstOK' /\ DoneOK'
    BY <1>1, <2>1, <2>2
    DEF Inv, TypeOK, RankedOK, FirstOK, DoneOK, Row, Rows
  <2>4. CountOK' /\ DropOK'
    BY <1>1, <2>1 DEF Inv, CountOK, DropOK, RowsOf, Rows, Row
  <2>5. QED
    BY <2>3, <2>4 DEF Inv
<1>6. CASE UNCHANGED vars
  <2>1. UNCHANGED <<pool, phase, order, match, next, seen, kept>>
    BY <1>6 DEF vars
  <2>2. Orders' = Orders
    BY <2>1 DEF Orders, Before
  <2>3. TypeOK' /\ RankedOK' /\ FirstOK' /\ DoneOK'
    BY <1>1, <2>1, <2>2
    DEF Inv, TypeOK, RankedOK, FirstOK, DoneOK, Row, Rows
  <2>4. CountOK' /\ DropOK'
    BY <1>1, <2>1 DEF Inv, CountOK, DropOK, RowsOf, Rows, Row
  <2>5. QED
    BY <2>3, <2>4 DEF Inv
<1>7. QED
  BY <1>1, <1>2, <1>3, <1>4, <1>5, <1>6 DEF Next, Shown

-----------------------------------------------------------------------------
\* Ranking and trimming keep their inductive invariant.
THEOREM InvHolds == Spec => []Inv
BY InitInv, NextInv, PTL DEF Spec

\* The variables of the ranking keep their types: every match is a percentage
\* and no mode passes its limit.
THEOREM TypeCorrect == Spec => []TypeOK
<1>1. Inv => TypeOK
  BY DEF Inv
<1>2. QED
  BY <1>1, InvHolds, PTL

\* Trimming keeps the best rows of every mode, as many as the mode may have.
THEOREM TrimmingKeepsTheBest == Spec => []TrimKeepsTheBest
<1>1. Inv => TrimKeepsTheBest
  <2>1. SUFFICES ASSUME Inv, phase = "done", NEW m \in Modes
                 PROVE  /\ Cardinality(kept \cap RowsOf(m)) =
                             IF Cardinality(RowsOf(m)) < Limit(m)
                               THEN Cardinality(RowsOf(m)) ELSE Limit(m)
                        /\ \A k \in kept \cap RowsOf(m), l \in RowsOf(m) \ kept :
                             k < l
    BY DEF TrimKeepsTheBest
  <2>2. next = Len(order) + 1 /\ Rows = 1..(next - 1)
    BY <2>1, RowFacts DEF Inv, DoneOK
  <2>3. \A l \in RowsOf(m) \ kept :
          seen[m] = Limit(m) /\ \A k \in kept \cap RowsOf(m) : k < l
    BY <2>1, <2>2 DEF Inv, DropOK, RowsOf
  <2>4. /\ seen[m] = Cardinality(kept \cap RowsOf(m)) /\ seen[m] <= Limit(m)
        /\ Cardinality(kept \cap RowsOf(m)) <= Cardinality(RowsOf(m))
        /\ Cardinality(RowsOf(m)) \in Nat /\ seen[m] \in Nat /\ Limit(m) \in Nat
    <3>1. seen[m] = Cardinality(kept \cap RowsOf(m))
      BY <2>1 DEF Inv, CountOK
    <3>2. seen[m] \in Nat /\ seen[m] <= Limit(m)
      BY <2>1 DEF Inv, TypeOK
    <3>3. /\ Cardinality(kept \cap RowsOf(m)) <= Cardinality(RowsOf(m))
          /\ Cardinality(RowsOf(m)) \in Nat
      BY <2>1, KeptFacts DEF Inv
    <3>4. Limit(m) \in Nat
      BY LimitFacts
    <3>5. QED
      BY <3>1, <3>2, <3>3, <3>4
  <2>5. CASE RowsOf(m) \ kept = {}
    <3>1. kept \cap RowsOf(m) = RowsOf(m)
      BY <2>5
    <3>2. QED
      BY <2>3, <2>4, <3>1
  <2>6. CASE RowsOf(m) \ kept # {}
    BY <2>3, <2>4, <2>6
  <2>7. QED
    BY <2>5, <2>6
<1>2. QED
  BY <1>1, InvHolds, PTL

\* The list begins with the best itinerary found, as the full match.
THEOREM BestComesFirst == Spec => []HeadIsBest
<1>1. Inv => HeadIsBest
  <2>1. SUFFICES ASSUME Inv, phase = "done", pool # <<>>
                 PROVE  /\ 1 \in kept /\ match[1] = 100
                        /\ \A i \in DOMAIN pool : Cost(Row(1)) <= Cost(pool[i])
    BY DEF HeadIsBest
  <2> DEFINE n == Len(pool)
  <2>2. n \in Nat /\ n > 0 /\ DOMAIN pool = 1..n /\ \A i \in 1..n : Cost(pool[i]) \in Int
    BY <2>1, PoolFacts, CostFacts DEF Inv, TypeOK
  <2>3. /\ order \in [1..n -> 1..n]
        /\ \A i \in 1..n : \E k \in 1..n : order[k] = i
        /\ \A k, l \in 1..n : k < l => Before(order[k], order[l])
    BY <2>1 DEF Inv, RankedOK, Orders
  <2>4. Len(order) = n /\ 1 \in 1..n
    BY <2>2, <2>3
  <2>5. 1 \in kept
    BY <2>1, <2>2, <2>4 DEF Inv, DoneOK, FirstOK
  <2>6. Cost(Row(1)) \in Int
    BY <2>2, <2>3, <2>4 DEF Row
  <2>7. match[1] = 100
    BY <2>1, <2>4, <2>6, BestMatches DEF Inv, RankedOK, Rows
  <2>8. ASSUME NEW i \in 1..n PROVE Cost(Row(1)) <= Cost(pool[i])
    <3>1. PICK k \in 1..n : order[k] = i
      BY <2>3
    <3>2. CASE k = 1
      BY <2>2, <3>1, <3>2 DEF Row
    <3>3. CASE k # 1
      <4>1. Before(order[1], i)
        BY <2>3, <2>4, <3>1, <3>3
      <4>2. order[1] \in 1..n
        BY <2>3, <2>4
      <4>3. Cost(pool[order[1]]) \in Int /\ Cost(pool[i]) \in Int
        BY <2>2, <4>2
      <4>4. QED
        BY <4>1, <4>3 DEF Before, Row
    <3>4. QED
      BY <3>2, <3>3
  <2>9. QED
    BY <2>2, <2>5, <2>7, <2>8
<1>2. QED
  BY <1>1, InvHolds, PTL

\* Down the list the cost never falls and the match never rises.
THEOREM MatchAlwaysFollowsCost == Spec => []MatchFollowsCost
<1>1. Inv => MatchFollowsCost
  <2>1. SUFFICES ASSUME Inv, NEW k \in Rows, NEW l \in Rows, k < l
                 PROVE  Cost(Row(k)) <= Cost(Row(l)) /\ match[k] >= match[l]
    BY DEF MatchFollowsCost
  <2>2. Rows = 1..Len(order) /\ \A i \in Rows : Cost(Row(i)) \in Int
    BY <2>1, RowFacts, CostFacts DEF Inv
  <2>3. phase # "ranking" /\ 1 \in Rows /\ pool # <<>>
    <3>1. order # <<>> /\ phase # "ranking"
      BY <2>1, <2>2 DEF Inv, RankedOK
    <3>2. 1 \in Rows
      BY <2>1, <2>2
    <3>3. pool # <<>>
      BY <2>1, <2>2, <3>1 DEF Inv, RankedOK, Orders
    <3>4. QED
      BY <3>1, <3>2, <3>3
  <2>4. Before(order[k], order[l])
    BY <2>1, <2>2, <2>3 DEF Inv, RankedOK, Orders
  <2>5. Cost(Row(k)) <= Cost(Row(l))
    BY <2>2, <2>4 DEF Before, Row
  <2>6. match = [i \in Rows |-> MatchOf(Best(Cost(Row(1))), Cost(Row(i)))]
    BY <2>1, <2>3 DEF Inv, RankedOK
  <2>7. match[k] \in 1..100 /\ match[l] \in 1..100
    <3>1. match \in [Rows -> 1..100]
      BY <2>1 DEF Inv, TypeOK, Rows
    <3>2. QED
      BY <2>1, <3>1
  <2>8. QED
    BY <2>2, <2>3, <2>5, <2>6, <2>7, MatchFalls
<1>2. QED
  BY <1>1, InvHolds, PTL

\* No option of any list scores below its own fare.
THEOREM FareIsTheFloor == Spec => []NeverBelowFare
<1>1. Inv => NeverBelowFare
  BY RowFacts, CostFacts DEF Inv, NeverBelowFare
<1>2. QED
  BY <1>1, InvHolds, PTL
=============================================================================
