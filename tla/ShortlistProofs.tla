---------------------------- MODULE ShortlistProofs ----------------------------
(***************************************************************************)
(* For every tariff, curve, distance and card, fare bands are ranges that  *)
(* fall with the days ahead (Fares).  For every table of places and every  *)
(* set of requests, the shortlist is the best that fits, and looser limits *)
(* or an earlier booking never make it worse (Shortlist).                  *)
(***************************************************************************)
EXTENDS Shortlist, SequenceTheorems, FiniteSetTheorems, WellFoundedInduction, TLAPS

-----------------------------------------------------------------------------
(* Rounding and the parts of a fare.                                       *)

\* A fraction no larger than a whole number does not round to more than it.
LEMMA RoundBelow ==
  ASSUME NEW a \in Nat, NEW n \in Nat, NEW b \in Nat \ {0}, a <= n * b
  PROVE  RoundDiv(a, b) \in Nat /\ RoundDiv(a, b) <= n
<1> DEFINE q == a \div b
          r == a % b
<1>1. q \in Int /\ r \in Int /\ 0 <= r /\ r < b /\ a = b * q + r
  OBVIOUS
<1>2. q >= 0
  OBVIOUS
<1>3. q <= n
  OBVIOUS
<1>4. q = n => r = 0
  BY <1>1
<1> QED
  BY <1>1, <1>2, <1>3, <1>4 DEF RoundDiv

\* A rounded fraction is within a half of it.
LEMMA RoundNear ==
  ASSUME NEW a \in Int, NEW b \in Nat \ {0}
  PROVE  /\ RoundDiv(a, b) \in Int
         /\ (2 * RoundDiv(a, b) - 1) * b <= 2 * a
         /\ 2 * a <= (2 * RoundDiv(a, b) + 1) * b
<1> DEFINE q == a \div b
          r == a % b
<1>1. q \in Int /\ r \in 0..(b - 1) /\ a = b * q + r /\ b * q \in Int
  OBVIOUS
<1>2. /\ (2 * q - 1) * b = 2 * (b * q) - b
      /\ (2 * q + 1) * b = 2 * (b * q) + b
      /\ (2 * (q + 1) - 1) * b = 2 * (b * q) + b
      /\ (2 * (q + 1) + 1) * b = 2 * (b * q) + 3 * b
  BY <1>1
<1>3. \/ RoundDiv(a, b) = q /\ 2 * r <= b
      \/ RoundDiv(a, b) = q + 1 /\ 2 * r >= b
  BY <1>1 DEF RoundDiv
<1> HIDE DEF q, r
<1>4. CASE RoundDiv(a, b) = q /\ 2 * r <= b
  BY <1>1, <1>2, <1>4
<1>5. CASE RoundDiv(a, b) = q + 1 /\ 2 * r >= b
  BY <1>1, <1>2, <1>5
<1> QED
  BY <1>3, <1>4, <1>5

\* A fraction that is just between two whole numbers rounds to the even one,
\* whatever its denominator.
LEMMA RoundHalf ==
  ASSUME NEW a \in Int, NEW b \in Nat \ {0}, NEW n \in Int, 2 * a = (2 * n + 1) * b
  PROVE  RoundDiv(a, b) = IF n % 2 = 0 THEN n ELSE n + 1
<1> DEFINE q == a \div b
          r == a % b
<1>1. q \in Int /\ r \in 0..(b - 1) /\ a = b * q + r /\ b * q \in Int /\ b * n \in Int
  OBVIOUS
<1>2. (2 * n + 1) * b = 2 * (b * n) + b
  OBVIOUS
<1>3. q = n
  <2>1. q >= n + 1 => b * q >= b * n + b
    BY <1>1
  <2>2. q <= n - 1 => b * q <= b * n - b
    BY <1>1
  <2> HIDE DEF q, r
  <2> QED
    BY <1>1, <1>2, <2>1, <2>2
<1>4. 2 * r = b
  <2> HIDE DEF q, r
  <2> QED
    BY <1>1, <1>2, <1>3
<1> QED
  BY <1>3, <1>4 DEF RoundDiv

\* Of two fractions, the smaller one rounds to no more.
LEMMA RoundRises ==
  ASSUME NEW a \in Int, NEW b \in Nat \ {0}, NEW c \in Int, NEW d \in Nat \ {0},
         a * d <= c * b
  PROVE  RoundDiv(a, b) <= RoundDiv(c, d)
<1> DEFINE m == RoundDiv(a, b)
          n == RoundDiv(c, d)
<1>1. m \in Int /\ (2 * m - 1) * b <= 2 * a
  BY RoundNear
<1>2. n \in Int /\ 2 * c <= (2 * n + 1) * d
  BY RoundNear
<1>3. SUFFICES ASSUME m >= n + 1 PROVE FALSE
  <2> HIDE DEF m, n
  <2> QED
    BY <1>1, <1>2 DEF m, n
<1> DEFINE lo == (2 * m - 1) * (b * d)
          hi == (2 * n + 1) * (b * d)
<1>4. lo \in Int /\ hi \in Int /\ b * d \in Nat \ {0} /\ a * d \in Int /\ c * b \in Int
  BY <1>1, <1>2
<1>5. lo <= 2 * (a * d)
  <2>1. ((2 * m - 1) * b) * d <= (2 * a) * d
    BY <1>1
  <2>2. ((2 * m - 1) * b) * d = lo /\ (2 * a) * d = 2 * (a * d)
    BY <1>1
  <2> QED
    BY <2>1, <2>2
<1>6. 2 * (c * b) <= hi
  <2>1. (2 * c) * b <= ((2 * n + 1) * d) * b
    BY <1>2
  <2>2. ((2 * n + 1) * d) * b = hi /\ (2 * c) * b = 2 * (c * b)
    BY <1>2
  <2> QED
    BY <2>1, <2>2
<1>7. hi <= lo
  BY <1>1, <1>2, <1>3, <1>4
<1>8. lo = 2 * (a * d) /\ hi = 2 * (c * b) /\ lo = hi
  <2> HIDE DEF lo, hi, m, n
  <2> QED
    BY <1>4, <1>5, <1>6, <1>7
<1>9. m = n + 1
  <2>1. m >= n + 2 => lo >= hi + 2 * (b * d)
    BY <1>1, <1>2, <1>4
  <2> HIDE DEF lo, hi, m, n
  <2> QED
    BY <1>1, <1>2, <1>3, <1>4, <1>8, <2>1
<1>10. 2 * a = (2 * n + 1) * b /\ 2 * c = (2 * n + 1) * d
  <2>1. (2 * a) * d = ((2 * n + 1) * b) * d
    BY <1>2, <1>8
  <2>2. (2 * c) * b = ((2 * n + 1) * d) * b
    BY <1>2, <1>8
  <2>3. \A x, y \in Int, z \in Nat \ {0} : x * z = y * z => x = y
    OBVIOUS
  <2>4. (2 * n + 1) * b \in Int /\ (2 * n + 1) * d \in Int /\ 2 * a \in Int /\ 2 * c \in Int
    BY <1>2
  <2> HIDE DEF n
  <2> QED
    BY <2>1, <2>2, <2>3, <2>4
<1>11. m = n
  BY <1>2, <1>10, RoundHalf
<1> QED
  BY <1>1, <1>2, <1>9, <1>11

\* The middle lies between, and halves and quarters keep the order.
LEMMA MiddleBetween ==
  ASSUME NEW a \in Int, NEW c \in Int, a <= c
  PROVE  a <= RoundDiv(a + c, 2) /\ RoundDiv(a + c, 2) <= c
BY DEF RoundDiv

LEMMA PartsKeepOrder ==
  ASSUME NEW a \in Int, NEW c \in Int, a <= c
  PROVE  /\ RoundDiv(1 * a, 2) <= RoundDiv(1 * c, 2)
         /\ RoundDiv(3 * a, 4) <= RoundDiv(3 * c, 4)
BY DEF RoundDiv

\* So many hundredths of a whole are no more than the whole.
LEMMA PartBelow ==
  ASSUME NEW p \in 0..100, NEW m \in Nat
  PROVE  p * m \in Nat /\ p * m <= 100 * m
OBVIOUS

LEMMA Mixed ==
  ASSUME NEW a \in Int, NEW b \in Int, NEW s \in Int, NEW t \in Int
  PROVE  a * s + (b - a) * t = a * (s - t) + b * t
OBVIOUS

\* The first point of the curve that is no further ahead than so many days.
Reached(i, days) ==
  /\ days >= Curve[i].days
  /\ \A l \in 1..(i - 1) : days < Curve[l].days

LEMMA CurvePoints ==
  /\ Len(Curve) \in DOMAIN Curve /\ DOMAIN Curve = 1..Len(Curve)
  /\ \A k \in DOMAIN Curve : Curve[k].days \in Nat /\ Curve[k].pos \in 0..100
<1> DEFINE Point == [days : Nat, pos : 0..100]
<1>1. Curve \in Seq(Point) /\ Curve # <<>>
  BY FaresAssumption
<1>2. /\ Len(Curve) \in Nat /\ Len(Curve) >= 1 /\ DOMAIN Curve = 1..Len(Curve)
      /\ \A k \in DOMAIN Curve : Curve[k] \in Point
  <2> HIDE DEF Point
  <2> QED
    BY <1>1, EmptySeq
<1> QED
  BY <1>2

LEMMA CurveFalls ==
  \A i, j \in DOMAIN Curve : i < j => Curve[i].days > Curve[j].days /\ Curve[i].pos <= Curve[j].pos
BY ONLY FaresAssumption DEF FaresAssumption

\* There is such a point, and the position is that of the point, or between it
\* and the one before.
LEMMA PositionIs ==
  ASSUME NEW days \in Nat
  PROVE  \E i \in DOMAIN Curve :
           /\ Reached(i, days)
           /\ IF i = 1 \/ days = Curve[i].days
                THEN Position(days) = [num |-> Curve[i].pos, den |-> 1]
                ELSE /\ i - 1 \in DOMAIN Curve /\ days < Curve[i - 1].days
                     /\ Position(days) = Between(Curve[i - 1], Curve[i], days)
<1> DEFINE Points == {k \in DOMAIN Curve : days >= Curve[k].days}
<1>1. PICK k \in Points : \A l \in Points : ~(l < k)
  <2>1. Points # {} /\ Points \subseteq Nat
    BY CurvePoints, FaresAssumption
  <2>2. PICK k \in Points : \A l \in Points : <<l, k>> \notin OpToRel(<, Nat)
    BY <2>1, NatLessThanWellFounded, WFMin
  <2> QED
    BY <2>1, <2>2 DEF OpToRel
<1>2. Reached(k, days)
  BY CurvePoints, <1>1 DEF Reached
<1>3. PICK i \in DOMAIN Curve :
        Reached(i, days) /\ i = CHOOSE j \in DOMAIN Curve : Reached(j, days)
  BY <1>1, <1>2
<1>4. Position(days) = IF i = 1 \/ days = Curve[i].days
                         THEN [num |-> Curve[i].pos, den |-> 1]
                         ELSE Between(Curve[i - 1], Curve[i], days)
  BY <1>3 DEF Position, Reached
<1>5. i # 1 => i - 1 \in DOMAIN Curve /\ i - 1 \in 1..(i - 1)
  BY CurvePoints
<1> QED
  BY <1>3, <1>4, <1>5 DEF Reached

\* Between two points the position is a mean of theirs, no lower than the
\* earlier one's and no higher than the later one's.
LEMMA BetweenFacts ==
  ASSUME NEW i \in DOMAIN Curve, i - 1 \in DOMAIN Curve, NEW days \in Nat,
         Curve[i].days <= days, days < Curve[i - 1].days
  PROVE  LET at   == Between(Curve[i - 1], Curve[i], days)
             span == Curve[i - 1].days - Curve[i].days IN
         /\ at.den = span /\ span \in Nat \ {0} /\ at.num \in Nat
         /\ Curve[i - 1].pos * span <= at.num /\ at.num <= Curve[i].pos * span
<1> DEFINE e == Curve[i - 1].pos
          l == Curve[i].pos
          span == Curve[i - 1].days - Curve[i].days
          done == days - Curve[i].days
          num  == l * span + (e - l) * done
<1>1. /\ e \in 0..100 /\ l \in 0..100 /\ e <= l
      /\ span \in Nat \ {0} /\ done \in Nat /\ span - done \in Nat
  <2>1. i - 1 < i /\ e \in 0..100 /\ l \in 0..100
    BY CurvePoints
  <2>2. e <= l
    BY <2>1, CurveFalls
  <2>3. Curve[i - 1].days \in Nat /\ Curve[i].days \in Nat
    BY CurvePoints
  <2> QED
    BY <2>1, <2>2, <2>3
<1>2. Between(Curve[i - 1], Curve[i], days) = [num |-> num, den |-> span]
  BY DEF Between
<1> HIDE DEF e, l, span, done
<1>3. num = l * (span - done) + e * done /\ num = l * span - (l - e) * done
  <2>1. e \in Int /\ l \in Int /\ span \in Int /\ done \in Int
    BY <1>1
  <2>2. (e - l) * done = - ((l - e) * done)
    BY <2>1
  <2>3. (l - e) * done \in Int /\ (e - l) * done \in Int /\ l * span \in Int
    BY <2>1
  <2>4. num = l * span - (l - e) * done
    BY <2>2, <2>3
  <2> QED
    BY <2>1, <2>4, Mixed
<1>4. (l - e) * done \in Nat /\ (l - e) * done <= (l - e) * span
  BY <1>1
<1>5. (l - e) * span = l * span - e * span /\ l * span \in Nat /\ e * span \in Nat
  BY <1>1
<1>6. num \in Int /\ num <= l * span /\ e * span <= num
  <2> HIDE DEF num
  <2> QED
    BY <1>3, <1>4, <1>5
<1> QED
  <2> HIDE DEF num
  <2> QED
    BY <1>1, <1>2, <1>5, <1>6 DEF e, l, span

\* A position on the curve is a fraction between nothing and the whole.
LEMMA PositionFacts ==
  ASSUME NEW days \in Nat
  PROVE  /\ Position(days).num \in Nat /\ Position(days).den \in Nat \ {0}
         /\ Position(days).num <= 100 * Position(days).den
<1>1. PICK i \in DOMAIN Curve :
        /\ Reached(i, days)
        /\ IF i = 1 \/ days = Curve[i].days
             THEN Position(days) = [num |-> Curve[i].pos, den |-> 1]
             ELSE /\ i - 1 \in DOMAIN Curve /\ days < Curve[i - 1].days
                  /\ Position(days) = Between(Curve[i - 1], Curve[i], days)
  BY PositionIs
<1>2. CASE i = 1 \/ days = Curve[i].days
  <2>1. Position(days) = [num |-> Curve[i].pos, den |-> 1] /\ Curve[i].pos \in 0..100
    BY <1>1, <1>2, CurvePoints
  <2> QED
    BY <2>1
<1>3. CASE ~(i = 1 \/ days = Curve[i].days)
  <2> DEFINE at == Between(Curve[i - 1], Curve[i], days)
  <2>1. /\ at.den \in Nat \ {0} /\ at.num \in Nat /\ at.num <= Curve[i].pos * at.den
    BY <1>1, <1>3, BetweenFacts DEF Reached
  <2>2. Curve[i].pos * at.den <= 100 * at.den /\ Curve[i].pos * at.den \in Nat
    BY <2>1, CurvePoints, PartBelow
  <2>3. Position(days) = at
    BY <1>1, <1>3
  <2> HIDE DEF at
  <2> QED
    BY <2>1, <2>2, <2>3
<1> QED
  BY <1>2, <1>3

\* The position lies between those of the point before and the point reached.
LEMMA PositionNear ==
  ASSUME NEW days \in Nat, NEW i \in DOMAIN Curve, Reached(i, days)
  PROVE  LET at == Position(days) IN
         /\ at.num <= Curve[i].pos * at.den
         /\ i # 1 => Curve[i - 1].pos * at.den <= at.num
         /\ i = 1 => at = [num |-> Curve[1].pos, den |-> 1]
         /\ i # 1 => \/ at = [num |-> Curve[i].pos, den |-> 1] /\ days = Curve[i].days
                     \/ /\ at = Between(Curve[i - 1], Curve[i], days)
                        /\ days < Curve[i - 1].days /\ i - 1 \in DOMAIN Curve
<1>1. PICK j \in DOMAIN Curve :
        /\ Reached(j, days)
        /\ IF j = 1 \/ days = Curve[j].days
             THEN Position(days) = [num |-> Curve[j].pos, den |-> 1]
             ELSE /\ j - 1 \in DOMAIN Curve /\ days < Curve[j - 1].days
                  /\ Position(days) = Between(Curve[j - 1], Curve[j], days)
  BY PositionIs
<1>2. i = j
  BY <1>1, CurvePoints DEF Reached
<1>3. i # 1 => i - 1 \in DOMAIN Curve /\ Curve[i - 1].pos <= Curve[i].pos
  BY CurvePoints, CurveFalls
<1>4. CASE i = 1 \/ days = Curve[i].days
  <2>1. Position(days) = [num |-> Curve[i].pos, den |-> 1]
    BY <1>1, <1>2, <1>4
  <2>2. Curve[i].pos \in 0..100 /\ (i # 1 => Curve[i - 1].pos \in 0..100)
    BY <1>3, CurvePoints
  <2> QED
    BY <1>3, <1>4, <2>1, <2>2
<1>5. CASE ~(i = 1 \/ days = Curve[i].days)
  BY <1>1, <1>2, <1>5, BetweenFacts DEF Reached
<1> QED
  BY <1>4, <1>5

\* More days ahead are never further along the curve.
LEMMA PositionFalls ==
  ASSUME NEW d1 \in Nat, NEW d2 \in Nat, d1 <= d2
  PROVE  Position(d2).num * Position(d1).den <= Position(d1).num * Position(d2).den
<1> DEFINE p == Position(d1)
          q == Position(d2)
<1>1. /\ p.num \in Nat /\ p.den \in Nat \ {0}
      /\ q.num \in Nat /\ q.den \in Nat \ {0}
  BY PositionFacts
<1>2. PICK i \in DOMAIN Curve : Reached(i, d1)
  BY PositionIs
<1>3. PICK j \in DOMAIN Curve : Reached(j, d2)
  BY PositionIs
<1>4. j <= i
  <2>1. Curve[i].days \in Nat /\ Curve[j].days \in Nat /\ i \in Nat /\ j \in Nat
        /\ (i < j => i \in 1..(j - 1))
    BY CurvePoints
  <2> QED
    BY <1>2, <1>3, <2>1 DEF Reached
<1>5. CASE j < i
  <2> DEFINE m == Curve[i - 1].pos
             n == Curve[j].pos
  <2>1. i # 1 /\ i - 1 \in DOMAIN Curve /\ (j = i - 1 \/ j < i - 1)
    BY <1>5, CurvePoints
  <2>2. n <= m /\ n \in Nat /\ m \in Nat
    <3>1. n \in 0..100 /\ m \in 0..100
      BY <2>1, CurvePoints
    <3>2. j < i - 1 => n <= m
      BY <2>1, CurveFalls
    <3>3. j = i - 1 => n = m
      OBVIOUS
    <3> HIDE DEF m, n
    <3> QED
      BY <2>1, <3>1, <3>2, <3>3
  <2>3. q.num <= n * q.den /\ m * p.den <= p.num
    BY <1>2, <1>3, <2>1, PositionNear
  <2> HIDE DEF p, q, m, n
  <2>4. q.num * p.den <= (n * q.den) * p.den
    BY <1>1, <2>2, <2>3
  <2>5. (n * q.den) * p.den <= (m * p.den) * q.den
    BY <1>1, <2>2
  <2>6. (m * p.den) * q.den <= p.num * q.den
    BY <1>1, <2>2, <2>3
  <2>7. q.num * p.den \in Nat /\ p.num * q.den \in Nat
        /\ (n * q.den) * p.den \in Nat /\ (m * p.den) * q.den \in Nat
    BY <1>1, <2>2
  <2> QED
    BY <2>4, <2>5, <2>6, <2>7 DEF p, q
<1>6. CASE j = i /\ i = 1
  BY <1>1, <1>2, <1>3, <1>6, PositionNear
<1>7. CASE j = i /\ i # 1
  <2>1. CASE p = [num |-> Curve[i].pos, den |-> 1]
    <3>1. q.num <= Curve[i].pos * q.den /\ p.num = Curve[i].pos /\ p.den = 1
      BY <1>3, <1>7, <2>1, PositionNear
    <3> HIDE DEF p, q
    <3> QED
      BY <1>1, <3>1 DEF p, q
  <2>2. CASE p # [num |-> Curve[i].pos, den |-> 1]
    <3> DEFINE e == Curve[i - 1].pos
               l == Curve[i].pos
               f == Curve[i].days
               span == Curve[i - 1].days - f
    <3>1. p = Between(Curve[i - 1], Curve[i], d1) /\ i - 1 \in DOMAIN Curve
          /\ d1 < Curve[i - 1].days
      BY <1>2, <1>7, <2>2, PositionNear
    <3>2. f \in Nat /\ f <= d1 /\ f <= d2 /\ span \in Nat \ {0} /\ l \in Nat /\ e \in Nat
      <4>1. Curve[i - 1].days \in Nat /\ f \in Nat /\ l \in Nat /\ e \in Nat
        <5>1. \A k \in DOMAIN Curve : Curve[k].days \in Nat /\ Curve[k].pos \in 0..100
          BY CurvePoints
        <5>2. l \in 0..100 /\ e \in 0..100 /\ f \in Nat /\ Curve[i - 1].days \in Nat
          BY <3>1, <5>1
        <5> HIDE DEF l, e, f
        <5> QED
          BY <5>2
      <4>2. f <= d1 /\ f <= d2
        BY <1>2, <1>3, <1>7 DEF Reached
      <4> QED
        BY <3>1, <4>1, <4>2
    <3>3. e <= l
      <4>1. i - 1 < i
        BY CurvePoints
      <4> QED
        BY <3>1, <4>1, CurveFalls
    <3>4. p.num = l * span + (e - l) * (d1 - f) /\ p.den = span
      BY <3>1 DEF Between
    <3>5. CASE q = [num |-> l, den |-> 1] /\ d2 = f
      <4>1. d1 = f
        BY <3>2, <3>5
      <4>2. p.num = l * span /\ p.den = span /\ q.num = l /\ q.den = 1
        <5>1. (e - l) * (d1 - f) = 0 /\ l * span \in Nat
          BY <3>2, <4>1
        <5> HIDE DEF p, q, span
        <5> QED
          BY <3>4, <3>5, <5>1
      <4> HIDE DEF p, q, span
      <4> QED
        BY <3>2, <4>2 DEF p, q
    <3>6. CASE q = Between(Curve[i - 1], Curve[i], d2)
      <4>1. q.num = l * span + (e - l) * (d2 - f) /\ q.den = span
        BY <3>6 DEF Between
      <4>2. (e - l) * (d2 - f) <= (e - l) * (d1 - f)
        <5>1. (l - e) * (d1 - f) <= (l - e) * (d2 - f)
          BY <3>2, <3>3
        <5>2. /\ (e - l) * (d1 - f) = - ((l - e) * (d1 - f))
              /\ (e - l) * (d2 - f) = - ((l - e) * (d2 - f))
              /\ (l - e) * (d1 - f) \in Int /\ (l - e) * (d2 - f) \in Int
          BY <3>2
        <5> QED
          BY <5>1, <5>2
      <4>3. (e - l) * (d1 - f) \in Int /\ (e - l) * (d2 - f) \in Int /\ l * span \in Int
        BY <3>2
      <4>4. q.num <= p.num /\ q.den = p.den
        BY <3>4, <4>1, <4>2, <4>3
      <4> HIDE DEF p, q
      <4> QED
        BY <1>1, <4>4 DEF p, q
    <3> QED
      BY <1>3, <1>7, <3>5, <3>6, PositionNear
  <2> QED
    BY <2>1, <2>2
<1> QED
  BY <1>4, <1>5, <1>6, <1>7, CurvePoints

\* A share of the flexible fare is no more than that.
LEMMA ShareBelowFlex ==
  ASSUME NEW flex \in Nat, NEW least \in 0..100, NEW days \in Nat
  PROVE  /\ ShareOf(flex, least, Position(days)) \in Nat
         /\ ShareOf(flex, least, Position(days)) <= flex
<1> DEFINE n == Position(days).num
          d == Position(days).den
          part == 100 * least * d + (100 - least) * n
<1>1. n \in Nat /\ d \in Nat \ {0} /\ n <= 100 * d
  BY PositionFacts
<1>2. part \in Nat /\ part <= 10000 * d
  <2>1. (100 - least) * n \in Nat /\ (100 - least) * n <= (100 - least) * (100 * d)
    BY <1>1
  <2>2. 100 * least * d + (100 - least) * (100 * d) = 10000 * d
    BY <1>1
  <2>3. 100 * least * d \in Nat
    BY <1>1
  <2> QED
    BY <1>1, <2>1, <2>2, <2>3
<1>3. flex * part \in Nat /\ flex * part <= flex * (10000 * d) /\ 10000 * d \in Nat \ {0}
  <2> HIDE DEF part, n, d
  <2> QED
    BY <1>1, <1>2
<1>4. ShareOf(flex, least, Position(days)) = RoundDiv(flex * part, 10000 * d)
  BY DEF ShareOf
<1> HIDE DEF part, n, d
<1> QED
  BY <1>3, <1>4, RoundBelow

\* More days ahead, no greater share.
LEMMA ShareFalls ==
  ASSUME NEW flex \in Nat, NEW least \in 0..100,
         NEW d1 \in Nat, NEW d2 \in Nat, d1 <= d2
  PROVE  ShareOf(flex, least, Position(d2)) <= ShareOf(flex, least, Position(d1))
<1> DEFINE n == Position(d1).num
          d == Position(d1).den
          m == Position(d2).num
          e == Position(d2).den
          one == 100 * least * d + (100 - least) * n
          two == 100 * least * e + (100 - least) * m
<1>1. /\ n \in Nat /\ d \in Nat \ {0} /\ m \in Nat /\ e \in Nat \ {0}
      /\ m * d <= n * e
  BY PositionFacts, PositionFalls
<1>2. /\ ShareOf(flex, least, Position(d1)) = RoundDiv(flex * one, 10000 * d)
      /\ ShareOf(flex, least, Position(d2)) = RoundDiv(flex * two, 10000 * e)
  BY DEF ShareOf
<1> HIDE DEF n, d, m, e
<1>3. one \in Nat /\ two \in Nat
  <2>1. (100 - least) * n \in Nat /\ (100 - least) * m \in Nat
        /\ 100 * least * d \in Nat /\ 100 * least * e \in Nat
    BY <1>1
  <2> QED
    BY <2>1
<1>4. two * d <= one * e
  <2>1. m * d \in Nat /\ n * e \in Nat /\ 100 * least * (e * d) \in Nat
    BY <1>1
  <2>2. (100 - least) * (m * d) <= (100 - least) * (n * e)
    BY <1>1, <2>1
  <2>3. /\ two * d = 100 * least * (e * d) + (100 - least) * (m * d)
        /\ one * e = 100 * least * (e * d) + (100 - least) * (n * e)
    BY <1>1
  <2>4. (100 - least) * (m * d) \in Nat /\ (100 - least) * (n * e) \in Nat
    BY <2>1
  <2> QED
    BY <2>1, <2>2, <2>3, <2>4
<1> HIDE DEF one, two
<1>5. (flex * two) * (10000 * d) <= (flex * one) * (10000 * e)
  <2>1. two * d \in Nat /\ one * e \in Nat
    BY <1>1, <1>3
  <2>2. (10000 * flex) * (two * d) <= (10000 * flex) * (one * e)
    BY <1>4, <2>1
  <2>3. /\ (flex * two) * (10000 * d) = (10000 * flex) * (two * d)
        /\ (flex * one) * (10000 * e) = (10000 * flex) * (one * e)
    BY <1>1, <1>3
  <2> QED
    BY <2>2, <2>3
<1>6. flex * one \in Int /\ flex * two \in Int /\ 10000 * d \in Nat \ {0} /\ 10000 * e \in Nat \ {0}
  BY <1>1, <1>3
<1> QED
  BY <1>2, <1>5, <1>6, RoundRises

\* The flexible fare is a whole number of cents.
LEMMA FlexIsNat ==
  ASSUME NEW tariff \in Tariff, NEW route \in Nat
  PROVE  Flex(tariff, route) \in Nat
<1>1. tariff.base \in Nat /\ tariff.perKm \in Nat
  BY DEF Tariff
<1>2. tariff.perKm * route \in Nat /\ tariff.perKm * route <= (tariff.perKm * route) * 10000
  BY <1>1
<1>3. RoundDiv(tariff.perKm * route, 10000) \in Nat
  BY <1>2, RoundBelow
<1> QED
  BY <1>1, <1>3 DEF Flex

-----------------------------------------------------------------------------
Ordered(b) == b.low <= b.typical /\ b.typical <= b.high
Cents(b)   == b.low \in Nat /\ b.typical \in Nat /\ b.high \in Nat

\* A band of the long-distance tariff is a range as soon as the flexible fare
\* is no less than the advertised saver.
LEMMA LongBandOrdered ==
  ASSUME NEW tariff \in Tariff, NEW route \in Nat, NEW days \in Nat,
         Flex(tariff, route) >= tariff.saverFloor
  PROVE  Ordered(LongBand(tariff, route, days)) /\ Cents(LongBand(tariff, route, days))
<1> DEFINE flex  == Flex(tariff, route)
          least == ShareOf(flex, tariff.shareMin, Position(days))
          most  == ShareOf(flex, tariff.shareMax, Position(days))
          low   == AtLeast(least, tariff.saverFloor)
          high  == AtMost(AtLeast(most, low), flex)
<1>1. flex \in Nat /\ tariff.saverFloor \in Nat /\ flex >= tariff.saverFloor
  BY FlexIsNat DEF Tariff
<1>2. least \in Nat /\ least <= flex /\ most \in Nat /\ most <= flex
  BY <1>1, ShareBelowFlex DEF Tariff
<1>3. LongBand(tariff, route, days) = Band(low, RoundDiv(low + high, 2), high)
  BY DEF LongBand
<1> HIDE DEF flex, least, most
<1>4. low \in Nat /\ high \in Nat /\ low <= high
  BY <1>1, <1>2 DEF AtLeast, AtMost
<1>5. low <= RoundDiv(low + high, 2) /\ RoundDiv(low + high, 2) <= high
  <2> HIDE DEF low, high
  <2>1. low \in Int /\ high \in Int /\ low <= high
    BY <1>4
  <2> QED
    BY <2>1, MiddleBetween
<1>6. RoundDiv(low + high, 2) \in Nat
  <2> HIDE DEF low, high
  <2> QED
    BY <1>4 DEF RoundDiv
<1> HIDE DEF low, high
<1> QED
  BY <1>3, <1>4, <1>5, <1>6 DEF Band, Ordered, Cents

\* A discount of a card keeps the order of a band.
LEMMA DiscountKeepsOrder ==
  ASSUME NEW low \in Nat, NEW typical \in Nat, NEW high \in Nat, NEW card,
         low <= typical, typical <= high
  PROVE  Ordered(Discounted(Band(low, typical, high), card))
<1> DEFINE b == Band(low, typical, high)
<1>1. Ordered(b) /\ b.low = low /\ b.typical = typical /\ b.high = high
  BY DEF Band, Ordered
<1>2. Ordered(Scaled(b, 3, 4)) /\ Ordered(Scaled(b, 1, 2))
  <2>1. /\ RoundDiv(3 * low, 4) <= RoundDiv(3 * typical, 4)
        /\ RoundDiv(3 * typical, 4) <= RoundDiv(3 * high, 4)
        /\ RoundDiv(1 * low, 2) <= RoundDiv(1 * typical, 2)
        /\ RoundDiv(1 * typical, 2) <= RoundDiv(1 * high, 2)
    BY PartsKeepOrder
  <2> QED
    BY <1>1, <2>1 DEF Scaled, Band, Ordered
<1> QED
  BY <1>1, <1>2 DEF Discounted

\* Whatever the country, the distance, the days ahead and the card: a band is
\* a range unless it is of a long ride whose flexible fare is below the saver.
LEMMA EstimateOrdered ==
  ASSUME NEW country \in DOMAIN Tariffs, NEW route \in Nat, NEW days \in Nat,
         NEW long \in BOOLEAN, NEW card
  PROVE  \/ Ordered(Estimate(route, country, days, long, card))
         \/ long /\ Flex(TariffOf(country), route) < TariffOf(country).saverFloor
<1> DEFINE tariff == TariffOf(country)
<1>1. tariff \in Tariff /\ tariff.saverFloor \in Nat /\ Flex(tariff, route) \in Nat
  BY FaresAssumption, FlexIsNat DEF TariffOf, Tariff
<1>2. CASE route < 5 * 10000
  BY <1>2 DEF Estimate, NoBand, Band, Ordered
<1>3. CASE ~(route < 5 * 10000) /\ ~long
  <2> DEFINE fare == AtLeast(RoundDiv(tariff.regionalPerKm * route, 10000),
                             tariff.regionalFloor)
  <2>1. Estimate(route, country, days, long, card) = Band(fare, fare, fare)
    BY <1>3 DEF Estimate, RegionalBand
  <2>2. fare \in Int
    <3>1. tariff.regionalPerKm \in Nat /\ tariff.regionalFloor \in Nat
      BY <1>1 DEF Tariff
    <3>2. tariff.regionalPerKm * route \in Nat
      BY <3>1
    <3>3. RoundDiv(tariff.regionalPerKm * route, 10000) \in Int
      BY <3>2 DEF RoundDiv
    <3> QED
      BY <3>1, <3>3 DEF AtLeast
  <2> HIDE DEF fare
  <2> QED
    BY <2>1, <2>2 DEF Band, Ordered
<1>4. CASE ~(route < 5 * 10000) /\ long /\ Flex(tariff, route) >= tariff.saverFloor
  <2> DEFINE band == LongBand(tariff, route, days)
  <2>1. Ordered(band) /\ Cents(band)
    BY <1>1, <1>4, LongBandOrdered
  <2>2. band = Band(band.low, band.typical, band.high)
    BY DEF LongBand, Band
  <2>3. Estimate(route, country, days, long, card) = Discounted(band, card)
    BY <1>4 DEF Estimate
  <2> HIDE DEF band
  <2>4. Ordered(Discounted(Band(band.low, band.typical, band.high), card))
    BY <2>1, DiscountKeepsOrder DEF Ordered, Cents
  <2> QED
    BY <2>2, <2>3, <2>4
<1> QED
  BY <1>1, <1>2, <1>3, <1>4

\* Whole cents, of a long ride, whether or not they are a range.
LEMMA LongBandCents ==
  ASSUME NEW tariff \in Tariff, NEW route \in Nat, NEW days \in Nat
  PROVE  Cents(LongBand(tariff, route, days))
<1> DEFINE flex  == Flex(tariff, route)
          least == ShareOf(flex, tariff.shareMin, Position(days))
          most  == ShareOf(flex, tariff.shareMax, Position(days))
          low   == AtLeast(least, tariff.saverFloor)
          high  == AtMost(AtLeast(most, low), flex)
<1>1. flex \in Nat /\ tariff.saverFloor \in Nat
  BY FlexIsNat DEF Tariff
<1>2. least \in Nat /\ most \in Nat
  BY <1>1, ShareBelowFlex DEF Tariff
<1>3. LongBand(tariff, route, days) = Band(low, RoundDiv(low + high, 2), high)
  BY DEF LongBand
<1> HIDE DEF flex, least, most
<1>4. low \in Nat /\ high \in Nat
  BY <1>1, <1>2 DEF AtLeast, AtMost
<1> HIDE DEF low, high
<1>5. RoundDiv(low + high, 2) \in Nat
  BY <1>4 DEF RoundDiv
<1> QED
  BY <1>3, <1>4, <1>5 DEF Band, Cents

\* More days ahead, no higher a typical fare of a long ride.
LEMMA LongBandFalls ==
  ASSUME NEW tariff \in Tariff, NEW route \in Nat,
         NEW d1 \in Nat, NEW d2 \in Nat, d1 <= d2
  PROVE  LongBand(tariff, route, d2).typical <= LongBand(tariff, route, d1).typical
<1> DEFINE flex   == Flex(tariff, route)
          least1 == ShareOf(flex, tariff.shareMin, Position(d1))
          most1  == ShareOf(flex, tariff.shareMax, Position(d1))
          least2 == ShareOf(flex, tariff.shareMin, Position(d2))
          most2  == ShareOf(flex, tariff.shareMax, Position(d2))
          low1   == AtLeast(least1, tariff.saverFloor)
          high1  == AtMost(AtLeast(most1, low1), flex)
          low2   == AtLeast(least2, tariff.saverFloor)
          high2  == AtMost(AtLeast(most2, low2), flex)
<1>1. /\ flex \in Nat /\ tariff.saverFloor \in Nat
      /\ tariff.shareMin \in 0..100 /\ tariff.shareMax \in 0..100
  BY FlexIsNat DEF Tariff
<1>2. least1 \in Nat /\ most1 \in Nat /\ least2 \in Nat /\ most2 \in Nat
  BY <1>1, ShareBelowFlex
<1>3. least2 <= least1 /\ most2 <= most1
  BY <1>1, ShareFalls
<1>4. /\ LongBand(tariff, route, d1).typical = RoundDiv(low1 + high1, 2)
      /\ LongBand(tariff, route, d2).typical = RoundDiv(low2 + high2, 2)
  BY DEF LongBand, Band
<1> HIDE DEF flex, least1, most1, least2, most2
<1>5. /\ low1 \in Nat /\ high1 \in Nat /\ low2 \in Nat /\ high2 \in Nat
      /\ low2 <= low1 /\ high2 <= high1
  BY <1>1, <1>2, <1>3 DEF AtLeast, AtMost
<1> HIDE DEF low1, high1, low2, high2
<1>6. low1 + high1 \in Int /\ low2 + high2 \in Int
      /\ (low2 + high2) * 2 <= (low1 + high1) * 2
  BY <1>5
<1> QED
  BY <1>4, <1>6, RoundRises

\* A card leaves whole cents, and the order of two fares.
LEMMA DiscountFalls ==
  ASSUME NEW a, NEW b, Cents(a), Cents(b), NEW card
  PROVE  /\ Cents(Discounted(a, card))
         /\ a.typical <= b.typical =>
              Discounted(a, card).typical <= Discounted(b, card).typical
<1>1. \A x \in Nat : RoundDiv(3 * x, 4) \in Nat /\ RoundDiv(1 * x, 2) \in Nat
  BY DEF RoundDiv
<1>2. \A x, y \in Nat : x <= y => /\ RoundDiv(3 * x, 4) <= RoundDiv(3 * y, 4)
                                 /\ RoundDiv(1 * x, 2) <= RoundDiv(1 * y, 2)
  BY PartsKeepOrder
<1>3. Cents(Scaled(a, 3, 4)) /\ Cents(Scaled(a, 1, 2))
  <2>1. a.low \in Nat /\ a.typical \in Nat /\ a.high \in Nat
    BY DEF Cents
  <2> QED
    BY <1>1, <2>1 DEF Cents, Scaled, Band
<1>4. a.typical <= b.typical =>
        /\ Scaled(a, 3, 4).typical <= Scaled(b, 3, 4).typical
        /\ Scaled(a, 1, 2).typical <= Scaled(b, 1, 2).typical
  <2>1. a.typical \in Nat /\ b.typical \in Nat
    BY DEF Cents
  <2> QED
    BY <1>2, <2>1 DEF Scaled, Band
<1> QED
  BY <1>3, <1>4 DEF Discounted

\* What Estimate is of a ride of 5 km or more by a long-distance train.
LongRide(route, country, days, card) ==
  Discounted(LongBand(TariffOf(country), route, days), card)

\* Such a ride: whole cents, and no more for more days ahead.
LEMMA LongRideFalls ==
  ASSUME NEW country, NEW route \in Nat,
         NEW d1 \in Nat, NEW d2 \in Nat, d1 <= d2, NEW card
  PROVE  /\ Cents(LongRide(route, country, d1, card))
         /\ LongRide(route, country, d2, card).typical
              <= LongRide(route, country, d1, card).typical
<1> DEFINE one == LongBand(TariffOf(country), route, d1)
          two == LongBand(TariffOf(country), route, d2)
<1>1. TariffOf(country) \in Tariff
  BY FaresAssumption DEF TariffOf
<1>2. Cents(one) /\ Cents(two) /\ two.typical <= one.typical
  BY <1>1, LongBandCents, LongBandFalls
<1>3. Cents(Discounted(one, card))
  BY <1>2, DiscountFalls
<1>4. Discounted(two, card).typical <= Discounted(one, card).typical
  BY <1>2, DiscountFalls
<1> QED
  BY <1>3, <1>4 DEF LongRide

\* A flight: whole cents, and no more for more days ahead.
LEMMA FlightFalls ==
  ASSUME NEW km \in Nat, NEW d1 \in Nat, NEW d2 \in Nat, d1 <= d2
  PROVE  /\ Cents(FlightBand(km, d1))
         /\ FlightBand(km, d2).typical <= FlightBand(km, d1).typical
<1> DEFINE base == 6400 + 11 * km
          one  == RoundDiv(base * FlightMult(d1), 200)
          two  == RoundDiv(base * FlightMult(d2), 200)
          fare == AtLeast(one, 3500)
<1>1. base \in Nat
  OBVIOUS
<1>2. FlightMult(d1) \in Nat /\ FlightMult(d2) \in Nat /\ FlightMult(d2) <= FlightMult(d1)
  BY DEF FlightMult
<1> HIDE DEF base
<1>3. /\ base * FlightMult(d1) \in Nat /\ base * FlightMult(d2) \in Nat
      /\ base * FlightMult(d2) <= base * FlightMult(d1)
  BY <1>1, <1>2
<1>4. one \in Nat /\ two \in Nat /\ two <= one
  <2>1. \A x \in Nat : RoundDiv(x, 200) \in Nat
    BY DEF RoundDiv
  <2>2. (base * FlightMult(d2)) * 200 <= (base * FlightMult(d1)) * 200
    BY <1>3
  <2>3. two <= one
    BY <1>3, <2>2, RoundRises
  <2> QED
    BY <1>3, <2>1, <2>3
<1>5. /\ FlightBand(km, d1) = Band(RoundDiv(7 * fare, 10), fare, RoundDiv(16 * fare, 10))
      /\ FlightBand(km, d2).typical = AtLeast(two, 3500)
  BY DEF FlightBand, Band, base
<1> HIDE DEF one, two
<1>6. fare \in Nat /\ AtLeast(two, 3500) <= fare
  BY <1>4 DEF AtLeast
<1> HIDE DEF fare
<1>7. RoundDiv(7 * fare, 10) \in Nat /\ RoundDiv(16 * fare, 10) \in Nat
  <2>1. \A x \in Nat : RoundDiv(x, 10) \in Nat
    BY DEF RoundDiv
  <2>2. 7 * fare \in Nat /\ 16 * fare \in Nat
    BY <1>6
  <2> QED
    BY <2>1, <2>2
<1> QED
  BY <1>5, <1>6, <1>7 DEF Band, Cents, fare

-----------------------------------------------------------------------------
(* The ways to get to a place.                                             *)

RowsOf == [place : DOMAIN Places, mode : {"rail", "flight"},
           minutes : Nat, fare : [low : Nat, typical : Nat, high : Nat]]

LEMMA ExtraValues == \A r : Extra(r) \in {100, 110, 125, 135, 150}
BY DEF Extra

\* A route by rail is longer than the line, whichever the countries.
LEMMA DetourFacts ==
  ASSUME NEW a, NEW b
  PROVE  Detour(a, b) \in Nat /\ Detour(a, b) >= 12200
<1> DEFINE ra == RegionOf(a)
          rb == RegionOf(b)
          factor == IF ra = rb THEN 100
                    ELSE IF Extra(ra) # 100 THEN Extra(ra)
                    ELSE IF Extra(rb) # 100 THEN Extra(rb) ELSE 112
<1>1. Detour(a, b) = 122 * factor
  BY DEF Detour
<1>2. factor \in {100, 110, 112, 125, 135, 150}
  <2>1. Extra(ra) \in {100, 110, 125, 135, 150} /\ Extra(rb) \in {100, 110, 125, 135, 150}
    BY ExtraValues
  <2> HIDE DEF ra, rb
  <2> QED
    BY <2>1
<1> HIDE DEF factor
<1> QED
  BY <1>1, <1>2

LEMMA RailMinutesNat ==
  ASSUME NEW km \in Nat, NEW a, NEW b, NEW rail \in 0..100
  PROVE  RailMinutes(km, a, b, rail) \in Nat
<1> DEFINE path  == 24 * km * Detour(a, b)
          speed == 5 * (SpeedOf(a) + SpeedOf(b)) * (300 + rail)
<1>1. path \in Nat
  BY DetourFacts
<1>2. speed \in Nat \ {0}
  <2>1. SpeedOf(a) \in Nat \ {0} /\ SpeedOf(b) \in Nat \ {0}
    BY ShortlistAssumption DEF SpeedOf
  <2>2. 5 * (SpeedOf(a) + SpeedOf(b)) \in Nat \ {0} /\ 300 + rail \in Nat \ {0}
    BY <2>1
  <2> QED
    BY <2>2
<1>3. Changes(km) \in Nat
  BY DEF Changes
<1>4. RailMinutes(km, a, b, rail) = path \div speed + 36 + 27 * Changes(km)
  BY DEF RailMinutes
<1> HIDE DEF path, speed
<1>5. path \div speed \in Nat
  BY <1>1, <1>2
<1> QED
  BY <1>3, <1>4, <1>5

\* What a request holds, and the distances from its origin.
LEMMA RequestFacts ==
  ASSUME NEW q \in Request, NEW i \in DOMAIN Places
  PROVE  /\ Km[q.origin][i] \in Nat /\ Places[i].rail \in 0..100
         /\ q.days \in Nat /\ q.limit \in Nat /\ q.limit >= 1
<1>1. q.origin \in DOMAIN Km /\ q.days \in 0..365 /\ q.limit \in 1..100
  BY DEF Request
<1>2. Km[q.origin] \in [DOMAIN Places -> Nat]
  BY <1>1, ShortlistAssumption
<1>3. Places[i] \in [country : STRING, rail : 0..100]
  <2> DEFINE Place == [country : STRING, rail : 0..100]
  <2>1. Places \in Seq(Place)
    BY ShortlistAssumption
  <2> HIDE DEF Place
  <2>2. Places[i] \in Place
    BY <2>1
  <2> QED
    BY <2>2 DEF Place
<1> QED
  BY <1>1, <1>2, <1>3

\* A train, from 100 km on.
LEMMA ByRailFacts ==
  ASSUME NEW q \in Request, NEW i \in DOMAIN Places, Km[q.origin][i] >= 100
  PROVE  /\ ByRail(q, i) \in RowsOf
         /\ ByRail(q, i).place = i /\ ByRail(q, i).mode = "rail"
         /\ ByRail(q, i).fare =
              LongRide(Km[q.origin][i] * Detour(CountryOf(q.origin), Places[i].country),
                       Places[i].country, q.days, Card(q))
         /\ Km[q.origin][i] * Detour(CountryOf(q.origin), Places[i].country) \in Nat
<1> DEFINE km    == Km[q.origin][i]
          from  == CountryOf(q.origin)
          to    == Places[i].country
          route == km * Detour(from, to)
          fare  == LongRide(route, to, q.days, Card(q))
          minutes == RailMinutes(km, from, to, Places[i].rail)
<1>1. km \in Nat /\ km >= 100 /\ q.days \in Nat /\ Places[i].rail \in 0..100
  BY RequestFacts
<1>2. Detour(from, to) \in Nat /\ Detour(from, to) >= 12200
  BY DetourFacts
<1>3. route \in Nat /\ route >= 50000
  <2> DEFINE det == Detour(from, to)
  <2> HIDE DEF km, det
  <2>1. 100 * det <= km * det /\ km * det \in Nat
    BY <1>1, <1>2 DEF det
  <2> QED
    BY <1>2, <2>1 DEF det
<1>4. ByRail(q, i) = Row(i, "rail", minutes, fare)
  <2>1. ~(route < 5 * 10000)
    BY <1>3
  <2> QED
    BY <2>1 DEF ByRail, Estimate, LongRide
<1>5. Cents(fare)
  <2> HIDE DEF km, from, to, route
  <2> QED
    BY <1>1, <1>3, LongRideFalls
<1>6. fare = Band(fare.low, fare.typical, fare.high)
  BY DEF LongRide, Discounted, LongBand, Scaled, Band
<1>7. minutes \in Nat
  BY <1>1, RailMinutesNat
<1> HIDE DEF fare, minutes
<1>8. fare \in [low : Nat, typical : Nat, high : Nat]
  BY <1>5, <1>6 DEF Cents, Band
<1> QED
  BY <1>3, <1>4, <1>7, <1>8 DEF Row, RowsOf, fare

\* A plane, at any distance.
LEMMA ByPlaneFacts ==
  ASSUME NEW q \in Request, NEW i \in DOMAIN Places
  PROVE  /\ ByPlane(q, i) \in RowsOf
         /\ ByPlane(q, i).place = i /\ ByPlane(q, i).mode = "flight"
         /\ ByPlane(q, i).fare = FlightBand(Km[q.origin][i], q.days)
<1> DEFINE km   == Km[q.origin][i]
          fare == FlightBand(km, q.days)
          minutes == FlightMinutes(km)
<1>1. km \in Nat /\ q.days \in Nat
  BY RequestFacts
<1>2. ByPlane(q, i) = Row(i, "flight", minutes, fare)
  BY DEF ByPlane
<1>3. minutes \in Nat
  BY <1>1 DEF FlightMinutes
<1>4. Cents(fare)
  BY <1>1, FlightFalls
<1>5. fare = Band(fare.low, fare.typical, fare.high)
  BY DEF FlightBand, Band
<1> HIDE DEF fare, minutes
<1>6. fare \in [low : Nat, typical : Nat, high : Nat]
  BY <1>4, <1>5 DEF Cents, Band
<1> QED
  BY <1>2, <1>3, <1>6 DEF Row, RowsOf, fare

\* The ways to a place are by train, by plane, both or none.
LEMMA OptionFacts ==
  ASSUME NEW q \in Request, NEW i \in DOMAIN Places
  PROVE  /\ Options(q, i) \subseteq {ByRail(q, i), ByPlane(q, i)}
         /\ \A o \in Options(q, i) : o \in RowsOf /\ o.place = i /\ Km[q.origin][i] >= 100
<1>1. CASE Km[q.origin][i] < 100
  BY <1>1 DEF Options
<1>2. CASE ~(Km[q.origin][i] < 100)
  <2>1. Km[q.origin][i] \in Nat
    BY RequestFacts
  <2>2. Km[q.origin][i] >= 100
    BY <1>2, <2>1
  <2>3. Options(q, i) \subseteq {ByRail(q, i), ByPlane(q, i)}
    BY DEF Options
  <2>4. /\ ByRail(q, i) \in RowsOf /\ ByRail(q, i).place = i
        /\ ByPlane(q, i) \in RowsOf /\ ByPlane(q, i).place = i
    BY <2>2, ByRailFacts, ByPlaneFacts
  <2> QED
    BY <2>2, <2>3, <2>4
<1> QED
  BY <1>1, <1>2

\* Where there is a way there is a best one: none costs less.
LEMMA BestFacts ==
  ASSUME NEW q \in Request, NEW i \in DOMAIN Places, Options(q, i) # {}
  PROVE  /\ Best(q, i) \in Options(q, i)
         /\ \A p \in Options(q, i) : Best(q, i).fare.typical <= p.fare.typical
         /\ Best(q, i) \in RowsOf /\ Best(q, i).place = i
<1> DEFINE Better(o) == \A p \in Options(q, i) :
                          \/ o.fare.typical < p.fare.typical
                          \/ o.fare.typical = p.fare.typical /\ (p = o \/ o.mode = "rail")
          train == ByRail(q, i)
          plane == ByPlane(q, i)
<1>1. /\ Options(q, i) \subseteq {train, plane}
      /\ \A o \in Options(q, i) : o \in RowsOf /\ o.place = i /\ Km[q.origin][i] >= 100
  BY OptionFacts
<1>2. \A o \in Options(q, i) : o.fare.typical \in Nat
  BY <1>1 DEF RowsOf
<1>3. train.mode = "rail"
  BY <1>1, ByRailFacts
<1> HIDE DEF train, plane
<1>4. \E o \in Options(q, i) : Better(o)
  <2>1. CASE Options(q, i) = {train}
    BY <1>2, <2>1
  <2>2. CASE Options(q, i) = {plane}
    BY <1>2, <2>2
  <2>3. CASE Options(q, i) = {train, plane} /\ train.fare.typical <= plane.fare.typical
    BY <1>2, <1>3, <2>3
  <2>4. CASE Options(q, i) = {train, plane} /\ ~(train.fare.typical <= plane.fare.typical)
    BY <1>2, <2>4
  <2> QED
    BY <1>1, <2>1, <2>2, <2>3, <2>4
<1>5. Best(q, i) = CHOOSE o \in Options(q, i) : Better(o)
  BY DEF Best
<1> HIDE DEF Better
<1>6. Best(q, i) \in Options(q, i) /\ Better(Best(q, i))
  BY <1>4, <1>5
<1> QED
  BY <1>1, <1>2, <1>6 DEF Better

\* Each way to a place, booked earlier, costs no more.
LEMMA OptionsFall ==
  ASSUME NEW q \in Request, NEW r \in Request, NEW i \in DOMAIN Places,
         r = [q EXCEPT !.days = r.days], q.days <= r.days
  PROVE  \A o \in Options(q, i) : \E p \in Options(r, i) : p.fare.typical <= o.fare.typical
<1> DEFINE km == Km[q.origin][i]
<1>1. /\ r.origin = q.origin /\ Card(r) = Card(q) /\ q.days \in Nat /\ r.days \in Nat
      /\ km \in Nat
  <2>1. r.origin = q.origin /\ r.bahncard = q.bahncard
    BY DEF Request
  <2> QED
    BY <2>1, RequestFacts DEF Card
<1>2. SUFFICES ASSUME NEW o \in Options(q, i)
               PROVE  \E p \in Options(r, i) : p.fare.typical <= o.fare.typical
  OBVIOUS
<1>3. km >= 100
  BY OptionFacts
<1>4. CASE o = ByRail(q, i) /\ ~RailBlocked(i)
  <2>1. ByRail(r, i) \in Options(r, i)
    BY <1>1, <1>3, <1>4 DEF Options
  <2>2. /\ ByRail(q, i).fare =
             LongRide(km * Detour(CountryOf(q.origin), Places[i].country),
                      Places[i].country, q.days, Card(q))
        /\ ByRail(r, i).fare =
             LongRide(km * Detour(CountryOf(q.origin), Places[i].country),
                      Places[i].country, r.days, Card(q))
        /\ km * Detour(CountryOf(q.origin), Places[i].country) \in Nat
    BY <1>1, <1>3, ByRailFacts
  <2>3. ByRail(r, i).fare.typical <= ByRail(q, i).fare.typical
    BY <1>1, <2>2, LongRideFalls
  <2> QED
    BY <1>4, <2>1, <2>3
<1>5. CASE o = ByPlane(q, i) /\ (km >= 400 \/ RailBlocked(i))
  <2>1. ByPlane(r, i) \in Options(r, i)
    BY <1>1, <1>3, <1>5 DEF Options
  <2>2. ByPlane(q, i).fare = FlightBand(km, q.days) /\ ByPlane(r, i).fare = FlightBand(km, r.days)
    BY <1>1, ByPlaneFacts
  <2>3. ByPlane(r, i).fare.typical <= ByPlane(q, i).fare.typical
    BY <1>1, <2>2, FlightFalls
  <2> QED
    BY <1>5, <2>1, <2>3
<1> QED
  BY <1>4, <1>5 DEF Options

-----------------------------------------------------------------------------
(* The list: sorted by rank, then cut.                                     *)

\* Rows that are ranked: finitely many, no two of the same place.
Rankable(found) ==
  /\ found \subseteq RowsOf /\ IsFiniteSet(found)
  /\ \A o, p \in found : o.place = p.place => o = p

\* The sort's key orders rows of different places, strictly.
LEMMA BeforeIsOrder ==
  ASSUME NEW o \in RowsOf, NEW p \in RowsOf, NEW r \in RowsOf
  PROVE  /\ ~Before(o, o)
         /\ Before(o, p) /\ Before(p, r) => Before(o, r)
         /\ o.place # p.place => Before(o, p) \/ Before(p, o)
         /\ Before(o, p) => o.fare.typical <= p.fare.typical
         /\ ~Before(o, p) => p.fare.typical <= o.fare.typical
<1>1. /\ o.fare.typical \in Nat /\ p.fare.typical \in Nat /\ r.fare.typical \in Nat
      /\ o.minutes \in Nat /\ p.minutes \in Nat /\ r.minutes \in Nat
  BY DEF RowsOf
<1>2. o.place \in Nat /\ p.place \in Nat /\ r.place \in Nat
  <2>1. \A i \in DOMAIN Places : i \in Nat
    BY ShortlistAssumption
  <2> QED
    BY <2>1 DEF RowsOf
<1> QED
  BY <1>1, <1>2 DEF Before

\* A row that comes before another has fewer ahead of it.
LEMMA RankRises ==
  ASSUME NEW found, Rankable(found), NEW o \in found
  PROVE  /\ Ahead(o, found) \in 0..(Cardinality(found) - 1)
         /\ \A p \in found : Before(o, p) => Ahead(o, found) < Ahead(p, found)
<1> DEFINE These(p) == {r \in found : Before(r, p)}
<1>1. \A p \in found : /\ p \in RowsOf /\ p \notin These(p)
                       /\ These(p) \in SUBSET found /\ IsFiniteSet(These(p))
                       /\ Ahead(p, found) = Cardinality(These(p))
                       /\ Ahead(p, found) \in Nat
  <2> SUFFICES ASSUME NEW p \in found
               PROVE  /\ p \in RowsOf /\ p \notin These(p)
                      /\ These(p) \in SUBSET found /\ IsFiniteSet(These(p))
                      /\ Ahead(p, found) = Cardinality(These(p))
                      /\ Ahead(p, found) \in Nat
    OBVIOUS
  <2>1. p \in RowsOf /\ p \notin These(p) /\ These(p) \in SUBSET found
    BY BeforeIsOrder DEF Rankable
  <2>2. IsFiniteSet(These(p))
    BY <2>1, FS_Subset DEF Rankable
  <2>3. Ahead(p, found) = Cardinality(These(p))
    BY DEF Ahead
  <2>4. Cardinality(These(p)) \in Nat
    BY <2>2, FS_CardinalityType
  <2> QED
    BY <2>1, <2>2, <2>3, <2>4
<1> HIDE DEF These
<1>2. Ahead(o, found) < Cardinality(found)
  <2>1. These(o) # found
    BY <1>1
  <2>2. Cardinality(found) \in Nat
    BY FS_CardinalityType DEF Rankable
  <2>3. /\ Cardinality(These(o)) <= Cardinality(found)
        /\ Cardinality(found) = Cardinality(These(o)) => found = These(o)
    BY <1>1, FS_Subset DEF Rankable
  <2> QED
    BY <1>1, <2>1, <2>2, <2>3
<1>3. ASSUME NEW p \in found, Before(o, p) PROVE Ahead(o, found) < Ahead(p, found)
  <2>1. These(o) \in SUBSET These(p)
    BY <1>1, <1>3, BeforeIsOrder DEF These, Rankable
  <2>2. o \in These(p) /\ o \notin These(o)
    BY <1>1, <1>3 DEF These
  <2>3. /\ Cardinality(These(o)) <= Cardinality(These(p))
        /\ Cardinality(These(p)) = Cardinality(These(o)) => These(p) = These(o)
    BY <1>1, <2>1, FS_Subset
  <2> QED
    BY <1>1, <2>2, <2>3
<1>4. Cardinality(found) \in Nat
  BY FS_CardinalityType DEF Rankable
<1> QED
  BY <1>1, <1>2, <1>3, <1>4

\* No two rows have the same rank, so every rank is some row's: as many ranks
\* as rows, each taken once.
LEMMA EveryRankTaken ==
  ASSUME NEW found, Rankable(found)
  PROVE  /\ Cardinality(found) \in Nat
         /\ \A o, p \in found : Ahead(o, found) = Ahead(p, found) => o = p
         /\ \A k \in 1..Cardinality(found) : \E o \in found : Ahead(o, found) = k - 1
<1> DEFINE n == Cardinality(found)
          rank == [o \in found |-> Ahead(o, found)]
<1>1. n \in Nat
  BY FS_CardinalityType DEF Rankable
<1>2. ASSUME NEW o \in found, NEW p \in found, Ahead(o, found) = Ahead(p, found)
      PROVE  o = p
  <2>1. Ahead(o, found) \in 0..(n - 1) /\ Ahead(p, found) \in 0..(n - 1)
    BY RankRises
  <2>2. ~Before(o, p)
    <3>1. Before(o, p) => Ahead(o, found) < Ahead(p, found)
      BY RankRises
    <3> QED
      BY <1>2, <2>1, <3>1
  <2>3. ~Before(p, o)
    <3>1. Before(p, o) => Ahead(p, found) < Ahead(o, found)
      BY RankRises
    <3> QED
      BY <1>2, <2>1, <3>1
  <2> QED
    BY <2>2, <2>3, BeforeIsOrder DEF Rankable
<1>3. rank \in Injection(found, 0..(n - 1))
  <2>1. \A o \in found : rank[o] = Ahead(o, found) /\ rank[o] \in 0..(n - 1)
    BY RankRises
  <2>2. rank \in [found -> 0..(n - 1)]
    BY <2>1
  <2>3. \A o, p \in found : rank[o] = rank[p] => o = p
    BY <1>2, <2>1
  <2> HIDE DEF rank, n
  <2> QED
    BY <2>2, <2>3 DEF Injection, IsInjective
<1>4. IsFiniteSet(0..(n - 1)) /\ Cardinality(0..(n - 1)) = n
  <2> HIDE DEF n
  <2>1. 0 \in Int /\ n - 1 \in Int
    BY <1>1
  <2> QED
    BY <1>1, <2>1, FS_Interval
<1>5. rank \in Surjection(found, 0..(n - 1))
  <2> HIDE DEF rank
  <2> QED
    BY <1>3, <1>4, FS_Injection
<1>6. ASSUME NEW k \in 1..n PROVE \E o \in found : Ahead(o, found) = k - 1
  <2>1. k - 1 \in 0..(n - 1)
    BY <1>1
  <2>2. PICK o \in found : rank[o] = k - 1
    BY <1>5, <2>1 DEF Surjection
  <2> QED
    BY <2>2
<1> QED
  BY <1>1, <1>2, <1>6

\* So the k-th of the sorted rows is the one with k - 1 ahead of it.
LEMMA SortedFacts ==
  ASSUME NEW found, Rankable(found), NEW n \in Nat, n <= Cardinality(found)
  PROVE  LET list == Sorted(n, found) IN
         /\ list \in Seq(found) /\ Len(list) = n /\ DOMAIN list = 1..n
         /\ \A k \in 1..n : list[k] \in found /\ Ahead(list[k], found) = k - 1
         /\ \A o \in found : Ahead(o, found) < n => \E k \in 1..n : list[k] = o
<1> DEFINE list == Sorted(n, found)
<1>1. \A k \in 1..n : list[k] \in found /\ Ahead(list[k], found) = k - 1
  <2> SUFFICES ASSUME NEW k \in 1..n
               PROVE  list[k] \in found /\ Ahead(list[k], found) = k - 1
    OBVIOUS
  <2>1. k \in 1..Cardinality(found)
    BY EveryRankTaken
  <2>2. \E o \in found : Ahead(o, found) = k - 1
    BY <2>1, EveryRankTaken
  <2>3. list[k] = CHOOSE o \in found : Ahead(o, found) = k - 1
    BY DEF Sorted
  <2> QED
    BY <2>2, <2>3
<1>2. DOMAIN list = 1..n /\ list = [k \in 1..n |-> list[k]]
  BY DEF Sorted
<1>3. \A o \in found : Ahead(o, found) < n => \E k \in 1..n : list[k] = o
  <2> SUFFICES ASSUME NEW o \in found, Ahead(o, found) < n
               PROVE  \E k \in 1..n : list[k] = o
    OBVIOUS
  <2>1. Ahead(o, found) \in 0..(Cardinality(found) - 1) /\ Cardinality(found) \in Nat
    BY RankRises, EveryRankTaken
  <2>2. Ahead(o, found) + 1 \in 1..n /\ (Ahead(o, found) + 1) - 1 = Ahead(o, found)
    BY <2>1
  <2>3. /\ list[Ahead(o, found) + 1] \in found
        /\ Ahead(list[Ahead(o, found) + 1], found) = Ahead(o, found)
    BY <1>1, <2>2
  <2> QED
    BY <2>2, <2>3, EveryRankTaken
<1> HIDE DEF list
<1>4. list \in Seq(found) /\ Len(list) = n
  BY <1>1, <1>2
<1> QED
  BY <1>1, <1>2, <1>3, <1>4 DEF list

\* What a search finds, before it is sorted.
Found(q) == {Best(q, i) : i \in Fitting(q)}

LEMMA FoundFacts ==
  ASSUME NEW q \in Request
  PROVE  /\ Rankable(Found(q))
         /\ \A o \in Found(q) : o.place \in Fitting(q) /\ o = Best(q, o.place)
         /\ \A i \in Fitting(q) : Best(q, i) \in Found(q)
<1>1. \A i \in Fitting(q) : /\ i \in DOMAIN Places
                            /\ Best(q, i) \in RowsOf /\ Best(q, i).place = i
  BY BestFacts DEF Fitting
<1>2. /\ Found(q) \subseteq RowsOf
      /\ \A o \in Found(q) : o.place \in Fitting(q) /\ o = Best(q, o.place)
      /\ \A i \in Fitting(q) : Best(q, i) \in Found(q)
  BY <1>1 DEF Found
<1> DEFINE where == [o \in Found(q) |-> o.place]
<1>3. where \in Injection(Found(q), DOMAIN Places)
  <2>1. \A o \in Found(q) : where[o] = o.place /\ where[o] \in DOMAIN Places
    BY <1>1, <1>2
  <2>2. where \in [Found(q) -> DOMAIN Places]
    BY <2>1
  <2>3. \A o, p \in Found(q) : where[o] = where[p] => o = p
    BY <1>2, <2>1
  <2> HIDE DEF where
  <2> QED
    BY <2>2, <2>3 DEF Injection, IsInjective
<1>4. IsFiniteSet(DOMAIN Places)
  <2>1. Len(Places) \in Nat /\ DOMAIN Places = 1..Len(Places)
    BY ShortlistAssumption
  <2> QED
    BY <2>1, FS_Interval
<1>5. IsFiniteSet(Found(q))
  <2> HIDE DEF where
  <2> QED
    BY <1>3, <1>4, FS_Injection
<1> QED
  BY <1>2, <1>5 DEF Rankable

\* What a search returns: the first of what it finds, by rank, no more than
\* the limit and no fewer than there are.
LEMMA SearchFacts ==
  ASSUME NEW q \in Request
  PROVE  LET list == Search(q)
             n    == Len(list)
             all  == Cardinality(Found(q)) IN
         /\ all \in Nat /\ n \in Nat /\ n <= all /\ n <= q.limit /\ (n = all \/ n = q.limit)
         /\ list \in Seq(Found(q)) /\ DOMAIN list = 1..n
         /\ \A k \in 1..n : list[k] \in Found(q) /\ Ahead(list[k], Found(q)) = k - 1
         /\ \A o \in Found(q) : Ahead(o, Found(q)) < n => \E k \in 1..n : list[k] = o
<1> DEFINE found == Found(q)
          n     == AtMost(Cardinality(found), q.limit)
<1>1. Rankable(found) /\ Cardinality(found) \in Nat
  BY FoundFacts, EveryRankTaken
<1>2. q.limit \in Nat
  <2>1. q.limit \in 1..100
    BY DEF Request
  <2> QED
    BY <2>1
<1>3. /\ n \in Nat /\ n <= Cardinality(found) /\ n <= q.limit
      /\ n = Cardinality(found) \/ n = q.limit
  BY <1>1, <1>2 DEF AtMost
<1>4. Search(q) = Sorted(n, found)
  BY DEF Search, Listed, Found
<1> HIDE DEF found, n
<1> DEFINE list == Sorted(n, found)
<1>5. /\ list \in Seq(found) /\ Len(list) = n /\ DOMAIN list = 1..n
      /\ \A k \in 1..n : list[k] \in found /\ Ahead(list[k], found) = k - 1
      /\ \A o \in found : Ahead(o, found) < n => \E k \in 1..n : list[k] = o
  BY <1>1, <1>3, SortedFacts
<1>6. Search(q) = list
  BY <1>4
<1> HIDE DEF list
<1> QED
  BY <1>1, <1>3, <1>5, <1>6 DEF found

\* With looser limits all that was found is found, and maybe more.
LEMMA FoundGrows ==
  ASSUME NEW q \in Request, NEW r \in Request,
         Looser(q.fare, r.fare), Looser(q.minutes, r.minutes),
         r = [q EXCEPT !.fare = r.fare, !.minutes = r.minutes]
  PROVE  Found(q) \subseteq Found(r)
<1>1. r.origin = q.origin /\ r.days = q.days /\ r.bahncard = q.bahncard
  BY DEF Request
<1>2. \A i \in DOMAIN Places : Options(r, i) = Options(q, i)
  <2>1. Card(r) = Card(q)
    BY <1>1 DEF Card
  <2>2. \A i : ByRail(r, i) = ByRail(q, i) /\ ByPlane(r, i) = ByPlane(q, i)
    BY <1>1, <2>1 DEF ByRail, ByPlane
  <2> QED
    BY <1>1, <2>2 DEF Options
<1>3. \A i \in DOMAIN Places : Best(r, i) = Best(q, i)
  BY <1>2 DEF Best
<1>4. ASSUME NEW o \in RowsOf, Fits(q, o) PROVE Fits(r, o)
  <2>1. o.minutes \in Nat /\ o.fare.low \in Nat
    BY DEF RowsOf
  <2>2. /\ q.fare \in Nat \cup {NoLimit} /\ r.fare \in Nat \cup {NoLimit}
        /\ q.minutes \in Nat \cup {NoLimit} /\ r.minutes \in Nat \cup {NoLimit}
    BY DEF Request
  <2>3. r.fare # NoLimit => o.fare.low <= r.fare
    BY <1>4, <2>1, <2>2 DEF Fits, Looser
  <2>4. r.minutes # NoLimit => o.minutes <= r.minutes
    BY <1>4, <2>1, <2>2 DEF Fits, Looser
  <2> QED
    BY <2>3, <2>4 DEF Fits
<1>5. Fitting(q) \subseteq Fitting(r)
  <2> SUFFICES ASSUME NEW i \in Fitting(q) PROVE i \in Fitting(r)
    OBVIOUS
  <2>1. i \in DOMAIN Places /\ Options(q, i) # {} /\ Fits(q, Best(q, i))
    BY DEF Fitting
  <2>2. Best(q, i) \in RowsOf
    BY <2>1, BestFacts
  <2>3. Fits(r, Best(r, i)) /\ Options(r, i) # {}
    BY <1>2, <1>3, <1>4, <2>1, <2>2
  <2> QED
    BY <2>1, <2>3 DEF Fitting
<1>6. \A i \in Fitting(q) : i \in DOMAIN Places
  BY DEF Fitting
<1> QED
  BY <1>3, <1>5, <1>6 DEF Found

\* Among more rows, no row has fewer ahead of it.
LEMMA RankGrows ==
  ASSUME NEW some, NEW more, Rankable(more), some \subseteq more, NEW o \in some
  PROVE  Ahead(o, some) <= Ahead(o, more)
<1> DEFINE These == {p \in some : Before(p, o)}
          Those == {p \in more : Before(p, o)}
<1>1. Those \in SUBSET more /\ These \in SUBSET Those
  OBVIOUS
<1>2. IsFiniteSet(Those)
  <2> HIDE DEF Those
  <2> QED
    BY <1>1, FS_Subset DEF Rankable
<1>3. Cardinality(These) <= Cardinality(Those)
  <2> HIDE DEF These, Those
  <2> QED
    BY <1>1, <1>2, FS_Subset
<1> QED
  BY <1>3 DEF Ahead

\* Of two rows the one of the lower rank costs no more.
LEMMA RankIsPrice ==
  ASSUME NEW found, Rankable(found), NEW o \in found, NEW p \in found,
         Ahead(o, found) <= Ahead(p, found)
  PROVE  o.fare.typical <= p.fare.typical
<1>1. Before(p, o) => Ahead(p, found) < Ahead(o, found)
  BY RankRises
<1>2. /\ Ahead(o, found) \in 0..(Cardinality(found) - 1)
      /\ Ahead(p, found) \in 0..(Cardinality(found) - 1)
  BY RankRises
<1>3. Cardinality(found) \in Nat
  BY EveryRankTaken
<1>4. ~Before(p, o)
  BY <1>1, <1>2, <1>3
<1>5. o \in RowsOf /\ p \in RowsOf
  BY DEF Rankable
<1> QED
  BY <1>4, <1>5, BeforeIsOrder

-----------------------------------------------------------------------------
(* The invariant: the list is what the search returns for the request.     *)

Answered == request \in Requests /\ rows = Search(request)

LEMMA AlwaysAnswered == Spec => []Answered
<1>1. Init => Answered
  BY DEF Init, Answered
<1>2. Answered /\ [Next]_vars => Answered'
  <2> SUFFICES ASSUME Answered, [Next]_vars PROVE Answered'
    OBVIOUS
  <2>1. ASSUME NEW q, Ask(q) PROVE Answered'
    <3>1. q \in Requests /\ request' = q /\ rows' = Search(q)
      BY <2>1 DEF Ask
    <3>2. rows' = Search(request')
      BY <3>1
    <3> QED
      BY <3>1, <3>2 DEF Answered
  <2>2. CASE ChangeLimits
    BY <2>1, <2>2 DEF ChangeLimits
  <2>3. CASE ChangeDays
    BY <2>1, <2>3 DEF ChangeDays
  <2>4. CASE ChangeTrip
    BY <2>1, <2>4 DEF ChangeTrip
  <2>5. CASE UNCHANGED vars
    BY <2>5 DEF vars, Answered, Search, Listed, Sorted, Fitting
  <2> QED
    BY <2>2, <2>3, <2>4, <2>5 DEF Next
<1> QED
  BY <1>1, <1>2, PTL DEF Spec

\* Whatever is asked: the fare bands are ranges, low to high, but for rides so
\* short that the saver's floor is above the flexible fare (fares.estimate).
THEOREM BandsAreAlwaysRanges == Spec => []BandsAreRanges
<1>1. Answered => BandsAreRanges
  <2> SUFFICES ASSUME Answered,
                      NEW c \in DOMAIN Tariffs, NEW km \in Distances, NEW long \in BOOLEAN
               PROVE  \/ Ordered(Estimate(10000 * km, c, request.days, long, Card(request)))
                      \/ long /\ Flex(TariffOf(c), 10000 * km) < TariffOf(c).saverFloor
    BY DEF BandsAreRanges, Ordered
  <2>1. request.days \in 0..365
    BY ShortlistAssumption DEF Answered, Request
  <2>2. km \in Nat
    BY ShortlistAssumption
  <2> QED
    <3>1. request.days \in Nat /\ 10000 * km \in Nat
      BY <2>1, <2>2
    <3> HIDE DEF Ordered
    <3> QED
      BY <3>1, EstimateOrdered
<1> QED
  BY <1>1, AlwaysAnswered, PTL

\* Whatever the table and the requests: a search answers no more rows than it
\* is asked for, each of a place, with whole cents and minutes (search).
THEOREM RowsAreTyped == Spec => []TypeOK
<1>1. Answered => TypeOK
  <2> SUFFICES ASSUME Answered PROVE TypeOK
    OBVIOUS
  <2>1. request \in Requests /\ request \in Request /\ rows = Search(request)
    BY ShortlistAssumption DEF Answered
  <2>2. Found(request) \subseteq RowsOf
    BY <2>1, FoundFacts DEF Rankable
  <2>3. rows \in Seq(Found(request)) /\ Len(rows) <= request.limit
    BY <2>1, SearchFacts
  <2>4. rows \in Seq(RowsOf)
    BY <2>2, <2>3
  <2> QED
    BY <2>1, <2>3, <2>4 DEF TypeOK, RowsOf
<1> QED
  BY <1>1, AlwaysAnswered, PTL

\* Whatever the table and the requests: the list is in order and has no place
\* twice, and a place that is not on it is beyond a limit, or no better than
\* the last row of a full list (search: the sort, then the cut).
THEOREM RowsAreTheBest == Spec => []RowsAreBest
<1>1. Answered => RowsAreBest
  <2> SUFFICES ASSUME Answered PROVE RowsAreBest
    OBVIOUS
  <2> DEFINE found == Found(request)
  <2>1. request \in Request /\ rows = Search(request)
    BY ShortlistAssumption DEF Answered
  <2>2. /\ Rankable(found)
        /\ \A o \in found : o.place \in Fitting(request) /\ o = Best(request, o.place)
        /\ \A i \in Fitting(request) : Best(request, i) \in found
    BY <2>1, FoundFacts
  <2>3. /\ Len(rows) \in Nat /\ Len(rows) <= Cardinality(found) /\ DOMAIN rows = 1..Len(rows)
        /\ Len(rows) = Cardinality(found) \/ Len(rows) = request.limit
        /\ \A k \in 1..Len(rows) : rows[k] \in found /\ Ahead(rows[k], found) = k - 1
        /\ \A o \in found : Ahead(o, found) < Len(rows) => \E k \in 1..Len(rows) : rows[k] = o
    BY <2>1, SearchFacts
  <2> HIDE DEF found
  <2>4. ASSUME NEW k \in DOMAIN rows, NEW l \in DOMAIN rows, k < l
        PROVE  rows[k].fare.typical <= rows[l].fare.typical /\ rows[k].place # rows[l].place
    <3>1. k \in Nat /\ l \in Nat /\ k \in 1..Len(rows) /\ l \in 1..Len(rows)
      BY <2>3
    <3>2. /\ rows[k] \in found /\ Ahead(rows[k], found) = k - 1
          /\ rows[l] \in found /\ Ahead(rows[l], found) = l - 1
      BY <2>3, <3>1
    <3>3. Ahead(rows[k], found) <= Ahead(rows[l], found) /\ rows[k] # rows[l]
      BY <2>4, <3>1, <3>2
    <3>4. rows[k].fare.typical <= rows[l].fare.typical
      BY <2>2, <3>2, <3>3, RankIsPrice
    <3> QED
      BY <2>2, <3>2, <3>3, <3>4 DEF Rankable
  <2>5. ASSUME NEW i \in DOMAIN Places, NEW o \in Options(request, i)
        PROVE  \/ \E k \in DOMAIN rows : rows[k].place = i
               \/ \E p \in Options(request, i) :
                    p.fare.typical <= o.fare.typical /\ ~Fits(request, p)
               \/ /\ Len(rows) = request.limit
                  /\ rows[Len(rows)].fare.typical <= o.fare.typical
    <3> DEFINE best == Best(request, i)
    <3>1. /\ best \in Options(request, i) /\ best.fare.typical <= o.fare.typical
          /\ best \in RowsOf /\ best.place = i
      BY <2>1, BestFacts
    <3> HIDE DEF best
    <3>2. CASE ~Fits(request, best)
      BY <3>1, <3>2
    <3>3. CASE Fits(request, best)
      <4>1. best \in found
        <5>1. i \in Fitting(request)
          BY <3>1, <3>3 DEF Fitting, best
        <5> QED
          BY <2>2, <5>1 DEF best
      <4>2. CASE Ahead(best, found) < Len(rows)
        BY <2>3, <3>1, <4>1, <4>2
      <4>3. CASE ~(Ahead(best, found) < Len(rows))
        <5>1. Ahead(best, found) \in 0..(Cardinality(found) - 1) /\ Cardinality(found) \in Nat
          BY <2>2, <4>1, RankRises, EveryRankTaken
        <5>2. Len(rows) = request.limit /\ Len(rows) >= 1
          <6>1. request.limit \in Nat /\ request.limit >= 1
            BY <2>1, RequestFacts
          <6> QED
            BY <2>3, <4>3, <5>1, <6>1
        <5>3. /\ Len(rows) \in 1..Len(rows) /\ rows[Len(rows)] \in found
              /\ Ahead(rows[Len(rows)], found) = Len(rows) - 1
          BY <2>3, <5>2
        <5>4. Ahead(rows[Len(rows)], found) <= Ahead(best, found)
          BY <2>3, <4>3, <5>1, <5>3
        <5>5. rows[Len(rows)].fare.typical <= best.fare.typical
          BY <2>2, <4>1, <5>3, <5>4, RankIsPrice
        <5>6. /\ rows[Len(rows)].fare.typical \in Nat /\ best.fare.typical \in Nat
              /\ o.fare.typical \in Nat
          <6>1. o \in RowsOf /\ rows[Len(rows)] \in RowsOf
            BY <2>1, <2>2, <5>3, OptionFacts DEF Rankable
          <6> QED
            BY <3>1, <6>1 DEF RowsOf
        <5> QED
          BY <3>1, <5>2, <5>5, <5>6
      <4> QED
        BY <4>2, <4>3
    <3> QED
      BY <3>2, <3>3
  <2> QED
    BY <2>4, <2>5 DEF RowsAreBest
<1> QED
  BY <1>1, AlwaysAnswered, PTL

\* Whatever the table and the requests: with looser limits there are as many
\* rows, and none down the list costs more (search, asked again by the page).
THEOREM LooseningAlwaysHelps == Spec => LooseningHelps
<1> DEFINE Loosened ==
            /\ Looser(request.fare, request'.fare)
            /\ Looser(request.minutes, request'.minutes)
            /\ request' = [request EXCEPT !.fare = request'.fare,
                                          !.minutes = request'.minutes]
          Helped == \A k \in DOMAIN rows :
                      k \in DOMAIN rows' /\ rows'[k].fare.typical <= rows[k].fare.typical
<1>1. Answered /\ Answered' /\ Loosened => Helped
  <2> SUFFICES ASSUME Answered, Answered', Loosened, NEW k \in DOMAIN rows
               PROVE  k \in DOMAIN rows' /\ rows'[k].fare.typical <= rows[k].fare.typical
    OBVIOUS
  <2>1. /\ request \in Request /\ rows = Search(request)
        /\ request' \in Request /\ rows' = Search(request')
    <3>1. request \in Request /\ rows = Search(request)
      BY ShortlistAssumption DEF Answered
    <3>2. Answered' => request' \in Requests /\ rows' = Search(request')
      BY DEF Answered, Search, Listed, Sorted, Fitting
    <3> QED
      BY <3>1, <3>2, ShortlistAssumption
  <2> DEFINE some == Found(request)
             more == Found(request')
  <2>2. Rankable(some) /\ Rankable(more) /\ some \subseteq more
    BY <2>1, FoundFacts, FoundGrows
  <2>3. /\ Cardinality(some) \in Nat /\ Cardinality(more) \in Nat
        /\ Cardinality(some) <= Cardinality(more)
    <3>1. Cardinality(some) \in Nat /\ Cardinality(more) \in Nat
      BY <2>2, EveryRankTaken
    <3> HIDE DEF some, more
    <3> QED
      BY <2>2, <3>1, FS_Subset DEF Rankable
  <2>4. /\ Len(rows) \in Nat /\ Len(rows) <= Cardinality(some) /\ DOMAIN rows = 1..Len(rows)
        /\ Len(rows) <= request.limit
        /\ \A l \in 1..Len(rows) : rows[l] \in some /\ Ahead(rows[l], some) = l - 1
    BY <2>1, SearchFacts
  <2>5. /\ Len(rows') \in Nat /\ DOMAIN rows' = 1..Len(rows')
        /\ Len(rows') = Cardinality(more) \/ Len(rows') = request'.limit
        /\ \A l \in 1..Len(rows') : rows'[l] \in more /\ Ahead(rows'[l], more) = l - 1
    BY <2>1, SearchFacts
  <2>6. request'.limit = request.limit /\ request.limit \in Nat
    <3>1. request.limit \in 1..100
      BY <2>1 DEF Request
    <3>2. request'.limit = request.limit
      BY <2>1 DEF Request
    <3> QED
      BY <3>1, <3>2
  <2> HIDE DEF some, more
  <2>7. k \in 1..Len(rows) /\ k \in 1..Len(rows') /\ k \in Nat
    BY <2>3, <2>4, <2>5, <2>6
  <2>8. /\ rows[k] \in some /\ Ahead(rows[k], some) = k - 1
        /\ rows'[k] \in more /\ Ahead(rows'[k], more) = k - 1
    BY <2>4, <2>5, <2>7
  <2>9. Ahead(rows'[k], more) <= Ahead(rows[k], more)
    <3>1. Ahead(rows[k], some) <= Ahead(rows[k], more)
      BY <2>2, <2>8, RankGrows
    <3> QED
      BY <2>8, <3>1
  <2>10. rows[k] \in more
    BY <2>2, <2>8
  <2>11. rows'[k].fare.typical <= rows[k].fare.typical
    BY <2>2, <2>8, <2>9, <2>10, RankIsPrice
  <2> QED
    BY <2>5, <2>7, <2>11
<1>2. Answered /\ Answered' => [Loosened => Helped]_vars
  BY <1>1
<1> QED
  BY <1>2, AlwaysAnswered, PTL DEF LooseningHelps

\* Whatever the table, the curve and the requests: the same trip booked
\* earlier costs no more, place by place (fares.estimate, _flight_fare_cents
\* and the choice between the two).
THEOREM EarlierIsNeverDearer == Spec => EarlierNeverDearer
<1> DEFINE Earlier == /\ request'.days >= request.days
                      /\ request' = [request EXCEPT !.days = request'.days]
          NoDearer == \A k \in DOMAIN rows, l \in DOMAIN rows' :
                        rows[k].place = rows'[l].place
                        => rows'[l].fare.typical <= rows[k].fare.typical
<1>1. Answered /\ Answered' /\ Earlier => NoDearer
  <2> SUFFICES ASSUME Answered, Answered', Earlier,
                      NEW k \in DOMAIN rows, NEW l \in DOMAIN rows',
                      rows[k].place = rows'[l].place
               PROVE  rows'[l].fare.typical <= rows[k].fare.typical
    OBVIOUS
  <2>1. /\ request \in Request /\ rows = Search(request)
        /\ request' \in Request /\ rows' = Search(request')
    <3>1. request \in Request /\ rows = Search(request)
      BY ShortlistAssumption DEF Answered
    <3>2. Answered' => request' \in Requests /\ rows' = Search(request')
      BY DEF Answered, Search, Listed, Sorted, Fitting
    <3> QED
      BY <3>1, <3>2, ShortlistAssumption
  <2> DEFINE i == rows[k].place
  <2>2. rows[k] \in Found(request) /\ rows'[l] \in Found(request')
    BY <2>1, SearchFacts
  <2>3. /\ i \in Fitting(request) /\ rows[k] = Best(request, i)
        /\ i \in Fitting(request') /\ rows'[l] = Best(request', i)
    BY <2>1, <2>2, FoundFacts
  <2> HIDE DEF i
  <2>4. i \in DOMAIN Places /\ Options(request, i) # {} /\ Options(request', i) # {}
    BY <2>3 DEF Fitting
  <2>5. rows[k] \in Options(request, i)
    BY <2>1, <2>3, <2>4, BestFacts
  <2>6. request.days \in Nat /\ request'.days \in Nat /\ request.days <= request'.days
    <3>1. request.days \in Nat /\ request'.days \in Nat
      BY <2>1, <2>4, RequestFacts
    <3> QED
      BY <3>1
  <2>7. PICK p \in Options(request', i) : p.fare.typical <= rows[k].fare.typical
    BY <2>1, <2>4, <2>5, <2>6, OptionsFall
  <2>8. rows'[l].fare.typical <= p.fare.typical
    BY <2>1, <2>3, <2>4, BestFacts
  <2>9. /\ rows[k].fare.typical \in Nat /\ p.fare.typical \in Nat
        /\ rows'[l].fare.typical \in Nat
    <3>1. rows[k] \in RowsOf /\ p \in RowsOf /\ rows'[l] \in RowsOf
      BY <2>1, <2>3, <2>4, <2>5, <2>7, OptionFacts, BestFacts
    <3> QED
      BY <3>1 DEF RowsOf
  <2> QED
    BY <2>7, <2>8, <2>9
<1>2. Answered /\ Answered' => [Earlier => NoDearer]_vars
  BY <1>1
<1> QED
  BY <1>2, AlwaysAnswered, PTL DEF EarlierNeverDearer
=============================================================================
