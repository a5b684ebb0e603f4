-------------------------------- MODULE Fares --------------------------------
(***************************************************************************)
(* What a trip costs, when nobody says: the fare bands of                  *)
(* backend/app/fares.py and the flight fare of anywhere.py.                *)
(*                                                                         *)
(* Money is whole cents, a share or a position on a curve is hundredths, a *)
(* factor is ten-thousandths.  Floating point is taken for exact fractions,*)
(* rounded where the code rounds.                                          *)
(***************************************************************************)
EXTENDS Sequences, Rounding

CONSTANTS Tariffs,   \* TARIFFS: the tariff of each country that has one
          Curve      \* _ADVANCE_CURVE: positions by days ahead, latest last

Tariff ==
  [base : Nat, perKm : Nat, saverFloor : Nat, shareMin : 0..100,
   shareMax : 0..100, regionalPerKm : Nat, regionalFloor : Nat]

ASSUME FaresAssumption ==
  /\ "DE" \in DOMAIN Tariffs
  /\ \A c \in DOMAIN Tariffs : Tariffs[c] \in Tariff
  /\ Curve \in Seq([days : Nat, pos : 0..100])
  /\ Curve # <<>> /\ Curve[Len(Curve)].days = 0
  /\ \A i, j \in DOMAIN Curve : i < j => /\ Curve[i].days > Curve[j].days
                                         /\ Curve[i].pos <= Curve[j].pos

AtLeast(a, b) == IF a < b THEN b ELSE a
AtMost(a, b)  == IF a > b THEN b ELSE a

TariffOf(country) == Tariffs[IF country \in DOMAIN Tariffs THEN country ELSE "DE"]

\* Broken: the interpolation runs from the wrong end.
BetweenReversed(early, late, days) ==
  [num |-> late.pos * (early.days - late.days)
             + (early.pos - late.pos) * (early.days - days),
   den |-> early.days - late.days]

\* The position between two points of the curve, as a fraction.
Between(early, late, days) ==
  [num |-> late.pos * (early.days - late.days)
             + (early.pos - late.pos) * (days - late.days),
   den |-> early.days - late.days]

\* _advance_position: 0 is the cheapest saver, 100 the flexible fare only.
Position(days) ==
  LET i == CHOOSE k \in DOMAIN Curve :
             days >= Curve[k].days /\ \A l \in 1..(k - 1) : days < Curve[l].days IN
  IF i = 1 \/ days = Curve[i].days THEN [num |-> Curve[i].pos, den |-> 1]
                                   ELSE Between(Curve[i - 1], Curve[i], days)

\* A share of the flexible fare that moves from least to all of it.
ShareOf(flex, least, at) ==
  RoundDiv(flex * (100 * least * at.den + (100 - least) * at.num),
           10000 * at.den)

Flex(tariff, route) == tariff.base + RoundDiv(tariff.perKm * route, 10000)

Band(low, typical, high) == [low |-> low, typical |-> typical, high |-> high]
NoBand == Band(-1, -1, -1)

LongBand(tariff, route, days) ==
  LET flex == Flex(tariff, route)
      low  == AtLeast(ShareOf(flex, tariff.shareMin, Position(days)),
                      tariff.saverFloor)
      high == AtMost(AtLeast(ShareOf(flex, tariff.shareMax, Position(days)), low),
                     flex) IN
  Band(low, RoundDiv(low + high, 2), high)

RegionalBand(tariff, route) ==
  LET fare == AtLeast(RoundDiv(tariff.regionalPerKm * route, 10000),
                      tariff.regionalFloor) IN
  Band(fare, fare, fare)

\* Broken: the discount leaves the lower end out.
ScaledAbove(band, n, d) ==
  Band(band.low, RoundDiv(n * band.typical, d), RoundDiv(n * band.high, d))

Scaled(band, n, d) ==
  Band(RoundDiv(n * band.low, d), RoundDiv(n * band.typical, d),
       RoundDiv(n * band.high, d))

\* A BahnCard takes a quarter or a half off all three.
Discounted(band, bahncard) ==
  CASE bahncard = 25 -> Scaled(band, 3, 4)
    [] bahncard = 50 -> Scaled(band, 1, 2)
    [] OTHER -> band

\* estimate, for a route in ten-thousandths of a kilometre: none below 5 km,
\* and no discount on a regional fare.
Estimate(route, country, days, long, bahncard) ==
  LET tariff == TariffOf(country) IN
  IF route < 5 * 10000 THEN NoBand
  ELSE IF long THEN Discounted(LongBand(tariff, route, days), bahncard)
       ELSE RegionalBand(tariff, route)

\* _flight_fare_cents, and the band around it.
FlightMult(days) ==
  IF days >= 60 THEN 85 ELSE IF days >= 30 THEN 100 ELSE IF days >= 14 THEN 125
  ELSE IF days >= 7 THEN 170 ELSE 240

FlightBand(km, days) ==
  LET fare == AtLeast(RoundDiv((6400 + 11 * km) * FlightMult(days), 200), 3500) IN
  Band(RoundDiv(7 * fare, 10), fare, RoundDiv(16 * fare, 10))
=============================================================================
