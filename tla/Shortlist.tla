------------------------------ MODULE Shortlist ------------------------------
(***************************************************************************)
(* GET /api/anywhere: the search of backend/app/anywhere.py and its        *)
(* handler in main.py, asked again and again with other limits by somebody *)
(* on the tab Anywhere.  Nothing is fetched: a place is priced from its    *)
(* distance, by train and by plane, and the cheaper of the two stands for  *)
(* it in the list.                                                         *)
(*                                                                         *)
(* A distance is whole kilometres and a time whole minutes.                *)
(***************************************************************************)
EXTENDS Fares, FiniteSets

CONSTANTS Places,    \* DESTINATIONS, in their order
          Km,        \* Km[o][i]: from origin o to Places[i]
          Around,    \* Around[o]: the places within the box around o
          Speeds,    \* RAIL_SPEED, of the countries that have one
          Regions,   \* REGION
          Requests,  \* the requests that are made
          Distances, \* of the rides that are priced one by one, in km
          NoLimit    \* max_fare or max_hours is not given

Request ==
  [origin : DOMAIN Km, days : 0..365, fare : Nat \cup {NoLimit},
   minutes : Nat \cup {NoLimit}, bahncard : 0..50, limit : 1..100]

ASSUME ShortlistAssumption ==
  /\ Places \in Seq([country : STRING, rail : 0..100])
  /\ \A o \in DOMAIN Km : Km[o] \in [DOMAIN Places -> Nat]
  /\ Around \in [DOMAIN Km -> SUBSET DOMAIN Places]
  /\ \A c \in DOMAIN Speeds : Speeds[c] \in Nat \ {0}
  /\ NoLimit \notin Nat
  /\ Requests \subseteq Request
  /\ Distances \subseteq Nat

VARIABLES
  request,  \* the request answered last
  rows      \* its destinations

vars == <<request, rows>>

-----------------------------------------------------------------------------
(* What a place costs and how long it takes.                               *)

RegionOf(country) == IF country \in DOMAIN Regions THEN Regions[country] ELSE "C"
SpeedOf(country)  == IF country \in DOMAIN Speeds THEN Speeds[country] ELSE 95

\* EXTRA_DETOUR, 100 for the regions that have none.
Extra(region) ==
  CASE region = "I" -> 135 [] region = "B" -> 150 [] region = "N" -> 125
    [] region = "W" -> 110 [] OTHER -> 100

\* _rail_detour.
Detour(a, b) ==
  LET ra == RegionOf(a)
      rb == RegionOf(b) IN
  122 * (IF ra = rb THEN 100
         ELSE IF Extra(ra) # 100 THEN Extra(ra)
         ELSE IF Extra(rb) # 100 THEN Extra(rb) ELSE 112)

Changes(km) ==
  IF km < 330 THEN 0 ELSE IF km < 700 THEN 1 ELSE IF km < 1200 THEN 2 ELSE 3

\* _rail_hours: the mean of both speeds, slowed down by poor connections.
RailMinutes(km, a, b, rail) ==
  (24 * km * Detour(a, b)) \div (5 * (SpeedOf(a) + SpeedOf(b)) * (300 + rail))
    + 36 + 27 * Changes(km)

\* _flight_hours.
FlightMinutes(km) == 231 + km \div 13

\* The handler's country of the origin: that of the first place around it.
CountryOf(o) ==
  IF Around[o] = {} THEN "DE"
  ELSE Places[CHOOSE i \in Around[o] : \A j \in Around[o] : i <= j].country

RailBlocked(i) ==
  /\ Places[i].country \in DOMAIN Regions
  /\ Regions[Places[i].country] \in {"X", "F", "L"}

\* The handler knows two cards.
Card(q) == IF q.bahncard \in {25, 50} THEN q.bahncard ELSE 0

Row(i, mode, minutes, fare) ==
  [place |-> i, mode |-> mode, minutes |-> minutes, fare |-> fare]

ByRail(q, i) ==
  LET km   == Km[q.origin][i]
      from == CountryOf(q.origin)
      to   == Places[i].country IN
  Row(i, "rail", RailMinutes(km, from, to, Places[i].rail),
      Estimate(km * Detour(from, to), to, q.days, TRUE, Card(q)))

ByPlane(q, i) ==
  Row(i, "flight", FlightMinutes(Km[q.origin][i]),
      FlightBand(Km[q.origin][i], q.days))

\* The ways to get there, none below 100 km.
Options(q, i) ==
  LET km == Km[q.origin][i] IN
  IF km < 100 THEN {}
  ELSE (IF RailBlocked(i) THEN {} ELSE {ByRail(q, i)})
         \cup (IF km >= 400 \/ RailBlocked(i) THEN {ByPlane(q, i)} ELSE {})

\* Whichever mode is cheaper, the train of two that cost the same.
Best(q, i) ==
  CHOOSE o \in Options(q, i) : \A p \in Options(q, i) :
    \/ o.fare.typical < p.fare.typical
    \/ o.fare.typical = p.fare.typical /\ (p = o \/ o.mode = "rail")

\* Within both limits: the lower end of the fare, and the time.
Fits(q, o) ==
  /\ q.fare # NoLimit => o.fare.low <= q.fare
  /\ q.minutes # NoLimit => o.minutes <= q.minutes

Fitting(q) == {i \in DOMAIN Places : Options(q, i) # {} /\ Fits(q, Best(q, i))}

\* Broken: the quickest first.
BeforeByTime(o, p) ==
  o.minutes < p.minutes \/ (o.minutes = p.minutes /\ o.place < p.place)

\* The cheapest first, the quicker of equals; the sort is stable.
Before(o, p) ==
  \/ o.fare.typical < p.fare.typical
  \/ /\ o.fare.typical = p.fare.typical
     /\ o.minutes < p.minutes \/ (o.minutes = p.minutes /\ o.place < p.place)

\* How many of those found come before o.
Ahead(o, found) == Cardinality({p \in found : Before(p, o)})

Sorted(n, found) == [k \in 1..n |-> CHOOSE o \in found : Ahead(o, found) = k - 1]

\* Broken: the cut is off by one.
CutLate(q, found) == Sorted(AtMost(Cardinality(found), q.limit + 1), found)

\* Broken: the list is cut before it is sorted.
CutFirst(q, found) ==
  LET kept == {o \in found : Cardinality({p \in found : p.place < o.place}) < q.limit} IN
  Sorted(Cardinality(kept), kept)

\* Sorted, then cut.
Listed(q, found) == Sorted(AtMost(Cardinality(found), q.limit), found)

\* search.
Search(q) == Listed(q, {Best(q, i) : i \in Fitting(q)})

-----------------------------------------------------------------------------
Init == request \in Requests /\ rows = Search(request)

Ask(q) == q \in Requests /\ request' = q /\ rows' = Search(q)

\* The traveller changes what the page offers to change, and searches again.
ChangeLimits ==
  \E q \in Requests : q = [request EXCEPT !.fare = q.fare, !.minutes = q.minutes] /\ Ask(q)

ChangeDays ==
  \E q \in Requests : q = [request EXCEPT !.days = q.days] /\ Ask(q)

\* Another trip, or another caller.
ChangeTrip ==
  \E q \in Requests : /\ q = [q EXCEPT !.days = request.days, !.fare = request.fare,
                                    !.minutes = request.minutes]
                     /\ Ask(q)

Next == ChangeLimits \/ ChangeDays \/ ChangeTrip

Spec == Init /\ [][Next]_vars

-----------------------------------------------------------------------------
(* Properties.                                                             *)

TypeOK ==
  /\ request \in Requests
  /\ rows \in Seq([place : DOMAIN Places, mode : {"rail", "flight"},
                   minutes : Nat, fare : [low : Nat, typical : Nat, high : Nat]])
  /\ Len(rows) <= request.limit

\* The list is the best that fits, as if every place had been looked at in
\* turn: it is in order, no place is on it twice, and a place that is not is
\* beyond a limit whichever way of the same fare it is reached, or no better
\* than the last row of a list that is full.
RowsAreBest ==
  /\ \A k, l \in DOMAIN rows : k < l =>
       /\ rows[k].fare.typical <= rows[l].fare.typical
       /\ rows[k].place # rows[l].place
  /\ \A i \in DOMAIN Places : \A o \in Options(request, i) :
       \/ \E k \in DOMAIN rows : rows[k].place = i
       \/ \E p \in Options(request, i) :
            p.fare.typical <= o.fare.typical /\ ~Fits(request, p)
       \/ /\ Len(rows) = request.limit
          /\ rows[Len(rows)].fare.typical <= o.fare.typical

\* A limit b that is no tighter than a.
Looser(a, b) == b = NoLimit \/ (a # NoLimit /\ a <= b)

\* "Try loosening one" never makes the list worse: with the same trip and
\* looser limits there are as many rows, and each place down the list costs
\* no more than the one that was there.
LooseningHelps ==
  [][/\ Looser(request.fare, request'.fare)
     /\ Looser(request.minutes, request'.minutes)
     /\ request' = [request EXCEPT !.fare = request'.fare, !.minutes = request'.minutes]
     => \A k \in DOMAIN rows :
          k \in DOMAIN rows' /\ rows'[k].fare.typical <= rows[k].fare.typical]_vars

\* The same trip booked earlier never costs more: by the curve of the savers,
\* by the steps of the flight fares, and when one overtakes the other.
EarlierNeverDearer ==
  [][/\ request'.days >= request.days
     /\ request' = [request EXCEPT !.days = request'.days]
     => \A k \in DOMAIN rows, l \in DOMAIN rows' :
          rows[k].place = rows'[l].place
          => rows'[l].fare.typical <= rows[k].fare.typical]_vars

\* A band is a range, low to high with the typical fare between, except for
\* rides so short that the advertised saver costs more than the full fare:
\* at any distance, in any country, with any card.
BandsAreRanges ==
  \A c \in DOMAIN Tariffs, km \in Distances, long \in BOOLEAN :
    LET b == Estimate(10000 * km, c, request.days, long, Card(request)) IN
    \/ b.low <= b.typical /\ b.typical <= b.high
    \/ long /\ Flex(TariffOf(c), 10000 * km) < TariffOf(c).saverFloor
=============================================================================
