------------------------------ MODULE MCShortlist ------------------------------
(* Instances of Shortlist for TLC, with figures of the code's own tables.  *)
EXTENDS Shortlist

MCTariff(base, perKm, floor, least, most, regional, regionalFloor) ==
  [base |-> base, perKm |-> perKm, saverFloor |-> floor, shareMin |-> least,
   shareMax |-> most, regionalPerKm |-> regional, regionalFloor |-> regionalFloor]

MCTariffs ==
  [c \in {"DE", "NL", "PL"} |->
     CASE c = "DE" -> MCTariff(1000, 28, 1790, 25, 75, 22, 290)
       [] c = "NL" -> MCTariff(1000, 25, 1600, 55, 100, 24, 290)
       [] c = "PL" -> MCTariff(600, 14, 900, 35, 90, 12, 180)]

MCCurve ==
  LET at(days, pos) == [days |-> days, pos |-> pos] IN
  <<at(60, 0), at(30, 12), at(21, 25), at(14, 42), at(7, 60), at(3, 80),
    at(1, 92), at(0, 100)>>

MCSpeeds  == [c \in {"DE", "NL", "PL", "IE"} |->
                CASE c = "DE" -> 112 [] c = "NL" -> 120 [] c = "PL" -> 92 [] c = "IE" -> 70]
MCRegions == [c \in {"DE", "NL", "PL", "IE", "ES"} |->
                CASE c = "PL" -> "E" [] c = "IE" -> "X" [] c = "ES" -> "I" [] OTHER -> "C"]

\* A suburb or a neighbour, a place at the edge of flying, two far ones and
\* one without a railway.
MCPlaces ==
  LET place(country, rail) == [country |-> country, rail |-> rail] IN
  <<place("NL", 90), place("DE", 100), place("PL", 60), place("ES", 80),
    place("IE", 50)>>
MCKm ==
  [o \in {"west", "east"} |-> IF o = "west" THEN <<99, 400, 600, 480, 700>>
                                           ELSE <<620, 100, 20, 440, 1100>>]
MCAround == [o \in {"west", "east"} |-> IF o = "west" THEN {1} ELSE {3}]

\* Days on and between the points of the curve and the steps of the flights.
MCRequests ==
  [origin : {"west", "east"}, days : {0, 2, 10, 22, 29, 30, 60},
   fare : {6000, 9000, NoLimit}, minutes : {330, 700, NoLimit},
   bahncard : {0, 25, 50}, limit : {2, 5}]
=============================================================================
