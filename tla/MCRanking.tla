------------------------------ MODULE MCRanking ------------------------------
(* Instances of Ranking for TLC.                                           *)
EXTENDS Ranking

\* Four costs for each of three modes: below zero, 10 twice, once by the cap
\* of the credit and once not, and far behind at a low fare.
MCOffers ==
  {[mode |-> m, fare |-> c[1], time |-> c[2], workable |-> c[3],
    carbon |-> 1, hassle |-> 2] :
     m \in {"rail", "night_rail", "coach"},
     c \in {<<-60, 20, 0>>, <<7, 50, 80>>, <<2, 5, 0>>, <<5, 2500, 10>>}}
=============================================================================
