------------------------------- MODULE Ranking -------------------------------
(***************************************************************************)
(* The ranking of one search (backend/app/scoring.py) and the trimming of  *)
(* the list (_trim in backend/app/planner.py): the itineraries the         *)
(* providers found, in the order they came, are sorted by generalised      *)
(* cost, matched against the best of them, and thinned out mode by mode.   *)
(*                                                                         *)
(* An itinerary is its mode and the whole cents its generalised cost is    *)
(* made of; the tables of discomfort, hassle and emissions behind them are *)
(* left out.  The fare can be negative: a night train credits the hotel.   *)
(***************************************************************************)
EXTENDS Rounding, Sequences, FiniteSets

CONSTANTS Offers,     \* the itineraries a provider can return
          MaxPool     \* bound: itineraries of one search

Modes == {"rail", "rail_regional", "night_rail", "coach", "air"}

\* workable is the productivity credit before its cap.
Itinerary == [mode : Modes, fare : Int, time : Nat, workable : Nat,
              carbon : Nat, hassle : Nat]

ASSUME RankingAssumption == Offers \subseteq Itinerary /\ MaxPool \in Nat

\* PER_MODE_LIMIT.
Limit(m) == IF m = "rail" THEN 2 ELSE 1

\* Never credited more than the time cost itself.
Credit(it) == IF it.workable < it.time THEN it.workable ELSE it.time

Cost(it) == it.fare + it.time - Credit(it) + it.carbon + it.hassle

VARIABLES
  pool,     \* the itineraries found
  phase,    \* "ranking", "trimming" or "done"
  order,    \* order[k]: the place in the pool of the k-th row
  match,    \* match[k]: the match of the k-th row
  next,     \* the row _trim looks at
  seen,     \* seen[m]: rows of the mode kept so far
  kept      \* the rows kept, which stay in their order

vars == <<pool, phase, order, match, next, seen, kept>>

Pools == UNION {[1..n -> Offers] : n \in 0..MaxPool}
Rows  == DOMAIN order
Row(k) == pool[order[k]]

TypeOK ==
  /\ pool \in Pools
  /\ phase \in {"ranking", "trimming", "done"}
  /\ order \in UNION {[1..n -> 1..Len(pool)] : n \in {0, Len(pool)}}
  /\ match \in [DOMAIN order -> 1..100]
  /\ next \in 1..(Len(order) + 1)
  /\ seen \in [Modes -> 0..2] /\ \A m \in Modes : seen[m] <= Limit(m)
  /\ kept \subseteq 1..(next - 1)

Init ==
  /\ pool \in Pools
  /\ phase = "ranking"
  /\ order = <<>>
  /\ match = <<>>
  /\ next = 1
  /\ seen = [m \in Modes |-> 0]
  /\ kept = {}

\* Broken: sorted by the fare, not by the generalised cost.
BeforeByFare(i, j) ==
  pool[i].fare < pool[j].fare \/ (pool[i].fare = pool[j].fare /\ i < j)

\* rows.sort is stable: of two equal costs the one that came first goes first.
Before(i, j) ==
  Cost(pool[i]) < Cost(pool[j]) \/ (Cost(pool[i]) = Cost(pool[j]) /\ i < j)

Orders ==
  LET n == Len(pool) IN
  {p \in [1..n -> 1..n] : /\ \A i \in 1..n : \E k \in 1..n : p[k] = i
                          /\ \A k, l \in 1..n : k < l => Before(p[k], p[l])}

AtLeast1(x) == IF x < 1 THEN 1 ELSE x

\* Broken: a match far behind the best rounds to nothing.
MatchUnclamped(best, cost) ==
  LET m == RoundDiv(100 * best, AtLeast1(cost)) IN IF m > 100 THEN 100 ELSE m

\* The match of a cost, against the best one.
MatchOf(best, cost) ==
  LET m == RoundDiv(100 * best, AtLeast1(cost)) IN
  IF m > 100 THEN 100 ELSE AtLeast1(m)

\* Broken: a best cost below zero is taken as it is.
BestAsItIs(cost) == cost

\* The cost the others are matched against, a division by nothing avoided.
Best(cost) == AtLeast1(cost)

\* rank: sort, then match every row against the first.
Rank ==
  /\ phase = "ranking"
  /\ order' \in Orders
  /\ LET best == Best(Cost(pool[order'[1]])) IN
     match' = [k \in DOMAIN order' |-> MatchOf(best, Cost(pool[order'[k]]))]
  /\ phase' = "trimming"
  /\ UNCHANGED <<pool, next, seen, kept>>

Trimming == phase = "trimming" /\ next <= Len(order)

\* Broken: the limit is taken for one row more.
FullLate(m) == seen[m] > Limit(m)

Full(m) == seen[m] >= Limit(m)

\* A row of a mode that has not reached its limit is kept.
Keep ==
  /\ Trimming /\ ~Full(Row(next).mode)
  /\ seen' = [seen EXCEPT ![Row(next).mode] = @ + 1]
  /\ kept' = kept \cup {next}
  /\ next' = next + 1
  /\ UNCHANGED <<pool, phase, order, match>>

Drop ==
  /\ Trimming /\ Full(Row(next).mode)
  /\ next' = next + 1
  /\ UNCHANGED <<pool, phase, order, match, seen, kept>>

Finish ==
  /\ phase = "trimming" /\ next = Len(order) + 1
  /\ phase' = "done"
  /\ UNCHANGED <<pool, order, match, next, seen, kept>>

Shown == phase = "done" /\ UNCHANGED vars

Next == Rank \/ Keep \/ Drop \/ Finish \/ Shown

Spec == Init /\ [][Next]_vars

-----------------------------------------------------------------------------
(* Properties.                                                             *)

RowsOf(m) == {k \in Rows : Row(k).mode = m}

\* Trimming keeps the best of every mode, up to its limit: as many rows as
\* there are or as the mode may have, and none behind one that was dropped.
TrimKeepsTheBest ==
  phase = "done" => \A m \in Modes :
    /\ Cardinality(kept \cap RowsOf(m)) =
         IF Cardinality(RowsOf(m)) < Limit(m) THEN Cardinality(RowsOf(m))
                                              ELSE Limit(m)
    /\ \A k \in kept \cap RowsOf(m), l \in RowsOf(m) \ kept : k < l

\* The list that is shown begins with the best of everything that was found,
\* and that is the full match, though matching comes before trimming.
HeadIsBest ==
  phase = "done" /\ pool # <<>>
  => /\ 1 \in kept /\ match[1] = 100
     /\ \A i \in DOMAIN pool : Cost(Row(1)) <= Cost(pool[i])

\* Down the list the cost never falls and the match never rises.
MatchFollowsCost ==
  \A k, l \in Rows : k < l => Cost(Row(k)) <= Cost(Row(l)) /\ match[k] >= match[l]

\* The credit for workable time is capped so that no row costs less than its
\* fare.
NeverBelowFare == \A k \in Rows : Cost(Row(k)) >= Row(k).fare
=============================================================================
