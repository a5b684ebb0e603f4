--------------------------- MODULE JourneyEnvelope ---------------------------
(***************************************************************************)
(* How a parser turns the legs of an upstream journey into the door-to-    *)
(* door envelope of an itinerary: itinerary_from_motis in                  *)
(* backend/app/providers/motis.py and journey_to_itinerary in db_rail.py.  *)
(* Their loops are the same; they differ in what they refuse.              *)
(*                                                                         *)
(* A leg keeps its two times and whether it is walked; names, lines, fares *)
(* and emissions are left out, and so is the rounding to 0.1 minutes (the  *)
(* timetables count whole ones).                                           *)
(***************************************************************************)
EXTENDS Integers, Sequences

CONSTANTS MaxLegs,    \* bound: legs of a journey
          MaxTime,    \* bound: the latest time of a timetable
          Minute      \* a minute, in the unit of the times

ASSUME EnvelopeAssumption ==
  /\ MaxLegs \in Nat /\ MaxTime \in Nat /\ Minute \in Nat

NoTime == -1
Times  == 0..MaxTime
RawLeg == [dep : Times \cup {NoTime}, arr : Times \cup {NoTime}, street : BOOLEAN]
Journeys == UNION {[1..n -> RawLeg] : n \in 0..MaxLegs}
Kinds  == {"access", "ride", "transfer", "egress"}

VARIABLES
  parser,    \* the one that reads the journey: "motis" or "db"
  raw,       \* the legs as upstream sent them
  ends,      \* the MOTIS itinerary carries its startTime and endTime
  idx,       \* the next leg to read
  prevEnd,   \* prev_end
  door,      \* door_to_door_minutes of the legs so far
  kinds,     \* the kinds of the legs so far
  result     \* "reading", "none" or "itinerary"

vars == <<parser, raw, ends, idx, prevEnd, door, kinds, result>>

TypeOK ==
  /\ parser \in {"motis", "db"}
  /\ raw \in Journeys
  /\ ends \in BOOLEAN
  /\ idx \in 1..(Len(raw) + 1)
  /\ prevEnd \in Times \cup {NoTime}
  /\ door \in Nat
  /\ kinds \in Seq(Kinds)
  /\ result \in {"reading", "none", "itinerary"}

Init ==
  /\ parser \in {"motis", "db"}
  /\ raw \in Journeys
  /\ ends \in IF parser = "motis" THEN BOOLEAN ELSE {TRUE}
  /\ idx = 1
  /\ prevEnd = NoTime
  /\ door = 0
  /\ kinds = <<>>
  /\ result = "reading"

Timed(leg) == leg.dep # NoTime /\ leg.arr # NoTime

\* A journey the parser gives up on before it reads a leg.
Refused ==
  \/ raw = <<>>
  \/ ~ends
  \/ /\ parser = "db" /\ raw # <<>>
     /\ raw[1].dep = NoTime \/ raw[Len(raw)].arr = NoTime

Refuse ==
  /\ result = "reading" /\ idx = 1 /\ Refused
  /\ result' = "none"
  /\ UNCHANGED <<parser, raw, ends, idx, prevEnd, door, kinds>>

Reading == result = "reading" /\ ~Refused /\ idx <= Len(raw)

\* A leg without both times is passed over.
SkipLeg ==
  /\ Reading /\ ~Timed(raw[idx])
  /\ idx' = idx + 1
  /\ UNCHANGED <<parser, raw, ends, prevEnd, door, kinds, result>>

\* Broken: a leg that ends before it starts takes time off the journey.
MinutesSigned(leg) == leg.arr - leg.dep

\* max(0, arr - dep).
Minutes(leg) == IF leg.arr > leg.dep THEN leg.arr - leg.dep ELSE 0

KindOf(i) ==
  IF ~raw[i].street THEN "ride"
  ELSE IF i = 1 THEN "access"
  ELSE IF i = Len(raw) THEN "egress" ELSE "transfer"

\* Broken: the time between two legs is left out.
NoWait(leg) == 0

\* Broken: the wait before the first leg counts, from the start of time.
WaitFirst(leg) ==
  LET gap == leg.dep - prevEnd IN IF gap > Minute THEN gap ELSE 0

\* The wait for a leg, when that is longer than a minute.
Wait(leg) ==
  LET gap == leg.dep - prevEnd IN
  IF prevEnd # NoTime /\ gap > Minute THEN gap ELSE 0

\* Broken: prev_end keeps the departure, so that a ride is waited for again.
EndsAtDeparture(leg) == leg.dep

EndsAt(leg) == leg.arr

\* A leg with both times joins the envelope, after the wait for it.
TakeLeg ==
  /\ Reading /\ Timed(raw[idx])
  /\ door' = door + Wait(raw[idx]) + Minutes(raw[idx])
  /\ kinds' = (IF Wait(raw[idx]) > 0 THEN Append(kinds, "transfer") ELSE kinds)
                \o <<KindOf(idx)>>
  /\ prevEnd' = EndsAt(raw[idx])
  /\ idx' = idx + 1
  /\ UNCHANGED <<parser, raw, ends, result>>

\* Only the MOTIS parser refuses a journey of which no leg is left.
Finish ==
  /\ result = "reading" /\ ~Refused /\ idx = Len(raw) + 1
  /\ result' = IF parser = "motis" /\ kinds = <<>> THEN "none" ELSE "itinerary"
  /\ UNCHANGED <<parser, raw, ends, idx, prevEnd, door, kinds>>

Parsed == result # "reading" /\ UNCHANGED vars

Next == Refuse \/ SkipLeg \/ TakeLeg \/ Finish \/ Parsed

Spec == Init /\ [][Next]_vars

-----------------------------------------------------------------------------
(* Properties.                                                             *)

\* The journey's first and last leg carry their times.
EndsTimed == Timed(raw[1]) /\ Timed(raw[Len(raw)])

\* Arrival less departure, as the itinerary reports them.
Elapsed == raw[Len(raw)].arr - raw[1].dep

\* The timetable is in order: no leg ends before it starts, or starts before
\* the one before it ends.  (A delay breaks this: a real-time arrival next to
\* a planned departure.)
InOrder ==
  /\ \A i \in DOMAIN raw : Timed(raw[i]) /\ raw[i].dep <= raw[i].arr
  /\ \A i \in 2..Len(raw) : raw[i - 1].arr <= raw[i].dep

\* No itinerary looks quicker than it is: whatever is missing or out of order
\* in the middle, the time from door to door falls short of arrival less
\* departure by no more than a minute for each leg but one.
NeverUnderstated ==
  result = "itinerary" /\ EndsTimed
  => Elapsed <= door + Minute * (Len(raw) - 1)

\* And none of a timetable in order looks slower than it is.
NeverOverstated == result = "itinerary" /\ InOrder => door <= Elapsed

\* Waiting and changing lie between the legs: an itinerary whose ends are
\* timed begins at the front door or on board, and ends there.
ChangesLieInside ==
  result = "itinerary" /\ EndsTimed
  => /\ kinds[1] \in {"access", "ride"}
     /\ kinds[Len(kinds)] \in {"ride", "egress"} \/ kinds = <<"access">>
=============================================================================
