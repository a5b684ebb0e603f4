------------------------ MODULE JourneyEnvelopeProofs ------------------------
(***************************************************************************)
(* Theorems about the envelope loop (JourneyEnvelope), for journeys of any *)
(* length, any timetable and any unit of time.                             *)
(***************************************************************************)
EXTENDS JourneyEnvelope, TLAPS

\* Once the first leg is kept, the envelope falls short of the time since its
\* departure by at most a minute for each leg read since.
LowerBound ==
  idx > 1 /\ Timed(raw[1])
  => /\ prevEnd # NoTime
     /\ prevEnd - raw[1].dep <= door + Minute * (idx - 2)

\* Of a timetable in order, it never exceeds that time.
UpperBound == idx > 1 /\ InOrder => door <= raw[idx - 1].arr - raw[1].dep

\* prev_end is the arrival of the leg before, if that has one.
PrevEndOK ==
  /\ idx = 1 => prevEnd = NoTime /\ door = 0
  /\ idx > 1 /\ Timed(raw[idx - 1]) => prevEnd = raw[idx - 1].arr

DoneOK == result = "itinerary" => idx = Len(raw) + 1 /\ idx > 1

\* The kinds begin with that of the first leg and end with that of the last
\* one read, if these have their times.
KindsOK ==
  /\ idx = 1 => kinds = <<>>
  /\ idx = 2 /\ Timed(raw[1]) => kinds = <<KindOf(1)>>
  /\ idx > 1 /\ Timed(raw[1]) => kinds # <<>> /\ kinds[1] = KindOf(1)
  /\ idx > 1 /\ Timed(raw[idx - 1]) => kinds[Len(kinds)] = KindOf(idx - 1)

Inv == TypeOK /\ LowerBound /\ UpperBound /\ PrevEndOK /\ KindsOK /\ DoneOK

-----------------------------------------------------------------------------
\* A journey is a sequence of legs, each with times that are numbers.
LEMMA JourneyFacts ==
  ASSUME NEW j \in Journeys
  PROVE  /\ Len(j) \in Nat
         /\ DOMAIN j = 1..Len(j)
         /\ \A i \in 1..Len(j) :
              /\ j[i] \in RawLeg
              /\ j[i].dep \in Int /\ j[i].arr \in Int
              /\ Timed(j[i]) => j[i].dep \in Times /\ j[i].arr \in Times
<1>1. PICK n \in 0..MaxLegs : j \in [1..n -> RawLeg]
  BY DEF Journeys
<1>2. n \in Nat
  BY EnvelopeAssumption
<1>3. Len(j) = n /\ DOMAIN j = 1..n
  BY <1>1, <1>2
<1>4. ASSUME NEW i \in 1..n
      PROVE  /\ j[i] \in RawLeg
             /\ j[i].dep \in Int /\ j[i].arr \in Int
             /\ Timed(j[i]) => j[i].dep \in Times /\ j[i].arr \in Times
  BY <1>1, EnvelopeAssumption DEF RawLeg, Times, NoTime, Timed
<1>5. QED
  BY <1>2, <1>3, <1>4

\* The allowance for one leg more.
LEMMA Allowance ==
  ASSUME NEW n \in Int
  PROVE  Minute * (n + 1) = Minute * n + Minute /\ Minute * n \in Int
BY EnvelopeAssumption

LEMMA InitInv == Init => Inv
<1>1. ASSUME Init PROVE Inv
  <2>1. Len(raw) \in Nat
    BY <1>1, JourneyFacts DEF Init
  <2>2. TypeOK
    <3>1. kinds \in Seq(Kinds) /\ ends \in BOOLEAN
      <4>1. kinds = <<>> /\ ends \in IF parser = "motis" THEN BOOLEAN ELSE {TRUE}
        BY <1>1 DEF Init
      <4>2. ends \in BOOLEAN
        BY <4>1
      <4>3. QED
        BY <4>1, <4>2
    <3>2. idx \in 1..(Len(raw) + 1)
      BY <1>1, <2>1 DEF Init
    <3>3. QED
      BY <1>1, <3>1, <3>2 DEF Init, TypeOK
  <2>3. QED
    BY <1>1, <2>2 DEF Init, Inv, LowerBound, UpperBound, PrevEndOK, KindsOK, DoneOK
<1>2. QED
  BY <1>1

-----------------------------------------------------------------------------
\* Reading a leg keeps the type invariant.
LEMMA TakeLegType == TypeOK /\ TakeLeg => TypeOK'
<1>1. SUFFICES ASSUME TypeOK, TakeLeg PROVE TypeOK'
  OBVIOUS
<1> DEFINE leg == raw[idx]
<1>2. idx \in 1..Len(raw) /\ Len(raw) \in Nat
  BY <1>1, JourneyFacts DEF TypeOK, TakeLeg, Reading
<1>3. leg.dep \in Nat /\ leg.arr \in Nat /\ leg.arr \in Times
  BY <1>1, <1>2, JourneyFacts, EnvelopeAssumption DEF TypeOK, TakeLeg, Times
<1>4. prevEnd \in Int
  BY <1>1, EnvelopeAssumption DEF TypeOK, Times, NoTime
<1>5. Minutes(leg) \in Nat /\ Wait(leg) \in Nat
  BY <1>3, <1>4, EnvelopeAssumption DEF Minutes, Wait
<1>6. door' \in Nat
  BY <1>1, <1>5 DEF TypeOK, TakeLeg
<1>7. kinds' \in Seq(Kinds)
  <2>1. KindOf(idx) \in Kinds
    BY DEF KindOf, Kinds
  <2>2. \A s \in Seq(Kinds) : s \o <<KindOf(idx)>> \in Seq(Kinds)
    BY <2>1
  <2>3. Append(kinds, "transfer") \in Seq(Kinds) /\ kinds \in Seq(Kinds)
    BY <1>1 DEF TypeOK, Kinds
  <2>4. QED
    BY <1>1, <2>2, <2>3 DEF TakeLeg
<1>8. idx' \in 1..(Len(raw') + 1) /\ prevEnd' \in Times \cup {NoTime}
  BY <1>1, <1>2, <1>3 DEF TakeLeg, EndsAt
<1>9. QED
  BY <1>1, <1>6, <1>7, <1>8 DEF TypeOK, TakeLeg

\* So does it keep the two bounds: the case that carries the proof.
LEMMA TakeLegBounds == Inv /\ TakeLeg => LowerBound' /\ UpperBound' /\ PrevEndOK'
<1>1. SUFFICES ASSUME Inv, TakeLeg PROVE LowerBound' /\ UpperBound' /\ PrevEndOK'
  OBVIOUS
<1> DEFINE leg == raw[idx]
           gap == leg.dep - prevEnd
           wait == Wait(leg)
<1>2. idx \in 1..Len(raw) /\ Len(raw) \in Nat /\ raw \in Journeys
  BY <1>1, JourneyFacts DEF Inv, TypeOK, TakeLeg, Reading
<1>3. leg.dep \in Nat /\ leg.arr \in Nat
  BY <1>1, <1>2, JourneyFacts, EnvelopeAssumption DEF TakeLeg, Times
<1>4. prevEnd \in Int /\ door \in Nat
  BY <1>1, EnvelopeAssumption DEF Inv, TypeOK, Times, NoTime
<1>5. /\ Minutes(leg) \in Nat
      /\ Minutes(leg) >= leg.arr - leg.dep
      /\ leg.dep <= leg.arr => Minutes(leg) = leg.arr - leg.dep
  BY <1>3 DEF Minutes
<1>6. /\ door' = door + wait + Minutes(leg)
      /\ prevEnd' = leg.arr /\ idx' = idx + 1 /\ raw' = raw
  BY <1>1 DEF TakeLeg, EndsAt
<1>7. wait \in Nat /\ (prevEnd # NoTime => wait + Minute >= gap)
  BY <1>3, <1>4, EnvelopeAssumption DEF Wait
<1>8. LowerBound'
  <2>1. SUFFICES ASSUME Timed(raw[1])
                 PROVE  leg.arr # NoTime
                        /\ leg.arr - raw[1].dep <= door' + Minute * (idx - 1)
    BY <1>2, <1>6 DEF LowerBound, Timed
  <2>2. leg.arr # NoTime
    BY <1>3 DEF NoTime
  <2>3. raw[1].dep \in Int
    BY <1>2, JourneyFacts
  <2>4. CASE idx = 1
    <3>1. Minute * (idx - 1) = 0
      BY <2>4, EnvelopeAssumption
    <3>2. QED
      BY <1>3, <1>4, <1>5, <1>6, <1>7, <2>2, <2>4, <3>1
  <2>5. CASE idx > 1
    <3>1. prevEnd # NoTime /\ prevEnd - raw[1].dep <= door + Minute * (idx - 2)
      BY <1>1, <2>1, <2>5 DEF Inv, LowerBound
    <3>2. Minute * (idx - 1) = Minute * (idx - 2) + Minute
          /\ Minute * (idx - 2) \in Int
      <4>1. idx - 2 \in Int /\ (idx - 2) + 1 = idx - 1
        BY <1>2
      <4>2. QED
        BY <4>1, Allowance
    <3>3. wait + Minute >= leg.dep - prevEnd
      BY <1>7, <3>1
    <3> DEFINE m == Minute * (idx - 2)
    <3>4. leg.arr - raw[1].dep <= door + wait + Minutes(leg) + (m + Minute)
      <4> HIDE DEF m, wait, leg
      <4>1. Minute \in Nat
        BY EnvelopeAssumption
      <4>2. QED
        BY <1>3, <1>4, <1>5, <1>7, <2>3, <3>1, <3>2, <3>3, <4>1 DEF m
    <3>5. QED
      BY <1>6, <2>2, <3>2, <3>4
  <2>6. QED
    BY <1>2, <2>4, <2>5
<1>9. UpperBound'
  <2>1. SUFFICES ASSUME InOrder
                 PROVE  door' <= leg.arr - raw[1].dep
    <3>1. InOrder' <=> InOrder
      BY <1>6 DEF InOrder
    <3>2. QED
      BY <1>2, <1>6, <3>1 DEF UpperBound
  <2>2. leg.dep <= leg.arr
    BY <1>2, <2>1, JourneyFacts DEF InOrder
  <2>3. CASE idx = 1
    <3>1. wait = 0 /\ door = 0
      BY <1>1, <2>3 DEF Inv, PrevEndOK, Wait
    <3>2. QED
      BY <1>3, <1>5, <1>6, <2>2, <2>3, <3>1
  <2>4. CASE idx > 1
    <3>1. idx - 1 \in 1..Len(raw) /\ idx \in 2..Len(raw)
      BY <1>2, <2>4
    <3>2. raw[idx - 1].arr <= leg.dep /\ Timed(raw[idx - 1])
      BY <1>2, <2>1, <3>1, JourneyFacts DEF InOrder
    <3>3. prevEnd = raw[idx - 1].arr
      BY <1>1, <2>4, <3>2 DEF Inv, PrevEndOK
    <3>4. door <= prevEnd - raw[1].dep
      BY <1>1, <2>1, <2>4, <3>3 DEF Inv, UpperBound
    <3>5. wait <= gap
      BY <1>3, <1>4, <3>2, <3>3, EnvelopeAssumption DEF Wait
    <3>6. raw[1].dep \in Int
      BY <1>2, JourneyFacts
    <3>7. QED
      BY <1>3, <1>4, <1>5, <1>6, <1>7, <2>2, <3>4, <3>5, <3>6
  <2>5. QED
    BY <1>2, <2>3, <2>4
<1>10. PrevEndOK'
  BY <1>2, <1>6 DEF PrevEndOK
<1>11. QED
  BY <1>8, <1>9, <1>10

\* And the kinds of the ends: before the first leg there is no wait.
LEMMA TakeLegKinds == Inv /\ TakeLeg => KindsOK'
<1>1. SUFFICES ASSUME Inv, TakeLeg PROVE KindsOK'
  OBVIOUS
<1> DEFINE before == IF Wait(raw[idx]) > 0 THEN Append(kinds, "transfer") ELSE kinds
<1>2. idx \in 1..Len(raw) /\ Len(raw) \in Nat /\ kinds \in Seq(Kinds)
  BY <1>1, JourneyFacts DEF Inv, TypeOK, TakeLeg, Reading
<1>3. kinds' = before \o <<KindOf(idx)>> /\ idx' = idx + 1 /\ raw' = raw
  BY <1>1 DEF TakeLeg
<1>4. \A i : KindOf(i)' = KindOf(i)
  BY <1>3 DEF KindOf
<1>5. before \in Seq(Kinds)
  BY <1>2 DEF Kinds
<1>6. kinds' # <<>> /\ kinds'[Len(kinds')] = KindOf(idx)
  <2>1. KindOf(idx) \in Kinds
    BY DEF KindOf, Kinds
  <2> HIDE DEF before
  <2>2. Len(kinds') = Len(before) + 1 /\ kinds'[Len(before) + 1] = KindOf(idx)
    BY <1>3, <1>5, <2>1
  <2>3. QED
    BY <1>5, <2>2
<1>7. CASE idx = 1
  <2>1. kinds = <<>> /\ Wait(raw[idx]) = 0
    BY <1>1, <1>7 DEF Inv, KindsOK, PrevEndOK, Wait
  <2>2. kinds' = <<KindOf(1)>>
    BY <1>3, <1>7, <2>1
  <2>3. idx' = 2 /\ kinds'[1] = KindOf(1) /\ KindOf(idx - 1)' = KindOf(1)
    <3>1. KindOf(idx - 1)' = KindOf(1)
      BY <1>3, <1>7 DEF KindOf
    <3>2. QED
      BY <1>3, <1>7, <2>2, <3>1
  <2>4. QED
    BY <1>4, <1>6, <1>7, <2>2, <2>3 DEF KindsOK
<1>8. CASE idx > 1
  <2>1. ASSUME Timed(raw[1]) PROVE kinds'[1] = KindOf(1)
    <3>1. kinds # <<>> /\ kinds[1] = KindOf(1)
      BY <1>1, <1>8, <2>1 DEF Inv, KindsOK
    <3>2. Len(before) >= 1 /\ before[1] = KindOf(1)
      BY <1>2, <3>1
    <3> HIDE DEF before
    <3>3. QED
      BY <1>3, <1>5, <3>2
  <2>2. QED
    BY <1>2, <1>3, <1>4, <1>6, <1>8, <2>1 DEF KindsOK
<1>9. QED
  BY <1>2, <1>7, <1>8

\* A leg passed over only widens the allowance.
LEMMA SkipLegKeeps == Inv /\ SkipLeg => Inv'
<1>1. SUFFICES ASSUME Inv, SkipLeg PROVE Inv'
  OBVIOUS
<1>2. idx \in 1..Len(raw) /\ Len(raw) \in Nat /\ raw \in Journeys
  BY <1>1, JourneyFacts DEF Inv, TypeOK, SkipLeg, Reading
<1>3. idx' = idx + 1 /\ UNCHANGED <<parser, raw, ends, prevEnd, door, kinds, result>>
  BY <1>1 DEF SkipLeg
<1>4. TypeOK'
  BY <1>1, <1>2, <1>3 DEF Inv, TypeOK
<1>5. LowerBound'
  <2>1. SUFFICES ASSUME Timed(raw[1])
                 PROVE  prevEnd # NoTime
                        /\ prevEnd - raw[1].dep <= door + Minute * (idx - 1)
    BY <1>2, <1>3 DEF LowerBound
  <2>2. idx > 1
    BY <1>1, <1>2, <2>1 DEF SkipLeg
  <2>3. prevEnd # NoTime /\ prevEnd - raw[1].dep <= door + Minute * (idx - 2)
    BY <1>1, <2>1, <2>2 DEF Inv, LowerBound
  <2>4. Minute * (idx - 1) = Minute * (idx - 2) + Minute
        /\ Minute * (idx - 2) \in Int
    <3>1. idx - 2 \in Int /\ (idx - 2) + 1 = idx - 1
      BY <1>2
    <3>2. QED
      BY <3>1, Allowance
  <2>5. prevEnd \in Int /\ door \in Nat /\ raw[1].dep \in Int /\ Minute \in Nat
    BY <1>1, <1>2, JourneyFacts, EnvelopeAssumption DEF Inv, TypeOK, Times, NoTime
  <2> DEFINE m == Minute * (idx - 2)
  <2>6. prevEnd - raw[1].dep <= door + (m + Minute)
    BY <2>3, <2>4, <2>5
  <2>7. QED
    BY <2>3, <2>4, <2>6
<1>6. UpperBound'
  <2>1. ~InOrder
    BY <1>1, <1>2, JourneyFacts DEF SkipLeg, InOrder
  <2>2. InOrder' <=> InOrder
    BY <1>3 DEF InOrder
  <2>3. QED
    BY <2>1, <2>2 DEF UpperBound
<1>7. PrevEndOK'
  BY <1>1, <1>2, <1>3 DEF PrevEndOK, SkipLeg
<1>8. KindsOK'
  <2>1. \A i : KindOf(i)' = KindOf(i)
    BY <1>3 DEF KindOf
  <2>2. ~Timed(raw[idx])
    BY <1>1 DEF SkipLeg
  <2>3. QED
    BY <1>1, <1>2, <1>3, <2>1, <2>2 DEF Inv, KindsOK
<1>9. DoneOK'
  BY <1>1, <1>3 DEF DoneOK, SkipLeg, Reading
<1>10. QED
  BY <1>4, <1>5, <1>6, <1>7, <1>8, <1>9 DEF Inv

-----------------------------------------------------------------------------
LEMMA NextInv == Inv /\ [Next]_vars => Inv'
<1>1. SUFFICES ASSUME Inv, [Next]_vars PROVE Inv'
  OBVIOUS
<1>2. CASE Refuse
  <2>1. UNCHANGED <<parser, raw, ends, idx, prevEnd, door, kinds>> /\ result' = "none"
    BY <1>2 DEF Refuse
  <2>2. QED
    BY <1>1, <2>1 DEF Inv, TypeOK, LowerBound, UpperBound, InOrder, PrevEndOK, KindsOK, KindOf, DoneOK
<1>3. CASE SkipLeg
  BY <1>1, <1>3, SkipLegKeeps
<1>4. CASE TakeLeg
  <2>1. TypeOK' /\ LowerBound' /\ UpperBound' /\ PrevEndOK' /\ KindsOK'
    BY <1>1, <1>4, TakeLegType, TakeLegBounds, TakeLegKinds DEF Inv
  <2>2. DoneOK'
    BY <1>4 DEF DoneOK, TakeLeg, Reading
  <2>3. QED
    BY <2>1, <2>2 DEF Inv
<1>5. CASE Finish
  <2>1. UNCHANGED <<parser, raw, ends, idx, prevEnd, door, kinds>>
        /\ result' \in {"none", "itinerary"}
    BY <1>5 DEF Finish
  <2>2. DoneOK'
    <3>1. Len(raw) \in Nat /\ (Len(raw) = 0 => raw = <<>>)
      BY <1>1, JourneyFacts DEF Inv, TypeOK
    <3>2. raw # <<>> \/ result' = "none"
      BY <1>5 DEF Finish, Refused
    <3>3. QED
      BY <1>5, <2>1, <3>1, <3>2 DEF DoneOK, Finish, Refused
  <2>3. QED
    BY <1>1, <2>1, <2>2 DEF Inv, TypeOK, LowerBound, UpperBound, InOrder, PrevEndOK, KindsOK, KindOf
<1>6. CASE UNCHANGED vars
  BY <1>1, <1>6 DEF Inv, TypeOK, LowerBound, UpperBound, InOrder, PrevEndOK, KindsOK, KindOf, DoneOK, vars
<1>7. QED
  BY <1>1, <1>2, <1>3, <1>4, <1>5, <1>6 DEF Next, Parsed

\* The envelope loop keeps its inductive invariant.
THEOREM InvHolds == Spec => []Inv
BY InitInv, NextInv, PTL DEF Spec

\* The variables of the loop keep their types; the envelope in particular is
\* never negative, however the timetable is disordered.
THEOREM TypeCorrect == Spec => []TypeOK
<1>1. Inv => TypeOK
  BY DEF Inv
<1>2. QED
  BY <1>1, InvHolds, PTL

\* No parsed journey looks quicker than its first departure and last arrival
\* say, but for a minute at each change.
THEOREM UnderstatedNever == Spec => []NeverUnderstated
<1>1. Inv => NeverUnderstated
  <2>1. SUFFICES ASSUME Inv, result = "itinerary", EndsTimed
                 PROVE  Elapsed <= door + Minute * (Len(raw) - 1)
    BY DEF NeverUnderstated
  <2>2. Len(raw) \in Nat /\ idx = Len(raw) + 1 /\ idx > 1
    BY <2>1, JourneyFacts DEF Inv, TypeOK, DoneOK
  <2>3. idx - 1 = Len(raw) /\ idx - 2 = Len(raw) - 1
    BY <2>2
  <2>4. prevEnd = raw[Len(raw)].arr
    BY <2>1, <2>2, <2>3 DEF Inv, PrevEndOK, EndsTimed
  <2>5. prevEnd - raw[1].dep <= door + Minute * (idx - 2)
    BY <2>1, <2>2 DEF Inv, LowerBound, EndsTimed
  <2>6. QED
    BY <2>3, <2>4, <2>5 DEF Elapsed
<1>2. QED
  BY <1>1, InvHolds, PTL

\* No journey of a timetable in order looks slower than it is.
THEOREM OverstatedNever == Spec => []NeverOverstated
<1>1. Inv => NeverOverstated
  <2>1. SUFFICES ASSUME Inv, result = "itinerary", InOrder
                 PROVE  door <= Elapsed
    BY DEF NeverOverstated
  <2>2. Len(raw) \in Nat /\ idx = Len(raw) + 1 /\ idx > 1
    BY <2>1, JourneyFacts DEF Inv, TypeOK, DoneOK
  <2>3. idx - 1 = Len(raw)
    BY <2>2
  <2>4. QED
    BY <2>1, <2>2, <2>3 DEF Inv, UpperBound, Elapsed
<1>2. QED
  BY <1>1, InvHolds, PTL

\* An itinerary whose ends are timed begins at the front door or on board, and
\* ends there: no wait and no change before the first leg or after the last.
THEOREM ChangesAlwaysInside == Spec => []ChangesLieInside
<1>1. Inv => ChangesLieInside
  <2>1. SUFFICES ASSUME Inv, result = "itinerary", EndsTimed
                 PROVE  /\ kinds[1] \in {"access", "ride"}
                        /\ \/ kinds[Len(kinds)] \in {"ride", "egress"}
                           \/ kinds = <<"access">>
    BY DEF ChangesLieInside
  <2>2. Len(raw) \in Nat /\ idx = Len(raw) + 1 /\ idx > 1 /\ idx - 1 = Len(raw)
    BY <2>1, JourneyFacts DEF Inv, TypeOK, DoneOK
  <2>3. kinds[1] = KindOf(1) /\ kinds[Len(kinds)] = KindOf(Len(raw))
    BY <2>1, <2>2 DEF Inv, KindsOK, EndsTimed
  <2>4. Len(raw) = 1 => kinds = <<KindOf(1)>>
    BY <2>1, <2>2 DEF Inv, KindsOK, EndsTimed
  <2>5. QED
    BY <2>2, <2>3, <2>4 DEF KindOf
<1>2. QED
  BY <1>1, InvHolds, PTL
=============================================================================
