----------------------------- MODULE DbGateProofs -----------------------------
(***************************************************************************)
(* Theorems about the gate of db_get (DbGate), for every finite set of     *)
(* calls, number of slots and number of tries.                             *)
(***************************************************************************)
EXTENDS DbGate, FiniteSetTheorems, TLAPS

\* The queue is what the futures say: only queued calls are waited for, and
\* futures are resolved in the order they were queued.
QueueOK ==
  /\ \A c \in Calls : ahead[c] \subseteq Queued
  /\ \A c \in granted : ahead[c] \subseteq granted

\* A call pauses only if a try is left.
RetryOK == \A c \in Calls : pc[c] = "sleeping" => attempt[c] < MaxAttempts

Inv ==
  /\ TypeOK
  /\ RetryOK
  /\ SlotsConserved
  /\ QueueOK
  /\ NoLostWakeup

-----------------------------------------------------------------------------
\* Every set of calls is finite, and its cardinality a number.
LEMMA Finite ==
  ASSUME NEW S \in SUBSET Calls
  PROVE  IsFiniteSet(S) /\ Cardinality(S) \in Nat
BY GateAssumption, FS_Subset, FS_CardinalityType

LEMMA CardAdd ==
  ASSUME NEW S \in SUBSET Calls, NEW c \in Calls \ S
  PROVE  Cardinality(S \cup {c}) = Cardinality(S) + 1
BY Finite, FS_AddElement

LEMMA CardRemove ==
  ASSUME NEW S \in SUBSET Calls, NEW c \in S
  PROVE  Cardinality(S \ {c}) = Cardinality(S) - 1
BY Finite, FS_RemoveElement

LEMMA CardDisjoint ==
  ASSUME NEW S \in SUBSET Calls, NEW T \in SUBSET Calls, S \cap T = {}
  PROVE  Cardinality(S \cup T) = Cardinality(S) + Cardinality(T)
<1>1. IsFiniteSet(S) /\ IsFiniteSet(T)
      /\ Cardinality(S) \in Nat /\ Cardinality(T) \in Nat
  BY Finite
<1>2. Cardinality(S \cup T)
        = Cardinality(S) + Cardinality(T) - Cardinality(S \cap T)
  BY <1>1, FS_Union
<1>3. Cardinality(S \cap T) = 0
  BY FS_EmptySet
<1>4. QED
  BY <1>1, <1>2, <1>3

\* What granting does: slots move from free to the waiters that get them, in
\* order, until the slots or the waiters run out.
LEMMA GrantFacts ==
  ASSUME NEW q \in SUBSET Calls, NEW g \in SUBSET q,
         NEW avail \in Nat, NEW n \in 0..avail,
         GrantFirst(q, g, avail, n)
  PROVE  /\ g \subseteq granted' /\ granted' \subseteq q
         /\ free' \in 0..avail
         /\ free' + Cardinality(granted') = avail + Cardinality(g)
         /\ n = avail => free' = 0 \/ granted' = q
         /\ n > 0 => granted' = q \/ granted' # {}
         /\ \A c \in granted' \ g : ahead[c] \cap q \subseteq granted'
<1>1. PICK w \in SUBSET (q \ g) :
        /\ Cardinality(w) = Smaller(n, Cardinality(q \ g))
        /\ \A c \in w : ahead[c] \cap (q \ g) \subseteq w
        /\ granted' = g \cup w
        /\ free' = avail - Cardinality(w)
  BY DEF GrantFirst, Due
<1>2. /\ Cardinality(w) \in Nat /\ Cardinality(q \ g) \in Nat
      /\ Cardinality(g) \in Nat
  BY Finite
<1>3. Cardinality(w) <= n
  BY <1>1, <1>2 DEF Smaller
<1>4. free' \in 0..avail
  BY <1>1, <1>2, <1>3
<1>5. free' + Cardinality(granted') = avail + Cardinality(g)
  BY <1>1, <1>2, <1>3, CardDisjoint
<1>6. Cardinality(w) = n \/ w = q \ g
  BY <1>1, <1>2, Finite, FS_Subset DEF Smaller
<1>7. n = avail => free' = 0 \/ granted' = q
  BY <1>1, <1>6
<1>8. n > 0 => granted' = q \/ granted' # {}
  BY <1>1, <1>6, FS_EmptySet
<1>9. QED
  BY <1>1, <1>4, <1>5, <1>7, <1>8

LEMMA InitInv == Init => Inv
<1>1. ASSUME Init PROVE Queued = {} /\ Sending = {}
  BY <1>1 DEF Init, Queued, Sending, At
<1>2. QED
  BY <1>1, GateAssumption, FS_EmptySet
  DEF Init, Inv, TypeOK, RetryOK, SlotsConserved, QueueOK, NoLostWakeup

\* acquire, from a call that neither queues nor sends.
LEMMA AcquireInv ==
  ASSUME NEW c \in Calls, Inv, pc[c] \in {"idle", "sleeping"}, Acquire(c),
         UNCHANGED <<cancelled, outcome>>,
         attempt' = [attempt EXCEPT ![c] = IF pc[c] = "idle" THEN 1 ELSE @ + 1]
  PROVE  Inv'
<1> USE GateAssumption DEF Inv, Goto
<1>0. /\ attempt' \in [Calls -> 0..MaxAttempts]
      /\ \A d \in Calls : d # c => attempt'[d] = attempt[d]
  BY DEF TypeOK, RetryOK
<1>1. CASE free > 0 /\ Queued = {} /\ free' = free - 1 /\ Goto(c, "sending")
           /\ UNCHANGED <<ahead, granted>>
  <2>1. /\ Sending' = Sending \cup {c} /\ c \notin Sending
        /\ Queued' = Queued /\ At("unwinding")' = At("unwinding")
    BY <1>1 DEF TypeOK, Sending, Queued, At
  <2>2. Cardinality(Sending') = Cardinality(Sending) + 1
    BY <2>1, CardAdd DEF Sending, At
  <2>3. TypeOK'
    BY <1>0, <1>1, <2>1 DEF TypeOK
  <2>4. SlotsConserved'
    BY <1>1, <2>2, Finite DEF TypeOK, SlotsConserved, Queued, Sending, At
  <2>5. QueueOK' /\ NoLostWakeup' /\ RetryOK'
    BY <1>0, <1>1, <2>1 DEF QueueOK, NoLostWakeup, RetryOK, TypeOK
  <2>6. QED
    BY <2>3, <2>4, <2>5
<1>2. CASE (free = 0 \/ Queued # {}) /\ Goto(c, "queued")
           /\ ahead' = [ahead EXCEPT ![c] = Queued] /\ UNCHANGED <<free, granted>>
  <2>1. /\ Sending' = Sending
        /\ Queued' = Queued \cup {c} /\ c \notin Queued
        /\ At("unwinding")' = At("unwinding")
    BY <1>2 DEF TypeOK, Sending, Queued, At
  <2>2. TypeOK'
    BY <1>0, <1>2, <2>1 DEF TypeOK, Queued, At
  <2>3. SlotsConserved'
    BY <1>2, <2>1 DEF SlotsConserved
  <2>4. QueueOK'
    BY <1>2, <2>1 DEF QueueOK, TypeOK
  <2>5. NoLostWakeup' /\ RetryOK'
    BY <1>0, <1>2, <2>1 DEF NoLostWakeup, RetryOK, TypeOK
  <2>6. QED
    BY <2>2, <2>3, <2>4, <2>5
<1>3. ~Open <=> free = 0 \/ Queued # {}
  BY <1>0 DEF Open, TypeOK
<1>4. QED
  BY <1>1, <1>2, <1>3 DEF Acquire, Open

\* A request ends and its slot is released.
LEMMA ReleaseInv ==
  ASSUME NEW c \in Calls, Inv, pc[c] = "sending", Release,
         NEW label \in {"sleeping", "done"}, Goto(c, label),
         label = "sleeping" => attempt[c] < MaxAttempts,
         outcome' \in [Calls -> {"pending", "answered", "refused",
                                 "exhausted", "cancelled"}],
         UNCHANGED <<attempt, ahead, cancelled>>
  PROVE  Inv'
<1> USE GateAssumption DEF Inv, Goto
<1>1. /\ Sending' = Sending \ {c} /\ c \in Sending
      /\ Queued' = Queued /\ At("unwinding")' = At("unwinding")
  BY DEF TypeOK, Sending, Queued, At
<1>2. Cardinality(Sending') = Cardinality(Sending) - 1
  BY <1>1, CardRemove DEF Sending, At
<1>3. /\ Queued \in SUBSET Calls /\ Sending \in SUBSET Calls
      /\ granted \in SUBSET Queued
      /\ free + 1 \in Nat /\ 1 \in 0..(free + 1)
  BY DEF TypeOK, Queued, Sending, At
<1>4. /\ granted \subseteq granted' /\ granted' \subseteq Queued
      /\ free' \in 0..(free + 1)
      /\ free' + Cardinality(granted') = free + 1 + Cardinality(granted)
      /\ granted' = Queued \/ granted' # {}
      /\ \A d \in granted' \ granted : ahead[d] \cap Queued \subseteq granted'
  BY <1>3, GrantFacts DEF Release
<1>5. SlotsConserved'
  BY <1>2, <1>3, <1>4, Finite DEF SlotsConserved, TypeOK
<1>6. free' <= Slots
  BY <1>1, <1>3, <1>4, <1>5, Finite DEF SlotsConserved
<1>7. TypeOK'
  <2>1. pc' \in [Calls -> {"idle", "queued", "unwinding", "sending",
                           "sleeping", "done"}]
    BY DEF TypeOK
  <2>2. free' \in 0..Slots
    BY <1>4, <1>6 DEF TypeOK
  <2>3. granted' \in SUBSET Queued' /\ cancelled' \in SUBSET granted'
    BY <1>1, <1>4 DEF TypeOK
  <2>4. QED
    BY <2>1, <2>2, <2>3 DEF TypeOK
<1>8. QueueOK'
  <2>1. \A d \in Calls : ahead'[d] \subseteq Queued'
    BY <1>1 DEF QueueOK
  <2>2. ASSUME NEW d \in granted' PROVE ahead'[d] \subseteq granted'
    BY <2>1, <1>1, <1>3, <1>4 DEF QueueOK
  <2>3. QED
    BY <2>1, <2>2 DEF QueueOK
<1>9. NoLostWakeup' /\ RetryOK'
  BY <1>1, <1>4 DEF NoLostWakeup, RetryOK, TypeOK
<1>10. QED
  BY <1>5, <1>7, <1>8, <1>9

\* A granted waiter leaves the queue, with its slot or giving it back: in
\* both cases spare slots are passed on.
LEMMA LeaveInv ==
  ASSUME NEW c \in granted, Inv, LeaveQueue(c),
         NEW label \in {"sending", "done"}, Goto(c, label),
         NEW avail \in Nat,
         avail = IF label = "sending" THEN free ELSE free + 1,
         GrantFirst(Queued \ {c}, granted \ {c}, avail, avail),
         outcome' \in [Calls -> {"pending", "answered", "refused",
                                 "exhausted", "cancelled"}],
         cancelled' = cancelled \ {c}, UNCHANGED attempt
  PROVE  Inv'
<1> USE GateAssumption DEF Inv, Goto, LeaveQueue
<1>1. /\ c \in Calls /\ c \in Queued /\ pc[c] = "queued"
      /\ Queued \in SUBSET Calls /\ Sending \in SUBSET Calls
      /\ granted \in SUBSET Queued
  BY DEF TypeOK, Queued, Sending, At
<1>2. /\ Queued' = Queued \ {c} /\ At("unwinding")' = At("unwinding")
      /\ Sending' = IF label = "sending" THEN Sending \cup {c} ELSE Sending
      /\ c \notin Sending
  BY <1>1 DEF TypeOK, Queued, Sending, At
<1>3. /\ granted \ {c} \subseteq granted' /\ granted' \subseteq Queued \ {c}
      /\ free' \in 0..avail
      /\ free' + Cardinality(granted') = avail + Cardinality(granted \ {c})
      /\ free' = 0 \/ granted' = Queued \ {c}
      /\ \A d \in granted' \ (granted \ {c}) :
            ahead[d] \cap (Queued \ {c}) \subseteq granted'
  <2> DEFINE q == Queued \ {c}
             g == granted \ {c}
  <2>1. /\ q \in SUBSET Calls /\ g \in SUBSET q
        /\ avail \in 0..avail /\ GrantFirst(q, g, avail, avail)
    BY <1>1
  <2> HIDE DEF q, g
  <2>2. /\ g \subseteq granted' /\ granted' \subseteq q
        /\ free' \in 0..avail
        /\ free' + Cardinality(granted') = avail + Cardinality(g)
        /\ free' = 0 \/ granted' = q
        /\ \A d \in granted' \ g : ahead[d] \cap q \subseteq granted'
    BY ONLY <2>1, GrantFacts
  <2>3. QED
    BY <2>2 DEF q, g
<1>4. Cardinality(granted \ {c}) = Cardinality(granted) - 1
  BY <1>1, CardRemove
<1>5. label = "sending" => Cardinality(Sending') = Cardinality(Sending) + 1
  BY <1>1, <1>2, CardAdd
<1>6. SlotsConserved'
  BY <1>1, <1>2, <1>3, <1>4, <1>5, Finite DEF SlotsConserved, TypeOK
<1>7. free' <= Slots
  <2>1. Cardinality(granted') \in Nat /\ Cardinality(Sending') \in Nat
    BY <1>1, <1>2, <1>3, Finite
  <2>2. QED
    BY <1>3, <1>6, <2>1 DEF SlotsConserved
<1>8. TypeOK'
  <2>1. pc' \in [Calls -> {"idle", "queued", "unwinding", "sending",
                           "sleeping", "done"}]
    BY <1>1 DEF TypeOK
  <2>2. free' \in 0..Slots
    BY <1>3, <1>7
  <2>3. granted' \in SUBSET Queued' /\ cancelled' \in SUBSET granted'
    BY <1>2, <1>3 DEF TypeOK
  <2>4. ahead' \in [Calls -> SUBSET Calls]
    BY DEF TypeOK
  <2>5. QED
    BY <2>1, <2>2, <2>3, <2>4 DEF TypeOK
<1>9. QueueOK'
  <2>1. \A d \in Calls : ahead'[d] \subseteq Queued'
    BY <1>2 DEF QueueOK
  <2>2. ASSUME NEW d \in granted' PROVE ahead'[d] \subseteq granted'
    <3>1. d \in Calls /\ ahead'[d] = ahead[d] \ {c}
      BY <1>1, <1>3
    <3>2. CASE d \in granted
      BY <3>1, <3>2, <1>3 DEF QueueOK
    <3>3. CASE d \notin granted
      BY <3>1, <3>3, <1>3 DEF QueueOK
    <3>4. QED
      BY <3>2, <3>3
  <2>3. QED
    BY <2>1, <2>2 DEF QueueOK
<1>10. NoLostWakeup' /\ RetryOK'
  BY <1>2, <1>3 DEF NoLostWakeup, RetryOK, TypeOK
<1>11. QED
  BY <1>6, <1>8, <1>9, <1>10

\* A waiter cancelled in the queue passes on what is free as it unwinds.
LEMMA UnwindInv ==
  ASSUME NEW c \in Calls, Inv, Unwind(c)
  PROVE  Inv'
<1> USE GateAssumption DEF Inv, Goto, Unwind, End
<1>1. /\ Queued' = Queued /\ Sending' = Sending
      /\ Queued \in SUBSET Calls /\ granted \in SUBSET Queued
      /\ free \in Nat /\ Sending \in SUBSET Calls
  BY DEF TypeOK, Queued, Sending, At
<1>2. /\ granted \subseteq granted' /\ granted' \subseteq Queued
      /\ free' \in 0..free
      /\ free' + Cardinality(granted') = free + Cardinality(granted)
      /\ free' = 0 \/ granted' = Queued
      /\ \A d \in granted' \ granted : ahead[d] \cap Queued \subseteq granted'
  BY <1>1, GrantFacts
<1>3. SlotsConserved'
  BY <1>1, <1>2, Finite DEF SlotsConserved, TypeOK
<1>4. TypeOK'
  <2>1. pc' \in [Calls -> {"idle", "queued", "unwinding", "sending",
                           "sleeping", "done"}]
    BY DEF TypeOK
  <2>2. free' \in 0..Slots
    BY <1>2 DEF TypeOK
  <2>3. granted' \in SUBSET Queued' /\ cancelled' \in SUBSET granted'
    BY <1>1, <1>2 DEF TypeOK
  <2>4. QED
    BY <2>1, <2>2, <2>3 DEF TypeOK
<1>5. QueueOK'
  <2>1. \A d \in Calls : ahead'[d] \subseteq Queued'
    BY <1>1 DEF QueueOK
  <2>2. ASSUME NEW d \in granted' PROVE ahead'[d] \subseteq granted'
    BY <2>1, <1>1, <1>2 DEF QueueOK
  <2>3. QED
    BY <2>1, <2>2 DEF QueueOK
<1>6. NoLostWakeup' /\ RetryOK'
  BY <1>1, <1>2 DEF NoLostWakeup, RetryOK, TypeOK
<1>7. QED
  BY <1>3, <1>4, <1>5, <1>6

\* A cancelled waiter whose future is pending leaves the queue at once.
LEMMA CancelQueuedInv ==
  ASSUME NEW c \in Queued \ granted, Inv, Goto(c, "unwinding"),
         LeaveQueue(c), UNCHANGED <<attempt, free, granted, cancelled, outcome>>
  PROVE  Inv'
<1> USE GateAssumption DEF Inv, Goto, LeaveQueue
<1>1. /\ c \in Calls /\ Queued' = Queued \ {c} /\ Sending' = Sending
      /\ c \in At("unwinding")'
  BY DEF TypeOK, Queued, Sending, At
<1>2. TypeOK'
  <2>1. pc' \in [Calls -> {"idle", "queued", "unwinding", "sending",
                           "sleeping", "done"}]
    BY <1>1 DEF TypeOK
  <2>2. ahead' \in [Calls -> SUBSET Calls]
    BY DEF TypeOK
  <2>3. QED
    BY <1>1, <2>1, <2>2 DEF TypeOK
<1>3. SlotsConserved' /\ QueueOK' /\ NoLostWakeup' /\ RetryOK'
  BY <1>1 DEF SlotsConserved, QueueOK, NoLostWakeup, RetryOK, TypeOK, Queued, At
<1>4. QED
  BY <1>2, <1>3

\* A pause that is cancelled, or a granted waiter that is told and has not
\* run yet, leaves the gate as it is.
LEMMA CancelQuietInv ==
  ASSUME NEW c \in Calls, Inv,
         \/ /\ pc[c] = "sleeping"
            /\ End(c, "cancelled")
            /\ UNCHANGED <<attempt, free, ahead, granted, cancelled>>
         \/ /\ c \in granted \ cancelled
            /\ cancelled' = cancelled \cup {c}
            /\ UNCHANGED <<pc, attempt, free, ahead, granted, outcome>>
  PROVE  Inv'
<1> USE DEF Inv, Goto, End
<1>1. /\ Queued' = Queued /\ Sending' = Sending
      /\ At("unwinding")' = At("unwinding")
  BY DEF TypeOK, Queued, Sending, At
<1>2. TypeOK'
  BY <1>1 DEF TypeOK
<1>3. SlotsConserved' /\ QueueOK' /\ NoLostWakeup' /\ RetryOK'
  BY <1>1 DEF SlotsConserved, QueueOK, NoLostWakeup, RetryOK, TypeOK
<1>4. QED
  BY <1>2, <1>3

\* Inv is inductive.
THEOREM InvHolds == Spec => []Inv
<1>1. ASSUME Inv, [Next]_vars PROVE Inv'
  <2>1. ASSUME NEW c \in Calls, Begin(c) PROVE Inv'
    BY <1>1, <2>1, AcquireInv DEF Begin
  <2>2. ASSUME NEW c \in Calls, Retry(c) PROVE Inv'
    BY <1>1, <2>2, AcquireInv DEF Retry
  <2>3. ASSUME NEW c \in Calls, Enter(c) PROVE Inv'
    <3>1. free \in Nat /\ c \in granted
      BY <1>1, <2>3, GateAssumption DEF Enter, Inv, TypeOK
    <3>2. cancelled' = cancelled \ {c}
      BY <2>3 DEF Enter
    <3>3. outcome' \in [Calls -> {"pending", "answered", "refused",
                                  "exhausted", "cancelled"}]
      BY <1>1, <2>3 DEF Enter, Inv, TypeOK
    <3>4. QED
      BY <1>1, <2>3, <3>1, <3>2, <3>3, LeaveInv DEF Enter
  <2>4. ASSUME NEW c \in Calls, GiveBack(c) PROVE Inv'
    <3>1. free + 1 \in Nat /\ c \in granted
      BY <1>1, <2>4, GateAssumption DEF GiveBack, ReturnedSlot, Inv, TypeOK
    <3>2. outcome' \in [Calls -> {"pending", "answered", "refused",
                                  "exhausted", "cancelled"}]
      BY <1>1, <2>4 DEF GiveBack, ReturnedSlot, End, Inv, TypeOK
    <3>3. QED
      BY <1>1, <2>4, <3>1, <3>2, LeaveInv DEF GiveBack, ReturnedSlot, End
  <2>5. ASSUME NEW c \in Calls, Unwind(c) PROVE Inv'
    BY <1>1, <2>5, UnwindInv
  <2>6. ASSUME NEW c \in Calls, Answered(c) PROVE Inv'
    <3>1. outcome' \in [Calls -> {"pending", "answered", "refused",
                                  "exhausted", "cancelled"}]
      BY <1>1, <2>6 DEF Answered, End, Inv, TypeOK
    <3>2. QED
      BY <1>1, <2>6, <3>1, ReleaseInv DEF Answered, End
  <2>7. ASSUME NEW c \in Calls, Shed(c) PROVE Inv'
    <3>1. outcome' \in [Calls -> {"pending", "answered", "refused",
                                  "exhausted", "cancelled"}]
      BY <1>1, <2>7 DEF Shed, End, Inv, TypeOK
    <3>2. CASE attempt[c] < MaxAttempts /\ Goto(c, "sleeping")
      BY <1>1, <2>7, <3>1, <3>2, ReleaseInv DEF Shed
    <3>3. CASE Goto(c, "done")
      BY <1>1, <2>7, <3>1, <3>3, ReleaseInv DEF Shed
    <3>4. QED
      BY <2>7, <3>2, <3>3 DEF Shed, End
  <2>8. ASSUME NEW c \in Calls, Cancel(c) PROVE Inv'
    <3>1. CASE pc[c] = "sending" /\ End(c, "cancelled") /\ Release
               /\ UNCHANGED <<attempt, ahead, cancelled>>
      <4>1. outcome' \in [Calls -> {"pending", "answered", "refused",
                                    "exhausted", "cancelled"}]
        BY <1>1, <3>1 DEF End, Inv, TypeOK
      <4>2. QED
        BY <1>1, <3>1, <4>1, ReleaseInv DEF End
    <3>2. CASE c \in Queued \ granted /\ Goto(c, "unwinding") /\ LeaveQueue(c)
               /\ UNCHANGED <<attempt, free, granted, cancelled, outcome>>
      BY <1>1, <3>2, CancelQueuedInv
    <3>3. QED
      BY <1>1, <2>8, <3>1, <3>2, CancelQuietInv DEF Cancel
  <2>9. CASE UNCHANGED vars
    <3>1. /\ Queued' = Queued /\ Sending' = Sending
          /\ At("unwinding")' = At("unwinding")
      BY <2>9 DEF vars, Queued, Sending, At
    <3>2. QED
      BY <1>1, <2>9, <3>1
      DEF vars, Inv, TypeOK, RetryOK, SlotsConserved, QueueOK, NoLostWakeup
  <2>10. QED
    BY <1>1, <2>1, <2>2, <2>3, <2>4, <2>5, <2>6, <2>7, <2>8, <2>9
    DEF Next, Run, AllDone
<1>2. QED
  BY InitInv, <1>1, PTL DEF Spec

\* Every variable keeps its type.
THEOREM TypeCorrect == Spec => []TypeOK
BY InvHolds, PTL DEF Inv

\* No slot is ever lost or made up.
THEOREM SlotsAreConserved == Spec => []SlotsConserved
BY InvHolds, PTL DEF Inv

\* A free slot is never forgotten while calls queue for it.
THEOREM WakeupsAreNotLost == Spec => []NoLostWakeup
BY InvHolds, PTL DEF Inv

\* No more requests are outside than there are slots.
THEOREM GateAlwaysHolds == Spec => []GateHolds
<1>1. ASSUME Inv PROVE GateHolds
  <2>1. Cardinality(granted) \in Nat /\ Cardinality(Sending) \in Nat
    BY <1>1, Finite DEF Inv, TypeOK, Queued, Sending, At
  <2>2. QED
    BY <1>1, <2>1, GateAssumption DEF Inv, TypeOK, SlotsConserved, GateHolds
<1>2. QED
  BY InvHolds, <1>1, PTL

\* First come, first served.
THEOREM OvertakingNever == Spec => NoOvertaking
<1>1. ASSUME Inv, [Next]_vars, NEW c \in Calls,
             pc[c] # "sending", pc'[c] = "sending"
      PROVE  (c \in Queued /\ ahead[c] \subseteq granted) \/ Queued = {}
  <2>1. CASE \E d \in Calls : Begin(d) \/ Retry(d)
    BY <1>1, <2>1 DEF Begin, Retry, Acquire, Open, Goto, Inv, TypeOK
  <2>2. CASE \E d \in Calls : Enter(d)
    BY <1>1, <2>2 DEF Enter, Goto, Inv, TypeOK, QueueOK
  <2>3. CASE \E d \in Calls : \/ GiveBack(d) \/ Unwind(d) \/ Answered(d)
                              \/ Shed(d) \/ Cancel(d)
    BY <1>1, <2>3
    DEF GiveBack, ReturnedSlot, Unwind, Answered, Shed, Cancel, End, Goto, Inv, TypeOK
  <2>4. CASE UNCHANGED vars
    BY <1>1, <2>4 DEF vars
  <2>5. QED
    BY <1>1, <2>1, <2>2, <2>3, <2>4 DEF Next, Run, AllDone
<1>2. ASSUME Inv, [Next]_vars
      PROVE  [\A c \in Calls : pc[c] # "sending" /\ pc'[c] = "sending" =>
                \/ c \in Queued /\ ahead[c] \subseteq granted
                \/ Queued = {}]_vars
  BY <1>1, <1>2
<1>3. QED
  BY <1>2, InvHolds, PTL DEF Spec, NoOvertaking

\* A queue is never all there is: while a call stands in it some call is
\* outside, was granted a slot or is about to run, so that the queue moves.
NobodyIsStuck == Queued # {} => Sending # {} \/ granted # {} \/ At("unwinding") # {}

\* Whoever queues, somebody is under way who will let it in.
THEOREM NobodyIsEverStuck == Spec => []NobodyIsStuck
<1>1. ASSUME Inv PROVE NobodyIsStuck
  <2> SUFFICES ASSUME Queued # {}, Sending = {}, granted = {}, At("unwinding") = {}
               PROVE  FALSE
    BY DEF NobodyIsStuck
  <2>1. free = Slots
    BY <1>1, GateAssumption, FS_EmptySet DEF Inv, TypeOK, SlotsConserved
  <2> QED
    BY <1>1, <2>1, GateAssumption DEF Inv, NoLostWakeup
<1> QED
  BY InvHolds, <1>1, PTL

\* A call that queues only moves up: nobody is ever put before it.
QueueMovesUp ==
  [][\A c \in Calls : c \in Queued /\ pc'[c] = "queued" => ahead'[c] \subseteq ahead[c]]_vars

\* With NoOvertaking this bounds the wait of every call by those it found in
\* the queue (Semaphore._waiters is a deque).
THEOREM QueueAlwaysMovesUp == Spec => QueueMovesUp
<1>1. ASSUME Inv, [Next]_vars, NEW c \in Calls, c \in Queued, pc'[c] = "queued"
      PROVE  ahead'[c] \subseteq ahead[c]
  <2>1. CASE \E d \in Calls : Begin(d) \/ Retry(d)
    BY <1>1, <2>1 DEF Begin, Retry, Acquire, Goto, Inv, TypeOK, Queued, At
  <2>2. CASE \E d \in Calls : Enter(d) \/ GiveBack(d)
    BY <1>1, <2>2 DEF Enter, GiveBack, LeaveQueue
  <2>3. CASE \E d \in Calls : Unwind(d) \/ Answered(d) \/ Shed(d)
    BY <2>3 DEF Unwind, Answered, Shed
  <2>4. CASE \E d \in Calls : Cancel(d)
    BY <1>1, <2>4 DEF Cancel, LeaveQueue
  <2>5. CASE UNCHANGED vars
    BY <2>5 DEF vars
  <2>6. QED
    BY <1>1, <2>1, <2>2, <2>3, <2>4, <2>5 DEF Next, Run, AllDone
<1>2. ASSUME Inv, [Next]_vars
      PROVE  [\A c \in Calls : c \in Queued /\ pc'[c] = "queued"
                => ahead'[c] \subseteq ahead[c]]_vars
  BY <1>1, <1>2
<1> QED
  BY InvHolds, <1>2, PTL DEF Spec, QueueMovesUp

-----------------------------------------------------------------------------
(* The refinement of FairGate.                                             *)

InsideFits == Cardinality(granted \cup Sending) <= Slots

\* FairGate counts as DbGate does.
LEMMA SameCount == ASSUME NEW S PROVE Promise!Cardinality(S) = Cardinality(S)
BY DEF Promise!Cardinality, Cardinality

LEMMA InvFits == Inv => InsideFits
<1> SUFFICES ASSUME Inv PROVE InsideFits
  OBVIOUS
<1>1. granted \in SUBSET Calls /\ Sending \in SUBSET Calls /\ granted \cap Sending = {}
  BY DEF Inv, TypeOK, Queued, Sending, At
<1>2. Cardinality(granted \cup Sending) = Cardinality(granted) + Cardinality(Sending)
  BY <1>1, CardDisjoint
<1>3. Cardinality(granted) \in Nat /\ Cardinality(Sending) \in Nat
  BY <1>1, Finite
<1> QED
  BY <1>2, <1>3, GateAssumption DEF Inv, TypeOK, SlotsConserved, InsideFits

\* Some calls go, and w, the first of those without a slot, come in.
LEMMA ChangeImplements ==
  ASSUME Inv, InsideFits', NEW go, NEW w \in SUBSET (Queued \ granted),
         \A c \in w : ahead[c] \cap (Queued \ granted) \subseteq w,
         granted' \cup Sending' = ((granted \cup Sending) \ go) \cup w,
         Queued' \ granted' = (Queued \ granted) \ w,
         \A d \in Calls : ahead'[d] \ granted' = (ahead[d] \ granted) \ w
  PROVE  Promise!Change(go, w)
<1>1. \A c \in w : ahead[c] \ granted \subseteq w
  BY DEF Inv, QueueOK, Queued, At
<1>2. Promise!Cardinality(granted' \cup Sending') <= Slots
  BY SameCount DEF InsideFits
<1>3. w \in SUBSET Calls
  BY DEF Queued, At
<1>4. \A c \in w : [d \in Calls |-> ahead[d] \ granted][c] \subseteq w
  BY <1>1, <1>3
<1>5. [d \in Calls |-> ahead'[d] \ granted']
        = [d \in Calls |-> [e \in Calls |-> ahead[e] \ granted][d] \ w]
  OBVIOUS
<1> QED
  BY <1>2, <1>4, <1>5 DEF Promise!Change

\* A grant, once g have their slots and q queue: what it does to a gate from
\* which the calls in go are gone, of those inside.
LEMMA GrantImplements ==
  ASSUME Inv, InsideFits', NEW go, NEW q, NEW g \in SUBSET q, NEW avail, NEW n,
         GrantFirst(q, g, avail, n),
         q \ g = Queued \ granted, Queued' = q,
         g \cup Sending' = (granted \cup Sending) \ go,
         \A d \in Calls : ahead'[d] \ g = ahead[d] \ granted
  PROVE  \E come \in SUBSET (Queued \ granted) : Promise!Change(go, come)
<1>1. PICK w \in SUBSET (q \ g) :
        /\ \A c \in w : ahead[c] \cap (q \ g) \subseteq w
        /\ granted' = g \cup w
  BY DEF GrantFirst
<1>2. /\ granted' \cup Sending' = ((granted \cup Sending) \ go) \cup w
      /\ Queued' \ granted' = (Queued \ granted) \ w
      /\ \A d \in Calls : ahead'[d] \ granted' = (ahead[d] \ granted) \ w
  BY <1>1
<1>3. Promise!Change(go, w)
  BY <1>1, <1>2, ChangeImplements
<1> QED
  BY <1>1, <1>3

\* A newcomer walks in or lines up.
LEMMA AcquireImplements ==
  ASSUME Inv, InsideFits', NEW c \in Calls, pc[c] \in {"idle", "sleeping"}, Acquire(c)
  PROVE  Promise!WalkIn(c) \/ Promise!LineUp(c)
<1>1. c \notin Queued /\ c \notin Sending /\ c \notin granted
  BY DEF Inv, TypeOK, Queued, Sending, At
<1>2. Promise!New(c)
  BY <1>1 DEF Promise!New
<1>3. CASE Open /\ Goto(c, "sending") /\ UNCHANGED <<ahead, granted>>
  <2>1. Queued = {} /\ granted = {} /\ Queued' = Queued /\ Sending' = Sending \cup {c}
    BY <1>3 DEF Open, Goto, Inv, TypeOK, Queued, Sending, At
  <2>2. Promise!Cardinality(granted' \cup Sending') <= Slots
    BY SameCount DEF InsideFits
  <2>3. /\ Queued' \ granted' = Queued \ granted
        /\ granted' \cup Sending' = (granted \cup Sending) \cup {c}
        /\ [d \in Calls |-> ahead'[d] \ granted'] = [d \in Calls |-> ahead[d] \ granted]
    BY <1>3, <2>1
  <2> QED
    BY <1>2, <2>1, <2>2, <2>3 DEF Promise!WalkIn
<1>4. CASE Goto(c, "queued") /\ ahead' = [ahead EXCEPT ![c] = Queued]
           /\ UNCHANGED granted
  <2>1. Queued' = Queued \cup {c} /\ Sending' = Sending
    BY <1>1, <1>4 DEF Goto, Inv, TypeOK, Queued, Sending, At
  <2>2. Queued' \ granted' = (Queued \ granted) \cup {c}
    BY <1>1, <1>4, <2>1
  <2>3. [d \in Calls |-> ahead'[d] \ granted']
          = [[d \in Calls |-> ahead[d] \ granted] EXCEPT ![c] = Queued \ granted]
    BY <1>4 DEF Inv, TypeOK
  <2>4. granted' \cup Sending' = granted \cup Sending
    BY <1>4, <2>1
  <2> QED
    BY <1>2, <2>2, <2>3, <2>4 DEF Promise!LineUp
<1> QED
  BY <1>3, <1>4 DEF Acquire

\* A call outside ends its request and is no longer inside.
LEMMA ReleaseImplements ==
  ASSUME Inv, InsideFits', NEW c \in Calls, pc[c] = "sending",
         NEW label \in {"sleeping", "done"}, Goto(c, label), Release, UNCHANGED ahead
  PROVE  Promise!Leave(c)
<1>1. /\ Queued' = Queued /\ Sending' = Sending \ {c} /\ c \in Sending /\ c \notin granted
      /\ granted \in SUBSET Queued
  BY DEF Goto, Inv, TypeOK, Queued, Sending, At
<1>2. granted \cup Sending' = (granted \cup Sending) \ {c}
  BY <1>1
<1>3. \E come \in SUBSET (Queued \ granted) : Promise!Change({c}, come)
  BY <1>1, <1>2, GrantImplements DEF Release
<1> QED
  BY <1>1, <1>3 DEF Promise!Leave

\* A granted waiter leaves the queue, to send or to give its slot back.
LEMMA LeaveImplements ==
  ASSUME Inv, InsideFits', NEW c \in granted, NEW avail,
         NEW label \in {"sending", "done"}, Goto(c, label), LeaveQueue(c),
         GrantFirst(Queued \ {c}, granted \ {c}, avail, avail)
  PROVE  \/ label = "sending" /\ Promise!ComeIn
         \/ label = "done" /\ Promise!Leave(c)
<1> DEFINE go == IF label = "sending" THEN {} ELSE {c}
<1>1. /\ c \in Queued /\ c \notin Sending /\ Queued' = Queued \ {c}
      /\ Sending' = IF label = "sending" THEN Sending \cup {c} ELSE Sending
      /\ granted \ {c} \in SUBSET (Queued \ {c})
  BY DEF Goto, Inv, TypeOK, Queued, Sending, At
<1>2. (granted \ {c}) \cup Sending' = (granted \cup Sending) \ go
  BY <1>1
<1>3. \A d \in Calls : ahead'[d] \ (granted \ {c}) = ahead[d] \ granted
  <2>1. ahead[c] \subseteq granted
    BY DEF Inv, QueueOK
  <2> QED
    BY <2>1 DEF LeaveQueue
<1>4. (Queued \ {c}) \ (granted \ {c}) = Queued \ granted
  OBVIOUS
<1> HIDE DEF go
<1>5. \E come \in SUBSET (Queued \ granted) : Promise!Change(go, come)
  BY <1>1, <1>2, <1>3, <1>4, GrantImplements
<1> QED
  BY <1>1, <1>5 DEF Promise!ComeIn, Promise!Leave, go

\* Each action is a step of the promise, or leaves it alone.
LEMMA StepImplements ==
  ASSUME Inv, InsideFits', NEW c \in Calls,
         Begin(c) \/ Run(c) \/ Answered(c) \/ Shed(c) \/ Cancel(c)
  PROVE  Promise!Next \/ UNCHANGED Promise!vars
<1>1. CASE Begin(c) \/ Retry(c)
  BY <1>1, AcquireImplements DEF Begin, Retry, Promise!Next
<1>2. CASE Enter(c)
  <2>1. Promise!ComeIn
    BY <1>2, LeaveImplements DEF Enter
  <2> QED
    BY <2>1 DEF Promise!Next
<1>3. CASE GiveBack(c)
  <2>1. c \in granted
    BY <1>3 DEF GiveBack, Inv, TypeOK
  <2>2. Promise!Leave(c)
    BY <1>3, <2>1, LeaveImplements DEF GiveBack, End
  <2> QED
    BY <2>2 DEF Promise!Next
<1>4. CASE Unwind(c)
  <2>1. Queued' = Queued /\ Sending' = Sending /\ granted \in SUBSET Queued
    BY <1>4 DEF Unwind, End, Goto, Inv, TypeOK, Queued, Sending, At
  <2>2. GrantFirst(Queued, granted, free, free) /\ UNCHANGED ahead
    BY <1>4 DEF Unwind
  <2>3. \E come \in SUBSET (Queued \ granted) : Promise!Change({}, come)
    BY <2>1, <2>2, GrantImplements
  <2> QED
    BY <2>3 DEF Promise!ComeIn, Promise!Next
<1>5. CASE Answered(c) \/ Shed(c)
  <2>1. Promise!Leave(c)
    BY <1>5, ReleaseImplements DEF Answered, Shed, End
  <2> QED
    BY <2>1 DEF Promise!Next
<1>6. CASE pc[c] = "sleeping" /\ End(c, "cancelled")
           /\ UNCHANGED <<attempt, free, ahead, granted, cancelled>>
  <2>1. Queued' = Queued /\ Sending' = Sending
    BY <1>6 DEF End, Goto, Inv, TypeOK, Queued, Sending, At
  <2> QED
    BY <1>6, <2>1 DEF Promise!vars
<1>7. CASE pc[c] = "sending" /\ End(c, "cancelled") /\ Release
           /\ UNCHANGED <<attempt, ahead, cancelled>>
  <2>1. Promise!Leave(c)
    BY <1>7, ReleaseImplements DEF End
  <2> QED
    BY <2>1 DEF Promise!Next
<1>8. CASE UNCHANGED <<pc, attempt, free, ahead, granted, outcome>>
  <2>1. Queued' = Queued /\ Sending' = Sending
    BY <1>8 DEF Queued, Sending, At
  <2> QED
    BY <1>8, <2>1 DEF Promise!vars
<1>9. CASE c \in Queued \ granted /\ Goto(c, "unwinding") /\ LeaveQueue(c)
           /\ UNCHANGED <<attempt, free, granted, cancelled, outcome>>
  <2>1. Queued' = Queued \ {c} /\ Sending' = Sending
    BY <1>9 DEF Goto, Inv, TypeOK, Queued, Sending, At
  <2>2. Queued' \ granted' = (Queued \ granted) \ {c}
    BY <1>9, <2>1
  <2>3. [d \in Calls |-> ahead'[d] \ granted']
          = [d \in Calls |-> IF d = c THEN {}
               ELSE [e \in Calls |-> ahead[e] \ granted][d] \ {c}]
    BY <1>9 DEF LeaveQueue
  <2>4. granted' \cup Sending' = granted \cup Sending
    BY <1>9, <2>1
  <2>5. Promise!GiveUp(c)
    BY <1>9, <2>2, <2>3, <2>4 DEF Promise!GiveUp
  <2> QED
    BY <2>5 DEF Promise!Next
<1> QED
  BY <1>1, <1>2, <1>3, <1>4, <1>5, <1>6, <1>7, <1>8, <1>9 DEF Run, Cancel

\* The gate with its futures, tries and cancellations implements FairGate:
\* no more inside than slots, and the line is let in in its order.
THEOREM ImplementsFairGate == Spec => AdmitsInTurn
<1>1. Init => Promise!Init
  <2> SUFFICES ASSUME Init PROVE Promise!Init
    OBVIOUS
  <2>1. Queued = {} /\ Sending = {} /\ granted = {} /\ ahead = [c \in Calls |-> {}]
    BY DEF Init, Queued, Sending, At
  <2> QED
    BY <2>1 DEF Promise!Init
<1>2. Inv /\ InsideFits' /\ [Next]_vars => [Promise!Next]_(Promise!vars)
  <2>1. CASE UNCHANGED vars
    BY <2>1 DEF vars, Promise!vars, Queued, Sending, At
  <2>2. ASSUME Inv, InsideFits', NEW c \in Calls,
               Begin(c) \/ Run(c) \/ Answered(c) \/ Shed(c) \/ Cancel(c)
        PROVE  Promise!Next \/ UNCHANGED Promise!vars
    BY <2>2, StepImplements
  <2> QED
    BY <2>1, <2>2 DEF Next, AllDone
<1> QED
  BY <1>1, <1>2, InvHolds, InvFits, PTL DEF Spec, AdmitsInTurn, Promise!Spec
=============================================================================
