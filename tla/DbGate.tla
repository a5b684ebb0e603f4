-------------------------------- MODULE DbGate --------------------------------
(***************************************************************************)
(* db_get of backend/app/providers/base.py: a GET against the Deutsche     *)
(* Bahn REST wrapper, at most Slots of them outside at once, each tried at *)
(* most MaxAttempts times with a pause between tries.                      *)
(*                                                                         *)
(* The gate is an asyncio.Semaphore (Python 3.12, the image of Dockerfile).*)
(* A call that cannot enter queues a future.  A release hands its slot to  *)
(* the first waiter by resolving the future; the waiter stays in the queue *)
(* until the event loop runs it, and nobody enters past a queued waiter.   *)
(* A slot can therefore be free while calls queue; the waiter that resumes *)
(* next must pass it on.                                                   *)
(***************************************************************************)
EXTENDS Naturals, FiniteSets

CONSTANTS Calls,        \* invocations of db_get
          Slots,        \* settings.db_max_concurrency
          MaxAttempts   \* tries per call, 3 in the code

ASSUME GateAssumption ==
  /\ IsFiniteSet(Calls)
  /\ Slots \in Nat \ {0}
  /\ MaxAttempts \in Nat \ {0}

VARIABLES
  pc,         \* pc[c]: where call c is suspended
  attempt,    \* attempt[c]: the try call c is on, 0 before the first
  free,       \* Semaphore._value
  ahead,      \* ahead[c]: the waiters queued before c, in Semaphore._waiters
  granted,    \* the waiters whose future is resolved
  cancelled,  \* the granted waiters cancelled before they resumed
  outcome     \* outcome[c]: how db_get ended for c

vars == <<pc, attempt, free, ahead, granted, cancelled, outcome>>

At(label) == {c \in Calls : pc[c] = label}
Queued    == At("queued")
Sending   == At("sending")

TypeOK ==
  /\ pc \in [Calls -> {"idle", "queued", "unwinding", "sending", "sleeping",
                       "done"}]
  /\ attempt \in [Calls -> 0..MaxAttempts]
  /\ free \in 0..Slots
  /\ ahead \in [Calls -> SUBSET Calls]
  /\ granted \in SUBSET Queued
  /\ cancelled \in SUBSET granted
  /\ outcome \in [Calls -> {"pending", "answered", "refused", "exhausted",
                            "cancelled"}]

Init ==
  /\ pc = [c \in Calls |-> "idle"]
  /\ attempt = [c \in Calls |-> 0]
  /\ free = Slots
  /\ ahead = [c \in Calls |-> {}]
  /\ granted = {}
  /\ cancelled = {}
  /\ outcome = [c \in Calls |-> "pending"]

Smaller(m, n) == IF m <= n THEN m ELSE n

Goto(c, label) == pc' = [pc EXCEPT ![c] = label]
End(c, how) == Goto(c, "done") /\ outcome' = [outcome EXCEPT ![c] = how]

LeaveQueue(c) ==
  ahead' = [d \in Calls |-> IF d = c THEN {} ELSE ahead[d] \ {c}]

-----------------------------------------------------------------------------
(* asyncio.Semaphore.                                                      *)

\* Broken: only a release wakes a waiter; one that resumes passes nothing on.
DueOnRelease(n, waiting) == IF n = 1 THEN Smaller(1, waiting) ELSE 0

\* The waiters to be granted when n slots are passed on.
Due(n, waiting) == Smaller(n, waiting)

\* Broken: the waiters are kept in a set, and any of them is granted.
GrantAny(q, g, avail, n) ==
  \E w \in SUBSET (q \ g) :
    /\ Cardinality(w) = Due(n, Cardinality(q \ g))
    /\ granted' = g \cup w
    /\ free' = avail - Cardinality(w)

\* Of the waiters q, of whom g are granted, grant the first n not granted
\* yet, as far as there are any, out of avail free slots.
GrantFirst(q, g, avail, n) ==
  \E w \in SUBSET (q \ g) :
    /\ Cardinality(w) = Due(n, Cardinality(q \ g))
    /\ \A c \in w : ahead[c] \cap (q \ g) \subseteq w
    /\ granted' = g \cup w
    /\ free' = avail - Cardinality(w)

\* Broken: the gate is open whenever a slot is free, past those who queue.
OpenToAll == free > 0

Open == free > 0 /\ Queued = {}

\* acquire: a call enters only if a slot is free and nobody queues.
Acquire(c) ==
  \/ /\ Open
     /\ free' = free - 1
     /\ Goto(c, "sending")
     /\ UNCHANGED <<ahead, granted>>
  \/ /\ ~Open
     /\ Goto(c, "queued")
     /\ ahead' = [ahead EXCEPT ![c] = Queued]
     /\ UNCHANGED <<free, granted>>

\* release, by a call that is sending: the first waiter gets the slot.
Release == GrantFirst(Queued, granted, free + 1, 1)

\* A granted waiter runs again: it leaves the queue, passes on the slots that
\* are free besides its own, and sends its request.
Enter(c) ==
  /\ c \in granted \ cancelled
  /\ Goto(c, "sending")
  /\ LeaveQueue(c)
  /\ GrantFirst(Queued \ {c}, granted \ {c}, free, free)
  /\ UNCHANGED <<attempt, cancelled, outcome>>

\* Broken: a cancelled waiter keeps the slot it was handed.
KeptSlot == free

ReturnedSlot == free + 1

\* A waiter that was granted its slot and then cancelled gives it back.
GiveBack(c) ==
  /\ c \in cancelled
  /\ End(c, "cancelled")
  /\ LeaveQueue(c)
  /\ cancelled' = cancelled \ {c}
  /\ GrantFirst(Queued \ {c}, granted \ {c}, ReturnedSlot, ReturnedSlot)
  /\ UNCHANGED attempt

\* A waiter cancelled while queued runs the end of acquire.
Unwind(c) ==
  /\ pc[c] = "unwinding"
  /\ End(c, "cancelled")
  /\ GrantFirst(Queued, granted, free, free)
  /\ UNCHANGED <<attempt, ahead, cancelled>>

-----------------------------------------------------------------------------
(* db_get.                                                                 *)

\* The first try.
Begin(c) ==
  /\ pc[c] = "idle"
  /\ attempt' = [attempt EXCEPT ![c] = 1]
  /\ Acquire(c)
  /\ UNCHANGED <<cancelled, outcome>>

\* The pause before a further try is over.
Retry(c) ==
  /\ pc[c] = "sleeping"
  /\ attempt' = [attempt EXCEPT ![c] = @ + 1]
  /\ Acquire(c)
  /\ UNCHANGED <<cancelled, outcome>>

\* The request ends and the slot is released.  A body, or one that is not
\* JSON, or a status of 400 and above ends the call; a transport error, 429,
\* 502, 503 and 504 end the try.
Answered(c) ==
  /\ pc[c] = "sending"
  /\ \E how \in {"answered", "refused"} : End(c, how)
  /\ Release
  /\ UNCHANGED <<attempt, ahead, cancelled>>

Shed(c) ==
  /\ pc[c] = "sending"
  /\ \/ /\ attempt[c] < MaxAttempts
        /\ Goto(c, "sleeping")
        /\ UNCHANGED outcome
     \/ /\ attempt[c] = MaxAttempts
        /\ End(c, "exhausted")
  /\ Release
  /\ UNCHANGED <<attempt, ahead, cancelled>>

\* The task that runs db_get is cancelled: by the leader of the cache fetch
\* it works for (see SingleFlightCache).
Cancel(c) ==
  \/ /\ pc[c] = "sleeping"
     /\ End(c, "cancelled")
     /\ UNCHANGED <<attempt, free, ahead, granted, cancelled>>
  \/ /\ pc[c] = "sending"
     /\ End(c, "cancelled")
     /\ Release
     /\ UNCHANGED <<attempt, ahead, cancelled>>
  \/ /\ c \in granted \ cancelled
     /\ cancelled' = cancelled \cup {c}
     /\ UNCHANGED <<pc, attempt, free, ahead, granted, outcome>>
  \/ /\ c \in Queued \ granted
     /\ Goto(c, "unwinding")
     /\ LeaveQueue(c)
     /\ UNCHANGED <<attempt, free, granted, cancelled, outcome>>

AllDone == At("done") = Calls /\ UNCHANGED vars

Run(c) == Enter(c) \/ GiveBack(c) \/ Unwind(c) \/ Retry(c)

Next ==
  \/ \E c \in Calls : Begin(c) \/ Run(c) \/ Answered(c) \/ Shed(c) \/ Cancel(c)
  \/ AllDone

Spec == Init /\ [][Next]_vars

\* The event loop runs what is ready and every sleep ends; httpx ends every
\* request, with an answer or at its timeout.
FairSpec ==
  Spec /\ \A c \in Calls : WF_vars(Run(c)) /\ WF_vars(Answered(c) \/ Shed(c))

-----------------------------------------------------------------------------
(* Properties.                                                             *)

\* db_max_concurrency holds: no more requests are outside than slots, after
\* any order of waits, retries and cancellations.
GateHolds == Cardinality(Sending) <= Slots

\* Every slot is free, handed to a waiter that has not run yet, or held by a
\* request: none is lost by a failure or a cancellation, and none is held
\* over a pause.
SlotsConserved ==
  free + Cardinality(granted) + Cardinality(Sending) = Slots

\* If a slot is free while calls queue, one of them is about to run and will
\* pass it on.
NoLostWakeup ==
  free > 0 /\ Queued \ granted # {} => granted # {} \/ At("unwinding") # {}

\* First come, first served: a call sends only when every call that queued
\* before it has its slot too, and a newcomer only when none queues.
NoOvertaking ==
  [][\A c \in Calls : pc[c] # "sending" /\ pc'[c] = "sending" =>
       \/ c \in Queued /\ ahead[c] \subseteq granted
       \/ Queued = {}]_vars

\* Every call to db_get ends: the queue moves on past every failure, retry
\* and cancellation.
EveryCallEnds ==
  \A c \in Calls : (pc[c] # "idle") ~> (pc[c] = "done")

\* The gate keeps the promise of FairGate: a waiter whose future is resolved
\* is inside, whether it has run or was cancelled since, until it gives its
\* slot back.
Promise == INSTANCE FairGate WITH
  inside <- granted \cup Sending,
  line   <- Queued \ granted,
  before <- [c \in Calls |-> ahead[c] \ granted]

AdmitsInTurn == Promise!Spec
=============================================================================
