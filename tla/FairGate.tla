------------------------------- MODULE FairGate -------------------------------
(***************************************************************************)
(* What the gate of db_get promises (backend/app/providers/base.py, lines  *)
(* 29 and 66), without semaphore, futures, tries or pauses: no more than   *)
(* Slots calls are inside, and those who stand in line get in in the order *)
(* in which they came.  A call may be told to stand in line although there *)
(* is room; it may leave the line at any time.                             *)
(***************************************************************************)
EXTENDS Naturals, FiniteSets

CONSTANTS Calls, Slots

VARIABLES
  inside,  \* the calls that hold a slot
  line,    \* the calls that stand in line
  before   \* before[c]: those in line before c

vars == <<inside, line, before>>

Init ==
  /\ inside = {} /\ line = {}
  /\ before = [c \in Calls |-> {}]

New(c) == c \notin inside \cup line

\* Nobody stands in line and there is room.
WalkIn(c) ==
  /\ New(c) /\ line = {}
  /\ inside' = inside \cup {c}
  /\ Cardinality(inside') <= Slots
  /\ UNCHANGED <<line, before>>

\* To the end of the line.
LineUp(c) ==
  /\ New(c)
  /\ line' = line \cup {c}
  /\ before' = [before EXCEPT ![c] = line]
  /\ UNCHANGED inside

GiveUp(c) ==
  /\ c \in line
  /\ line' = line \ {c}
  /\ before' = [d \in Calls |-> IF d = c THEN {} ELSE before[d] \ {c}]
  /\ UNCHANGED inside

\* Some go, and the first of the line come in, with none left before them.
Change(go, come) ==
  /\ \A c \in come : before[c] \subseteq come
  /\ inside' = (inside \ go) \cup come
  /\ Cardinality(inside') <= Slots
  /\ line' = line \ come
  /\ before' = [d \in Calls |-> before[d] \ come]

Leave(c) == c \in inside /\ \E come \in SUBSET line : Change({c}, come)
ComeIn == \E come \in SUBSET line : Change({}, come)

Next == ComeIn \/ \E c \in Calls : WalkIn(c) \/ LineUp(c) \/ GiveUp(c) \/ Leave(c)

Spec == Init /\ [][Next]_vars
=============================================================================
