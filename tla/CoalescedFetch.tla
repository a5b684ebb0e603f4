---------------------------- MODULE CoalescedFetch ----------------------------
(***************************************************************************)
(* What Cache.get_or_set promises its callers (backend/app/cache.py, lines *)
(* 3-6 and 64), without tasks, futures or a dict of tasks in flight.       *)
(*                                                                         *)
(* For each key the upstream is idle, out (one request is being made) or   *)
(* landed (its answer is in and has not been taken up).  A request is made *)
(* only for a call that asks, and only when no answer is remembered and no *)
(* request is out or landed.  When it lands, every call that waited for    *)
(* the key can be answered by it, and a newcomer too, but only while one   *)
(* who waited is still there: an answer does not outlive its request.      *)
(***************************************************************************)
CONSTANTS Calls, Keys

VARIABLES
  wants,      \* wants[c]: the key call c asks for
  phase,      \* phase[c]: "new", "waiting", "answerable" or "answered"
  upstream,   \* upstream[k]: "idle", "out" or "landed"
  live        \* the keys with a remembered answer

vars == <<wants, phase, upstream, live>>

Init ==
  /\ wants \in [Calls -> Keys]
  /\ phase = [c \in Calls |-> "new"]
  /\ upstream = [k \in Keys |-> "idle"]
  /\ live = {}

Move(c, from, to) == phase[c] = from /\ phase' = [phase EXCEPT ![c] = to]

Here(k) == \E c \in Calls : wants[c] = k /\ phase[c] = "answerable"

\* A call is answered at once: by what is remembered, or by what has landed
\* for calls that are still about to take it.
Serve(c) ==
  /\ wants[c] \in live \/ (upstream[wants[c]] = "landed" /\ Here(wants[c]))
  /\ Move(c, "new", "answered")
  /\ UNCHANGED <<wants, upstream, live>>

\* Nothing is remembered and nothing is on its way: the call goes upstream.
AskUpstream(c) ==
  /\ wants[c] \notin live
  /\ upstream[wants[c]] = "idle"
  /\ Move(c, "new", "waiting")
  /\ upstream' = [upstream EXCEPT ![wants[c]] = "out"]
  /\ UNCHANGED <<wants, live>>

\* A request is out already: the call shares it.
Share(c) ==
  /\ wants[c] \notin live
  /\ upstream[wants[c]] = "out"
  /\ Move(c, "new", "waiting")
  /\ UNCHANGED <<wants, upstream, live>>

\* The request ends, well or badly, for all who waited.
Land(k) ==
  /\ upstream[k] = "out"
  /\ upstream' = [upstream EXCEPT ![k] = "landed"]
  /\ phase' = [c \in Calls |-> IF wants[c] = k /\ phase[c] = "waiting"
                                 THEN "answerable" ELSE phase[c]]
  /\ UNCHANGED <<wants, live>>

\* One call takes the answer up: from then on it is remembered, or lost.
TakeUp(c) ==
  /\ upstream[wants[c]] = "landed"
  /\ Move(c, "answerable", "answered")
  /\ upstream' = [upstream EXCEPT ![wants[c]] = "idle"]
  /\ live' \in {live, live \cup {wants[c]}}
  /\ UNCHANGED wants

Answer(c) ==
  /\ Move(c, "answerable", "answered")
  /\ UNCHANGED <<wants, upstream, live>>

\* A call that waits on another's request gives up; the request goes on.
GiveUp(c) ==
  /\ Move(c, "waiting", "answered")
  /\ UNCHANGED <<wants, upstream, live>>

Forget(k) == live' = live \ {k} /\ UNCHANGED <<wants, phase, upstream>>

Next ==
  \/ \E c \in Calls : \/ Serve(c) \/ AskUpstream(c) \/ Share(c)
                      \/ TakeUp(c) \/ Answer(c) \/ GiveUp(c)
  \/ \E k \in Keys : Land(k) \/ Forget(k)

Spec == Init /\ [][Next]_vars
=============================================================================
