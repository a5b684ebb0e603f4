-------------------------- MODULE SingleFlightCache --------------------------
(***************************************************************************)
(* Cache.get_or_set of backend/app/cache.py: a cache with a time to live   *)
(* whose concurrent misses share one upstream call.                        *)
(*                                                                         *)
(* A member of Calls is one invocation of get_or_set.  It misses, and then *)
(* either leads (creates the asyncio task that runs its producer) or       *)
(* follows (awaits, shielded, the task another call created).  A task is   *)
(* named by the call that created it.  One action is what the event loop   *)
(* runs between two suspensions of a coroutine, so everything the code     *)
(* does without an await that suspends is one step.                        *)
(*                                                                         *)
(* With UseRedis the get and the set suspend; without it they touch a dict *)
(* and do not.  Values are abstracted to the call whose fetch made them.   *)
(***************************************************************************)
CONSTANTS Calls,      \* invocations of get_or_set
          Keys,       \* cache keys (key_for: one per distinct query)
          NoCall,     \* no task, no cached value
          UseRedis    \* settings.redis_url is set

ASSUME CacheAssumption == NoCall \notin Calls /\ UseRedis \in BOOLEAN

VARIABLES
  key,        \* key[c]: the key call c asks for
  pc,         \* pc[c]: where call c is suspended
  fetch,      \* fetch[c]: the task call c created, "unborn" if none
  follows,    \* follows[c]: the call whose task c awaits through shield
  inflight,   \* inflight[k]: Cache._inflight
  store,      \* store[k]: Cache._local or Redis; live = not past its ttl
  seen,       \* seen[c]: what Redis answered to the get of c
  cancelled,  \* cancelled[c]: c was cancelled while it awaited its own task
  outcome     \* outcome[c]: how get_or_set ended for c

vars == <<key, pc, fetch, follows, inflight, store, seen, cancelled, outcome>>

Ends       == {"value", "nothing", "failed", "cancelled"}
Landed(c)  == fetch[c] \in Ends
CallOrNone == Calls \cup {NoCall}
Entry      == [from : CallOrNone, live : BOOLEAN]
NoEntry    == [from |-> NoCall, live |-> FALSE]
Stored(c)  == [from |-> c, live |-> TRUE]
Pending    == [how |-> "pending", from |-> NoCall]

TypeOK ==
  /\ key \in [Calls -> Keys]
  /\ pc \in [Calls -> {"idle", "reading", "read", "leading", "following",
                       "writing", "done"}]
  /\ fetch \in [Calls -> {"unborn", "running", "cancelling"} \cup Ends]
  /\ follows \in [Calls -> CallOrNone]
  /\ inflight \in [Keys -> CallOrNone]
  /\ store \in [Keys -> Entry]
  /\ seen \in [Calls -> CallOrNone]
  /\ cancelled \in [Calls -> BOOLEAN]
  /\ outcome \in [Calls -> [how : Ends \cup {"pending"}, from : CallOrNone]]

Init ==
  /\ key \in [Calls -> Keys]
  /\ pc = [c \in Calls |-> "idle"]
  /\ fetch = [c \in Calls |-> "unborn"]
  /\ follows = [c \in Calls |-> NoCall]
  /\ inflight = [k \in Keys |-> NoCall]
  /\ store = [k \in Keys |-> NoEntry]
  /\ seen = [c \in Calls |-> NoCall]
  /\ cancelled = [c \in Calls |-> FALSE]
  /\ outcome = [c \in Calls |-> Pending]

-----------------------------------------------------------------------------
(* The pieces of get_or_set.                                               *)

\* get_or_set leaves call c, with a result or an exception.
Finish(c, how, from) ==
  /\ pc' = [pc EXCEPT ![c] = "done"]
  /\ outcome' = [outcome EXCEPT ![c] = [how |-> how, from |-> from]]

\* Broken: the lookup of _inflight is forgotten.
Unchecked(k) == TRUE

\* _inflight.get finds no task.
Unled(k) == inflight[k] = NoCall

\* Register a task of its own for the producer, and await it.
Lead(c) ==
  /\ Unled(key[c])
  /\ inflight' = [inflight EXCEPT ![key[c]] = c]
  /\ fetch' = [fetch EXCEPT ![c] = "running"]
  /\ pc' = [pc EXCEPT ![c] = "leading"]
  /\ UNCHANGED <<follows, outcome>>

\* Await the registered task; a task that has already ended does not suspend.
Follow(c) ==
  LET l == inflight[key[c]] IN
  /\ l # NoCall
  /\ IF Landed(l)
       THEN Finish(c, fetch[l], l) /\ UNCHANGED follows
       ELSE /\ pc' = [pc EXCEPT ![c] = "following"]
            /\ follows' = [follows EXCEPT ![c] = l]
            /\ UNCHANGED outcome
  /\ UNCHANGED <<inflight, fetch>>

Miss(c) == Lead(c) \/ Follow(c)

ValueOf(entry) == entry.from

\* Broken: expires_at is not compared with the clock.
HitsEver(c) == store[key[c]].from # NoCall

Hits(c) == store[key[c]].live

\* A live hit of the dict.
HitLocal(c) ==
  /\ ~UseRedis
  /\ pc[c] = "idle"
  /\ Hits(c)
  /\ Finish(c, "value", ValueOf(store[key[c]]))
  /\ UNCHANGED <<key, fetch, follows, inflight, store, seen, cancelled>>

\* A miss of the dict: an expired entry is dropped, and the call goes on to
\* _inflight without having suspended.
MissLocal(c) ==
  /\ ~UseRedis
  /\ pc[c] = "idle"
  /\ ~Hits(c)
  /\ store' = [store EXCEPT ![key[c]] = NoEntry]
  /\ Miss(c)
  /\ UNCHANGED <<key, seen, cancelled>>

\* The get is sent to Redis and the call suspends.
AskRedis(c) ==
  /\ UseRedis
  /\ pc[c] = "idle"
  /\ pc' = [pc EXCEPT ![c] = "reading"]
  /\ UNCHANGED <<key, fetch, follows, inflight, store, seen, cancelled, outcome>>

\* Redis answers; the call is made ready but has not run yet.
RedisAnswers(c) ==
  /\ pc[c] = "reading"
  /\ pc' = [pc EXCEPT ![c] = "read"]
  /\ seen' = [seen EXCEPT ![c] = store[key[c]].from]
  /\ UNCHANGED <<key, fetch, follows, inflight, store, cancelled, outcome>>

\* The connection to Redis fails during the get: nothing catches it.
RedisReadFails(c) ==
  /\ pc[c] = "reading"
  /\ Finish(c, "failed", NoCall)
  /\ UNCHANGED <<key, fetch, follows, inflight, store, seen, cancelled>>

\* The call runs again with the answer of Redis.
ResumeRead(c) ==
  /\ pc[c] = "read"
  /\ \/ /\ seen[c] # NoCall
        /\ Finish(c, "value", seen[c])
        /\ UNCHANGED <<follows, inflight, fetch>>
     \/ /\ seen[c] = NoCall
        /\ Miss(c)
  /\ UNCHANGED <<key, store, seen, cancelled>>

-----------------------------------------------------------------------------
(* The task that runs the producer.                                        *)

\* The producer returns a value, returns None, or raises.
FetchEnds(c) ==
  /\ fetch[c] = "running"
  /\ \E end \in {"value", "nothing", "failed"} :
       fetch' = [fetch EXCEPT ![c] = end]
  /\ UNCHANGED <<key, pc, follows, inflight, store, seen, cancelled, outcome>>

\* A cancelled task unwinds: no producer catches CancelledError.
FetchUnwinds(c) ==
  /\ fetch[c] = "cancelling"
  /\ fetch' = [fetch EXCEPT ![c] = "cancelled"]
  /\ UNCHANGED <<key, pc, follows, inflight, store, seen, cancelled, outcome>>

\* Broken: whatever did not raise is stored, None included.
StoresAny(c) == fetch[c] \in {"value", "nothing"} /\ ~cancelled[c]

\* The task returned, and not None.
Stores(c) == fetch[c] = "value" /\ ~cancelled[c]

\* Broken: no finally, a task that raised is left registered.
PoppedOnReturn(c) ==
  IF fetch[c] \in {"value", "nothing"} THEN [inflight EXCEPT ![key[c]] = NoCall]
                                      ELSE inflight

\* The finally.
Popped(c) == [inflight EXCEPT ![key[c]] = NoCall]

\* The leader resumes after its task: _inflight is popped whatever happened,
\* and a value that is not None goes on to set.
LeaderResumes(c) ==
  /\ pc[c] = "leading"
  /\ Landed(c)
  /\ inflight' = Popped(c)
  /\ \/ /\ Stores(c) /\ ~UseRedis
        /\ store' = [store EXCEPT ![key[c]] = Stored(c)]
        /\ Finish(c, "value", c)
     \/ /\ Stores(c) /\ UseRedis
        /\ pc' = [pc EXCEPT ![c] = "writing"]
        /\ UNCHANGED <<store, outcome>>
     \/ /\ ~Stores(c)
        /\ Finish(c, IF cancelled[c] THEN "cancelled" ELSE fetch[c], c)
        /\ UNCHANGED store
  /\ UNCHANGED <<key, fetch, follows, seen, cancelled>>

\* The set reaches Redis.
RedisStores(c) ==
  /\ pc[c] = "writing"
  /\ store' = [store EXCEPT ![key[c]] = Stored(c)]
  /\ Finish(c, "value", c)
  /\ UNCHANGED <<key, fetch, follows, inflight, seen, cancelled>>

\* The connection fails during the set: the leader raises although it has
\* the value; whether Redis stored it is unknown.
RedisWriteFails(c) ==
  /\ pc[c] = "writing"
  /\ store' \in {store, [store EXCEPT ![key[c]] = Stored(c)]}
  /\ Finish(c, "failed", NoCall)
  /\ UNCHANGED <<key, fetch, follows, inflight, seen, cancelled>>

\* Broken: a follower waits for the cache to be filled, not for the task.
WokenByStore(c) == store[key[c]].live

Woken(c) == Landed(follows[c])

\* A follower resumes after the task it shielded ended.
FollowerResumes(c) ==
  /\ pc[c] = "following"
  /\ Woken(c)
  /\ Finish(c, fetch[follows[c]], follows[c])
  /\ UNCHANGED <<key, fetch, follows, inflight, store, seen, cancelled>>

-----------------------------------------------------------------------------
(* Cancellation of a call, and the passing of time.                        *)

\* A leader awaits its task directly, so its cancellation is passed to the
\* task; a task that has ended keeps its result and the leader alone is
\* cancelled, when it resumes.
CancelLeader(c) ==
  /\ pc[c] = "leading"
  /\ cancelled' = [cancelled EXCEPT ![c] = TRUE]
  /\ fetch' = [fetch EXCEPT ![c] = IF @ = "running" THEN "cancelling" ELSE @]
  /\ UNCHANGED <<key, pc, follows, inflight, store, seen, outcome>>

\* Broken: the task is awaited without shield.
NoShield(c) ==
  fetch' = [fetch EXCEPT ![follows[c]] = IF @ = "running" THEN "cancelling" ELSE @]

Shield(c) == UNCHANGED fetch

\* A follower awaits a shield: the task runs on.
CancelFollower(c) ==
  /\ pc[c] = "following"
  /\ Finish(c, "cancelled", NoCall)
  /\ Shield(c)
  /\ UNCHANGED <<key, follows, inflight, store, seen, cancelled>>

\* A call that waits for Redis; a set already sent may still be stored.
CancelRedisWait(c) ==
  /\ pc[c] \in {"reading", "read", "writing"}
  /\ Finish(c, "cancelled", NoCall)
  /\ \/ UNCHANGED store
     \/ /\ pc[c] = "writing"
        /\ store' = [store EXCEPT ![key[c]] = Stored(c)]
  /\ UNCHANGED <<key, fetch, follows, inflight, seen, cancelled>>

\* The ttl of an entry runs out: the dict keeps it until it is next read,
\* Redis drops it.
Expire(k) ==
  /\ store[k].live
  /\ store' = [store EXCEPT ![k] =
                 IF UseRedis THEN NoEntry ELSE [from |-> @.from, live |-> FALSE]]
  /\ UNCHANGED <<key, pc, fetch, follows, inflight, seen, cancelled, outcome>>

\* Every call has ended and nothing is left to expire.
Quiet ==
  /\ \A c \in Calls : pc[c] = "done"
  /\ UNCHANGED vars

\* A call is made.
Arrive(c) == HitLocal(c) \/ MissLocal(c) \/ AskRedis(c)

\* A coroutine that is ready runs on.
Wake(c) == ResumeRead(c) \/ LeaderResumes(c) \/ FollowerResumes(c)

RunFetch(c) == FetchEnds(c) \/ FetchUnwinds(c)

Redis(c) ==
  RedisAnswers(c) \/ RedisReadFails(c) \/ RedisStores(c) \/ RedisWriteFails(c)

Cancel(c) == CancelLeader(c) \/ CancelFollower(c) \/ CancelRedisWait(c)

Next ==
  \/ \E c \in Calls :
       Arrive(c) \/ Wake(c) \/ RunFetch(c) \/ Redis(c) \/ Cancel(c)
  \/ \E k \in Keys : Expire(k)
  \/ Quiet

Spec == Init /\ [][Next]_vars

\* The event loop runs every coroutine that is ready, and every producer
\* ends: httpx puts a timeout on each request and attempts are bounded.
\* Nothing is assumed of Redis, whose client is given no timeout.
FairSpec ==
  Spec /\ \A c \in Calls : WF_vars(Wake(c)) /\ WF_vars(RunFetch(c))

-----------------------------------------------------------------------------
(* Properties.                                                             *)

\* The tasks whose producer may have a request outside.
Upstream == {c \in Calls : fetch[c] \in {"running", "cancelling"}}

\* Concurrent misses on one key share one upstream call (get_or_set's own
\* words): of the calls inside get_or_set at one time, at most one per key
\* went upstream itself.
SingleFlight ==
  \A c, d \in Calls :
    /\ pc[c] \in {"leading", "writing"} /\ pc[d] \in {"leading", "writing"}
    /\ key[c] = key[d]
    => c = d

\* Two requests for one key are never outside at the same moment, whichever
\* store is used and whoever is cancelled.
NoParallelFetch ==
  \A c, d \in Upstream : key[c] = key[d] => c = d

\* While the cache holds a live value nobody is upstream for it: a restart
\* of the fetch waits for the ttl.
NoFetchWhileLive ==
  \A c \in Upstream : ~store[key[c]].live

\* _inflight names exactly the calls that await their own task, so no entry
\* survives its leader (later misses would be answered by a dead task for
\* good) and none disappears early.
InflightIsLed ==
  \A k \in Keys, c \in Calls :
    inflight[k] = c <=> (pc[c] = "leading" /\ key[c] = k)

\* A follower waits for a task that has ended, or for the one _inflight names
\* for its key, with the leader still there to take it up: nobody is left
\* behind awaiting a task that no one runs or that was replaced, whoever was
\* cancelled and whatever Redis answered late.
FollowersAreServed ==
  \A c \in Calls : pc[c] = "following" =>
    \/ Landed(follows[c])
    \/ pc[follows[c]] = "leading" /\ inflight[key[c]] = follows[c]

\* What shield is for: a task is cancelled only by its own leader, never by
\* a call that merely waits for it.
CancelIsolation ==
  \A c \in Calls : fetch[c] \in {"cancelling", "cancelled"} => cancelled[c]

\* An outage is never remembered: what the cache holds for a key is a value
\* some fetch of that key really returned, not None and not an exception.
OutageNeverCached ==
  \A k \in Keys : store[k].from # NoCall =>
    fetch[store[k].from] = "value" /\ key[store[k].from] = k

\* A call ends the way the fetch it shared ended, for its own key, unless it
\* was itself cancelled or lost the connection to Redis.
AnswerIsOwn ==
  \A c \in Calls : outcome[c].from # NoCall =>
    LET l == outcome[c].from IN
    /\ key[l] = key[c]
    /\ outcome[c].how = fetch[l] \/ (l = c /\ cancelled[c])

\* A value still live is never replaced by another fetch, only dropped.
LiveValueKept ==
  [][\A k \in Keys : store[k].live =>
       \/ store'[k].from = store[k].from
       \/ ~store'[k].live]_vars

\* With the dict, a call that neither led nor followed a fetch is answered
\* out of an entry within its ttl, or by a task that ended this instant.
ExpiredNeverServed ==
  [][\A c \in Calls : pc[c] = "idle" /\ pc'[c] = "done" =>
       \/ store[key[c]].live /\ outcome'[c].from = store[key[c]].from
       \/ inflight[key[c]] = outcome'[c].from]_vars

\* Every call ends, whoever fails or is cancelled: no leader leaves its
\* followers waiting.
EveryCallEnds ==
  \A c \in Calls : (pc[c] # "idle") ~> (pc[c] = "done")

\* With the dict the code implements the promise of CoalescedFetch.
PhaseOf(c) ==
  CASE pc[c] = "idle" -> "new"
    [] pc[c] = "leading" -> IF Landed(c) THEN "answerable" ELSE "waiting"
    [] pc[c] = "following" ->
         IF Landed(follows[c]) THEN "answerable" ELSE "waiting"
    [] OTHER -> "answered"

UpstreamOf(k) ==
  IF inflight[k] = NoCall THEN "idle"
  ELSE IF Landed(inflight[k]) THEN "landed" ELSE "out"

Promise == INSTANCE CoalescedFetch WITH
  wants    <- key,
  phase    <- [c \in Calls |-> PhaseOf(c)],
  upstream <- [k \in Keys |-> UpstreamOf(k)],
  live     <- {k \in Keys : store[k].live}

\* Every behaviour of the code with the dict is one of CoalescedFetch.
KeepsPromise == Promise!Spec
=============================================================================
