----------------------- MODULE SingleFlightCacheProofs -----------------------
(***************************************************************************)
(* Theorems about Cache.get_or_set (SingleFlightCache), for every set of   *)
(* calls and keys.  Inv is inductive with either store; LocalInv needs the *)
(* store to be the dict.                                                   *)
(***************************************************************************)
EXTENDS SingleFlightCache, TLAPS

\* A task is created by a call that has none, and its leader stays with it.
FetchIsLed ==
  \A c \in Calls :
    /\ pc[c] \in {"idle", "reading", "read"} => fetch[c] = "unborn"
    /\ fetch[c] \in {"running", "cancelling"} => pc[c] = "leading"
    /\ pc[c] = "leading" => fetch[c] # "unborn"
    /\ pc[c] = "writing" => fetch[c] = "value"

\* What a call holds on to, a task or a value read from Redis, is for its key.
HeldIsOwn ==
  \A c \in Calls :
    /\ pc[c] = "following" =>
         /\ follows[c] \in Calls
         /\ key[follows[c]] = key[c]
         /\ fetch[follows[c]] # "unborn"
    /\ seen[c] # NoCall => fetch[seen[c]] = "value" /\ key[seen[c]] = key[c]

Inv ==
  /\ TypeOK
  /\ InflightIsLed
  /\ FetchIsLed
  /\ HeldIsOwn
  /\ CancelIsolation
  /\ OutageNeverCached
  /\ AnswerIsOwn

\* With the dict no call suspends around the store, and a live value and a
\* registered task exclude each other.
LocalInv ==
  /\ \A c \in Calls : pc[c] \notin {"reading", "read", "writing"}
  /\ \A k \in Keys : store[k].live => inflight[k] = NoCall

-----------------------------------------------------------------------------
LEMMA EntryType ==
  ASSUME NEW f \in CallOrNone, NEW b \in BOOLEAN
  PROVE  [from |-> f, live |-> b] \in Entry
BY Zenon DEF Entry

LEMMA NoEntryType == NoEntry \in Entry
BY EntryType DEF NoEntry, CallOrNone

LEMMA StoredType ==
  ASSUME NEW c \in Calls
  PROVE  Stored(c) \in Entry
BY EntryType DEF Stored, CallOrNone

LEMMA ExpiredType ==
  ASSUME NEW e \in Entry
  PROVE  [from |-> e.from, live |-> FALSE] \in Entry
<1>1. e.from \in CallOrNone
  BY DEF Entry
<1>2. QED
  BY <1>1, EntryType

LEMMA InitInv == Init => Inv
BY CacheAssumption, NoEntryType
DEF Init, Inv, TypeOK, InflightIsLed, FetchIsLed, HeldIsOwn, CancelIsolation,
    OutageNeverCached, AnswerIsOwn, NoEntry, Pending, CallOrNone, Ends

\* What a miss does to the calls, tasks and _inflight, whatever became of the
\* store: it may have dropped the expired entry of the key.
LEMMA MissInv ==
  ASSUME NEW c \in Calls, Inv, Miss(c), pc[c] \in {"idle", "read"},
         UNCHANGED <<key, seen, cancelled>>,
         store' \in {store, [store EXCEPT ![key[c]] = NoEntry]}
  PROVE  Inv'
<1> USE CacheAssumption DEF Inv
<1>1. CASE Lead(c)
  <2> USE <1>1 DEF Lead, Unled
  <2>1. TypeOK'
    BY NoEntryType DEF TypeOK, CallOrNone
  <2>2. InflightIsLed'
    BY DEF TypeOK, InflightIsLed, CallOrNone
  <2>3. FetchIsLed'
    BY DEF TypeOK, FetchIsLed
  <2>4. fetch[c] = "unborn"
    BY DEF FetchIsLed
  <2>5. HeldIsOwn'
    BY <2>4 DEF TypeOK, HeldIsOwn, CallOrNone
  <2>6. CancelIsolation'
    BY DEF TypeOK, CancelIsolation
  <2>7. OutageNeverCached'
    BY <2>4 DEF TypeOK, OutageNeverCached, NoEntry, CallOrNone
  <2>8. AnswerIsOwn'
    BY <2>4 DEF TypeOK, AnswerIsOwn, CallOrNone, Ends
  <2>9. QED
    BY <2>1, <2>2, <2>3, <2>5, <2>6, <2>7, <2>8
<1>2. CASE Follow(c)
  <2> DEFINE l == inflight[key[c]]
  <2>1. /\ l \in Calls /\ pc[l] = "leading" /\ key[l] = key[c]
        /\ l # c
    BY <1>2 DEF Follow, TypeOK, InflightIsLed, CallOrNone
  <2>2. fetch[l] # "unborn"
    BY <2>1 DEF FetchIsLed
  <2>3. /\ UNCHANGED <<inflight, fetch>>
        /\ \/ Finish(c, fetch[l], l) /\ UNCHANGED follows /\ fetch[l] \in Ends
           \/ /\ pc' = [pc EXCEPT ![c] = "following"]
              /\ follows' = [follows EXCEPT ![c] = l]
              /\ UNCHANGED outcome
    BY <1>2 DEF Follow, Landed
  <2> HIDE DEF l
  <2>4. TypeOK'
    BY <2>1, <2>3, NoEntryType DEF TypeOK, CallOrNone, Finish
  <2>5. InflightIsLed'
    BY <2>1, <2>3 DEF TypeOK, InflightIsLed, CallOrNone, Finish
  <2>6. FetchIsLed'
    BY <2>1, <2>3 DEF TypeOK, FetchIsLed, Finish
  <2>7. HeldIsOwn'
    BY <2>1, <2>2, <2>3 DEF TypeOK, HeldIsOwn, CallOrNone, Finish
  <2>8. CancelIsolation'
    BY <2>3 DEF CancelIsolation
  <2>9. OutageNeverCached'
    BY <2>3 DEF TypeOK, OutageNeverCached, NoEntry, CallOrNone
  <2>10. AnswerIsOwn'
    BY <2>1, <2>3 DEF TypeOK, AnswerIsOwn, CallOrNone, Finish
  <2>11. QED
    BY <2>4, <2>5, <2>6, <2>7, <2>8, <2>9, <2>10
<1>3. QED
  BY <1>1, <1>2 DEF Miss

LEMMA ArriveInv ==
  ASSUME NEW c \in Calls, Inv, Arrive(c)
  PROVE  Inv'
<1>1. CASE HitLocal(c)
  <2> USE <1>1, CacheAssumption DEF HitLocal, Hits, ValueOf, Finish, Inv
  <2>1. TypeOK'
    BY DEF TypeOK, CallOrNone, Ends, Entry
  <2>2. InflightIsLed' /\ FetchIsLed' /\ CancelIsolation'
    BY DEF TypeOK, InflightIsLed, FetchIsLed, CancelIsolation, CallOrNone, Ends
  <2>3. HeldIsOwn'
    BY DEF TypeOK, HeldIsOwn, FetchIsLed, OutageNeverCached, CallOrNone, Ends
  <2>4. OutageNeverCached'
    BY DEF TypeOK, OutageNeverCached, FetchIsLed, Stored, NoEntry, CallOrNone, Ends
  <2>5. AnswerIsOwn'
    BY DEF TypeOK, AnswerIsOwn, HeldIsOwn, FetchIsLed, OutageNeverCached,
           CallOrNone, Ends
  <2>6. QED
    BY <2>1, <2>2, <2>3, <2>4, <2>5
<1>2. CASE MissLocal(c)
  BY <1>2, MissInv DEF MissLocal, Hits
<1>3. CASE AskRedis(c)
  <2> USE <1>3, CacheAssumption DEF AskRedis, Inv
  <2>1. TypeOK'
    BY NoEntryType, StoredType DEF TypeOK, CallOrNone, Ends
  <2>2. InflightIsLed' /\ FetchIsLed' /\ CancelIsolation'
    BY DEF TypeOK, InflightIsLed, FetchIsLed, CancelIsolation, CallOrNone, Ends
  <2>3. HeldIsOwn'
    BY DEF TypeOK, HeldIsOwn, FetchIsLed, OutageNeverCached, CallOrNone, Ends
  <2>4. OutageNeverCached'
    BY DEF TypeOK, OutageNeverCached, FetchIsLed, Stored, NoEntry, CallOrNone, Ends
  <2>5. AnswerIsOwn'
    BY DEF TypeOK, AnswerIsOwn, HeldIsOwn, FetchIsLed, OutageNeverCached,
           CallOrNone, Ends
  <2>6. QED
    BY <2>1, <2>2, <2>3, <2>4, <2>5
<1>4. QED
  BY <1>1, <1>2, <1>3 DEF Arrive

LEMMA WakeInv ==
  ASSUME NEW c \in Calls, Inv, Wake(c)
  PROVE  Inv'
<1>1. CASE ResumeRead(c) /\ seen[c] # NoCall
  <2>1. Finish(c, "value", seen[c]) /\ pc[c] = "read"
        /\ UNCHANGED <<key, fetch, follows, inflight, store, seen, cancelled>>
    BY <1>1 DEF ResumeRead
  <2> USE <1>1, <2>1, CacheAssumption DEF Finish, Inv
  <2>2. TypeOK'
    BY DEF TypeOK, CallOrNone, Ends
  <2>3. InflightIsLed' /\ FetchIsLed' /\ HeldIsOwn' /\ CancelIsolation'
    BY DEF TypeOK, InflightIsLed, FetchIsLed, HeldIsOwn, CancelIsolation
  <2>4. OutageNeverCached'
    BY DEF OutageNeverCached
  <2>5. AnswerIsOwn'
    BY DEF TypeOK, AnswerIsOwn, HeldIsOwn, CallOrNone
  <2>6. QED
    BY <2>2, <2>3, <2>4, <2>5
<1>2. CASE ResumeRead(c) /\ seen[c] = NoCall
  BY <1>2, MissInv DEF ResumeRead
<1>3. CASE LeaderResumes(c)
  <2> USE <1>3, CacheAssumption DEF LeaderResumes, Stores, Popped, Finish, Landed, Inv
  <2>1. TypeOK'
    <3>1. store' \in [Keys -> Entry]
      BY StoredType DEF TypeOK
    <3>2. outcome' \in [Calls -> [how : Ends \cup {"pending"}, from : CallOrNone]]
      BY DEF TypeOK, CallOrNone, Ends
    <3>3. QED
      BY <3>1, <3>2 DEF TypeOK, CallOrNone
  <2>2. InflightIsLed' /\ FetchIsLed' /\ CancelIsolation'
    BY DEF TypeOK, InflightIsLed, FetchIsLed, CancelIsolation, CallOrNone, Ends
  <2>3. HeldIsOwn'
    BY DEF TypeOK, HeldIsOwn, FetchIsLed, OutageNeverCached, CallOrNone, Ends
  <2>4. OutageNeverCached'
    BY DEF TypeOK, OutageNeverCached, FetchIsLed, Stored, NoEntry, CallOrNone, Ends
  <2>5. AnswerIsOwn'
    BY DEF TypeOK, AnswerIsOwn, HeldIsOwn, FetchIsLed, OutageNeverCached,
           CallOrNone, Ends
  <2>6. QED
    BY <2>1, <2>2, <2>3, <2>4, <2>5
<1>4. CASE FollowerResumes(c)
  <2> USE <1>4, CacheAssumption DEF FollowerResumes, Woken, Finish, Landed, Inv
  <2>1. TypeOK'
    BY NoEntryType, StoredType DEF TypeOK, CallOrNone, Ends
  <2>2. InflightIsLed' /\ FetchIsLed' /\ CancelIsolation'
    BY DEF TypeOK, InflightIsLed, FetchIsLed, CancelIsolation, CallOrNone, Ends
  <2>3. HeldIsOwn'
    BY DEF TypeOK, HeldIsOwn, FetchIsLed, OutageNeverCached, CallOrNone, Ends
  <2>4. OutageNeverCached'
    BY DEF TypeOK, OutageNeverCached, FetchIsLed, Stored, NoEntry, CallOrNone, Ends
  <2>5. AnswerIsOwn'
    BY DEF TypeOK, AnswerIsOwn, HeldIsOwn, FetchIsLed, OutageNeverCached,
           CallOrNone, Ends
  <2>6. QED
    BY <2>1, <2>2, <2>3, <2>4, <2>5
<1>5. QED
  BY <1>1, <1>2, <1>3, <1>4 DEF Wake

LEMMA FetchInv ==
  ASSUME NEW c \in Calls, Inv, RunFetch(c)
  PROVE  Inv'
<1>1. CASE FetchEnds(c)
  <2> USE <1>1, CacheAssumption DEF FetchEnds, Inv
  <2>1. TypeOK'
    BY NoEntryType, StoredType DEF TypeOK, CallOrNone, Ends
  <2>2. InflightIsLed' /\ FetchIsLed' /\ CancelIsolation'
    BY DEF TypeOK, InflightIsLed, FetchIsLed, CancelIsolation, CallOrNone, Ends
  <2>3. HeldIsOwn'
    BY DEF TypeOK, HeldIsOwn, FetchIsLed, OutageNeverCached, CallOrNone, Ends
  <2>4. OutageNeverCached'
    BY DEF TypeOK, OutageNeverCached, FetchIsLed, Stored, NoEntry, CallOrNone, Ends
  <2>5. AnswerIsOwn'
    BY DEF TypeOK, AnswerIsOwn, HeldIsOwn, FetchIsLed, OutageNeverCached,
           CallOrNone, Ends
  <2>6. QED
    BY <2>1, <2>2, <2>3, <2>4, <2>5
<1>2. CASE FetchUnwinds(c)
  <2> USE <1>2, CacheAssumption DEF FetchUnwinds, Inv
  <2>1. TypeOK'
    BY NoEntryType, StoredType DEF TypeOK, CallOrNone, Ends
  <2>2. InflightIsLed' /\ FetchIsLed' /\ CancelIsolation'
    BY DEF TypeOK, InflightIsLed, FetchIsLed, CancelIsolation, CallOrNone, Ends
  <2>3. HeldIsOwn'
    BY DEF TypeOK, HeldIsOwn, FetchIsLed, OutageNeverCached, CallOrNone, Ends
  <2>4. OutageNeverCached'
    BY DEF TypeOK, OutageNeverCached, FetchIsLed, Stored, NoEntry, CallOrNone, Ends
  <2>5. AnswerIsOwn'
    BY DEF TypeOK, AnswerIsOwn, HeldIsOwn, FetchIsLed, OutageNeverCached,
           CallOrNone, Ends
  <2>6. QED
    BY <2>1, <2>2, <2>3, <2>4, <2>5
<1>3. QED
  BY <1>1, <1>2 DEF RunFetch

LEMMA RedisInv ==
  ASSUME NEW c \in Calls, Inv, Redis(c)
  PROVE  Inv'
<1>1. CASE RedisAnswers(c)
  <2> USE <1>1, CacheAssumption DEF RedisAnswers, Inv
  <2>1. TypeOK'
    BY DEF TypeOK, CallOrNone, Entry
  <2>2. InflightIsLed' /\ FetchIsLed' /\ CancelIsolation'
    BY DEF TypeOK, InflightIsLed, FetchIsLed, CancelIsolation, CallOrNone, Ends
  <2>3. HeldIsOwn'
    BY DEF TypeOK, HeldIsOwn, FetchIsLed, OutageNeverCached, CallOrNone, Ends
  <2>4. OutageNeverCached'
    BY DEF TypeOK, OutageNeverCached, FetchIsLed, Stored, NoEntry, CallOrNone, Ends
  <2>5. AnswerIsOwn'
    BY DEF TypeOK, AnswerIsOwn, HeldIsOwn, FetchIsLed, OutageNeverCached,
           CallOrNone, Ends
  <2>6. QED
    BY <2>1, <2>2, <2>3, <2>4, <2>5
<1>2. CASE RedisReadFails(c)
  <2> USE <1>2, CacheAssumption DEF RedisReadFails, Finish, Inv
  <2>1. TypeOK'
    BY NoEntryType, StoredType DEF TypeOK, CallOrNone, Ends
  <2>2. InflightIsLed' /\ FetchIsLed' /\ CancelIsolation'
    BY DEF TypeOK, InflightIsLed, FetchIsLed, CancelIsolation, CallOrNone, Ends
  <2>3. HeldIsOwn'
    BY DEF TypeOK, HeldIsOwn, FetchIsLed, OutageNeverCached, CallOrNone, Ends
  <2>4. OutageNeverCached'
    BY DEF TypeOK, OutageNeverCached, FetchIsLed, Stored, NoEntry, CallOrNone, Ends
  <2>5. AnswerIsOwn'
    BY DEF TypeOK, AnswerIsOwn, HeldIsOwn, FetchIsLed, OutageNeverCached,
           CallOrNone, Ends
  <2>6. QED
    BY <2>1, <2>2, <2>3, <2>4, <2>5
<1>3. CASE RedisStores(c)
  <2> USE <1>3, CacheAssumption DEF RedisStores, Finish, Inv
  <2>1. TypeOK'
    BY NoEntryType, StoredType DEF TypeOK, CallOrNone, Ends
  <2>2. InflightIsLed' /\ FetchIsLed' /\ CancelIsolation'
    BY DEF TypeOK, InflightIsLed, FetchIsLed, CancelIsolation, CallOrNone, Ends
  <2>3. HeldIsOwn'
    BY DEF TypeOK, HeldIsOwn, FetchIsLed, OutageNeverCached, CallOrNone, Ends
  <2>4. OutageNeverCached'
    BY DEF TypeOK, OutageNeverCached, FetchIsLed, Stored, NoEntry, CallOrNone, Ends
  <2>5. AnswerIsOwn'
    BY DEF TypeOK, AnswerIsOwn, HeldIsOwn, FetchIsLed, OutageNeverCached,
           CallOrNone, Ends
  <2>6. QED
    BY <2>1, <2>2, <2>3, <2>4, <2>5
<1>4. CASE RedisWriteFails(c)
  <2> USE <1>4, CacheAssumption DEF RedisWriteFails, Finish, Inv
  <2>1. TypeOK'
    BY NoEntryType, StoredType DEF TypeOK, CallOrNone, Ends
  <2>2. InflightIsLed' /\ FetchIsLed' /\ CancelIsolation'
    BY DEF TypeOK, InflightIsLed, FetchIsLed, CancelIsolation, CallOrNone, Ends
  <2>3. HeldIsOwn'
    BY DEF TypeOK, HeldIsOwn, FetchIsLed, OutageNeverCached, CallOrNone, Ends
  <2>4. OutageNeverCached'
    BY DEF TypeOK, OutageNeverCached, FetchIsLed, Stored, NoEntry, CallOrNone, Ends
  <2>5. AnswerIsOwn'
    BY DEF TypeOK, AnswerIsOwn, HeldIsOwn, FetchIsLed, OutageNeverCached,
           CallOrNone, Ends
  <2>6. QED
    BY <2>1, <2>2, <2>3, <2>4, <2>5
<1>5. QED
  BY <1>1, <1>2, <1>3, <1>4 DEF Redis

LEMMA CancelInv ==
  ASSUME NEW c \in Calls, Inv, Cancel(c)
  PROVE  Inv'
<1>1. CASE CancelLeader(c)
  <2> USE <1>1, CacheAssumption DEF CancelLeader, Inv
  <2>1. TypeOK'
    BY NoEntryType, StoredType DEF TypeOK, CallOrNone, Ends
  <2>2. InflightIsLed' /\ FetchIsLed' /\ CancelIsolation'
    BY DEF TypeOK, InflightIsLed, FetchIsLed, CancelIsolation, CallOrNone, Ends
  <2>3. HeldIsOwn'
    BY DEF TypeOK, HeldIsOwn, FetchIsLed, OutageNeverCached, CallOrNone, Ends
  <2>4. OutageNeverCached'
    BY DEF TypeOK, OutageNeverCached, FetchIsLed, Stored, NoEntry, CallOrNone, Ends
  <2>5. AnswerIsOwn'
    BY DEF TypeOK, AnswerIsOwn, HeldIsOwn, FetchIsLed, OutageNeverCached,
           CallOrNone, Ends
  <2>6. QED
    BY <2>1, <2>2, <2>3, <2>4, <2>5
<1>2. CASE CancelFollower(c)
  <2> USE <1>2, CacheAssumption DEF CancelFollower, Shield, Finish, Inv
  <2>1. TypeOK'
    BY NoEntryType, StoredType DEF TypeOK, CallOrNone, Ends
  <2>2. InflightIsLed' /\ FetchIsLed' /\ CancelIsolation'
    BY DEF TypeOK, InflightIsLed, FetchIsLed, CancelIsolation, CallOrNone, Ends
  <2>3. HeldIsOwn'
    BY DEF TypeOK, HeldIsOwn, FetchIsLed, OutageNeverCached, CallOrNone, Ends
  <2>4. OutageNeverCached'
    BY DEF TypeOK, OutageNeverCached, FetchIsLed, Stored, NoEntry, CallOrNone, Ends
  <2>5. AnswerIsOwn'
    BY DEF TypeOK, AnswerIsOwn, HeldIsOwn, FetchIsLed, OutageNeverCached,
           CallOrNone, Ends
  <2>6. QED
    BY <2>1, <2>2, <2>3, <2>4, <2>5
<1>3. CASE CancelRedisWait(c)
  <2> USE <1>3, CacheAssumption DEF CancelRedisWait, Finish, Inv
  <2>1. TypeOK'
    BY NoEntryType, StoredType DEF TypeOK, CallOrNone, Ends
  <2>2. InflightIsLed' /\ FetchIsLed' /\ CancelIsolation'
    BY DEF TypeOK, InflightIsLed, FetchIsLed, CancelIsolation, CallOrNone, Ends
  <2>3. HeldIsOwn'
    BY DEF TypeOK, HeldIsOwn, FetchIsLed, OutageNeverCached, CallOrNone, Ends
  <2>4. OutageNeverCached'
    BY DEF TypeOK, OutageNeverCached, FetchIsLed, Stored, NoEntry, CallOrNone, Ends
  <2>5. AnswerIsOwn'
    BY DEF TypeOK, AnswerIsOwn, HeldIsOwn, FetchIsLed, OutageNeverCached,
           CallOrNone, Ends
  <2>6. QED
    BY <2>1, <2>2, <2>3, <2>4, <2>5
<1>4. QED
  BY <1>1, <1>2, <1>3 DEF Cancel

LEMMA ExpireInv ==
  ASSUME NEW k \in Keys, Inv, Expire(k)
  PROVE  Inv'
<1> USE DEF Expire, Inv
<1>1. TypeOK'
  BY NoEntryType, ExpiredType DEF TypeOK
<1>2. OutageNeverCached'
  BY DEF TypeOK, OutageNeverCached, NoEntry
<1>3. InflightIsLed' /\ FetchIsLed' /\ HeldIsOwn' /\ CancelIsolation' /\ AnswerIsOwn'
  BY DEF InflightIsLed, FetchIsLed, HeldIsOwn, CancelIsolation, AnswerIsOwn
<1>4. QED
  BY <1>1, <1>2, <1>3

LEMMA StutterInv ==
  ASSUME Inv, UNCHANGED vars
  PROVE  Inv'
BY DEF vars, Inv, TypeOK, InflightIsLed, FetchIsLed, HeldIsOwn,
       CancelIsolation, OutageNeverCached, AnswerIsOwn

\* Inv is inductive.
THEOREM InvHolds == Spec => []Inv
<1>1. ASSUME Inv, [Next]_vars PROVE Inv'
  BY <1>1, ArriveInv, WakeInv, FetchInv, RedisInv, CancelInv, ExpireInv,
     StutterInv
  DEF Next, Quiet
<1>2. QED
  BY InitInv, <1>1, PTL DEF Spec

\* Every variable keeps its type.
THEOREM TypeCorrect == Spec => []TypeOK
BY InvHolds, PTL DEF Inv

\* _inflight names exactly the calls that await their own task.
THEOREM InflightExact == Spec => []InflightIsLed
BY InvHolds, PTL DEF Inv

\* Only a leader's own cancellation cancels its task.
THEOREM CancelIsIsolated == Spec => []CancelIsolation
BY InvHolds, PTL DEF Inv

\* Only values that a fetch of the key returned are in the cache.
THEOREM NoOutageCached == Spec => []OutageNeverCached
BY InvHolds, PTL DEF Inv

\* Calls end the way the fetch they shared ended.
THEOREM OwnAnswers == Spec => []AnswerIsOwn
BY InvHolds, PTL DEF Inv

\* Nobody is left behind awaiting a task that no one runs or that was
\* replaced, whoever was cancelled (the finally of get_or_set).
THEOREM FollowersAreAlwaysServed == Spec => []FollowersAreServed
<1>1. ASSUME Inv, NEW c \in Calls, pc[c] = "following", ~Landed(follows[c])
      PROVE  pc[follows[c]] = "leading" /\ inflight[key[c]] = follows[c]
  <2>1. /\ follows[c] \in Calls /\ key[follows[c]] = key[c]
        /\ fetch[follows[c]] \in {"running", "cancelling"}
    BY <1>1 DEF Inv, HeldIsOwn, TypeOK, Landed
  <2>2. pc[follows[c]] = "leading"
    BY <1>1, <2>1 DEF Inv, FetchIsLed
  <2> QED
    BY <1>1, <2>1, <2>2 DEF Inv, InflightIsLed, TypeOK
<1>2. Inv => FollowersAreServed
  BY <1>1 DEF FollowersAreServed
<1> QED
  BY InvHolds, <1>2, PTL

\* With either store, two requests for one key are never outside together.
THEOREM ParallelFetchNever == Spec => []NoParallelFetch
<1>1. Inv => NoParallelFetch
  BY DEF Inv, NoParallelFetch, Upstream, FetchIsLed, InflightIsLed, TypeOK
<1>2. QED
  BY InvHolds, <1>1, PTL

-----------------------------------------------------------------------------
LEMMA LocalInvStep ==
  ASSUME ~UseRedis, Inv, LocalInv, [Next]_vars
  PROVE  LocalInv'
<1> USE CacheAssumption DEF Inv, LocalInv
<1>1. ASSUME NEW c \in Calls, Arrive(c) PROVE LocalInv'
  BY <1>1 DEF Arrive, HitLocal, Hits, ValueOf, MissLocal, AskRedis, Miss, Lead, Follow,
              Finish, NoEntry, TypeOK
<1>2. ASSUME NEW c \in Calls, Wake(c) PROVE LocalInv'
  BY <1>2 DEF Wake, ResumeRead, LeaderResumes, Stores, Popped, FollowerResumes, Woken, Finish, TypeOK
<1>3. ASSUME NEW c \in Calls, RunFetch(c) PROVE LocalInv'
  BY <1>3 DEF RunFetch, FetchEnds, FetchUnwinds
<1>4. ASSUME NEW c \in Calls, Redis(c) PROVE LocalInv'
  BY <1>4 DEF Redis, RedisAnswers, RedisReadFails, RedisStores, RedisWriteFails
<1>5. ASSUME NEW c \in Calls, Cancel(c) PROVE LocalInv'
  BY <1>5 DEF Cancel, CancelLeader, CancelFollower, Shield, CancelRedisWait, Finish,
              TypeOK
<1>6. ASSUME NEW k \in Keys, Expire(k) PROVE LocalInv'
  BY <1>6 DEF Expire, TypeOK
<1>7. CASE UNCHANGED vars
  BY <1>7 DEF vars
<1>8. QED
  BY <1>1, <1>2, <1>3, <1>4, <1>5, <1>6, <1>7 DEF Next, Quiet

\* With the dict, LocalInv is inductive relative to Inv.
THEOREM LocalInvHolds ==
  ASSUME ~UseRedis PROVE Spec => []LocalInv
<1>1. Init => LocalInv
  BY DEF Init, LocalInv, NoEntry
<1>2. ASSUME Inv, LocalInv, [Next]_vars PROVE LocalInv'
  BY <1>2, LocalInvStep
<1>3. QED
  BY <1>1, <1>2, InvHolds, PTL DEF Spec

\* With the dict, concurrent misses on one key share one upstream call.
THEOREM SingleFlightWithDict ==
  ASSUME ~UseRedis PROVE Spec => []SingleFlight
<1>1. Inv /\ LocalInv => SingleFlight
  BY DEF Inv, LocalInv, SingleFlight, InflightIsLed, TypeOK
<1>2. QED
  BY InvHolds, LocalInvHolds, <1>1, PTL

\* With the dict, nobody is upstream for a key whose value is live.
THEOREM NoFetchWhileLiveWithDict ==
  ASSUME ~UseRedis PROVE Spec => []NoFetchWhileLive
<1>1. ASSUME Inv, LocalInv, NEW c \in Upstream
      PROVE  ~store[key[c]].live
  <2>1. c \in Calls /\ inflight[key[c]] = c
    BY <1>1 DEF Inv, Upstream, FetchIsLed, InflightIsLed, TypeOK
  <2>2. key[c] \in Keys /\ inflight[key[c]] # NoCall
    BY <1>1, <2>1, CacheAssumption DEF Inv, TypeOK
  <2>3. QED
    BY <1>1, <2>2 DEF LocalInv
<1>2. QED
  <2>1. Inv /\ LocalInv => NoFetchWhileLive
    BY <1>1 DEF NoFetchWhileLive
  <2>2. QED
    BY InvHolds, LocalInvHolds, <2>1, PTL

\* With the dict, a live value is never replaced by another fetch.
THEOREM LiveValueKeptWithDict ==
  ASSUME ~UseRedis PROVE Spec => LiveValueKept
<1>1. ASSUME Inv, LocalInv, [Next]_vars
      PROVE  [\A k \in Keys : store[k].live =>
                \/ store'[k].from = store[k].from
                \/ ~store'[k].live]_vars
  <2> USE <1>1, CacheAssumption DEF Inv, LocalInv, TypeOK
  <2>1. ASSUME NEW c \in Calls, NEW k \in Keys, store[k].live,
               Arrive(c) \/ Wake(c)
        PROVE  store'[k] = store[k]
    BY <2>1 DEF Arrive, HitLocal, Hits, ValueOf, MissLocal, AskRedis, Wake, ResumeRead,
                LeaderResumes, FollowerResumes, InflightIsLed
  <2>2. ASSUME NEW c \in Calls, NEW k \in Keys, store[k].live,
               RunFetch(c) \/ Redis(c) \/ Cancel(c)
        PROVE  store'[k] = store[k]
    BY <2>2 DEF RunFetch, FetchEnds, FetchUnwinds, Redis, RedisAnswers,
                RedisReadFails, RedisStores, RedisWriteFails, Cancel,
                CancelLeader, CancelFollower, Shield, CancelRedisWait
  <2>3. ASSUME NEW j \in Keys, NEW k \in Keys, store[k].live, Expire(j)
        PROVE  store'[k].from = store[k].from
    BY <2>3 DEF Expire
  <2>4. QED
    BY <2>1, <2>2, <2>3 DEF Next, Quiet, vars
<1>2. QED
  BY <1>1, InvHolds, LocalInvHolds, PTL DEF Spec, LiveValueKept

\* With the dict, a call that neither led nor followed is answered out of an
\* entry within its ttl, or by a task that ended this instant.
THEOREM ExpiredNeverServedWithDict ==
  ASSUME ~UseRedis PROVE Spec => ExpiredNeverServed
<1>1. ASSUME Inv, LocalInv, [Next]_vars
      PROVE  [\A c \in Calls : pc[c] = "idle" /\ pc'[c] = "done" =>
                \/ store[key[c]].live /\ outcome'[c].from = store[key[c]].from
                \/ inflight[key[c]] = outcome'[c].from]_vars
  <2> SUFFICES ASSUME NEW c \in Calls, pc[c] = "idle", pc'[c] = "done"
               PROVE  \/ store[key[c]].live /\ outcome'[c].from = store[key[c]].from
                      \/ inflight[key[c]] = outcome'[c].from
    OBVIOUS
  <2> USE <1>1 DEF Inv, TypeOK
  <2>1. ASSUME NEW d \in Calls, Arrive(d)
        PROVE  \/ store[key[c]].live /\ outcome'[c].from = store[key[c]].from
               \/ inflight[key[c]] = outcome'[c].from
    <3>1. c = d
      BY <2>1 DEF Arrive, HitLocal, MissLocal, AskRedis, Miss, Lead, Follow, Finish
    <3>2. QED
      BY <2>1, <3>1 DEF Arrive, HitLocal, Hits, ValueOf, MissLocal, AskRedis, Miss,
                        Lead, Follow, Finish
  <2>2. ASSUME NEW d \in Calls,
               Wake(d) \/ RunFetch(d) \/ Redis(d) \/ Cancel(d)
        PROVE  pc'[c] = "idle"
    BY <2>2 DEF Wake, ResumeRead, Miss, Lead, Follow, LeaderResumes, FollowerResumes,
                RunFetch, FetchEnds, FetchUnwinds, Redis, RedisAnswers,
                RedisReadFails, RedisStores, RedisWriteFails, Cancel,
                CancelLeader, CancelFollower, CancelRedisWait, Finish
  <2>3. ASSUME NEW k \in Keys, Expire(k) PROVE pc'[c] = "idle"
    BY <2>3 DEF Expire
  <2>4. CASE UNCHANGED vars
    BY <2>4 DEF vars
  <2> QED
    BY <2>1, <2>2, <2>3, <2>4 DEF Next, Quiet
<1>2. QED
  BY <1>1, InvHolds, LocalInvHolds, PTL DEF Spec, ExpiredNeverServed

-----------------------------------------------------------------------------
(* The code with the dict implements CoalescedFetch.                       *)

Phase    == [c \in Calls |-> PhaseOf(c)]
AtFetch  == [k \in Keys |-> UpstreamOf(k)]
LiveKeys == {k \in Keys : store[k].live}

\* An unended task that a call awaits is the one _inflight names for its key.
LEMMA AwaitedIsInflight ==
  ASSUME Inv, NEW c \in Calls, Phase[c] = "waiting"
  PROVE  LET l == inflight[key[c]] IN
         /\ l \in Calls /\ key[l] = key[c] /\ ~Landed(l)
         /\ pc[c] = "leading" => l = c
         /\ pc[c] = "following" => follows[c] = l
         /\ pc[c] \in {"leading", "following"}
<1> USE CacheAssumption DEF Inv
<1>1. \/ pc[c] = "leading" /\ ~Landed(c)
      \/ pc[c] = "following" /\ ~Landed(follows[c])
  BY DEF Phase, PhaseOf
<1>2. CASE pc[c] = "leading" /\ ~Landed(c)
  BY <1>2 DEF TypeOK, InflightIsLed
<1>3. CASE pc[c] = "following" /\ ~Landed(follows[c])
  <2>1. follows[c] \in Calls /\ key[follows[c]] = key[c]
        /\ fetch[follows[c]] \in {"running", "cancelling"}
    BY <1>3 DEF TypeOK, HeldIsOwn, Landed
  <2>2. inflight[key[c]] = follows[c]
    BY <2>1 DEF TypeOK, FetchIsLed, InflightIsLed
  <2> QED
    BY <1>3, <2>1, <2>2
<1> QED
  BY <1>1, <1>2, <1>3

\* What an arrival with the dict does to the promise.
LEMMA ArriveKeeps ==
  ASSUME ~UseRedis, Inv, LocalInv, NEW c \in Calls, Arrive(c)
  PROVE  Promise!Serve(c) \/ Promise!AskUpstream(c) \/ Promise!Share(c)
<1> USE CacheAssumption DEF Inv, TypeOK
<1> DEFINE k == key[c]
<1>0. k \in Keys /\ pc[c] = "idle" /\ Phase[c] = "new" /\ UNCHANGED key
  BY DEF Arrive, HitLocal, MissLocal, AskRedis, Phase, PhaseOf
<1>1. LiveKeys' = LiveKeys
  BY DEF Arrive, HitLocal, MissLocal, AskRedis, Hits, LiveKeys, NoEntry, Entry
<1>2. CASE HitLocal(c)
  <2>1. /\ Phase' = [Phase EXCEPT ![c] = "answered"]
        /\ AtFetch' = AtFetch
    BY <1>2 DEF HitLocal, Finish, Phase, PhaseOf, AtFetch, UpstreamOf, Landed
  <2>2. k \in LiveKeys
    BY <1>0, <1>2 DEF HitLocal, Hits, LiveKeys
  <2> QED
    BY <1>0, <1>1, <2>1, <2>2
    DEF Promise!Serve, Promise!Move, Phase, AtFetch, LiveKeys
<1>3. CASE MissLocal(c)
  <2>1. k \notin LiveKeys
    BY <1>3 DEF MissLocal, Hits, LiveKeys
  <2>2. CASE Lead(c)
    <3>1. AtFetch[k] = "idle" /\ k \in Keys /\ fetch[c] = "unborn"
      BY <1>0, <2>2 DEF Lead, Unled, AtFetch, UpstreamOf, FetchIsLed
    <3>2. Phase' = [Phase EXCEPT ![c] = "waiting"]
      BY <1>0, <2>2, <3>1 DEF Lead, Phase, PhaseOf, Landed, Ends, HeldIsOwn
    <3>3. AtFetch' = [AtFetch EXCEPT ![k] = "out"]
      <4>1. ~Landed(c)' /\ inflight'[k] = c /\ c # NoCall
        BY <1>0, <2>2 DEF Lead, Landed, Ends
      <4>2. ASSUME NEW j \in Keys, j # k PROVE UpstreamOf(j)' = UpstreamOf(j)
        <5>1. inflight'[j] = inflight[j] /\ inflight[j] # c
          BY <1>0, <2>2, <4>2 DEF Lead, InflightIsLed
        <5>2. \A d \in Calls : d # c => fetch'[d] = fetch[d]
          BY <2>2 DEF Lead
        <5> QED
          BY <5>1, <5>2 DEF UpstreamOf, Landed, CallOrNone
      <4>3. UpstreamOf(k)' = "out"
        BY <1>0, <4>1 DEF UpstreamOf, Landed
      <4> QED
        BY <1>0, <4>2, <4>3 DEF AtFetch
    <3> QED
      BY <1>0, <1>1, <2>1, <3>1, <3>2, <3>3
      DEF Promise!AskUpstream, Promise!Move, Phase, AtFetch, LiveKeys
  <2>3. CASE Follow(c)
    <3>1. inflight[k] # NoCall /\ UNCHANGED <<inflight, fetch>>
      BY <2>3 DEF Follow
    <3>2. AtFetch' = AtFetch
      BY <3>1 DEF AtFetch, UpstreamOf, Landed
    <3>3. CASE Landed(inflight[k])
      <4>1. Phase' = [Phase EXCEPT ![c] = "answered"]
        BY <2>3, <3>1, <3>3 DEF Follow, Finish, Phase, PhaseOf, Landed
      <4>2. AtFetch[k] = "landed"
        BY <1>0, <3>1, <3>3 DEF AtFetch, UpstreamOf
      <4>3. Promise!Here(k)
        <5>1. /\ inflight[k] \in Calls /\ key[inflight[k]] = k
              /\ Phase[inflight[k]] = "answerable"
          BY <1>0, <3>1, <3>3 DEF CallOrNone, InflightIsLed, Phase, PhaseOf
        <5> QED
          BY <5>1 DEF Promise!Here, Phase
      <4> QED
        BY <1>0, <1>1, <3>2, <4>1, <4>2, <4>3
        DEF Promise!Serve, Promise!Move, Phase, AtFetch, LiveKeys
    <3>4. CASE ~Landed(inflight[k])
      <4>1. Phase' = [Phase EXCEPT ![c] = "waiting"]
        BY <2>3, <3>1, <3>4 DEF Follow, Finish, Phase, PhaseOf, Landed
      <4>2. AtFetch[k] = "out"
        BY <1>0, <3>1, <3>4 DEF AtFetch, UpstreamOf
      <4> QED
        BY <1>0, <1>1, <2>1, <3>2, <4>1, <4>2
        DEF Promise!Share, Promise!Move, Phase, AtFetch, LiveKeys
    <3> QED
      BY <3>3, <3>4
  <2> QED
    BY <1>3, <2>2, <2>3 DEF MissLocal, Miss
<1> QED
  BY <1>2, <1>3 DEF Arrive, AskRedis

\* A leader that resumes takes the answer up, a follower is answered.
LEMMA WakeKeeps ==
  ASSUME ~UseRedis, Inv, LocalInv, NEW c \in Calls, Wake(c)
  PROVE  Promise!TakeUp(c) \/ Promise!Answer(c)
<1> USE CacheAssumption DEF Inv, TypeOK
<1> DEFINE k == key[c]
<1>1. CASE LeaderResumes(c)
  <2>1. /\ k \in Keys /\ pc[c] = "leading" /\ Landed(c) /\ inflight[k] = c
        /\ UNCHANGED <<key, fetch, follows>>
        /\ pc' = [pc EXCEPT ![c] = "done"]
        /\ inflight' = [inflight EXCEPT ![k] = NoCall]
        /\ \/ store' = [store EXCEPT ![k] = Stored(c)]
           \/ UNCHANGED store
    BY <1>1 DEF LeaderResumes, Popped, Finish, InflightIsLed
  <2>2. Phase[c] = "answerable" /\ Phase' = [Phase EXCEPT ![c] = "answered"]
    BY <2>1 DEF Phase, PhaseOf, Landed
  <2>3. AtFetch[k] = "landed" /\ AtFetch' = [AtFetch EXCEPT ![k] = "idle"]
    BY <2>1 DEF AtFetch, UpstreamOf, Landed
  <2>4. LiveKeys' \in {LiveKeys, LiveKeys \cup {k}}
    BY <2>1 DEF LiveKeys, Stored, Entry
  <2> QED
    BY <2>1, <2>2, <2>3, <2>4
    DEF Promise!TakeUp, Promise!Move, Phase, AtFetch, LiveKeys
<1>2. CASE FollowerResumes(c)
  <2>1. Phase[c] = "answerable" /\ Phase' = [Phase EXCEPT ![c] = "answered"]
    BY <1>2 DEF FollowerResumes, Woken, Finish, Phase, PhaseOf, Landed
  <2>2. UNCHANGED <<key, AtFetch, LiveKeys>>
    BY <1>2 DEF FollowerResumes, AtFetch, UpstreamOf, Landed, LiveKeys
  <2> QED
    BY <2>1, <2>2 DEF Promise!Answer, Promise!Move, Phase, AtFetch, LiveKeys
<1> QED
  BY <1>1, <1>2 DEF Wake, ResumeRead, LocalInv

\* The end of a task is the landing of its key.
LEMMA FetchKeeps ==
  ASSUME Inv, NEW c \in Calls, RunFetch(c)
  PROVE  Promise!Land(key[c])
<1> USE CacheAssumption DEF Inv, TypeOK
<1> DEFINE k == key[c]
<1>1. /\ fetch[c] \in {"running", "cancelling"}
      /\ UNCHANGED <<key, pc, follows, inflight, store>>
      /\ fetch' = [fetch EXCEPT ![c] = fetch'[c]] /\ fetch'[c] \in Ends
  BY DEF RunFetch, FetchEnds, FetchUnwinds, Ends
<1>2. k \in Keys /\ pc[c] = "leading" /\ inflight[k] = c /\ ~Landed(c) /\ Landed(c)'
  BY <1>1 DEF FetchIsLed, InflightIsLed, Landed, Ends
<1>3. \A d \in Calls : d # c => Landed(d)' = Landed(d)
  BY <1>1 DEF Landed
<1>4. AtFetch[k] = "out" /\ AtFetch' = [AtFetch EXCEPT ![k] = "landed"]
  <2>1. \A j \in Keys : j # k => inflight[j] # c
    BY <1>2 DEF InflightIsLed
  <2>2. ASSUME NEW j \in Keys, j # k PROVE UpstreamOf(j)' = UpstreamOf(j)
    BY <1>1, <1>3, <2>1, <2>2 DEF UpstreamOf, CallOrNone
  <2>3. UpstreamOf(k) = "out" /\ UpstreamOf(k)' = "landed"
    BY <1>1, <1>2 DEF UpstreamOf
  <2> QED
    BY <1>1, <1>2, <2>2, <2>3 DEF AtFetch
<1>5. Phase' = [d \in Calls |-> IF key[d] = k /\ Phase[d] = "waiting"
                                  THEN "answerable" ELSE Phase[d]]
  <2> SUFFICES ASSUME NEW d \in Calls
               PROVE  PhaseOf(d)' = IF key[d] = k /\ Phase[d] = "waiting"
                                      THEN "answerable" ELSE Phase[d]
    BY DEF Phase
  <2>1. CASE key[d] = k /\ Phase[d] = "waiting"
    BY <1>1, <1>2, <2>1, AwaitedIsInflight DEF PhaseOf
  <2>2. CASE ~(key[d] = k /\ Phase[d] = "waiting")
    <3>1. pc[d] = "leading" => d # c
      BY <1>2, <2>2 DEF Phase, PhaseOf
    <3>2. pc[d] = "following" => follows[d] \in Calls /\ follows[d] # c
      BY <1>2, <2>2 DEF Phase, PhaseOf, HeldIsOwn
    <3> QED
      BY <1>1, <1>3, <2>2, <3>1, <3>2 DEF Phase, PhaseOf
  <2> QED
    BY <2>1, <2>2
<1>6. LiveKeys' = LiveKeys
  BY <1>1 DEF LiveKeys
<1> QED
  BY <1>1, <1>2, <1>4, <1>5, <1>6 DEF Promise!Land, Phase, AtFetch, LiveKeys

\* A follower that is cancelled gives up, or had its answer; a leader's
\* cancellation shows only when its task has unwound.
LEMMA CancelKeeps ==
  ASSUME ~UseRedis, Inv, LocalInv, NEW c \in Calls, Cancel(c)
  PROVE  \/ Promise!GiveUp(c) \/ Promise!Answer(c)
         \/ UNCHANGED <<key, Phase, AtFetch, LiveKeys>>
<1> USE DEF Inv, TypeOK
<1>1. CASE CancelLeader(c)
  <2>1. \A d \in Calls : Landed(d)' = Landed(d)
    BY <1>1 DEF CancelLeader, Landed, Ends
  <2>2. Phase' = Phase
    BY <1>1, <2>1 DEF CancelLeader, Phase, PhaseOf, HeldIsOwn
  <2>3. AtFetch' = AtFetch
    BY <1>1, <2>1 DEF CancelLeader, AtFetch, UpstreamOf, CallOrNone
  <2> QED
    BY <1>1, <2>2, <2>3 DEF CancelLeader, LiveKeys
<1>2. CASE CancelFollower(c)
  <2>1. /\ Phase[c] \in {"waiting", "answerable"}
        /\ Phase' = [Phase EXCEPT ![c] = "answered"]
    BY <1>2 DEF CancelFollower, Shield, Finish, Phase, PhaseOf, Landed
  <2>2. UNCHANGED <<key, AtFetch, LiveKeys>>
    BY <1>2 DEF CancelFollower, Shield, AtFetch, UpstreamOf, Landed, LiveKeys
  <2> QED
    BY <2>1, <2>2
    DEF Promise!GiveUp, Promise!Answer, Promise!Move, Phase, AtFetch, LiveKeys
<1> QED
  BY <1>1, <1>2 DEF Cancel, CancelRedisWait, LocalInv

\* A value past its ttl is forgotten.
LEMMA ExpireKeeps ==
  ASSUME Inv, NEW k \in Keys, Expire(k)
  PROVE  Promise!Forget(k)
<1>1. UNCHANGED <<key, Phase, AtFetch>>
  BY DEF Expire, Phase, PhaseOf, AtFetch, UpstreamOf, Landed
<1>2. LiveKeys' = LiveKeys \ {k}
  BY DEF Expire, LiveKeys, NoEntry, Inv, TypeOK
<1> QED
  BY <1>1, <1>2 DEF Promise!Forget, Phase, AtFetch, LiveKeys

\* Every behaviour of the code with the dict is one of CoalescedFetch.
THEOREM ImplementsPromise ==
  ASSUME ~UseRedis PROVE Spec => KeepsPromise
<1>1. ASSUME Init PROVE Promise!Init
  BY <1>1, CacheAssumption
  DEF Init, Promise!Init, PhaseOf, UpstreamOf, NoEntry
<1>2. ASSUME Inv, LocalInv, [Next]_vars PROVE [Promise!Next]_(Promise!vars)
  <2> USE <1>2
  <2>1. ASSUME NEW c \in Calls, Arrive(c) PROVE Promise!Next
    BY <2>1, ArriveKeeps DEF Promise!Next
  <2>2. ASSUME NEW c \in Calls, Wake(c) PROVE Promise!Next
    BY <2>2, WakeKeeps DEF Promise!Next
  <2>3. ASSUME NEW c \in Calls, RunFetch(c) PROVE Promise!Next
    BY <2>3, FetchKeeps DEF Promise!Next, Inv, TypeOK
  <2>4. ASSUME NEW c \in Calls, Cancel(c)
        PROVE  Promise!Next \/ UNCHANGED Promise!vars
    BY <2>4, CancelKeeps DEF Promise!Next, Promise!vars, Phase, AtFetch, LiveKeys
  <2>5. ASSUME NEW c \in Calls, Redis(c) PROVE FALSE
    BY <2>5 DEF Redis, RedisAnswers, RedisReadFails, RedisStores, RedisWriteFails,
                LocalInv
  <2>6. ASSUME NEW k \in Keys, Expire(k) PROVE Promise!Next
    BY <2>6, ExpireKeeps DEF Promise!Next
  <2>7. CASE UNCHANGED vars
    BY <2>7 DEF vars, Promise!vars, PhaseOf, UpstreamOf, Landed
  <2> QED
    BY <2>1, <2>2, <2>3, <2>4, <2>5, <2>6, <2>7 DEF Next, Quiet
<1>3. QED
  BY <1>1, <1>2, InvHolds, LocalInvHolds, PTL DEF Spec, KeepsPromise, Promise!Spec
=============================================================================
