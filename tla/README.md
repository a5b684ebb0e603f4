# Reiseplan, verified

TLA+ models of [Reiseplan](../src/README.md), a planner that asks several
transport providers for one trip, ranks what comes back by what the trip costs
in money and time, and says what could not be asked. The modules are
translated from the code; `PROJECT.json` maps each definition to its lines,
each hazard to its line and to the properties that watch it, and lists every
run and theorem.

    tlc -config cache_dict.cfg MCCache.tla     # a run
    tlapm SingleFlightCacheProofs.tla          # a proof

## The system

| Part | State | Operations | Talks to |
|---|---|---|---|
| Cache with coalescing (`cache.py`) | `_local` or Redis, `_inflight` | `get`, `set`, `get_or_set` | producers, Redis |
| DB gate and retries (`providers/base.py`) | one semaphore, the HTTP client | `db_get` | the DB API |
| Places (`main._resolve`, `search_locations`, `geocode`, `catalog.py`) | none | resolve, typeahead | both upstreams, through the cache |
| Planner and `/api/plan` (`planner.py`, `main.py`) | one request | resolve, gather, trim, warn | the providers |
| Rail providers (`motis.py`, `db_rail.py`) | one search | `search`, two parsers | cache, gate |
| Coach and air (`coach.py`, `air.py`) | one search | `search` | air asks DB for stations and ground legs |
| Scoring (`scoring.py`) and `_trim` | none | cost, `rank`, `_trim` | called by the planner |
| Fare bands (`fares.py`) | none | `estimate` | called by the shortlist and the rail parsers |
| Anywhere shortlist (`anywhere.py`, `/api/anywhere`) | none | `search` | fare bands, `destinations.py` |
| Invite gate (`auth.py`) | codes, a secret, both read anew each time | `mint`, `_verify`, `current_tester` | every endpoint |
| Feedback (`feedback.py`) | an SQLite table | `record`, `summary` | the page |
| Browser page (`index.html`) | tabs, picks, `LAST`, a feedback form, the cookie | its event handlers | every endpoint |
| Booking links, catalogues, tables | none | pure functions | called by the above |

Everything on the server runs on one asyncio event loop: a step is what
happens between two awaits. The hard behaviours are therefore at the awaits:

- concurrent misses, cancelled callers, a store that suspends (cache);
- failures, retries and cancellations around a shared semaphore (gate);
- searches that end in any order, each of which may fail (planner);
- replies to the page that arrive late, out of order or not at all;
- a server that is restarted with other codes or another secret while
  requests are under way, and sessions that grow old (invite gate);
- numeric edges: missing or disordered times, negative costs, ties, a saver
  floor above the full fare.

What makes each part correct is stated by the properties below.

## The modules

Most modules also hold a few operators marked `Broken:`, single plausible
mistakes in the operator after them. No specification uses them; they record
that each property notices some mistake in the code.

**SingleFlightCache** is `cache.py`. `store` is the dict or Redis (`UseRedis`),
`inflight` is `_inflight`, and the calls of `get_or_set` have a program
counter: with the dict a call goes from its miss to its task without an await
(`HitLocal`, `MissLocal`), with Redis it suspends at `get` and at `set`
(`AskRedis` … `RedisWriteFails`). A task ends, or unwinds after `CancelLeader`,
in steps of its own (`FetchEnds`, `FetchUnwinds`), and its leader and followers
resume later, in any order. A fetch gives a value, None (an outage that
`geocode` hides), or an exception. `Expire` is the ttl running out. A value is
known by the call that fetched it.

**CoalescedFetch** is what the cache promises, apart from how: one fetch of a
key at a time, whose result all who waited get, and nobody who comes once they
are gone: an answer does not outlive its request. With the dict the code
implements it (`KeepsPromise`, a refinement mapping from the program counters).

**DbGate** is `db_get`: `Begin`, then tries through `asyncio.Semaphore` with a
pause between them outside the semaphore, up to `MaxAttempts`. The semaphore is
modelled from CPython's implementation, as far as `async with _db_gate` uses
it: a release resolves the future of the first waiter (`GrantFirst`), which
runs later, and a waiter cancelled in between passes the slot on (`GiveBack`).

**FairGate** is what the gate promises, apart from how: no more inside than
there are slots, and a line let in from its head. DbGate implements it
(`AdmitsInTurn`): a waiter whose future is resolved is inside from that moment,
before it runs, and leaves if it was cancelled in between.

**TripPlanner** is one `/api/plan`: `_resolve` for up to three places in turn,
the four `search` coroutines side by side, then `_trim` and the warnings
(`Respond`). An option is its mode and provider. A lookup answers, raises an
exception (`SearchFails`), or is cancelled with the fetch it follows in the
cache (`SearchRaises`). `PlaceNotFound` stands for a lookup without hits and
for one that could not be made: both are an empty list in the code. The order
within a mode is not modelled here, so `Trimmed` takes any options up to the
limit of each mode; that `_trim` takes as many as there are and the best ones
is shown in Ranking (`TrimKeepsTheBest`).

**JourneyEnvelope** is the leg loop of both parsers, one leg a step, which
makes door-to-door minutes out of legs with two times each, or without. The
parsers differ in what they refuse. Rounding to 0.1 minutes is left out.

**Ranking** is `scoring.rank`, then `_trim` a row a step. The cost is built of
whole cents: fare, time, the credit for workable time with its cap, carbon and
hassle; the weights of a preset, which make those parts, are abstracted to the
parts. The sort is stable (`Orders`). **Rounding** is Python's `round` of a
fraction, half to even (`RoundDiv`), for the match here and for every fare.

**Fares** is `fares.estimate`, and the flight fare of `anywhere.py`, in whole
cents: the position on the curve of the days ahead is an exact fraction
(`Between`), a share of the flexible fare is rounded where the code rounds, and
floor, ceiling and card are applied in the code's order. The tariffs and the
curve are constants.

**Shortlist** is `anywhere.search` behind its handler: for each place the train
and the plane (`Options`), the cheaper of them (`Best`), the limits on that one
alone (`Fits`), the sort and then the cut (`Listed`). Nothing suspends there,
so a state is a request with its answer, and a step is a traveller who asks
again with other limits (`ChangeLimits`), another day (`ChangeDays`) or another
trip. The times are rounded down to whole minutes, where the code keeps hours
as a float.

**SearchPage** is the page: the gate, the tabs, trips and shortlists in
flight, `LAST`, and the form on which results are judged. A handler that
awaits is two actions, before and after. Of the gate's handler, which awaits
`/api/login`, the first changes nothing that is kept here, so that `Login` is the
second; GuardedPage has both, with the server's step between them.
`querySelector('.go')` finds the button of the invite gate (the first `.go` in the document) and not the one that was pressed, so
the button to compare is never disabled and any number of searches may be in
flight; `enter` is the state of the button that is disabled instead. A reload
of the page starts over from `Init`.

**Sessions** is `auth.py` with the handlers that ask it and the table it
guards. `env` is the environment as deployed (`UAT_CODES`, `SESSION_SECRET`),
read again at every request as the code does; `process` tells one process's
`_EPHEMERAL_SECRET` from the next one's (`Key`). A code is sent (`EnterCode`),
looked up and signed for in the environment it meets (`Login`), and its reply
sets the cookie later (`LetIn`), or does not come (`NotLetIn`). `jar` is that
cookie, which a request takes along when it leaves and which is checked when it
arrives (`Leave`, `Arrive`). A post is written in `Arrive` and told in `Reply`;
`Lose` is a request or a reply that does not get through, `Redeploy` a crash or
a new environment, `Tick` and `Forget` the age of a session. Signatures cannot
be made without the key.

**GuardedPage** composes the two: SearchPage's actions that send or receive are
joined to the server's (`EnteringCode`, `SigningIn`, `Asking`, `Replied`,
`NotReplied`, `Posting`), so that
a 401 on the page is one the server gave, and everything else interleaves. It
implements both modules (`CompositionImplements`).

Elsewhere the modules meet at what they assume of each other: TripPlanner's
lookups end as calls of SingleFlightCache do (a value, an exception, a
cancellation by another's), whose producers for DB are calls of DbGate; the
itineraries of TripPlanner have the envelopes of JourneyEnvelope and are
ordered by Ranking; SearchPage's replies are TripPlanner's responses or rows of
Shortlist, or errors.

## The runs

| Run | Instance | What it shows |
|---|---|---|
| `cache_dict` | 3 calls, 2 keys, dict | coalescing and caching are right; every call ends; CoalescedFetch is implemented |
| `cache_redis` | 4 calls, 1 key, Redis | what remains when the store suspends and may fail: no parallel fetches, no follower left behind, answers of the own fetch |
| `cache_redis_claim` | 3 calls, 1 key, Redis | **violated**: concurrent misses share one upstream call |
| `gate` | 4 calls, 2 slots, 2 tries | the limit holds, no slot and no wakeup is lost, first come first served, FairGate is implemented, every call ends |
| `planner` | all 4 providers, `MaxFinds` 1 | a comparison is complete but for what it owns up to, and nothing else is flagged |
| `planner_rail_claim` | the same | **violated**: the rail warning is given only when a rail lookup failed |
| `envelope` | 3 legs, 4 moments | the envelope against the journey's own times |
| `ranking` | 4 itineraries out of 12 | order, match and trimming |
| `page` | 3 trips, 1 shortlist, 2 posts | screen, `LAST`, form and gate agree |
| `page_claim` | the same | **violated**: the query and results judged are those attached |
| `shortlist` | 756 requests, 5 places, 3 tariffs | the list is the best that fits; looser limits and an earlier booking never make it worse; bands are ranges |
| `sessions` | 1 trip, 1 shortlist, 1 post, 1 code at a time, 5 environments, 2 processes | whose rows are written, what the page says of them, which sessions a restart ends |

### Bounds

- Cache: three calls are a leader, a follower and a newcomer, with which a
  leader can be cancelled while one follows and another arrives; two keys let
  an answer stray. The Redis run has a fourth call, for two stale misses next
  to a pair that shares a fetch.
- Gate: four calls through two slots leave two in the queue, so that one can be
  overtaken or cancelled after its grant. Two tries are one retry; further
  tries repeat the same steps. The theorems hold for any numbers.
- Planner: `MaxFinds` limits the modes one answer brings. The properties read
  each mode on its own, and a provider with two lookups can still hold two
  modes, so one is enough. Up to two airport pairs is the limit of the code.
- Envelope: three legs are a first, a middle and a last; four moments allow
  gaps of zero, of exactly a minute and longer, legs that overlap and legs
  that run backwards.
- Ranking: a mode with a limit of two (rail) and modes with one; four
  itineraries drop up to two; costs negative, tied, capped and far apart.
- Page: three trips allow an old reply to arrive between two newer ones.
- Shortlist: five places stand for the cases of the code: below 100 km (no
  row), either side of 400 km (the plane joins in), without a railway, with and
  without a region or a speed of its own. The days lie on and between the
  points of the curve, two of them in one interval, and on both sides of the
  steps of the flight fare; the limits cut some rows and not others; a list of
  two is full. `Distances` holds the shortest rides, where the saver floor is
  above the full fare, next to long ones. The figures are the code's own.
- Sessions: `MaxAge` 1 and `MaxNow` 2 let a session be fresh, at its last
  moment and too old; two processes are one restart, into any of five
  environments (with and without a secret, a tester removed under the same secret
  and under another, no codes at all, codes overridden or blank). One code is on
  its way at a time, any number of them one after the other, so that testers take
  turns on the browser; that replies to two codes may overtake each other is in
  the theorems. One post is enough for a row written and a reply
  lost. The clock, the restarts and the requests are bounded, so this system
  really stops, and deadlock is not checked there. The theorems have no bounds.

### Fairness

Only `cache_dict` and `gate` check liveness, under weak fairness of coroutines
that are ready (the event loop runs them in turn), of sleeps that end, and of
requests that end (httpx has a timeout on every request, attempts are
bounded). Nothing is assumed of Redis, whose client is built without a
timeout, nor of callers: cancellations, new calls and expiry are never forced.
The other specifications are safety only.

### What the violated runs show

1. **Redis undoes the promise of one upstream call** (`cache.py:78`). The
   leader clears `_inflight` and then awaits the `set`; a call that missed
   before the `set` lands fetches again. Two requests for a key are still
   never outside together (`NoParallelFetch`, proved for both stores).
2. **The rail warning may be untrue** (`main.py:314`). It is given when any
   provider is degraded and no option is a train, also when the rail lookups
   were all answered and the flight search failed.
3. **Feedback with the wrong query** (`index.html:468`). `LAST` is replaced by
   a search without options, the form of the search before stays.

Two more disagreements were met that no run can exhibit, because the models
have the code's behaviour and nothing that would tell the other one apart:

- A geocoder that is down is answered as "could not find" (`main.py:103`,
  `main.py:108`): both lookups turn an outage into an empty list.
- `_resolve` is said to take "an explicit id or coordinates" (`main.py:93`) but
  takes coordinates only with an id (`main.py:95`). The tab Anywhere sends a
  picked place's coordinates and no id, so its text is looked up again.

One more is in the model but is no run of its own. Removing a code is said to
cut a tester off (`README.md:177`, `DEPLOY.md:97`, `auth.py:5-6` of the source),
but a session is checked by signature and age only (`auth.py:89`) and lasts up
to 14 days more. The `sessions` run goes through that: one of its deployments
removes a tester and keeps the secret. No property there asks that such a
session lasts, so that revoking it would break none: `SessionsSurvive` speaks of
testers whose codes are all still there. `RowsAreEarned` states what holds either
way: what the removed tester still writes is under their own name, within the
age of the session and under its secret.

## The proofs

TLAPS checks these for every value of the constants that the modules'
assumptions allow. Each follows from an inductive invariant, with a lemma for
`Init` and a step for each action. Every safety property that a passing run
checks is proved, both refinements among them.

- **SingleFlightCacheProofs**: `TypeOK`, `InflightIsLed`, `CancelIsolation`,
  `OutageNeverCached`, `AnswerIsOwn` and `NoParallelFetch` with either store;
  `SingleFlight`, `NoFetchWhileLive`, `LiveValueKept`, `ExpiredNeverServed` and
  the refinement `KeepsPromise` with the dict. Not inductive alone: the
  invariant adds that a task that has not ended has a leader that awaits it
  (`FetchIsLed`), that what a call follows, has read or has stored is of its
  own key (`HeldIsOwn`), and, with the dict, that a live value and a registered
  task of a key exclude each other (`LocalInv`). The refinement has a lemma per
  kind of step: an arrival is `Serve`, `AskUpstream` or `Share`, the end of a
  task is `Land`, a leader that resumes is `TakeUp`, a follower `Answer`, a
  cancellation `GiveUp`, `Answer` or a stutter. It rests on
  `AwaitedIsInflight`: whoever waits, waits for the task `_inflight` names, so
  that one landing answers all of them, and on `InflightIsLed`: what `_inflight`
  names has its leader, so that a newcomer is answered by it only while somebody
  who waited is there. `FollowersAreServed` is the safe half of `EveryCallEnds`,
  for either store: a follower's task has ended or has its leader.
- **DbGateProofs**: `TypeOK`, `SlotsConserved`, `NoLostWakeup`, `GateHolds`,
  `NoOvertaking`, and the refinement `AdmitsInTurn`. The bound follows from
  conservation, an equation over cardinalities, and both rest on what a grant moves from `free` to `granted`
  (`GrantFacts`). The invariant adds that futures are resolved in the order
  they were queued (`QueueOK`), for the last, and that a call pauses only if a
  try is left. The refinement has a lemma for each thing that happens to the
  gate (`AcquireImplements`, `ReleaseImplements`, `LeaveImplements`), the
  last two on `GrantImplements`: whatever grants a slot lets the head of the line
  in, also when the call that passes it on was cancelled. That the steps stay
  within the slots is the invariant after the step (`InvFits`). Two facts
  behind `EveryCallEnds` are proved as well: `NobodyIsStuck`, that a queue has
  somebody under way who will move it, and `QueueMovesUp`, that nobody is ever
  put before a call that queues, so that a wait is bounded by those it found.
- **TripPlannerProofs**: `TypeOK`, `ComparisonIsComplete`,
  `RailAbsenceIsReal`, `HealthyIsNotFlagged` for any settings and any number of
  modes in an answer. The invariant adds that a search not cut short holds all
  it was given (`SearchesHold`), that nobody searches before the places are
  known (`StagesInOrder`), and that the answer is of searches that have all
  ended and is made of what they hold (`AnswerIsHeld`).
- **JourneyEnvelopeProofs**: `TypeOK`, `NeverUnderstated`, `NeverOverstated`,
  `ChangesLieInside` for journeys of any length. The invariant bounds the
  minutes so far from below and from above by the last arrival read less the
  first departure, and says of which kind the first and the last leg are
  (`KindsOK`).
- **RankingProofs**: `TypeOK`, `TrimKeepsTheBest`, `HeadIsBest`,
  `MatchFollowsCost`, `NeverBelowFare` for lists of any length. The invariant
  says that `seen` counts the rows kept, and that a row was dropped only behind
  as many of its mode as the mode may have. That the match never rises down
  the list needs that rounding half to even is monotone (`RoundFalls`).
- **ShortlistProofs**: `TypeOK`, `BandsAreRanges`, `RowsAreBest`,
  `LooseningHelps`, `EarlierNeverDearer`, for every table of tariffs, places
  and speeds and every curve whose points rise. The invariant is that the rows
  answer the request (`Answered`); the rest is about the operators, in three
  layers. Fares: rounding half to even is monotone (`RoundRises`), the position
  on the curve falls with the days left, also from one interval to the next
  (`PositionFalls`), so shares, bands and discounted rides do (`LongRideFalls`),
  and the flight fare does (`FlightFalls`). Choice: each place has one best way
  (`BestFacts`), which gets no dearer when a ride or a flight does not
  (`OptionsFall`). List: `Before` is a strict order of the rows found
  (`BeforeIsOrder`), a row's place in the list is the number of rows before
  it, and every rank is taken once (`EveryRankTaken`, a pigeonhole argument on
  an injection); what is found grows with the limits (`FoundGrows`), so the
  price at each rank falls (`RankGrows`, `RankIsPrice`).
- **SearchPageProofs**: `TypeOK`, `ScreenIsLast`, `VerdictWasGiven`,
  `GateOpensAgain`, `AskingIsTrue`. The invariant adds that a chosen verdict
  was chosen on the form that is there.
- **SessionsProofs**: of Sessions `TypeOK`, `RowsAreEarned`, `ToldIsKept`,
  `SessionsSurvive`; of GuardedPage `CompositionImplements`, `TypesOK` and
  `LoggedIsKept`,
  the latter from `ToldIsKept` and from what the page has been told of a post
  being what the server replied (`Agreed`). The invariant adds that a request
  holds the token of the last code let in, or none, and that a post has its
  row from the moment it was served (`Linked`). `SessionsSurvive` says when a
  session lasts (`KeptIn`) and when it ends (`LoggedOut`); the second needs that no
  token carries the number of a process that has not started, from `TypeOK`.

`InflightIsLed`, `NoFetchWhileLive`, `GateHolds`, `NeverBelowFare` and
`ToldIsKept` are proved and no longer run: each is a consequence of a property
that is, or a step of its proof. So are DbGate's and SingleFlightCache's
`TypeOK`. SearchPage's `TypeOK`
is run as part of `TypesOK`.

The assumptions are those named in the modules (`PageAssumption` and its
like): finite sets of calls where cardinalities are taken, natural numbers, a
null that is no member, tables of the shape the code's have.

Shortlist states its sort as ranks (`Ahead`, `Sorted`), since the facts about
a library's sort take the order as an operator parameter, which no prover here
can instantiate.

Only model-checked: `EveryCallEnds` of both modules, since liveness under
fairness is out of the prover's reach.

## Not modelled

- Booking links (strings), the catalogue's tables and its fuzzy matching, the
  distance formula, emissions, and the labels and fares of an itinerary
  (`_classify`, `_fare_cents`): values without control flow that a property
  here would tell apart.
- The formulas of the coach and the air provider, which are floating-point
  tables; their control flow is in TripPlanner.
- `/api/locations` and the page's typeahead, with the places picked by it.
- `feedback.summary` and the export, which only read; the lengths that a text
  is cut to; the header `x-uat-token`, which the page never sends.
- Shutdown (`cache.close`, `close_http`), wording, logging, and the checks
  FastAPI makes of query parameters.
- Memory: the dict drops an entry only when its key is read again.

## Plan

Done, the most shared state first: SingleFlightCache and CoalescedFetch,
DbGate, TripPlanner, JourneyEnvelope, Ranking, SearchPage, then Fares and
Shortlist, Sessions and GuardedPage, with the proofs of all of them.

Left, by what it would add:

1. **PlaceFields**: typeahead, picks, swap, cards; that the place searched is
   the one on the screen. Then its composition with SearchPage.
2. `_get` of MOTIS beside `db_get`: three tries without gate or pause, with
   the load on the upstream as the property.
3. Cache over gate: that a fetch cancelled through the cache gives its slot
   back while others still follow it.
4. Envelope under ranking, where a DB journey without timed legs becomes an
   itinerary of no minutes and ranks first.
