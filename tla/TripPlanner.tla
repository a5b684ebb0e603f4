----------------------------- MODULE TripPlanner -----------------------------
(***************************************************************************)
(* One GET /api/plan (backend/app/main.py, planner.py and the search of    *)
(* each provider): the places are resolved one after the other, the active *)
(* providers are searched side by side, and what came back is trimmed and  *)
(* answered together with what could not be asked.                         *)
(*                                                                         *)
(* An option is abstracted to its mode and provider.  Each step of a       *)
(* provider is one upstream lookup through the cache: it answers, or it    *)
(* raises (UpstreamUnavailable, the cache's store, a malformed body), or   *)
(* is cancelled with the fetch it follows (see SingleFlightCache).         *)
(***************************************************************************)
EXTENDS Integers, FiniteSets

CONSTANTS UseDb,       \* settings.use_db_rail
          EnableAir,   \* settings.enable_air
          MaxFinds     \* bound: modes among the itineraries of one answer

ASSUME PlannerAssumption ==
  UseDb \in BOOLEAN /\ EnableAir \in BOOLEAN /\ MaxFinds \in Nat

RailModes == {"rail", "rail_regional"}
Modes     == RailModes \cup {"night_rail", "coach", "air"}

\* PROVIDERS, as _providers() builds it from the settings.
Providers ==
  {"transitous", "coach-modelled"}
    \cup (IF UseDb THEN {"deutsche-bahn"} ELSE {})
    \cup (IF EnableAir THEN {"air-modelled"} ELSE {})

\* The providers whose search is a rail lookup.
RailProviders == Providers \cap {"transitous", "deutsche-bahn"}

\* The modes the itineraries of a provider can have.
ModesOf(p) ==
  CASE p = "transitous"     -> Modes
    [] p = "deutsche-bahn"  -> RailModes \cup {"night_rail"}
    [] p = "coach-modelled" -> {"coach"}
    [] p = "air-modelled"   -> {"air"}

\* And those of its regional-only lookup for the Deutschlandticket.  DB tells
\* a night train by its name.
RegionalOf(p) ==
  IF p = "deutsche-bahn" THEN {"rail_regional", "night_rail"}
                         ELSE {"rail_regional"}

VARIABLES
  stage,      \* the place being resolved, "searching", or the response
  source,     \* where _resolve looks now
  request,    \* what the traveller asked for that changes the control flow
  search,     \* search[p]: the state of the provider's coroutine
  left,       \* left[p]: its lookups still to make
  found,      \* found[p]: the modes of the itineraries it holds
  offered,    \* history: the modes of all the itineraries it was given
  response    \* what the handler returns

vars == <<stage, source, request, search, left, found, offered, response>>

Places == {"origin", "destination", "via"}
Options == {o \in Modes \X Providers : o[1] \in ModesOf(o[2])}
Nothing == [options |-> {}, degraded |-> {}, railWarning |-> FALSE]

TypeOK ==
  /\ stage \in Places \cup {"searching", "answered", "not_found", "error"}
  /\ source \in {"start", "station", "geocode", "locations"}
  /\ request \in [via : BOOLEAN, dticket : BOOLEAN, pairs : 0..2]
  /\ search \in [Providers -> {"waiting", "asking", "done", "degraded",
                               "raised"}]
  /\ left \in [Providers -> 0..8]
  /\ found \in [Providers -> SUBSET Modes]
  /\ offered \in [Providers -> SUBSET Modes]
  /\ response \in [options : SUBSET Options, degraded : SUBSET Providers,
                   railWarning : BOOLEAN]

Init ==
  /\ stage = "origin"
  /\ source = "start"
  /\ request \in [via : BOOLEAN, dticket : BOOLEAN, pairs : 0..2]
  /\ search = [p \in Providers |-> "waiting"]
  /\ left = [p \in Providers |-> 0]
  /\ found = [p \in Providers |-> {}]
  /\ offered = [p \in Providers |-> {}]
  /\ response = Nothing

-----------------------------------------------------------------------------
(* _resolve, for the origin, the destination and the via in turn.          *)

Resolving == stage \in Places

\* Lookups a provider's search makes: main and regional query, or two stations
\* and two ground legs for each pair of airports.
LookupsOf(p) ==
  CASE p \in RailProviders  -> IF request.dticket THEN 2 ELSE 1
    [] p = "air-modelled"   -> 4 * request.pairs
    [] p = "coach-modelled" -> 1

\* The place is known: on to the next, or to the searches, which gather
\* starts all at once.
Resolved ==
  LET last == stage = IF request.via THEN "via" ELSE "destination" IN
  /\ source' = "start"
  /\ IF last
       THEN /\ stage' = "searching"
            /\ left' = [p \in Providers |-> LookupsOf(p)]
            /\ search' = [p \in Providers |->
                            IF LookupsOf(p) = 0 THEN "done" ELSE "asking"]
       ELSE /\ stage' = IF stage = "origin" THEN "destination" ELSE "via"
            /\ UNCHANGED <<left, search>>

\* The typeahead's id and coordinates are taken as they are.
ResolveById ==
  /\ Resolving /\ source = "start"
  /\ stage # "via"
  /\ Resolved
  /\ UNCHANGED <<request, found, offered, response>>

\* A catalogue city asks for its station, anything else is geocoded.
ResolveByName ==
  /\ Resolving /\ source = "start"
  /\ source' \in {"station", "geocode"}
  /\ UNCHANGED <<stage, request, search, left, found, offered, response>>

\* The station lookup yields an id or None, which both do.
StationAnswers ==
  /\ Resolving /\ source = "station"
  /\ Resolved
  /\ UNCHANGED <<request, found, offered, response>>

\* geocode, then search_locations, finds the place.
PlaceFound ==
  /\ Resolving /\ source \in {"geocode", "locations"}
  /\ Resolved
  /\ UNCHANGED <<request, found, offered, response>>

\* A lookup without hits, because there are none or because it could not be
\* made: both are an empty list here.
PlaceNotFound ==
  /\ Resolving /\ source \in {"geocode", "locations"}
  /\ \/ /\ source = "geocode"
        /\ source' = "locations"
        /\ UNCHANGED stage
     \/ /\ source = "locations"
        /\ stage' = "not_found"
        /\ UNCHANGED source
  /\ UNCHANGED <<request, search, left, found, offered, response>>

\* The store of the cache fails, or the fetch followed is cancelled: nothing
\* in _resolve catches it.
LookupRaises ==
  /\ Resolving /\ source # "start"
  /\ stage' = "error"
  /\ UNCHANGED <<source, request, search, left, found, offered, response>>

-----------------------------------------------------------------------------
(* Provider.search.                                                        *)

\* Broken: a search goes on for one lookup more than it has.
IsLastLate(p) == left[p] = 0

IsLast(p) == left[p] = 1

\* One lookup fewer to make, or the search is done.
Advance(p) ==
  /\ left' = [left EXCEPT ![p] = @ - 1]
  /\ search' = [search EXCEPT ![p] = IF IsLast(p) THEN "done" ELSE @]

\* The provider takes what a lookup gave it.
Take(p, ms) ==
  /\ found' = [found EXCEPT ![p] = @ \cup ms]
  /\ offered' = [offered EXCEPT ![p] = @ \cup ms]

\* A rail lookup answers, perhaps with nothing.
RailAnswers(p) ==
  /\ p \in RailProviders /\ search[p] = "asking"
  /\ \E ms \in SUBSET (IF request.dticket /\ left[p] = 1
                         THEN RegionalOf(p) ELSE ModesOf(p)) :
       Cardinality(ms) <= MaxFinds /\ Take(p, ms)
  /\ Advance(p)
  /\ UNCHANGED <<stage, source, request, response>>

\* The coach is computed from the distance: none below 70 km.
CoachAnswers ==
  LET p == "coach-modelled" IN
  /\ search[p] = "asking"
  /\ Take(p, {}) \/ Take(p, {"coach"})
  /\ Advance(p)
  /\ UNCHANGED <<stage, source, request, response>>

\* A station or a ground leg of a flight is there, an estimate standing in for
\* a leg without journeys.  The flight is kept once all four are.
AirLookupAnswers ==
  LET p == "air-modelled" IN
  /\ p \in Providers /\ search[p] = "asking"
  /\ Take(p, IF left[p] % 4 = 1 THEN {"air"} ELSE {})
  /\ Advance(p)
  /\ UNCHANGED <<stage, source, request, response>>

\* The lookups of a search are cut short.
CutShort(p, state, kept) ==
  /\ search[p] = "asking"
  /\ search' = [search EXCEPT ![p] = state]
  /\ left' = [left EXCEPT ![p] = 0]
  /\ found' = [found EXCEPT ![p] = kept]
  /\ UNCHANGED <<stage, source, request, offered, response>>

\* Broken: the exception handler returns an empty result and no flag.
FlagForgotten == "done"

\* ProviderResult.degraded.
Flag == "degraded"

\* A lookup raises: the search is cut short and says so.  Only the air search
\* keeps what it has already.
SearchFails(p) == CutShort(p, Flag, IF p = "air-modelled" THEN found[p] ELSE {})

\* The fetch a search follows is cancelled: no handler in search takes a
\* CancelledError, gather(return_exceptions=True) does.  The coach awaits
\* nothing.
SearchRaises(p) == p # "coach-modelled" /\ CutShort(p, "raised", {})

-----------------------------------------------------------------------------
(* The end of plan and of plan_route.                                      *)

Held == {o \in Options : o[1] \in found[o[2]]}

\* PER_MODE_LIMIT.
Limit(m) == IF m = "rail" THEN 2 ELSE 1

OfMode(os, m) == {o \in os : o[1] = m}

\* _trim: of the ranked options of a mode, the first Limit ones.
Trimmed(os) ==
  {ts \in SUBSET os : \A m \in Modes :
     Cardinality(OfMode(ts, m)) =
       IF Cardinality(OfMode(os, m)) < Limit(m)
         THEN Cardinality(OfMode(os, m)) ELSE Limit(m)}

Unasked == {p \in Providers : search[p] \in {"degraded", "raised"}}

HasMode(os, ms) == \E o \in os : o[1] \in ms

\* Broken: the warning looks at rail alone, not at whether anything failed.
WarnsAlarmed(os) == os # {} /\ ~HasMode(os, RailModes)

\* Broken: a night train passes for a train that runs by day.
WarnsNight(os) ==
  os # {} /\ Unasked # {} /\ ~HasMode(os, RailModes \cup {"night_rail"})

\* The warning that trains are missing.
Warns(os) == os # {} /\ Unasked # {} /\ ~HasMode(os, RailModes)

\* Every search has returned: rank, trim, and word the warnings.
Respond ==
  /\ stage = "searching"
  /\ \A p \in Providers : search[p] # "asking"
  /\ stage' = "answered"
  /\ \E os \in Trimmed(Held) :
       response' = [options |-> os, degraded |-> Unasked, railWarning |-> Warns(os)]
  /\ UNCHANGED <<source, request, search, left, found, offered>>

Over == ~Resolving /\ stage # "searching" /\ UNCHANGED vars

Resolve ==
  \/ ResolveById \/ ResolveByName \/ StationAnswers
  \/ PlaceFound \/ PlaceNotFound \/ LookupRaises

Searching(p) ==
  \/ RailAnswers(p) \/ SearchFails(p) \/ SearchRaises(p)
  \/ p = "coach-modelled" /\ CoachAnswers
  \/ p = "air-modelled" /\ AirLookupAnswers

Next ==
  \/ Resolve
  \/ stage = "searching" /\ \E p \in Providers : Searching(p)
  \/ Respond
  \/ Over

Spec == Init /\ [][Next]_vars

-----------------------------------------------------------------------------
(* Properties.                                                             *)

Answered == stage = "answered"

\* A comparison without a train by day and without the warning is one where
\* the rail lookups were all answered, and with none: rail that is down never
\* passes for rail that does not run.
RailAbsenceIsReal ==
  Answered /\ response.options # {} /\ ~response.railWarning
    /\ ~HasMode(response.options, RailModes)
  => \A p \in RailProviders : search[p] = "done" /\ offered[p] \cap RailModes = {}

\* Whatever the ranking, and whatever failed beside it: a way of travelling
\* that a provider was given is among the options, unless that provider is
\* reported as one that could not answer.
ComparisonIsComplete ==
  Answered => \A p \in Providers : \A m \in offered[p] :
    p \in response.degraded \/ HasMode(response.options, {m})

\* A request whose lookups were all answered carries no degradation and no
\* alarm, however little came back.
HealthyIsNotFlagged ==
  Answered /\ (\A p \in Providers : search[p] = "done")
  => response.degraded = {} /\ ~response.railWarning

\* The warning's own words: trains are missing because the rail lookup
\* failed.
RailWarningIsTrue ==
  Answered /\ response.railWarning => Unasked \cap RailProviders # {}
=============================================================================
