--------------------------- MODULE TripPlannerProofs ---------------------------
(***************************************************************************)
(* What the answer of plan_route leaves out is owned up to, and nothing    *)
(* else is flagged: for every set of providers and however many modes an   *)
(* upstream answers with.                                                  *)
(***************************************************************************)
EXTENDS TripPlanner, FiniteSetTheorems, TLAPS

\* A search that was not cut short holds all it was given, one that is under
\* way has lookups left.
SearchesHold ==
  \A p \in Providers :
    /\ search[p] \in {"waiting", "asking", "done"} => found[p] = offered[p]
    /\ search[p] = "asking" => left[p] # 0
    /\ offered[p] \subseteq ModesOf(p)

\* Nobody searches before the places are known, everybody has when it is
\* answered.
StagesInOrder ==
  /\ Resolving => \A p \in Providers : search[p] = "waiting"
  /\ stage = "searching" => \A p \in Providers : search[p] # "waiting"

\* The answer is made of what is held when it is given.
AnswerIsHeld ==
  Answered => /\ \A p \in Providers : search[p] \in {"done", "degraded", "raised"}
              /\ response.options \in Trimmed(Held)
              /\ response.degraded = Unasked
              /\ response.railWarning = Warns(response.options)

Inv == TypeOK /\ SearchesHold /\ StagesInOrder /\ AnswerIsHeld

-----------------------------------------------------------------------------
LEMMA ProvidersAreFinite == IsFiniteSet(Providers) /\ IsFiniteSet(Options)
<1>1. IsFiniteSet({"transitous", "coach-modelled"})
  <2>1. {"transitous", "coach-modelled"} = {"transitous"} \cup {"coach-modelled"}
    OBVIOUS
  <2>2. IsFiniteSet({"transitous"})
    BY FS_Singleton
  <2>3. IsFiniteSet({"transitous"} \cup {"coach-modelled"})
    BY <2>2, FS_AddElement
  <2> QED
    BY <2>1, <2>3
<1>2. IsFiniteSet(IF UseDb THEN {"deutsche-bahn"} ELSE {})
  BY FS_EmptySet, FS_Singleton
<1>3. IsFiniteSet(IF EnableAir THEN {"air-modelled"} ELSE {})
  BY FS_EmptySet, FS_Singleton
<1>4. IsFiniteSet(Providers)
  BY <1>1, <1>2, <1>3, FS_Union DEF Providers
<1>5. IsFiniteSet(Modes)
  <2>1. Modes = (((({} \cup {"rail"}) \cup {"rail_regional"}) \cup {"night_rail"})
                   \cup {"coach"}) \cup {"air"}
    BY DEF Modes, RailModes
  <2> QED
    BY <2>1, FS_EmptySet, FS_AddElement
<1>6. IsFiniteSet(Modes \X Providers)
  BY <1>4, <1>5, FS_Product
<1> QED
  BY <1>4, <1>6, FS_Subset DEF Options

\* Trimming takes no option in and leaves no mode out.
LEMMA TrimKeepsModes ==
  ASSUME NEW os \in SUBSET Options, NEW ts \in Trimmed(os)
  PROVE  /\ ts \subseteq os
         /\ \A m \in Modes : HasMode(os, {m}) => HasMode(ts, {m})
<1>1. ts \subseteq os
  BY DEF Trimmed
<1>2. ASSUME NEW m \in Modes, HasMode(os, {m})
      PROVE  HasMode(ts, {m})
  <2>1. IsFiniteSet(OfMode(os, m)) /\ IsFiniteSet(OfMode(ts, m))
    BY <1>1, ProvidersAreFinite, FS_Subset DEF OfMode
  <2>2. OfMode(os, m) # {}
    BY <1>2 DEF HasMode, OfMode
  <2>3. Cardinality(OfMode(os, m)) \in Nat /\ Cardinality(OfMode(os, m)) # 0
    BY <2>1, <2>2, FS_CardinalityType, FS_EmptySet
  <2>4. Cardinality(OfMode(ts, m)) # 0
    BY <2>3 DEF Trimmed, Limit
  <2>5. OfMode(ts, m) # {}
    BY <2>4, FS_EmptySet
  <2> QED
    BY <2>5 DEF OfMode, HasMode
<1> QED
  BY <1>1, <1>2

LEMMA ModesAreModes ==
  ASSUME NEW p \in Providers
  PROVE  ModesOf(p) \subseteq Modes /\ (p \in RailProviders => RegionalOf(p) \subseteq ModesOf(p))
BY DEF Providers, RailProviders, ModesOf, RegionalOf, Modes, RailModes

LEMMA LookupsAreFew ==
  ASSUME TypeOK, NEW p \in Providers
  PROVE  LookupsOf(p) \in 0..8
<1>1. p \in {"transitous", "deutsche-bahn", "coach-modelled", "air-modelled"}
  BY DEF Providers
<1>2. request.pairs \in 0..2
  BY DEF TypeOK
<1>3. 4 * request.pairs \in 0..8
  BY <1>2
<1>4. CASE p \in RailProviders
  <2>1. LookupsOf(p) = IF request.dticket THEN 2 ELSE 1
    BY <1>4 DEF LookupsOf, RailProviders
  <2> QED
    BY <2>1
<1>5. CASE p = "air-modelled"
  <2>1. LookupsOf(p) = 4 * request.pairs
    BY <1>5 DEF LookupsOf, RailProviders
  <2> QED
    BY <1>3, <2>1
<1>6. CASE p = "coach-modelled"
  <2>1. LookupsOf(p) = 1
    BY <1>6 DEF LookupsOf, RailProviders
  <2> QED
    BY <2>1
<1> QED
  BY <1>1, <1>4, <1>5, <1>6 DEF RailProviders

LEMMA InitHolds == Init => Inv
<1> SUFFICES ASSUME Init PROVE Inv
  OBVIOUS
<1>1. TypeOK
  BY DEF Init, TypeOK, Places, Nothing
<1>2. SearchesHold /\ StagesInOrder /\ AnswerIsHeld
  BY DEF Init, SearchesHold, StagesInOrder, AnswerIsHeld, Resolving, Answered, Places
<1> QED
  BY <1>1, <1>2 DEF Inv

-----------------------------------------------------------------------------
(* _resolve.                                                               *)

\* The next place, or the searches.
LEMMA ResolvedHolds ==
  ASSUME Inv, Resolving, Resolved, UNCHANGED <<request, found, offered, response>>
  PROVE  Inv'
<1> DEFINE isLast == stage = IF request.via THEN "via" ELSE "destination"
<1>1. source' = "start" /\ \A p \in Providers : search[p] = "waiting"
  BY DEF Resolved, Inv, StagesInOrder
<1>2. CASE isLast
  <2>1. /\ stage' = "searching"
        /\ left' = [p \in Providers |-> LookupsOf(p)]
        /\ search' = [p \in Providers |->
                        IF LookupsOf(p) = 0 THEN "done" ELSE "asking"]
    BY <1>2 DEF Resolved
  <2>2. \A p \in Providers : LookupsOf(p) \in 0..8
    BY LookupsAreFew DEF Inv
  <2>3. TypeOK'
    BY <1>1, <2>1, <2>2 DEF Inv, TypeOK
  <2>4. SearchesHold'
    BY <1>1, <2>1 DEF Inv, SearchesHold
  <2>5. StagesInOrder' /\ AnswerIsHeld'
    BY <2>1 DEF StagesInOrder, AnswerIsHeld, Resolving, Answered, Places
  <2> QED
    BY <2>3, <2>4, <2>5 DEF Inv
<1>3. CASE ~isLast
  <2>1. stage' \in {"destination", "via"} /\ UNCHANGED <<left, search>>
    BY <1>3 DEF Resolved
  <2>2. TypeOK'
    BY <1>1, <2>1 DEF Inv, TypeOK, Places
  <2>3. SearchesHold'
    BY <2>1 DEF Inv, SearchesHold
  <2>4. StagesInOrder' /\ AnswerIsHeld'
    BY <1>1, <2>1 DEF StagesInOrder, AnswerIsHeld, Resolving, Answered, Places
  <2> QED
    BY <2>2, <2>3, <2>4 DEF Inv
<1> QED
  BY <1>2, <1>3

LEMMA ResolveHolds == ASSUME Inv, Resolve PROVE Inv'
<1>1. CASE ResolveById \/ StationAnswers \/ PlaceFound
  BY <1>1, ResolvedHolds DEF ResolveById, StationAnswers, PlaceFound
<1>2. CASE ResolveByName \/ PlaceNotFound \/ LookupRaises
  <2>1. /\ UNCHANGED <<request, search, left, found, offered, response>>
        /\ Resolving
        /\ stage' \in {stage, "not_found", "error"}
        /\ source' \in {source, "station", "geocode", "locations"}
    BY <1>2 DEF ResolveByName, PlaceNotFound, LookupRaises
  <2>2. TypeOK'
    BY <2>1 DEF Inv, TypeOK
  <2>3. SearchesHold'
    BY <2>1 DEF Inv, SearchesHold
  <2>4. StagesInOrder' /\ AnswerIsHeld'
    BY <2>1 DEF Inv, StagesInOrder, AnswerIsHeld, Resolving, Answered, Places
  <2> QED
    BY <2>2, <2>3, <2>4 DEF Inv
<1> QED
  BY <1>1, <1>2 DEF Resolve

-----------------------------------------------------------------------------
(* Provider.search.                                                        *)

\* A lookup that answers.
LEMMA AnswerHolds ==
  ASSUME Inv, stage = "searching", NEW p \in Providers, search[p] = "asking",
         NEW ms \in SUBSET ModesOf(p), Take(p, ms), Advance(p),
         UNCHANGED <<stage, source, request, response>>
  PROVE  Inv'
<1>1. /\ left[p] \in 1..8 /\ search \in [Providers -> {"waiting", "asking", "done",
                                                        "degraded", "raised"}]
      /\ left \in [Providers -> 0..8] /\ found[p] = offered[p]
      /\ found \in [Providers -> SUBSET Modes] /\ offered \in [Providers -> SUBSET Modes]
  BY DEF Inv, TypeOK, SearchesHold
<1>2. /\ left' = [left EXCEPT ![p] = left[p] - 1]
      /\ search' = [search EXCEPT ![p] = IF left[p] = 1 THEN "done" ELSE search[p]]
      /\ found' = [found EXCEPT ![p] = found[p] \cup ms]
      /\ offered' = [offered EXCEPT ![p] = offered[p] \cup ms]
  BY DEF Advance, IsLast, Take
<1>3. ms \subseteq Modes
  BY ModesAreModes
<1>4. TypeOK'
  <2>1. left[p] - 1 \in 0..8
    BY <1>1
  <2> QED
    BY <1>1, <1>2, <1>3, <2>1 DEF Inv, TypeOK
<1>5. SearchesHold'
  <2> SUFFICES ASSUME NEW q \in Providers
               PROVE  /\ search'[q] \in {"waiting", "asking", "done"} => found'[q] = offered'[q]
                      /\ search'[q] = "asking" => left'[q] # 0
                      /\ offered'[q] \subseteq ModesOf(q)
    BY DEF SearchesHold
  <2>1. CASE q = p
    <3>1. search'[p] = (IF left[p] = 1 THEN "done" ELSE "asking") /\ left'[p] = left[p] - 1
      BY <1>1, <1>2
    <3>2. found'[p] = offered'[p] /\ offered'[p] = offered[p] \cup ms
      BY <1>1, <1>2
    <3>3. left[p] # 1 => left[p] - 1 # 0
      BY <1>1
    <3> QED
      BY <2>1, <3>1, <3>2, <3>3 DEF Inv, SearchesHold
  <2>2. CASE q # p
    BY <1>1, <1>2, <2>2 DEF Inv, SearchesHold
  <2> QED
    BY <2>1, <2>2
<1>6. StagesInOrder' /\ AnswerIsHeld'
  BY <1>1, <1>2 DEF Inv, StagesInOrder, AnswerIsHeld, Resolving, Answered, Places
<1> QED
  BY <1>4, <1>5, <1>6 DEF Inv

\* A search that is cut short.
LEMMA CutHolds ==
  ASSUME Inv, stage = "searching", NEW p \in Providers,
         NEW state \in {"degraded", "raised"}, NEW kept \in SUBSET Modes,
         CutShort(p, state, kept)
  PROVE  Inv'
<1>1. /\ search' = [search EXCEPT ![p] = state] /\ left' = [left EXCEPT ![p] = 0]
      /\ found' = [found EXCEPT ![p] = kept]
      /\ UNCHANGED <<stage, source, request, offered, response>>
  BY DEF CutShort
<1>2. TypeOK'
  BY <1>1 DEF Inv, TypeOK
<1>3. SearchesHold'
  BY <1>1 DEF Inv, TypeOK, SearchesHold
<1>4. StagesInOrder' /\ AnswerIsHeld'
  BY <1>1 DEF Inv, TypeOK, StagesInOrder, AnswerIsHeld, Resolving, Answered, Places
<1> QED
  BY <1>2, <1>3, <1>4 DEF Inv

LEMMA SearchingHolds ==
  ASSUME Inv, stage = "searching", NEW p \in Providers, Searching(p)
  PROVE  Inv'
<1>1. CASE RailAnswers(p)
  <2>1. PICK ms \in SUBSET (IF request.dticket /\ left[p] = 1
                              THEN RegionalOf(p) ELSE ModesOf(p)) : Take(p, ms)
    BY <1>1 DEF RailAnswers
  <2>2. ms \in SUBSET ModesOf(p)
    BY <1>1, <2>1, ModesAreModes DEF RailAnswers
  <2> QED
    BY <1>1, <2>1, <2>2, AnswerHolds DEF RailAnswers
<1>2. CASE p = "coach-modelled" /\ CoachAnswers
  <2>1. PICK ms \in {{}, {"coach"}} : Take(p, ms)
    BY <1>2 DEF CoachAnswers
  <2>2. ms \in SUBSET ModesOf(p)
    BY <1>2, <2>1 DEF ModesOf
  <2> QED
    BY <1>2, <2>1, <2>2, AnswerHolds DEF CoachAnswers
<1>3. CASE p = "air-modelled" /\ AirLookupAnswers
  <2> DEFINE ms == IF left[p] % 4 = 1 THEN {"air"} ELSE {}
  <2>1. ms \in SUBSET ModesOf(p) /\ Take(p, ms)
    BY <1>3 DEF AirLookupAnswers, ModesOf
  <2> QED
    BY <1>3, <2>1, AnswerHolds DEF AirLookupAnswers
<1>4. CASE SearchFails(p)
  <2>1. (IF p = "air-modelled" THEN found[p] ELSE {}) \in SUBSET Modes
    BY DEF Inv, TypeOK
  <2> QED
    BY <1>4, <2>1, CutHolds DEF SearchFails, Flag
<1>5. CASE SearchRaises(p)
  BY <1>5, CutHolds DEF SearchRaises
<1> QED
  BY <1>1, <1>2, <1>3, <1>4, <1>5 DEF Searching

-----------------------------------------------------------------------------
(* The answer.                                                             *)

LEMMA RespondHolds == ASSUME Inv, Respond PROVE Inv'
<1>1. /\ stage = "searching" /\ stage' = "answered"
      /\ \A p \in Providers : search[p] # "asking"
      /\ UNCHANGED <<source, request, search, left, found, offered>>
  BY DEF Respond
<1>2. PICK os \in Trimmed(Held) :
        response' = [options |-> os, degraded |-> Unasked, railWarning |-> Warns(os)]
  BY DEF Respond
<1>3. os \subseteq Options /\ Unasked \subseteq Providers /\ Warns(os) \in BOOLEAN
  BY DEF Trimmed, Held, Unasked, Warns
<1>4. TypeOK'
  BY <1>1, <1>2, <1>3 DEF Inv, TypeOK
<1>5. SearchesHold'
  BY <1>1 DEF Inv, SearchesHold
<1>6. StagesInOrder'
  BY <1>1 DEF StagesInOrder, Resolving, Places
<1>7. AnswerIsHeld'
  <2>1. \A p \in Providers : search'[p] \in {"done", "degraded", "raised"}
    BY <1>1 DEF Inv, TypeOK, StagesInOrder
  <2>2. Held' = Held /\ Unasked' = Unasked /\ Trimmed(Held)' = Trimmed(Held)
        /\ Warns(os)' = Warns(os)
    BY <1>1 DEF Held, Unasked, Trimmed, Warns
  <2>3. response'.options = os /\ response'.degraded = Unasked
        /\ response'.railWarning = Warns(os)
    BY <1>2
  <2>4. Warns(response.options)' = Warns(os)'
    BY <2>3 DEF Warns, Unasked
  <2> QED
    BY <1>2, <2>1, <2>2, <2>3, <2>4 DEF AnswerIsHeld
<1> QED
  BY <1>4, <1>5, <1>6, <1>7 DEF Inv

\* A search keeps its inductive invariant, however its lookups end.
THEOREM InvHolds == Spec => []Inv
<1>1. Inv /\ [Next]_vars => Inv'
  <2> SUFFICES ASSUME Inv, [Next]_vars PROVE Inv'
    OBVIOUS
  <2>1. CASE Resolve
    BY <2>1, ResolveHolds
  <2>2. ASSUME stage = "searching", NEW p \in Providers, Searching(p) PROVE Inv'
    BY <2>2, SearchingHolds
  <2>3. CASE Respond
    BY <2>3, RespondHolds
  <2>4. CASE UNCHANGED vars
    <3>1. TypeOK' /\ SearchesHold' /\ StagesInOrder'
      BY <2>4 DEF vars, Inv, TypeOK, SearchesHold, StagesInOrder, Resolving
    <3>2. AnswerIsHeld'
      BY <2>4 DEF vars, Inv, AnswerIsHeld, Answered, Trimmed, Held, Unasked, Warns
    <3> QED
      BY <3>1, <3>2 DEF Inv
  <2> QED
    BY <2>1, <2>2, <2>3, <2>4 DEF Next, Over
<1> QED
  BY <1>1, InitHolds, PTL DEF Spec

\* Every variable of a search, and of the answer, has its type.
THEOREM TypeCorrect == Spec => []TypeOK
<1>1. Inv => TypeOK
  BY DEF Inv
<1> QED
  BY <1>1, InvHolds, PTL

\* Every mode a provider was given is among the options, or the provider is
\* among those that could not answer.
LEMMA NothingIsDropped ==
  ASSUME Inv, Answered, NEW p \in Providers, NEW m \in offered[p], p \notin Unasked
  PROVE  HasMode(response.options, {m})
<1>1. search[p] = "done" /\ m \in found[p] /\ m \in ModesOf(p) /\ m \in Modes
  BY ModesAreModes DEF Inv, AnswerIsHeld, SearchesHold, Unasked
<1>2. <<m, p>> \in Held
  BY <1>1 DEF Held, Options
<1>3. HasMode(Held, {m})
  BY <1>2 DEF HasMode
<1>4. Held \in SUBSET Options /\ response.options \in Trimmed(Held)
  BY DEF Held, Inv, AnswerIsHeld
<1> QED
  BY <1>1, <1>3, <1>4, TrimKeepsModes

\* A way of travelling that a provider was given is offered or owned up to.
THEOREM ComparisonIsAlwaysComplete == Spec => []ComparisonIsComplete
<1>1. Inv => ComparisonIsComplete
  BY NothingIsDropped DEF ComparisonIsComplete, Inv, AnswerIsHeld
<1> QED
  BY <1>1, InvHolds, PTL

\* Without a train by day and without the warning, rail was asked and there is
\* none.
THEOREM RailAbsenceIsAlwaysReal == Spec => []RailAbsenceIsReal
<1>1. ASSUME Inv, Answered, response.options # {}, ~response.railWarning,
             ~HasMode(response.options, RailModes), NEW p \in RailProviders
      PROVE  search[p] = "done" /\ offered[p] \cap RailModes = {}
  <2>1. Unasked = {} /\ p \in Providers
    BY <1>1 DEF Inv, AnswerIsHeld, Warns, RailProviders
  <2>2. search[p] = "done"
    BY <1>1, <2>1 DEF Inv, AnswerIsHeld, Unasked
  <2>3. ASSUME NEW m \in offered[p], m \in RailModes PROVE FALSE
    <3>1. HasMode(response.options, {m})
      BY <1>1, <2>1, NothingIsDropped
    <3> QED
      BY <1>1, <2>3, <3>1 DEF HasMode
  <2> QED
    BY <2>2, <2>3
<1>2. Inv => RailAbsenceIsReal
  BY <1>1 DEF RailAbsenceIsReal
<1> QED
  BY <1>2, InvHolds, PTL

\* Nothing is flagged when every lookup was answered.
THEOREM HealthyIsNeverFlagged == Spec => []HealthyIsNotFlagged
<1>1. Inv => HealthyIsNotFlagged
  BY DEF Inv, AnswerIsHeld, HealthyIsNotFlagged, Unasked, Warns
<1> QED
  BY <1>1, InvHolds, PTL
=============================================================================
