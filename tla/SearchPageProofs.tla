--------------------------- MODULE SearchPageProofs ---------------------------
(***************************************************************************)
(* The page of SearchPage for any number of searches and of posts, in      *)
(* whatever order they are made and answered.                              *)
(***************************************************************************)
EXTENDS SearchPage, TLAPS

\* A verdict that is chosen, was chosen on the form that is there.
VerdictIsOfForm == verdict => form \in given

\* The inductive invariant: the properties of the runs, and where the verdict
\* of the form comes from, which Send carries into a post.
Inv ==
  /\ TypeOK
  /\ ScreenIsLast
  /\ VerdictIsOfForm
  /\ VerdictWasGiven
  /\ GateOpensAgain
  /\ AskingIsTrue

\* A page that was just loaded has asked for nothing.
LEMMA InitHolds == Init => Inv
<1> SUFFICES ASSUME Init PROVE Inv
  OBVIOUS
<1> USE PageAssumption DEF Init
<1>1. TypeOK
  <2>1. out \in Screen
    BY DEF Screen, Blank, Screened, Shows
  <2>2. post \in [Posts -> [state : {"unsent", "sending", "logged", "failed", "lost"},
                           rated : Trips \cup {NoSearch},
                           attached : Trips \cup {NoSearch}]]
    BY DEF Unsent
  <2> QED
    BY <2>1, <2>2 DEF TypeOK
<1>2. VerdictWasGiven
  BY DEF VerdictWasGiven, Unsent
<1> QED
  BY <1>1, <1>2 DEF Inv, ScreenIsLast, VerdictIsOfForm, GateOpensAgain,
                    AskingIsTrue, Blank, Screened

\* The handlers of the gate and the tabs touch neither searches nor posts.
LEMMA GateKeeps == Inv /\ Gate => Inv'
<1> SUFFICES ASSUME Inv, Gate PROVE Inv'
  OBVIOUS
<1> USE DEF Inv, Pending
<1>1. CASE Boot
  BY <1>1 DEF Boot, feedback, TypeOK, ScreenIsLast, VerdictIsOfForm,
              VerdictWasGiven, GateOpensAgain, AskingIsTrue
<1>2. CASE Login
  BY <1>2 DEF Login, feedback, TypeOK, ScreenIsLast, VerdictIsOfForm,
              VerdictWasGiven, GateOpensAgain, AskingIsTrue
<1>3. CASE SwitchTab
  <2>1. TypeOK'
    BY <1>3 DEF SwitchTab, TypeOK, Blank, Screened, Screen, Shows
  <2> QED
    BY <1>3, <2>1 DEF SwitchTab, Blank, Screened, ScreenIsLast, VerdictIsOfForm,
              VerdictWasGiven, GateOpensAgain, AskingIsTrue
<1> QED
  BY <1>1, <1>2, <1>3 DEF Gate

\* A search that is asked is under way; one that is answered may leave no
\* other under way, and then neither the button nor the screen waits for one.
LEMMA SearchingKeeps ==
  ASSUME NEW s \in Searches, Inv, Searching(s)
  PROVE  Inv'
<1> USE PageAssumption DEF Inv, Pending, Searches
<1>1. CASE Compare(s)
  <2>1. /\ TypeOK' /\ reply'[s] = "pending" /\ s \in Trips
        /\ out' = [shows |-> "asking", of |-> s]
    BY <1>1 DEF Compare, Ask, Screened, Screen, Shows, feedback, TypeOK
  <2> QED
    BY <1>1, <2>1 DEF Compare, feedback, ScreenIsLast, VerdictIsOfForm,
                      VerdictWasGiven, GateOpensAgain, AskingIsTrue
<1>2. CASE TapPlace(s)
  <2>1. /\ TypeOK' /\ reply'[s] = "pending" /\ s \in Trips
        /\ out' = [shows |-> "asking", of |-> s]
    BY <1>2 DEF TapPlace, Ask, Screened, Screen, Shows, feedback, TypeOK
  <2> QED
    BY <1>2, <2>1 DEF TapPlace, feedback, ScreenIsLast, VerdictIsOfForm,
                      VerdictWasGiven, GateOpensAgain, AskingIsTrue
<1>3. CASE AskShortlist(s)
  <2>1. /\ TypeOK' /\ reply'[s] = "pending"
        /\ \A t \in Trips : reply'[t] = reply[t]
        /\ out' = [shows |-> "asking", of |-> s]
    BY <1>3 DEF AskShortlist, Ask, Screened, Screen, Shows, feedback, TypeOK
  <2> QED
    BY <1>3, <2>1 DEF AskShortlist, feedback, ScreenIsLast, VerdictIsOfForm,
                      VerdictWasGiven, GateOpensAgain, AskingIsTrue
<1>4. CASE ShortlistAnswers(s)
  <2>1. /\ TypeOK'
        /\ \A t \in Trips : reply'[t] = reply[t]
        /\ out'.shows \in {"places", "message"}
    BY <1>4 DEF ShortlistAnswers, Answer, Screened, Screen, Message, Shows,
                feedback, TypeOK
  <2> QED
    BY <1>4, <2>1 DEF ShortlistAnswers, feedback, ScreenIsLast, VerdictIsOfForm,
                      VerdictWasGiven, GateOpensAgain, AskingIsTrue
<1>5. CASE OptionsCome(s)
  <2>1. /\ TypeOK' /\ enter' /\ ~verdict'
        /\ out' = [shows |-> "options", of |-> s]
    BY <1>5 DEF OptionsCome, Finally, RenderFeedback, Answer, Screened, Screen, Shows, TypeOK
  <2> QED
    BY <1>5, <2>1 DEF OptionsCome, Finally, RenderFeedback, ScreenIsLast, VerdictIsOfForm,
                      VerdictWasGiven, GateOpensAgain, AskingIsTrue
<1>6. CASE NoOptionsCome(s)
  <2>1. TypeOK' /\ enter' /\ out'.shows = "message"
    BY <1>6 DEF NoOptionsCome, Finally, Answer, Screened, Screen, Message, Shows,
                feedback, TypeOK
  <2> QED
    BY <1>6, <2>1 DEF NoOptionsCome, Finally, feedback, ScreenIsLast, VerdictIsOfForm,
                      VerdictWasGiven, GateOpensAgain, AskingIsTrue
<1>7. CASE Unreachable(s)
  <2>1. TypeOK' /\ enter' /\ out'.shows = "message"
    BY <1>7 DEF Unreachable, Caught, Finally, Answer, Screened, Screen, Message, Shows,
                feedback, TypeOK
  <2> QED
    BY <1>7, <2>1 DEF Unreachable, Caught, Finally, feedback, ScreenIsLast, VerdictIsOfForm,
                      VerdictWasGiven, GateOpensAgain, AskingIsTrue
<1>8. CASE TurnedAway(s)
  <2>1. TypeOK' /\ enter' /\ expired'
    BY <1>8 DEF TurnedAway, Finally, Answer, feedback, TypeOK
  <2> QED
    BY <1>8, <2>1 DEF TurnedAway, Finally, feedback, ScreenIsLast, VerdictIsOfForm,
                      VerdictWasGiven, GateOpensAgain, AskingIsTrue
<1> QED
  BY <1>1, <1>2, <1>3, <1>4, <1>5, <1>6, <1>7, <1>8 DEF Searching

\* Feedback reads LAST and the form and leaves both as they are.
LEMMA JudgingKeeps == Inv /\ Judging => Inv'
<1> SUFFICES ASSUME Inv, Judging PROVE Inv'
  OBVIOUS
<1> USE DEF Inv, Pending
<1>1. CASE GiveVerdict
  BY <1>1 DEF GiveVerdict, TypeOK, ScreenIsLast, VerdictIsOfForm, VerdictWasGiven,
              GateOpensAgain, AskingIsTrue
<1>2. CASE SendThrows
  BY <1>2 DEF SendThrows, Ready, TypeOK, ScreenIsLast, VerdictIsOfForm, VerdictWasGiven,
              GateOpensAgain, AskingIsTrue
<1>3. ASSUME NEW n \in Posts, Send(n) PROVE Inv'
  <2>1. TypeOK'
    BY <1>3 DEF Send, Ready, TypeOK
  <2>2. VerdictWasGiven'
    BY <1>3 DEF Send, Ready, TypeOK, VerdictIsOfForm, VerdictWasGiven
  <2> QED
    BY <1>3, <2>1, <2>2 DEF Send, Ready, ScreenIsLast, VerdictIsOfForm, GateOpensAgain,
                            AskingIsTrue
<1>4. ASSUME NEW n \in Posts, PostAnswers(n) PROVE Inv'
  <2>1. TypeOK'
    BY <1>4 DEF PostAnswers, TypeOK
  <2>2. VerdictWasGiven'
    BY <1>4 DEF PostAnswers, TypeOK, VerdictWasGiven
  <2> QED
    BY <1>4, <2>1, <2>2 DEF PostAnswers, ScreenIsLast, VerdictIsOfForm,
                            GateOpensAgain, AskingIsTrue
<1>5. ASSUME NEW n \in Posts, PostLost(n) PROVE Inv'
  <2>1. TypeOK'
    BY <1>5 DEF PostLost, TypeOK
  <2>2. VerdictWasGiven'
    BY <1>5 DEF PostLost, TypeOK, VerdictWasGiven
  <2> QED
    BY <1>5, <2>1, <2>2 DEF PostLost, ScreenIsLast, VerdictIsOfForm,
                            GateOpensAgain, AskingIsTrue
<1> QED
  BY <1>1, <1>2, <1>3, <1>4, <1>5 DEF Judging

LEMMA NextKeeps == Inv /\ [Next]_vars => Inv'
<1> SUFFICES ASSUME Inv, [Next]_vars PROVE Inv'
  OBVIOUS
<1>1. CASE UNCHANGED vars
  BY <1>1 DEF vars, Inv, Pending, TypeOK, ScreenIsLast, VerdictIsOfForm,
              VerdictWasGiven, GateOpensAgain, AskingIsTrue
<1> QED
  BY <1>1, GateKeeps, SearchingKeeps, JudgingKeeps DEF Next

\* The page keeps its invariant whatever is typed and whatever comes back.
THEOREM InvHolds == Spec => []Inv
  BY InitHolds, NextKeeps, PTL DEF Spec

\* The page's variables keep their types.
THEOREM TypeCorrect == Spec => []TypeOK
  BY InvHolds, PTL DEF Inv

\* What is on the screen is what feedback would attach (render, LAST).
THEOREM ScreenIsAlwaysLast == Spec => []ScreenIsLast
  BY InvHolds, PTL DEF Inv

\* No post without a verdict of its own form (renderFeedback's closure).
THEOREM VerdictsAreGiven == Spec => []VerdictWasGiven
  BY InvHolds, PTL DEF Inv

\* The gate is never shut for good (the finally of the submit handler).
THEOREM GateAlwaysOpensAgain == Spec => []GateOpensAgain
  BY InvHolds, PTL DEF Inv

\* The page claims to be asking only when it is, or after a 401.
THEOREM AskingIsAlwaysTrue == Spec => []AskingIsTrue
  BY InvHolds, PTL DEF Inv
=============================================================================
