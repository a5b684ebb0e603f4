------------------------------ MODULE SearchPage ------------------------------
(***************************************************************************)
(* The page of web/index.html: two tabs, the searches they start, the list *)
(* they share and the form on which a tester judges what it shows.  A      *)
(* handler that awaits a reply is two actions, what it does before and     *)
(* after; between them any other handler may run, and replies come back in *)
(* any order.  Of the gate's handler only the second changes what is kept  *)
(* here, and it is the one action Login.                                   *)
(*                                                                         *)
(* A search is an identity, which stands for its query and for the body    *)
(* that answers it.  The compare button is not disabled while a search     *)
(* runs: querySelector('.go') finds the button of the invite gate, the     *)
(* first of that class on the page.                                        *)
(***************************************************************************)
CONSTANTS Trips,       \* bound: the searches of the tab for a specific trip
          Shortlists,  \* bound: those of the tab Anywhere
          Posts,       \* bound: the requests that carry feedback
          NoSearch

Searches == Trips \cup Shortlists

ASSUME PageAssumption ==
  NoSearch \notin Searches /\ Trips \cap Shortlists = {}

VARIABLES
  view,     \* what is not hidden: "nothing", "gate" or "app"
  tab,      \* the form that is not hidden: "route" or "anywhere"
  enter,    \* the button of the gate is enabled
  reply,    \* reply[s]: how the search was answered
  out,      \* #out: what it shows, and of which search
  last,     \* LAST, set once a body was read
  form,     \* #fb-slot: the search whose rendering put the form there
  verdict,  \* the verdict of that form is chosen
  send,     \* its button is enabled
  post,     \* post[n]: a request with feedback
  given,    \* history: the searches on whose form a verdict was chosen
  expired   \* history: a search was turned away with 401

vars == <<view, tab, enter, reply, out, last, form, verdict, send, post, given,
          expired>>

feedback == <<form, verdict, send, post, given>>

Shows == {"blank", "asking", "message", "options", "places"}
Screen == [shows : Shows, of : Searches \cup {NoSearch}]
Screened(what, s) == [shows |-> what, of |-> s]
Message == Screened("message", NoSearch)
Blank == Screened("blank", NoSearch)

Unsent == [state |-> "unsent", rated |-> NoSearch, attached |-> NoSearch]

TypeOK ==
  /\ view \in {"nothing", "gate", "app"}
  /\ tab \in {"route", "anywhere"}
  /\ enter \in BOOLEAN
  /\ reply \in [Searches -> {"unasked", "pending", "options", "nothing",
                             "refused", "unreachable", "turned_away", "places"}]
  /\ out \in Screen
  /\ last \in Trips \cup {NoSearch}
  /\ form \in Trips \cup {NoSearch}
  /\ verdict \in BOOLEAN /\ send \in BOOLEAN
  /\ post \in [Posts -> [state : {"unsent", "sending", "logged", "failed", "lost"},
                         rated : Trips \cup {NoSearch},
                         attached : Trips \cup {NoSearch}]]
  /\ given \subseteq Trips
  /\ expired \in BOOLEAN

Init ==
  /\ view = "nothing" /\ tab = "route" /\ enter = TRUE
  /\ reply = [s \in Searches |-> "unasked"]
  /\ out = Blank /\ last = NoSearch
  /\ form = NoSearch /\ verdict = FALSE /\ send = FALSE
  /\ post = [n \in Posts |-> Unsent]
  /\ given = {} /\ expired = FALSE

-----------------------------------------------------------------------------
(* The gate.                                                               *)

\* boot: a session lets the tester in, anything else shows the gate.
Boot ==
  /\ view = "nothing"
  /\ view' \in {"gate", "app"}
  /\ UNCHANGED <<tab, enter, reply, out, last, feedback, expired>>

\* The reply to a code that is valid; sending it, the reply to one that is not
\* and a reply once the page is open change a line of text.
Login ==
  /\ view = "gate" /\ enter
  /\ view' = "app"
  /\ UNCHANGED <<tab, enter, reply, out, last, feedback, expired>>

SwitchTab ==
  /\ view = "app"
  /\ tab' \in {"route", "anywhere"}
  /\ out' = Blank
  /\ form' = NoSearch /\ verdict' = FALSE /\ send' = FALSE
  /\ UNCHANGED <<view, enter, reply, last, post, given, expired>>

-----------------------------------------------------------------------------
(* Searching.                                                              *)

Pending(s) == reply[s] = "pending"
Answer(s, how) == Pending(s) /\ reply' = [reply EXCEPT ![s] = how]

Ask(s) ==
  /\ view = "app" /\ reply[s] = "unasked"
  /\ reply' = [reply EXCEPT ![s] = "pending"]
  /\ out' = Screened("asking", s)

\* Submitting the form of a trip, by its button, by return or by the swap of
\* both ends.  The form for feedback on an earlier search stays.
Compare(s) ==
  /\ s \in Trips /\ tab = "route"
  /\ Ask(s)
  /\ enter' = FALSE
  /\ UNCHANGED <<view, tab, last, feedback, expired>>

\* A place of the shortlist is tapped: the other tab takes it over.
TapPlace(s) ==
  /\ s \in Trips /\ out.shows = "places"
  /\ Ask(s)
  /\ tab' = "route"
  /\ enter' = FALSE
  /\ UNCHANGED <<view, last, feedback, expired>>

AskShortlist(s) ==
  /\ s \in Shortlists /\ tab = "anywhere"
  /\ Ask(s)
  /\ UNCHANGED <<view, tab, enter, last, feedback, expired>>

\* 401 is one of the refusals here: a line of text, and no gate.
ShortlistAnswers(s) ==
  /\ s \in Shortlists
  /\ \/ Answer(s, "places") /\ out' = Screened("places", s)
     \/ /\ \E how \in {"nothing", "refused", "unreachable"} : Answer(s, how)
        /\ out' = Message
  /\ UNCHANGED <<view, tab, enter, last, feedback, expired>>

\* Broken: a form that is there already is left alone.
RenderFeedbackOnce(s) ==
  IF form = NoSearch THEN form' = s /\ send' = FALSE /\ verdict' = FALSE
                     ELSE UNCHANGED <<form, send, verdict>>

\* renderFeedback: a form of its own for these results.
RenderFeedback(s) == form' = s /\ send' = FALSE /\ verdict' = FALSE

\* Broken: no finally, whatever ends the search leaves the button disabled.
NoFinally == UNCHANGED enter

\* The finally of the handler.
Finally == enter' = TRUE

\* Broken: the handler that catches leaves the screen as it is.
CaughtSilently == UNCHANGED out

\* The catch of the handler.
Caught == out' = Message

\* An answer with options: kept in LAST and rendered.
OptionsCome(s) ==
  /\ s \in Trips /\ Answer(s, "options")
  /\ last' = s
  /\ out' = Screened("options", s)
  /\ RenderFeedback(s)
  /\ Finally
  /\ UNCHANGED <<view, tab, post, given, expired>>

\* An answer without options, or an error with a body: kept in LAST too, and
\* the form stays as it is.
NoOptionsCome(s) ==
  /\ s \in Trips
  /\ Answer(s, "nothing") \/ Answer(s, "refused")
  /\ last' = s
  /\ out' = Message
  /\ Finally
  /\ UNCHANGED <<view, tab, feedback, expired>>

\* No reply, or one that is not JSON.
Unreachable(s) ==
  /\ s \in Trips /\ Answer(s, "unreachable")
  /\ Caught
  /\ Finally
  /\ UNCHANGED <<view, tab, last, feedback, expired>>

\* 401: back to the gate.  finally runs here as well.
TurnedAway(s) ==
  /\ s \in Trips /\ Answer(s, "turned_away")
  /\ view' = "gate"
  /\ Finally
  /\ expired' = TRUE
  /\ UNCHANGED <<tab, out, last, feedback>>

-----------------------------------------------------------------------------
(* Feedback.                                                               *)

GiveVerdict ==
  /\ view = "app" /\ form # NoSearch
  /\ verdict' = TRUE /\ send' = TRUE
  /\ given' = given \cup {form}
  /\ UNCHANGED <<view, tab, enter, reply, out, last, form, post, expired>>

\* Broken: the handler trusts that its button is enabled.
ReadyUnchecked == view = "app" /\ form # NoSearch /\ send /\ last # NoSearch

\* The button is pressed and the handler does not return at once.
Ready == view = "app" /\ form # NoSearch /\ send /\ verdict /\ last # NoSearch

\* LAST goes with the verdict.
Send(n) ==
  /\ Ready /\ reply[last] \in {"options", "nothing"}
  /\ post[n].state = "unsent"
  /\ post' = [post EXCEPT ![n] = [state |-> "sending", rated |-> form,
                                  attached |-> last]]
  /\ send' = FALSE
  /\ UNCHANGED <<view, tab, enter, reply, out, last, form, verdict, given, expired>>

\* LAST is the body of an error: it has no options to map over, the handler
\* throws once it has disabled its button.
SendThrows ==
  /\ Ready /\ reply[last] = "refused"
  /\ send' = FALSE
  /\ UNCHANGED <<view, tab, enter, reply, out, last, form, verdict, post, given,
                 expired>>

\* The reply is told on the form that is there now, if one is; a failure
\* enables its button.
PostAnswers(n) ==
  /\ post[n].state = "sending"
  /\ \E how \in {"logged", "failed"} :
       /\ post' = [post EXCEPT ![n].state = how]
       /\ send' = (send \/ (how = "failed" /\ form # NoSearch))
  /\ UNCHANGED <<view, tab, enter, reply, out, last, form, verdict, given, expired>>

\* No reply: nothing catches that.
PostLost(n) ==
  /\ post[n].state = "sending"
  /\ post' = [post EXCEPT ![n].state = "lost"]
  /\ UNCHANGED <<view, tab, enter, reply, out, last, form, verdict, send, given,
                 expired>>

Gate == Boot \/ Login \/ SwitchTab

Searching(s) ==
  \/ Compare(s) \/ TapPlace(s) \/ AskShortlist(s) \/ ShortlistAnswers(s)
  \/ OptionsCome(s) \/ NoOptionsCome(s) \/ Unreachable(s) \/ TurnedAway(s)

Judging == GiveVerdict \/ SendThrows
             \/ \E n \in Posts : Send(n) \/ PostAnswers(n) \/ PostLost(n)

Next == Gate \/ (\E s \in Searches : Searching(s)) \/ Judging

Spec == Init /\ [][Next]_vars

-----------------------------------------------------------------------------
(* Properties.                                                             *)

\* While options are on the screen, LAST and the form are theirs, in whatever
\* order searches were started and answered: what is sent then is what the
\* tester sees.
ScreenIsLast ==
  out.shows = "options" => last = out.of /\ form = out.of

\* Feedback goes out only with a verdict the tester chose on the form it is
\* sent from, though a late failure of an earlier post enables the button of
\* a form without one.
VerdictWasGiven ==
  \A n \in Posts : post[n].state # "unsent" => post[n].rated \in given

\* The button of the gate is disabled only while a search is under way that
\* will enable it: a tester whose session has ended gets back in.
GateOpensAgain ==
  ~enter => \E s \in Trips : Pending(s)

\* The page says that it is asking only while a search is under way, unless
\* one was turned away at the gate, which leaves that line behind.
AskingIsTrue ==
  out.shows = "asking" => expired \/ \E s \in Searches : Pending(s)

\* What the form promises ("Your query and these results are attached"): the
\* query and ranking sent are those of the results judged.
JudgedIsAttached ==
  \A n \in Posts : post[n].state # "unsent" => post[n].attached = post[n].rated
=============================================================================
