----------------------------- MODULE GuardedPage -----------------------------
(***************************************************************************)
(* The page of SearchPage at the server of Sessions.  A search or a post   *)
(* leaves with the cookie of the moment, the server admits it or not when  *)
(* it arrives, and the page acts on the reply when that comes back; in     *)
(* between anything happens on either side.                                *)
(***************************************************************************)
EXTENDS Sessions

CONSTANTS Trips, Shortlists, NoSearch

VARIABLES view, tab, enter, reply, out, last, form, verdict, send, post, given, expired

P == INSTANCE SearchPage

page    == <<view, tab, enter, reply, out, last, form, verdict, send, post, given,
             expired>>
allVars == <<page, vars>>

ASSUME GuardedAssumption ==
  /\ Requests = P!Searches \cup Posts
  /\ P!Searches \cap Posts = {}
  /\ P!PageAssumption

GuardedInit == P!Init /\ Init

\* /api/me: in with a session; to the gate without one, or without a reply.
Arriving ==
  P!Boot /\ (view' = "app" => Admits(jar)) /\ UNCHANGED vars

EnteringCode(l) == view = "gate" /\ enter /\ EnterCode(l) /\ UNCHANGED page

\* The cookie comes with the head of the reply, the page moves on once it has
\* the body, unless it had moved on before.
SigningIn(l) == LetIn(l) /\ (P!Login \/ UNCHANGED page)

OnPageOnly == (P!SwitchTab \/ P!GiveVerdict \/ P!SendThrows) /\ UNCHANGED vars

OnServerOnly ==
  /\ \/ Redeploy \/ Tick \/ Forget
     \/ \E r \in Requests : Arrive(r)
     \/ \E l \in Logins : Login(l) \/ NotLetIn(l)
  /\ UNCHANGED page

Asking(s) == (P!Compare(s) \/ P!TapPlace(s) \/ P!AskShortlist(s)) /\ Leave(s)

\* What was admitted is answered with options, without, or with an error; to
\* the tab Anywhere 401 is an error like any other.
Replied(s) ==
  /\ \/ (P!OptionsCome(s) \/ P!NoOptionsCome(s)) /\ ask[s].state = "served"
     \/ P!TurnedAway(s) /\ ask[s].state = "refused"
     \/ /\ P!ShortlistAnswers(s) /\ reply'[s] # "unreachable"
        /\ ask[s].state = "refused" => reply'[s] = "refused"
  /\ Reply(s)

NotReplied(s) ==
  /\ P!Unreachable(s) \/ P!ShortlistAnswers(s)
  /\ reply'[s] = "unreachable"
  /\ Lose(s)

Posting(n) ==
  \/ P!Send(n) /\ Leave(n)
  \/ /\ P!PostAnswers(n) /\ Reply(n)
     /\ (post'[n].state = "logged") <=> (ask[n].state = "served")
  \/ P!PostLost(n) /\ Lose(n)

GuardedNext ==
  \/ Arriving \/ OnPageOnly \/ OnServerOnly
  \/ \E l \in Logins : EnteringCode(l) \/ SigningIn(l)
  \/ \E s \in P!Searches : Asking(s) \/ Replied(s) \/ NotReplied(s)
  \/ \E n \in Posts : Posting(n)

GuardedSpec == GuardedInit /\ [][GuardedNext]_allVars

-----------------------------------------------------------------------------
(* Properties.                                                             *)

\* Both sides have the types of their own modules.
TypesOK == TypeOK /\ P!TypeOK

\* Feedback the page says is logged has its row, and feedback it offers to send
\* again has none, though the reply may be lost after the row is written.
LoggedIsKept ==
  /\ NoneTwice
  /\ \A n \in Posts :
       /\ post[n].state = "logged" => Kept(n)
       /\ post[n].state = "failed" => ~Kept(n)
=============================================================================
