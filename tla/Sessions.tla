------------------------------ MODULE Sessions ------------------------------
(***************************************************************************)
(* The invite gate of backend/app/auth.py, with the handlers of main.py    *)
(* that use it and the rows backend/app/feedback.py keeps: one browser,    *)
(* its cookie and its requests, against a server that is redeployed with   *)
(* other codes or another secret while they are under way.  The server     *)
(* keeps no session: a token is checked against the environment of the     *)
(* moment.                                                                 *)
(*                                                                         *)
(* The MAC of a token is the key it was signed with, time is whole units.  *)
(***************************************************************************)
EXTENDS Integers, Sequences, FiniteSets

CONSTANTS
  Requests,     \* bound: the requests of the browser
  Posts,        \* those that carry feedback
  Logins,       \* bound: the codes on their way from the gate at one time
  Environments, \* bound: what the server is deployed with
  Unset,        \* SESSION_SECRET is not set
  NoText,       \* a name or a code of nothing but blanks
  NoToken,      \* no cookie
  OpenAccess,   \* the name of everybody while there are no codes
  MaxAge,       \* MAX_AGE_S
  MaxNow,       \* bound: of the clock
  MaxProcess    \* bound: of the processes

ASSUME SessionsAssumption ==
  /\ Posts \subseteq Requests
  /\ \A e \in Environments : e.entries \in Seq([name : STRING, code : STRING])
  /\ MaxAge \in Nat /\ MaxNow \in Nat /\ MaxProcess \in Nat \ {0}

VARIABLES
  env,      \* UAT_CODES and SESSION_SECRET
  process,  \* the process that runs, by number: _EPHEMERAL_SECRET is its own
  now,      \* the clock
  jar,      \* the cookie of the browser
  entered,  \* history: the token made for the last code that let somebody in
  login,    \* login[l]: a code on its way, with the token it was exchanged for
  ask,      \* ask[r]: a request, with the cookie it left with
  rows      \* the table feedback

vars == <<env, process, now, jar, entered, login, ask, rows>>

browser == <<jar, entered, login>>

-----------------------------------------------------------------------------
(* auth.py.                                                                *)

\* codes: by code, who it was given to; of two the later entry counts.
Usable == {i \in DOMAIN env.entries :
             env.entries[i].name # NoText /\ env.entries[i].code # NoText}

Codes ==
  [c \in {env.entries[i].code : i \in Usable} |->
     env.entries[CHOOSE i \in Usable :
       /\ env.entries[i].code = c
       /\ \A j \in Usable : env.entries[j].code = c => j <= i].name]

Enabled == DOMAIN Codes # {}

\* Broken: every process signs with a secret of its own.
KeyOfProcess == [secret |-> Unset, process |-> process]

\* _secret.
Key == IF env.secret = Unset THEN [secret |-> Unset, process |-> process]
                             ELSE [secret |-> env.secret, process |-> 0]

Signed(tester) == [tester |-> tester, issued |-> now, key |-> Key]

\* Broken: the age is not looked at.
VerifiesForEver(token) == token # NoToken /\ token.key = Key

\* _verify: of its age and with the secret of the moment.
Verifies(token) ==
  /\ token # NoToken
  /\ now - token.issued <= MaxAge
  /\ token.key = Key

\* current_tester, which lets everybody in without codes.
Admits(token) == Enabled => Verifies(token)
TesterOf(token) == IF Enabled THEN token.tester ELSE OpenAccess

-----------------------------------------------------------------------------
(* The handlers.                                                           *)

Unsent == [state |-> "unsent", token |-> NoToken, entered |-> NoToken]
Idle   == [state |-> "idle", token |-> NoToken]

Init ==
  /\ env \in Environments /\ process = 1 /\ now = 0
  /\ jar = NoToken /\ entered = NoToken
  /\ login = [l \in Logins |-> Idle]
  /\ ask = [r \in Requests |-> Unsent]
  /\ rows = <<>>

\* Broken: a browser that has a cookie keeps it.
CookieKept(token) == IF jar = NoToken THEN token ELSE jar

CookieSet(token) == token

\* A code is sent; which one matters when it is looked up.
EnterCode(l) ==
  /\ login[l] = Idle
  /\ login' = [login EXCEPT ![l].state = "sent"]
  /\ UNCHANGED <<env, process, now, jar, entered, ask, rows>>

\* login: everybody is let in without codes, else who sent one that is known.
Login(l) ==
  /\ login[l].state = "sent"
  /\ \/ ~Enabled /\ login' = [login EXCEPT ![l].state = "open"]
     \/ \E code \in DOMAIN Codes :
          login' = [login EXCEPT ![l] = [state |-> "signed", token |-> Signed(Codes[code])]]
     \/ Enabled /\ login' = [login EXCEPT ![l].state = "denied"]
  /\ UNCHANGED <<env, process, now, jar, entered, ask, rows>>

\* The reply to a login, with its cookie if there is one.
LetIn(l) ==
  /\ \/ login[l].state = "open" /\ UNCHANGED <<jar, entered>>
     \/ /\ login[l].state = "signed"
        /\ jar' = CookieSet(login[l].token)
        /\ entered' = login[l].token
  /\ login' = [login EXCEPT ![l] = Idle]
  /\ UNCHANGED <<env, process, now, ask, rows>>

\* A code that is not known, or a login or its reply that does not get through.
NotLetIn(l) ==
  /\ login[l] # Idle
  /\ login' = [login EXCEPT ![l] = Idle]
  /\ UNCHANGED <<env, process, now, jar, entered, ask, rows>>

\* A request leaves with the cookie of the moment.
Leave(r) ==
  /\ ask[r].state = "unsent"
  /\ ask' = [ask EXCEPT ![r] = [state |-> "sent", token |-> jar, entered |-> entered]]
  /\ UNCHANGED <<env, process, now, browser, rows>>

Goes(r, state) == ask' = [ask EXCEPT ![r].state = state]

\* record: the row of a post, with what is known of it when it is written.
Recorded(r) == Append(rows, [post |-> r, tester |-> TesterOf(ask[r].token),
                             at |-> now, key |-> Key, gated |-> Enabled])

\* Broken: what cannot be written is told as a success.
BrokenTold(r) == r \in Posts /\ Goes(r, "served") /\ UNCHANGED rows

\* The database raises: the reply is an error.
Breaks(r) == r \in Posts /\ Goes(r, "broken") /\ UNCHANGED rows

\* It reaches the process that runs now, which admits it or answers 401; a
\* post that is admitted is written at once.
Arrive(r) ==
  /\ ask[r].state = "sent"
  /\ \/ ~Admits(ask[r].token) /\ Goes(r, "refused") /\ UNCHANGED rows
     \/ /\ Admits(ask[r].token)
        /\ \/ Breaks(r)
           \/ /\ Goes(r, "served")
              /\ rows' = IF r \in Posts THEN Recorded(r) ELSE rows
  /\ UNCHANGED <<env, process, now, browser>>

\* The reply reaches the browser.
Told == [served |-> "answered", refused |-> "turned_away", broken |-> "failed"]

Reply(r) ==
  /\ ask[r].state \in DOMAIN Told
  /\ Goes(r, Told[ask[r].state])
  /\ UNCHANGED <<env, process, now, browser, rows>>

\* The request or its reply does not get through, or the process that worked
\* on it was stopped.
Lose(r) ==
  /\ ask[r].state \in {"sent"} \cup DOMAIN Told
  /\ Goes(r, "lost")
  /\ UNCHANGED <<env, process, now, browser, rows>>

\* The server starts again, after a crash or with an environment that was
\* changed; the database is on a volume.
Redeploy ==
  /\ process < MaxProcess
  /\ process' = process + 1
  /\ env' \in Environments
  /\ UNCHANGED <<now, browser, ask, rows>>

Tick ==
  /\ now < MaxNow
  /\ now' = now + 1
  /\ UNCHANGED <<env, process, browser, ask, rows>>

\* The browser drops its cookie, which has a max_age too.
Forget ==
  /\ jar # NoToken /\ now - jar.issued >= MaxAge
  /\ jar' = NoToken
  /\ UNCHANGED <<env, process, now, entered, login, ask, rows>>

Next ==
  \/ Redeploy \/ Tick \/ Forget
  \/ \E l \in Logins : EnterCode(l) \/ Login(l) \/ LetIn(l) \/ NotLetIn(l)
  \/ \E r \in Requests : Leave(r) \/ Arrive(r) \/ Reply(r) \/ Lose(r)

Spec == Init /\ [][Next]_vars

-----------------------------------------------------------------------------
(* Properties.                                                             *)

Tester == {OpenAccess} \cup STRING
KeyType == [secret : {Unset} \cup {e.secret : e \in Environments},
            process : 0..process]
Token == [tester : Tester, issued : 0..now, key : KeyType]

TypeOK ==
  /\ env \in Environments /\ process \in 1..MaxProcess /\ now \in 0..MaxNow
  /\ entered \in Token \cup {NoToken} /\ jar \in {entered, NoToken}
  /\ login \in [Logins -> [state : {"idle", "sent", "open", "signed", "denied"},
                           token : Token \cup {NoToken}]]
  /\ ask \in [Requests -> [state   : {"unsent", "sent", "served", "refused",
                                      "broken", "answered", "turned_away",
                                      "failed", "lost"},
                           token   : Token \cup {NoToken},
                           entered : Token \cup {NoToken}]]
  /\ rows \in Seq([post : Posts, tester : Tester, at : 0..now, key : KeyType,
                   gated : BOOLEAN])

\* A row is signed with the tester whose code was the last one let in from
\* that browser when the post left, no longer than MAX_AGE_S before the row
\* was written and under the same secret; while there were no codes it is
\* signed with nobody.  Redeployments, codes taken away, other testers on the
\* same browser and requests under way for long do not change that.
RowsAreEarned ==
  \A k \in DOMAIN rows :
    LET row   == rows[k]
        token == ask[row.post].entered IN
    IF row.gated
      THEN /\ token # NoToken /\ row.tester = token.tester
           /\ row.at - token.issued <= MaxAge /\ row.key = token.key
      ELSE row.tester = OpenAccess

Kept(r) == \E k \in DOMAIN rows : rows[k].post = r
NoneTwice == \A k, l \in DOMAIN rows : rows[k].post = rows[l].post => k = l

\* What a tester is told about a post is what is kept: one row when it was
\* accepted, none when it was not.
ToldIsKept ==
  /\ NoneTwice
  /\ \A r \in Posts :
       /\ ask[r].state = "answered" => Kept(r)
       /\ ask[r].state \in {"turned_away", "failed"} => ~Kept(r)

SignedIn == Verifies(jar) /\ Enabled

CodesOf(tester) == {code \in DOMAIN Codes : Codes[code] = tester}

\* A tester whose code is still there stays signed in through restarts and
\* through codes given to others or taken from them, as long as the secret is
\* set and stays.  (Of one whose entry is removed nothing is asked.)
KeptIn ==
  (/\ SignedIn /\ jar' = jar /\ now' - jar.issued <= MaxAge
   /\ env'.secret = env.secret
   /\ process' # process => env.secret # Unset
   /\ CodesOf(jar.tester) # {} /\ CodesOf(jar.tester) \subseteq CodesOf(jar.tester)')
  => SignedIn'

\* "Rotating that secret logs everyone out", and without one a restart does.
LoggedOut ==
  /\ SignedIn /\ env'.secret # env.secret => ~SignedIn'
  /\ process' # process /\ env'.secret = Unset => ~SignedIn'

\* A session ends when it should and not before.
SessionsSurvive == [][KeptIn /\ LoggedOut]_vars
=============================================================================
