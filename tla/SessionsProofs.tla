---------------------------- MODULE SessionsProofs ----------------------------
(***************************************************************************)
(* Rows are earned, what is told is kept and sessions survive, for every   *)
(* number of requests, every set of environments and every age (Sessions), *)
(* also when it is the page that makes the requests (GuardedPage).         *)
(***************************************************************************)
EXTENDS GuardedPage, SequenceTheorems, WellFoundedInduction, TLAPS

Entry == [name : STRING, code : STRING]

LEMMA Below == \A n \in Nat : \A i \in 1..n : n - i \in Nat
OBVIOUS

\* A code belongs to the name of its last entry.
LEMMA LastEntryCounts ==
  ASSUME env \in Environments, NEW c \in DOMAIN Codes
  PROVE  \E i \in Usable : /\ env.entries[i].code = c
                           /\ Codes[c] = env.entries[i].name
                           /\ Codes[c] \in STRING
                           /\ \A j \in Usable : env.entries[j].code = c => j <= i
<1> DEFINE es == env.entries
          Of == {i \in Usable : es[i].code = c}
          Last(i) == es[i].code = c /\ \A j \in Usable : es[j].code = c => j <= i
          Behind == {Len(es) - i : i \in Of}
<1>1. es \in Seq(Entry) /\ Len(es) \in Nat /\ DOMAIN es = 1..Len(es)
  BY SessionsAssumption DEF Entry
<1>2. DOMAIN Codes = {es[i].code : i \in Usable} /\ Usable \subseteq DOMAIN es
  BY DEF Codes, Usable
<1>3. Of # {} /\ Of \subseteq 1..Len(es)
  BY <1>1, <1>2
<1>4. Behind # {} /\ Behind \subseteq Nat
  <2> HIDE DEF Of
  <2>1. \A i \in Of : Len(es) - i \in Nat
    BY <1>1, <1>3, Below
  <2> QED
    BY <1>3, <2>1
<1>5. PICK b \in Behind : \A d \in Behind : ~(d < b)
  <2> HIDE DEF Behind
  <2>1. PICK b \in Behind : \A d \in Behind : <<d, b>> \notin OpToRel(<, Nat)
    BY <1>4, NatLessThanWellFounded, WFMin
  <2> QED
    BY <1>4, <2>1 DEF OpToRel
<1>6. PICK i \in Of : b = Len(es) - i
  OBVIOUS
<1>7. \A j \in Of : j <= i
  <2> TAKE j \in Of
  <2>1. ~(Len(es) - j < Len(es) - i)
    BY <1>5, <1>6
  <2>2. i \in Int /\ j \in Int
    BY <1>3
  <2> QED
    BY <1>1, <2>1, <2>2
<1>8. i \in Usable /\ Last(i)
  BY <1>7
<1>9. PICK k \in Usable : Last(k) /\ k = CHOOSE l \in Usable : Last(l)
  BY <1>8
<1>10. Codes[c] = es[k].name
  BY <1>2, <1>9 DEF Codes
<1>11. es[k].name \in STRING
  <2>1. k \in 1..Len(es)
    BY <1>1, <1>2
  <2>2. es[k] \in Entry
    BY <1>1, <2>1, ElementOfSeq
  <2> QED
    BY <2>2 DEF Entry
<1> QED
  BY <1>9, <1>10, <1>11

-----------------------------------------------------------------------------
\* A request's cookie is of the last code, or there is none; a row is of a
\* post that was served, and a post that was served has its row.
Linked ==
  /\ \A r \in Requests : ask[r].token \in {ask[r].entered, NoToken}
  /\ \A k \in DOMAIN rows : ask[rows[k].post].state \in {"served", "answered", "lost"}
  /\ \A r \in Posts : ask[r].state \in {"served", "answered"} => Kept(r)

IInv == TypeOK /\ Linked /\ NoneTwice /\ RowsAreEarned

RowType == [post : Posts, tester : Tester, at : 0..now, key : KeyType, gated : BOOLEAN]
States == {"unsent", "sent", "served", "refused", "broken", "answered",
           "turned_away", "failed", "lost"}
LoginType == [state : {"idle", "sent", "open", "signed", "denied"},
              token : Token \cup {NoToken}]
RequestType == [state : States, token : Token \cup {NoToken},
                entered : Token \cup {NoToken}]

\* What is typed stays typed as the clock and the processes advance.
LEMMA TypesGrow ==
  ASSUME TypeOK, now' \in Nat, process' \in Nat, now <= now', process <= process'
  PROVE  /\ KeyType \subseteq KeyType' /\ Token \subseteq Token'
         /\ RequestType \subseteq RequestType' /\ RowType \subseteq RowType'
         /\ entered \in (Token \cup {NoToken})'
         /\ login \in [Logins -> LoginType']
         /\ ask \in [Requests -> RequestType']
         /\ rows \in Seq(RowType')
<1>1. now \in Nat /\ process \in Nat
  BY SessionsAssumption DEF TypeOK
<1>2. 0..now \subseteq 0..now' /\ 0..process \subseteq 0..process'
  BY <1>1
<1>3. KeyType \subseteq KeyType'
  BY <1>2 DEF KeyType
<1>4. Token \subseteq Token'
  <2> SUFFICES ASSUME NEW t \in Token PROVE t \in Token'
    OBVIOUS
  <2> QED
    BY <1>2, <1>3 DEF Token, Tester
<1>5. RequestType \subseteq RequestType'
  <2> SUFFICES ASSUME NEW q \in RequestType PROVE q \in RequestType'
    OBVIOUS
  <2> QED
    BY <1>4 DEF RequestType, States
<1>6. RowType \subseteq RowType'
  <2> SUFFICES ASSUME NEW q \in RowType PROVE q \in RowType'
    OBVIOUS
  <2> QED
    BY <1>2, <1>3 DEF RowType, Tester
<1>7. ask \in [Requests -> RequestType] /\ rows \in Seq(RowType)
  BY DEF TypeOK, RequestType, States, RowType
<1>8. ask \in [Requests -> RequestType']
  BY <1>5, <1>7
<1>9. rows \in Seq(RowType')
  <2>1. Len(rows) \in Nat /\ rows \in [1..Len(rows) -> RowType]
    BY <1>7
  <2>2. rows \in [1..Len(rows) -> RowType']
    BY <1>6, <2>1
  <2> QED
    BY <2>1, <2>2, SeqDef
<1>10. entered \in (Token \cup {NoToken})'
  BY <1>4 DEF TypeOK
<1>11. login \in [Logins -> LoginType']
  <2>1. LoginType \subseteq LoginType'
    <3> SUFFICES ASSUME NEW q \in LoginType PROVE q \in LoginType'
      OBVIOUS
    <3> QED
      BY <1>4 DEF LoginType
  <2> QED
    BY <2>1 DEF TypeOK, LoginType
<1> QED
  BY <1>3, <1>4, <1>5, <1>6, <1>8, <1>9, <1>10, <1>11

\* The key of the moment is one, and so is a token signed with it.
LEMMA SignedIsToken ==
  ASSUME TypeOK, NEW tester \in Tester
  PROVE  Key \in KeyType /\ Signed(tester) \in Token
<1>1. now \in 0..now /\ process \in 0..process /\ 0 \in 0..process
  BY SessionsAssumption DEF TypeOK
<1>2. env \in Environments
  BY DEF TypeOK
<1>3. Key \in KeyType
  BY <1>1, <1>2 DEF Key, KeyType
<1> QED
  BY <1>1, <1>3 DEF Signed, Token

\* Codes on their way stay typed while neither clock nor server moves.
LEMMA LoginsStay ==
  ASSUME TypeOK, UNCHANGED <<env, process, now, login>>
  PROVE  (login \in [Logins -> LoginType])'
<1>1. login \in [Logins -> LoginType]
  BY DEF TypeOK, LoginType
<1>2. LoginType' = LoginType
  BY DEF LoginType, Token, KeyType
<1> QED
  BY <1>1, <1>2

\* A step that leaves requests and rows alone keeps what links them.
LEMMA LinksStay ==
  ASSUME Linked, NoneTwice, RowsAreEarned, UNCHANGED <<ask, rows>>
  PROVE  Linked' /\ NoneTwice' /\ RowsAreEarned'
BY DEF Linked, NoneTwice, RowsAreEarned, Kept

LEMMA InitHolds == Init => IInv
<1> SUFFICES ASSUME Init PROVE IInv
  OBVIOUS
<1>1. /\ ask = [r \in Requests |-> Unsent] /\ rows = <<>> /\ env \in Environments
      /\ process = 1 /\ now = 0 /\ jar = NoToken /\ entered = NoToken
      /\ login = [l \in Logins |-> Idle]
  BY DEF Init
<1>2. TypeOK
  <2>1. process \in 1..MaxProcess /\ now \in 0..MaxNow
    BY <1>1, SessionsAssumption
  <2>2. rows \in Seq(RowType)
    BY <1>1
  <2> QED
    BY <1>1, <2>1, <2>2 DEF TypeOK, Unsent, Idle, RowType
<1>3. DOMAIN rows = {}
  BY <1>1
<1>4. Linked /\ NoneTwice /\ RowsAreEarned
  BY <1>1, <1>3, SessionsAssumption DEF Linked, NoneTwice, RowsAreEarned, Unsent
<1> QED
  BY <1>2, <1>4 DEF IInv

\* What happens between the gate and the login leaves requests and rows alone.
LEMMA LoginsHold ==
  ASSUME IInv, UNCHANGED <<env, process, now, ask, rows>>,
         entered' \in Token \cup {NoToken}, jar' \in {entered', NoToken},
         NEW l \in Logins, NEW new \in LoginType, login' = [login EXCEPT ![l] = new]
  PROVE  IInv'
<1>1. login' \in [Logins -> LoginType]
  BY DEF IInv, TypeOK, LoginType
<1>2. TypeOK'
  BY <1>1 DEF IInv, TypeOK, LoginType, Token, KeyType
<1> QED
  BY <1>2, LinksStay DEF IInv

LEMMA LoginHolds ==
  ASSUME IInv, NEW l \in Logins, EnterCode(l) \/ Login(l) \/ LetIn(l) \/ NotLetIn(l)
  PROVE  IInv'
<1>1. /\ login \in [Logins -> LoginType] /\ Idle \in LoginType
      /\ entered \in Token \cup {NoToken} /\ jar \in {entered, NoToken}
  BY DEF IInv, TypeOK, LoginType, Idle
<1>2. ASSUME NEW state \in {"sent", "open", "denied"},
             login' = [login EXCEPT ![l].state = state],
             UNCHANGED <<env, process, now, jar, entered, ask, rows>>
      PROVE  IInv'
  <2> DEFINE new == [login[l] EXCEPT !.state = state]
  <2>1. login' = [login EXCEPT ![l] = new]
    BY <1>2
  <2>2. new \in LoginType
    BY <1>1 DEF LoginType
  <2> HIDE DEF new
  <2> QED
    BY <1>1, <1>2, <2>1, <2>2, LoginsHold
<1>3. CASE EnterCode(l)
  BY <1>2, <1>3 DEF EnterCode
<1>4. CASE Login(l)
  <2>1. UNCHANGED <<env, process, now, jar, entered, ask, rows>>
    BY <1>4 DEF Login
  <2>2. CASE \E code \in DOMAIN Codes :
               login' = [login EXCEPT ![l] = [state |-> "signed", token |-> Signed(Codes[code])]]
    <3>1. PICK code \in DOMAIN Codes :
            login' = [login EXCEPT ![l] = [state |-> "signed", token |-> Signed(Codes[code])]]
      BY <2>2
    <3>2. Codes[code] \in Tester
      BY LastEntryCounts DEF IInv, TypeOK, Tester
    <3>3. Signed(Codes[code]) \in Token
      BY <3>2, SignedIsToken DEF IInv
    <3>4. [state |-> "signed", token |-> Signed(Codes[code])] \in LoginType
      BY <3>3 DEF LoginType
    <3> QED
      BY <1>1, <2>1, <3>1, <3>4, LoginsHold
  <2> QED
    BY <1>2, <1>4, <2>1, <2>2 DEF Login
<1>5. CASE LetIn(l)
  <2>1. login[l].token \in Token \cup {NoToken}
    BY <1>1 DEF LoginType
  <2>2. entered' \in Token \cup {NoToken} /\ jar' \in {entered', NoToken}
    BY <1>1, <1>5, <2>1 DEF LetIn, CookieSet
  <2> QED
    BY <1>1, <1>5, <2>2, LoginsHold DEF LetIn
<1>6. CASE NotLetIn(l)
  BY <1>1, <1>6, LoginsHold DEF NotLetIn
<1> QED
  BY <1>3, <1>4, <1>5, <1>6

LEMMA RedeployHolds == ASSUME IInv, Redeploy PROVE IInv'
<1>1. /\ process < MaxProcess /\ process' = process + 1 /\ env' \in Environments
      /\ UNCHANGED <<now, browser, ask, rows>>
  BY DEF Redeploy
<1>2. process' \in 1..MaxProcess /\ process <= process' /\ process' \in Nat /\ now \in Nat
  BY <1>1, SessionsAssumption DEF IInv, TypeOK
<1>3. /\ entered \in (Token \cup {NoToken})' /\ login \in [Logins -> LoginType']
      /\ ask \in [Requests -> RequestType'] /\ rows \in Seq(RowType')
  BY <1>1, <1>2, TypesGrow DEF IInv
<1>4. TypeOK'
  BY <1>1, <1>2, <1>3 DEF IInv, TypeOK, LoginType, RequestType, RowType, States, browser
<1> QED
  BY <1>1, <1>4, LinksStay DEF IInv

LEMMA TickHolds == ASSUME IInv, Tick PROVE IInv'
<1>1. now < MaxNow /\ now' = now + 1 /\ UNCHANGED <<env, process, browser, ask, rows>>
  BY DEF Tick
<1>2. now' \in 0..MaxNow /\ now <= now' /\ now' \in Nat /\ process \in Nat
  BY <1>1, SessionsAssumption DEF IInv, TypeOK
<1>3. /\ entered \in (Token \cup {NoToken})' /\ login \in [Logins -> LoginType']
      /\ ask \in [Requests -> RequestType'] /\ rows \in Seq(RowType')
  BY <1>1, <1>2, TypesGrow DEF IInv
<1>4. TypeOK'
  BY <1>1, <1>2, <1>3 DEF IInv, TypeOK, LoginType, RequestType, RowType, States, browser
<1> QED
  BY <1>1, <1>4, LinksStay DEF IInv

LEMMA ForgetHolds == ASSUME IInv, Forget PROVE IInv'
<1>1. jar' = NoToken /\ UNCHANGED <<env, process, now, entered, login, ask, rows>>
  BY DEF Forget
<1>2. TypeOK'
  <2>1. (login \in [Logins -> LoginType])'
    BY <1>1, LoginsStay DEF IInv
  <2>2. Token' = Token /\ KeyType' = KeyType
    BY <1>1 DEF Token, KeyType
  <2> QED
    BY <1>1, <2>1, <2>2 DEF IInv, TypeOK, LoginType
<1> QED
  BY <1>1, <1>2, LinksStay DEF IInv

LEMMA LeaveHolds ==
  ASSUME IInv, NEW r \in Requests, Leave(r)
  PROVE  IInv'
<1> DEFINE new == [state |-> "sent", token |-> jar, entered |-> entered]
<1>1. /\ ask[r].state = "unsent" /\ ask' = [ask EXCEPT ![r] = new]
      /\ UNCHANGED <<env, process, now, browser, rows>>
  BY DEF Leave
<1>2. /\ ask \in [Requests -> RequestType] /\ rows \in Seq(RowType)
      /\ entered \in Token \cup {NoToken} /\ jar \in {entered, NoToken}
  BY DEF IInv, TypeOK, RequestType, States, RowType
<1>3. new \in RequestType
  BY <1>2 DEF RequestType, States
<1>4. TypeOK'
  <2>1. ask' \in [Requests -> RequestType]
    BY <1>1, <1>2, <1>3
  <2> QED
    BY <1>1, <2>1, LoginsStay DEF IInv, TypeOK, LoginType, RequestType, States, Token, KeyType, browser
<1>5. \A q \in Requests : q # r => ask'[q] = ask[q]
  BY <1>1, <1>2
<1>6. ask'[r] = new
  BY <1>1, <1>2
<1>7. \A k \in DOMAIN rows : rows[k].post # r /\ rows[k].post \in Requests
  <2> SUFFICES ASSUME NEW k \in DOMAIN rows
               PROVE  rows[k].post # r /\ rows[k].post \in Requests
    OBVIOUS
  <2>1. rows[k] \in RowType
    BY <1>2, ElementOfSeq
  <2> QED
    BY <1>1, <2>1, SessionsAssumption DEF IInv, Linked, RowType
<1>8. Linked' /\ NoneTwice' /\ RowsAreEarned'
  <2>1. Linked'
    BY <1>1, <1>2, <1>5, <1>6, <1>7, SessionsAssumption DEF IInv, Linked, Kept
  <2>2. NoneTwice'
    BY <1>1 DEF IInv, NoneTwice
  <2>3. RowsAreEarned'
    BY <1>1, <1>5, <1>7 DEF IInv, RowsAreEarned
  <2> QED
    BY <2>1, <2>2, <2>3
<1> QED
  BY <1>4, <1>8 DEF IInv

\* A request that changes its state only, and none of the rows.
LEMMA GoesHolds ==
  ASSUME IInv, NEW r \in Requests, NEW state \in States, Goes(r, state),
         UNCHANGED <<env, process, now, browser, rows>>,
         \/ ask[r].state = "sent" /\ state \in {"refused", "broken", "lost"}
         \/ ask[r].state = "sent" /\ state = "served" /\ r \notin Posts
         \/ ask[r].state = "served" /\ state \in {"answered", "lost"}
         \/ ask[r].state \in {"refused", "broken"} /\ state \in {"turned_away", "failed", "lost"}
  PROVE  IInv'
<1>1. /\ ask \in [Requests -> RequestType] /\ rows \in Seq(RowType)
      /\ ask' = [ask EXCEPT ![r].state = state]
  BY DEF IInv, TypeOK, RequestType, States, RowType, Goes
<1>2. /\ \A q \in Requests : q # r => ask'[q] = ask[q]
      /\ ask'[r] = [ask[r] EXCEPT !.state = state]
  BY <1>1
<1>3. /\ ask'[r].state = state /\ ask'[r].token = ask[r].token
      /\ ask'[r].entered = ask[r].entered /\ ask'[r] \in RequestType
  BY <1>1, <1>2 DEF RequestType
<1>4. TypeOK'
  <2>1. ask' \in [Requests -> RequestType]
    BY <1>1, <1>3
  <2> QED
    BY <2>1, LoginsStay DEF IInv, TypeOK, LoginType, RequestType, States, Token, KeyType, browser
<1>5. \A k \in DOMAIN rows : rows[k].post \in Requests
  <2> SUFFICES ASSUME NEW k \in DOMAIN rows PROVE rows[k].post \in Requests
    OBVIOUS
  <2>1. rows[k] \in RowType
    BY <1>1, ElementOfSeq
  <2> QED
    BY <2>1, SessionsAssumption DEF RowType
<1>6. Linked'
  BY <1>2, <1>3, <1>5, SessionsAssumption DEF IInv, Linked, Kept
<1>7. NoneTwice'
  BY DEF IInv, NoneTwice
<1>8. RowsAreEarned'
  <2>1. \A q \in Requests : ask'[q].entered = ask[q].entered
    BY <1>2, <1>3
  <2>2. RowsAreEarned /\ rows' = rows
    BY DEF IInv
  <2> QED
    BY <1>5, <2>1, <2>2 DEF RowsAreEarned
<1> QED
  BY <1>4, <1>6, <1>7, <1>8 DEF IInv

\* A post that is written, and admitted then.
LEMMA RecordHolds ==
  ASSUME IInv, NEW r \in Posts, ask[r].state = "sent", Admits(ask[r].token),
         Goes(r, "served"), rows' = Recorded(r),
         UNCHANGED <<env, process, now, browser>>
  PROVE  IInv'
<1> DEFINE row == [post |-> r, tester |-> TesterOf(ask[r].token),
                   at |-> now, key |-> Key, gated |-> Enabled]
<1>1. /\ ask \in [Requests -> RequestType] /\ rows \in Seq(RowType)
      /\ ask' = [ask EXCEPT ![r].state = "served"] /\ rows' = Append(rows, row)
      /\ r \in Requests
  BY SessionsAssumption DEF IInv, TypeOK, RequestType, States, RowType, Goes, Recorded
<1>2. Enabled => /\ ask[r].token # NoToken /\ ask[r].token = ask[r].entered
                 /\ now - ask[r].token.issued <= MaxAge /\ ask[r].token.key = Key
                 /\ TesterOf(ask[r].token) = ask[r].token.tester
  BY <1>1 DEF Admits, Verifies, TesterOf, IInv, Linked
<1>3. row \in RowType
  <2>1. now \in 0..now /\ Key \in KeyType
    <3>1. OpenAccess \in Tester
      BY DEF Tester
    <3> QED
      BY <3>1, SignedIsToken, SessionsAssumption DEF IInv, TypeOK
  <2>2. TesterOf(ask[r].token) \in Tester
    BY <1>1, <1>2 DEF RequestType, Token, Tester, TesterOf
  <2>3. Enabled \in BOOLEAN
    BY DEF Enabled
  <2> QED
    BY <2>1, <2>2, <2>3 DEF RowType
<1> HIDE DEF row
<1>4. /\ \A q \in Requests : q # r => ask'[q] = ask[q]
      /\ ask'[r] = [ask[r] EXCEPT !.state = "served"]
  BY <1>1
<1>5. /\ ask'[r].state = "served" /\ ask'[r].token = ask[r].token
      /\ ask'[r].entered = ask[r].entered /\ ask'[r] \in RequestType
  BY <1>1, <1>4 DEF RequestType, States
<1>6. /\ rows' \in Seq(RowType) /\ Len(rows) \in Nat /\ Len(rows') = Len(rows) + 1
      /\ \A k \in 1..Len(rows) : rows'[k] = rows[k]
      /\ rows'[Len(rows) + 1] = row
  BY <1>1, <1>3, AppendProperties
<1>7. /\ DOMAIN rows = 1..Len(rows) /\ DOMAIN rows' = 1..(Len(rows) + 1)
      /\ \A k \in DOMAIN rows' : k \in DOMAIN rows \/ k = Len(rows) + 1
  BY <1>1, <1>6
<1>8. TypeOK'
  <2>1. ask' \in [Requests -> RequestType]
    BY <1>1, <1>5
  <2> QED
    BY <1>6, <2>1, LoginsStay
    DEF IInv, TypeOK, LoginType, RequestType, States, RowType, Token, KeyType, browser
<1>9. \A k \in DOMAIN rows : rows[k].post \in Requests /\ rows[k].post # r
  <2> SUFFICES ASSUME NEW k \in DOMAIN rows
               PROVE  rows[k].post \in Requests /\ rows[k].post # r
    OBVIOUS
  <2>1. rows[k] \in RowType
    BY <1>1, <1>7, ElementOfSeq
  <2> QED
    BY <2>1, SessionsAssumption DEF RowType, IInv, Linked
<1>10. row.post = r
  BY DEF row
<1>11. Linked'
  <2>1. \A q \in Requests : ask'[q].token \in {ask'[q].entered, NoToken}
    BY <1>4, <1>5 DEF IInv, Linked
  <2>2. \A k \in DOMAIN rows' : ask'[rows'[k].post].state \in {"served", "answered", "lost"}
    <3> SUFFICES ASSUME NEW k \in DOMAIN rows'
                 PROVE  ask'[rows'[k].post].state \in {"served", "answered", "lost"}
      OBVIOUS
    <3>1. CASE k \in DOMAIN rows
      <4>1. rows'[k] = rows[k] /\ ask'[rows[k].post] = ask[rows[k].post]
        BY <1>4, <1>6, <1>7, <1>9, <3>1
      <4> QED
        BY <3>1, <4>1 DEF IInv, Linked
    <3>2. CASE k = Len(rows) + 1
      BY <1>5, <1>6, <1>10, <3>2
    <3> QED
      BY <1>7, <3>1, <3>2
  <2>3. \A q \in Posts : ask'[q].state \in {"served", "answered"} => Kept(q)'
    <3> SUFFICES ASSUME NEW q \in Posts, ask'[q].state \in {"served", "answered"}
                 PROVE  Kept(q)'
      OBVIOUS
    <3>1. CASE q = r
      BY <1>6, <1>7, <1>10, <3>1 DEF Kept
    <3>2. CASE q # r
      <4>1. Kept(q)
        BY <1>4, <3>2, SessionsAssumption DEF IInv, Linked
      <4> QED
        BY <1>6, <1>7, <4>1 DEF Kept
    <3> QED
      BY <3>1, <3>2
  <2> QED
    BY <2>1, <2>2, <2>3 DEF Linked
<1>12. NoneTwice'
  <2> SUFFICES ASSUME NEW k \in DOMAIN rows', NEW l \in DOMAIN rows',
                      rows'[k].post = rows'[l].post
               PROVE  k = l
    BY DEF NoneTwice
  <2> QED
    BY <1>6, <1>7, <1>9, <1>10 DEF IInv, NoneTwice
<1>13. RowsAreEarned'
  <2> SUFFICES ASSUME NEW k \in DOMAIN rows'
               PROVE  IF rows'[k].gated
                        THEN /\ ask'[rows'[k].post].entered # NoToken
                             /\ rows'[k].tester = ask'[rows'[k].post].entered.tester
                             /\ rows'[k].at - ask'[rows'[k].post].entered.issued <= MaxAge
                             /\ rows'[k].key = ask'[rows'[k].post].entered.key
                        ELSE rows'[k].tester = OpenAccess
    BY DEF RowsAreEarned
  <2>1. CASE k \in DOMAIN rows
    BY <1>4, <1>6, <1>7, <1>9, <2>1 DEF IInv, RowsAreEarned
  <2>2. CASE k = Len(rows) + 1
    <3>1. rows'[k] = row /\ ask'[rows'[k].post].entered = ask[r].entered
      BY <1>5, <1>6, <1>10, <2>2
    <3> QED
      BY <1>2, <3>1 DEF row, TesterOf
  <2> QED
    BY <1>7, <2>1, <2>2
<1> QED
  BY <1>8, <1>11, <1>12, <1>13 DEF IInv

LEMMA ArriveHolds ==
  ASSUME IInv, NEW r \in Requests, Arrive(r)
  PROVE  IInv'
<1>1. ask[r].state = "sent" /\ UNCHANGED <<env, process, now, browser>>
  BY DEF Arrive
<1>2. CASE ~Admits(ask[r].token) /\ Goes(r, "refused") /\ UNCHANGED rows
  BY <1>1, <1>2, GoesHolds DEF States
<1>3. CASE Admits(ask[r].token) /\ Breaks(r)
  BY <1>1, <1>3, GoesHolds DEF States, Breaks
<1>4. CASE /\ Admits(ask[r].token) /\ Goes(r, "served")
           /\ rows' = IF r \in Posts THEN Recorded(r) ELSE rows
  <2>1. CASE r \in Posts
    BY <1>1, <1>4, <2>1, RecordHolds
  <2>2. CASE r \notin Posts
    BY <1>1, <1>4, <2>2, GoesHolds DEF States
  <2> QED
    BY <2>1, <2>2
<1> QED
  BY <1>2, <1>3, <1>4 DEF Arrive

LEMMA ReplyHolds ==
  ASSUME IInv, NEW r \in Requests, Reply(r)
  PROVE  IInv'
<1>1. /\ ask[r].state \in {"served", "refused", "broken"}
      /\ Goes(r, Told[ask[r].state])
      /\ UNCHANGED <<env, process, now, browser, rows>>
  BY DEF Reply, Told
<1>2. /\ Told["served"] = "answered" /\ Told["refused"] = "turned_away"
      /\ Told["broken"] = "failed"
  BY DEF Told
<1>3. CASE ask[r].state = "served"
  BY <1>1, <1>2, <1>3, GoesHolds DEF States
<1>4. CASE ask[r].state \in {"refused", "broken"}
  BY <1>1, <1>2, <1>4, GoesHolds DEF States
<1> QED
  BY <1>1, <1>3, <1>4

LEMMA LoseHolds ==
  ASSUME IInv, NEW r \in Requests, Lose(r)
  PROVE  IInv'
<1>1. /\ ask[r].state \in {"sent", "served", "refused", "broken"} /\ Goes(r, "lost")
      /\ UNCHANGED <<env, process, now, browser, rows>>
  BY DEF Lose, Told
<1> QED
  BY <1>1, GoesHolds DEF States

\* The sessions keep their inductive invariant, through any restart.
THEOREM InvariantHolds == Spec => []IInv
<1>1. IInv /\ [Next]_vars => IInv'
  <2> SUFFICES ASSUME IInv, [Next]_vars PROVE IInv'
    OBVIOUS
  <2>1. ASSUME NEW l \in Logins, EnterCode(l) \/ Login(l) \/ LetIn(l) \/ NotLetIn(l)
        PROVE  IInv'
    BY <2>1, LoginHolds
  <2>2. CASE Redeploy
    BY <2>2, RedeployHolds
  <2>3. CASE Tick
    BY <2>3, TickHolds
  <2>4. CASE Forget
    BY <2>4, ForgetHolds
  <2>5. ASSUME NEW r \in Requests, Leave(r) PROVE IInv'
    BY <2>5, LeaveHolds
  <2>6. ASSUME NEW r \in Requests, Arrive(r) PROVE IInv'
    BY <2>6, ArriveHolds
  <2>7. ASSUME NEW r \in Requests, Reply(r) PROVE IInv'
    BY <2>7, ReplyHolds
  <2>8. ASSUME NEW r \in Requests, Lose(r) PROVE IInv'
    BY <2>8, LoseHolds
  <2>9. CASE UNCHANGED vars
    <3>1. TypeOK'
      BY <2>9 DEF vars, IInv, TypeOK, Token, KeyType
    <3> QED
      BY <2>9, <3>1, LinksStay DEF vars, IInv
  <2> QED
    BY <2>1, <2>2, <2>3, <2>4, <2>5, <2>6, <2>7, <2>8, <2>9 DEF Next
<1> QED
  BY <1>1, InitHolds, PTL DEF Spec

\* What the variables hold is what the code puts there: cookies and requests
\* carry tokens, rows carry a tester, for every set of environments.
THEOREM TypeIsCorrect == Spec => []TypeOK
<1>1. IInv => TypeOK
  BY DEF IInv
<1> QED
  BY <1>1, InvariantHolds, PTL

\* A row is signed with the tester whose code was let in last, of the right
\* age and secret, whatever happens to the server in between.
THEOREM RowsAreAlwaysEarned == Spec => []RowsAreEarned
<1>1. IInv => RowsAreEarned
  BY DEF IInv
<1> QED
  BY <1>1, InvariantHolds, PTL

\* A post that was accepted has one row, one that was turned down has none.
THEOREM ToldIsAlwaysKept == Spec => []ToldIsKept
<1>1. IInv => ToldIsKept
  BY SessionsAssumption DEF IInv, Linked, ToldIsKept, Kept
<1> QED
  BY <1>1, InvariantHolds, PTL

\* No step ends the session of a tester whose codes are kept, under a secret that
\* is set and stays; another secret ends all of them, and so does every restart
\* without one.
THEOREM SessionsAlwaysSurvive == Spec => SessionsSurvive
<1>1. IInv /\ [Next]_vars => [KeptIn /\ LoggedOut]_vars
  <2> SUFFICES ASSUME IInv, [Next]_vars PROVE KeptIn /\ LoggedOut
    OBVIOUS
  <2>1. ASSUME SignedIn, jar' = jar, now' - jar.issued <= MaxAge,
               env'.secret = env.secret,
               process' # process => env.secret # Unset,
               CodesOf(jar.tester) # {}, CodesOf(jar.tester) \subseteq CodesOf(jar.tester)'
        PROVE  SignedIn'
    <3>1. jar # NoToken /\ jar.key = Key
      BY <2>1 DEF SignedIn, Verifies
    <3>2. Key' = Key
      BY <2>1 DEF Key
    <3>3. CodesOf(jar.tester)' \subseteq (DOMAIN Codes)'
      BY DEF CodesOf
    <3>4. (DOMAIN Codes)' # {}
      BY <2>1, <3>3
    <3> QED
      BY <2>1, <3>1, <3>2, <3>4 DEF SignedIn, Verifies, Enabled
  <2>2. ASSUME env' # env \/ process' # process PROVE Redeploy
    BY <2>2 DEF Next, vars, EnterCode, Login, LetIn, NotLetIn, Tick, Forget, Leave,
                Arrive, Reply, Lose
  <2>3. Redeploy => process' = process + 1 /\ jar' = jar
    BY DEF Redeploy, browser
  <2>4. jar # NoToken => jar.key \in KeyType /\ jar.key.process \in 0..process
    BY DEF IInv, TypeOK, Token, KeyType
  <2>5. process \in Nat
    BY SessionsAssumption DEF IInv, TypeOK
  <2>6. ASSUME SignedIn, env'.secret # env.secret PROVE ~SignedIn'
    <3>1. jar' = jar /\ process' = process + 1
      BY <2>2, <2>3, <2>6
    <3>2. Key.secret = env.secret /\ (Key.secret)' = env'.secret
      BY DEF Key
    <3> QED
      BY <2>6, <3>1, <3>2 DEF SignedIn, Verifies
  <2>7. ASSUME process' # process, env'.secret = Unset PROVE ~SignedIn'
    <3>1. process' = process + 1 /\ jar' = jar
      BY <2>2, <2>3, <2>7
    <3>2. Key' = [secret |-> Unset, process |-> process']
      BY <2>7 DEF Key
    <3> QED
      BY <2>4, <2>5, <3>1, <3>2 DEF SignedIn, Verifies
  <2> QED
    BY <2>1, <2>6, <2>7 DEF KeptIn, LoggedOut
<1> QED
  BY <1>1, InvariantHolds, PTL DEF SessionsSurvive, Spec

-----------------------------------------------------------------------------
(* The composition.                                                        *)

PageStep ==
  \/ P!Boot \/ P!Login \/ P!SwitchTab \/ P!GiveVerdict \/ P!SendThrows
  \/ \E s \in P!Searches : P!Searching(s)
  \/ \E n \in Posts : P!Send(n) \/ P!PostAnswers(n) \/ P!PostLost(n)

\* Every step of the composition is one of the page, or leaves it alone ...
LEMMA StepsOfPage == GuardedNext => PageStep \/ UNCHANGED page
BY DEF GuardedNext, Arriving, EnteringCode, SigningIn, OnPageOnly, OnServerOnly, Asking,
       Replied, NotReplied, Posting, PageStep, P!Searching

\* ... and one of the server, or leaves that alone.
LEMMA StepsOfServer == GuardedNext => Next \/ UNCHANGED vars
BY GuardedAssumption
   DEF GuardedNext, Arriving, EnteringCode, SigningIn, OnPageOnly, OnServerOnly, Asking,
       Replied, NotReplied, Posting, Next

\* The composition implements both of its parts: what holds of the page alone
\* or of the sessions alone holds of them together.
THEOREM CompositionImplements == GuardedSpec => P!Spec /\ Spec
<1>1. GuardedInit => P!Init /\ Init
  BY DEF GuardedInit
<1>2. [GuardedNext]_allVars => [P!Next]_(P!vars)
  BY StepsOfPage DEF PageStep, P!Next, P!Gate, P!Judging, P!vars, page, allVars
<1>3. [GuardedNext]_allVars => [Next]_vars
  BY StepsOfServer DEF allVars
<1> QED
  BY <1>1, <1>2, <1>3, PTL DEF GuardedSpec, P!Spec, Spec

Ref == Trips \cup {NoSearch}
PostType == [state : {"unsent", "sending", "logged", "failed", "lost"},
             rated : Ref, attached : Ref]

\* What the page has been told of a post is what the server replied.
Agreed ==
  /\ form \in Ref /\ last \in Ref /\ post \in [Posts -> PostType]
  /\ \A n \in Posts :
       /\ post[n].state = "logged" => ask[n].state = "answered"
       /\ post[n].state = "failed" => ask[n].state \in {"turned_away", "failed"}

Settled == {"answered", "turned_away", "failed"}

\* A request that is settled stays so.
LEMMA SettledStays ==
  ASSUME TypeOK, [Next]_vars, NEW q \in Requests, ask[q].state \in Settled
  PROVE  ask'[q].state = ask[q].state
<1>1. ask \in [Requests -> RequestType]
  BY DEF TypeOK, RequestType, States
<1>2. ASSUME NEW r \in Requests, Leave(r) \/ Arrive(r) \/ Reply(r) \/ Lose(r)
      PROVE  ask'[q] = ask[q]
  <2>1. r # q
    BY <1>2 DEF Leave, Arrive, Reply, Lose, Told, Settled
  <2> QED
    BY <1>1, <1>2, <2>1 DEF Leave, Arrive, Reply, Lose, Goes, Breaks
<1>3. CASE UNCHANGED ask
  BY <1>3
<1> QED
  BY <1>2, <1>3 DEF Next, vars, EnterCode, Login, LetIn, NotLetIn, Redeploy, Tick, Forget

\* A step that leaves every post alone, whatever form it shows and whatever it
\* keeps.
LEMMA AgreedWithoutPost ==
  ASSUME TypeOK, Agreed, [Next]_vars, UNCHANGED post, form' \in Ref, last' \in Ref
  PROVE  Agreed'
<1>1. \A n \in Posts : ask[n].state \in Settled => ask'[n].state = ask[n].state
  BY SettledStays, SessionsAssumption
<1> QED
  BY <1>1 DEF Agreed, Settled

\* A step that changes one post.
LEMMA AgreedWithPost ==
  ASSUME TypeOK, Agreed, [Next]_vars, UNCHANGED <<form, last>>,
         NEW n \in Posts, NEW new \in PostType, post' = [post EXCEPT ![n] = new],
         new.state = "logged" => ask'[n].state = "answered",
         new.state = "failed" => ask'[n].state \in {"turned_away", "failed"}
  PROVE  Agreed'
<1>1. \A q \in Posts : ask[q].state \in Settled => ask'[q].state = ask[q].state
  BY SettledStays, SessionsAssumption
<1>2. post' \in [Posts -> PostType] /\ post'[n] = new
      /\ \A q \in Posts : q # n => post'[q] = post[q]
  BY DEF Agreed
<1> QED
  BY <1>1, <1>2 DEF Agreed, Settled

LEMMA AgreedHolds == TypeOK /\ Agreed /\ [GuardedNext]_allVars => Agreed'
<1> SUFFICES ASSUME TypeOK, Agreed, [GuardedNext]_allVars PROVE Agreed'
  OBVIOUS
<1>1. [Next]_vars
  BY StepsOfServer DEF allVars
<1>2. ASSUME UNCHANGED post, form' \in Ref, last' \in Ref PROVE Agreed'
  BY <1>1, <1>2, AgreedWithoutPost
<1>3. form \in Ref /\ last \in Ref /\ NoSearch \in Ref
  BY DEF Agreed, Ref
<1>4. CASE UNCHANGED allVars
  BY <1>2, <1>3, <1>4 DEF allVars, page
<1>5. CASE \/ Arriving \/ OnPageOnly \/ OnServerOnly
           \/ \E l \in Logins : EnteringCode(l) \/ SigningIn(l)
  <2>1. UNCHANGED <<post, last>> /\ form' \in {form, NoSearch}
    BY <1>5 DEF Arriving, EnteringCode, SigningIn, OnPageOnly, OnServerOnly, P!Boot, P!Login,
                P!SwitchTab, P!GiveVerdict, P!SendThrows, P!Ready, P!feedback, page
  <2> QED
    BY <1>2, <1>3, <2>1
<1>6. ASSUME NEW s \in P!Searches, Asking(s) \/ Replied(s) \/ NotReplied(s)
      PROVE  Agreed'
  <2>1. UNCHANGED post /\ form' \in {form, s} /\ last' \in {last, s}
        /\ (form' = s => s \in Trips \/ form' = form)
        /\ (last' = s => s \in Trips \/ last' = last)
    BY <1>6 DEF Asking, Replied, NotReplied, P!Compare, P!TapPlace, P!AskShortlist,
                P!OptionsCome, P!NoOptionsCome, P!TurnedAway, P!ShortlistAnswers,
                P!Unreachable, P!Caught, P!Finally, P!RenderFeedback, P!feedback
  <2> QED
    BY <1>2, <1>3, <2>1 DEF Ref
<1>7. ASSUME NEW n \in Posts, Posting(n) PROVE Agreed'
  <2>1. n \in Requests
    BY SessionsAssumption
  <2>2. CASE P!Send(n) /\ Leave(n)
    <3> DEFINE new == [state |-> "sending", rated |-> form, attached |-> last]
    <3>1. post' = [post EXCEPT ![n] = new] /\ UNCHANGED <<form, last>>
      BY <2>2 DEF P!Send, P!Ready
    <3>2. new \in PostType
      BY <1>3 DEF PostType
    <3> QED
      BY <1>1, <3>1, <3>2, AgreedWithPost
  <2>3. CASE /\ P!PostAnswers(n) /\ Reply(n)
             /\ (post'[n].state = "logged") <=> (ask[n].state = "served")
    <3>1. PICK how \in {"logged", "failed"} : post' = [post EXCEPT ![n].state = how]
      BY <2>3 DEF P!PostAnswers
    <3> DEFINE new == [post[n] EXCEPT !.state = how]
    <3>2. post' = [post EXCEPT ![n] = new] /\ UNCHANGED <<form, last>>
      BY <2>3, <3>1 DEF P!PostAnswers
    <3>3. new \in PostType /\ new.state = how /\ post'[n] = new
      BY <3>2 DEF Agreed, PostType
    <3>4. ask'[n].state = Told[ask[n].state] /\ ask[n].state \in DOMAIN Told
      BY <2>1, <2>3 DEF TypeOK, Reply, Goes
    <3>5. /\ how = "logged" => ask'[n].state = "answered"
          /\ how = "failed" => ask'[n].state \in {"turned_away", "failed"}
      BY <2>3, <3>3, <3>4 DEF Told
    <3> QED
      BY <1>1, <3>2, <3>3, <3>5, AgreedWithPost
  <2>4. CASE P!PostLost(n) /\ Lose(n)
    <3> DEFINE new == [post[n] EXCEPT !.state = "lost"]
    <3>1. post' = [post EXCEPT ![n] = new] /\ UNCHANGED <<form, last>>
      BY <2>4 DEF P!PostLost
    <3>2. new \in PostType /\ new.state = "lost"
      BY DEF Agreed, PostType
    <3> QED
      BY <1>1, <3>1, <3>2, AgreedWithPost
  <2> QED
    BY <1>7, <2>2, <2>3, <2>4 DEF Posting
<1> QED
  BY <1>4, <1>5, <1>6, <1>7 DEF GuardedNext

\* Feedback the page says is logged has its one row, feedback that it offers
\* to send again has none.
THEOREM LoggedIsAlwaysKept == GuardedSpec => []LoggedIsKept
<1>1. GuardedInit => Agreed
  BY DEF GuardedInit, P!Init, P!Unsent, Agreed, PostType, Ref
<1>2. Agreed /\ ToldIsKept => LoggedIsKept
  BY DEF Agreed, ToldIsKept, LoggedIsKept
<1> QED
  BY <1>1, <1>2, AgreedHolds, CompositionImplements, TypeIsCorrect, ToldIsAlwaysKept, PTL
     DEF GuardedSpec

\* A page that was just loaded has the types of its variables.
LEMMA PageTypesStart == P!Init => P!TypeOK
<1> SUFFICES ASSUME P!Init PROVE P!TypeOK
  OBVIOUS
<1> USE DEF P!Init
<1>1. out \in P!Screen
  BY DEF P!Blank, P!Screened, P!Screen, P!Shows
<1>2. post \in [Posts -> PostType]
  BY DEF P!Unsent, PostType, Ref
<1> QED
  BY <1>1, <1>2 DEF P!TypeOK, PostType, Ref

\* No handler of the page breaks the types of its variables.
LEMMA PageTypesHold == P!TypeOK /\ [GuardedNext]_allVars => P!TypeOK'
<1> SUFFICES ASSUME P!TypeOK, [GuardedNext]_allVars PROVE P!TypeOK'
  OBVIOUS
<1> USE DEF P!TypeOK
<1>1. CASE P!Boot \/ P!Login \/ P!SwitchTab
  <2>1. CASE P!Boot \/ P!Login
    BY <2>1 DEF P!Boot, P!Login, P!feedback
  <2>2. CASE P!SwitchTab
    <3>1. P!Blank \in P!Screen
      BY DEF P!Blank, P!Screened, P!Screen, P!Shows
    <3> QED
      BY <2>2, <3>1 DEF P!SwitchTab
  <2> QED
    BY <1>1, <2>1, <2>2
<1>2. CASE P!GiveVerdict \/ P!SendThrows
  BY <1>2 DEF P!GiveVerdict, P!SendThrows, P!Ready
<1>3. ASSUME NEW s \in P!Searches, P!Searching(s) PROVE P!TypeOK'
  <2>1. CASE P!Compare(s) \/ P!TapPlace(s) \/ P!AskShortlist(s)
    <3>1. out' \in P!Screen
      BY <1>3, <2>1 DEF P!Compare, P!TapPlace, P!AskShortlist, P!Ask, P!Screened, P!Screen, P!Shows
    <3> QED
      BY <2>1, <3>1 DEF P!Compare, P!TapPlace, P!AskShortlist, P!Ask, P!feedback
  <2>2. CASE P!ShortlistAnswers(s)
    <3>1. out' \in P!Screen
      BY <1>3, <2>2 DEF P!ShortlistAnswers, P!Screened, P!Message, P!Screen, P!Shows
    <3> QED
      BY <2>2, <3>1 DEF P!ShortlistAnswers, P!Answer, P!feedback
  <2>3. CASE P!OptionsCome(s)
    <3>1. out' \in P!Screen
      BY <1>3, <2>3 DEF P!OptionsCome, P!Screened, P!Screen, P!Shows
    <3> QED
      BY <2>3, <3>1 DEF P!OptionsCome, P!Answer, P!RenderFeedback, P!Finally
  <2>4. CASE P!NoOptionsCome(s) \/ P!Unreachable(s)
    <3>1. out' \in P!Screen
      BY <2>4 DEF P!NoOptionsCome, P!Unreachable, P!Caught, P!Screened, P!Message, P!Screen, P!Shows
    <3> QED
      BY <2>4, <3>1 DEF P!NoOptionsCome, P!Unreachable, P!Answer, P!Finally, P!feedback
  <2>5. CASE P!TurnedAway(s)
    BY <2>5 DEF P!TurnedAway, P!Answer, P!Finally, P!feedback
  <2> QED
    BY <1>3, <2>1, <2>2, <2>3, <2>4, <2>5 DEF P!Searching
<1>4. ASSUME NEW n \in Posts, P!Send(n) \/ P!PostAnswers(n) \/ P!PostLost(n)
      PROVE  P!TypeOK'
  <2>1. CASE P!Send(n)
    BY <2>1 DEF P!Send, P!Ready
  <2>2. CASE P!PostAnswers(n)
    BY <2>2 DEF P!PostAnswers
  <2>3. CASE P!PostLost(n)
    BY <2>3 DEF P!PostLost
  <2> QED
    BY <1>4, <2>1, <2>2, <2>3
<1>5. CASE UNCHANGED page
  BY <1>5 DEF page, P!Screen
<1> QED
  BY <1>1, <1>2, <1>3, <1>4, <1>5, StepsOfPage DEF PageStep, allVars

\* Both sides keep the types of their variables, the page's handlers and the
\* server's, whatever is asked and in whatever order it is answered.
THEOREM TypesAreCorrect == GuardedSpec => []TypesOK
<1>1. GuardedInit => P!TypeOK
  BY PageTypesStart DEF GuardedInit
<1> QED
  BY <1>1, PageTypesHold, CompositionImplements, TypeIsCorrect, PTL DEF GuardedSpec, TypesOK
=============================================================================
