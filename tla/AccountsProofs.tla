--------------------------- MODULE AccountsProofs ---------------------------
(***************************************************************************)
(* Proofs about the accounts, for any number of users, tokens, browsers,   *)
(* requests and views.  What a request or a view has read about the tables *)
(* is used later, when the tables may have changed: the invariant says     *)
(* what of it is still so (RequestOK, LiveOK), and Grows why: users stay,  *)
(* stay confirmed, and the id of a token is never given twice.             *)
(***************************************************************************)
EXTENDS UserLive, TLAPS

USE AccountStoreAssumption, UserAuthAssumption

Confirmed(u) == u \in DOMAIN users /\ users[u].confirmed

\* Sessions belong to confirmed users, and to a log in.
TokenOK(t) ==
    /\ t.id <= issued
    /\ t.user \in DOMAIN users
    /\ t.context = "session" =>
          Confirmed(t.user) /\ <<t.user, t.authenticated_at>> \in logins
    /\ t.context = "change" => t.sent_to \in Emails

StoreTypeOK ==
    /\ scenario \in Scenarios
    /\ users \in Seq(User)
    /\ Len(users) <= MaxUsers
    /\ tokens \subseteq Token
    /\ issued \in 0..MaxTokens
    /\ now \in 0..MaxTime
    /\ logins \subseteq (1..MaxUsers) \X (0..MaxTime)

StoreInv ==
    /\ StoreTypeOK
    /\ UniqueEmails
    /\ \A u \in DOMAIN users : users[u].password => users[u].confirmed
    /\ \A t \in tokens : TokenOK(t)
    /\ \A t, w \in tokens : t.id = w.id => t = w

BrowserOK ==
    browser \in [Browsers -> [token : TokenIds, remember : BOOLEAN, cookie : TokenIds]]

\* The scope of a request is that of a session, and whoever is about to be
\* logged in is confirmed.  A link about to be spent is no session.
RequestOK(q) ==
    /\ q.step # "free" => q.browser \in Browsers
    /\ q.user # NoUser =>
          Confirmed(q.user) /\ <<q.user, q.authenticated_at>> \in logins
    /\ q.step = "reissue" => q.user # NoUser
    /\ q.step = "confirm" => q.who \in DOMAIN users /\ q.kind = "link"
    /\ q.step \in {"spend", "login"} => Confirmed(q.who)
    /\ q.step = "disconnect" /\ q.kind = "link" => Confirmed(q.who)
    /\ q.step = "spend" =>
          q.link <= issued /\ \A t \in tokens : t.id = q.link => t.context # "session"

LiveOK(v) ==
    /\ v.user # NoUser => v.user \in DOMAIN users /\ v.topic # NoToken
    /\ v.step \in {"counted", "changing"} => v.wants \in Emails
    /\ v.step = "changing" => v.user # NoUser

IInv ==
    /\ StoreInv
    /\ BrowserOK
    /\ request \in [Requests -> Request]
    /\ live \in [Views -> View]
    /\ \A r \in Requests : RequestOK(request[r])
    /\ \A l \in Views : LiveOK(live[l])
    /\ ViewsBacked

-----------------------------------------------------------------------------
\* What a step may do to the tables.

Grows ==
    /\ \A u \in DOMAIN users :
          u \in DOMAIN users' /\ (users[u].confirmed => users'[u].confirmed)
    /\ issued <= issued' /\ issued' \in Nat
    /\ logins \subseteq logins'
    /\ \A t \in tokens' : t \in tokens \/ t.id > issued

SessionsKept == \A t \in tokens : t.context = "session" => t \in tokens'

LEMMA UserFacts ==
    ASSUME StoreInv, NEW u \in DOMAIN users
    PROVE  /\ u \in 1..Len(users) /\ u \in 1..MaxUsers /\ u # NoUser
           /\ users[u] \in User
  BY DEF StoreInv, StoreTypeOK, NoUser

LEMMA RequestFrame ==
    ASSUME StoreInv, Grows, NEW q \in Request, RequestOK(q)
    PROVE  RequestOK(q)'
<1>1. q.link \in Nat /\ issued \in Nat
  BY DEF StoreInv, StoreTypeOK, Request, TokenIds
<1>2. \A u : Confirmed(u) => Confirmed(u)'
  BY DEF Confirmed, Grows
<1>3. ASSUME q.step = "spend"
      PROVE  /\ q.link <= issued'
             /\ \A t \in tokens' : t.id = q.link => t.context # "session"
  <2>1. /\ q.link <= issued /\ \A t \in tokens : t.id = q.link => t.context # "session"
        /\ issued <= issued' /\ \A t \in tokens' : t \in tokens \/ t.id > issued
    BY <1>3 DEF RequestOK, Grows
  <2>2. issued' \in Nat
    BY DEF Grows
  <2>3. ~(q.link > issued)
    BY <1>1, <2>1
  <2> QED
    BY <1>1, <2>1, <2>2, <2>3
<1>4. q.user # NoUser =>
          Confirmed(q.user)' /\ <<q.user, q.authenticated_at>> \in logins'
  BY <1>2 DEF RequestOK, Grows
<1>5. /\ q.step = "confirm" => q.who \in DOMAIN users'
      /\ q.step \in {"spend", "login"} => Confirmed(q.who)'
      /\ q.step = "disconnect" /\ q.kind = "link" => Confirmed(q.who)'
  BY <1>2 DEF RequestOK, Grows
<1> QED
  BY <1>3, <1>4, <1>5 DEF RequestOK

LEMMA LiveFrame ==
    ASSUME Grows, NEW v \in View, LiveOK(v)
    PROVE  LiveOK(v)'
  BY DEF LiveOK, Grows

\* Nothing in the tables changes but, perhaps, that tokens are deleted.
LEMMA DeleteFacts ==
    ASSUME StoreInv, UNCHANGED <<scenario, users, issued, now, logins>>,
           tokens' \subseteq tokens
    PROVE  StoreInv' /\ Grows
<1>1. StoreTypeOK'
  BY DEF StoreInv, StoreTypeOK
<1>2. \A t \in tokens' : TokenOK(t)'
  BY DEF StoreInv, TokenOK, Confirmed
<1>3. Grows
  BY DEF Grows, StoreInv, StoreTypeOK
<1>4. UniqueEmails'
  BY DEF StoreInv, UniqueEmails
<1> QED
  BY <1>1, <1>2, <1>3, <1>4 DEF StoreInv

LEMMA TickFacts ==
    ASSUME StoreInv, Tick, UNCHANGED logins
    PROVE  StoreInv' /\ Grows
<1>1. now + 1 \in 0..MaxTime
  BY DEF Tick, StoreInv, StoreTypeOK
<1>2. StoreTypeOK'
  BY <1>1 DEF StoreInv, StoreTypeOK, Tick
<1>3. \A t \in tokens' : TokenOK(t)'
  BY DEF StoreInv, TokenOK, Confirmed, Tick
<1>4. Grows
  BY DEF Grows, StoreInv, StoreTypeOK, Tick
<1> QED
  BY <1>2, <1>3, <1>4 DEF StoreInv, Tick, UniqueEmails

LEMMA IssueFacts ==
    ASSUME StoreInv, UNCHANGED <<scenario, users, now>>,
           logins \subseteq logins', logins' \subseteq (1..MaxUsers) \X (0..MaxTime),
           NEW u \in DOMAIN users, NEW context \in {"session", "login", "change"},
           NEW from \in Emails \cup {NoEmail}, NEW sent_to \in Emails \cup {NoEmail},
           NEW authenticated_at \in 0..MaxTime,
           Issue(u, context, from, sent_to, authenticated_at),
           context = "session" => Confirmed(u) /\ <<u, authenticated_at>> \in logins',
           context = "change" => sent_to \in Emails
    PROVE  /\ StoreInv' /\ Grows /\ SessionsKept
           /\ issued' \in TokenIds
<1> DEFINE new == [id |-> issued', user |-> u, context |-> context, from |-> from,
                   sent_to |-> sent_to, inserted_at |-> now,
                   authenticated_at |-> authenticated_at]
<1>1. /\ issued' = issued + 1 /\ tokens' = tokens \cup {new}
      /\ issued \in 0..MaxTokens /\ issued' \in 1..MaxTokens
  <2>1. scenario.tokens \in 0..MaxTokens
    BY DEF StoreInv, StoreTypeOK
  <2> QED
    BY <2>1 DEF Issue, StoreInv, StoreTypeOK
<1>2. new \in Token
  BY <1>1, UserFacts DEF Token, StoreInv, StoreTypeOK
<1>3. new.id = issued + 1 /\ new.user = u /\ new.context = context
      /\ new.sent_to = sent_to /\ new.authenticated_at = authenticated_at
  BY <1>1
<1> HIDE DEF new
<1>4. StoreTypeOK'
  BY <1>1, <1>2 DEF StoreInv, StoreTypeOK
<1>5. ASSUME NEW t \in tokens' PROVE TokenOK(t)'
  <2>1. CASE t \in tokens
    <3>1. t.id \in Nat /\ TokenOK(t)
      BY <2>1 DEF StoreInv, StoreTypeOK, Token
    <3> QED
      BY <1>1, <3>1 DEF TokenOK, Confirmed
  <2>2. CASE t = new
    BY <1>1, <1>3, <2>2 DEF TokenOK, Confirmed
  <2> QED
    BY <1>1, <2>1, <2>2
<1>6. ASSUME NEW t \in tokens PROVE t.id \in Nat /\ t.id <= issued
  <2>1. t.id \in Nat /\ TokenOK(t)
    BY DEF StoreInv, StoreTypeOK, Token
  <2> QED
    BY <2>1 DEF TokenOK
<1>7. \A t, w \in tokens' : t.id = w.id => t = w
  BY <1>1, <1>3, <1>6 DEF StoreInv
<1>8. Grows /\ SessionsKept
  BY <1>1, <1>3 DEF Grows, SessionsKept
<1>9. UniqueEmails' /\ \A x \in DOMAIN users' : users'[x].password => users'[x].confirmed
  BY DEF StoreInv, UniqueEmails
<1> QED
  BY <1>1, <1>4, <1>5, <1>7, <1>8, <1>9 DEF StoreInv, TokenIds

LEMMA ReplaceOne ==
    ASSUME NEW S, NEW s \in Seq(S), NEW i \in DOMAIN s, NEW e \in S
    PROVE  /\ [s EXCEPT ![i] = e] \in Seq(S)
           /\ Len([s EXCEPT ![i] = e]) = Len(s)
           /\ DOMAIN [s EXCEPT ![i] = e] = DOMAIN s
           /\ \A x \in DOMAIN s : [s EXCEPT ![i] = e][x] = IF x = i THEN e ELSE s[x]
  OBVIOUS

\* A user is confirmed or, being confirmed, gets a password; the tokens go.
LEMMA UpdateFacts ==
    ASSUME StoreInv, UNCHANGED <<scenario, issued, now, logins>>,
           NEW u \in DOMAIN users, NEW changed \in User,
           UpdateAndDeleteTokens(u, changed),
           changed.email = users[u].email, changed.confirmed
    PROVE  StoreInv' /\ Grows
<1>1. /\ users' = [users EXCEPT ![u] = changed] /\ tokens' \subseteq tokens
      /\ users \in Seq(User)
  BY DEF UpdateAndDeleteTokens, StoreInv, StoreTypeOK
<1>2. /\ users' \in Seq(User) /\ Len(users') = Len(users)
      /\ DOMAIN users' = DOMAIN users
      /\ \A x \in DOMAIN users : users'[x] = IF x = u THEN changed ELSE users[x]
  BY <1>1, ReplaceOne
<1>3. StoreTypeOK'
  BY <1>1, <1>2 DEF StoreInv, StoreTypeOK
<1>4. UniqueEmails'
  BY <1>2 DEF StoreInv, UniqueEmails
<1>5. \A x : Confirmed(x) => Confirmed(x)'
  BY <1>2 DEF Confirmed
<1>6. \A t \in tokens' : TokenOK(t)'
  BY <1>1, <1>2, <1>5 DEF StoreInv, TokenOK
<1>7. Grows
  BY <1>1, <1>2 DEF Grows, StoreInv, StoreTypeOK
<1> QED
  BY <1>1, <1>2, <1>3, <1>4, <1>6, <1>7 DEF StoreInv

LEMMA RegisterFacts ==
    ASSUME StoreInv, UNCHANGED <<scenario, tokens, issued, now, logins>>,
           NEW email \in Emails, NEW first \in BOOLEAN,
           WithEmail(email) = {}, Len(users) < MaxUsers,
           users' = Append(users, [email |-> email, is_admin |-> first,
                                   confirmed |-> FALSE, password |-> FALSE])
    PROVE  StoreInv' /\ Grows
<1> DEFINE new == [email |-> email, is_admin |-> first,
                   confirmed |-> FALSE, password |-> FALSE]
<1>1. new \in User /\ new.email = email /\ ~new.password
  BY DEF User
<1>2. users \in Seq(User) /\ users' = Append(users, new) /\ Len(users) \in Nat
  BY DEF StoreInv, StoreTypeOK
<1> HIDE DEF new
<1>3. /\ users' \in Seq(User) /\ Len(users') = Len(users) + 1
      /\ DOMAIN users = 1..Len(users) /\ DOMAIN users' = 1..(Len(users) + 1)
      /\ \A u \in DOMAIN users : u \in DOMAIN users' /\ users'[u] = users[u]
      /\ \A u \in DOMAIN users' : u \in DOMAIN users \/ users'[u] = new
      /\ \A u \in DOMAIN users' : u \in DOMAIN users \/ u = Len(users) + 1
  BY <1>1, <1>2
<1>4. StoreTypeOK'
  BY <1>2, <1>3 DEF StoreInv, StoreTypeOK
<1>5. UniqueEmails'
  <2>1. \A u \in DOMAIN users : users[u].email # email
    BY DEF WithEmail
  <2> QED
    BY <1>1, <1>3, <2>1 DEF StoreInv, UniqueEmails
<1>6. \A x : Confirmed(x) => Confirmed(x)'
  BY <1>3 DEF Confirmed
<1>7. \A t \in tokens' : TokenOK(t)'
  BY <1>3, <1>6 DEF StoreInv, TokenOK
<1>8. Grows
  BY <1>3 DEF Grows, StoreInv, StoreTypeOK
<1>9. \A u \in DOMAIN users' : users'[u].password => users'[u].confirmed
  BY <1>1, <1>3 DEF StoreInv
<1> QED
  BY <1>4, <1>5, <1>7, <1>8, <1>9 DEF StoreInv

\* An email is taken that nobody else has.
LEMMA ChangeEmailFacts ==
    ASSUME StoreInv, UNCHANGED <<scenario, issued, now, logins>>,
           NEW u \in DOMAIN users, NEW email \in Emails,
           WithEmail(email) \ {u} = {},
           users' = [users EXCEPT ![u].email = email], tokens' \subseteq tokens
    PROVE  StoreInv' /\ Grows
<1> DEFINE changed == [users[u] EXCEPT !.email = email]
<1>1. /\ users \in Seq(User) /\ users[u] \in User /\ users' = [users EXCEPT ![u] = changed]
      /\ changed \in User /\ changed.email = email
      /\ changed.confirmed = users[u].confirmed /\ changed.password = users[u].password
  BY UserFacts DEF User, StoreInv, StoreTypeOK
<1> HIDE DEF changed
<1>2. /\ users' \in Seq(User) /\ Len(users') = Len(users)
      /\ DOMAIN users' = DOMAIN users
      /\ \A x \in DOMAIN users : users'[x] = IF x = u THEN changed ELSE users[x]
  BY <1>1, ReplaceOne, SMTT(30)
<1>3. StoreTypeOK'
  BY <1>1, <1>2 DEF StoreInv, StoreTypeOK
<1>4. UniqueEmails'
  <2>1. \A x \in DOMAIN users : x # u => users[x].email # email
    BY DEF WithEmail
  <2> QED
    BY <1>1, <1>2, <2>1 DEF StoreInv, UniqueEmails
<1>5. \A x : Confirmed(x) => Confirmed(x)'
  BY <1>1, <1>2 DEF Confirmed
<1>6. \A t \in tokens' : TokenOK(t)'
  BY <1>1, <1>2, <1>5 DEF StoreInv, TokenOK
<1>7. Grows
  BY <1>1, <1>2 DEF Grows, StoreInv, StoreTypeOK
<1>8. \A x \in DOMAIN users' : users'[x].password => users'[x].confirmed
  BY <1>1, <1>2 DEF StoreInv
<1> QED
  BY <1>3, <1>4, <1>6, <1>7, <1>8 DEF StoreInv

-----------------------------------------------------------------------------
\* What a step is to those who do not take it.

\* Only request r goes on; a session it deletes is one it is about to disconnect.
LEMMA RequestMoves ==
    ASSUME IInv, StoreInv', Grows, NEW r \in Requests,
           BrowserOK', UNCHANGED live,
           request[r].step \notin {"disconnect", "broadcast"},
           request' \in [Requests -> Request],
           \A x \in Requests \ {r} : request'[x] = request[x],
           RequestOK(request[r])',
           \A t \in tokens : t.context = "session" =>
              \/ t \in tokens'
              \/ request'[r].step = "disconnect" /\ t.id \in request'[r].doomed
              \/ request'[r].step = "broadcast" /\ t.id = request'[r].token
    PROVE  IInv'
<1>1. \A x \in Requests : RequestOK(request[x])'
  <2> SUFFICES ASSUME NEW x \in Requests, x # r PROVE RequestOK(request[x])'
    OBVIOUS
  <2>1. PICK q \in Request : q = request[x]
    BY DEF IInv
  <2>2. RequestOK(q)'
    BY <2>1, RequestFrame DEF IInv
  <2>3. request'[x] = q
    BY <2>1
  <2> QED
    BY <2>2, <2>3 DEF RequestOK
<1>2. \A l \in Views : LiveOK(live[l])'
  <2> SUFFICES ASSUME NEW l \in Views PROVE LiveOK(live[l])'
    OBVIOUS
  <2> QED
    BY DEF IInv, LiveOK, Grows
<1>3. \A topic : AboutToDisconnect(topic) => AboutToDisconnect(topic)'
  BY DEF AboutToDisconnect, At
<1>4. \A t \in tokens : t.context = "session" => t \in tokens' \/ AboutToDisconnect(t.id)'
  BY DEF AboutToDisconnect, At
<1>5. ViewsBacked'
  BY <1>3, <1>4 DEF IInv, ViewsBacked
<1> QED
  BY <1>1, <1>2, <1>5 DEF IInv

LEMMA RequestStep ==
    ASSUME IInv, StoreInv', Grows, NEW r \in Requests,
           UNCHANGED <<browser, live>>,
           request[r].step \notin {"disconnect", "broadcast"},
           request' \in [Requests -> Request],
           \A x \in Requests \ {r} : request'[x] = request[x],
           RequestOK(request[r])',
           \A t \in tokens : t.context = "session" =>
              \/ t \in tokens'
              \/ request'[r].step = "disconnect" /\ t.id \in request'[r].doomed
              \/ request'[r].step = "broadcast" /\ t.id = request'[r].token
    PROVE  IInv'
  BY RequestMoves DEF IInv, BrowserOK

\* Only view l goes on.
LEMMA LiveStep ==
    ASSUME IInv, StoreInv', Grows, SessionsKept, NEW l \in Views,
           UNCHANGED <<browser, request>>,
           live' \in [Views -> View],
           \A x \in Views \ {l} : live'[x] = live[x],
           LiveOK(live[l])',
           live'[l].user # NoUser =>
              \/ live[l].user # NoUser /\ live'[l].topic = live[l].topic
              \/ \E t \in tokens' : t.id = live'[l].topic /\ t.context = "session"
    PROVE  IInv'
<1>1. \A x \in Requests : RequestOK(request[x])'
  <2> SUFFICES ASSUME NEW x \in Requests PROVE RequestOK(request[x])'
    OBVIOUS
  <2>1. PICK q \in Request : q = request[x]
    BY DEF IInv
  <2>2. RequestOK(q)'
    BY <2>1, RequestFrame DEF IInv
  <2> QED
    BY <2>1, <2>2 DEF RequestOK
<1>2. \A x \in Views : LiveOK(live[x])'
  <2> SUFFICES ASSUME NEW x \in Views, x # l PROVE LiveOK(live[x])'
    OBVIOUS
  <2> QED
    BY DEF IInv, LiveOK, Grows
<1>3. \A topic : AboutToDisconnect(topic) => AboutToDisconnect(topic)'
  BY DEF AboutToDisconnect, At
<1>4. ViewsBacked'
  BY <1>3 DEF IInv, ViewsBacked, SessionsKept
<1> QED
  BY <1>1, <1>2, <1>4 DEF IInv, BrowserOK

LEMMA SameStore ==
    ASSUME StoreInv, UNCHANGED accountVars, UNCHANGED logins
    PROVE  StoreInv' /\ Grows /\ SessionsKept
<1>1. /\ UNCHANGED <<scenario, users, issued, now, logins>> /\ tokens' = tokens
  BY DEF accountVars
<1> QED
  BY <1>1, DeleteFacts DEF SessionsKept

\* The type of a request, once.
LEMMA RequestType ==
    ASSUME IInv, NEW r \in Requests
    PROVE  /\ request[r] \in Request /\ RequestOK(request[r])
           /\ request[r].step \in Steps /\ request[r].kind \in Kinds \cup {"none"}
           /\ request[r].browser \in Browsers \cup {"none"}
           /\ request[r].token \in TokenIds /\ request[r].cookie \in TokenIds
           /\ request[r].link \in TokenIds
           /\ request[r].user \in 0..MaxUsers /\ request[r].who \in 0..MaxUsers
           /\ request[r].authenticated_at \in 0..MaxTime
           /\ request[r].remember \in BOOLEAN /\ request[r].keep \in BOOLEAN
           /\ request[r].wrote \in BOOLEAN /\ request[r].wrote_cookie \in BOOLEAN
<1>1. request[r] \in Request /\ RequestOK(request[r])
  BY DEF IInv
<1> QED
  BY <1>1 DEF Request

LEMMA FreeType == Free \in Request /\ RequestOK(Free)
  BY DEF Free, Request, RequestOK, Steps, NoToken, NoUser, NoEmail, TokenIds,
         AccountStoreAssumption

\* The request goes to another step and, perhaps, writes its session back.
LEMMA GoType ==
    ASSUME IInv, NEW r \in Requests, NEW step \in Steps,
           Go(r, step) \/ (step = "respond" /\ Refuse(r))
    PROVE  /\ request' \in [Requests -> Request]
           /\ \A x \in Requests \ {r} : request'[x] = request[x]
           /\ request'[r].step = step
           /\ request'[r].kind = request[r].kind /\ request'[r].link = request[r].link
           /\ request'[r].browser = request[r].browser
           /\ request'[r].token = request[r].token
           /\ request'[r].doomed = request[r].doomed
           /\ request'[r].user = request[r].user /\ request'[r].who = request[r].who
           /\ request'[r].authenticated_at = request[r].authenticated_at
<1>1. request \in [Requests -> Request] /\ request[r] \in Request
  BY DEF IInv
<1>2. CASE Go(r, step)
  <2> DEFINE q == [request[r] EXCEPT !.step = step]
  <2>1. q \in Request /\ request' = [request EXCEPT ![r] = q]
    BY <1>1, <1>2 DEF Go, Request
  <2> QED
    BY <1>1, <2>1 DEF Request
<1>3. CASE step = "respond" /\ Refuse(r)
  <2> DEFINE q == [request[r] EXCEPT !.step = "respond", !.wrote = TRUE]
  <2>1. q \in Request /\ request' = [request EXCEPT ![r] = q]
    BY <1>1, <1>3 DEF Refuse, Request
  <2> QED
    BY <1>1, <1>3, <2>1 DEF Request
<1> QED
  BY <1>2, <1>3

-----------------------------------------------------------------------------
\* The steps of a request.

LEMMA BeginInv ==
    ASSUME IInv, NEW r \in Requests, Begin(r)
    PROVE  IInv'
<1>1. scenario \in Scenarios /\ scenario.kinds \subseteq Kinds
      /\ scenario.emails \subseteq Emails /\ issued \in 0..MaxTokens
  BY DEF IInv, StoreInv, StoreTypeOK
<1>2. PICK b \in Browsers, kind \in Kinds, link \in TokenIds,
           email \in Emails \cup {NoEmail}, keep \in BOOLEAN :
              Arrive(r, b, kind, link, email, keep)
  <2>1. PICK b \in Browsers :
          \/ \E kind \in scenario.kinds \cap {"page", "logout"} :
               Arrive(r, b, kind, NoToken, NoEmail, FALSE)
          \/ /\ "link" \in scenario.kinds
             /\ \E id \in 1..issued, keep \in BOOLEAN : Arrive(r, b, "link", id, NoEmail, keep)
          \/ /\ "password" \in scenario.kinds
             /\ \E e \in scenario.emails, keep \in BOOLEAN :
                   Arrive(r, b, "password", NoToken, e, keep)
          \/ /\ "update_password" \in scenario.kinds
             /\ \E e \in scenario.emails : Arrive(r, b, "update_password", NoToken, e, FALSE)
    BY DEF Begin
  <2>2. NoToken \in TokenIds /\ \A id \in 1..issued : id \in TokenIds
    BY <1>1 DEF NoToken, TokenIds
  <2>3. CASE \E kind \in scenario.kinds \cap {"page", "logout"} :
               Arrive(r, b, kind, NoToken, NoEmail, FALSE)
    BY <1>1, <2>2, <2>3
  <2>4. CASE /\ "link" \in scenario.kinds
             /\ \E id \in 1..issued, keep \in BOOLEAN : Arrive(r, b, "link", id, NoEmail, keep)
    BY <1>1, <2>2, <2>4
  <2>5. CASE /\ "password" \in scenario.kinds
             /\ \E e \in scenario.emails, keep \in BOOLEAN :
                   Arrive(r, b, "password", NoToken, e, keep)
    BY <1>1, <2>2, <2>5
  <2>6. CASE /\ "update_password" \in scenario.kinds
             /\ \E e \in scenario.emails : Arrive(r, b, "update_password", NoToken, e, FALSE)
    BY <1>1, <2>2, <2>6
  <2> QED
    BY <2>1, <2>3, <2>4, <2>5, <2>6
<1> DEFINE q == [Free EXCEPT !.step = "scope", !.kind = kind, !.browser = b,
                      !.token = browser[b].token, !.remember = browser[b].remember,
                      !.cookie = browser[b].cookie,
                      !.link = link, !.email = email, !.keep = keep]
<1>3. /\ request[r].step = "free" /\ request' = [request EXCEPT ![r] = q]
      /\ UNCHANGED accountVars /\ UNCHANGED <<browser, live>> /\ logins' = logins
  BY <1>2 DEF Arrive, At
<1>4. /\ browser[b].token \in TokenIds /\ browser[b].cookie \in TokenIds
      /\ browser[b].remember \in BOOLEAN
  BY DEF IInv, BrowserOK
<1>5. q \in Request /\ q.step = "scope" /\ q.browser = b /\ q.user = NoUser
  <2>1. Free \in Request /\ Free.user = NoUser /\ "scope" \in Steps
    BY FreeType DEF Free, Steps
  <2> QED
    BY <1>4, <2>1 DEF Request
<1> HIDE DEF q
<1>6. /\ request' \in [Requests -> Request] /\ request'[r] = q
      /\ \A x \in Requests \ {r} : request'[x] = request[x]
  BY <1>3, <1>5 DEF IInv
<1>7. RequestOK(request[r])'
  BY <1>5, <1>6 DEF RequestOK
<1>8. StoreInv' /\ Grows /\ SessionsKept
  BY <1>3, SameStore DEF IInv
<1> QED
  BY <1>3, <1>6, <1>7, <1>8, RequestStep DEF SessionsKept

\* The scope is that of session t, which a cookie may have restored.
LEMMA ScopeStep ==
    ASSUME IInv, NEW r \in Requests, request[r].step = "scope",
           UNCHANGED <<browser, live>>, UNCHANGED accountVars, UNCHANGED logins,
           NEW t \in tokens, t.context = "session",
           NEW q \in Request, request' = [request EXCEPT ![r] = q],
           q.step \in {"reissue", "act"}, q.user = t.user,
           q.authenticated_at = t.authenticated_at, q.browser = request[r].browser
    PROVE  IInv'
<1>1. StoreInv' /\ Grows /\ SessionsKept
  BY SameStore DEF IInv
<1>2. request[r] \in Request /\ RequestOK(request[r]) /\ request[r].browser \in Browsers
  BY RequestType DEF RequestOK
<1>3. t \in Token /\ TokenOK(t)
  BY DEF IInv, StoreInv, StoreTypeOK
<1>4. t.user # NoUser /\ Confirmed(t.user) /\ <<t.user, t.authenticated_at>> \in logins
  BY <1>3 DEF Token, TokenOK, NoUser
<1>5. /\ request' \in [Requests -> Request] /\ request'[r] = q
      /\ \A x \in Requests \ {r} : request'[x] = request[x]
  BY DEF IInv
<1>6. Confirmed(t.user)' /\ <<t.user, t.authenticated_at>> \in logins'
  BY <1>4 DEF Confirmed, accountVars
<1>7. RequestOK(request[r])'
  BY <1>2, <1>4, <1>5, <1>6 DEF RequestOK
<1> QED
  BY <1>1, <1>5, <1>7, RequestStep DEF SessionsKept

LEMMA FetchScopeInv ==
    ASSUME IInv, NEW r \in Requests, FetchScope(r)
    PROVE  IInv'
<1>1. /\ request[r].step = "scope" /\ UNCHANGED <<browser, live>>
      /\ UNCHANGED accountVars /\ logins' = logins
  BY DEF FetchScope, At
<1>2. StoreInv' /\ Grows /\ SessionsKept
  BY <1>1, SameStore DEF IInv
<1>3. request[r] \in Request /\ RequestOK(request[r]) /\ request[r].browser \in Browsers
  BY <1>1, RequestType DEF RequestOK
<1>4. CASE Go(r, "act")
  <2>1. "act" \in Steps
    BY DEF Steps
  <2>2. RequestOK(request[r])'
    BY <1>1, <1>3, <1>4, <2>1, GoType DEF RequestOK, Confirmed, accountVars
  <2> QED
    BY <1>1, <1>2, <1>4, <2>1, <2>2, GoType, RequestStep DEF SessionsKept
<1>5. ASSUME NEW id \in TokenIds, NEW restored \in BOOLEAN, NEW t \in SessionToken(id),
             request' = [request EXCEPT ![r] =
               [request[r] EXCEPT !.token = id, !.remember = @ \/ restored, !.wrote = restored,
                                  !.user = t.user, !.authenticated_at = t.authenticated_at,
                                  !.step = IF Age(t) >= ReissueAge THEN "reissue" ELSE "act"]]
      PROVE  IInv'
  <2> DEFINE remember == request[r].remember \/ restored
             step == IF Age(t) >= ReissueAge THEN "reissue" ELSE "act"
  <2>1. remember \in BOOLEAN /\ step \in {"reissue", "act"}
    OBVIOUS
  <2>2. request' = [request EXCEPT ![r] =
           [request[r] EXCEPT !.token = id, !.remember = remember, !.wrote = restored,
                              !.user = t.user, !.authenticated_at = t.authenticated_at,
                              !.step = step]]
    BY <1>5
  <2> HIDE DEF remember, step
  <2>3. /\ t \in tokens /\ t \in Token /\ t.context = "session"
    BY <1>5 DEF SessionToken, IInv, StoreInv, StoreTypeOK
  <2>4. t.user \in 0..MaxUsers /\ t.authenticated_at \in 0..MaxTime /\ step \in Steps
    BY <2>1, <2>3 DEF Token, Steps
  <2>5. PICK q :
          q = [request[r] EXCEPT !.token = id, !.remember = remember, !.wrote = restored,
                                 !.user = t.user, !.authenticated_at = t.authenticated_at,
                                 !.step = step]
    OBVIOUS
  <2>6. /\ q \in Request /\ q.step = step /\ q.user = t.user
        /\ q.authenticated_at = t.authenticated_at /\ q.browser = request[r].browser
    BY <1>3, <2>1, <2>4, <2>5 DEF Request
  <2>7. request' = [request EXCEPT ![r] = q]
    BY <2>2, <2>5
  <2> QED
    BY <1>1, <2>1, <2>3, <2>6, <2>7, ScopeStep
<1> DEFINE restored == request[r].token = NoToken /\ request[r].cookie # NoToken
           id == IF restored THEN request[r].cookie ELSE request[r].token
<1>6. restored \in BOOLEAN /\ id \in TokenIds
  BY RequestType
<1>7. \/ Go(r, "act")
      \/ \E t \in SessionToken(id) :
           request' = [request EXCEPT ![r] =
               [request[r] EXCEPT !.token = id, !.remember = @ \/ restored, !.wrote = restored,
                              !.user = t.user, !.authenticated_at = t.authenticated_at,
                              !.step = IF Age(t) >= ReissueAge THEN "reissue" ELSE "act"]]
  BY DEF FetchScope
<1> HIDE DEF restored, id
<1> QED
  BY <1>4, <1>5, <1>6, <1>7

\* The new session is of a confirmed user who logged in.
LEMMA IssueStep ==
    ASSUME IInv, NEW r \in Requests, request[r].step \in {"reissue", "login"},
           UNCHANGED <<scenario, users, now>>, UNCHANGED <<browser, live>>,
           logins \subseteq logins', logins' \subseteq (1..MaxUsers) \X (0..MaxTime),
           NEW u, NEW authenticated_at \in 0..MaxTime, Confirmed(u),
           <<u, authenticated_at>> \in logins', IssueSession(u, authenticated_at),
           NEW q, request' = [request EXCEPT ![r] = q],
           StoreInv' => q \in Request, q.step \in {"act", "respond"},
           q.user = request[r].user, q.browser = request[r].browser,
           q.authenticated_at = request[r].authenticated_at
    PROVE  IInv'
<1>1. StoreInv' /\ Grows /\ SessionsKept
  <2>1. Issue(u, "session", NoEmail, NoEmail, authenticated_at) /\ u \in DOMAIN users
    BY DEF IssueSession, Confirmed
  <2> QED
    BY <2>1, IssueFacts DEF IInv
<1>2. request[r] \in Request /\ RequestOK(request[r]) /\ request[r].browser \in Browsers
  BY RequestType DEF RequestOK
<1>3. /\ request' \in [Requests -> Request] /\ request'[r] = q
      /\ \A x \in Requests \ {r} : request'[x] = request[x]
  BY <1>1 DEF IInv
<1>4. \A x : Confirmed(x) => Confirmed(x)'
  BY DEF Confirmed
<1>5. RequestOK(request[r])'
  BY <1>2, <1>3, <1>4 DEF RequestOK
<1> QED
  BY <1>1, <1>3, <1>5, RequestStep DEF SessionsKept

LEMMA ExtendedType ==
    ASSUME NEW p \in Request, NEW remember \in BOOLEAN, issued' \in TokenIds,
           NEW x, x = Extended(p, remember)
    PROVE  /\ x \in Request /\ x.user = p.user
           /\ x.browser = p.browser /\ x.authenticated_at = p.authenticated_at
<1>1. PICK new \in TokenIds : new = issued'
  OBVIOUS
<1> DEFINE cookie == IF remember THEN new ELSE p.cookie
           wrote_cookie == remember \/ p.wrote_cookie
           e == [p EXCEPT !.token = new, !.wrote = TRUE, !.remember = remember,
                          !.cookie = cookie, !.wrote_cookie = wrote_cookie]
<1>2. cookie \in TokenIds /\ wrote_cookie \in BOOLEAN
  BY DEF Request
<1>3. x = e
  BY <1>1 DEF Extended
<1> HIDE DEF cookie, wrote_cookie
<1> QED
  BY <1>2, <1>3 DEF Request

LEMMA ReissueInv ==
    ASSUME IInv, NEW r \in Requests, Reissue(r)
    PROVE  IInv'
<1>1. /\ request[r].step = "reissue"
      /\ IssueSession(request[r].user, request[r].authenticated_at)
      /\ UNCHANGED <<scenario, users, now>> /\ UNCHANGED <<browser, live>>
      /\ logins' = logins
  BY DEF Reissue, At
<1>2. PICK u \in 0..MaxUsers, a \in 0..MaxTime, remember \in BOOLEAN, p \in Request :
         /\ u = request[r].user /\ a = request[r].authenticated_at
         /\ remember = request[r].remember /\ p = request[r]
  BY RequestType
<1>3. Confirmed(u) /\ <<u, a>> \in logins
  BY <1>1, <1>2, RequestType DEF RequestOK
<1>4. PICK x, q : x = Extended(p, remember) /\ q = [x EXCEPT !.step = "act"]
  OBVIOUS
<1>5. /\ request' = [request EXCEPT ![r] = q]
      /\ IssueSession(u, a)
  BY <1>1, <1>2, <1>4 DEF Reissue
<1>6. issued' \in TokenIds
  <2>1. Issue(u, "session", NoEmail, NoEmail, a) /\ u \in DOMAIN users
    BY <1>3, <1>5 DEF IssueSession, Confirmed
  <2> QED
    BY <1>1, <1>3, <2>1, IssueFacts DEF IInv, StoreInv, StoreTypeOK
<1>7. "act" \in Steps
  BY DEF Steps
<1>8. /\ q \in Request /\ q.step = "act" /\ q.user = p.user
      /\ q.browser = p.browser /\ q.authenticated_at = p.authenticated_at
  <2>1. /\ x \in Request /\ x.user = p.user
        /\ x.browser = p.browser /\ x.authenticated_at = p.authenticated_at
    BY <1>4, <1>6, <1>7, ExtendedType
  <2> QED
    BY <1>4, <1>6, <1>7, <2>1 DEF Request
<1>9. logins' \subseteq (1..MaxUsers) \X (0..MaxTime)
  BY <1>1 DEF IInv, StoreInv, StoreTypeOK
<1> QED
  BY <1>1, <1>2, <1>3, <1>5, <1>8, <1>9, IssueStep

LEMMA LogInInv ==
    ASSUME IInv, NEW r \in Requests, LogIn(r)
    PROVE  IInv'
<1>1. /\ request[r].step = "login"
      /\ IssueSession(request[r].who, now)
      /\ UNCHANGED <<scenario, users, now>> /\ UNCHANGED <<browser, live>>
      /\ logins' = logins \cup {<<request[r].who, now>>}
  BY DEF LogIn, At
<1>2. PICK u \in 0..MaxUsers, a \in 0..MaxTime, remember \in BOOLEAN, p \in Request :
         /\ u = request[r].who /\ a = now
         /\ remember = (request[r].keep \/ request[r].remember) /\ p = request[r]
  BY RequestType DEF IInv, StoreInv, StoreTypeOK
<1>3. Confirmed(u) /\ <<u, a>> \in logins'
  BY <1>1, <1>2, RequestType DEF RequestOK
<1>4. PICK x, q : x = Extended(p, remember) /\ q = [x EXCEPT !.step = "respond"]
  OBVIOUS
<1>5. /\ request' = [request EXCEPT ![r] = q]
      /\ IssueSession(u, a)
  BY <1>1, <1>2, <1>4 DEF LogIn
<1>6. logins' \subseteq (1..MaxUsers) \X (0..MaxTime) /\ logins \subseteq logins'
  <2>1. u \in 1..MaxUsers
    BY <1>3, UserFacts DEF IInv, Confirmed
  <2> QED
    BY <1>1, <1>2, <2>1 DEF IInv, StoreInv, StoreTypeOK
<1>7. issued' \in TokenIds
  <2>1. Issue(u, "session", NoEmail, NoEmail, a) /\ u \in DOMAIN users
    BY <1>3, <1>5 DEF IssueSession, Confirmed
  <2> QED
    BY <1>1, <1>3, <1>6, <2>1, IssueFacts DEF IInv
<1>8. "respond" \in Steps
  BY DEF Steps
<1>9. /\ q \in Request /\ q.step = "respond" /\ q.user = p.user
      /\ q.browser = p.browser /\ q.authenticated_at = p.authenticated_at
  <2>1. /\ x \in Request /\ x.user = p.user
        /\ x.browser = p.browser /\ x.authenticated_at = p.authenticated_at
    BY <1>4, <1>7, <1>8, ExtendedType
  <2> QED
    BY <1>4, <1>7, <1>8, <2>1 DEF Request
<1> QED
  BY <1>1, <1>2, <1>3, <1>5, <1>6, <1>9, IssueStep

\* The request is refused, or goes on to the controller or the response.
LEMMA GoStep ==
    ASSUME IInv, NEW r \in Requests, NEW step \in {"act", "respond"},
           Go(r, step) \/ (step = "respond" /\ Refuse(r)),
           request[r].step \notin {"free", "disconnect", "broadcast"},
           UNCHANGED accountVars, UNCHANGED <<browser, live>>, UNCHANGED logins
    PROVE  IInv'
<1>1. step \in Steps
  BY DEF Steps
<1>2. StoreInv' /\ Grows /\ SessionsKept
  BY SameStore DEF IInv
<1>3. RequestOK(request[r])
  BY RequestType
<1>4. RequestOK(request[r])'
  BY <1>1, <1>3, GoType DEF RequestOK, Confirmed, accountVars
<1> QED
  BY <1>1, <1>2, <1>4, GoType, RequestStep DEF SessionsKept

LEMMA RaiseStep ==
    ASSUME IInv, NEW r \in Requests, Raise(r), StoreInv', Grows, SessionsKept,
           request[r].step \notin {"disconnect", "broadcast"},
           UNCHANGED <<browser, live>>
    PROVE  IInv'
<1>1. /\ request' \in [Requests -> Request] /\ request'[r] = Free
      /\ \A x \in Requests \ {r} : request'[x] = request[x]
  BY FreeType DEF Raise, IInv
<1>2. Free.step = "free" /\ Free.user = NoUser
  BY DEF Free
<1>3. RequestOK(request[r])'
  BY <1>1, <1>2 DEF RequestOK
<1> QED
  BY <1>1, <1>3, RequestStep DEF SessionsKept

LEMMA PageInv ==
    ASSUME IInv, NEW r \in Requests, Page(r)
    PROVE  IInv'
  BY GoStep DEF Page, At

LEMMA FailInv ==
    ASSUME IInv, NEW r \in Requests, Fail(r)
    PROVE  IInv'
<1>1. StoreInv' /\ Grows /\ SessionsKept
  BY SameStore DEF Fail, IInv
<1> QED
  BY <1>1, RaiseStep DEF Fail

-----------------------------------------------------------------------------
\* Logging in.

\* Whoever is to be logged in is confirmed, or about to be.
LEMMA WhoStep ==
    ASSUME IInv, NEW r \in Requests, NEW who \in DOMAIN users,
           NEW step \in {"confirm", "spend", "login"},
           request' = [request EXCEPT ![r].who = who, ![r].step = step],
           request[r].step \in {"act", "password"},
           step \in {"spend", "login"} => users[who].confirmed,
           step \in {"confirm", "spend"} => request[r].kind = "link",
           step = "spend" => \E t \in tokens : t.id = request[r].link /\ t.context = "login",
           UNCHANGED accountVars, UNCHANGED <<browser, live>>, UNCHANGED logins
    PROVE  IInv'
<1>1. step \in Steps /\ who \in 0..MaxUsers
  BY UserFacts DEF Steps, IInv
<1>2. StoreInv' /\ Grows /\ SessionsKept
  BY SameStore DEF IInv
<1>3. request[r] \in Request /\ RequestOK(request[r]) /\ request[r].browser \in Browsers
  BY RequestType DEF RequestOK
<1>4. /\ request' \in [Requests -> Request]
      /\ \A x \in Requests \ {r} : request'[x] = request[x]
      /\ request'[r].step = step /\ request'[r].who = who
      /\ request'[r].kind = request[r].kind /\ request'[r].link = request[r].link
      /\ request'[r].browser = request[r].browser /\ request'[r].user = request[r].user
      /\ request'[r].authenticated_at = request[r].authenticated_at
  <2> DEFINE q == [request[r] EXCEPT !.who = who, !.step = step]
  <2>1. /\ q \in Request /\ q.step = step /\ q.who = who
        /\ q.kind = request[r].kind /\ q.link = request[r].link
        /\ q.browser = request[r].browser /\ q.user = request[r].user
        /\ q.authenticated_at = request[r].authenticated_at
    BY <1>1, <1>3 DEF Request
  <2>2. request' = [request EXCEPT ![r] = q]
    BY DEF IInv
  <2> HIDE DEF q
  <2> QED
    BY <2>1, <2>2 DEF IInv
<1>5. step = "spend" =>
         /\ request[r].link <= issued
         /\ \A t \in tokens : t.id = request[r].link => t.context # "session"
  <2> SUFFICES ASSUME NEW t \in tokens, t.id = request[r].link, t.context = "login"
               PROVE  /\ request[r].link <= issued
                      /\ \A x \in tokens : x.id = request[r].link => x = t
    OBVIOUS
  <2> QED
    BY DEF IInv, StoreInv, TokenOK
<1>6. \A x : Confirmed(x) => Confirmed(x)'
  BY DEF Confirmed, accountVars
<1>7. /\ tokens' = tokens /\ issued' = issued /\ DOMAIN users' = DOMAIN users
      /\ step \in {"spend", "login"} => Confirmed(who)
  BY DEF accountVars, Confirmed
<1>8. RequestOK(request[r])'
  BY <1>3, <1>4, <1>5, <1>6, <1>7 DEF RequestOK
<1> QED
  BY <1>2, <1>4, <1>8, RequestStep DEF SessionsKept

LEMMA ReadLinkInv ==
    ASSUME IInv, NEW r \in Requests, ReadLink(r)
    PROVE  IInv'
<1>1. /\ request[r].step = "act" /\ request[r].kind = "link"
      /\ UNCHANGED accountVars /\ UNCHANGED <<browser, live>> /\ UNCHANGED logins
  BY DEF ReadLink, At
<1>2. CASE Refuse(r)
  BY <1>1, <1>2, GoStep
<1>3. ASSUME NEW t \in LoginToken(request[r].link),
             IF users[t.user].confirmed
             THEN request' = [request EXCEPT ![r].who = t.user, ![r].step = "spend"]
             ELSE IF users[t.user].password THEN Raise(r)
             ELSE request' = [request EXCEPT ![r].who = t.user, ![r].step = "confirm"]
      PROVE  IInv'
  <2>1. t \in tokens /\ t.id = request[r].link /\ t.context = "login" /\ t.user \in DOMAIN users
    BY DEF LoginToken, IInv, StoreInv, TokenOK
  <2>2. PICK who \in DOMAIN users : who = t.user
    BY <2>1
  <2>3. CASE users[t.user].confirmed
    BY <1>1, <1>3, <2>1, <2>2, <2>3, WhoStep
  <2>4. CASE ~users[t.user].confirmed /\ users[t.user].password
    BY <2>1, <2>4 DEF IInv, StoreInv
  <2>5. CASE ~users[t.user].confirmed /\ ~users[t.user].password
    BY <1>1, <1>3, <2>1, <2>2, <2>5, WhoStep
  <2> QED
    BY <2>3, <2>4, <2>5
<1> QED
  BY <1>2, <1>3 DEF ReadLink

LEMMA CheckPasswordInv ==
    ASSUME IInv, NEW r \in Requests, CheckPassword(r)
    PROVE  IInv'
<1>1. /\ request[r].step \in {"act", "password"}
      /\ UNCHANGED accountVars /\ UNCHANGED <<browser, live>> /\ UNCHANGED logins
  BY DEF CheckPassword, At
<1>2. CASE Refuse(r)
  BY <1>1, <1>2, GoStep
<1>3. ASSUME NEW u \in DOMAIN users, users[u].password,
             request' = [request EXCEPT ![r].who = u, ![r].step = "login"]
      PROVE  IInv'
  <2>1. users[u].confirmed
    BY <1>3 DEF IInv, StoreInv
  <2> QED
    BY <1>1, <1>3, <2>1, WhoStep
<1> QED
  BY <1>2, <1>3 DEF CheckPassword, WithEmail

\* All tokens of a user are deleted, and their views are to be disconnected.
LEMMA DoomStep ==
    ASSUME IInv, NEW r \in Requests, NEW u \in DOMAIN users, Doom(r, u),
           NEW changed \in User, UpdateAndDeleteTokens(u, changed),
           changed.email = users[u].email, changed.confirmed,
           request[r].step \in {"act", "confirm"},
           request[r].kind = "link" => u = request[r].who,
           UNCHANGED <<scenario, issued, now>>, UNCHANGED <<browser, live>>, UNCHANGED logins
    PROVE  IInv'
<1>1. StoreInv' /\ Grows
  BY UpdateFacts DEF IInv
<1>2. request[r] \in Request /\ RequestOK(request[r]) /\ request[r].browser \in Browsers
  BY RequestType DEF RequestOK
<1>3. PICK ids : ids = {t.id : t \in TokensOf(u)}
  OBVIOUS
<1>4. ids \subseteq TokenIds
  <2>1. ASSUME NEW t \in tokens PROVE t.id \in TokenIds
    BY DEF IInv, StoreInv, StoreTypeOK, Token, TokenIds
  <2> QED
    BY <1>3, <2>1 DEF TokensOf
<1> DEFINE q == [request[r] EXCEPT !.doomed = ids, !.step = "disconnect"]
<1>5. /\ q \in Request /\ q.step = "disconnect" /\ q.doomed = ids
      /\ q.kind = request[r].kind /\ q.who = request[r].who
      /\ q.browser = request[r].browser /\ q.user = request[r].user
      /\ q.authenticated_at = request[r].authenticated_at
  <2>1. "disconnect" \in Steps
    BY DEF Steps
  <2> QED
    BY <1>2, <1>4, <2>1 DEF Request
<1>6. request' = [request EXCEPT ![r] = q]
  BY <1>3 DEF Doom, IInv
<1> HIDE DEF q
<1>7. /\ request' \in [Requests -> Request] /\ request'[r] = q
      /\ \A x \in Requests \ {r} : request'[x] = request[x]
  BY <1>5, <1>6 DEF IInv
<1>8. \A x : Confirmed(x) => Confirmed(x)'
  BY <1>1 DEF Confirmed, Grows
<1>9. Confirmed(u)'
  <2>1. users' = [users EXCEPT ![u] = changed] /\ users \in Seq(User)
    BY DEF UpdateAndDeleteTokens, IInv, StoreInv, StoreTypeOK
  <2> QED
    BY <2>1 DEF Confirmed
<1>10. RequestOK(request[r])'
  BY <1>2, <1>5, <1>7, <1>8, <1>9 DEF RequestOK, Grows
<1>11. \A t \in tokens : t \in tokens' \/ t.id \in ids
  BY <1>3 DEF UpdateAndDeleteTokens, TokensOf
<1> QED
  BY <1>1, <1>5, <1>7, <1>10, <1>11, RequestStep

LEMMA ConfirmUserInv ==
    ASSUME IInv, NEW r \in Requests, ConfirmUser(r)
    PROVE  IInv'
<1>1. request[r].step = "confirm" /\ request[r].who \in DOMAIN users
  BY RequestType DEF ConfirmUser, At, RequestOK
<1>2. PICK u \in DOMAIN users : u = request[r].who
  BY <1>1
<1>3. PICK changed : changed = [users[u] EXCEPT !.confirmed = TRUE]
  OBVIOUS
<1>4. changed \in User /\ changed.email = users[u].email /\ changed.confirmed
  BY <1>3, UserFacts DEF User, IInv
<1>5. /\ UpdateAndDeleteTokens(u, changed) /\ Doom(r, u)
      /\ UNCHANGED <<scenario, issued, now>> /\ UNCHANGED <<browser, live>>
      /\ UNCHANGED logins
  BY <1>2, <1>3 DEF ConfirmUser
<1> QED
  BY <1>1, <1>2, <1>4, <1>5, DoomStep

LEMMA UpdatePasswordInv ==
    ASSUME IInv, NEW r \in Requests, UpdatePassword(r)
    PROVE  IInv'
<1>1. /\ request[r].step = "act" /\ request[r].kind = "update_password"
      /\ UNCHANGED <<scenario, issued, now>> /\ UNCHANGED <<browser, live>>
      /\ UNCHANGED logins
  BY DEF UpdatePassword, At
<1>2. CASE Refuse(r) /\ UNCHANGED <<users, tokens>>
  BY <1>1, <1>2, GoStep DEF accountVars
<1>3. CASE Raise(r) /\ UNCHANGED <<users, tokens>>
  BY <1>1, <1>3, SameStore, RaiseStep DEF accountVars, IInv
<1>4. CASE /\ request[r].user # NoUser
           /\ UpdateAndDeleteTokens(request[r].user,
                [users[request[r].user] EXCEPT !.password = TRUE])
           /\ Doom(r, request[r].user)
  <2>1. Confirmed(request[r].user)
    BY <1>4, RequestType DEF RequestOK
  <2>2. PICK u \in DOMAIN users : u = request[r].user
    BY <2>1 DEF Confirmed
  <2>3. PICK changed : changed = [users[u] EXCEPT !.password = TRUE]
    OBVIOUS
  <2>4. changed \in User /\ changed.email = users[u].email /\ changed.confirmed
    BY <2>1, <2>2, <2>3, UserFacts DEF User, IInv, Confirmed
  <2>5. UpdateAndDeleteTokens(u, changed) /\ Doom(r, u)
    BY <1>4, <2>2, <2>3
  <2> QED
    BY <1>1, <2>4, <2>5, DoomStep
<1> QED
  BY <1>2, <1>3, <1>4 DEF UpdatePassword

LEMMA SpendLinkInv ==
    ASSUME IInv, NEW r \in Requests, SpendLink(r)
    PROVE  IInv'
<1>1. /\ request[r].step = "spend"
      /\ UNCHANGED <<scenario, users, issued, now, logins>> /\ UNCHANGED <<browser, live>>
  BY DEF SpendLink, At
<1>2. /\ RequestOK(request[r]) /\ request[r].browser \in Browsers
      /\ Confirmed(request[r].who)
      /\ \A t \in tokens : t.id = request[r].link => t.context # "session"
  BY <1>1, RequestType DEF RequestOK
<1>3. tokens' \subseteq tokens /\ SessionsKept
  BY <1>2 DEF SpendLink, SessionsKept
<1>4. StoreInv' /\ Grows
  BY <1>1, <1>3, DeleteFacts DEF IInv
<1>5. CASE Raise(r)
  BY <1>1, <1>3, <1>4, <1>5, RaiseStep
<1>6. CASE Go(r, "login")
  <2>1. "login" \in Steps
    BY DEF Steps
  <2>2. RequestOK(request[r])'
    BY <1>1, <1>2, <1>6, <2>1, GoType DEF RequestOK, Confirmed
  <2> QED
    BY <1>1, <1>3, <1>4, <1>6, <2>1, <2>2, GoType, RequestStep DEF SessionsKept
<1> QED
  BY <1>5, <1>6 DEF SpendLink

LEMMA DeleteSessionInv ==
    ASSUME IInv, NEW r \in Requests, DeleteSession(r)
    PROVE  IInv'
<1>1. /\ request[r].step = "act" /\ request[r].kind = "logout"
      /\ tokens' = {t \in tokens : t.id # request[r].token \/ t.context # "session"}
      /\ Go(r, "broadcast")
      /\ UNCHANGED <<scenario, users, issued, now, logins>> /\ UNCHANGED <<browser, live>>
  BY DEF DeleteSession, At
<1>2. StoreInv' /\ Grows
  BY <1>1, DeleteFacts DEF IInv
<1>3. RequestOK(request[r]) /\ request[r].browser \in Browsers
  BY <1>1, RequestType DEF RequestOK
<1>4. "broadcast" \in Steps
  BY DEF Steps
<1>5. RequestOK(request[r])'
  BY <1>1, <1>3, <1>4, GoType DEF RequestOK, Confirmed
<1> QED
  BY <1>1, <1>2, <1>4, <1>5, GoType, RequestStep

-----------------------------------------------------------------------------
\* Disconnecting, and the response.

LEMMA ClosedType ==
    /\ Closed \in View /\ LiveOK(Closed) /\ Closed.user = NoUser
    /\ Closed.step = "closed" /\ Closed.topic = NoToken
  BY DEF Closed, View, LiveOK, NoToken, NoUser, NoEmail, TokenIds

\* Every view a request has promised to disconnect is closed.
LEMMA DisconnectStep ==
    ASSUME IInv, NEW r \in Requests, UNCHANGED accountVars, UNCHANGED <<browser, logins>>,
           request' \in [Requests -> Request],
           \A x \in Requests \ {r} : request'[x] = request[x],
           RequestOK(request[r])',
           live' \in [Views -> View],
           \A l \in Views : live'[l] = live[l] \/ live'[l] = Closed,
           \A l \in Views :
              live[l].topic # NoToken /\ \/ request[r].step = "disconnect"
                                            /\ live[l].topic \in request[r].doomed
                                         \/ request[r].step = "broadcast"
                                            /\ live[l].topic = request[r].token
              => live'[l] = Closed
    PROVE  IInv'
<1>1. StoreInv' /\ Grows /\ SessionsKept
  BY SameStore DEF IInv
<1>2. \A x \in Requests : RequestOK(request[x])'
  <2> SUFFICES ASSUME NEW x \in Requests, x # r PROVE RequestOK(request[x])'
    OBVIOUS
  <2>1. PICK q \in Request : q = request[x]
    BY DEF IInv
  <2>2. RequestOK(q)'
    BY <1>1, <2>1, RequestFrame DEF IInv
  <2>3. request'[x] = q
    BY <2>1
  <2> QED
    BY <2>2, <2>3 DEF RequestOK
<1>3. ASSUME NEW l \in Views PROVE LiveOK(live[l])'
  BY <1>1, ClosedType DEF IInv, LiveOK, Grows
<1>4. ASSUME NEW l \in Views, live'[l].user # NoUser
      PROVE  \/ \E t \in tokens' : t.id = live'[l].topic /\ t.context = "session"
             \/ AboutToDisconnect(live[l].topic)'
  <2>1. live'[l] = live[l] /\ live[l].user # NoUser /\ live'[l] # Closed
    BY <1>4, ClosedType
  <2>2. live[l].topic # NoToken
    BY <2>1 DEF IInv, LiveOK
  <2>3. CASE \E t \in tokens : t.id = live[l].topic /\ t.context = "session"
    BY <1>1, <2>1, <2>3 DEF SessionsKept
  <2>4. CASE AboutToDisconnect(live[l].topic)
    <3>1. PICK x \in Requests :
             \/ request[x].step = "disconnect" /\ live[l].topic \in request[x].doomed
             \/ request[x].step = "broadcast" /\ live[l].topic = request[x].token
      BY <2>4 DEF AboutToDisconnect, At
    <3>2. x # r
      BY <2>1, <2>2, <3>1
    <3>3. request'[x] = request[x]
      BY <3>2
    <3> QED
      BY <2>1, <3>1, <3>3 DEF AboutToDisconnect, At
  <2> QED
    BY <2>1, <2>3, <2>4 DEF IInv, ViewsBacked
<1>5. ViewsBacked'
  BY <1>4 DEF ViewsBacked
<1>6. BrowserOK'
  BY DEF IInv, BrowserOK
<1> QED
  BY <1>1, <1>2, <1>3, <1>5, <1>6 DEF IInv

LEMMA DisconnectInv ==
    ASSUME IInv, NEW r \in Requests, Disconnect(r)
    PROVE  IInv'
<1>1. PICK step \in {"login", "password"} :
         /\ request[r].step = "disconnect" /\ live' = Disconnected(request[r].doomed)
         /\ Go(r, step) /\ UNCHANGED accountVars /\ UNCHANGED <<browser, logins>>
         /\ step = "login" => request[r].kind = "link"
  BY DEF Disconnect, At
<1>2. RequestOK(request[r]) /\ request[r].browser \in Browsers
  BY <1>1, RequestType DEF RequestOK
<1>3. step \in Steps
  BY DEF Steps
<1>4. RequestOK(request[r])'
  BY <1>1, <1>2, <1>3, GoType DEF RequestOK, Confirmed, accountVars
<1>5. /\ live' \in [Views -> View]
      /\ \A l \in Views : live'[l] = IF live[l].topic \in request[r].doomed
                                     THEN Closed ELSE live[l]
  BY <1>1, ClosedType DEF Disconnected, IInv
<1> QED
  BY <1>1, <1>3, <1>4, <1>5, GoType, DisconnectStep

LEMMA BroadcastInv ==
    ASSUME IInv, NEW r \in Requests, Broadcast(r)
    PROVE  IInv'
<1>1. /\ request[r].step = "broadcast"
      /\ live' = IF request[r].token = NoToken THEN live ELSE Disconnected({request[r].token})
      /\ UNCHANGED accountVars /\ UNCHANGED <<browser, logins>>
  BY DEF Broadcast, At
<1> DEFINE q == [request[r] EXCEPT !.token = NoToken, !.remember = FALSE, !.cookie = NoToken,
                                   !.wrote = TRUE, !.wrote_cookie = TRUE, !.step = "respond"]
<1>2. request[r] \in Request /\ RequestOK(request[r]) /\ request[r].browser \in Browsers
  BY <1>1, RequestType DEF RequestOK
<1>3. /\ q \in Request /\ q.step = "respond" /\ q.browser = request[r].browser
      /\ q.user = request[r].user /\ q.authenticated_at = request[r].authenticated_at
  <2>1. NoToken \in TokenIds /\ "respond" \in Steps
    BY DEF NoToken, TokenIds, Steps
  <2> QED
    BY <1>2, <2>1 DEF Request
<1>4. request' = [request EXCEPT ![r] = q]
  BY DEF Broadcast
<1> HIDE DEF q
<1>5. /\ request' \in [Requests -> Request] /\ request'[r] = q
      /\ \A x \in Requests \ {r} : request'[x] = request[x]
  BY <1>3, <1>4 DEF IInv
<1>6. RequestOK(request[r])'
  BY <1>1, <1>2, <1>3, <1>5 DEF RequestOK, Confirmed, accountVars
<1>7. /\ live' \in [Views -> View]
      /\ \A l \in Views :
            live'[l] = IF request[r].token # NoToken /\ live[l].topic = request[r].token
                       THEN Closed ELSE live[l]
  BY <1>1, ClosedType DEF Disconnected, IInv
<1> QED
  BY <1>1, <1>5, <1>6, <1>7, DisconnectStep

\* What a browser keeps has no part in the other invariants.
LEMMA RespondInv ==
    ASSUME IInv, NEW r \in Requests, Respond(r)
    PROVE  IInv'
<1>1. /\ request[r].step = "respond" /\ request' = [request EXCEPT ![r] = Free]
      /\ UNCHANGED accountVars /\ UNCHANGED <<live, logins>>
  BY DEF Respond, At
<1>2. RequestOK(Free)'
  <2>1. Free.step = "free" /\ Free.user = NoUser
    BY DEF Free
  <2> QED
    BY <2>1 DEF RequestOK
<1>3. /\ request' \in [Requests -> Request] /\ request'[r] = Free
      /\ \A x \in Requests \ {r} : request'[x] = request[x]
  BY <1>1, FreeType DEF IInv
<1>4. RequestOK(request[r])'
  BY <1>2, <1>3 DEF RequestOK
<1>5. BrowserOK'
  <2> DEFINE b == request[r].browser
             token == IF request[r].wrote THEN request[r].token ELSE browser[b].token
             remember == IF request[r].wrote THEN request[r].remember ELSE browser[b].remember
             cookie == IF request[r].wrote_cookie THEN request[r].cookie ELSE browser[b].cookie
             B == [token : TokenIds, remember : BOOLEAN, cookie : TokenIds]
  <2>1. b \in Browsers /\ browser \in [Browsers -> B] /\ browser[b] \in B
    BY <1>1, RequestType DEF RequestOK, IInv, BrowserOK
  <2>2. token \in TokenIds /\ remember \in BOOLEAN /\ cookie \in TokenIds
    BY <2>1, RequestType
  <2>3. browser' = [browser EXCEPT ![b] =
                      [@ EXCEPT !.token = token, !.remember = remember, !.cookie = cookie]]
    BY <2>1 DEF Respond
  <2> HIDE DEF token, remember, cookie, b
  <2>4. [browser[b] EXCEPT !.token = token, !.remember = remember, !.cookie = cookie] \in B
    BY <2>1, <2>2
  <2> QED
    BY <2>1, <2>3, <2>4 DEF BrowserOK
<1>6. StoreInv' /\ Grows /\ SessionsKept
  BY <1>1, SameStore DEF IInv
<1> QED
  BY <1>1, <1>3, <1>4, <1>5, <1>6, RequestMoves DEF SessionsKept

-----------------------------------------------------------------------------
\* Time passes, and browsers are closed.

LEMMA QuietStep ==
    ASSUME IInv, StoreInv', Grows, SessionsKept, BrowserOK', UNCHANGED <<request, live>>
    PROVE  IInv'
<1>1. ASSUME NEW x \in Requests PROVE RequestOK(request[x])'
  <2>1. PICK q \in Request : q = request[x]
    BY DEF IInv
  <2>2. RequestOK(q)'
    BY <2>1, RequestFrame DEF IInv
  <2> QED
    BY <2>1, <2>2 DEF RequestOK
<1>2. ASSUME NEW l \in Views PROVE LiveOK(live[l])'
  BY DEF IInv, LiveOK, Grows
<1>3. \A topic : AboutToDisconnect(topic) => AboutToDisconnect(topic)'
  BY DEF AboutToDisconnect, At
<1>4. ViewsBacked'
  BY <1>3 DEF IInv, ViewsBacked, SessionsKept
<1> QED
  BY <1>1, <1>2, <1>4 DEF IInv

LEMMA TickInv ==
    ASSUME IInv, Tick, UNCHANGED authVars
    PROVE  IInv'
<1>1. StoreInv' /\ Grows /\ SessionsKept
  BY TickFacts DEF IInv, Tick, authVars, SessionsKept
<1>2. BrowserOK'
  BY DEF IInv, BrowserOK, authVars
<1> QED
  BY <1>1, <1>2, QuietStep DEF authVars

LEMMA RestartInv ==
    ASSUME IInv, NEW b \in Browsers, Restart(b)
    PROVE  IInv'
<1>1. StoreInv' /\ Grows /\ SessionsKept
  BY SameStore DEF IInv, Restart
<1>2. BrowserOK'
  <2> DEFINE B == [token : TokenIds, remember : BOOLEAN, cookie : TokenIds]
             p == [browser[b] EXCEPT !.token = NoToken, !.remember = FALSE]
  <2>1. browser \in [Browsers -> B] /\ browser[b] \in B /\ NoToken \in TokenIds
    BY DEF IInv, BrowserOK, NoToken, TokenIds
  <2>2. p \in B
    BY <2>1
  <2>3. browser' = [browser EXCEPT ![b] = p]
    BY <2>1 DEF Restart
  <2> HIDE DEF p
  <2> QED
    BY <2>1, <2>2, <2>3 DEF BrowserOK
<1> QED
  BY <1>1, <1>2, QuietStep DEF Restart

-----------------------------------------------------------------------------
\* The steps of a view.

LEMMA ViewType ==
    ASSUME IInv, NEW l \in Views
    PROVE  /\ live[l] \in View /\ LiveOK(live[l])
           /\ live[l].topic \in TokenIds /\ live[l].user \in 0..MaxUsers
           /\ live[l].email \in Emails \cup {NoEmail}
           /\ live[l].wants \in Emails \cup {NoEmail}
           /\ live[l].first \in BOOLEAN
<1>1. live[l] \in View /\ LiveOK(live[l])
  BY DEF IInv
<1> QED
  BY <1>1 DEF View

\* A view whose place another one takes, or that goes to another step.
LEMMA ViewMoves ==
    ASSUME IInv, StoreInv', Grows, SessionsKept, NEW l \in Views,
           UNCHANGED <<browser, request>>,
           NEW v \in View, live' = [live EXCEPT ![l] = v],
           v.step \in {"counted", "changing"} => v.wants \in Emails,
           v.step = "changing" => v.user # NoUser,
           \/ v.user = NoUser
           \/ v.user = live[l].user /\ v.topic = live[l].topic
           \/ /\ v.user \in DOMAIN users
              /\ \E t \in tokens : t.id = v.topic /\ t.context = "session"
    PROVE  IInv'
<1>1. /\ live' \in [Views -> View] /\ live'[l] = v
      /\ \A x \in Views \ {l} : live'[x] = live[x]
  BY DEF IInv
<1>2. LiveOK(live[l])
  BY DEF IInv
<1>3. \A t \in tokens : t.id # NoToken
  <2> SUFFICES ASSUME NEW t \in tokens PROVE t.id # NoToken
    OBVIOUS
  <2> QED
    BY DEF IInv, StoreInv, StoreTypeOK, Token, NoToken
<1>4. LiveOK(v)'
  BY <1>2, <1>3 DEF LiveOK, Grows
<1>5. LiveOK(live[l])'
  BY <1>1, <1>4 DEF LiveOK
<1> QED
  BY <1>1, <1>5, LiveStep DEF SessionsKept

LEMMA BecomeType ==
    ASSUME IInv, NEW l \in Views,
           NEW step \in {"joined", "mounted", "registered"}, Become(l, step)
    PROVE  \E v \in View :
             /\ live' = [live EXCEPT ![l] = v] /\ v.step = step
             /\ v.user = live[l].user /\ v.topic = live[l].topic
<1> DEFINE v == [live[l] EXCEPT !.step = step]
<1>1. v \in View /\ v.step = step /\ v.user = live[l].user /\ v.topic = live[l].topic
  BY ViewType DEF View
<1>2. live' = [live EXCEPT ![l] = v]
  BY DEF Become
<1> QED
  BY <1>1, <1>2

LEMMA BecomeStep ==
    ASSUME IInv, StoreInv', Grows, SessionsKept, NEW l \in Views,
           NEW step \in {"joined", "mounted", "registered"}, Become(l, step),
           UNCHANGED <<browser, request>>
    PROVE  IInv'
<1>1. PICK v \in View :
         /\ live' = [live EXCEPT ![l] = v] /\ v.step = step
         /\ v.user = live[l].user /\ v.topic = live[l].topic
  BY BecomeType
<1> QED
  BY <1>1, ViewMoves

\* A view of nobody, yet: Open, Leave, Remount.
LEMMA NobodyStep ==
    ASSUME IInv, StoreInv', Grows, SessionsKept, NEW l \in Views,
           NEW topic \in TokenIds, NEW step \in {"joined", "closed"},
           live' = [live EXCEPT ![l] = [Closed EXCEPT !.step = step, !.topic = topic]],
           UNCHANGED <<browser, request>>
    PROVE  IInv'
<1>1. PICK v : v = [Closed EXCEPT !.step = step, !.topic = topic]
  OBVIOUS
<1>2. v \in View /\ v.step = step /\ v.user = NoUser
  BY <1>1, ClosedType DEF View
<1>3. live' = [live EXCEPT ![l] = v]
  BY <1>1
<1> QED
  BY <1>2, <1>3, ViewMoves

LEMMA OpenInv ==
    ASSUME IInv, NEW l \in Views, NEW b \in Browsers, Open(l, b)
    PROVE  IInv'
<1>1. StoreInv' /\ Grows /\ SessionsKept
  BY SameStore DEF IInv, Open
<1>2. PICK topic \in TokenIds : topic = browser[b].token
  BY DEF IInv, BrowserOK
<1>3. live' = [live EXCEPT ![l] = [Closed EXCEPT !.step = "joined", !.topic = topic]]
  BY <1>2 DEF Open
<1> QED
  BY <1>1, <1>3, NobodyStep DEF Open

LEMMA RemountStep ==
    ASSUME IInv, StoreInv', Grows, SessionsKept, NEW l \in Views, Remount(l),
           UNCHANGED <<browser, request>>
    PROVE  IInv'
<1>1. PICK topic \in TokenIds : topic = live[l].topic
  BY ViewType
<1>2. live' = [live EXCEPT ![l] = [Closed EXCEPT !.step = "joined", !.topic = topic]]
  BY <1>1 DEF Remount
<1> QED
  BY <1>2, NobodyStep

LEMMA LeaveInv ==
    ASSUME IInv, NEW l \in Views, Leave(l)
    PROVE  IInv'
<1>1. StoreInv' /\ Grows /\ SessionsKept
  BY SameStore DEF IInv, Leave
<1> QED
  BY <1>1, ClosedType, ViewMoves DEF Leave

LEMMA MountInv ==
    ASSUME IInv, NEW l \in Views, Mount(l)
    PROVE  IInv'
<1>1. /\ UNCHANGED <<browser, request>> /\ StoreInv' /\ Grows /\ SessionsKept
  BY SameStore DEF IInv, Mount
<1>2. CASE Become(l, "mounted")
  BY <1>1, <1>2, BecomeStep
<1>3. ASSUME NEW t \in SessionToken(live[l].topic),
             live' = [live EXCEPT ![l] = [@ EXCEPT !.step = "mounted", !.user = t.user,
                             !.email = users[t.user].email,
                             !.authenticated_at = t.authenticated_at]]
      PROVE  IInv'
  <2>1. /\ t \in tokens /\ t \in Token /\ t.id = live[l].topic /\ t.context = "session"
        /\ t.user \in DOMAIN users
    BY <1>3 DEF SessionToken, IInv, StoreInv, StoreTypeOK, TokenOK
  <2>2. t.user \in 0..MaxUsers /\ t.authenticated_at \in 0..MaxTime
    BY <2>1 DEF Token
  <2>3. PICK email \in Emails : email = users[t.user].email
    BY <2>1, UserFacts DEF IInv, User
  <2>4. PICK v : v = [live[l] EXCEPT !.step = "mounted", !.user = t.user, !.email = email,
                                     !.authenticated_at = t.authenticated_at]
    OBVIOUS
  <2>5. /\ v \in View /\ v.step = "mounted" /\ v.user = t.user /\ v.topic = live[l].topic
    BY <2>2, <2>4, ViewType DEF View
  <2>6. live' = [live EXCEPT ![l] = v]
    BY <1>3, <2>3, <2>4
  <2> QED
    BY <1>1, <2>1, <2>5, <2>6, ViewMoves
<1> QED
  BY <1>2, <1>3 DEF Mount

LEMMA RegisterCountInv ==
    ASSUME IInv, NEW l \in Views, NEW email \in Emails, RegisterCount(l, email)
    PROVE  IInv'
<1>1. /\ UNCHANGED <<browser, request>> /\ StoreInv' /\ Grows /\ SessionsKept
  BY SameStore DEF IInv, RegisterCount
<1>2. PICK first \in BOOLEAN : first = (users = <<>>)
  OBVIOUS
<1>3. PICK v : v = [live[l] EXCEPT !.step = "counted", !.wants = email, !.first = first]
  OBVIOUS
<1>4. /\ v \in View /\ v.step = "counted" /\ v.wants = email
      /\ v.user = live[l].user /\ v.topic = live[l].topic
  BY <1>3, ViewType DEF View
<1>5. live' = [live EXCEPT ![l] = v]
  BY <1>2, <1>3 DEF RegisterCount
<1> QED
  BY <1>1, <1>4, <1>5, ViewMoves

LEMMA RegisterInsertInv ==
    ASSUME IInv, NEW l \in Views, RegisterInsert(l)
    PROVE  IInv'
<1>1. /\ live[l].step = "counted" /\ UNCHANGED <<browser, request>>
      /\ UNCHANGED <<scenario, tokens, issued, now, logins>> /\ SessionsKept
  BY DEF RegisterInsert, SessionsKept
<1>2. CASE Become(l, "mounted") /\ UNCHANGED users
  <2>1. StoreInv' /\ Grows
    BY <1>1, <1>2, DeleteFacts DEF IInv
  <2> QED
    BY <1>1, <1>2, <2>1, BecomeStep
<1>3. CASE /\ WithEmail(live[l].wants) = {} /\ Len(users) < MaxUsers
           /\ users' = Append(users, [email |-> live[l].wants, is_admin |-> live[l].first,
                                      confirmed |-> FALSE, password |-> FALSE])
           /\ Become(l, "registered")
  <2>1. PICK email \in Emails, first \in BOOLEAN :
           email = live[l].wants /\ first = live[l].first
    BY <1>1, ViewType DEF LiveOK
  <2>2. StoreInv' /\ Grows
    BY <1>1, <1>3, <2>1, RegisterFacts DEF IInv
  <2> QED
    BY <1>1, <1>3, <2>2, BecomeStep
<1> QED
  BY <1>2, <1>3 DEF RegisterInsert

LEMMA SendLinkInv ==
    ASSUME IInv, NEW l \in Views, NEW u \in DOMAIN users, IssueLogin(u), Remount(l),
           UNCHANGED <<scenario, users, now, browser, request, logins>>
    PROVE  IInv'
<1>1. PICK sent_to \in Emails : sent_to = users[u].email
  BY UserFacts DEF IInv, User
<1>2. Issue(u, "login", NoEmail, sent_to, 0) /\ 0 \in 0..MaxTime
  BY <1>1 DEF IssueLogin
<1>3. logins' \subseteq (1..MaxUsers) \X (0..MaxTime) /\ logins \subseteq logins'
  BY DEF IInv, StoreInv, StoreTypeOK
<1>4. StoreInv' /\ Grows /\ SessionsKept
  BY <1>2, <1>3, IssueFacts DEF IInv
<1> QED
  BY <1>4, RemountStep

LEMMA RequestEmailChangeInv ==
    ASSUME IInv, NEW l \in Views, NEW email \in Emails, RequestEmailChange(l, email)
    PROVE  IInv'
<1>1. PICK from \in Emails \cup {NoEmail}, u \in DOMAIN users :
         from = live[l].email /\ u = live[l].user
  BY ViewType DEF RequestEmailChange, Sudo, LiveOK
<1>2. /\ Issue(u, "change", from, email, 0) /\ 0 \in 0..MaxTime
      /\ UNCHANGED <<scenario, users, now, browser, request, live, logins>>
  BY <1>1 DEF RequestEmailChange, IssueChange
<1>3. logins' \subseteq (1..MaxUsers) \X (0..MaxTime) /\ logins \subseteq logins'
  BY <1>2 DEF IInv, StoreInv, StoreTypeOK
<1>4. StoreInv' /\ Grows /\ SessionsKept
  BY <1>2, <1>3, IssueFacts DEF IInv
<1>5. BrowserOK'
  BY <1>2 DEF IInv, BrowserOK
<1> QED
  BY <1>2, <1>4, <1>5, QuietStep

LEMMA ReadChangeInv ==
    ASSUME IInv, NEW l \in Views, NEW id, ReadChange(l, id)
    PROVE  IInv'
<1>1. /\ live[l].user # NoUser
      /\ UNCHANGED <<browser, request>> /\ StoreInv' /\ Grows /\ SessionsKept
  BY SameStore DEF IInv, ReadChange
<1>2. PICK t \in ChangeToken(id, live[l].email) :
         live' = [live EXCEPT ![l].step = "changing", ![l].wants = t.sent_to]
  BY DEF ReadChange
<1>3. PICK wants \in Emails : wants = t.sent_to
  BY <1>2 DEF ChangeToken, IInv, StoreInv, TokenOK
<1>4. PICK v : v = [live[l] EXCEPT !.step = "changing", !.wants = wants]
  OBVIOUS
<1>5. /\ v \in View /\ v.step = "changing" /\ v.wants = wants
      /\ v.user = live[l].user /\ v.topic = live[l].topic
  BY <1>4, ViewType DEF View
<1>6. live' = [live EXCEPT ![l] = v]
  BY <1>2, <1>3, <1>4 DEF IInv
<1> QED
  BY <1>1, <1>5, <1>6, ViewMoves

LEMMA ApplyChangeInv ==
    ASSUME IInv, NEW l \in Views, ApplyChange(l)
    PROVE  IInv'
<1>1. /\ live[l].step = "changing" /\ Remount(l) /\ UNCHANGED <<browser, request>>
      /\ UNCHANGED <<scenario, issued, now, logins>>
  BY DEF ApplyChange
<1>2. PICK u \in DOMAIN users, email \in Emails : u = live[l].user /\ email = live[l].wants
  BY <1>1, ViewType DEF LiveOK
<1>3. CASE UNCHANGED <<users, tokens>>
  BY <1>1, <1>3, DeleteFacts, RemountStep DEF IInv, SessionsKept
<1>4. CASE /\ WithEmail(email) \ {u} = {}
           /\ users' = [users EXCEPT ![u].email = email]
           /\ tokens' = {t \in tokens : ~(/\ t.user = u /\ t.context = "change"
                                          /\ t.from = live[l].email)}
  <2>1. StoreInv' /\ Grows
    BY <1>1, <1>4, ChangeEmailFacts DEF IInv
  <2>2. SessionsKept
    BY <1>4 DEF SessionsKept
  <2> QED
    BY <1>1, <2>1, <2>2, RemountStep
<1> QED
  BY <1>2, <1>3, <1>4 DEF ApplyChange

-----------------------------------------------------------------------------
\* The theorems.

LEMMA InitIInv == Init => IInv
<1> SUFFICES ASSUME Init PROVE IInv
  OBVIOUS
<1> USE DEF Init, AccountsInit, AuthInit
<1>1. StoreInv
  <2>1. users \in Seq(User) /\ Len(users) <= MaxUsers
    BY DEF User
  <2>2. /\ \A u, w \in DOMAIN users : users[u].email = users[w].email => u = w
        /\ \A u \in DOMAIN users : users[u].password => users[u].confirmed
    OBVIOUS
  <2> QED
    BY <2>1, <2>2 DEF StoreInv, StoreTypeOK, UniqueEmails
<1>2. BrowserOK
  BY DEF BrowserOK, NoToken, TokenIds
<1>3. \A r \in Requests : request[r] = Free
  OBVIOUS
<1>4. \A l \in Views : live[l] = Closed
  OBVIOUS
<1>5. ViewsBacked
  BY <1>4, ClosedType DEF ViewsBacked
<1> QED
  BY <1>1, <1>2, <1>3, <1>4, <1>5, FreeType, ClosedType DEF IInv

LEMMA ServeInv ==
    ASSUME IInv, NEW r \in Requests, Serve(r)
    PROVE  IInv'
  BY BeginInv, FetchScopeInv, ReissueInv, PageInv, ReadLinkInv, ConfirmUserInv,
     SpendLinkInv, DisconnectInv, CheckPasswordInv, UpdatePasswordInv, LogInInv,
     DeleteSessionInv, BroadcastInv, RespondInv, FailInv DEF Serve

LEMMA HandleInv ==
    ASSUME IInv, NEW l \in Views, Handle(l)
    PROVE  IInv'
<1>1. scenario.emails \subseteq Emails
  BY DEF IInv, StoreInv, StoreTypeOK
<1>2. ASSUME NEW b \in Browsers, Open(l, b) PROVE IInv'
  BY <1>2, OpenInv
<1>3. ASSUME NEW email \in scenario.emails,
             \/ RegisterCount(l, email) \/ RequestEmailChange(l, email)
      PROVE  IInv'
  BY <1>1, <1>3, RegisterCountInv, RequestEmailChangeInv
<1>4. ASSUME NEW email, RequestLink(l, email) PROVE IInv'
  BY <1>4, SendLinkInv DEF RequestLink, WithEmail
<1>5. CASE DeliverFirst(l)
  BY <1>5, SendLinkInv DEF DeliverFirst, WithEmail
<1>6. ASSUME NEW id, ReadChange(l, id) PROVE IInv'
  BY <1>6, ReadChangeInv
<1>7. CASE Mount(l) \/ Leave(l) \/ RegisterInsert(l) \/ ApplyChange(l)
  BY <1>7, MountInv, LeaveInv, RegisterInsertInv, ApplyChangeInv
<1> QED
  BY <1>2, <1>3, <1>4, <1>5, <1>6, <1>7 DEF Handle

LEMMA NextIInv == IInv /\ [Next]_vars => IInv'
<1> SUFFICES ASSUME IInv, [Next]_vars PROVE IInv'
  OBVIOUS
<1>1. scenario.requests \subseteq Requests /\ scenario.views \subseteq Views
  BY DEF IInv, StoreInv, StoreTypeOK
<1>2. ASSUME NEW r \in scenario.requests, Serve(r) PROVE IInv'
  BY <1>1, <1>2, ServeInv
<1>3. ASSUME NEW l \in scenario.views, Handle(l) PROVE IInv'
  BY <1>1, <1>3, HandleInv
<1>4. ASSUME NEW b \in Browsers, Restart(b) PROVE IInv'
  BY <1>4, RestartInv
<1>5. CASE Tick /\ UNCHANGED authVars
  BY <1>5, TickInv
<1>6. CASE UNCHANGED vars
  <2>1. UNCHANGED accountVars /\ UNCHANGED <<browser, request, live, logins>>
    BY <1>6 DEF vars, authVars
  <2>2. StoreInv' /\ Grows /\ SessionsKept /\ BrowserOK'
    BY <2>1, SameStore DEF IInv, BrowserOK
  <2> QED
    BY <2>1, <2>2, QuietStep
<1> QED
  BY <1>2, <1>3, <1>4, <1>5, <1>6 DEF Next

THEOREM Invariance == Spec => []IInv
  BY InitIInv, NextIInv, PTL DEF Spec

\* The tables keep their shape and every email is one user's, however many
\* registrations and changes of email run at the same time.
THEOREM TablesOKAlways == Spec => []TablesOK
<1>1. IInv => TablesOK
  BY DEF IInv, StoreInv, StoreTypeOK, BrowserOK, TablesOK, TypeOK
<1> QED
  BY <1>1, Invariance, PTL

\* Sessions and passwords belong to confirmed users, whatever was done between
\* the reading of a link or a password and the log in.
THEOREM ConfirmedFirstAlways == Spec => []ConfirmedFirst
<1>1. IInv => ConfirmedFirst
  BY DEF IInv, StoreInv, TokenOK, Confirmed, ConfirmedFirst
<1> QED
  BY <1>1, Invariance, PTL

\* A session counts as authenticated when its user gave credentials, however
\* often it was reissued or restored.
THEOREM SudoEarnedAlways == Spec => []SudoEarned
<1>1. IInv => SudoEarned
  BY DEF IInv, StoreInv, TokenOK, SudoEarned
<1> QED
  BY <1>1, Invariance, PTL

\* No view outlives the session it was mounted for, unless it is about to be
\* disconnected, for any number of requests and views.
THEOREM ViewsBackedAlways == Spec => []ViewsBacked
<1>1. IInv => ViewsBacked
  BY DEF IInv
<1> QED
  BY <1>1, Invariance, PTL

=============================================================================
