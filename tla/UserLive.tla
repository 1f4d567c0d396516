------------------------------ MODULE UserLive ------------------------------
(***************************************************************************)
(* The LiveViews of VideoSuggestionWeb.UserLive, beside the requests of    *)
(* UserAuth.  A view keeps the scope it was mounted with until it is left, *)
(* disconnected or mounted again.                                          *)
(***************************************************************************)
EXTENDS UserAuth

vars == <<accountVars, authVars>>

View == [step : {"closed", "joined", "mounted", "counted", "registered", "changing"},
         topic : TokenIds, user : 0..MaxUsers, email : Emails \cup {NoEmail},
         authenticated_at : 0..MaxTime, wants : Emails \cup {NoEmail}, first : BOOLEAN]

Init == AccountsInit /\ AuthInit

Become(l, step) == live' = [live EXCEPT ![l].step = step]

\* The socket joins, and listens on the live_socket_id of its session.
Open(l, b) ==
    /\ live[l].step = "closed"
    /\ live' = [live EXCEPT ![l] = [Closed EXCEPT !.step = "joined", !.topic = browser[b].token]]
    /\ UNCHANGED <<accountVars, browser, request, logins>>

\* mount_current_scope
Mount(l) ==
    /\ live[l].step = "joined"
    /\ LET found == SessionToken(live[l].topic)
       IN  IF found = {} THEN Become(l, "mounted")
           ELSE \E t \in found :
                  live' = [live EXCEPT ![l] = [@ EXCEPT !.step = "mounted", !.user = t.user,
                             !.email = users[t.user].email,
                             !.authenticated_at = t.authenticated_at]]
    /\ UNCHANGED <<accountVars, browser, request, logins>>

\* push_navigate: another view takes its place, for the same session.
Remount(l) ==
    live' = [live EXCEPT ![l] = [Closed EXCEPT !.step = "joined", !.topic = live[l].topic]]

\* The view is left, or its process ends in the middle of an event.
Leave(l) ==
    /\ live[l].step \notin {"closed", "joined"}
    /\ live' = [live EXCEPT ![l] = Closed]
    /\ UNCHANGED <<accountVars, browser, request, logins>>

-----------------------------------------------------------------------------
\* Registration.

\* register_user: the email is free, and there may be no user yet.
RegisterCount(l, email) ==
    /\ live[l].step = "mounted"
    /\ live[l].user = NoUser
    /\ WithEmail(email) = {}
    /\ Len(users) < MaxUsers
    /\ live' = [live EXCEPT ![l].step = "counted", ![l].wants = email,
                            ![l].first = users = <<>>]
    /\ UNCHANGED <<accountVars, browser, request, logins>>

\* (mutated) Without the unique index; the email was free before.
InsertUnchecked(l) ==
    /\ live[l].step = "counted"
    /\ Len(users) < MaxUsers
    /\ users' = Append(users, [email |-> live[l].wants, is_admin |-> live[l].first,
                               confirmed |-> FALSE, password |-> FALSE])
    /\ Become(l, "registered")
    /\ UNCHANGED <<scenario, tokens, issued, now, browser, request, logins>>

\* The insert, which the unique index on the email may refuse.
RegisterInsert(l) ==
    /\ live[l].step = "counted"
    /\ IF WithEmail(live[l].wants) # {}
       THEN Become(l, "mounted") /\ UNCHANGED users
       ELSE /\ Len(users) < MaxUsers
            /\ users' = Append(users, [email |-> live[l].wants, is_admin |-> live[l].first,
                                       confirmed |-> FALSE, password |-> FALSE])
            /\ Become(l, "registered")
    /\ UNCHANGED <<scenario, tokens, issued, now, browser, request, logins>>

\* The first link, and the log-in page.
DeliverFirst(l) ==
    /\ live[l].step = "registered"
    /\ \E u \in WithEmail(live[l].wants) : IssueLogin(u)
    /\ Remount(l)
    /\ UNCHANGED <<scenario, users, now, browser, request, logins>>

-----------------------------------------------------------------------------
\* The log-in and settings pages.

\* submit_magic.  (A link whose user changes the email while it is made is like
\* one made before.)
RequestLink(l, email) ==
    /\ live[l].step = "mounted"
    /\ \E u \in WithEmail(email) : IssueLogin(u)
    /\ Remount(l)
    /\ UNCHANGED <<scenario, users, now, browser, request, logins>>

Sudo(l) == live[l].user # NoUser /\ now - live[l].authenticated_at < SudoAge

\* update_email; the scope's email is the one the view was mounted with.
RequestEmailChange(l, email) ==
    /\ live[l].step = "mounted"
    /\ Sudo(l)
    /\ email # live[l].email
    /\ WithEmail(email) = {}
    /\ IssueChange(live[l].user, live[l].email, email)
    /\ UNCHANGED <<scenario, users, now, browser, request, live, logins>>

\* The link in the mail is opened: update_user_email looks its token up.
ReadChange(l, id) ==
    /\ live[l].step = "mounted"
    /\ live[l].user # NoUser
    /\ \E t \in ChangeToken(id, live[l].email) :
         live' = [live EXCEPT ![l].step = "changing", ![l].wants = t.sent_to]
    /\ UNCHANGED <<accountVars, browser, request, logins>>

\* The rest of its transaction; afterwards the page is mounted again.
ApplyChange(l) ==
    /\ live[l].step = "changing"
    /\ LET user == live[l].user
           email == live[l].wants
           others == WithEmail(email) \ {user}
       IN  IF others # {} \/ email = live[l].email
           THEN UNCHANGED <<users, tokens>>
           ELSE /\ users' = [users EXCEPT ![user].email = email]
                /\ tokens' = {t \in tokens : ~(/\ t.user = user /\ t.context = "change"
                                               /\ t.from = live[l].email)}
    /\ Remount(l)
    /\ UNCHANGED <<scenario, issued, now, browser, request, logins>>

Handle(l) ==
    \/ \E b \in Browsers : Open(l, b)
    \/ Mount(l)
    \/ Leave(l)
    \/ \E email \in scenario.emails : \/ RegisterCount(l, email)
                             \/ RequestLink(l, email)
                             \/ RequestEmailChange(l, email)
    \/ RegisterInsert(l)
    \/ DeliverFirst(l)
    \/ \E id \in 1..issued : ReadChange(l, id)
    \/ ApplyChange(l)

Next ==
    \/ \E r \in scenario.requests : Serve(r)
    \/ \E l \in scenario.views : Handle(l)
    \/ \E b \in Browsers : Restart(b)
    \/ Tick /\ UNCHANGED authVars

Spec == Init /\ [][Next]_vars

-----------------------------------------------------------------------------
\* Properties.

\* Type correctness.
TypeOK ==
    /\ scenario \in Scenarios
    /\ users \in Seq(User)
    /\ Len(users) <= MaxUsers
    /\ tokens \subseteq Token
    /\ issued \in 0..MaxTokens
    /\ now \in 0..MaxTime
    /\ browser \in [Browsers -> [token : TokenIds, remember : BOOLEAN, cookie : TokenIds]]
    /\ request \in [Requests -> Request]
    /\ live \in [Views -> View]
    /\ logins \subseteq (1..MaxUsers) \X (0..MaxTime)

\* Registrations and changes of email that run at the same time never leave two
\* users with one email: register_user and update_user_email.
UniqueEmails ==
    \A u, w \in DOMAIN users : users[u].email = users[w].email => u = w

\* The accounts' tables stay well formed, the unique emails included.
TablesOK == TypeOK /\ UniqueEmails

\* A session is only ever given to a user who has confirmed the email, and so is
\* a password: what login_user_by_magic_link raises on "cannot happen".
ConfirmedFirst ==
    /\ \A t \in tokens : t.context = "session" => users[t.user].confirmed
    /\ \A u \in DOMAIN users : users[u].password => users[u].confirmed

\* However often a session is reissued or restored from the remember-me cookie,
\* it counts as authenticated when the user gave credentials: sudo_mode?.
SudoEarned ==
    \A t \in tokens : t.context = "session" => <<t.user, t.authenticated_at>> \in logins

AboutToDisconnect(topic) ==
    \E r \in Requests :
        \/ At(r, "disconnect") /\ topic \in request[r].doomed
        \/ At(r, "broadcast") /\ topic = request[r].token

\* A view of a user whose session token was deleted, by a log out, a confirmation
\* or a new password, is disconnected, whenever it was mounted.
ViewsBacked ==
    \A l \in Views : live[l].user # NoUser =>
        \/ \E t \in tokens : t.id = live[l].topic /\ t.context = "session"
        \/ AboutToDisconnect(live[l].topic)

\* "First registered user becomes admin" (README.md): and no other.
OneAdmin == Cardinality({u \in DOMAIN users : users[u].is_admin}) <= 1
=============================================================================
