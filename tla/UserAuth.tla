------------------------------ MODULE UserAuth ------------------------------
(***************************************************************************)
(* UserAuth and UserSessionController: the requests of browsers, from the  *)
(* plug that finds the user of the session to the response that writes the *)
(* session and the remember-me cookie.  Requests of a browser may overlap; *)
(* each works on the session that came with it.                            *)
(***************************************************************************)
EXTENDS AccountStore

CONSTANTS
    Browsers,
    Requests,      \* requests in flight
    Views,         \* LiveView processes
    ReissueAge,    \* ticks after which a session gets a new token (7 days)
    SudoAge        \* ticks an authentication counts as recent (20 minutes)

Kinds == {"page", "link", "password", "logout", "update_password"}

ASSUME UserAuthAssumption ==
    /\ \A s \in Scenarios :
         s.kinds \subseteq Kinds /\ s.requests \subseteq Requests /\ s.views \subseteq Views
    /\ {ReissueAge, SudoAge} \subseteq Nat \ {0}

VARIABLES
    browser,           \* per browser: the session, and the remember-me cookie
    request,
    live,              \* the LiveViews
    logins             \* history: who gave credentials, and when

authVars == <<browser, request, live, logins>>

Steps == {"free", "scope", "reissue", "act", "confirm", "spend", "disconnect",
          "password", "login", "broadcast", "respond"}

TokenIds == 0..MaxTokens

Request == [step : Steps, kind : Kinds \cup {"none"}, browser : Browsers \cup {"none"},
            token : TokenIds, remember : BOOLEAN, cookie : TokenIds,    \* the conn's session
            wrote : BOOLEAN, wrote_cookie : BOOLEAN,
            user : 0..MaxUsers, authenticated_at : 0..MaxTime,          \* the scope
            link : TokenIds, email : Emails \cup {NoEmail}, keep : BOOLEAN,   \* the form
            who : 0..MaxUsers,               \* the user who is logging in
            doomed : SUBSET TokenIds]        \* the tokens to disconnect

Free == [step |-> "free", kind |-> "none", browser |-> "none", token |-> NoToken,
         remember |-> FALSE, cookie |-> NoToken, wrote |-> FALSE, wrote_cookie |-> FALSE,
         user |-> NoUser, authenticated_at |-> 0, link |-> NoToken, email |-> NoEmail,
         keep |-> FALSE, who |-> NoUser, doomed |-> {}]

Closed == [step |-> "closed", topic |-> NoToken, user |-> NoUser, email |-> NoEmail,
           authenticated_at |-> 0, wants |-> NoEmail, first |-> FALSE]

AuthInit ==
    /\ browser = [b \in Browsers |-> [token |-> NoToken, remember |-> FALSE, cookie |-> NoToken]]
    /\ request = [r \in Requests |-> Free]
    /\ live = [l \in Views |-> Closed]
    /\ logins = {}

At(r, step) == request[r].step = step

Go(r, step) == request' = [request EXCEPT ![r].step = step]

-----------------------------------------------------------------------------
\* The plugs.

Arrive(r, b, kind, link, email, keep) ==
    /\ At(r, "free")
    /\ request' = [request EXCEPT ![r] =
         [Free EXCEPT !.step = "scope", !.kind = kind, !.browser = b,
                      !.token = browser[b].token, !.remember = browser[b].remember,
                      !.cookie = browser[b].cookie,
                      !.link = link, !.email = email, !.keep = keep]]
    /\ UNCHANGED <<accountVars, browser, live, logins>>

\* What a browser may send: a link that was mailed, an email with a password.
Begin(r) ==
    \E b \in Browsers :
        \/ \E kind \in scenario.kinds \cap {"page", "logout"} :
             Arrive(r, b, kind, NoToken, NoEmail, FALSE)
        \/ /\ "link" \in scenario.kinds
           /\ \E id \in 1..issued, keep \in BOOLEAN : Arrive(r, b, "link", id, NoEmail, keep)
        \/ /\ "password" \in scenario.kinds
           /\ \E e \in scenario.emails, keep \in BOOLEAN : Arrive(r, b, "password", NoToken, e, keep)
        \/ /\ "update_password" \in scenario.kinds
           /\ \E e \in scenario.emails : Arrive(r, b, "update_password", NoToken, e, FALSE)

\* fetch_current_scope_for_user; a session without a token takes the cookie's.
FetchScope(r) ==
    /\ At(r, "scope")
    /\ LET req == request[r]
           restored == req.token = NoToken /\ req.cookie # NoToken
           id == IF restored THEN req.cookie ELSE req.token
       IN  IF SessionToken(id) = {} THEN Go(r, "act")
           ELSE \E t \in SessionToken(id) :
                  request' = [request EXCEPT ![r] =
                    [req EXCEPT !.token = id, !.remember = @ \/ restored, !.wrote = restored,
                                !.user = t.user, !.authenticated_at = t.authenticated_at,
                                !.step = IF Age(t) >= ReissueAge THEN "reissue" ELSE "act"]]
    /\ UNCHANGED <<accountVars, browser, live, logins>>

\* The conn of create_or_extend_session, with the token that is being issued.
Extended(req, remember) ==
    [req EXCEPT !.token = issued', !.wrote = TRUE, !.remember = remember,
                !.cookie = IF remember THEN issued' ELSE @, !.wrote_cookie = remember \/ @]

\* (mutated) A new token counts as a new authentication.
ReissueAuthenticated(r) ==
    /\ At(r, "reissue")
    /\ IssueSession(request[r].user, now)
    /\ request' = [request EXCEPT ![r] =
         [Extended(request[r], request[r].remember) EXCEPT !.step = "act"]]
    /\ UNCHANGED <<scenario, users, now, browser, live, logins>>

\* maybe_reissue_user_session_token; the old token stays.
Reissue(r) ==
    /\ At(r, "reissue")
    /\ IssueSession(request[r].user, request[r].authenticated_at)
    /\ request' = [request EXCEPT ![r] =
         [Extended(request[r], request[r].remember) EXCEPT !.step = "act"]]
    /\ UNCHANGED <<scenario, users, now, browser, live, logins>>

Page(r) ==
    /\ At(r, "act")
    /\ request[r].kind = "page"
    /\ Go(r, "respond")
    /\ UNCHANGED <<accountVars, browser, live, logins>>

\* The request raises, and the response says so; the session is not written.
Raise(r) == request' = [request EXCEPT ![r] = Free]

-----------------------------------------------------------------------------
\* Logging in.

\* (The flash of a refused login writes the session back.)
Refuse(r) == request' = [request EXCEPT ![r].step = "respond", ![r].wrote = TRUE]

\* login_user_by_magic_link reads the link and its user.
ReadLink(r) ==
    /\ At(r, "act")
    /\ request[r].kind = "link"
    /\ LET found == LoginToken(request[r].link)
       IN  IF found = {} THEN Refuse(r)
           ELSE \E t \in found :
                  IF users[t.user].confirmed
                  THEN request' = [request EXCEPT ![r].who = t.user, ![r].step = "spend"]
                  ELSE IF users[t.user].password THEN Raise(r)
                  ELSE request' = [request EXCEPT ![r].who = t.user, ![r].step = "confirm"]
    /\ UNCHANGED <<accountVars, browser, live, logins>>

Doom(r, user) ==
    request' = [request EXCEPT ![r].doomed = {t.id : t \in TokensOf(user)},
                               ![r].step = "disconnect"]

\* (mutated) The user is logged in but not confirmed.
ConfirmNobody(r) ==
    /\ At(r, "confirm")
    /\ UpdateAndDeleteTokens(request[r].who, users[request[r].who])
    /\ Doom(r, request[r].who)
    /\ UNCHANGED <<scenario, issued, now, browser, live, logins>>

\* The user as read was not confirmed: whatever was done since, it is now.
ConfirmUser(r) ==
    /\ At(r, "confirm")
    /\ UpdateAndDeleteTokens(request[r].who, [users[request[r].who] EXCEPT !.confirmed = TRUE])
    /\ Doom(r, request[r].who)
    /\ UNCHANGED <<scenario, issued, now, browser, live, logins>>

\* Repo.delete! raises when the token is gone.
SpendLink(r) ==
    /\ At(r, "spend")
    /\ LET spent == {t \in tokens : t.id = request[r].link}
       IN  IF spent = {} THEN Raise(r) /\ UNCHANGED tokens
           ELSE Go(r, "login") /\ tokens' = tokens \ spent
    /\ UNCHANGED <<scenario, users, issued, now, browser, live, logins>>

Disconnected(ids) ==
    [l \in Views |-> IF live[l].topic \in ids THEN Closed ELSE live[l]]

\* disconnect_sessions
Disconnect(r) ==
    /\ At(r, "disconnect")
    /\ live' = Disconnected(request[r].doomed)
    /\ Go(r, IF request[r].kind = "link" THEN "login" ELSE "password")
    /\ UNCHANGED <<accountVars, browser, logins>>

\* get_user_by_email_and_password; the password may be wrong.
CheckPassword(r) ==
    /\ \/ At(r, "act") /\ request[r].kind = "password"
       \/ At(r, "password")
    /\ \/ Refuse(r)
       \/ \E u \in WithEmail(request[r].email) :
            /\ users[u].password
            /\ request' = [request EXCEPT ![r].who = u, ![r].step = "login"]
    /\ UNCHANGED <<accountVars, browser, live, logins>>

\* update_password: not without a user, who must be in sudo mode.
UpdatePassword(r) ==
    /\ At(r, "act")
    /\ request[r].kind = "update_password"
    /\ IF request[r].user = NoUser
       THEN Refuse(r) /\ UNCHANGED <<users, tokens>>
       ELSE IF now - request[r].authenticated_at >= SudoAge
       THEN Raise(r) /\ UNCHANGED <<users, tokens>>
       ELSE /\ UpdateAndDeleteTokens(request[r].user,
                 [users[request[r].user] EXCEPT !.password = TRUE])
            /\ Doom(r, request[r].user)
    /\ UNCHANGED <<scenario, issued, now, browser, live, logins>>

\* log_in_user.  What the session remembered counts although it is renewed.
LogIn(r) ==
    LET req == request[r]
    IN  /\ At(r, "login")
        /\ IssueSession(req.who, now)
        /\ request' = [request EXCEPT ![r] =
             [Extended(req, req.keep \/ req.remember) EXCEPT !.step = "respond"]]
        /\ logins' = logins \cup {<<req.who, now>>}
        /\ UNCHANGED <<scenario, users, now, browser, live>>

-----------------------------------------------------------------------------
\* Logging out, and the response.

\* log_out_user deletes the session token ...
DeleteSession(r) ==
    /\ At(r, "act")
    /\ request[r].kind = "logout"
    /\ tokens' = {t \in tokens : t.id # request[r].token \/ t.context # "session"}
    /\ Go(r, "broadcast")
    /\ UNCHANGED <<scenario, users, issued, now, browser, live, logins>>

\* (mutated) The session is cleared before its live_socket_id is read.
BroadcastCleared(r) ==
    /\ At(r, "broadcast")
    /\ request' = [request EXCEPT ![r] =
         [@ EXCEPT !.token = NoToken, !.remember = FALSE, !.cookie = NoToken,
                   !.wrote = TRUE, !.wrote_cookie = TRUE, !.step = "respond"]]
    /\ UNCHANGED <<accountVars, browser, live, logins>>

\* ... and disconnects the views of the session's live_socket_id.
Broadcast(r) ==
    /\ At(r, "broadcast")
    /\ live' = IF request[r].token = NoToken THEN live ELSE Disconnected({request[r].token})
    /\ request' = [request EXCEPT ![r] =
         [@ EXCEPT !.token = NoToken, !.remember = FALSE, !.cookie = NoToken,
                   !.wrote = TRUE, !.wrote_cookie = TRUE, !.step = "respond"]]
    /\ UNCHANGED <<accountVars, browser, logins>>

\* The session is a cookie: the response that comes last is what stays.
Respond(r) ==
    /\ At(r, "respond")
    /\ LET req == request[r]
           b == req.browser
       IN  browser' = [browser EXCEPT
             ![b].token = IF req.wrote THEN req.token ELSE @,
             ![b].remember = IF req.wrote THEN req.remember ELSE @,
             ![b].cookie = IF req.wrote_cookie THEN req.cookie ELSE @]
    /\ request' = [request EXCEPT ![r] = Free]
    /\ UNCHANGED <<accountVars, live, logins>>

\* The database refuses, before the handler has anything left to disconnect.
Fail(r) ==
    /\ request[r].step \in {"reissue", "act", "confirm", "spend", "password", "login"}
    /\ Raise(r)
    /\ UNCHANGED <<accountVars, browser, live, logins>>

\* A browser is closed and opened again: the session cookie is gone.
Restart(b) ==
    /\ \A r \in Requests : request[r].browser # b
    /\ browser' = [browser EXCEPT ![b].token = NoToken, ![b].remember = FALSE]
    /\ UNCHANGED <<accountVars, request, live, logins>>

Serve(r) ==
    \/ Begin(r) \/ FetchScope(r) \/ Reissue(r) \/ Page(r)
    \/ ReadLink(r) \/ ConfirmUser(r) \/ SpendLink(r) \/ Disconnect(r)
    \/ CheckPassword(r) \/ UpdatePassword(r) \/ LogIn(r)
    \/ DeleteSession(r) \/ Broadcast(r) \/ Respond(r) \/ Fail(r)
=============================================================================
