---------------------------- MODULE AccountStore ----------------------------
(***************************************************************************)
(* VideoSuggestion.Accounts: the tables users and users_tokens, and what   *)
(* the queries of UserToken accept.  A token is known by its id; a mailed  *)
(* one by the id of the link.  Time passes in ticks.                       *)
(***************************************************************************)
EXTENDS Naturals, Sequences, FiniteSets

CONSTANTS
    Emails,
    Scenarios,         \* what is tried: [users, emails, kinds, requests, views, tokens, time]
    LinkValidity,      \* ticks a magic link is good for (15 minutes)
    ChangeValidity,    \* ticks an email change link is good for (7 days)
    SessionValidity,   \* ticks a session token is good for (14 days)
    MaxUsers, MaxTokens, MaxTime   \* bounds of the model

ASSUME AccountStoreAssumption ==
    /\ {LinkValidity, ChangeValidity, SessionValidity} \subseteq Nat \ {0}
    /\ {MaxUsers, MaxTokens, MaxTime} \subseteq Nat
    /\ \A s \in Scenarios :
         /\ s.users \in Seq([email : Emails, is_admin : BOOLEAN, confirmed : BOOLEAN,
                             password : BOOLEAN])
         /\ \A u \in DOMAIN s.users : s.users[u].password => s.users[u].confirmed
         /\ \A u, w \in DOMAIN s.users : s.users[u].email = s.users[w].email => u = w
         /\ Len(s.users) <= MaxUsers
         /\ s.emails \subseteq Emails
         /\ s.tokens \in 0..MaxTokens
         /\ s.time \in 0..MaxTime

VARIABLES
    scenario,  \* the same throughout
    users,     \* in the order of their ids
    tokens,
    issued,    \* tokens there have been
    now

accountVars == <<scenario, users, tokens, issued, now>>

NoUser == 0

NoToken == 0

NoEmail == "none"

User == [email : Emails, is_admin : BOOLEAN, confirmed : BOOLEAN, password : BOOLEAN]

\* `from` is the email in the context "change:<email>".
Token == [id : 1..MaxTokens, user : 1..MaxUsers, context : {"session", "login", "change"},
          from : Emails \cup {NoEmail}, sent_to : Emails \cup {NoEmail},
          inserted_at : 0..MaxTime, authenticated_at : 0..MaxTime]

AccountsInit ==
    /\ scenario \in Scenarios
    /\ users = scenario.users
    /\ tokens = {}
    /\ issued = 0
    /\ now = 0

Tick ==
    /\ now < scenario.time
    /\ now' = now + 1
    /\ UNCHANGED <<scenario, users, tokens, issued>>

WithEmail(email) == {u \in DOMAIN users : users[u].email = email}

Age(t) == now - t.inserted_at

\* verify_session_token_query, verify_magic_link_token_query and
\* verify_change_email_token_query: the token, or none.
SessionToken(id) ==
    {t \in tokens : t.id = id /\ t.context = "session" /\ Age(t) < SessionValidity}

LoginToken(id) ==
    {t \in tokens : /\ t.id = id /\ t.context = "login" /\ Age(t) < LinkValidity
                    /\ t.sent_to = users[t.user].email}

ChangeToken(id, email) ==
    {t \in tokens : /\ t.id = id /\ t.context = "change" /\ t.from = email
                    /\ Age(t) < ChangeValidity}

Issue(user, context, from, sent_to, authenticated_at) ==
    /\ issued < scenario.tokens
    /\ issued' = issued + 1
    /\ tokens' = tokens \cup
         {[id |-> issued', user |-> user, context |-> context, from |-> from,
           sent_to |-> sent_to, inserted_at |-> now, authenticated_at |-> authenticated_at]}

\* generate_user_session_token
IssueSession(user, authenticated_at) ==
    Issue(user, "session", NoEmail, NoEmail, authenticated_at)

\* deliver_login_instructions, and the mail that carries the link
IssueLogin(user) == Issue(user, "login", NoEmail, users[user].email, 0)

\* (mutated) sent_to is not filled in.
IssueChangeUnaddressed(user, from, email) == Issue(user, "change", from, NoEmail, 0)

\* deliver_user_update_email_instructions
IssueChange(user, from, email) == Issue(user, "change", from, email, 0)

TokensOf(user) == {t \in tokens : t.user = user}

\* update_user_and_delete_all_tokens, of a changed user.
UpdateAndDeleteTokens(user, changed) ==
    /\ users' = [users EXCEPT ![user] = changed]
    /\ tokens' = tokens \ TokensOf(user)
=============================================================================
