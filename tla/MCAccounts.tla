----------------------------- MODULE MCAccounts -----------------------------
(* Instances of the accounts for TLC: what is tried.                       *)
EXTENDS UserLive

Admin == [email |-> "a", is_admin |-> TRUE, confirmed |-> TRUE, password |-> TRUE]

\* Two views register, ask for links and change an email at the same time.
EmptyDatabase ==
    [users |-> <<>>, emails |-> {"a", "b"}, kinds |-> {"link"},
     requests |-> {"r1"}, views |-> {"v1", "v2"}, tokens |-> 3, time |-> 0]

\* A new user logs in in every way, while sessions grow old and expire.
NewUser ==
    [users |-> <<[Admin EXCEPT !.confirmed = FALSE, !.password = FALSE]>>, emails |-> {"a"},
     kinds |-> Kinds, requests |-> {"r1"}, views |-> {"v1"}, tokens |-> 4, time |-> 3]

\* Two requests of a browser overlap, and a view is mounted.
TwoRequests ==
    [users |-> <<Admin>>, emails |-> {"a"}, kinds |-> {"password", "update_password", "logout", "link"},
     requests |-> {"r1", "r2"}, views |-> {"v1"}, tokens |-> 2, time |-> 0]

All == {EmptyDatabase, NewUser, TwoRequests}

Registrations == {EmptyDatabase}
=============================================================================
