---------------------------- MODULE MCFavorites ----------------------------
(* An instance of Favorites for TLC: two tabs of one user, one of another. *)
EXTENDS Favorites

ThreeTabs == {"t1", "t2", "t3"}

TwoOfOne == [t1 |-> "ann", t2 |-> "ann", t3 |-> "bob"]
=============================================================================
