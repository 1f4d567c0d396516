------------------------------- MODULE MCFeed -------------------------------
(* Instances of Feed for TLC. *)
EXTENDS Feed

\* Rankings of three and of four videos, none in the order of the table.
SomeRankings == {<<2, 1, 3>>, <<4, 1, 3, 2>>}

FourVideos == 1..4
=============================================================================
