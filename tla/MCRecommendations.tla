-------------------------- MODULE MCRecommendations --------------------------
(* Instances of Recommendations for TLC: four videos on a circle. *)
EXTENDS Recommendations

\* Seen from <<5, 0>>, mmr prefers the last to the third, though farther.
OnCircle == <<<<3, 4>>, <<3, 4>>, <<0, 5>>, <<-3, -4>>>>

CircleTastes == ToSet(OnCircle) \cup {<<5, 0>>}

NoneOrThree == {<<>>, <<[video |-> 1, ms |-> 9], [video |-> 2, ms |-> 9], [video |-> 1, ms |-> 9]>>}
=============================================================================
