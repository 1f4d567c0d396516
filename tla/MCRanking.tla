----------------------------- MODULE MCRanking -----------------------------
(* Instances of Recommendations and of RankingCalls for TLC: either rankings *)
(* for a user, or calls of the functions, one at a time.                     *)
EXTENDS MCRecommendations, RankingCalls

Candidate(id, creator, vector) == [id |-> id, creator_id |-> creator, vector |-> vector]

\* Two alike, one across, one opposite, one that cannot be scored.
FiveCandidates ==
    {Candidate(1, "a", <<2, 0>>), Candidate(2, "a", <<2, 0>>), Candidate(3, "b", <<0, 2>>),
     Candidate(4, Nil, <<-2, 1>>), Candidate(5, "b", <<1>>)}

TwoQueries == {<<2, 1>>, <<>>}

SomeLambdas == {-1, 0, 5, 7, 10}

NothingOrSome == {{}, {1}, {2, 3}}

NobodyOrA == {{}, {"a"}}

\* Calls need no user: they are made beside one state of theirs.
NothingYet == request.step = "idle" /\ changes = 0 /\ favorites = {} /\ embedded = {} /\ watches = <<>>

RankingNext ==
    \/ call = NoCall /\ RecommendNext /\ UNCHANGED callsVars
    \/ NothingYet /\ CallsNext /\ UNCHANGED recommendVars

RankingInit == RecommendInit /\ CallsInit

RankingSpec == RankingInit /\ [][RankingNext]_<<recommendVars, callsVars>>
=============================================================================
