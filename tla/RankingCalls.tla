---------------------------- MODULE RankingCalls ----------------------------
(***************************************************************************)
(* The functions of Ranking called with any arguments, each answer         *)
(* compared with a definition that does not say how to compute it.         *)
(***************************************************************************)
EXTENDS Ranking

CONSTANTS
    Candidates,       \* well-formed and malformed, with vectors of any length
    Queries,          \* taste vectors
    MaxLen,           \* bound of the model: length of a list
    Lambdas,          \* weights of relevance, in tenths
    SeenIds,          \* sets of ids a caller has seen
    BlockedCreators,  \* sets of creators a caller blocks
    Ratios,           \* percent
    Caps              \* per-creator caps; 0 and less stand for none

ASSUME CallsAssumption ==
    /\ \A c \in Candidates : c.vector \in Seq(Int)
    /\ Queries \subseteq Seq(Int)
    /\ MaxLen \in Nat
    /\ Lambdas \subseteq Int /\ Ratios \subseteq Int /\ Caps \subseteq Int

VARIABLES call, answer

callsVars == <<call, answer>>

NoCall == [name |-> "none"]

ListsUpTo(n) == UNION {[1..len -> Candidates] : len \in 0..n}

Lists == ListsUpTo(MaxLen)

CallsInit == call = NoCall /\ answer = Error("none")

Called(args, result) == call' = args /\ answer' = result

CallRankByDot ==
    \E q \in Queries, cs \in Lists :
        Called([name |-> "rank_by_dot", query |-> q, candidates |-> cs], RankByDot(q, cs))

\* The rows of a query are distinct.
CallMmr ==
    \E q \in Queries, cs \in {list \in Lists : IsInjective(list)}, k \in -1..(MaxLen + 1), lambda \in Lambdas :
        Called([name |-> "mmr", query |-> q, candidates |-> cs, k |-> k, lambda |-> lambda],
               Mmr(q, cs, k, lambda))

CallFilter ==
    \E cs \in Lists, seen \in SeenIds, blocked \in BlockedCreators, cap \in Caps :
        Called([name |-> "filter", candidates |-> cs, seen |-> seen, blocked |-> blocked,
                cap |-> cap],
               Ok(Filter(cs, seen, blocked, cap)))

CallMixExploration ==
    \E exploit \in ListsUpTo(MaxLen - 1), explore \in ListsUpTo(MaxLen - 2),
       k \in -1..(MaxLen + 1), ratio \in Ratios :
        Called([name |-> "mix", exploit |-> exploit, explore |-> explore, k |-> k,
                ratio |-> ratio],
               MixExploration(exploit, explore, k, ratio))

\* Nothing is kept between two calls.
Forget == call # NoCall /\ Called(NoCall, Error("none"))

CallsNext ==
    \/ call = NoCall /\ (CallRankByDot \/ CallMmr \/ CallFilter \/ CallMixExploration)
    \/ Forget

CallsSpec == CallsInit /\ [][CallsNext]_callsVars

-----------------------------------------------------------------------------
\* The answers of a call by its name.
Answers(name) == call.name = name /\ answer.ok

\* rank_by_dot returns every candidate once, the higher scores first, and of
\* equal scores the one that came last first, the accumulator being reversed.
RankedByScore(query, cs, list) ==
    LET Score(c) == Dot(query, c.vector)
    IN  \E from \in [DOMAIN cs -> DOMAIN cs] :
            /\ IsInjective(from)
            /\ list = [i \in DOMAIN cs |-> cs[from[i]]]
            /\ \A i, j \in DOMAIN cs :
                  i < j => \/ Score(list[i]) > Score(list[j])
                           \/ Score(list[i]) = Score(list[j]) /\ from[i] > from[j]

\* What mmr has not taken before its i-th choice.
LeftBefore(i, cs, list) == ToSet(cs) \ {list[j] : j \in 1..(i - 1)}

FirstAt(c, list) == SelectInSeq(list, LAMBDA d : d = c)

\* Each choice of mmr is, among the candidates not chosen before it, one with
\* the best balance of relevance and distance to those chosen, the earliest
\* of them; and it chooses k, or all there are, whatever the lambda.
MmrGreedy(query, cs, k, lambda, list) ==
    LET Score(c, i) == lambda * Dot(query, c.vector)
                         - (10 - lambda)
                           * IF i = 1 THEN 0
                             ELSE Max({Dot(c.vector, list[j].vector) : j \in 1..(i - 1)})
    IN  /\ Len(list) = Min({k, Len(cs)})
        /\ \A i \in DOMAIN list :
              /\ list[i] \in LeftBefore(i, cs, list)
              /\ \A c \in LeftBefore(i, cs, list) :
                    \/ Score(c, i) < Score(list[i], i)
                    \/ Score(c, i) = Score(list[i], i) /\ FirstAt(c, cs) >= FirstAt(list[i], cs)

Eligible(i, cs, seen, blocked) == cs[i].id \notin seen /\ cs[i].creator_id \notin blocked

\* The eligible candidates of the i-th one's creator that come before it.
SameBefore(i, cs, seen, blocked) ==
    {j \in 1..(i - 1) : Eligible(j, cs, seen, blocked) /\ cs[j].creator_id = cs[i].creator_id}

\* filter keeps a candidate if and only if it is neither seen nor blocked and
\* fewer than the cap of its creator's eligible candidates come before it,
\* and it keeps their order.
CapKeepsFirst(cs, seen, blocked, cap, list) ==
    LET kept == {i \in DOMAIN cs :
                    /\ Eligible(i, cs, seen, blocked)
                    /\ \/ cs[i].creator_id = Nil \/ cap <= 0
                       \/ Cardinality(SameBefore(i, cs, seen, blocked)) < cap}
    IN  \E place \in [DOMAIN list -> kept] :
            /\ \A m, n \in DOMAIN list : m < n => place[m] < place[n]
            /\ \A i \in kept : \E n \in DOMAIN list : place[n] = i
            /\ \A n \in DOMAIN list : list[n] = cs[place[n]]

\* The ids of what comes before the n-th of a mix.
IdsBefore(n, list) == {list[i].id : i \in 1..(n - 1)}

FirstUnseen(list, ids) ==
    IF \A i \in DOMAIN list : list[i].id \in ids THEN {}
    ELSE {list[Min({i \in DOMAIN list : list[i].id \notin ids})]}

\* The slots per exploration: the nearest to 1 / ratio, the larger of two as
\* near, and at least two unless everything is to be explored.
Period(ratio) ==
    IF ratio = 100 THEN 1
    ELSE Max({2} \cup {p \in 1..100 : 2 * p * ratio - 200 \in -ratio..ratio})

Explores(n, ratio) == ratio > 0 /\ n % Period(ratio) = 0

\* Each item of an exploration mix is the first of the list whose turn it is
\* that the mix does not hold yet, or of the other list if there is none; no
\* id comes twice; and the mix is short only when both lists are used up.
MixPicksNextUnseen(exploit, explore, k, ratio, list) ==
    LET Preferred(n) == FirstUnseen(IF Explores(n, ratio) THEN explore ELSE exploit,
                                    IdsBefore(n, list))
        Other(n) == FirstUnseen(IF Explores(n, ratio) THEN exploit ELSE explore,
                                IdsBefore(n, list))
    IN  /\ \A n \in DOMAIN list :
              {list[n]} = IF Preferred(n) # {} THEN Preferred(n) ELSE Other(n)
        /\ Len(list) = Min({k, Cardinality({c.id : c \in ToSet(exploit) \cup ToSet(explore)})})

\* The order of rank_by_dot and of mmr, for every list they may be given.
Ordered ==
    /\ Answers("rank_by_dot") => RankedByScore(call.query, call.candidates, answer.list)
    /\ Answers("mmr") => MmrGreedy(call.query, call.candidates, call.k, call.lambda, answer.list)

\* What filter keeps and mix_exploration takes, for every list they may be given.
Picked ==
    /\ Answers("filter") =>
           CapKeepsFirst(call.candidates, call.seen, call.blocked, call.cap, answer.list)
    /\ Answers("mix") =>
           MixPicksNextUnseen(call.exploit, call.explore, call.k, call.ratio, answer.list)
=============================================================================
