------------------------------ MODULE Ranking ------------------------------
(***************************************************************************)
(* Reco.Ranking and the dot product of Reco.Vector: scoring, MMR           *)
(* reranking, filtering and the exploration mix, as operators on lists of  *)
(* candidates.  A candidate is [id, creator_id, vector]; a vector is a     *)
(* tuple of integers, lambda is in tenths and a ratio in percent, so that  *)
(* every comparison the code makes on floats is exact here.                *)
(***************************************************************************)
EXTENDS Integers, Sequences, SequencesExt

Nil == "nil"

Ok(list) == [ok |-> TRUE, list |-> list]
Error(reason) == [ok |-> FALSE, reason |-> reason]

-----------------------------------------------------------------------------
\* Vector.dot.

Dot(a, b) ==
    LET sum[i \in 0..Len(a)] == IF i = 0 THEN 0 ELSE sum[i - 1] + a[i] * b[i]
    IN  sum[Len(a)]

DotError(a, b) ==
    IF a = <<>> \/ b = <<>> THEN "empty_vector"
    ELSE IF Len(a) # Len(b) THEN "dimension_mismatch" ELSE "none"

\* The reduce_while over the candidates stops at the first it cannot score.
FirstError(query, candidates) ==
    LET i == SelectInSeq(candidates, LAMBDA c : DotError(query, c.vector) # "none")
    IN  IF i = 0 THEN "none" ELSE DotError(query, candidates[i].vector)

-----------------------------------------------------------------------------
\* rank_by_dot.

\* (mutated) An equal score overtakes the earlier one.
UnstablyPlaced(query, sorted, c) ==
    LET i == SelectInSeq(sorted, LAMBDA d : Dot(query, d.vector) <= Dot(query, c.vector))
    IN  IF i = 0 THEN Append(sorted, c) ELSE InsertAt(sorted, i, c)

\* Before the first that scores lower, so that equal scores stay in turn.
Placed(query, sorted, c) ==
    LET i == SelectInSeq(sorted, LAMBDA d : Dot(query, d.vector) < Dot(query, c.vector))
    IN  IF i = 0 THEN Append(sorted, c) ELSE InsertAt(sorted, i, c)

\* Enum.sort_by on the negated score, which is stable.
SortByScore(query, scored) ==
    LET sorted[i \in 0..Len(scored)] ==
            IF i = 0 THEN <<>> ELSE Placed(query, sorted[i - 1], scored[i])
    IN  sorted[Len(scored)]

\* The accumulator of the reduce is built in reverse.
RankByDot(query, candidates) ==
    LET error == FirstError(query, candidates)
    IN  IF error # "none" THEN Error(error)
        ELSE Ok(SortByScore(query, Reverse(candidates)))

-----------------------------------------------------------------------------
\* mmr.

MaxSimilarity(vector, selected) ==
    IF selected = <<>> THEN 0
    ELSE Max({Dot(vector, selected[i].vector) : i \in DOMAIN selected})

MmrScore(query, lambda, candidate, selected) ==
    lambda * Dot(query, candidate.vector)
      - (10 - lambda) * MaxSimilarity(candidate.vector, selected)

\* (mutated) The last of several best candidates wins.
LastBest(query, lambda, candidates, selected) ==
    LET Score(c) == MmrScore(query, lambda, c, selected)
        best[i \in 0..Len(candidates)] ==
            IF i = 0 THEN candidates[1]
            ELSE IF Score(candidates[i]) >= Score(best[i - 1]) THEN candidates[i]
            ELSE best[i - 1]
    IN  best[Len(candidates)]

\* The first candidate that no other beats.
BestMmrCandidate(query, lambda, candidates, selected) ==
    LET Score(c) == MmrScore(query, lambda, c, selected)
        best[i \in 0..Len(candidates)] ==
            IF i = 0 THEN candidates[1]
            ELSE IF Score(candidates[i]) > Score(best[i - 1]) THEN candidates[i]
            ELSE best[i - 1]
    IN  best[Len(candidates)]

\* One round of do_mmr.
SelectNext(query, lambda, st) ==
    IF st.remaining = <<>> THEN st
    ELSE LET best == BestMmrCandidate(query, lambda, st.remaining, st.selected)
         IN  [remaining |-> RemoveFirst(st.remaining, best), selected |-> Append(st.selected, best)]

\* All candidates have the query's dimension once the first round has
\* scored them, so no later round fails.
Mmr(query, candidates, k, lambda) ==
    LET error == FirstError(query, candidates)
    IN  IF k < 0 THEN Error("invalid_k")
        ELSE IF lambda \notin 0..10 THEN Error("invalid_lambda")
        ELSE IF k > 0 /\ error # "none" THEN Error(error)
        ELSE LET round[n \in 0..k] ==
                     IF n = 0 THEN [remaining |-> candidates, selected |-> <<>>]
                     ELSE SelectNext(query, lambda, round[n - 1])
             IN  Ok(round[k].selected)

-----------------------------------------------------------------------------
\* filter.

CountOf(creator, kept) == Cardinality({i \in DOMAIN kept : kept[i].creator_id = creator})

\* (mutated) The cap lets one more through.
CapLoose(creator, kept, max) ==
    creator = Nil \/ max <= 0 \/ CountOf(creator, kept) <= max

\* maybe_cap_creator; a missing or unusable cap caps nothing.
UnderCap(creator, kept, max) ==
    creator = Nil \/ max <= 0 \/ CountOf(creator, kept) < max

\* The two rejects and the cap, which counts what has passed all three.
Admit(kept, c, seenIds, blockedCreatorIds, max) ==
    IF c.id \notin seenIds /\ c.creator_id \notin blockedCreatorIds /\ UnderCap(c.creator_id, kept, max)
    THEN Append(kept, c) ELSE kept

Filter(candidates, seenIds, blockedCreatorIds, max) ==
    LET kept[i \in 0..Len(candidates)] ==
            IF i = 0 THEN <<>>
            ELSE Admit(kept[i - 1], candidates[i], seenIds, blockedCreatorIds, max)
    IN  kept[Len(candidates)]

-----------------------------------------------------------------------------
\* mix_exploration.

Never == 0

\* 1.0 / ratio, rounded half away from zero.
ExploreEvery(ratio) ==
    IF ratio = 0 THEN Never
    ELSE IF ratio = 100 THEN 1
    ELSE Max({2, (200 + ratio) \div (2 * ratio)})

\* (mutated) Takes the head without looking at what was seen.
TakeAny(list, seen) ==
    IF list = <<>> THEN [picked |-> <<>>, rest |-> <<>>]
    ELSE [picked |-> <<Head(list)>>, rest |-> Tail(list)]

\* take_unique: skips what was seen, for good.
TakeUnique(list, seen) ==
    LET i == SelectInSeq(list, LAMBDA c : c.id \notin seen)
    IN  IF i = 0 THEN [picked |-> <<>>, rest |-> <<>>]
        ELSE [picked |-> <<list[i]>>, rest |-> SubSeq(list, i + 1, Len(list))]

\* One slot of do_mix_exploration: the list whose turn it is, else the other;
\* with both used up the later slots add nothing.
MixSlot(every, slot, st) ==
    LET explores == every # Never /\ slot % every = 0
        first == TakeUnique(IF explores THEN st.explore ELSE st.exploit, st.seen)
        other == IF explores THEN st.exploit ELSE st.explore
        second == IF first.picked # <<>> THEN [picked |-> <<>>, rest |-> other]
                  ELSE TakeUnique(other, st.seen)
        picked == first.picked \o second.picked
    IN  [exploit |-> IF explores THEN second.rest ELSE first.rest,
         explore |-> IF explores THEN first.rest ELSE second.rest,
         seen |-> st.seen \cup {picked[i].id : i \in DOMAIN picked},
         mixed |-> st.mixed \o picked]

MixExploration(exploit, explore, k, ratio) ==
    IF k < 0 THEN Error("invalid_k")
    ELSE IF ratio \notin 0..100 THEN Error("invalid_ratio")
    ELSE LET round[slot \in 0..k] ==
                 IF slot = 0
                 THEN [exploit |-> exploit, explore |-> explore, seen |-> {}, mixed |-> <<>>]
                 ELSE MixSlot(ExploreEvery(ratio), slot, round[slot - 1])
         IN  Ok(round[k].mixed)
=============================================================================
