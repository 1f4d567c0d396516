-------------------------- MODULE Recommendations --------------------------
(***************************************************************************)
(* The ranking of videos for one user: three queries (favorites, watches,  *)
(* candidates), each with a snapshot of its own, between which the user's  *)
(* other tabs toggle favorites and write watches and the batch jobs store  *)
(* embeddings.  Embeddings have the same norm; the float arithmetic of the *)
(* blend is left open: the taste may point anywhere its parts allow.       *)
(***************************************************************************)
EXTENDS Ranking, FiniteSets

CONSTANTS
    Library,       \* the videos
    Vector,        \* per video: its embedding
    Tastes,        \* directions a blend can take, of the embeddings' norm
    WatchLimit,    \* watches the session is computed from
    PoolSize,      \* candidates that are reranked by mmr
    Lambda,        \* mmr's lambda, in tenths
    Limit,         \* rows of the administrators' list
    Durations,     \* watch_ms of a watch
    Earlier,       \* watches there may be at the start
    MaxChanges     \* bound of the model: changes by others

\* The column of the embeddings has one dimension.
ASSUME RecommendationsAssumption ==
    /\ IsFiniteSet(Library)
    /\ Vector \in [Library -> Tastes]
    /\ \A a, b \in Tastes : a \in Seq(Int) /\ Len(a) = Len(b)
    /\ {WatchLimit, PoolSize, Limit} \subseteq Nat \ {0}
    /\ Lambda \in 0..10
    /\ \A list \in Earlier : list \in Seq([video : Library, ms : Nat])
    /\ Durations \subseteq Nat

VARIABLES
    favorites,     \* the user's
    watches,       \* the user's "watch" interactions, by id
    embedded,      \* videos with an embedding
    request,       \* the ranking under way, or the last one
    changes

recommendVars == <<favorites, watches, embedded, request, changes>>

NoTaste == <<>>

Steps == {"idle", "began", "long", "profiled", "tasted", "fetched", "answered", "refused"}

RecommendInit ==
    /\ favorites \in SUBSET Library
    /\ watches \in Earlier
    /\ embedded \in SUBSET Library
    /\ request = [step |-> "idle"]
    /\ changes = 0

-----------------------------------------------------------------------------
\* The request.

\* FeedLive ranks for the feed, the administrators' page for its list.
\* start and toggled are history.
Begin(for) ==
    /\ request.step \in {"idle", "answered", "refused"}
    /\ request' = [step |-> "began", for |-> for, long |-> {}, session |-> <<>>,
                   taste |-> NoTaste, candidates |-> <<>>, ranked |-> <<>>, toggled |-> {},
                   start |-> [favorites |-> favorites, embedded |-> embedded,
                              watches |-> Len(watches)]]
    /\ UNCHANGED <<favorites, watches, embedded, changes>>

\* apply_favorite_long_term; every favorite has the same weight.
ReadFavorites ==
    /\ request.step = "began"
    /\ request' = [request EXCEPT !.step = "long", !.long = favorites \cap embedded]
    /\ UNCHANGED <<favorites, watches, embedded, changes>>

\* Watches, as indices into watches.
WatchesOf(videos) == {i \in DOMAIN watches : watches[i].video \in videos}

FirstOf(n, list) == SubSeq(list, 1, Min({n, Len(list)}))

\* (mutated) The oldest watches first.
OldestFirst(rows) == \A i, j \in DOMAIN rows : i < j => rows[i] < rows[j]

\* ORDER BY inserted_at DESC, id DESC
NewestFirst(rows) == \A i, j \in DOMAIN rows : i < j => rows[i] > rows[j]

\* update_session refuses a weight of zero, and the reduce_while stops at the
\* first refusal.
Blendable(rows) ==
    LET bad == SelectInSeq(rows, LAMBDA i : watches[i].ms = 0)
    IN  IF bad = 0 THEN rows ELSE SubSeq(rows, 1, bad - 1)

\* apply_recent_watch_session: the moving average takes up the rows in this
\* order, so that the last of the sequence is blended in last.
ReadWatches ==
    /\ request.step = "long"
    /\ \E rows \in SetToSeqs(WatchesOf(embedded)) :
          /\ NewestFirst(rows)
          /\ request' = [request EXCEPT !.step = "profiled",
                                        !.session = Blendable(FirstOf(WatchLimit, rows))]
    /\ UNCHANGED <<favorites, watches, embedded, changes>>

\* The vectors that go into the taste.
Evidence == {Vector[v] : v \in request.long}
              \cup {Vector[watches[request.session[i]].video] : i \in DOMAIN request.session}

\* blended_vector: an error without evidence, possibly one when vectors
\* cancel out; a single vector is its own blend.
Blend ==
    /\ request.step = "profiled"
    /\ \/ /\ Cardinality(Evidence) # 1
          /\ request' = [request EXCEPT !.step = "refused"]
       \/ /\ Evidence # {}
          /\ \E taste \in IF Cardinality(Evidence) = 1 THEN Evidence ELSE Tastes :
                request' = [request EXCEPT !.step = "tasted", !.taste = taste]
    /\ UNCHANGED <<favorites, watches, embedded, changes>>

Relevance(v) == Dot(request.taste, Vector[v])

Nearer(v, w) == Relevance(v) >= Relevance(w)

\* (mutated) Favorites are not left out.
AllEmbedded == embedded

\* The left join on the user's favorites that keeps the rows without one.
CandidateVideos == embedded \ favorites

\* The candidates query, nearest first; the database orders ties as it likes.
\* The administrators' list is this query with a limit.
ReadCandidates ==
    /\ request.step = "tasted"
    /\ \E list \in SetToSeqs(CandidateVideos) :
          /\ \A i, j \in DOMAIN list : i < j => Nearer(list[i], list[j])
          /\ request' =
                IF request.for = "admin"
                THEN [request EXCEPT !.step = "answered", !.ranked = FirstOf(Limit, list)]
                ELSE [request EXCEPT !.step = IF list = <<>> THEN "refused" ELSE "fetched",
                                     !.candidates = list]
    /\ UNCHANGED <<favorites, watches, embedded, changes>>

Ids(list) == [i \in DOMAIN list |-> list[i].id]

WithVectors(list) == [i \in DOMAIN list |-> [id |-> list[i], vector |-> Vector[list[i]]]]

\* (mutated) Only the pool is answered.
OnlyPool(candidates) ==
    LET pool == FirstOf(PoolSize, candidates)
    IN  Ids(Mmr(request.taste, WithVectors(pool), Len(pool), Lambda).list)

\* (mutated) What follows the pool is all candidates.
PoolTwice(candidates) ==
    LET pool == FirstOf(PoolSize, candidates)
    IN  Ids(Mmr(request.taste, WithVectors(pool), Len(pool), Lambda).list) \o candidates

\* (mutated) The pool is not split off.
NoPool(candidates) ==
    Ids(Mmr(request.taste, WithVectors(candidates), Len(candidates), Lambda).list)

\* The pool is reranked, the rest follows.
Diversified(candidates) ==
    LET pool == FirstOf(PoolSize, candidates)
        rest == SubSeq(candidates, PoolSize + 1, Len(candidates))
        diverse == Mmr(request.taste, WithVectors(pool), Len(pool), Lambda)
    IN  IF diverse.ok THEN Ids(diverse.list) \o rest ELSE candidates

Rank ==
    /\ request.step = "fetched"
    /\ request' = [request EXCEPT !.step = "answered", !.ranked = Diversified(request.candidates)]
    /\ UNCHANGED <<favorites, watches, embedded, changes>>

-----------------------------------------------------------------------------
\* The others.

Change == changes < MaxChanges /\ changes' = changes + 1

ToggleFavorite(v) ==
    /\ Change
    /\ favorites' = SymDiff(favorites, {v})
    /\ request' = IF request.step = "idle" THEN request
                  ELSE [request EXCEPT !.toggled = @ \cup {v}]
    /\ UNCHANGED <<watches, embedded>>

CreateWatch(v, ms) ==
    /\ Change
    /\ watches' = Append(watches, [video |-> v, ms |-> ms])
    /\ UNCHANGED <<favorites, embedded, request>>

StoreEmbedding(v) ==
    /\ Change
    /\ v \notin embedded
    /\ embedded' = embedded \cup {v}
    /\ UNCHANGED <<favorites, watches, request>>

RecommendNext ==
    \/ \E for \in {"feed", "admin"} : Begin(for)
    \/ ReadFavorites \/ ReadWatches \/ Blend \/ ReadCandidates \/ Rank
    \/ \E v \in Library : ToggleFavorite(v) \/ StoreEmbedding(v)
    \/ \E v \in Library, ms \in Durations : CreateWatch(v, ms)

RecommendSpec == RecommendInit /\ [][RecommendNext]_recommendVars

-----------------------------------------------------------------------------
Profiled == request.step \in Steps \ {"idle", "began", "long"}

Answered == request.step = "answered"

\* A feed that could be ranked holds every video that had an embedding when
\* it began and that was not a favorite at any time since.
NoneLost ==
    Answered /\ request.for = "feed" =>
        request.start.embedded \ (request.start.favorites \cup request.toggled)
          \subseteq ToSet(request.ranked)

\* What was a favorite all along is not recommended.
NoFavoriteRanked ==
    Answered =>
        ToSet(request.ranked) \cap (request.start.favorites \ request.toggled) = {}

\* The session is the newest watches: a watch it leaves out that could have
\* been in it is older than all of it, and it was full, or cut short by a
\* watch of no length in between.
NewestWatched ==
    Profiled =>
        \A i \in 1..request.start.watches :
            watches[i].video \in request.start.embedded /\ i \notin ToSet(request.session) =>
                /\ \A j \in ToSet(request.session) : i < j
                /\ \/ Len(request.session) = WatchLimit
                   \/ \E j \in i..Len(watches) : watches[j].ms = 0

\* The reranked part of a feed is the nearest videos to the taste, the
\* nearest of all first, and what follows them is in order of distance.
NearestPool ==
    Answered /\ request.for = "feed" =>
        LET list == request.ranked
        IN  /\ \A i \in DOMAIN list : Nearer(list[1], list[i])
            /\ \A i, j \in DOMAIN list :
                  i < j /\ j > PoolSize => Nearer(list[i], list[j])

\* A ranking holds what it should, once, and nothing else, that of the feed nearest
\* first, whatever is toggled or embedded while it is made.
RankingHolds ==
    /\ NoneLost /\ NoFavoriteRanked /\ NearestPool
    /\ Answered => IsInjective(request.ranked)

\* The design: the session taste follows the recent behavior, "to capture
\* 'today I want dogs'" (docs/design.md:198): the moving average takes the
\* newest watch up last.
SessionInOrder ==
    Profiled =>
        \A i, j \in DOMAIN request.session : i < j => request.session[i] < request.session[j]
=============================================================================
