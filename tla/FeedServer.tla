----------------------------- MODULE FeedServer -----------------------------
(***************************************************************************)
(* The LiveView process of one feed page (feed_live.ex) and the videos     *)
(* table it reads.  A video is its place in the order (inserted_at, id): a *)
(* larger number is newer.  Rows appear while the page is open, and not    *)
(* always in that order (inserted_at is set before the commit).  They are  *)
(* never deleted, and a page without videos has no feed.                   *)
(***************************************************************************)
EXTENDS Naturals, Sequences, FiniteSets, SequencesExt

CONSTANTS
    Videos,      \* the videos, as numbers: larger is newer
    PageSize,    \* @page_size
    WrapWindow,  \* @wrap_window
    Rankings     \* what ranked_feed_video_ids_for_user may return

ASSUME VideosAssumption == Videos \subseteq Nat \ {0}

ASSUME PageAssumption == PageSize \in Nat \ {0} /\ WrapWindow \in Nat \ {0}

\* A ranking holds each candidate once: a video has one embedding.
ASSUME RankingAssumption ==
    /\ Rankings \subseteq Seq(Videos)
    /\ \A r \in Rankings : \A i, j \in DOMAIN r : r[i] = r[j] => i = j

VARIABLES
    stored,        \* videos with a row
    videos,        \* what the page lists
    hasMore,       \* has_more
    mode,          \* "head", "tail" or "full"
    rankedIds,     \* ranked_ids; empty when feed_order is :newest
    rankedOffset,  \* ranked_offset
    began          \* history: stored when the list was last started afresh

serverVars == <<stored, videos, hasMore, mode, rankedIds, rankedOffset, began>>

ServerTypeOK ==
    /\ stored \in SUBSET Videos
    /\ videos \in Seq(Videos)
    /\ hasMore \in BOOLEAN
    /\ mode \in {"head", "tail", "full"}
    /\ rankedIds \in Seq(Videos)
    /\ rankedOffset \in Nat
    /\ began \in SUBSET Videos

Least(m, n) == IF m < n THEN m ELSE n

First(q, n) == SubSeq(q, 1, Least(n, Len(q)))

LastFew(q, n) == SubSeq(q, Len(q) - Least(n, Len(q)) + 1, Len(q))

\* Mutated form of Newest: ascending order.
Oldest(S) ==
    [i \in 1..Cardinality(S) |-> CHOOSE v \in S : Cardinality({w \in S : w < v}) = i - 1]

\* ORDER BY inserted_at DESC, id DESC: the i-th video has i - 1 newer ones.
Newest(S) ==
    [i \in 1..Cardinality(S) |-> CHOOSE v \in S : Cardinality({w \in S : w > v}) = i - 1]

\* Mutated form of Before: the cursor compares with <=.
BeforeOrAt(cursor) == {v \in stored : v <= cursor}

\* WHERE (inserted_at, id) < cursor
Before(cursor) == {v \in stored : v < cursor}

\* Mutated form of More: the query is limited to one page.
MoreOfLimited(q) == Len(First(q, PageSize)) > PageSize

\* take_page: whether anything follows the page.
More(q) == Len(q) > PageSize

Page(q) == First(q, PageSize)

ModeFor(more) == IF more THEN "head" ELSE "full"

\* Start the list with the first page of q: mount and jump-to-start.
Begin(q) ==
    /\ videos' = Page(q)
    /\ hasMore' = More(q)
    /\ mode' = ModeFor(More(q))
    /\ rankedOffset' = IF rankedIds' = <<>> THEN 0 ELSE Len(Page(q))
    /\ began' = stored

\* mount; without a user or a taste vector nothing is ranked.
Mount ==
    /\ \E ranking \in {<<>>} \cup {r \in Rankings : ToSet(r) \subseteq stored} :
          rankedIds' = ranking
    /\ Begin(IF rankedIds' = <<>> THEN Newest(stored) ELSE rankedIds')
    /\ UNCHANGED stored

\* load-more that has nothing to do.
LoadNothing ==
    /\ mode # "head" \/ ~hasMore
    /\ UNCHANGED serverVars

\* Mutated form of LoadOlder: the page is replaced by the next one.
LoadOlderOnly ==
    /\ mode = "head" /\ hasMore
    /\ rankedIds = <<>>
    /\ LET rest == Newest(Before(Last(videos)))
       IN /\ videos' = Page(rest)
          /\ hasMore' = More(rest)
          /\ mode' = ModeFor(More(rest))
    /\ UNCHANGED <<stored, rankedIds, rankedOffset, began>>

LoadOlder ==
    /\ mode = "head" /\ hasMore
    /\ rankedIds = <<>>
    /\ LET rest == Newest(Before(Last(videos)))
       IN /\ videos' = videos \o Page(rest)
          /\ hasMore' = More(rest)
          /\ mode' = ModeFor(More(rest))
    /\ UNCHANGED <<stored, rankedIds, rankedOffset, began>>

LoadRanked ==
    /\ mode = "head" /\ hasMore
    /\ rankedIds # <<>>
    /\ LET rest == SubSeq(rankedIds, rankedOffset + 1, Len(rankedIds))
       IN /\ videos' = videos \o Page(rest)
          /\ rankedOffset' = rankedOffset + Len(Page(rest))
          /\ hasMore' = (rankedOffset' < Len(rankedIds))
          /\ mode' = ModeFor(hasMore')
    /\ UNCHANGED <<stored, rankedIds, began>>

LoadMore == LoadNothing \/ LoadOlder \/ LoadRanked

\* Mutated form of JumpToEnd: a page that is complete by now does not jump.
JumpToEndFromHead ==
    IF mode = "head"
    THEN /\ videos' = LastFew(Newest(stored), WrapWindow)
         /\ hasMore' = FALSE
         /\ mode' = "tail"
         /\ UNCHANGED <<stored, rankedIds, rankedOffset, began>>
    ELSE UNCHANGED serverVars

\* The last videos: of the ranking, or of the table.
JumpToEnd ==
    /\ videos' = LastFew(IF rankedIds = <<>> THEN Newest(stored) ELSE rankedIds,
                         WrapWindow)
    /\ hasMore' = FALSE
    /\ mode' = "tail"
    /\ UNCHANGED <<stored, rankedIds, rankedOffset, began>>

\* Mutated form of JumpToStart: the mode is not assigned.
JumpToStartModeless ==
    /\ videos' = Page(IF rankedIds = <<>> THEN Newest(stored) ELSE rankedIds)
    /\ began' = stored
    /\ UNCHANGED <<stored, hasMore, mode, rankedIds, rankedOffset>>

JumpToStart ==
    /\ rankedIds' = rankedIds
    /\ Begin(IF rankedIds = <<>> THEN Newest(stored) ELSE rankedIds)
    /\ UNCHANGED stored

\* A transaction of an upload or an import commits.
Publish ==
    /\ \E v \in Videos \ stored : stored' = stored \cup {v}
    /\ UNCHANGED <<videos, hasMore, mode, rankedIds, rankedOffset, began>>

-----------------------------------------------------------------------------
(* Properties *)

\* The same video is never listed twice, also when load-more is sent twice or
\* crosses another event and when rows are added above the cursor.
NoRepeat == \A i, j \in DOMAIN videos : videos[i] = videos[j] => i = j

\* Paging skips nothing: whatever was stored when the list was started and lies
\* between its first and its last video is listed, newest first.
NoGap ==
    rankedIds = <<>> =>
        /\ \A i, j \in DOMAIN videos : i < j => videos[i] > videos[j]
        /\ \A v \in began :
              Last(videos) <= v /\ v <= videos[1] => v \in ToSet(videos)

\* Before the feed wraps around it has shown everything: a list marked full
\* holds every video there was when it was started, or the whole ranking.
FullIsAll ==
    mode = "full" =>
        IF rankedIds = <<>> THEN began \subseteq ToSet(videos)
                            ELSE videos = rankedIds

=============================================================================
