----------------------------- MODULE FeedProofs -----------------------------
(***************************************************************************)
(* Proofs about the feed page, for any videos, any rankings, any sizes of  *)
(* the page and the wrap window, and any number of lost connections.       *)
(***************************************************************************)
EXTENDS Feed, Integers, WellFoundedInduction, FiniteSetTheorems, FunctionTheorems,
        SequenceTheorems, TLAPS

-----------------------------------------------------------------------------
\* The invariant.

Listed(v, list) == \E i \in DOMAIN list : list[i] = v

Descends(list) == \A i, j \in DOMAIN list : i < j => list[i] > list[j]

\* The newest first: what a list that was started afresh lacks is older than
\* all of it, and nothing that was there lies between two neighbours.
ByAge(list, rows, listMode, old) ==
    /\ \A i \in DOMAIN list : list[i] \in rows
    /\ Descends(list)
    /\ \A v \in old : list[Len(list)] <= v /\ v <= list[1] => Listed(v, list)
    /\ listMode # "tail" => \A v \in old : Listed(v, list) \/ v < list[Len(list)]
    /\ listMode = "full" => \A v \in old : Listed(v, list)

\* Ranked: the offset says how much of the ranking is listed.
ByRank(list, listMode, ids, offset) ==
    /\ \A i, j \in DOMAIN list : list[i] = list[j] => i = j
    /\ listMode # "tail" =>
          /\ offset = Len(list) /\ offset <= Len(ids)
          /\ \A i \in 1..offset : list[i] = ids[i]
    /\ listMode = "full" => offset = Len(ids)

Modes == {"head", "tail", "full"}

Renders == {p \in [videos : Seq(Videos), hasMore : BOOLEAN, mode : Modes] : p.videos # <<>>}

ServerOK(rows, list, more, listMode, ids, offset, old) ==
    /\ rows \subseteq Videos /\ IsFiniteSet(rows) /\ rows # {} /\ old \subseteq rows
    /\ list \in Seq(Videos) /\ list # <<>>
    /\ more \in BOOLEAN /\ listMode \in Modes /\ offset \in Nat
    /\ ids \in Rankings \cup {<<>>}
    /\ ids = <<>> => ByAge(list, rows, listMode, old)
    /\ ids # <<>> => ByRank(list, listMode, ids, offset)

ServerInv == ServerOK(stored, videos, hasMore, mode, rankedIds, rankedOffset, began)

\* What is on its way to the browser and on its screen are pages with videos.
HookTypes ==
    /\ connected \in BOOLEAN
    /\ toServer \in Seq({"load-more", "jump-to-end", "jump-to-start"})
    /\ toBrowser \in Seq(Renders)
    /\ page \in Renders
    /\ visible \in 1..LastPlace(page)
    /\ activeIndex \in 1..LastPlace(page)
    /\ activeVideoEl = 0 \/ OnPage(page, activeVideoEl)
    /\ {noticed, loadingMore, pendingJumpToEnd, pendingJumpToStart} \subseteq BOOLEAN
    /\ activeWatch \in Videos \cup {0}
    /\ drops \in 0..MaxDrops

Waits == pendingJumpToEnd \/ pendingJumpToStart

\* A render across a jump: a tail while the page is not one, or the reverse.
Across(p) == (p.mode = "tail") # (page.mode = "tail")

NewestRender == IF toBrowser = <<>> THEN page ELSE toBrowser[Len(toBrowser)]

Jump(e) == e # "load-more"

Linked ==
    /\ ~connected => toServer = <<>> /\ toBrowser = <<>>
    /\ connected => Shown = NewestRender

Sided ==
    /\ pendingJumpToEnd => page.mode # "tail"
    /\ pendingJumpToStart => page.mode = "tail"

Crossing ==
    \A i \in DOMAIN toBrowser : Across(toBrowser[i]) =>
        Waits /\ \A j \in DOMAIN toBrowser : i < j => Across(toBrowser[j])

Asked ==
    \A i \in DOMAIN toServer : Jump(toServer[i]) =>
        /\ toServer[i] = IF page.mode = "tail" THEN "jump-to-start" ELSE "jump-to-end"
        /\ Waits
        /\ \A j \in DOMAIN toBrowser : ~Across(toBrowser[j])

\* A jump is under way when the browser waits for one, it is the one that leads
\* away from the page, and no render across it is on its way yet; once there is
\* one, all that follow are.
JumpInv == Linked /\ Sided /\ Crossing /\ Asked /\ OneJump /\ StartAnswered

IInv == ServerInv /\ HookTypes /\ JumpInv

-----------------------------------------------------------------------------
\* Every finite set of videos can be put in order: by induction on its size, as
\* a set of numbers that is not empty has a least one.

Below == {p \in Nat \X Nat : p[1] < p[2]}

LEMMA LeastNumber ==
    ASSUME NEW T, T \subseteq Nat, T # {}
    PROVE  \E x \in T : \A y \in T : x <= y
<1>1. Below = OpToRel(<, Nat)
  BY DEF Below, OpToRel
<1>2. IsWellFoundedOn(Below, Nat)
  BY <1>1, NatLessThanWellFounded
<1>3. \E x \in T : \A y \in T : ~ (<<y, x>> \in Below)
  BY <1>2, WFMin
<1>4. \A x, y \in Nat : ~(<<y, x>> \in Below) => x <= y
  BY DEF Below
<1> QED
  BY <1>3, <1>4

Sorts(q, S) ==
    /\ q \in [1..Cardinality(S) -> S]
    /\ \A i, j \in 1..Cardinality(S) : i < j => q[i] > q[j]
    /\ \A x \in S : \E i \in 1..Cardinality(S) : q[i] = x

Sortable(n) ==
    \A S : S \subseteq Nat /\ IsFiniteSet(S) /\ Cardinality(S) = n => \E q : Sorts(q, S)

LEMMA SortOneMore ==
    ASSUME NEW n \in Nat, Sortable(n)
    PROVE  Sortable(n + 1)
<1> SUFFICES ASSUME NEW S, S \subseteq Nat, IsFiniteSet(S), Cardinality(S) = n + 1
             PROVE  \E q : Sorts(q, S)
  BY DEF Sortable
<1>1. S # {}
  BY FS_EmptySet
<1>2. PICK m \in S : \A y \in S : m <= y
  BY <1>1, LeastNumber
<1> DEFINE rest == S \ {m}
<1>3. IsFiniteSet(rest) /\ Cardinality(rest) = n /\ rest \subseteq Nat
  BY FS_RemoveElement
<1>4. PICK p : Sorts(p, rest)
  BY <1>3 DEF Sortable
<1>5. /\ p \in [1..n -> rest]
      /\ \A i, j \in 1..n : i < j => p[i] > p[j]
      /\ \A x \in rest : \E i \in 1..n : p[i] = x
  BY <1>3, <1>4 DEF Sorts
<1> HIDE DEF rest
<1>6. rest \subseteq S /\ \A y \in rest : y > m
  BY <1>2 DEF rest
<1> DEFINE q == [i \in 1..(n + 1) |-> IF i = n + 1 THEN m ELSE p[i]]
<1>7. \A i \in 1..(n + 1) : i = n + 1 \/ i \in 1..n
  OBVIOUS
<1>8. q \in [1..(n + 1) -> S]
  BY <1>5, <1>6, <1>7
<1>9. \A i, j \in 1..(n + 1) : i < j => q[i] > q[j]
  <2> SUFFICES ASSUME NEW i \in 1..(n + 1), NEW j \in 1..(n + 1), i < j PROVE q[i] > q[j]
    OBVIOUS
  <2>1. q[i] = p[i] /\ i \in 1..n /\ p[i] \in rest
    BY <1>5
  <2>2. CASE j = n + 1
    BY <1>6, <2>1, <2>2
  <2>3. CASE j # n + 1
    <3>1. q[j] = p[j] /\ j \in 1..n
      BY <2>3
    <3> QED
      BY <1>5, <2>1, <3>1
  <2> QED
    BY <2>2, <2>3
<1>10. \A x \in S : \E i \in 1..(n + 1) : q[i] = x
  <2> SUFFICES ASSUME NEW x \in S PROVE \E i \in 1..(n + 1) : q[i] = x
    OBVIOUS
  <2>1. CASE x = m
    <3>1. n + 1 \in 1..(n + 1)
      OBVIOUS
    <3> QED
      BY <2>1, <3>1
  <2>2. CASE x # m
    <3>1. PICK i \in 1..n : p[i] = x
      BY <1>5, <2>2 DEF rest
    <3>2. i \in 1..(n + 1) /\ q[i] = x
      BY <3>1
    <3> QED
      BY <3>2
  <2> QED
    BY <2>1, <2>2
<1> QED
  BY <1>8, <1>9, <1>10 DEF Sorts

LEMMA AllSortable == \A n \in Nat : Sortable(n)
<1> DEFINE T == {n \in Nat : ~Sortable(n)}
<1> SUFFICES ASSUME T # {} PROVE FALSE
  OBVIOUS
<1>1. PICK n \in T : \A k \in T : n <= k
  BY LeastNumber
<1>2. n # 0
  <2> SUFFICES Sortable(0)
    BY <1>1
  <2> SUFFICES ASSUME NEW S, IsFiniteSet(S), Cardinality(S) = 0 PROVE \E q : Sorts(q, S)
    BY DEF Sortable
  <2>1. S = {}
    BY FS_EmptySet
  <2>2. 1..0 = {}
    OBVIOUS
  <2>3. Sorts([i \in {} |-> i], S)
    BY <2>1, <2>2 DEF Sorts
  <2> QED
    BY <2>3
<1>3. n - 1 \in Nat /\ Sortable(n - 1)
  BY <1>1, <1>2
<1> QED
  BY <1>1, <1>3, SortOneMore

\* In order, the i-th video has i - 1 newer ones.
LEMMA NewerOnes ==
    ASSUME NEW S, S \subseteq Nat, NEW n \in Nat, NEW q \in [1..n -> S],
           \A i, j \in 1..n : i < j => q[i] > q[j],
           \A x \in S : \E i \in 1..n : q[i] = x,
           NEW k \in 1..n
    PROVE  Cardinality({w \in S : w > q[k]}) = k - 1
<1> DEFINE T == {w \in S : w > q[k]}
           f == [i \in 1..(k - 1) |-> q[i]]
<1>1. \A i \in 1..n : q[i] \in Nat
  OBVIOUS
<1>2. \A i \in 1..(k - 1) : i \in 1..n /\ i < k
  OBVIOUS
<1>3. f \in [1..(k - 1) -> T]
  BY <1>2
<1>4. \A i, j \in 1..(k - 1) : i # j => f[i] # f[j]
  <2> SUFFICES ASSUME NEW i \in 1..(k - 1), NEW j \in 1..(k - 1), i # j PROVE q[i] # q[j]
    OBVIOUS
  <2>1. i < j \/ j < i
    OBVIOUS
  <2> QED
    BY <1>1, <1>2, <2>1
<1>5. \A w \in T : \E i \in 1..(k - 1) : f[i] = w
  <2> SUFFICES ASSUME NEW w \in T PROVE \E i \in 1..(k - 1) : q[i] = w
    OBVIOUS
  <2>1. PICK i \in 1..n : q[i] = w
    OBVIOUS
  <2>2. q[i] > q[k] /\ q[i] \in Nat /\ q[k] \in Nat
    BY <1>1, <2>1
  <2>3. ~(k < i) /\ k # i
    <3>1. k < i => q[k] > q[i]
      OBVIOUS
    <3> QED
      BY <2>2, <3>1
  <2>4. i \in 1..(k - 1)
    BY <2>3
  <2> QED
    BY <2>1, <2>4
<1>6. f \in Bijection(1..(k - 1), T)
  BY <1>3, <1>4, <1>5, Fun_IsBij
<1>7. ExistsBijection(1..(k - 1), T)
  BY <1>6 DEF ExistsBijection
<1>8. k - 1 \in Nat
  OBVIOUS
<1> HIDE DEF T, f
<1>9. Cardinality(T) = k - 1
  BY <1>7, <1>8, FS_CountingElements
<1> QED
  BY <1>9 DEF T

\* ORDER BY inserted_at DESC, id DESC.
LEMMA NewestFacts ==
    ASSUME NEW S, S \subseteq Nat, IsFiniteSet(S)
    PROVE  /\ Newest(S) \in Seq(S) /\ Len(Newest(S)) = Cardinality(S)
           /\ Descends(Newest(S))
           /\ \A x \in S : Listed(x, Newest(S))
<1> DEFINE n == Cardinality(S)
<1>1. n \in Nat
  BY FS_CardinalityType
<1>2. PICK q : Sorts(q, S)
  BY <1>1, AllSortable DEF Sortable
<1>3. /\ q \in [1..n -> S]
      /\ \A i, j \in 1..n : i < j => q[i] > q[j]
      /\ \A x \in S : \E i \in 1..n : q[i] = x
  BY <1>2 DEF Sorts
<1>4. Newest(S) = [i \in 1..n |-> CHOOSE v \in S : Cardinality({w \in S : w > v}) = i - 1]
  BY DEF Newest
<1> HIDE DEF n
<1>5. ASSUME NEW i \in 1..n PROVE Newest(S)[i] = q[i]
  <2>1. \A k \in 1..n : Cardinality({w \in S : w > q[k]}) = k - 1
    BY <1>1, <1>3, NewerOnes
  <2>2. \E v \in S : Cardinality({w \in S : w > v}) = i - 1
    BY <1>3, <2>1
  <2>3. \A v \in S : Cardinality({w \in S : w > v}) = i - 1 => v = q[i]
    <3> SUFFICES ASSUME NEW v \in S, Cardinality({w \in S : w > v}) = i - 1 PROVE v = q[i]
      OBVIOUS
    <3>1. PICK k \in 1..n : q[k] = v
      BY <1>3
    <3>2. k - 1 = i - 1
      BY <2>1, <3>1
    <3>3. k = i
      BY <3>2
    <3> QED
      BY <3>1, <3>3
  <2> QED
    BY <1>4, <2>2, <2>3
<1>6. Newest(S) = q
  BY <1>3, <1>4, <1>5
<1>7. q \in Seq(S) /\ Len(q) = n /\ DOMAIN q = 1..n
  BY <1>1, <1>3
<1> QED
  BY <1>3, <1>6, <1>7 DEF Descends, Listed, n

-----------------------------------------------------------------------------
\* Pages and tails of a list.

LEMMA WiderSeq ==
    ASSUME NEW S, NEW T, S \subseteq T, NEW s \in Seq(S)
    PROVE  s \in Seq(T)
  OBVIOUS

LEMMA ElementOf ==
    ASSUME NEW S, NEW s \in Seq(S), NEW i \in DOMAIN s
    PROVE  s[i] \in S
  OBVIOUS

USE VideosAssumption, PageAssumption, RankingAssumption

LEMMA SubSeqFacts ==
    ASSUME NEW S, NEW q \in Seq(S), NEW m \in 1..(Len(q) + 1), NEW n \in 0..Len(q), m <= n + 1
    PROVE  /\ SubSeq(q, m, n) \in Seq(S) /\ Len(SubSeq(q, m, n)) = n + 1 - m
           /\ DOMAIN SubSeq(q, m, n) = 1..(n + 1 - m)
           /\ \A i \in 1..(n + 1 - m) : SubSeq(q, m, n)[i] = q[m + i - 1]
<1>1. Len(q) \in Nat
  OBVIOUS
<1>2. \A i \in m..n : i \in 1..Len(q)
  BY <1>1
<1>3. \A i \in m..n : q[i] \in S
  BY <1>2
<1>4. SubSeq(q, m, n) \in Seq(S) /\ Len(SubSeq(q, m, n)) = n + 1 - m
  BY <1>1, <1>3
<1>5. \A i \in 1..(n + 1 - m) : SubSeq(q, m, n)[i] = q[m + i - 1]
  BY <1>1, <1>3
<1> QED
  BY <1>4, <1>5

LEMMA PageFacts ==
    ASSUME NEW S, NEW q \in Seq(S)
    PROVE  /\ Page(q) \in Seq(S) /\ DOMAIN Page(q) = 1..Len(Page(q))
           /\ Len(Page(q)) \in Nat /\ Len(Page(q)) <= Len(q)
           /\ q # <<>> => Len(Page(q)) > 0
           /\ ~More(q) => Len(Page(q)) = Len(q)
           /\ \A i \in 1..Len(Page(q)) : Page(q)[i] = q[i]
<1> DEFINE n == Least(PageSize, Len(q))
<1>1. /\ n \in 0..Len(q) /\ Len(q) \in Nat /\ (Len(q) > 0 => n > 0)
      /\ ~More(q) => n = Len(q)
  BY DEF Least, More
<1>2. Page(q) = SubSeq(q, 1, n)
  BY DEF Page, First
<1> HIDE DEF n
<1>3. 1 \in 1..(Len(q) + 1) /\ 1 <= n + 1 /\ n + 1 - 1 = n /\ \A i \in 1..n : 1 + i - 1 = i
  BY <1>1
<1>4. /\ Page(q) \in Seq(S) /\ Len(Page(q)) = n /\ DOMAIN Page(q) = 1..n
      /\ \A i \in 1..n : Page(q)[i] = q[i]
  BY <1>1, <1>2, <1>3, SubSeqFacts
<1>5. q # <<>> => Len(q) > 0
  OBVIOUS
<1> QED
  BY <1>1, <1>4, <1>5

LEMMA LastFewFacts ==
    ASSUME NEW S, NEW q \in Seq(S), q # <<>>
    PROVE  LET tail == LastFew(q, WrapWindow)
           IN  /\ tail \in Seq(S) /\ Len(tail) \in 1..Len(q)
               /\ DOMAIN tail = 1..Len(tail)
               /\ \A i \in 1..Len(tail) :
                     /\ Len(q) - Len(tail) + i \in 1..Len(q)
                     /\ tail[i] = q[Len(q) - Len(tail) + i]
<1> DEFINE n == Least(WrapWindow, Len(q))
           m == Len(q) - n + 1
           tail == LastFew(q, WrapWindow)
<1>1. Len(q) \in Nat \ {0} /\ n \in 1..Len(q)
  BY DEF Least
<1>2. tail = SubSeq(q, m, Len(q))
  BY DEF LastFew
<1> HIDE DEF n, tail
<1>3. /\ m \in 1..(Len(q) + 1) /\ m <= Len(q) + 1 /\ Len(q) + 1 - m = n /\ Len(q) \in 0..Len(q)
      /\ \A i \in 1..n : m + i - 1 = Len(q) - n + i /\ Len(q) - n + i \in 1..Len(q)
  BY <1>1
<1> HIDE DEF m
<1>4. /\ tail \in Seq(S) /\ Len(tail) = n /\ DOMAIN tail = 1..n
      /\ \A i \in 1..n : tail[i] = q[m + i - 1]
  BY <1>2, <1>3, SubSeqFacts
<1> QED
  BY <1>1, <1>3, <1>4 DEF tail

-----------------------------------------------------------------------------
\* The handlers of the server.

\* A table that is not empty has a feed.
LEMMA NewestTable ==
    ASSUME NEW rows, rows \subseteq Videos, IsFiniteSet(rows)
    PROVE  /\ Newest(rows) \in Seq(rows) /\ Newest(rows) \in Seq(Videos)
           /\ rows # {} => Newest(rows) # <<>>
           /\ Descends(Newest(rows)) /\ \A v \in rows : Listed(v, Newest(rows))
<1>1. rows \subseteq Nat
  OBVIOUS
<1>2. /\ Newest(rows) \in Seq(rows) /\ Descends(Newest(rows))
      /\ \A v \in rows : Listed(v, Newest(rows))
  BY <1>1, NewestFacts
<1>3. Newest(rows) \in Seq(Videos)
  BY <1>2, WiderSeq
<1>4. rows # {} => Newest(rows) # <<>>
  <2> SUFFICES ASSUME NEW v \in rows PROVE Newest(rows) # <<>>
    OBVIOUS
  <2>1. \E i \in DOMAIN Newest(rows) : Newest(rows)[i] = v
    BY <1>2 DEF Listed
  <2>2. DOMAIN <<>> = {}
    OBVIOUS
  <2> QED
    BY <2>1, <2>2
<1> QED
  BY <1>2, <1>3, <1>4

\* A list that is started afresh (mount, jump-to-start).
LEMMA BegunOK ==
    ASSUME NEW rows, rows \subseteq Videos, IsFiniteSet(rows), rows # {},
           NEW ids \in Rankings \cup {<<>>}, NEW q,
           q = IF ids = <<>> THEN Newest(rows) ELSE ids
    PROVE  ServerOK(rows, Page(q), More(q), ModeFor(More(q)), ids,
                    IF ids = <<>> THEN 0 ELSE Len(Page(q)), rows)
<1> DEFINE list == Page(q)
           listMode == ModeFor(More(q))
           offset == IF ids = <<>> THEN 0 ELSE Len(Page(q))
<1>1. q \in Seq(Videos) /\ q # <<>>
  BY NewestTable
<1>2. /\ list \in Seq(Videos) /\ DOMAIN list = 1..Len(list)
      /\ Len(list) \in Nat \ {0} /\ Len(list) <= Len(q) /\ list # <<>>
      /\ ~More(q) => Len(list) = Len(q)
      /\ \A i \in 1..Len(list) : list[i] = q[i]
  <2>1. /\ list \in Seq(Videos) /\ DOMAIN list = 1..Len(list)
        /\ Len(list) \in Nat /\ Len(list) <= Len(q) /\ Len(list) > 0
        /\ ~More(q) => Len(list) = Len(q)
        /\ \A i \in 1..Len(list) : list[i] = q[i]
    BY <1>1, PageFacts
  <2> HIDE DEF list
  <2> QED
    BY <2>1
<1>3. Len(q) \in Nat /\ DOMAIN q = 1..Len(q)
  BY <1>1
<1>4. listMode \in {"head", "full"} /\ (listMode = "full" => ~More(q)) /\ More(q) \in BOOLEAN
  BY <1>3 DEF ModeFor, More
<1> HIDE DEF list, listMode
<1>5. ASSUME ids = <<>> PROVE ByAge(list, rows, listMode, rows)
  <2>1. q = Newest(rows) /\ q \in Seq(rows) /\ Descends(q) /\ \A v \in rows : Listed(v, q)
    BY <1>5, NewestTable
  <2>2. \A i \in DOMAIN list : list[i] \in rows /\ i \in DOMAIN q /\ list[i] = q[i]
    BY <1>2, <1>3, <2>1
  <2>3. Descends(list)
    BY <2>1, <2>2 DEF Descends
  <2>4. ASSUME NEW v \in rows PROVE Listed(v, list) \/ v < list[Len(list)]
    <3>1. PICK i \in DOMAIN q : q[i] = v
      BY <2>1 DEF Listed
    <3>2. CASE i <= Len(list)
      <4>1. i \in DOMAIN list /\ list[i] = v
        BY <1>2, <1>3, <3>1, <3>2
      <4> QED
        BY <4>1 DEF Listed
    <3>3. CASE i > Len(list)
      <4>1. Len(list) \in DOMAIN q /\ Len(list) \in DOMAIN list /\ Len(list) < i
        BY <1>2, <1>3, <3>1, <3>3
      <4>2. q[Len(list)] > q[i] /\ q[Len(list)] = list[Len(list)]
        BY <2>1, <2>2, <4>1 DEF Descends
      <4>3. q[Len(list)] \in Nat /\ q[i] \in Nat
        BY <1>1, <3>1, <4>1, ElementOf
      <4> QED
        BY <3>1, <4>2, <4>3
    <3> QED
      BY <1>2, <1>3, <3>2, <3>3
  <2>5. \A v \in rows : list[Len(list)] <= v => Listed(v, list)
    <3> SUFFICES ASSUME NEW v \in rows, list[Len(list)] <= v PROVE Listed(v, list)
      OBVIOUS
    <3>1. list[Len(list)] \in Nat /\ v \in Nat
      <4>1. Len(list) \in DOMAIN list
        BY <1>2
      <4> QED
        BY <1>2, <4>1, ElementOf
    <3>2. ~(v < list[Len(list)])
      BY <3>1
    <3> QED
      BY <2>4, <3>2
  <2>6. listMode = "full" => \A v \in rows : Listed(v, list)
    <3> SUFFICES ASSUME listMode = "full", NEW v \in rows PROVE Listed(v, list)
      OBVIOUS
    <3>1. PICK i \in DOMAIN q : q[i] = v
      BY <2>1 DEF Listed
    <3>2. i \in DOMAIN list /\ list[i] = v
      BY <1>2, <1>3, <1>4, <3>1
    <3> QED
      BY <3>2 DEF Listed
  <2> QED
    BY <2>2, <2>3, <2>4, <2>5, <2>6 DEF ByAge
<1>6. ASSUME ids # <<>> PROVE ByRank(list, listMode, ids, offset)
  <2>1. q = ids /\ q \in Rankings /\ offset = Len(list)
    BY <1>6 DEF list
  <2>2. \A i, j \in DOMAIN q : q[i] = q[j] => i = j
    BY <2>1
  <2>3. \A i \in DOMAIN list : i \in DOMAIN q /\ list[i] = q[i]
    BY <1>2, <1>3
  <2>4. \A i, j \in DOMAIN list : list[i] = list[j] => i = j
    BY <2>2, <2>3
  <2> HIDE DEF offset
  <2> QED
    BY <1>2, <1>4, <2>1, <2>4 DEF ByRank
<1>7. offset \in Nat
  BY <1>2 DEF list
<1> HIDE DEF offset
<1>8. ServerOK(rows, list, More(q), listMode, ids, offset, rows)
  BY <1>2, <1>4, <1>5, <1>6, <1>7 DEF ServerOK, Modes
<1> QED
  BY <1>8 DEF list, listMode, offset

\* load-more for a feed in the order of the table.
LEMMA LoadOlderOK == ASSUME ServerInv, LoadOlder PROVE ServerInv'
<1> DEFINE n == Len(videos)
           last == videos[n]
           older == Before(last)
           rest == Newest(older)
           more == Page(rest)
           list == videos \o more
<1>1. /\ videos' = list /\ hasMore' = More(rest) /\ mode' = ModeFor(More(rest))
      /\ UNCHANGED <<stored, rankedIds, rankedOffset, began>>
      /\ rankedIds = <<>> /\ mode = "head"
  BY DEF LoadOlder, Last
<1>2. /\ stored \subseteq Videos /\ IsFiniteSet(stored) /\ stored # {} /\ began \subseteq stored
      /\ videos \in Seq(Videos) /\ videos # <<>> /\ rankedOffset \in Nat
      /\ rankedIds \in Rankings \cup {<<>>}
      /\ ByAge(videos, stored, mode, began)
  BY <1>1 DEF ServerInv, ServerOK
<1>3. /\ n \in Nat \ {0} /\ DOMAIN videos = 1..n /\ n \in DOMAIN videos
  BY <1>2
<1>4. \A i \in 1..n : videos[i] \in Videos /\ videos[i] \in Nat
  BY <1>2, <1>3, ElementOf
<1>5. /\ older \subseteq stored /\ older \subseteq Videos /\ IsFiniteSet(older)
      /\ \A v \in older : v < last
      /\ \A v \in stored : v < last => v \in older
  <2>1. older \subseteq stored /\ older \subseteq Videos
        /\ (\A v \in older : v < last) /\ (\A v \in stored : v < last => v \in older)
    BY <1>2 DEF Before
  <2> HIDE DEF older
  <2>2. IsFiniteSet(older)
    BY <1>2, <2>1, FS_Subset
  <2> QED
    BY <2>1, <2>2
<1> HIDE DEF older
<1>6. /\ rest \in Seq(older) /\ rest \in Seq(Videos)
      /\ Descends(rest) /\ \A v \in older : Listed(v, rest)
  BY <1>5, NewestTable
<1> HIDE DEF rest
<1> DEFINE k == Len(more)
<1>7. /\ more \in Seq(older) /\ more \in Seq(Videos) /\ DOMAIN more = 1..k
      /\ k \in Nat /\ k <= Len(rest) /\ (~More(rest) => k = Len(rest))
      /\ \A i \in 1..k : more[i] = rest[i]
  <2>1. more \in Seq(Videos)
    BY <1>6, PageFacts
  <2> QED
    BY <1>6, <2>1, PageFacts
<1> HIDE DEF more, n, k
<1>8. PICK r \in Nat : /\ Len(rest) = r /\ DOMAIN rest = 1..r
                       /\ k <= r /\ (~More(rest) => k = r)
  <2>1. Len(rest) \in Nat /\ DOMAIN rest = 1..Len(rest)
    BY <1>6
  <2> QED
    BY <1>7, <2>1
<1>9. \A i \in 1..k : more[i] \in older /\ more[i] \in Nat /\ i \in DOMAIN rest
  <2>1. \A i \in 1..k : more[i] \in older
    BY <1>7, ElementOf
  <2>2. \A i \in 1..k : i \in DOMAIN rest
    <3> SUFFICES ASSUME NEW i \in 1..k PROVE i \in 1..r
      BY <1>8
    <3>1. k \in Nat /\ k <= r
      BY <1>7, <1>8
    <3> QED
      BY <3>1
  <2> QED
    BY <1>5, <2>1, <2>2
<1>10. /\ list \in Seq(Videos) /\ Len(list) = n + k /\ DOMAIN list = 1..(n + k) /\ list # <<>>
       /\ \A i \in 1..n : list[i] = videos[i]
       /\ \A i \in 1..k : n + i \in 1..(n + k) /\ list[n + i] = more[i]
       /\ \A i \in 1..(n + k) : i \in 1..n \/ (i - n \in 1..k /\ list[i] = more[i - n])
  <2>1. /\ list \in Seq(Videos) /\ Len(list) = n + k /\ DOMAIN list = 1..(n + k)
        /\ \A i \in 1..n : list[i] = videos[i]
        /\ \A i \in (n + 1)..(n + k) : list[i] = more[i - n]
    BY <1>2, <1>7 DEF n, k
  <2> HIDE DEF list
  <2>2. list # <<>>
    BY <1>3, <1>7, <2>1
  <2>3. \A i \in 1..k : n + i \in (n + 1)..(n + k) /\ n + i \in 1..(n + k) /\ (n + i) - n = i
    BY <1>3, <1>7
  <2>4. \A i \in 1..(n + k) : i \in 1..n \/ (i \in (n + 1)..(n + k) /\ i - n \in 1..k)
    BY <1>3, <1>7
  <2> QED
    BY <2>1, <2>2, <2>3, <2>4
<1> HIDE DEF list
<1>11. \A i \in DOMAIN list : list[i] \in stored
  <2>1. \A i \in 1..n : videos[i] \in stored
    BY <1>2, <1>3 DEF ByAge
  <2> QED
    BY <1>5, <1>9, <1>10, <2>1
<1>12. Descends(list)
  <2> SUFFICES ASSUME NEW i \in 1..(n + k), NEW j \in 1..(n + k), i < j PROVE list[i] > list[j]
    BY <1>10 DEF Descends
  <2>1. CASE j \in 1..n
    <3>1. i \in 1..n
      BY <1>3, <2>1
    <3> QED
      BY <1>2, <1>3, <1>10, <2>1, <3>1 DEF ByAge, Descends
  <2>2. CASE i \in 1..n /\ j \notin 1..n
    <3>1. list[j] = more[j - n] /\ j - n \in 1..k
      BY <1>10, <2>2
    <3>2. list[j] < last /\ list[j] \in Nat
      BY <1>5, <1>9, <3>1
    <3>3. videos[i] >= last
      <4>1. CASE i = n
        BY <1>4, <1>3, <4>1
      <4>2. CASE i # n
        <5>1. i < n
          BY <1>3, <2>2, <4>2
        <5>2. videos[i] > last
          BY <1>2, <1>3, <2>2, <5>1 DEF ByAge, Descends
        <5> QED
          BY <1>3, <1>4, <2>2, <5>2
      <4> QED
        BY <4>1, <4>2
    <3>4. list[i] = videos[i] /\ videos[i] \in Nat /\ last \in Nat
      BY <1>3, <1>4, <1>10, <2>2
    <3> QED
      BY <3>2, <3>3, <3>4
  <2>3. CASE i \notin 1..n
    <3>1. j \notin 1..n
      BY <1>3, <2>3
    <3>2. /\ i - n \in 1..k /\ list[i] = more[i - n]
          /\ j - n \in 1..k /\ list[j] = more[j - n] /\ i - n < j - n
      BY <1>3, <1>7, <1>10, <2>3, <3>1
    <3>3. i - n \in DOMAIN rest /\ j - n \in DOMAIN rest
      BY <1>9, <3>2
    <3>4. rest[i - n] > rest[j - n]
      BY <1>6, <3>2, <3>3 DEF Descends
    <3> QED
      BY <1>7, <3>2, <3>4
  <2> QED
    BY <2>1, <2>2, <2>3
<1>13. ASSUME NEW v \in began
       PROVE  /\ Listed(v, list) \/ v < list[Len(list)]
              /\ mode' = "full" => Listed(v, list)
  <2>1. Listed(v, videos) \/ v < last
    BY <1>1, <1>2 DEF ByAge, n
  <2>2. CASE Listed(v, videos)
    <3>1. Listed(v, list)
      BY <1>3, <1>7, <1>10, <2>2 DEF Listed
    <3> QED
      BY <3>1
  <2>3. CASE v < last
    <3>1. v \in older /\ v \in Nat
      BY <1>2, <1>5, <2>3
    <3>2. PICK i \in 1..r : rest[i] = v
      BY <1>6, <1>8, <3>1 DEF Listed
    <3>3. CASE i <= k
      <4>1. i \in 1..k
        BY <1>7, <1>8, <3>2, <3>3
      <4>2. n + i \in DOMAIN list /\ list[n + i] = v
        BY <1>7, <1>10, <3>2, <4>1
      <4> QED
        BY <4>2 DEF Listed
    <3>4. CASE i > k
      <4>1. mode' # "full"
        <5>1. More(rest)
          <6>1. k # r
            BY <1>7, <3>4
          <6> QED
            BY <1>8, <6>1
        <5> QED
          BY <1>1, <5>1 DEF ModeFor
      <4>2. CASE k = 0
        <5>1. list[Len(list)] = last
          BY <1>3, <1>10, <4>2
        <5> QED
          BY <2>3, <4>1, <5>1
      <4>3. CASE k # 0
        <5>1. k \in 1..k /\ k \in DOMAIN rest /\ k < i /\ i \in DOMAIN rest
          <6>1. k \in 1..k
            BY <1>7, <4>3
          <6>2. i \in DOMAIN rest
            BY <1>8, <3>2
          <6> QED
            BY <1>9, <3>4, <6>1, <6>2
        <5>2. rest[k] > rest[i]
          BY <1>6, <5>1 DEF Descends
        <5>3. list[Len(list)] = rest[k] /\ rest[k] \in Nat
          BY <1>7, <1>9, <1>10, <5>1
        <5> QED
          BY <3>1, <3>2, <4>1, <5>2, <5>3
      <4> QED
        BY <4>2, <4>3
    <3> QED
      BY <1>7, <3>3, <3>4
  <2> QED
    BY <2>1, <2>2, <2>3
<1>14. \A v \in began : list[Len(list)] <= v => Listed(v, list)
  <2> SUFFICES ASSUME NEW v \in began, list[Len(list)] <= v PROVE Listed(v, list)
    OBVIOUS
  <2>1. Len(list) \in DOMAIN list
    BY <1>3, <1>7, <1>10
  <2>2. list[Len(list)] \in Nat /\ v \in Nat
    BY <1>2, <1>10, <2>1, ElementOf
  <2>3. ~(v < list[Len(list)])
    BY <2>2
  <2> QED
    BY <1>13, <2>3
<1>15. mode' \in Modes /\ hasMore' \in BOOLEAN
  BY <1>1, <1>8 DEF ModeFor, Modes, More
<1>16. ByAge(list, stored, mode', began)
  BY <1>11, <1>12, <1>13, <1>14 DEF ByAge
<1> QED
  BY <1>1, <1>2, <1>10, <1>15, <1>16 DEF ServerInv, ServerOK

\* load-more for a ranked feed.
LEMMA LoadRankedOK == ASSUME ServerInv, LoadRanked PROVE ServerInv'
<1> DEFINE n == rankedOffset
           rest == SubSeq(rankedIds, n + 1, Len(rankedIds))
           more == Page(rest)
           k == Len(more)
           list == videos \o more
<1>1. /\ videos' = list /\ rankedOffset' = n + k
      /\ hasMore' = (n + k < Len(rankedIds)) /\ mode' = ModeFor(n + k < Len(rankedIds))
      /\ UNCHANGED <<stored, rankedIds, began>>
      /\ rankedIds # <<>> /\ mode = "head"
  BY DEF LoadRanked
<1>2. /\ stored \subseteq Videos /\ IsFiniteSet(stored) /\ stored # {} /\ began \subseteq stored
      /\ videos \in Seq(Videos) /\ videos # <<>> /\ n \in Nat
      /\ rankedIds \in Rankings /\ rankedIds \in Seq(Videos)
      /\ n = Len(videos) /\ n <= Len(rankedIds)
      /\ \A i \in 1..n : videos[i] = rankedIds[i]
  BY <1>1 DEF ServerInv, ServerOK, ByRank
<1>3. Len(rankedIds) \in Nat /\ DOMAIN rankedIds = 1..Len(rankedIds) /\ DOMAIN videos = 1..n
  BY <1>2
<1>4. /\ rest \in Seq(Videos) /\ Len(rest) = Len(rankedIds) - n
      /\ \A i \in 1..Len(rest) : rest[i] = rankedIds[n + i]
  <2>1. /\ n + 1 \in 1..(Len(rankedIds) + 1) /\ Len(rankedIds) \in 0..Len(rankedIds)
        /\ n + 1 <= Len(rankedIds) + 1 /\ Len(rankedIds) + 1 - (n + 1) = Len(rankedIds) - n
        /\ \A i \in 1..(Len(rankedIds) - n) : n + 1 + i - 1 = n + i
    <3>1. PICK all \in Nat : Len(rankedIds) = all
      BY <1>3
    <3>2. n \in Nat /\ n <= all
      BY <1>2, <3>1
    <3> HIDE DEF n
    <3> QED
      BY <3>1, <3>2
  <2>2. /\ rest \in Seq(Videos) /\ Len(rest) = Len(rankedIds) + 1 - (n + 1)
        /\ \A i \in 1..(Len(rankedIds) + 1 - (n + 1)) : rest[i] = rankedIds[n + 1 + i - 1]
    BY <1>2, <2>1, SubSeqFacts
  <2> HIDE DEF rest
  <2> QED
    BY <2>1, <2>2
<1> HIDE DEF rest
<1>5. /\ more \in Seq(Videos) /\ DOMAIN more = 1..k /\ k \in Nat /\ k <= Len(rest)
      /\ \A i \in 1..k : more[i] = rest[i]
  BY <1>4, PageFacts
<1> HIDE DEF more, k
<1>6. /\ list \in Seq(Videos) /\ Len(list) = n + k /\ DOMAIN list = 1..(n + k)
      /\ \A i \in 1..n : list[i] = videos[i]
      /\ \A i \in (n + 1)..(n + k) : list[i] = more[i - n]
  BY <1>2, <1>5 DEF k
<1> HIDE DEF list, n
<1>7. \A i \in 1..(n + k) : list[i] = rankedIds[i]
  <2> SUFFICES ASSUME NEW i \in 1..(n + k) PROVE list[i] = rankedIds[i]
    OBVIOUS
  <2>1. CASE i <= n
    <3>1. i \in 1..n
      BY <1>2, <1>5, <2>1
    <3> QED
      BY <1>2, <1>6, <3>1
  <2>2. CASE i > n
    <3>1. /\ i \in (n + 1)..(n + k) /\ i - n \in 1..k /\ i - n \in 1..Len(rest)
          /\ n + (i - n) = i
      BY <1>2, <1>3, <1>4, <1>5, <2>2
    <3> QED
      BY <1>4, <1>5, <1>6, <3>1
  <2> QED
    BY <1>2, <1>5, <2>1, <2>2
<1>8. n + k \in Nat /\ n + k <= Len(rankedIds) /\ list # <<>>
  <2>1. n + k \in Nat /\ n + k <= Len(rankedIds) /\ n > 0
    BY <1>2, <1>3, <1>4, <1>5
  <2>2. Len(list) > 0
    BY <1>2, <1>5, <1>6, <2>1
  <2>3. list # <<>>
    BY <2>2
  <2> QED
    BY <2>1, <2>3
<1>9. \A i, j \in DOMAIN list : list[i] = list[j] => i = j
  <2>1. \A i \in DOMAIN list : i \in DOMAIN rankedIds /\ list[i] = rankedIds[i]
    BY <1>3, <1>6, <1>7, <1>8
  <2>2. \A i, j \in DOMAIN rankedIds : rankedIds[i] = rankedIds[j] => i = j
    BY <1>2
  <2> QED
    BY <2>1, <2>2
<1>10. mode' \in Modes /\ hasMore' \in BOOLEAN /\ (mode' = "full" => n + k = Len(rankedIds))
  BY <1>1, <1>3, <1>8 DEF ModeFor, Modes
<1>11. ByRank(list, mode', rankedIds, n + k)
  BY <1>6, <1>7, <1>8, <1>9, <1>10 DEF ByRank
<1> QED
  BY <1>1, <1>2, <1>6, <1>8, <1>10, <1>11 DEF ServerInv, ServerOK, n

\* What jump-to-end lists.
LEMMA TailOK ==
    ASSUME NEW rows, rows \subseteq Videos, IsFiniteSet(rows), rows # {},
           NEW old, old \subseteq rows, NEW offset \in Nat,
           NEW ids \in Rankings \cup {<<>>}, NEW q,
           q = IF ids = <<>> THEN Newest(rows) ELSE ids
    PROVE  ServerOK(rows, LastFew(q, WrapWindow), FALSE, "tail", ids, offset, old)
<1> DEFINE list == LastFew(q, WrapWindow)
           m == Len(q) - Len(list)
<1>1. q \in Seq(Videos) /\ q # <<>>
  BY NewestTable
<1>2. /\ list \in Seq(Videos) /\ Len(list) \in 1..Len(q) /\ DOMAIN list = 1..Len(list)
      /\ \A i \in 1..Len(list) : m + i \in 1..Len(q) /\ list[i] = q[m + i]
  BY <1>1, LastFewFacts
<1>3. PICK L \in Nat : Len(q) = L /\ DOMAIN q = 1..L
  BY <1>1
<1> HIDE DEF list
<1>4. PICK n \in Nat : Len(list) = n /\ n >= 1 /\ n <= L
  <2>1. Len(list) \in 1..L
    BY <1>2, <1>3
  <2> QED
    BY <1>3, <2>1
<1>5. m = L - n /\ m \in Nat
  BY <1>3, <1>4
<1> HIDE DEF m
<1>6. /\ DOMAIN list = 1..n /\ 1 \in 1..n /\ m + n = L
      /\ \A i \in 1..n : m + i \in DOMAIN q /\ list[i] = q[m + i]
  BY <1>2, <1>3, <1>4, <1>5
<1>7. list # <<>>
  <2>1. DOMAIN <<>> = {}
    OBVIOUS
  <2> QED
    BY <1>6, <2>1
<1>8. ASSUME ids = <<>> PROVE ByAge(list, rows, "tail", old)
  <2>1. q = Newest(rows) /\ q \in Seq(rows) /\ Descends(q) /\ \A v \in rows : Listed(v, q)
    BY <1>8, NewestTable
  <2>2. \A i \in DOMAIN list : list[i] \in rows
    BY <1>6, <2>1, ElementOf
  <2>3. Descends(list)
    <3> SUFFICES ASSUME NEW i \in 1..n, NEW j \in 1..n, i < j PROVE list[i] > list[j]
      BY <1>6 DEF Descends
    <3>1. m + i < m + j
      BY <1>5
    <3> QED
      BY <1>6, <2>1, <3>1 DEF Descends
  <2>4. ASSUME NEW v \in old, v <= list[1] PROVE Listed(v, list)
    <3>1. PICK i \in 1..L : q[i] = v
      BY <1>3, <2>1 DEF Listed
    <3>2. list[1] = q[m + 1] /\ m + 1 \in DOMAIN q
      BY <1>6
    <3>3. q[m + 1] \in Nat /\ v \in Nat
      BY <1>1, <3>2, ElementOf
    <3>4. ~(i < m + 1)
      <4>1. i < m + 1 => q[i] > q[m + 1]
        BY <1>3, <2>1, <3>1, <3>2 DEF Descends
      <4> QED
        BY <2>4, <3>1, <3>2, <3>3, <4>1
    <3>5. i - m \in 1..n /\ m + (i - m) = i
      BY <1>5, <1>6, <3>1, <3>4
    <3>6. i - m \in DOMAIN list /\ list[i - m] = v
      BY <1>6, <3>1, <3>5
    <3> QED
      BY <3>6 DEF Listed
  <2> QED
    BY <2>2, <2>3, <2>4 DEF ByAge
<1>9. ASSUME ids # <<>> PROVE ByRank(list, "tail", ids, offset)
  <2>1. \A i, j \in DOMAIN q : q[i] = q[j] => i = j
    BY <1>9
  <2>2. \A i, j \in DOMAIN list : list[i] = list[j] => i = j
    <3> SUFFICES ASSUME NEW i \in 1..n, NEW j \in 1..n, list[i] = list[j] PROVE i = j
      BY <1>6
    <3>1. m + i = m + j
      BY <1>6, <2>1
    <3> QED
      BY <1>5, <3>1
  <2> QED
    BY <2>2 DEF ByRank
<1>10. ServerOK(rows, list, FALSE, "tail", ids, offset, old)
  BY <1>2, <1>7, <1>8, <1>9 DEF ServerOK, Modes
<1> QED
  BY <1>10 DEF list

LEMMA ServerParts ==
    ASSUME ServerInv
    PROVE  /\ stored \subseteq Videos /\ IsFiniteSet(stored) /\ stored # {}
           /\ began \subseteq stored /\ rankedOffset \in Nat
           /\ rankedIds \in Rankings \cup {<<>>} /\ rankedIds \in Seq(Videos)
           /\ videos \in Seq(Videos) /\ videos # <<>> /\ hasMore \in BOOLEAN /\ mode \in Modes
<1>1. rankedIds \in Rankings \cup {<<>>}
  BY DEF ServerInv, ServerOK
<1>2. <<>> \in Seq(Videos)
  OBVIOUS
<1>3. rankedIds \in Seq(Videos)
  BY <1>1, <1>2
<1> QED
  BY <1>3 DEF ServerInv, ServerOK

LEMMA JumpToEndOK == ASSUME ServerInv, JumpToEnd PROVE ServerInv'
<1> DEFINE q == IF rankedIds = <<>> THEN Newest(stored) ELSE rankedIds
<1>1. ServerOK(stored, LastFew(q, WrapWindow), FALSE, "tail", rankedIds, rankedOffset, began)
  BY ServerParts, TailOK
<1> HIDE DEF q
<1>2. /\ videos' = LastFew(q, WrapWindow) /\ hasMore' = FALSE /\ mode' = "tail"
      /\ UNCHANGED <<stored, rankedIds, rankedOffset, began>>
  BY DEF JumpToEnd, q
<1> QED
  BY <1>1, <1>2 DEF ServerInv

LEMMA BeginOK ==
    ASSUME ServerInv, UNCHANGED stored, rankedIds' \in Rankings \cup {<<>>},
           Begin(IF rankedIds' = <<>> THEN Newest(stored) ELSE rankedIds')
    PROVE  ServerInv'
<1> DEFINE q == IF rankedIds' = <<>> THEN Newest(stored) ELSE rankedIds'
<1>1. ServerOK(stored, Page(q), More(q), ModeFor(More(q)), rankedIds',
               IF rankedIds' = <<>> THEN 0 ELSE Len(Page(q)), stored)
  BY ServerParts, BegunOK
<1> HIDE DEF q
<1>2. /\ videos' = Page(q) /\ hasMore' = More(q) /\ mode' = ModeFor(More(q))
      /\ rankedOffset' = (IF rankedIds' = <<>> THEN 0 ELSE Len(Page(q)))
      /\ began' = stored /\ stored' = stored
  BY DEF Begin, q
<1> QED
  BY <1>1, <1>2 DEF ServerInv

LEMMA JumpToStartOK == ASSUME ServerInv, JumpToStart PROVE ServerInv'
<1>1. rankedIds' = rankedIds /\ rankedIds' \in Rankings \cup {<<>>}
  BY ServerParts DEF JumpToStart
<1>2. Begin(IF rankedIds' = <<>> THEN Newest(stored) ELSE rankedIds')
  BY <1>1 DEF JumpToStart
<1> QED
  BY <1>1, <1>2, BeginOK DEF JumpToStart

LEMMA MountOK == ASSUME ServerInv, Mount PROVE ServerInv'
<1>1. rankedIds' \in Rankings \cup {<<>>}
  BY DEF Mount
<1> QED
  BY <1>1, BeginOK DEF Mount

LEMMA PublishOK == ASSUME ServerInv, Publish PROVE ServerInv'
<1>1. PICK v \in Videos : stored' = stored \cup {v}
  BY DEF Publish
<1>2. UNCHANGED <<videos, hasMore, mode, rankedIds, rankedOffset, began>>
  BY DEF Publish
<1>3. /\ stored' \subseteq Videos /\ IsFiniteSet(stored') /\ stored' # {} /\ stored \subseteq stored'
      /\ began' \subseteq stored'
  <2>1. IsFiniteSet(stored \cup {v})
    BY ServerParts, FS_AddElement
  <2> QED
    BY <1>1, <1>2, <2>1, ServerParts
<1>4. ByAge(videos, stored, mode, began) => ByAge(videos, stored', mode, began)
  BY <1>3 DEF ByAge
<1> QED
  BY <1>2, <1>3, <1>4 DEF ServerInv, ServerOK

LEMMA ServerSame == ASSUME ServerInv, UNCHANGED serverVars PROVE ServerInv'
  BY DEF ServerInv, serverVars

LEMMA LoadMoreOK == ASSUME ServerInv, LoadMore PROVE ServerInv'
  BY ServerSame, LoadOlderOK, LoadRankedOK DEF LoadMore, LoadNothing

LEMMA ServerInit == Init => ServerInv
<1> SUFFICES ASSUME Init PROVE ServerInv
  OBVIOUS
<1> DEFINE q == IF rankedIds = <<>> THEN Newest(stored) ELSE rankedIds
<1>1. /\ stored \subseteq Videos /\ stored # {} /\ IsFiniteSet(stored)
      /\ rankedIds \in Rankings \cup {<<>>}
  <2>1. stored \in (SUBSET Videos) \ {{}} /\ IsFiniteSet(stored)
    BY DEF Init
  <2>2. rankedIds \in {<<>>} \cup {r \in Rankings : ToSet(r) \subseteq stored}
    BY DEF Init
  <2> QED
    BY <2>1, <2>2
<1>2. ServerOK(stored, Page(q), More(q), ModeFor(More(q)), rankedIds,
               IF rankedIds = <<>> THEN 0 ELSE Len(Page(q)), stored)
  BY <1>1, BegunOK
<1> HIDE DEF q
<1>3. /\ videos = Page(q) /\ hasMore = More(q) /\ mode = ModeFor(More(q)) /\ began = stored
      /\ rankedOffset = IF rankedIds = <<>> THEN 0 ELSE Len(Page(q))
  BY DEF Init, q
<1> QED
  BY <1>2, <1>3 DEF ServerInv

-----------------------------------------------------------------------------
\* Places on a page.

LEMMA Places ==
    ASSUME NEW p \in Renders
    PROVE  /\ p.videos \in Seq(Videos) /\ p.hasMore \in BOOLEAN /\ p.mode \in Modes
           /\ FirstReal(p) \in 1..LastPlace(p) /\ LastReal(p) \in 1..LastPlace(p)
           /\ LastPlace(p) \in Nat \ {0}
           /\ \A n \in DOMAIN p.videos : PlaceOf(p, n) \in 1..LastPlace(p) /\ p.videos[n] \in Videos
           /\ \A place \in Int : Clamp(p, place) \in 1..LastPlace(p)
<1>1. p.videos \in Seq(Videos) /\ p.videos # <<>> /\ p.hasMore \in BOOLEAN /\ p.mode \in Modes
  BY DEF Renders
<1>2. PICK n \in Nat \ {0} : Len(p.videos) = n /\ DOMAIN p.videos = 1..n
  BY <1>1
<1>3. /\ FirstReal(p) \in {1, 2} /\ LastReal(p) = FirstReal(p) + n - 1
      /\ FirstReal(p) = 2 <=> HasClones(p)
  BY <1>2 DEF FirstReal, LastReal
<1>4. LastPlace(p) = IF HasClones(p) THEN LastReal(p) + 1 ELSE LastReal(p)
  BY DEF LastPlace
<1>5. /\ FirstReal(p) \in 1..LastPlace(p) /\ LastReal(p) \in 1..LastPlace(p)
      /\ LastPlace(p) \in Nat \ {0} /\ LastReal(p) <= LastPlace(p)
  BY <1>2, <1>3, <1>4
<1>6. ASSUME NEW i \in DOMAIN p.videos PROVE PlaceOf(p, i) \in 1..LastPlace(p)
  <2>1. i \in 1..n /\ PlaceOf(p, i) = FirstReal(p) + i - 1
    BY <1>2 DEF PlaceOf
  <2>2. FirstReal(p) + i - 1 >= 1 /\ FirstReal(p) + i - 1 <= FirstReal(p) + n - 1
    BY <1>3, <2>1
  <2> QED
    BY <1>2, <1>3, <1>5, <2>1, <2>2
<1>7. ASSUME NEW place \in Int PROVE Clamp(p, place) \in 1..LastPlace(p)
  BY <1>5 DEF Clamp
<1> QED
  BY <1>1, <1>5, <1>6, <1>7, ElementOf

LEMMA ClampOnPage ==
    ASSUME NEW p \in Renders, NEW place \in Int
    PROVE  Clamp(p, place) \in 1..LastPlace(p)
  BY Places

-----------------------------------------------------------------------------
\* The hook.

USE DEF viewVars, pendingVars, activeVars

Asks == {"load-more", "jump-to-end", "jump-to-start"}

\* toServer stays as it is, or load-more is sent.
Sends == toServer' = toServer \/ (connected' /\ toServer' = Append(toServer, "load-more"))

LEMMA MaybeRequestMoreFacts ==
    ASSUME toServer \in Seq(Asks), loadingMore \in BOOLEAN, NEW p \in Renders, NEW place,
           MaybeRequestMore(p, place)
    PROVE  Sends /\ loadingMore' \in BOOLEAN
<1> DEFINE wanted == p.hasMore /\ ~loadingMore /\ place >= LastReal(p) - 1
<1>1. /\ loadingMore' = (loadingMore \/ wanted)
      /\ toServer' = IF connected'
                     THEN toServer \o (IF wanted THEN <<"load-more">> ELSE <<>>)
                     ELSE toServer
  BY DEF MaybeRequestMore, Push
<1>2. toServer \o <<>> = toServer /\ toServer \o <<"load-more">> = Append(toServer, "load-more")
  BY DEF Asks
<1> HIDE DEF wanted
<1>3. CASE wanted
  BY <1>1, <1>2, <1>3 DEF Sends
<1>4. CASE ~wanted
  BY <1>1, <1>2, <1>4 DEF Sends
<1> QED
  BY <1>1, <1>3, <1>4

LEMMA SendsTyped ==
    ASSUME toServer \in Seq(Asks), Sends
    PROVE  toServer' \in Seq(Asks)
  BY DEF Sends, Asks

LEMMA ViewFacts ==
    ASSUME NEW p, NEW place, View(p, place), noticed \in BOOLEAN
    PROVE  page' = p /\ visible' = place /\ noticed' \in BOOLEAN
  BY DEF View

LEMMA UpdatedFacts ==
    ASSUME HookTypes, NEW p \in Renders, Updated(p)
    PROVE  /\ page' = p /\ visible' \in 1..LastPlace(p) /\ activeIndex' \in 1..LastPlace(p)
           /\ activeVideoEl' = 0 \/ OnPage(p, activeVideoEl')
           /\ {noticed, loadingMore, pendingJumpToEnd, pendingJumpToStart}' \subseteq BOOLEAN
           /\ activeWatch' = activeWatch /\ Sends
           /\ pendingJumpToEnd' = (pendingJumpToEnd /\ p.mode # "tail")
           /\ pendingJumpToStart' = (pendingJumpToStart /\ p.mode = "tail")
<1>1. /\ activeIndex' = ActiveAfter(p)
      /\ activeVideoEl' = IF OnPage(p, activeVideoEl) THEN activeVideoEl ELSE 0
      /\ MaybeRequestMore(p, activeIndex')
      /\ pendingJumpToEnd' = (pendingJumpToEnd /\ p.mode # "tail")
      /\ pendingJumpToStart' = (pendingJumpToStart /\ p.mode = "tail")
      /\ activeWatch' = activeWatch
  BY DEF Updated
<1>2. /\ toServer \in Seq(Asks) /\ visible \in Nat /\ activeIndex \in Nat
      /\ {noticed, loadingMore, pendingJumpToEnd, pendingJumpToStart} \subseteq BOOLEAN
  <2>1. page \in Renders /\ visible \in 1..LastPlace(page) /\ activeIndex \in 1..LastPlace(page)
    BY DEF HookTypes
  <2>2. visible \in Nat /\ activeIndex \in Nat
    BY <2>1, Places
  <2> QED
    BY <2>2 DEF HookTypes, Asks
<1>3. Sends /\ loadingMore' \in BOOLEAN
  BY <1>1, <1>2, MaybeRequestMoreFacts
<1>4. activeIndex' \in 1..LastPlace(p)
  <2>1. Clamp(p, activeIndex) \in 1..LastPlace(p)
    <3>1. activeIndex \in Int
      BY <1>2
    <3> QED
      BY <3>1, ClampOnPage
  <2>2. OnPage(p, activeVideoEl) => PlaceOf(p, activeVideoEl) \in 1..LastPlace(p)
    BY Places DEF OnPage
  <2> QED
    BY <1>1, <2>1, <2>2 DEF ActiveAfter
<1>5. \E place \in 1..LastPlace(p) : View(p, place)
  <2>1. CASE \E place \in PlacesAfter(p) : View(p, place)
    <3>1. PlacesAfter(p) \subseteq 1..LastPlace(p)
      <4>1. Clamp(p, visible) \in 1..LastPlace(p)
        <5>1. visible \in Int
          BY <1>2
        <5> QED
          BY <5>1, ClampOnPage
      <4>2. \A n \in DOMAIN p.videos : PlaceOf(p, n) \in 1..LastPlace(p)
        BY Places
      <4> QED
        BY <4>1, <4>2 DEF PlacesAfter
    <3> QED
      BY <2>1, <3>1
  <2>2. CASE View(p, LastReal(p)) \/ View(p, FirstReal(p))
    BY <2>2, Places
  <2> QED
    BY <2>1, <2>2 DEF Updated
<1>6. page' = p /\ visible' \in 1..LastPlace(p) /\ noticed' \in BOOLEAN
  BY <1>2, <1>5, ViewFacts
<1>7. {noticed, loadingMore, pendingJumpToEnd, pendingJumpToStart}' \subseteq BOOLEAN
  BY <1>1, <1>2, <1>3, <1>6
<1> QED
  BY <1>1, <1>3, <1>4, <1>6, <1>7

\* The hook's own steps, but for the two jumps, keep the page and what it waits for.
LEMMA QuietStep ==
    ASSUME HookTypes, HookNext, UNCHANGED <<serverVars, toBrowser, drops>>,
           ~PrevToEnd, ~NextToStart
    PROVE  /\ HookTypes'
           /\ UNCHANGED <<page, pendingJumpToEnd, pendingJumpToStart, connected>> /\ Sends
<1>0. /\ page \in Renders /\ visible \in 1..LastPlace(page) /\ activeIndex \in 1..LastPlace(page)
      /\ visible \in Nat /\ activeIndex \in Nat \ {0} /\ toServer \in Seq(Asks)
      /\ {noticed, loadingMore, pendingJumpToEnd, pendingJumpToStart} \subseteq BOOLEAN
  <2>1. page \in Renders /\ visible \in 1..LastPlace(page) /\ activeIndex \in 1..LastPlace(page)
    BY DEF HookTypes
  <2>2. visible \in Nat /\ activeIndex \in Nat \ {0}
    BY <2>1, Places
  <2> QED
    BY <2>1, <2>2 DEF HookTypes, Asks
<1>1. CASE Swipe
  <2>1. PICK place \in 1..LastPlace(page) : View(page, place)
    BY <1>1 DEF Swipe
  <2>2. page' = page /\ visible' = place /\ noticed' \in BOOLEAN
    BY <1>0, <2>1, ViewFacts
  <2> QED
    BY <1>0, <1>1, <2>2 DEF Swipe, HookTypes, Sends
<1>2. CASE ScrollBy
  <2>1. PICK place \in 1..LastPlace(page) : View(page, place)
    <3>1. activeIndex - 1 \in Int /\ activeIndex + 1 \in Int
      BY <1>0
    <3>2. /\ Clamp(page, activeIndex - 1) \in 1..LastPlace(page)
          /\ Clamp(page, activeIndex + 1) \in 1..LastPlace(page)
      BY <1>0, <3>1, ClampOnPage
    <3> QED
      BY <1>2, <3>2 DEF ScrollBy
  <2>2. page' = page /\ visible' = place /\ noticed' \in BOOLEAN
    BY <1>0, <2>1, ViewFacts
  <2> QED
    BY <1>0, <1>2, <2>2 DEF ScrollBy, HookTypes, Sends
<1>3. CASE HideTab
  BY <1>0, <1>3 DEF HideTab, HookTypes, Sends
<1>4. CASE NoticeClone
  <2>1. PICK place \in 1..LastPlace(page) : View(page, place)
    BY <1>0, <1>4, Places DEF NoticeClone
  <2>2. page' = page /\ visible' = place /\ noticed' \in BOOLEAN
    BY <1>0, <2>1, ViewFacts
  <2> QED
    BY <1>0, <1>4, <2>2 DEF NoticeClone, HookTypes, Sends
<1>5. CASE NoticeVideo
  <2> DEFINE n == ElementAt(page, visible)
  <2>1. /\ OnPage(page, n) /\ UNCHANGED <<connected, page, visible>> /\ noticed' = TRUE
        /\ activeIndex' = visible /\ activeVideoEl' = n
        /\ activeWatch' = (IF Changed THEN page.videos[n] ELSE activeWatch)
        /\ MaybeRequestMore(page, visible)
        /\ UNCHANGED <<pendingJumpToEnd, pendingJumpToStart>>
    BY <1>5 DEF NoticeVideo
  <2> HIDE DEF n
  <2>2. Sends /\ loadingMore' \in BOOLEAN
    BY <1>0, <2>1, MaybeRequestMoreFacts
  <2>3. toServer' \in Seq(Asks)
    BY <1>0, <2>2, SendsTyped
  <2>4. page.videos[n] \in Videos
    BY <1>0, <2>1, Places DEF OnPage
  <2>5. activeWatch' \in Videos \cup {0}
    BY <2>1, <2>4 DEF HookTypes
  <2> QED
    BY <1>0, <2>1, <2>2, <2>3, <2>5 DEF HookTypes, Asks
<1>6. CASE LoadingTimeout
  BY <1>0, <1>6 DEF LoadingTimeout, HookTypes, Sends
<1> QED
  BY <1>1, <1>2, <1>3, <1>4, <1>5, <1>6 DEF HookNext

-----------------------------------------------------------------------------
\* What is on its way, when something is added or taken.

LEMMA TailFacts ==
    ASSUME NEW S, NEW s \in Seq(S), s # <<>>
    PROVE  /\ Head(s) \in S /\ Head(s) = s[1] /\ 1 \in DOMAIN s
           /\ Tail(s) \in Seq(S) /\ Len(Tail(s)) = Len(s) - 1
           /\ \A i \in DOMAIN Tail(s) : i + 1 \in DOMAIN s /\ Tail(s)[i] = s[i + 1]
           /\ \A i \in DOMAIN s : i = 1 \/ (i - 1 \in DOMAIN Tail(s) /\ Tail(s)[i - 1] = s[i])
  OBVIOUS

LEMMA AppendFacts ==
    ASSUME NEW S, NEW s \in Seq(S), NEW e \in S
    PROVE  /\ Append(s, e) \in Seq(S) /\ Len(Append(s, e)) = Len(s) + 1
           /\ \A i \in DOMAIN s : i \in DOMAIN Append(s, e) /\ Append(s, e)[i] = s[i]
           /\ Len(s) + 1 \in DOMAIN Append(s, e) /\ Append(s, e)[Len(s) + 1] = e
           /\ \A i \in DOMAIN Append(s, e) : i \in DOMAIN s \/ i = Len(s) + 1
           /\ \A i \in DOMAIN s : i < Len(s) + 1
  OBVIOUS

LEMMA SendsFacts ==
    ASSUME toServer \in Seq(Asks), Sends
    PROVE  /\ \A i \in DOMAIN toServer : i \in DOMAIN toServer' /\ toServer'[i] = toServer[i]
           /\ \A i \in DOMAIN toServer' : Jump(toServer'[i]) =>
                 i \in DOMAIN toServer /\ toServer'[i] = toServer[i]
           /\ \A e : InFlight(e) => InFlight(e)'
<1>1. /\ \A i \in DOMAIN toServer : i \in DOMAIN toServer' /\ toServer'[i] = toServer[i]
      /\ \A i \in DOMAIN toServer' : Jump(toServer'[i]) =>
            i \in DOMAIN toServer /\ toServer'[i] = toServer[i]
  BY DEF Sends, Asks, Jump
<1> QED
  BY <1>1 DEF InFlight, ToSet

\* Nothing but load-more is sent, and the page stays.
LEMMA JumpQuiet ==
    ASSUME JumpInv, HookTypes, Sends,
           UNCHANGED <<connected, page, pendingJumpToEnd, pendingJumpToStart, toBrowser>>,
           Shown' = Shown
    PROVE  JumpInv'
<1>1. toServer \in Seq(Asks)
  BY DEF HookTypes, Asks
<1>2. /\ \A i \in DOMAIN toServer' : Jump(toServer'[i]) =>
            i \in DOMAIN toServer /\ toServer'[i] = toServer[i]
      /\ \A e : InFlight(e) => InFlight(e)'
  BY <1>1, SendsFacts
<1>3. Linked' /\ Sided'
  BY DEF JumpInv, Linked, NewestRender, Sided, Sends
<1>4. Crossing' /\ Asked'
  BY <1>2 DEF JumpInv, Crossing, Asked, Across, Waits
<1>5. OneJump'
  BY <1>2 DEF JumpInv, OneJump, Jump
<1>6. StartAnswered'
  BY <1>2 DEF JumpInv, StartAnswered
<1> QED
  BY <1>3, <1>4, <1>5, <1>6 DEF JumpInv

\* A jump is asked for.
LEMMA JumpAskedOK ==
    ASSUME JumpInv, HookTypes, ~Waits,
           NEW e, e = (IF page.mode = "tail" THEN "jump-to-start" ELSE "jump-to-end"),
           toServer' = IF connected THEN Append(toServer, e) ELSE toServer,
           pendingJumpToEnd' = (page.mode # "tail"),
           pendingJumpToStart' = (page.mode = "tail"),
           UNCHANGED <<connected, page, toBrowser>>, Shown' = Shown
    PROVE  JumpInv'
<1>1. /\ toServer \in Seq(Asks) /\ connected \in BOOLEAN /\ e \in Asks /\ Jump(e)
  BY DEF HookTypes, Asks, Jump
<1>2. \A j \in DOMAIN toBrowser : ~Across(toBrowser[j])
  BY DEF JumpInv, Crossing
<1>3. \A i \in DOMAIN toServer : ~Jump(toServer[i])
  BY DEF JumpInv, Asked
<1>4. \A i \in DOMAIN toServer' : Jump(toServer'[i]) =>
          connected /\ i = Len(toServer) + 1 /\ toServer'[i] = e
  BY <1>1, <1>3
<1>5. \A j \in DOMAIN toBrowser' : ~Across(toBrowser[j])'
  BY <1>2 DEF Across
<1>6. Waits'
  BY DEF Waits
<1>7. Linked' /\ Sided'
  BY <1>1 DEF JumpInv, Linked, NewestRender, Sided
<1>8. Crossing' /\ Asked'
  BY <1>4, <1>5, <1>6 DEF Crossing, Asked
<1>9. OneJump'
  <2>1. OneJump' = \A i, j \in DOMAIN toServer' : Jump(toServer'[i]) /\ Jump(toServer'[j]) => i = j
    BY DEF OneJump, Jump
  <2> QED
    BY <1>4, <2>1
<1>10. StartAnswered'
  <2> SUFFICES ASSUME connected, page.mode = "tail" PROVE InFlight("jump-to-start")'
    BY DEF StartAnswered
  <2>1. toServer' = Append(toServer, e) /\ e = "jump-to-start"
    OBVIOUS
  <2>2. Len(toServer) + 1 \in DOMAIN toServer' /\ toServer'[Len(toServer) + 1] = e
    BY <1>1, <2>1
  <2> QED
    BY <2>1, <2>2 DEF InFlight, ToSet
<1> QED
  BY <1>7, <1>8, <1>9, <1>10 DEF JumpInv

LEMMA PrevToEndOK ==
    ASSUME IInv, PrevToEnd, UNCHANGED <<serverVars, toBrowser, drops>>
    PROVE  HookTypes' /\ JumpInv'
<1>1. /\ page.mode = "head" /\ ~pendingJumpToEnd /\ pendingJumpToEnd' = TRUE
      /\ toServer' = IF connected THEN toServer \o <<"jump-to-end">> ELSE toServer
      /\ UNCHANGED <<connected, loadingMore, pendingJumpToStart, page, visible, noticed,
                     activeIndex, activeVideoEl, activeWatch>>
  BY DEF PrevToEnd, AsksForEnd, CanJumpToEnd, Push
<1>2. /\ toServer \in Seq(Asks) /\ connected \in BOOLEAN
      /\ {pendingJumpToEnd, pendingJumpToStart} \subseteq BOOLEAN
  BY DEF IInv, HookTypes, Asks
<1>3. toServer \o <<"jump-to-end">> = Append(toServer, "jump-to-end")
  BY <1>2 DEF Asks
<1>4. ~Waits /\ pendingJumpToStart' = (page.mode = "tail")
  BY <1>1, <1>2 DEF Waits, IInv, JumpInv, Sided
<1>5. toServer' \in Seq(Asks)
  <2>1. "jump-to-end" \in Asks
    BY DEF Asks
  <2>2. Append(toServer, "jump-to-end") \in Seq(Asks)
    BY <1>2, <2>1, AppendFacts
  <2> QED
    BY <1>1, <1>2, <1>3, <2>2
<1>6. HookTypes'
  BY <1>1, <1>5 DEF IInv, HookTypes, Asks
<1>7. Shown' = Shown
  BY DEF Shown, serverVars
<1>8. JumpInv'
  BY <1>1, <1>3, <1>4, <1>7, JumpAskedOK DEF IInv
<1> QED
  BY <1>6, <1>8

LEMMA NextToStartOK ==
    ASSUME IInv, NextToStart, UNCHANGED <<serverVars, toBrowser, drops>>
    PROVE  HookTypes' /\ JumpInv'
<1>1. /\ page.mode = "tail" /\ ~pendingJumpToStart /\ pendingJumpToStart' = TRUE
      /\ toServer' = IF connected THEN toServer \o <<"jump-to-start">> ELSE toServer
      /\ UNCHANGED <<connected, loadingMore, pendingJumpToEnd, page, visible, noticed,
                     activeIndex, activeVideoEl, activeWatch>>
  BY DEF NextToStart, AsksForStart, CanJumpToStart, Push
<1>2. /\ toServer \in Seq(Asks) /\ connected \in BOOLEAN
      /\ {pendingJumpToEnd, pendingJumpToStart} \subseteq BOOLEAN
  BY DEF IInv, HookTypes, Asks
<1>3. toServer \o <<"jump-to-start">> = Append(toServer, "jump-to-start")
  BY <1>2 DEF Asks
<1>4. ~Waits /\ pendingJumpToEnd' = (page.mode # "tail")
  BY <1>1, <1>2 DEF Waits, IInv, JumpInv, Sided
<1>5. toServer' \in Seq(Asks)
  <2>1. "jump-to-start" \in Asks
    BY DEF Asks
  <2>2. Append(toServer, "jump-to-start") \in Seq(Asks)
    BY <1>2, <2>1, AppendFacts
  <2> QED
    BY <1>1, <1>2, <1>3, <2>2
<1>6. HookTypes'
  BY <1>1, <1>5 DEF IInv, HookTypes, Asks
<1>7. Shown' = Shown
  BY DEF Shown, serverVars
<1>8. JumpInv'
  BY <1>1, <1>3, <1>4, <1>7, JumpAskedOK DEF IInv
<1> QED
  BY <1>6, <1>8

-----------------------------------------------------------------------------
\* The server handles an event.

LEMMA ShownFacts ==
    ASSUME ServerInv
    PROVE  Shown \in Renders /\ Shown.mode = mode
  BY ServerParts DEF Shown, Renders

\* The modes that the handlers leave behind.
LEMMA HandledModes ==
    ASSUME ServerInv
    PROVE  /\ LoadMore => (mode' = "tail" <=> mode = "tail")
           /\ JumpToEnd => mode' = "tail"
           /\ JumpToStart => mode' # "tail"
<1>1. LoadNothing => mode' = mode
  BY DEF LoadNothing, serverVars
<1>2. LoadOlder => mode = "head" /\ mode' # "tail"
  BY DEF LoadOlder, ModeFor
<1>3. LoadRanked => mode = "head" /\ mode' # "tail"
  BY DEF LoadRanked, ModeFor
<1>4. JumpToEnd => mode' = "tail"
  BY DEF JumpToEnd
<1>5. JumpToStart => mode' # "tail"
  BY DEF JumpToStart, Begin, ModeFor
<1> QED
  BY <1>1, <1>2, <1>3, <1>4, <1>5 DEF LoadMore

LEMMA ShownAcross ==
    ASSUME ServerInv, HookTypes, JumpInv, connected
    PROVE  /\ toBrowser = <<>> => ~Across(Shown)
           /\ toBrowser # <<>> =>
                 /\ Len(toBrowser) \in DOMAIN toBrowser
                 /\ Across(Shown) = Across(toBrowser[Len(toBrowser)])
<1>1. Shown = NewestRender /\ toBrowser \in Seq(Renders)
  BY DEF JumpInv, Linked, HookTypes
<1>2. toBrowser # <<>> => Len(toBrowser) \in DOMAIN toBrowser
  BY <1>1
<1> QED
  BY <1>1, <1>2 DEF NewestRender, Across

LEMMA HandleOK == ASSUME IInv, Handle PROVE IInv'
<1> DEFINE e == Head(toServer)
           new == Shown'
           asks == Tail(toServer)
<1>1. /\ connected /\ toServer # <<>> /\ toServer' = asks
      /\ toBrowser' = (IF new = Shown THEN toBrowser ELSE Append(toBrowser, new))
      /\ UNCHANGED <<connected, page, visible, noticed, loadingMore, pendingJumpToEnd,
                     pendingJumpToStart, activeIndex, activeVideoEl, activeWatch, drops>>
      /\ \/ e = "load-more" /\ LoadMore
         \/ e = "jump-to-end" /\ JumpToEnd
         \/ e = "jump-to-start" /\ JumpToStart
  BY DEF Handle
<1>2. ServerInv /\ HookTypes /\ JumpInv /\ toServer \in Seq(Asks) /\ toBrowser \in Seq(Renders)
  BY DEF IInv, HookTypes, Asks
<1>3. ServerInv'
  BY <1>1, <1>2, LoadMoreOK, JumpToEndOK, JumpToStartOK
<1>4. new \in Renders /\ new.mode = mode' /\ Shown.mode = mode
  <2>1. (Shown \in Renders)' /\ (Shown.mode = mode)'
    BY <1>3, ServerParts DEF Shown, Renders, ServerInv, ServerOK
  <2> QED
    BY <1>2, <2>1, ShownFacts
<1> HIDE DEF e, new, asks
<1>5. /\ e \in Asks /\ asks \in Seq(Asks) /\ e = toServer[1] /\ 1 \in DOMAIN toServer
      /\ \A i \in DOMAIN asks : i + 1 \in DOMAIN toServer /\ asks[i] = toServer[i + 1] /\ i + 1 # 1
      /\ \A i \in DOMAIN toServer : i = 1 \/ (i - 1 \in DOMAIN asks /\ asks[i - 1] = toServer[i])
  <2>1. /\ e \in Asks /\ asks \in Seq(Asks) /\ e = toServer[1] /\ 1 \in DOMAIN toServer
        /\ \A i \in DOMAIN asks : i + 1 \in DOMAIN toServer /\ asks[i] = toServer[i + 1]
        /\ \A i \in DOMAIN toServer : i = 1 \/ (i - 1 \in DOMAIN asks /\ asks[i - 1] = toServer[i])
    BY <1>1, <1>2, TailFacts DEF e, asks
  <2>2. \A i \in DOMAIN asks : i + 1 # 1
    BY <2>1
  <2> QED
    BY <2>1, <2>2
<1>6. /\ toBrowser' \in Seq(Renders)
      /\ \A i \in DOMAIN toBrowser : i \in DOMAIN toBrowser' /\ toBrowser'[i] = toBrowser[i]
      /\ \A i \in DOMAIN toBrowser' :
            \/ i \in DOMAIN toBrowser
            \/ new # Shown /\ i = Len(toBrowser) + 1 /\ toBrowser'[i] = new
      /\ \A i \in DOMAIN toBrowser : i < Len(toBrowser) + 1
  <2>1. CASE new = Shown
    BY <1>1, <1>2, <2>1
  <2>2. CASE new # Shown
    BY <1>1, <1>2, <1>4, <2>2, AppendFacts
  <2> QED
    BY <2>1, <2>2
<1>7. HookTypes'
  BY <1>1, <1>2, <1>5, <1>6 DEF HookTypes, Asks
<1>8. /\ e = "jump-to-end" => JumpToEnd
      /\ e = "jump-to-start" => JumpToStart
      /\ e = "load-more" => LoadMore
  BY <1>1
<1>9. \A p : Across(p)' = Across(p)
  BY <1>1 DEF Across
<1>10. ASSUME ~Jump(e) PROVE Crossing' /\ Asked' /\ StartAnswered'
  <2>1. Across(new) = Across(Shown)
    BY <1>2, <1>4, <1>8, <1>10, HandledModes DEF Jump, Across
  <2>2. /\ toBrowser = <<>> => ~Across(new)
        /\ toBrowser # <<>> =>
              Len(toBrowser) \in DOMAIN toBrowser /\ Across(new) = Across(toBrowser[Len(toBrowser)])
    BY <1>1, <1>2, <2>1, ShownAcross
  <2>3. Across(new) => \E j \in DOMAIN toBrowser : Across(toBrowser[j])
    BY <2>2
  <2>4. ASSUME NEW i \in DOMAIN toBrowser, Across(toBrowser[i]) PROVE Across(new)
    <3>1. CASE i = Len(toBrowser)
      <4>1. toBrowser # <<>>
        BY <1>2
      <4> QED
        BY <2>2, <2>4, <3>1, <4>1
    <3>2. CASE i # Len(toBrowser)
      <4>1. i < Len(toBrowser) /\ Len(toBrowser) \in DOMAIN toBrowser /\ toBrowser # <<>>
        BY <1>2, <3>2
      <4>2. Across(toBrowser[Len(toBrowser)])
        BY <1>2, <2>4, <4>1 DEF JumpInv, Crossing
      <4> QED
        BY <2>2, <4>1, <4>2
    <3> QED
      BY <3>1, <3>2
  <2>5. Crossing'
    <3> SUFFICES ASSUME NEW i \in DOMAIN toBrowser', Across(toBrowser'[i])
                 PROVE  /\ Waits
                        /\ \A j \in DOMAIN toBrowser' : i < j => Across(toBrowser'[j])
      BY <1>1, <1>9 DEF Crossing, Waits
    <3>1. CASE i \in DOMAIN toBrowser
      <4>1. Across(toBrowser[i])
        BY <1>6, <3>1
      <4>2. Waits /\ \A j \in DOMAIN toBrowser : i < j => Across(toBrowser[j])
        BY <1>2, <3>1, <4>1 DEF JumpInv, Crossing
      <4>3. Across(new)
        BY <2>4, <3>1, <4>1
      <4> QED
        BY <1>6, <4>2, <4>3
    <3>2. CASE i \notin DOMAIN toBrowser
      <4>1. toBrowser'[i] = new /\ i = Len(toBrowser) + 1
        BY <1>6, <3>2
      <4>2. Waits
        BY <1>2, <2>3, <4>1 DEF JumpInv, Crossing
      <4>3. \A j \in DOMAIN toBrowser' : ~(i < j)
        <5>1. \A j \in DOMAIN toBrowser : ~(i < j)
          BY <1>2, <4>1
        <5>2. Len(toBrowser) \in Nat
          BY <1>2
        <5>3. ~(i < Len(toBrowser) + 1)
          BY <4>1, <5>2
        <5> QED
          BY <1>6, <5>1, <5>3
      <4> QED
        BY <4>2, <4>3
    <3> QED
      BY <3>1, <3>2
  <2>6. Asked'
    <3> SUFFICES ASSUME NEW i \in DOMAIN asks, Jump(asks[i])
                 PROVE  /\ asks[i] = IF page.mode = "tail" THEN "jump-to-start" ELSE "jump-to-end"
                        /\ Waits
                        /\ \A j \in DOMAIN toBrowser' : ~Across(toBrowser'[j])
      BY <1>1, <1>9 DEF Asked, Waits
    <3>1. /\ asks[i] = IF page.mode = "tail" THEN "jump-to-start" ELSE "jump-to-end"
          /\ Waits
          /\ \A j \in DOMAIN toBrowser : ~Across(toBrowser[j])
      BY <1>2, <1>5 DEF JumpInv, Asked
    <3>2. ~Across(new)
      BY <2>3, <3>1
    <3> QED
      BY <1>6, <3>1, <3>2
  <2>7. StartAnswered'
    <3> SUFFICES ASSUME pendingJumpToStart
                 PROVE  \/ \E i \in DOMAIN asks : asks[i] = "jump-to-start"
                        \/ \E i \in DOMAIN toBrowser' : toBrowser'[i].mode # "tail"
      BY <1>1 DEF StartAnswered, InFlight, ToSet
    <3>1. \/ \E i \in DOMAIN toServer : toServer[i] = "jump-to-start"
          \/ \E i \in DOMAIN toBrowser : toBrowser[i].mode # "tail"
      BY <1>1, <1>2 DEF JumpInv, StartAnswered, InFlight, ToSet
    <3>2. toServer[1] # "jump-to-start"
      BY <1>5, <1>10 DEF Jump
    <3> QED
      BY <1>5, <1>6, <3>1, <3>2
  <2> QED
    BY <2>5, <2>6, <2>7
<1>11. ASSUME Jump(e) PROVE Crossing' /\ Asked' /\ StartAnswered'
  <2>1. /\ e = IF page.mode = "tail" THEN "jump-to-start" ELSE "jump-to-end"
        /\ Waits
        /\ \A j \in DOMAIN toBrowser : ~Across(toBrowser[j])
    BY <1>2, <1>5, <1>11 DEF JumpInv, Asked
  <2>2. \A i \in DOMAIN asks : ~Jump(asks[i])
    BY <1>2, <1>5, <1>11 DEF JumpInv, OneJump, Jump
  <2>3. Across(new) /\ (page.mode = "tail" => new.mode # "tail")
    BY <1>2, <1>4, <1>8, <2>1, HandledModes DEF Across
  <2>4. ~Across(Shown) /\ new # Shown
    BY <1>1, <1>2, <2>1, <2>3, ShownAcross
  <2>5. Crossing'
    <3> SUFFICES ASSUME NEW i \in DOMAIN toBrowser', Across(toBrowser'[i])
                 PROVE  \A j \in DOMAIN toBrowser' : ~(i < j)
      BY <1>1, <1>9, <2>1 DEF Crossing, Waits
    <3>1. i \notin DOMAIN toBrowser
      BY <1>6, <2>1
    <3>2. i = Len(toBrowser) + 1
      BY <1>6, <3>1
    <3>3. \A j \in DOMAIN toBrowser : ~(i < j)
      BY <1>2, <3>2
    <3>4. Len(toBrowser) \in Nat
      BY <1>2
    <3>5. ~(i < Len(toBrowser) + 1)
      BY <3>2, <3>4
    <3> QED
      BY <1>6, <3>3, <3>5
  <2>6. Asked'
    BY <1>1, <2>2 DEF Asked
  <2>7. StartAnswered'
    <3> SUFFICES ASSUME pendingJumpToStart
                 PROVE  \E i \in DOMAIN toBrowser' : toBrowser'[i].mode # "tail"
      BY <1>1 DEF StartAnswered
    <3>1. page.mode = "tail"
      BY <1>2 DEF JumpInv, Sided
    <3>2. toBrowser' = Append(toBrowser, new)
      BY <1>1, <2>4
    <3>3. Len(toBrowser) + 1 \in DOMAIN toBrowser' /\ toBrowser'[Len(toBrowser) + 1] = new
      BY <1>2, <1>4, <3>2, AppendFacts
    <3> QED
      BY <2>3, <3>1, <3>3
  <2> QED
    BY <2>5, <2>6, <2>7
<1>12. Linked'
  <2>1. Shown' = new
    BY DEF new
  <2>2. CASE new = Shown
    BY <1>1, <1>2, <2>1, <2>2 DEF JumpInv, Linked, NewestRender
  <2>3. CASE new # Shown
    <3>1. toBrowser' = Append(toBrowser, new)
      BY <1>1, <2>3
    <3>2. toBrowser' # <<>> /\ toBrowser'[Len(toBrowser')] = new
      BY <1>2, <1>4, <3>1
    <3> QED
      BY <1>1, <2>1, <3>2 DEF Linked, NewestRender
  <2> QED
    BY <2>2, <2>3
<1>13. Sided'
  BY <1>1, <1>2 DEF JumpInv, Sided
<1>14. OneJump'
  <2> SUFFICES ASSUME NEW i \in DOMAIN asks, NEW j \in DOMAIN asks, Jump(asks[i]), Jump(asks[j])
               PROVE  i = j
    BY <1>1 DEF OneJump, Jump
  <2>1. i + 1 = j + 1
    BY <1>2, <1>5 DEF JumpInv, OneJump, Jump
  <2>2. i \in Int /\ j \in Int
    BY <1>5
  <2> QED
    BY <2>1, <2>2
<1> QED
  BY <1>3, <1>7, <1>10, <1>11, <1>12, <1>13, <1>14 DEF IInv, JumpInv

-----------------------------------------------------------------------------
\* The browser takes a render.

LEMMA ReceiveOK == ASSUME IInv, Receive PROVE IInv'
<1> DEFINE rest == Tail(toBrowser)
<1>1. /\ ServerInv /\ HookTypes /\ JumpInv /\ toServer \in Seq(Asks) /\ toBrowser \in Seq(Renders)
      /\ {pendingJumpToEnd, pendingJumpToStart} \subseteq BOOLEAN
  BY DEF IInv, HookTypes, Asks
<1>2. PICK p : p = Head(toBrowser)
  OBVIOUS
<1>3. /\ connected /\ toBrowser # <<>> /\ UNCHANGED connected /\ Updated(p)
      /\ toBrowser' = rest /\ UNCHANGED <<serverVars, drops>>
  BY <1>2 DEF Receive
<1>4. /\ p \in Renders /\ p = toBrowser[1] /\ 1 \in DOMAIN toBrowser
      /\ rest \in Seq(Renders) /\ Len(rest) = Len(toBrowser) - 1
      /\ \A i \in DOMAIN rest : i + 1 \in DOMAIN toBrowser /\ rest[i] = toBrowser[i + 1]
      /\ \A i \in DOMAIN toBrowser : i = 1 \/ (i - 1 \in DOMAIN rest /\ rest[i - 1] = toBrowser[i])
  BY <1>1, <1>2, <1>3, TailFacts
<1> HIDE DEF rest
<1>5. /\ page' = p /\ visible' \in 1..LastPlace(p) /\ activeIndex' \in 1..LastPlace(p)
      /\ activeVideoEl' = 0 \/ OnPage(p, activeVideoEl')
      /\ {noticed, loadingMore, pendingJumpToEnd, pendingJumpToStart}' \subseteq BOOLEAN
      /\ activeWatch' = activeWatch /\ Sends
      /\ pendingJumpToEnd' = (pendingJumpToEnd /\ p.mode # "tail")
      /\ pendingJumpToStart' = (pendingJumpToStart /\ p.mode = "tail")
  BY <1>1, <1>3, <1>4, UpdatedFacts
<1>6. /\ toServer' \in Seq(Asks)
      /\ \A i \in DOMAIN toServer' : Jump(toServer'[i]) =>
            i \in DOMAIN toServer /\ toServer'[i] = toServer[i]
      /\ \A e : InFlight(e) => InFlight(e)'
  BY <1>1, <1>5, SendsTyped, SendsFacts
<1>7. ServerInv' /\ Shown' = Shown
  BY <1>1, <1>3, ServerSame DEF Shown, serverVars
<1>8. HookTypes'
  BY <1>1, <1>3, <1>4, <1>5, <1>6 DEF HookTypes, Asks
<1>9. Linked'
  <2>1. Shown = toBrowser[Len(toBrowser)]
    BY <1>1, <1>3 DEF JumpInv, Linked, NewestRender
  <2>2. CASE rest = <<>>
    <3>1. Len(toBrowser) = 1
      BY <1>1, <1>4, <2>2
    <3>2. NewestRender' = p
      BY <1>3, <1>5, <2>2 DEF NewestRender
    <3> QED
      BY <1>3, <1>4, <1>7, <2>1, <3>1, <3>2 DEF Linked
  <2>3. CASE rest # <<>>
    <3>1. Len(rest) \in DOMAIN rest /\ Len(rest) + 1 = Len(toBrowser)
      BY <1>1, <1>4, <2>3
    <3>2. rest[Len(rest)] = toBrowser[Len(toBrowser)]
      BY <1>4, <3>1
    <3>3. NewestRender' = rest[Len(rest)]
      BY <1>3, <2>3 DEF NewestRender
    <3> QED
      BY <1>3, <1>7, <2>1, <3>2, <3>3 DEF Linked
  <2> QED
    BY <2>2, <2>3
<1>10. Sided' /\ OneJump'
  <2>1. Sided'
    BY <1>5 DEF Sided
  <2>2. OneJump'
    BY <1>1, <1>6 DEF JumpInv, OneJump, Jump
  <2> QED
    BY <2>1, <2>2
<1>11. ASSUME ~Across(p) PROVE Crossing' /\ Asked' /\ StartAnswered'
  <2>1. \A q : Across(q)' = Across(q)
    BY <1>5, <1>11 DEF Across
  <2>2. /\ pendingJumpToEnd' = pendingJumpToEnd /\ pendingJumpToStart' = pendingJumpToStart
        /\ Waits' = Waits /\ (page'.mode = "tail") = (page.mode = "tail")
    BY <1>1, <1>5, <1>11 DEF JumpInv, Sided, Across, Waits
  <2>3. Crossing'
    <3> SUFFICES ASSUME NEW i \in DOMAIN rest, Across(rest[i])
                 PROVE  Waits /\ \A j \in DOMAIN rest : i < j => Across(rest[j])
      BY <1>3, <2>1, <2>2 DEF Crossing
    <3>1. Waits /\ \A j \in DOMAIN toBrowser : i + 1 < j => Across(toBrowser[j])
      BY <1>1, <1>4 DEF JumpInv, Crossing
    <3>2. \A j \in DOMAIN rest : i < j => i + 1 < j + 1
      BY <1>4
    <3> QED
      BY <1>4, <3>1, <3>2
  <2>4. Asked'
    <3> SUFFICES ASSUME NEW i \in DOMAIN toServer', Jump(toServer'[i])
                 PROVE  /\ toServer'[i] = IF page.mode = "tail" THEN "jump-to-start"
                                                               ELSE "jump-to-end"
                        /\ Waits
                        /\ \A j \in DOMAIN rest : ~Across(rest[j])
      BY <1>3, <2>1, <2>2 DEF Asked
    <3>1. i \in DOMAIN toServer /\ toServer'[i] = toServer[i]
      BY <1>6
    <3> QED
      BY <1>1, <1>4, <3>1 DEF JumpInv, Asked
  <2>5. StartAnswered'
    <3> SUFFICES ASSUME pendingJumpToStart, ~InFlight("jump-to-start")
                 PROVE  \E i \in DOMAIN rest : rest[i].mode # "tail"
      BY <1>3, <1>6, <2>2 DEF StartAnswered
    <3>1. PICK i \in DOMAIN toBrowser : toBrowser[i].mode # "tail"
      BY <1>1, <1>3 DEF JumpInv, StartAnswered
    <3>2. p.mode = "tail"
      BY <1>1, <1>11 DEF JumpInv, Sided, Across
    <3>3. i # 1
      BY <1>4, <3>1, <3>2
    <3> QED
      BY <1>4, <3>1, <3>3
  <2> QED
    BY <2>3, <2>4, <2>5
<1>12. ASSUME Across(p) PROVE Crossing' /\ Asked' /\ StartAnswered'
  <2>1. \A j \in DOMAIN toBrowser : 1 < j => Across(toBrowser[j])
    BY <1>1, <1>4, <1>12 DEF JumpInv, Crossing
  <2>2. \A i \in DOMAIN rest : Across(rest[i])
    <3>1. \A i \in DOMAIN rest : 1 < i + 1
      BY <1>4
    <3> QED
      BY <1>4, <2>1, <3>1
  <2>3. \A q : Across(q)' = ~Across(q)
    BY <1>5, <1>12 DEF Across
  <2>4. ~pendingJumpToStart'
    BY <1>1, <1>5, <1>12 DEF JumpInv, Sided, Across
  <2>5. \A i \in DOMAIN toServer : ~Jump(toServer[i])
    BY <1>1, <1>4, <1>12 DEF JumpInv, Asked
  <2>6. \A i \in DOMAIN toServer' : ~Jump(toServer'[i])
    BY <1>6, <2>5
  <2>7. Crossing'
    <3> SUFFICES ASSUME NEW i \in DOMAIN rest PROVE Across(rest[i])
      BY <1>3, <2>3 DEF Crossing
    <3> QED
      BY <2>2
  <2>8. Asked'
    BY <2>6 DEF Asked
  <2>9. StartAnswered'
    BY <2>4 DEF StartAnswered
  <2> QED
    BY <2>7, <2>8, <2>9
<1> QED
  BY <1>7, <1>8, <1>9, <1>10, <1>11, <1>12 DEF IInv, JumpInv

-----------------------------------------------------------------------------
\* The connection.

LEMMA DropOK == ASSUME IInv, Drop PROVE IInv'
<1>1. /\ drops \in 0..MaxDrops /\ drops < MaxDrops /\ drops' = drops + 1 /\ connected' = FALSE
      /\ toServer' = <<>> /\ toBrowser' = <<>>
      /\ UNCHANGED <<serverVars, viewVars, pendingVars, activeVars>>
  BY DEF Drop, IInv, HookTypes
<1>2. ServerInv'
  BY <1>1, ServerSame DEF IInv
<1>3. drops' \in 0..MaxDrops
  BY <1>1, DropsAssumption
<1>4. HookTypes'
  <2>1. <<>> \in Seq(Asks) /\ <<>> \in Seq(Renders)
    OBVIOUS
  <2> QED
    BY <1>1, <1>3, <2>1 DEF IInv, HookTypes, Asks
<1>5. Linked' /\ StartAnswered'
  BY <1>1 DEF Linked, StartAnswered
<1>6. Sided'
  BY <1>1 DEF IInv, JumpInv, Sided
<1>7. Crossing' /\ Asked' /\ OneJump'
  BY <1>1 DEF Crossing, Asked, OneJump
<1> QED
  BY <1>2, <1>4, <1>5, <1>6, <1>7 DEF IInv, JumpInv

LEMMA RejoinOK == ASSUME IInv, Rejoin PROVE IInv'
<1>1. /\ ServerInv /\ HookTypes /\ JumpInv
      /\ {pendingJumpToEnd, pendingJumpToStart} \subseteq BOOLEAN
  BY DEF IInv, HookTypes
<1>2. /\ ~connected /\ connected' = TRUE /\ Mount /\ UNCHANGED <<toBrowser, drops>>
      /\ toServer = <<>> /\ toBrowser = <<>>
  BY <1>1 DEF Rejoin, JumpInv, Linked
<1>3. ServerInv'
  BY <1>1, <1>2, MountOK
<1>4. PICK p : p = Shown'
  OBVIOUS
<1>5. p \in Renders /\ p.mode # "tail"
  <2>1. (Shown \in Renders)' /\ (Shown.mode = mode)'
    BY <1>3, ServerParts DEF Shown, Renders, ServerInv, ServerOK
  <2>2. mode' # "tail"
    BY <1>2 DEF Mount, Begin, ModeFor
  <2> QED
    BY <1>4, <2>1, <2>2
<1>6. /\ HookTypes' /\ page' = p /\ ~pendingJumpToStart'
      /\ \A i \in DOMAIN toServer' : ~Jump(toServer'[i])
  <2>1. CASE p = page
    <3>1. UNCHANGED <<toServer, viewVars, pendingVars, activeVars>>
      BY <1>4, <2>1 DEF Rejoin
    <3>2. ~pendingJumpToStart'
      BY <1>1, <1>5, <2>1, <3>1 DEF JumpInv, Sided
    <3> QED
      BY <1>1, <1>2, <2>1, <3>1, <3>2 DEF HookTypes
  <2>2. CASE p # page
    <3>1. Updated(p)
      BY <1>4, <2>2 DEF Rejoin
    <3>2. /\ page' = p /\ visible' \in 1..LastPlace(p) /\ activeIndex' \in 1..LastPlace(p)
          /\ activeVideoEl' = 0 \/ OnPage(p, activeVideoEl')
          /\ {noticed, loadingMore, pendingJumpToEnd, pendingJumpToStart}' \subseteq BOOLEAN
          /\ activeWatch' = activeWatch /\ Sends
          /\ pendingJumpToStart' = (pendingJumpToStart /\ p.mode = "tail")
      BY <1>1, <1>5, <3>1, UpdatedFacts
    <3>3. toServer \in Seq(Asks)
      BY <1>1 DEF HookTypes, Asks
    <3>4. toServer' \in Seq(Asks) /\ \A i \in DOMAIN toServer' : ~Jump(toServer'[i])
      BY <1>2, <3>2, <3>3, SendsTyped, SendsFacts
    <3> QED
      BY <1>1, <1>2, <1>5, <3>2, <3>4 DEF HookTypes, Asks
  <2> QED
    BY <2>1, <2>2
<1>7. Linked' /\ StartAnswered'
  BY <1>2, <1>4, <1>6 DEF Linked, StartAnswered, NewestRender
<1>8. Sided'
  BY <1>5, <1>6 DEF Sided
<1>9. Crossing' /\ Asked' /\ OneJump'
  BY <1>2, <1>6 DEF Crossing, Asked, OneJump, Jump
<1> QED
  BY <1>3, <1>6, <1>7, <1>8, <1>9 DEF IInv, JumpInv

-----------------------------------------------------------------------------
\* Every step.

LEMMA HookNextOK ==
    ASSUME IInv, HookNext, UNCHANGED <<serverVars, toBrowser, drops>>
    PROVE  IInv'
<1>1. ServerInv' /\ Shown' = Shown
  BY ServerSame DEF IInv, Shown, serverVars
<1>2. CASE PrevToEnd
  BY <1>1, <1>2, PrevToEndOK DEF IInv
<1>3. CASE NextToStart
  BY <1>1, <1>3, NextToStartOK DEF IInv
<1>4. CASE ~PrevToEnd /\ ~NextToStart
  <2>1. /\ HookTypes' /\ Sends
        /\ UNCHANGED <<page, pendingJumpToEnd, pendingJumpToStart, connected>>
    BY <1>4, QuietStep DEF IInv
  <2>2. JumpInv'
    BY <1>1, <2>1, JumpQuiet DEF IInv
  <2> QED
    BY <1>1, <2>1, <2>2 DEF IInv
<1> QED
  BY <1>2, <1>3, <1>4

LEMMA NothingSent ==
    ASSUME IInv, UNCHANGED <<hookVars, toBrowser, drops>>, Shown' = Shown
    PROVE  HookTypes' /\ JumpInv'
<1>1. HookTypes' /\ Sends
  BY DEF IInv, HookTypes, hookVars, Sends
<1>2. JumpInv'
  BY <1>1, JumpQuiet DEF IInv, hookVars
<1> QED
  BY <1>1, <1>2

LEMMA NextOK == ASSUME IInv, [Next]_vars PROVE IInv'
<1>1. CASE HookNext /\ UNCHANGED <<serverVars, toBrowser, drops>>
  BY <1>1, HookNextOK
<1>2. CASE Publish /\ UNCHANGED <<hookVars, toBrowser, drops>>
  <2>1. ServerInv'
    BY <1>2, PublishOK DEF IInv
  <2>2. Shown' = Shown
    BY <1>2 DEF Publish, Shown
  <2> QED
    BY <1>2, <2>1, <2>2, NothingSent DEF IInv
<1>3. CASE Handle
  BY <1>3, HandleOK
<1>4. CASE Receive
  BY <1>4, ReceiveOK
<1>5. CASE Drop
  BY <1>5, DropOK
<1>6. CASE Rejoin
  BY <1>6, RejoinOK
<1>7. CASE UNCHANGED vars
  <2>1. UNCHANGED serverVars /\ UNCHANGED <<hookVars, toBrowser, drops>>
    BY <1>7 DEF vars
  <2>2. ServerInv' /\ Shown' = Shown
    BY <2>1, ServerSame DEF IInv, Shown, serverVars
  <2> QED
    BY <2>1, <2>2, NothingSent DEF IInv
<1> QED
  BY <1>1, <1>2, <1>3, <1>4, <1>5, <1>6, <1>7 DEF Next

LEMMA InitOK == Init => IInv
<1> SUFFICES ASSUME Init PROVE IInv
  OBVIOUS
<1>1. ServerInv
  BY ServerInit
<1>2. /\ connected = TRUE /\ toServer = <<>> /\ page = Shown /\ toBrowser = <<>> /\ drops = 0
      /\ visible = FirstReal(page) /\ activeIndex = FirstReal(page) /\ activeVideoEl = 0
      /\ noticed = FALSE /\ loadingMore = FALSE /\ activeWatch = 0
      /\ pendingJumpToEnd = FALSE /\ pendingJumpToStart = FALSE
  BY DEF Init, HookInit
<1>3. page \in Renders
  BY <1>1, <1>2, ShownFacts
<1>4. 0 \in 0..MaxDrops
  BY DropsAssumption
<1>5. HookTypes
  <2>1. <<>> \in Seq(Asks) /\ <<>> \in Seq(Renders)
    OBVIOUS
  <2>2. FirstReal(page) \in 1..LastPlace(page)
    BY <1>3, Places
  <2> QED
    BY <1>2, <1>3, <1>4, <2>1, <2>2 DEF HookTypes, Asks
<1>6. JumpInv
  BY <1>2 DEF JumpInv, Linked, NewestRender, Sided, Crossing, Asked, OneJump, StartAnswered
<1> QED
  BY <1>1, <1>5, <1>6 DEF IInv

\* The invariant holds in every state of every behaviour.
THEOREM FeedInvariance == Spec => []IInv
<1>1. IInv /\ [Next]_vars => IInv'
  BY NextOK
<1> QED
  BY InitOK, <1>1, PTL DEF Spec

-----------------------------------------------------------------------------
\* The properties.

LEMMA HeldPaging == ASSUME IInv PROVE Paging
<1>1. ServerInv /\ HookTypes
  BY DEF IInv
<1>2. TypeOK
  <2>1. ServerTypeOK
    <3>1. began \in SUBSET Videos /\ stored \in SUBSET Videos
      BY <1>1, ServerParts
    <3> QED
      BY <1>1, <3>1, ServerParts DEF ServerTypeOK, Modes
  <2>2. toBrowser \in Seq([videos : Seq(Videos), hasMore : BOOLEAN,
                           mode : {"head", "tail", "full"}])
    <3>1. toBrowser \in Seq(Renders)
      BY <1>1 DEF HookTypes
    <3>2. Renders \subseteq [videos : Seq(Videos), hasMore : BOOLEAN,
                             mode : {"head", "tail", "full"}]
      BY DEF Renders, Modes
    <3> HIDE DEF Renders
    <3> QED
      BY <3>1, <3>2, WiderSeq
  <2> QED
    BY <1>1, <2>1, <2>2 DEF TypeOK, HookTypes
<1>3. \A i \in DOMAIN videos : videos[i] \in Nat
  BY <1>1, ServerParts, VideosAssumption, ElementOf
<1>4. PICK n \in Nat \ {0} : Len(videos) = n /\ DOMAIN videos = 1..n
  BY <1>1, ServerParts
<1>5. Last(videos) = videos[Len(videos)]
  BY DEF Last
<1>6. began \subseteq Nat
  BY <1>1, ServerParts, VideosAssumption
<1>7. CASE rankedIds = <<>>
  <2>1. /\ Descends(videos)
        /\ \A v \in began : videos[Len(videos)] <= v /\ v <= videos[1] => Listed(v, videos)
        /\ mode = "full" => \A v \in began : Listed(v, videos)
    BY <1>1, <1>7 DEF ServerInv, ServerOK, ByAge
  <2>2. \A v : Listed(v, videos) => v \in ToSet(videos)
    BY DEF Listed, ToSet
  <2>3. NoRepeat
    <3> SUFFICES ASSUME NEW i \in DOMAIN videos, NEW j \in DOMAIN videos, videos[i] = videos[j],
                        i # j
                 PROVE  FALSE
      BY DEF NoRepeat
    <3>1. i < j \/ j < i
      BY <1>4
    <3>2. videos[i] > videos[j] \/ videos[j] > videos[i]
      BY <2>1, <3>1 DEF Descends
    <3> QED
      BY <1>3, <3>2
  <2>4. NoGap
    BY <1>5, <2>1, <2>2 DEF NoGap, Descends
  <2>5. FullIsAll
    BY <1>7, <2>1, <2>2 DEF FullIsAll
  <2> QED
    BY <1>2, <2>3, <2>4, <2>5 DEF Paging
<1>8. CASE rankedIds # <<>>
  <2>1. /\ \A i, j \in DOMAIN videos : videos[i] = videos[j] => i = j
        /\ mode # "tail" =>
              /\ rankedOffset = Len(videos)
              /\ \A i \in 1..rankedOffset : videos[i] = rankedIds[i]
        /\ mode = "full" => rankedOffset = Len(rankedIds)
    BY <1>1, <1>8 DEF ServerInv, ServerOK, ByRank
  <2>2. FullIsAll
    <3> SUFFICES ASSUME mode = "full" PROVE videos = rankedIds
      BY <1>8 DEF FullIsAll
    <3>1. /\ Len(videos) = Len(rankedIds)
          /\ \A i \in 1..Len(videos) : videos[i] = rankedIds[i]
      BY <2>1
    <3> QED
      BY <1>1, <3>1, ServerParts, SeqEqual
  <2> QED
    BY <1>2, <1>8, <2>1, <2>2 DEF Paging, NoRepeat, NoGap
<1> QED
  BY <1>7, <1>8

\* Whatever mount, load-more and the jumps of feed_live.ex do, and however events
\* cross with uploads and lost connections: the list shows no video twice, leaves
\* none out, and holds all of them when its mode is full.
THEOREM PagingAlways == Spec => []Paging
<1>1. IInv => Paging
  BY HeldPaging
<1> QED
  BY FeedInvariance, <1>1, PTL

\* Whatever the viewer presses and however late the server answers, the hook of
\* app.js has at most one jump on its way, and what it waits for still comes.
THEOREM JumpsAwaitedAlways == Spec => []JumpsAwaited
<1>1. IInv => JumpsAwaited
  BY DEF IInv, JumpInv, JumpsAwaited
<1> QED
  BY FeedInvariance, <1>1, PTL

-----------------------------------------------------------------------------
\* The renders of one stretch between two jumps only extend the list.

Prefix(p, q) ==
    \A n \in DOMAIN p.videos : n \in DOMAIN q.videos /\ q.videos[n] = p.videos[n]

Follows(p, q) ==
    p.mode # "tail" /\ q.mode # "tail" => p.mode = "head" /\ Prefix(p, q)

Grown ==
    /\ \A i \in DOMAIN toBrowser : Follows(page, toBrowser[i])
    /\ \A i, j \in DOMAIN toBrowser : i < j => Follows(toBrowser[i], toBrowser[j])

\* Without clones the observer only reports videos.
OnVideo ==
    page.mode = "head" /\ activeVideoEl # 0 => activeIndex = PlaceOf(page, activeVideoEl)

ViewInv == Grown /\ OnVideo

LEMMA FollowsFurther ==
    ASSUME NEW p, NEW q, NEW r, Follows(p, q), Follows(q, r), q.mode = "tail" => r.mode = "tail"
    PROVE  Follows(p, r)
<1> SUFFICES ASSUME p.mode # "tail", r.mode # "tail" PROVE p.mode = "head" /\ Prefix(p, r)
  BY DEF Follows
<1>1. p.mode = "head" /\ Prefix(p, q) /\ Prefix(q, r)
  BY DEF Follows
<1> QED
  BY <1>1 DEF Prefix

LEMMA ListExtends ==
    ASSUME NEW a \in Seq(Videos), NEW b \in Seq(Videos)
    PROVE  \A n \in DOMAIN a : n \in DOMAIN (a \o b) /\ (a \o b)[n] = a[n]
  OBVIOUS

LEMMA LoadExtends ==
    ASSUME ServerInv, LoadMore, NEW new, new = Shown', new # Shown
    PROVE  Follows(Shown, new) /\ (Shown.mode = "tail" => new.mode = "tail")
<1>1. ~LoadNothing
  BY DEF LoadNothing, serverVars, Shown
<1>2. LoadOlder \/ LoadRanked
  BY <1>1 DEF LoadMore
<1>3. mode = "head"
  BY <1>2 DEF LoadOlder, LoadRanked
<1>4. \E more \in Seq(Videos) : videos' = videos \o more
  <2>1. CASE LoadOlder
    <3> DEFINE older == Before(Last(videos))
    <3>1. videos' = videos \o Page(Newest(older))
      BY <2>1 DEF LoadOlder
    <3>2. older \subseteq stored
      BY DEF Before
    <3> HIDE DEF older
    <3>3. older \subseteq Videos /\ IsFiniteSet(older)
      BY <3>2, ServerParts, FS_Subset
    <3>4. Newest(older) \in Seq(Videos)
      BY <3>3, NewestTable
    <3>5. Page(Newest(older)) \in Seq(Videos)
      BY <3>4, PageFacts
    <3> QED
      BY <3>1, <3>5
  <2>2. CASE LoadRanked
    <3> DEFINE rest == SubSeq(rankedIds, rankedOffset + 1, Len(rankedIds))
    <3>1. videos' = videos \o Page(rest) /\ rankedIds # <<>>
      BY <2>2 DEF LoadRanked
    <3>2. rankedOffset \in Nat /\ rankedIds \in Seq(Videos) /\ rankedOffset <= Len(rankedIds)
      BY <1>3, <3>1, ServerParts DEF ServerInv, ServerOK, ByRank
    <3>3. PICK n \in Nat : n = Len(rankedIds)
      BY <3>2
    <3>4. rankedOffset + 1 \in 1..(n + 1) /\ n \in 0..n /\ rankedOffset + 1 <= n + 1
      BY <3>2, <3>3
    <3>5. rest \in Seq(Videos)
      BY <3>2, <3>3, <3>4, SubSeqFacts
    <3> HIDE DEF rest
    <3>6. Page(rest) \in Seq(Videos)
      BY <3>5, PageFacts
    <3> QED
      BY <3>1, <3>6
  <2> QED
    BY <1>2, <2>1, <2>2
<1>5. PICK more \in Seq(Videos) : videos' = videos \o more
  BY <1>4
<1>6. \A n \in DOMAIN videos : n \in DOMAIN videos' /\ videos'[n] = videos[n]
  BY <1>5, ServerParts, ListExtends
<1>7. Shown.videos = videos /\ Shown.mode = "head" /\ new.videos = videos'
  BY <1>3 DEF Shown
<1> QED
  BY <1>6, <1>7 DEF Follows, Prefix

LEMMA HandleGrown == ASSUME IInv, Grown, Handle PROVE Grown'
<1>1. /\ ServerInv /\ JumpInv /\ HookTypes /\ connected /\ UNCHANGED page
      /\ toBrowser \in Seq(Renders) /\ toServer # <<>> /\ toServer \in Seq(Asks)
      /\ \/ Head(toServer) = "load-more" /\ LoadMore
         \/ Head(toServer) = "jump-to-end" /\ JumpToEnd
         \/ Head(toServer) = "jump-to-start" /\ JumpToStart
  BY DEF Handle, IInv, HookTypes, Asks
<1>2. PICK new : new = Shown'
  OBVIOUS
<1>3. toBrowser' = IF new = Shown THEN toBrowser ELSE Append(toBrowser, new)
  BY <1>2 DEF Handle
<1>4. new.mode = mode'
  BY <1>2 DEF Shown
<1>5. CASE new = Shown
  BY <1>1, <1>3, <1>5 DEF Grown
<1>6. CASE new # Shown
  <2>1. Follows(page, new) /\ \A i \in DOMAIN toBrowser : Follows(toBrowser[i], new)
    <3>1. CASE LoadMore
      <4>1. Follows(Shown, new) /\ (Shown.mode = "tail" => new.mode = "tail")
        BY <1>1, <1>2, <1>6, <3>1, LoadExtends
      <4>2. CASE toBrowser = <<>>
        <5>1. Shown = page
          BY <1>1, <4>2 DEF JumpInv, Linked, NewestRender
        <5> QED
          BY <4>1, <4>2, <5>1
      <4>3. CASE toBrowser # <<>>
        <5>1. Shown = toBrowser[Len(toBrowser)] /\ Len(toBrowser) \in DOMAIN toBrowser
          BY <1>1, <4>3 DEF JumpInv, Linked, NewestRender
        <5>2. Follows(page, new)
          BY <4>1, <5>1, FollowsFurther DEF Grown
        <5>3. ASSUME NEW i \in DOMAIN toBrowser PROVE Follows(toBrowser[i], new)
          <6>1. i = Len(toBrowser) \/ i < Len(toBrowser)
            BY <1>1
          <6>2. i < Len(toBrowser) => Follows(toBrowser[i], Shown)
            BY <5>1 DEF Grown
          <6> QED
            BY <4>1, <5>1, <6>1, <6>2, FollowsFurther
        <5> QED
          BY <5>2, <5>3
      <4> QED
        BY <4>2, <4>3
    <3>2. CASE JumpToEnd
      <4>1. new.mode = "tail"
        BY <1>1, <1>4, <3>2, HandledModes
      <4> QED
        BY <4>1 DEF Follows
    <3>3. CASE Head(toServer) = "jump-to-start"
      <4>1. 1 \in DOMAIN toServer /\ toServer[1] = "jump-to-start"
        BY <1>1, <3>3, TailFacts
      <4>2. page.mode = "tail" /\ \A j \in DOMAIN toBrowser : ~Across(toBrowser[j])
        BY <1>1, <4>1 DEF JumpInv, Asked, Jump
      <4> QED
        BY <4>2 DEF Follows, Across
    <3> QED
      BY <1>1, <3>1, <3>2, <3>3
  <2>2. PICK n \in Nat : n = Len(toBrowser)
    BY <1>1
  <2>3. toBrowser' = Append(toBrowser, new)
    BY <1>3, <1>6
  <2>4. /\ \A i \in DOMAIN toBrowser : toBrowser'[i] = toBrowser[i] /\ i < n + 1
        /\ toBrowser'[n + 1] = new
        /\ \A i \in DOMAIN toBrowser' : i \in DOMAIN toBrowser \/ i = n + 1
    <3>1. new \in Renders
      <4>1. ServerInv'
        BY <1>1, LoadMoreOK, JumpToEndOK, JumpToStartOK
      <4> QED
        BY <1>2, <4>1, ServerParts DEF Shown, Renders, ServerInv, ServerOK
    <3> QED
      BY <1>1, <2>2, <2>3, <3>1, AppendFacts
  <2>5. ASSUME NEW i \in DOMAIN toBrowser', NEW j \in DOMAIN toBrowser', i < j
        PROVE  Follows(toBrowser'[i], toBrowser'[j])
    <3>1. i \in DOMAIN toBrowser
      <4> SUFFICES ASSUME i = n + 1 PROVE FALSE
        BY <2>4
      <4>1. j \in DOMAIN toBrowser => j < n + 1 /\ j \in Nat
        BY <1>1, <2>4
      <4> QED
        BY <2>4, <2>5, <4>1
    <3>2. CASE j \in DOMAIN toBrowser
      BY <2>4, <2>5, <3>1, <3>2 DEF Grown
    <3>3. CASE j = n + 1
      BY <2>1, <2>4, <3>1, <3>3
    <3> QED
      BY <2>4, <3>2, <3>3
  <2>6. \A i \in DOMAIN toBrowser' : Follows(page, toBrowser'[i])
    BY <2>1, <2>4 DEF Grown
  <2> QED
    BY <1>1, <2>5, <2>6 DEF Grown
<1> QED
  BY <1>5, <1>6

LEMMA ReceiveGrown == ASSUME IInv, Grown, Receive PROVE Grown'
<1> DEFINE rest == Tail(toBrowser)
<1>1. toBrowser \in Seq(Renders) /\ toBrowser # <<>> /\ toBrowser' = rest
  BY DEF Receive, IInv, HookTypes
<1>2. /\ Head(toBrowser) \in Renders /\ Head(toBrowser) = toBrowser[1] /\ 1 \in DOMAIN toBrowser
      /\ rest \in Seq(Renders)
      /\ \A i \in DOMAIN rest : i + 1 \in DOMAIN toBrowser /\ rest[i] = toBrowser[i + 1]
  BY <1>1, TailFacts
<1> HIDE DEF rest
<1>3. page' = toBrowser[1]
  BY <1>2, UpdatedFacts DEF Receive, IInv
<1>4. \A i, j \in DOMAIN rest : 1 < i + 1 /\ (i < j => i + 1 < j + 1)
  BY <1>2
<1>5. \A i \in DOMAIN rest : Follows(page', rest[i])
  BY <1>2, <1>3, <1>4 DEF Grown
<1>6. \A i, j \in DOMAIN rest : i < j => Follows(rest[i], rest[j])
  BY <1>2, <1>4 DEF Grown
<1> QED
  BY <1>1, <1>5, <1>6 DEF Grown

LEMMA PageOnVideo ==
    ASSUME IInv, NEW p \in Renders, Updated(p)
    PROVE  page' = p /\ (activeVideoEl' # 0 => /\ activeVideoEl' = activeVideoEl
                                               /\ activeIndex' = PlaceOf(p, activeVideoEl))
<1>1. page' = p
  BY UpdatedFacts DEF IInv
<1>2. /\ activeIndex' = ActiveAfter(p)
      /\ activeVideoEl' = IF OnPage(p, activeVideoEl) THEN activeVideoEl ELSE 0
  BY DEF Updated
<1> QED
  BY <1>1, <1>2 DEF ActiveAfter

LEMMA PlaceAndElement ==
    ASSUME NEW p \in Renders
    PROVE  /\ \A n \in DOMAIN p.videos : ElementAt(p, PlaceOf(p, n)) = n
           /\ \A place \in Nat : PlaceOf(p, ElementAt(p, place)) = place
           /\ p.mode # "full" =>
                 \A place \in 1..LastPlace(p) : OnPage(p, ElementAt(p, place))
<1>1. PICK n \in Nat \ {0} : Len(p.videos) = n /\ DOMAIN p.videos = 1..n
  <2>1. p.videos \in Seq(Videos) /\ p.videos # <<>>
    BY DEF Renders
  <2> QED
    BY <2>1
<1>2. FirstReal(p) \in {1, 2}
  BY DEF FirstReal
<1>3. p.mode # "full" => FirstReal(p) = 1 /\ LastPlace(p) = n
  BY <1>1 DEF FirstReal, LastPlace, LastReal, HasClones
<1> QED
  BY <1>1, <1>2, <1>3 DEF ElementAt, PlaceOf, OnPage

LEMMA HookViewInv ==
    ASSUME IInv, ViewInv, HookNext, UNCHANGED <<serverVars, toBrowser, drops>>
    PROVE  page' = page /\ ViewInv'
<1>1. HookTypes /\ page \in Renders /\ visible \in 1..LastPlace(page) /\ visible \in Nat
  <2>1. HookTypes /\ page \in Renders /\ visible \in 1..LastPlace(page)
    BY DEF IInv, HookTypes
  <2>2. LastPlace(page) \in Nat
    BY <2>1, Places
  <2> QED
    BY <2>1, <2>2
<1>2. page' = page
  <2>1. PrevToEnd \/ NextToStart => page' = page
    BY DEF PrevToEnd, NextToStart
  <2> QED
    BY <1>1, <2>1, QuietStep
<1>3. Grown'
  BY <1>2 DEF ViewInv, Grown
<1>4. CASE NoticeClone
  <2>1. page.mode = "full"
    BY <1>1, <1>4, PlaceAndElement DEF NoticeClone
  <2> QED
    BY <1>2, <1>3, <2>1 DEF ViewInv, OnVideo
<1>5. CASE NoticeVideo
  <2>1. activeIndex' = visible /\ activeVideoEl' = ElementAt(page, visible)
    BY <1>5 DEF NoticeVideo
  <2>2. PlaceOf(page, ElementAt(page, visible)) = visible
    BY <1>1, PlaceAndElement
  <2>3. OnVideo'
    BY <1>2, <2>1, <2>2 DEF OnVideo
  <2> QED
    BY <1>2, <1>3, <2>3 DEF ViewInv
<1>6. CASE UNCHANGED <<activeIndex, activeVideoEl>>
  BY <1>2, <1>3, <1>6 DEF ViewInv, OnVideo
<1>7. NoticeClone \/ NoticeVideo \/ UNCHANGED <<activeIndex, activeVideoEl>>
  BY DEF HookNext, Swipe, PrevToEnd, NextToStart, ScrollBy, HideTab, LoadingTimeout
<1> QED
  BY <1>4, <1>5, <1>6, <1>7

LEMMA HandleViewInv == ASSUME IInv, ViewInv, Handle PROVE page' = page /\ ViewInv'
<1>1. UNCHANGED <<page, activeIndex, activeVideoEl>>
  BY DEF Handle
<1>2. OnVideo'
  BY <1>1 DEF ViewInv, OnVideo
<1> QED
  BY <1>1, <1>2, HandleGrown DEF ViewInv

LEMMA ReceiveViewInv == ASSUME IInv, ViewInv, Receive PROVE ViewInv'
<1>1. toBrowser # <<>> /\ toBrowser \in Seq(Renders) /\ Updated(Head(toBrowser))
  BY DEF IInv, HookTypes, Receive
<1>2. Head(toBrowser) \in Renders
  BY <1>1
<1>3. OnVideo'
  BY <1>1, <1>2, PageOnVideo DEF OnVideo
<1> QED
  BY <1>3, ReceiveGrown DEF ViewInv

LEMMA RejoinViewInv == ASSUME IInv, ViewInv, Rejoin PROVE ViewInv'
<1>1. toBrowser' = <<>>
  BY DEF Rejoin, IInv, JumpInv, Linked
<1>2. Grown'
  BY <1>1 DEF Grown
<1>3. ServerInv'
  BY MountOK DEF Rejoin, IInv
<1>4. PICK p : p = Shown'
  OBVIOUS
<1>5. p \in Renders
  BY <1>3, <1>4, ServerParts DEF Shown, Renders, ServerInv, ServerOK
<1>6. CASE p = page
  <2>1. UNCHANGED <<page, activeIndex, activeVideoEl>>
    BY <1>4, <1>6 DEF Rejoin
  <2> QED
    BY <1>2, <2>1 DEF ViewInv, OnVideo
<1>7. CASE p # page
  <2>1. Updated(p)
    BY <1>4, <1>7 DEF Rejoin
  <2>2. OnVideo'
    BY <1>5, <2>1, PageOnVideo DEF OnVideo
  <2> QED
    BY <1>2, <2>2 DEF ViewInv
<1> QED
  BY <1>6, <1>7

LEMMA ViewInvOK == ASSUME IInv, ViewInv, [Next]_vars PROVE ViewInv'
<1>1. CASE UNCHANGED <<hookVars, toBrowser>>
  BY <1>1 DEF hookVars, ViewInv, Grown, OnVideo
<1>2. CASE Drop
  <2>1. toBrowser' = <<>> /\ UNCHANGED <<page, activeIndex, activeVideoEl>>
    BY <1>2 DEF Drop
  <2> QED
    BY <2>1 DEF ViewInv, Grown, OnVideo
<1> QED
  BY <1>1, <1>2, HookViewInv, HandleViewInv, ReceiveViewInv, RejoinViewInv DEF Next, vars

LEMMA ViewInvInit == Init => ViewInv
  BY DEF Init, HookInit, ViewInv, Grown, OnVideo

LEMMA VideoKept ==
    ASSUME IInv, ViewInv, [Next]_vars, connected, page' # page,
           page.mode # "tail", page'.mode # "tail", activeVideoEl # 0
    PROVE  ActiveVideo # 0 /\ ActiveVideo' = ActiveVideo
<1>1. Receive
  <2>1. UNCHANGED hookVars \/ Drop => page' = page
    BY DEF hookVars, Drop
  <2>2. ~Rejoin
    BY DEF Rejoin
  <2> QED
    BY <2>1, <2>2, HookViewInv, HandleViewInv DEF Next, vars
<1>2. /\ toBrowser \in Seq(Renders) /\ toBrowser # <<>> /\ Updated(Head(toBrowser))
      /\ page \in Renders /\ OnPage(page, activeVideoEl)
  BY <1>1 DEF IInv, HookTypes, Receive
<1>3. PICK p \in Renders : p = Head(toBrowser) /\ p = toBrowser[1] /\ 1 \in DOMAIN toBrowser
  BY <1>2, TailFacts
<1>4. page' = p
  BY <1>2, <1>3, PageOnVideo
<1>5. page.mode = "head" /\ Prefix(page, p)
  BY <1>3, <1>4 DEF ViewInv, Grown, Follows
<1>6. OnPage(p, activeVideoEl) /\ p.videos[activeVideoEl] = page.videos[activeVideoEl]
  BY <1>2, <1>5 DEF OnPage, Prefix
<1>7. activeIndex = PlaceOf(page, activeVideoEl)
  BY <1>5 DEF ViewInv, OnVideo
<1>8. activeIndex' = PlaceOf(p, activeVideoEl)
  BY <1>2, <1>3, <1>6 DEF Updated, ActiveAfter
<1>9. ElementAt(page, activeIndex) = activeVideoEl /\ ElementAt(p, activeIndex') = activeVideoEl
  BY <1>2, <1>6, <1>7, <1>8, PlaceAndElement DEF OnPage
<1>10. ActiveVideo = page.videos[activeVideoEl]
  BY <1>2, <1>9 DEF ActiveVideo
<1>11. ActiveVideo' = p.videos[activeVideoEl]
  <2>1. ActiveVideo' = IF OnPage(p, ElementAt(p, activeIndex'))
                       THEN p.videos[ElementAt(p, activeIndex')] ELSE 0
    BY <1>4 DEF ActiveVideo, OnPage, ElementAt, FirstReal, HasClones
  <2> QED
    BY <1>6, <1>9, <2>1
<1>12. page.videos[activeVideoEl] # 0
  BY <1>2, Places DEF OnPage
<1> QED
  BY <1>6, <1>10, <1>11, <1>12

\* As long as the connection holds, load_more of feed_live.ex only adds below what
\* the browser has, in every render on its way, and updated() of app.js, which
\* knows the active element by its place in the list alone, therefore leaves the
\* viewer on the same video, until a jump.
THEOREM LoadKeepsVideoAlways == Spec => LoadKeepsVideo
<1>1. Init => IInv /\ ViewInv
  BY InitOK, ViewInvInit
<1>2. IInv /\ ViewInv /\ [Next]_vars => (IInv /\ ViewInv)'
  BY NextOK, ViewInvOK
<1>3. IInv /\ ViewInv /\ [Next]_vars =>
        [ /\ connected
          /\ page' # page
          /\ page.mode # "tail" /\ page'.mode # "tail"
          /\ activeVideoEl # 0
          => ActiveVideo # 0 /\ ActiveVideo' = ActiveVideo ]_vars
  BY VideoKept
<1> QED
  BY <1>1, <1>2, <1>3, PTL DEF Spec, LoadKeepsVideo
=============================================================================
