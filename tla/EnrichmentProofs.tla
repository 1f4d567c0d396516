-------------------------- MODULE EnrichmentProofs --------------------------
(***************************************************************************)
(* Proofs about the batch tasks, for any number of runs, videos and        *)
(* vectors, any batch size, concurrency and limit.                         *)
(***************************************************************************)
EXTENDS Enrichment, Integers, WellFoundedInduction, FiniteSetTheorems, FunctionTheorems,
        SequenceTheorems, TLAPS

-----------------------------------------------------------------------------
\* The invariant.

\* What a run has visited, and what is left of its batch, are in the order of
\* the ids; what it works on it has visited, each video once.
InTurn(t) ==
    /\ \A i, j \in DOMAIN t.visited : i < j => t.visited[i] < t.visited[j]
    /\ \A i, j \in DOMAIN t.batch : i < j => t.batch[i].id < t.batch[j].id
    /\ \A i \in DOMAIN t.visited, j \in DOMAIN t.batch : t.visited[i] < t.batch[j].id
    /\ t.phase = "fetch" => \A i \in DOMAIN t.visited : t.visited[i] <= t.after_id
    /\ t.phase = "batch" =>
          /\ \A i \in DOMAIN t.visited : t.visited[i] <= t.last_id
          /\ \A i \in DOMAIN t.batch : t.batch[i].id <= t.last_id
    /\ t.phase # "batch" => t.batch = <<>> /\ t.working = {}
    /\ \A job \in t.working : \E i \in DOMAIN t.visited : t.visited[i] = job.id
    /\ \A job, other \in t.working : job.id = other.id => job = other

Totals(t) ==
    /\ IsFiniteSet(t.working)
    /\ t.phase # "aborted" =>
          t.updated + t.skipped + t.failures + Cardinality(t.working) = Len(t.visited)

\* A job under way may still be counted against the limit, and for
\* videos.embed_visual so may the rest of the batch.
Within(r, t) ==
    /\ Cardinality(t.working) <= AtOnce(r)
    /\ plan.limit[r] # NoLimit =>
          IF plan.kind[r] = "embed"
          THEN t.updated + Cardinality(t.working) + Len(t.batch)
                  <= plan.limit[r] + BatchSize - 1
          ELSE t.updated + Cardinality(t.working) <= plan.limit[r]

\* A row that was read with a visual embedding is one of a video that a worker has
\* embedded, whichever answer was stored since.
Read(r, row) ==
    /\ plan.kind[r] = "embed" =>
          /\ row.seen \in Embeddings
          /\ row.seen.version = Visual => embedding[row.id] \in Answers
    /\ plan.kind[r] = "tags" => row.seen \in Embeddings /\ row.seen.version = Visual

RowsRead(r, t) ==
    /\ \A i \in DOMAIN t.batch : Read(r, t.batch[i])
    /\ \A job \in t.working : Read(r, job)

Handled(r, v) ==
    IF plan.kind[r] = "embed" THEN embedding[v] \in Answers ELSE transcript[v] # "nil"

\* The run will still come to video v.
Ahead(t, v) ==
    \/ t.phase = "fetch" /\ v > t.after_id
    \/ t.phase = "batch" /\ \/ v > t.last_id
                            \/ \E i \in DOMAIN t.batch : t.batch[i].id = v
                            \/ \E job \in t.working : job.id = v

Reached(r, t) == plan.limit[r] # NoLimit /\ t.updated >= plan.limit[r]

NoneForgotten(r, t) ==
    /\ t.began <= published
    /\ /\ plan.kind[r] # "tags"
       /\ t.phase # "aborted"
       /\ t.failures = 0
       /\ ~Reached(r, t)
       => \A v \in 1..t.began : Handled(r, v) \/ Ahead(t, v)

RunOK(r, t) ==
    InTurn(t) /\ Totals(t) /\ Within(r, t) /\ RowsRead(r, t) /\ NoneForgotten(r, t)

\* No video is published with a visual embedding.
VisualAnswered == \A v \in Ids : embedding[v].version = Visual => embedding[v] \in Answers

Types ==
    /\ plan \in Plans
    /\ published \in AtStart..MaxVideos
    /\ embedding \in [Ids -> Embeddings]
    /\ VisualAnswered
    /\ transcript \in [Ids -> Transcripts]
    /\ suggestions \subseteq Suggestions
    /\ task \in [Runs -> Tasks]

IInv == Types /\ \A r \in Runs : RunOK(r, task[r])

\* With one refresh of tags: what it has deleted in its transaction is all there
\* is of the video, and every video has the rows of one refresh.
OneRefresh == \A p \in Plans : \A r, s \in Runs : p.kind[r] = "tags" /\ p.kind[s] = "tags" => r = s

DeletesAll(r) ==
    \A job \in task[r].working : job.step = "persist" =>
        plan.kind[r] = "tags" /\ job.doomed = Outdated(job)

TagsInv == OneTopK /\ \A r \in Runs : DeletesAll(r)
-----------------------------------------------------------------------------
\* Every finite set of ids can be put in order: by induction on its size, as a
\* set of numbers that is not empty has a least one.

Below == {p \in Nat \X Nat : p[1] < p[2]}

LEMMA LeastNumber ==
    ASSUME NEW T, T \subseteq Nat, T # {}
    PROVE  \E x \in T : \A y \in T : x <= y
<1>1. Below = OpToRel(<, Nat)
  BY DEF Below, OpToRel
<1>2. IsWellFoundedOn(Below, Nat)
  BY <1>1, NatLessThanWellFounded
<1>3. \E x \in T : \A y \in T : ~ (<<y, x>> \in Below)
  BY <1>2, WFMin
<1>4. \A x, y \in Nat : ~(<<y, x>> \in Below) => x <= y
  BY DEF Below
<1> QED
  BY <1>3, <1>4

Sorts(q, S) ==
    /\ q \in [1..Cardinality(S) -> S]
    /\ \A i, j \in 1..Cardinality(S) : i < j => q[i] < q[j]
    /\ \A x \in S : \E i \in 1..Cardinality(S) : q[i] = x

Sortable(n) ==
    \A S : S \subseteq Nat /\ IsFiniteSet(S) /\ Cardinality(S) = n => \E q : Sorts(q, S)

LEMMA SortOneMore ==
    ASSUME NEW n \in Nat, Sortable(n)
    PROVE  Sortable(n + 1)
<1> SUFFICES ASSUME NEW S, S \subseteq Nat, IsFiniteSet(S), Cardinality(S) = n + 1
             PROVE  \E q : Sorts(q, S)
  BY DEF Sortable
<1>1. S # {}
  BY FS_EmptySet
<1>2. PICK m \in S : \A y \in S : m <= y
  BY <1>1, LeastNumber
<1> DEFINE rest == S \ {m}
<1>3. IsFiniteSet(rest) /\ Cardinality(rest) = n /\ rest \subseteq Nat
  BY FS_RemoveElement
<1>4. PICK p : Sorts(p, rest)
  BY <1>3 DEF Sortable
<1>5. /\ p \in [1..n -> rest]
      /\ \A i, j \in 1..n : i < j => p[i] < p[j]
      /\ \A x \in rest : \E i \in 1..n : p[i] = x
  BY <1>3, <1>4 DEF Sorts
<1> HIDE DEF rest
<1>6. rest \subseteq S /\ \A y \in rest : m < y
  BY <1>2 DEF rest
<1> DEFINE q == [i \in 1..(n + 1) |-> IF i = 1 THEN m ELSE p[i - 1]]
<1>7. \A i \in 1..(n + 1) : i = 1 \/ i - 1 \in 1..n
  OBVIOUS
<1>8. q \in [1..(n + 1) -> S]
  BY <1>5, <1>6, <1>7
<1>9. \A i, j \in 1..(n + 1) : i < j => q[i] < q[j]
  <2> SUFFICES ASSUME NEW i \in 1..(n + 1), NEW j \in 1..(n + 1), i < j PROVE q[i] < q[j]
    OBVIOUS
  <2>1. q[j] = p[j - 1] /\ j - 1 \in 1..n /\ p[j - 1] \in rest
    BY <1>5
  <2>2. CASE i = 1
    BY <1>6, <2>1, <2>2
  <2>3. CASE i # 1
    <3>1. q[i] = p[i - 1] /\ i - 1 \in 1..n /\ i - 1 < j - 1
      BY <2>3
    <3> QED
      BY <1>5, <2>1, <3>1
  <2> QED
    BY <2>2, <2>3
<1>10. \A x \in S : \E i \in 1..(n + 1) : q[i] = x
  <2> SUFFICES ASSUME NEW x \in S PROVE \E i \in 1..(n + 1) : q[i] = x
    OBVIOUS
  <2>1. CASE x = m
    BY <2>1
  <2>2. CASE x # m
    <3>1. PICK i \in 1..n : p[i] = x
      BY <1>5, <2>2 DEF rest
    <3>2. i + 1 \in 1..(n + 1) /\ q[i + 1] = x
      BY <3>1
    <3> QED
      BY <3>2
  <2> QED
    BY <2>1, <2>2
<1> QED
  BY <1>8, <1>9, <1>10 DEF Sorts

LEMMA AllSortable == \A n \in Nat : Sortable(n)
<1> DEFINE T == {n \in Nat : ~Sortable(n)}
<1> SUFFICES T = {}
  OBVIOUS
<1> SUFFICES ASSUME T # {} PROVE FALSE
  OBVIOUS
<1>1. PICK n \in T : \A k \in T : n <= k
  BY LeastNumber
<1>2. n # 0
  <2> SUFFICES Sortable(0)
    BY <1>1
  <2> SUFFICES ASSUME NEW S, IsFiniteSet(S), Cardinality(S) = 0 PROVE \E q : Sorts(q, S)
    BY DEF Sortable
  <2>1. S = {}
    BY FS_EmptySet
  <2>2. 1..0 = {}
    OBVIOUS
  <2>3. Sorts([i \in {} |-> i], S)
    BY <2>1, <2>2 DEF Sorts
  <2> QED
    BY <2>3
<1>3. n - 1 \in Nat /\ Sortable(n - 1)
  BY <1>1, <1>2
<1> QED
  BY <1>1, <1>3, SortOneMore

LEMMA Sorted ==
    ASSUME NEW S, S \subseteq Nat, IsFiniteSet(S)
    PROVE  /\ ById(S) \in Seq(S)
           /\ Len(ById(S)) = Cardinality(S)
           /\ \A i, j \in 1..Len(ById(S)) : i < j => ById(S)[i] < ById(S)[j]
           /\ \A x \in S : \E i \in 1..Len(ById(S)) : ById(S)[i] = x
<1>1. Cardinality(S) \in Nat
  BY FS_CardinalityType
<1>2. PICK q : Sorts(q, S)
  BY <1>1, AllSortable DEF Sortable
<1>3. q \in SetToSeqs(S) /\ DOMAIN q = 1..Cardinality(S)
  <2>1. \A i, j \in 1..Cardinality(S) : i # j => q[i] # q[j]
    <3> SUFFICES ASSUME NEW i \in 1..Cardinality(S), NEW j \in 1..Cardinality(S), i # j
                 PROVE  q[i] # q[j]
      OBVIOUS
    <3>1. q[i] \in Nat /\ q[j] \in Nat
      BY <1>2 DEF Sorts
    <3>2. i < j \/ j < i
      BY <1>1
    <3> QED
      BY <1>2, <3>1, <3>2 DEF Sorts
  <2> QED
    BY <1>2, <2>1 DEF Sorts, SetToSeqs
<1>4. \E s \in SetToSeqs(S) : \A i, j \in DOMAIN s : i < j => s[i] < s[j]
  BY <1>2, <1>3 DEF Sorts
<1>5. /\ ById(S) \in SetToSeqs(S)
      /\ \A i, j \in DOMAIN ById(S) : i < j => ById(S)[i] < ById(S)[j]
  BY <1>4 DEF ById
<1> DEFINE s == ById(S)
<1>6. /\ s \in [1..Cardinality(S) -> S]
      /\ \A i, j \in 1..Cardinality(S) : i # j => s[i] # s[j]
  BY <1>5 DEF SetToSeqs
<1> HIDE DEF s
<1>7. s \in Seq(S) /\ Len(s) = Cardinality(S) /\ DOMAIN s = 1..Len(s)
  BY <1>1, <1>6
<1>8. ASSUME NEW x \in S PROVE \E i \in 1..Len(s) : s[i] = x
  <2>1. s \in Injection(1..Cardinality(S), S)
    BY <1>6, Fun_IsInj
  <2>2. IsFiniteSet(1..Cardinality(S)) /\ Cardinality(1..Cardinality(S)) = Cardinality(S)
    BY <1>1, FS_Interval
  <2>3. s \in Surjection(1..Cardinality(S), S)
    BY <2>1, <2>2, FS_Injection
  <2> QED
    BY <1>7, <2>3, Fun_SurjectionProperties
<1> QED
  BY <1>5, <1>7, <1>8 DEF s

-----------------------------------------------------------------------------
\* Sequences and queries.

USE EnrichmentAssumption

LEMMA NumberIds == Ids \subseteq Nat
  BY DEF Ids

LEMMA TailFacts ==
    ASSUME NEW S, NEW s \in Seq(S), s # <<>>
    PROVE  /\ Head(s) \in S /\ Head(s) = s[1] /\ 1 \in DOMAIN s
           /\ Tail(s) \in Seq(S) /\ Len(Tail(s)) = Len(s) - 1
           /\ \A i \in DOMAIN Tail(s) : i + 1 \in DOMAIN s /\ Tail(s)[i] = s[i + 1]
           /\ \A i \in DOMAIN s : i = 1 \/ (i - 1 \in DOMAIN Tail(s) /\ Tail(s)[i - 1] = s[i])
  OBVIOUS

LEMMA AppendFacts ==
    ASSUME NEW S, NEW s \in Seq(S), NEW e \in S
    PROVE  /\ Append(s, e) \in Seq(S) /\ Len(Append(s, e)) = Len(s) + 1
           /\ \A i \in DOMAIN s : i \in DOMAIN Append(s, e) /\ Append(s, e)[i] = s[i]
           /\ Len(s) + 1 \in DOMAIN Append(s, e) /\ Append(s, e)[Len(s) + 1] = e
           /\ \A i \in DOMAIN Append(s, e) : i \in DOMAIN s \/ i = Len(s) + 1
           /\ \A i \in DOMAIN s : i < Len(s) + 1
  OBVIOUS

\* What the query of a batch returns.
LEMMA FirstIdsFacts ==
    ASSUME Types, NEW r \in Runs, Candidates(r) # {}
    PROVE  LET ids == FirstIds(r)
           IN  /\ ids \in Seq(Ids) /\ Len(ids) \in 1..BatchSize
               /\ \A i, j \in DOMAIN ids : i < j => ids[i] < ids[j]
               /\ \A i \in DOMAIN ids : ids[i] \in Candidates(r)
               /\ \A v \in Candidates(r) :
                     v > ids[Len(ids)] \/ \E i \in DOMAIN ids : ids[i] = v
<1> DEFINE S == Candidates(r)
           all == ById(S)
           n == IF Len(all) < BatchSize THEN Len(all) ELSE BatchSize
           ids == SubSeq(all, 1, n)
<1>1. S \subseteq Ids /\ S \subseteq Nat /\ IsFiniteSet(S)
  <2>1. published \in Nat /\ published <= MaxVideos
    BY DEF Types
  <2>2. IsFiniteSet(1..published)
    BY <2>1, FS_Interval
  <2>3. S \subseteq 1..published
    BY DEF Candidates
  <2>4. 1..published \subseteq Ids /\ Ids \subseteq Nat
    BY <2>1 DEF Ids
  <2> QED
    BY <2>2, <2>3, <2>4, FS_Subset
<1>2. /\ all \in Seq(S)
      /\ \A i, j \in 1..Len(all) : i < j => all[i] < all[j]
      /\ \A x \in S : \E i \in 1..Len(all) : all[i] = x
  BY <1>1, Sorted
<1>3. S # {} /\ FirstIds(r) = ids
  BY DEF FirstIds
<1> HIDE DEF S, all
<1>4. Len(all) \in Nat \ {0}
  BY <1>2, <1>3
<1>5. n \in 1..BatchSize /\ n <= Len(all) /\ (n = BatchSize \/ n = Len(all))
  BY <1>4
<1> HIDE DEF n
<1>6. ids \in Seq(S) /\ Len(ids) = n /\ DOMAIN ids = 1..n /\ \A i \in 1..n : ids[i] = all[i]
  BY <1>2, <1>4, <1>5
<1> HIDE DEF ids
<1>7. ASSUME NEW v \in S PROVE v > ids[Len(ids)] \/ \E i \in DOMAIN ids : ids[i] = v
  <2>1. PICK i \in 1..Len(all) : all[i] = v
    BY <1>2
  <2>2. CASE i <= n
    BY <1>4, <1>5, <1>6, <2>1, <2>2
  <2>3. CASE i > n
    <3>1. n \in 1..Len(all) /\ all[n] < all[i] /\ all[n] \in S
      BY <1>2, <1>4, <1>5, <2>3
    <3>2. ids[Len(ids)] = all[n]
      BY <1>5, <1>6
    <3> QED
      BY <1>1, <2>1, <3>1, <3>2
  <2> QED
    BY <1>5, <2>2, <2>3
<1>8. \A i, j \in DOMAIN ids : i < j => ids[i] < ids[j]
  <2>1. 1..n \subseteq 1..Len(all)
    BY <1>4, <1>5
  <2> QED
    BY <1>2, <1>6, <2>1
<1>9. ids \in Seq(Ids) /\ \A i \in DOMAIN ids : ids[i] \in S
  <2>1. \A i \in 1..Len(ids) : ids[i] \in S
    BY <1>6, ElementOfSeq
  <2> QED
    BY <1>1, <1>6, <2>1, SeqMonotonic
<1> QED
  BY <1>3, <1>5, <1>6, <1>7, <1>8, <1>9 DEF S

-----------------------------------------------------------------------------
\* What a step is to a run.

\* What is done stays done.
Keeps ==
    /\ plan' = plan
    /\ published <= published'
    /\ \A v \in Ids : embedding[v] \in Answers => embedding'[v] \in Answers
    /\ \A v \in Ids : transcript[v] # "nil" => transcript'[v] # "nil"

LEMMA SameAnswers ==
    ASSUME plan' = plan
    PROVE  Answers' = Answers /\ (VisualAnswered /\ embedding' = embedding => VisualAnswered')
<1>1. Answers' = Answers
  BY DEF Answers, Embedders
<1> QED
  BY <1>1 DEF VisualAnswered

LEMMA StillRead ==
    ASSUME Keeps, NEW r \in Runs, NEW row, row.id \in Ids, Read(r, row)
    PROVE  Read(r, row)'
  BY SameAnswers DEF Read, Keeps

LEMMA TaskFacts ==
    ASSUME NEW t \in Tasks
    PROVE  /\ t.phase \in {"fetch", "batch", "finished", "aborted"}
           /\ t.after_id \in Nat /\ t.last_id \in Nat /\ t.began \in Nat
           /\ t.updated \in Nat /\ t.skipped \in Nat /\ t.failures \in Nat
           /\ t.batch \in Seq(Rows) /\ t.visited \in Seq(Ids)
           /\ t.working \in SUBSET Jobs
           /\ \A i \in DOMAIN t.batch : t.batch[i] \in Rows /\ t.batch[i].id \in Ids
           /\ \A i \in DOMAIN t.visited : t.visited[i] \in Ids
           /\ \A job \in t.working : job.id \in Ids
<1>1. t.batch \in Seq(Rows) /\ t.visited \in Seq(Ids) /\ t.working \in SUBSET Jobs
  BY DEF Tasks
<1>2. \A i \in DOMAIN t.batch : t.batch[i] \in Rows
  BY <1>1
<1>3. \A i \in DOMAIN t.visited : t.visited[i] \in Ids
  BY <1>1
<1>4. \A row \in Rows : row.id \in Ids
  BY DEF Rows
<1>5. \A job \in Jobs : job.id \in Ids
  BY DEF Jobs
<1>6. /\ t.phase \in {"fetch", "batch", "finished", "aborted"}
      /\ t.after_id \in Nat /\ t.last_id \in Nat /\ t.began \in Nat
      /\ t.updated \in Nat /\ t.skipped \in Nat /\ t.failures \in Nat
  BY DEF Tasks
<1> QED
  BY <1>1, <1>2, <1>3, <1>4, <1>5, <1>6

LEMMA StillOK ==
    ASSUME Types, Types', Keeps, NEW r \in Runs, NEW t \in Tasks, RunOK(r, t)
    PROVE  RunOK(r, t)'
<1>1. InTurn(t)' /\ Totals(t)'
  BY DEF RunOK, InTurn, Totals
<1>2. Within(r, t)'
  BY DEF RunOK, Within, AtOnce, Keeps
<1>3. RowsRead(r, t)'
  <2>1. /\ \A i \in DOMAIN t.batch : t.batch[i].id \in Ids
        /\ \A job \in t.working : job.id \in Ids
    BY TaskFacts
  <2> QED
    BY <2>1, StillRead DEF RunOK, RowsRead
<1>4. NoneForgotten(r, t)'
  <2>1. t.began \in Nat /\ published \in Nat /\ published' \in Nat /\ published <= MaxVideos
    BY TaskFacts DEF Types
  <2>2. t.began <= published' /\ 1..t.began \subseteq Ids
    BY <2>1 DEF RunOK, NoneForgotten, Keeps, Ids
  <2>3. ASSUME NEW v \in Ids, Handled(r, v) PROVE Handled(r, v)'
    BY <2>3, SameAnswers DEF Handled, Keeps
  <2>4. Reached(r, t)' = Reached(r, t)
    BY DEF Reached, Keeps
  <2>5. \A v : Ahead(t, v)' = Ahead(t, v)
    BY DEF Ahead
  <2> QED
    BY <2>2, <2>3, <2>4, <2>5 DEF RunOK, NoneForgotten, Keeps
<1> QED
  BY <1>1, <1>2, <1>3, <1>4 DEF RunOK

LEMMA SameRun ==
    ASSUME NEW r \in Runs, NEW t, task'[r] = t, RunOK(r, t)'
    PROVE  RunOK(r, task[r])'
<1>1. InTurn(task[r])' /\ Totals(task[r])'
  BY DEF RunOK, InTurn, Totals
<1>2. Within(r, task[r])' /\ RowsRead(r, task[r])'
  BY DEF RunOK, Within, RowsRead
<1>3. \A v : Ahead(t, v)' => Ahead(task[r], v)'
  BY DEF Ahead
<1>4. NoneForgotten(r, task[r])'
  BY <1>3 DEF RunOK, NoneForgotten, Reached
<1> QED
  BY <1>1, <1>2, <1>4 DEF RunOK

LEMMA RunMoves ==
    ASSUME IInv, NEW r \in Runs, NEW u \in Tasks, task' = [task EXCEPT ![r] = u],
           Types', Keeps, RunOK(r, u)'
    PROVE  IInv'
<1> SUFFICES ASSUME NEW x \in Runs PROVE RunOK(x, task[x])'
  BY DEF IInv
<1>1. CASE x = r
  <2>1. task'[x] = u
    BY <1>1 DEF IInv, Types
  <2> QED
    BY <1>1, <2>1, SameRun
<1>2. CASE x # r
  <2>1. PICK t \in Tasks : t = task[x] /\ t = task'[x]
    BY <1>2 DEF IInv, Types
  <2>2. RunOK(x, t)
    BY <2>1 DEF IInv
  <2>3. RunOK(x, t)'
    BY <2>2, StillOK DEF IInv
  <2> QED
    BY <2>1, <2>3, SameRun
<1> QED
  BY <1>1, <1>2

\* A step of a run that leaves the tables as they are.
LEMMA QuietMove ==
    ASSUME IInv, NEW r \in Runs, NEW u \in Tasks, task' = [task EXCEPT ![r] = u],
           UNCHANGED <<plan, published, embedding, transcript, suggestions>>,
           RunOK(r, u)
    PROVE  IInv'
<1>1. Types'
  BY SameAnswers DEF IInv, Types
<1>2. Keeps
  BY DEF Keeps, IInv, Types
<1>3. Types
  BY DEF IInv
<1>4. RunOK(r, u)'
  BY <1>1, <1>2, <1>3, StillOK
<1> QED
  BY <1>1, <1>2, <1>4, RunMoves

-----------------------------------------------------------------------------
\* The loop over the batches.

LEMMA LimitIsReached ==
    ASSUME NEW r \in Runs
    PROVE  LimitReached(r) <=> Reached(r, task[r])
  BY DEF LimitReached, Reached

LEMMA FetchNothing ==
    ASSUME IInv, NEW r \in Runs, task[r].phase = "fetch",
           LimitReached(r) \/ Candidates(r) = {},
           task' = [task EXCEPT ![r].phase = "finished"],
           UNCHANGED <<plan, published, embedding, transcript, suggestions>>
    PROVE  IInv'
<1> DEFINE t == task[r]
           u == [t EXCEPT !.phase = "finished"]
<1>1. t \in Tasks /\ RunOK(r, t) /\ t.phase = "fetch"
  BY DEF IInv, Types
<1>2. task' = [task EXCEPT ![r] = u]
  OBVIOUS
<1> HIDE DEF t
<1>3. /\ u \in Tasks /\ u.phase = "finished"
      /\ u.batch = t.batch /\ u.working = t.working /\ u.visited = t.visited
      /\ u.updated = t.updated /\ u.skipped = t.skipped /\ u.failures = t.failures
      /\ u.began = t.began
  BY <1>1 DEF Tasks
<1> HIDE DEF u
<1>4. InTurn(u) /\ Totals(u)
  BY <1>1, <1>3 DEF RunOK, InTurn, Totals
<1>5. Within(r, u) /\ RowsRead(r, u)
  BY <1>1, <1>3 DEF RunOK, Within, RowsRead
<1>6. NoneForgotten(r, u)
  <2> SUFFICES ASSUME plan.kind[r] # "tags", u.failures = 0, ~Reached(r, u),
                      NEW v \in 1..u.began
               PROVE  Handled(r, v)
    BY <1>1, <1>3 DEF RunOK, NoneForgotten
  <2>1. ~Reached(r, t) /\ v \in 1..t.began
    BY <1>3 DEF Reached
  <2>2. Handled(r, v) \/ v > t.after_id
    BY <1>1, <1>3, <2>1 DEF RunOK, NoneForgotten, Ahead
  <2>3. Candidates(r) = {}
    BY <2>1, LimitIsReached DEF t
  <2>4. v \in 1..published
    BY <1>1, <2>1, TaskFacts DEF RunOK, NoneForgotten, IInv, Types
  <2>5. Wanted(r, v) => v <= t.after_id
    BY <1>1, <2>3, <2>4, TaskFacts DEF Candidates, t
  <2>6. CASE v <= t.after_id
    BY <1>1, <2>2, <2>4, <2>6, TaskFacts
  <2>7. CASE ~Wanted(r, v)
    <3>1. plan.kind[r] \in {"embed", "transcribe", "tags"}
      BY DEF IInv, Types, PlanType
    <3> QED
      BY <2>7, <3>1 DEF Wanted, Handled
  <2> QED
    BY <2>5, <2>6, <2>7
<1> QED
  BY <1>2, <1>3, <1>4, <1>5, <1>6, QuietMove DEF RunOK

\* The batch that is read: its rows are what the query returned.
LEMMA RowsFacts ==
    ASSUME Types, NEW r \in Runs, Candidates(r) # {}, NEW rows,
           rows = [i \in DOMAIN FirstIds(r) |->
                     [id |-> FirstIds(r)[i], seen |-> Seen(r, FirstIds(r)[i])]],
           NEW last, last = FirstIds(r)[Len(FirstIds(r))]
    PROVE  /\ rows \in Seq(Rows) /\ Len(rows) \in 1..BatchSize
           /\ \A i, j \in DOMAIN rows : i < j => rows[i].id < rows[j].id
           /\ \A i \in DOMAIN rows :
                 rows[i].id > task[r].after_id /\ rows[i].id <= last /\ Read(r, rows[i])
           /\ \A v \in Candidates(r) : v > last \/ \E i \in DOMAIN rows : rows[i].id = v
           /\ last \in Ids /\ last > task[r].after_id
<1>1. PICK ids : ids = FirstIds(r)
  OBVIOUS
<1>2. /\ ids \in Seq(Ids) /\ Len(ids) \in 1..BatchSize
      /\ \A i, j \in DOMAIN ids : i < j => ids[i] < ids[j]
      /\ \A i \in DOMAIN ids : ids[i] \in Candidates(r)
      /\ \A v \in Candidates(r) :
            v > ids[Len(ids)] \/ \E i \in DOMAIN ids : ids[i] = v
  BY <1>1, FirstIdsFacts
<1>3. rows = [i \in DOMAIN ids |-> [id |-> ids[i], seen |-> Seen(r, ids[i])]]
      /\ last = ids[Len(ids)]
  BY <1>1
<1>4. plan.kind[r] \in {"embed", "transcribe", "tags"}
  BY DEF Types, PlanType
<1>5. Len(ids) \in DOMAIN ids /\ DOMAIN ids = 1..Len(ids) /\ Len(ids) \in Nat
  BY <1>2
<1>6. \A i \in DOMAIN ids : ids[i] \in Ids
  BY <1>2, ElementOfSeq
<1>7. ASSUME NEW i \in DOMAIN ids
      PROVE  /\ rows[i] \in Rows /\ rows[i].id = ids[i]
             /\ ids[i] > task[r].after_id /\ ids[i] <= last /\ Read(r, rows[i])
  <2>1. ids[i] \in Ids /\ ids[i] \in Candidates(r)
    BY <1>2, <1>6
  <2>2. rows[i] = [id |-> ids[i], seen |-> Seen(r, ids[i])]
    BY <1>3
  <2>3. embedding[ids[i]] \in Embeddings
    BY <2>1 DEF Types
  <2>4. rows[i] \in Rows
    BY <2>1, <2>2, <2>3 DEF Rows, Seen
  <2>5. Read(r, rows[i])
    <3>1. rows[i].id = ids[i] /\ rows[i].seen = Seen(r, ids[i])
      BY <2>2
    <3>2. CASE plan.kind[r] = "embed"
      BY <2>1, <2>3, <3>1, <3>2 DEF Read, Seen, Types, VisualAnswered
    <3>3. CASE plan.kind[r] = "transcribe"
      BY <3>3 DEF Read
    <3>4. CASE plan.kind[r] = "tags"
      BY <2>1, <2>3, <3>1, <3>4 DEF Read, Seen, Candidates, Wanted
    <3> QED
      BY <1>4, <3>2, <3>3, <3>4
  <2>6. ids[i] > task[r].after_id
    BY <2>1 DEF Candidates
  <2>7. ids[i] <= ids[Len(ids)]
    <3>1. ids[i] \in Nat /\ ids[Len(ids)] \in Nat
      BY <1>5, <1>6, NumberIds
    <3>2. i = Len(ids) \/ i < Len(ids)
      BY <1>5
    <3>3. i < Len(ids) => ids[i] < ids[Len(ids)]
      BY <1>2, <1>5
    <3> QED
      BY <3>1, <3>2, <3>3
  <2> QED
    BY <1>3, <2>1, <2>2, <2>4, <2>5, <2>6, <2>7
<1>8. rows \in Seq(Rows) /\ Len(rows) = Len(ids) /\ DOMAIN rows = DOMAIN ids
  <2>1. rows \in [1..Len(ids) -> Rows]
    BY <1>3, <1>5, <1>7
  <2> HIDE <1>3
  <2> QED
    BY <1>5, <2>1
<1>9. last \in Ids /\ last > task[r].after_id
  BY <1>3, <1>5, <1>6, <1>7
<1>10. \A i, j \in DOMAIN rows : i < j => rows[i].id < rows[j].id
  <2> SUFFICES ASSUME NEW i \in DOMAIN ids, NEW j \in DOMAIN ids, i < j
               PROVE  rows[i].id < rows[j].id
    BY <1>8
  <2>1. ids[i] < ids[j]
    BY <1>2
  <2>2. rows[i].id = ids[i] /\ rows[j].id = ids[j]
    BY <1>7
  <2> QED
    BY <2>1, <2>2
<1>11. \A i \in DOMAIN rows :
          rows[i].id > task[r].after_id /\ rows[i].id <= last /\ Read(r, rows[i])
  BY <1>7, <1>8
<1>12. ASSUME NEW v \in Candidates(r)
       PROVE  v > last \/ \E i \in DOMAIN rows : rows[i].id = v
  <2>1. CASE v > ids[Len(ids)]
    BY <1>3, <2>1
  <2>2. ASSUME NEW i \in DOMAIN ids, ids[i] = v PROVE \E j \in DOMAIN rows : rows[j].id = v
    <3>1. rows[i].id = v /\ i \in DOMAIN rows
      BY <1>7, <1>8, <2>2
    <3> QED
      BY <3>1
  <2> QED
    BY <1>2, <2>1, <2>2
<1> QED
  BY <1>2, <1>8, <1>9, <1>10, <1>11, <1>12

LEMMA FetchBatchOK ==
    ASSUME Types, NEW r \in Runs, NEW t \in Tasks, t = task[r], RunOK(r, t), t.phase = "fetch",
           ~LimitReached(r), NEW rows \in Seq(Rows), NEW last \in Ids,
           Len(rows) \in 1..BatchSize, last > t.after_id,
           \A i, j \in DOMAIN rows : i < j => rows[i].id < rows[j].id,
           \A i \in DOMAIN rows :
              rows[i].id > t.after_id /\ rows[i].id <= last /\ Read(r, rows[i]),
           \A v \in Candidates(r) : v > last \/ \E i \in DOMAIN rows : rows[i].id = v
    PROVE  LET u == [t EXCEPT !.phase = "batch", !.batch = rows, !.last_id = last]
           IN  u \in Tasks /\ RunOK(r, u)
<1> DEFINE u == [t EXCEPT !.phase = "batch", !.batch = rows, !.last_id = last]
<1>1. Ids \subseteq Nat
  BY DEF Ids
<1>2. /\ u \in Tasks /\ u.phase = "batch" /\ u.last_id = last
      /\ u.batch = rows /\ u.working = t.working /\ u.visited = t.visited
      /\ u.updated = t.updated /\ u.skipped = t.skipped /\ u.failures = t.failures
      /\ u.began = t.began
  BY <1>1 DEF Tasks
<1> HIDE DEF u
<1>3. /\ t.batch = <<>> /\ t.working = {}
      /\ \A i \in DOMAIN t.visited : t.visited[i] <= t.after_id
      /\ \A i, j \in DOMAIN t.visited : i < j => t.visited[i] < t.visited[j]
  BY DEF RunOK, InTurn
<1>4. ASSUME NEW i \in DOMAIN t.visited
      PROVE  t.visited[i] <= last /\ \A j \in DOMAIN rows : t.visited[i] < rows[j].id
  <2>1. t.visited[i] \in Nat /\ t.after_id \in Nat /\ last \in Nat
    BY <1>1, TaskFacts
  <2>2. \A j \in DOMAIN rows : rows[j].id \in Nat
    <3>1. \A j \in DOMAIN rows : rows[j] \in Rows
      BY ElementOfSeq
    <3>2. \A row \in Rows : row.id \in Ids
      BY DEF Rows
    <3> QED
      BY <1>1, <3>1, <3>2
  <2> QED
    BY <1>3, <2>1, <2>2
<1>5. InTurn(u)
  BY <1>2, <1>3, <1>4 DEF InTurn
<1>6. Totals(u)
  BY <1>2 DEF RunOK, Totals
<1>7. Within(r, u)
  <2>1. Cardinality(u.working) = 0
    BY <1>2, <1>3, FS_EmptySet
  <2>2. /\ t.updated \in Nat /\ plan.limit[r] \in Nat \cup {NoLimit}
        /\ plan.limit[r] # NoLimit => t.updated < plan.limit[r]
    BY TaskFacts DEF LimitReached, Types, PlanType
  <2>3. Cardinality(u.working) <= AtOnce(r)
    BY <1>2 DEF RunOK, Within
  <2>4. Len(u.batch) \in 1..BatchSize /\ BatchSize \in Nat
    BY <1>2
  <2> QED
    BY <1>2, <2>1, <2>2, <2>3, <2>4 DEF Within
<1>8. RowsRead(r, u)
  BY <1>2, <1>3 DEF RowsRead
<1>9. NoneForgotten(r, u)
  <2> SUFFICES ASSUME plan.kind[r] # "tags", u.failures = 0, ~Reached(r, u),
                      NEW v \in 1..u.began, ~Handled(r, v)
               PROVE  Ahead(u, v)
    BY <1>2 DEF RunOK, NoneForgotten
  <2>1. v > t.after_id
    BY <1>2 DEF RunOK, NoneForgotten, Ahead, Reached
  <2>2. v \in 1..published
    <3>1. t.began <= published /\ t.began \in Nat /\ published \in Nat /\ v \in 1..t.began
      BY <1>2, TaskFacts DEF RunOK, NoneForgotten, Types
    <3> QED
      BY <3>1
  <2>3. v \in Candidates(r)
    <3>1. plan.kind[r] \in {"embed", "transcribe", "tags"}
      BY DEF Types, PlanType
    <3> QED
      BY <2>1, <2>2, <3>1 DEF Candidates, Wanted, Handled
  <2> QED
    BY <1>2, <2>3 DEF Ahead
<1>10. RunOK(r, u)
  BY <1>5, <1>6, <1>7, <1>8, <1>9 DEF RunOK
<1> QED
  BY <1>2, <1>10 DEF u

LEMMA FetchStep ==
    ASSUME IInv, NEW r \in Runs, Fetch(r), UNCHANGED plan
    PROVE  IInv'
<1>1. CASE LimitReached(r) \/ Candidates(r) = {}
  BY <1>1, FetchNothing DEF Fetch
<1>2. CASE ~(LimitReached(r) \/ Candidates(r) = {})
  <2>1. PICK rows : rows = [i \in DOMAIN FirstIds(r) |->
                     [id |-> FirstIds(r)[i], seen |-> Seen(r, FirstIds(r)[i])]]
    OBVIOUS
  <2>2. PICK last : last = FirstIds(r)[Len(FirstIds(r))]
    OBVIOUS
  <2>3. PICK t : t = task[r]
    OBVIOUS
  <2>4. t \in Tasks /\ RunOK(r, t) /\ t.phase = "fetch" /\ Types
    BY <2>3 DEF IInv, Types, Fetch
  <2> DEFINE u == [t EXCEPT !.phase = "batch", !.batch = rows, !.last_id = last]
  <2>5. /\ rows \in Seq(Rows) /\ Len(rows) \in 1..BatchSize
        /\ \A i, j \in DOMAIN rows : i < j => rows[i].id < rows[j].id
        /\ \A i \in DOMAIN rows :
              rows[i].id > t.after_id /\ rows[i].id <= last /\ Read(r, rows[i])
        /\ \A v \in Candidates(r) : v > last \/ \E i \in DOMAIN rows : rows[i].id = v
        /\ last \in Ids /\ last > t.after_id
    BY <1>2, <2>1, <2>2, <2>3, <2>4, RowsFacts
  <2>8. u \in Tasks /\ RunOK(r, u)
    BY <1>2, <2>3, <2>4, <2>5, FetchBatchOK
  <2>6. task' = [task EXCEPT ![r] = u]
    BY <1>2, <2>1, <2>2, <2>3 DEF Fetch
  <2>7. UNCHANGED <<plan, published, embedding, transcript, suggestions>>
    BY DEF Fetch
  <2> HIDE DEF u
  <2> QED
    BY <2>6, <2>7, <2>8, QuietMove
<1> QED
  BY <1>1, <1>2

LEMMA NextBatchStep ==
    ASSUME IInv, NEW r \in Runs, NextBatch(r), UNCHANGED plan
    PROVE  IInv'
<1>1. PICK t : t = task[r]
  OBVIOUS
<1>2. t \in Tasks /\ RunOK(r, t) /\ t.phase = "batch" /\ t.batch = <<>> /\ t.working = {} /\ Types
  BY <1>1 DEF IInv, Types, NextBatch
<1> DEFINE u == [t EXCEPT !.phase = "fetch", !.after_id = t.last_id]
<1>3. task' = [task EXCEPT ![r] = u]
  BY <1>1 DEF NextBatch
<1>4. /\ u \in Tasks /\ u.phase = "fetch" /\ u.after_id = t.last_id
      /\ u.batch = t.batch /\ u.working = t.working /\ u.visited = t.visited
      /\ u.updated = t.updated /\ u.skipped = t.skipped /\ u.failures = t.failures
      /\ u.began = t.began
  BY <1>2 DEF Tasks
<1> HIDE DEF u
<1>5. InTurn(u)
  BY <1>2, <1>4 DEF RunOK, InTurn
<1>6. Totals(u) /\ Within(r, u) /\ RowsRead(r, u)
  BY <1>2, <1>4 DEF RunOK, Totals, Within, RowsRead
<1>7. NoneForgotten(r, u)
  <2>1. \A v : Ahead(t, v) => Ahead(u, v)
    BY <1>2, <1>4 DEF Ahead
  <2> QED
    BY <1>2, <1>4, <2>1 DEF RunOK, NoneForgotten, Reached
<1>8. RunOK(r, u)
  BY <1>5, <1>6, <1>7 DEF RunOK
<1>9. UNCHANGED <<plan, published, embedding, transcript, suggestions>>
  BY DEF NextBatch
<1> QED
  BY <1>3, <1>4, <1>8, <1>9, QuietMove

LEMMA AbortStep ==
    ASSUME IInv, NEW r \in Runs, Abort(r), UNCHANGED plan
    PROVE  IInv'
<1>1. PICK t : t = task[r]
  OBVIOUS
<1>2. t \in Tasks /\ RunOK(r, t) /\ Types
  BY <1>1 DEF IInv, Types
<1> DEFINE u == [NewTask(0) EXCEPT !.phase = "aborted"]
<1>3. task' = [task EXCEPT ![r] = u]
  BY DEF Abort
<1>4. /\ u \in Tasks /\ u.phase = "aborted"
      /\ u.batch = <<>> /\ u.working = {} /\ u.visited = <<>>
      /\ u.updated = 0 /\ u.began = 0
  <2>1. <<>> \in Seq(Rows) /\ {} \in SUBSET Jobs /\ <<>> \in Seq(Ids) /\ 0 \in Nat
    OBVIOUS
  <2> QED
    BY <2>1 DEF Tasks, NewTask
<1> HIDE DEF u
<1>5. InTurn(u)
  BY <1>4 DEF InTurn
<1>6. IsFiniteSet({}) /\ Cardinality({}) = 0
  BY FS_EmptySet
<1>7. Totals(u) /\ RowsRead(r, u) /\ NoneForgotten(r, u)
  BY <1>2, <1>4, <1>6 DEF Totals, RowsRead, NoneForgotten, Types
<1>8. Within(r, u)
  <2>1. /\ plan.limit[r] \in Nat \cup {NoLimit} /\ BatchSize \in Nat \ {0}
        /\ Len(u.batch) = 0 /\ Cardinality(u.working) = 0 /\ AtOnce(r) \in Nat
    BY <1>2, <1>4, <1>6 DEF Types, PlanType, AtOnce
  <2> QED
    BY <1>4, <2>1 DEF Within
<1>9. RunOK(r, u)
  BY <1>5, <1>7, <1>8 DEF RunOK
<1>10. UNCHANGED <<plan, published, embedding, transcript, suggestions>>
  BY DEF Abort
<1> QED
  BY <1>3, <1>4, <1>9, <1>10, QuietMove

\* A run at its beginning.
LEMMA NewTaskOK ==
    ASSUME Types, NEW r \in Runs
    PROVE  NewTask(published) \in Tasks /\ RunOK(r, NewTask(published))
<1>1. PICK t : t = NewTask(published)
  OBVIOUS
<1>2. published \in Nat
  BY DEF Types
<1>3. t \in Tasks
  BY <1>1, <1>2 DEF NewTask, Tasks
<1>4. /\ t.phase = "fetch" /\ t.after_id = 0 /\ t.batch = <<>> /\ t.working = {}
      /\ t.updated = 0 /\ t.skipped = 0 /\ t.failures = 0 /\ t.visited = <<>>
      /\ t.began = published
  BY <1>1 DEF NewTask
<1>5. IsFiniteSet({}) /\ Cardinality({}) = 0
  BY FS_EmptySet
<1>6. InTurn(t) /\ Totals(t) /\ RowsRead(r, t)
  BY <1>4, <1>5 DEF InTurn, Totals, RowsRead
<1>7. Within(r, t)
  <2>1. AtOnce(r) \in Nat /\ BatchSize \in Nat \ {0} /\ plan.limit[r] \in Nat \cup {NoLimit}
    BY DEF AtOnce, Types, PlanType
  <2>2. Len(t.batch) = 0 /\ Cardinality(t.working) = 0
    BY <1>4, <1>5
  <2> QED
    BY <1>4, <2>1, <2>2 DEF Within
<1>8. NoneForgotten(r, t)
  BY <1>2, <1>4 DEF NoneForgotten, Ahead
<1> QED
  BY <1>1, <1>3, <1>6, <1>7, <1>8 DEF RunOK

LEMMA RestartStep ==
    ASSUME IInv, NEW r \in Runs, Restart(r), UNCHANGED plan
    PROVE  IInv'
<1>1. PICK u : u = NewTask(published)
  OBVIOUS
<1>2. u \in Tasks /\ RunOK(r, u)
  BY <1>1, NewTaskOK DEF IInv
<1>3. task' = [task EXCEPT ![r] = u]
  BY <1>1 DEF Restart
<1>4. UNCHANGED <<plan, published, embedding, transcript, suggestions>>
  BY DEF Restart
<1> QED
  BY <1>2, <1>3, <1>4, QuietMove

-----------------------------------------------------------------------------
\* A video's turn.

\* The video whose turn it is comes after all that were visited.
LEMMA TurnComes ==
    ASSUME NEW t \in Tasks, InTurn(t), t.phase = "batch", t.batch # <<>>,
           NEW u \in Tasks, u.phase = "batch", u.last_id = t.last_id, u.batch = Tail(t.batch),
           u.visited = Append(t.visited, Head(t.batch).id),
           \A job \in u.working : job \in t.working \/ job.id = Head(t.batch).id,
           \A job, other \in u.working :
              job \notin t.working /\ other \notin t.working => job = other
    PROVE  InTurn(u)
<1> DEFINE v == Head(t.batch).id
<1>1. /\ t.batch \in Seq(Rows) /\ t.visited \in Seq(Ids)
      /\ \A i \in DOMAIN t.batch : t.batch[i].id \in Ids
      /\ \A i \in DOMAIN t.visited : t.visited[i] \in Ids
      /\ \A job \in t.working : job.id \in Ids
  BY TaskFacts
<1>2. /\ 1 \in DOMAIN t.batch /\ Head(t.batch) = t.batch[1]
      /\ \A i \in DOMAIN Tail(t.batch) :
            i + 1 \in DOMAIN t.batch /\ Tail(t.batch)[i] = t.batch[i + 1] /\ 1 < i + 1
      /\ DOMAIN Tail(t.batch) \subseteq Nat
  <2>1. Tail(t.batch) \in Seq(Rows)
    BY <1>1, TailFacts
  <2>2. DOMAIN Tail(t.batch) \subseteq Nat \ {0}
    BY <2>1
  <2> QED
    BY <1>1, <2>2, TailFacts
<1>3. v \in Ids /\ v \in Nat
  BY <1>1, <1>2, NumberIds
<1>4. /\ \A i \in DOMAIN t.visited : t.visited[i] < v /\ t.visited[i] <= t.last_id
      /\ v <= t.last_id
      /\ \A i \in DOMAIN Tail(t.batch) :
            v < Tail(t.batch)[i].id /\ Tail(t.batch)[i].id <= t.last_id
  BY <1>1, <1>2 DEF InTurn
<1>5. \A i, j \in DOMAIN Tail(t.batch) : i < j => Tail(t.batch)[i].id < Tail(t.batch)[j].id
  <2> SUFFICES ASSUME NEW i \in DOMAIN Tail(t.batch), NEW j \in DOMAIN Tail(t.batch), i < j
               PROVE  Tail(t.batch)[i].id < Tail(t.batch)[j].id
    OBVIOUS
  <2>1. i + 1 < j + 1
    BY <1>2
  <2> QED
    BY <1>2, <2>1 DEF InTurn
<1> DEFINE seen == Append(t.visited, v)
           n == Len(t.visited) + 1
<1>6. /\ n \in DOMAIN seen /\ seen[n] = v
      /\ \A i \in DOMAIN t.visited : i \in DOMAIN seen /\ seen[i] = t.visited[i] /\ i < n
      /\ \A i \in DOMAIN seen : i \in DOMAIN t.visited \/ i = n
      /\ n \in Nat
  BY <1>1, <1>3, AppendFacts, SMTT(30)
<1>7. u.visited = seen
  OBVIOUS
<1> HIDE DEF seen, n, v
<1>8. \A i, j \in DOMAIN seen : i < j => seen[i] < seen[j]
  <2> SUFFICES ASSUME NEW i \in DOMAIN seen, NEW j \in DOMAIN seen, i < j
               PROVE  seen[i] < seen[j]
    OBVIOUS
  <2>1. CASE i = n
    <3>1. ~(n < n) /\ \A k \in DOMAIN t.visited : k < n /\ k \in Nat
      BY <1>1, <1>6
    <3> QED
      BY <1>6, <2>1, <3>1
  <2>2. CASE i \in DOMAIN t.visited /\ j = n
    BY <1>4, <1>6, <2>2
  <2>3. CASE i \in DOMAIN t.visited /\ j \in DOMAIN t.visited
    BY <1>6, <2>3 DEF InTurn
  <2> QED
    BY <1>6, <2>1, <2>2, <2>3
<1>9. \A i \in DOMAIN seen : seen[i] <= t.last_id
  BY <1>4, <1>6
<1>10. \A i \in DOMAIN seen, j \in DOMAIN Tail(t.batch) : seen[i] < Tail(t.batch)[j].id
  <2> SUFFICES ASSUME NEW i \in DOMAIN seen, NEW j \in DOMAIN Tail(t.batch)
               PROVE  seen[i] < Tail(t.batch)[j].id
    OBVIOUS
  <2>1. CASE i = n
    BY <1>4, <1>6, <2>1
  <2>2. CASE i \in DOMAIN t.visited
    BY <1>2, <1>6, <2>2 DEF InTurn
  <2> QED
    BY <1>6, <2>1, <2>2
<1>11. \A job \in u.working : \E i \in DOMAIN seen : seen[i] = job.id
  <2> SUFFICES ASSUME NEW job \in u.working PROVE \E i \in DOMAIN seen : seen[i] = job.id
    OBVIOUS
  <2>1. CASE job \in t.working
    <3>1. PICK i \in DOMAIN t.visited : t.visited[i] = job.id
      BY <2>1 DEF InTurn
    <3> QED
      BY <1>6, <3>1
  <2>2. CASE job.id = v
    BY <1>6, <2>2
  <2> QED
    BY <2>1, <2>2 DEF v
<1>12. \A job, other \in u.working : job.id = other.id => job = other
  <2>1. \A job \in t.working : job.id # v
    <3> SUFFICES ASSUME NEW job \in t.working PROVE job.id # v
      OBVIOUS
    <3>1. PICK i \in DOMAIN t.visited : t.visited[i] = job.id
      BY DEF InTurn
    <3>2. job.id \in Nat /\ job.id < v
      BY <1>1, <1>4, <3>1, NumberIds
    <3> QED
      BY <1>3, <3>2
  <2> QED
    BY <2>1 DEF InTurn, v
<1> QED
  BY <1>4, <1>5, <1>7, <1>8, <1>9, <1>10, <1>11, <1>12 DEF InTurn

LEMMA OneMoreVisited ==
    ASSUME NEW t \in Tasks, NEW u \in Tasks, Totals(t), t.phase # "aborted",
           IsFiniteSet(u.working), u.updated = t.updated,
           Len(u.visited) = Len(t.visited) + 1,
           \/ /\ u.failures = t.failures + 1 /\ u.skipped = t.skipped
              /\ Cardinality(u.working) = Cardinality(t.working)
           \/ /\ u.failures = t.failures /\ u.skipped = t.skipped + 1
              /\ Cardinality(u.working) = Cardinality(t.working)
           \/ /\ u.failures = t.failures /\ u.skipped = t.skipped
              /\ Cardinality(u.working) = Cardinality(t.working) + 1
    PROVE  Totals(u)
<1>1. t.updated \in Nat /\ t.skipped \in Nat /\ t.failures \in Nat /\ Len(t.visited) \in Nat
  BY TaskFacts
<1>2. Cardinality(t.working) \in Nat
  BY FS_CardinalityType DEF Totals
<1>3. t.updated + t.skipped + t.failures + Cardinality(t.working) = Len(t.visited)
  BY DEF Totals
<1>5. PICK a \in Nat, b \in Nat, d \in Nat, c \in Nat, n \in Nat :
         /\ a = t.updated /\ b = t.skipped /\ d = t.failures
         /\ c = Cardinality(t.working) /\ n = Len(t.visited)
  BY <1>1, <1>2
<1>6. a + b + d + c = n
  BY <1>3, <1>5
<1>7. a + b + (d + 1) + c = n + 1 /\ a + (b + 1) + d + c = n + 1 /\ a + b + d + (c + 1) = n + 1
  BY <1>6
<1>4. u.updated + u.skipped + u.failures + Cardinality(u.working) = Len(u.visited)
  <2>1. CASE /\ u.failures = t.failures + 1 /\ u.skipped = t.skipped
             /\ Cardinality(u.working) = Cardinality(t.working)
    BY <1>5, <1>7, <2>1
  <2>2. CASE /\ u.failures = t.failures /\ u.skipped = t.skipped + 1
             /\ Cardinality(u.working) = Cardinality(t.working)
    BY <1>5, <1>7, <2>2
  <2>3. CASE /\ u.failures = t.failures /\ u.skipped = t.skipped
             /\ Cardinality(u.working) = Cardinality(t.working) + 1
    BY <1>5, <1>7, <2>3
  <2> QED
    BY <2>1, <2>2, <2>3
<1> QED
  BY <1>4 DEF Totals

LEMMA OneFromBatch ==
    ASSUME NEW updated \in Nat, NEW c \in Nat, NEW n \in Nat, NEW bound \in Int,
           updated + c + n <= bound, NEW more \in Nat, more <= c + 1
    PROVE  updated + more + (n - 1) <= bound
  OBVIOUS

LEMMA TakeOK ==
    ASSUME Types, NEW r \in Runs, NEW t \in Tasks, RunOK(r, t), t.phase = "batch",
           t.batch # <<>>, Cardinality(t.working) < AtOnce(r),
           NEW u \in Tasks, u.phase = "batch", u.last_id = t.last_id, u.batch = Tail(t.batch),
           u.visited = Append(t.visited, Head(t.batch).id), u.updated = t.updated,
           u.began = t.began,
           \/ /\ u.failures = t.failures + 1 /\ u.skipped = t.skipped
              /\ u.working = t.working
           \/ /\ u.failures = t.failures /\ u.skipped = t.skipped + 1
              /\ u.working = t.working
              /\ Handled(r, Head(t.batch).id)
           \/ /\ u.failures = t.failures /\ u.skipped = t.skipped
              /\ u.working = t.working \cup
                    {[id |-> Head(t.batch).id, seen |-> Head(t.batch).seen,
                      step |-> "work", doomed |-> {}]}
              /\ plan.kind[r] # "embed" => ~Reached(r, t)
    PROVE  RunOK(r, u)
<1> DEFINE row == Head(t.batch)
           job == [id |-> row.id, seen |-> row.seen, step |-> "work", doomed |-> {}]
<1>1. /\ t.batch \in Seq(Rows) /\ t.visited \in Seq(Ids) /\ t.working \subseteq Jobs
      /\ t.updated \in Nat /\ t.skipped \in Nat /\ t.failures \in Nat
      /\ t.last_id \in Nat /\ t.after_id \in Nat /\ t.began \in Nat
      /\ \A other \in t.working : other.id \in Ids
  BY TaskFacts
<1>2. /\ row \in Rows /\ row = t.batch[1] /\ 1 \in DOMAIN t.batch
      /\ Tail(t.batch) \in Seq(Rows) /\ Len(Tail(t.batch)) = Len(t.batch) - 1
      /\ Len(t.batch) \in Nat
      /\ \A i \in DOMAIN Tail(t.batch) :
            i + 1 \in DOMAIN t.batch /\ Tail(t.batch)[i] = t.batch[i + 1]
      /\ \A i \in DOMAIN t.batch : i = 1 \/
            (i - 1 \in DOMAIN Tail(t.batch) /\ Tail(t.batch)[i - 1] = t.batch[i])
  <2>1. t.batch \in Seq(Rows) /\ t.batch # <<>>
    BY <1>1
  <2> HIDE DEF row
  <2>2. /\ Head(t.batch) \in Rows /\ Head(t.batch) = t.batch[1] /\ 1 \in DOMAIN t.batch
        /\ Tail(t.batch) \in Seq(Rows) /\ Len(Tail(t.batch)) = Len(t.batch) - 1
        /\ Len(t.batch) \in Nat
    BY <2>1, TailFacts
  <2>3. \A i \in DOMAIN Tail(t.batch) :
            i + 1 \in DOMAIN t.batch /\ Tail(t.batch)[i] = t.batch[i + 1]
    BY <2>1, TailFacts
  <2>4. \A i \in DOMAIN t.batch : i = 1 \/
            (i - 1 \in DOMAIN Tail(t.batch) /\ Tail(t.batch)[i - 1] = t.batch[i])
    BY <2>1, TailFacts
  <2> QED
    BY <2>2, <2>3, <2>4 DEF row
<1>3. row.id \in Ids
  BY <1>2 DEF Rows
<1>4. /\ Append(t.visited, row.id) \in Seq(Ids)
      /\ Len(Append(t.visited, row.id)) = Len(t.visited) + 1 /\ Len(t.visited) \in Nat
  BY <1>1, <1>3, AppendFacts
<1>5. /\ u \in Tasks /\ u.phase = "batch" /\ u.last_id = t.last_id /\ u.batch = Tail(t.batch)
      /\ u.visited = Append(t.visited, row.id) /\ u.updated = t.updated /\ u.began = t.began
  OBVIOUS
<1>6. \/ /\ u.failures = t.failures + 1 /\ u.skipped = t.skipped
         /\ u.working = t.working
      \/ /\ u.failures = t.failures /\ u.skipped = t.skipped + 1
         /\ u.working = t.working
         /\ Handled(r, row.id)
      \/ /\ u.failures = t.failures /\ u.skipped = t.skipped
         /\ u.working = t.working \cup {job}
         /\ plan.kind[r] # "embed" => ~Reached(r, t)
  OBVIOUS
<1>7. job.id = row.id /\ (Read(r, row) => Read(r, job))
  BY DEF Read
<1> HIDE DEF job, row
<1>8. InTurn(u)
  <2>1. \A other \in u.working : other \in t.working \/ other = job
    BY <1>6
  <2> QED
    BY <1>5, <1>7, <2>1, TurnComes DEF RunOK, row
<1>9. job \notin t.working
  <2> SUFFICES ASSUME NEW other \in t.working, other.id = row.id PROVE FALSE
    BY <1>7
  <2>1. PICK i \in DOMAIN t.visited : t.visited[i] = other.id
    BY DEF RunOK, InTurn
  <2>2. t.visited[i] < row.id
    BY <1>2, <2>1 DEF RunOK, InTurn
  <2>3. row.id \in Nat
    BY <1>3, NumberIds
  <2> QED
    BY <2>1, <2>2, <2>3
<1>10. IsFiniteSet(t.working) /\ Cardinality(t.working) \in Nat
  BY FS_CardinalityType DEF RunOK, Totals
<1>11. IsFiniteSet(t.working \cup {job})
       /\ Cardinality(t.working \cup {job}) = Cardinality(t.working) + 1
  BY <1>9, <1>10, FS_AddElement
<1>12. /\ IsFiniteSet(u.working)
       /\ \/ Cardinality(u.working) = Cardinality(t.working)
          \/ /\ Cardinality(u.working) = Cardinality(t.working) + 1
             /\ plan.kind[r] # "embed" => ~Reached(r, t)
  BY <1>6, <1>10, <1>11
<1>14. Totals(u)
  <2>1. Len(u.visited) = Len(t.visited) + 1
    BY <1>4, <1>5
  <2> QED
    BY <1>5, <1>6, <1>11, <1>12, <2>1, OneMoreVisited DEF RunOK
<1>15. Within(r, u)
  <2>1. /\ AtOnce(r) \in Nat /\ BatchSize \in Nat \ {0} /\ plan.limit[r] \in Nat \cup {NoLimit}
        /\ plan.kind[r] # "embed" => AtOnce(r) = 1
    BY DEF AtOnce, Types, PlanType
  <2>2. Cardinality(u.working) <= AtOnce(r)
    BY <1>10, <1>12, <2>1
  <2>3. ASSUME plan.limit[r] # NoLimit, plan.kind[r] = "embed"
        PROVE  u.updated + Cardinality(u.working) + Len(u.batch)
                  <= plan.limit[r] + BatchSize - 1
    <3>1. t.updated + Cardinality(t.working) + Len(t.batch) <= plan.limit[r] + BatchSize - 1
      BY <2>3 DEF RunOK, Within
    <3>2. u.updated = t.updated /\ Len(u.batch) = Len(t.batch) - 1
      BY <1>2, <1>5
    <3>3. plan.limit[r] + BatchSize - 1 \in Int
      BY <2>1, <2>3
    <3>4. Cardinality(u.working) \in Nat /\ Cardinality(u.working) <= Cardinality(t.working) + 1
      BY <1>10, <1>12
    <3>5. t.updated + Cardinality(u.working) + (Len(t.batch) - 1) <= plan.limit[r] + BatchSize - 1
      BY <1>1, <1>2, <1>10, <3>1, <3>3, <3>4, OneFromBatch
    <3> QED
      BY <3>2, <3>5
  <2>4. ASSUME plan.limit[r] # NoLimit, plan.kind[r] # "embed"
        PROVE  u.updated + Cardinality(u.working) <= plan.limit[r]
    <3>1. t.updated + Cardinality(t.working) <= plan.limit[r] /\ Cardinality(t.working) = 0
      BY <1>10, <2>1, <2>4 DEF RunOK, Within
    <3>2. ~Reached(r, t) => t.updated < plan.limit[r]
      BY <1>1, <2>1, <2>4 DEF Reached
    <3> QED
      BY <1>1, <1>5, <1>12, <2>1, <2>4, <3>1, <3>2
  <2> QED
    BY <2>2, <2>3, <2>4 DEF Within
<1>16. RowsRead(r, u)
  <2>1. \A i \in DOMAIN Tail(t.batch) : Read(r, Tail(t.batch)[i])
    BY <1>2 DEF RunOK, RowsRead
  <2>2. Read(r, job)
    BY <1>2, <1>7 DEF RunOK, RowsRead
  <2> QED
    BY <1>5, <1>6, <2>1, <2>2 DEF RunOK, RowsRead
<1>17. NoneForgotten(r, u)
  <2> SUFFICES ASSUME plan.kind[r] # "tags", u.failures = 0, ~Reached(r, u),
                      NEW v \in 1..u.began, ~Handled(r, v)
               PROVE  Ahead(u, v)
    BY <1>5 DEF RunOK, NoneForgotten
  <2>1. t.failures = 0 /\ u.failures # t.failures + 1 /\ ~Reached(r, t)
    BY <1>1, <1>5, <1>6 DEF Reached
  <2>2. Ahead(t, v)
    BY <1>5, <2>1 DEF RunOK, NoneForgotten
  <2>3. \/ v > t.last_id
        \/ \E i \in DOMAIN t.batch : t.batch[i].id = v
        \/ \E other \in t.working : other.id = v
    BY <2>2 DEF Ahead
  <2>4. CASE v > t.last_id \/ \E other \in t.working : other.id = v
    BY <1>5, <1>6, <2>4 DEF Ahead
  <2>5. CASE \E i \in DOMAIN t.batch : t.batch[i].id = v
    <3>1. PICK i \in DOMAIN t.batch : t.batch[i].id = v
      BY <2>5
    <3>2. CASE i = 1
      <4>1. v = row.id
        BY <1>2, <3>1, <3>2
      <4>2. job \in u.working
        BY <1>6, <2>1, <4>1
      <4> QED
        BY <1>5, <1>7, <4>1, <4>2 DEF Ahead
    <3>3. CASE i # 1
      <4>1. i - 1 \in DOMAIN Tail(t.batch) /\ Tail(t.batch)[i - 1] = t.batch[i]
        BY <1>2, <3>1, <3>3
      <4> QED
        BY <1>5, <3>1, <4>1 DEF Ahead
    <3> QED
      BY <3>2, <3>3
  <2> QED
    BY <2>3, <2>4, <2>5
<1> QED
  BY <1>8, <1>14, <1>15, <1>16, <1>17 DEF RunOK

\* A row that is dropped because the run has reached its limit.
LEMMA DropOK ==
    ASSUME Types, NEW r \in Runs, NEW t \in Tasks, RunOK(r, t), t.phase = "batch",
           t.batch # <<>>, Reached(r, t), plan.kind[r] # "embed"
    PROVE  LET u == [t EXCEPT !.batch = Tail(t.batch)]
           IN  u \in Tasks /\ RunOK(r, u)
<1> DEFINE u == [t EXCEPT !.batch = Tail(t.batch)]
<1>1. t.batch \in Seq(Rows)
  BY TaskFacts
<1>2. Tail(t.batch) \in Seq(Rows)
  BY <1>1, TailFacts
<1>3. /\ u \in Tasks /\ u.phase = "batch" /\ u.last_id = t.last_id /\ u.batch = Tail(t.batch)
      /\ u.visited = t.visited /\ u.updated = t.updated /\ u.began = t.began
      /\ u.failures = t.failures /\ u.skipped = t.skipped /\ u.working = t.working
  BY <1>2 DEF Tasks
<1> HIDE DEF u
<1>4. \A i \in DOMAIN Tail(t.batch) :
         i \in Nat /\ i + 1 \in DOMAIN t.batch /\ Tail(t.batch)[i] = t.batch[i + 1]
  <2>1. DOMAIN Tail(t.batch) \subseteq Nat
    BY <1>2
  <2> QED
    BY <1>1, <2>1, TailFacts
<1>5. InTurn(u)
  <2>1. /\ \A i \in DOMAIN Tail(t.batch) : Tail(t.batch)[i].id <= t.last_id
        /\ \A i \in DOMAIN t.visited, j \in DOMAIN Tail(t.batch) :
              t.visited[i] < Tail(t.batch)[j].id
    BY <1>4 DEF RunOK, InTurn
  <2>2. ASSUME NEW i \in DOMAIN Tail(t.batch), NEW j \in DOMAIN Tail(t.batch), i < j
        PROVE  Tail(t.batch)[i].id < Tail(t.batch)[j].id
    <3>1. i + 1 < j + 1
      BY <1>4, <2>2
    <3> QED
      BY <1>4, <3>1 DEF RunOK, InTurn
  <2> QED
    BY <1>3, <2>1, <2>2 DEF RunOK, InTurn
<1>6. Totals(u) /\ Within(r, u)
  BY <1>3 DEF RunOK, Totals, Within
<1>7. RowsRead(r, u)
  BY <1>3, <1>4 DEF RunOK, RowsRead
<1>8. NoneForgotten(r, u)
  BY <1>3 DEF RunOK, NoneForgotten, Reached
<1>9. RunOK(r, u)
  BY <1>5, <1>6, <1>7, <1>8 DEF RunOK
<1> QED
  BY <1>3, <1>9 DEF u

LEMMA TakeStep ==
    ASSUME IInv, NEW r \in Runs, Take(r), UNCHANGED plan
    PROVE  IInv'
<1>1. PICK t : t = task[r]
  OBVIOUS
<1>2. /\ t \in Tasks /\ RunOK(r, t) /\ Types /\ t.phase = "batch" /\ t.batch # <<>>
      /\ Cardinality(t.working) < AtOnce(r)
  BY <1>1 DEF IInv, Types, Take
<1>3. UNCHANGED <<plan, published, embedding, transcript, suggestions>>
  BY DEF Take
<1> DEFINE row == Head(t.batch)
           job == [id |-> row.id, seen |-> row.seen, step |-> "work", doomed |-> {}]
           rest == [t EXCEPT !.batch = Tail(t.batch)]
           seen == [rest EXCEPT !.visited = Append(t.visited, row.id)]
<1>4. /\ t.failures \in Nat /\ t.skipped \in Nat /\ t.updated \in Nat
      /\ t.batch \in Seq(Rows) /\ t.visited \in Seq(Ids)
  BY <1>2, TaskFacts
<1>6. LimitReached(r) <=> Reached(r, t)
  BY <1>1, LimitIsReached
<1>7. CASE StopsInBatch(r)
  <2>1. task' = [task EXCEPT ![r] = rest]
    BY <1>1, <1>7 DEF Take
  <2>2. rest \in Tasks /\ RunOK(r, rest)
    BY <1>2, <1>6, <1>7, DropOK DEF StopsInBatch
  <2> HIDE DEF rest
  <2> QED
    BY <1>3, <2>1, <2>2, QuietMove
<1>8. /\ row \in Rows /\ row.id \in Ids /\ row = t.batch[1] /\ 1 \in DOMAIN t.batch
      /\ Tail(t.batch) \in Seq(Rows) /\ Append(t.visited, row.id) \in Seq(Ids)
      /\ t.working \in SUBSET Jobs
  <2>1. /\ row \in Rows /\ row = t.batch[1] /\ 1 \in DOMAIN t.batch
        /\ Tail(t.batch) \in Seq(Rows)
    BY <1>2, <1>4, TailFacts
  <2>2. row.id \in Ids
    BY <2>1 DEF Rows
  <2> QED
    BY <1>2, <1>4, <2>1, <2>2, TaskFacts
<1>12. /\ seen \in Tasks /\ seen.phase = "batch" /\ seen.last_id = t.last_id
       /\ seen.batch = Tail(t.batch) /\ seen.visited = Append(t.visited, row.id)
       /\ seen.updated = t.updated /\ seen.began = t.began /\ seen.failures = t.failures
       /\ seen.skipped = t.skipped /\ seen.working = t.working
  <2>1. /\ rest \in Tasks /\ rest.phase = "batch" /\ rest.last_id = t.last_id
        /\ rest.batch = Tail(t.batch) /\ rest.visited = t.visited
        /\ rest.updated = t.updated /\ rest.began = t.began /\ rest.failures = t.failures
        /\ rest.skipped = t.skipped /\ rest.working = t.working
    BY <1>2, <1>8 DEF Tasks
  <2> HIDE DEF rest
  <2> QED
    BY <1>8, <2>1 DEF Tasks
<1>9. CASE ~StopsInBatch(r) /\ FileMissing(r, row)
  <2> DEFINE u == [seen EXCEPT !.failures = t.failures + 1]
  <2>1. task' = [task EXCEPT ![r] = u]
    BY <1>1, <1>9 DEF Take
  <2>2. /\ u \in Tasks /\ u.phase = "batch" /\ u.last_id = t.last_id
        /\ u.batch = Tail(t.batch) /\ u.visited = Append(t.visited, row.id)
        /\ u.updated = t.updated /\ u.began = t.began /\ u.failures = t.failures + 1
        /\ u.skipped = t.skipped /\ u.working = t.working
    <3>1. t.failures + 1 \in Nat
      BY <1>4
    <3> HIDE DEF seen, row
    <3> QED
      BY <1>12, <3>1 DEF Tasks
  <2> HIDE DEF u
  <2>3. RunOK(r, u)
    BY <1>2, <2>2, TakeOK
  <2> QED
    BY <1>3, <2>1, <2>2, <2>3, QuietMove
<1>10. CASE ~StopsInBatch(r) /\ ~FileMissing(r, row) /\ AlreadyDone(r, row)
  <2> DEFINE u == [seen EXCEPT !.skipped = t.skipped + 1]
  <2>1. task' = [task EXCEPT ![r] = u]
    BY <1>1, <1>10 DEF Take
  <2>2. /\ u \in Tasks /\ u.phase = "batch" /\ u.last_id = t.last_id
        /\ u.batch = Tail(t.batch) /\ u.visited = Append(t.visited, row.id)
        /\ u.updated = t.updated /\ u.began = t.began /\ u.failures = t.failures
        /\ u.skipped = t.skipped + 1 /\ u.working = t.working
    <3>1. t.skipped + 1 \in Nat
      BY <1>4
    <3> HIDE DEF seen, row
    <3> QED
      BY <1>12, <3>1 DEF Tasks
  <2>3. Handled(r, row.id)
    BY <1>2, <1>8, <1>10 DEF AlreadyDone, Handled, RunOK, RowsRead, Read
  <2> HIDE DEF u
  <2>4. RunOK(r, u)
    BY <1>2, <2>2, <2>3, TakeOK
  <2> QED
    BY <1>3, <2>1, <2>2, <2>4, QuietMove
<1>11. CASE ~StopsInBatch(r) /\ ~FileMissing(r, row) /\ ~AlreadyDone(r, row)
  <2> DEFINE u == [seen EXCEPT !.working = t.working \cup {job}]
  <2>1. task' = [task EXCEPT ![r] = u]
    BY <1>1, <1>11 DEF Take
  <2>2. plan.kind[r] # "embed" => ~Reached(r, t)
    BY <1>6, <1>11 DEF StopsInBatch
  <2>3. job \in Jobs /\ {job} \in SUBSET Jobs
    BY <1>8 DEF Rows, Jobs
  <2>4. /\ u \in Tasks /\ u.phase = "batch" /\ u.last_id = t.last_id
        /\ u.batch = Tail(t.batch) /\ u.visited = Append(t.visited, row.id)
        /\ u.updated = t.updated /\ u.began = t.began /\ u.failures = t.failures
        /\ u.skipped = t.skipped /\ u.working = t.working \cup {job}
    <3> HIDE DEF seen, job, row
    <3> QED
      BY <1>4, <1>8, <1>12, <2>3 DEF Tasks
  <2> HIDE DEF u
  <2>5. RunOK(r, u)
    BY <1>2, <2>2, <2>4, TakeOK
  <2> QED
    BY <1>3, <2>1, <2>4, <2>5, QuietMove
<1> QED
  BY <1>7, <1>9, <1>10, <1>11

-----------------------------------------------------------------------------
\* The work on one video.

LEMMA OneLessAtWork ==
    ASSUME NEW updated \in Nat, NEW c \in Nat, NEW n \in Nat, NEW bound \in Int,
           updated + (c + 1) + n <= bound, NEW more \in Nat, more <= updated + 1
    PROVE  more + c + n <= bound
  OBVIOUS

\* A run is done with a job, in the tables as they are after the step.
LEMMA JobEnds ==
    ASSUME Types', NEW r \in Runs, NEW t \in Tasks, RunOK(r, t)', NEW job \in t.working,
           NEW u \in Tasks, u.phase = t.phase, u.after_id = t.after_id, u.last_id = t.last_id,
           u.batch = t.batch, u.visited = t.visited, u.began = t.began,
           u.working = t.working \ {job},
           \/ /\ u.updated = t.updated + 1 /\ u.skipped = t.skipped /\ u.failures = t.failures
           \/ /\ u.updated = t.updated /\ u.skipped = t.skipped + 1 /\ u.failures = t.failures
           \/ /\ u.updated = t.updated /\ u.skipped = t.skipped /\ u.failures = t.failures + 1,
           \/ plan'.kind[r] = "tags"
           \/ u.failures = t.failures + 1
           \/ Handled(r, job.id)'
    PROVE  RunOK(r, u)'
<1>1. InTurn(t) /\ Totals(t) /\ Within(r, t)' /\ RowsRead(r, t)' /\ NoneForgotten(r, t)'
  BY DEF RunOK, InTurn, Totals
<1>2. t.phase = "batch"
  BY <1>1 DEF InTurn
<1>3. /\ t.updated \in Nat /\ t.skipped \in Nat /\ t.failures \in Nat
      /\ t.began \in Nat /\ Len(t.visited) \in Nat /\ Len(t.batch) \in Nat
      /\ t.last_id \in Nat /\ t.after_id \in Nat
  BY TaskFacts
<1>4. PICK c \in Nat : /\ Cardinality(t.working) = c + 1 /\ Cardinality(u.working) = c
                       /\ IsFiniteSet(u.working)
  <2>1. IsFiniteSet(t.working) /\ Cardinality(t.working) \in Nat
    BY <1>1, FS_CardinalityType DEF Totals
  <2>2. /\ IsFiniteSet(t.working \ {job})
        /\ Cardinality(t.working \ {job}) = Cardinality(t.working) - 1
    BY <2>1, FS_RemoveElement
  <2>3. Cardinality(t.working \ {job}) \in Nat
    BY <2>2, FS_CardinalityType
  <2> QED
    BY <2>1, <2>2, <2>3
<1>5. InTurn(u)
  BY <1>1, <1>2 DEF InTurn
<1>6. PICK a \in Nat, b \in Nat, d \in Nat, n \in Nat :
         a = t.updated /\ b = t.skipped /\ d = t.failures /\ n = Len(t.visited)
  BY <1>3
<1>7. Totals(u)
  <2>1. a + b + d + (c + 1) = n
    BY <1>1, <1>2, <1>4, <1>6 DEF Totals
  <2>2. (a + 1) + b + d + c = n /\ a + (b + 1) + d + c = n /\ a + b + (d + 1) + c = n
    BY <2>1
  <2>3. u.updated + u.skipped + u.failures + Cardinality(u.working) = n
    BY <1>4, <1>6, <2>2
  <2> QED
    BY <1>4, <1>6, <2>3 DEF Totals
<1>8. u.updated \in Nat /\ u.updated <= a + 1 /\ a <= u.updated
  BY <1>6
<1>9. Within(r, u)'
  <2>1. /\ AtOnce(r)' \in Nat /\ BatchSize \in Nat \ {0}
        /\ plan'.limit[r] \in Nat \cup {NoLimit}
    BY DEF AtOnce, Types, PlanType
  <2>2. Cardinality(u.working) <= AtOnce(r)'
    BY <1>1, <1>4, <2>1 DEF Within
  <2>3. ASSUME plan'.limit[r] # NoLimit, plan'.kind[r] = "embed"
        PROVE  u.updated + Cardinality(u.working) + Len(u.batch)
                  <= plan'.limit[r] + BatchSize - 1
    <3>1. a + (c + 1) + Len(t.batch) <= plan'.limit[r] + BatchSize - 1
      BY <1>1, <1>4, <1>6, <2>3 DEF Within
    <3>2. plan'.limit[r] + BatchSize - 1 \in Int
      BY <2>1, <2>3
    <3>3. PICK m \in Nat, x \in Nat, bound \in Int :
             m = Len(t.batch) /\ x = u.updated /\ bound = plan'.limit[r] + BatchSize - 1
      BY <1>3, <1>8, <3>2
    <3>4. a + (c + 1) + m <= bound /\ x <= a + 1
      BY <1>8, <3>1, <3>3
    <3>5. x + c + m <= bound
      BY <3>4, OneLessAtWork
    <3> QED
      BY <1>4, <3>3, <3>5
  <2>4. ASSUME plan'.limit[r] # NoLimit, plan'.kind[r] # "embed"
        PROVE  u.updated + Cardinality(u.working) <= plan'.limit[r]
    <3>1. a + (c + 1) <= plan'.limit[r]
      BY <1>1, <1>4, <1>6, <2>4 DEF Within
    <3> QED
      BY <1>3, <1>4, <1>8, <2>1, <2>4, <3>1
  <2> QED
    BY <2>2, <2>3, <2>4 DEF Within
<1>10. RowsRead(r, u)'
  BY <1>1 DEF RowsRead
<1>11. NoneForgotten(r, u)'
  <2> SUFFICES ASSUME plan'.kind[r] # "tags", u.failures = 0, ~Reached(r, u)',
                      NEW v \in 1..u.began, ~Handled(r, v)'
               PROVE  Ahead(u, v)
    BY <1>1 DEF NoneForgotten, Ahead
  <2>1. t.failures = 0 /\ u.failures # t.failures + 1
    BY <1>3
  <2>2. ~Reached(r, t)'
    <3> SUFFICES ASSUME plan'.limit[r] # NoLimit, t.updated >= plan'.limit[r]
                 PROVE  u.updated >= plan'.limit[r]
      BY DEF Reached
    <3>1. plan'.limit[r] \in Nat
      BY DEF Types, PlanType
    <3> QED
      BY <1>6, <1>8, <3>1
  <2>3. Ahead(t, v)
    BY <1>1, <1>2, <2>1, <2>2 DEF NoneForgotten, Ahead
  <2>4. v # job.id
    BY <2>1
  <2> QED
    BY <1>2, <2>3, <2>4 DEF Ahead
<1> QED
  BY <1>5, <1>7, <1>9, <1>10, <1>11 DEF RunOK, InTurn, Totals

LEMMA JobStep ==
    ASSUME IInv, NEW r \in Runs, NEW t, t = task[r], NEW job \in t.working,
           NEW u \in Tasks, u.phase = t.phase, u.after_id = t.after_id, u.last_id = t.last_id,
           u.batch = t.batch, u.visited = t.visited, u.began = t.began,
           u.working = t.working \ {job},
           \/ /\ u.updated = t.updated + 1 /\ u.skipped = t.skipped /\ u.failures = t.failures
           \/ /\ u.updated = t.updated /\ u.skipped = t.skipped + 1 /\ u.failures = t.failures
           \/ /\ u.updated = t.updated /\ u.skipped = t.skipped /\ u.failures = t.failures + 1,
           \/ plan.kind[r] = "tags"
           \/ u.failures = t.failures + 1
           \/ Handled(r, job.id)',
           task' = [task EXCEPT ![r] = u], Types', Keeps
    PROVE  IInv'
<1>1. t \in Tasks /\ RunOK(r, t) /\ Types
  BY DEF IInv, Types
<1>2. RunOK(r, t)'
  BY <1>1, StillOK
<1>3. plan'.kind[r] = plan.kind[r]
  BY DEF Keeps
<1>5. \/ plan'.kind[r] = "tags"
      \/ u.failures = t.failures + 1
      \/ Handled(r, job.id)'
  BY <1>3
<1>4. RunOK(r, u)'
  <2> HIDE EnrichmentAssumption
  <2> QED
    BY <1>1, <1>2, <1>5, JobEnds
<1> QED
  BY <1>4, RunMoves

\* The task of a run that is done with a job, and its type.
LEMMA UpdatedTask ==
    ASSUME NEW t \in Tasks, NEW job \in t.working
    PROVE  LET u == [t EXCEPT !.working = t.working \ {job}, !.updated = t.updated + 1]
           IN  /\ u \in Tasks /\ u.phase = t.phase /\ u.after_id = t.after_id
               /\ u.last_id = t.last_id /\ u.batch = t.batch /\ u.visited = t.visited
               /\ u.began = t.began /\ u.working = t.working \ {job}
               /\ u.updated = t.updated + 1 /\ u.skipped = t.skipped /\ u.failures = t.failures
<1>1. t.updated + 1 \in Nat /\ t.working \ {job} \in SUBSET Jobs
  BY TaskFacts
<1> QED
  BY <1>1 DEF Tasks

LEMMA SkippedTask ==
    ASSUME NEW t \in Tasks, NEW job \in t.working
    PROVE  LET u == [t EXCEPT !.working = t.working \ {job}, !.skipped = t.skipped + 1]
           IN  /\ u \in Tasks /\ u.phase = t.phase /\ u.after_id = t.after_id
               /\ u.last_id = t.last_id /\ u.batch = t.batch /\ u.visited = t.visited
               /\ u.began = t.began /\ u.working = t.working \ {job}
               /\ u.updated = t.updated /\ u.skipped = t.skipped + 1 /\ u.failures = t.failures
<1>1. t.skipped + 1 \in Nat /\ t.working \ {job} \in SUBSET Jobs
  BY TaskFacts
<1> QED
  BY <1>1 DEF Tasks

LEMMA FailedTask ==
    ASSUME NEW t \in Tasks, NEW job \in t.working
    PROVE  LET u == [t EXCEPT !.working = t.working \ {job}, !.failures = t.failures + 1]
           IN  /\ u \in Tasks /\ u.phase = t.phase /\ u.after_id = t.after_id
               /\ u.last_id = t.last_id /\ u.batch = t.batch /\ u.visited = t.visited
               /\ u.began = t.began /\ u.working = t.working \ {job}
               /\ u.updated = t.updated /\ u.skipped = t.skipped /\ u.failures = t.failures + 1
<1>1. t.failures + 1 \in Nat /\ t.working \ {job} \in SUBSET Jobs
  BY TaskFacts
<1> QED
  BY <1>1 DEF Tasks

LEMMA WorkFailsStep ==
    ASSUME IInv, NEW r \in Runs, NEW job \in task[r].working, WorkFails(r, job), UNCHANGED plan
    PROVE  IInv'
<1> DEFINE t == task[r]
<1>2. t \in Tasks /\ job \in t.working /\ Types
  BY DEF IInv, Types
<1> DEFINE u == [t EXCEPT !.working = t.working \ {job}, !.failures = t.failures + 1]
<1>3. task' = [task EXCEPT ![r] = u]
  BY DEF WorkFails, Failed
<1>1. UNCHANGED <<plan, published, embedding, transcript, suggestions>>
  BY DEF WorkFails, Failed
<1> HIDE DEF t
<1>5. /\ u \in Tasks /\ u.phase = t.phase /\ u.after_id = t.after_id
      /\ u.last_id = t.last_id /\ u.batch = t.batch /\ u.visited = t.visited
      /\ u.began = t.began /\ u.working = t.working \ {job}
      /\ u.updated = t.updated /\ u.skipped = t.skipped
      /\ u.failures = t.failures + 1
  BY <1>2, FailedTask
<1> HIDE DEF u
<1>4. Types' /\ Keeps
  BY <1>1, <1>2, <1>3, <1>5, SameAnswers DEF Types, Keeps
<1> QED
  BY <1>2, <1>3, <1>4, <1>5, JobStep DEF t

LEMMA EmbedStep ==
    ASSUME IInv, NEW r \in Runs, NEW job \in task[r].working, Embed(r, job), UNCHANGED plan
    PROVE  IInv'
<1> DEFINE t == task[r]
<1>1. t \in Tasks /\ job \in t.working /\ job.id \in Ids /\ Types
  BY TaskFacts DEF IInv, Types
<1> DEFINE u == [t EXCEPT !.working = t.working \ {job}, !.updated = t.updated + 1]
<1>2. task' = [task EXCEPT ![r] = u] /\ UNCHANGED <<plan, published, transcript, suggestions>>
  BY DEF Embed, Updated
<1>3. PICK e \in plan.answers[r] : embedding' = [embedding EXCEPT ![job.id] = e]
  BY DEF Embed
<1>4. plan.kind[r] = "embed"
  BY DEF Embed
<1> HIDE DEF t
<1>5. /\ u \in Tasks /\ u.phase = t.phase /\ u.after_id = t.after_id
      /\ u.last_id = t.last_id /\ u.batch = t.batch /\ u.visited = t.visited
      /\ u.began = t.began /\ u.working = t.working \ {job}
      /\ u.updated = t.updated + 1 /\ u.skipped = t.skipped
      /\ u.failures = t.failures
  BY <1>1, UpdatedTask
<1> HIDE DEF u
<1>6. e \in Embeddings
  BY <1>1 DEF Types, PlanType
<1>7. e \in Answers
  BY <1>3, <1>4 DEF Answers, Embedders
<1>8. Answers' = Answers
  BY <1>2, SameAnswers
<1>9. embedding' \in [Ids -> Embeddings]
  BY <1>1, <1>3, <1>6 DEF Types
<1>10. Types'
  <2>1. VisualAnswered'
    BY <1>1, <1>3, <1>7, <1>8 DEF Types, VisualAnswered
  <2> QED
    BY <1>1, <1>2, <1>5, <1>9, <2>1 DEF Types
<1>11. Keeps
  BY <1>1, <1>2, <1>3, <1>7 DEF Types, Keeps
<1>12. Handled(r, job.id)'
  BY <1>1, <1>2, <1>3, <1>4, <1>7, <1>8 DEF Handled, Types
<1> QED
  BY <1>1, <1>2, <1>5, <1>10, <1>11, <1>12, JobStep DEF t

LEMMA TranscribeStep ==
    ASSUME IInv, NEW r \in Runs, NEW job \in task[r].working, Transcribe(r, job), UNCHANGED plan
    PROVE  IInv'
<1> DEFINE t == task[r]
<1>1. t \in Tasks /\ job \in t.working /\ job.id \in Ids /\ Types
  BY TaskFacts DEF IInv, Types
<1> DEFINE up == [t EXCEPT !.working = t.working \ {job}, !.updated = t.updated + 1]
           sk == [t EXCEPT !.working = t.working \ {job}, !.skipped = t.skipped + 1]
<1>2. UNCHANGED <<plan, published, embedding, suggestions>> /\ plan.kind[r] = "transcribe"
  BY DEF Transcribe
<1>3. PICK text \in {"empty", "text"} :
         /\ transcript' = [transcript EXCEPT ![job.id] = text]
         /\ task' = [task EXCEPT ![r] = IF text = "empty" THEN sk ELSE up]
  BY DEF Transcribe, Updated, Skipped
<1> HIDE DEF t
<1>4. /\ up \in Tasks /\ up.phase = t.phase /\ up.after_id = t.after_id
      /\ up.last_id = t.last_id /\ up.batch = t.batch /\ up.visited = t.visited
      /\ up.began = t.began /\ up.working = t.working \ {job}
      /\ up.updated = t.updated + 1 /\ up.skipped = t.skipped
      /\ up.failures = t.failures
  BY <1>1, UpdatedTask
<1>5. /\ sk \in Tasks /\ sk.phase = t.phase /\ sk.after_id = t.after_id
      /\ sk.last_id = t.last_id /\ sk.batch = t.batch /\ sk.visited = t.visited
      /\ sk.began = t.began /\ sk.working = t.working \ {job}
      /\ sk.updated = t.updated /\ sk.skipped = t.skipped + 1
      /\ sk.failures = t.failures
  BY <1>1, SkippedTask
<1> HIDE DEF up, sk
<1>6. PICK u \in {sk, up} : task' = [task EXCEPT ![r] = u]
  BY <1>3
<1>7. transcript' \in [Ids -> Transcripts]
  BY <1>1, <1>3 DEF Types, Transcripts
<1>8. Types'
  BY <1>1, <1>2, <1>4, <1>5, <1>6, <1>7, SameAnswers DEF Types
<1>9. Keeps
  BY <1>1, <1>2, <1>3, SameAnswers DEF Types, Keeps
<1>10. Handled(r, job.id)'
  BY <1>1, <1>2, <1>3 DEF Handled, Types
<1>11. CASE u = up
  BY <1>1, <1>4, <1>6, <1>8, <1>9, <1>10, <1>11, JobStep DEF t
<1>12. CASE u = sk
  BY <1>1, <1>5, <1>6, <1>8, <1>9, <1>10, <1>12, JobStep DEF t
<1> QED
  BY <1>11, <1>12

LEMMA SkipUntaggedStep ==
    ASSUME IInv, NEW r \in Runs, NEW job \in task[r].working, SkipUntagged(r, job),
           UNCHANGED plan
    PROVE  IInv'
<1> DEFINE t == task[r]
<1>1. t \in Tasks /\ job \in t.working /\ Types
  BY DEF IInv, Types
<1> DEFINE u == [t EXCEPT !.working = t.working \ {job}, !.skipped = t.skipped + 1]
<1>2. /\ task' = [task EXCEPT ![r] = u] /\ plan.kind[r] = "tags"
      /\ UNCHANGED <<plan, published, embedding, transcript, suggestions>>
  BY DEF SkipUntagged, Skipped
<1> HIDE DEF t
<1>3. /\ u \in Tasks /\ u.phase = t.phase /\ u.after_id = t.after_id
      /\ u.last_id = t.last_id /\ u.batch = t.batch /\ u.visited = t.visited
      /\ u.began = t.began /\ u.working = t.working \ {job}
      /\ u.updated = t.updated /\ u.skipped = t.skipped + 1
      /\ u.failures = t.failures
  BY <1>1, SkippedTask
<1> HIDE DEF u
<1>4. Types' /\ Keeps
  BY <1>1, <1>2, <1>3, SameAnswers DEF Types, Keeps
<1> QED
  BY <1>1, <1>2, <1>3, <1>4, JobStep DEF t

LEMMA TopTagsFacts ==
    ASSUME NEW job, job.seen \in Embeddings
    PROVE  TopTags(job) \subseteq Tags
<1> DEFINE near == Nearest[job.seen.vector]
           n == IF Len(near) < TopK THEN Len(near) ELSE TopK
<1>1. near \in Seq(Tags)
  BY DEF Embeddings
<1> HIDE DEF near
<1>2. n \in Nat /\ n <= Len(near)
  BY <1>1
<1> HIDE DEF n
<1>3. SubSeq(near, 1, n) \in Seq(Tags)
  BY <1>1, <1>2
<1>4. \A s \in Seq(Tags) : ToSet(s) \subseteq Tags
  BY DEF ToSet
<1> QED
  BY <1>3, <1>4 DEF TopTags, near, n

LEMMA FreshRowsFacts ==
    ASSUME Types, NEW job \in Jobs, job.seen \in Embeddings, job.seen.version = Visual
    PROVE  FreshRows(job) \subseteq Suggestions
<1>1. job.id \in Ids /\ job.seen.vector \in Vectors
  BY DEF Jobs, Embeddings
<1> QED
  BY <1>1, TopTagsFacts DEF FreshRows, Suggestions

LEMMA InsertFreshStep ==
    ASSUME IInv, NEW r \in Runs, NEW job \in task[r].working, InsertFresh(r, job), UNCHANGED plan
    PROVE  IInv'
<1> DEFINE t == task[r]
<1>1. t \in Tasks /\ job \in t.working /\ Types /\ job \in Jobs
  BY TaskFacts DEF IInv, Types
<1> DEFINE u == [t EXCEPT !.working = t.working \ {job}, !.updated = t.updated + 1]
<1>2. /\ task' = [task EXCEPT ![r] = u] /\ plan.kind[r] = "tags"
      /\ suggestions' = (suggestions \ job.doomed) \cup FreshRows(job)
      /\ UNCHANGED <<plan, published, embedding, transcript>>
  BY DEF InsertFresh, Updated
<1>3. Read(r, job)
  BY DEF IInv, RunOK, RowsRead
<1> HIDE DEF t
<1>4. /\ u \in Tasks /\ u.phase = t.phase /\ u.after_id = t.after_id
      /\ u.last_id = t.last_id /\ u.batch = t.batch /\ u.visited = t.visited
      /\ u.began = t.began /\ u.working = t.working \ {job}
      /\ u.updated = t.updated + 1 /\ u.skipped = t.skipped
      /\ u.failures = t.failures
  BY <1>1, UpdatedTask
<1> HIDE DEF u
<1>5. FreshRows(job) \subseteq Suggestions
  BY <1>1, <1>2, <1>3, FreshRowsFacts DEF Read
<1>6. suggestions' \subseteq Suggestions
  BY <1>1, <1>2, <1>5 DEF Types
<1>7. Types' /\ Keeps
  BY <1>1, <1>2, <1>4, <1>6, SameAnswers DEF Types, Keeps
<1> QED
  BY <1>1, <1>2, <1>4, <1>7, JobStep DEF t

LEMMA DeleteOutdatedStep ==
    ASSUME IInv, NEW r \in Runs, NEW job \in task[r].working, DeleteOutdated(r, job),
           UNCHANGED plan
    PROVE  IInv'
<1> DEFINE t == task[r]
           other == [job EXCEPT !.step = "persist", !.doomed = Outdated(job)]
           u == [t EXCEPT !.working = (t.working \ {job}) \cup {other}]
<1>1. t \in Tasks /\ job \in t.working /\ Types /\ RunOK(r, t) /\ job \in Jobs
  BY TaskFacts DEF IInv, Types
<1>2. /\ task' = [task EXCEPT ![r] = u] /\ plan.kind[r] = "tags"
      /\ UNCHANGED <<plan, published, embedding, transcript, suggestions>>
  BY DEF DeleteOutdated
<1>3. Outdated(job) \subseteq Suggestions
  BY <1>1 DEF Outdated, Types
<1>4. other \in Jobs /\ other.id = job.id /\ other.seen = job.seen
  BY <1>1, <1>3 DEF Jobs
<1> HIDE DEF t, other
<1>5. t.working \in SUBSET Jobs
  BY <1>1, TaskFacts
<1>6. (t.working \ {job}) \cup {other} \in SUBSET Jobs
  BY <1>4, <1>5
<1>7. /\ u \in Tasks /\ u.phase = t.phase /\ u.after_id = t.after_id
      /\ u.last_id = t.last_id /\ u.batch = t.batch /\ u.visited = t.visited
      /\ u.began = t.began /\ u.working = (t.working \ {job}) \cup {other}
      /\ u.updated = t.updated /\ u.skipped = t.skipped
      /\ u.failures = t.failures
  BY <1>1, <1>6 DEF Tasks
<1> HIDE DEF u
<1>8. InTurn(u)
  BY <1>1, <1>4, <1>7 DEF RunOK, InTurn
<1>9. IsFiniteSet(u.working) /\ Cardinality(u.working) = Cardinality(t.working)
  <2>1. IsFiniteSet(t.working) /\ Cardinality(t.working) \in Nat
    BY <1>1, FS_CardinalityType DEF RunOK, Totals
  <2>2. /\ IsFiniteSet(t.working \ {job})
        /\ Cardinality(t.working \ {job}) = Cardinality(t.working) - 1
    BY <1>1, <2>1, FS_RemoveElement
  <2>3. other \notin t.working \ {job}
    BY <1>1, <1>4 DEF RunOK, InTurn
  <2>4. /\ IsFiniteSet((t.working \ {job}) \cup {other})
        /\ Cardinality((t.working \ {job}) \cup {other}) = Cardinality(t.working \ {job}) + 1
    BY <2>2, <2>3, FS_AddElement
  <2> QED
    BY <1>7, <2>1, <2>2, <2>4
<1>10. Totals(u) /\ Within(r, u)
  BY <1>1, <1>7, <1>9 DEF RunOK, Totals, Within
<1>11. RowsRead(r, u)
  BY <1>1, <1>4, <1>7 DEF RunOK, RowsRead, Read
<1>12. NoneForgotten(r, u)
  BY <1>1, <1>2, <1>7 DEF RunOK, NoneForgotten
<1>13. RunOK(r, u)
  BY <1>8, <1>10, <1>11, <1>12 DEF RunOK
<1> QED
  BY <1>2, <1>7, <1>13, QuietMove

LEMMA WorkStep ==
    ASSUME IInv, NEW r \in Runs, Work(r), UNCHANGED plan
    PROVE  IInv'
  BY WorkFailsStep, EmbedStep, TranscribeStep, SkipUntaggedStep, DeleteOutdatedStep,
     InsertFreshStep DEF Work

LEMMA PublishStep ==
    ASSUME IInv, Publish, UNCHANGED plan
    PROVE  IInv'
<1>1. Types' /\ Types
  BY SameAnswers DEF IInv, Publish, Types
<1>2. Keeps
  BY DEF IInv, Publish, Types, Keeps
<1> SUFFICES ASSUME NEW r \in Runs PROVE RunOK(r, task[r])'
  BY <1>1 DEF IInv
<1>3. PICK t \in Tasks : t = task[r] /\ task'[r] = t
  BY <1>1 DEF Types, Publish
<1>4. RunOK(r, t)
  BY <1>3 DEF IInv
<1>5. RunOK(r, t)'
  BY <1>1, <1>2, <1>4, StillOK
<1> QED
  BY <1>3, <1>5, SameRun

-----------------------------------------------------------------------------
\* The theorems.

LEMMA InitIInv == Init => IInv
<1> SUFFICES ASSUME Init PROVE IInv
  OBVIOUS
<1>1. \A v \in Ids : embedding[v] \in Embeddings /\ embedding[v].version # Visual
  BY DEF Init, Embeddings, UploadVersions, Visual
<1>2. embedding \in [Ids -> Embeddings]
  BY <1>1 DEF Init
<1>3. published = AtStart /\ published \in Nat /\ published \in AtStart..MaxVideos
  BY DEF Init
<1>4. \A r \in Runs : task[r] = NewTask(published)
  BY DEF Init
<1>5. NewTask(published) \in Tasks
  BY <1>3 DEF NewTask, Tasks
<1>6. task \in [Runs -> Tasks]
  BY <1>3, <1>5 DEF Init
<1>7. Types
  BY <1>1, <1>2, <1>3, <1>6 DEF Init, Types, Transcripts, VisualAnswered
<1>8. \A r \in Runs : RunOK(r, task[r])
  BY <1>4, <1>7, NewTaskOK
<1> QED
  BY <1>7, <1>8 DEF IInv

LEMMA NextIInv == IInv /\ [Next]_vars => IInv'
<1> SUFFICES ASSUME IInv, [Next]_vars PROVE IInv'
  OBVIOUS
<1>1. CASE Publish /\ UNCHANGED plan
  BY <1>1, PublishStep
<1>2. ASSUME NEW r \in Runs, Proceed(r) PROVE IInv'
  BY <1>2, FetchStep, TakeStep, NextBatchStep, WorkStep DEF Proceed
<1>3. ASSUME NEW r \in Runs, Leave(r) PROVE IInv'
  BY <1>3, AbortStep, RestartStep DEF Leave
<1>4. CASE UNCHANGED vars
  <2>1. UNCHANGED <<plan, published, embedding, transcript, suggestions, task>>
    BY <1>4 DEF vars
  <2>2. Types' /\ Types
    BY <2>1, SameAnswers DEF IInv, Types
  <2>3. Keeps
    BY <2>1 DEF Keeps, IInv, Types
  <2> SUFFICES ASSUME NEW r \in Runs PROVE RunOK(r, task[r])'
    BY <2>2 DEF IInv
  <2>4. PICK t \in Tasks : t = task[r] /\ t = task'[r]
    BY <2>1, <2>2 DEF Types
  <2>5. RunOK(r, t)'
    BY <2>2, <2>3, <2>4, StillOK DEF IInv
  <2> QED
    BY <2>4, <2>5, SameRun
<1> QED
  BY <1>1, <1>2, <1>3, <1>4 DEF Next

\* The inductive invariant of the batch tasks.
THEOREM Invariance == Spec => []IInv
  BY InitIInv, NextIInv, PTL DEF Spec

\* Whatever is published, aborted, run again or run beside it, a run of a task
\* takes the videos in the order of their ids and none twice, works on no more of
\* them than it may, stays within its limit, and what it prints adds up.
THEOREM AccountedAlways == Spec => []Accounted
<1>1. IInv => Accounted
  <2> SUFFICES ASSUME IInv PROVE Accounted
    OBVIOUS
  <2>1. TypeOK
    <3> SUFFICES ASSUME NEW r \in Runs
                 PROVE  /\ DOMAIN task[r] = DOMAIN NewTask(0)
                        /\ task[r].phase \in {"fetch", "batch", "finished", "aborted"}
                        /\ task[r].batch \in Seq(Rows)
                        /\ task[r].working \subseteq Jobs
                        /\ Cardinality(task[r].working)
                              <= IF plan.kind[r] = "embed" THEN Concurrency ELSE 1
                        /\ task[r].visited \in Seq(Ids)
      BY DEF IInv, Types, TypeOK
    <3>1. task[r] \in Tasks /\ RunOK(r, task[r])
      BY DEF IInv, Types
    <3>2. DOMAIN task[r] = DOMAIN NewTask(0)
      BY <3>1 DEF Tasks, NewTask
    <3> QED
      BY <3>1, <3>2, TaskFacts DEF RunOK, Within, AtOnce
  <2>2. VisitedOnce /\ CountsAdd
    BY DEF IInv, RunOK, InTurn, Totals, VisitedOnce, CountsAdd
  <2>3. LimitKept
    <3> SUFFICES ASSUME NEW r \in Runs, plan.limit[r] # NoLimit
                 PROVE  task[r].updated <= IF plan.kind[r] = "embed"
                          THEN plan.limit[r] + BatchSize - 1 ELSE plan.limit[r]
      BY DEF LimitKept
    <3>1. /\ task[r] \in Tasks /\ Within(r, task[r]) /\ Totals(task[r])
          /\ plan.limit[r] \in Nat
      BY DEF IInv, RunOK, Types, PlanType
    <3>2. /\ task[r].updated \in Nat /\ Cardinality(task[r].working) \in Nat
          /\ Len(task[r].batch) \in Nat
      BY <3>1, TaskFacts, FS_CardinalityType DEF Totals
    <3>3. CASE plan.kind[r] = "embed"
      <4>1. task[r].updated + Cardinality(task[r].working) + Len(task[r].batch)
               <= plan.limit[r] + BatchSize - 1
        BY <3>1, <3>3 DEF Within
      <4> QED
        BY <3>1, <3>2, <3>3, <4>1
    <3>4. CASE plan.kind[r] # "embed"
      <4>1. task[r].updated + Cardinality(task[r].working) <= plan.limit[r]
        BY <3>1, <3>4 DEF Within
      <4> QED
        BY <3>1, <3>2, <3>4, <4>1
    <3> QED
      BY <3>3, <3>4
  <2> QED
    BY <2>1, <2>2, <2>3 DEF Accounted
<1> QED
  BY <1>1, Invariance, PTL

\* A run of videos.embed_visual or videos.transcribe that came to the end without a
\* failure has passed over no video that was there when it began, although its cursor
\* only ever compares ids and other runs write to the same rows: each has a transcript,
\* or an embedding of whatever version a worker answered with, visual where all are.
THEOREM AllDoneAlways == Spec => []AllDone
<1>1. IInv => AllDone
  <2> SUFFICES ASSUME IInv PROVE AllDone
    OBVIOUS
  <2>1. ASSUME NEW r \in Runs, plan.kind[r] # "tags", Done(r), task[r].failures = 0,
               NEW v \in 1..task[r].began
        PROVE  Handled(r, v)
    BY <2>1, LimitIsReached DEF IInv, RunOK, NoneForgotten, Done, Ahead
  <2> QED
    BY <2>1 DEF AllDone, EmbedsAll, TranscribesAll, Handled, Embedders
<1> QED
  BY <1>1, Invariance, PTL

-----------------------------------------------------------------------------
\* The refresh of the tags.

\* The rows of a refresh are not more than TopK.
LEMMA FreshRowsFew ==
    ASSUME NEW job \in Jobs, job.seen \in Embeddings
    PROVE  IsFiniteSet(FreshRows(job)) /\ Cardinality(FreshRows(job)) <= TopK
<1> DEFINE near == Nearest[job.seen.vector]
           n == IF Len(near) < TopK THEN Len(near) ELSE TopK
           Fresh(tag) == [video |-> job.id, tag |-> tag, version |-> job.seen.version,
                          vector |-> job.seen.vector]
           f == [i \in 1..n |-> Fresh(near[i])]
<1>1. near \in Seq(Tags)
  BY DEF Embeddings
<1>2. FreshRows(job) = {Fresh(tag) : tag \in ToSet(SubSeq(near, 1, n))}
  BY DEF FreshRows, TopTags
<1> HIDE DEF near, Fresh
<1>3. n \in Nat /\ n <= Len(near) /\ n <= TopK
  BY <1>1
<1> HIDE DEF n
<1>4. ToSet(SubSeq(near, 1, n)) = {near[i] : i \in 1..n}
  <2>1. /\ SubSeq(near, 1, n) \in Seq(Tags) /\ DOMAIN SubSeq(near, 1, n) = 1..n
        /\ \A i \in 1..n : SubSeq(near, 1, n)[i] = near[i]
    BY <1>1, <1>3
  <2> QED
    BY <2>1 DEF ToSet
<1>5. f \in Surjection(1..n, FreshRows(job))
  <2>1. f \in [1..n -> FreshRows(job)]
    BY <1>2, <1>4
  <2>2. \A row \in FreshRows(job) : \E i \in 1..n : f[i] = row
    BY <1>2, <1>4
  <2> QED
    BY <2>1, <2>2 DEF Surjection
<1>6. IsFiniteSet(1..n) /\ Cardinality(1..n) = n
  BY <1>3, FS_Interval
<1>7. IsFiniteSet(FreshRows(job)) /\ Cardinality(FreshRows(job)) <= n
  BY <1>5, <1>6, FS_Surjection
<1>8. Cardinality(FreshRows(job)) \in Nat
  BY <1>7, FS_CardinalityType
<1> QED
  BY <1>3, <1>7, <1>8

\* A step that leaves the rows of the tags alone, and deletes none.
LEMMA TagsQuiet ==
    ASSUME TagsInv, UNCHANGED <<plan, suggestions>>,
           \A r \in Runs : \A job \in task'[r].working :
              job \in task[r].working \/ job.step = "work"
    PROVE  TagsInv'
<1>1. OneTopK'
  BY DEF TagsInv, OneTopK, RowsOf
<1>2. \A r \in Runs : DeletesAll(r)'
  <2> SUFFICES ASSUME NEW r \in Runs, NEW job \in task'[r].working, job.step = "persist"
               PROVE  plan'.kind[r] = "tags" /\ job.doomed = Outdated(job)'
    BY DEF DeletesAll
  <2>1. job \in task[r].working
    OBVIOUS
  <2>2. plan.kind[r] = "tags" /\ job.doomed = Outdated(job)
    BY <2>1 DEF TagsInv, DeletesAll
  <2> QED
    BY <2>2 DEF Outdated
<1> QED
  BY <1>1, <1>2 DEF TagsInv

\* No step but those of a refresh touches the rows of the tags.
LEMMA OtherSteps ==
    ASSUME IInv, TagsInv, UNCHANGED plan, NEW r \in Runs,
           \/ Fetch(r) \/ Take(r) \/ NextBatch(r) \/ Leave(r)
           \/ \E job \in task[r].working :
                 \/ WorkFails(r, job) \/ Embed(r, job) \/ Transcribe(r, job)
                 \/ SkipUntagged(r, job)
    PROVE  TagsInv'
<1>1. task \in [Runs -> Tasks] /\ task[r] \in Tasks
  BY DEF IInv, Types
<1>2. UNCHANGED <<plan, suggestions>>
  BY DEF Fetch, Take, NextBatch, Leave, Abort, Restart, WorkFails, Embed, Transcribe,
         SkipUntagged
<1>3. \A s \in Runs : s # r => task'[s] = task[s]
  BY <1>1 DEF Fetch, Take, NextBatch, Leave, Abort, Restart, WorkFails, Embed, Transcribe,
              SkipUntagged
<1>4. \A job \in task'[r].working : job \in task[r].working \/ job.step = "work"
  <2> DEFINE t == task[r]
             row == Head(t.batch)
             new == [id |-> row.id, seen |-> row.seen, step |-> "work", doomed |-> {}]
  <2>1. t \in Tasks
    BY <1>1
  <2>2. CASE Fetch(r)
    <3>1. CASE LimitReached(r) \/ Candidates(r) = {}
      <4>1. task' = [task EXCEPT ![r].phase = "finished"]
        BY <2>2, <3>1 DEF Fetch
      <4> QED
        BY <1>1, <4>1 DEF Tasks
    <3>2. CASE ~(LimitReached(r) \/ Candidates(r) = {})
      <4>1. PICK rows, last : task' = [task EXCEPT ![r].phase = "batch", ![r].batch = rows,
                                                   ![r].last_id = last]
        BY <2>2, <3>2 DEF Fetch
      <4> QED
        BY <1>1, <4>1 DEF Tasks
    <3> QED
      BY <3>1, <3>2
  <2>3. CASE Take(r)
    <3>1. task'[r].working = t.working \/ task'[r].working = t.working \cup {new}
      <4> DEFINE rest == [t EXCEPT !.batch = Tail(t.batch)]
                 seen == [rest EXCEPT !.visited = Append(t.visited, row.id)]
                 failed == [seen EXCEPT !.failures = t.failures + 1]
                 skipped == [seen EXCEPT !.skipped = t.skipped + 1]
                 works == [seen EXCEPT !.working = t.working \cup {new}]
      <4>1. task'[r] \in {rest, failed, skipped, works}
        BY <1>1, <2>3 DEF Take
      <4> HIDE DEF t, new
      <4>2. DOMAIN t = DOMAIN NewTask(0)
        BY <2>1 DEF Tasks, NewTask
      <4>3. rest.working = t.working /\ seen.working = t.working
        BY <4>2 DEF NewTask
      <4>4. failed.working = t.working /\ skipped.working = t.working
            /\ works.working = t.working \cup {new}
        BY <4>2, <4>3 DEF NewTask
      <4> QED
        BY <4>1, <4>3, <4>4
    <3> QED
      BY <3>1
  <2>4. CASE NextBatch(r)
    <3>1. task'[r].working = t.working
      BY <1>1, <2>4 DEF NextBatch, Tasks
    <3> QED
      BY <3>1
  <2>5. CASE Leave(r)
    <3>1. task'[r].working = {}
      <4>1. task'[r] \in {NewTask(published), [NewTask(0) EXCEPT !.phase = "aborted"]}
        BY <1>1, <2>5 DEF Leave, Abort, Restart
      <4> QED
        BY <4>1 DEF NewTask
    <3> QED
      BY <3>1
  <2>6. ASSUME NEW job \in t.working,
               \/ WorkFails(r, job) \/ Embed(r, job) \/ Transcribe(r, job)
               \/ SkipUntagged(r, job)
        PROVE  task'[r].working = t.working \ {job}
    <3>1. task'[r] \in {Updated(r, job), Skipped(r, job), Failed(r, job)}
      BY <1>1, <2>6 DEF WorkFails, Embed, Transcribe, SkipUntagged
    <3>2. Updated(r, job).working = t.working \ {job}
      BY <1>1, UpdatedTask DEF Updated
    <3>3. Skipped(r, job).working = t.working \ {job}
      BY <1>1, SkippedTask DEF Skipped
    <3>4. Failed(r, job).working = t.working \ {job}
      BY <1>1, FailedTask DEF Failed
    <3> QED
      BY <3>1, <3>2, <3>3, <3>4
  <2> QED
    BY <2>2, <2>3, <2>4, <2>5, <2>6
<1> QED
  BY <1>2, <1>3, <1>4, TagsQuiet

LEMMA DeletesTags ==
    ASSUME IInv, TagsInv, UNCHANGED plan, NEW r \in Runs, NEW job \in task[r].working,
           DeleteOutdated(r, job)
    PROVE  TagsInv'
<1> DEFINE t == task[r]
<1>0. PICK other : other = [job EXCEPT !.step = "persist", !.doomed = Outdated(job)]
  OBVIOUS
<1>1. task \in [Runs -> Tasks] /\ t \in Tasks /\ job \in Jobs
  BY TaskFacts DEF IInv, Types
<1>2. /\ task' = [task EXCEPT ![r].working = (t.working \ {job}) \cup {other}]
      /\ plan.kind[r] = "tags" /\ UNCHANGED suggestions
  BY <1>0 DEF DeleteOutdated
<1>3. other.id = job.id /\ other.seen = job.seen /\ other.doomed = Outdated(job)
  BY <1>0, <1>1 DEF Jobs
<1>4. Outdated(other)' = Outdated(job)
  BY <1>2, <1>3 DEF Outdated
<1>5. /\ task'[r].working = (t.working \ {job}) \cup {other}
      /\ \A s \in Runs : s # r => task'[s] = task[s]
  BY <1>1, <1>2 DEF Tasks
<1>6. OneTopK'
  BY <1>2 DEF TagsInv, OneTopK, RowsOf
<1>7. \A s \in Runs : DeletesAll(s)'
  <2> SUFFICES ASSUME NEW s \in Runs, NEW x \in task'[s].working, x.step = "persist"
               PROVE  plan'.kind[s] = "tags" /\ x.doomed = Outdated(x)'
    BY DEF DeletesAll
  <2>1. CASE s = r /\ x = other
    BY <1>2, <1>3, <1>4, <2>1
  <2>2. CASE x \in task[s].working
    <3>1. plan.kind[s] = "tags" /\ x.doomed = Outdated(x)
      BY <2>2 DEF TagsInv, DeletesAll
    <3> QED
      BY <1>2, <3>1 DEF Outdated
  <2> QED
    BY <1>5, <2>1, <2>2
<1> QED
  BY <1>6, <1>7 DEF TagsInv

\* The only refresh replaces all the rows of its video by those of one vector.
LEMMA InsertsTags ==
    ASSUME OneRefresh, IInv, TagsInv, UNCHANGED plan, NEW r \in Runs,
           NEW job \in task[r].working, InsertFresh(r, job)
    PROVE  TagsInv'
<1> DEFINE t == task[r]
<1>1. /\ task \in [Runs -> Tasks] /\ t \in Tasks /\ job \in Jobs /\ RunOK(r, t)
      /\ suggestions \subseteq Suggestions /\ plan \in Plans
  BY TaskFacts DEF IInv, Types
<1>2. /\ task' = [task EXCEPT ![r] = Updated(r, job)]
      /\ suggestions' = (suggestions \ job.doomed) \cup FreshRows(job)
      /\ plan.kind[r] = "tags" /\ job.step = "persist"
  BY DEF InsertFresh
<1>3. job.seen \in Embeddings /\ job.seen.version = Visual
  BY <1>1, <1>2 DEF RunOK, RowsRead, Read
<1>4. job.doomed = RowsOf(job.id)
  <2>1. job.doomed = Outdated(job)
    BY <1>2 DEF TagsInv, DeletesAll
  <2>2. \A s \in suggestions : s.version = Visual
    BY <1>1 DEF Suggestions
  <2> QED
    BY <1>3, <2>1, <2>2 DEF Outdated, RowsOf
<1>5. \A s \in FreshRows(job) : s.video = job.id /\ s.vector = job.seen.vector
  BY DEF FreshRows
<1>6. RowsOf(job.id)' = FreshRows(job)
  BY <1>2, <1>4, <1>5 DEF RowsOf
<1>7. \A v \in Ids : v # job.id => RowsOf(v)' = RowsOf(v)
  BY <1>2, <1>4, <1>5 DEF RowsOf
<1>8. OneTopK'
  <2> SUFFICES ASSUME NEW v \in Ids
               PROVE  /\ Cardinality(RowsOf(v)') <= TopK
                      /\ \A s, x \in RowsOf(v)' : s.vector = x.vector
    BY DEF OneTopK
  <2>1. CASE v = job.id
    BY <1>1, <1>3, <1>5, <1>6, <2>1, FreshRowsFew
  <2>2. CASE v # job.id
    BY <1>7, <2>2 DEF TagsInv, OneTopK
  <2> QED
    BY <2>1, <2>2
<1>9. t.working = {job}
  <2>1. IsFiniteSet(t.working) /\ Cardinality(t.working) <= 1
    BY <1>1, <1>2 DEF RunOK, Totals, Within, AtOnce
  <2>2. IsFiniteSet(t.working \ {job}) /\ Cardinality(t.working \ {job}) = Cardinality(t.working) - 1
    BY <2>1, FS_RemoveElement
  <2>3. Cardinality(t.working) \in Nat /\ Cardinality(t.working \ {job}) \in Nat
    BY <2>1, <2>2, FS_CardinalityType
  <2>4. Cardinality(t.working \ {job}) = 0
    BY <2>1, <2>2, <2>3
  <2> QED
    BY <2>2, <2>4, FS_EmptySet
<1>10. \A s \in Runs : DeletesAll(s)'
  <2> SUFFICES ASSUME NEW s \in Runs, NEW x \in task'[s].working, x.step = "persist" PROVE FALSE
    BY DEF DeletesAll
  <2>1. CASE s = r
    <3>1. task'[r].working = t.working \ {job}
      BY <1>1, <1>2, UpdatedTask DEF Updated
    <3> QED
      BY <1>9, <2>1, <3>1
  <2>2. CASE s # r
    <3>1. x \in task[s].working
      BY <1>1, <1>2, <2>2
    <3>2. plan.kind[s] = "tags"
      BY <3>1 DEF TagsInv, DeletesAll
    <3> QED
      BY <1>1, <1>2, <2>2, <3>2 DEF OneRefresh
  <2> QED
    BY <2>1, <2>2
<1> QED
  BY <1>8, <1>10 DEF TagsInv

\* While no two refreshes are run at once: every video has at most the TopK rows of
\* one refresh, computed from one vector, whatever else is run beside it and
\* wherever it is aborted. (Two refreshes at once may leave the rows of both.)
THEOREM OneTopKAlways == OneRefresh => (Spec => []OneTopK)
<1> SUFFICES ASSUME OneRefresh PROVE Spec => []OneTopK
  OBVIOUS
<1>1. Init => TagsInv
  <2> SUFFICES ASSUME Init PROVE TagsInv
    OBVIOUS
  <2>1. \A v \in Ids : RowsOf(v) = {}
    BY DEF Init, RowsOf
  <2>2. \A r \in Runs : task[r].working = {}
    BY DEF Init, NewTask
  <2> QED
    <3>1. OneTopK
      <4>1. Cardinality({}) = 0 /\ 0 <= TopK
        <5>1. TopK \in Nat
          OBVIOUS
        <5>2. 0 <= TopK
          BY <5>1
        <5> QED
          BY <5>2, FS_EmptySet
      <4>2. \A v \in Ids : Cardinality(RowsOf(v)) <= TopK
        <5> SUFFICES ASSUME NEW v \in Ids PROVE Cardinality(RowsOf(v)) <= TopK
          OBVIOUS
        <5>1. RowsOf(v) = {}
          BY <2>1
        <5>2. Cardinality(RowsOf(v)) = 0
          BY <4>1, <5>1
        <5> QED
          BY <4>1, <5>2
      <4> QED
        BY <2>1, <4>2 DEF OneTopK
    <3> QED
      BY <2>2, <3>1 DEF TagsInv, DeletesAll
<1>2. IInv /\ TagsInv /\ [Next]_vars => TagsInv'
  <2> SUFFICES ASSUME IInv, TagsInv, [Next]_vars PROVE TagsInv'
    OBVIOUS
  <2>1. CASE Publish /\ UNCHANGED plan
    BY <2>1, TagsQuiet DEF Publish
  <2>2. ASSUME NEW r \in Runs, Proceed(r) PROVE TagsInv'
    BY <2>2, OtherSteps, DeletesTags, InsertsTags DEF Proceed, Work
  <2>3. ASSUME NEW r \in Runs, Leave(r) PROVE TagsInv'
    BY <2>3, OtherSteps DEF Leave
  <2>4. CASE UNCHANGED vars
    BY <2>4, TagsQuiet DEF vars
  <2> QED
    BY <2>1, <2>2, <2>3, <2>4 DEF Next
<1>3. TagsInv => OneTopK
  BY DEF TagsInv
<1> QED
  BY <1>1, <1>2, <1>3, Invariance, PTL DEF Spec
=============================================================================
