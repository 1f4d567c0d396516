----------------------------- MODULE TasteProofs -----------------------------
(***************************************************************************)
(* Proofs about what a viewer's taste is made of and used for: the watch   *)
(* log, for any videos, any duration and any limit of the queue; the       *)
(* rankings, for any library, any embeddings and any limits; and the       *)
(* functions they call, for any arguments.                                 *)
(*                                                                         *)
(* That the log is complete and in order is a statement about the          *)
(* concatenation of the batches under way, and that no watch time is       *)
(* invented one about a sum over the log.  The functions are recursive:    *)
(* each gets the equations that the proofs need first, shown to have a     *)
(* solution, and then an invariant of its rounds, kept from one to the     *)
(* next.                                                                   *)
(***************************************************************************)
EXTENDS WatchLog, Recommendations, RankingCalls, WellFoundedInduction, FiniteSetTheorems, FunctionTheorems,
        SequenceTheorems, TLAPS

-----------------------------------------------------------------------------
\* The invariant.

Nonempty(batches) == \A i \in DOMAIN batches : batches[i] # <<>>

\* A watch that is under way is one of the active video, was announced by an
\* impression, and has moved the video by no more than it was played.
Watched ==
    activeWatch # NoWatch =>
        /\ activeWatch.videoId = active
        /\ currentTime[active] <= activeWatch.startSeconds + sinceStart
        /\ \E j \in DOMAIN happened : happened[j] = Impression(active)

IInv ==
    /\ TypeOK
    /\ Nonempty(outbox.batches)
    /\ OnceInOrder
    /\ Watched
    /\ NeverOverReported
    /\ WatchAfterImpression

-----------------------------------------------------------------------------
\* A set of numbers that is not empty has a least one: induction on numbers.

Below == {p \in Nat \X Nat : p[1] < p[2]}

LEMMA LeastNumber ==
    ASSUME NEW T, T \subseteq Nat, T # {}
    PROVE  \E x \in T : \A y \in T : x <= y
<1>1. Below = OpToRel(<, Nat)
  BY DEF Below, OpToRel
<1>2. IsWellFoundedOn(Below, Nat)
  BY <1>1, NatLessThanWellFounded
<1>3. \E x \in T : \A y \in T : ~ (<<y, x>> \in Below)
  BY <1>2, WFMin
<1>4. \A x, y \in Nat : ~(<<y, x>> \in Below) => x <= y
  BY DEF Below
<1> QED
  BY <1>3, <1>4

-----------------------------------------------------------------------------
\* The ticks of a log.

Ticks(e, v) == IF e.video = v THEN e.watch_ms ELSE 0

\* f counts the ticks of the first n events.
Counts(f, events, v, n) ==
    f = [k \in 0..n |-> IF k = 0 THEN 0
                        ELSE f[k - 1] + (IF events[k].video = v THEN events[k].watch_ms ELSE 0)]

LEMMA CountsSteps ==
    ASSUME NEW f, NEW events, NEW v, NEW n \in Nat, Counts(f, events, v, n)
    PROVE  /\ f[0] = 0
           /\ \A k \in 1..n : f[k] = f[k - 1] + Ticks(events[k], v)
  <1>1. \A k \in 0..n : f[k] = IF k = 0 THEN 0 ELSE f[k - 1] + Ticks(events[k], v)
    BY DEF Counts, Ticks
  <1>2. 0 \in 0..n /\ \A k \in 1..n : k \in 0..n /\ k # 0
    OBVIOUS
  <1> QED
    BY <1>1, <1>2

LEMMA CountsOneMore ==
    ASSUME NEW events, NEW v, NEW n \in Nat, NEW f, Counts(f, events, v, n)
    PROVE  \E g : Counts(g, events, v, n + 1)
  <1> DEFINE g == [k \in 0..(n + 1) |->
                      IF k = n + 1 THEN f[n] + Ticks(events[n + 1], v) ELSE f[k]]
  <1>1. f[0] = 0 /\ \A k \in 1..n : f[k] = f[k - 1] + Ticks(events[k], v)
    BY CountsSteps
  <1>2. ASSUME NEW k \in 0..(n + 1)
        PROVE  g[k] = IF k = 0 THEN 0 ELSE g[k - 1] + Ticks(events[k], v)
    <2>1. CASE k = 0
      BY <1>1, <2>1
    <2>2. CASE k \in 1..n
      <3>1. k - 1 \in 0..(n + 1) /\ k # n + 1 /\ k - 1 # n + 1 /\ k # 0
        BY <2>2
      <3> QED
        BY <1>1, <2>2, <3>1
    <2>3. CASE k = n + 1
      <3>1. k - 1 \in 0..(n + 1) /\ k - 1 # n + 1 /\ k # 0 /\ k - 1 = n
        BY <2>3
      <3> QED
        BY <2>3, <3>1
    <2> QED
      BY <2>1, <2>2, <2>3
  <1>3. g = [k \in 0..(n + 1) |-> g[k]]
    OBVIOUS
  <1> HIDE DEF g
  <1>4. g = [k \in 0..(n + 1) |-> IF k = 0 THEN 0 ELSE g[k - 1] + Ticks(events[k], v)]
    BY <1>2, <1>3
  <1> QED
    BY <1>4 DEF Counts, Ticks

LEMMA CountsExist ==
    ASSUME NEW events, NEW v
    PROVE  \A n \in Nat : \E f : Counts(f, events, v, n)
  <1> DEFINE T == {n \in Nat : ~ \E f : Counts(f, events, v, n)}
  <1> SUFFICES ASSUME T # {} PROVE FALSE
    OBVIOUS
  <1>1. PICK n \in T : \A k \in T : n <= k
    BY LeastNumber
  <1>2. n # 0
    <2>1. 0..0 = {0}
      OBVIOUS
    <2>2. Counts([k \in {0} |-> 0], events, v, 0)
      BY <2>1 DEF Counts
    <2> QED
      BY <2>2
  <1>3. n - 1 \in Nat /\ n - 1 \notin T
    BY <1>1, <1>2
  <1>4. PICK f : Counts(f, events, v, n - 1)
    BY <1>3
  <1>5. \E g : Counts(g, events, v, (n - 1) + 1)
    BY <1>3, <1>4, CountsOneMore
  <1>6. (n - 1) + 1 = n
    BY <1>1
  <1> QED
    BY <1>1, <1>5, <1>6

\* Two counts agree as long as their events do.
LEMMA CountsAgree ==
    ASSUME NEW f, NEW g, NEW events, NEW others, NEW v, NEW n \in Nat, NEW m \in Nat, n <= m,
           Counts(f, events, v, n), Counts(g, others, v, m),
           \A k \in 1..n : events[k] = others[k]
    PROVE  f[n] = g[n]
  <1> DEFINE T == {k \in 0..n : f[k] # g[k]}
  <1> SUFFICES ASSUME T # {} PROVE FALSE
    OBVIOUS
  <1>1. /\ f[0] = 0 /\ g[0] = 0
        /\ \A k \in 1..n : f[k] = f[k - 1] + Ticks(events[k], v)
        /\ \A k \in 1..m : g[k] = g[k - 1] + Ticks(others[k], v)
    BY CountsSteps
  <1>2. PICK k \in T : \A j \in T : k <= j
    <2>1. T \subseteq Nat
      OBVIOUS
    <2> HIDE DEF T
    <2> QED
      BY <2>1, LeastNumber
  <1>3. k \in 1..n /\ k \in 1..m /\ k - 1 \in 0..n /\ k - 1 \notin T
    BY <1>1, <1>2
  <1>4. f[k - 1] = g[k - 1] /\ events[k] = others[k]
    BY <1>3
  <1> QED
    BY <1>1, <1>2, <1>3, <1>4

LEMMA TicksOfIs ==
    ASSUME NEW events, NEW v, Len(events) \in Nat
    PROVE  \E f : Counts(f, events, v, Len(events)) /\ TicksOf(events, v) = f[Len(events)]
  <1> DEFINE f == CHOOSE ticks : Counts(ticks, events, v, Len(events))
  <1>1. Counts(f, events, v, Len(events))
    BY CountsExist
  <1>2. TicksOf(events, v) = f[Len(events)]
    BY DEF TicksOf, Counts
  <1> QED
    BY <1>1, <1>2

LEMMA TicksOfNone == ASSUME NEW v PROVE TicksOf(<<>>, v) = 0
  <1>1. Len(<<>>) = 0
    OBVIOUS
  <1>2. PICK f : Counts(f, <<>>, v, 0) /\ TicksOf(<<>>, v) = f[0]
    BY <1>1, TicksOfIs
  <1> QED
    BY <1>2, CountsSteps

LEMMA TicksOfAppend ==
    ASSUME NEW S, NEW events \in Seq(S), NEW e \in S, NEW v
    PROVE  TicksOf(Append(events, e), v) = TicksOf(events, v) + Ticks(e, v)
  <1> DEFINE n == Len(events)
             longer == Append(events, e)
  <1>1. /\ n \in Nat /\ Len(longer) = n + 1 /\ longer[n + 1] = e
        /\ \A k \in 1..n : events[k] = longer[k]
    OBVIOUS
  <1> HIDE DEF n, longer
  <1>2. PICK f : Counts(f, events, v, n) /\ TicksOf(events, v) = f[n]
    BY <1>1, TicksOfIs DEF n
  <1>3. PICK g : Counts(g, longer, v, n + 1) /\ TicksOf(longer, v) = g[n + 1]
    BY <1>1, TicksOfIs
  <1>4. f[n] = g[n]
    <2>1. n + 1 \in Nat /\ n <= n + 1
      BY <1>1
    <2> QED
      BY <1>1, <1>2, <1>3, <2>1, CountsAgree
  <1>5. n + 1 \in 1..(n + 1) /\ (n + 1) - 1 = n /\ n + 1 \in Nat
    BY <1>1
  <1>6. g[n + 1] = g[(n + 1) - 1] + Ticks(longer[n + 1], v)
    BY <1>3, <1>5, CountsSteps
  <1> QED
    BY <1>1, <1>2, <1>3, <1>4, <1>5, <1>6 DEF longer

-----------------------------------------------------------------------------
\* The concatenation of the batches.

\* f concatenates the first n batches.
Joins(f, batches, n) ==
    f = [i \in 1..n |-> IF i = 1 THEN batches[i] ELSE f[i - 1] \o batches[i]]

\* The first n batches are sequences.
Sequences(batches, n, S) == \A i \in 1..n : batches[i] \in Seq(S)

LEMMA JoinsSteps ==
    ASSUME NEW f, NEW batches, NEW n \in Nat, Joins(f, batches, n)
    PROVE  \A i \in 1..n : f[i] = IF i = 1 THEN batches[i] ELSE f[i - 1] \o batches[i]
  BY DEF Joins

LEMMA JoinsOneMore ==
    ASSUME NEW batches, NEW n \in Nat, NEW f, Joins(f, batches, n)
    PROVE  \E g : Joins(g, batches, n + 1)
  <1> DEFINE g == [i \in 1..(n + 1) |->
                      IF i = n + 1
                      THEN IF n = 0 THEN batches[i] ELSE f[n] \o batches[i]
                      ELSE f[i]]
  <1>1. ASSUME NEW i \in 1..(n + 1)
        PROVE  g[i] = IF i = 1 THEN batches[i] ELSE g[i - 1] \o batches[i]
    <2>1. CASE i \in 1..n
      <3>1. i # n + 1 /\ (i # 1 => i - 1 \in 1..(n + 1) /\ i - 1 # n + 1)
        BY <2>1
      <3> QED
        BY <2>1, <3>1, JoinsSteps
    <2>2. CASE i = n + 1
      <3>1. i = 1 <=> n = 0
        BY <2>2
      <3>2. i # 1 => i - 1 \in 1..(n + 1) /\ i - 1 # n + 1 /\ i - 1 = n
        BY <2>2
      <3> QED
        BY <2>2, <3>1, <3>2
    <2> QED
      BY <2>1, <2>2
  <1>2. g = [i \in 1..(n + 1) |-> g[i]]
    OBVIOUS
  <1> HIDE DEF g
  <1>3. g = [i \in 1..(n + 1) |-> IF i = 1 THEN batches[i] ELSE g[i - 1] \o batches[i]]
    BY <1>1, <1>2
  <1> QED
    BY <1>3 DEF Joins

LEMMA JoinsExist ==
    ASSUME NEW batches
    PROVE  \A n \in Nat : \E f : Joins(f, batches, n)
  <1> DEFINE T == {n \in Nat : ~ \E f : Joins(f, batches, n)}
  <1> SUFFICES ASSUME T # {} PROVE FALSE
    OBVIOUS
  <1>1. PICK n \in T : \A k \in T : n <= k
    BY LeastNumber
  <1>2. n # 0
    <2>1. 1..0 = {}
      OBVIOUS
    <2>2. Joins([i \in {} |-> 0], batches, 0)
      BY <2>1 DEF Joins
    <2> QED
      BY <2>2
  <1>3. n - 1 \in Nat /\ n - 1 \notin T
    BY <1>1, <1>2
  <1>4. PICK f : Joins(f, batches, n - 1)
    BY <1>3
  <1>5. \E g : Joins(g, batches, (n - 1) + 1)
    BY <1>3, <1>4, JoinsOneMore
  <1>6. (n - 1) + 1 = n
    BY <1>1
  <1> QED
    BY <1>1, <1>5, <1>6

\* What is joined is a sequence of events.
LEMMA JoinsTyped ==
    ASSUME NEW S, NEW f, NEW batches, NEW n \in Nat, Joins(f, batches, n),
           Sequences(batches, n, S)
    PROVE  \A i \in 1..n : f[i] \in Seq(S)
  <1> DEFINE T == {i \in 1..n : f[i] \notin Seq(S)}
  <1> SUFFICES ASSUME T # {} PROVE FALSE
    OBVIOUS
  <1>1. PICK k \in T : \A j \in T : k <= j
    <2>1. T \subseteq Nat
      OBVIOUS
    <2> HIDE DEF T
    <2> QED
      BY <2>1, LeastNumber
  <1>2. k \in 1..n /\ batches[k] \in Seq(S)
    BY <1>1 DEF Sequences
  <1>3. f[k] = IF k = 1 THEN batches[k] ELSE f[k - 1] \o batches[k]
    BY <1>2, JoinsSteps
  <1>4. k # 1 => k - 1 \in 1..n /\ k - 1 \notin T
    BY <1>1, <1>2
  <1>5. k # 1 => f[k - 1] \in Seq(S)
    BY <1>4
  <1>6. f[k] \in Seq(S)
    BY <1>2, <1>3, <1>5
  <1> QED
    BY <1>1, <1>6

\* Two concatenations agree as long as their batches do.
LEMMA JoinsAgree ==
    ASSUME NEW f, NEW g, NEW batches, NEW others, NEW n \in Nat, NEW m \in Nat, n <= m,
           Joins(f, batches, n), Joins(g, others, m),
           \A i \in 1..n : batches[i] = others[i]
    PROVE  \A i \in 1..n : f[i] = g[i]
  <1> DEFINE T == {k \in 1..n : f[k] # g[k]}
  <1> SUFFICES ASSUME T # {} PROVE FALSE
    OBVIOUS
  <1>1. PICK k \in T : \A j \in T : k <= j
    <2>1. T \subseteq Nat
      OBVIOUS
    <2> HIDE DEF T
    <2> QED
      BY <2>1, LeastNumber
  <1>2. k \in 1..n /\ k \in 1..m /\ batches[k] = others[k] /\ f[k] # g[k]
    BY <1>1
  <1>3. k # 1 => k - 1 \in 1..n /\ k - 1 \notin T
    BY <1>1, <1>2
  <1>4. k # 1 => f[k - 1] = g[k - 1]
    BY <1>3
  <1>5. f[k] = IF k = 1 THEN batches[k] ELSE f[k - 1] \o batches[k]
    BY <1>2, JoinsSteps
  <1>6. g[k] = IF k = 1 THEN others[k] ELSE g[k - 1] \o others[k]
    BY <1>2, JoinsSteps
  <1> QED
    BY <1>2, <1>4, <1>5, <1>6

ShiftedAt(f, g, first, k) == f[k + 1] = first \o g[k]

\* Without the first batch, the concatenation lacks just that.
LEMMA JoinsShift ==
    ASSUME NEW S, NEW batches, NEW others, NEW f, NEW g, NEW n \in Nat,
           Joins(f, batches, n + 1), Joins(g, others, n),
           Sequences(batches, n + 1, S), Sequences(others, n, S),
           \A i \in 1..n : others[i] = batches[i + 1]
    PROVE  \A i \in 1..n : ShiftedAt(f, g, batches[1], i)
  <1> DEFINE T == {k \in 1..n : ~ShiftedAt(f, g, batches[1], k)}
  <1> SUFFICES ASSUME T # {} PROVE FALSE
    OBVIOUS
  <1>1. PICK k \in T : \A j \in T : k <= j
    <2>1. T \subseteq Nat
      OBVIOUS
    <2> HIDE DEF T
    <2> QED
      BY <2>1, LeastNumber
  <1>2. k \in 1..n /\ ~ShiftedAt(f, g, batches[1], k) /\ others[k] = batches[k + 1]
    BY <1>1
  <1>3. /\ n + 1 \in Nat /\ k + 1 \in 1..(n + 1) /\ k + 1 # 1 /\ (k + 1) - 1 = k
        /\ 1 \in 1..(n + 1)
    BY <1>2
  <1>4. \A i \in 1..(n + 1) : f[i] = IF i = 1 THEN batches[i] ELSE f[i - 1] \o batches[i]
    BY <1>3, JoinsSteps
  <1>5. f[k + 1] = f[k] \o others[k] /\ f[1] = batches[1]
    BY <1>2, <1>3, <1>4
  <1>6. g[k] = IF k = 1 THEN others[k] ELSE g[k - 1] \o others[k]
    BY <1>2, JoinsSteps
  <1>7. CASE k = 1
    BY <1>2, <1>5, <1>6, <1>7 DEF ShiftedAt
  <1>8. CASE k # 1
    <2>1. k - 1 \in 1..n /\ k - 1 < k /\ (k - 1) + 1 = k /\ k \in Nat
      BY <1>2, <1>8
    <2>2. k - 1 \notin T
      <3>1. ~ (k <= k - 1)
        BY <2>1
      <3> QED
        BY <1>1, <3>1
    <2>3. f[k] = batches[1] \o g[k - 1]
      BY <2>1, <2>2 DEF ShiftedAt
    <2>4. g[k - 1] \in Seq(S) /\ others[k] \in Seq(S) /\ batches[1] \in Seq(S)
      BY <1>2, <1>3, <2>1, JoinsTyped DEF Sequences
    <2>5. (batches[1] \o g[k - 1]) \o others[k] = batches[1] \o (g[k - 1] \o others[k])
      <3>1. \A r, s, t \in Seq(S) : (r \o s) \o t = r \o (s \o t)
        BY ConcatAssociative, SMTT(40)
      <3> QED
        BY ONLY <2>4, <3>1, ZenonT(60)
    <2> QED
      BY <1>2, <1>5, <1>6, <1>8, <2>3, <2>5 DEF ShiftedAt
  <1> QED
    BY <1>7, <1>8

LEMMA FlattenIs ==
    ASSUME NEW batches, Len(batches) \in Nat \ {0}
    PROVE  \E f : Joins(f, batches, Len(batches)) /\ FlattenSeq(batches) = f[Len(batches)]
  <1> DEFINE f == CHOOSE flatten : Joins(flatten, batches, Len(batches))
  <1>1. Joins(f, batches, Len(batches))
    BY JoinsExist
  <1>2. FlattenSeq(batches) = f[Len(batches)]
    BY DEF FlattenSeq, Joins
  <1> QED
    BY <1>1, <1>2

LEMMA FlattenNone ==
    ASSUME NEW batches, Len(batches) = 0
    PROVE  FlattenSeq(batches) = batches
  BY DEF FlattenSeq

LEMMA FlattenTyped ==
    ASSUME NEW S, NEW batches \in Seq(Seq(S))
    PROVE  FlattenSeq(batches) \in Seq(S)
  <1>1. CASE Len(batches) = 0
    <2>1. batches = <<>> /\ <<>> \in Seq(S)
      BY <1>1
    <2> QED
      BY <1>1, <2>1, FlattenNone
  <1>2. CASE Len(batches) # 0
    <2>1. Len(batches) \in Nat \ {0} /\ Len(batches) \in 1..Len(batches)
      BY <1>2
    <2>2. PICK f : Joins(f, batches, Len(batches)) /\ FlattenSeq(batches) = f[Len(batches)]
      BY <2>1, FlattenIs
    <2>3. Sequences(batches, Len(batches), S)
      BY DEF Sequences
    <2>4. \A i \in 1..Len(batches) : f[i] \in Seq(S)
      BY <2>1, <2>2, <2>3, JoinsTyped
    <2> QED
      BY <2>1, <2>2, <2>4
  <1> QED
    BY <1>1, <1>2

LEMMA FlattenAppend ==
    ASSUME NEW S, NEW batches \in Seq(Seq(S)), NEW more \in Seq(S)
    PROVE  FlattenSeq(Append(batches, more)) = FlattenSeq(batches) \o more
  <1> DEFINE n == Len(batches)
             longer == Append(batches, more)
  <1>1. /\ n \in Nat /\ n + 1 \in Nat \ {0} /\ Len(longer) = n + 1
        /\ longer[n + 1] = more /\ n <= n + 1
        /\ \A i \in 1..n : batches[i] = longer[i]
    OBVIOUS
  <1> HIDE DEF n, longer
  <1>2. PICK g : Joins(g, longer, n + 1) /\ FlattenSeq(longer) = g[n + 1]
    BY <1>1, FlattenIs
  <1>3. g[n + 1] = IF n + 1 = 1 THEN more ELSE g[(n + 1) - 1] \o more
    <2>1. n + 1 \in 1..(n + 1)
      BY <1>1
    <2> QED
      BY <1>1, <1>2, <2>1, JoinsSteps
  <1>4. CASE n = 0
    <2>1. FlattenSeq(batches) = batches /\ batches = <<>>
      BY <1>4, FlattenNone DEF n
    <2> QED
      BY <1>2, <1>3, <1>4, <2>1 DEF longer
  <1>5. CASE n # 0
    <2>1. PICK f : Joins(f, batches, n) /\ FlattenSeq(batches) = f[n]
      BY <1>1, <1>5, FlattenIs DEF n
    <2>2. \A i \in 1..n : f[i] = g[i]
      BY <1>1, <1>2, <2>1, JoinsAgree
    <2>3. n \in 1..n /\ (n + 1) - 1 = n /\ n + 1 # 1
      BY <1>1, <1>5
    <2> QED
      BY <1>2, <1>3, <2>1, <2>2, <2>3 DEF longer
  <1> QED
    BY <1>4, <1>5

LEMMA FlattenHead ==
    ASSUME NEW S, NEW batches \in Seq(Seq(S)), batches # <<>>
    PROVE  FlattenSeq(batches) = Head(batches) \o FlattenSeq(Tail(batches))
  <1> DEFINE others == Tail(batches)
             n == Len(others)
  <1>1. /\ n \in Nat /\ n + 1 \in Nat \ {0} /\ Len(batches) = n + 1
        /\ Head(batches) = batches[1]
        /\ Sequences(batches, n + 1, S) /\ Sequences(others, n, S)
        /\ \A i \in 1..n : others[i] = batches[i + 1]
    BY DEF Sequences
  <1> HIDE DEF n, others
  <1>2. batches[1] \in Seq(S) /\ batches[1] \o <<>> = batches[1]
    BY <1>1 DEF Sequences
  <1>5. PICK f : Joins(f, batches, n + 1) /\ FlattenSeq(batches) = f[n + 1]
    BY <1>1, FlattenIs
  <1>3. CASE n = 0
    <2>1. FlattenSeq(others) = others /\ others = <<>>
      BY <1>1, <1>3, FlattenNone DEF n
    <2>2. 1 \in 1..(n + 1) /\ f[1] = batches[1]
      BY <1>1, <1>5, JoinsSteps
    <2>3. n + 1 = 1
      BY <1>3
    <2> QED
      BY <1>1, <1>2, <1>5, <2>1, <2>2, <2>3 DEF others
  <1>4. CASE n # 0
    <2>1. PICK g : Joins(g, others, n) /\ FlattenSeq(others) = g[n]
      BY <1>1, <1>4, FlattenIs DEF n
    <2>2. \A i \in 1..n : ShiftedAt(f, g, batches[1], i)
      BY <1>1, <1>5, <2>1, JoinsShift
    <2>3. n \in 1..n
      BY <1>1, <1>4
    <2> QED
      BY <1>1, <1>5, <2>1, <2>2, <2>3 DEF others, ShiftedAt
  <1> QED
    BY <1>3, <1>4

-----------------------------------------------------------------------------
\* The outbox: what it holds is not changed by a flush.

USE WatchLogAssumption

Outboxes == [queue : Seq(Events), timer : BOOLEAN, batches : Seq(Seq(Events))]

OutboxOK(o) == o \in Outboxes /\ Len(o.queue) < FlushAt /\ Nonempty(o.batches)

Content(o) == FlattenSeq(o.batches) \o o.queue

LEMMA ContentTyped ==
    ASSUME NEW o \in Outboxes
    PROVE  Content(o) \in Seq(Events) /\ FlattenSeq(o.batches) \in Seq(Events)
  <1>1. o.batches \in Seq(Seq(Events)) /\ o.queue \in Seq(Events)
    BY DEF Outboxes
  <1>2. FlattenSeq(o.batches) \in Seq(Events)
    BY <1>1, FlattenTyped
  <1> QED
    BY <1>1, <1>2 DEF Content

LEMMA Associative ==
    ASSUME NEW S, NEW r \in Seq(S), NEW s \in Seq(S), NEW t \in Seq(S)
    PROVE  (r \o s) \o t = r \o (s \o t)
  BY ConcatAssociative, SMTT(40)

LEMMA FlushFacts ==
    ASSUME NEW o \in Outboxes, Nonempty(o.batches)
    PROVE  OutboxOK(Flush(o)) /\ Content(Flush(o)) = Content(o)
  <1>1. o.batches \in Seq(Seq(Events)) /\ o.queue \in Seq(Events) /\ o.timer \in BOOLEAN
    BY DEF Outboxes
  <1>2. CASE o.queue = <<>>
    <2>1. Flush(o) = o /\ Len(o.queue) = 0 /\ 0 < FlushAt
      BY <1>2 DEF Flush
    <2> QED
      BY <2>1 DEF OutboxOK
  <1>3. CASE o.queue # <<>>
    <2> DEFINE more == Append(o.batches, o.queue)
    <2>1. /\ Flush(o) \in [queue : {<<>>}, timer : BOOLEAN, batches : {more}]
      BY <1>1, <1>3 DEF Flush, Outboxes
    <2>2. Flush(o).batches = more /\ Flush(o).queue = <<>> /\ Flush(o).timer \in BOOLEAN
      BY <2>1
    <2>3. more \in Seq(Seq(Events)) /\ Nonempty(more)
      <3>1. \A i \in DOMAIN more : \/ i \in DOMAIN o.batches /\ more[i] = o.batches[i]
                                  \/ more[i] = o.queue
        BY <1>1
      <3> QED
        BY <1>1, <1>3, <3>1 DEF Nonempty
    <2>4. FlattenSeq(more) = FlattenSeq(o.batches) \o o.queue
      BY <1>1, FlattenAppend
    <2>5. FlattenSeq(more) \in Seq(Events) /\ <<>> \in Seq(Events) /\ Len(<<>>) = 0 /\ 0 < FlushAt
      <3>1. FlattenSeq(more) \in Seq(Events)
        BY <2>3, FlattenTyped
      <3>2. <<>> \in Seq(Events) /\ Len(<<>>) = 0 /\ 0 < FlushAt
        OBVIOUS
      <3> QED
        BY <3>1, <3>2
    <2>6. FlattenSeq(more) \o <<>> = FlattenSeq(more)
      BY <2>5
    <2> HIDE DEF more
    <2>7. Flush(o) \in Outboxes
      BY <2>1, <2>3, <2>5 DEF Outboxes
    <2> QED
      BY <2>2, <2>3, <2>4, <2>5, <2>6, <2>7 DEF OutboxOK, Content
  <1> QED
    BY <1>2, <1>3

LEMMA QueueFacts ==
    ASSUME NEW o, OutboxOK(o), NEW e \in Events
    PROVE  OutboxOK(Queue(o, e)) /\ Content(Queue(o, e)) = Append(Content(o), e)
  <1> DEFINE longer == [o EXCEPT !.queue = Append(o.queue, e)]
  <1>1. /\ o.batches \in Seq(Seq(Events)) /\ o.queue \in Seq(Events)
        /\ o \in Outboxes /\ Nonempty(o.batches)
    BY DEF OutboxOK, Outboxes
  <1>2. /\ longer \in Outboxes /\ longer.batches = o.batches
        /\ longer.queue = Append(o.queue, e)
    <2>1. Append(o.queue, e) \in Seq(Events)
      BY <1>1
    <2> QED
      BY <1>1, <2>1 DEF Outboxes
  <1>3. Content(longer) = Append(Content(o), e)
    <2>1. FlattenSeq(o.batches) \in Seq(Events)
      BY <1>1, FlattenTyped
    <2>2. \A s, t \in Seq(Events) : s \o Append(t, e) = Append(s \o t, e)
      OBVIOUS
    <2> QED
      BY <1>1, <1>2, <2>1, <2>2 DEF Content
  <1> HIDE DEF longer
  <1>4. CASE Len(longer.queue) >= FlushAt
    <2>1. Queue(o, e) = Flush(longer)
      BY <1>4 DEF Queue, longer
    <2> QED
      BY <1>1, <1>2, <1>3, <2>1, FlushFacts
  <1>5. CASE ~(Len(longer.queue) >= FlushAt)
    <2>1. Queue(o, e) = [longer EXCEPT !.timer = TRUE]
      BY <1>5 DEF Queue, longer
    <2>2. /\ Queue(o, e) \in Outboxes
          /\ Queue(o, e).queue = longer.queue /\ Queue(o, e).batches = longer.batches
      BY <1>2, <2>1 DEF Outboxes
    <2>3. Len(longer.queue) \in Nat
      BY <1>2 DEF Outboxes
    <2>4. Len(longer.queue) < FlushAt
      BY <1>5, <2>3
    <2> QED
      BY <1>1, <1>2, <1>3, <2>2, <2>4 DEF OutboxOK, Content
  <1> QED
    BY <1>4, <1>5

\* Taking the first event out takes it from the front of what is held.
LEMMA FirstReplaced ==
    ASSUME NEW S, NEW q \in Seq(S), q # <<>>, NEW x \in S, NEW r, r = [q EXCEPT ![1] = x]
    PROVE  /\ r \in Seq(S) /\ Len(r) = Len(q) /\ r[1] = x
           /\ \A i \in 1..Len(q) : i # 1 => r[i] = q[i]
<1>1. PICK n \in Nat \ {0} : Len(q) = n /\ DOMAIN q = 1..n /\ q \in [1..n -> S]
  BY LenProperties
<1>2. r \in [1..n -> S] /\ r[1] = x /\ \A i \in 1..n : i # 1 => r[i] = q[i]
  BY <1>1
<1>3. r \in Seq(S) /\ Len(r) = n
  BY <1>2, LenProperties
<1> QED
  BY <1>1, <1>2, <1>3

LEMMA RestFacts ==
    ASSUME OutboxOK(outbox), outbox.batches # <<>>
    PROVE  /\ NextEvent \in Events /\ OutboxOK(WithoutNextEvent)
           /\ Content(outbox) = <<NextEvent>> \o Content(WithoutNextEvent)
  <1> DEFINE batches == outbox.batches
             first == Head(batches)
             others == Tail(batches)
             rest == Tail(first)
             fewer == IF rest = <<>> THEN others ELSE [batches EXCEPT ![1] = rest]
             queue == outbox.queue
  <1>1. /\ batches \in Seq(Seq(Events)) /\ queue \in Seq(Events) /\ batches # <<>>
        /\ outbox \in Outboxes /\ Nonempty(batches) /\ Len(queue) < FlushAt
    BY DEF OutboxOK, Outboxes
  <1>2. /\ WithoutNextEvent \in Outboxes /\ WithoutNextEvent.batches = fewer
        /\ WithoutNextEvent.queue = queue
    <2>1. fewer \in Seq(Seq(Events))
      BY <1>1
    <2>2. WithoutNextEvent = [outbox EXCEPT !.batches = fewer]
      BY DEF WithoutNextEvent
    <2> HIDE DEF fewer
    <2> QED
      BY <1>1, <2>1, <2>2 DEF Outboxes
  <1> HIDE DEF batches, queue
  <1>3. /\ first \in Seq(Events) /\ first # <<>> /\ others \in Seq(Seq(Events))
        /\ 1 \in DOMAIN batches /\ first = batches[1]
    BY <1>1 DEF Nonempty
  <1>4. FlattenSeq(batches) = first \o FlattenSeq(others)
    BY <1>1, FlattenHead
  <1>5. FlattenSeq(fewer) = rest \o FlattenSeq(others) /\ Nonempty(fewer)
    <2>1. FlattenSeq(others) \in Seq(Events)
      BY <1>3, FlattenTyped
    <2>2. CASE rest = <<>>
      <3>1. \A i \in DOMAIN others : i + 1 \in DOMAIN batches /\ others[i] = batches[i + 1]
        BY <1>1
      <3>2. fewer = others /\ Nonempty(others)
        BY <1>1, <2>2, <3>1 DEF Nonempty
      <3>3. FlattenSeq(others) = <<>> \o FlattenSeq(others)
        BY <2>1
      <3> QED
        BY <2>2, <3>2, <3>3
    <2>3. CASE rest # <<>>
      <3>1. /\ fewer \in Seq(Seq(Events)) /\ fewer # <<>>
            /\ Head(fewer) = rest /\ Tail(fewer) = others
        <4>1. fewer = [batches EXCEPT ![1] = rest] /\ rest \in Seq(Events)
          BY <1>3, <2>3
        <4> HIDE DEF fewer, first, rest, others
        <4>2. /\ fewer \in Seq(Seq(Events)) /\ Len(fewer) = Len(batches) /\ fewer[1] = rest
              /\ \A i \in 1..Len(batches) : i # 1 => fewer[i] = batches[i]
          BY <1>1, <4>1, FirstReplaced
        <4> USE DEF others
        <4>3. Tail(fewer) = others
          <5>1. /\ Tail(fewer) \in Seq(Seq(Events)) /\ others \in Seq(Seq(Events))
                /\ Len(Tail(fewer)) = Len(batches) - 1 /\ Len(others) = Len(batches) - 1
            BY <1>1, <4>2
          <5>2. ASSUME NEW i \in 1..(Len(batches) - 1) PROVE Tail(fewer)[i] = others[i]
            BY <1>1, <4>2
          <5> QED
            BY <5>1, <5>2, SeqEqual
        <4> QED
          BY <1>1, <1>3, <4>2, <4>3
      <3>2. FlattenSeq(fewer) = Head(fewer) \o FlattenSeq(Tail(fewer))
        <4> HIDE DEF fewer
        <4> QED
          BY <3>1, FlattenHead
      <3>3. Nonempty(fewer)
        <4>1. \A i \in DOMAIN batches : fewer[i] = rest \/ fewer[i] = batches[i]
          BY <1>1, <2>3
        <4>2. DOMAIN fewer = DOMAIN batches
          BY <2>3
        <4> QED
          BY <1>1, <2>3, <4>1, <4>2 DEF Nonempty
      <3> QED
        BY <3>1, <3>2, <3>3
    <2> QED
      BY <2>2, <2>3
  <1>6. first = <<Head(first)>> \o rest /\ Head(first) \in Events /\ rest \in Seq(Events)
    BY <1>3
  <1>7. NextEvent = Head(first)
    BY DEF NextEvent, batches
  <1>8. FlattenSeq(others) \in Seq(Events) /\ <<NextEvent>> \in Seq(Events)
    <2>1. FlattenSeq(others) \in Seq(Events)
      BY <1>3, FlattenTyped
    <2> QED
      BY <1>6, <1>7, <2>1
  <1> HIDE DEF first, others, rest, fewer
  <1>9. Content(outbox) = <<NextEvent>> \o ((rest \o FlattenSeq(others)) \o queue)
    <2>1. Content(outbox) = ((<<NextEvent>> \o rest) \o FlattenSeq(others)) \o queue
      BY <1>4, <1>6, <1>7 DEF Content, batches, queue
    <2>2. (<<NextEvent>> \o rest) \o FlattenSeq(others)
             = <<NextEvent>> \o (rest \o FlattenSeq(others))
      BY <1>6, <1>8, Associative
    <2>3. rest \o FlattenSeq(others) \in Seq(Events)
      BY <1>6, <1>8
    <2>4. (<<NextEvent>> \o (rest \o FlattenSeq(others))) \o queue
             = <<NextEvent>> \o ((rest \o FlattenSeq(others)) \o queue)
      <3>1. \A r, s, t \in Seq(Events) : (r \o s) \o t = r \o (s \o t)
        BY Associative, SMTT(40)
      <3> QED
        BY ONLY <1>1, <1>8, <2>3, <3>1, ZenonT(60)
    <2> QED
      BY <2>1, <2>2, <2>4
  <1>10. Content(WithoutNextEvent) = (rest \o FlattenSeq(others)) \o queue
    BY <1>2, <1>5 DEF Content
  <1> QED
    BY <1>1, <1>2, <1>5, <1>6, <1>7, <1>9, <1>10 DEF OutboxOK

-----------------------------------------------------------------------------
\* The log, when an event is added to it.

Announced(log) ==
    \A i \in DOMAIN log : log[i].type = "watch" =>
        \E j \in 1..(i - 1) : log[j] = Impression(log[i].video)

Reported(log, most) == \A v \in Videos : TicksOf(log, v) <= most[v]

InOrder(table, o, log) == table \o Content(o) = log

LEMMA InOrderIs ==
    ASSUME NEW table \in Seq(Events), NEW o \in Outboxes, NEW log
    PROVE  table \o FlattenSeq(o.batches) \o o.queue = log <=> InOrder(table, o, log)
  <1>1. o.batches \in Seq(Seq(Events)) /\ o.queue \in Seq(Events)
    BY DEF Outboxes
  <1>2. FlattenSeq(o.batches) \in Seq(Events)
    BY <1>1, FlattenTyped
  <1>3. (table \o FlattenSeq(o.batches)) \o o.queue = table \o (FlattenSeq(o.batches) \o o.queue)
    <2>1. \A r, s, t \in Seq(Events) : (r \o s) \o t = r \o (s \o t)
      BY Associative, SMTT(40)
    <2>2. table \in Seq(Events)
      OBVIOUS
    <2> QED
      BY ONLY <1>1, <1>2, <2>1, <2>2, ZenonT(60)
  <1> QED
    BY <1>3 DEF InOrder, Content

LEMMA EventFields ==
    ASSUME NEW e \in Events
    PROVE  /\ e.video \in Videos /\ e.watch_ms \in Nat
           /\ e.type = "impression" => e.watch_ms = 0
           /\ e.type \in {"impression", "watch"}
  BY DEF Events, Impression, Watch

LEMMA TicksTyped ==
    ASSUME NEW log \in Seq(Events), NEW v
    PROVE  TicksOf(log, v) \in Nat
  <1>1. PICK f : Counts(f, log, v, Len(log)) /\ TicksOf(log, v) = f[Len(log)]
    BY TicksOfIs
  <1> DEFINE T == {n \in 0..Len(log) : f[n] \notin Nat}
  <1>2. T = {}
    <2> SUFFICES ASSUME T # {} PROVE FALSE
      OBVIOUS
    <2>1. PICK n \in T : \A k \in T : n <= k
      <3>1. T \subseteq Nat
        OBVIOUS
      <3> HIDE DEF T
      <3> QED
        BY <3>1, LeastNumber
    <2>2. f[0] = 0 /\ \A k \in 1..Len(log) : f[k] = f[k - 1] + Ticks(log[k], v)
      BY <1>1, CountsSteps
    <2>3. n \in 1..Len(log) /\ n - 1 \in 0..Len(log) /\ n - 1 \notin T
      BY <2>1, <2>2
    <2>4. log[n] \in Events
      BY <2>3
    <2>5. Ticks(log[n], v) \in Nat
      BY <2>4, EventFields DEF Ticks
    <2>6. f[n] = f[n - 1] + Ticks(log[n], v) /\ f[n - 1] \in Nat
      BY <2>2, <2>3
    <2> QED
      BY <2>1, <2>5, <2>6
  <1>3. Len(log) \in 0..Len(log)
    OBVIOUS
  <1> QED
    BY <1>1, <1>2, <1>3

LEMMA AnnouncedAppend ==
    ASSUME NEW log \in Seq(Events), NEW e \in Events, Announced(log),
           e.type = "watch" => \E j \in DOMAIN log : log[j] = Impression(e.video)
    PROVE  Announced(Append(log, e))
  <1> DEFINE longer == Append(log, e)
  <1>1. /\ Len(log) \in Nat /\ DOMAIN log = 1..Len(log)
        /\ DOMAIN longer = 1..(Len(log) + 1) /\ longer[Len(log) + 1] = e
        /\ \A i \in 1..Len(log) : longer[i] = log[i]
    OBVIOUS
  <1> SUFFICES ASSUME NEW i \in DOMAIN longer, longer[i].type = "watch"
               PROVE  \E j \in 1..(i - 1) : longer[j] = Impression(longer[i].video)
    BY DEF Announced
  <1> HIDE DEF longer
  <1>2. CASE i \in 1..Len(log)
    <2>1. PICK j \in 1..(i - 1) : log[j] = Impression(log[i].video)
      BY <1>1, <1>2 DEF Announced
    <2>2. j \in 1..Len(log)
      BY <1>1, <1>2
    <2> QED
      BY <1>1, <1>2, <2>1, <2>2
  <1>3. CASE i = Len(log) + 1
    <2>1. PICK j \in DOMAIN log : log[j] = Impression(e.video)
      BY <1>1, <1>3
    <2>2. j \in 1..(i - 1) /\ longer[j] = log[j]
      BY <1>1, <1>3, <2>1
    <2> QED
      BY <1>1, <1>3, <2>1, <2>2
  <1> QED
    BY <1>1, <1>2, <1>3

\* A watch may add what was played of its video since.
LEMMA ReportedAppend ==
    ASSUME NEW log \in Seq(Events), NEW e \in Events, Reported(log, finished),
           NEW most, \A v \in Videos : most[v] \in Nat /\ finished[v] \in Nat,
           \A v \in Videos : finished[v] + Ticks(e, v) <= most[v]
    PROVE  Reported(Append(log, e), most)
  <1> SUFFICES ASSUME NEW v \in Videos PROVE TicksOf(Append(log, e), v) <= most[v]
    BY DEF Reported
  <1>1. TicksOf(Append(log, e), v) = TicksOf(log, v) + Ticks(e, v)
    BY TicksOfAppend
  <1>2. TicksOf(log, v) \in Nat /\ Ticks(e, v) \in Nat
    BY TicksTyped, EventFields DEF Ticks
  <1>3. TicksOf(log, v) <= finished[v] /\ finished[v] \in Nat /\ most[v] \in Nat
    BY DEF Reported
  <1>4. finished[v] + Ticks(e, v) <= most[v]
    OBVIOUS
  <1> HIDE DEF Ticks
  <1> QED
    BY <1>1, <1>2, <1>3, <1>4

-----------------------------------------------------------------------------
\* The end of a watch (finalizeActiveWatch), whatever its caller does next.

LEMMA TypedParts ==
    ASSUME IInv
    PROVE  /\ active \in Videos
           /\ OutboxOK(outbox) /\ interactions \in Seq(Events) /\ happened \in Seq(Events)
           /\ finished \in [Videos -> Nat] /\ sinceStart \in Nat
           /\ currentTime \in [Videos -> 0..(Duration - 1)]
           /\ \A v \in Videos : currentTime[v] \in 0..(Duration - 1)
           /\ activeWatch # NoWatch => activeWatch.startSeconds \in Nat
           /\ Reported(happened, finished) /\ Announced(happened)
           /\ lossless => InOrder(interactions, outbox, happened)
  <1>1. OutboxOK(outbox) /\ outbox \in Outboxes
    BY DEF IInv, TypeOK, OutboxOK, Outboxes
  <1>2. interactions \in Seq(Events) /\ happened \in Seq(Events)
    BY DEF IInv, TypeOK
  <1>3. lossless => InOrder(interactions, outbox, happened)
    BY <1>1, <1>2, InOrderIs DEF IInv, OnceInOrder
  <1>4. /\ active \in Videos /\ finished \in [Videos -> Nat] /\ sinceStart \in Nat
        /\ currentTime \in [Videos -> 0..(Duration - 1)]
        /\ activeWatch # NoWatch => activeWatch.startSeconds \in Nat
    BY DEF IInv, TypeOK
  <1>5. Reported(happened, finished) /\ Announced(happened)
    BY DEF IInv, NeverOverReported, WatchAfterImpression, Reported, Announced
  <1> QED
    BY <1>1, <1>2, <1>3, <1>4, <1>5

LEMMA Finalized ==
    ASSUME IInv, NEW next, FinalizeActiveWatch(next)
    PROVE  LET log == happened \o Measured
           IN  /\ log \in Seq(Events)
               /\ finished' \in [Videos -> Nat] /\ sinceStart' = 0
               /\ Reported(log, finished') /\ Announced(log)
               /\ \A j \in DOMAIN happened : j \in DOMAIN log /\ log[j] = happened[j]
               /\ OutboxOK(QueueMeasured)
               /\ lossless => InOrder(interactions, QueueMeasured, log)
  <1> DEFINE log == happened \o Measured
  <1>1. /\ OutboxOK(outbox) /\ interactions \in Seq(Events) /\ happened \in Seq(Events)
        /\ finished \in [Videos -> Nat] /\ sinceStart \in Nat
        /\ Reported(happened, finished) /\ Announced(happened)
        /\ lossless => InOrder(interactions, outbox, happened)
    BY TypedParts
  <1>2. /\ finished' \in [Videos -> Nat] /\ sinceStart' = 0
        /\ \A v \in Videos : /\ finished[v] \in Nat /\ finished'[v] \in Nat
                             /\ finished[v] <= finished'[v]
                             /\ activeWatch # NoWatch /\ v = active =>
                                    finished'[v] = finished[v] + sinceStart
    <2>1. CASE activeWatch = NoWatch
      BY <1>1, <2>1 DEF FinalizeActiveWatch
    <2>2. CASE activeWatch # NoWatch
      <3>1. activeWatch.videoId = active /\ active \in Videos
        BY <2>2, TypedParts DEF IInv, Watched
      <3>2. /\ finished' = [finished EXCEPT ![active] = finished[active] + sinceStart]
            /\ sinceStart' = 0
        BY <2>2, <3>1 DEF FinalizeActiveWatch
      <3> QED
        BY <1>1, <2>2, <3>1, <3>2
    <2> QED
      BY <2>1, <2>2
  <1>3. CASE Measured = <<>>
    <2>1. log = happened /\ QueueMeasured = outbox
      BY <1>1, <1>3 DEF QueueMeasured
    <2>2. Reported(happened, finished')
      <3> SUFFICES ASSUME NEW v \in Videos PROVE TicksOf(happened, v) <= finished'[v]
        BY DEF Reported
      <3>1. TicksOf(happened, v) \in Nat /\ TicksOf(happened, v) <= finished[v]
        BY <1>1, TicksTyped DEF Reported
      <3> QED
        BY <1>2, <3>1
    <2> QED
      BY <1>1, <1>2, <2>1, <2>2
  <1>4. CASE Measured # <<>>
    <2> DEFINE ticks == currentTime[active] - activeWatch.startSeconds
               e == Watch(active, ticks)
    <2>1. /\ activeWatch # NoWatch /\ activeWatch.videoId = active /\ active \in Videos
          /\ currentTime[active] > activeWatch.startSeconds
      BY <1>4, TypedParts DEF Measured, IInv, Watched
    <2>2. Measured = <<e>>
      BY <2>1 DEF Measured
    <2>3. ticks \in 1..(Duration - 1) /\ ticks <= sinceStart
      <3>1. currentTime[active] \in 0..(Duration - 1) /\ activeWatch.startSeconds \in Nat
        BY <2>1, TypedParts
      <3>2. currentTime[active] <= activeWatch.startSeconds + sinceStart
        BY <2>1 DEF IInv, Watched
      <3> QED
        BY <1>1, <2>1, <3>1, <3>2, SMTT(30)
    <2>4. e \in Events
      BY <2>1, <2>3 DEF Events
    <2>5. e.video = active /\ e.watch_ms = ticks /\ e.type = "watch"
      BY DEF Watch
    <2> HIDE DEF e, ticks
    <2>6. log = Append(happened, e) /\ QueueMeasured = Queue(outbox, e)
      <3>1. Measured[1] = e /\ happened \o <<e>> = Append(happened, e)
        BY <1>1, <2>2, <2>4
      <3> QED
        BY <1>4, <2>2, <3>1 DEF QueueMeasured
    <2>7. Reported(Append(happened, e), finished')
      <3>1. ASSUME NEW v \in Videos PROVE finished[v] + Ticks(e, v) <= finished'[v]
        <4>1. CASE v = active
          BY <1>1, <1>2, <2>1, <2>3, <2>5, <4>1 DEF Ticks
        <4>2. CASE v # active
          BY <1>2, <2>5, <4>2 DEF Ticks
        <4> QED
          BY <4>1, <4>2
      <3> QED
        BY <1>1, <1>2, <2>4, <3>1, ReportedAppend
    <2>8. Announced(Append(happened, e))
      <3>1. \E j \in DOMAIN happened : happened[j] = Impression(active)
        BY <2>1 DEF IInv, Watched
      <3> QED
        BY <1>1, <2>4, <2>5, <3>1, AnnouncedAppend
    <2>9. /\ OutboxOK(Queue(outbox, e))
          /\ Content(Queue(outbox, e)) = Append(Content(outbox), e)
      BY <1>1, <2>4, QueueFacts
    <2>10. lossless => InOrder(interactions, Queue(outbox, e), Append(happened, e))
      <3>1. Content(outbox) \in Seq(Events)
        BY <1>1, ContentTyped DEF OutboxOK
      <3>2. interactions \o Append(Content(outbox), e) = Append(interactions \o Content(outbox), e)
        BY <1>1, <2>4, <3>1
      <3> QED
        BY <1>1, <2>9, <3>2 DEF InOrder
    <2>11. /\ Append(happened, e) \in Seq(Events)
           /\ \A j \in DOMAIN happened : /\ j \in DOMAIN Append(happened, e)
                                         /\ Append(happened, e)[j] = happened[j]
      BY <1>1, <2>4
    <2> HIDE DEF log
    <2> QED
      BY <1>2, <2>6, <2>7, <2>8, <2>9, <2>10, <2>11 DEF log
  <1> QED
    BY <1>3, <1>4

-----------------------------------------------------------------------------
\* The steps.

\* What the parts of the invariant are, in the next state.
LEMMA PartsTyped ==
    ASSUME active' \in Videos, {playing, userPaused, left, lossless}' \subseteq BOOLEAN,
           currentTime' \in [Videos -> 0..(Duration - 1)],
           activeWatch' \in {NoWatch} \cup [videoId : Videos, startSeconds : 0..(Duration - 1)],
           OutboxOK(outbox'), interactions' \in Seq(Events), happened' \in Seq(Events),
           finished' \in [Videos -> Nat], sinceStart' \in 0..MaxWatch,
           lossless' => InOrder(interactions', outbox', happened'),
           Reported(happened', finished'), Announced(happened'), Watched'
    PROVE  IInv'
  <1>1. outbox' \in Outboxes
    BY DEF OutboxOK
  <1>2. TypeOK'
    BY DEF TypeOK, OutboxOK, Outboxes
  <1>3. OnceInOrder'
    BY <1>1, InOrderIs DEF OnceInOrder
  <1>4. NeverOverReported' /\ WatchAfterImpression'
    BY DEF NeverOverReported, Reported, WatchAfterImpression, Announced
  <1>5. Nonempty(outbox.batches)'
    BY DEF OutboxOK
  <1> QED
    BY <1>2, <1>3, <1>4, <1>5 DEF IInv

LEMMA InitOK == Init => IInv
  <1> SUFFICES ASSUME Init PROVE IInv
    OBVIOUS
  <1>1. TypeOK
    <2>1. <<>> \in Seq(Events) /\ <<>> \in Seq(Seq(Events)) /\ Len(<<>>) = 0
      OBVIOUS
    <2>2. outbox \in Outboxes /\ Len(outbox.queue) < FlushAt
      BY <2>1 DEF Init, Outboxes
    <2>3. /\ currentTime \in [Videos -> 0..(Duration - 1)] /\ finished \in [Videos -> Nat]
          /\ active \in Videos /\ sinceStart \in 0..MaxWatch
          /\ {playing, userPaused, left, lossless} \subseteq BOOLEAN
      <3>1. 0 \in 0..(Duration - 1) /\ 0 \in Nat /\ 0 \in 0..MaxWatch
        OBVIOUS
      <3>2. currentTime \in [Videos -> 0..(Duration - 1)] /\ finished \in [Videos -> Nat]
        BY <3>1 DEF Init
      <3>3. active \in Videos /\ sinceStart \in 0..MaxWatch
        BY <3>1 DEF Init
      <3>4. {playing, userPaused, left, lossless} \subseteq BOOLEAN
        BY DEF Init
      <3> QED
        BY <3>2, <3>3, <3>4
    <2>4. activeWatch = NoWatch /\ interactions = <<>> /\ happened = <<>>
      BY DEF Init
    <2> QED
      BY <2>1, <2>2, <2>3, <2>4 DEF TypeOK, Outboxes
  <1>2. Nonempty(outbox.batches) /\ Watched /\ WatchAfterImpression
    BY DEF Init, Nonempty, Watched, WatchAfterImpression
  <1>3. OnceInOrder
    <2>1. FlattenSeq(<<>>) = <<>>
      BY FlattenNone
    <2> QED
      BY <2>1 DEF Init, OnceInOrder
  <1>4. NeverOverReported
    BY TicksOfNone DEF Init, NeverOverReported
  <1> QED
    BY <1>1, <1>2, <1>3, <1>4 DEF IInv

LEMMA SetActiveVideoOK ==
    ASSUME IInv, NEW v \in Videos, SetActiveVideo(v)
    PROVE  IInv'
  <1> DEFINE next == [videoId |-> v, startSeconds |-> currentTime[v]]
             log == happened \o Measured
             e == Impression(v)
  <1>1. /\ FinalizeActiveWatch(next)
        /\ outbox' = Queue(QueueMeasured, e) /\ happened' = happened \o Append(Measured, e)
        /\ active' = v /\ userPaused' = FALSE /\ playing' = TRUE
        /\ UNCHANGED <<currentTime, left, interactions, lossless>>
    BY DEF SetActiveVideo, serverVars
  <1>2. activeWatch' = next
    BY <1>1 DEF FinalizeActiveWatch
  <1>3. /\ log \in Seq(Events)
        /\ finished' \in [Videos -> Nat] /\ sinceStart' = 0
        /\ Reported(log, finished') /\ Announced(log)
        /\ OutboxOK(QueueMeasured)
        /\ lossless => InOrder(interactions, QueueMeasured, log)
    BY <1>1, Finalized
  <1>4. e \in Events /\ e.type = "impression" /\ e.watch_ms = 0
    BY DEF Events, Impression
  <1>5. happened' = Append(log, e)
    <2>1. happened \in Seq(Events)
      BY TypedParts
    <2>2. Measured = <<>> \/ \E m : Measured = <<m>>
      BY DEF Measured
    <2> QED
      BY <1>1, <1>4, <2>1, <2>2
  <1>6. /\ currentTime \in [Videos -> 0..(Duration - 1)] /\ currentTime[v] \in 0..(Duration - 1)
        /\ interactions \in Seq(Events) /\ {left, lossless} \subseteq BOOLEAN
    BY TypedParts DEF IInv, TypeOK
  <1> HIDE DEF e, log
  <1>7. OutboxOK(outbox') /\ Content(outbox') = Append(Content(QueueMeasured), e)
    BY <1>1, <1>3, <1>4, QueueFacts
  <1>8. lossless' => InOrder(interactions', outbox', happened')
    <2>1. Content(QueueMeasured) \in Seq(Events)
      BY <1>3, ContentTyped DEF OutboxOK
    <2>2. interactions \o Append(Content(QueueMeasured), e)
             = Append(interactions \o Content(QueueMeasured), e)
      BY <1>4, <1>6, <2>1
    <2> QED
      BY <1>1, <1>3, <1>5, <1>7, <2>2 DEF InOrder
  <1>9. Reported(happened', finished')
    <2> SUFFICES ASSUME NEW w \in Videos PROVE TicksOf(happened', w) <= finished'[w]
      BY DEF Reported
    <2>1. TicksOf(happened', w) = TicksOf(log, w) + Ticks(e, w)
      BY <1>3, <1>4, <1>5, TicksOfAppend
    <2>2. Ticks(e, w) = 0 /\ TicksOf(log, w) \in Nat
      BY <1>3, <1>4, TicksTyped DEF Ticks
    <2>3. TicksOf(log, w) <= finished'[w]
      BY <1>3 DEF Reported
    <2> QED
      BY <2>1, <2>2, <2>3
  <1>10. Announced(happened') /\ happened' \in Seq(Events)
    BY <1>3, <1>4, <1>5, AnnouncedAppend
  <1>11. Watched'
    <2>1. activeWatch'.videoId = v /\ activeWatch'.startSeconds = currentTime[v]
      BY <1>2
    <2>2. currentTime[v] <= currentTime[v] + 0
      BY <1>6
    <2>3. \E j \in DOMAIN happened' : happened'[j] = Impression(v)
      <3>1. Len(log) + 1 \in DOMAIN happened' /\ happened'[Len(log) + 1] = e
        BY <1>3, <1>4, <1>5
      <3> QED
        BY <3>1 DEF e
    <2> QED
      BY <1>1, <1>3, <2>1, <2>2, <2>3 DEF Watched
  <1>12. sinceStart' \in 0..MaxWatch
    BY <1>3
  <1> QED
    BY <1>1, <1>2, <1>3, <1>6, <1>7, <1>8, <1>9, <1>10, <1>11, <1>12, PartsTyped

\* The watch ends and the queue is flushed.
LEMMA FlushedOK ==
    ASSUME IInv, FinalizeActiveWatch(NoWatch), outbox' = Flush(QueueMeasured),
           happened' = happened \o Measured,
           {playing, left}' \subseteq BOOLEAN,
           UNCHANGED <<active, userPaused, currentTime, interactions, lossless>>
    PROVE  IInv'
  <1>1. /\ happened' \in Seq(Events)
        /\ finished' \in [Videos -> Nat] /\ sinceStart' = 0
        /\ Reported(happened', finished') /\ Announced(happened')
        /\ OutboxOK(QueueMeasured)
        /\ lossless => InOrder(interactions, QueueMeasured, happened')
    BY Finalized
  <1>2. OutboxOK(outbox') /\ Content(outbox') = Content(QueueMeasured)
    BY <1>1, FlushFacts DEF OutboxOK
  <1>3. lossless' => InOrder(interactions', outbox', happened')
    BY <1>1, <1>2 DEF InOrder
  <1>4. activeWatch' = NoWatch /\ Watched'
    BY DEF FinalizeActiveWatch, Watched
  <1>5. sinceStart' \in 0..MaxWatch
    BY <1>1
  <1>6. /\ active' \in Videos /\ currentTime' \in [Videos -> 0..(Duration - 1)]
        /\ interactions' \in Seq(Events) /\ {userPaused, lossless}' \subseteq BOOLEAN
    BY DEF IInv, TypeOK
  <1> QED
    BY <1>1, <1>2, <1>3, <1>4, <1>5, <1>6, PartsTyped

LEMMA FlushTimeoutOK == ASSUME IInv, FlushTimeout PROVE IInv'
  <1> DEFINE o == [outbox EXCEPT !.timer = FALSE]
  <1>1. /\ outbox' = Flush(o)
        /\ UNCHANGED <<active, playing, userPaused, currentTime, activeWatch, finished,
                       sinceStart, happened, left, interactions, lossless>>
    BY DEF FlushTimeout, playerVars, watchVars, serverVars
  <1>2. OutboxOK(outbox) /\ (lossless => InOrder(interactions, outbox, happened))
    BY TypedParts
  <1>3. o \in Outboxes /\ o.batches = outbox.batches /\ o.queue = outbox.queue
    BY <1>2 DEF OutboxOK, Outboxes
  <1> HIDE DEF o
  <1>4. Nonempty(o.batches) /\ Content(o) = Content(outbox)
    BY <1>2, <1>3 DEF OutboxOK, Content
  <1>5. OutboxOK(outbox') /\ Content(outbox') = Content(outbox)
    BY <1>1, <1>3, <1>4, FlushFacts
  <1>6. lossless' => InOrder(interactions', outbox', happened')
    BY <1>1, <1>2, <1>5 DEF InOrder
  <1>7. Watched'
    BY <1>1 DEF IInv, Watched
  <1>8. Reported(happened', finished') /\ Announced(happened')
    BY <1>1, TypedParts
  <1> QED
    BY <1>1, <1>5, <1>6, <1>7, <1>8, PartsTyped DEF IInv, TypeOK

LEMMA PlayOK == ASSUME IInv, Play PROVE IInv'
  <1>1. /\ sinceStart < MaxWatch
        /\ currentTime' = [currentTime EXCEPT ![active] = (currentTime[active] + 1) % Duration]
        /\ sinceStart' = (IF activeWatch = NoWatch THEN 0 ELSE sinceStart + 1)
        /\ UNCHANGED <<active, playing, userPaused, activeWatch, finished, outbox,
                       happened, left, interactions, lossless>>
    BY DEF Play, serverVars
  <1>2. /\ active \in Videos /\ currentTime \in [Videos -> 0..(Duration - 1)]
        /\ currentTime[active] \in 0..(Duration - 1) /\ sinceStart \in Nat
        /\ OutboxOK(outbox) /\ (lossless => InOrder(interactions, outbox, happened))
        /\ Reported(happened, finished) /\ Announced(happened)
        /\ activeWatch # NoWatch => activeWatch.startSeconds \in Nat
    BY TypedParts
  <1>3. /\ (currentTime[active] + 1) % Duration \in 0..(Duration - 1)
        /\ (currentTime[active] + 1) % Duration <= currentTime[active] + 1
    BY <1>2
  <1>4. /\ currentTime' \in [Videos -> 0..(Duration - 1)]
        /\ currentTime'[active] \in 0..(Duration - 1)
        /\ currentTime'[active] <= currentTime[active] + 1
    BY <1>1, <1>2, <1>3
  <1>5. sinceStart' \in 0..MaxWatch
    BY <1>1, <1>2
  <1>6. Watched'
    <2> SUFFICES ASSUME activeWatch # NoWatch
                 PROVE  /\ activeWatch.videoId = active
                        /\ currentTime'[active] <= activeWatch.startSeconds + sinceStart'
                        /\ \E j \in DOMAIN happened : happened[j] = Impression(active)
      BY <1>1 DEF Watched
    <2>1. /\ activeWatch.videoId = active
          /\ currentTime[active] <= activeWatch.startSeconds + sinceStart
          /\ \E j \in DOMAIN happened : happened[j] = Impression(active)
      BY DEF IInv, Watched
    <2>2. PICK start \in Nat, now \in Nat :
              activeWatch.startSeconds = start /\ currentTime[active] = now
      BY <1>2
    <2>3. PICK later \in Nat : currentTime'[active] = later
      BY <1>4
    <2>4. later <= now + 1 /\ now <= start + sinceStart /\ sinceStart' = sinceStart + 1
      BY <1>1, <1>4, <2>1, <2>2, <2>3
    <2>5. later <= start + sinceStart'
      BY <1>2, <2>4
    <2> QED
      BY <2>1, <2>2, <2>3, <2>5
  <1>7. /\ lossless' => InOrder(interactions', outbox', happened')
        /\ Reported(happened', finished') /\ Announced(happened')
    BY <1>1, <1>2
  <1> QED
    BY <1>1, <1>2, <1>4, <1>5, <1>6, <1>7, PartsTyped DEF IInv, TypeOK

\* The steps of the server and the socket leave the page alone.
LEMMA ServedOK ==
    ASSUME IInv, OutboxOK(outbox'), interactions' \in Seq(Events), lossless' \in BOOLEAN,
           lossless' => InOrder(interactions', outbox', happened),
           UNCHANGED <<playerVars, watchVars, happened, left>>
    PROVE  IInv'
  <1>1. UNCHANGED <<active, playing, userPaused, currentTime, activeWatch, finished,
                    sinceStart, happened, left>>
    BY DEF playerVars, watchVars
  <1>2. Watched'
    BY <1>1 DEF IInv, Watched
  <1>3. Reported(happened', finished') /\ Announced(happened')
    BY <1>1, TypedParts
  <1> QED
    BY <1>1, <1>2, <1>3, PartsTyped DEF IInv, TypeOK

LEMMA InsertOK == ASSUME IInv, Insert PROVE IInv'
  <1>1. /\ interactions' = Append(interactions, NextEvent) /\ outbox' = WithoutNextEvent
        /\ outbox.batches # <<>> /\ UNCHANGED <<playerVars, watchVars, happened, left, lossless>>
    BY DEF Insert
  <1>2. /\ OutboxOK(outbox) /\ (lossless => InOrder(interactions, outbox, happened))
        /\ interactions \in Seq(Events) /\ lossless \in BOOLEAN
    BY TypedParts DEF IInv, TypeOK
  <1>3. /\ NextEvent \in Events /\ OutboxOK(WithoutNextEvent)
        /\ Content(outbox) = <<NextEvent>> \o Content(WithoutNextEvent)
    BY <1>1, <1>2, RestFacts
  <1>4. interactions \o Content(outbox) = interactions' \o Content(outbox')
    <2>1. Content(outbox') \in Seq(Events) /\ <<NextEvent>> \in Seq(Events)
      BY <1>1, <1>3, ContentTyped DEF OutboxOK
    <2>2. (interactions \o <<NextEvent>>) \o Content(outbox')
             = interactions \o (<<NextEvent>> \o Content(outbox'))
      <3>1. \A r, s, t \in Seq(Events) : (r \o s) \o t = r \o (s \o t)
        BY Associative, SMTT(40)
      <3> QED
        BY ONLY <1>2, <2>1, <3>1, ZenonT(60)
    <2>3. interactions \o <<NextEvent>> = Append(interactions, NextEvent)
      BY <1>2, <1>3
    <2> QED
      BY <1>1, <1>3, <2>2, <2>3
  <1>5. lossless' => InOrder(interactions', outbox', happened)
    BY <1>1, <1>2, <1>4 DEF InOrder
  <1>6. interactions' \in Seq(Events) /\ lossless' \in BOOLEAN /\ OutboxOK(outbox')
    BY <1>1, <1>2, <1>3
  <1> QED
    BY <1>1, <1>5, <1>6, ServedOK

LEMMA InsertFailsOK == ASSUME IInv, InsertFails PROVE IInv'
  <1>1. OutboxOK(outbox') /\ lossless' = FALSE /\ interactions' \in Seq(Events)
    BY TypedParts, RestFacts DEF InsertFails
  <1> QED
    BY <1>1, ServedOK DEF InsertFails

LEMMA DropOK == ASSUME IInv, Drop PROVE IInv'
  <1>1. OutboxOK(outbox) /\ interactions \in Seq(Events)
    BY TypedParts
  <1>2. OutboxOK([outbox EXCEPT !.batches = <<>>])
    <2> DEFINE o == [outbox EXCEPT !.batches = <<>>]
    <2>1. <<>> \in Seq(Seq(Events)) /\ outbox \in Outboxes
      BY <1>1 DEF OutboxOK
    <2>2. o \in Outboxes /\ o.batches = <<>> /\ o.queue = outbox.queue
      BY <2>1 DEF Outboxes
    <2> HIDE DEF o
    <2>3. Nonempty(o.batches)
      BY <2>2 DEF Nonempty
    <2>4. OutboxOK(o)
      BY <1>1, <2>2, <2>3 DEF OutboxOK
    <2> QED
      BY <2>4 DEF o
  <1>3. OutboxOK(outbox') /\ lossless' = FALSE /\ interactions' \in Seq(Events)
    BY <1>1, <1>2 DEF Drop
  <1> QED
    BY <1>3, ServedOK DEF Drop

\* The rest of the hook does not touch the log.
LEMMA PlayerOK ==
    ASSUME IInv, {playing, userPaused}' \subseteq BOOLEAN,
           UNCHANGED <<active, currentTime, watchVars, outbox, happened, left, serverVars>>
    PROVE  IInv'
  <1>1. UNCHANGED <<active, currentTime, activeWatch, finished, sinceStart, outbox, happened,
                    left, interactions, lossless>>
    BY DEF watchVars, serverVars
  <1>2. Watched'
    BY <1>1 DEF IInv, Watched
  <1>3. /\ Reported(happened', finished') /\ Announced(happened') /\ OutboxOK(outbox')
        /\ lossless' => InOrder(interactions', outbox', happened')
    BY <1>1, TypedParts
  <1> QED
    BY <1>1, <1>2, <1>3, PartsTyped DEF IInv, TypeOK

LEMMA NextOK == ASSUME IInv, [Next]_vars PROVE IInv'
  <1>0. {playing, userPaused, left, lossless} \subseteq BOOLEAN
    BY DEF IInv, TypeOK
  <1>1. CASE \E v \in Videos : SetActiveVideo(v)
    BY <1>1, SetActiveVideoOK
  <1>2. CASE KeepActiveVideo
    BY <1>0, <1>2, PlayerOK DEF KeepActiveVideo
  <1>3. CASE PlayToggle
    BY <1>0, <1>3, PlayerOK DEF PlayToggle
  <1>4. CASE HideTab
    BY <1>0, <1>4, FlushedOK DEF HideTab, playerVars, serverVars
  <1>5. CASE Destroyed
    BY <1>0, <1>5, FlushedOK DEF Destroyed, serverVars
  <1>6. CASE FlushTimeout
    BY <1>6, FlushTimeoutOK
  <1>7. CASE Play
    BY <1>7, PlayOK
  <1>8. CASE Insert
    BY <1>8, InsertOK
  <1>9. CASE InsertFails
    BY <1>9, InsertFailsOK
  <1>10. CASE Drop
    BY <1>10, DropOK
  <1>11. CASE UNCHANGED vars
    <2>1. UNCHANGED <<active, playing, userPaused, currentTime, activeWatch, finished,
                      sinceStart, outbox, happened, left, interactions, lossless>>
      BY <1>11 DEF vars, playerVars, watchVars, serverVars
    <2> QED
      BY <1>0, <2>1, PlayerOK DEF watchVars, serverVars
  <1> QED
    BY <1>1, <1>2, <1>3, <1>4, <1>5, <1>6, <1>7, <1>8, <1>9, <1>10, <1>11 DEF Next

-----------------------------------------------------------------------------
\* The results.

\* Everything the hook and the server do keeps the invariant (app.js and
\* FeedLive's interaction-batch).
THEOREM WatchInvariance == Spec => []IInv
  <1>1. IInv /\ [Next]_vars => IInv'
    BY NextOK
  <1> QED
    BY InitOK, <1>1, PTL DEF Spec

\* The log of a page is well formed, and as long as nothing is lost on the way the
\* table, the batches under way and the queue hold each event once and in order,
\* whatever the number of videos, their duration and the limit of the queue.
THEOREM LoggedAlways == Spec => []Logged
  <1>1. IInv => Logged
    BY DEF IInv, Logged
  <1> QED
    BY <1>1, WatchInvariance, PTL

\* No watch time is reported that was not watched, and none of a video that was
\* never made active (finalizeActiveWatch, setActiveVideo).
THEOREM NothingInventedAlways == Spec => []NothingInvented
  <1>1. IInv => NothingInvented
    BY DEF IInv, NothingInvented
  <1> QED
    BY <1>1, WatchInvariance, PTL

-----------------------------------------------------------------------------
\* Lists and their beginnings.

\* list holds no more than all of whole's first n, in the same order.
Begins(list, whole) ==
    Len(list) <= Len(whole) /\ \A i \in 1..Len(list) : list[i] = whole[i]

LEMMA MinOfTwo ==
    ASSUME NEW a \in Int, NEW b \in Int
    PROVE  Min({a, b}) = IF a <= b THEN a ELSE b
  BY DEF Min

LEMMA FirstOfFacts ==
    ASSUME NEW S, NEW list \in Seq(S), NEW n \in Nat
    PROVE  /\ FirstOf(n, list) \in Seq(S)
           /\ Begins(FirstOf(n, list), list)
           /\ Len(FirstOf(n, list)) = IF n <= Len(list) THEN n ELSE Len(list)
<1> DEFINE m == IF n <= Len(list) THEN n ELSE Len(list)
<1>1. m \in Nat /\ m <= Len(list) /\ Len(list) \in Nat
  OBVIOUS
<1>2. FirstOf(n, list) = SubSeq(list, 1, m)
  BY MinOfTwo DEF FirstOf
<1> HIDE DEF m
<1>3. /\ SubSeq(list, 1, m) \in Seq(S)
      /\ Len(SubSeq(list, 1, m)) = m
      /\ \A i \in 1..m : SubSeq(list, 1, m)[i] = list[i]
  BY <1>1
<1> QED
  BY <1>1, <1>2, <1>3 DEF Begins, m

LEMMA FollowingFacts ==
    ASSUME NEW S, NEW list \in Seq(S), NEW m \in Nat, m <= Len(list)
    PROVE  /\ SubSeq(list, m + 1, Len(list)) \in Seq(S)
           /\ Len(SubSeq(list, m + 1, Len(list))) = Len(list) - m
           /\ \A i \in 1..(Len(list) - m) : SubSeq(list, m + 1, Len(list))[i] = list[m + i]
<1> DEFINE n == Len(list)
           rest == SubSeq(list, m + 1, n)
<1>1. n \in Nat /\ \A i \in m + 1..n : list[i] \in S
  OBVIOUS
<1>2. m + 1 \in Int /\ n \in Int
  OBVIOUS
<1> HIDE DEF n
<1>3. /\ rest \in Seq(S)
      /\ Len(rest) = IF m + 1 <= n THEN n - (m + 1) + 1 ELSE 0
      /\ \A i \in 1..(n - (m + 1) + 1) : rest[i] = list[(m + 1) + i - 1]
  BY <1>1, <1>2, SubSeqProperties
<1> HIDE DEF rest
<1>4. n - (m + 1) + 1 = n - m /\ \A i \in 1..(n - m) : (m + 1) + i - 1 = m + i
  BY <1>1
<1>5. m <= n
  BY DEF n
<1>6. Len(rest) = n - m
  BY <1>1, <1>3, <1>5
<1>7. \A i \in 1..(n - m) : rest[i] = list[m + i]
  BY <1>3, <1>4
<1> QED
  BY <1>3, <1>6, <1>7 DEF n, rest

\* The rows before the first watch of no length.
LEMMA BlendableFacts ==
    ASSUME NEW rows \in Seq(Nat)
    PROVE  /\ Blendable(rows) \in Seq(Nat)
           /\ Begins(Blendable(rows), rows)
           /\ \/ Len(Blendable(rows)) = Len(rows)
              \/ /\ Len(Blendable(rows)) + 1 \in 1..Len(rows)
                 /\ watches[rows[Len(Blendable(rows)) + 1]].ms = 0
<1> DEFINE I == {i \in 1..Len(rows) : watches[rows[i]].ms = 0}
<1>1. CASE I = {}
  <2>1. Blendable(rows) = rows
    BY <1>1 DEF Blendable, SelectInSeq
  <2> QED
    BY <2>1 DEF Begins
<1>2. CASE I # {}
  <2>1. \E b \in I : \A i \in I : b <= i
    <3>1. I \subseteq Nat
      OBVIOUS
    <3> HIDE DEF I
    <3> QED
      BY <1>2, <3>1, LeastNumber
  <2>2. Min(I) \in I
    BY <2>1 DEF Min
  <2>3. Blendable(rows) = IF Min(I) = 0 THEN rows ELSE SubSeq(rows, 1, Min(I) - 1)
    BY <1>2 DEF Blendable, SelectInSeq
  <2> DEFINE b == Min(I)
  <2>4. b \in 1..Len(rows) /\ watches[rows[b]].ms = 0
    BY <2>2
  <2>5. Blendable(rows) = SubSeq(rows, 1, b - 1)
    <3>1. b # 0
      BY <2>4
    <3> QED
      BY <2>3, <3>1
  <2> HIDE DEF b
  <2>6. /\ SubSeq(rows, 1, b - 1) \in Seq(Nat)
        /\ Len(SubSeq(rows, 1, b - 1)) = b - 1
        /\ \A i \in 1..(b - 1) : SubSeq(rows, 1, b - 1)[i] = rows[i]
    BY <2>4
  <2> QED
    BY <2>4, <2>5, <2>6 DEF Begins
<1> QED
  BY <1>1, <1>2

\* What a query returns in some order is each of its rows, once.
LEMMA OrderingFacts ==
    ASSUME NEW S, IsFiniteSet(S), NEW list \in SetToSeqs(S)
    PROVE  list \in Seq(S) /\ IsInjective(list) /\ ToSet(list) = S
<1> DEFINE n == Cardinality(S)
<1>1. n \in Nat
  BY FS_CardinalityType
<1>2. /\ list \in [1..n -> S]
      /\ \A i, j \in 1..n : i # j => list[i] # list[j]
  BY DEF SetToSeqs
<1> HIDE DEF n
<1>3. list \in Seq(S) /\ Len(list) = n /\ DOMAIN list = 1..n
  BY <1>1, <1>2
<1>4. IsInjective(list)
  BY <1>2, <1>3 DEF IsInjective
<1> DEFINE T == ToSet(list)
<1>5. T \subseteq S /\ list \in [1..n -> T] /\ \A x \in T : \E i \in 1..n : list[i] = x
  BY <1>2, <1>3 DEF ToSet
<1> HIDE DEF T
<1>6. list \in Bijection(1..n, T)
  BY <1>2, <1>5, Fun_IsBij
<1>7. ExistsBijection(1..n, T)
  BY <1>6 DEF ExistsBijection
<1>8. Cardinality(T) = n
  BY <1>1, <1>7, FS_CountingElements
<1>9. T = S
  BY <1>5, <1>8, FS_Subset DEF n
<1> QED
  BY <1>3, <1>4, <1>9 DEF T

\* Recursion over the natural numbers, with a step that is a function.
Iterated(g, a, F, n) == g[0] = a /\ \A k \in 1..n : g[k] = F[<<g[k - 1], k>>]

LEMMA Iterates ==
    ASSUME NEW A, NEW a \in A, NEW F \in [A \X (Nat \ {0}) -> A]
    PROVE  \A n \in Nat : \E g \in [0..n -> A] : Iterated(g, a, F, n)
<1> USE DEF Iterated
<1> DEFINE Has(n) == \E g \in [0..n -> A] :
                        g[0] = a /\ \A k \in 1..n : g[k] = F[<<g[k - 1], k>>]
           T == {n \in Nat : ~Has(n)}
<1> SUFFICES ASSUME T # {} PROVE FALSE
  OBVIOUS
<1>1. PICK n \in T : \A k \in T : n <= k
  BY LeastNumber
<1>2. n # 0
  <2>1. [k \in 0..0 |-> a] \in [0..0 -> A] /\ 1..0 = {} /\ [k \in 0..0 |-> a][0] = a
    OBVIOUS
  <2>2. Has(0)
    BY <2>1
  <2> QED
    BY <2>2
<1>3. n - 1 \in Nat /\ n - 1 \notin T /\ n \in Nat \ {0}
  BY <1>1, <1>2
<1>4. PICK f \in [0..(n - 1) -> A] : f[0] = a /\ \A k \in 1..(n - 1) : f[k] = F[<<f[k - 1], k>>]
  BY <1>3
<1> DEFINE g == [k \in 0..n |-> IF k = n THEN F[<<f[n - 1], n>>] ELSE f[k]]
<1>5. g \in [0..n -> A] /\ g[0] = a
  <2>1. f[n - 1] \in A /\ F[<<f[n - 1], n>>] \in A
    BY <1>3, <1>4
  <2>2. \A k \in 0..n : k = n \/ k \in 0..(n - 1)
    BY <1>3
  <2> QED
    BY <1>3, <1>4, <2>1, <2>2
<1>6. ASSUME NEW k \in 1..n PROVE g[k] = F[<<g[k - 1], k>>]
  <2>1. k - 1 \in 0..n /\ k \in 0..n /\ k - 1 # n /\ g[k - 1] = f[k - 1]
    BY <1>3
  <2>2. CASE k = n
    BY <1>3, <2>1, <2>2
  <2>3. CASE k # n
    <3>1. k \in 1..(n - 1)
      BY <1>3, <2>3
    <3> QED
      BY <1>4, <2>1, <2>3, <3>1
  <2> QED
    BY <2>2, <2>3
<1>7. Has(n)
  BY <1>5, <1>6
<1> QED
  BY <1>1, <1>7

-----------------------------------------------------------------------------
\* The dot product of two vectors of one dimension is a number.

Sums(f, x, y, n) ==
    f = [i \in 0..n |-> IF i = 0 THEN 0 ELSE f[i - 1] + x[i] * y[i]]

LEMMA SumsExist ==
    ASSUME NEW n \in Nat, NEW x \in [1..n -> Int], NEW y \in [1..n -> Int]
    PROVE  \E f : Sums(f, x, y, n)
<1> DEFINE z == [k \in Nat \ {0} |-> IF k \in 1..n THEN x[k] * y[k] ELSE 0]
           F == [p \in Int \X (Nat \ {0}) |-> p[1] + z[p[2]]]
<1>1. z \in [Nat \ {0} -> Int] /\ \A k \in 1..n : z[k] = x[k] * y[k]
  OBVIOUS
<1> HIDE DEF z
<1>2. F \in [Int \X (Nat \ {0}) -> Int]
  BY <1>1
<1>3. \A j \in Int, k \in Nat \ {0} : F[<<j, k>>] = j + z[k]
  OBVIOUS
<1> HIDE DEF F
<1>4. PICK g \in [0..n -> Int] : g[0] = 0 /\ \A k \in 1..n : g[k] = F[<<g[k - 1], k>>]
  <2>1. 0 \in Int
    OBVIOUS
  <2>2. \E g \in [0..n -> Int] : Iterated(g, 0, F, n)
    BY <1>2, <2>1, Iterates
  <2> QED
    BY <2>2 DEF Iterated
<1>5. ASSUME NEW k \in 0..n
      PROVE  g[k] = IF k = 0 THEN 0 ELSE g[k - 1] + x[k] * y[k]
  <2>1. CASE k = 0
    BY <1>4, <2>1
  <2>2. CASE k # 0
    <3>1. k \in 1..n /\ k \in Nat \ {0} /\ k - 1 \in 0..n
      BY <2>2
    <3>2. g[k - 1] \in Int
      BY <1>4, <3>1
    <3>3. g[k] = g[k - 1] + z[k]
      BY <1>3, <1>4, <3>1, <3>2
    <3> QED
      BY <1>1, <2>2, <3>1, <3>3
  <2> QED
    BY <2>1, <2>2
<1>6. g = [k \in 0..n |-> g[k]]
  OBVIOUS
<1>7. g = [k \in 0..n |-> IF k = 0 THEN 0 ELSE g[k - 1] + x[k] * y[k]]
  BY <1>5, <1>6
<1> QED
  BY <1>7 DEF Sums

LEMMA DotIsNumber ==
    ASSUME NEW x \in Seq(Int), NEW y \in Seq(Int), Len(x) = Len(y)
    PROVE  Dot(x, y) \in Int
<1> DEFINE n == Len(x)
           f == CHOOSE sum : Sums(sum, x, y, n)
<1>1. n \in Nat /\ x \in [1..n -> Int] /\ y \in [1..n -> Int]
  OBVIOUS
<1>2. Dot(x, y) = f[n]
  BY DEF Dot, Sums
<1> HIDE DEF n
<1>3. Sums(f, x, y, n)
  BY <1>1, SumsExist
<1> HIDE DEF f
<1>4. /\ f[0] = 0
      /\ \A k \in 1..n : f[k] = f[k - 1] + x[k] * y[k]
  <2>1. \A k \in 0..n : f[k] = IF k = 0 THEN 0 ELSE f[k - 1] + x[k] * y[k]
    BY <1>3 DEF Sums
  <2>2. 0 \in 0..n /\ \A k \in 1..n : k \in 0..n /\ k # 0
    BY <1>1
  <2> QED
    BY <2>1, <2>2
<1> DEFINE T == {k \in 0..n : f[k] \notin Int}
<1>5. T = {}
  <2> SUFFICES ASSUME T # {} PROVE FALSE
    OBVIOUS
  <2>1. PICK k \in T : \A j \in T : k <= j
    <3>1. T \subseteq Nat
      OBVIOUS
    <3> HIDE DEF T
    <3> QED
      BY <3>1, LeastNumber
  <2>2. k \in 1..n /\ k - 1 \in 0..n /\ k - 1 \notin T
    BY <1>1, <1>4, <2>1
  <2>3. f[k - 1] \in Int /\ x[k] \in Int /\ y[k] \in Int
    BY <1>1, <2>2
  <2>4. x[k] * y[k] \in Int
    BY <2>3
  <2> QED
    BY <1>4, <2>1, <2>2, <2>3, <2>4
<1> QED
  BY <1>1, <1>2, <1>5

-----------------------------------------------------------------------------
\* The best candidate of a round.

Bests(f, query, lambda, list, selected, n) ==
    f = [i \in 0..n |->
           IF i = 0 THEN list[1]
           ELSE IF MmrScore(query, lambda, list[i], selected)
                     > MmrScore(query, lambda, f[i - 1], selected) THEN list[i]
           ELSE f[i - 1]]

Beats(query, lambda, selected, c, d) ==
    MmrScore(query, lambda, c, selected) > MmrScore(query, lambda, d, selected)

LEMMA BestsExist ==
    ASSUME NEW S, NEW n \in Nat, n > 0, NEW list \in [1..n -> S],
           NEW query, NEW lambda, NEW selected
    PROVE  \E f : Bests(f, query, lambda, list, selected, n)
<1> DEFINE F == [p \in S \X (Nat \ {0}) |->
                    IF p[2] \in 1..n /\ Beats(query, lambda, selected, list[p[2]], p[1])
                    THEN list[p[2]] ELSE p[1]]
<1>1. F \in [S \X (Nat \ {0}) -> S]
  <2>1. \A p \in S \X (Nat \ {0}) : p[1] \in S
    OBVIOUS
  <2>2. \A k \in 1..n : list[k] \in S
    OBVIOUS
  <2> QED
    BY <2>1, <2>2
<1>2. \A c \in S, k \in 1..n :
         F[<<c, k>>] = IF Beats(query, lambda, selected, list[k], c) THEN list[k] ELSE c
  <2>1. \A k \in 1..n : k \in Nat \ {0}
    OBVIOUS
  <2> QED
    BY <2>1
<1> HIDE DEF F
<1>3. list[1] \in S
  OBVIOUS
<1>4. PICK g \in [0..n -> S] : Iterated(g, list[1], F, n)
  BY <1>1, <1>3, Iterates
<1>5. ASSUME NEW k \in 0..n
      PROVE  g[k] = IF k = 0 THEN list[1]
                    ELSE IF Beats(query, lambda, selected, list[k], g[k - 1]) THEN list[k] ELSE g[k - 1]
  <2>1. CASE k = 0
    BY <1>4, <2>1 DEF Iterated
  <2>2. CASE k # 0
    <3>1. k \in 1..n /\ k - 1 \in 0..n
      BY <2>2
    <3>2. g[k - 1] \in S
      BY <1>4, <3>1
    <3>3. g[k] = F[<<g[k - 1], k>>]
      BY <1>4, <3>1 DEF Iterated
    <3> QED
      BY <1>2, <2>2, <3>1, <3>2, <3>3
  <2> QED
    BY <2>1, <2>2
<1>6. g = [k \in 0..n |-> g[k]]
  OBVIOUS
<1>7. g = [k \in 0..n |-> IF k = 0 THEN list[1]
                          ELSE IF Beats(query, lambda, selected, list[k], g[k - 1]) THEN list[k] ELSE g[k - 1]]
  BY <1>5, <1>6
<1> QED
  BY <1>7 DEF Bests, Beats

\* It is one of the candidates, and the first unless another beats it.
LEMMA BestFacts ==
    ASSUME NEW S, NEW list \in Seq(S), list # <<>>, NEW query, NEW lambda, NEW selected
    PROVE  /\ \E i \in 1..Len(list) :
                  BestMmrCandidate(query, lambda, list, selected) = list[i]
           /\ (\A i \in 1..Len(list) : ~Beats(query, lambda, selected, list[i], list[1]))
                 => BestMmrCandidate(query, lambda, list, selected) = list[1]
<1> DEFINE n == Len(list)
           f == CHOOSE best : Bests(best, query, lambda, list, selected, n)
<1>1. n \in Nat /\ n > 0 /\ list \in [1..n -> S]
  OBVIOUS
<1>2. BestMmrCandidate(query, lambda, list, selected) = f[n]
  BY DEF BestMmrCandidate, Bests
<1> HIDE DEF n
<1>3. Bests(f, query, lambda, list, selected, n)
  BY <1>1, BestsExist
<1> HIDE DEF f
<1>4. \A k \in 0..n :
         f[k] = IF k = 0 THEN list[1]
                ELSE IF Beats(query, lambda, selected, list[k], f[k - 1]) THEN list[k] ELSE f[k - 1]
  BY <1>3 DEF Bests, Beats
<1> DEFINE Fine(k) ==
              /\ \E i \in 1..n : f[k] = list[i]
              /\ (\A i \in 1..n : ~Beats(query, lambda, selected, list[i], list[1])) => f[k] = list[1]
           T == {k \in 0..n : ~Fine(k)}
<1>5. Fine(0)
  <2>1. 0 \in 0..n /\ 1 \in 1..n
    BY <1>1
  <2>2. f[0] = list[1]
    BY <1>4, <2>1
  <2> QED
    BY <2>1, <2>2
<1>6. ASSUME NEW k \in 1..n, Fine(k - 1) PROVE Fine(k)
  <2>1. k \in 0..n /\ k # 0
    BY <1>1
  <2>2. f[k] = IF Beats(query, lambda, selected, list[k], f[k - 1]) THEN list[k] ELSE f[k - 1]
    BY <1>4, <2>1
  <2> QED
    BY <1>6, <2>2
<1>7. T = {}
  <2> SUFFICES ASSUME T # {} PROVE FALSE
    OBVIOUS
  <2>1. PICK k \in T : \A j \in T : k <= j
    <3>1. T \subseteq Nat
      BY <1>1
    <3> HIDE DEF T
    <3> QED
      BY <3>1, LeastNumber
  <2> HIDE DEF Fine
  <2>2. k \in 0..n /\ ~Fine(k) /\ k # 0
    BY <1>5, <2>1
  <2>3. k \in 1..n /\ k - 1 \in 0..n /\ k - 1 < k
    BY <1>1, <2>2
  <2>4. Fine(k - 1)
    BY <1>1, <2>1, <2>3
  <2> QED
    BY <1>6, <2>2, <2>3, <2>4
<1>8. n \in 0..n
  BY <1>1
<1>9. Fine(n)
  <2> HIDE DEF Fine
  <2> QED
    BY <1>7, <1>8
<1> QED
  BY <1>2, <1>9 DEF n

\* What is left when the best of distinct candidates is taken out.
Without(remaining, list, p, S) ==
    /\ remaining \in Seq(S) /\ Len(remaining) = Len(list) - 1 /\ IsInjective(remaining)
    /\ \A i \in 1..Len(remaining) : remaining[i] = IF i < p THEN list[i] ELSE list[i + 1]
    /\ \A i \in 1..Len(remaining) : remaining[i] # list[p]
    /\ \A i \in 1..Len(remaining) : \E j \in 1..Len(list) : remaining[i] = list[j]
    /\ \A j \in 1..Len(list) : j # p => \E i \in 1..Len(remaining) : remaining[i] = list[j]

LEMMA RemoveFirstFacts ==
    ASSUME NEW S, NEW list \in Seq(S), IsInjective(list), NEW p \in 1..Len(list)
    PROVE  Without(RemoveFirst(list, list[p]), list, p, S)
<1> DEFINE n == Len(list)
           I == {i \in 1..n : list[i] = list[p]}
           before == SubSeq(list, 1, p - 1)
           after == SubSeq(list, p + 1, n)
           remaining == before \o after
<1>1. n \in Nat /\ p \in 1..n /\ DOMAIN list = 1..n
  OBVIOUS
<1>2. I = {p}
  BY <1>1 DEF IsInjective
<1>3. Min({p}) = p
  BY DEF Min
<1>4. RemoveFirst(list, list[p]) = remaining
  <2>1. SelectInSeq(list, LAMBDA v : v = list[p]) = p
    BY <1>2, <1>3 DEF SelectInSeq
  <2> QED
    BY <1>1, <2>1 DEF RemoveFirst, RemoveAt
<1>5. /\ before \in Seq(S) /\ Len(before) = p - 1
      /\ \A i \in 1..(p - 1) : before[i] = list[i]
  BY <1>1
<1>6. /\ after \in Seq(S) /\ Len(after) = n - p
      /\ \A i \in 1..(n - p) : after[i] = list[p + i]
  <2>1. p \in Nat /\ p <= Len(list)
    BY <1>1
  <2> QED
    BY <2>1, FollowingFacts
<1> HIDE DEF before, after, n
<1>7. /\ remaining \in Seq(S) /\ Len(remaining) = n - 1
      /\ \A i \in 1..(n - 1) : remaining[i] = IF i < p THEN list[i] ELSE list[i + 1]
  <2>a. /\ remaining \in Seq(S) /\ Len(remaining) = Len(before) + Len(after)
        /\ \A i \in 1..(Len(before) + Len(after)) :
              remaining[i] = IF i <= Len(before) THEN before[i] ELSE after[i - Len(before)]
    BY <1>5, <1>6, ConcatProperties
  <2> HIDE DEF remaining
  <2>b. Len(before) + Len(after) = n - 1 /\ Len(before) = p - 1
    BY <1>1, <1>5, <1>6
  <2>1. remaining \in Seq(S) /\ Len(remaining) = n - 1
    BY <2>a, <2>b
  <2>2. ASSUME NEW i \in 1..(n - 1) PROVE remaining[i] = IF i < p THEN list[i] ELSE list[i + 1]
    <3>1. remaining[i] = IF i <= p - 1 THEN before[i] ELSE after[i - (p - 1)]
      BY <2>a, <2>b
    <3>2. CASE i < p
      BY <1>1, <1>5, <3>1, <3>2
    <3>3. CASE ~(i < p)
      <4>1. i - (p - 1) \in 1..(n - p) /\ p + (i - (p - 1)) = i + 1 /\ ~(i <= p - 1)
        BY <1>1, <3>3
      <4> QED
        BY <1>6, <3>1, <3>3, <4>1
    <3> QED
      BY <3>2, <3>3
  <2> QED
    BY <2>1, <2>2
<1> HIDE DEF remaining
<1> DEFINE At(i) == IF i < p THEN i ELSE i + 1
<1>8. \A i \in 1..(n - 1) : At(i) \in 1..n /\ At(i) # p /\ remaining[i] = list[At(i)]
  BY <1>1, <1>7
<1>9. \A i, j \in 1..(n - 1) : At(i) = At(j) => i = j
  BY <1>1
<1>10. \A j \in 1..n : j # p => \E i \in 1..(n - 1) : At(i) = j
  <2> SUFFICES ASSUME NEW j \in 1..n, j # p PROVE \E i \in 1..(n - 1) : At(i) = j
    OBVIOUS
  <2>1. CASE j < p
    <3>1. j \in 1..(n - 1) /\ At(j) = j
      BY <1>1, <2>1
    <3> QED
      BY <3>1
  <2>2. CASE j > p
    <3>1. j - 1 \in 1..(n - 1) /\ At(j - 1) = j
      BY <1>1, <2>2
    <3> QED
      BY <3>1
  <2> QED
    BY <1>1, <2>1, <2>2
<1> HIDE DEF At
<1>11. \A i \in 1..(n - 1) : remaining[i] # list[p]
  BY <1>1, <1>8 DEF IsInjective
<1>12. IsInjective(remaining)
  <2>1. DOMAIN remaining = 1..(n - 1)
    BY <1>1, <1>7
  <2> QED
    BY <1>1, <1>8, <1>9, <2>1 DEF IsInjective
<1>13. \A j \in 1..n : j # p => \E i \in 1..(n - 1) : remaining[i] = list[j]
  BY <1>8, <1>10
<1> QED
  BY <1>4, <1>7, <1>8, <1>11, <1>12, <1>13 DEF n, Without

-----------------------------------------------------------------------------
\* The rounds of mmr.

\* After n rounds on a list that starts with the nearest: the list is split,
\* and the nearest was taken first.
RoundOK(st, list, n, S) ==
    /\ st \in [remaining : Seq(S), selected : Seq(S)]
    /\ Len(st.selected) = n /\ Len(st.remaining) = Len(list) - n
    /\ IsInjective(st.remaining) /\ IsInjective(st.selected)
    /\ \A i \in 1..n, j \in 1..Len(st.remaining) : st.selected[i] # st.remaining[j]
    /\ \A i \in 1..Len(st.remaining) : \E j \in 1..Len(list) : st.remaining[i] = list[j]
    /\ \A i \in 1..n : \E j \in 1..Len(list) : st.selected[i] = list[j]
    /\ \A j \in 1..Len(list) :
          \/ \E i \in 1..Len(st.remaining) : st.remaining[i] = list[j]
          \/ \E i \in 1..n : st.selected[i] = list[j]
    /\ n = 0 => st.remaining = list
    /\ n > 0 => st.selected[1] = list[1]

\* Before anything is selected no candidate scores higher than the first.
FirstNearest(query, lambda, list) ==
    \A i \in 1..Len(list) :
        ~Beats(query, lambda, <<>>, list[i], list[1])

LEMMA RoundKeeps ==
    ASSUME NEW S, NEW list \in Seq(S), NEW n \in Nat, n < Len(list), NEW query, NEW lambda,
           FirstNearest(query, lambda, list), NEW st, RoundOK(st, list, n, S)
    PROVE  RoundOK(SelectNext(query, lambda, st), list, n + 1, S)
<1> DEFINE remaining == st.remaining
           selected == st.selected
           best == BestMmrCandidate(query, lambda, remaining, selected)
           next == SelectNext(query, lambda, st)
<1>1. /\ remaining \in Seq(S) /\ selected \in Seq(S)
      /\ Len(selected) = n /\ Len(remaining) = Len(list) - n
      /\ IsInjective(remaining) /\ IsInjective(selected)
      /\ \A i \in 1..n, j \in 1..Len(remaining) : selected[i] # remaining[j]
      /\ \A i \in 1..Len(remaining) : \E j \in 1..Len(list) : remaining[i] = list[j]
      /\ \A i \in 1..n : \E j \in 1..Len(list) : selected[i] = list[j]
      /\ \A j \in 1..Len(list) :
            \/ \E i \in 1..Len(remaining) : remaining[i] = list[j]
            \/ \E i \in 1..n : selected[i] = list[j]
      /\ n = 0 => remaining = list
      /\ n > 0 => selected[1] = list[1]
  BY DEF RoundOK
<1>2. remaining # <<>> /\ Len(remaining) > 0
  BY <1>1
<1>3. next = [remaining |-> RemoveFirst(remaining, best), selected |-> Append(selected, best)]
  BY <1>2 DEF SelectNext
<1>4. /\ \E i \in 1..Len(remaining) : best = remaining[i]
      /\ (\A i \in 1..Len(remaining) : ~Beats(query, lambda, selected, remaining[i], remaining[1]))
         => best = remaining[1]
  <2> HIDE DEF remaining, selected
  <2> QED
    BY <1>1, <1>2, BestFacts
<1>5. n = 0 => best = list[1]
  <2> SUFFICES ASSUME n = 0 PROVE best = list[1]
    OBVIOUS
  <2>1. selected = <<>> /\ remaining = list
    BY <1>1
  <2> QED
    BY <1>4, <2>1 DEF FirstNearest
<1>6. PICK p \in 1..Len(remaining) : best = remaining[p]
  BY <1>4
<1> DEFINE less == RemoveFirst(remaining, best)
           more == Append(selected, best)
<1>7. /\ less \in Seq(S) /\ Len(less) = Len(remaining) - 1 /\ IsInjective(less)
      /\ \A i \in 1..Len(less) : less[i] # best
      /\ \A i \in 1..Len(less) : \E j \in 1..Len(remaining) : less[i] = remaining[j]
      /\ \A j \in 1..Len(remaining) : j # p => \E i \in 1..Len(less) : less[i] = remaining[j]
  <2> HIDE DEF remaining, best
  <2>1. Without(RemoveFirst(remaining, remaining[p]), remaining, p, S)
    BY <1>1, <1>6, RemoveFirstFacts
  <2>2. Without(less, remaining, p, S)
    BY <1>6, <2>1
  <2> HIDE DEF less
  <2> QED
    BY <1>6, <2>2 DEF Without
<1>8. best \in S
  BY <1>1, <1>6
<1> HIDE DEF best
<1>9. /\ more \in Seq(S) /\ Len(more) = n + 1
      /\ more[n + 1] = best
      /\ \A i \in 1..n : more[i] = selected[i]
  BY <1>1, <1>8
<1>10. next.remaining = less /\ next.selected = more /\ next \in [remaining : Seq(S), selected : Seq(S)]
  BY <1>3, <1>7, <1>9
<1> HIDE DEF less, more, next, remaining, selected
<1>11. \A i \in 1..(n + 1) : i = n + 1 \/ i \in 1..n
  OBVIOUS
<1>12. n + 1 \in 1..(n + 1) /\ \A i \in 1..n : i \in 1..(n + 1)
  OBVIOUS
<1>13. \A i \in 1..n : selected[i] # best
  BY <1>1, <1>6
<1>14. IsInjective(more)
  <2>1. DOMAIN more = 1..(n + 1) /\ DOMAIN selected = 1..n
    BY <1>1, <1>9
  <2>2. \A i, j \in 1..n : selected[i] = selected[j] => i = j
    BY <1>1, <2>1 DEF IsInjective
  <2> SUFFICES ASSUME NEW i \in 1..(n + 1), NEW j \in 1..(n + 1), more[i] = more[j] PROVE i = j
    BY <2>1 DEF IsInjective
  <2> QED
    BY <1>9, <1>11, <1>13, <2>2
<1>15. \A i \in 1..(n + 1), j \in 1..Len(less) : more[i] # less[j]
  <2> SUFFICES ASSUME NEW i \in 1..(n + 1), NEW j \in 1..Len(less) PROVE more[i] # less[j]
    OBVIOUS
  <2>1. PICK k \in 1..Len(remaining) : less[j] = remaining[k]
    BY <1>7
  <2>2. CASE i = n + 1
    BY <1>7, <1>9, <2>2
  <2>3. CASE i \in 1..n
    BY <1>1, <1>9, <2>1, <2>3
  <2> QED
    BY <1>11, <2>2, <2>3
<1>16. \A i \in 1..Len(less) : \E j \in 1..Len(list) : less[i] = list[j]
  BY <1>1, <1>7
<1>17. \A i \in 1..(n + 1) : \E j \in 1..Len(list) : more[i] = list[j]
  <2> SUFFICES ASSUME NEW i \in 1..(n + 1) PROVE \E j \in 1..Len(list) : more[i] = list[j]
    OBVIOUS
  <2>1. CASE i = n + 1
    <3>1. more[i] = remaining[p]
      BY <1>6, <1>9, <2>1
    <3> QED
      BY <1>1, <1>6, <3>1
  <2>2. CASE i \in 1..n
    <3>1. PICK j \in 1..Len(list) : selected[i] = list[j]
      BY <1>1, <2>2
    <3>2. more[i] = list[j]
      BY <1>9, <2>2, <3>1
    <3> QED
      BY <3>2
  <2> QED
    BY <1>11, <2>1, <2>2
<1>18. \A j \in 1..Len(list) :
          \/ \E i \in 1..Len(less) : less[i] = list[j]
          \/ \E i \in 1..(n + 1) : more[i] = list[j]
  <2> SUFFICES ASSUME NEW j \in 1..Len(list)
               PROVE  \/ \E i \in 1..Len(less) : less[i] = list[j]
                      \/ \E i \in 1..(n + 1) : more[i] = list[j]
    OBVIOUS
  <2>1. CASE \E i \in 1..n : selected[i] = list[j]
    BY <1>9, <1>12, <2>1
  <2>2. CASE \E i \in 1..Len(remaining) : remaining[i] = list[j]
    <3>1. PICK i \in 1..Len(remaining) : remaining[i] = list[j]
      BY <2>2
    <3>2. CASE i = p
      BY <1>6, <1>9, <1>12, <3>1, <3>2
    <3>3. CASE i # p
      BY <1>7, <3>1, <3>3
    <3> QED
      BY <3>2, <3>3
  <2> QED
    BY <1>1, <2>1, <2>2
<1>19. more[1] = list[1]
  <2>1. CASE n = 0
    BY <1>5, <1>9, <2>1
  <2>2. CASE n > 0
    <3>1. 1 \in 1..n
      BY <2>2
    <3> QED
      BY <1>1, <1>9, <2>2, <3>1
  <2> QED
    BY <2>1, <2>2
<1>20. Len(less) = Len(list) - (n + 1) /\ n + 1 # 0
  BY <1>1, <1>7
<1> QED
  <2>1. RoundOK(next, list, n + 1, S)
    <3>1. /\ Len(next.selected) = n + 1 /\ Len(next.remaining) = Len(list) - (n + 1)
          /\ IsInjective(next.remaining) /\ IsInjective(next.selected)
      BY <1>7, <1>9, <1>10, <1>14, <1>20
    <3>2. \A i \in 1..(n + 1), j \in 1..Len(next.remaining) : next.selected[i] # next.remaining[j]
      BY <1>10, <1>15
    <3>3. /\ \A i \in 1..Len(next.remaining) : \E j \in 1..Len(list) : next.remaining[i] = list[j]
          /\ \A i \in 1..(n + 1) : \E j \in 1..Len(list) : next.selected[i] = list[j]
      BY <1>10, <1>16, <1>17
    <3>4. \A j \in 1..Len(list) :
             \/ \E i \in 1..Len(next.remaining) : next.remaining[i] = list[j]
             \/ \E i \in 1..(n + 1) : next.selected[i] = list[j]
      BY <1>10, <1>18
    <3> QED
      BY <1>10, <1>19, <1>20, <3>1, <3>2, <3>3, <3>4 DEF RoundOK
  <2> QED
    BY <2>1 DEF next

Rounds(f, query, lambda, list, k) ==
    f = [n \in 0..k |-> IF n = 0 THEN [remaining |-> list, selected |-> <<>>]
                        ELSE SelectNext(query, lambda, f[n - 1])]

LEMMA RoundsStart ==
    ASSUME NEW S, NEW list \in Seq(S), IsInjective(list), list # <<>>
    PROVE  RoundOK([remaining |-> list, selected |-> <<>>], list, 0, S)
<1> DEFINE st == [remaining |-> list, selected |-> <<>>]
<1>1. st.remaining = list /\ st.selected = <<>> /\ st \in [remaining : Seq(S), selected : Seq(S)]
  OBVIOUS
<1>2. Len(<<>>) = 0 /\ IsInjective(<<>>) /\ 1..0 = {} /\ Len(list) - 0 = Len(list)
  BY DEF IsInjective
<1> HIDE DEF st
<1>3. RoundOK(st, list, 0, S)
  BY <1>1, <1>2 DEF RoundOK
<1> QED
  BY <1>3 DEF st

LEMMA RoundsExist ==
    ASSUME NEW S, NEW list \in Seq(S), IsInjective(list), list # <<>>, NEW query, NEW lambda,
           FirstNearest(query, lambda, list), NEW k \in Nat
    PROVE  \E f : Rounds(f, query, lambda, list, k)
<1> DEFINE a == [remaining |-> list, selected |-> <<>>]
           A == {st \in [remaining : Seq(S), selected : Seq(S)] :
                    \E n \in 0..Len(list) : RoundOK(st, list, n, S)}
           F == [p \in A \X (Nat \ {0}) |-> SelectNext(query, lambda, p[1])]
<1>1. a \in A
  <2>1. RoundOK(a, list, 0, S) /\ 0 \in 0..Len(list)
    BY RoundsStart
  <2> QED
    BY <2>1 DEF RoundOK
<1>2. ASSUME NEW st \in A PROVE SelectNext(query, lambda, st) \in A
  <2>1. PICK n \in 0..Len(list) : RoundOK(st, list, n, S)
    OBVIOUS
  <2>2. CASE n < Len(list)
    <3>1. RoundOK(SelectNext(query, lambda, st), list, n + 1, S)
      BY <2>1, <2>2, RoundKeeps
    <3>2. n + 1 \in 0..Len(list)
      BY <2>2
    <3> QED
      BY <3>1, <3>2 DEF RoundOK
  <2>3. CASE n = Len(list)
    <3>1. st.remaining = <<>>
      BY <2>1, <2>3 DEF RoundOK
    <3> QED
      BY <3>1 DEF SelectNext
  <2> QED
    BY <2>2, <2>3
<1> HIDE DEF A
<1>3. F \in [A \X (Nat \ {0}) -> A]
  <2>1. \A p \in A \X (Nat \ {0}) : p[1] \in A
    OBVIOUS
  <2> QED
    BY <1>2, <2>1
<1>4. \A st \in A, n \in Nat \ {0} : F[<<st, n>>] = SelectNext(query, lambda, st)
  OBVIOUS
<1> HIDE DEF F, a
<1>5. PICK g \in [0..k -> A] : Iterated(g, a, F, k)
  BY <1>1, <1>3, Iterates
<1>6. ASSUME NEW n \in 0..k
      PROVE  g[n] = IF n = 0 THEN a ELSE SelectNext(query, lambda, g[n - 1])
  <2>1. CASE n = 0
    BY <1>5, <2>1 DEF Iterated
  <2>2. CASE n # 0
    <3>1. n \in 1..k /\ n \in Nat \ {0} /\ n - 1 \in 0..k
      BY <2>2
    <3>2. g[n - 1] \in A
      BY <1>5, <3>1
    <3>3. g[n] = F[<<g[n - 1], n>>]
      BY <1>5, <3>1 DEF Iterated
    <3> QED
      BY <1>4, <2>2, <3>1, <3>2, <3>3
  <2> QED
    BY <2>1, <2>2
<1>7. g = [n \in 0..k |-> g[n]]
  OBVIOUS
<1>8. g = [n \in 0..k |-> IF n = 0 THEN a ELSE SelectNext(query, lambda, g[n - 1])]
  BY <1>6, <1>7
<1> QED
  BY <1>8 DEF Rounds, a

\* mmr on the whole of a list that starts with the nearest rearranges it and
\* leaves the nearest in front.
Rearranges(list, whole, S) ==
    /\ list \in Seq(S) /\ Len(list) = Len(whole) /\ IsInjective(list)
    /\ list[1] = whole[1]
    /\ \A i \in 1..Len(list) : \E j \in 1..Len(whole) : list[i] = whole[j]
    /\ \A j \in 1..Len(whole) : \E i \in 1..Len(list) : list[i] = whole[j]

LEMMA MmrRearranges ==
    ASSUME NEW S, NEW list \in Seq(S), IsInjective(list), list # <<>>, NEW query,
           NEW lambda \in 0..10, FirstNearest(query, lambda, list)
    PROVE  \/ ~Mmr(query, list, Len(list), lambda).ok
           \/ Rearranges(Mmr(query, list, Len(list), lambda).list, list, S)
<1> DEFINE k == Len(list)
           f == CHOOSE round : Rounds(round, query, lambda, list, k)
           result == Mmr(query, list, k, lambda)
<1>1. k \in Nat /\ k > 0
  OBVIOUS
<1>2. result = Error(FirstError(query, list)) \/ result = Ok(f[k].selected)
  BY <1>1 DEF Mmr, Rounds
<1> HIDE DEF k, result
<1>3. Rounds(f, query, lambda, list, k)
  BY <1>1, RoundsExist
<1> HIDE DEF f
<1>4. \A n \in 0..k : f[n] = IF n = 0 THEN [remaining |-> list, selected |-> <<>>]
                             ELSE SelectNext(query, lambda, f[n - 1])
  BY <1>3 DEF Rounds
<1> DEFINE T == {n \in 0..k : ~RoundOK(f[n], list, n, S)}
<1>5. T = {}
  <2> SUFFICES ASSUME T # {} PROVE FALSE
    OBVIOUS
  <2>1. PICK n \in T : \A j \in T : n <= j
    <3>1. T \subseteq Nat
      BY <1>1
    <3> HIDE DEF T
    <3> QED
      BY <3>1, LeastNumber
  <2>2. n \in 0..k /\ ~RoundOK(f[n], list, n, S)
    BY <2>1
  <2>3. n # 0
    <3>1. 0 \in 0..k
      BY <1>1
    <3> QED
      BY <1>4, <2>2, <3>1, RoundsStart
  <2>4. n - 1 \in 0..k /\ n - 1 \in Nat /\ n - 1 < k /\ n - 1 < n /\ (n - 1) + 1 = n
    BY <1>1, <2>2, <2>3
  <2>5. RoundOK(f[n - 1], list, n - 1, S)
    BY <1>1, <2>1, <2>4
  <2>6. f[n] = SelectNext(query, lambda, f[n - 1])
    BY <1>4, <2>2, <2>3
  <2>7. RoundOK(SelectNext(query, lambda, f[n - 1]), list, (n - 1) + 1, S)
    BY <2>4, <2>5, RoundKeeps DEF k
  <2> QED
    BY <2>2, <2>4, <2>6, <2>7
<1>6. RoundOK(f[k], list, k, S)
  <2>1. k \in 0..k
    BY <1>1
  <2> QED
    BY <1>5, <2>1
<1> DEFINE selected == f[k].selected
<1>7. Rearranges(selected, list, S)
  <2>1. Len(f[k].remaining) = 0
    BY <1>1, <1>6 DEF RoundOK, k
  <2>2. 1..0 = {}
    OBVIOUS
  <2>3. selected \in Seq(S) /\ Len(selected) = k /\ IsInjective(selected)
    BY <1>6 DEF RoundOK
  <2>4. selected[1] = list[1]
    BY <1>1, <1>6 DEF RoundOK
  <2>5. /\ \A i \in 1..k : \E j \in 1..Len(list) : selected[i] = list[j]
        /\ \A j \in 1..Len(list) : \E i \in 1..k : selected[i] = list[j]
    BY <1>6, <2>1, <2>2 DEF RoundOK
  <2> QED
    BY <2>3, <2>4, <2>5 DEF Rearranges, k
<1>8. ~result.ok \/ result.list = selected
  BY <1>2 DEF Error, Ok
<1> QED
  BY <1>7, <1>8 DEF result, k

-----------------------------------------------------------------------------
\* The ranking of a feed: its pool rearranged, the nearest in front.

Diversifies(list, candidates) ==
    /\ list \in Seq(Library) /\ Len(list) = Len(candidates) /\ IsInjective(list)
    /\ list[1] = candidates[1]
    /\ \A i \in 1..Len(list) : \E j \in 1..Len(candidates) :
          list[i] = candidates[j] /\ (i <= PoolSize => j <= PoolSize)
    /\ \A j \in 1..Len(candidates) : \E i \in 1..Len(list) : list[i] = candidates[j]
    /\ \A i \in 1..Len(list) : i > PoolSize => list[i] = candidates[i]

LEMMA TasteMeasures ==
    ASSUME NEW taste \in Tastes, NEW v \in Library
    PROVE  Vector[v] \in Tastes /\ Dot(taste, Vector[v]) \in Int
<1>1. Vector[v] \in Tastes
  BY RecommendationsAssumption
<1>2. taste \in Seq(Int) /\ Vector[v] \in Seq(Int) /\ Len(taste) = Len(Vector[v])
  BY <1>1, RecommendationsAssumption
<1> QED
  BY <1>1, <1>2, DotIsNumber

LEMMA ScaledOrder ==
    ASSUME NEW n \in Nat, NEW a \in Int, NEW b \in Int, a >= b
    PROVE  ~(n * b - (10 - n) * 0 > n * a - (10 - n) * 0)
<1>1. n * (a - b) >= 0 /\ n * (a - b) = n * a - n * b
  OBVIOUS
<1>2. n * a \in Int /\ n * b \in Int /\ (10 - n) * 0 = 0
  OBVIOUS
<1> QED
  BY <1>1, <1>2

LEMMA PoolFacts ==
    ASSUME NEW pool \in Seq(Library), IsInjective(pool), pool # <<>>,
           request.taste \in Tastes,
           \A i, j \in 1..Len(pool) : i < j => Nearer(pool[i], pool[j])
    PROVE  /\ WithVectors(pool) \in Seq([id : Library, vector : Tastes])
           /\ Len(WithVectors(pool)) = Len(pool)
           /\ \A i \in 1..Len(pool) : WithVectors(pool)[i].id = pool[i]
           /\ IsInjective(WithVectors(pool))
           /\ FirstNearest(request.taste, Lambda, WithVectors(pool))
<1> DEFINE n == Len(pool)
           P == WithVectors(pool)
<1>1. n \in Nat /\ n > 0 /\ DOMAIN pool = 1..n /\ \A i \in 1..n : pool[i] \in Library
  OBVIOUS
<1>2. P = [i \in 1..n |-> [id |-> pool[i], vector |-> Vector[pool[i]]]]
  BY <1>1 DEF WithVectors
<1>3. \A i \in 1..n : Vector[pool[i]] \in Tastes
  BY <1>1, TasteMeasures
<1>4. P \in Seq([id : Library, vector : Tastes]) /\ Len(P) = n /\ DOMAIN P = 1..n
  BY <1>1, <1>2, <1>3
<1>5. \A i \in 1..n : P[i].id = pool[i] /\ P[i].vector = Vector[pool[i]]
  BY <1>2
<1> HIDE DEF P, n
<1>6. IsInjective(P)
  BY <1>1, <1>4, <1>5 DEF IsInjective
<1>7. FirstNearest(request.taste, Lambda, P)
  <2> SUFFICES ASSUME NEW i \in 1..n PROVE ~Beats(request.taste, Lambda, <<>>, P[i], P[1])
    BY <1>4 DEF FirstNearest
  <2> DEFINE a == Dot(request.taste, Vector[pool[1]])
             b == Dot(request.taste, Vector[pool[i]])
  <2>1. 1 \in 1..n
    BY <1>1
  <2>2. a \in Int /\ b \in Int
    BY <1>1, <2>1, TasteMeasures
  <2>3. a >= b
    <3>1. CASE i = 1
      BY <2>2, <3>1
    <3>2. CASE i # 1
      BY <2>1, <3>2 DEF Nearer, Relevance, n
    <3> QED
      BY <3>1, <3>2
  <2>4. /\ MmrScore(request.taste, Lambda, P[1], <<>>) = Lambda * a - (10 - Lambda) * 0
        /\ MmrScore(request.taste, Lambda, P[i], <<>>) = Lambda * b - (10 - Lambda) * 0
    BY <1>5, <2>1 DEF MmrScore, MaxSimilarity
  <2> HIDE DEF a, b
  <2>5. Lambda \in Nat
    BY RecommendationsAssumption
  <2> QED
    BY <2>2, <2>3, <2>4, <2>5, ScaledOrder DEF Beats
<1> QED
  BY <1>4, <1>5, <1>6, <1>7 DEF P, n

LEMMA DiversifiedFacts ==
    ASSUME NEW candidates \in Seq(Library), IsInjective(candidates), candidates # <<>>,
           request.taste \in Tastes,
           \A i, j \in 1..Len(candidates) : i < j => Nearer(candidates[i], candidates[j])
    PROVE  Diversifies(Diversified(candidates), candidates)
<1> DEFINE n == Len(candidates)
           pool == FirstOf(PoolSize, candidates)
           rest == SubSeq(candidates, PoolSize + 1, n)
           P == WithVectors(pool)
           result == Mmr(request.taste, P, Len(pool), Lambda)
           ids == Ids(result.list)
           S == [id : Library, vector : Tastes]
           m == Len(pool)
<1>1. /\ n \in Nat /\ n > 0 /\ DOMAIN candidates = 1..n
      /\ \A i \in 1..n : candidates[i] \in Library
      /\ \A i, j \in 1..n : candidates[i] = candidates[j] => i = j
  BY DEF IsInjective
<1>2. PoolSize \in Nat \ {0} /\ Lambda \in 0..10
  BY RecommendationsAssumption
<1>3. Diversified(candidates) = IF result.ok THEN ids \o rest ELSE candidates
  BY DEF Diversified
<1>4. CASE ~result.ok
  <2>1. Diversified(candidates) = candidates
    BY <1>3, <1>4
  <2> QED
    BY <2>1 DEF Diversifies
<1>5. CASE result.ok
  <2>1. /\ pool \in Seq(Library) /\ m = IF PoolSize <= n THEN PoolSize ELSE n
        /\ \A i \in 1..m : pool[i] = candidates[i]
    BY <1>2, FirstOfFacts DEF Begins
  <2> HIDE DEF pool, n
  <2>2. m \in Nat /\ m > 0 /\ m <= n /\ m <= PoolSize /\ DOMAIN pool = 1..m
    BY <1>1, <1>2, <2>1
  <2>1a. \A i \in 1..m : pool[i] \in Library
    BY <2>1
  <2>3. IsInjective(pool) /\ pool # <<>>
    BY <1>1, <2>1, <2>2 DEF IsInjective
  <2>4. \A i, j \in 1..m : i < j => Nearer(pool[i], pool[j])
    BY <2>1, <2>2 DEF n
  <2>5. /\ P \in Seq(S) /\ Len(P) = m /\ IsInjective(P)
        /\ FirstNearest(request.taste, Lambda, P)
        /\ \A i \in 1..m : P[i].id = pool[i]
    BY <2>1, <2>3, <2>4, PoolFacts
  <2> HIDE DEF P
  <2>6. P # <<>>
    BY <2>2, <2>5
  <2> DEFINE list == result.list
  <2>7. Rearranges(list, P, S)
    BY <1>2, <1>5, <2>5, <2>6, MmrRearranges
  <2> HIDE DEF result, list, S
  <2>8. /\ Len(list) = m /\ DOMAIN list = 1..m
        /\ \A i, j \in 1..m : list[i] = list[j] => i = j
        /\ list[1] = P[1]
        /\ \A i \in 1..m : \E j \in 1..m : list[i] = P[j]
        /\ \A j \in 1..m : \E i \in 1..m : list[i] = P[j]
    <3>1. /\ list \in Seq(S) /\ Len(list) = Len(P) /\ IsInjective(list)
          /\ list[1] = P[1]
          /\ \A i \in 1..Len(list) : \E j \in 1..Len(P) : list[i] = P[j]
          /\ \A j \in 1..Len(P) : \E i \in 1..Len(list) : list[i] = P[j]
      BY <2>7 DEF Rearranges
    <3>2. Len(P) = m
      BY <2>5
    <3> HIDE DEF m
    <3>3. Len(list) = m
      BY <3>1, <3>2
    <3>4. DOMAIN list = 1..m
      BY <3>1, <3>3
    <3>5. \A i, j \in 1..m : list[i] = list[j] => i = j
      BY <3>1, <3>4 DEF IsInjective
    <3>6. /\ \A i \in 1..m : \E j \in 1..m : list[i] = P[j]
          /\ \A j \in 1..m : \E i \in 1..m : list[i] = P[j]
      BY <3>1, <3>2, <3>3
    <3> QED
      BY <3>1, <3>3, <3>4, <3>5, <3>6
  <2>9. ids = [i \in 1..m |-> list[i].id]
    BY <2>8 DEF Ids, list
  <2> HIDE DEF ids
  <2>9a. \A i, j \in 1..m : list[i] = P[j] => ids[i] = pool[j]
    <3> HIDE DEF m
    <3>1. \A i \in 1..m : ids[i] = list[i].id /\ P[i].id = pool[i]
      BY <2>5, <2>9
    <3> QED
      BY <3>1
  <2> HIDE DEF m
  <2>10. \A i \in 1..m : \E j \in 1..m : list[i] = P[j] /\ ids[i] = pool[j]
    BY <2>8, <2>9a
  <2>11. \A j \in 1..m : \E i \in 1..m : ids[i] = pool[j]
    <3> SUFFICES ASSUME NEW j \in 1..m PROVE \E i \in 1..m : ids[i] = pool[j]
      OBVIOUS
    <3>1. PICK i \in 1..m : list[i] = P[j]
      BY <2>8
    <3>2. ids[i] = pool[j]
      BY <2>9a, <3>1
    <3> QED
      BY <3>2
  <2>12. ids \in Seq(Library) /\ Len(ids) = m
    <3>1. \A i \in 1..m : ids[i] \in Library
      BY <2>2, <2>10, <2>1a
    <3> QED
      BY <2>2, <2>9, <3>1
  <2>13. ids[1] = candidates[1]
    <3>1. 1 \in 1..m
      BY <2>2
    <3> QED
      BY <2>1, <2>8, <2>9a, <3>1
  <2>14. \A i, j \in 1..m : ids[i] = ids[j] => i = j
    <3> SUFFICES ASSUME NEW i \in 1..m, NEW j \in 1..m, ids[i] = ids[j] PROVE i = j
      OBVIOUS
    <3>1. PICK a \in 1..m : list[i] = P[a] /\ ids[i] = pool[a]
      BY <2>10
    <3>2. PICK b \in 1..m : list[j] = P[b] /\ ids[j] = pool[b]
      BY <2>10
    <3>3. a = b
      BY <2>2, <2>3, <3>1, <3>2 DEF IsInjective
    <3>4. list[i] = list[j]
      BY <3>1, <3>2, <3>3
    <3>5. \A x, y \in 1..m : list[x] = list[y] => x = y
      BY <2>8
    <3> QED
      BY <3>4, <3>5
  <2>15. /\ rest \in Seq(Library) /\ Len(rest) = n - m
         /\ \A i \in 1..(n - m) : rest[i] = candidates[m + i]
    <3>1. CASE PoolSize <= n
      <4>1. m = PoolSize
        BY <2>1, <3>1
      <4> QED
        BY <1>2, <3>1, <4>1, FollowingFacts DEF n
    <3>2. CASE ~(PoolSize <= n)
      <4>1. m = n /\ n - m = 0 /\ 1..0 = {} /\ PoolSize + 1 > n
        BY <1>1, <1>2, <2>1, <3>2
      <4>2. rest = <<>>
        BY <1>1, <1>2, <4>1, SubSeqEmpty
      <4> HIDE DEF rest
      <4>3. rest \in Seq(Library) /\ Len(rest) = 0
        BY <4>2
      <4> QED
        BY <4>1, <4>3
    <3> QED
      BY <3>1, <3>2
  <2> DEFINE all == ids \o rest
  <2> HIDE DEF rest, m
  <2>16. /\ all \in Seq(Library) /\ Len(all) = n
         /\ \A i \in 1..n : all[i] = IF i <= m THEN ids[i] ELSE candidates[i]
    <3>a. /\ all \in Seq(Library) /\ Len(all) = Len(ids) + Len(rest)
          /\ \A i \in 1..(Len(ids) + Len(rest)) :
                all[i] = IF i <= Len(ids) THEN ids[i] ELSE rest[i - Len(ids)]
      BY <2>12, <2>15, ConcatProperties
    <3> HIDE DEF all
    <3>b. Len(ids) + Len(rest) = n /\ Len(ids) = m
      BY <1>1, <2>2, <2>12, <2>15
    <3>1. all \in Seq(Library) /\ Len(all) = n
      BY <3>a, <3>b
    <3>2. ASSUME NEW i \in 1..n PROVE all[i] = IF i <= m THEN ids[i] ELSE candidates[i]
      <4>1. all[i] = IF i <= m THEN ids[i] ELSE rest[i - m]
        BY <3>a, <3>b
      <4>2. CASE i <= m
        BY <4>1, <4>2
      <4>3. CASE ~(i <= m)
        <5>1. i - m \in 1..(n - m) /\ m + (i - m) = i
          BY <1>1, <2>2, <4>3
        <5> QED
          BY <2>15, <4>1, <4>3, <5>1
      <4> QED
        BY <4>2, <4>3
    <3> QED
      BY <3>1, <3>2
  <2> HIDE DEF all
  <2>17. \A i \in 1..n : i <= m => i \in 1..m
    BY <1>1, <2>2
  <2>18. \A i \in 1..n : \E j \in 1..n :
            all[i] = candidates[j] /\ (i <= PoolSize => j <= PoolSize) /\ (i <= m <=> j <= m)
    <3> SUFFICES ASSUME NEW i \in 1..n
                 PROVE  \E j \in 1..n : /\ all[i] = candidates[j]
                                        /\ i <= PoolSize => j <= PoolSize
                                        /\ i <= m <=> j <= m
      OBVIOUS
    <3>1. CASE i <= m
      <4>1. PICK j \in 1..m : ids[i] = pool[j]
        BY <2>10, <2>17, <3>1
      <4>2. j \in 1..n /\ j <= m /\ j <= PoolSize
        BY <1>1, <1>2, <2>2
      <4>3. all[i] = candidates[j]
        BY <2>1, <2>16, <3>1, <4>1
      <4> QED
        BY <3>1, <4>2, <4>3
    <3>2. CASE ~(i <= m)
      BY <2>16, <3>2
    <3> QED
      BY <3>1, <3>2
  <2>19. \A j \in 1..n : \E i \in 1..n : all[i] = candidates[j]
    <3> SUFFICES ASSUME NEW j \in 1..n PROVE \E i \in 1..n : all[i] = candidates[j]
      OBVIOUS
    <3>1. CASE j <= m
      <4>1. PICK i \in 1..m : ids[i] = pool[j]
        BY <2>11, <2>17, <3>1
      <4>2. i \in 1..n /\ i <= m /\ j \in 1..m
        BY <1>1, <2>2, <2>17, <3>1
      <4>3. all[i] = candidates[j]
        BY <2>1, <2>16, <4>1, <4>2
      <4> QED
        BY <4>2, <4>3
    <3>2. CASE ~(j <= m)
      BY <2>16, <3>2
    <3> QED
      BY <3>1, <3>2
  <2>20. IsInjective(all)
    <3>1. DOMAIN all = 1..n
      BY <1>1, <2>16
    <3> SUFFICES ASSUME NEW i \in 1..n, NEW j \in 1..n, all[i] = all[j] PROVE i = j
      BY <3>1 DEF IsInjective
    <3>2. PICK a \in 1..n : all[i] = candidates[a] /\ (i <= m <=> a <= m)
      BY <2>18
    <3>3. PICK b \in 1..n : all[j] = candidates[b] /\ (j <= m <=> b <= m)
      BY <2>18
    <3>4. a = b
      BY <1>1, <3>2, <3>3
    <3>5. CASE i <= m
      <4>1. j <= m
        BY <3>2, <3>3, <3>4, <3>5
      <4> QED
        BY <2>14, <2>16, <2>17, <3>5, <4>1
    <3>6. CASE ~(i <= m)
      <4>1. ~(j <= m)
        BY <3>2, <3>3, <3>4, <3>6
      <4> QED
        BY <1>1, <2>16, <3>6, <4>1
    <3> QED
      BY <3>5, <3>6
  <2>21. \A i \in 1..n : i > PoolSize => all[i] = candidates[i]
    BY <1>1, <1>2, <2>2, <2>16
  <2>22. all[1] = candidates[1]
    BY <1>1, <2>2, <2>13, <2>16
  <2>23. Diversifies(all, candidates)
    BY <2>16, <2>18, <2>19, <2>20, <2>21, <2>22 DEF Diversifies, n
  <2>24. Diversified(candidates) = all
    BY <1>3, <1>5 DEF all
  <2> QED
    BY <2>23, <2>24
<1> QED
  BY <1>4, <1>5

-----------------------------------------------------------------------------
\* The invariant of the rankings.

Requests ==
    [step : Steps \ {"idle"}, for : {"feed", "admin"}, long : SUBSET Library, session : Seq(Nat),
     taste : Tastes \cup {NoTaste}, candidates : Seq(Library), ranked : Seq(Library),
     toggled : SUBSET Library,
     start : [favorites : SUBSET Library, embedded : SUBSET Library, watches : Nat]]

RankTyped ==
    /\ favorites \subseteq Library /\ embedded \subseteq Library
    /\ watches \in Seq([video : Library, ms : Nat])
    /\ request.step \in Steps
    /\ request.step # "idle" => request \in Requests

\* What may have changed since the request began: embeddings and watches are
\* only added, and a favorite is still one unless it was toggled.
SinceItBegan ==
    request.step # "idle" =>
        /\ request.start.embedded \subseteq embedded
        /\ request.start.watches <= Len(watches)
        /\ request.start.favorites \ request.toggled \subseteq favorites
        /\ favorites \subseteq request.start.favorites \cup request.toggled

SessionWatched ==
    Profiled => \A i \in DOMAIN request.session : request.session[i] \in DOMAIN watches

Tasted == request.step \in {"tasted", "fetched", "answered"} => request.taste \in Tastes

\* A list that misses no video it should hold and holds no favorite.
Complete(r, list) ==
    /\ \A v \in r.start.embedded :
          v \notin r.start.favorites /\ v \notin r.toggled => \E i \in DOMAIN list : list[i] = v
    /\ \A i \in DOMAIN list : list[i] \in r.start.favorites => list[i] \in r.toggled

SortedFor(taste, list) ==
    \A i, j \in 1..Len(list) :
        i < j => Dot(taste, Vector[list[i]]) >= Dot(taste, Vector[list[j]])

CandidatesHold ==
    request.step = "fetched" =>
        /\ IsInjective(request.candidates) /\ request.candidates # <<>>
        /\ Complete(request, request.candidates)
        /\ SortedFor(request.taste, request.candidates)

RankInv ==
    /\ RankTyped /\ SinceItBegan /\ SessionWatched /\ Tasted /\ CandidatesHold
    /\ NewestWatched /\ RankingHolds

LEMMA RankInit == RecommendInit => RankInv
<1> SUFFICES ASSUME RecommendInit PROVE RankInv
  OBVIOUS
<1>1. request.step = "idle" /\ "idle" \in Steps
  BY DEF RecommendInit, Steps
<1>2. RankTyped
  <2>1. watches \in Seq([video : Library, ms : Nat])
    BY RecommendationsAssumption DEF RecommendInit
  <2> QED
    BY <1>1, <2>1 DEF RankTyped, RecommendInit
<1>3. ~Profiled /\ ~Answered
  BY <1>1 DEF Profiled, Answered
<1> QED
  BY <1>1, <1>2, <1>3
     DEF RankInv, SinceItBegan, SessionWatched, Tasted, CandidatesHold, NewestWatched,
         RankingHolds, NoneLost, NoFavoriteRanked, NearestPool

\* While a request is neither profiled nor answered little is asked of it.
LEMMA Unprofiled ==
    ASSUME request'.step \in {"idle", "began", "long"}, RankTyped', SinceItBegan'
    PROVE  RankInv'
<1>1. ~Profiled' /\ ~Answered'
  BY DEF Profiled, Answered
<1> QED
  BY <1>1
     DEF RankInv, SessionWatched, Tasted, CandidatesHold, NewestWatched,
         RankingHolds, NoneLost, NoFavoriteRanked, NearestPool

LEMMA BeginKeeps ==
    ASSUME RankInv, NEW for \in {"feed", "admin"}, Begin(for)
    PROVE  RankInv'
<1>1. /\ request' = [step |-> "began", for |-> for, long |-> {}, session |-> <<>>,
                     taste |-> NoTaste, candidates |-> <<>>, ranked |-> <<>>, toggled |-> {},
                     start |-> [favorites |-> favorites, embedded |-> embedded,
                                watches |-> Len(watches)]]
      /\ UNCHANGED <<favorites, watches, embedded>>
  BY DEF Begin
<1>2. /\ favorites \subseteq Library /\ embedded \subseteq Library
      /\ watches \in Seq([video : Library, ms : Nat]) /\ Len(watches) \in Nat
  BY DEF RankInv, RankTyped
<1>3. request'.step = "began" /\ "began" \in Steps \ {"idle"}
  BY <1>1 DEF Steps
<1>4. RankTyped'
  <2>1. [favorites |-> favorites, embedded |-> embedded, watches |-> Len(watches)]
          \in [favorites : SUBSET Library, embedded : SUBSET Library, watches : Nat]
    BY <1>2
  <2>2. request' \in Requests
    BY <1>1, <1>3, <2>1 DEF Requests
  <2> QED
    BY <1>1, <1>2, <1>3, <2>2 DEF RankTyped
<1>5. SinceItBegan'
  BY <1>1, <1>2 DEF SinceItBegan
<1> QED
  BY <1>3, <1>4, <1>5, Unprofiled

\* What a step of the request keeps of the request and the tables.
Continues ==
    /\ favorites' = favorites /\ watches' = watches /\ embedded' = embedded
    /\ request.step # "idle" /\ request \in Requests /\ request' \in Requests
    /\ request'.step # "idle" /\ request'.step \in Steps
    /\ request'.for = request.for
    /\ request'.start = request.start /\ request'.toggled = request.toggled

LEMMA ContinuesKeeps ==
    ASSUME RankInv, Continues
    PROVE  RankTyped' /\ SinceItBegan'
<1>1. RankTyped'
  BY DEF RankInv, RankTyped, Continues
<1>2. SinceItBegan'
  BY DEF RankInv, SinceItBegan, Continues
<1> QED
  BY <1>1, <1>2

LEMMA ReadFavoritesKeeps ==
    ASSUME RankInv, ReadFavorites
    PROVE  RankInv'
<1>1. request \in Requests /\ favorites \subseteq Library
  BY DEF RankInv, RankTyped, ReadFavorites
<1>2. /\ request' = [request EXCEPT !.step = "long", !.long = favorites \cap embedded]
      /\ UNCHANGED <<favorites, watches, embedded>>
      /\ request.step = "began"
  BY DEF ReadFavorites
<1>3. request'.step = "long" /\ "long" \in Steps \ {"idle"}
  BY <1>1, <1>2 DEF Requests, Steps
<1>4. Continues
  BY <1>1, <1>2, <1>3 DEF Continues, Requests
<1> QED
  BY <1>3, <1>4, ContinuesKeeps, Unprofiled

\* The session of the watches that are read.
LEMMA SessionFacts ==
    ASSUME RankInv, request.step # "idle", NEW rows \in SetToSeqs(WatchesOf(embedded)),
           NewestFirst(rows), NEW session, session = Blendable(FirstOf(WatchLimit, rows))
    PROVE  /\ session \in Seq(Nat)
           /\ \A i \in DOMAIN session : session[i] \in DOMAIN watches
           /\ \A i \in 1..request.start.watches :
                 watches[i].video \in request.start.embedded /\ i \notin ToSet(session) =>
                    /\ \A j \in ToSet(session) : i < j
                    /\ \/ Len(session) = WatchLimit
                       \/ \E j \in i..Len(watches) : watches[j].ms = 0
<1> DEFINE S == WatchesOf(embedded)
           first == FirstOf(WatchLimit, rows)
           n == Len(session)
<1>1. /\ watches \in Seq([video : Library, ms : Nat]) /\ Len(watches) \in Nat
      /\ DOMAIN watches = 1..Len(watches)
      /\ request.start.embedded \subseteq embedded
      /\ request.start.watches <= Len(watches) /\ request.start.watches \in Nat
      /\ WatchLimit \in Nat
  BY RecommendationsAssumption DEF RankInv, RankTyped, SinceItBegan, Requests
<1>2. IsFiniteSet(S) /\ S \subseteq Nat /\ S \subseteq DOMAIN watches
  <2>1. IsFiniteSet(1..Len(watches))
    BY <1>1, FS_Interval
  <2>2. S \subseteq 1..Len(watches)
    BY <1>1 DEF WatchesOf
  <2> QED
    BY <1>1, <2>1, <2>2, FS_Subset
<1>3. rows \in Seq(S) /\ ToSet(rows) = S
  BY <1>2, OrderingFacts
<1>4. rows \in Seq(Nat) /\ Len(rows) \in Nat /\ DOMAIN rows = 1..Len(rows)
      /\ \A p \in 1..Len(rows) : rows[p] \in S
  BY <1>2, <1>3
<1> HIDE DEF S
<1>5. /\ first \in Seq(Nat) /\ Begins(first, rows)
      /\ Len(first) = IF WatchLimit <= Len(rows) THEN WatchLimit ELSE Len(rows)
  BY <1>1, <1>4, FirstOfFacts
<1> HIDE DEF first
<1>6. /\ session \in Seq(Nat) /\ Begins(session, first)
      /\ \/ n = Len(first)
         \/ n + 1 \in 1..Len(first) /\ watches[first[n + 1]].ms = 0
  BY <1>5, BlendableFacts DEF first
<1>7. n \in Nat /\ n <= Len(first) /\ n <= Len(rows) /\ DOMAIN session = 1..n
  BY <1>4, <1>5, <1>6 DEF Begins
<1>8. \A i \in 1..n : session[i] = rows[i]
  <2> SUFFICES ASSUME NEW i \in 1..n PROVE session[i] = rows[i]
    OBVIOUS
  <2>1. i \in 1..Len(first)
    BY <1>4, <1>5, <1>7
  <2> QED
    BY <1>5, <1>6, <2>1 DEF Begins
<1> HIDE DEF n
<1>9. \A i \in DOMAIN session : session[i] \in DOMAIN watches
  <2>1. \A i \in 1..n : i \in 1..Len(rows)
    BY <1>4, <1>7
  <2> QED
    BY <1>2, <1>4, <1>7, <1>8, <2>1
<1>10. ASSUME NEW i \in 1..request.start.watches,
              watches[i].video \in request.start.embedded, i \notin ToSet(session)
       PROVE  /\ \A j \in ToSet(session) : i < j
              /\ \/ n = WatchLimit
                 \/ \E j \in i..Len(watches) : watches[j].ms = 0
  <2>1. i \in S /\ i \in Nat
    BY <1>1, <1>10 DEF S, WatchesOf
  <2>2. PICK p \in 1..Len(rows) : rows[p] = i
    BY <1>3, <1>4, <2>1 DEF ToSet
  <2>3. p > n
    <3>1. SUFFICES ASSUME p \in 1..n PROVE FALSE
      BY <1>4, <1>7
    <3>2. session[p] = i
      BY <1>8, <2>2, <3>1
    <3> QED
      BY <1>7, <1>10, <3>1, <3>2 DEF ToSet
  <2>4. \A q \in 1..Len(rows) : q < p => rows[q] > i
    BY <1>4, <2>2 DEF NewestFirst
  <2>5. \A j \in ToSet(session) : i < j
    <3> SUFFICES ASSUME NEW q \in 1..n PROVE i < session[q]
      BY <1>7 DEF ToSet
    <3>1. q \in 1..Len(rows) /\ q < p
      BY <1>4, <1>7, <2>3
    <3>2. session[q] = rows[q] /\ rows[q] > i /\ rows[q] \in Nat
      BY <1>2, <1>4, <1>8, <2>4, <3>1
    <3> QED
      BY <2>1, <3>2
  <2>6. CASE n = Len(first)
    <3>1. n = WatchLimit
      <4>1. CASE WatchLimit <= Len(rows)
        BY <1>5, <2>6, <4>1
      <4>2. CASE ~(WatchLimit <= Len(rows))
        <5>1. n = Len(rows)
          BY <1>5, <2>6, <4>2
        <5>2. p <= Len(rows) /\ p \in Nat
          BY <1>4
        <5> QED
          BY <1>4, <2>3, <5>1, <5>2
      <4> QED
        BY <4>1, <4>2
    <3> QED
      BY <2>5, <3>1
  <2>7. CASE n + 1 \in 1..Len(first) /\ watches[first[n + 1]].ms = 0
    <3>1. first[n + 1] = rows[n + 1] /\ n + 1 \in 1..Len(rows)
      BY <1>4, <1>5, <2>7 DEF Begins
    <3>2. rows[n + 1] >= i
      <4>1. n + 1 = p \/ n + 1 < p
        BY <1>4, <1>7, <2>3
      <4>2. CASE n + 1 = p
        BY <2>1, <2>2, <4>2
      <4>3. CASE n + 1 < p
        <5>1. rows[n + 1] > i /\ rows[n + 1] \in Nat
          BY <1>2, <1>4, <2>4, <3>1, <4>3
        <5> QED
          BY <2>1, <5>1
      <4> QED
        BY <4>1, <4>2, <4>3
    <3>3. rows[n + 1] \in 1..Len(watches)
      BY <1>1, <1>2, <1>4, <3>1
    <3>4. rows[n + 1] \in i..Len(watches)
      BY <2>1, <3>2, <3>3
    <3> QED
      BY <2>7, <3>1, <3>4, <2>5
  <2> QED
    BY <1>6, <2>5, <2>6, <2>7 DEF n
<1> QED
  BY <1>6, <1>9, <1>10 DEF n

LEMMA ReadWatchesKeeps ==
    ASSUME RankInv, ReadWatches
    PROVE  RankInv'
<1>1. PICK rows \in SetToSeqs(WatchesOf(embedded)) :
         /\ NewestFirst(rows)
         /\ request' = [request EXCEPT !.step = "profiled",
                                       !.session = Blendable(FirstOf(WatchLimit, rows))]
  BY DEF ReadWatches
<1> DEFINE session == Blendable(FirstOf(WatchLimit, rows))
<1>2. request.step = "long" /\ UNCHANGED <<favorites, watches, embedded>>
  BY DEF ReadWatches
<1>3. request \in Requests
  BY <1>2 DEF RankInv, RankTyped
<1>4. /\ session \in Seq(Nat)
      /\ \A i \in DOMAIN session : session[i] \in DOMAIN watches
      /\ \A i \in 1..request.start.watches :
            watches[i].video \in request.start.embedded /\ i \notin ToSet(session) =>
               /\ \A j \in ToSet(session) : i < j
               /\ \/ Len(session) = WatchLimit
                  \/ \E j \in i..Len(watches) : watches[j].ms = 0
  BY <1>1, <1>2, SessionFacts
<1> HIDE DEF session
<1>5. request' = [request EXCEPT !.step = "profiled", !.session = session]
  BY <1>1 DEF session
<1>6. /\ request'.step = "profiled" /\ "profiled" \in Steps \ {"idle"}
      /\ request'.session = session /\ request'.start = request.start
  BY <1>3, <1>5 DEF Requests, Steps
<1>7. Continues
  BY <1>2, <1>3, <1>4, <1>5, <1>6 DEF Continues, Requests
<1>8. SessionWatched'
  BY <1>2, <1>4, <1>6 DEF SessionWatched
<1>9. NewestWatched'
  BY <1>2, <1>4, <1>6 DEF NewestWatched
<1>10. ~Answered'
  BY <1>6 DEF Answered
<1>11. Tasted' /\ CandidatesHold' /\ RankingHolds'
  BY <1>6, <1>10 DEF Tasted, CandidatesHold, RankingHolds, NoneLost, NoFavoriteRanked, NearestPool
<1> QED
  BY <1>7, <1>8, <1>9, <1>11, ContinuesKeeps DEF RankInv

LEMMA BlendKeeps ==
    ASSUME RankInv, Blend
    PROVE  RankInv'
<1>1. /\ request.step = "profiled" /\ UNCHANGED <<favorites, watches, embedded>>
      /\ \/ request' = [request EXCEPT !.step = "refused"]
         \/ \E taste \in IF Cardinality(Evidence) = 1 THEN Evidence ELSE Tastes :
               request' = [request EXCEPT !.step = "tasted", !.taste = taste]
  BY DEF Blend
<1>2. request \in Requests /\ Profiled
  BY <1>1 DEF RankInv, RankTyped, Profiled, Steps
<1>3. Evidence \subseteq Tastes
  <2>1. \A v \in request.long : Vector[v] \in Tastes
    BY <1>2, RecommendationsAssumption DEF Requests
  <2>2. ASSUME NEW i \in DOMAIN request.session
        PROVE  Vector[watches[request.session[i]].video] \in Tastes
    <3>1. request.session[i] \in DOMAIN watches
      BY <1>2 DEF RankInv, SessionWatched
    <3>2. watches[request.session[i]].video \in Library
      <4> DEFINE Watches == [video : Library, ms : Nat]
      <4>1. watches \in Seq(Watches)
        BY DEF RankInv, RankTyped
      <4> HIDE DEF Watches
      <4>2. ASSUME NEW k \in DOMAIN watches PROVE watches[k] \in Watches
        <5>1. k \in 1..Len(watches)
          BY <4>1
        <5> QED
          BY <4>1, <5>1
      <4>3. watches[request.session[i]] \in Watches
        BY <3>1, <4>2
      <4> QED
        BY <4>3 DEF Watches
    <3> QED
      BY <3>2, RecommendationsAssumption
  <2> QED
    BY <2>1, <2>2 DEF Evidence
<1>4. \/ request' = [request EXCEPT !.step = "refused"]
      \/ \E taste \in Tastes :
            request' = [request EXCEPT !.step = "tasted", !.taste = taste]
  BY <1>1, <1>3
<1>5. /\ request'.step \in {"refused", "tasted"} /\ request' \in Requests
      /\ request'.step = "tasted" => request'.taste \in Tastes
      /\ request'.for = request.for /\ request'.start = request.start
      /\ request'.toggled = request.toggled /\ request'.session = request.session
  <2>1. CASE request' = [request EXCEPT !.step = "refused"]
    BY <1>2, <2>1 DEF Requests, Steps
  <2>2. CASE \E taste \in Tastes :
               request' = [request EXCEPT !.step = "tasted", !.taste = taste]
    <3>1. PICK taste \in Tastes :
             request' = [request EXCEPT !.step = "tasted", !.taste = taste]
      BY <2>2
    <3> QED
      BY <1>2, <3>1 DEF Requests, Steps
  <2> QED
    BY <1>4, <2>1, <2>2
<1>6. Continues
  BY <1>1, <1>2, <1>5 DEF Continues, Steps
<1>7. Profiled' /\ ~Answered'
  BY <1>5 DEF Profiled, Answered, Steps
<1>8. SessionWatched' /\ NewestWatched'
  BY <1>1, <1>2, <1>5 DEF RankInv, SessionWatched, NewestWatched
<1>9. Tasted' /\ CandidatesHold' /\ RankingHolds'
  BY <1>5, <1>7
     DEF Tasted, CandidatesHold, RankingHolds, NoneLost, NoFavoriteRanked, NearestPool
<1> QED
  BY <1>6, <1>8, <1>9, ContinuesKeeps DEF RankInv

\* What the candidates query finds while favorites and embeddings change.
LEMMA CandidatesFacts ==
    ASSUME RankInv, request.step = "tasted", NEW list \in SetToSeqs(CandidateVideos)
    PROVE  list \in Seq(Library) /\ IsInjective(list) /\ Complete(request, list)
<1>1. /\ request \in Requests
      /\ favorites \subseteq Library /\ embedded \subseteq Library
      /\ request.start.embedded \subseteq embedded
      /\ request.start.favorites \ request.toggled \subseteq favorites
      /\ favorites \subseteq request.start.favorites \cup request.toggled
  BY DEF RankInv, RankTyped, SinceItBegan
<1>2. CandidateVideos \subseteq Library /\ IsFiniteSet(CandidateVideos)
  <2>1. CandidateVideos \subseteq Library
    BY <1>1 DEF CandidateVideos
  <2> QED
    BY <2>1, FS_Subset, RecommendationsAssumption
<1>3. list \in Seq(CandidateVideos) /\ IsInjective(list) /\ ToSet(list) = CandidateVideos
  BY <1>2, OrderingFacts
<1>4. list \in Seq(Library)
  BY <1>2, <1>3
<1>5. \A v \in embedded : v \notin favorites => \E i \in DOMAIN list : list[i] = v
  BY <1>3 DEF CandidateVideos, ToSet
<1>6. \A i \in DOMAIN list : list[i] \notin favorites
  BY <1>3 DEF CandidateVideos, ToSet
<1>7. Complete(request, list)
  BY <1>1, <1>5, <1>6 DEF Complete
<1> QED
  BY <1>3, <1>4, <1>7

\* A complete list is one that NoneLost and NoFavoriteRanked ask for.
LEMMA CompleteAnswers ==
    ASSUME NEW r, NEW list, Complete(r, list)
    PROVE  /\ r.start.embedded \ (r.start.favorites \cup r.toggled) \subseteq ToSet(list)
           /\ ToSet(list) \cap (r.start.favorites \ r.toggled) = {}
  BY DEF Complete, ToSet

LEMMA ReadCandidatesKeeps ==
    ASSUME RankInv, ReadCandidates
    PROVE  RankInv'
<1>1. /\ request.step = "tasted" /\ UNCHANGED <<favorites, watches, embedded>>
  BY DEF ReadCandidates
<1>2. PICK list \in SetToSeqs(CandidateVideos) :
         /\ \A i, j \in DOMAIN list : i < j => Nearer(list[i], list[j])
         /\ request' =
                IF request.for = "admin"
                THEN [request EXCEPT !.step = "answered", !.ranked = FirstOf(Limit, list)]
                ELSE [request EXCEPT !.step = IF list = <<>> THEN "refused" ELSE "fetched",
                                     !.candidates = list]
  BY DEF ReadCandidates
<1>3. list \in Seq(Library) /\ IsInjective(list) /\ Complete(request, list)
  BY <1>1, CandidatesFacts
<1>4. request \in Requests /\ request.taste \in Tastes /\ Profiled
  BY <1>1 DEF RankInv, RankTyped, Tasted, Profiled, Steps
<1>5. SortedFor(request.taste, list)
  BY <1>2, <1>3 DEF SortedFor, Nearer, Relevance
<1> DEFINE first == FirstOf(Limit, list)
<1>6. first \in Seq(Library) /\ Begins(first, list)
  <2>1. Limit \in Nat
    BY RecommendationsAssumption
  <2> QED
    BY <1>3, <2>1, FirstOfFacts
<1> HIDE DEF first
<1>7. CASE request.for = "admin"
  <2>1. request' = [request EXCEPT !.step = "answered", !.ranked = first]
    BY <1>2, <1>7 DEF first
  <2>2. /\ request'.step = "answered" /\ "answered" \in Steps \ {"idle"}
        /\ request'.for = "admin" /\ request'.taste = request.taste
        /\ request'.ranked = first /\ request' \in Requests
        /\ request'.start = request.start /\ request'.toggled = request.toggled
        /\ request'.session = request.session
    BY <1>4, <1>6, <1>7, <2>1 DEF Requests, Steps
  <2>3. Continues
    BY <1>1, <1>4, <2>2, <1>7 DEF Continues
  <2>4. Profiled' /\ Profiled
    BY <1>4, <2>2 DEF Profiled
  <2>5. SessionWatched' /\ NewestWatched'
    BY <1>1, <2>2, <2>4 DEF RankInv, SessionWatched, NewestWatched
  <2>6. Tasted' /\ CandidatesHold'
    BY <1>4, <2>2 DEF Tasted, CandidatesHold
  <2>7. DOMAIN first = 1..Len(first) /\ DOMAIN list = 1..Len(list)
        /\ \A i \in DOMAIN first : i \in DOMAIN list /\ first[i] = list[i]
    BY <1>3, <1>6 DEF Begins
  <2>8. IsInjective(first)
    BY <1>3, <2>7 DEF IsInjective
  <2>9. ToSet(first) \cap (request.start.favorites \ request.toggled) = {}
    <3>1. \A i \in DOMAIN list :
             list[i] \in request.start.favorites => list[i] \in request.toggled
      BY <1>3 DEF Complete
    <3> QED
      BY <2>7, <3>1 DEF ToSet
  <2>10. RankingHolds'
    BY <2>2, <2>8, <2>9 DEF RankingHolds, NoneLost, NoFavoriteRanked, NearestPool
  <2> QED
    BY <2>3, <2>5, <2>6, <2>10, ContinuesKeeps DEF RankInv
<1>8. CASE request.for # "admin"
  <2>1. request' = [request EXCEPT !.step = IF list = <<>> THEN "refused" ELSE "fetched",
                                   !.candidates = list]
    BY <1>2, <1>8
  <2>2. /\ request'.step = IF list = <<>> THEN "refused" ELSE "fetched"
        /\ request'.for = request.for /\ request'.taste = request.taste
        /\ request'.candidates = list
        /\ request'.start = request.start /\ request'.toggled = request.toggled
        /\ request'.session = request.session
    BY <1>4, <2>1 DEF Requests
  <2>3. request'.step \in {"refused", "fetched"} /\ request' \in Requests
    <3>1. {"refused", "fetched"} \subseteq Steps \ {"idle"}
      BY DEF Steps
    <3>2. request'.step \in {"refused", "fetched"}
      BY <2>2
    <3> QED
      BY <1>3, <1>4, <2>1, <3>1, <3>2 DEF Requests
  <2>4. Continues
    BY <1>1, <1>4, <2>2, <2>3 DEF Continues, Steps
  <2>5. Profiled' /\ Profiled /\ ~Answered'
    BY <1>4, <2>3 DEF Profiled, Steps, Answered
  <2>6. SessionWatched' /\ NewestWatched'
    BY <1>1, <2>2, <2>5 DEF RankInv, SessionWatched, NewestWatched
  <2>7. Tasted'
    BY <1>4, <2>2 DEF Tasted
  <2>8. CandidatesHold'
    BY <1>3, <1>5, <2>2 DEF CandidatesHold, Complete
  <2>9. RankingHolds'
    BY <2>5 DEF RankingHolds, NoneLost, NoFavoriteRanked, NearestPool
  <2> QED
    BY <2>4, <2>6, <2>7, <2>8, <2>9, ContinuesKeeps DEF RankInv
<1> QED
  BY <1>7, <1>8

\* A rearranged list is as complete.
LEMMA RankedComplete ==
    ASSUME NEW r, NEW list \in Seq(Library), NEW candidates \in Seq(Library),
           Complete(r, candidates), Diversifies(list, candidates)
    PROVE  Complete(r, list)
<1>1. DOMAIN list = 1..Len(list) /\ DOMAIN candidates = 1..Len(candidates)
  OBVIOUS
<1>2. ASSUME NEW v \in r.start.embedded, v \notin r.start.favorites, v \notin r.toggled
      PROVE  \E i \in DOMAIN list : list[i] = v
  <2>1. PICK j \in DOMAIN candidates : candidates[j] = v
    BY <1>2 DEF Complete
  <2>2. PICK i \in 1..Len(list) : list[i] = candidates[j]
    BY <1>1 DEF Diversifies
  <2> QED
    BY <1>1, <2>1, <2>2
<1>3. ASSUME NEW i \in DOMAIN list, list[i] \in r.start.favorites
      PROVE  list[i] \in r.toggled
  <2>1. PICK j \in 1..Len(candidates) : list[i] = candidates[j]
    BY <1>1 DEF Diversifies
  <2> QED
    BY <1>1, <1>3, <2>1 DEF Complete
<1> QED
  BY <1>2, <1>3 DEF Complete

\* What is rearranged within the pool keeps the nearest first and the rest in order.
LEMMA RankedNearest ==
    ASSUME NEW taste \in Tastes, NEW list \in Seq(Library), NEW candidates \in Seq(Library),
           SortedFor(taste, candidates), Diversifies(list, candidates), candidates # <<>>
    PROVE  /\ \A i \in DOMAIN list : Dot(taste, Vector[list[1]]) >= Dot(taste, Vector[list[i]])
           /\ \A i, j \in DOMAIN list : i < j /\ j > PoolSize =>
                 Dot(taste, Vector[list[i]]) >= Dot(taste, Vector[list[j]])
<1>1. /\ DOMAIN list = 1..Len(list) /\ Len(list) = Len(candidates) /\ Len(list) \in Nat
      /\ 1 \in 1..Len(candidates)
  BY DEF Diversifies
<1>2. PoolSize \in Nat
  BY RecommendationsAssumption
<1> DEFINE Worth(v) == Dot(taste, Vector[v])
<1>3. \A j \in 1..Len(candidates) : Worth(candidates[j]) \in Int
  BY TasteMeasures
<1>4. \A i, j \in 1..Len(candidates) : i < j => Worth(candidates[i]) >= Worth(candidates[j])
  BY DEF SortedFor
<1> HIDE DEF Worth
<1>5. ASSUME NEW i \in 1..Len(list) PROVE Worth(list[1]) >= Worth(list[i])
  <2>1. PICK j \in 1..Len(candidates) : list[i] = candidates[j]
    BY DEF Diversifies
  <2>2. list[1] = candidates[1]
    BY DEF Diversifies
  <2>3. CASE j = 1
    BY <1>1, <1>3, <2>1, <2>2, <2>3
  <2>4. CASE j # 1
    <3>1. 1 < j
      BY <2>4
    <3> QED
      BY <1>1, <1>4, <2>1, <2>2, <3>1
  <2> QED
    BY <2>3, <2>4
<1>6. ASSUME NEW i \in 1..Len(list), NEW j \in 1..Len(list), i < j, j > PoolSize
      PROVE  Worth(list[i]) >= Worth(list[j])
  <2>1. list[j] = candidates[j]
    BY <1>6 DEF Diversifies
  <2>2. CASE i <= PoolSize
    <3>1. PICK k \in 1..Len(candidates) : list[i] = candidates[k] /\ k <= PoolSize
      BY <2>2 DEF Diversifies
    <3>2. k < j
      BY <1>1, <1>2, <1>6, <3>1
    <3> QED
      BY <1>1, <1>4, <2>1, <3>1, <3>2
  <2>3. CASE ~(i <= PoolSize)
    <3>1. list[i] = candidates[i]
      BY <1>1, <1>2, <2>3 DEF Diversifies
    <3> QED
      BY <1>1, <1>4, <1>6, <2>1, <3>1
  <2> QED
    BY <2>2, <2>3
<1> QED
  BY <1>1, <1>5, <1>6 DEF Worth

LEMMA RankKeeps ==
    ASSUME RankInv, Rank
    PROVE  RankInv'
<1> DEFINE candidates == request.candidates
           list == Diversified(candidates)
<1>1. /\ request.step = "fetched" /\ UNCHANGED <<favorites, watches, embedded>>
      /\ request' = [request EXCEPT !.step = "answered", !.ranked = list]
  BY DEF Rank
<1>2. request \in Requests /\ request.taste \in Tastes /\ Profiled
  BY <1>1 DEF RankInv, RankTyped, Tasted, Profiled, Steps
<1>3. /\ candidates \in Seq(Library) /\ IsInjective(candidates) /\ candidates # <<>>
      /\ Complete(request, candidates) /\ SortedFor(request.taste, candidates)
  BY <1>1, <1>2 DEF RankInv, CandidatesHold, Requests
<1>4. Diversifies(list, candidates)
  <2>1. \A i, j \in 1..Len(candidates) : i < j => Nearer(candidates[i], candidates[j])
    BY <1>3 DEF SortedFor, Nearer, Relevance
  <2> QED
    BY <1>2, <1>3, <2>1, DiversifiedFacts
<1> HIDE DEF list, candidates
<1>5. list \in Seq(Library) /\ IsInjective(list)
  BY <1>4 DEF Diversifies
<1>6. /\ request'.step = "answered" /\ "answered" \in Steps \ {"idle"}
      /\ request'.for = request.for /\ request'.taste = request.taste
      /\ request'.ranked = list /\ request' \in Requests
      /\ request'.start = request.start /\ request'.toggled = request.toggled
      /\ request'.session = request.session
  BY <1>1, <1>2, <1>5 DEF Requests, Steps
<1>7. Continues
  BY <1>1, <1>2, <1>6 DEF Continues
<1>8. SessionWatched' /\ NewestWatched'
  <2>1. Profiled'
    BY <1>6 DEF Profiled
  <2> QED
    BY <1>1, <1>2, <1>6, <2>1 DEF RankInv, SessionWatched, NewestWatched
<1>9. Tasted' /\ CandidatesHold'
  BY <1>2, <1>6 DEF Tasted, CandidatesHold
<1>10. Complete(request, list)
  BY <1>3, <1>4, <1>5, RankedComplete
<1>11. NoneLost' /\ NoFavoriteRanked'
  BY <1>6, <1>10, CompleteAnswers DEF NoneLost, NoFavoriteRanked
<1>12. /\ \A i \in DOMAIN list :
             Dot(request.taste, Vector[list[1]]) >= Dot(request.taste, Vector[list[i]])
       /\ \A i, j \in DOMAIN list : i < j /\ j > PoolSize =>
             Dot(request.taste, Vector[list[i]]) >= Dot(request.taste, Vector[list[j]])
  BY <1>2, <1>3, <1>4, <1>5, RankedNearest
<1>13. NearestPool'
  BY <1>6, <1>12 DEF NearestPool, Nearer, Relevance
<1>14. RankingHolds'
  BY <1>5, <1>6, <1>11, <1>13 DEF RankingHolds
<1> QED
  BY <1>7, <1>8, <1>9, <1>14, ContinuesKeeps DEF RankInv

\* A toggle excuses what it does to a list that was read before or after it.
LEMMA ToggleFavoriteKeeps ==
    ASSUME RankInv, NEW v \in Library, ToggleFavorite(v)
    PROVE  RankInv'
<1>1. /\ favorites' = SymDiff(favorites, {v}) /\ UNCHANGED <<watches, embedded>>
      /\ request' = IF request.step = "idle" THEN request
                    ELSE [request EXCEPT !.toggled = @ \cup {v}]
  BY DEF ToggleFavorite
<1>2. favorites' \subseteq favorites \cup {v} /\ favorites \subseteq favorites' \cup {v}
  BY <1>1 DEF SymDiff
<1>3. CASE request.step = "idle"
  <2>1. request' = request
    BY <1>1, <1>3
  <2>2. RankTyped'
    BY <1>1, <1>2, <1>3, <2>1 DEF RankInv, RankTyped
  <2>3. SinceItBegan'
    BY <1>3, <2>1 DEF SinceItBegan
  <2>4. request'.step \in {"idle", "began", "long"}
    BY <1>3, <2>1
  <2> QED
    BY <2>2, <2>3, <2>4, Unprofiled
<1>4. CASE request.step # "idle"
  <2>1. request \in Requests
    BY <1>4 DEF RankInv, RankTyped
  <2>2. request' = [request EXCEPT !.toggled = request.toggled \cup {v}]
    BY <1>1, <1>4
  <2>3. /\ request' \in Requests /\ request'.toggled = request.toggled \cup {v}
        /\ request'.step = request.step /\ request'.for = request.for
        /\ request'.start = request.start /\ request'.session = request.session
        /\ request'.taste = request.taste /\ request'.candidates = request.candidates
        /\ request'.ranked = request.ranked
    BY <2>1, <2>2 DEF Requests
  <2>4. RankTyped'
    BY <1>1, <1>2, <1>4, <2>3 DEF RankInv, RankTyped
  <2>5. SinceItBegan'
    BY <1>1, <1>2, <1>4, <2>3 DEF RankInv, SinceItBegan
  <2>6. SessionWatched' /\ NewestWatched' /\ Tasted'
    BY <1>1, <2>3 DEF RankInv, SessionWatched, NewestWatched, Tasted, Profiled
  <2>7. CandidatesHold'
    BY <2>3 DEF RankInv, CandidatesHold, Complete
  <2>8. NearestPool'
    BY <2>3 DEF RankInv, RankingHolds, NearestPool, Answered, Nearer, Relevance
  <2>9. RankingHolds'
    BY <2>3, <2>8 DEF RankInv, RankingHolds, NoneLost, NoFavoriteRanked, Answered
  <2> QED
    BY <2>4, <2>5, <2>6, <2>7, <2>9 DEF RankInv
<1> QED
  BY <1>3, <1>4

LEMMA CreateWatchKeeps ==
    ASSUME RankInv, NEW v \in Library, NEW ms \in Durations, CreateWatch(v, ms)
    PROVE  RankInv'
<1> DEFINE watch == [video |-> v, ms |-> ms]
           Watches == [video : Library, ms : Nat]
<1>1. watches' = Append(watches, watch) /\ UNCHANGED <<favorites, embedded, request>>
  BY DEF CreateWatch
<1>2. watch \in Watches
  BY RecommendationsAssumption
<1>3. watches \in Seq(Watches)
  BY DEF RankInv, RankTyped
<1> HIDE DEF watch, Watches
<1>4. /\ watches' \in Seq(Watches) /\ Len(watches') = Len(watches) + 1 /\ Len(watches) \in Nat
      /\ \A i \in 1..Len(watches) : watches'[i] = watches[i]
      /\ DOMAIN watches = 1..Len(watches) /\ DOMAIN watches' = 1..(Len(watches) + 1)
  BY <1>1, <1>2, <1>3
<1>5. RankTyped'
  BY <1>1, <1>4 DEF RankInv, RankTyped, Watches
<1>6. request.step # "idle" => request.start.watches \in Nat
  BY DEF RankInv, RankTyped, Requests
<1>7. SinceItBegan'
  BY <1>1, <1>4, <1>6 DEF RankInv, SinceItBegan
<1>8. SessionWatched'
  BY <1>1, <1>4 DEF RankInv, SessionWatched, Profiled
<1>9. NewestWatched'
  <2> SUFFICES ASSUME Profiled, NEW i \in 1..request.start.watches,
                      watches'[i].video \in request.start.embedded, i \notin ToSet(request.session)
               PROVE  /\ \A j \in ToSet(request.session) : i < j
                      /\ \/ Len(request.session) = WatchLimit
                         \/ \E j \in i..Len(watches') : watches'[j].ms = 0
    BY <1>1 DEF NewestWatched, Profiled
  <2>1. request.step # "idle"
    BY DEF Profiled
  <2>2. i \in 1..Len(watches) /\ i \in Nat
    BY <1>4, <1>6, <2>1 DEF RankInv, SinceItBegan
  <2>3. watches[i].video \in request.start.embedded
    BY <1>4, <2>2
  <2>4. /\ \A j \in ToSet(request.session) : i < j
        /\ \/ Len(request.session) = WatchLimit
           \/ \E j \in i..Len(watches) : watches[j].ms = 0
    BY <2>3 DEF RankInv, NewestWatched
  <2>5. \A j \in i..Len(watches) : j \in i..Len(watches') /\ watches'[j] = watches[j]
    BY <1>4, <2>2
  <2> QED
    BY <2>4, <2>5
<1>10. Tasted' /\ CandidatesHold' /\ RankingHolds'
  BY <1>1
     DEF RankInv, Tasted, CandidatesHold, RankingHolds, NoneLost, NoFavoriteRanked, NearestPool,
         Answered, Nearer, Relevance
<1> QED
  BY <1>5, <1>7, <1>8, <1>9, <1>10 DEF RankInv

LEMMA StoreEmbeddingKeeps ==
    ASSUME RankInv, NEW v \in Library, StoreEmbedding(v)
    PROVE  RankInv'
<1>1. embedded' = embedded \cup {v} /\ UNCHANGED <<favorites, watches, request>>
  BY DEF StoreEmbedding
<1>2. RankTyped'
  BY <1>1 DEF RankInv, RankTyped
<1>3. SinceItBegan'
  BY <1>1 DEF RankInv, SinceItBegan
<1>4. SessionWatched' /\ NewestWatched' /\ Tasted'
  BY <1>1 DEF RankInv, SessionWatched, NewestWatched, Tasted, Profiled
<1>5. CandidatesHold' /\ RankingHolds'
  BY <1>1
     DEF RankInv, CandidatesHold, RankingHolds, NoneLost, NoFavoriteRanked, NearestPool,
         Answered, Nearer, Relevance
<1> QED
  BY <1>2, <1>3, <1>4, <1>5 DEF RankInv

LEMMA RankStutter ==
    ASSUME RankInv, UNCHANGED recommendVars
    PROVE  RankInv'
<1>1. UNCHANGED <<favorites, watches, embedded, request>>
  BY DEF recommendVars
<1>2. RankTyped' /\ SinceItBegan' /\ SessionWatched' /\ Tasted' /\ CandidatesHold'
  BY <1>1 DEF RankInv, RankTyped, SinceItBegan, SessionWatched, Tasted, CandidatesHold, Profiled
<1>3. NewestWatched'
  BY <1>1 DEF RankInv, NewestWatched, Profiled
<1>4. RankingHolds'
  BY <1>1
     DEF RankInv, RankingHolds, NoneLost, NoFavoriteRanked, NearestPool, Answered, Nearer,
         Relevance
<1> QED
  BY <1>2, <1>3, <1>4 DEF RankInv

\* Every reachable state of a ranking keeps the invariant.
THEOREM RankInvAlways == RecommendSpec => []RankInv
<1>1. RankInv /\ [RecommendNext]_recommendVars => RankInv'
  <2> SUFFICES ASSUME RankInv, [RecommendNext]_recommendVars PROVE RankInv'
    OBVIOUS
  <2>1. ASSUME NEW for \in {"feed", "admin"}, Begin(for) PROVE RankInv'
    BY <2>1, BeginKeeps
  <2>2. CASE ReadFavorites
    BY <2>2, ReadFavoritesKeeps
  <2>3. CASE ReadWatches
    BY <2>3, ReadWatchesKeeps
  <2>4. CASE Blend
    BY <2>4, BlendKeeps
  <2>5. CASE ReadCandidates
    BY <2>5, ReadCandidatesKeeps
  <2>6. CASE Rank
    BY <2>6, RankKeeps
  <2>7. ASSUME NEW v \in Library, ToggleFavorite(v) PROVE RankInv'
    BY <2>7, ToggleFavoriteKeeps
  <2>8. ASSUME NEW v \in Library, StoreEmbedding(v) PROVE RankInv'
    BY <2>8, StoreEmbeddingKeeps
  <2>9. ASSUME NEW v \in Library, NEW ms \in Durations, CreateWatch(v, ms) PROVE RankInv'
    BY <2>9, CreateWatchKeeps
  <2>10. CASE UNCHANGED recommendVars
    BY <2>10, RankStutter
  <2> QED
    BY <2>1, <2>2, <2>3, <2>4, <2>5, <2>6, <2>7, <2>8, <2>9, <2>10 DEF RecommendNext
<1> QED
  BY <1>1, RankInit, PTL DEF RecommendSpec

\* ranked_feed_video_ids_for_user and rank_videos_for_user, whatever is toggled,
\* watched or embedded between their queries: a ranking of the feed misses no video
\* that had an embedding when it began and was never a favorite since; no ranking
\* holds a video that was a favorite all along, or a video twice; and mmr leaves the
\* nearest in front and the nearest pool before the rest.
THEOREM RankingHoldsAlways == RecommendSpec => []RankingHolds
<1>1. RankInv => RankingHolds
  BY DEF RankInv
<1> QED
  BY <1>1, RankInvAlways, PTL

\* apply_recent_watch_session: the session holds the newest watches of videos with
\* an embedding, as many as the limit, or those after a watch of no length.
THEOREM NewestWatchedAlways == RecommendSpec => []NewestWatched
<1>1. RankInv => NewestWatched
  BY DEF RankInv
<1> QED
  BY <1>1, RankInvAlways, PTL

-----------------------------------------------------------------------------
\* Recursion, and what the lists of the rankings are made of.

HIDE WatchLogAssumption

\* What holds at the start and is kept holds up to the end.
LEMMA Climb ==
    ASSUME NEW n \in Nat, NEW T, 0 \in T, \A k \in 1..n : k - 1 \in T => k \in T
    PROVE  \A k \in 0..n : k \in T
<1> DEFINE U == {k \in 0..n : k \notin T}
<1> SUFFICES ASSUME U # {} PROVE FALSE
  OBVIOUS
<1>1. PICK k \in U : \A j \in U : k <= j
  <2>1. U \subseteq Nat
    OBVIOUS
  <2> HIDE DEF U
  <2> QED
    BY <2>1, LeastNumber
<1>2. k \in 1..n /\ k - 1 \in 0..n /\ k - 1 \notin U
  BY <1>1
<1> QED
  BY <1>1, <1>2

Recursively(g, a, F, n) ==
    g = [k \in 0..n |-> IF k = 0 THEN a ELSE F[<<g[k - 1], k>>]]

\* A recursive function exists if its step is a function.
LEMMA Recursion ==
    ASSUME NEW A, NEW a \in A, NEW F \in [A \X (Nat \ {0}) -> A], NEW n \in Nat
    PROVE  \E g \in [0..n -> A] : Recursively(g, a, F, n)
<1>0. PICK g \in [0..n -> A] : Iterated(g, a, F, n)
  BY Iterates
<1>1. g[0] = a /\ \A k \in 1..n : g[k] = F[<<g[k - 1], k>>]
  BY <1>0 DEF Iterated
<1>2. g = [k \in 0..n |-> g[k]]
  OBVIOUS
<1>3. \A k \in 0..n : g[k] = IF k = 0 THEN a ELSE F[<<g[k - 1], k>>]
  BY <1>1
<1>4. Recursively(g, a, F, n)
  BY <1>2, <1>3 DEF Recursively
<1> QED
  BY <1>4

LEMMA LeastOf ==
    ASSUME NEW I, I \subseteq Nat, I # {}
    PROVE  Min(I) \in I /\ \A i \in I : Min(I) <= i
<1>1. \E b \in I : \A i \in I : b <= i
  BY LeastNumber
<1> QED
  BY <1>1 DEF Min

LEMMA InsertAtFacts ==
    ASSUME NEW S, NEW s \in Seq(S), NEW e \in S, NEW p \in 1..(Len(s) + 1)
    PROVE  /\ InsertAt(s, p, e) \in Seq(S) /\ Len(InsertAt(s, p, e)) = Len(s) + 1
           /\ \A i \in 1..(Len(s) + 1) :
                 InsertAt(s, p, e)[i] = IF i < p THEN s[i] ELSE IF i = p THEN e ELSE s[i - 1]
<1> DEFINE n == Len(s)
           before == SubSeq(s, 1, p - 1)
           after == SubSeq(s, p, n)
           front == before \o <<e>>
           all == front \o after
<1>1. n \in Nat /\ p \in 1..(n + 1)
  OBVIOUS
<1>2. /\ before \in Seq(S) /\ Len(before) = p - 1
      /\ \A i \in 1..(p - 1) : before[i] = s[i]
  BY <1>1
<1>3. /\ after \in Seq(S) /\ Len(after) = n - (p - 1)
      /\ \A i \in 1..(n - (p - 1)) : after[i] = s[(p - 1) + i]
  <2>1. p - 1 \in Nat /\ p - 1 <= Len(s) /\ (p - 1) + 1 = p
    BY <1>1
  <2> QED
    BY <2>1, FollowingFacts
<1>4. <<e>> \in Seq(S) /\ Len(<<e>>) = 1 /\ <<e>>[1] = e
  OBVIOUS
<1> HIDE DEF before, after, n
<1>5. /\ front \in Seq(S) /\ Len(front) = p
      /\ \A i \in 1..p : front[i] = IF i = p THEN e ELSE s[i]
  <2>1. /\ front \in Seq(S) /\ Len(front) = Len(before) + Len(<<e>>)
        /\ \A i \in 1..(Len(before) + Len(<<e>>)) :
              front[i] = IF i <= Len(before) THEN before[i] ELSE <<e>>[i - Len(before)]
    BY <1>2, <1>4, ConcatProperties
  <2> HIDE DEF front
  <2>2. ASSUME NEW i \in 1..p PROVE front[i] = IF i = p THEN e ELSE s[i]
    <3>1. front[i] = IF i <= p - 1 THEN before[i] ELSE <<e>>[i - (p - 1)]
      BY <1>1, <1>2, <1>4, <2>1
    <3>2. CASE i = p
      <4>1. i - (p - 1) = 1 /\ ~(i <= p - 1)
        BY <1>1, <3>2
      <4> QED
        BY <1>4, <3>1, <3>2, <4>1
    <3>3. CASE i # p
      BY <1>1, <1>2, <3>1, <3>3
    <3> QED
      BY <3>2, <3>3
  <2> QED
    BY <1>1, <1>2, <1>4, <2>1, <2>2
<1> HIDE DEF front
<1>6. /\ all \in Seq(S) /\ Len(all) = Len(front) + Len(after)
      /\ \A i \in 1..(Len(front) + Len(after)) :
            all[i] = IF i <= Len(front) THEN front[i] ELSE after[i - Len(front)]
  BY <1>3, <1>5, ConcatProperties
<1>7. InsertAt(s, p, e) = all
  BY DEF InsertAt, all, front, before, after, n
<1> HIDE DEF all
<1>8. Len(front) + Len(after) = n + 1
  BY <1>1, <1>3, <1>5
<1>9. ASSUME NEW i \in 1..(n + 1)
      PROVE  all[i] = IF i < p THEN s[i] ELSE IF i = p THEN e ELSE s[i - 1]
  <2>1. all[i] = IF i <= p THEN front[i] ELSE after[i - p]
    BY <1>5, <1>6, <1>8
  <2>2. CASE i <= p
    BY <1>1, <1>5, <2>1, <2>2
  <2>3. CASE ~(i <= p)
    <3>1. i - p \in 1..(n - (p - 1)) /\ (p - 1) + (i - p) = i - 1
      BY <1>1, <2>3
    <3> QED
      BY <1>1, <1>3, <2>1, <2>3, <3>1
  <2> QED
    BY <2>2, <2>3
<1> QED
  BY <1>6, <1>7, <1>8, <1>9 DEF n

LEMMA GreatestExists ==
    ASSUME NEW n \in Nat, n > 0, NEW f \in [1..n -> Int]
    PROVE  Max({f[i] : i \in 1..n}) \in Int
<1> DEFINE T == {k \in Nat : k = 0 \/ \E m \in 1..k : \A j \in 1..k : k <= n => f[m] >= f[j]}
<1>1. 0 \in T
  OBVIOUS
<1>2. ASSUME NEW k \in 1..n, k - 1 \in T PROVE k \in T
  <2>1. CASE k = 1
    <3>1. \E m \in 1..1 : \A j \in 1..1 : f[m] >= f[j]
      <4>1. 1 \in 1..1 /\ \A j \in 1..1 : f[1] >= f[j]
        OBVIOUS
      <4> QED
        BY <4>1
    <3> QED
      BY <2>1, <3>1
  <2>2. CASE k # 1
    <3>1. PICK m \in 1..(k - 1) : \A j \in 1..(k - 1) : f[m] >= f[j]
      BY <1>2, <2>2
    <3>2. m \in 1..k /\ k \in 1..k /\ \A j \in 1..k : j = k \/ j \in 1..(k - 1)
      OBVIOUS
    <3>3. f[m] \in Int /\ f[k] \in Int /\ \A j \in 1..k : f[j] \in Int
      OBVIOUS
    <3>4. CASE f[m] >= f[k]
      BY <3>1, <3>2, <3>4
    <3>5. CASE f[k] > f[m]
      <4>1. \A j \in 1..k : f[k] >= f[j]
        BY <3>1, <3>2, <3>3, <3>5
      <4> QED
        BY <3>2, <4>1
    <3> QED
      BY <3>3, <3>4, <3>5
  <2> QED
    BY <2>1, <2>2
<1>3. n \in T
  <2> HIDE DEF T
  <2>1. \A k \in 0..n : k \in T
    BY <1>1, <1>2, Climb
  <2> QED
    BY <2>1
<1>4. PICK m \in 1..n : \A j \in 1..n : f[m] >= f[j]
  BY <1>3
<1> DEFINE all == {f[i] : i \in 1..n}
<1>5. f[m] \in all /\ \A x \in all : f[m] >= x
  BY <1>4
<1>6. all \subseteq Int
  OBVIOUS
<1> HIDE DEF all
<1>7. Max(all) \in all
  BY <1>5 DEF Max
<1> QED
  BY <1>6, <1>7 DEF all

\* What can be scored has the dimension of the query.
LEMMA Scored ==
    ASSUME NEW S, \A c \in S : c.vector \in Seq(Int), NEW query \in Seq(Int),
           NEW cs \in Seq(S), FirstError(query, cs) = "none"
    PROVE  \A i \in 1..Len(cs) : Len(cs[i].vector) = Len(query)
<1> DEFINE I == {i \in 1..Len(cs) : DotError(query, cs[i].vector) # "none"}
           i0 == SelectInSeq(cs, LAMBDA c : DotError(query, c.vector) # "none")
<1>1. i0 = IF I # {} THEN Min(I) ELSE 0
  BY DEF SelectInSeq
<1>2. I = {}
  <2> SUFFICES ASSUME I # {} PROVE FALSE
    OBVIOUS
  <2>1. Min(I) \in I
    <3>1. I \subseteq Nat
      OBVIOUS
    <3> HIDE DEF I
    <3> QED
      BY <3>1, LeastOf
  <2>2. i0 \in I
    BY <1>1, <2>1
  <2>3. FirstError(query, cs) = IF i0 = 0 THEN "none" ELSE DotError(query, cs[i0].vector)
    BY DEF FirstError
  <2> HIDE DEF i0
  <2>4. i0 # 0 /\ DotError(query, cs[i0].vector) # "none"
    BY <2>2
  <2> QED
    BY <2>3, <2>4
<1>3. \A i \in 1..Len(cs) : DotError(query, cs[i].vector) = "none"
  BY <1>2
<1> QED
  BY <1>3 DEF DotError

-----------------------------------------------------------------------------
\* The sort of rank_by_dot.

\* A list with c put in at p.
PutIn(new, list, c, p, S) ==
    /\ new \in Seq(S) /\ Len(new) = Len(list) + 1
    /\ \A i \in 1..(Len(list) + 1) :
          new[i] = IF i < p THEN list[i] ELSE IF i = p THEN c ELSE list[i - 1]

LEMMA PlacedFacts ==
    ASSUME NEW S, NEW query, \A d \in S : Dot(query, d.vector) \in Int,
           NEW sorted \in Seq(S), NEW c \in S
    PROVE  \E p \in 1..(Len(sorted) + 1) :
              /\ PutIn(Placed(query, sorted, c), sorted, c, p, S)
              /\ \A i \in 1..Len(sorted) : i < p => Dot(query, sorted[i].vector) >= Dot(query, c.vector)
              /\ p <= Len(sorted) => Dot(query, sorted[p].vector) < Dot(query, c.vector)
<1> DEFINE Score(d) == Dot(query, d.vector)
           n == Len(sorted)
           I == {i \in 1..n : Score(sorted[i]) < Score(c)}
           new == Placed(query, sorted, c)
<1>1. n \in Nat /\ Score(c) \in Int /\ \A i \in 1..n : Score(sorted[i]) \in Int
  OBVIOUS
<1>2. new = IF I = {} THEN Append(sorted, c)
            ELSE IF Min(I) = 0 THEN Append(sorted, c) ELSE InsertAt(sorted, Min(I), c)
  BY DEF Placed, SelectInSeq
<1>3. CASE I = {}
  <2>1. new = Append(sorted, c)
    BY <1>2, <1>3
  <2>2. PutIn(Append(sorted, c), sorted, c, n + 1, S)
    BY DEF PutIn
  <2>3. \A i \in 1..n : Score(sorted[i]) >= Score(c)
    BY <1>1, <1>3
  <2>4. n + 1 \in 1..(n + 1) /\ ~(n + 1 <= n)
    BY <1>1
  <2> QED
    BY <2>1, <2>2, <2>3, <2>4
<1>4. CASE I # {}
  <2> DEFINE p == Min(I)
  <2>1. p \in I /\ \A i \in I : p <= i
    <3>1. I \subseteq Nat
      OBVIOUS
    <3> HIDE DEF I
    <3> QED
      BY <1>4, <3>1, LeastOf
  <2>2. p \in 1..n /\ Score(sorted[p]) < Score(c)
    BY <2>1
  <2>3. \A i \in 1..n : i < p => Score(sorted[i]) >= Score(c)
    BY <1>1, <2>1, <2>2
  <2>4. new = InsertAt(sorted, p, c)
    BY <1>2, <1>4, <2>2
  <2> HIDE DEF p
  <2>5. p \in 1..(Len(sorted) + 1)
    BY <2>2
  <2>6. PutIn(InsertAt(sorted, p, c), sorted, c, p, S)
    <3> DEFINE put == InsertAt(sorted, p, c)
    <3>1. /\ put \in Seq(S) /\ Len(put) = Len(sorted) + 1
          /\ \A i \in 1..(Len(sorted) + 1) :
                put[i] = IF i < p THEN sorted[i] ELSE IF i = p THEN c ELSE sorted[i - 1]
      BY <2>5, InsertAtFacts
    <3> HIDE DEF put
    <3>2. PutIn(put, sorted, c, p, S)
      BY <3>1 DEF PutIn
    <3> QED
      BY <3>2 DEF put
  <2> QED
    BY <2>2, <2>3, <2>4, <2>5, <2>6
<1> QED
  BY <1>3, <1>4

\* After n candidates: they are in order, and equal scores in turn.
SortedFrom(query, scored, n, list, S) ==
    /\ list \in Seq(S) /\ Len(list) = n
    /\ \E from \in [1..n -> 1..n] :
          /\ IsInjective(from)
          /\ \A i \in 1..n : list[i] = scored[from[i]]
          /\ \A i, j \in 1..n :
                i < j => \/ Dot(query, list[i].vector) > Dot(query, list[j].vector)
                         \/ /\ Dot(query, list[i].vector) = Dot(query, list[j].vector)
                            /\ from[i] < from[j]

LEMMA PlacedKeeps ==
    ASSUME NEW S, NEW query, \A d \in S : Dot(query, d.vector) \in Int,
           NEW scored \in Seq(S), NEW n \in 1..Len(scored),
           NEW list, SortedFrom(query, scored, n - 1, list, S)
    PROVE  SortedFrom(query, scored, n, Placed(query, list, scored[n]), S)
<1> DEFINE Score(d) == Dot(query, d.vector)
           c == scored[n]
           m == n - 1
           new == Placed(query, list, c)
<1>1. list \in Seq(S) /\ Len(list) = m /\ m \in Nat /\ n = m + 1 /\ c \in S
  BY DEF SortedFrom
<1>2. PICK from \in [1..m -> 1..m] :
        /\ IsInjective(from)
        /\ \A i \in 1..m : list[i] = scored[from[i]]
        /\ \A i, j \in 1..m :
              i < j => \/ Score(list[i]) > Score(list[j])
                       \/ Score(list[i]) = Score(list[j]) /\ from[i] < from[j]
  BY DEF SortedFrom
<1>3. PICK p \in 1..(m + 1) :
        /\ PutIn(new, list, c, p, S)
        /\ \A i \in 1..m : i < p => Score(list[i]) >= Score(c)
        /\ p <= m => Score(list[p]) < Score(c)
  <2> HIDE DEF c, m
  <2>1. \E p \in 1..(Len(list) + 1) :
            /\ PutIn(Placed(query, list, c), list, c, p, S)
            /\ \A i \in 1..Len(list) : i < p => Dot(query, list[i].vector) >= Dot(query, c.vector)
            /\ p <= Len(list) => Dot(query, list[p].vector) < Dot(query, c.vector)
    BY <1>1, PlacedFacts
  <2> QED
    BY <1>1, <2>1
<1>4. /\ new \in Seq(S) /\ Len(new) = m + 1
      /\ \A i \in 1..(m + 1) : new[i] = IF i < p THEN list[i] ELSE IF i = p THEN c ELSE list[i - 1]
  BY <1>1, <1>3 DEF PutIn
<1> HIDE DEF new, c, m
<1>c. c = scored[m + 1]
  BY <1>1 DEF c
<1>5. Score(c) \in Int /\ \A i \in 1..m : Score(list[i]) \in Int
  <2>1. \A i \in 1..m : list[i] \in S
    BY <1>1
  <2> QED
    BY <1>1, <2>1
<1> DEFINE from2 == [i \in 1..(m + 1) |-> IF i < p THEN from[i] ELSE IF i = p THEN m + 1 ELSE from[i - 1]]
<1>6. \A i \in 1..(m + 1) :
         \/ i < p /\ i \in 1..m /\ from2[i] = from[i] /\ new[i] = list[i] /\ from[i] \in 1..m
         \/ i = p /\ from2[i] = m + 1 /\ new[i] = c
         \/ i > p /\ i - 1 \in 1..m /\ from2[i] = from[i - 1] /\ new[i] = list[i - 1] /\ from[i - 1] \in 1..m
  <2> SUFFICES ASSUME NEW i \in 1..(m + 1)
               PROVE  \/ i < p /\ i \in 1..m /\ from2[i] = from[i] /\ new[i] = list[i] /\ from[i] \in 1..m
                      \/ i = p /\ from2[i] = m + 1 /\ new[i] = c
                      \/ i > p /\ i - 1 \in 1..m /\ from2[i] = from[i - 1] /\ new[i] = list[i - 1] /\ from[i - 1] \in 1..m
    OBVIOUS
  <2>1. CASE i < p
    <3>1. i \in 1..m
      BY <1>1, <2>1
    <3> QED
      BY <1>4, <2>1, <3>1
  <2>2. CASE i = p
    BY <1>4, <2>2
  <2>3. CASE i > p
    <3>1. i - 1 \in 1..m /\ ~(i < p) /\ i # p
      BY <1>1, <2>3
    <3> QED
      BY <1>4, <2>3, <3>1
  <2> QED
    BY <1>1, <2>1, <2>2, <2>3
<1>7. from2 \in [1..(m + 1) -> 1..(m + 1)]
  <2>1. \A i \in 1..(m + 1) : from2[i] \in 1..(m + 1)
    BY <1>1, <1>6
  <2> QED
    BY <2>1
<1> HIDE DEF from2
<1>8. IsInjective(from2)
  <2>1. \A i, j \in 1..m : from[i] = from[j] => i = j
    BY <1>2 DEF IsInjective
  <2> SUFFICES ASSUME NEW i \in 1..(m + 1), NEW j \in 1..(m + 1), from2[i] = from2[j] PROVE i = j
    BY <1>7 DEF IsInjective
  <2>2. \A x \in 1..m : x # m + 1
    BY <1>1
  <2>3. CASE i = p \/ j = p
    BY <1>6, <2>2, <2>3
  <2>4. CASE i # p /\ j # p
    <3>1. \/ i < p /\ i \in 1..m /\ from2[i] = from[i]
          \/ i > p /\ i - 1 \in 1..m /\ from2[i] = from[i - 1]
      BY <1>6, <2>4
    <3>2. \/ j < p /\ j \in 1..m /\ from2[j] = from[j]
          \/ j > p /\ j - 1 \in 1..m /\ from2[j] = from[j - 1]
      BY <1>6, <2>4
    <3>3. ~(i < p /\ j > p /\ i = j - 1) /\ ~(j < p /\ i > p /\ j = i - 1)
      BY <1>1
    <3>4. CASE i < p /\ j < p
      BY <2>1, <2>4, <3>1, <3>2, <3>4
    <3>5. CASE i > p /\ j > p
      <4>1. i - 1 = j - 1
        BY <1>1, <2>1, <3>1, <3>2, <3>5
      <4> QED
        BY <1>1, <4>1
    <3>6. CASE i < p /\ j > p
      BY <1>1, <2>1, <3>1, <3>2, <3>3, <3>6
    <3>7. CASE i > p /\ j < p
      BY <1>1, <2>1, <3>1, <3>2, <3>3, <3>7
    <3> QED
      BY <3>1, <3>2, <3>4, <3>5, <3>6, <3>7
  <2> QED
    BY <2>3, <2>4
<1>9. \A i \in 1..(m + 1) : new[i] = scored[from2[i]]
  BY <1>2, <1>6, <1>c
<1>10. \A i \in 1..m : i >= p => Score(list[i]) < Score(c)
  <2> SUFFICES ASSUME NEW i \in 1..m, i >= p PROVE Score(list[i]) < Score(c)
    OBVIOUS
  <2>1. p \in 1..m /\ Score(list[p]) < Score(c)
    BY <1>1, <1>3
  <2>2. i = p \/ Score(list[p]) > Score(list[i]) \/ Score(list[p]) = Score(list[i])
    BY <1>2, <2>1
  <2> HIDE DEF Score
  <2> QED
    BY <1>5, <2>1, <2>2
<1>11. ASSUME NEW i \in 1..(m + 1), NEW j \in 1..(m + 1), i < j
       PROVE  \/ Score(new[i]) > Score(new[j])
              \/ Score(new[i]) = Score(new[j]) /\ from2[i] < from2[j]
  <2>0. \A x, y \in 1..m :
           x < y => \/ Score(list[x]) > Score(list[y])
                    \/ Score(list[x]) = Score(list[y]) /\ from[x] < from[y]
    BY <1>2
  <2>a. \A x \in 1..m : x < p => Score(list[x]) >= Score(c)
    BY <1>3
  <2> HIDE DEF Score
  <2>1. CASE i < p /\ j < p
    BY <1>6, <1>11, <2>0, <2>1
  <2>2. CASE i < p /\ j = p
    <3>1. i \in 1..m /\ new[i] = list[i] /\ new[j] = c /\ from2[i] = from[i] /\ from[i] \in 1..m /\ from2[j] = m + 1
      BY <1>6, <2>2
    <3>2. Score(list[i]) >= Score(c)
      BY <2>2, <2>a, <3>1
    <3>3. Score(list[i]) > Score(c) \/ Score(list[i]) = Score(c)
      BY <1>5, <3>1, <3>2
    <3>4. from[i] < m + 1
      BY <1>1, <3>1
    <3> QED
      BY <3>1, <3>3, <3>4
  <2>3. CASE i < p /\ j > p
    <3>1. /\ i \in 1..m /\ j - 1 \in 1..m /\ new[i] = list[i] /\ new[j] = list[j - 1]
          /\ from2[i] = from[i] /\ from2[j] = from[j - 1]
      BY <1>6, <2>3
    <3>2. i < j - 1
      BY <1>1, <2>3
    <3> QED
      BY <2>0, <3>1, <3>2
  <2>4. CASE i = p /\ j > p
    <3>1. j - 1 \in 1..m /\ new[i] = c /\ new[j] = list[j - 1] /\ j - 1 >= p
      BY <1>6, <2>4
    <3>2. Score(list[j - 1]) < Score(c)
      BY <1>10, <3>1 DEF Score
    <3>3. Score(c) > Score(list[j - 1])
      BY <1>5, <3>1, <3>2
    <3> QED
      BY <3>1, <3>3
  <2>5. CASE i > p /\ j > p
    <3>1. /\ i - 1 \in 1..m /\ j - 1 \in 1..m /\ new[i] = list[i - 1] /\ new[j] = list[j - 1]
          /\ from2[i] = from[i - 1] /\ from2[j] = from[j - 1]
      BY <1>6, <2>5
    <3>2. i - 1 < j - 1
      BY <1>1, <1>11
    <3> QED
      BY <2>0, <3>1, <3>2
  <2> QED
    BY <1>1, <1>11, <2>1, <2>2, <2>3, <2>4, <2>5
<1>12. SortedFrom(query, scored, m + 1, new, S)
  BY <1>4, <1>7, <1>8, <1>9, <1>11 DEF SortedFrom
<1> QED
  BY <1>12 DEF new, c, m

USE CallsAssumption

Sorts(f, query, scored) ==
    f = [i \in 0..Len(scored) |-> IF i = 0 THEN <<>> ELSE Placed(query, f[i - 1], scored[i])]

LEMMA SortsExist ==
    ASSUME NEW S, NEW query, \A d \in S : Dot(query, d.vector) \in Int, NEW scored \in Seq(S)
    PROVE  \E f : Sorts(f, query, scored)
<1> DEFINE n == Len(scored)
           F == [x \in Seq(S) \X (Nat \ {0}) |->
                    IF x[2] \in 1..n THEN Placed(query, x[1], scored[x[2]]) ELSE x[1]]
<1>1. n \in Nat /\ \A i \in 1..n : scored[i] \in S /\ i \in Nat \ {0}
  OBVIOUS
<1> HIDE DEF n
<1>2. ASSUME NEW list \in Seq(S), NEW c \in S PROVE Placed(query, list, c) \in Seq(S)
  BY PlacedFacts DEF PutIn
<1>3. F \in [Seq(S) \X (Nat \ {0}) -> Seq(S)]
  <2>1. \A x \in Seq(S) \X (Nat \ {0}) : x[1] \in Seq(S)
    OBVIOUS
  <2> QED
    BY <1>1, <1>2, <2>1
<1>4. \A list \in Seq(S), i \in 1..n : F[<<list, i>>] = Placed(query, list, scored[i])
  BY <1>1
<1>5. <<>> \in Seq(S)
  OBVIOUS
<1> HIDE DEF F
<1>6. PICK g \in [0..n -> Seq(S)] : Recursively(g, <<>>, F, n)
  BY <1>1, <1>3, <1>5, Recursion
<1>7. \A i \in 0..n : (IF i = 0 THEN <<>> ELSE F[<<g[i - 1], i>>])
                      = IF i = 0 THEN <<>> ELSE Placed(query, g[i - 1], scored[i])
  <2> SUFFICES ASSUME NEW i \in 0..n, i # 0
               PROVE  F[<<g[i - 1], i>>] = Placed(query, g[i - 1], scored[i])
    OBVIOUS
  <2>1. i \in 1..n /\ i - 1 \in 0..n
    BY <1>1
  <2> QED
    BY <1>4, <2>1
<1>8. g = [i \in 0..n |-> IF i = 0 THEN <<>> ELSE Placed(query, g[i - 1], scored[i])]
  BY <1>6, <1>7 DEF Recursively
<1> QED
  BY <1>8 DEF Sorts, n

LEMMA SortFacts ==
    ASSUME NEW S, NEW query, \A d \in S : Dot(query, d.vector) \in Int, NEW scored \in Seq(S)
    PROVE  SortedFrom(query, scored, Len(scored), SortByScore(query, scored), S)
<1> DEFINE n == Len(scored)
           f == CHOOSE sorted : Sorts(sorted, query, scored)
<1>1. n \in Nat
  OBVIOUS
<1>2. SortByScore(query, scored) = f[n]
  BY DEF SortByScore, Sorts
<1>3. Sorts(f, query, scored)
  BY SortsExist
<1> HIDE DEF f
<1>4. \A i \in 0..n : f[i] = IF i = 0 THEN <<>> ELSE Placed(query, f[i - 1], scored[i])
  BY <1>3 DEF Sorts
<1> DEFINE T == {i \in 0..n : SortedFrom(query, scored, i, f[i], S)}
<1>5. 0 \in T
  <2>1. <<>> \in Seq(S) /\ Len(<<>>) = 0 /\ 1..0 = {}
    OBVIOUS
  <2> DEFINE from == [i \in 1..0 |-> 1]
  <2>2. from \in [1..0 -> 1..0] /\ IsInjective(from)
    BY <2>1 DEF IsInjective
  <2>3. SortedFrom(query, scored, 0, <<>>, S)
    BY <2>1, <2>2 DEF SortedFrom
  <2> QED
    BY <1>1, <1>4, <2>3
<1>6. ASSUME NEW i \in 1..n, i - 1 \in T PROVE i \in T
  <2>1. i \in 0..n /\ i # 0
    BY <1>1
  <2>2. f[i] = Placed(query, f[i - 1], scored[i])
    BY <1>4, <2>1
  <2>3. SortedFrom(query, scored, i, Placed(query, f[i - 1], scored[i]), S)
    BY <1>6, PlacedKeeps
  <2> QED
    BY <2>1, <2>2, <2>3
<1> HIDE DEF T
<1>7. \A i \in 0..n : i \in T
  <2> HIDE DEF n
  <2> QED
    BY <1>1, <1>5, <1>6, Climb
<1>8. n \in T
  BY <1>1, <1>7
<1> QED
  BY <1>2, <1>8 DEF T

\* What rank_by_dot returns.
LEMMA RankByDotFacts ==
    ASSUME NEW query \in Seq(Int), NEW cs \in Seq(Candidates), RankByDot(query, cs).ok
    PROVE  RankedByScore(query, cs, RankByDot(query, cs).list)
<1> DEFINE S == {c \in Candidates : Len(c.vector) = Len(query)}
           n == Len(cs)
           scored == Reverse(cs)
           list == SortByScore(query, scored)
           Score(c) == Dot(query, c.vector)
<1>1. FirstError(query, cs) = "none" /\ RankByDot(query, cs).list = list
  BY DEF RankByDot, Ok, Error
<1>2. \A i \in 1..n : Len(cs[i].vector) = Len(query)
  BY <1>1, Scored
<1>3. \A c \in S : Score(c) \in Int
  BY DotIsNumber
<1>4. n \in Nat /\ DOMAIN cs = 1..n /\ \A i \in 1..n : cs[i] \in S
  BY <1>2
<1> HIDE DEF S
<1>5. scored \in Seq(S) /\ Len(scored) = n /\ \A i \in 1..n : scored[i] = cs[(n - i) + 1]
  <2>1. scored = [i \in 1..n |-> cs[(n - i) + 1]]
    BY DEF Reverse
  <2>2. \A i \in 1..n : (n - i) + 1 \in 1..n
    BY <1>4
  <2> HIDE DEF n, scored
  <2>3. scored \in [1..n -> S]
    BY <1>4, <2>1, <2>2
  <2> QED
    BY <1>4, <2>1, <2>3
<1>6. SortedFrom(query, scored, n, list, S)
  <2> HIDE DEF scored
  <2> QED
    BY <1>3, <1>5, SortFacts
<1> HIDE DEF n, scored, list
<1>7. PICK from \in [1..n -> 1..n] :
        /\ IsInjective(from)
        /\ \A i \in 1..n : list[i] = scored[from[i]]
        /\ \A i, j \in 1..n :
              i < j => \/ Score(list[i]) > Score(list[j])
                       \/ Score(list[i]) = Score(list[j]) /\ from[i] < from[j]
  BY <1>6 DEF SortedFrom
<1>8. list \in Seq(S) /\ Len(list) = n
  BY <1>6 DEF SortedFrom
<1> DEFINE back == [i \in 1..n |-> (n - from[i]) + 1]
<1>9. \A i \in 1..n : from[i] \in 1..n /\ back[i] = (n - from[i]) + 1
  OBVIOUS
<1>10. back \in [1..n -> 1..n]
  <2>1. \A i \in 1..n : back[i] \in 1..n
    BY <1>4, <1>9
  <2> QED
    BY <2>1
<1> HIDE DEF back
<1>11. IsInjective(back)
  <2>1. \A i, j \in 1..n : from[i] = from[j] => i = j
    BY <1>7 DEF IsInjective
  <2> SUFFICES ASSUME NEW i \in 1..n, NEW j \in 1..n, back[i] = back[j] PROVE i = j
    BY <1>10 DEF IsInjective
  <2>2. from[i] = from[j]
    BY <1>4, <1>9
  <2> QED
    BY <2>1, <2>2
<1>12. \A i \in 1..n : list[i] = cs[back[i]]
  BY <1>5, <1>7, <1>9
<1>13. list = [i \in 1..n |-> cs[back[i]]]
  <2>1. list = [i \in 1..n |-> list[i]]
    BY <1>4, <1>8
  <2> QED
    BY <1>12, <2>1
<1>14. \A i, j \in 1..n :
          i < j => \/ Score(list[i]) > Score(list[j])
                   \/ Score(list[i]) = Score(list[j]) /\ back[i] > back[j]
  <2> SUFFICES ASSUME NEW i \in 1..n, NEW j \in 1..n, i < j,
                      ~(Score(list[i]) > Score(list[j]))
               PROVE  Score(list[i]) = Score(list[j]) /\ back[i] > back[j]
    OBVIOUS
  <2>1. Score(list[i]) = Score(list[j]) /\ from[i] < from[j]
    BY <1>7
  <2>2. back[i] > back[j]
    BY <1>4, <1>9, <2>1
  <2> QED
    BY <2>1, <2>2
<1>15. RankedByScore(query, cs, list)
  BY <1>4, <1>10, <1>11, <1>13, <1>14 DEF RankedByScore
<1> QED
  BY <1>1, <1>15

-----------------------------------------------------------------------------
\* The choices of mmr.

\* Of a list that can be scored: the first that no other beats.
LEMMA BestIsFirst ==
    ASSUME NEW S, NEW list \in Seq(S), list # <<>>, NEW query, NEW lambda, NEW selected,
           \A c \in S : MmrScore(query, lambda, c, selected) \in Int
    PROVE  \E p \in 1..Len(list) :
              /\ BestMmrCandidate(query, lambda, list, selected) = list[p]
              /\ \A i \in 1..Len(list) :
                    \/ MmrScore(query, lambda, list[i], selected)
                         < MmrScore(query, lambda, list[p], selected)
                    \/ /\ MmrScore(query, lambda, list[i], selected)
                            = MmrScore(query, lambda, list[p], selected)
                       /\ i >= p
<1> DEFINE Score(c) == MmrScore(query, lambda, c, selected)
           n == Len(list)
           f == CHOOSE best : Bests(best, query, lambda, list, selected, n)
<1>1. n \in Nat /\ n > 0 /\ list \in [1..n -> S]
  OBVIOUS
<1>2. BestMmrCandidate(query, lambda, list, selected) = f[n]
  BY DEF BestMmrCandidate, Bests
<1> HIDE DEF n
<1>3. Bests(f, query, lambda, list, selected, n)
  BY <1>1, BestsExist
<1> HIDE DEF f
<1>4. \A k \in 0..n :
         f[k] = IF k = 0 THEN list[1] ELSE IF Score(list[k]) > Score(f[k - 1]) THEN list[k] ELSE f[k - 1]
  BY <1>3 DEF Bests
<1>5. \A i \in 1..n : Score(list[i]) \in Int
  BY <1>1
<1> HIDE DEF Score
<1> DEFINE BestOf(k, p) == \A i \in 1..k : \/ Score(list[i]) < Score(list[p])
                                           \/ Score(list[i]) = Score(list[p]) /\ i >= p
           T == {k \in 0..n : \E p \in 1..n : f[k] = list[p] /\ (p <= k \/ p = 1) /\ BestOf(k, p)}
<1>6. 0 \in T
  <2>1. 0 \in 0..n /\ 1 \in 1..n /\ f[0] = list[1]
    BY <1>1, <1>4
  <2>2. BestOf(0, 1)
    OBVIOUS
  <2> QED
    BY <2>1, <2>2
<1>7. ASSUME NEW k \in 1..n, k - 1 \in T PROVE k \in T
  <2>1. PICK p \in 1..n : f[k - 1] = list[p] /\ (p <= k - 1 \/ p = 1) /\ BestOf(k - 1, p)
    BY <1>7
  <2>2. k \in 0..n /\ k # 0 /\ p <= k /\ \A i \in 1..k : i = k \/ i \in 1..(k - 1)
    BY <1>1, <2>1
  <2>3. f[k] = IF Score(list[k]) > Score(list[p]) THEN list[k] ELSE list[p]
    BY <1>4, <2>1, <2>2
  <2>4. Score(list[k]) \in Int /\ Score(list[p]) \in Int
    BY <1>5
  <2>5. CASE Score(list[k]) > Score(list[p])
    <3>1. BestOf(k, k)
      <4> SUFFICES ASSUME NEW i \in 1..k
                   PROVE  \/ Score(list[i]) < Score(list[k])
                          \/ Score(list[i]) = Score(list[k]) /\ i >= k
        OBVIOUS
      <4>1. CASE i = k
        BY <4>1
      <4>2. CASE i # k
        <5>1. i \in 1..(k - 1) /\ i \in 1..n
          BY <1>1, <4>2
        <5>2. Score(list[i]) \in Int /\ (Score(list[i]) < Score(list[p]) \/ Score(list[i]) = Score(list[p]))
          BY <1>5, <2>1, <5>1
        <5> QED
          BY <2>4, <2>5, <5>2
      <4> QED
        BY <4>1, <4>2
    <3> QED
      BY <2>2, <2>3, <2>5, <3>1
  <2>6. CASE ~(Score(list[k]) > Score(list[p]))
    <3>1. Score(list[k]) < Score(list[p]) \/ Score(list[k]) = Score(list[p])
      BY <2>4, <2>6
    <3>2. BestOf(k, p)
      BY <2>1, <2>2, <3>1
    <3> QED
      BY <2>2, <2>3, <2>6, <3>2
  <2> QED
    BY <2>5, <2>6
<1> HIDE DEF T
<1>8. \A k \in 0..n : k \in T
  BY <1>1, <1>6, <1>7, Climb
<1>9. n \in T
  BY <1>1, <1>8
<1>10. PICK p \in 1..n : f[n] = list[p] /\ BestOf(n, p)
  BY <1>9 DEF T
<1> QED
  BY <1>2, <1>10 DEF n, Score

LEMMA MmrScoreIsNumber ==
    ASSUME NEW query \in Seq(Int), NEW lambda \in Int, NEW c, NEW selected \in Seq(Candidates),
           c.vector \in Seq(Int), Len(c.vector) = Len(query),
           \A i \in 1..Len(selected) : Len(selected[i].vector) = Len(query)
    PROVE  MmrScore(query, lambda, c, selected) \in Int
<1>1. MaxSimilarity(c.vector, selected) \in Int
  <2>1. CASE selected = <<>>
    BY <2>1 DEF MaxSimilarity
  <2>2. CASE selected # <<>>
    <3> DEFINE n == Len(selected)
               f == [i \in 1..n |-> Dot(c.vector, selected[i].vector)]
    <3>1. n \in Nat /\ n > 0 /\ DOMAIN selected = 1..n
      BY <2>2
    <3>2. \A i \in 1..n : Dot(c.vector, selected[i].vector) \in Int
      <4> SUFFICES ASSUME NEW i \in 1..n PROVE Dot(c.vector, selected[i].vector) \in Int
        OBVIOUS
      <4>1. selected[i].vector \in Seq(Int) /\ Len(selected[i].vector) = Len(c.vector)
        OBVIOUS
      <4> QED
        BY <4>1, DotIsNumber
    <3>3. MaxSimilarity(c.vector, selected) = Max({f[i] : i \in 1..n})
      <4>1. \A i \in 1..n : f[i] = Dot(c.vector, selected[i].vector)
        OBVIOUS
      <4>2. {f[i] : i \in 1..n} = {Dot(c.vector, selected[i].vector) : i \in DOMAIN selected}
        BY <3>1, <4>1
      <4> QED
        BY <2>2, <4>2 DEF MaxSimilarity
    <3>4. f \in [1..n -> Int]
      BY <3>2
    <3> HIDE DEF n, f
    <3> QED
      BY <3>1, <3>3, <3>4, GreatestExists
  <2> QED
    BY <2>1, <2>2
<1>2. Dot(query, c.vector) \in Int
  BY DotIsNumber
<1>3. \A x, y, z \in Int : x * y - (10 - x) * z \in Int
  OBVIOUS
<1> QED
  BY <1>1, <1>2, <1>3 DEF MmrScore

LEMMA FirstAtFacts ==
    ASSUME NEW list, IsInjective(list), NEW n \in Nat, DOMAIN list = 1..n, Len(list) = n, NEW j \in 1..n
    PROVE  FirstAt(list[j], list) = j
<1> DEFINE I == {i \in 1..n : list[i] = list[j]}
<1>1. I = {j}
  BY DEF IsInjective
<1>2. Min({j}) = j
  BY DEF Min
<1> QED
  BY <1>1, <1>2 DEF FirstAt, SelectInSeq

ChoiceScore(query, lambda, list, c, i) ==
    lambda * Dot(query, c.vector)
      - (10 - lambda) * IF i = 1 THEN 0
                        ELSE Max({Dot(c.vector, list[j].vector) : j \in 1..(i - 1)})

\* The i-th choice is the greedy one.
BestChoice(query, cs, lambda, list, i) ==
    /\ list[i] \in LeftBefore(i, cs, list)
    /\ \A c \in LeftBefore(i, cs, list) :
          \/ ChoiceScore(query, lambda, list, c, i) < ChoiceScore(query, lambda, list, list[i], i)
          \/ /\ ChoiceScore(query, lambda, list, c, i) = ChoiceScore(query, lambda, list, list[i], i)
             /\ FirstAt(c, cs) >= FirstAt(list[i], cs)

\* It depends on no later choice.
LEMMA ChoiceStays ==
    ASSUME NEW query, NEW cs, NEW lambda, NEW list, NEW more, NEW i \in Nat,
           \A j \in 1..i : more[j] = list[j], i >= 1,
           BestChoice(query, cs, lambda, list, i)
    PROVE  BestChoice(query, cs, lambda, more, i)
<1>1. i \in 1..i /\ \A j \in 1..(i - 1) : j \in 1..i
  OBVIOUS
<1>2. more[i] = list[i] /\ \A j \in 1..(i - 1) : more[j] = list[j]
  BY <1>1
<1>3. LeftBefore(i, cs, more) = LeftBefore(i, cs, list)
  <2>1. {more[j] : j \in 1..(i - 1)} = {list[j] : j \in 1..(i - 1)}
    BY <1>2
  <2> QED
    BY <2>1 DEF LeftBefore
<1>4. ASSUME NEW c PROVE ChoiceScore(query, lambda, more, c, i) = ChoiceScore(query, lambda, list, c, i)
  <2>1. {Dot(c.vector, more[j].vector) : j \in 1..(i - 1)} = {Dot(c.vector, list[j].vector) : j \in 1..(i - 1)}
    BY <1>2
  <2> QED
    BY <2>1 DEF ChoiceScore
<1> QED
  BY <1>2, <1>3, <1>4 DEF BestChoice

\* The score that mmr goes by is the one its choices are judged by.
LEMMA SameScore ==
    ASSUME NEW query, NEW lambda, NEW S, NEW selected \in Seq(S), NEW b, NEW c
    PROVE  MmrScore(query, lambda, c, selected)
             = ChoiceScore(query, lambda, Append(selected, b), c, Len(selected) + 1)
<1> DEFINE n == Len(selected)
           more == Append(selected, b)
<1>1. n \in Nat /\ DOMAIN selected = 1..n /\ \A j \in 1..n : more[j] = selected[j]
  OBVIOUS
<1>2. (n + 1) - 1 = n /\ (n + 1 = 1 <=> selected = <<>>)
  BY <1>1
<1> HIDE DEF n, more
<1>3. {Dot(c.vector, more[j].vector) : j \in 1..n} = {Dot(c.vector, selected[j].vector) : j \in DOMAIN selected}
  BY <1>1
<1>4. ChoiceScore(query, lambda, more, c, n + 1)
        = lambda * Dot(query, c.vector) - (10 - lambda) * MaxSimilarity(c.vector, selected)
  BY <1>2, <1>3 DEF ChoiceScore, MaxSimilarity
<1> QED
  BY <1>4 DEF MmrScore, n, more

\* After n choices: what is left is in its old order, and each choice was greedy.
GreedyRound(st, query, lambda, cs, n, S) ==
    /\ st \in [remaining : Seq(S), selected : Seq(S)]
    /\ Len(st.selected) = n /\ Len(st.remaining) = Len(cs) - n
    /\ \E at \in [1..Len(st.remaining) -> 1..Len(cs)] :
          /\ \A i \in 1..Len(st.remaining) : st.remaining[i] = cs[at[i]]
          /\ \A i, j \in 1..Len(st.remaining) : i < j => at[i] < at[j]
    /\ \A j \in 1..Len(cs) :
          (\E i \in 1..Len(st.remaining) : st.remaining[i] = cs[j])
             <=> \A i \in 1..n : st.selected[i] # cs[j]
    /\ \A i \in 1..n : BestChoice(query, cs, lambda, st.selected, i)

LEMMA GreedyStart ==
    ASSUME NEW S, NEW cs \in Seq(S), NEW query, NEW lambda
    PROVE  GreedyRound([remaining |-> cs, selected |-> <<>>], query, lambda, cs, 0, S)
<1> DEFINE st == [remaining |-> cs, selected |-> <<>>]
           at == [i \in 1..Len(cs) |-> i]
<1>1. st.remaining = cs /\ st.selected = <<>> /\ st \in [remaining : Seq(S), selected : Seq(S)]
  OBVIOUS
<1>2. Len(<<>>) = 0 /\ 1..0 = {} /\ Len(cs) - 0 = Len(cs)
  OBVIOUS
<1>3. /\ at \in [1..Len(cs) -> 1..Len(cs)]
      /\ \A i \in 1..Len(cs) : cs[i] = cs[at[i]]
      /\ \A i, j \in 1..Len(cs) : i < j => at[i] < at[j]
  OBVIOUS
<1> HIDE DEF st, at
<1>4. GreedyRound(st, query, lambda, cs, 0, S)
  BY <1>1, <1>2, <1>3 DEF GreedyRound
<1> QED
  BY <1>4 DEF st

\* One more choice.
LEMMA GreedyKeeps ==
    ASSUME NEW S \in SUBSET Candidates, NEW query \in Seq(Int), NEW lambda \in Int,
           \A c \in S : Len(c.vector) = Len(query),
           NEW cs \in Seq(S), IsInjective(cs), NEW n \in Nat, n < Len(cs),
           NEW st, GreedyRound(st, query, lambda, cs, n, S)
    PROVE  GreedyRound(SelectNext(query, lambda, st), query, lambda, cs, n + 1, S)
<1> DEFINE remaining == st.remaining
           selected == st.selected
           best == BestMmrCandidate(query, lambda, remaining, selected)
           less == RemoveFirst(remaining, best)
           more == Append(selected, best)
           next == SelectNext(query, lambda, st)
           all == Len(cs)
           size == Len(remaining)
           Score(c) == MmrScore(query, lambda, c, selected)
<1>1. /\ remaining \in Seq(S) /\ selected \in Seq(S)
      /\ Len(selected) = n /\ size = all - n
      /\ \A j \in 1..all :
            (\E i \in 1..size : remaining[i] = cs[j]) <=> \A i \in 1..n : selected[i] # cs[j]
      /\ \A i \in 1..n : BestChoice(query, cs, lambda, selected, i)
  BY DEF GreedyRound
<1>2. PICK at \in [1..size -> 1..all] :
        /\ \A i \in 1..size : remaining[i] = cs[at[i]]
        /\ \A i, j \in 1..size : i < j => at[i] < at[j]
  BY DEF GreedyRound
<1>3. remaining # <<>> /\ size > 0 /\ size \in Nat /\ all \in Nat
  BY <1>1
<1>4. next = [remaining |-> less, selected |-> more]
  BY <1>3 DEF SelectNext
<1>5. DOMAIN cs = 1..all /\ \A i, j \in 1..all : cs[i] = cs[j] => i = j
  BY DEF IsInjective
<1> HIDE DEF all, size, less, more, best, next, remaining, selected
<1>6. IsInjective(remaining)
  <2>1. DOMAIN remaining = 1..size
    BY <1>1 DEF size
  <2> SUFFICES ASSUME NEW i \in 1..size, NEW j \in 1..size, remaining[i] = remaining[j] PROVE i = j
    BY <2>1 DEF IsInjective
  <2>a. at[i] \in 1..all /\ at[j] \in 1..all
    BY <1>2
  <2>b. cs[at[i]] = cs[at[j]]
    BY <1>2
  <2>2. at[i] = at[j]
    BY <1>5, <2>a, <2>b
  <2>3. at[i] \in Int /\ i \in Int /\ j \in Int
    BY <1>2
  <2>4. ~(i < j) /\ ~(j < i)
    BY <1>2, <2>2, <2>3
  <2> QED
    BY <2>3, <2>4
<1>7. \A c \in S : Score(c) \in Int
  <2>1. selected \in Seq(Candidates) /\ \A i \in 1..Len(selected) : Len(selected[i].vector) = Len(query)
    BY <1>1
  <2> QED
    BY <2>1, MmrScoreIsNumber
<1>8. PICK p \in 1..size :
        /\ best = remaining[p]
        /\ \A i \in 1..size : \/ Score(remaining[i]) < Score(remaining[p])
                              \/ Score(remaining[i]) = Score(remaining[p]) /\ i >= p
  BY <1>1, <1>3, <1>7, BestIsFirst DEF best, size
<1>9. Without(less, remaining, p, S)
  <2>1. p \in 1..Len(remaining)
    BY DEF size
  <2>2. Without(RemoveFirst(remaining, remaining[p]), remaining, p, S)
    BY <1>1, <1>6, <2>1, RemoveFirstFacts
  <2> QED
    BY <1>8, <2>2 DEF less
<1>10. /\ less \in Seq(S) /\ Len(less) = size - 1
       /\ \A i \in 1..(size - 1) : less[i] = IF i < p THEN remaining[i] ELSE remaining[i + 1]
       /\ \A i \in 1..(size - 1) : less[i] # best
       /\ \A j \in 1..size : j # p => \E i \in 1..(size - 1) : less[i] = remaining[j]
  BY <1>8, <1>9 DEF Without, size
<1>11. best \in S
  BY <1>1, <1>8 DEF size
<1>12. /\ more \in Seq(S) /\ Len(more) = n + 1 /\ more[n + 1] = best
       /\ \A i \in 1..n : more[i] = selected[i]
  <2>1. /\ more \in Seq(S) /\ Len(more) = Len(selected) + 1
        /\ more[Len(selected) + 1] = best
        /\ \A i \in 1..Len(selected) : more[i] = selected[i]
    <3>1. selected \in Seq(S) /\ best \in S
      BY <1>1, <1>11
    <3> QED
      BY <3>1, AppendProperties DEF more
  <2> QED
    BY <1>1, <2>1
<1>13. next.remaining = less /\ next.selected = more /\ next \in [remaining : Seq(S), selected : Seq(S)]
  BY <1>4, <1>10, <1>12
<1> DEFINE at2 == [i \in 1..(size - 1) |-> IF i < p THEN at[i] ELSE at[i + 1]]
<1>14. \A i \in 1..(size - 1) : /\ i \in 1..size /\ i + 1 \in 1..size
                                /\ at2[i] = IF i < p THEN at[i] ELSE at[i + 1]
  BY <1>3
<1>15. at2 \in [1..(size - 1) -> 1..all]
  <2>1. \A i \in 1..(size - 1) : at2[i] \in 1..all
    BY <1>2, <1>14
  <2> QED
    BY <2>1
<1> HIDE DEF at2
<1>16. ASSUME NEW i \in 1..(size - 1) PROVE less[i] = cs[at2[i]]
  <2>1. remaining[i] = cs[at[i]] /\ remaining[i + 1] = cs[at[i + 1]]
    BY <1>2, <1>14
  <2>2. less[i] = IF i < p THEN remaining[i] ELSE remaining[i + 1]
    BY <1>10
  <2> QED
    BY <1>14, <2>1, <2>2
<1>17. \A i, j \in 1..(size - 1) : i < j => at2[i] < at2[j]
  <2> SUFFICES ASSUME NEW i \in 1..(size - 1), NEW j \in 1..(size - 1), i < j PROVE at2[i] < at2[j]
    OBVIOUS
  <2>1. CASE j < p
    <3>1. i < p
      BY <2>1
    <3> QED
      BY <1>2, <1>14, <2>1, <3>1
  <2>2. CASE i < p /\ ~(j < p)
    <3>1. i < j + 1
      OBVIOUS
    <3> QED
      BY <1>2, <1>14, <2>2, <3>1
  <2>3. CASE ~(i < p)
    <3>1. ~(j < p) /\ i + 1 < j + 1
      BY <2>3
    <3> QED
      BY <1>2, <1>14, <2>3, <3>1
  <2> QED
    BY <2>1, <2>2, <2>3
<1>18. \A i \in 1..(n + 1) : i = n + 1 \/ i \in 1..n
  OBVIOUS
<1>19. n + 1 \in 1..(n + 1) /\ \A i \in 1..n : i \in 1..(n + 1)
  OBVIOUS
<1>20. ASSUME NEW j \in 1..all
       PROVE  (\E i \in 1..(size - 1) : less[i] = cs[j]) <=> \A i \in 1..(n + 1) : more[i] # cs[j]
  <2>1. ASSUME NEW i \in 1..(size - 1), less[i] = cs[j]
        PROVE  \A l \in 1..(n + 1) : more[l] # cs[j]
    <3>1. cs[j] # best /\ \E l \in 1..size : remaining[l] = cs[j]
      BY <1>10, <1>14, <2>1
    <3>2. \A l \in 1..n : selected[l] # cs[j]
      BY <1>1, <3>1
    <3> QED
      BY <1>12, <1>18, <3>1, <3>2
  <2>2. ASSUME \A l \in 1..(n + 1) : more[l] # cs[j]
        PROVE  \E i \in 1..(size - 1) : less[i] = cs[j]
    <3>1. \A l \in 1..n : selected[l] # cs[j]
      BY <1>12, <1>19, <2>2
    <3>2. PICK l \in 1..size : remaining[l] = cs[j]
      BY <1>1, <3>1
    <3>3. l # p
      BY <1>8, <1>12, <1>19, <2>2, <3>2
    <3> QED
      BY <1>10, <3>2, <3>3
  <2> QED
    BY <2>1, <2>2
<1>21. ASSUME NEW i \in 1..n PROVE BestChoice(query, cs, lambda, more, i)
  <2>1. i \in Nat /\ i >= 1 /\ \A j \in 1..i : more[j] = selected[j]
    BY <1>12
  <2>2. BestChoice(query, cs, lambda, selected, i)
    BY <1>1
  <2> QED
    BY <2>1, <2>2, ChoiceStays
<1>22. BestChoice(query, cs, lambda, more, n + 1)
  <2>1. \A c : c \in LeftBefore(n + 1, cs, more) <=> \E i \in 1..size : remaining[i] = c
    <3> TAKE c
    <3>1. (n + 1) - 1 = n
      OBVIOUS
    <3>2. c \in LeftBefore(n + 1, cs, more)
            <=> (\E j \in 1..all : cs[j] = c) /\ ~\E i \in 1..n : more[i] = c
      BY <1>5, <3>1 DEF LeftBefore, ToSet
    <3>3. (\E i \in 1..size : remaining[i] = c) => \E j \in 1..all : cs[j] = c
      BY <1>2
    <3>4. (\E i \in 1..n : more[i] = c) <=> \E i \in 1..n : selected[i] = c
      BY <1>12
    <3> QED
      BY <1>1, <3>2, <3>3, <3>4
  <2>2. ASSUME NEW c PROVE ChoiceScore(query, lambda, more, c, n + 1) = Score(c)
    BY <1>1, SameScore DEF more
  <2>3. \A i \in 1..size : FirstAt(remaining[i], cs) = at[i]
    <3> SUFFICES ASSUME NEW i \in 1..size PROVE FirstAt(cs[at[i]], cs) = at[i]
      BY <1>2
    <3>1. at[i] \in 1..all /\ all \in Nat /\ Len(cs) = all
      BY <1>2, <1>3 DEF all
    <3> QED
      BY <1>5, <3>1, FirstAtFacts
  <2> HIDE DEF Score
  <2>4. ASSUME NEW i \in 1..size, i >= p PROVE at[i] >= at[p]
    <3>a. at[i] \in 1..all /\ at[p] \in 1..all /\ i \in Int /\ p \in Int
      BY <1>2
    <3>1. at[i] \in Int /\ at[p] \in Int /\ (i = p \/ p < i)
      BY <2>4, <3>a
    <3>2. CASE i = p
      BY <3>1, <3>2
    <3>3. CASE p < i
      <4>1. at[p] < at[i]
        BY <1>2, <3>3
      <4> QED
        BY <3>1, <4>1
    <3> QED
      BY <3>1, <3>2, <3>3
  <2>5. best \in LeftBefore(n + 1, cs, more)
    BY <1>8, <2>1
  <2>6. ASSUME NEW c \in LeftBefore(n + 1, cs, more)
        PROVE  \/ Score(c) < Score(best)
               \/ Score(c) = Score(best) /\ FirstAt(c, cs) >= FirstAt(best, cs)
    <3>1. PICK i \in 1..size : remaining[i] = c
      BY <2>1
    <3> QED
      BY <1>8, <2>3, <2>4, <3>1
  <2> QED
    BY <1>12, <2>2, <2>5, <2>6 DEF BestChoice
<1>23. GreedyRound(next, query, lambda, cs, n + 1, S)
  <2>1. Len(less) = all - (n + 1) /\ Len(less) = size - 1
    BY <1>1, <1>3, <1>10
  <2>2. \A i \in 1..(n + 1) : BestChoice(query, cs, lambda, more, i)
    BY <1>18, <1>21, <1>22
  <2>3. \E a \in [1..Len(less) -> 1..all] :
          /\ \A i \in 1..Len(less) : less[i] = cs[a[i]]
          /\ \A i, j \in 1..Len(less) : i < j => a[i] < a[j]
    BY <1>15, <1>16, <1>17, <2>1
  <2> QED
    BY <1>12, <1>13, <1>20, <2>1, <2>2, <2>3 DEF GreedyRound, all
<1> QED
  BY <1>23 DEF next

AtMost(n, all) == IF n <= all THEN n ELSE all

LEMMA GreedyGoesOn ==
    ASSUME NEW S \in SUBSET Candidates, NEW query \in Seq(Int), NEW lambda \in Int,
           \A c \in S : Len(c.vector) = Len(query),
           NEW cs \in Seq(S), IsInjective(cs), NEW n \in 0..Len(cs),
           NEW st, GreedyRound(st, query, lambda, cs, n, S)
    PROVE  GreedyRound(SelectNext(query, lambda, st), query, lambda, cs, AtMost(n + 1, Len(cs)), S)
<1>1. n \in Nat /\ Len(cs) \in Nat
  OBVIOUS
<1>2. CASE n < Len(cs)
  <2>1. AtMost(n + 1, Len(cs)) = n + 1
    BY <1>1, <1>2 DEF AtMost
  <2> QED
    BY <1>1, <1>2, <2>1, GreedyKeeps
<1>3. CASE ~(n < Len(cs))
  <2>1. AtMost(n + 1, Len(cs)) = n /\ Len(cs) - n = 0
    BY <1>1, <1>3 DEF AtMost
  <2>2. st.remaining \in Seq(S) /\ Len(st.remaining) = 0
    BY <2>1 DEF GreedyRound
  <2>3. st.remaining = <<>>
    BY <2>2
  <2>4. SelectNext(query, lambda, st) = st
    BY <2>3 DEF SelectNext
  <2> QED
    BY <2>1, <2>4
<1> QED
  BY <1>2, <1>3

LEMMA GreedyRoundsExist ==
    ASSUME NEW S \in SUBSET Candidates, NEW query \in Seq(Int), NEW lambda \in Int,
           \A c \in S : Len(c.vector) = Len(query),
           NEW cs \in Seq(S), IsInjective(cs), NEW k \in Nat
    PROVE  \E f : Rounds(f, query, lambda, cs, k)
<1> DEFINE a == [remaining |-> cs, selected |-> <<>>]
           A == {st \in [remaining : Seq(S), selected : Seq(S)] :
                    \E n \in 0..Len(cs) : GreedyRound(st, query, lambda, cs, n, S)}
           F == [x \in A \X (Nat \ {0}) |-> SelectNext(query, lambda, x[1])]
<1>1. a \in A
  <2>1. GreedyRound(a, query, lambda, cs, 0, S) /\ 0 \in 0..Len(cs)
    BY GreedyStart
  <2> QED
    BY <2>1 DEF GreedyRound
<1>2. ASSUME NEW st \in A PROVE SelectNext(query, lambda, st) \in A
  <2>1. PICK n \in 0..Len(cs) : GreedyRound(st, query, lambda, cs, n, S)
    OBVIOUS
  <2>2. GreedyRound(SelectNext(query, lambda, st), query, lambda, cs, AtMost(n + 1, Len(cs)), S)
    BY <2>1, GreedyGoesOn
  <2>3. AtMost(n + 1, Len(cs)) \in 0..Len(cs)
    BY DEF AtMost
  <2> QED
    BY <2>2, <2>3 DEF GreedyRound
<1> HIDE DEF A
<1>3. F \in [A \X (Nat \ {0}) -> A]
  <2>1. \A x \in A \X (Nat \ {0}) : x[1] \in A
    OBVIOUS
  <2> QED
    BY <1>2, <2>1
<1>4. \A st \in A, n \in Nat \ {0} : F[<<st, n>>] = SelectNext(query, lambda, st)
  OBVIOUS
<1> HIDE DEF F, a
<1>5. PICK g \in [0..k -> A] : Recursively(g, a, F, k)
  BY <1>1, <1>3, Recursion
<1>6. ASSUME NEW n \in 0..k, n # 0
      PROVE  F[<<g[n - 1], n>>] = SelectNext(query, lambda, g[n - 1])
  <2>1. n \in Nat \ {0} /\ n - 1 \in 0..k
    BY <1>6
  <2> QED
    BY <1>4, <2>1
<1>7. g = [n \in 0..k |-> IF n = 0 THEN a ELSE SelectNext(query, lambda, g[n - 1])]
  BY <1>5, <1>6 DEF Recursively
<1> QED
  BY <1>7 DEF Rounds, a

LEMMA GreedyRounds ==
    ASSUME NEW S \in SUBSET Candidates, NEW query \in Seq(Int), NEW lambda \in Int,
           \A c \in S : Len(c.vector) = Len(query),
           NEW cs \in Seq(S), IsInjective(cs), NEW k \in Nat,
           NEW f, Rounds(f, query, lambda, cs, k)
    PROVE  GreedyRound(f[k], query, lambda, cs, AtMost(k, Len(cs)), S)
<1> DEFINE T == {n \in 0..k : GreedyRound(f[n], query, lambda, cs, AtMost(n, Len(cs)), S)}
<1>1. \A n \in 0..k : f[n] = IF n = 0 THEN [remaining |-> cs, selected |-> <<>>]
                             ELSE SelectNext(query, lambda, f[n - 1])
  BY DEF Rounds
<1>2. 0 \in T
  <2>1. AtMost(0, Len(cs)) = 0 /\ 0 \in 0..k
    BY DEF AtMost
  <2>2. f[0] = [remaining |-> cs, selected |-> <<>>]
    BY <1>1, <2>1
  <2> QED
    BY <2>1, <2>2, GreedyStart
<1>3. ASSUME NEW n \in 1..k, n - 1 \in T PROVE n \in T
  <2> DEFINE m == AtMost(n - 1, Len(cs))
  <2>1. n \in 0..k /\ n # 0 /\ n - 1 \in Nat
    OBVIOUS
  <2>2. GreedyRound(f[n - 1], query, lambda, cs, m, S) /\ m \in 0..Len(cs)
    BY <1>3, <2>1 DEF AtMost
  <2>3. f[n] = SelectNext(query, lambda, f[n - 1])
    BY <1>1, <2>1
  <2>4. AtMost(m + 1, Len(cs)) = AtMost(n, Len(cs))
    BY <2>1 DEF AtMost
  <2> HIDE DEF m
  <2>5. GreedyRound(SelectNext(query, lambda, f[n - 1]), query, lambda, cs, AtMost(m + 1, Len(cs)), S)
    BY <2>2, GreedyGoesOn
  <2> QED
    BY <2>1, <2>3, <2>4, <2>5
<1> HIDE DEF T
<1>4. \A n \in 0..k : n \in T
  BY <1>2, <1>3, Climb
<1>5. k \in T
  BY <1>4
<1> QED
  BY <1>5 DEF T

\* What mmr returns.
LEMMA MmrFacts ==
    ASSUME NEW query \in Seq(Int), NEW cs \in Seq(Candidates), IsInjective(cs), NEW k \in Int,
           NEW lambda \in Int, Mmr(query, cs, k, lambda).ok
    PROVE  MmrGreedy(query, cs, k, lambda, Mmr(query, cs, k, lambda).list)
<1> DEFINE f == CHOOSE round : Rounds(round, query, lambda, cs, k)
           list == Mmr(query, cs, k, lambda).list
<1>1. k \in Nat /\ (k = 0 \/ FirstError(query, cs) = "none") /\ list = f[k].selected
  BY DEF Mmr, Rounds, Ok, Error
<1>2. Len(cs) \in Nat /\ Min({k, Len(cs)}) = AtMost(k, Len(cs))
  BY <1>1, MinOfTwo DEF AtMost
<1>3. CASE k = 0
  <2>1. Rounds([n \in 0..k |-> [remaining |-> cs, selected |-> <<>>]], query, lambda, cs, k)
    <3>1. \A n \in 0..k : n = 0
      BY <1>3
    <3> QED
      BY <3>1 DEF Rounds
  <2>2. Rounds(f, query, lambda, cs, k)
    BY <2>1
  <2> HIDE DEF f
  <2>3. f[k] = [remaining |-> cs, selected |-> <<>>]
    <3>1. k \in 0..k
      BY <1>1
    <3> QED
      BY <1>3, <2>2, <3>1 DEF Rounds
  <2>4. list = <<>>
    BY <1>1, <2>3
  <2>5. Len(list) = AtMost(k, Len(cs)) /\ DOMAIN list = {}
    BY <1>2, <1>3, <2>4 DEF AtMost
  <2> QED
    BY <1>2, <2>5 DEF MmrGreedy
<1>4. CASE k # 0
  <2> DEFINE S == {c \in Candidates : Len(c.vector) = Len(query)}
  <2>1. \A i \in 1..Len(cs) : cs[i] \in S
    <3>1. \A i \in 1..Len(cs) : Len(cs[i].vector) = Len(query)
      BY <1>1, <1>4, Scored
    <3> QED
      BY <3>1
  <2>2. S \in SUBSET Candidates /\ \A c \in S : Len(c.vector) = Len(query)
    OBVIOUS
  <2> HIDE DEF S
  <2>3. cs \in Seq(S)
    BY <2>1
  <2>4. Rounds(f, query, lambda, cs, k)
    BY <1>1, <2>2, <2>3, GreedyRoundsExist
  <2> HIDE DEF f
  <2>5. GreedyRound(f[k], query, lambda, cs, AtMost(k, Len(cs)), S)
    BY <1>1, <2>2, <2>3, <2>4, GreedyRounds
  <2> DEFINE n == AtMost(k, Len(cs))
  <2>6. list \in Seq(S) /\ Len(list) = n /\ \A i \in 1..n : BestChoice(query, cs, lambda, list, i)
    BY <1>1, <2>5 DEF GreedyRound
  <2> HIDE DEF list, n
  <2>7. DOMAIN list = 1..n
    BY <2>6
  <2> QED
    BY <1>2, <2>6, <2>7 DEF MmrGreedy, BestChoice, ChoiceScore, n, list
<1> QED
  BY <1>3, <1>4

-----------------------------------------------------------------------------
\* What filter keeps.

\* The eligible of a creator among the first n.
EligibleOf(creator, n, cs, seen, blocked) ==
    {j \in 1..n : Eligible(j, cs, seen, blocked) /\ cs[j].creator_id = creator}

Keeps(i, cs, seen, blocked, cap) ==
    /\ Eligible(i, cs, seen, blocked)
    /\ \/ cs[i].creator_id = Nil \/ cap <= 0
       \/ Cardinality(SameBefore(i, cs, seen, blocked)) < cap

\* What was kept of the first n, and how often each creator is in it.
KeptSoFar(list, cs, seen, blocked, cap, n, S) ==
    /\ list \in Seq(S)
    /\ \E place \in [1..Len(list) -> 1..n] :
          /\ \A l, m \in 1..Len(list) : l < m => place[l] < place[m]
          /\ \A m \in 1..Len(list) : Keeps(place[m], cs, seen, blocked, cap)
          /\ \A i \in 1..n : Keeps(i, cs, seen, blocked, cap) => \E m \in 1..Len(list) : place[m] = i
          /\ \A m \in 1..Len(list) : list[m] = cs[place[m]]
    /\ cap > 0 =>
          \A creator : creator # Nil =>
              CountOf(creator, list) = AtMost(Cardinality(EligibleOf(creator, n, cs, seen, blocked)), cap)

LEMMA EligibleCount ==
    ASSUME NEW creator, NEW n \in Nat, NEW cs, NEW seen, NEW blocked
    PROVE  /\ Cardinality(EligibleOf(creator, n, cs, seen, blocked)) \in Nat
           /\ n > 0 =>
                Cardinality(EligibleOf(creator, n, cs, seen, blocked))
                  = Cardinality(EligibleOf(creator, n - 1, cs, seen, blocked))
                      + IF Eligible(n, cs, seen, blocked) /\ cs[n].creator_id = creator THEN 1 ELSE 0
<1> DEFINE Of(k) == EligibleOf(creator, k, cs, seen, blocked)
<1>1. ASSUME NEW k \in Nat PROVE IsFiniteSet(Of(k)) /\ Cardinality(Of(k)) \in Nat
  <2>1. IsFiniteSet(1..k)
    BY FS_Interval
  <2>2. Of(k) \in SUBSET (1..k)
    BY DEF EligibleOf
  <2>3. IsFiniteSet(Of(k))
    BY <2>1, <2>2, FS_Subset
  <2> QED
    BY <2>3, FS_CardinalityType
<1>2. ASSUME n > 0
      PROVE  Cardinality(Of(n)) = Cardinality(Of(n - 1))
               + IF Eligible(n, cs, seen, blocked) /\ cs[n].creator_id = creator THEN 1 ELSE 0
  <2>1. n - 1 \in Nat /\ n \in 1..n /\ ~(n \in 1..(n - 1)) /\ \A j \in 1..n : j = n \/ j \in 1..(n - 1)
    BY <1>2
  <2>a. \A j \in 1..(n - 1) : j \in 1..n
    BY <1>2
  <2>2. CASE Eligible(n, cs, seen, blocked) /\ cs[n].creator_id = creator
    <3>1. Of(n) = Of(n - 1) \cup {n} /\ ~(n \in Of(n - 1))
      BY <2>1, <2>2, <2>a DEF EligibleOf
    <3> HIDE DEF Of
    <3>2. Cardinality(Of(n)) = Cardinality(Of(n - 1)) + 1
      BY <1>1, <2>1, <3>1, FS_AddElement
    <3> QED
      BY <2>2, <3>2
  <2>3. CASE ~(Eligible(n, cs, seen, blocked) /\ cs[n].creator_id = creator)
    <3>1. Of(n) = Of(n - 1)
      BY <2>1, <2>3, <2>a DEF EligibleOf
    <3>2. Cardinality(Of(n - 1)) \in Nat
      BY <1>1, <2>1
    <3> HIDE DEF Of
    <3> QED
      BY <2>3, <3>1, <3>2
  <2> QED
    BY <2>2, <2>3
<1> QED
  BY <1>1, <1>2

LEMMA CountOfMore ==
    ASSUME NEW S, NEW list \in Seq(S), NEW c \in S, NEW creator
    PROVE  /\ CountOf(creator, list) \in Nat
           /\ CountOf(creator, Append(list, c))
                = CountOf(creator, list) + IF c.creator_id = creator THEN 1 ELSE 0
<1> DEFINE n == Len(list)
           more == Append(list, c)
           old == {i \in DOMAIN list : list[i].creator_id = creator}
           new == {i \in DOMAIN more : more[i].creator_id = creator}
<1>1. n \in Nat /\ DOMAIN list = 1..n /\ more[n + 1] = c /\ \A i \in 1..n : more[i] = list[i]
  BY AppendProperties
<1>2. DOMAIN more = 1..(n + 1)
  BY AppendProperties
<1> HIDE DEF n, more
<1>3. \A i \in 1..(n + 1) : i = n + 1 \/ i \in 1..n
  BY <1>1
<1>4. n + 1 \in 1..(n + 1) /\ ~(n + 1 \in 1..n) /\ \A i \in 1..n : i \in 1..(n + 1)
  BY <1>1
<1>5. new = IF c.creator_id = creator THEN old \cup {n + 1} ELSE old
  BY <1>1, <1>2, <1>3, <1>4
<1>6. ~(n + 1 \in old)
  BY <1>1, <1>4
<1>7. IsFiniteSet(old)
  <2>1. old \in SUBSET (1..n)
    BY <1>1
  <2>2. IsFiniteSet(1..n)
    BY <1>1, FS_Interval
  <2> QED
    BY <2>1, <2>2, FS_Subset
<1>8. CountOf(creator, list) = Cardinality(old) /\ CountOf(creator, more) = Cardinality(new)
  BY DEF CountOf
<1> HIDE DEF old, new
<1>9. Cardinality(old) \in Nat /\ Cardinality(old \cup {n + 1}) = Cardinality(old) + 1
  BY <1>6, <1>7, FS_CardinalityType, FS_AddElement
<1> QED
  BY <1>5, <1>8, <1>9 DEF more

LEMMA AdmitKeeps ==
    ASSUME NEW S, NEW cs \in Seq(S), NEW seen, NEW blocked, NEW cap \in Int,
           NEW n \in 1..Len(cs), NEW list, KeptSoFar(list, cs, seen, blocked, cap, n - 1, S)
    PROVE  KeptSoFar(Admit(list, cs[n], seen, blocked, cap), cs, seen, blocked, cap, n, S)
<1> DEFINE c == cs[n]
           creator == c.creator_id
           before(x) == Cardinality(EligibleOf(x, n - 1, cs, seen, blocked))
           upto(x) == Cardinality(EligibleOf(x, n, cs, seen, blocked))
           len == Len(list)
           Good(i) == Keeps(i, cs, seen, blocked, cap)
           new == Admit(list, c, seen, blocked, cap)
<1>1. /\ list \in Seq(S)
      /\ cap > 0 => \A x : x # Nil => CountOf(x, list) = AtMost(before(x), cap)
  BY DEF KeptSoFar
<1>2. PICK place \in [1..len -> 1..(n - 1)] :
        /\ \A l, m \in 1..len : l < m => place[l] < place[m]
        /\ \A m \in 1..len : Good(place[m])
        /\ \A i \in 1..(n - 1) : Good(i) => \E m \in 1..len : place[m] = i
        /\ \A m \in 1..len : list[m] = cs[place[m]]
  BY DEF KeptSoFar
<1>3. n \in Nat /\ n - 1 \in Nat /\ n > 0 /\ c \in S /\ len \in Nat
  BY <1>1
<1>4. ASSUME NEW x PROVE /\ before(x) \in Nat /\ upto(x) \in Nat
                         /\ upto(x) = before(x) + IF Eligible(n, cs, seen, blocked) /\ creator = x THEN 1 ELSE 0
  <2>1. before(x) \in Nat
    BY <1>3, EligibleCount
  <2>2. upto(x) \in Nat /\ upto(x) = before(x) + IF Eligible(n, cs, seen, blocked) /\ creator = x THEN 1 ELSE 0
    BY <1>3, EligibleCount
  <2> QED
    BY <2>1, <2>2
<1>5. SameBefore(n, cs, seen, blocked) = EligibleOf(creator, n - 1, cs, seen, blocked)
  BY DEF SameBefore, EligibleOf
<1>6. Good(n) <=> /\ Eligible(n, cs, seen, blocked)
                  /\ creator = Nil \/ cap <= 0 \/ before(creator) < cap
  BY <1>5 DEF Keeps
<1>7. Good(n) <=> Eligible(n, cs, seen, blocked) /\ UnderCap(creator, list, cap)
  <2>1. CASE creator = Nil \/ cap <= 0
    BY <1>6, <2>1 DEF UnderCap
  <2>2. CASE creator # Nil /\ ~(cap <= 0)
    <3>1. CountOf(creator, list) = AtMost(before(creator), cap)
      BY <1>1, <2>2
    <3>2. before(creator) \in Nat
      BY <1>4
    <3> HIDE DEF before
    <3>3. AtMost(before(creator), cap) < cap <=> before(creator) < cap
      BY <3>2 DEF AtMost
    <3> QED
      BY <1>6, <2>2, <3>1, <3>3 DEF UnderCap
  <2> QED
    BY <2>1, <2>2
<1>8. new = IF Good(n) THEN Append(list, c) ELSE list
  BY <1>7 DEF Admit, Eligible
<1> HIDE DEF before, upto, Good, new, creator, c, len
<1>9. cap > 0 => \A x : x # Nil => CountOf(x, new) = AtMost(upto(x), cap)
  <2> SUFFICES ASSUME cap > 0, NEW x, x # Nil PROVE CountOf(x, new) = AtMost(upto(x), cap)
    OBVIOUS
  <2>1. CountOf(x, list) = AtMost(before(x), cap)
    BY <1>1
  <2>2. /\ before(x) \in Nat
        /\ upto(x) = before(x) + IF Eligible(n, cs, seen, blocked) /\ creator = x THEN 1 ELSE 0
    BY <1>4
  <2>3. CountOf(x, Append(list, c)) = CountOf(x, list) + IF creator = x THEN 1 ELSE 0
    BY <1>1, <1>3, CountOfMore DEF creator
  <2>4. CASE Good(n)
    <3>1. Eligible(n, cs, seen, blocked) /\ (creator = x => before(x) < cap)
      BY <1>6, <2>4
    <3>2. new = Append(list, c)
      BY <1>8, <2>4
    <3>3. CASE creator = x
      <4>1. upto(x) = before(x) + 1 /\ before(x) < cap /\ CountOf(x, new) = AtMost(before(x), cap) + 1
        BY <2>1, <2>2, <2>3, <3>1, <3>2, <3>3
      <4> QED
        BY <2>2, <4>1 DEF AtMost
    <3>4. CASE creator # x
      <4>1. upto(x) = before(x) /\ CountOf(x, new) = AtMost(before(x), cap)
        BY <2>1, <2>2, <2>3, <3>2, <3>4 DEF AtMost
      <4> QED
        BY <4>1
    <3> QED
      BY <3>3, <3>4
  <2>5. CASE ~Good(n)
    <3>1. CountOf(x, new) = AtMost(before(x), cap)
      BY <1>8, <2>1, <2>5
    <3>2. CASE Eligible(n, cs, seen, blocked) /\ creator = x
      <4>1. ~(before(x) < cap)
        BY <1>6, <2>5, <3>2
      <4>2. upto(x) = before(x) + 1
        BY <2>2, <3>2
      <4> QED
        BY <2>2, <3>1, <4>1, <4>2 DEF AtMost
    <3>3. CASE ~(Eligible(n, cs, seen, blocked) /\ creator = x)
      <4>1. upto(x) = before(x)
        BY <2>2, <3>3
      <4> QED
        BY <3>1, <4>1
    <3> QED
      BY <3>2, <3>3
  <2> QED
    BY <2>4, <2>5
<1>10. \A i \in 1..n : i = n \/ i \in 1..(n - 1)
  BY <1>3
<1>11. n \in 1..n /\ \A i \in 1..(n - 1) : i \in 1..n /\ i < n
  BY <1>3
<1>12. CASE ~Good(n)
  <2>1. new = list
    BY <1>8, <1>12
  <2>2. place \in [1..len -> 1..n]
    BY <1>2, <1>11
  <2>3. \A i \in 1..n : Good(i) => \E m \in 1..len : place[m] = i
    BY <1>2, <1>10, <1>12
  <2>4. KeptSoFar(list, cs, seen, blocked, cap, n, S)
    BY <1>1, <1>2, <1>9, <2>1, <2>2, <2>3 DEF KeptSoFar, upto, Good, len
  <2> QED
    BY <2>1, <2>4 DEF new, c
<1>13. CASE Good(n)
  <2>1. new = Append(list, c)
    BY <1>8, <1>13
  <2>2. /\ new \in Seq(S) /\ Len(new) = len + 1 /\ new[len + 1] = c
        /\ \A m \in 1..len : new[m] = list[m]
    BY <1>1, <1>3, <2>1, AppendProperties DEF len
  <2> DEFINE place2 == [m \in 1..(len + 1) |-> IF m = len + 1 THEN n ELSE place[m]]
  <2>3. \A m \in 1..(len + 1) : m = len + 1 \/ (m \in 1..len /\ m # len + 1)
    BY <1>3
  <2>4. len + 1 \in 1..(len + 1) /\ \A m \in 1..len : m \in 1..(len + 1) /\ m # len + 1
    BY <1>3
  <2>5. place2[len + 1] = n /\ \A m \in 1..len : place2[m] = place[m] /\ place[m] \in 1..(n - 1)
    BY <1>2, <2>4
  <2>6. place2 \in [1..(len + 1) -> 1..n]
    <3>1. \A m \in 1..(len + 1) : place2[m] \in 1..n
      BY <1>11, <2>3, <2>5
    <3> QED
      BY <3>1
  <2> HIDE DEF place2
  <2>7. \A l, m \in 1..(len + 1) : l < m => place2[l] < place2[m]
    <3> SUFFICES ASSUME NEW l \in 1..(len + 1), NEW m \in 1..(len + 1), l < m PROVE place2[l] < place2[m]
      OBVIOUS
    <3>1. l \in 1..len
      BY <1>3
    <3>2. CASE m = len + 1
      BY <1>11, <2>5, <3>1, <3>2
    <3>3. CASE m \in 1..len
      BY <1>2, <2>5, <3>1, <3>3
    <3> QED
      BY <2>3, <3>2, <3>3
  <2>8. \A m \in 1..(len + 1) : Good(place2[m]) /\ new[m] = cs[place2[m]]
    <3> SUFFICES ASSUME NEW m \in 1..(len + 1) PROVE Good(place2[m]) /\ new[m] = cs[place2[m]]
      OBVIOUS
    <3>1. CASE m = len + 1
      BY <1>13, <2>2, <2>5, <3>1 DEF c
    <3>2. CASE m \in 1..len
      BY <1>2, <2>2, <2>5, <3>2
    <3> QED
      BY <2>3, <3>1, <3>2
  <2>9. \A i \in 1..n : Good(i) => \E m \in 1..(len + 1) : place2[m] = i
    <3> SUFFICES ASSUME NEW i \in 1..n, Good(i) PROVE \E m \in 1..(len + 1) : place2[m] = i
      OBVIOUS
    <3>1. CASE i = n
      BY <2>4, <2>5, <3>1
    <3>2. CASE i \in 1..(n - 1)
      <4>1. PICK m \in 1..len : place[m] = i
        BY <1>2, <3>2
      <4> QED
        BY <2>4, <2>5, <4>1
    <3> QED
      BY <1>10, <3>1, <3>2
  <2>a. \E p \in [1..Len(new) -> 1..n] :
          /\ \A l, m \in 1..Len(new) : l < m => p[l] < p[m]
          /\ \A m \in 1..Len(new) : Good(p[m])
          /\ \A i \in 1..n : Good(i) => \E m \in 1..Len(new) : p[m] = i
          /\ \A m \in 1..Len(new) : new[m] = cs[p[m]]
    <3> DEFINE Fits(p, k) == /\ \A l, m \in 1..k : l < m => p[l] < p[m]
                             /\ \A m \in 1..k : Good(p[m])
                             /\ \A i \in 1..n : Good(i) => \E m \in 1..k : p[m] = i
                             /\ \A m \in 1..k : new[m] = cs[p[m]]
    <3>1. Fits(place2, len + 1)
      BY <2>7, <2>8, <2>9
    <3> HIDE DEF Fits
    <3>2. \E p \in [1..Len(new) -> 1..n] : Fits(p, Len(new))
      BY <2>2, <2>6, <3>1
    <3> QED
      BY <3>2 DEF Fits
  <2>10. KeptSoFar(new, cs, seen, blocked, cap, n, S)
    BY <1>9, <2>2, <2>a DEF KeptSoFar, upto, Good
  <2> QED
    BY <2>10 DEF new, c
<1> QED
  BY <1>12, <1>13

Filters(f, cs, seen, blocked, cap) ==
    f = [i \in 0..Len(cs) |-> IF i = 0 THEN <<>> ELSE Admit(f[i - 1], cs[i], seen, blocked, cap)]

LEMMA FiltersExist ==
    ASSUME NEW S, NEW cs \in Seq(S), NEW seen, NEW blocked, NEW cap
    PROVE  \E f : Filters(f, cs, seen, blocked, cap)
<1> DEFINE n == Len(cs)
           F == [x \in Seq(S) \X (Nat \ {0}) |->
                    IF x[2] \in 1..n THEN Admit(x[1], cs[x[2]], seen, blocked, cap) ELSE x[1]]
<1>1. n \in Nat /\ \A i \in 1..n : cs[i] \in S /\ i \in Nat \ {0}
  OBVIOUS
<1> HIDE DEF n
<1>2. ASSUME NEW list \in Seq(S), NEW c \in S PROVE Admit(list, c, seen, blocked, cap) \in Seq(S)
  BY AppendProperties DEF Admit
<1>3. F \in [Seq(S) \X (Nat \ {0}) -> Seq(S)]
  <2>1. \A x \in Seq(S) \X (Nat \ {0}) : x[1] \in Seq(S)
    OBVIOUS
  <2> QED
    BY <1>1, <1>2, <2>1
<1>4. \A list \in Seq(S), i \in 1..n : F[<<list, i>>] = Admit(list, cs[i], seen, blocked, cap)
  BY <1>1
<1>5. <<>> \in Seq(S)
  OBVIOUS
<1> HIDE DEF F
<1>6. PICK g \in [0..n -> Seq(S)] : Recursively(g, <<>>, F, n)
  BY <1>1, <1>3, <1>5, Recursion
<1>7. ASSUME NEW i \in 0..n, i # 0 PROVE F[<<g[i - 1], i>>] = Admit(g[i - 1], cs[i], seen, blocked, cap)
  <2>1. i \in 1..n /\ i - 1 \in 0..n
    BY <1>1, <1>7
  <2> QED
    BY <1>4, <2>1
<1>8. g = [i \in 0..n |-> IF i = 0 THEN <<>> ELSE Admit(g[i - 1], cs[i], seen, blocked, cap)]
  BY <1>6, <1>7 DEF Recursively
<1> QED
  BY <1>8 DEF Filters, n

\* What filter returns.
LEMMA FilterFacts ==
    ASSUME NEW S, NEW cs \in Seq(S), NEW seen, NEW blocked, NEW cap \in Int
    PROVE  CapKeepsFirst(cs, seen, blocked, cap, Filter(cs, seen, blocked, cap))
<1> DEFINE n == Len(cs)
           f == CHOOSE kept : Filters(kept, cs, seen, blocked, cap)
           list == Filter(cs, seen, blocked, cap)
<1>1. n \in Nat /\ DOMAIN cs = 1..n
  OBVIOUS
<1>2. list = f[n]
  BY DEF Filter, Filters
<1>3. Filters(f, cs, seen, blocked, cap)
  BY FiltersExist
<1> HIDE DEF f, list
<1>4. \A i \in 0..n : f[i] = IF i = 0 THEN <<>> ELSE Admit(f[i - 1], cs[i], seen, blocked, cap)
  BY <1>3 DEF Filters
<1> DEFINE T == {i \in 0..n : KeptSoFar(f[i], cs, seen, blocked, cap, i, S)}
<1>5. 0 \in T
  <2>1. <<>> \in Seq(S) /\ Len(<<>>) = 0 /\ 1..0 = {} /\ DOMAIN <<>> = {}
    OBVIOUS
  <2> DEFINE place == [m \in 1..0 |-> 1]
  <2>2. place \in [1..0 -> 1..0]
    BY <2>1
  <2>3. ASSUME cap > 0, NEW x
        PROVE  CountOf(x, <<>>) = AtMost(Cardinality(EligibleOf(x, 0, cs, seen, blocked)), cap)
    <3>1. EligibleOf(x, 0, cs, seen, blocked) = {}
      BY <2>1 DEF EligibleOf
    <3>2. {i \in DOMAIN <<>> : <<>>[i].creator_id = x} = {}
      BY <2>1
    <3>3. CountOf(x, <<>>) = 0
      BY <3>2, FS_EmptySet DEF CountOf
    <3>4. AtMost(0, cap) = 0
      BY <2>3 DEF AtMost
    <3> QED
      BY <3>1, <3>3, <3>4, FS_EmptySet
  <2>4. KeptSoFar(<<>>, cs, seen, blocked, cap, 0, S)
    BY <2>1, <2>2, <2>3 DEF KeptSoFar
  <2> QED
    BY <1>1, <1>4, <2>4
<1>6. ASSUME NEW i \in 1..n, i - 1 \in T PROVE i \in T
  <2>1. i \in 0..n /\ i # 0
    BY <1>1
  <2>2. f[i] = Admit(f[i - 1], cs[i], seen, blocked, cap)
    BY <1>4, <2>1
  <2>3. KeptSoFar(Admit(f[i - 1], cs[i], seen, blocked, cap), cs, seen, blocked, cap, i, S)
    BY <1>6, AdmitKeeps
  <2> QED
    BY <2>1, <2>2, <2>3
<1> HIDE DEF T
<1>7. n \in T
  <2> HIDE DEF n
  <2>1. \A i \in 0..n : i \in T
    BY <1>1, <1>5, <1>6, Climb
  <2> QED
    BY <1>1, <2>1
<1>8. KeptSoFar(list, cs, seen, blocked, cap, n, S)
  BY <1>2, <1>7 DEF T
<1> DEFINE kept == {i \in DOMAIN cs : Keeps(i, cs, seen, blocked, cap)}
<1> HIDE DEF n
<1>9. PICK place \in [1..Len(list) -> 1..n] :
        /\ \A l, m \in 1..Len(list) : l < m => place[l] < place[m]
        /\ \A m \in 1..Len(list) : Keeps(place[m], cs, seen, blocked, cap)
        /\ \A i \in 1..n : Keeps(i, cs, seen, blocked, cap) => \E m \in 1..Len(list) : place[m] = i
        /\ \A m \in 1..Len(list) : list[m] = cs[place[m]]
  BY <1>8 DEF KeptSoFar
<1>10. DOMAIN list = 1..Len(list)
  BY <1>8 DEF KeptSoFar
<1>11. place \in [DOMAIN list -> kept]
  BY <1>1, <1>9, <1>10
<1>12. \A i \in kept : \E m \in DOMAIN list : place[m] = i
  BY <1>1, <1>9, <1>10
<1> QED
  <2>1. /\ \A l, m \in DOMAIN list : l < m => place[l] < place[m]
        /\ \A m \in DOMAIN list : list[m] = cs[place[m]]
    BY <1>9, <1>10
  <2>2. kept = {i \in DOMAIN cs :
                    /\ Eligible(i, cs, seen, blocked)
                    /\ \/ cs[i].creator_id = Nil \/ cap <= 0
                       \/ Cardinality(SameBefore(i, cs, seen, blocked)) < cap}
    BY DEF Keeps
  <2> HIDE DEF kept
  <2>3. CapKeepsFirst(cs, seen, blocked, cap, list)
    BY <1>11, <1>12, <2>1, <2>2 DEF CapKeepsFirst
  <2> QED
    BY <2>3 DEF list

-----------------------------------------------------------------------------
\* What mix_exploration takes.

\* What is left of a list whose beginning holds nothing unseen.
LeftOf(rest, whole, ids, S) ==
    /\ rest \in Seq(S)
    /\ \E d \in 0..Len(whole) :
          /\ Len(rest) = Len(whole) - d
          /\ \A i \in 1..Len(rest) : rest[i] = whole[d + i]
          /\ \A i \in 1..d : whole[i].id \in ids

LEMMA LeftOfMore ==
    ASSUME NEW S, NEW rest, NEW whole, NEW ids, NEW more, ids \subseteq more, LeftOf(rest, whole, ids, S)
    PROVE  LeftOf(rest, whole, more, S)
  BY DEF LeftOf

Holds(whole, c) == \E i \in 1..Len(whole) : whole[i] = c

AllIn(whole, ids) == \A i \in 1..Len(whole) : whole[i].id \in ids

\* Nothing is left, or the first unseen of the whole list is taken.
Took(taken, whole, ids, S) ==
    \/ /\ taken = [picked |-> <<>>, rest |-> <<>>]
       /\ LeftOf(<<>>, whole, ids, S) /\ AllIn(whole, ids)
       /\ FirstUnseen(whole, ids) = {}
    \/ \E c \in S :
          /\ taken.picked = <<c>>
          /\ LeftOf(taken.rest, whole, ids \cup {c.id}, S)
          /\ c.id \notin ids /\ Holds(whole, c)
          /\ FirstUnseen(whole, ids) = {c}

\* take_unique takes the first unseen of the whole list, if there is one.
LEMMA TakeUniqueFacts ==
    ASSUME NEW S, NEW whole \in Seq(S), NEW ids, NEW rest, LeftOf(rest, whole, ids, S)
    PROVE  Took(TakeUnique(rest, ids), whole, ids, S)
<1> DEFINE n == Len(whole)
           l == Len(rest)
           I == {i \in 1..l : rest[i].id \notin ids}
           U == {i \in DOMAIN whole : whole[i].id \notin ids}
           taken == TakeUnique(rest, ids)
<1>1. rest \in Seq(S) /\ l \in Nat /\ n \in Nat /\ DOMAIN whole = 1..n
  BY DEF LeftOf
<1>2. PICK d \in 0..n :
        /\ l = n - d
        /\ \A i \in 1..l : rest[i] = whole[d + i]
        /\ \A i \in 1..d : whole[i].id \in ids
  BY DEF LeftOf
<1>3. taken = IF I = {} THEN [picked |-> <<>>, rest |-> <<>>]
              ELSE IF Min(I) = 0 THEN [picked |-> <<>>, rest |-> <<>>]
              ELSE [picked |-> <<rest[Min(I)]>>, rest |-> SubSeq(rest, Min(I) + 1, l)]
  BY DEF TakeUnique, SelectInSeq
<1> HIDE DEF n, l, taken
<1>4. \A i \in 1..n : i \in 1..d \/ (i - d \in 1..l /\ d + (i - d) = i)
  BY <1>1, <1>2
<1>5. \A i \in 1..l : d + i \in 1..n
  BY <1>1, <1>2
<1>6. CASE I = {}
  <2>1. \A i \in 1..n : whole[i].id \in ids
    <3> SUFFICES ASSUME NEW i \in 1..n, i - d \in 1..l, d + (i - d) = i PROVE whole[i].id \in ids
      BY <1>2, <1>4
    <3>1. rest[i - d] = whole[i]
      BY <1>2
    <3> QED
      BY <1>6, <3>1
  <2>2. LeftOf(<<>>, whole, ids, S)
    <3>1. n \in 0..n /\ Len(<<>>) = n - n /\ 1..0 = {} /\ <<>> \in Seq(S)
      BY <1>1
    <3> QED
      BY <2>1, <3>1 DEF LeftOf, n
  <2>3. FirstUnseen(whole, ids) = {}
    BY <1>1, <2>1 DEF FirstUnseen
  <2> QED
    BY <1>3, <1>6, <2>1, <2>2, <2>3 DEF AllIn, Took, taken, n
<1>7. CASE I # {}
  <2> DEFINE p == Min(I)
             c == rest[p]
             after == SubSeq(rest, p + 1, l)
  <2>1. p \in I /\ \A i \in I : p <= i
    <3>1. I \subseteq Nat
      OBVIOUS
    <3> HIDE DEF I
    <3> QED
      BY <1>7, <3>1, LeastOf
  <2>2. p \in 1..l /\ c.id \notin ids /\ \A i \in 1..l : rest[i].id \notin ids => p <= i
    BY <2>1
  <2>3. taken.picked = <<c>> /\ taken.rest = after
    <3>1. Min(I) # 0
      BY <2>2
    <3>2. taken = [picked |-> <<rest[Min(I)]>>, rest |-> SubSeq(rest, Min(I) + 1, l)]
      <4> HIDE DEF I
      <4> QED
        BY <1>3, <1>7, <3>1
    <3> QED
      BY <3>2
  <2> HIDE DEF p
  <2>4. c \in S /\ c = whole[d + p] /\ d + p \in 1..n
    BY <1>1, <1>2, <1>5, <2>2 DEF l
  <2>5. /\ after \in Seq(S) /\ Len(after) = l - p
        /\ \A i \in 1..(l - p) : after[i] = rest[p + i]
    <3>1. p \in Nat /\ p <= Len(rest)
      BY <2>2 DEF l
    <3> QED
      BY <1>1, <3>1, FollowingFacts DEF l
  <2>6. \A i \in 1..n : i < d + p => whole[i].id \in ids
    <3> SUFFICES ASSUME NEW i \in 1..n, i < d + p, i - d \in 1..l, d + (i - d) = i
                 PROVE  whole[i].id \in ids
      BY <1>2, <1>4
    <3>1. rest[i - d] = whole[i]
      BY <1>2
    <3>2. i - d < p
      BY <1>2, <2>2
    <3>3. rest[i - d].id \in ids
      BY <2>2, <3>2
    <3> QED
      BY <3>1, <3>3
  <2> HIDE DEF after, c
  <2>7. LeftOf(after, whole, ids \cup {c.id}, S)
    <3>1. d + p \in 0..n /\ Len(after) = n - (d + p)
      BY <1>1, <1>2, <2>2, <2>4, <2>5
    <3>2. \A i \in 1..Len(after) : after[i] = whole[(d + p) + i]
      <4> SUFFICES ASSUME NEW i \in 1..(l - p) PROVE after[i] = whole[(d + p) + i]
        BY <2>5
      <4>1. p + i \in 1..l /\ d + (p + i) = (d + p) + i
        BY <1>1, <1>2, <2>2
      <4>2. rest[p + i] = whole[d + (p + i)]
        BY <1>2, <4>1
      <4> QED
        BY <2>5, <4>1, <4>2
    <3>3. \A i \in 1..(d + p) : whole[i].id \in ids \cup {c.id}
      <4> SUFFICES ASSUME NEW i \in 1..(d + p) PROVE whole[i].id \in ids \cup {c.id}
        OBVIOUS
      <4>1. i \in 1..n /\ (i = d + p \/ i < d + p)
        BY <1>1, <1>2, <2>2, <2>4
      <4> QED
        BY <2>4, <2>6, <4>1
    <3> QED
      BY <2>5, <3>1, <3>2, <3>3 DEF LeftOf, n
  <2>8. FirstUnseen(whole, ids) = {c}
    <3>1. d + p \in U /\ \A i \in U : d + p <= i
      <4>1. d + p \in U
        BY <1>1, <2>2, <2>4 DEF c
      <4>2. ASSUME NEW i \in U PROVE d + p <= i
        <5>1. i \in 1..n /\ ~(i < d + p)
          BY <1>1, <2>6
        <5> QED
          BY <1>2, <2>2, <5>1
      <4> QED
        BY <4>1, <4>2
    <3>2. U \subseteq Nat /\ U # {}
      BY <1>1, <3>1
    <3>3. ~(\A i \in DOMAIN whole : whole[i].id \in ids)
      BY <3>2
    <3>4. FirstUnseen(whole, ids) = {whole[Min(U)]}
      BY <3>3 DEF FirstUnseen
    <3> HIDE DEF U
    <3>5. Min(U) \in U /\ \A i \in U : Min(U) <= i
      BY <3>2, LeastOf
    <3>6. Min(U) <= d + p /\ d + p <= Min(U) /\ Min(U) \in Nat /\ d + p \in Nat
      BY <3>1, <3>2, <3>5
    <3>7. Min(U) = d + p
      BY <3>6
    <3> QED
      BY <2>4, <3>4, <3>7
  <2>9. c.id \notin ids /\ Holds(whole, c)
    BY <2>2, <2>4 DEF Holds, c, n
  <2> QED
    BY <2>3, <2>4, <2>7, <2>8, <2>9 DEF Took, taken
<1> QED
  BY <1>6, <1>7

Nothing(rest) == [picked |-> <<>>, rest |-> rest]

\* Both are used up, or the next of them is taken.
TookEither(first, second, M, O, ids, S) ==
    \/ /\ first.picked \o second.picked = <<>>
       /\ LeftOf(first.rest, M, ids, S) /\ LeftOf(second.rest, O, ids, S)
       /\ AllIn(M, ids) /\ AllIn(O, ids)
    \/ \E c \in S :
          /\ first.picked \o second.picked = <<c>>
          /\ LeftOf(first.rest, M, ids \cup {c.id}, S)
          /\ LeftOf(second.rest, O, ids \cup {c.id}, S)
          /\ c.id \notin ids /\ (Holds(M, c) \/ Holds(O, c))
          /\ {c} = IF FirstUnseen(M, ids) # {} THEN FirstUnseen(M, ids) ELSE FirstUnseen(O, ids)

\* From the list whose turn it is, else from the other.
LEMMA TakeFromEither ==
    ASSUME NEW S, NEW M \in Seq(S), NEW O \in Seq(S), NEW ids, NEW mine, NEW other,
           LeftOf(mine, M, ids, S), LeftOf(other, O, ids, S),
           NEW first, first = TakeUnique(mine, ids),
           NEW second, second = IF first.picked # <<>> THEN Nothing(other) ELSE TakeUnique(other, ids)
    PROVE  TookEither(first, second, M, O, ids, S)
<1> USE DEF TookEither
<1>1. CASE \E c \in S :
              /\ first.picked = <<c>>
              /\ LeftOf(first.rest, M, ids \cup {c.id}, S)
              /\ c.id \notin ids /\ Holds(M, c)
              /\ FirstUnseen(M, ids) = {c}
  <2>1. PICK c \in S :
           /\ first.picked = <<c>>
           /\ LeftOf(first.rest, M, ids \cup {c.id}, S)
           /\ c.id \notin ids /\ Holds(M, c)
           /\ FirstUnseen(M, ids) = {c}
    BY <1>1
  <2>2. second = Nothing(other)
    BY <2>1
  <2>3. second.picked = <<>> /\ second.rest = other
    BY <2>2 DEF Nothing
  <2>4. LeftOf(other, O, ids \cup {c.id}, S)
    BY LeftOfMore
  <2>5. <<c>> \o <<>> = <<c>>
    OBVIOUS
  <2> QED
    BY <2>1, <2>3, <2>4, <2>5
<1>2. CASE /\ first = Nothing(<<>>)
           /\ LeftOf(<<>>, M, ids, S) /\ AllIn(M, ids)
           /\ FirstUnseen(M, ids) = {}
  <2>1. first.picked = <<>> /\ first.rest = <<>> /\ second = TakeUnique(other, ids)
    BY <1>2 DEF Nothing
  <2>2. CASE \E c \in S :
                /\ second.picked = <<c>>
                /\ LeftOf(second.rest, O, ids \cup {c.id}, S)
                /\ c.id \notin ids /\ Holds(O, c)
                /\ FirstUnseen(O, ids) = {c}
    <3>1. PICK c \in S :
             /\ second.picked = <<c>>
             /\ LeftOf(second.rest, O, ids \cup {c.id}, S)
             /\ c.id \notin ids /\ Holds(O, c)
             /\ FirstUnseen(O, ids) = {c}
      BY <2>2
    <3>2. LeftOf(<<>>, M, ids \cup {c.id}, S)
      BY <1>2, LeftOfMore
    <3>3. <<>> \o <<c>> = <<c>>
      OBVIOUS
    <3> QED
      BY <1>2, <2>1, <3>1, <3>2, <3>3
  <2>3. CASE /\ second = Nothing(<<>>)
             /\ LeftOf(<<>>, O, ids, S) /\ AllIn(O, ids)
    <3>1. second.picked = <<>> /\ second.rest = <<>> /\ <<>> \o <<>> = <<>>
      BY <2>3 DEF Nothing
    <3> QED
      BY <1>2, <2>1, <2>3, <3>1
  <2>4. Took(second, O, ids, S)
    BY <2>1, TakeUniqueFacts
  <2> QED
    BY <2>2, <2>3, <2>4 DEF Nothing, Took
<1>3. Took(first, M, ids, S)
  BY TakeUniqueFacts
<1> QED
  BY <1>1, <1>2, <1>3 DEF Nothing, Took

-----------------------------------------------------------------------------
\* When mix_exploration explores.

LEMMA Multiples ==
    ASSUME NEW r \in Nat, NEW p \in Int, NEW q \in Int, p <= q
    PROVE  p * r <= q * r
<1>1. q - p >= 0 /\ q - p \in Int
  OBVIOUS
<1>2. (q - p) * r >= 0
  BY <1>1
<1>3. (q - p) * r = q * r - p * r
  OBVIOUS
<1> QED
  BY <1>2, <1>3

LEMMA Quotient ==
    ASSUME NEW a \in Nat, NEW b \in Nat \ {0}
    PROVE  a \div b \in Int /\ (a \div b) * b <= a /\ a < (a \div b + 1) * b
  OBVIOUS

LEMMA MaxIs ==
    ASSUME NEW I \in SUBSET Int, NEW m \in I, \A i \in I : i <= m
    PROVE  Max(I) = m
<1>1. \A i \in I : m >= i
  OBVIOUS
<1>2. Max(I) \in I /\ \A i \in I : Max(I) >= i
  BY <1>1 DEF Max
<1>3. Max(I) >= m /\ Max(I) <= m /\ Max(I) \in Int /\ m \in Int
  BY <1>2
<1> QED
  BY <1>3

\* The rounded 1 / ratio is the greatest of the nearest.
LEMMA PeriodFacts ==
    ASSUME NEW r \in 1..99
    PROVE  ExploreEvery(r) = Period(r) /\ Period(r) \in Nat \ {0}
<1> DEFINE q == (200 + r) \div (2 * r)
           P == {p \in 1..100 : 2 * p * r - 200 \in -r..r}
           m == IF q <= 2 THEN 2 ELSE q
<1>1. q \in Int /\ q * (2 * r) <= 200 + r /\ 200 + r < (q + 1) * (2 * r)
  <2>1. 200 + r \in Nat /\ 2 * r \in Nat \ {0}
    OBVIOUS
  <2> QED
    BY <2>1, Quotient
<1>2. ExploreEvery(r) = Max({2, q})
  BY DEF ExploreEvery
<1>3. Period(r) = Max({2} \cup P)
  BY DEF Period
<1> HIDE DEF q
<1>4. q \in 1..100
  <2>1. ASSUME q <= 0 PROVE FALSE
    <3>1. (q + 1) * (2 * r) <= 1 * (2 * r)
      <4>1. q + 1 <= 1 /\ q + 1 \in Int /\ 2 * r \in Nat
        BY <1>1, <2>1
      <4> QED
        BY <4>1, Multiples
    <3> QED
      BY <1>1, <3>1
  <2>2. ASSUME q >= 101 PROVE FALSE
    <3>1. 101 * (2 * r) <= q * (2 * r)
      <4>1. 101 <= q /\ 101 \in Int /\ 2 * r \in Nat
        BY <1>1, <2>2
      <4> QED
        BY <1>1, <4>1, Multiples
    <3> QED
      BY <1>1, <3>1
  <2> QED
    BY <1>1, <2>1, <2>2
<1>5. q \in P
  <2>1. q * (2 * r) = 2 * q * r /\ (q + 1) * (2 * r) = 2 * q * r + 2 * r /\ 2 * q * r \in Int
    BY <1>4
  <2>2. 2 * q * r - 200 \in -r..r
    BY <1>1, <2>1
  <2> QED
    BY <1>4, <2>2
<1>6. ASSUME NEW p \in P PROVE p <= q
  <2>1. p \in 1..100 /\ 2 * p * r <= 200 + r
    <3>1. p \in 1..100 /\ 2 * p * r - 200 \in -r..r /\ 2 * p * r \in Int
      OBVIOUS
    <3> QED
      BY <3>1
  <2>2. ASSUME q + 1 <= p PROVE FALSE
    <3>1. (q + 1) * (2 * r) <= p * (2 * r)
      <4>1. q + 1 \in Int /\ 2 * r \in Nat
        BY <1>4
      <4> QED
        BY <2>1, <2>2, <4>1, Multiples
    <3>2. p * (2 * r) = 2 * p * r
      BY <2>1
    <3> QED
      BY <1>1, <2>1, <3>1, <3>2
  <2> QED
    BY <1>4, <2>1, <2>2
<1>7. m \in Nat \ {0} /\ 2 <= m /\ q <= m /\ (m = 2 \/ m = q)
  BY <1>4
<1> HIDE DEF m
<1>8. Max({2, q}) = m
  <2>1. {2, q} \in SUBSET Int /\ m \in {2, q} /\ \A i \in {2, q} : i <= m
    BY <1>4, <1>7
  <2> QED
    BY <2>1, MaxIs
<1>9. P \subseteq Int
  <2>1. \A p \in P : p \in 1..100
    OBVIOUS
  <2>2. \A p \in 1..100 : p \in Int
    OBVIOUS
  <2> HIDE DEF P
  <2> QED
    BY <2>1, <2>2, Zenon
<1> HIDE DEF P
<1>10. Max({2} \cup P) = m
  <2> DEFINE both == {2} \cup P
  <2>1. both \in SUBSET Int /\ m \in both
    BY <1>5, <1>7, <1>9
  <2>2. \A i \in both : i <= m
    <3> SUFFICES ASSUME NEW p \in P PROVE p <= m
      BY <1>7
    <3>1. p <= q /\ p \in Int /\ q \in Int /\ m \in Int
      BY <1>4, <1>6, <1>7, <1>9
    <3> QED
      BY <1>7, <3>1
  <2> HIDE DEF both
  <2>3. Max(both) = m
    BY <2>1, <2>2, MaxIs
  <2> QED
    BY <2>3 DEF both
<1> QED
  BY <1>2, <1>3, <1>7, <1>8, <1>10

\* The slots that explore.
LEMMA ExploresFacts ==
    ASSUME NEW ratio \in 0..100, NEW slot \in Nat
    PROVE  (ExploreEvery(ratio) # Never /\ slot % ExploreEvery(ratio) = 0) <=> Explores(slot, ratio)
<1>1. CASE ratio = 0
  BY <1>1 DEF ExploreEvery, Never, Explores
<1>2. CASE ratio = 100
  BY <1>2 DEF ExploreEvery, Never, Explores, Period
<1>3. CASE ratio \in 1..99
  <2>1. ExploreEvery(ratio) = Period(ratio) /\ ExploreEvery(ratio) # Never /\ ratio > 0
    <3>1. ExploreEvery(ratio) = Period(ratio) /\ Period(ratio) \in Nat \ {0}
      BY <1>3, PeriodFacts
    <3>2. ratio > 0 /\ Period(ratio) # 0
      BY <1>3, <3>1
    <3> QED
      BY <3>1, <3>2 DEF Never
  <2> QED
    BY <2>1 DEF Explores
<1>4. ratio = 0 \/ ratio = 100 \/ ratio \in 1..99
  OBVIOUS
<1> QED
  BY <1>1, <1>2, <1>3, <1>4

-----------------------------------------------------------------------------
\* What mix_exploration answers.

AllIds(exploit, explore) == {c.id : c \in ToSet(exploit) \cup ToSet(explore)}

LEMMA HeldIds ==
    ASSUME NEW exploit, NEW explore
    PROVE  /\ \A c : Holds(exploit, c) \/ Holds(explore, c) => c.id \in AllIds(exploit, explore)
           /\ \A ids : AllIn(exploit, ids) /\ AllIn(explore, ids) => AllIds(exploit, explore) \subseteq ids
  BY DEF Holds, AllIn, AllIds, ToSet

\* The first unseen of the list whose turn it is, else of the other.
NextOf(explores, exploit, explore, ids) ==
    LET mine == FirstUnseen(IF explores THEN explore ELSE exploit, ids)
    IN  IF mine # {} THEN mine ELSE FirstUnseen(IF explores THEN exploit ELSE explore, ids)

MixState(st, exploit, explore, S) ==
    /\ st \in [exploit : Seq(S), explore : Seq(S), seen : SUBSET AllIds(exploit, explore), mixed : Seq(S)]
    /\ LeftOf(st.exploit, exploit, st.seen, S)
    /\ LeftOf(st.explore, explore, st.seen, S)

\* The next of the two lists is appended, or there is none.
MixAdds(next, st, explores, exploit, explore, S) ==
    \/ /\ next.mixed = st.mixed /\ next.seen = st.seen
       /\ AllIds(exploit, explore) \subseteq st.seen
    \/ \E c \in S :
          /\ next.mixed = Append(st.mixed, c) /\ next.seen = st.seen \cup {c.id}
          /\ c.id \notin st.seen
          /\ {c} = NextOf(explores, exploit, explore, st.seen)

\* One slot adds the next of the two lists, or there is none.
LEMMA MixSlotFacts ==
    ASSUME NEW S, NEW exploit \in Seq(S), NEW explore \in Seq(S), NEW st, NEW every, NEW slot,
           MixState(st, exploit, explore, S),
           NEW explores \in BOOLEAN, explores <=> (every # Never /\ slot % every = 0),
           NEW next, next = MixSlot(every, slot, st)
    PROVE  MixState(next, exploit, explore, S) /\ MixAdds(next, st, explores, exploit, explore, S)
<1> USE DEF MixAdds
<1> DEFINE M == IF explores THEN explore ELSE exploit
           O == IF explores THEN exploit ELSE explore
           mine == IF explores THEN st.explore ELSE st.exploit
           other == IF explores THEN st.exploit ELSE st.explore
           ids == st.seen
           first == TakeUnique(mine, ids)
           second == IF first.picked # <<>> THEN Nothing(other) ELSE TakeUnique(other, ids)
           picked == first.picked \o second.picked
<1>1. next = [exploit |-> IF explores THEN second.rest ELSE first.rest,
              explore |-> IF explores THEN first.rest ELSE second.rest,
              seen |-> ids \cup {picked[i].id : i \in DOMAIN picked},
              mixed |-> st.mixed \o picked]
  BY DEF MixSlot, Nothing
<1>2. /\ M \in Seq(S) /\ O \in Seq(S)
      /\ LeftOf(mine, M, ids, S) /\ LeftOf(other, O, ids, S)
      /\ st.mixed \in Seq(S) /\ ids \in SUBSET AllIds(exploit, explore)
  BY DEF MixState
<1> HIDE DEF first, second, M, O, mine, other, ids
<1>3. TookEither(first, second, M, O, ids, S)
  <2>1. first = TakeUnique(mine, ids)
    BY DEF first
  <2>2. second = IF first.picked # <<>> THEN Nothing(other) ELSE TakeUnique(other, ids)
    BY DEF second
  <2> QED
    BY <1>2, <2>1, <2>2, TakeFromEither
<1> HIDE DEF picked
\* The lists are back in their places.
<1>4. ASSUME NEW more, LeftOf(first.rest, M, more, S), LeftOf(second.rest, O, more, S)
      PROVE  LeftOf(next.exploit, exploit, more, S) /\ LeftOf(next.explore, explore, more, S)
  <2>1. next.exploit = (IF explores THEN second.rest ELSE first.rest)
        /\ next.explore = (IF explores THEN first.rest ELSE second.rest)
    BY <1>1
  <2>2. CASE explores
    BY <1>4, <2>1, <2>2 DEF M, O
  <2>3. CASE ~explores
    BY <1>4, <2>1, <2>3 DEF M, O
  <2> QED
    BY <2>2, <2>3
<1>5. ASSUME NEW more \in SUBSET AllIds(exploit, explore), next.seen = more, next.mixed \in Seq(S),
             LeftOf(first.rest, M, more, S), LeftOf(second.rest, O, more, S)
      PROVE  MixState(next, exploit, explore, S)
  <2>1. LeftOf(next.exploit, exploit, more, S) /\ LeftOf(next.explore, explore, more, S)
    BY <1>4, <1>5
  <2>2. next.exploit \in Seq(S) /\ next.explore \in Seq(S)
    BY <2>1 DEF LeftOf
  <2>3. next \in [exploit : Seq(S), explore : Seq(S), seen : SUBSET AllIds(exploit, explore), mixed : Seq(S)]
    BY <1>1, <1>5, <2>2
  <2> QED
    BY <1>5, <2>1, <2>3 DEF MixState
<1>6. CASE /\ picked = <<>>
           /\ LeftOf(first.rest, M, ids, S) /\ LeftOf(second.rest, O, ids, S)
           /\ AllIn(M, ids) /\ AllIn(O, ids)
  <2>1. next.seen = ids /\ next.mixed = st.mixed
    <3>1. DOMAIN <<>> = {} /\ st.mixed \o <<>> = st.mixed
      BY <1>2
    <3> QED
      BY <1>1, <1>6, <3>1
  <2>2. AllIn(exploit, ids) /\ AllIn(explore, ids)
    BY <1>6 DEF M, O
  <2>3. AllIds(exploit, explore) \subseteq ids
    BY <2>2, HeldIds
  <2>4. MixState(next, exploit, explore, S)
    BY <1>2, <1>5, <1>6, <2>1
  <2> QED
    BY <2>1, <2>3, <2>4 DEF ids
<1>7. ASSUME NEW c \in S, picked = <<c>>,
             LeftOf(first.rest, M, ids \cup {c.id}, S), LeftOf(second.rest, O, ids \cup {c.id}, S),
             c.id \notin ids, Holds(M, c) \/ Holds(O, c),
             {c} = IF FirstUnseen(M, ids) # {} THEN FirstUnseen(M, ids) ELSE FirstUnseen(O, ids)
      PROVE  /\ MixState(next, exploit, explore, S)
             /\ next.mixed = Append(st.mixed, c) /\ next.seen = ids \cup {c.id}
             /\ {c} = NextOf(explores, exploit, explore, ids)
  <2>1. next.mixed = Append(st.mixed, c)
    <3>1. st.mixed \o <<c>> = Append(st.mixed, c)
      BY <1>2
    <3> QED
      BY <1>1, <1>7, <3>1
  <2>2. next.seen = ids \cup {c.id}
    <3>1. DOMAIN <<c>> = {1} /\ <<c>>[1] = c
      OBVIOUS
    <3>2. {picked[i].id : i \in DOMAIN picked} = {c.id}
      BY <1>7, <3>1
    <3>3. next.seen = ids \cup {picked[i].id : i \in DOMAIN picked}
      BY <1>1
    <3> QED
      BY <3>2, <3>3
  <2>3. Holds(exploit, c) \/ Holds(explore, c)
    BY <1>7 DEF M, O
  <2>4. ids \cup {c.id} \in SUBSET AllIds(exploit, explore)
    BY <1>2, <2>3, HeldIds
  <2>5. next.mixed \in Seq(S)
    BY <1>2, <2>1, AppendProperties
  <2>6. MixState(next, exploit, explore, S)
    BY <1>5, <1>7, <2>2, <2>4, <2>5
  <2>7. {c} = NextOf(explores, exploit, explore, ids)
    BY <1>7 DEF NextOf, M, O
  <2> QED
    BY <2>1, <2>2, <2>6, <2>7
<1> QED
  <2>1. CASE \E c \in S :
            /\ picked = <<c>>
            /\ LeftOf(first.rest, M, ids \cup {c.id}, S)
            /\ LeftOf(second.rest, O, ids \cup {c.id}, S)
            /\ c.id \notin ids /\ (Holds(M, c) \/ Holds(O, c))
            /\ {c} = IF FirstUnseen(M, ids) # {} THEN FirstUnseen(M, ids) ELSE FirstUnseen(O, ids)
    BY <1>7, <2>1 DEF ids
  <2> QED
    BY <1>3, <1>6, <2>1 DEF TookEither, picked, ids

MixRounds(f, exploit, explore, k, every) ==
    f = [slot \in 0..k |-> IF slot = 0
                           THEN [exploit |-> exploit, explore |-> explore, seen |-> {}, mixed |-> <<>>]
                           ELSE MixSlot(every, slot, f[slot - 1])]

LEMMA MixStarts ==
    ASSUME NEW S, NEW exploit \in Seq(S), NEW explore \in Seq(S),
           NEW st, st = [exploit |-> exploit, explore |-> explore, seen |-> {}, mixed |-> <<>>]
    PROVE  MixState(st, exploit, explore, S)
<1>1. LeftOf(exploit, exploit, {}, S) /\ LeftOf(explore, explore, {}, S)
  <2>1. ASSUME NEW whole \in Seq(S) PROVE LeftOf(whole, whole, {}, S)
    <3>1. /\ 0 \in 0..Len(whole) /\ Len(whole) = Len(whole) - 0 /\ 1..0 = {}
          /\ \A i \in 1..Len(whole) : 0 + i = i
      OBVIOUS
    <3> QED
      BY <3>1 DEF LeftOf
  <2> QED
    BY <2>1
<1>2. <<>> \in Seq(S)
  OBVIOUS
<1> QED
  BY <1>1, <1>2 DEF MixState

LEMMA MixRoundsExist ==
    ASSUME NEW S, NEW exploit \in Seq(S), NEW explore \in Seq(S), NEW k \in Nat, NEW every
    PROVE  \E f : MixRounds(f, exploit, explore, k, every)
<1> DEFINE a == [exploit |-> exploit, explore |-> explore, seen |-> {}, mixed |-> <<>>]
           A == {st \in [exploit : Seq(S), explore : Seq(S), seen : SUBSET AllIds(exploit, explore),
                         mixed : Seq(S)] : MixState(st, exploit, explore, S)}
           F == [x \in A \X (Nat \ {0}) |-> MixSlot(every, x[2], x[1])]
<1>1. a \in A
  <2>1. MixState(a, exploit, explore, S)
    BY MixStarts
  <2> QED
    BY <2>1 DEF MixState
<1>2. ASSUME NEW st \in A, NEW slot PROVE MixSlot(every, slot, st) \in A
  <2> DEFINE explores == every # Never /\ slot % every = 0
             next == MixSlot(every, slot, st)
  <2>1. explores \in BOOLEAN /\ (explores <=> (every # Never /\ slot % every = 0))
    OBVIOUS
  <2>2. MixState(st, exploit, explore, S)
    OBVIOUS
  <2> HIDE DEF explores, A
  <2>3. MixState(next, exploit, explore, S)
    BY <2>1, <2>2, MixSlotFacts
  <2> QED
    BY <2>3 DEF MixState, A
<1> HIDE DEF A
<1>3. F \in [A \X (Nat \ {0}) -> A]
  <2>1. \A x \in A \X (Nat \ {0}) : x[1] \in A
    OBVIOUS
  <2> QED
    BY <1>2, <2>1
<1>4. \A st \in A, n \in Nat \ {0} : F[<<st, n>>] = MixSlot(every, n, st)
  OBVIOUS
<1> HIDE DEF F, a
<1>5. PICK g \in [0..k -> A] : Recursively(g, a, F, k)
  BY <1>1, <1>3, Recursion
<1>6. ASSUME NEW n \in 0..k, n # 0
      PROVE  F[<<g[n - 1], n>>] = MixSlot(every, n, g[n - 1])
  <2>1. n \in Nat \ {0} /\ n - 1 \in 0..k
    BY <1>6
  <2> QED
    BY <1>4, <2>1
<1>7. g = [n \in 0..k |-> IF n = 0 THEN a ELSE MixSlot(every, n, g[n - 1])]
  BY <1>5, <1>6 DEF Recursively
<1> QED
  BY <1>7 DEF MixRounds, a

NextChosen(exploit, explore, ratio, mixed, m) ==
    {mixed[m]} = NextOf(Explores(m, ratio), exploit, explore, IdsBefore(m, mixed))

\* After so many slots: no id twice, each the next of its turn, and a slot
\* adds nothing only when both lists are used up.
MixRound(st, exploit, explore, ratio, n, S) ==
    /\ MixState(st, exploit, explore, S)
    /\ st.seen = IdsBefore(Len(st.mixed) + 1, st.mixed)
    /\ \A i, j \in 1..Len(st.mixed) : st.mixed[i].id = st.mixed[j].id => i = j
    /\ \A m \in 1..Len(st.mixed) : NextChosen(exploit, explore, ratio, st.mixed, m)
    /\ \/ Len(st.mixed) = n
       \/ Len(st.mixed) < n /\ AllIds(exploit, explore) \subseteq st.seen

\* What is appended does not change what came before.
LEMMA IdsBeforeStay ==
    ASSUME NEW S, NEW mixed \in Seq(S), NEW c \in S, NEW m \in 1..(Len(mixed) + 1)
    PROVE  IdsBefore(m, Append(mixed, c)) = IdsBefore(m, mixed)
<1>1. \A i \in 1..(m - 1) : Append(mixed, c)[i] = mixed[i]
  <2>1. \A i \in 1..(m - 1) : i \in 1..Len(mixed)
    OBVIOUS
  <2> QED
    BY <2>1, AppendProperties
<1> QED
  BY <1>1 DEF IdsBefore

LEMMA MixRoundKeeps ==
    ASSUME NEW S, NEW exploit \in Seq(S), NEW explore \in Seq(S), NEW ratio \in 0..100,
           NEW n \in Nat, NEW st, MixRound(st, exploit, explore, ratio, n, S),
           NEW next, next = MixSlot(ExploreEvery(ratio), n + 1, st)
    PROVE  MixRound(next, exploit, explore, ratio, n + 1, S)
<1> DEFINE explores == Explores(n + 1, ratio)
           l == Len(st.mixed)
<1>1. explores \in BOOLEAN
      /\ (explores <=> (ExploreEvery(ratio) # Never /\ (n + 1) % ExploreEvery(ratio) = 0))
  <2>1. n + 1 \in Nat
    OBVIOUS
  <2> QED
    BY <2>1, ExploresFacts DEF Explores
<1>2. MixState(st, exploit, explore, S) /\ st.mixed \in Seq(S) /\ l \in Nat
      /\ st.seen \in SUBSET AllIds(exploit, explore)
  BY DEF MixRound, MixState
<1> HIDE DEF explores, l
<1>3. MixState(next, exploit, explore, S) /\ MixAdds(next, st, explores, exploit, explore, S)
  BY <1>1, <1>2, MixSlotFacts
<1>4. CASE /\ next.mixed = st.mixed /\ next.seen = st.seen
           /\ AllIds(exploit, explore) \subseteq st.seen
  <2>1. l = n \/ l < n
    BY DEF MixRound, l
  <2>2. l < n + 1
    BY <1>2, <2>1
  <2> QED
    BY <1>3, <1>4, <2>2 DEF MixRound, l
<1>5. ASSUME NEW c \in S, next.mixed = Append(st.mixed, c), next.seen = st.seen \cup {c.id},
             c.id \notin st.seen, {c} = NextOf(explores, exploit, explore, st.seen)
      PROVE  MixRound(next, exploit, explore, ratio, n + 1, S)
  <2>1. /\ next.mixed \in Seq(S) /\ Len(next.mixed) = l + 1 /\ next.mixed[l + 1] = c
        /\ \A i \in 1..l : next.mixed[i] = st.mixed[i]
    <3>1. st.mixed \in Seq(S) /\ c \in S
      BY <1>2
    <3> DEFINE all == Append(st.mixed, c)
    <3>2. /\ all \in Seq(S) /\ Len(all) = Len(st.mixed) + 1 /\ all[Len(st.mixed) + 1] = c
          /\ \A i \in 1..Len(st.mixed) : all[i] = st.mixed[i]
      BY <3>1, AppendProperties
    <3> QED
      BY <1>5, <3>2 DEF l
  <2>2. st.seen = IdsBefore(l + 1, st.mixed) /\ st.seen = IdsBefore(l + 1, next.mixed)
    <3>1. l + 1 \in 1..(Len(st.mixed) + 1)
      BY <1>2 DEF l
    <3>2. st.seen = IdsBefore(l + 1, st.mixed)
      BY DEF MixRound, l
    <3>3. IdsBefore(l + 1, Append(st.mixed, c)) = IdsBefore(l + 1, st.mixed)
      <4>1. st.mixed \in Seq(S) /\ c \in S
        BY <1>2
      <4> QED
        BY <3>1, <4>1, IdsBeforeStay
    <3> QED
      BY <1>5, <3>2, <3>3
  <2>3. next.seen = IdsBefore((l + 1) + 1, next.mixed)
    <3>1. 1..(((l + 1) + 1) - 1) = 1..((l + 1) - 1) \cup {l + 1}
      BY <1>2
    <3>2. IdsBefore((l + 1) + 1, next.mixed) = IdsBefore(l + 1, next.mixed) \cup {next.mixed[l + 1].id}
      BY <3>1 DEF IdsBefore
    <3> QED
      BY <1>5, <2>1, <2>2, <3>2
  <2>4. l = n
    <3>1. c.id \in next.seen /\ next.seen \in SUBSET AllIds(exploit, explore)
      BY <1>3, <1>5 DEF MixState
    <3>2. ~(AllIds(exploit, explore) \subseteq st.seen)
      BY <1>5, <3>1
    <3> QED
      BY <3>2 DEF MixRound, l
  <2>5. \A i \in 1..l : next.mixed[i].id \in st.seen
    <3>1. \A i \in 1..l : i \in 1..((l + 1) - 1)
      BY <1>2
    <3> QED
      BY <2>2, <3>1 DEF IdsBefore
  <2>6. ASSUME NEW i \in 1..(l + 1), NEW j \in 1..(l + 1), next.mixed[i].id = next.mixed[j].id
        PROVE  i = j
    <3>1. (i = l + 1 \/ i \in 1..l) /\ (j = l + 1 \/ j \in 1..l)
      BY <1>2
    <3>2. CASE i = l + 1 \/ j = l + 1
      BY <1>5, <2>1, <2>5, <2>6, <3>1, <3>2
    <3>3. CASE i \in 1..l /\ j \in 1..l
      <4>1. st.mixed[i].id = st.mixed[j].id
        BY <2>1, <2>6, <3>3
      <4> QED
        BY <3>3, <4>1 DEF MixRound, l
    <3> QED
      BY <3>1, <3>2, <3>3
  <2>7. ASSUME NEW m \in 1..(l + 1) PROVE NextChosen(exploit, explore, ratio, next.mixed, m)
    <3>1. CASE m = l + 1
      BY <1>5, <2>1, <2>2, <2>4, <3>1 DEF NextChosen, explores
    <3>2. CASE m \in 1..l
      <4>1. NextChosen(exploit, explore, ratio, st.mixed, m)
        BY <3>2 DEF MixRound, l
      <4>2. m \in 1..(Len(st.mixed) + 1)
        BY <1>2, <3>2 DEF l
      <4>3. IdsBefore(m, next.mixed) = IdsBefore(m, st.mixed)
        <5>1. st.mixed \in Seq(S) /\ c \in S
          BY <1>2
        <5>2. IdsBefore(m, Append(st.mixed, c)) = IdsBefore(m, st.mixed)
          BY <4>2, <5>1, IdsBeforeStay
        <5> QED
          BY <1>5, <5>2
      <4> QED
        BY <2>1, <3>2, <4>1, <4>3 DEF NextChosen
    <3> QED
      BY <1>2, <3>1, <3>2
  <2> QED
    BY <1>3, <2>1, <2>3, <2>4, <2>6, <2>7 DEF MixRound
<1> QED
  BY <1>3, <1>4, <1>5 DEF MixAdds

LEMMA MixRoundsGo ==
    ASSUME NEW S, NEW exploit \in Seq(S), NEW explore \in Seq(S), NEW ratio \in 0..100, NEW k \in Nat,
           NEW f, MixRounds(f, exploit, explore, k, ExploreEvery(ratio))
    PROVE  MixRound(f[k], exploit, explore, ratio, k, S)
<1> DEFINE T == {n \in 0..k : MixRound(f[n], exploit, explore, ratio, n, S)}
<1>1. \A n \in 0..k : f[n] = IF n = 0 THEN [exploit |-> exploit, explore |-> explore, seen |-> {}, mixed |-> <<>>]
                             ELSE MixSlot(ExploreEvery(ratio), n, f[n - 1])
  BY DEF MixRounds
<1>2. 0 \in T
  <2>1. 0 \in 0..k /\ f[0] = [exploit |-> exploit, explore |-> explore, seen |-> {}, mixed |-> <<>>]
    <3>1. 0 \in 0..k
      OBVIOUS
    <3> QED
      BY <1>1, <3>1
  <2>2. MixState(f[0], exploit, explore, S)
    BY <2>1, MixStarts
  <2>3. f[0].mixed = <<>> /\ f[0].seen = {}
    BY <2>1
  <2>4. Len(<<>>) = 0 /\ 1..0 = {} /\ IdsBefore(0 + 1, <<>>) = {}
    <3>1. 1..((0 + 1) - 1) = {}
      OBVIOUS
    <3> QED
      BY <3>1 DEF IdsBefore
  <2>5. MixRound(f[0], exploit, explore, ratio, 0, S)
    BY <2>2, <2>3, <2>4 DEF MixRound
  <2> QED
    BY <2>1, <2>5
<1>3. ASSUME NEW n \in 1..k, n - 1 \in T PROVE n \in T
  <2>1. n \in 0..k /\ n # 0 /\ n - 1 \in Nat /\ (n - 1) + 1 = n
    OBVIOUS
  <2>2. MixRound(f[n - 1], exploit, explore, ratio, n - 1, S)
    BY <1>3
  <2>3. f[n] = MixSlot(ExploreEvery(ratio), (n - 1) + 1, f[n - 1])
    BY <1>1, <2>1
  <2>4. MixRound(f[n], exploit, explore, ratio, (n - 1) + 1, S)
    BY <2>1, <2>2, <2>3, MixRoundKeeps
  <2> QED
    BY <2>1, <2>4
<1> HIDE DEF T
<1>4. \A n \in 0..k : n \in T
  BY <1>2, <1>3, Climb
<1>5. k \in T
  BY <1>4
<1> QED
  BY <1>5 DEF T

\* A list of distinct ids has as many ids as items.
LEMMA DistinctIds ==
    ASSUME NEW S, NEW list \in Seq(S), \A i, j \in 1..Len(list) : list[i].id = list[j].id => i = j
    PROVE  /\ IsFiniteSet({list[i].id : i \in 1..Len(list)})
           /\ Cardinality({list[i].id : i \in 1..Len(list)}) = Len(list)
<1> DEFINE n == Len(list)
           T == {list[i].id : i \in 1..n}
           f == [i \in 1..n |-> list[i].id]
<1>1. n \in Nat
  OBVIOUS
<1>2. /\ f \in [1..n -> T]
      /\ \A i, j \in 1..n : f[i] = f[j] => i = j
      /\ \A x \in T : \E i \in 1..n : f[i] = x
  OBVIOUS
<1> HIDE DEF n, T, f
<1>3. f \in Bijection(1..n, T)
  BY <1>2, Fun_IsBij
<1>4. ExistsBijection(1..n, T)
  BY <1>3 DEF ExistsBijection
<1> QED
  BY <1>1, <1>4, FS_CountingElements, FS_NatBijection DEF n, T

\* The ids of a list are finitely many.
LEMMA IdsFinite ==
    ASSUME NEW S, NEW list \in Seq(S)
    PROVE  IsFiniteSet({c.id : c \in ToSet(list)})
<1> DEFINE n == Len(list)
           T == {c.id : c \in ToSet(list)}
           f == [i \in 1..n |-> list[i].id]
<1>1. n \in Nat /\ DOMAIN list = 1..n
  OBVIOUS
<1>2. /\ f \in [1..n -> T]
      /\ \A x \in T : \E i \in 1..n : f[i] = x
  BY <1>1 DEF ToSet
<1>3. IsFiniteSet(1..n)
  BY <1>1, FS_Interval
<1> HIDE DEF n, T, f
<1>4. f \in Surjection(1..n, T)
  BY <1>2 DEF Surjection
<1>5. IsFiniteSet(T)
  BY <1>3, <1>4, FS_Surjection
<1> QED
  BY <1>5 DEF T

\* What mix_exploration returns.
LEMMA MixFacts ==
    ASSUME NEW S, NEW exploit \in Seq(S), NEW explore \in Seq(S), NEW k \in Int, NEW ratio \in Int,
           MixExploration(exploit, explore, k, ratio).ok
    PROVE  MixPicksNextUnseen(exploit, explore, k, ratio,
                              MixExploration(exploit, explore, k, ratio).list)
<1> DEFINE f == CHOOSE round : MixRounds(round, exploit, explore, k, ExploreEvery(ratio))
           list == MixExploration(exploit, explore, k, ratio).list
           ids == AllIds(exploit, explore)
<1>1. k \in Nat /\ ratio \in 0..100 /\ list = f[k].mixed
  BY DEF MixExploration, MixRounds, Ok, Error
<1>2. MixRounds(f, exploit, explore, k, ExploreEvery(ratio))
  BY <1>1, MixRoundsExist
<1> HIDE DEF f
<1>3. MixRound(f[k], exploit, explore, ratio, k, S)
  BY <1>1, <1>2, MixRoundsGo
<1> DEFINE l == Len(list)
           seen == f[k].seen
<1>4. /\ list \in Seq(S) /\ seen \in SUBSET ids /\ seen = IdsBefore(l + 1, list)
      /\ \A i, j \in 1..l : list[i].id = list[j].id => i = j
      /\ \A m \in 1..l : NextChosen(exploit, explore, ratio, list, m)
      /\ l = k \/ (l < k /\ ids \subseteq seen)
  BY <1>1, <1>3 DEF MixRound, MixState
<1> HIDE DEF list, seen, ids
<1>5. l \in Nat /\ DOMAIN list = 1..l /\ (l + 1) - 1 = l
  BY <1>4
<1>6. Cardinality(seen) = l
  <2>1. seen = {list[i].id : i \in 1..l}
    BY <1>4, <1>5 DEF IdsBefore
  <2> QED
    BY <1>4, <2>1, DistinctIds
<1>7. IsFiniteSet(ids)
  <2>1. ids = {c.id : c \in ToSet(exploit)} \cup {c.id : c \in ToSet(explore)}
    BY DEF ids, AllIds
  <2>2. IsFiniteSet({c.id : c \in ToSet(exploit)}) /\ IsFiniteSet({c.id : c \in ToSet(explore)})
    BY IdsFinite
  <2> QED
    BY <2>1, <2>2, FS_Union
<1>8. Cardinality(ids) \in Nat /\ l <= Cardinality(ids)
  BY <1>4, <1>6, <1>7, FS_Subset, FS_CardinalityType
<1>9. l = Min({k, Cardinality(ids)})
  <2>1. CASE l = k
    BY <1>1, <1>8, <2>1, MinOfTwo
  <2>2. CASE l < k /\ ids \subseteq seen
    <3>1. Cardinality(ids) = l
      <4>1. ids = seen
        BY <1>4, <2>2
      <4> QED
        BY <1>6, <4>1
    <3> QED
      BY <1>1, <1>5, <2>2, <3>1, MinOfTwo
  <2> QED
    BY <1>4, <2>1, <2>2
<1> QED
  BY <1>1, <1>4, <1>5, <1>9 DEF MixPicksNextUnseen, NextChosen, NextOf, ids, AllIds, list

-----------------------------------------------------------------------------
\* The calls.

LEMMA ListsAreSequences ==
    ASSUME NEW n \in Int, NEW cs \in ListsUpTo(n)
    PROVE  cs \in Seq(Candidates)
  BY DEF ListsUpTo

LEMMA Arguments ==
    ASSUME NEW cs \in Lists
    PROVE  cs \in Seq(Candidates)
  BY ListsAreSequences, CallsAssumption DEF Lists

\* Whatever the query and the candidates, of any number and with vectors of
\* any length, rank_by_dot answers each candidate once, by score, and mmr, for
\* any weight and any k, chooses greedily and the earliest of the best.
THEOREM OrderedAlways == CallsSpec => []Ordered
<1>1. CallsInit => Ordered
  BY DEF CallsInit, NoCall, Ordered, Answers
<1>2. ASSUME Ordered, [CallsNext]_callsVars PROVE Ordered'
  <2>1. CASE CallRankByDot
    <3>1. PICK q \in Queries, cs \in Lists :
             /\ call' = [name |-> "rank_by_dot", query |-> q, candidates |-> cs]
             /\ answer' = RankByDot(q, cs)
      BY <2>1 DEF CallRankByDot, Called
    <3>2. q \in Seq(Int) /\ cs \in Seq(Candidates)
      BY Arguments, CallsAssumption
    <3>3. RankByDot(q, cs).ok => RankedByScore(q, cs, RankByDot(q, cs).list)
      BY <3>2, RankByDotFacts
    <3> QED
      BY <3>1, <3>3 DEF Ordered, Answers
  <2>2. CASE CallMmr
    <3>1. PICK q \in Queries, cs \in {list \in Lists : IsInjective(list)}, k \in -1..(MaxLen + 1), lambda \in Lambdas :
             /\ call' = [name |-> "mmr", query |-> q, candidates |-> cs, k |-> k, lambda |-> lambda]
             /\ answer' = Mmr(q, cs, k, lambda)
      BY <2>2 DEF CallMmr, Called
    <3>2. q \in Seq(Int) /\ cs \in Seq(Candidates) /\ IsInjective(cs) /\ k \in Int /\ lambda \in Int
      BY Arguments, CallsAssumption
    <3>3. Mmr(q, cs, k, lambda).ok => MmrGreedy(q, cs, k, lambda, Mmr(q, cs, k, lambda).list)
      BY <3>2, MmrFacts
    <3> QED
      BY <3>1, <3>3 DEF Ordered, Answers
  <2>3. CASE CallFilter
    <3>1. call'.name = "filter"
      BY <2>3 DEF CallFilter, Called
    <3> QED
      BY <3>1 DEF Ordered, Answers
  <2>4. CASE CallMixExploration
    <3>1. call'.name = "mix"
      BY <2>4 DEF CallMixExploration, Called
    <3> QED
      BY <3>1 DEF Ordered, Answers
  <2>5. CASE Forget
    BY <2>5 DEF Forget, Called, NoCall, Ordered, Answers
  <2>6. CASE UNCHANGED callsVars
    BY <1>2, <2>6 DEF callsVars, Ordered, Answers
  <2> QED
    BY <1>2, <2>1, <2>2, <2>3, <2>4, <2>5, <2>6 DEF CallsNext
<1> QED
  BY <1>1, <1>2, PTL DEF CallsSpec

\* Whatever the candidates, what was seen, who is blocked and the cap, filter
\* keeps the first of each creator up to the cap and nothing else; whatever
\* the two lists, the length and the ratio, mix_exploration takes the first
\* unseen of the list whose turn it is, and is short only when both are used up.
THEOREM PickedAlways == CallsSpec => []Picked
<1>1. CallsInit => Picked
  BY DEF CallsInit, NoCall, Picked, Answers
<1>2. ASSUME Picked, [CallsNext]_callsVars PROVE Picked'
  <2>1. CASE CallRankByDot
    <3>1. call'.name = "rank_by_dot"
      BY <2>1 DEF CallRankByDot, Called
    <3> QED
      BY <3>1 DEF Picked, Answers
  <2>2. CASE CallMmr
    <3>1. call'.name = "mmr"
      BY <2>2 DEF CallMmr, Called
    <3> QED
      BY <3>1 DEF Picked, Answers
  <2>3. CASE CallFilter
    <3>1. PICK cs \in Lists, seen \in SeenIds, blocked \in BlockedCreators, cap \in Caps :
             /\ call' = [name |-> "filter", candidates |-> cs, seen |-> seen, blocked |-> blocked, cap |-> cap]
             /\ answer' = Ok(Filter(cs, seen, blocked, cap))
      BY <2>3 DEF CallFilter, Called
    <3>2. cs \in Seq(Candidates) /\ cap \in Int
      BY Arguments, CallsAssumption
    <3>3. CapKeepsFirst(cs, seen, blocked, cap, Filter(cs, seen, blocked, cap))
      BY <3>2, FilterFacts
    <3> QED
      BY <3>1, <3>3 DEF Picked, Answers, Ok
  <2>4. CASE CallMixExploration
    <3>1. PICK exploit \in ListsUpTo(MaxLen - 1), explore \in ListsUpTo(MaxLen - 2),
               k \in -1..(MaxLen + 1), ratio \in Ratios :
             /\ call' = [name |-> "mix", exploit |-> exploit, explore |-> explore, k |-> k, ratio |-> ratio]
             /\ answer' = MixExploration(exploit, explore, k, ratio)
      BY <2>4 DEF CallMixExploration, Called
    <3>2. exploit \in Seq(Candidates) /\ explore \in Seq(Candidates) /\ k \in Int /\ ratio \in Int
      <4>1. MaxLen - 1 \in Int /\ MaxLen - 2 \in Int /\ k \in Int /\ ratio \in Int
        BY CallsAssumption
      <4> QED
        BY <4>1, ListsAreSequences
    <3>3. MixExploration(exploit, explore, k, ratio).ok
          => MixPicksNextUnseen(exploit, explore, k, ratio, MixExploration(exploit, explore, k, ratio).list)
      BY <3>2, MixFacts
    <3> QED
      BY <3>1, <3>3 DEF Picked, Answers
  <2>5. CASE Forget
    BY <2>5 DEF Forget, Called, NoCall, Picked, Answers
  <2>6. CASE UNCHANGED callsVars
    BY <1>2, <2>6 DEF callsVars, Picked, Answers
  <2> QED
    BY <1>2, <2>1, <2>2, <2>3, <2>4, <2>5, <2>6 DEF CallsNext
<1> QED
  BY <1>1, <1>2, PTL DEF CallsSpec
=============================================================================
