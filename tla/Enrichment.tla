----------------------------- MODULE Enrichment -----------------------------
(***************************************************************************)
(* The mix tasks that enrich the library: videos.embed_visual, which       *)
(* embeds with Task.async_stream, videos.transcribe and the refresh of     *)
(* tags.ingest, which work through their batches one video at a time.      *)
(* All three walk over the videos with a cursor, a batch at a time, while  *)
(* videos are published and other tasks write to the same rows.            *)
(***************************************************************************)
EXTENDS Naturals, Sequences, FiniteSets, SequencesExt

CONSTANTS
    Runs,          \* runs of the tasks
    Plans,         \* what may be run beside each other: sets of command lines
    BatchSize,     \* --batch-size
    Concurrency,   \* --concurrency of videos.embed_visual
    Nearest,       \* per vector: the embedded tags, the most similar first
    Uploaded,      \* per video: the embedding it is published with
    TopK,          \* --top-k
    AtStart,       \* number of videos at the start
    MaxVideos,     \* bound of the model: videos published
    NoLimit

Vectors == DOMAIN Nearest

Tags == UNION {ToSet(Nearest[w]) : w \in Vectors}

Ids == 1..MaxVideos

\* The version of the visual backend. The deterministic one, which is the default,
\* answers with those of create_video, or with one of its own for frames.
Visual == "qwen3_vl_v1"

UploadVersions == {"caption_v1", "hash_v1"}

Embeddings == [version : UploadVersions \cup {"frames_hash_v1", Visual}, vector : Vectors]

\* A plan, per run: the task, --force, --limit, and what the worker may answer with
\* (its backend, --dims, a new model); and the ids of the videos whose file is gone.
PlanType ==
    [kind : [Runs -> {"embed", "transcribe", "tags"}],
     force : [Runs -> BOOLEAN],
     limit : [Runs -> Nat \cup {NoLimit}],
     answers : [Runs -> SUBSET Embeddings],
     missing : SUBSET (1..MaxVideos)]

ASSUME EnrichmentAssumption ==
    /\ Plans \subseteq PlanType
    /\ NoLimit \notin Nat
    /\ {BatchSize, Concurrency, TopK} \subseteq Nat \ {0}
    /\ {AtStart, MaxVideos} \subseteq Nat
    /\ AtStart <= MaxVideos
    /\ Nearest \in [Vectors -> Seq(Tags)]
    /\ Uploaded \in [Ids -> [version : UploadVersions, vector : Vectors]]

VARIABLES
    plan,          \* what is run, the same throughout
    published,     \* the videos are 1..published
    embedding,     \* per video: [version, vector]
    transcript,    \* per video
    suggestions,   \* rows of video_tag_suggestions
    task           \* per run

vars == <<plan, published, embedding, transcript, suggestions, task>>

Transcripts == {"nil", "empty", "text"}

Suggestions == [video : Ids, tag : Tags, version : {Visual}, vector : Vectors]

NotRead == [version |-> "", vector |-> ""]

\* A row of a batch: the video, and the embedding the query read with it.
Rows == [id : Ids, seen : Embeddings \cup {NotRead}]

\* A row at work; `doomed` are the rows its open transaction has deleted.
Jobs == [id : Ids, seen : Embeddings \cup {NotRead},
         step : {"work", "persist"}, doomed : SUBSET Suggestions]

Tasks == [phase : {"fetch", "batch", "finished", "aborted"},
          after_id : Nat, last_id : Nat, batch : Seq(Rows), working : SUBSET Jobs,
          updated : Nat, skipped : Nat, failures : Nat,
          visited : Seq(Ids),    \* history
          began : Nat]           \* history: the videos there were at the start

NewTask(videos) ==
    [phase |-> "fetch", after_id |-> 0, last_id |-> 0, batch |-> <<>>, working |-> {},
     updated |-> 0, skipped |-> 0, failures |-> 0, visited |-> <<>>, began |-> videos]

Init ==
    /\ plan \in Plans
    /\ published = AtStart
    /\ embedding = Uploaded
    /\ transcript = [v \in Ids |-> "nil"]
    /\ suggestions = {}
    /\ task = [r \in Runs |-> NewTask(AtStart)]

\* Videos.create_video, which embeds the caption, or the hash of a video without one.
Publish ==
    /\ published < MaxVideos
    /\ published' = published + 1
    /\ UNCHANGED <<embedding, transcript, suggestions, task>>

-----------------------------------------------------------------------------
\* What differs between the tasks.

\* The embedding that the query of a run reads with a video.
Seen(r, v) == IF plan.kind[r] = "transcribe" THEN NotRead ELSE embedding[v]

\* Which videos the query of a run returns.
Wanted(r, v) ==
    CASE plan.kind[r] = "embed" -> TRUE
      [] plan.kind[r] = "transcribe" -> plan.force[r] \/ transcript[v] = "nil"
      [] plan.kind[r] = "tags" -> embedding[v].version = Visual

\* (mutated) Every task works like videos.embed_visual.
AlwaysConcurrent(r) == Concurrency

AtOnce(r) == IF plan.kind[r] = "embed" THEN Concurrency ELSE 1

LimitReached(r) == plan.limit[r] # NoLimit /\ task[r].updated >= plan.limit[r]

\* (mutated) No task looks at its limit inside a batch.
NeverStopsInBatch(r) == FALSE

\* videos.embed_visual looks at its limit between batches only.
StopsInBatch(r) == plan.kind[r] # "embed" /\ LimitReached(r)

FileMissing(r, row) == plan.kind[r] # "tags" /\ row.id \in plan.missing

\* (mutated) Any embedding counts, the caption's too.
AnyEmbeddingDone(r, row) == plan.kind[r] = "embed" /\ ~plan.force[r]

\* What the row said when the batch was read decides.
AlreadyDone(r, row) == plan.kind[r] = "embed" /\ ~plan.force[r] /\ row.seen.version = Visual

\* (mutated) The cursor is not excluded.
CandidatesFrom(r) == {v \in 1..published : v >= task[r].after_id /\ Wanted(r, v)}

-----------------------------------------------------------------------------
\* The loop over the batches.

Candidates(r) == {v \in 1..published : v > task[r].after_id /\ Wanted(r, v)}

\* ORDER BY id
ById(videos) ==
    CHOOSE q \in SetToSeqs(videos) : \A i, j \in DOMAIN q : i < j => q[i] < q[j]

FirstIds(r) ==
    LET all == ById(Candidates(r))
    IN  SubSeq(all, 1, IF Len(all) < BatchSize THEN Len(all) ELSE BatchSize)

Fetch(r) ==
    /\ task[r].phase = "fetch"
    /\ IF LimitReached(r) \/ Candidates(r) = {}
       THEN task' = [task EXCEPT ![r].phase = "finished"]
       ELSE LET ids == FirstIds(r)
            IN  task' = [task EXCEPT
                  ![r].phase = "batch",
                  ![r].batch = [i \in DOMAIN ids |-> [id |-> ids[i], seen |-> Seen(r, ids[i])]],
                  ![r].last_id = ids[Len(ids)]]
    /\ UNCHANGED <<published, embedding, transcript, suggestions>>

\* (mutated) The next batch is called for with the cursor and the totals of the first.
NextBatchFromTheStart(r) ==
    /\ task[r].phase = "batch"
    /\ task[r].batch = <<>>
    /\ task[r].working = {}
    /\ task' = [task EXCEPT ![r] = NewTask(task[r].began)]
    /\ UNCHANGED <<published, embedding, transcript, suggestions>>

\* A video's turn: it is dropped, counted at once, or worked on.
Take(r) ==
    /\ task[r].phase = "batch"
    /\ task[r].batch # <<>>
    /\ Cardinality(task[r].working) < AtOnce(r)
    /\ LET row == Head(task[r].batch)
           rest == [task[r] EXCEPT !.batch = Tail(@)]
           seen == [rest EXCEPT !.visited = Append(@, row.id)]
       IN  task' = [task EXCEPT ![r] =
             IF StopsInBatch(r) THEN rest
             ELSE IF FileMissing(r, row) THEN [seen EXCEPT !.failures = @ + 1]
             ELSE IF AlreadyDone(r, row) THEN [seen EXCEPT !.skipped = @ + 1]
             ELSE [seen EXCEPT !.working = @ \cup
                     {[id |-> row.id, seen |-> row.seen, step |-> "work", doomed |-> {}]}]]
    /\ UNCHANGED <<published, embedding, transcript, suggestions>>

NextBatch(r) ==
    /\ task[r].phase = "batch"
    /\ task[r].batch = <<>>
    /\ task[r].working = {}
    /\ task' = [task EXCEPT ![r].phase = "fetch", ![r].after_id = task[r].last_id]
    /\ UNCHANGED <<published, embedding, transcript, suggestions>>

\* The task is killed, or a call of it raises: its totals are gone, and open
\* transactions roll back.
Abort(r) ==
    /\ task[r].phase \in {"fetch", "batch"}
    /\ task' = [task EXCEPT ![r] = [NewTask(0) EXCEPT !.phase = "aborted"]]
    /\ UNCHANGED <<published, embedding, transcript, suggestions>>

\* The task is run again.
Restart(r) ==
    /\ task[r].phase \in {"finished", "aborted"}
    /\ task' = [task EXCEPT ![r] = NewTask(published)]
    /\ UNCHANGED <<published, embedding, transcript, suggestions>>

-----------------------------------------------------------------------------
\* The work on one video.

Updated(r, job) == [task[r] EXCEPT !.working = @ \ {job}, !.updated = @ + 1]

Skipped(r, job) == [task[r] EXCEPT !.working = @ \ {job}, !.skipped = @ + 1]

Failed(r, job) == [task[r] EXCEPT !.working = @ \ {job}, !.failures = @ + 1]

\* (mutated) A failure is not counted.
WorkFailsUncounted(r, job) ==
    /\ plan.kind[r] # "tags"
    /\ task' = [task EXCEPT ![r].working = @ \ {job}]
    /\ UNCHANGED <<published, embedding, transcript, suggestions>>

\* ffmpeg, the worker or the database fails.
WorkFails(r, job) ==
    /\ plan.kind[r] # "tags"
    /\ task' = [task EXCEPT ![r] = Failed(r, job)]
    /\ UNCHANGED <<published, embedding, transcript, suggestions>>

\* upsert_video_embedding: whatever version the worker answers with is stored.
Embed(r, job) ==
    /\ plan.kind[r] = "embed"
    /\ \E e \in plan.answers[r] : embedding' = [embedding EXCEPT ![job.id] = e]
    /\ task' = [task EXCEPT ![r] = Updated(r, job)]
    /\ UNCHANGED <<published, transcript, suggestions>>

\* (mutated) An empty transcript is not stored.
TranscribeNonEmpty(r, job) ==
    /\ plan.kind[r] = "transcribe"
    /\ \/ /\ transcript' = [transcript EXCEPT ![job.id] = "text"]
          /\ task' = [task EXCEPT ![r] = Updated(r, job)]
       \/ /\ UNCHANGED transcript
          /\ task' = [task EXCEPT ![r] = Skipped(r, job)]
    /\ UNCHANGED <<published, embedding, suggestions>>

\* set_video_transcript; an empty transcript is stored, and counted as skipped.
Transcribe(r, job) ==
    /\ plan.kind[r] = "transcribe"
    /\ \E text \in {"empty", "text"} :
         /\ transcript' = [transcript EXCEPT ![job.id] = text]
         /\ task' = [task EXCEPT ![r] = IF text = "empty" THEN Skipped(r, job)
                                        ELSE Updated(r, job)]
    /\ UNCHANGED <<published, embedding, suggestions>>

\* top_tags_for_video, of the vector the batch was read with
TopTags(job) ==
    LET near == Nearest[job.seen.vector]
    IN  ToSet(SubSeq(near, 1, IF Len(near) < TopK THEN Len(near) ELSE TopK))

SkipUntagged(r, job) ==
    /\ plan.kind[r] = "tags"
    /\ job.step = "work"
    /\ TopTags(job) = {}
    /\ task' = [task EXCEPT ![r] = Skipped(r, job)]
    /\ UNCHANGED <<published, embedding, transcript, suggestions>>

\* (mutated) Rows are added to those of the last refresh.
NothingOutdated(job) == {}

\* The rows persist_video_suggestions deletes.
Outdated(job) ==
    {s \in suggestions : s.video = job.id /\ s.version = job.seen.version}

Locked == UNION {job.doomed : job \in UNION {task[r].working : r \in Runs}}

\* The transaction's delete; it waits for rows another one has deleted.
DeleteOutdated(r, job) ==
    /\ plan.kind[r] = "tags"
    /\ job.step = "work"
    /\ TopTags(job) # {}
    /\ Outdated(job) \cap Locked = {}
    /\ task' = [task EXCEPT ![r].working =
                  (@ \ {job}) \cup {[job EXCEPT !.step = "persist", !.doomed = Outdated(job)]}]
    /\ UNCHANGED <<published, embedding, transcript, suggestions>>

FreshRows(job) ==
    {[video |-> job.id, tag |-> t, version |-> job.seen.version, vector |-> job.seen.vector] :
       t \in TopTags(job)}

\* The unique index on video, tag and version.
Conflict(job) ==
    \E s \in FreshRows(job), t \in suggestions \ job.doomed :
        s.video = t.video /\ s.tag = t.tag /\ s.version = t.version

\* insert_all and the commit; a conflict raises, and all that is left is Abort.
InsertFresh(r, job) ==
    /\ plan.kind[r] = "tags"
    /\ job.step = "persist"
    /\ ~Conflict(job)
    /\ suggestions' = (suggestions \ job.doomed) \cup FreshRows(job)
    /\ task' = [task EXCEPT ![r] = Updated(r, job)]
    /\ UNCHANGED <<published, embedding, transcript>>

Work(r) ==
    \E job \in task[r].working :
        \/ WorkFails(r, job)
        \/ Embed(r, job)
        \/ Transcribe(r, job)
        \/ SkipUntagged(r, job)
        \/ DeleteOutdated(r, job)
        \/ InsertFresh(r, job)

Proceed(r) == (Fetch(r) \/ Take(r) \/ NextBatch(r) \/ Work(r)) /\ UNCHANGED plan

Leave(r) == (Abort(r) \/ Restart(r)) /\ UNCHANGED plan

Next ==
    \/ Publish /\ UNCHANGED plan
    \/ \E r \in Runs : Proceed(r) \/ Leave(r)

Spec == Init /\ [][Next]_vars

\* A task that is not aborted goes on; nobody has to publish or to run a task.
FairSpec ==
    /\ Spec
    /\ \A r \in Runs : WF_vars(Proceed(r))

-----------------------------------------------------------------------------
\* Properties.

\* Type correctness.
TypeOK ==
    /\ plan \in Plans
    /\ published \in AtStart..MaxVideos
    /\ embedding \in [Ids -> Embeddings]
    /\ transcript \in [Ids -> Transcripts]
    /\ suggestions \subseteq Suggestions
    /\ \A r \in Runs :
         /\ DOMAIN task[r] = DOMAIN NewTask(0)
         /\ task[r].phase \in {"fetch", "batch", "finished", "aborted"}
         /\ task[r].batch \in Seq(Rows)
         /\ task[r].working \subseteq Jobs
         /\ Cardinality(task[r].working) <= IF plan.kind[r] = "embed" THEN Concurrency ELSE 1
         /\ task[r].visited \in Seq(Ids)

\* A run takes the videos in the order of their ids and none of them twice, also
\* when videos are published or enriched by another run while it reads batches.
VisitedOnce ==
    \A r \in Runs : \A i, j \in DOMAIN task[r].visited :
        i < j => task[r].visited[i] < task[r].visited[j]

\* The totals a task prints account for every video it took.
CountsAdd ==
    \A r \in Runs : task[r].phase # "aborted" =>
        task[r].updated + task[r].skipped + task[r].failures + Cardinality(task[r].working)
            = Len(task[r].visited)

Done(r) == task[r].phase = "finished" /\ ~LimitReached(r)

Embedders == {r \in Runs : plan.kind[r] = "embed"}

\* What the workers of the runs may have answered.
Answers == UNION {plan.answers[r] : r \in Embedders}

\* A run of videos.embed_visual that came to the end without failures leaves no
\* video of its start with the embedding it was published with, whatever ran beside
\* it: each has one that a worker answered, which is visual where their backends are.
EmbedsAll ==
    \A r \in Embedders : Done(r) /\ task[r].failures = 0 =>
        \A v \in 1..task[r].began :
            /\ embedding[v] \in Answers
            /\ (\A e \in Answers : e.version = Visual) => embedding[v].version = Visual

\* The same for videos.transcribe and transcripts, the empty ones included.
TranscribesAll ==
    \A r \in Runs : plan.kind[r] = "transcribe" /\ Done(r) /\ task[r].failures = 0 =>
        \A v \in 1..task[r].began : transcript[v] # "nil"

\* --limit: exact for the tasks that look at it before every video;
\* videos.embed_visual finishes the batch in which it reaches the limit.
LimitKept ==
    \A r \in Runs : plan.limit[r] # NoLimit =>
        task[r].updated <= IF plan.kind[r] = "embed" THEN plan.limit[r] + BatchSize - 1 ELSE plan.limit[r]

RowsOf(v) == {s \in suggestions : s.video = v}

\* "Stores the top-K most similar tags for each video" (tags.ingest.ex): the rows
\* of a video were computed from one vector and are not more than TopK.
OneTopK ==
    \A v \in Ids :
        /\ Cardinality(RowsOf(v)) <= TopK
        /\ \A s, t \in RowsOf(v) : s.vector = t.vector

Running(r) == task[r].phase \in {"fetch", "batch"}

\* Whatever fails on the way and whatever is published meanwhile, a run gets past every
\* video there is, or ends. (It need not end: while videos are published faster than it
\* embeds them it goes on. To be past a video is to be past all those before it.)
GetsPast ==
    \A r \in Runs, v \in AtStart..MaxVideos :
        Running(r) /\ v <= published ~> ~Running(r) \/ task[r].after_id >= v

\* Every run of a task works on the videos in turn, each once and as many at a time
\* as it may, stops at its limit, and its totals account for each of them.
Accounted == TypeOK /\ VisitedOnce /\ CountsAdd /\ LimitKept

\* A task that says it is done, without failures, has done all there was to do.
AllDone == EmbedsAll /\ TranscribesAll
=============================================================================
