# A verification development for video-rec

`video-rec` is a short-video site: a Phoenix application (Elixir, LiveView) that
stores videos, shows each user a ranked feed, records what is watched and liked,
and a Python "embedding worker" (FastAPI) that turns videos, captions and
transcripts into vectors. This directory holds TLA+ models of the parts whose
correctness depends on interleavings, partial failure or arithmetic at a
boundary, the TLC configurations that check them, and TLAPS proofs.

## Inventory

| Part | State it keeps | Operations | Talks to | What is hard |
|------|----------------|------------|----------|--------------|
| Embedding backend and micro-batcher (`backends/qwen3_vl.py`) | the model, two queues, two daemon threads, two locks, one Future per request | `embed_video`, `embed_text`, `embed_video_frames`, `_run_video`, `_run_text` | HTTP handler threads call it | threads, a batch that fails for one bad input, callers that wait with no timeout |
| Adaptive frame retry (`_process_with_adaptive_max_frames`) | the input of the current attempt | one bounded retry loop with three kinds of recovery | the model, ffmpeg | a loop whose exits depend on error texts, a budget that must shrink |
| Backend factory (`backends/factory.py`) | cached backend and its key | `get_backend` | every handler | unsynchronised check-then-act |
| Transcription (`transcription.py`) | two caches of transcribers, lazily loaded models, temporary wav files | `get_whisper_transcriber`, `transcribe`, `_extract_audio_to_wav` | ffmpeg, the file system | loads without a lock, clean-up on failing paths, tokens at the limit of the decoder |
| Worker API (`main.py`, `embeddings.py`, `backends/deterministic.py`) | uploads while they are transcribed | five endpoints, `healthz` | the backend, the transcriber | error mapping, sampling of frames, vectors by hashing |
| Video library and ingestion (`videos.ex`, upload LiveView, `videos.import`, `videos.import_url`) | `videos`, `video_embeddings`, files in the uploads directory | upload, import, import from URL, create | PostgreSQL, the file system | check-then-insert races, crash between file and row, duplicates |
| Feed (`feed_live.ex`, `videos.ex` lists, `VideoFeed` hook in `app.js`) | streamed items, cursor, order, mode; in the browser the active item and the queued interactions | mount, load-more, jump-to-end, jump-to-start, scrolling | database, browser events | paging over changing data, events that cross, wrap-around clones |
| Favorites and interactions (`videos.ex` `toggle_favorite`, `interactions.ex`) | `favorites`, `interactions` | toggle, batch logging | feed, recommendations | double clicks from two tabs, log written outside the transaction |
| Recommendations (`recommendations.ex`, `reco/*`) | none (computed) | taste vectors, ranking, MMR, filtering, exploration | database | order of events in a moving average, zero vectors, ties |
| Embedding jobs and tags (`videos.embed_visual`, `videos.transcribe`, `tags.ex`) | embeddings, tags, suggestions | batch tasks with a cursor, refresh | worker, database | stale reads, limits checked per batch |
| Accounts (`accounts.ex`, `user_token.ex`, `user_auth.ex`) | users, tokens, sessions | register, magic link, password, e-mail change, log in/out | cookies, mail | first user is admin, one-time links, token reissue |

The hazards themselves, each at its line with the properties aimed at it, are
listed in `PROJECT.json`.

### What makes each part correct

- **Micro-batcher**: every caller gets the outcome of its own input, whatever it
  was batched with; no request is lost or overtaken; the model is loaded once and
  used by one daemon at a time; every caller is answered.
- **Worker**: what is loaded stays; temporary files go; the precision fits the device and
  the tokens fit the decoder; frames cover the video; a vector counts every word; the
  response says what went into it.
- **Adaptive frames**: a refused budget is never tried again; frames stay in
  order, within the budget, and reach both ends of the video.
- **Ingestion**: one published video per content; a published video has its file, but
  for one way to lose it (see below); a file without a row has somebody who still knows
  of it; the report is true.
- **Feed**: pages neither repeat nor skip a video; "full" means everything was
  there; a jump gets its answer; between jumps the active video stays the active one.
- **Watch log**: each event at most once, in order, with no invented watch time;
  on a connection that holds, every event arrives.
- **Favorites**: one row per user and video; the log balances with the table; what
  a tab shows was true when it asked, but for others' clicks.
- **Enrichment**: each video once per run; counts add up; the limit is kept; after a
  clean run every video has a transcript, or an embedding that a worker answered with
  (whether a visual one depends on its backend); one top-K per video.
- **Recommendations**: no candidate lost or doubled, no favorite recommended; the
  newest watches count; the reranked part is the nearest part.
- **Accounts**: unique e-mails; only confirmed users log in; sudo mode is earned by a
  recent authentication; a live view is backed by a session token.

## Modules

| Part | Modules | Extends / uses |
|------|---------|----------------|
| Micro-batcher | `MicroBatcher`, abstract `EmbedService`, `MCMicroBatcher`, `BackendProofs` | `MicroBatcher` instantiates `EmbedService` with a refinement mapping |
| Adaptive frames | `AdaptiveFrames`, `BackendProofs` | the loop around one call of the model; both proofs are in `BackendProofs` |
| Worker: factory, transcription, API | `Transcription` (transcribers and their calls), `Embeddings` and `VideoSampling` (operators), composed in `Worker` (requests); `MCWorker`, `WorkerProofs` | the model's loading and calls are one step, see `MicroBatcher` and `AdaptiveFrames` |
| Ingestion | `VideoStore` (table and directory), `UploadSession` (upload pages), `ImportTask` (mix tasks), composed in `Ingestion`; `MCIngestion`, `IngestionProofs` | |
| Feed | `FeedServer` (LiveView process), `FeedHook` (browser), composed in `Feed` (socket, reconnects); `MCFeed`, `FeedProofs` | |
| Watch log | `WatchLog`, `MCWatchLog`, `TasteProofs` | same hook as `FeedHook`, another concern |
| Favorites | `Favorites`, `MCFavorites`, `FavoritesProofs` | |
| Enrichment | `Enrichment`, `MCEnrichment`, `EnrichmentProofs` | |
| Recommendations | `Ranking` (operators), `RankingCalls` (every small call), `Recommendations`; `MCRanking`, `MCRecommendations`, `TasteProofs` | `Recommendations` and `RankingCalls` extend `Ranking`; the proofs about both share a module with those of the watch log, which the taste is made of |
| Accounts | `AccountStore` (tables, queries), `UserAuth` (requests), `UserLive` (views); `MCAccounts`, `AccountsProofs` | each extends the one before |

### How state and actions correspond to the code

An action is one step nobody can look into: an Elixir statement that commits, a
handler of a LiveView process between two queries, a browser callback, a stretch
of a Python thread between two operations on shared state. `map` in
`PROJECT.json` names the lines of every definition.

- **MicroBatcher.** `pc[r]` is where an HTTP handler thread is in `embed_video`,
  `embed_text` or `embed_video_frames`; `embedder`, `batcher`, `initLock` are
  `_embedder`, `_microbatcher`, `_lock`; `queue[k]` the two `Queue`s; `phase[k]`,
  `batch[k]`, `outputs[k]`, `pos[k]` the locals of the daemon thread of kind `k`;
  `gpuLock` the batcher's lock. An embedding is the request it was computed from,
  so a mix-up of results is visible. Collecting with a time-out is: the batch
  may be closed after any number of additions up to `MaxBatch`.
- **EmbedService** is the promise: two lines, served one at a time and in order.
  The refinement mapping hides batches, locks and threads; a batch that fails and
  is retried per item is several served requests.
- **AdaptiveFrames.** One step is one attempt: the call, its error, the recovery.
  Error texts are the counts that can be read in them (`TokenCounts`).
- **Transcription.** `step[t]` is where thread `t` is between `get_whisper_transcriber` and
  the end of `transcribe`. A transcriber is named after the thread whose call of the
  constructor made it, so that two of them can be told apart; `outerCache` and `innerCache` are
  the entries of the `lru_cache`s, which run the function they wrap outside their lock
  and keep what is stored first. `device[x]` and `model[x]` are `_device` and `_model` (or
  `_pipeline`) of transcriber `x`: two threads may be in `_get_model` of one transcriber.
- **Worker.** `at[t]` is where the request of thread `t` is in its endpoint and its
  backend; `cachedBackend` and `cachedKey` the globals of the factory, read and written in
  four steps; `transcriberOf` the attribute of a backend. `settings` is what `get_settings`
  makes of the environment, which does not change while a worker runs.
- **Embeddings** and **VideoSampling** are the computations in between, on integers: a vector
  before it is divided by its norm, a rate as a fraction.
- **VideoStore** holds `rows` and `files`; an item stands for its storage key.
  `UploadSession` has one action for each event of the LiveView and one for each
  row a save creates; `ImportTask` one per step of a file (hash and check, copy,
  insert, remove). A process may end between any two. `create_video` may answer any item
  with a changeset error: on `content_hash` when the content or the item has a row
  already, on anything else whenever it likes (`SaveRejected`, `CreateRejected`). The
  callers remove the file in both cases and count a duplicate or a failure;
  `refused` is the history of the latter on a page, which only counts them.
- **FeedServer** is `mount`, `load-more`, `jump-to-end`, `jump-to-start` on a table
  in which rows appear in any order of `inserted_at`. **FeedHook** has the flags and
  indices of the hook (`activeIndex`, `pendingJumpToEnd`, `pendingJumpToStart`,
  `loadingMore`). **Feed** joins them by two ordered channels which a lost
  connection empties; the hook survives and the server process does not.
- **WatchLog** measures positions, not time, because the code does; the clock that
  it is compared with is history.
- **Favorites** splits `toggle_favorite` into lookup, write, count and commit with
  PostgreSQL's row and unique-index locks as guards, then the interaction.
- **Enrichment** walks with the cursor (`after_id`), holds what was read with the batch
  and writes to rows that may have changed. An embedding is its version and its vector;
  a video is published with the version of its caption or of its hash (`Uploaded`), and
  `Embed` stores whatever version the worker answers with.
- **Recommendations** has one action per query and one per computation between
  queries. `session` is the sequence in which the moving average takes the watches
  up.
- **AccountStore** is `users`, `users_tokens` and the queries of `UserToken`; time is
  in ticks. **UserAuth** is a request from the plug that finds the user to the
  response that sets session and cookie; **UserLive** is a mounted view with the
  scope it got.

Definitions marked `(mutated)`, or called the mutated form of another, are not part of a model: they are variants of a
definition after them with the kind of bug that code could have. Putting one in
its place must break the property that `PROJECT.json` pairs it with.

## Runs

| Run | Asks | Result |
|-----|------|--------|
| `microbatcher` | own result, nothing lost or overtaken, one load, daemons exclusive, everyone answered; implements `EmbedService` | holds |
| `adaptive_frames` | budgets shrink, both ends kept | holds |
| `ingestion` | unique contents, rows have files but for uploads that were refused, no stray files, true reports | holds |
| `feed` | paging without repeats and gaps, jumps answered and made while the connection holds, the active video kept between jumps | holds |
| `watch_log` | once, in order, never too much; every event stored | holds |
| `favorites` | one row, balanced log, honest display | holds |
| `enrichment` | each video once, everything done, limit, counts, one top-K, past every video | holds |
| `worker` | honest answers, temporary files, precision, tokens, frames, vectors, warm caches | holds |
| `recommendations` | nothing lost, no favorites, newest watches, nearest pool; the pure functions against declarative definitions | holds |
| `recommendations_session` | the newest watch is blended in last | **violated** |
| `accounts` | unique e-mails, only confirmed users, earned sudo mode, views backed by tokens | holds |
| `accounts_admin` | one admin by bootstrap | **violated** |

A property that is a conjunction of named parts (`Paging` is `TypeOK`, `NoRepeat`,
`NoGap` and `FullIsAll`) is one question with one answer; each part is stated, with
what it means, beside it, and most have a mutant of their own.

Some models start from one of several settings, chosen in `Init` and kept: `plan` of
`Enrichment` (which tasks run beside each other, with which options),
`scenario` of the accounts (which users there are, what is requested and how far
the counters go), `settings` and `machine` of the worker. `MCRanking` is the
same idea: a state is either one of a query of `Recommendations` or one call of a pure function. So one run covers them without the product of their sizes.

### What the violated ones say

Each is a statement of the repository's own documents that the code does not keep;
`findings` quotes the line and describes the run.

1. `accounts_admin`: the count of users and the insert are two statements: two first
   registrations at once are both admin.
2. `recommendations_session`: watches are read newest first and folded in that
   order, so the oldest of them weighs most in the moving average of the session.

### Other disagreements met while modelling

The models have the steps that lead to these, and no property that excludes them.

- A link of an unconfirmed user, submitted twice at once, logs in twice: it is read
  before the transaction that deletes it (`accounts.ex:242`); a confirmed user's link
  is deleted with `Repo.delete!`, which raises the second time.
- The mark `:user_remember_me` of a session that has ended elsewhere makes the next
  log in a remembered one, also with "Log me in only this time" (`user_auth.ex:113`).
- Two refreshes of tags at once delete nothing and then both insert: a video is left
  with the tags of both, or the second raises on the unique index
  (`tags.ex:196`). The run therefore has one refresh beside `embed_visual`.
- `_extract_audio_to_wav` creates its file before it looks for ffmpeg, and the `finally` that
  removes it begins after it has returned: a missing or failing ffmpeg leaves an
  empty wav file for each recording (`transcription.py:240`). `TempFilesGone` excepts
  exactly this path.
- First requests at once build a backend each, and the one whose assignment came first is
  used by its own request or by nobody; first recordings make a transcriber each and
  load one transcriber's model more than once (`factory.py:36`,
  `transcription.py:47`). `WarmStays` says when this ends. A backend may keep a transcriber
  that the cache does not hand out, and with it a second model in memory.
- The same failure of ffmpeg is a 501 of `transcribe_audio` and `transcribe_video` and a 500
  of `embed_video` (`main.py:70`, `main.py:342`).
- The `dims` of a response are those asked for. A qwen vector is shorter when more
  than the model has were asked for, and whole when a form asks for a negative number
  (`main.py:171`): `AnswerHonest` allows these two.
- `WHISPER_MAX_NEW_TOKENS` is not bounded when the prompt leaves no room or the decoder
  does not say how many positions it has (`transcription.py:300`).
- A device given as `cuda:0` gets full precision: only `cuda` is compared with
  (`transcription.py:214`).
- A caption of symbols only, or one whose words cancel out, has no deterministic embedding:
  `embed_video` answers 500 and the two others 400 (`embeddings.py:12`).
- The interaction of a favorite is written after its transaction, so the events of
  two tabs may be logged in the other order (`feed_live.ex:242`).
- `pendingJumpToEnd` survives the connection that lost its event (`app.js:228`);
  `JumpsAwaited` shows that `pendingJumpToStart` does not.
- `loadingMore` ends with a timer that does not ask again (`app.js:216`).
- The first video of a page is active from the start, so the change that would log its
  impression and start its watch does not come (`app.js:294`).
- Watch time is a difference of positions of a looping video (`app.js:408`).
- An upload that is cancelled after it finished stays in `pending_uploads` and is
  published by the next save (`video_upload_live.ex:102`).
- An upload whose row is refused for another reason than its content loses its file
  (`video_upload_live.ex:144`) and, when nothing else was created by that save, stays in
  `pending_uploads` (`video_upload_live.ex:199`): a later save may publish a row without a
  file, where the page's test expects the file of the row to exist
  (`video_upload_live_test.exs`). `RowsHaveFiles` excepts exactly these uploads. The entry of a
  refused upload is taken off the page with those that are saved, which is the exception
  `TrueReport` makes, and the page tells of a failure only when nothing was created.
- `videos.embed_visual`, "Compute visual embeddings for all videos", stores whatever the
  worker answers with and counts it as updated (`videos.embed_visual.ex:122`). The worker's default
  backend is the deterministic one (`config.py:46`), whose answers are `caption_v1`, `hash_v1`
  or `frames_hash_v1` (`deterministic.py:13`): a clean run then leaves no visual embedding,
  every further run embeds all videos again, and a refresh of tags finds none to work
  on. `AllDone` promises visual embeddings only where every answer is one.
- Neither batch task has an end while videos are published faster than it works on them,
  since the cursor meets them all (`videos.embed_visual.ex:151`). `GetsPast` says what remains true:
  it gets past every video.
- A jump whose destination has the index that the active item had changes nothing for
  the observer's callback: the watch of the video before the jump goes on (`app.js:293`).

### Bounds, and why they are enough

- Micro-batcher: three video, two text and one frames request, batches of two: a
  full batch, a partial one, one with a bad input, and a request that arrives
  while a batch runs.
- Adaptive frames: six frames, every budget, counts equal, smaller and larger
  than the budget and zero.
- Ingestion: two pages and a run, two contents over six items, so that each pair of
  parties meets over one content. Any item may be refused for another reason, also after
  its content was published elsewhere or once its page was saved before. Not symmetric: the list of
  a run is ordered. Four million states, one minute.
- Feed: pages of two over four videos that appear one by one: a full page, the one
  extra row that tells more from less, an incomplete page; two events in flight and
  one lost connection.
- Watch log: two videos, queue flushed at three events rather than ten.
- Favorites: two tabs of one user and one of another, four clicks.
- Enrichment: batches of two over three videos, so that a batch is full, partial
  and empty, two of them there at the start and one published at any time, which is
  enough for a batch that ends with it, comes before it, or is fetched because of it; two runs
  at once, in three plans: two `embed_visual` (one with a visual backend, one forced and
  limited with the deterministic one), two `transcribe` (one limited, one file gone), a refresh
  beside a forced `embed_visual` that may answer with another visual vector. The videos are
  published with a caption, or with a hash.
- Worker: two requests at a time, out of fifteen which reach every answer of every endpoint,
  to five environments on three machines. The shared state is a pair of globals, a pair of
  cache entries and one transcriber: two threads reach every order of
  checks and assignments, and the proofs need no bound. A decoder of 448 positions as
  Whisper's, one of four in which nothing is left behind the prompt, and one that
  does not say; vectors of up to 33 bytes, one more than a digest holds; vectors of
  length three from the model, so that they are cut, whole and shorter than asked for.
- Ranking: lists of up to four (two equal vectors, one across, one opposite, one
  malformed), weights at both ends, between and invalid, ratios that divide, round up,
  exceed a half, and are invalid. The proofs need none of these bounds.
- Recommendations: four videos on a circle, two of them alike, where the reranking
  prefers a farther video to a nearer one; a session of two out of three or more
  watches; a pool of three out of four; two changes between the queries.
- Accounts: three scenarios. Two views and one request from an empty database, two
  e-mails and three tokens; one request and one view of a new user, four tokens and
  three ticks (every age that is compared with lies within them); two
  overlapping requests of a browser and a view, two tokens.

The counters that would grow without end (`changes`, `clicks`, ids of tokens, time)
are bounded by constants named in the modules.

### Fairness

- `MicroBatcher`: weak fairness of every handler thread and every daemon: the
  operating system schedules them, and no step of theirs waits but for a lock or a
  queue.
- `Feed`: weak fairness of the server's handler, of the delivery of a render, of
  rejoining, of the observer's notices and of the timer. Nothing is assumed of the
  viewer, nor that the connection is kept: `JumpsEnd` speaks of jumps that were asked
  for before it was lost, since a jump that is lost need not be made.
- `WatchLog`: the flush timer and the server's inserts.
- `Enrichment`: every run keeps taking steps. Nobody has to kill it, run it again or
  publish a video, and any of that may happen. `GetsPast` does not say that a run ends: for
  each video there is, the run has it behind its cursor in the end, or is finished or
  killed. Ids are taken in their order, so what is published later cannot put this off,
  however much there is of it; the one publication of the run reaches every order of a
  new id and a fetch.

## Proofs

TLAPS proves, for all values of the constants that the named assumptions allow:

- **BackendProofs**, the micro-batcher: `OwnResult`, and `ModelSpared` with its parts
  `LoadedOnce` and `BatchersExclusive`, after `TypeOK`. None is inductive alone. The invariant adds who may hold the initialisation lock
  and what is built by then (`InitLockInv`), that the batcher's lock is held
  exactly in the phases that run the model (`GpuLockInv`), and that the rows
  being delivered are those of the batch, without bad inputs, at the position the
  daemon is at (`BatchInv`). One lemma per action. Assumed: the kinds of requests
  are disjoint, a batch holds at least one.
- **BackendProofs**, the refinement: `NothingLost`, and `ImplementsService`: the backend is the
  abstract server `EmbedService` for any number of requests. The pending requests of a
  kind are what is left of the batch, then the queue; they are the latest arrivals,
  those before them are answered, and nobody arrives twice (`QueueInv`). `CallerInv`
  says what a handler has done about its request, `IdleInv` that an idle daemon has no
  batch. Sequence lemmas say what a step does to the pending ones: filling a batch
  changes nothing (`MoveOver`), an answer takes the first (`DropFirst`), a put comes last
  (`AppendBehind`). So every step answers the head of a line, joins a line, is served
  alone, is refused, or stutters.
- **BackendProofs**, the retry loop: `BudgetKept` with its part `BelowRefused`, and
  `CoversVideo`, after the loop's type correctness, for any number of frames. The
  arithmetic is in lemmas: a next budget is smaller and positive
  (`NextBudgetsShrink`), spread positions are strictly increasing and reach both
  ends (`SpreadPositions`), so downsampling keeps order and ends
  (`DownsampleFrames`).
- **IngestionProofs**: after `TypeOK`, `UniqueContent`, `RowsHaveFiles`, `NoStrayFiles` and
  `TrueReport`, for any number of pages and runs. Uploads and listed files are different items, so
  each side has an invariant (`SessionInv`, `TaskInv`) and a frame lemma for the
  other side's steps, which leave its items alone and take no content away. For
  `RowsHaveFiles`: what a page is about to create has its file, or was refused by an
  earlier save, and an import's copy is there when its row is created. For
  `TrueReport`: a run remembers a hash
  before it copies the file, so what it remembers is explained by the library, by an
  earlier file of the run that failed or was refused, or by the file it works on
  (`RunReport`); what a page remembers are contents of uploads it keeps, which are in the
  library, or of one that was refused, when save is through with them (`SavedInv`).
- **FeedProofs**: `Paging`, `JumpsAwaited` and the action property `LoadKeepsVideo`, for any
  videos, rankings, sizes of page and window, and any number of lost connections. The
  server's invariant (`ServerInv`) describes the list by what it lacks: in the order of
  age, whatever was stored when it was started and is not listed is older than all of it, or, in
  the tail, newer (`ByAge`); ranked, the offset is the length of the list, which is that
  part of the ranking (`ByRank`). So a page put behind the list leaves no gap, whichever
  rows appeared meanwhile. `NewestFacts` says what `ORDER BY` does to a finite set.
  The hook and the server agree only after what is on its way has arrived; `JumpInv`
  says how they differ meanwhile: the newest render is what the server shows (`Linked`), a
  flag is set only on the side of the list that its jump leads away from (`Sided`), a jump still on its way has no render
  of the other side before it (`Asked`), and once one render is of the other side all
  that follow are, while the hook waits for it (`Crossing`). None of `OneJump` and
  `StartAnswered` is inductive without all four. `LoadKeepsVideo` needs two more facts
  (`ViewInv`): each render on its way extends the page and the renders before it, up to
  the next jump (`Grown`, from what `load_more` appends and from `Linked` and `Asked`), and
  on a list without clones the active index is that of the active element (`OnVideo`). The
  hook knows the element by its place in the list; that the video there is the same is
  therefore the server's doing. Assumed: a ranking holds a video once.
- **TasteProofs**, the watch log: `Logged` and `NothingInvented`, for any videos, durations and limit of the
  queue. What is stored, under way and queued is a concatenation, and what was reported of a
  video is a sum over the log: both are recursive functions, whose equations for one more
  event, one more batch and the first batch are proved first (`TicksOfAppend`,
  `FlattenAppend`, `FlattenHead`). The invariant adds that no batch is empty, and `Watched`: the
  watch that is under way is that of the active video, was announced by an impression, and
  began no more than was played before where the video is now.
- **TasteProofs**, the rankings: `RankingHolds` and `NewestWatched`, for any library, embeddings of
  one dimension, durations and limits. `SinceItBegan` says what the other processes may have
  done since a ranking began: embeddings and watches are only added, and a favorite is still one unless
  its heart was clicked meanwhile. What a session counts are watches that
  are stored (`SessionWatched`), its taste has the dimension of the embeddings (`Tasted`), and the
  candidates miss none that was embedded when it began and is no favorite, nearest first
  (`CandidatesHold`). The rest is about the functions: what
  `ORDER BY ... LIMIT` returns (`OrderingFacts`), that a score is a number (`DotIsNumber`),
  that a round of `mmr` moves one candidate to the selected ones (`BestFacts`,
  `RemoveFirstFacts`, `RoundKeeps`), so that all rounds rearrange what they were given
  (`MmrRearranges`), and that the feed gets the nearest part rearranged and the rest as it
  was (`DiversifiedFacts`). It follows that a ranking holds a video once, which `FeedProofs`
  assumes.
- **TasteProofs**, the functions: `Ordered` and `Picked`, for any candidates, lists of any
  length, and any weights, caps and ratios. Assumed is `CallsAssumption`: vectors and queries are
  sequences of numbers. They are stated for `CallsSpec`; a step of the run is one of it or leaves the
  calls alone. The functions are recursive; each proof shows that the equations
  have a solution (`Recursion`), and that an invariant of the
  first n rounds is kept by the next (`Climb`). For the sort, a permutation says where each
  item came from, and equal scores keep its order (`SortedFrom`); the reversed accumulator
  then turns it round (`RankByDotFacts`). For `mmr`, what remains is in its old order, so that the first
  best of what remains is the earliest best of the whole list, and a choice is judged
  by the choices before it alone (`GreedyRound`, `ChoiceStays`, `MmrFacts`). For `filter`, each creator is in
  what was kept as often as it was eligible, or as often as the cap
  (`KeptSoFar`): counting what was kept is then counting what came before
  (`FilterFacts`). For `mix_exploration`, what is skipped of either list is in the mix for good (`LeftOf`), so
  the first unseen of what is left is the first unseen of the whole list
  (`TakeUniqueFacts`); `PeriodFacts` is the arithmetic: the rounded `1 / ratio` is the
  greatest of the nearest numbers of slots; and a slot adds nothing only when both lists are used up, when the
  mix has as many items as there are ids (`MixRound`, `MixFacts`).
- **EnrichmentProofs**: `Accounted`, `AllDone`, and `OneTopK` under the hypothesis that no two
  refreshes of tags run at once (`OneRefresh`, which every plan of the run satisfies and
  without which it is false, see above), for any number of runs and videos, any batch size, concurrency and
  limit. The invariant is a conjunction of concerns of one run, so that a step of another
  run has to keep each of them: the cursor and the order of the ids (`InTurn`), the sums
  (`Totals`), what may still be counted against the limit (`Within`), what a row that was
  read still tells (`RowsRead`), and where each video is that is not done yet
  (`NoneForgotten`). For `videos.embed_visual` done means that the embedding is one a worker has
  answered with: no video is published with a visual one, so a row that is skipped for
  having it was answered for by some run, and what is written over it is again an answer
  (`VisualAnswered`). `OneTopK` needs in addition that a refresh in its transaction deletes
  all there is of its video (`DeletesAll`).
- **WorkerProofs**: `TempFilesGone`, `HalfOnlyOnCuda`, `TokensFit`, `FramesCover` and the
  action property `WarmStays`, for any number of requests at once and every environment
  and machine whose numbers are numbers (`WorkerAssumption`; `NoneAssumption` says that `None`
  is no thread and no transcript). The invariant has a part per concern:
  `BackendInv` and `TranscriberInv` say that whoever is past a lookup left its cache filled,
  from which `WarmStays` follows; `LoadInv` that a transcriber's device is the one asked for
  or the resolved one, and the latter as soon as a model is there, so that all loads agree
  (`ResolveTwice`); `CallInv` and `SampledInv` what a call was given, to which the
  arithmetic lemmas `TokensOf`, `ParamsOf` and `SpreadOver` apply; `WavInv` and
  `UploadInv` whose file it is. `TranscriptionKept` and `RequestsKept` are the frame lemmas:
  a step of `Transcription` leaves the requests alone, and the other way round.
- **FavoritesProofs**: all three properties of the button, for any number of users, tabs,
  videos and clicks (`Users` and `Tabs` finite). Ids are serial numbers, so no two rows and
  no row about to be inserted share one (`IdsInv`); whoever holds a lock holds it alone, and
  what its handler read, a row or none, is still so (`LockInv`), from which what a commit
  writes follows (`WrittenFacts`). `LogBalances` is inductive on top of that: each step
  moves six numbers of a pair by amounts that add up (`BalanceKept`). `ShownHonest` needs
  to say of a handler that has counted that its answer is about the table as its own
  transaction sees it (`ShownInv`), and what a commit changes of anybody's view.
- **AccountsProofs**: `TablesOK`, `ConfirmedFirst`, `SudoEarned` and `ViewsBacked`, for any
  number of users, tokens, browsers, requests and views. A request or a view uses later
  what it read about the tables; `RequestOK` and `LiveOK` say what of it is still so
  (whoever is about to be logged in is confirmed, a link about to be spent is no
  session), and `Grows` why: users stay and stay confirmed, and no token id is given
  twice. A session goes only by a request that is then about to disconnect its views
  (`RequestMoves`), the exception `ViewsBacked` makes. One lemma per
  query (`IssueFacts`, `UpdateFacts`, ...), then one per action. Assumed: the users a
  scenario begins with have different emails, as the unique index ensures.
- **WorkerProofs**, the answers: `AnswerHonest` and `VectorsSound`, from an invariant of each request
  (`AInv`): where it is agrees with what it heard and whether it has answered. The words of a caption are counted by a
  recursive function; `CountsAreVotes` says that it gives each component the votes of
  all words, each once.

Statements about recursive functions, and about any finite set in order, are proved by
induction in the form that the provers take: were it false for some number, there is a
least one (`LeastNumber`), and the step from the one before it is a lemma of its own.

Only model-checked is liveness under fairness (`EveryoneAnswered`, `JumpsEnd`,
`EveryEventStored`, `GetsPast`), which is out of the prover's reach. Every invariant and
every action property that a run expects to hold has a theorem.

## What is not modelled, and assumptions

- Floating point: taste vectors are directions, scores integers. A vector of norm
  zero may make a blend fail; embeddings have the same norm, as the worker
  normalises them.
- PostgreSQL is READ COMMITTED: each statement sees what was committed when it
  began; unique indexes and row locks make writers wait.
- A process is not killed between a commit and the broadcast right after it
  (`user_auth.ex:174`): the views of deleted tokens would stay connected.
- In the worker: environment variables that are no numbers, the places where `_find_ffmpeg`
  looks, a frame whose extraction fails, and the quantisation of the model, whose
  misconfiguration is a failure to load like any other. Two models that are loaded
  alike are one value, so that a second load of the same is not seen.
- The check of sudo mode when the settings page mounts (`settings.ex:4`): the model lets
  more views mount there, and checks sudo mode where passwords and e-mails change.
- `likely_tags` (`tags.ex:75`) does not filter by the tag's version.
- ffmpeg, HTTP, the file system and the models of the worker are external: each call
  may succeed or fail.
- Layout, wording, sound, playing and preloading; read-only pages; configuration; mail
  delivery; vendored JavaScript.
- `filter`, `mix_exploration` and `rank_by_dot` are checked though nothing but their
  tests calls them yet: docs/milestones/06 plans to.

## What could follow

Modelled in the order of importance: micro-batcher, ingestion, adaptive frames, feed,
watch log, enrichment, favorites, accounts, ranking and recommendations, worker.

1. `tags.ingest` and tag versions in `Enrichment`; crossing responses in `UserAuth`;
   the download step of `videos.import_url` in `ImportTask`.
2. Abstract specifications: a library with one atomic publish for `Ingestion`; a
   list that only grows at its end for `Feed`.
3. Proofs: `MmrRearranges` and the rounds it is proved from, as corollaries of `MmrFacts`,
   which says more, once that is stated for any set of candidates.
