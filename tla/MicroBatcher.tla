---------------------------- MODULE MicroBatcher ----------------------------
(***************************************************************************)
(* The Qwen3-VL backend of the embedding worker: the double-checked load   *)
(* of the model (_get_embedder), the choice between the micro-batcher and  *)
(* a direct call, and the two daemon threads of _Qwen3VLMicroBatcher that  *)
(* drain the video and the text queue in batches under one lock.           *)
(*                                                                         *)
(* A request is one HTTP handler thread inside embed_video, embed_text or  *)
(* embed_video_frames.  An embedding is represented by the request it was  *)
(* computed from, so "a caller gets its own embedding" is answer[r] = r.   *)
(***************************************************************************)
EXTENDS Naturals, Sequences, FiniteSets

CONSTANTS
    VideoReq,    \* handler threads in embed_video
    TextReq,     \* handler threads in embed_text
    FrameReq,    \* handler threads in embed_video_frames
    Invalid,     \* inputs refused before the model is asked for: empty text,
                 \* no readable frame, a failed transcription
    Bad,         \* inputs on which the embedder raises, even alone
    MaxBatch,    \* batch_max_size (QWEN_BATCH_MAX_SIZE)
    NoAnswer,    \* a Future that is not resolved yet
    Raised,      \* the call raised the embedder's exception
    LoadFailed,  \* the call raised while loading the model
    Nobody       \* a lock nobody holds

Requests == VideoReq \cup TextReq \cup FrameReq

Kinds == {"video", "text"}

Answers == Requests \cup {Raised, LoadFailed}

ASSUME KindsDisjoint ==
    /\ VideoReq \cap TextReq = {}
    /\ VideoReq \cap FrameReq = {}
    /\ TextReq \cap FrameReq = {}

ASSUME BadAssumption == Bad \subseteq Requests /\ Invalid \subseteq Bad

ASSUME MaxBatchAssumption == MaxBatch \in Nat \ {0}

ASSUME MarkersDistinct ==
    /\ NoAnswer \notin Answers
    /\ Raised \notin Requests \cup {LoadFailed}
    /\ LoadFailed \notin Requests
    /\ Nobody \notin Requests \cup Kinds

VARIABLES
    embedder,   \* self._embedder is not None
    batcher,    \* self._microbatcher is not None
    loads,      \* how many times _Qwen3VLEmbedder was constructed
    initLock,   \* holder of self._embedder_lock
    pc,         \* where each handler thread is
    queue,      \* _video_queue and _text_queue
    batch,      \* the batch each daemon thread is working on
    phase,      \* where each daemon thread is
    pos,        \* index of the next future of the batch to resolve
    outputs,    \* rows returned by the last successful batch call
    gpuLock,    \* holder of the micro-batcher's self._lock
    answer,     \* what each request's Future holds / what its call returned
    arrived     \* history: every request put on each queue, in order

backendVars == <<embedder, batcher, loads, initLock>>
threadVars == <<queue, batch, phase, pos, outputs, gpuLock, arrived>>
vars == <<embedder, batcher, loads, initLock, pc, queue, batch, phase, pos,
          outputs, gpuLock, answer, arrived>>

Batched(k) == IF k = "video" THEN VideoReq ELSE TextReq

Init ==
    /\ embedder = FALSE
    /\ batcher = FALSE
    /\ loads = 0
    /\ initLock = Nobody
    /\ pc = [r \in Requests |-> "start"]
    /\ queue = [k \in Kinds |-> <<>>]
    /\ batch = [k \in Kinds |-> <<>>]
    /\ phase = [k \in Kinds |-> "idle"]
    /\ pos = [k \in Kinds |-> 1]
    /\ outputs = [k \in Kinds |-> <<>>]
    /\ gpuLock = Nobody
    /\ answer = [r \in Requests |-> NoAnswer]
    /\ arrived = [k \in Kinds |-> <<>>]

-----------------------------------------------------------------------------
(* What embed_video, embed_text and embed_video_frames do first *)

\* text_empty, frames_empty, or the transcriber raises.
Reject(r) ==
    /\ pc[r] = "start"
    /\ r \in Invalid
    /\ answer' = [answer EXCEPT ![r] = Raised]
    /\ pc' = [pc EXCEPT ![r] = "done"]
    /\ UNCHANGED <<backendVars, threadVars>>

-----------------------------------------------------------------------------
(* _get_embedder *)

\* First check, without the lock.
CheckEmbedder(r) ==
    /\ pc[r] = "start"
    /\ r \notin Invalid
    /\ pc' = [pc EXCEPT ![r] = IF embedder THEN "ready" ELSE "lockwait"]
    /\ UNCHANGED <<backendVars, threadVars, answer>>

\* Mutated form of LoadedMeanwhile: the second check is dropped.
NotRechecked == FALSE

\* The check repeated under the lock.
LoadedMeanwhile == embedder

\* The lock is taken and the check repeated; the lock is kept only to build.
LockEmbedder(r) ==
    /\ pc[r] = "lockwait"
    /\ initLock = Nobody
    /\ IF LoadedMeanwhile
       THEN /\ pc' = [pc EXCEPT ![r] = "ready"]
            /\ UNCHANGED initLock
       ELSE /\ pc' = [pc EXCEPT ![r] = "loading"]
            /\ initLock' = r
    /\ UNCHANGED <<embedder, batcher, loads, threadVars, answer>>

\* self._embedder is assigned before the micro-batcher exists.
LoadEmbedder(r) ==
    /\ pc[r] = "loading"
    /\ embedder' = TRUE
    /\ loads' = loads + 1
    /\ IF MaxBatch > 1 /\ ~batcher
       THEN /\ pc' = [pc EXCEPT ![r] = "building"]
            /\ UNCHANGED initLock
       ELSE /\ pc' = [pc EXCEPT ![r] = "ready"]
            /\ initLock' = Nobody
    /\ UNCHANGED <<batcher, threadVars, answer>>

\* The constructor raises (missing weights, no CUDA, no bitsandbytes ...).
LoadFails(r) ==
    /\ pc[r] = "loading"
    /\ pc' = [pc EXCEPT ![r] = "done"]
    /\ answer' = [answer EXCEPT ![r] = LoadFailed]
    /\ initLock' = Nobody
    /\ UNCHANGED <<embedder, batcher, loads, threadVars>>

\* _Qwen3VLMicroBatcher(...) starts its threads and is published.
BuildBatcher(r) ==
    /\ pc[r] = "building"
    /\ batcher' = TRUE
    /\ pc' = [pc EXCEPT ![r] = "ready"]
    /\ initLock' = Nobody
    /\ UNCHANGED <<embedder, loads, threadVars, answer>>

-----------------------------------------------------------------------------
(* The rest of embed_video, embed_text and embed_video_frames *)

\* process_video / process_text: put (input, Future) on the queue.
Enqueue(r, k) ==
    /\ pc[r] = "ready"
    /\ batcher
    /\ r \in Batched(k)
    /\ queue' = [queue EXCEPT ![k] = Append(@, r)]
    /\ arrived' = [arrived EXCEPT ![k] = Append(@, r)]
    /\ pc' = [pc EXCEPT ![r] = "waiting"]
    /\ UNCHANGED <<backendVars, batch, phase, pos, outputs, gpuLock, answer>>

\* No micro-batcher yet, or a frames request: the handler thread itself calls
\* the embedder, without the micro-batcher's lock.
CallDirectly(r) ==
    /\ pc[r] = "ready"
    /\ r \in FrameReq \/ ~batcher
    /\ pc' = [pc EXCEPT ![r] = "direct"]
    /\ UNCHANGED <<backendVars, threadVars, answer>>

\* What the embedder does with one input.
Outcome(r) == IF r \in Bad THEN Raised ELSE r

DirectReturns(r) ==
    /\ pc[r] = "direct"
    /\ answer' = [answer EXCEPT ![r] = Outcome(r)]
    /\ pc' = [pc EXCEPT ![r] = "done"]
    /\ UNCHANGED <<backendVars, threadVars>>

\* fut.result() returns or raises; it has no timeout.
Resume(r) ==
    /\ pc[r] = "waiting"
    /\ answer[r] # NoAnswer
    /\ pc' = [pc EXCEPT ![r] = "done"]
    /\ UNCHANGED <<backendVars, threadVars, answer>>

-----------------------------------------------------------------------------
(* _run_video and _run_text *)

\* Mutated form of FreeFor: the lock is not taken around the retries.
FreeUnlessRetry(k) == gpuLock = Nobody \/ phase[k] = "retry"

\* The micro-batcher's lock can be taken.
FreeFor(k) == gpuLock = Nobody

\* The blocking get() that starts a batch.
TakeFirst(k) ==
    /\ batcher
    /\ phase[k] = "idle"
    /\ queue[k] # <<>>
    /\ batch' = [batch EXCEPT ![k] = <<Head(queue[k])>>]
    /\ queue' = [queue EXCEPT ![k] = Tail(@)]
    /\ phase' = [phase EXCEPT ![k] = "collect"]
    /\ UNCHANGED <<backendVars, pc, pos, outputs, gpuLock, answer, arrived>>

\* Mutated form of TakeMore: an item that arrives at the deadline is taken
\* off the queue but never added to the batch.
TakeAndDrop(k) ==
    /\ phase[k] = "collect"
    /\ Len(batch[k]) < MaxBatch
    /\ queue[k] # <<>>
    /\ queue' = [queue EXCEPT ![k] = Tail(@)]
    /\ phase' = [phase EXCEPT ![k] = "closed"]
    /\ UNCHANGED <<backendVars, pc, batch, pos, outputs, gpuLock, answer,
                   arrived>>

\* Mutated form of TakeMore: the item is put before the earlier ones.
TakeToFront(k) ==
    /\ phase[k] = "collect"
    /\ Len(batch[k]) < MaxBatch
    /\ queue[k] # <<>>
    /\ batch' = [batch EXCEPT ![k] = <<Head(queue[k])>> \o @]
    /\ queue' = [queue EXCEPT ![k] = Tail(@)]
    /\ UNCHANGED <<backendVars, pc, phase, pos, outputs, gpuLock, answer,
                   arrived>>

\* Mutated form of HasRoom: <= instead of <.
HasRoomOffByOne(k) == Len(batch[k]) <= MaxBatch

\* len(batch) < self._max_batch_size
HasRoom(k) == Len(batch[k]) < MaxBatch

\* get(timeout=remaining) delivers another item before the deadline.
TakeMore(k) ==
    /\ phase[k] = "collect"
    /\ HasRoom(k)
    /\ queue[k] # <<>>
    /\ batch' = [batch EXCEPT ![k] = Append(@, Head(queue[k]))]
    /\ queue' = [queue EXCEPT ![k] = Tail(@)]
    /\ UNCHANGED <<backendVars, pc, phase, pos, outputs, gpuLock, answer,
                   arrived>>

\* The batch is full, the deadline has passed or get() timed out.
CloseBatch(k) ==
    /\ phase[k] = "collect"
    /\ phase' = [phase EXCEPT ![k] = "closed"]
    /\ UNCHANGED <<backendVars, pc, queue, batch, pos, outputs, gpuLock,
                   answer, arrived>>

LockBatch(k) ==
    /\ phase[k] = "closed"
    /\ FreeFor(k)
    /\ gpuLock' = k
    /\ phase' = [phase EXCEPT ![k] = "processing"]
    /\ UNCHANGED <<backendVars, pc, queue, batch, pos, outputs, answer,
                   arrived>>

InBatch(k) == {batch[k][i] : i \in DOMAIN batch[k]}

\* embedder.process(inputs) returns one row per input, in input order.
BatchSucceeds(k) ==
    /\ phase[k] = "processing"
    /\ InBatch(k) \cap Bad = {}
    /\ outputs' = [outputs EXCEPT ![k] = batch[k]]
    /\ pos' = [pos EXCEPT ![k] = 1]
    /\ gpuLock' = Nobody
    /\ phase' = [phase EXCEPT ![k] = "deliver"]
    /\ UNCHANGED <<backendVars, pc, queue, batch, answer, arrived>>

\* It raises: because of a bad input, or only because of the combination
\* (memory, frame shapes, token count).  Nobody is told yet.
BatchFails(k) ==
    /\ phase[k] = "processing"
    /\ pos' = [pos EXCEPT ![k] = 1]
    /\ gpuLock' = Nobody
    /\ phase' = [phase EXCEPT ![k] = "retry"]
    /\ UNCHANGED <<backendVars, pc, queue, batch, outputs, answer, arrived>>

\* Mutated form of Advance: a failed input ends the whole batch.
AdvanceUnlessFailed(k, next) ==
    IF /\ pos[k] < Len(batch[k])
       /\ next = "deliver" \/ batch[k][pos[k]] \notin Bad
    THEN /\ pos' = [pos EXCEPT ![k] = @ + 1]
         /\ phase' = [phase EXCEPT ![k] = next]
         /\ UNCHANGED <<batch, outputs>>
    ELSE /\ pos' = [pos EXCEPT ![k] = 1]
         /\ phase' = [phase EXCEPT ![k] = "idle"]
         /\ batch' = [batch EXCEPT ![k] = <<>>]
         /\ outputs' = [outputs EXCEPT ![k] = <<>>]

\* After the future at pos is resolved: the next one, or the next batch.
Advance(k, next) ==
    IF pos[k] < Len(batch[k])
    THEN /\ pos' = [pos EXCEPT ![k] = @ + 1]
         /\ phase' = [phase EXCEPT ![k] = next]
         /\ UNCHANGED <<batch, outputs>>
    ELSE /\ pos' = [pos EXCEPT ![k] = 1]
         /\ phase' = [phase EXCEPT ![k] = "idle"]
         /\ batch' = [batch EXCEPT ![k] = <<>>]
         /\ outputs' = [outputs EXCEPT ![k] = <<>>]

\* Mutated form of Row: every future gets embeddings[0:1].
FirstRow(k) == outputs[k][1]

\* embeddings[idx : idx + 1]
Row(k) == outputs[k][pos[k]]

\* future.set_result(embeddings[idx : idx + 1])
DeliverRow(k) ==
    /\ phase[k] = "deliver"
    /\ answer' = [answer EXCEPT ![batch[k][pos[k]]] = Row(k)]
    /\ Advance(k, "deliver")
    /\ UNCHANGED <<backendVars, pc, queue, gpuLock, arrived>>

LockRetry(k) ==
    /\ phase[k] = "retry"
    /\ FreeFor(k)
    /\ gpuLock' = k
    /\ phase' = [phase EXCEPT ![k] = "retrying"]
    /\ UNCHANGED <<backendVars, pc, queue, batch, pos, outputs, answer,
                   arrived>>

\* One input alone: set_result(single), or set_exception(e) for this future.
RetryOne(k) ==
    /\ phase[k] = "retrying"
    /\ LET r == batch[k][pos[k]]
       IN answer' = [answer EXCEPT ![r] = Outcome(r)]
    /\ gpuLock' = Nobody
    /\ Advance(k, "retry")
    /\ UNCHANGED <<backendVars, pc, queue, arrived>>

-----------------------------------------------------------------------------

Handler(r) ==
    \/ Reject(r)
    \/ CheckEmbedder(r)
    \/ LockEmbedder(r)
    \/ LoadEmbedder(r)
    \/ LoadFails(r)
    \/ BuildBatcher(r)
    \/ \E k \in Kinds : Enqueue(r, k)
    \/ CallDirectly(r)
    \/ DirectReturns(r)
    \/ Resume(r)

Daemon(k) ==
    \/ TakeFirst(k)
    \/ TakeMore(k)
    \/ CloseBatch(k)
    \/ LockBatch(k)
    \/ BatchSucceeds(k)
    \/ BatchFails(k)
    \/ DeliverRow(k)
    \/ LockRetry(k)
    \/ RetryOne(k)

Next ==
    \/ \E r \in Requests : Handler(r)
    \/ \E k \in Kinds : Daemon(k)

Spec == Init /\ [][Next]_vars

(***************************************************************************)
(* Every thread keeps being scheduled.  Weak fairness is enough although   *)
(* the two locks are not fair: a thread waits for the other daemon only as *)
(* long as there are requests, and a handler makes one request.            *)
(***************************************************************************)
Fairness ==
    /\ \A r \in Requests : WF_vars(Handler(r))
    /\ \A k \in Kinds : WF_vars(Daemon(k))

FairSpec == Spec /\ Fairness

-----------------------------------------------------------------------------
(* Properties *)

BackendTypeOK ==
    /\ embedder \in BOOLEAN
    /\ batcher \in BOOLEAN
    /\ loads \in Nat
    /\ initLock \in Requests \cup {Nobody}

HandlerTypeOK ==
    /\ pc \in [Requests -> {"start", "lockwait", "loading", "building",
                            "ready", "waiting", "direct", "done"}]
    /\ answer \in [Requests -> Answers \cup {NoAnswer}]

QueueTypeOK ==
    /\ queue \in [Kinds -> Seq(Requests)]
    /\ arrived \in [Kinds -> Seq(Requests)]

BatchTypeOK ==
    /\ batch \in [Kinds -> Seq(Requests)]
    /\ outputs \in [Kinds -> Seq(Requests)]
    /\ \A k \in Kinds : Len(batch[k]) <= MaxBatch
    /\ pos \in [Kinds -> 1..MaxBatch]

PhaseTypeOK ==
    /\ phase \in [Kinds -> {"idle", "collect", "closed", "processing",
                            "deliver", "retry", "retrying"}]
    /\ gpuLock \in Kinds \cup {Nobody}

\* Every variable keeps the shape the code gives it, a batch never exceeds
\* batch_max_size and the index of the future to resolve stays inside it.
TypeOK ==
    /\ BackendTypeOK
    /\ HandlerTypeOK
    /\ QueueTypeOK
    /\ BatchTypeOK
    /\ PhaseTypeOK

\* Whatever batches a request is put in, and whoever else is in them, its
\* caller gets the embedding of its own input, or the exception its own input
\* raises, or the failure to load the model: a bad input never fails the
\* requests it was batched with and rows are never handed to the wrong caller.
OwnResult ==
    \A r \in Requests :
        answer[r] \in {NoAnswer, LoadFailed, Outcome(r)}

\* The requests a daemon thread has taken on and not answered yet, then those
\* still on its queue.
Pending(k) == SubSeq(batch[k], pos[k], Len(batch[k])) \o queue[k]

\* No request is lost, duplicated or overtaken between put() and its Future:
\* the pending requests of a kind are exactly the latest arrivals, in their
\* order of arrival, and the earlier arrivals are exactly the answered ones.
\* In particular the next Future a daemon resolves is an unresolved one: a
\* second set_result raises InvalidStateError, set_exception in the handler
\* raises it again, and the daemon would die with every caller waiting.
NothingLost ==
    \A k \in Kinds :
        LET served == Len(arrived[k]) - Len(Pending(k))
        IN /\ served >= 0
           /\ Pending(k) = SubSeq(arrived[k], served + 1, Len(arrived[k]))
           /\ \A i \in DOMAIN arrived[k] :
                  answer[arrived[k][i]] # NoAnswer <=> i <= served

\* The double-checked lock of _get_embedder loads the model at most once, and
\* the threads of the micro-batcher exist only after it.
LoadedOnce ==
    /\ loads <= 1
    /\ embedder <=> loads = 1
    /\ batcher => embedder

\* The two daemon threads never run the model at the same time: _lock covers
\* the batch call and each single retry.
BatchersExclusive ==
    ~ \A k \in Kinds : phase[k] \in {"processing", "retrying"}

\* Memory holds one model and the inputs of one batch at a time, of no more than
\* batch_max_size inputs: the load happens once, the two daemon threads take
\* turns, and no batch outgrows the limit.
ModelSpared ==
    /\ LoadedOnce
    /\ BatchersExclusive
    /\ \A k \in Kinds : Len(batch[k]) <= MaxBatch

\* Every request is answered in the end: no interleaving of the model load,
\* the batches, the retries and the direct calls leaves a caller blocked on
\* fut.result(), which has no timeout.
EveryoneAnswered == <>(\A r \in Requests : pc[r] = "done")

\* The batches, the two locks and the double-checked load are invisible to the
\* callers: seen through Pending they are a server that answers one request
\* of a kind at a time, in order of arrival.
Service == INSTANCE EmbedService WITH
    line <- [k \in Kinds |-> Pending(k)],
    alone <- {r \in Requests : pc[r] = "direct"},
    reply <- answer

\* The backend implements EmbedService, whose requests are all answered in the
\* end by EveryoneAnswered.
ImplementsService == Service!Spec
=============================================================================
