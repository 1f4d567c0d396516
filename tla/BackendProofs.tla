---------------------------- MODULE BackendProofs ----------------------------
(***************************************************************************)
(* Proofs about the embedding backend: the safety of the micro-batcher,    *)
(* that it implements EmbedService, and the retry loop around one call of  *)
(* the embedder, for any sets of requests, batch sizes and frame budgets.  *)
(***************************************************************************)
EXTENDS MicroBatcher, AdaptiveFrames, SequenceTheorems, TLAPS

(***************************************************************************)
(* The micro-batcher                                                       *)
(***************************************************************************)

\* Who may hold the lock of _get_embedder, and what has been built meanwhile.
InitLockInv ==
    /\ \A r \in Requests :
          /\ pc[r] \in {"loading", "building"} => initLock = r
          /\ pc[r] = "loading" => ~embedder
          /\ pc[r] = "building" => embedder
    /\ LoadedOnce

\* The micro-batcher's lock is held exactly while a daemon runs the model.
GpuLockInv ==
    \A k \in Kinds : phase[k] \in {"processing", "retrying"} <=> gpuLock = k

\* pos names a future of the batch and is 1 until the batch has been processed;
\* the rows that are being delivered are those of a batch without bad inputs.
BatchInv ==
    \A k \in Kinds :
        /\ phase[k] # "idle" => pos[k] <= Len(batch[k])
        /\ phase[k] \in {"idle", "collect", "closed", "processing"} => pos[k] = 1
        /\ phase[k] = "deliver" =>
              /\ outputs[k] = batch[k]
              /\ \A i \in 1..Len(batch[k]) : batch[k][i] \notin Bad

IInv ==
    /\ TypeOK
    /\ InitLockInv
    /\ GpuLockInv
    /\ BatchInv
    /\ OwnResult

USE KindsDisjoint, BadAssumption, MaxBatchAssumption, MarkersDistinct

LEMMA InitIInv == Init => IInv
  <1> SUFFICES ASSUME Init PROVE IInv
    OBVIOUS
  <1>1. BackendTypeOK
    BY DEF Init, BackendTypeOK
  <1>2. HandlerTypeOK
    BY DEF Init, HandlerTypeOK, Answers
  <1>3. QueueTypeOK
    BY DEF Init, QueueTypeOK
  <1>4. BatchTypeOK
    BY DEF Init, BatchTypeOK
  <1>5. PhaseTypeOK
    BY DEF Init, PhaseTypeOK
  <1>6. InitLockInv
    BY DEF Init, InitLockInv, LoadedOnce
  <1>7. GpuLockInv
    BY DEF Init, GpuLockInv
  <1>8. BatchInv
    BY DEF Init, BatchInv
  <1>9. OwnResult
    BY DEF Init, OwnResult, Outcome
  <1> QED
    BY <1>1, <1>2, <1>3, <1>4, <1>5, <1>6, <1>7, <1>8, <1>9
       DEF IInv, TypeOK

LEMMA RejectStep ==
  ASSUME IInv, NEW r \in Requests, Reject(r)
  PROVE  IInv'
  <1>1. HandlerTypeOK'
    BY DEF IInv, TypeOK, HandlerTypeOK, Answers, Reject
  <1>2. InitLockInv'
    BY DEF backendVars, IInv, TypeOK, InitLockInv, LoadedOnce, BackendTypeOK,
       HandlerTypeOK, Reject
  <1>3. OwnResult'
    BY DEF IInv, TypeOK, OwnResult, Outcome, HandlerTypeOK, Reject
  <1>4. /\ BackendTypeOK'
         /\ QueueTypeOK'
         /\ BatchTypeOK'
         /\ PhaseTypeOK'
         /\ GpuLockInv'
         /\ BatchInv'
    BY DEF IInv, TypeOK, BackendTypeOK, QueueTypeOK, BatchTypeOK,
       PhaseTypeOK, GpuLockInv, BatchInv, Reject, backendVars,
           threadVars
  <1> QED
    BY <1>1, <1>2, <1>3, <1>4 DEF IInv, TypeOK

LEMMA CheckEmbedderStep ==
  ASSUME IInv, NEW r \in Requests, CheckEmbedder(r)
  PROVE  IInv'
  <1>1. HandlerTypeOK'
    BY DEF IInv, TypeOK, HandlerTypeOK, Answers, CheckEmbedder
  <1>2. InitLockInv'
    BY DEF backendVars, IInv, TypeOK, InitLockInv, LoadedOnce, BackendTypeOK,
       HandlerTypeOK, CheckEmbedder
  <1>3. /\ BackendTypeOK'
         /\ QueueTypeOK'
         /\ BatchTypeOK'
         /\ PhaseTypeOK'
         /\ GpuLockInv'
         /\ BatchInv'
         /\ OwnResult'
    BY DEF IInv, TypeOK, BackendTypeOK, QueueTypeOK, BatchTypeOK,
       PhaseTypeOK, GpuLockInv, BatchInv, OwnResult, Outcome,
       CheckEmbedder, backendVars,
           threadVars
  <1> QED
    BY <1>1, <1>2, <1>3 DEF IInv, TypeOK

LEMMA LockEmbedderStep ==
  ASSUME IInv, NEW r \in Requests, LockEmbedder(r)
  PROVE  IInv'
  <1>1. BackendTypeOK'
    BY DEF IInv, TypeOK, BackendTypeOK, LockEmbedder, LoadedMeanwhile
  <1>2. HandlerTypeOK'
    BY DEF IInv, TypeOK, HandlerTypeOK, Answers, LockEmbedder
  <1>3. InitLockInv'
    BY DEF backendVars, IInv, TypeOK, InitLockInv, LoadedOnce, BackendTypeOK,
       HandlerTypeOK, LockEmbedder, LoadedMeanwhile
  <1>4. /\ QueueTypeOK'
         /\ BatchTypeOK'
         /\ PhaseTypeOK'
         /\ GpuLockInv'
         /\ BatchInv'
         /\ OwnResult'
    BY DEF IInv, TypeOK, QueueTypeOK, BatchTypeOK, PhaseTypeOK, GpuLockInv,
       BatchInv, OwnResult, Outcome, LockEmbedder, backendVars,
           threadVars
  <1> QED
    BY <1>1, <1>2, <1>3, <1>4 DEF IInv, TypeOK

LEMMA LoadEmbedderStep ==
  ASSUME IInv, NEW r \in Requests, LoadEmbedder(r)
  PROVE  IInv'
  <1>1. BackendTypeOK'
    BY DEF IInv, TypeOK, BackendTypeOK, LoadEmbedder
  <1>2. HandlerTypeOK'
    BY DEF IInv, TypeOK, HandlerTypeOK, Answers, LoadEmbedder
  <1>3. InitLockInv'
    BY DEF backendVars, IInv, TypeOK, InitLockInv, LoadedOnce, BackendTypeOK,
       HandlerTypeOK, LoadEmbedder
  <1>4. /\ QueueTypeOK'
         /\ BatchTypeOK'
         /\ PhaseTypeOK'
         /\ GpuLockInv'
         /\ BatchInv'
         /\ OwnResult'
    BY DEF IInv, TypeOK, QueueTypeOK, BatchTypeOK, PhaseTypeOK, GpuLockInv,
       BatchInv, OwnResult, Outcome, LoadEmbedder, backendVars,
           threadVars
  <1> QED
    BY <1>1, <1>2, <1>3, <1>4 DEF IInv, TypeOK

LEMMA LoadFailsStep ==
  ASSUME IInv, NEW r \in Requests, LoadFails(r)
  PROVE  IInv'
  <1>1. BackendTypeOK'
    BY DEF IInv, TypeOK, BackendTypeOK, LoadFails
  <1>2. HandlerTypeOK'
    BY DEF IInv, TypeOK, HandlerTypeOK, Answers, LoadFails
  <1>3. InitLockInv'
    BY DEF backendVars, IInv, TypeOK, InitLockInv, LoadedOnce, BackendTypeOK,
       HandlerTypeOK, LoadFails
  <1>4. OwnResult'
    BY DEF IInv, TypeOK, OwnResult, Outcome, HandlerTypeOK, LoadFails
  <1>5. /\ QueueTypeOK'
         /\ BatchTypeOK'
         /\ PhaseTypeOK'
         /\ GpuLockInv'
         /\ BatchInv'
    BY DEF IInv, TypeOK, QueueTypeOK, BatchTypeOK, PhaseTypeOK, GpuLockInv,
       BatchInv, LoadFails, backendVars,
           threadVars
  <1> QED
    BY <1>1, <1>2, <1>3, <1>4, <1>5 DEF IInv, TypeOK

LEMMA BuildBatcherStep ==
  ASSUME IInv, NEW r \in Requests, BuildBatcher(r)
  PROVE  IInv'
  <1>1. BackendTypeOK'
    BY DEF IInv, TypeOK, BackendTypeOK, BuildBatcher
  <1>2. HandlerTypeOK'
    BY DEF IInv, TypeOK, HandlerTypeOK, Answers, BuildBatcher
  <1>3. InitLockInv'
    BY DEF backendVars, IInv, TypeOK, InitLockInv, LoadedOnce, BackendTypeOK,
       HandlerTypeOK, BuildBatcher
  <1>4. /\ QueueTypeOK'
         /\ BatchTypeOK'
         /\ PhaseTypeOK'
         /\ GpuLockInv'
         /\ BatchInv'
         /\ OwnResult'
    BY DEF IInv, TypeOK, QueueTypeOK, BatchTypeOK, PhaseTypeOK, GpuLockInv,
       BatchInv, OwnResult, Outcome, BuildBatcher, backendVars,
           threadVars
  <1> QED
    BY <1>1, <1>2, <1>3, <1>4 DEF IInv, TypeOK

LEMMA EnqueueStep ==
  ASSUME IInv, NEW r \in Requests, NEW k \in Kinds, Enqueue(r, k)
  PROVE  IInv'
  <1>1. HandlerTypeOK'
    BY DEF IInv, TypeOK, HandlerTypeOK, Answers, Enqueue
  <1>2. QueueTypeOK'
    BY DEF IInv, TypeOK, QueueTypeOK, Enqueue
  <1>3. InitLockInv'
    BY DEF backendVars, IInv, TypeOK, InitLockInv, LoadedOnce, BackendTypeOK,
       HandlerTypeOK, Enqueue
  <1>4. /\ BackendTypeOK'
         /\ BatchTypeOK'
         /\ PhaseTypeOK'
         /\ GpuLockInv'
         /\ BatchInv'
         /\ OwnResult'
    BY DEF IInv, TypeOK, BackendTypeOK, BatchTypeOK, PhaseTypeOK,
       GpuLockInv, BatchInv, OwnResult, Outcome, Enqueue, backendVars,
           threadVars
  <1> QED
    BY <1>1, <1>2, <1>3, <1>4 DEF IInv, TypeOK

LEMMA CallDirectlyStep ==
  ASSUME IInv, NEW r \in Requests, CallDirectly(r)
  PROVE  IInv'
  <1>1. HandlerTypeOK'
    BY DEF IInv, TypeOK, HandlerTypeOK, Answers, CallDirectly
  <1>2. InitLockInv'
    BY DEF backendVars, IInv, TypeOK, InitLockInv, LoadedOnce, BackendTypeOK,
       HandlerTypeOK, CallDirectly
  <1>3. /\ BackendTypeOK'
         /\ QueueTypeOK'
         /\ BatchTypeOK'
         /\ PhaseTypeOK'
         /\ GpuLockInv'
         /\ BatchInv'
         /\ OwnResult'
    BY DEF IInv, TypeOK, BackendTypeOK, QueueTypeOK, BatchTypeOK,
       PhaseTypeOK, GpuLockInv, BatchInv, OwnResult, Outcome, CallDirectly,
       backendVars,
           threadVars
  <1> QED
    BY <1>1, <1>2, <1>3 DEF IInv, TypeOK

LEMMA DirectReturnsStep ==
  ASSUME IInv, NEW r \in Requests, DirectReturns(r)
  PROVE  IInv'
  <1>1. HandlerTypeOK'
    BY DEF IInv, TypeOK, HandlerTypeOK, Answers, DirectReturns, Outcome
  <1>2. InitLockInv'
    BY DEF backendVars, IInv, TypeOK, InitLockInv, LoadedOnce, BackendTypeOK,
       HandlerTypeOK, DirectReturns
  <1>3. OwnResult'
    BY DEF IInv, TypeOK, OwnResult, Outcome, HandlerTypeOK, DirectReturns
  <1>4. /\ BackendTypeOK'
         /\ QueueTypeOK'
         /\ BatchTypeOK'
         /\ PhaseTypeOK'
         /\ GpuLockInv'
         /\ BatchInv'
    BY DEF IInv, TypeOK, BackendTypeOK, QueueTypeOK, BatchTypeOK,
       PhaseTypeOK, GpuLockInv, BatchInv, DirectReturns, backendVars,
           threadVars
  <1> QED
    BY <1>1, <1>2, <1>3, <1>4 DEF IInv, TypeOK

LEMMA ResumeStep ==
  ASSUME IInv, NEW r \in Requests, Resume(r)
  PROVE  IInv'
  <1>1. HandlerTypeOK'
    BY DEF IInv, TypeOK, HandlerTypeOK, Answers, Resume
  <1>2. InitLockInv'
    BY DEF backendVars, IInv, TypeOK, InitLockInv, LoadedOnce, BackendTypeOK,
       HandlerTypeOK, Resume
  <1>3. /\ BackendTypeOK'
         /\ QueueTypeOK'
         /\ BatchTypeOK'
         /\ PhaseTypeOK'
         /\ GpuLockInv'
         /\ BatchInv'
         /\ OwnResult'
    BY DEF IInv, TypeOK, BackendTypeOK, QueueTypeOK, BatchTypeOK,
       PhaseTypeOK, GpuLockInv, BatchInv, OwnResult, Outcome, Resume,
       backendVars,
           threadVars
  <1> QED
    BY <1>1, <1>2, <1>3 DEF IInv, TypeOK

LEMMA TakeFirstStep ==
  ASSUME IInv, NEW k \in Kinds, TakeFirst(k)
  PROVE  IInv'
  <1>1. QueueTypeOK'
    BY DEF IInv, TypeOK, QueueTypeOK, TakeFirst
  <1>2. BatchTypeOK'
    BY DEF IInv, TypeOK, BatchTypeOK, QueueTypeOK, PhaseTypeOK, TakeFirst
  <1>3. PhaseTypeOK'
    BY DEF IInv, TypeOK, PhaseTypeOK, TakeFirst
  <1>4. GpuLockInv'
    BY DEF IInv, TypeOK, GpuLockInv, PhaseTypeOK, TakeFirst
  <1>5. BatchInv'
    BY DEF IInv, TypeOK, BatchInv, BatchTypeOK, PhaseTypeOK, QueueTypeOK,
       TakeFirst
  <1>6. /\ BackendTypeOK'
         /\ HandlerTypeOK'
         /\ InitLockInv'
         /\ OwnResult'
    BY DEF IInv, TypeOK, BackendTypeOK, HandlerTypeOK, InitLockInv,
       LoadedOnce, OwnResult, Outcome, TakeFirst, backendVars,
           threadVars
  <1> QED
    BY <1>1, <1>2, <1>3, <1>4, <1>5, <1>6 DEF IInv, TypeOK

LEMMA TakeMoreStep ==
  ASSUME IInv, NEW k \in Kinds, TakeMore(k)
  PROVE  IInv'
  <1>1. QueueTypeOK'
    BY DEF IInv, TypeOK, QueueTypeOK, TakeMore, HasRoom
  <1>2. BatchTypeOK'
    BY DEF IInv, TypeOK, BatchTypeOK, QueueTypeOK, PhaseTypeOK, TakeMore,
       HasRoom
  <1>3. BatchInv'
    BY DEF IInv, TypeOK, BatchInv, BatchTypeOK, PhaseTypeOK, QueueTypeOK,
       TakeMore, HasRoom
  <1>4. /\ BackendTypeOK'
         /\ HandlerTypeOK'
         /\ PhaseTypeOK'
         /\ InitLockInv'
         /\ GpuLockInv'
         /\ OwnResult'
    BY DEF IInv, TypeOK, BackendTypeOK, HandlerTypeOK, PhaseTypeOK,
       InitLockInv, LoadedOnce, GpuLockInv, OwnResult, Outcome, TakeMore,
       backendVars,
           threadVars
  <1> QED
    BY <1>1, <1>2, <1>3, <1>4 DEF IInv, TypeOK

LEMMA CloseBatchStep ==
  ASSUME IInv, NEW k \in Kinds, CloseBatch(k)
  PROVE  IInv'
  <1>1. PhaseTypeOK'
    BY DEF IInv, TypeOK, PhaseTypeOK, CloseBatch
  <1>2. GpuLockInv'
    BY DEF IInv, TypeOK, GpuLockInv, PhaseTypeOK, CloseBatch
  <1>3. BatchInv'
    BY DEF IInv, TypeOK, BatchInv, BatchTypeOK, PhaseTypeOK, QueueTypeOK,
       CloseBatch
  <1>4. /\ BackendTypeOK'
         /\ HandlerTypeOK'
         /\ QueueTypeOK'
         /\ BatchTypeOK'
         /\ InitLockInv'
         /\ OwnResult'
    BY DEF IInv, TypeOK, BackendTypeOK, HandlerTypeOK, QueueTypeOK,
       BatchTypeOK, InitLockInv, LoadedOnce, OwnResult, Outcome,
       CloseBatch, backendVars,
           threadVars
  <1> QED
    BY <1>1, <1>2, <1>3, <1>4 DEF IInv, TypeOK

LEMMA LockBatchStep ==
  ASSUME IInv, NEW k \in Kinds, LockBatch(k)
  PROVE  IInv'
  <1>1. PhaseTypeOK'
    BY DEF IInv, TypeOK, PhaseTypeOK, LockBatch, FreeFor
  <1>2. GpuLockInv'
    BY DEF IInv, TypeOK, GpuLockInv, PhaseTypeOK, LockBatch, FreeFor
  <1>3. BatchInv'
    BY DEF IInv, TypeOK, BatchInv, BatchTypeOK, PhaseTypeOK, QueueTypeOK,
       LockBatch, FreeFor
  <1>4. /\ BackendTypeOK'
         /\ HandlerTypeOK'
         /\ QueueTypeOK'
         /\ BatchTypeOK'
         /\ InitLockInv'
         /\ OwnResult'
    BY DEF IInv, TypeOK, BackendTypeOK, HandlerTypeOK, QueueTypeOK,
       BatchTypeOK, InitLockInv, LoadedOnce, OwnResult, Outcome, LockBatch,
       backendVars,
           threadVars
  <1> QED
    BY <1>1, <1>2, <1>3, <1>4 DEF IInv, TypeOK

LEMMA BatchSucceedsStep ==
  ASSUME IInv, NEW k \in Kinds, BatchSucceeds(k)
  PROVE  IInv'
  <1>1. BatchTypeOK'
    BY DEF IInv, TypeOK, BatchTypeOK, QueueTypeOK, PhaseTypeOK,
       BatchSucceeds, InBatch
  <1>2. PhaseTypeOK'
    BY DEF IInv, TypeOK, PhaseTypeOK, BatchSucceeds, InBatch
  <1>3. GpuLockInv'
    BY DEF IInv, TypeOK, GpuLockInv, PhaseTypeOK, BatchSucceeds, InBatch
  <1>4. BatchInv'
    BY DEF IInv, TypeOK, BatchInv, BatchTypeOK, PhaseTypeOK, QueueTypeOK,
       BatchSucceeds, InBatch
  <1>5. /\ BackendTypeOK'
         /\ HandlerTypeOK'
         /\ QueueTypeOK'
         /\ InitLockInv'
         /\ OwnResult'
    BY DEF IInv, TypeOK, BackendTypeOK, HandlerTypeOK, QueueTypeOK,
       InitLockInv, LoadedOnce, OwnResult, Outcome, BatchSucceeds,
       backendVars,
           threadVars
  <1> QED
    BY <1>1, <1>2, <1>3, <1>4, <1>5 DEF IInv, TypeOK

LEMMA BatchFailsStep ==
  ASSUME IInv, NEW k \in Kinds, BatchFails(k)
  PROVE  IInv'
  <1>1. BatchTypeOK'
    BY DEF IInv, TypeOK, BatchTypeOK, QueueTypeOK, PhaseTypeOK, BatchFails
  <1>2. PhaseTypeOK'
    BY DEF IInv, TypeOK, PhaseTypeOK, BatchFails
  <1>3. GpuLockInv'
    BY DEF IInv, TypeOK, GpuLockInv, PhaseTypeOK, BatchFails
  <1>4. BatchInv'
    BY DEF IInv, TypeOK, BatchInv, BatchTypeOK, PhaseTypeOK, QueueTypeOK,
       BatchFails
  <1>5. /\ BackendTypeOK'
         /\ HandlerTypeOK'
         /\ QueueTypeOK'
         /\ InitLockInv'
         /\ OwnResult'
    BY DEF IInv, TypeOK, BackendTypeOK, HandlerTypeOK, QueueTypeOK,
       InitLockInv, LoadedOnce, OwnResult, Outcome, BatchFails,
       backendVars,
           threadVars
  <1> QED
    BY <1>1, <1>2, <1>3, <1>4, <1>5 DEF IInv, TypeOK

\* The index moves on inside the batch, or the batch is put away.
LEMMA AdvanceTypes ==
  ASSUME BatchTypeOK, PhaseTypeOK, NEW k \in Kinds, NEW next,
         pos[k] <= Len(batch[k]), Advance(k, next)
  PROVE  BatchTypeOK'
  <1>1. CASE pos[k] < Len(batch[k])
    <2>1. pos[k] + 1 \in 1..MaxBatch
      BY <1>1 DEF BatchTypeOK
    <2> QED
      BY <1>1, <2>1 DEF BatchTypeOK, Advance
  <1>2. CASE ~(pos[k] < Len(batch[k]))
    <2>1. <<>> \in Seq(Requests) /\ Len(<<>>) = 0 /\ 1 \in 1..MaxBatch
      OBVIOUS
    <2>2. /\ batch' = [batch EXCEPT ![k] = <<>>]
          /\ outputs' = [outputs EXCEPT ![k] = <<>>]
          /\ pos' = [pos EXCEPT ![k] = 1]
      BY <1>2 DEF Advance
    <2>3. batch' \in [Kinds -> Seq(Requests)]
      BY <2>1, <2>2 DEF BatchTypeOK
    <2>4. outputs' \in [Kinds -> Seq(Requests)]
      BY <2>1, <2>2 DEF BatchTypeOK
    <2>5. \A j \in Kinds : Len(batch'[j]) <= MaxBatch
      BY <2>1, <2>2 DEF BatchTypeOK
    <2>6. pos' \in [Kinds -> 1..MaxBatch]
      BY <2>1, <2>2 DEF BatchTypeOK
    <2> QED
      BY <2>3, <2>4, <2>5, <2>6 DEF BatchTypeOK
  <1> QED
    BY <1>1, <1>2

\* pos stays a place of the batch, and the rows still to deliver stay good.
LEMMA AdvanceKeepsBatchInv ==
  ASSUME BatchInv, BatchTypeOK, PhaseTypeOK, NEW k \in Kinds,
         NEW next \in {"deliver", "retry"},
         phase[k] = "deliver" \/ next = "retry", Advance(k, next)
  PROVE  BatchInv'
  <1> SUFFICES ASSUME NEW j \in Kinds
               PROVE
        /\ phase'[j] # "idle" => pos'[j] <= Len(batch'[j])
        /\ phase'[j] \in {"idle", "collect", "closed", "processing"}
              => pos'[j] = 1
        /\ phase'[j] = "deliver" =>
              /\ outputs'[j] = batch'[j]
              /\ \A i \in 1..Len(batch'[j]) : batch'[j][i] \notin Bad
    BY DEF BatchInv
  <1>1. CASE j # k
    <2>1. /\ phase'[j] = phase[j] /\ pos'[j] = pos[j]
          /\ batch'[j] = batch[j] /\ outputs'[j] = outputs[j]
      BY <1>1 DEF Advance, BatchTypeOK, PhaseTypeOK
    <2> QED
      BY <2>1 DEF BatchInv
  <1>2. CASE j = k /\ pos[k] < Len(batch[k])
    BY <1>2 DEF Advance, BatchTypeOK, PhaseTypeOK, BatchInv
  <1>3. CASE j = k /\ ~(pos[k] < Len(batch[k]))
    BY <1>3 DEF Advance, BatchTypeOK, PhaseTypeOK
  <1> QED
    BY <1>1, <1>2, <1>3

LEMMA DeliverRowStep ==
  ASSUME IInv, NEW k \in Kinds, DeliverRow(k)
  PROVE  IInv'
  <1>1. /\ batch[k] \in Seq(Requests)
        /\ pos[k] \in 1..Len(batch[k])
        /\ batch[k][pos[k]] \in Requests
        /\ Row(k) = batch[k][pos[k]]
        /\ Row(k) = Outcome(batch[k][pos[k]])
    BY DEF IInv, TypeOK, BatchTypeOK, PhaseTypeOK, BatchInv, DeliverRow, Row,
           Outcome
  <1>2. HandlerTypeOK'
    BY <1>1 DEF IInv, TypeOK, HandlerTypeOK, Answers, DeliverRow
  <1>3. BatchTypeOK'
    BY <1>1, AdvanceTypes DEF IInv, TypeOK, DeliverRow
  <1>4. PhaseTypeOK'
    BY <1>1 DEF IInv, TypeOK, PhaseTypeOK, DeliverRow, Advance
  <1>5. GpuLockInv'
    BY <1>1 DEF IInv, TypeOK, GpuLockInv, PhaseTypeOK, DeliverRow, Advance
  <1>6. BatchInv'
    BY <1>1, AdvanceKeepsBatchInv DEF IInv, TypeOK, DeliverRow
  <1>7. OwnResult'
    BY <1>1 DEF IInv, TypeOK, OwnResult, Outcome, HandlerTypeOK, DeliverRow
  <1>8. /\ BackendTypeOK'
         /\ QueueTypeOK'
         /\ InitLockInv'
    BY DEF IInv, TypeOK, BackendTypeOK, QueueTypeOK, InitLockInv,
       LoadedOnce, DeliverRow, Advance, backendVars,
           threadVars
  <1> QED
    BY <1>2, <1>3, <1>4, <1>5, <1>6, <1>7, <1>8 DEF IInv, TypeOK

LEMMA LockRetryStep ==
  ASSUME IInv, NEW k \in Kinds, LockRetry(k)
  PROVE  IInv'
  <1>1. PhaseTypeOK'
    BY DEF IInv, TypeOK, PhaseTypeOK, LockRetry, FreeFor
  <1>2. GpuLockInv'
    BY DEF IInv, TypeOK, GpuLockInv, PhaseTypeOK, LockRetry, FreeFor
  <1>3. BatchInv'
    BY DEF IInv, TypeOK, BatchInv, BatchTypeOK, PhaseTypeOK, QueueTypeOK,
       LockRetry, FreeFor
  <1>4. /\ BackendTypeOK'
         /\ HandlerTypeOK'
         /\ QueueTypeOK'
         /\ BatchTypeOK'
         /\ InitLockInv'
         /\ OwnResult'
    BY DEF IInv, TypeOK, BackendTypeOK, HandlerTypeOK, QueueTypeOK,
       BatchTypeOK, InitLockInv, LoadedOnce, OwnResult, Outcome, LockRetry,
       backendVars,
           threadVars
  <1> QED
    BY <1>1, <1>2, <1>3, <1>4 DEF IInv, TypeOK

LEMMA RetryOneStep ==
  ASSUME IInv, NEW k \in Kinds, RetryOne(k)
  PROVE  IInv'
  <1>1. /\ batch[k] \in Seq(Requests)
        /\ pos[k] \in 1..Len(batch[k])
        /\ batch[k][pos[k]] \in Requests
    BY DEF IInv, TypeOK, BatchTypeOK, PhaseTypeOK, BatchInv, RetryOne
  <1>2. HandlerTypeOK'
    BY <1>1 DEF IInv, TypeOK, HandlerTypeOK, Answers, RetryOne, Outcome
  <1>3. BatchTypeOK'
    BY <1>1, AdvanceTypes DEF IInv, TypeOK, RetryOne
  <1>4. PhaseTypeOK'
    BY <1>1 DEF IInv, TypeOK, PhaseTypeOK, RetryOne, Advance
  <1>5. GpuLockInv'
    BY <1>1 DEF IInv, TypeOK, GpuLockInv, PhaseTypeOK, RetryOne, Advance
  <1>6. BatchInv'
    BY <1>1, AdvanceKeepsBatchInv DEF IInv, TypeOK, RetryOne
  <1>7. OwnResult'
    BY <1>1 DEF IInv, TypeOK, OwnResult, Outcome, HandlerTypeOK, RetryOne
  <1>8. /\ BackendTypeOK'
         /\ QueueTypeOK'
         /\ InitLockInv'
    BY DEF IInv, TypeOK, BackendTypeOK, QueueTypeOK, InitLockInv,
       LoadedOnce, RetryOne, Advance, backendVars,
           threadVars
  <1> QED
    BY <1>2, <1>3, <1>4, <1>5, <1>6, <1>7, <1>8 DEF IInv, TypeOK

LEMMA StutterStep == IInv /\ UNCHANGED vars => IInv'
  BY DEF IInv, TypeOK, BackendTypeOK, HandlerTypeOK, Answers, QueueTypeOK,
         BatchTypeOK, PhaseTypeOK, InitLockInv, LoadedOnce, GpuLockInv,
         BatchInv, OwnResult, Outcome, vars

LEMMA NextIInv == IInv /\ [Next]_vars => IInv'
  <1> SUFFICES ASSUME IInv, [Next]_vars PROVE IInv'
    OBVIOUS
  <1>1. ASSUME NEW r \in Requests, Handler(r) PROVE IInv'
    BY <1>1, RejectStep, CheckEmbedderStep, LockEmbedderStep,
       LoadEmbedderStep, LoadFailsStep, BuildBatcherStep, EnqueueStep,
       CallDirectlyStep, DirectReturnsStep, ResumeStep DEF Handler
  <1>2. ASSUME NEW k \in Kinds, Daemon(k) PROVE IInv'
    BY <1>2, TakeFirstStep, TakeMoreStep, CloseBatchStep, LockBatchStep,
       BatchSucceedsStep, BatchFailsStep, DeliverRowStep, LockRetryStep,
       RetryOneStep DEF Daemon
  <1> QED
    BY <1>1, <1>2, StutterStep DEF Next

THEOREM Invariance == Spec => []IInv
  BY InitIInv, NextIInv, PTL DEF Spec

\* Every variable keeps its type, whatever the requests and the batch size.
THEOREM TypeCorrect == Spec => []TypeOK
  <1>1. IInv => TypeOK
    BY DEF IInv
  <1> QED
    BY <1>1, Invariance, PTL

\* A caller only ever gets the outcome of its own input (embed_video and
\* embed_text return what their Future holds): a bad input or a batch that
\* fails never spoils the answers of the others.
THEOREM OwnResultAlways == Spec => []OwnResult
  <1>1. IInv => OwnResult
    BY DEF IInv
  <1> QED
    BY <1>1, Invariance, PTL

\* However many handlers race through _get_embedder, the model is loaded at
\* most once, and the micro-batcher never exists without it.
THEOREM LoadedOnceAlways == Spec => []LoadedOnce
  <1>1. IInv => LoadedOnce
    BY DEF IInv, InitLockInv
  <1> QED
    BY <1>1, Invariance, PTL

\* The two daemon threads never run the model at the same time.
THEOREM BatchersExclusiveAlways == Spec => []BatchersExclusive
  <1>1. IInv => BatchersExclusive
    <2> SUFFICES ASSUME IInv,
                        \A k \in Kinds : phase[k] \in {"processing", "retrying"}
                 PROVE  FALSE
      BY DEF BatchersExclusive
    <2>1. gpuLock = "video" /\ gpuLock = "text"
      BY DEF IInv, GpuLockInv, Kinds
    <2> QED
      BY <2>1
  <1> QED
    BY <1>1, Invariance, PTL


\* However many handlers there are and whatever batch_max_size is, one model
\* is loaded, one batch is at it, and the batch keeps to its limit.
THEOREM ModelSparedAlways == Spec => []ModelSpared
  <1>1. TypeOK /\ LoadedOnce /\ BatchersExclusive => ModelSpared
    BY DEF TypeOK, BatchTypeOK, ModelSpared
  <1> QED
    BY <1>1, TypeCorrect, LoadedOnceAlways, BatchersExclusiveAlways, PTL

-----------------------------------------------------------------------------
(***************************************************************************)
(* The backend implements EmbedService, and loses no request.  Seen        *)
(* through Pending, a step answers somebody, lets a request join a line or *)
(* be served alone, or is hidden.                                          *)
(***************************************************************************)

\* What a handler has done about its request.
CallerInv ==
    \A r \in Requests :
        /\ pc[r] \notin {"waiting", "done"} => answer[r] = NoAnswer
        /\ pc[r] \notin {"start", "done"} => r \notin Invalid

IdleInv == \A k \in Kinds : phase[k] = "idle" => batch[k] = <<>>

ServedCount(k) == Len(arrived[k]) - Len(Pending(k))

\* The pending requests are the latest arrivals, and those before are answered.
QueueInv(k) ==
    /\ Len(Pending(k)) <= Len(arrived[k])
    /\ \A i \in 1..Len(Pending(k)) : Pending(k)[i] = arrived[k][ServedCount(k) + i]
    /\ \A i \in 1..Len(arrived[k]) :
          /\ arrived[k][i] \in Batched(k)
          /\ pc[arrived[k][i]] \in {"waiting", "done"}
          /\ pc[arrived[k][i]] = "done" => answer[arrived[k][i]] # NoAnswer
          /\ answer[arrived[k][i]] # NoAnswer <=> i <= ServedCount(k)
    /\ \A i, j \in 1..Len(arrived[k]) : arrived[k][i] = arrived[k][j] => i = j

ServiceInv == IInv /\ CallerInv /\ IdleInv /\ \A k \in Kinds : QueueInv(k)

-----------------------------------------------------------------------------
\* Facts about sequences.

LEMMA HeadTailOfCons ==
    ASSUME NEW S, NEW e \in S, NEW s \in Seq(S)
    PROVE  /\ <<e>> \o s # <<>>
           /\ Head(<<e>> \o s) = e
           /\ Tail(<<e>> \o s) = s
  <1> DEFINE t == <<e>> \o s
  <1>1. /\ t \in Seq(S) /\ Len(t) = 1 + Len(s)
        /\ \A i \in 1..(1 + Len(s)) : t[i] = IF i <= 1 THEN e ELSE s[i - 1]
    <2>1. <<e>> \in Seq(S) /\ Len(<<e>>) = 1 /\ <<e>>[1] = e
      OBVIOUS
    <2> QED
      BY <2>1, ConcatProperties, LenProperties
  <1> HIDE DEF t
  <1>2. Len(s) \in Nat
    BY LenProperties
  <1>3. t # <<>>
    BY <1>1, <1>2, EmptySeq
  <1>4. Head(t) = e
    BY <1>1, <1>2, <1>3
  <1>5. Tail(t) = s
    <2>1. /\ Tail(t) \in Seq(S) /\ Len(Tail(t)) = Len(s)
          /\ \A i \in 1..Len(s) : Tail(t)[i] = s[i]
      BY <1>1, <1>2, <1>3, HeadTailProperties
    <2> QED
      BY <2>1, SeqEqual
  <1> QED
    BY <1>3, <1>4, <1>5 DEF t

LEMMA ConsHeadTail ==
    ASSUME NEW S, NEW s \in Seq(S), s # <<>>
    PROVE  <<Head(s)>> \o Tail(s) = s
  <1>1. /\ Head(s) \in S /\ Tail(s) \in Seq(S) /\ Len(Tail(s)) = Len(s) - 1
        /\ \A i \in 1..Len(Tail(s)) : Tail(s)[i] = s[i + 1]
    BY HeadTailProperties
  <1>2. Len(s) \in Nat /\ Len(s) >= 1 /\ Head(s) = s[1]
    BY EmptySeq, LenProperties
  <1>3. <<Head(s)>> \in Seq(S) /\ Len(<<Head(s)>>) = 1 /\ <<Head(s)>>[1] = Head(s)
    BY <1>1
  <1>4. /\ <<Head(s)>> \o Tail(s) \in Seq(S) /\ Len(<<Head(s)>> \o Tail(s)) = Len(s)
        /\ \A i \in 1..Len(s) : (<<Head(s)>> \o Tail(s))[i] =
              IF i <= 1 THEN <<Head(s)>>[i] ELSE Tail(s)[i - 1]
    BY <1>1, <1>2, <1>3, ConcatProperties
  <1>5. \A i \in 1..Len(s) : (<<Head(s)>> \o Tail(s))[i] = s[i]
    BY <1>1, <1>2, <1>3, <1>4
  <1> QED
    BY <1>4, <1>5, SeqEqual

\* The first of a queue becomes the last of a batch.
LEMMA MoveOver ==
    ASSUME NEW S, NEW b \in Seq(S), NEW q \in Seq(S), q # <<>>
    PROVE  Append(b, Head(q)) \o Tail(q) = b \o q
  <1>1. Head(q) \in S /\ Tail(q) \in Seq(S)
    BY HeadTailProperties
  <1>2. Append(b, Head(q)) = b \o <<Head(q)>>
    BY <1>1, AppendIsConcat
  <1>3. <<Head(q)>> \in Seq(S)
    BY <1>1
  <1>4. (b \o <<Head(q)>>) \o Tail(q) = b \o (<<Head(q)>> \o Tail(q))
    BY <1>1, <1>3, ConcatAssociative
  <1> QED
    BY <1>2, <1>4, ConsHeadTail

LEMMA AppendBehind ==
    ASSUME NEW S, NEW b \in Seq(S), NEW q \in Seq(S), NEW e \in S
    PROVE  b \o Append(q, e) = Append(b \o q, e)
  <1>1. <<e>> \in Seq(S) /\ b \o q \in Seq(S)
    BY ConcatProperties
  <1>2. Append(q, e) = q \o <<e>> /\ Append(b \o q, e) = (b \o q) \o <<e>>
    BY <1>1, AppendIsConcat
  <1>3. (b \o q) \o <<e>> = b \o (q \o <<e>>)
    BY <1>1, ConcatAssociative
  <1> QED
    BY <1>2, <1>3

\* What is left of a batch, before a queue, loses its first.
LEMMA DropFirst ==
    ASSUME NEW S, NEW b \in Seq(S), NEW q \in Seq(S), NEW p \in 1..Len(b)
    PROVE  /\ SubSeq(b, p, Len(b)) \o q # <<>>
           /\ Head(SubSeq(b, p, Len(b)) \o q) = b[p]
           /\ Tail(SubSeq(b, p, Len(b)) \o q) = SubSeq(b, p + 1, Len(b)) \o q
  <1> DEFINE rest == SubSeq(b, p + 1, Len(b))
  <1>1. Len(b) \in Nat /\ b[p] \in S /\ \A i \in (p + 1)..Len(b) : b[i] \in S
    BY LenProperties, ElementOfSeq
  <1>2. SubSeq(b, p, Len(b)) = <<b[p]>> \o rest
    BY <1>1, SubSeqRecursiveFirst
  <1>3. rest \in Seq(S)
    BY <1>1, SubSeqProperties
  <1>4. <<b[p]>> \in Seq(S) /\ rest \o q \in Seq(S)
    BY <1>1, <1>3, ConcatProperties
  <1> HIDE DEF rest
  <1>5. (<<b[p]>> \o rest) \o q = <<b[p]>> \o (rest \o q)
    BY <1>3, <1>4, ConcatAssociative
  <1>6. /\ <<b[p]>> \o (rest \o q) # <<>>
        /\ Head(<<b[p]>> \o (rest \o q)) = b[p]
        /\ Tail(<<b[p]>> \o (rest \o q)) = rest \o q
    BY <1>1, <1>4, HeadTailOfCons
  <1> QED
    BY <1>2, <1>5, <1>6 DEF rest

-----------------------------------------------------------------------------
\* Pending.

LEMMA PendingType ==
    ASSUME IInv, NEW k \in Kinds
    PROVE  /\ Pending(k) \in Seq(Requests) /\ Len(Pending(k)) \in Nat
           /\ arrived[k] \in Seq(Requests) /\ Len(arrived[k]) \in Nat
           /\ batch[k] \in Seq(Requests) /\ queue[k] \in Seq(Requests) /\ pos[k] \in Nat
           /\ pos[k] = 1 => Pending(k) = batch[k] \o queue[k]
  <1>1. /\ batch[k] \in Seq(Requests) /\ queue[k] \in Seq(Requests)
        /\ arrived[k] \in Seq(Requests) /\ pos[k] \in 1..MaxBatch
    BY DEF IInv, TypeOK, QueueTypeOK, BatchTypeOK
  <1>2. Len(batch[k]) \in Nat /\ \A i \in pos[k]..Len(batch[k]) : batch[k][i] \in Requests
    BY <1>1, LenProperties, ElementOfSeq
  <1>3. SubSeq(batch[k], pos[k], Len(batch[k])) \in Seq(Requests)
    BY <1>1, <1>2, SubSeqProperties
  <1>4. Pending(k) \in Seq(Requests)
    BY <1>1, <1>3, ConcatProperties DEF Pending
  <1>5. pos[k] = 1 => Pending(k) = batch[k] \o queue[k]
    <2>1. SubSeq(batch[k], 1, Len(batch[k])) = batch[k]
      BY <1>1, SubSeqFull
    <2> QED
      BY <2>1 DEF Pending
  <1>6. Len(Pending(k)) \in Nat /\ Len(arrived[k]) \in Nat
    BY <1>1, <1>4, LenProperties
  <1>7. pos[k] \in Nat
    BY <1>1
  <1> QED
    BY <1>1, <1>4, <1>5, <1>6, <1>7, Zenon

\* A step of a daemon that answers nobody does not touch the line of any kind.
HiddenStep(k) ==
    \/ TakeFirst(k) \/ TakeMore(k) \/ CloseBatch(k)
    \/ LockBatch(k) \/ BatchSucceeds(k) \/ BatchFails(k) \/ LockRetry(k)

LEMMA OtherLine ==
    ASSUME IInv, NEW k \in Kinds, Daemon(k), NEW j \in Kinds \ {k}
    PROVE  /\ Pending(j)' = Pending(j) /\ phase'[j] = phase[j] /\ batch'[j] = batch[j]
  BY DEF Daemon, Advance, TakeFirst, TakeMore, CloseBatch, LockBatch, BatchSucceeds,
         BatchFails, DeliverRow, LockRetry, RetryOne, Pending, IInv, TypeOK, QueueTypeOK,
         BatchTypeOK, PhaseTypeOK

LEMMA HiddenLine ==
    ASSUME IInv, IdleInv, NEW k \in Kinds, HiddenStep(k)
    PROVE  /\ \A j \in Kinds : Pending(j)' = Pending(j)
           /\ IdleInv'
           /\ UNCHANGED <<pc, answer, arrived>>
  <1>1. IInv'
    BY TakeFirstStep, TakeMoreStep, CloseBatchStep, LockBatchStep, BatchSucceedsStep,
       BatchFailsStep, LockRetryStep DEF HiddenStep
  <1>2. Daemon(k)
    BY DEF HiddenStep, Daemon
  <1>3. UNCHANGED <<pc, answer, arrived>>
    BY DEF HiddenStep, TakeFirst, TakeMore, CloseBatch, LockBatch, BatchSucceeds, BatchFails,
           LockRetry, backendVars
  <1>4. batch'[k] \in Seq(Requests)
    BY <1>1 DEF IInv, TypeOK, BatchTypeOK
  <1>5. Pending(k)' = Pending(k) /\ (phase'[k] = "idle" => batch'[k] = <<>>)
    <2>1. CASE TakeFirst(k)
      <3>1. /\ phase[k] = "idle" /\ queue[k] # <<>> /\ pos'[k] = pos[k] /\ phase'[k] = "collect"
            /\ batch'[k] = <<Head(queue[k])>> /\ queue'[k] = Tail(queue[k])
        BY <2>1 DEF TakeFirst, IInv, TypeOK, BatchTypeOK, QueueTypeOK, PhaseTypeOK
      <3>2. batch[k] = <<>> /\ pos[k] = 1
        BY <3>1 DEF IdleInv, IInv, BatchInv
      <3>3. Pending(k)' = <<Head(queue[k])>> \o Tail(queue[k])
        <4>1. SubSeq(batch'[k], 1, Len(batch'[k])) = batch'[k]
          BY <1>4, SubSeqFull
        <4> QED
          BY <3>1, <3>2, <4>1 DEF Pending
      <3>4. Pending(k) = queue[k]
        BY <3>2, PendingType, ConcatEmptySeq
      <3> QED
        BY <3>1, <3>3, <3>4, PendingType, ConsHeadTail
    <2>2. CASE TakeMore(k)
      <3>1. /\ phase[k] = "collect" /\ queue[k] # <<>> /\ pos'[k] = pos[k] /\ phase'[k] = "collect"
            /\ batch'[k] = Append(batch[k], Head(queue[k])) /\ queue'[k] = Tail(queue[k])
        BY <2>2 DEF TakeMore, IInv, TypeOK, BatchTypeOK, QueueTypeOK, PhaseTypeOK
      <3>2. pos[k] = 1
        BY <3>1 DEF IInv, BatchInv
      <3>3. Pending(k)' = Append(batch[k], Head(queue[k])) \o Tail(queue[k])
        <4>1. SubSeq(batch'[k], 1, Len(batch'[k])) = batch'[k]
          BY <1>4, SubSeqFull
        <4> QED
          BY <3>1, <3>2, <4>1 DEF Pending
      <3>4. Pending(k) = batch[k] \o queue[k]
        BY <3>2, PendingType
      <3>5. Append(batch[k], Head(queue[k])) \o Tail(queue[k]) = batch[k] \o queue[k]
        BY <3>1, PendingType, MoveOver
      <3> QED
        BY <3>1, <3>3, <3>4, <3>5
    <2>3. CASE CloseBatch(k) \/ LockBatch(k) \/ LockRetry(k)
      BY <2>3 DEF CloseBatch, LockBatch, LockRetry, Pending, IInv, TypeOK, PhaseTypeOK
    <2>4. CASE BatchSucceeds(k) \/ BatchFails(k)
      <3>1. pos'[k] = pos[k]
        BY <2>4 DEF BatchSucceeds, BatchFails, IInv, TypeOK, BatchTypeOK, BatchInv
      <3> QED
        BY <2>4, <3>1 DEF BatchSucceeds, BatchFails, Pending, IInv, TypeOK, PhaseTypeOK
    <2> QED
      BY <2>1, <2>2, <2>3, <2>4 DEF HiddenStep
  <1>6. IdleInv'
    BY <1>2, <1>5, OtherLine DEF IdleInv
  <1> QED
    BY <1>2, <1>3, <1>5, <1>6, OtherLine

\* A daemon that answers somebody answers the first of its line.
LEMMA ServedLine ==
    ASSUME IInv, IdleInv, NEW k \in Kinds, DeliverRow(k) \/ RetryOne(k)
    PROVE  /\ Pending(k) # <<>> /\ Pending(k)' = Tail(Pending(k))
           /\ answer' = [answer EXCEPT ![Head(Pending(k))] = Outcome(Head(Pending(k)))]
           /\ \A j \in Kinds \ {k} : Pending(j)' = Pending(j)
           /\ IdleInv'
           /\ UNCHANGED <<pc, arrived>>
  <1> DEFINE next == IF phase[k] = "deliver" THEN "deliver" ELSE "retry"
  <1>1. /\ phase[k] \in {"deliver", "retrying"} /\ Advance(k, next)
        /\ UNCHANGED <<pc, queue, arrived>>
    BY DEF DeliverRow, RetryOne, backendVars
  <1>2. /\ batch[k] \in Seq(Requests) /\ queue[k] \in Seq(Requests)
        /\ Len(batch[k]) \in Nat /\ pos[k] \in 1..Len(batch[k])
    BY <1>1, PendingType, LenProperties DEF IInv, TypeOK, BatchTypeOK, BatchInv
  <1>3. /\ Pending(k) # <<>> /\ Head(Pending(k)) = batch[k][pos[k]]
        /\ Tail(Pending(k)) = SubSeq(batch[k], pos[k] + 1, Len(batch[k])) \o queue[k]
    <2>1. Pending(k) = SubSeq(batch[k], pos[k], Len(batch[k])) \o queue[k]
      BY DEF Pending
    <2>2. /\ SubSeq(batch[k], pos[k], Len(batch[k])) \o queue[k] # <<>>
          /\ Head(SubSeq(batch[k], pos[k], Len(batch[k])) \o queue[k]) = batch[k][pos[k]]
          /\ Tail(SubSeq(batch[k], pos[k], Len(batch[k])) \o queue[k])
                = SubSeq(batch[k], pos[k] + 1, Len(batch[k])) \o queue[k]
      BY <1>2, DropFirst, ZenonT(60)
    <2> QED
      BY <2>1, <2>2, Zenon
  <1>4. answer' = [answer EXCEPT ![batch[k][pos[k]]] = Outcome(batch[k][pos[k]])]
    <2>1. CASE RetryOne(k)
      BY <2>1 DEF RetryOne
    <2>2. CASE DeliverRow(k)
      <3>1. Row(k) = Outcome(batch[k][pos[k]])
        BY <1>2, <2>2 DEF DeliverRow, Row, Outcome, IInv, BatchInv
      <3> QED
        BY <2>2, <3>1 DEF DeliverRow
    <2> QED
      BY <2>1, <2>2
  <1>5. /\ Pending(k)' = SubSeq(batch[k], pos[k] + 1, Len(batch[k])) \o queue[k]
        /\ phase'[k] = "idle" => batch'[k] = <<>>
    <2>1. CASE pos[k] < Len(batch[k])
      <3>1. /\ pos'[k] = pos[k] + 1 /\ batch' = batch /\ phase'[k] = next
        BY <1>1, <2>1 DEF Advance, IInv, TypeOK, BatchTypeOK, PhaseTypeOK
      <3> QED
        BY <1>1, <3>1 DEF Pending
    <2>2. CASE ~(pos[k] < Len(batch[k]))
      <3>1. pos'[k] = 1 /\ batch'[k] = <<>> /\ phase'[k] = "idle"
        BY <1>1, <2>2 DEF Advance, IInv, TypeOK, BatchTypeOK, PhaseTypeOK
      <3>2. SubSeq(batch[k], pos[k] + 1, Len(batch[k])) = <<>>
        BY <1>2, <2>2, SubSeqEmpty
      <3>3. Pending(k)' = SubSeq(<<>>, 1, 0) \o queue[k]
        BY <1>1, <3>1 DEF Pending
      <3>4. SubSeq(<<>>, 1, 0) = <<>>
        BY SubSeqEmpty
      <3> QED
        BY <3>1, <3>2, <3>3, <3>4
    <2> QED
      BY <2>1, <2>2
  <1>6. Daemon(k)
    BY DEF Daemon
  <1> HIDE DEF next
  <1>7. \A j \in Kinds \ {k} :
           /\ Pending(j)' = Pending(j) /\ phase'[j] = phase[j] /\ batch'[j] = batch[j]
    BY <1>6, OtherLine
  <1>8. IdleInv'
    BY <1>5, <1>7 DEF IdleInv
  <1> QED
    BY <1>1, <1>3, <1>4, <1>5, <1>7, <1>8

-----------------------------------------------------------------------------
\* The lines and what has arrived.

LEMMA InLineFacts ==
    ASSUME ServiceInv, NEW k \in Kinds, NEW i \in 1..Len(Pending(k))
    PROVE  /\ Pending(k)[i] \in Batched(k) /\ Pending(k)[i] \in Requests
           /\ pc[Pending(k)[i]] = "waiting" /\ answer[Pending(k)[i]] = NoAnswer
  <1>1. Len(Pending(k)) \in Nat /\ Len(arrived[k]) \in Nat
    BY PendingType DEF ServiceInv
  <1>2. QueueInv(k)
    BY DEF ServiceInv
  <1>3. /\ ServedCount(k) + i \in 1..Len(arrived[k]) /\ ~(ServedCount(k) + i <= ServedCount(k))
        /\ Pending(k)[i] = arrived[k][ServedCount(k) + i]
    BY <1>1, <1>2 DEF QueueInv, ServedCount
  <1> QED
    BY <1>2, <1>3 DEF QueueInv, Batched, Requests

\* A line that stays as it is.
LEMMA LineKept ==
    ASSUME NEW k \in Kinds, QueueInv(k), Pending(k)' = Pending(k), arrived'[k] = arrived[k],
           \A i \in 1..Len(arrived[k]) :
              /\ pc'[arrived[k][i]] \in {"waiting", "done"}
              /\ pc'[arrived[k][i]] = "done" => answer'[arrived[k][i]] # NoAnswer
              /\ answer'[arrived[k][i]] # NoAnswer <=> answer[arrived[k][i]] # NoAnswer
    PROVE  QueueInv(k)'
  <1>1. ServedCount(k)' = ServedCount(k)
    BY DEF ServedCount
  <1> QED
    BY <1>1 DEF QueueInv

\* A line that somebody joins.
LEMMA LineJoined ==
    ASSUME ServiceInv, NEW k \in Kinds, NEW r \in Batched(k), pc[r] = "ready",
           Pending(k)' = Append(Pending(k), r), arrived'[k] = Append(arrived[k], r),
           pc' = [pc EXCEPT ![r] = "waiting"], answer' = answer
    PROVE  QueueInv(k)'
  <1> DEFINE n == Len(arrived[k])
             m == Len(Pending(k))
             a == arrived'[k]
             p == Pending(k)'
  <1>1. QueueInv(k) /\ r \in Requests /\ answer[r] = NoAnswer /\ HandlerTypeOK
    <2>1. r \in Requests
      BY DEF Batched, Requests
    <2> QED
      BY <2>1 DEF ServiceInv, CallerInv, IInv, TypeOK
  <1>2. /\ n \in Nat /\ m \in Nat /\ arrived[k] \in Seq(Requests) /\ Pending(k) \in Seq(Requests)
    BY PendingType DEF ServiceInv
  <1>3. Len(a) = n + 1 /\ a[n + 1] = r /\ \A i \in 1..n : a[i] = arrived[k][i]
    BY <1>1, <1>2, AppendProperties
  <1>4. Len(p) = m + 1 /\ p[m + 1] = r /\ \A i \in 1..m : p[i] = Pending(k)[i]
    BY <1>1, <1>2, AppendProperties
  <1>5. ServedCount(k) = n - m /\ ServedCount(k)' = n - m /\ m <= n
    BY <1>1, <1>2, <1>3, <1>4 DEF ServedCount, QueueInv
  <1>6. \A i \in 1..n : arrived[k][i] # r /\ arrived[k][i] \in Requests
    BY <1>1, <1>2, ElementOfSeq DEF QueueInv
  <1>7. \A i \in 1..m : Pending(k)[i] = arrived[k][(n - m) + i]
    BY <1>1, <1>5 DEF QueueInv
  <1> HIDE DEF a, p, m, n
  <1>8. \A i \in 1..(m + 1) : p[i] = a[(n - m) + i]
    <2> SUFFICES ASSUME NEW i \in 1..(m + 1) PROVE p[i] = a[(n - m) + i]
      OBVIOUS
    <2>1. CASE i = m + 1
      BY <1>2, <1>3, <1>4, <2>1
    <2>2. CASE i \in 1..m
      <3>1. (n - m) + i \in 1..n
        BY <1>2, <1>5, <2>2
      <3> QED
        BY <1>3, <1>4, <1>7, <2>2, <3>1
    <2> QED
      BY <1>2, <2>1, <2>2
  <1>9. ASSUME NEW i \in 1..(n + 1)
        PROVE  /\ a[i] \in Batched(k) /\ pc'[a[i]] \in {"waiting", "done"}
               /\ pc'[a[i]] = "done" => answer'[a[i]] # NoAnswer
               /\ answer'[a[i]] # NoAnswer <=> i <= n - m
    <2>1. CASE i = n + 1
      BY <1>1, <1>2, <1>3, <1>5, <2>1 DEF HandlerTypeOK
    <2>2. CASE i \in 1..n
      BY <1>1, <1>3, <1>5, <1>6, <2>2 DEF QueueInv, HandlerTypeOK, n
    <2> QED
      BY <1>2, <2>1, <2>2
  <1>10. ASSUME NEW i \in 1..(n + 1), NEW j \in 1..(n + 1), a[i] = a[j] PROVE i = j
    <2>1. \A l \in 1..(n + 1) : l \in 1..n \/ l = n + 1
      BY <1>2
    <2> QED
      BY <1>1, <1>3, <1>6, <1>10, <2>1 DEF QueueInv, n
  <1>11. Len(p) <= Len(a)
    BY <1>2, <1>3, <1>4, <1>5
  <1>12. /\ Len(p) <= Len(a)
         /\ \A i \in 1..Len(p) : p[i] = a[ServedCount(k)' + i]
         /\ \A i \in 1..Len(a) :
                /\ a[i] \in Batched(k) /\ pc'[a[i]] \in {"waiting", "done"}
                /\ pc'[a[i]] = "done" => answer'[a[i]] # NoAnswer
                /\ answer'[a[i]] # NoAnswer <=> i <= ServedCount(k)'
         /\ \A i, j \in 1..Len(a) : a[i] = a[j] => i = j
    BY <1>3, <1>4, <1>5, <1>8, <1>9, <1>10, <1>11
  <1> QED
    BY <1>12 DEF QueueInv, a, p, Batched

\* A line whose first is answered.
LEMMA LineServed ==
    ASSUME ServiceInv, NEW k \in Kinds, Pending(k) # <<>>, Pending(k)' = Tail(Pending(k)),
           NEW told, told # NoAnswer,
           answer' = [answer EXCEPT ![Head(Pending(k))] = told],
           UNCHANGED <<pc, arrived>>
    PROVE  QueueInv(k)'
  <1> DEFINE n == Len(arrived[k])
             m == Len(Pending(k))
             p == Pending(k)'
             r == Head(Pending(k))
  <1>1. QueueInv(k) /\ answer \in [Requests -> Answers \cup {NoAnswer}]
    BY DEF ServiceInv, IInv, TypeOK, HandlerTypeOK
  <1>2. /\ n \in Nat /\ m \in Nat /\ arrived[k] \in Seq(Requests) /\ Pending(k) \in Seq(Requests)
    BY PendingType DEF ServiceInv
  <1>3. m >= 1
    BY <1>2, EmptySeq
  <1>4. r = Pending(k)[1] /\ Len(p) = m - 1 /\ \A i \in 1..(m - 1) : p[i] = Pending(k)[i + 1]
    BY <1>2, <1>3, HeadTailProperties
  <1>5. ServedCount(k) = n - m /\ ServedCount(k)' = n - m + 1 /\ m <= n
    BY <1>1, <1>2, <1>3, <1>4 DEF ServedCount, QueueInv
  <1>6. \A i \in 1..m : Pending(k)[i] = arrived[k][(n - m) + i]
    BY <1>1, <1>5 DEF QueueInv
  <1>7. \A i \in 1..n : arrived[k][i] \in Requests
    BY <1>2, ElementOfSeq
  <1> HIDE DEF n, m, p, r
  <1>8. r = arrived[k][n - m + 1] /\ n - m + 1 \in 1..n
    <2>1. 1 \in 1..m /\ n - m + 1 \in 1..n
      BY <1>2, <1>3, <1>5
    <2> QED
      BY <1>4, <1>6, <2>1
  <1>9. \A i \in 1..(m - 1) : p[i] = arrived[k][(n - m + 1) + i]
    <2> SUFFICES ASSUME NEW i \in 1..(m - 1) PROVE p[i] = arrived[k][(n - m + 1) + i]
      OBVIOUS
    <2>1. i + 1 \in 1..m /\ (n - m) + (i + 1) = (n - m + 1) + i
      BY <1>2
    <2>2. Pending(k)[i + 1] = arrived[k][(n - m) + (i + 1)]
      BY <1>6, <2>1
    <2> QED
      BY <1>4, <2>1, <2>2
  <1>10. \A i \in 1..n : arrived[k][i] = r <=> i = n - m + 1
    BY <1>1, <1>8 DEF QueueInv, n
  <1>11. ASSUME NEW i \in 1..n
         PROVE  /\ answer'[arrived[k][i]] # NoAnswer <=> i <= n - m + 1
                /\ answer[arrived[k][i]] # NoAnswer => answer'[arrived[k][i]] # NoAnswer
    <2>1. answer' = [answer EXCEPT ![r] = told]
      BY DEF r
    <2>2. answer[arrived[k][i]] # NoAnswer <=> i <= n - m
      BY <1>1, <1>5 DEF QueueInv, n
    <2>3. CASE i = n - m + 1
      BY <1>1, <1>2, <1>7, <1>10, <2>1, <2>3
    <2>4. CASE i # n - m + 1
      <3>1. answer'[arrived[k][i]] = answer[arrived[k][i]]
        BY <1>1, <1>7, <1>10, <2>1, <2>4
      <3> QED
        BY <1>2, <2>2, <2>4, <3>1
    <2> QED
      BY <2>3, <2>4
  <1>12. /\ Len(p) <= n
         /\ \A i \in 1..Len(p) : p[i] = arrived[k][ServedCount(k)' + i]
         /\ \A i \in 1..n : answer'[arrived[k][i]] # NoAnswer <=> i <= ServedCount(k)'
    BY <1>2, <1>4, <1>5, <1>9, <1>11
  <1> QED
    BY <1>1, <1>11, <1>12 DEF QueueInv, n, p

-----------------------------------------------------------------------------
\* The steps: each keeps ServiceInv and is one of the service, or none.

LinesKept == CallerInv' /\ IdleInv' /\ \A k \in Kinds : QueueInv(k)'

LEMMA InitService == Init => ServiceInv /\ Service!Init
  <1> SUFFICES ASSUME Init PROVE ServiceInv /\ Service!Init
    OBVIOUS
  <1>1. IInv
    BY InitIInv
  <1>2. \A k \in Kinds : Pending(k) = <<>>
    <2> SUFFICES ASSUME NEW k \in Kinds PROVE Pending(k) = <<>>
      OBVIOUS
    <2>1. batch[k] = <<>> /\ queue[k] = <<>> /\ pos[k] = 1
      BY DEF Init
    <2> QED
      BY <1>1, <2>1, PendingType, ConcatEmptySeq
  <1>3. CallerInv /\ IdleInv
    BY DEF Init, CallerInv, IdleInv
  <1>4. \A k \in Kinds : QueueInv(k)
    BY <1>2 DEF Init, QueueInv
  <1>5. Service!Init
    BY <1>2 DEF Init, Service!Init, Service!Requests, Service!Kinds, Requests, Kinds
  <1> QED
    BY <1>1, <1>3, <1>4, <1>5 DEF ServiceInv

LEMMA ServiceStutters ==
    ASSUME answer' = answer, \A k \in Kinds : Pending(k)' = Pending(k),
           \A r \in Requests : pc'[r] = "direct" <=> pc[r] = "direct"
    PROVE  UNCHANGED Service!serviceVars
  BY DEF Service!serviceVars

\* Who is neither in a line nor served alone is outside the service.
LEMMA NotInLine ==
    ASSUME ServiceInv, NEW r \in Requests, pc[r] \notin {"waiting", "done", "direct"}
    PROVE  Service!Outside(r)
  <1>1. answer[r] = NoAnswer
    BY DEF ServiceInv, CallerInv
  <1>2. ASSUME NEW k \in Kinds, NEW i \in DOMAIN Pending(k) PROVE Pending(k)[i] # r
    <2>1. i \in 1..Len(Pending(k))
      BY <1>2, PendingType, LenProperties DEF ServiceInv
    <2> QED
      BY <2>1, InLineFacts
  <1> QED
    BY <1>1, <1>2 DEF Service!Outside, Service!InLine, Service!Kinds, Kinds

\* Nothing of a line changes when a handler that is in no line moves.
LEMMA CallerMoves ==
    ASSUME ServiceInv, NEW r \in Requests, pc[r] \notin {"waiting", "done"},
           NEW where, pc' = [pc EXCEPT ![r] = where], UNCHANGED threadVars,
           \A q \in Requests \ {r} : answer'[q] = answer[q]
    PROVE  /\ \A k \in Kinds : Pending(k)' = Pending(k) /\ QueueInv(k)'
           /\ IdleInv'
  <1>1. UNCHANGED <<queue, batch, phase, pos, arrived>>
    BY DEF threadVars
  <1>2. IdleInv'
    BY <1>1 DEF ServiceInv, IdleInv
  <1> SUFFICES ASSUME NEW k \in Kinds PROVE Pending(k)' = Pending(k) /\ QueueInv(k)'
    BY <1>2
  <1>3. Pending(k)' = Pending(k)
    BY <1>1 DEF Pending
  <1>4. QueueInv(k) /\ \A i \in 1..Len(arrived[k]) : arrived[k][i] \in Requests \ {r}
    BY PendingType, ElementOfSeq DEF ServiceInv, QueueInv
  <1>5. \A q \in Requests \ {r} : pc'[q] = pc[q]
    BY DEF ServiceInv, IInv, TypeOK, HandlerTypeOK
  <1> QED
    BY <1>1, <1>3, <1>4, <1>5, LineKept DEF QueueInv

LEMMA RefusedStep ==
    ASSUME ServiceInv, NEW r \in Requests, Reject(r) \/ LoadFails(r)
    PROVE  LinesKept /\ Service!Next
  <1> DEFINE news == IF r \in Invalid THEN Raised ELSE LoadFailed
  <1>1. /\ pc[r] \in {"start", "loading"} /\ pc' = [pc EXCEPT ![r] = "done"]
        /\ answer' = [answer EXCEPT ![r] = news]
        /\ UNCHANGED threadVars
    BY DEF Reject, LoadFails, ServiceInv, CallerInv
  <1>2. HandlerTypeOK
    BY DEF ServiceInv, IInv, TypeOK
  <1> HIDE DEF news
  <1>3. /\ \A k \in Kinds : Pending(k)' = Pending(k) /\ QueueInv(k)'
        /\ IdleInv'
    BY <1>1, <1>2, CallerMoves DEF HandlerTypeOK
  <1>4. CallerInv'
    BY <1>1, <1>2 DEF HandlerTypeOK, ServiceInv, CallerInv
  <1>5. {q \in Requests : pc[q] = "direct"}' = {q \in Requests : pc[q] = "direct"}
    BY <1>1, <1>2 DEF HandlerTypeOK
  <1>6. Service!Refuse(r)
    <2>1. Service!Outside(r)
      BY <1>1, NotInLine
    <2> QED
      BY <1>1, <1>3, <1>5, <2>1 DEF Service!Refuse, news
  <1> QED
    BY <1>3, <1>4, <1>6 DEF LinesKept, Service!Next, Service!Accept, Service!Requests, Requests

LEMMA LoadingStep ==
    ASSUME ServiceInv, NEW r \in Requests,
           CheckEmbedder(r) \/ LockEmbedder(r) \/ LoadEmbedder(r) \/ BuildBatcher(r)
    PROVE  LinesKept /\ UNCHANGED Service!serviceVars
  <1>1. PICK where \in {"lockwait", "loading", "building", "ready"} :
           /\ pc[r] \in {"start", "lockwait", "loading", "building"}
           /\ pc[r] = "start" => r \notin Invalid
           /\ pc' = [pc EXCEPT ![r] = where] /\ answer' = answer
           /\ UNCHANGED threadVars
    BY DEF CheckEmbedder, LockEmbedder, LoadEmbedder, BuildBatcher
  <1>2. HandlerTypeOK
    BY DEF ServiceInv, IInv, TypeOK
  <1>3. /\ \A k \in Kinds : Pending(k)' = Pending(k) /\ QueueInv(k)'
        /\ IdleInv'
    BY <1>1, CallerMoves
  <1>4. CallerInv'
    BY <1>1, <1>2 DEF HandlerTypeOK, ServiceInv, CallerInv
  <1>5. UNCHANGED Service!serviceVars
    BY <1>1, <1>2, <1>3, ServiceStutters DEF HandlerTypeOK
  <1> QED
    BY <1>3, <1>4, <1>5 DEF LinesKept

LEMMA AloneStep ==
    ASSUME ServiceInv, NEW r \in Requests, CallDirectly(r) \/ DirectReturns(r)
    PROVE  LinesKept /\ Service!Next
  <1>0. HandlerTypeOK
    BY DEF ServiceInv, IInv, TypeOK
  <1>1. CASE CallDirectly(r)
    <2>1. /\ pc[r] = "ready" /\ pc' = [pc EXCEPT ![r] = "direct"] /\ answer' = answer
          /\ UNCHANGED threadVars
      BY <1>1 DEF CallDirectly
    <2>2. /\ \A k \in Kinds : Pending(k)' = Pending(k) /\ QueueInv(k)'
          /\ IdleInv'
      BY <2>1, CallerMoves
    <2>3. CallerInv'
      BY <1>0, <2>1 DEF HandlerTypeOK, ServiceInv, CallerInv
    <2>4. {q \in Requests : pc[q] = "direct"}' = {q \in Requests : pc[q] = "direct"} \cup {r}
      BY <1>0, <2>1 DEF HandlerTypeOK
    <2>5. Service!GoAlone(r)
      <3>1. Service!Outside(r)
        BY <2>1, NotInLine
      <3> QED
        BY <2>1, <2>2, <2>4, <3>1 DEF Service!GoAlone
    <2> QED
      BY <2>2, <2>3, <2>5 DEF LinesKept, Service!Next, Service!Accept, Service!Requests, Requests
  <1>2. CASE DirectReturns(r)
    <2>1. /\ pc[r] = "direct" /\ pc' = [pc EXCEPT ![r] = "done"]
          /\ answer' = [answer EXCEPT ![r] = Outcome(r)]
          /\ UNCHANGED threadVars
      BY <1>2 DEF DirectReturns
    <2>2. /\ \A k \in Kinds : Pending(k)' = Pending(k) /\ QueueInv(k)'
          /\ IdleInv'
      BY <1>0, <2>1, CallerMoves DEF HandlerTypeOK
    <2>3. CallerInv'
      BY <1>0, <2>1 DEF HandlerTypeOK, ServiceInv, CallerInv
    <2>4. {q \in Requests : pc[q] = "direct"}' = {q \in Requests : pc[q] = "direct"} \ {r}
      BY <1>0, <2>1 DEF HandlerTypeOK
    <2>5. Service!ServeAlone(r)
      BY <2>1, <2>2, <2>4 DEF Service!ServeAlone, Service!Expected, Outcome
    <2> QED
      BY <2>2, <2>3, <2>5 DEF LinesKept, Service!Next, Service!Requests, Requests
  <1> QED
    BY <1>1, <1>2

LEMMA JoinStep ==
    ASSUME ServiceInv, NEW r \in Requests, NEW k \in Kinds, Enqueue(r, k)
    PROVE  LinesKept /\ Service!Next
  <1>0. HandlerTypeOK
    BY DEF ServiceInv, IInv, TypeOK
  <1>1. /\ pc[r] = "ready" /\ r \in Batched(k) /\ pc' = [pc EXCEPT ![r] = "waiting"]
        /\ queue' = [queue EXCEPT ![k] = Append(@, r)]
        /\ arrived' = [arrived EXCEPT ![k] = Append(@, r)]
        /\ UNCHANGED <<batch, phase, pos, answer>>
    BY DEF Enqueue
  <1>2. /\ queue'[k] = Append(queue[k], r) /\ arrived'[k] = Append(arrived[k], r)
        /\ \A j \in Kinds \ {k} : queue'[j] = queue[j] /\ arrived'[j] = arrived[j]
    BY <1>1 DEF ServiceInv, IInv, TypeOK, QueueTypeOK
  <1>3. Pending(k)' = Append(Pending(k), r)
    <2> DEFINE rest == SubSeq(batch[k], pos[k], Len(batch[k]))
    <2>1. rest \in Seq(Requests)
      <3>1. Len(batch[k]) \in Nat /\ pos[k] \in Nat /\ batch[k] \in Seq(Requests)
        BY PendingType, LenProperties DEF ServiceInv
      <3>2. pos[k] >= 1
        BY DEF ServiceInv, IInv, TypeOK, BatchTypeOK
      <3>3. \A i \in pos[k]..Len(batch[k]) : batch[k][i] \in Requests
        BY <3>1, <3>2, ElementOfSeq
      <3> QED
        BY <3>1, <3>3, SubSeqProperties
    <2>2. Pending(k) = rest \o queue[k] /\ Pending(k)' = rest \o Append(queue[k], r)
      BY <1>1, <1>2 DEF Pending
    <2>3. queue[k] \in Seq(Requests)
      BY PendingType DEF ServiceInv
    <2> HIDE DEF rest
    <2>4. rest \o Append(queue[k], r) = Append(rest \o queue[k], r)
      BY <2>1, <2>3, AppendBehind
    <2> QED
      BY <2>2, <2>4
  <1>4. \A j \in Kinds \ {k} : Pending(j)' = Pending(j)
    BY <1>1, <1>2 DEF Pending
  <1>5. QueueInv(k)'
    BY <1>1, <1>2, <1>3, LineJoined
  <1>6. ASSUME NEW j \in Kinds \ {k} PROVE QueueInv(j)'
    <2>1. QueueInv(j) /\ \A i \in 1..Len(arrived[j]) : arrived[j][i] \in Requests \ {r}
      BY <1>1, PendingType, ElementOfSeq DEF ServiceInv, QueueInv
    <2>2. \A q \in Requests \ {r} : pc'[q] = pc[q]
      BY <1>0, <1>1 DEF HandlerTypeOK
    <2> QED
      BY <1>1, <1>2, <1>4, <2>1, <2>2, LineKept DEF QueueInv
  <1>7. CallerInv' /\ IdleInv'
    BY <1>0, <1>1 DEF HandlerTypeOK, ServiceInv, CallerInv, IdleInv
  <1>8. {q \in Requests : pc[q] = "direct"}' = {q \in Requests : pc[q] = "direct"}
    BY <1>0, <1>1 DEF HandlerTypeOK
  <1>9. Service!Join(r, k)
    <2>1. Service!Outside(r)
      BY <1>1, NotInLine
    <2>2. [j \in Kinds |-> Pending(j)]' = [[j \in Kinds |-> Pending(j)] EXCEPT ![k] = Append(@, r)]
      BY <1>3, <1>4
    <2> QED
      BY <1>1, <1>8, <2>1, <2>2 DEF Service!Join, Batched
  <1> QED
    BY <1>5, <1>6, <1>7, <1>9
       DEF LinesKept, Service!Next, Service!Accept, Service!Requests, Requests, Service!Kinds, Kinds

LEMMA ResumeSeen ==
    ASSUME ServiceInv, NEW r \in Requests, Resume(r)
    PROVE  LinesKept /\ UNCHANGED Service!serviceVars
  <1>0. HandlerTypeOK
    BY DEF ServiceInv, IInv, TypeOK
  <1>1. /\ pc[r] = "waiting" /\ answer[r] # NoAnswer /\ pc' = [pc EXCEPT ![r] = "done"]
        /\ answer' = answer /\ UNCHANGED <<queue, batch, phase, pos, arrived>>
    BY DEF Resume, threadVars
  <1>2. \A k \in Kinds : Pending(k)' = Pending(k)
    BY <1>1 DEF Pending
  <1>3. ASSUME NEW k \in Kinds PROVE QueueInv(k)'
    <2>1. QueueInv(k) /\ \A i \in 1..Len(arrived[k]) : arrived[k][i] \in Requests
      BY PendingType, ElementOfSeq DEF ServiceInv
    <2>2. \A q \in Requests : pc'[q] = IF q = r THEN "done" ELSE pc[q]
      BY <1>0, <1>1 DEF HandlerTypeOK
    <2> QED
      BY <1>1, <1>2, <2>1, <2>2, LineKept DEF QueueInv
  <1>4. CallerInv' /\ IdleInv'
    BY <1>0, <1>1 DEF HandlerTypeOK, ServiceInv, CallerInv, IdleInv
  <1>5. UNCHANGED Service!serviceVars
    BY <1>0, <1>1, <1>2, ServiceStutters DEF HandlerTypeOK
  <1> QED
    BY <1>3, <1>4, <1>5 DEF LinesKept

LEMMA HiddenSeen ==
    ASSUME ServiceInv, NEW k \in Kinds, HiddenStep(k)
    PROVE  LinesKept /\ UNCHANGED Service!serviceVars
  <1>1. /\ \A j \in Kinds : Pending(j)' = Pending(j)
        /\ IdleInv' /\ UNCHANGED <<pc, answer, arrived>>
    BY HiddenLine DEF ServiceInv
  <1>2. \A j \in Kinds : QueueInv(j)'
    BY <1>1, LineKept DEF ServiceInv, QueueInv
  <1>3. CallerInv'
    BY <1>1 DEF ServiceInv, CallerInv
  <1> QED
    BY <1>1, <1>2, <1>3, ServiceStutters DEF LinesKept

LEMMA ServeStep ==
    ASSUME ServiceInv, NEW k \in Kinds, DeliverRow(k) \/ RetryOne(k)
    PROVE  LinesKept /\ Service!Next
  <1> DEFINE r == Head(Pending(k))
  <1>0. HandlerTypeOK
    BY DEF ServiceInv, IInv, TypeOK
  <1>1. /\ Pending(k) # <<>> /\ Pending(k)' = Tail(Pending(k))
        /\ answer' = [answer EXCEPT ![r] = Outcome(r)]
        /\ \A j \in Kinds \ {k} : Pending(j)' = Pending(j)
        /\ IdleInv' /\ UNCHANGED <<pc, arrived>>
    BY ServedLine DEF ServiceInv
  <1>2. r \in Batched(k) /\ r \in Requests /\ pc[r] = "waiting"
    <2>1. Pending(k) \in Seq(Requests) /\ Len(Pending(k)) \in Nat \ {0}
      BY <1>1, PendingType, EmptySeq DEF ServiceInv
    <2>2. r = Pending(k)[1]
      BY <2>1
    <2> QED
      BY <2>1, <2>2, InLineFacts
  <1>3. QueueInv(k)'
    <2>1. Outcome(r) # NoAnswer
      BY <1>2 DEF Outcome, Answers
    <2> QED
      BY <1>1, <2>1, LineServed
  <1>4. ASSUME NEW j \in Kinds \ {k} PROVE QueueInv(j)'
    <2>0. QueueInv(j) /\ arrived[j] \in Seq(Requests) /\ Batched(j) \subseteq Requests \ {r}
      <3>1. QueueInv(j) /\ IInv
        BY DEF ServiceInv
      <3>2. j \in Kinds /\ arrived[j] \in Seq(Requests)
        BY <3>1, PendingType
      <3>3. Batched(j) \subseteq Requests \ {r}
        BY <1>2, KindsDisjoint DEF Batched, Kinds, Requests
      <3> QED
        BY <3>1, <3>2, <3>3
    <2>1. QueueInv(j) /\ \A i \in 1..Len(arrived[j]) : arrived[j][i] \in Requests \ {r}
      BY <2>0 DEF QueueInv
    <2>2. \A q \in Requests \ {r} : answer'[q] = answer[q]
      BY <1>0, <1>1 DEF HandlerTypeOK
    <2> QED
      BY <1>1, <2>1, <2>2, LineKept DEF QueueInv
  <1>5. CallerInv'
    BY <1>0, <1>1, <1>2 DEF HandlerTypeOK, ServiceInv, CallerInv
  <1>6. Service!Serve(k)
    <2>1. [j \in Kinds |-> Pending(j)]' = [[j \in Kinds |-> Pending(j)] EXCEPT ![k] = Tail(@)]
      BY <1>1
    <2> QED
      BY <1>1, <2>1 DEF Service!Serve, Service!Expected, Outcome
  <1> QED
    BY <1>1, <1>3, <1>4, <1>5, <1>6 DEF LinesKept, Service!Next, Service!Kinds, Kinds

LEMMA NextService ==
    ServiceInv /\ [Next]_vars => ServiceInv' /\ [Service!Next]_(Service!serviceVars)
  <1> SUFFICES ASSUME ServiceInv, [Next]_vars
               PROVE  ServiceInv' /\ (Service!Next \/ UNCHANGED Service!serviceVars)
    OBVIOUS
  <1>1. IInv'
    BY NextIInv DEF ServiceInv
  <1>2. CASE UNCHANGED vars
    <2>1. \A k \in Kinds : Pending(k)' = Pending(k)
      BY <1>2 DEF vars, Pending
    <2>2. \A k \in Kinds : QueueInv(k)'
      BY <1>2, <2>1, LineKept DEF vars, ServiceInv, QueueInv
    <2>3. CallerInv' /\ IdleInv'
      BY <1>2 DEF vars, ServiceInv, CallerInv, IdleInv
    <2> QED
      BY <1>1, <1>2, <2>1, <2>2, <2>3, ServiceStutters DEF vars, ServiceInv
  <1>3. CASE Next
    <2>1. LinesKept /\ (Service!Next \/ UNCHANGED Service!serviceVars)
      BY <1>3, RefusedStep, LoadingStep, AloneStep, JoinStep, ResumeSeen, HiddenSeen, ServeStep
         DEF Next, Handler, Daemon, HiddenStep
    <2> QED
      BY <1>1, <2>1 DEF LinesKept, ServiceInv
  <1> QED
    BY <1>2, <1>3

LEMMA ServiceAlways == Spec => []ServiceInv
  BY InitService, NextService, PTL DEF Spec

\* No request is lost, answered twice or overtaken between the put on a queue and
\* its Future, for any requests and any batch_max_size: the daemons resolve the
\* Futures in the order of arrival, and only unresolved ones.
THEOREM NothingLostAlways == Spec => []NothingLost
  <1>1. ServiceInv => NothingLost
    <2> SUFFICES ASSUME ServiceInv, NEW k \in Kinds
                 PROVE  LET served == Len(arrived[k]) - Len(Pending(k))
                        IN /\ served >= 0
                           /\ Pending(k) = SubSeq(arrived[k], served + 1, Len(arrived[k]))
                           /\ \A i \in DOMAIN arrived[k] :
                                  answer[arrived[k][i]] # NoAnswer <=> i <= served
      BY DEF NothingLost
    <2> DEFINE served == Len(arrived[k]) - Len(Pending(k))
               latest == SubSeq(arrived[k], served + 1, Len(arrived[k]))
    <2>1. /\ Pending(k) \in Seq(Requests) /\ Len(Pending(k)) \in Nat
          /\ arrived[k] \in Seq(Requests) /\ Len(arrived[k]) \in Nat
      BY PendingType DEF ServiceInv
    <2>2. QueueInv(k) /\ ServedCount(k) = served
      BY DEF ServiceInv, ServedCount
    <2>3. served >= 0 /\ served \in Nat
      BY <2>1, <2>2 DEF QueueInv
    <2>4. \A i \in DOMAIN arrived[k] : answer[arrived[k][i]] # NoAnswer <=> i <= served
      BY <2>1, <2>2, LenProperties, ZenonT(60) DEF QueueInv
    <2>5. /\ latest \in Seq(Requests) /\ Len(latest) = Len(Pending(k))
          /\ \A i \in 1..Len(Pending(k)) : latest[i] = arrived[k][served + i]
      <3> HIDE DEF served
      <3>1. \A i \in (served + 1)..Len(arrived[k]) : arrived[k][i] \in Requests
        BY <2>1, <2>3, ElementOfSeq
      <3>2. Len(Pending(k)) = Len(arrived[k]) - served
        BY <2>1 DEF served
      <3> QED
        BY <2>1, <2>3, <3>1, <3>2, SubSeqProperties
    <2>6. Pending(k) = latest
      <3>1. \A i \in 1..Len(Pending(k)) : Pending(k)[i] = latest[i]
        BY <2>2, <2>5 DEF QueueInv
      <3> HIDE DEF latest
      <3> QED
        BY <2>1, <2>5, <3>1, SeqEqual
    <2> QED
      BY <2>3, <2>4, <2>6
  <1> QED
    BY <1>1, ServiceAlways, PTL

\* The backend is a server that answers the requests of a kind one at a time and
\* in order of arrival, and some alone, for any requests and any batch_max_size:
\* its batches, its locks and the load of the model are invisible.
THEOREM ImplementsServiceAlways == Spec => ImplementsService
  <1>1. Init => Service!Init
    BY InitService
  <1>2. ServiceInv /\ [Next]_vars => [Service!Next]_(Service!serviceVars)
    BY NextService
  <1> QED
    BY <1>1, <1>2, ServiceAlways, PTL DEF Spec, ImplementsService, Service!Spec

-----------------------------------------------------------------------------
(***************************************************************************)
(* The retry loop keeps to its budget, whatever the budget and the errors. *)
(***************************************************************************)

USE BudgetAssumption, TokenAssumption, PathAssumption

-----------------------------------------------------------------------------
(* The budgets *)

LEMMA HalfShrinks ==
  ASSUME NEW c \in Nat, c > 1
  PROVE  Half(c) \in 1..(c - 1)
  BY DEF Half

LEMMA ByRatioShrinks ==
  ASSUME NEW c \in Nat, c > 1, NEW ids \in Nat, NEW text \in Nat \ {0},
         NEW b \in ByRatio(c, ids, text)
  PROVE  b \in 1..(c - 1)
  <1>1. c * ids \in Nat
    OBVIOUS
  <1>2. (c * ids) \div text \in Nat
    BY <1>1
  <1>3. Quotients(c, ids, text) \subseteq Nat
    BY <1>2 DEF Quotients
  <1> QED
    BY <1>3 DEF ByRatio

\* _reduce_max_frames_from_error and the clamping of the loop together: the
\* next budget is a smaller one, and never zero.
LEMMA NextBudgetsShrink ==
  ASSUME NEW c \in Nat, c > 1, NEW b \in NextBudgets(c)
  PROVE  b \in 1..(c - 1)
  BY HalfShrinks, ByRatioShrinks DEF NextBudgets, Reduced

-----------------------------------------------------------------------------
(* The frames *)

LEMMA DivMonotonic ==
  ASSUME NEW x \in Nat, NEW y \in Nat, NEW d \in Nat \ {0}, x + d <= y
  PROVE  x \div d < y \div d
  OBVIOUS

LEMMA DivExact ==
  ASSUME NEW x \in Nat, NEW d \in Nat \ {0}
  PROVE  (d * x) \div d = x
  OBVIOUS

LEMMA DivBelow ==
  ASSUME NEW x \in Nat, NEW y \in Nat, NEW d \in Nat \ {0}, x <= y
  PROVE  x \div d <= y \div d
  OBVIOUS

\* The positions of _downsample_frames lie in the list, go up, and reach both
\* ends of it.
LEMMA SpreadPositions ==
  ASSUME NEW n \in Nat, NEW target \in Nat, target > 1, target < n
  PROVE  /\ \A i \in 0..(target - 1) : Spread(n, target, i) \in 1..n
         /\ \A i, j \in 0..(target - 1) :
               i < j => Spread(n, target, i) < Spread(n, target, j)
         /\ Spread(n, target, 0) = 1
         /\ Spread(n, target, target - 1) = n
  <1> DEFINE d == target - 1
             m == n - 1
  <1>1. d \in Nat \ {0} /\ m \in Nat /\ d < m
    OBVIOUS
  <1>2. ASSUME NEW i \in 0..(target - 1)
        PROVE  Spread(n, target, i) \in 1..n
    <2>1. i * m \in Nat /\ d * m \in Nat /\ i * m <= d * m
      BY <1>1
    <2>2. (i * m) \div d \in Nat /\ (i * m) \div d <= m
      BY <1>1, <2>1, DivBelow, DivExact
    <2> QED
      BY <2>2 DEF Spread
  <1>3. ASSUME NEW i \in 0..(target - 1), NEW j \in 0..(target - 1), i < j
        PROVE  Spread(n, target, i) < Spread(n, target, j)
    <2>1. i * m \in Nat /\ j * m \in Nat /\ i * m + m <= j * m
      BY <1>1, <1>3
    <2>2. i * m + d <= j * m
      BY <1>1, <2>1
    <2>3. (i * m) \div d < (j * m) \div d
      BY <1>1, <2>1, <2>2, DivMonotonic
    <2>4. (i * m) \div d \in Nat /\ (j * m) \div d \in Nat
      BY <1>1, <2>1
    <2> QED
      BY <2>3, <2>4 DEF Spread
  <1>4. Spread(n, target, 0) = 1
    <2>1. 0 * m = 0 /\ 0 \div d = 0
      BY <1>1
    <2> QED
      BY <2>1 DEF Spread
  <1>5. Spread(n, target, target - 1) = n
    <2>1. (d * m) \div d = m
      BY <1>1, DivExact
    <2> QED
      BY <1>1, <2>1 DEF Spread
  <1> QED
    BY <1>2, <1>3, <1>4, <1>5

\* _downsample_frames returns at most target of the frames, in order, with the
\* first and, from two on, the last of them.
LEMMA DownsampleFrames ==
  ASSUME NEW s \in Seq(1..MostFrames), s # <<>>, Increasing(s),
         NEW target \in Nat \ {0}
  PROVE  /\ Downsample(s, target) \in Seq(1..MostFrames)
         /\ Len(Downsample(s, target)) \in 1..target
         /\ Increasing(Downsample(s, target))
         /\ Downsample(s, target)[1] = s[1]
         /\ target > 1 => Downsample(s, target)[Len(Downsample(s, target))]
                            = s[Len(s)]
  <1>1. CASE Len(s) <= target
    BY <1>1 DEF Downsample
  <1>2. CASE Len(s) > target /\ target = 1
    <2> DEFINE one == <<s[1]>>
    <2>1. Downsample(s, target) = one
      BY <1>2 DEF Downsample
    <2>2. /\ one \in Seq(1..MostFrames) /\ Len(one) = 1 /\ one[1] = s[1]
          /\ Increasing(one)
      BY DEF Increasing
    <2> HIDE DEF one
    <2> QED
      BY <1>2, <2>1, <2>2
  <1>3. CASE Len(s) > target /\ target > 1
    <2> DEFINE D == Downsample(s, target)
               at(i) == Spread(Len(s), target, i - 1)
    <2>1. D = [i \in 1..target |-> s[at(i)]]
      BY <1>3 DEF Downsample
    <2>2. /\ \A i \in 1..target : at(i) \in 1..Len(s)
          /\ \A i, j \in 1..target : i < j => at(i) < at(j)
          /\ at(1) = 1
          /\ at(target) = Len(s)
      <3>1. Len(s) \in Nat
        OBVIOUS
      <3>2. \A i \in 1..target : i - 1 \in 0..(target - 1)
        OBVIOUS
      <3> QED
        BY <1>3, <3>1, <3>2, SpreadPositions
    <2> HIDE DEF D, at
    <2>3. D \in Seq(1..MostFrames) /\ Len(D) = target
      BY <2>1, <2>2
    <2>4. Increasing(D)
      BY <2>1, <2>2 DEF Increasing
    <2>5. D[1] = s[1] /\ D[target] = s[Len(s)]
      BY <1>3, <2>1, <2>2
    <2>6. /\ D \in Seq(1..MostFrames) /\ Len(D) \in 1..target /\ D[1] = s[1]
          /\ D[Len(D)] = s[Len(s)]
      BY <2>3, <2>5
    <2> USE DEF D
    <2> QED
      BY ONLY <2>4, <2>6
  <1> QED
    BY <1>1, <1>2, <1>3

LEMMA KeptFrames ==
  ASSUME NEW s \in Seq(1..MostFrames), NEW q \in Kept(s)
  PROVE  /\ q \in Seq(1..MostFrames)
         /\ Len(q) \in 1..Len(s)
         /\ Increasing(q)
  BY DEF Kept

LEMMA FramesOf ==
  ASSUME NEW n \in 1..MostFrames
  PROVE  /\ Frames(n) \in Seq(1..MostFrames)
         /\ Len(Frames(n)) = n
         /\ Increasing(Frames(n))
         /\ Frames(n) # <<>>
         /\ Frames(n)[1] = 1
         /\ Frames(n)[n] = n
  BY DEF Frames, Increasing

-----------------------------------------------------------------------------
(* The loop *)

\* The list of base_input is the whole of the video, within the budget.
BaseInv ==
    base # Path => \E n \in 1..MostFrames : base = Frames(n)

FramesIInv == FramesTypeOK /\ BaseInv /\ BelowRefused

LEMMA FramesInitIInv == FramesInit => FramesIInv
  <1> SUFFICES ASSUME FramesInit PROVE FramesIInv
    OBVIOUS
  <1>1. base # Path => \E n \in 1..maxFrames : base = Frames(n)
    BY DEF FramesInit
  <1>2. maxFrames \in 1..MostFrames
    BY DEF FramesInit
  <1>3. base # Path => /\ base \in Seq(1..MostFrames)
                      /\ Len(base) <= maxFrames
                      /\ Increasing(base)
    <2> SUFFICES ASSUME base # Path
                 PROVE  /\ base \in Seq(1..MostFrames)
                        /\ Len(base) <= maxFrames
                        /\ Increasing(base)
      OBVIOUS
    <2>1. PICK n \in 1..maxFrames : base = Frames(n)
      BY <1>1
    <2> QED
      BY <1>2, <2>1, FramesOf
  <1>4. FramesTypeOK
    BY <1>2, <1>3 DEF FramesInit, FramesTypeOK, Videos, Attempts
  <1>5. BaseInv
    BY <1>1, <1>2 DEF BaseInv
  <1>6. BelowRefused
    BY <1>3 DEF FramesInit, BelowRefused
  <1> QED
    BY <1>4, <1>5, <1>6 DEF FramesIInv

\* What ffmpeg extracts, or what is left of a list, is again a list within the
\* budget.
LEMMA RepairedFrames ==
  ASSUME FramesIInv, NEW v \in Extracted \cup (IF video = Path THEN {} ELSE Kept(video))
  PROVE  /\ v \in Seq(1..MostFrames)
         /\ Len(v) <= maxFrames
         /\ Increasing(v)
  <1>1. CASE v \in Extracted
    BY <1>1, FramesOf, KeptFrames DEF FramesIInv, FramesTypeOK, Extracted
  <1>2. CASE video # Path /\ v \in Kept(video)
    BY <1>2, KeptFrames DEF FramesIInv, FramesTypeOK, BelowRefused, Videos
  <1> QED
    BY <1>1, <1>2

LEMMA ShrunkFrames ==
  ASSUME FramesIInv, NEW budget \in Nat \ {0}, base # Path
  PROVE  /\ Shrunk(budget) \in Seq(1..MostFrames)
         /\ Len(Shrunk(budget)) <= budget
         /\ Increasing(Shrunk(budget))
         /\ Shrunk(budget)[1] = 1
         /\ budget > 1 => Shrunk(budget)[Len(Shrunk(budget))] = Len(base)
  <1>1. PICK n \in 1..MostFrames : base = Frames(n)
    BY DEF FramesIInv, BaseInv
  <1>2. /\ base \in Seq(1..MostFrames) /\ Len(base) = n /\ base # <<>>
        /\ Increasing(base) /\ base[1] = 1 /\ base[n] = n
    BY <1>1, FramesOf
  <1>3. Shrunk(budget) = Downsample(base, budget)
    BY DEF Shrunk
  <1> QED
    BY <1>2, <1>3, DownsampleFrames

\* A repair leaves the budget alone and stays within it.
LEMMA RepairStep ==
  ASSUME FramesIInv, NEW v \in Extracted \cup (IF video = Path THEN {} ELSE Kept(video)),
         RetryWith(v), UNCHANGED <<maxFrames, tooMany>>
  PROVE  FramesIInv'
  <1>1. /\ v \in Seq(1..MostFrames)
        /\ Len(v) <= maxFrames
        /\ Increasing(v)
    BY RepairedFrames
  <1>2. FramesTypeOK'
    BY <1>1 DEF FramesIInv, FramesTypeOK, RetryWith, Videos, Attempts
  <1>3. BaseInv'
    BY DEF FramesIInv, BaseInv, RetryWith
  <1>4. BelowRefused'
    BY <1>1 DEF FramesIInv, FramesTypeOK, BelowRefused, RetryWith
  <1> QED
    BY <1>2, <1>3, <1>4 DEF FramesIInv

LEMMA TokenMismatchStep ==
  ASSUME FramesIInv, TokenMismatchRetried
  PROVE  FramesIInv' /\ maxFrames' < maxFrames /\ video' = Shrunk(maxFrames')
  <1>1. PICK budget \in NextBudgets(maxFrames) :
             RetryWith(Shrunk(budget)) /\ maxFrames' = budget
    BY DEF TokenMismatchRetried
  <1>2. maxFrames \in 1..MostFrames /\ maxFrames > 1
    BY DEF FramesIInv, FramesTypeOK, TokenMismatchRetried
  <1>3. budget \in 1..(maxFrames - 1)
    BY <1>2, NextBudgetsShrink
  <1>4. base # Path => /\ Shrunk(budget) \in Seq(1..MostFrames)
                      /\ Len(Shrunk(budget)) <= budget
                      /\ Increasing(Shrunk(budget))
    BY <1>3, ShrunkFrames
  <1>5. base = Path => Shrunk(budget) = Path
    BY DEF Shrunk
  <1>6. FramesTypeOK'
    BY <1>1, <1>2, <1>3, <1>4, <1>5
       DEF FramesIInv, FramesTypeOK, RetryWith, Videos, Attempts, TokenMismatchRetried
  <1>7. BaseInv'
    BY <1>1 DEF FramesIInv, BaseInv, RetryWith
  <1>8. BelowRefused'
    BY <1>1, <1>2, <1>3, <1>4, <1>5
       DEF BelowRefused, RetryWith, TokenMismatchRetried
  <1> QED
    BY <1>1, <1>2, <1>3, <1>6, <1>7, <1>8 DEF FramesIInv, RetryWith

\* Nothing but the outcome changes when the loop ends.
LEMMA EndStep ==
  ASSUME FramesIInv, NEW o \in {"ok", "video_fps", "size", "tokens", "other"},
         outcome' = o, UNCHANGED <<base, video, maxFrames, attempt, tooMany>>
  PROVE  FramesIInv'
  BY DEF FramesIInv, FramesTypeOK, BaseInv, BelowRefused

LEMMA FramesNextIInv == FramesIInv /\ [FramesNext]_framesVars => FramesIInv'
  <1> SUFFICES ASSUME FramesIInv, [FramesNext]_framesVars PROVE FramesIInv'
    OBVIOUS
  <1>1. CASE Succeeds
    BY <1>1, EndStep DEF Succeeds
  <1>2. CASE MissingFpsRetried
    BY <1>2, RepairStep DEF MissingFpsRetried
  <1>3. CASE MissingFpsRaised
    BY <1>3, EndStep DEF MissingFpsRaised, Raise
  <1>4. CASE SizeMismatchRetried
    BY <1>4, RepairStep DEF SizeMismatchRetried
  <1>5. CASE SizeMismatchRaised
    BY <1>5, EndStep DEF SizeMismatchRaised, Raise
  <1>6. CASE TokenMismatchRetried
    BY <1>6, TokenMismatchStep
  <1>7. CASE TokenMismatchRaised
    BY <1>7, EndStep DEF TokenMismatchRaised, Raise
  <1>8. CASE OtherError
    BY <1>8, EndStep DEF OtherError, Raise
  <1>9. CASE UNCHANGED framesVars
    BY <1>9 DEF FramesIInv, FramesTypeOK, BaseInv, BelowRefused, framesVars
  <1> QED
    BY <1>1, <1>2, <1>3, <1>4, <1>5, <1>6, <1>7, <1>8, <1>9 DEF FramesNext

THEOREM FramesInvariance == FramesSpec => []FramesIInv
  BY FramesInitIInv, FramesNextIInv, PTL DEF FramesSpec

\* The budget of _process_with_adaptive_max_frames is at least one frame and
\* never grows beyond the configured maximum.
THEOREM FramesTypeCorrect == FramesSpec => []FramesTypeOK
  <1>1. FramesIInv => FramesTypeOK
    BY DEF FramesIInv
  <1> QED
    BY <1>1, FramesInvariance, PTL

\* Once a budget was refused, every later call keeps below it and asks for one
\* frame at least, for any maximum and any counts an error message may name.
THEOREM BudgetKeptAlways == FramesSpec => []BudgetKept
  <1>1. FramesIInv => BudgetKept
    BY DEF FramesIInv, FramesTypeOK, BudgetKept
  <1> QED
    BY <1>1, FramesInvariance, PTL

\* _downsample_frames never cuts off the start or, with two frames left, the
\* end of a video.
THEOREM CoversVideoAlways == FramesSpec => CoversVideo
  <1> DEFINE Cover == maxFrames' < maxFrames /\ base # Path
                      => /\ video'[1] = 1
                         /\ maxFrames' > 1 => video'[Len(video')] = Len(base)
  <1>1. FramesIInv /\ [FramesNext]_framesVars => [Cover]_framesVars
    <2> SUFFICES ASSUME FramesIInv, FramesNext, maxFrames' < maxFrames, base # Path
                 PROVE  /\ video'[1] = 1
                        /\ maxFrames' > 1 => video'[Len(video')] = Len(base)
      OBVIOUS
    <2>1. TokenMismatchRetried
      BY DEF FramesIInv, FramesTypeOK, FramesNext, Succeeds, MissingFpsRetried,
             MissingFpsRaised, SizeMismatchRetried, SizeMismatchRaised,
             TokenMismatchRaised, OtherError, Raise
    <2>2. video' = Shrunk(maxFrames') /\ maxFrames' \in Nat \ {0}
      BY <2>1, TokenMismatchStep DEF FramesIInv, FramesTypeOK
    <2> QED
      BY <2>2, ShrunkFrames
  <1> QED
    BY <1>1, FramesInvariance, PTL DEF FramesSpec, CoversVideo
=============================================================================
