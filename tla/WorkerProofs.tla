---------------------------- MODULE WorkerProofs ----------------------------
(***************************************************************************)
(* Proofs about Worker for any number of concurrent requests and any       *)
(* environment: what is warm stays so, temporary files go, the precision   *)
(* fits the device, generations fit the decoder, frames cover the video,   *)
(* answers say what they are and vectors count every word.                 *)
(***************************************************************************)
EXTENDS Worker, WellFoundedInduction, FiniteSetTheorems, SequenceTheorems, TLAPS

\* Where a thread has its transcriber.
HasTranscriber == {"have", "loading", "ready", "extracting", "running", "heard"}

\* Where a request for an embedding has its backend.
HasBackend == {"file", "frames", "embedding", "finding", "reading", "transcribing"}

TheDevice == Resolve(settings.whisperDevice)

TheModel == [device |-> TheDevice, dtype |-> Dtype(TheDevice)]

Typed ==
    /\ outerCache \in Threads \cup {None} /\ innerCache \in Threads \cup {None}
    /\ cachedBackend \in Threads \cup {None}
    /\ uses \in [Threads -> Threads \cup {None}]
    /\ backend \in [Threads -> Threads \cup {None}]
    /\ transcriberOf \in [Threads -> Threads \cup {None}]
    /\ DOMAIN at = Threads /\ DOMAIN step = Threads /\ DOMAIN input = Threads
    /\ DOMAIN kwargs = Threads /\ DOMAIN result = Threads
    /\ DOMAIN device = Threads /\ DOMAIN model = Threads
    /\ DOMAIN sampled = Threads /\ DOMAIN answer = Threads

StartedIn == settings \in {GetSettings(env) : env \in Environments} /\ machine \in Machines

\* The two globals of the factory are set before anybody returns a backend.
BackendInv ==
    \A t \in Threads :
        /\ Answered(t) => at[t] = "done"
        /\ at[t] = "keying" => cachedBackend # None
        /\ at[t] = "returning" \/ backend[t] # None => cachedBackend # None /\ cachedKey
        /\ settings.backend = "qwen3_vl" /\ input[t].endpoint \in Embeds
             /\ (at[t] \in HasBackend \/ Succeeded(t))
               => backend[t] # None

\* Whoever has a transcriber has put one into the outer cache, or found it there.
TranscriberInv ==
    \A t \in Threads :
        /\ at[t] = "finding" => settings.backend = "qwen3_vl" /\ input[t].endpoint \in Embeds
        /\ at[t] = "reading" => backend[t] # None /\ transcriberOf[backend[t]] # None
        /\ step[t] = "found" => uses[t] # None
        /\ step[t] \in HasTranscriber => uses[t] # None /\ outerCache # None
        /\ result[t] \in Transcripts => outerCache # None
        /\ transcriberOf[t] # None => outerCache # None

\* All loads of a transcriber load the same, and the device is known before.
LoadInv ==
    \A t \in Threads :
        /\ device[t] \in {settings.whisperDevice, TheDevice}
        /\ model[t] # None => device[t] = TheDevice /\ model[t] = TheModel
        /\ step[t] = "loading" => device[uses[t]] = TheDevice
        /\ step[t] \in {"ready", "extracting", "running"} =>
              device[uses[t]] = TheDevice /\ model[uses[t]] = TheModel

\* The arguments of a call were computed after the load.
CallInv ==
    \A t \in Threads : step[t] \in {"extracting", "running"} =>
        /\ settings.whisper = "openai" => (kwargs[t].half <=> TheDevice = "cuda")
        /\ settings.whisper # "openai" =>
              kwargs[t].tokens = MaxNewTokens(settings.override, machine.decoder,
                                              settings.language)

ReceivedInv == \A t \in Threads : at[t] = "new" \/ input[t] \in Inputs

UploadInv == \A t \in Threads : t \in upload => at[t] # "done"

\* A wav file is the one its request will remove, or one that ffmpeg failed on.
WavInv ==
    \A t \in Threads : t \in wav =>
        \/ step[t] = "running" /\ t \in tmp /\ at[t] = "transcribing"
        \/ step[t] = "raised" /\ result[t] = "ffmpeg" /\ at[t] \in {"transcribing", "done"}

SampledInv ==
    \A t \in Threads : sampled[t] # None => at[t] = "done" /\ sampled[t] = Sampling(t)

IInv ==
    /\ Typed /\ StartedIn /\ BackendInv /\ TranscriberInv /\ LoadInv /\ CallInv
    /\ ReceivedInv /\ UploadInv /\ WavInv /\ SampledInv

-----------------------------------------------------------------------------

\* What does not depend on the requests.
LEMMA SettingsKept ==
    ASSUME UNCHANGED <<settings, machine>>
    PROVE  /\ TheDevice' = TheDevice /\ TheModel' = TheModel
           /\ StartedIn => StartedIn'
           /\ \A t \in Threads : input[t]' = input[t] => Sampling(t)' = Sampling(t)
  BY DEF TheDevice, TheModel, Resolve, DefaultDevice, Dtype, StartedIn, Sampling, Reader

\* A load resolves "auto" once.
LEMMA ResolveTwice == Resolve(TheDevice) = TheDevice
  BY DEF TheDevice, Resolve, DefaultDevice

LEMMA StatusIsAnError == \A endpoint, error : Status(endpoint, error) # 200
  BY DEF Status

\* The steps outside of transcription.py.
LEMMA TranscriptionKept ==
    ASSUME LoadInv, CallInv, UNCHANGED <<settings, machine, transcriptionVars>>
    PROVE  LoadInv' /\ CallInv'
  <1>1. TheDevice' = TheDevice /\ TheModel' = TheModel
    BY SettingsKept
  <1> QED
    BY <1>1 DEF LoadInv, CallInv, transcriptionVars

\* The steps inside of it.
LEMMA RequestsKept ==
    ASSUME IInv, UNCHANGED <<workerVars, input, at, answer>>
    PROVE  StartedIn' /\ BackendInv' /\ ReceivedInv' /\ UploadInv' /\ SampledInv'
  <1>1. UNCHANGED <<settings, machine, cachedBackend, cachedKey, backend, transcriberOf, upload,
                    sampled, input, at, answer>>
    BY DEF workerVars, factoryVars
  <1>2. StartedIn' /\ ReceivedInv' /\ UploadInv'
    BY <1>1, SettingsKept DEF IInv, ReceivedInv, UploadInv
  <1>3. BackendInv'
    BY <1>1 DEF IInv, BackendInv, Answered, Succeeded
  <1>4. SampledInv'
    BY <1>1, SettingsKept DEF IInv, SampledInv
  <1> QED
    BY <1>2, <1>3, <1>4

\* A request is answered.
LEMMA AnswerStep ==
    ASSUME IInv, NEW t \in Threads, NEW response,
           at[t] # "new", at[t] # "transcribing" \/ step[t] # "running",
           response.status # 200 \/ at[t] \in HasBackend,
           Reply(t, response),
           UNCHANGED <<transcriptionVars, settings, machine, input, factoryVars, transcriberOf,
                       sampled>>
    PROVE  IInv'
  <1> USE DEF Reply, Move, transcriptionVars, factoryVars
  <1>1. Typed' /\ StartedIn' /\ ReceivedInv'
    BY SettingsKept DEF IInv, Typed, ReceivedInv
  <1>2. BackendInv'
    BY DEF IInv, Typed, BackendInv, Answered, Succeeded, HasBackend
  <1>3. TranscriberInv'
    BY DEF IInv, Typed, TranscriberInv
  <1>4. LoadInv' /\ CallInv'
    BY TranscriptionKept DEF IInv
  <1>5. UploadInv' /\ WavInv'
    BY DEF IInv, Typed, UploadInv, WavInv, UploadAfter
  <1>6. SampledInv'
    BY SettingsKept DEF IInv, Typed, SampledInv
  <1> QED
    BY <1>1, <1>2, <1>3, <1>4, <1>5, <1>6 DEF IInv

-----------------------------------------------------------------------------
\* get_backend.

LEMMA DeterministicBackendStep ==
    ASSUME IInv, NEW t \in Threads, DeterministicBackend(t)
    PROVE  IInv'
  <1> USE DEF DeterministicBackend, Move, transcriptionVars, workerVars, factoryVars
  <1>1. Typed' /\ StartedIn' /\ ReceivedInv'
    BY SettingsKept, NoneAssumption DEF IInv, Typed, ReceivedInv, AfterBackend, Embeds
  <1>2. BackendInv'
    BY NoneAssumption DEF IInv, Typed, BackendInv, Answered, Succeeded, HasBackend, TranscriberInv, AfterBackend, Embeds
  <1>3. TranscriberInv'
    BY DEF IInv, Typed, TranscriberInv, HasTranscriber, BackendInv, HasBackend, AfterBackend, Embeds
  <1>4. LoadInv' /\ CallInv'
    BY TranscriptionKept DEF IInv
  <1>5. UploadInv' /\ WavInv'
    BY DEF IInv, Typed, UploadInv, WavInv, AfterBackend, Embeds
  <1>6. SampledInv'
    BY SettingsKept DEF IInv, Typed, SampledInv, AfterBackend, Embeds
  <1> QED
    BY <1>1, <1>2, <1>3, <1>4, <1>5, <1>6 DEF IInv

LEMMA CheckCacheStep ==
    ASSUME IInv, NEW t \in Threads, CheckCache(t)
    PROVE  IInv'
  <1> USE DEF CheckCache, Move, transcriptionVars, workerVars, factoryVars
  <1>1. Typed' /\ StartedIn' /\ ReceivedInv'
    BY SettingsKept, NoneAssumption DEF IInv, Typed, ReceivedInv
  <1>2. BackendInv'
    BY NoneAssumption DEF IInv, Typed, BackendInv, Answered, Succeeded, HasBackend, TranscriberInv
  <1>3. TranscriberInv'
    BY DEF IInv, Typed, TranscriberInv, HasTranscriber, BackendInv, HasBackend
  <1>4. LoadInv' /\ CallInv'
    BY TranscriptionKept DEF IInv
  <1>5. UploadInv' /\ WavInv'
    BY DEF IInv, Typed, UploadInv, WavInv
  <1>6. SampledInv'
    BY SettingsKept DEF IInv, Typed, SampledInv
  <1> QED
    BY <1>1, <1>2, <1>3, <1>4, <1>5, <1>6 DEF IInv

LEMMA BuildStep ==
    ASSUME IInv, NEW t \in Threads, Build(t)
    PROVE  IInv'
  <1> USE DEF Build, Move, transcriptionVars, workerVars, factoryVars
  <1>1. Typed' /\ StartedIn' /\ ReceivedInv'
    BY SettingsKept, NoneAssumption DEF IInv, Typed, ReceivedInv
  <1>2. BackendInv'
    BY NoneAssumption DEF IInv, Typed, BackendInv, Answered, Succeeded, HasBackend, TranscriberInv
  <1>3. TranscriberInv'
    BY DEF IInv, Typed, TranscriberInv, HasTranscriber, BackendInv, HasBackend
  <1>4. LoadInv' /\ CallInv'
    BY TranscriptionKept DEF IInv
  <1>5. UploadInv' /\ WavInv'
    BY DEF IInv, Typed, UploadInv, WavInv
  <1>6. SampledInv'
    BY SettingsKept DEF IInv, Typed, SampledInv
  <1> QED
    BY <1>1, <1>2, <1>3, <1>4, <1>5, <1>6 DEF IInv

LEMMA PublishKeyStep ==
    ASSUME IInv, NEW t \in Threads, PublishKey(t)
    PROVE  IInv'
  <1> USE DEF PublishKey, Move, transcriptionVars, workerVars, factoryVars
  <1>1. Typed' /\ StartedIn' /\ ReceivedInv'
    BY SettingsKept, NoneAssumption DEF IInv, Typed, ReceivedInv, KeyAfter
  <1>2. BackendInv'
    BY NoneAssumption DEF IInv, Typed, BackendInv, Answered, Succeeded, HasBackend, TranscriberInv, KeyAfter
  <1>3. TranscriberInv'
    BY DEF IInv, Typed, TranscriberInv, HasTranscriber, BackendInv, HasBackend, KeyAfter
  <1>4. LoadInv' /\ CallInv'
    BY TranscriptionKept DEF IInv
  <1>5. UploadInv' /\ WavInv'
    BY DEF IInv, Typed, UploadInv, WavInv, KeyAfter
  <1>6. SampledInv'
    BY SettingsKept DEF IInv, Typed, SampledInv, KeyAfter
  <1> QED
    BY <1>1, <1>2, <1>3, <1>4, <1>5, <1>6 DEF IInv

LEMMA ReturnCachedStep ==
    ASSUME IInv, NEW t \in Threads, ReturnCached(t)
    PROVE  IInv'
  <1> USE DEF ReturnCached, Move, transcriptionVars, workerVars, factoryVars
  <1>1. Typed' /\ StartedIn' /\ ReceivedInv'
    BY SettingsKept, NoneAssumption DEF IInv, Typed, ReceivedInv, AfterBackend
  <1>2. BackendInv'
    BY NoneAssumption DEF IInv, Typed, BackendInv, Answered, Succeeded, HasBackend, TranscriberInv, AfterBackend
  <1>3. TranscriberInv'
    BY DEF IInv, Typed, TranscriberInv, HasTranscriber, BackendInv, HasBackend, AfterBackend
  <1>4. LoadInv' /\ CallInv'
    BY TranscriptionKept DEF IInv
  <1>5. UploadInv' /\ WavInv'
    BY DEF IInv, Typed, UploadInv, WavInv, AfterBackend
  <1>6. SampledInv'
    BY SettingsKept DEF IInv, Typed, SampledInv, AfterBackend
  <1> QED
    BY <1>1, <1>2, <1>3, <1>4, <1>5, <1>6 DEF IInv

\* The attribute of the backend.

LEMMA AssignTranscriberStep ==
    ASSUME IInv, NEW t \in Threads, AssignTranscriber(t)
    PROVE  IInv'
  <1> USE DEF AssignTranscriber, Move, transcriptionVars, workerVars, factoryVars
  <1>1. Typed' /\ StartedIn' /\ ReceivedInv'
    BY SettingsKept, NoneAssumption DEF IInv, Typed, ReceivedInv
  <1>2. BackendInv'
    BY NoneAssumption DEF IInv, Typed, BackendInv, Answered, Succeeded, HasBackend, TranscriberInv
  <1>3. TranscriberInv'
    BY DEF IInv, Typed, TranscriberInv, HasTranscriber, BackendInv, HasBackend
  <1>4. LoadInv' /\ CallInv'
    BY TranscriptionKept DEF IInv
  <1>5. UploadInv' /\ WavInv'
    BY DEF IInv, Typed, UploadInv, WavInv
  <1>6. SampledInv'
    BY SettingsKept DEF IInv, Typed, SampledInv
  <1> QED
    BY <1>1, <1>2, <1>3, <1>4, <1>5, <1>6 DEF IInv

-----------------------------------------------------------------------------
\* The requests that end.

LEMMA UnknownBackendNameStep ==
    ASSUME IInv, NEW t \in Threads, UnknownBackendName(t)
    PROVE  IInv'
  BY AnswerStep DEF UnknownBackendName, Failure

LEMMA MissingFileStep ==
    ASSUME IInv, NEW t \in Threads, MissingFile(t)
    PROVE  IInv'
  BY AnswerStep DEF MissingFile, Failure, HasBackend

LEMMA TranscriptionFailedStep ==
    ASSUME IInv, NEW t \in Threads, TranscriptionFailed(t)
    PROVE  IInv'
  BY AnswerStep, StatusIsAnError DEF TranscriptionFailed, Failure

LEMMA EmbedByHashStep ==
    ASSUME IInv, NEW t \in Threads, EmbedByHash(t)
    PROVE  IInv'
  BY AnswerStep DEF EmbedByHash, HasBackend

LEMMA FileVanishedStep ==
    ASSUME IInv, NEW t \in Threads, FileVanished(t)
    PROVE  IInv'
  BY AnswerStep, StatusIsAnError DEF FileVanished, Failure

LEMMA ModelFailsStep ==
    ASSUME IInv, NEW t \in Threads, ModelFails(t)
    PROVE  IInv'
  BY AnswerStep, StatusIsAnError DEF ModelFails, Failure

LEMMA ReadFramesStep ==
    ASSUME IInv, NEW t \in Threads, ReadFrames(t)
    PROVE  IInv'
  <1>1. CASE input[t].frames = "empty"
    BY <1>1, AnswerStep DEF ReadFrames, Failure
  <1>2. CASE input[t].frames # "empty"
    <2> USE <1>2 DEF ReadFrames, Move, transcriptionVars, factoryVars
    <2>1. Typed' /\ StartedIn' /\ ReceivedInv'
      BY SettingsKept DEF IInv, Typed, ReceivedInv
    <2>2. BackendInv'
      BY DEF IInv, Typed, BackendInv, Answered, Succeeded, HasBackend
    <2>3. TranscriberInv'
      BY DEF IInv, Typed, TranscriberInv
    <2>4. LoadInv' /\ CallInv'
      BY TranscriptionKept DEF IInv
    <2>5. UploadInv' /\ WavInv'
      BY DEF IInv, Typed, UploadInv, WavInv
    <2>6. SampledInv'
      BY SettingsKept DEF IInv, Typed, SampledInv
    <2> QED
      BY <2>1, <2>2, <2>3, <2>4, <2>5, <2>6 DEF IInv
  <1> QED
    BY <1>1, <1>2

LEMMA TranscribedStep ==
    ASSUME IInv, NEW t \in Threads, Transcribed(t)
    PROVE  IInv'
  <1>1. CASE input[t].endpoint # "embed_video"
    BY <1>1, AnswerStep DEF Transcribed, HasBackend
  <1>2. CASE input[t].endpoint = "embed_video"
    <2> USE <1>2 DEF Transcribed, Move, transcriptionVars, factoryVars
    <2>1. Typed' /\ StartedIn' /\ ReceivedInv'
      BY SettingsKept DEF IInv, Typed, ReceivedInv
    <2>2. BackendInv'
      BY DEF IInv, Typed, BackendInv, Answered, Succeeded, HasBackend
    <2>3. TranscriberInv'
      BY DEF IInv, Typed, TranscriberInv
    <2>4. LoadInv' /\ CallInv'
      BY TranscriptionKept DEF IInv
    <2>5. UploadInv' /\ WavInv'
      BY DEF IInv, Typed, UploadInv, WavInv
    <2>6. SampledInv'
      BY SettingsKept DEF IInv, Typed, SampledInv
    <2> QED
      BY <2>1, <2>2, <2>3, <2>4, <2>5, <2>6 DEF IInv
  <1> QED
    BY <1>1, <1>2

LEMMA EmbedByModelStep ==
    ASSUME IInv, NEW t \in Threads, EmbedByModel(t)
    PROVE  IInv'
  <1> USE DEF EmbedByModel, Reply, Move, transcriptionVars, factoryVars
  <1>1. Typed' /\ StartedIn' /\ ReceivedInv'
    BY SettingsKept DEF IInv, Typed, ReceivedInv
  <1>2. BackendInv'
    BY DEF IInv, Typed, BackendInv, Answered, Succeeded, HasBackend
  <1>3. TranscriberInv'
    BY DEF IInv, Typed, TranscriberInv
  <1>4. LoadInv' /\ CallInv'
    BY TranscriptionKept DEF IInv
  <1>5. UploadInv' /\ WavInv'
    BY DEF IInv, Typed, UploadInv, WavInv, UploadAfter
  <1>6. SampledInv'
    BY SettingsKept DEF IInv, Typed, SampledInv
  <1> QED
    BY <1>1, <1>2, <1>3, <1>4, <1>5, <1>6 DEF IInv

-----------------------------------------------------------------------------
\* The requests that begin, and that turn to transcription.

LEMMA ReceiveStep ==
    ASSUME IInv, NEW t \in Threads, NEW r \in Inputs, Receive(t, r)
    PROVE  IInv'
  <1> USE DEF Receive, Move, GoTo, cacheVars, modelVars, callVars, factoryVars
  <1>1. Typed' /\ StartedIn'
    BY SettingsKept, NoneAssumption DEF IInv, Typed
  <1>2. BackendInv' /\ ReceivedInv'
    BY NoneAssumption DEF IInv, Typed, BackendInv, ReceivedInv, Answered, Succeeded, HasBackend, FirstStep, Embeds
  <1>3. TranscriberInv'
    BY DEF IInv, Typed, TranscriberInv, BackendInv, HasTranscriber, HasBackend, Transcripts, FirstStep
  <1>4. LoadInv' /\ CallInv'
    BY SettingsKept DEF IInv, Typed, LoadInv, CallInv, TranscriberInv, HasTranscriber
  <1>5. UploadInv' /\ WavInv'
    BY DEF IInv, Typed, UploadInv, WavInv, FirstStep
  <1>6. SampledInv'
    BY SettingsKept DEF IInv, Typed, SampledInv
  <1> QED
    BY <1>1, <1>2, <1>3, <1>4, <1>5, <1>6 DEF IInv

LEMMA RefuseStep ==
    ASSUME IInv, NEW t \in Threads, NEW r \in Inputs, Refuse(t, r)
    PROVE  IInv'
  <1> USE DEF Refuse, Reply, Move, transcriptionVars, factoryVars
  <1>1. Typed' /\ StartedIn'
    BY SettingsKept, NoneAssumption DEF IInv, Typed
  <1>2. BackendInv' /\ ReceivedInv'
    BY NoneAssumption DEF IInv, Typed, BackendInv, ReceivedInv, Answered, Succeeded, HasBackend, Failure
  <1>3. TranscriberInv'
    BY DEF IInv, Typed, TranscriberInv, BackendInv, HasTranscriber, HasBackend, Transcripts
  <1>4. LoadInv' /\ CallInv'
    BY SettingsKept DEF IInv, Typed, LoadInv, CallInv, TranscriberInv, HasTranscriber
  <1>5. UploadInv' /\ WavInv'
    BY DEF IInv, Typed, UploadInv, WavInv, UploadAfter
  <1>6. SampledInv'
    BY SettingsKept DEF IInv, Typed, SampledInv
  <1> QED
    BY <1>1, <1>2, <1>3, <1>4, <1>5, <1>6 DEF IInv

LEMMA OpenFileStep ==
    ASSUME IInv, NEW t \in Threads, OpenFile(t)
    PROVE  IInv'
  <1> USE DEF OpenFile, GoTo, Move, workerVars, cacheVars, modelVars, callVars, factoryVars
  <1>1. Typed' /\ StartedIn'
    BY SettingsKept, NoneAssumption DEF IInv, Typed
  <1>2. BackendInv' /\ ReceivedInv'
    BY NoneAssumption DEF IInv, Typed, BackendInv, ReceivedInv, Answered, Succeeded, HasBackend
  <1>3. TranscriberInv'
    BY DEF IInv, Typed, TranscriberInv, BackendInv, HasTranscriber, HasBackend, Transcripts, DoTranscribe, Embeds
  <1>4. LoadInv' /\ CallInv'
    BY SettingsKept DEF IInv, Typed, LoadInv, CallInv, TranscriberInv, HasTranscriber
  <1>5. UploadInv' /\ WavInv'
    BY DEF IInv, Typed, UploadInv, WavInv
  <1>6. SampledInv'
    BY SettingsKept DEF IInv, Typed, SampledInv
  <1> QED
    BY <1>1, <1>2, <1>3, <1>4, <1>5, <1>6 DEF IInv

LEMMA ReadTranscriberStep ==
    ASSUME IInv, NEW t \in Threads, ReadTranscriber(t)
    PROVE  IInv'
  <1> USE DEF ReadTranscriber, GoTo, Move, workerVars, cacheVars, modelVars, callVars, factoryVars
  <1>1. Typed' /\ StartedIn'
    BY SettingsKept, NoneAssumption DEF IInv, Typed, TranscriberInv
  <1>2. BackendInv' /\ ReceivedInv'
    BY NoneAssumption DEF IInv, Typed, BackendInv, ReceivedInv, Answered, Succeeded, HasBackend
  <1>3. TranscriberInv'
    BY DEF IInv, Typed, TranscriberInv, BackendInv, HasTranscriber, HasBackend, Transcripts
  <1>4. LoadInv' /\ CallInv'
    BY SettingsKept DEF IInv, Typed, LoadInv, CallInv, TranscriberInv, HasTranscriber
  <1>5. UploadInv' /\ WavInv'
    BY DEF IInv, Typed, UploadInv, WavInv
  <1>6. SampledInv'
    BY SettingsKept DEF IInv, Typed, SampledInv
  <1> QED
    BY <1>1, <1>2, <1>3, <1>4, <1>5, <1>6 DEF IInv

-----------------------------------------------------------------------------
\* transcription.py.

LEMMA LookUpStep ==
    ASSUME IInv, NEW t \in Threads, at[t] \in {"finding", "transcribing"}, LookUp(t),
           UNCHANGED <<workerVars, input, at, answer>>
    PROVE  IInv'
  <1> USE DEF LookUp, GoTo, cacheVars, modelVars, callVars, workerVars
  <1>1. Typed'
    BY NoneAssumption DEF IInv, Typed, factoryVars, TranscriberInv
  <1>2. TranscriberInv'
    BY NoneAssumption DEF IInv, Typed, TranscriberInv, HasTranscriber, Transcripts, factoryVars
  <1>3. LoadInv'
    BY SettingsKept DEF IInv, Typed, LoadInv, TranscriberInv, HasTranscriber
  <1>4. CallInv'
    BY SettingsKept DEF IInv, Typed, LoadInv, CallInv
  <1>5. WavInv'
    BY DEF IInv, Typed, WavInv
  <1> QED
    BY <1>1, <1>2, <1>3, <1>4, <1>5, RequestsKept DEF IInv

LEMMA UnknownBackendStep ==
    ASSUME IInv, NEW t \in Threads, at[t] \in {"finding", "transcribing"}, UnknownBackend(t),
           UNCHANGED <<workerVars, input, at, answer>>
    PROVE  IInv'
  <1> USE DEF UnknownBackend, GoTo, cacheVars, modelVars, callVars, workerVars
  <1>1. Typed'
    BY NoneAssumption DEF IInv, Typed, factoryVars, TranscriberInv
  <1>2. TranscriberInv'
    BY NoneAssumption DEF IInv, Typed, TranscriberInv, HasTranscriber, Transcripts, factoryVars
  <1>3. LoadInv'
    BY SettingsKept DEF IInv, Typed, LoadInv, TranscriberInv, HasTranscriber
  <1>4. CallInv'
    BY SettingsKept DEF IInv, Typed, LoadInv, CallInv
  <1>5. WavInv'
    BY DEF IInv, Typed, WavInv
  <1> QED
    BY <1>1, <1>2, <1>3, <1>4, <1>5, RequestsKept DEF IInv

LEMMA LookUpInnerStep ==
    ASSUME IInv, NEW t \in Threads, at[t] \in {"finding", "transcribing"}, LookUpInner(t),
           UNCHANGED <<workerVars, input, at, answer>>
    PROVE  IInv'
  <1> USE DEF LookUpInner, GoTo, cacheVars, modelVars, callVars, workerVars
  <1>1. Typed'
    BY NoneAssumption DEF IInv, Typed, factoryVars, TranscriberInv
  <1>2. TranscriberInv'
    BY NoneAssumption DEF IInv, Typed, TranscriberInv, HasTranscriber, Transcripts, factoryVars
  <1>3. LoadInv'
    BY SettingsKept DEF IInv, Typed, LoadInv, TranscriberInv, HasTranscriber
  <1>4. CallInv'
    BY SettingsKept DEF IInv, Typed, LoadInv, CallInv
  <1>5. WavInv'
    BY DEF IInv, Typed, WavInv
  <1> QED
    BY <1>1, <1>2, <1>3, <1>4, <1>5, RequestsKept DEF IInv

LEMMA MakeStep ==
    ASSUME IInv, NEW t \in Threads, at[t] \in {"finding", "transcribing"}, Make(t),
           UNCHANGED <<workerVars, input, at, answer>>
    PROVE  IInv'
  <1> USE DEF Make, GoTo, cacheVars, modelVars, callVars, Cached, workerVars
  <1>1. Typed'
    BY NoneAssumption DEF IInv, Typed, factoryVars, TranscriberInv
  <1>2. TranscriberInv'
    BY NoneAssumption DEF IInv, Typed, TranscriberInv, HasTranscriber, Transcripts, factoryVars
  <1>3. LoadInv'
    BY SettingsKept DEF IInv, Typed, LoadInv, TranscriberInv, HasTranscriber
  <1>4. CallInv'
    BY SettingsKept DEF IInv, Typed, LoadInv, CallInv
  <1>5. WavInv'
    BY DEF IInv, Typed, WavInv
  <1> QED
    BY <1>1, <1>2, <1>3, <1>4, <1>5, RequestsKept DEF IInv

LEMMA KeepStep ==
    ASSUME IInv, NEW t \in Threads, at[t] \in {"finding", "transcribing"}, Keep(t),
           UNCHANGED <<workerVars, input, at, answer>>
    PROVE  IInv'
  <1> USE DEF Keep, GoTo, cacheVars, modelVars, callVars, KeptFor, Cached, workerVars
  <1>1. Typed'
    BY NoneAssumption DEF IInv, Typed, factoryVars, TranscriberInv
  <1>2. TranscriberInv'
    BY NoneAssumption DEF IInv, Typed, TranscriberInv, HasTranscriber, Transcripts, factoryVars
  <1>3. LoadInv'
    BY SettingsKept DEF IInv, Typed, LoadInv, TranscriberInv, HasTranscriber
  <1>4. CallInv'
    BY SettingsKept DEF IInv, Typed, LoadInv, CallInv
  <1>5. WavInv'
    BY DEF IInv, Typed, WavInv
  <1> QED
    BY <1>1, <1>2, <1>3, <1>4, <1>5, RequestsKept DEF IInv

LEMMA GetLoadedStep ==
    ASSUME IInv, NEW t \in Threads, at[t] \in {"transcribing"}, GetLoaded(t),
           UNCHANGED <<workerVars, input, at, answer>>
    PROVE  IInv'
  <1> USE DEF GetLoaded, GoTo, cacheVars, modelVars, callVars, Loaded, workerVars
  <1>1. Typed'
    BY NoneAssumption DEF IInv, Typed, factoryVars, TranscriberInv
  <1>2. TranscriberInv'
    BY NoneAssumption DEF IInv, Typed, TranscriberInv, HasTranscriber, Transcripts, factoryVars
  <1>3. LoadInv'
    BY SettingsKept DEF IInv, Typed, LoadInv, TranscriberInv, HasTranscriber
  <1>4. CallInv'
    BY SettingsKept DEF IInv, Typed, LoadInv, CallInv
  <1>5. WavInv'
    BY DEF IInv, Typed, WavInv
  <1> QED
    BY <1>1, <1>2, <1>3, <1>4, <1>5, RequestsKept DEF IInv

LEMMA BeginLoadStep ==
    ASSUME IInv, NEW t \in Threads, at[t] \in {"transcribing"}, BeginLoad(t),
           UNCHANGED <<workerVars, input, at, answer>>
    PROVE  IInv'
  <1> USE DEF BeginLoad, GoTo, cacheVars, modelVars, callVars, Loaded, ResolvedBefore, workerVars
  <1>1. Typed'
    BY NoneAssumption DEF IInv, Typed, factoryVars, TranscriberInv
  <1>2. TranscriberInv'
    BY NoneAssumption DEF IInv, Typed, TranscriberInv, HasTranscriber, Transcripts, factoryVars
  <1>3. LoadInv'
    BY SettingsKept, ResolveTwice DEF IInv, Typed, LoadInv, TranscriberInv, HasTranscriber, TheDevice
  <1>4. CallInv'
    BY SettingsKept DEF IInv, Typed, LoadInv, CallInv, TheDevice
  <1>5. WavInv'
    BY DEF IInv, Typed, WavInv
  <1> QED
    BY <1>1, <1>2, <1>3, <1>4, <1>5, RequestsKept DEF IInv

LEMMA NotInstalledStep ==
    ASSUME IInv, NEW t \in Threads, at[t] \in {"transcribing"}, NotInstalled(t),
           UNCHANGED <<workerVars, input, at, answer>>
    PROVE  IInv'
  <1> USE DEF NotInstalled, GoTo, cacheVars, modelVars, callVars, Loaded, workerVars
  <1>1. Typed'
    BY NoneAssumption DEF IInv, Typed, factoryVars, TranscriberInv
  <1>2. TranscriberInv'
    BY NoneAssumption DEF IInv, Typed, TranscriberInv, HasTranscriber, Transcripts, factoryVars
  <1>3. LoadInv'
    BY SettingsKept DEF IInv, Typed, LoadInv, TranscriberInv, HasTranscriber
  <1>4. CallInv'
    BY SettingsKept DEF IInv, Typed, LoadInv, CallInv
  <1>5. WavInv'
    BY DEF IInv, Typed, WavInv
  <1> QED
    BY <1>1, <1>2, <1>3, <1>4, <1>5, RequestsKept DEF IInv

LEMMA EndLoadStep ==
    ASSUME IInv, NEW t \in Threads, at[t] \in {"transcribing"}, EndLoad(t),
           UNCHANGED <<workerVars, input, at, answer>>
    PROVE  IInv'
  <1> USE DEF EndLoad, GoTo, cacheVars, modelVars, callVars, workerVars
  <1>1. Typed'
    BY NoneAssumption DEF IInv, Typed, factoryVars, TranscriberInv
  <1>2. TranscriberInv'
    BY NoneAssumption DEF IInv, Typed, TranscriberInv, HasTranscriber, Transcripts, factoryVars
  <1>3. LoadInv'
    <2>1. device[uses[t]] = TheDevice /\ uses[t] \in Threads
      BY NoneAssumption DEF IInv, Typed, LoadInv, TranscriberInv, HasTranscriber
    <2>2. model' = [model EXCEPT ![uses[t]] = TheModel]
      BY <2>1, ResolveTwice DEF TheModel
    <2> QED
      BY <2>1, <2>2, SettingsKept DEF IInv, Typed, LoadInv
  <1>4. CallInv'
    BY SettingsKept DEF IInv, Typed, LoadInv, CallInv
  <1>5. WavInv'
    BY DEF IInv, Typed, WavInv
  <1> QED
    BY <1>1, <1>2, <1>3, <1>4, <1>5, RequestsKept DEF IInv

LEMMA LoadFailsStep ==
    ASSUME IInv, NEW t \in Threads, at[t] \in {"transcribing"}, LoadFails(t),
           UNCHANGED <<workerVars, input, at, answer>>
    PROVE  IInv'
  <1> USE DEF LoadFails, GoTo, cacheVars, modelVars, callVars, workerVars
  <1>1. Typed'
    BY NoneAssumption DEF IInv, Typed, factoryVars, TranscriberInv
  <1>2. TranscriberInv'
    BY NoneAssumption DEF IInv, Typed, TranscriberInv, HasTranscriber, Transcripts, factoryVars
  <1>3. LoadInv'
    BY SettingsKept DEF IInv, Typed, LoadInv, TranscriberInv, HasTranscriber
  <1>4. CallInv'
    BY SettingsKept DEF IInv, Typed, LoadInv, CallInv
  <1>5. WavInv'
    BY DEF IInv, Typed, WavInv
  <1> QED
    BY <1>1, <1>2, <1>3, <1>4, <1>5, RequestsKept DEF IInv

LEMMA PrepareStep ==
    ASSUME IInv, NEW t \in Threads, at[t] \in {"transcribing"}, Prepare(t),
           UNCHANGED <<workerVars, input, at, answer>>
    PROVE  IInv'
  <1> USE DEF Prepare, GoTo, cacheVars, modelVars, callVars, workerVars
  <1>1. Typed'
    BY NoneAssumption DEF IInv, Typed, factoryVars, TranscriberInv
  <1>2. TranscriberInv'
    BY NoneAssumption DEF IInv, Typed, TranscriberInv, HasTranscriber, Transcripts, factoryVars
  <1>3. LoadInv'
    BY SettingsKept DEF IInv, Typed, LoadInv, TranscriberInv, HasTranscriber
  <1>4. CallInv'
    <2>1. device[uses[t]] = TheDevice
      BY NoneAssumption DEF IInv, Typed, LoadInv, TranscriberInv, HasTranscriber
    <2>2. \/ settings.whisper = "openai" /\ (kwargs'[t].half <=> TheDevice = "cuda")
          \/ /\ settings.whisper # "openai"
             /\ kwargs'[t].tokens = MaxNewTokens(settings.override, machine.decoder,
                                                settings.language)
      BY <2>1 DEF IInv, Typed, Default
    <2> QED
      BY <2>2, SettingsKept DEF IInv, Typed, CallInv
  <1>5. WavInv'
    BY DEF IInv, Typed, WavInv
  <1> QED
    BY <1>1, <1>2, <1>3, <1>4, <1>5, RequestsKept DEF IInv

LEMMA ExtractStep ==
    ASSUME IInv, NEW t \in Threads, at[t] \in {"transcribing"}, Extract(t),
           UNCHANGED <<workerVars, input, at, answer>>
    PROVE  IInv'
  <1> USE DEF Extract, GoTo, cacheVars, modelVars, callVars, workerVars
  <1>1. Typed'
    BY NoneAssumption DEF IInv, Typed, factoryVars, TranscriberInv
  <1>2. TranscriberInv'
    BY NoneAssumption DEF IInv, Typed, TranscriberInv, HasTranscriber, Transcripts, factoryVars
  <1>3. LoadInv'
    BY SettingsKept DEF IInv, Typed, LoadInv, TranscriberInv, HasTranscriber
  <1>4. CallInv'
    BY SettingsKept DEF IInv, Typed, LoadInv, CallInv
  <1>5. WavInv'
    BY DEF IInv, Typed, WavInv
  <1> QED
    BY <1>1, <1>2, <1>3, <1>4, <1>5, RequestsKept DEF IInv

LEMMA ExtractNothingStep ==
    ASSUME IInv, NEW t \in Threads, at[t] \in {"transcribing"}, ExtractNothing(t),
           UNCHANGED <<workerVars, input, at, answer>>
    PROVE  IInv'
  <1> USE DEF ExtractNothing, GoTo, cacheVars, modelVars, callVars, workerVars
  <1>1. Typed'
    BY NoneAssumption DEF IInv, Typed, factoryVars, TranscriberInv
  <1>2. TranscriberInv'
    BY NoneAssumption DEF IInv, Typed, TranscriberInv, HasTranscriber, Transcripts, factoryVars
  <1>3. LoadInv'
    BY SettingsKept DEF IInv, Typed, LoadInv, TranscriberInv, HasTranscriber
  <1>4. CallInv'
    BY SettingsKept DEF IInv, Typed, LoadInv, CallInv
  <1>5. WavInv'
    BY DEF IInv, Typed, WavInv
  <1> QED
    BY <1>1, <1>2, <1>3, <1>4, <1>5, RequestsKept DEF IInv

LEMMA ExtractFailsStep ==
    ASSUME IInv, NEW t \in Threads, at[t] \in {"transcribing"}, ExtractFails(t),
           UNCHANGED <<workerVars, input, at, answer>>
    PROVE  IInv'
  <1> USE DEF ExtractFails, GoTo, cacheVars, modelVars, callVars, ExtractError, Errors, workerVars
  <1>1. Typed'
    BY NoneAssumption DEF IInv, Typed, factoryVars, TranscriberInv
  <1>2. TranscriberInv'
    BY NoneAssumption DEF IInv, Typed, TranscriberInv, HasTranscriber, Transcripts, factoryVars
  <1>3. LoadInv'
    BY SettingsKept DEF IInv, Typed, LoadInv, TranscriberInv, HasTranscriber
  <1>4. CallInv'
    BY SettingsKept DEF IInv, Typed, LoadInv, CallInv
  <1>5. WavInv'
    BY DEF IInv, Typed, WavInv
  <1> QED
    BY <1>1, <1>2, <1>3, <1>4, <1>5, RequestsKept DEF IInv

LEMMA HearStep ==
    ASSUME IInv, NEW t \in Threads, at[t] \in {"transcribing"}, Hear(t),
           UNCHANGED <<workerVars, input, at, answer>>
    PROVE  IInv'
  <1> USE DEF Hear, GoTo, cacheVars, modelVars, callVars, EndCall, Removed, workerVars
  <1>1. Typed'
    BY NoneAssumption DEF IInv, Typed, factoryVars, TranscriberInv
  <1>2. TranscriberInv'
    BY NoneAssumption DEF IInv, Typed, TranscriberInv, HasTranscriber, Transcripts, factoryVars
  <1>3. LoadInv'
    BY SettingsKept DEF IInv, Typed, LoadInv, TranscriberInv, HasTranscriber
  <1>4. CallInv'
    BY SettingsKept DEF IInv, Typed, LoadInv, CallInv
  <1>5. WavInv'
    BY DEF IInv, Typed, WavInv
  <1> QED
    BY <1>1, <1>2, <1>3, <1>4, <1>5, RequestsKept DEF IInv

LEMMA RunFailsStep ==
    ASSUME IInv, NEW t \in Threads, at[t] \in {"transcribing"}, RunFails(t),
           UNCHANGED <<workerVars, input, at, answer>>
    PROVE  IInv'
  <1> USE DEF RunFails, GoTo, cacheVars, modelVars, callVars, EndCall, Removed, workerVars
  <1>1. Typed'
    BY NoneAssumption DEF IInv, Typed, factoryVars, TranscriberInv
  <1>2. TranscriberInv'
    BY NoneAssumption DEF IInv, Typed, TranscriberInv, HasTranscriber, Transcripts, factoryVars
  <1>3. LoadInv'
    BY SettingsKept DEF IInv, Typed, LoadInv, TranscriberInv, HasTranscriber
  <1>4. CallInv'
    BY SettingsKept DEF IInv, Typed, LoadInv, CallInv
  <1>5. WavInv'
    BY DEF IInv, Typed, WavInv
  <1> QED
    BY <1>1, <1>2, <1>3, <1>4, <1>5, RequestsKept DEF IInv

LEMMA RunNeedsWavStep ==
    ASSUME IInv, NEW t \in Threads, at[t] \in {"transcribing"}, RunNeedsWav(t),
           UNCHANGED <<workerVars, input, at, answer>>
    PROVE  IInv'
  <1> USE DEF RunNeedsWav, GoTo, cacheVars, modelVars, callVars, workerVars
  <1>1. Typed'
    BY NoneAssumption DEF IInv, Typed, factoryVars, TranscriberInv
  <1>2. TranscriberInv'
    BY NoneAssumption DEF IInv, Typed, TranscriberInv, HasTranscriber, Transcripts, factoryVars
  <1>3. LoadInv'
    BY SettingsKept DEF IInv, Typed, LoadInv, TranscriberInv, HasTranscriber
  <1>4. CallInv'
    BY SettingsKept DEF IInv, Typed, LoadInv, CallInv
  <1>5. WavInv'
    BY DEF IInv, Typed, WavInv
  <1> QED
    BY <1>1, <1>2, <1>3, <1>4, <1>5, RequestsKept DEF IInv

LEMMA CallTranscriptionStep ==
    ASSUME IInv, NEW t \in Threads, CallTranscription(t)
    PROVE  IInv'
  <1>1. CASE at[t] \in {"finding", "transcribing"} /\ GetTranscriber(t)
    BY <1>1, LookUpStep, UnknownBackendStep, LookUpInnerStep, MakeStep, KeepStep
       DEF CallTranscription, GetTranscriber
  <1>2. CASE at[t] = "transcribing" /\ Transcribe(t)
    BY <1>2, GetLoadedStep, BeginLoadStep, NotInstalledStep, EndLoadStep, LoadFailsStep,
       PrepareStep, ExtractStep, ExtractNothingStep, ExtractFailsStep, HearStep, RunFailsStep,
       RunNeedsWavStep
       DEF CallTranscription, Transcribe
  <1> QED
    BY <1>1, <1>2 DEF CallTranscription

-----------------------------------------------------------------------------

LEMMA InitIInv == Init => IInv
  <1> SUFFICES ASSUME Init PROVE IInv
    OBVIOUS
  <1> USE DEF Init, TranscriptionInit
  <1>1. Typed /\ StartedIn
    BY DEF Typed, StartedIn
  <1>2. BackendInv /\ ReceivedInv
    BY DEF BackendInv, ReceivedInv, NoResponse, Answered, Succeeded, HasBackend
  <1>3. TranscriberInv
    BY NoneAssumption DEF TranscriberInv, HasTranscriber, Transcripts
  <1>4. LoadInv /\ CallInv
    BY DEF LoadInv, CallInv
  <1>5. UploadInv /\ WavInv /\ SampledInv
    BY DEF UploadInv, WavInv, SampledInv
  <1> QED
    BY <1>1, <1>2, <1>3, <1>4, <1>5 DEF IInv

LEMMA IdleStep ==
    ASSUME IInv, UNCHANGED vars
    PROVE  IInv'
  <1> USE DEF vars
  <1>1. Typed' /\ TranscriberInv' /\ WavInv'
    BY DEF IInv, Typed, TranscriberInv, WavInv, workerVars, transcriptionVars, factoryVars
  <1>2. LoadInv' /\ CallInv'
    BY TranscriptionKept DEF IInv, workerVars
  <1> QED
    BY <1>1, <1>2, RequestsKept DEF IInv

LEMMA NextIInv == IInv /\ [Next]_vars => IInv'
  <1> SUFFICES ASSUME IInv, [Next]_vars PROVE IInv'
    OBVIOUS
  <1>1. ASSUME NEW t \in Threads, NEW r \in Inputs, Receive(t, r) \/ Refuse(t, r)
        PROVE  IInv'
    BY <1>1, ReceiveStep, RefuseStep
  <1>2. ASSUME NEW t \in Threads, Serve(t)
        PROVE  IInv'
    BY <1>2, DeterministicBackendStep, UnknownBackendNameStep, CheckCacheStep, BuildStep,
       PublishKeyStep, ReturnCachedStep, MissingFileStep, OpenFileStep, AssignTranscriberStep,
       ReadTranscriberStep, CallTranscriptionStep, TranscribedStep, TranscriptionFailedStep,
       ReadFramesStep, EmbedByHashStep, FileVanishedStep, EmbedByModelStep, ModelFailsStep
       DEF Serve
  <1> QED
    BY <1>1, <1>2, IdleStep DEF Next, Idle

THEOREM Invariance == Spec => []IInv
  BY InitIInv, NextIInv, PTL DEF Spec

\* The temporary files: a request that is over has left no upload, and the wav
\* file of a transcription is left by a failed ffmpeg only (transcribe_audio's
\* and transcribe's finally).
THEOREM TempFilesGoneAlways == Spec => []TempFilesGone
  <1>1. IInv => TempFilesGone
    BY DEF IInv, UploadInv, WavInv, TempFilesGone
  <1> QED
    BY <1>1, Invariance, PTL

-----------------------------------------------------------------------------
\* The precision of the model and of its calls.

LEMMA DeviceIs ==
    /\ settings.whisperDevice # "auto" => TheDevice = settings.whisperDevice
    /\ settings.whisperDevice = "auto" => (TheDevice = "cuda" <=> "cuda" \in machine.gpus)
  BY DEF TheDevice, Resolve, DefaultDevice

\* Whoever loads the model, and however many do so at once: it has the device
\* asked for, half precision on CUDA only, and its calls are told the same
\* (_get_model, _get_pipeline, _default_whisper_dtype, transcribe).
THEOREM HalfOnlyOnCudaAlways == Spec => []HalfOnlyOnCuda
  <1>1. IInv => HalfOnlyOnCuda
    <2> SUFFICES ASSUME IInv PROVE HalfOnlyOnCuda
      OBVIOUS
    <2>1. ASSUME NEW t \in Threads, step[t] = "running", settings.whisper = "openai"
          PROVE  kwargs[t].half <=> model[uses[t]].device = "cuda"
      BY <2>1 DEF IInv, LoadInv, CallInv, TheModel
    <2>2. ASSUME NEW x \in Threads, model[x] # None
          PROVE  model[x].device = TheDevice /\ model[x].dtype = Dtype(TheDevice)
      BY <2>2 DEF IInv, LoadInv, TheModel
    <2>3. settings.dtype = "auto" => (Dtype(TheDevice) = "float16" <=> TheDevice = "cuda")
      BY DEF Dtype
    <2> QED
      BY <2>1, <2>2, <2>3, DeviceIs DEF HalfOnlyOnCuda
  <1> QED
    BY <1>1, Invariance, PTL

-----------------------------------------------------------------------------
\* The tokens of a generation.

LEMMA TokensOf ==
    ASSUME NEW decoder, decoder.positions \in Int, decoder.prompt \in Int,
           NEW override \in Int, NEW language,
           NEW tokens, tokens = MaxNewTokens(override, decoder, language),
           NEW prompt, prompt = 1 + decoder.prompt
    PROVE  /\ override > 0 => tokens \in 1..override
           /\ decoder.prompt >= 0 /\ prompt + 1 < decoder.positions =>
                 /\ prompt + tokens < decoder.positions
                 /\ CutsShort(decoder) => tokens > 0
  <1>1. PromptLen(decoder, language) \in Int
    BY DEF PromptLen
  <1>2. decoder.prompt >= 0 => PromptLen(decoder, language) = prompt
    BY DEF PromptLen
  <1>3. DEFINE budget == TokenBudget(decoder, language)
  <1>4. budget \in Nat
    BY <1>1 DEF TokenBudget
  <1>5. decoder.prompt >= 0 /\ prompt + 1 < decoder.positions =>
           budget = decoder.positions - prompt - 1 /\ budget > 0 /\ decoder.positions > 0
    BY <1>1, <1>2 DEF TokenBudget
  <1>6. tokens = IF override > 0
                 THEN IF budget = 0 \/ override < budget THEN override ELSE budget
                 ELSE IF decoder.positions > 0 /\ CutsShort(decoder) THEN budget ELSE 0
    BY DEF MaxNewTokens
  <1> HIDE DEF budget
  <1> QED
    BY <1>4, <1>5, <1>6

\* The tokens asked of a generation fit into the decoder behind its prompt, and
\* a model whose configuration would cut a transcript short gets a limit
\* (_default_max_new_tokens_for_pipeline).
THEOREM TokensFitAlways == Spec => []TokensFit
  <1>1. IInv => TokensFit
    <2> SUFFICES ASSUME IInv, NEW t \in Threads, step[t] = "running",
                        settings.whisper = "transformers"
                 PROVE  LET tokens == kwargs[t].tokens
                            prompt == 1 + machine.decoder.prompt
                            room == /\ machine.decoder.prompt >= 0
                                    /\ prompt + 1 < machine.decoder.positions
                        IN  /\ room => prompt + tokens < machine.decoder.positions
                            /\ room /\ CutsShort(machine.decoder) => tokens > 0
                            /\ settings.override > 0 => tokens \in 1..settings.override
      BY DEF TokensFit
    <2>1. kwargs[t].tokens = MaxNewTokens(settings.override, machine.decoder, settings.language)
      BY DEF IInv, CallInv
    <2>2. /\ machine.decoder.positions \in Int /\ machine.decoder.prompt \in Int
          /\ settings.override \in Int
      BY WorkerAssumption DEF IInv, StartedIn
    <2> QED
      BY <2>1, <2>2, TokensOf
  <1> QED
    BY <1>1, Invariance, PTL

-----------------------------------------------------------------------------
\* The frames of a video.

LEMMA ParamsOf ==
    ASSUME NEW duration \in Nat, NEW fps \in Int, NEW cap \in Int, NEW target \in Int,
           NEW p, p = SamplingParams(duration, fps, cap, target)
    PROVE  /\ p.frames \in Int /\ p.frames >= 1
           /\ cap > 0 => p.frames <= cap
           /\ target > 0 => p.frames <= target
           /\ target > 0 /\ duration > 0 => p.fps = [num |-> p.frames, den |-> duration]
  BY DEF SamplingParams, FrameCap, Target, Smaller, Rate

LEMMA SpreadOver ==
    ASSUME NEW duration \in Nat, duration > 0, NEW p, p.frames \in Int, p.frames >= 1,
           p.fps = [num |-> p.frames, den |-> duration]
    PROVE  \A i \in Int : Timestamp(p, i) = [num |-> i * duration, den |-> p.frames]
  BY DEF Timestamp, UsableRate

\* The frames asked of a video keep to both limits and are spread evenly over
\* the whole of it (_compute_video_sampling_params and the timestamps of
\* _extract_video_frames_ffmpeg).
THEOREM FramesCoverAlways == Spec => []FramesCover
  <1>1. IInv => FramesCover
    <2> SUFFICES ASSUME IInv, NEW t \in Threads, sampled[t] # None
                 PROVE  LET p == sampled[t].params
                            Before(moment, duration) == moment.num < duration * moment.den
                        IN  /\ p.frames >= 1
                            /\ settings.maxFrames > 0 => p.frames <= settings.maxFrames
                            /\ settings.targetFrames > 0 => p.frames <= settings.targetFrames
                            /\ settings.targetFrames > 0 /\ input[t].duration > 0 =>
                                  /\ Before(Timestamp(p, p.frames - 1), input[t].duration)
                                  /\ ~Before(Timestamp(p, p.frames), input[t].duration)
      BY DEF FramesCover
    <2> DEFINE p == sampled[t].params
               duration == input[t].duration
    <2>1. p = SamplingParams(duration, settings.fps, settings.maxFrames, settings.targetFrames)
      <3>1. sampled[t] = Sampling(t)
        BY DEF IInv, SampledInv
      <3>2. \A a, b : [params |-> a, extract |-> b].params = a
        OBVIOUS
      <3> QED
        BY <3>1, <3>2 DEF Sampling
    <2>2. /\ duration \in Nat
          /\ {settings.fps, settings.maxFrames, settings.targetFrames} \subseteq Int
      BY WorkerAssumption DEF IInv, StartedIn, ReceivedInv, SampledInv
    <2> HIDE DEF p, duration
    <2>3. /\ p.frames \in Int /\ p.frames >= 1
          /\ settings.maxFrames > 0 => p.frames <= settings.maxFrames
          /\ settings.targetFrames > 0 => p.frames <= settings.targetFrames
          /\ settings.targetFrames > 0 /\ duration > 0 =>
                p.fps = [num |-> p.frames, den |-> duration]
      BY <2>1, <2>2, ParamsOf
    <2>4. ASSUME settings.targetFrames > 0, duration > 0
          PROVE  /\ Timestamp(p, p.frames - 1).num < duration * Timestamp(p, p.frames - 1).den
                 /\ ~(Timestamp(p, p.frames).num < duration * Timestamp(p, p.frames).den)
      <3>1. /\ Timestamp(p, p.frames - 1) = [num |-> (p.frames - 1) * duration, den |-> p.frames]
            /\ Timestamp(p, p.frames) = [num |-> p.frames * duration, den |-> p.frames]
        BY <2>2, <2>3, <2>4, SpreadOver
      <3>2. (p.frames - 1) * duration < duration * p.frames
        BY <2>2, <2>3, <2>4
      <3>3. ~(p.frames * duration < duration * p.frames)
        BY <2>2, <2>3
      <3> QED
        BY <3>1, <3>2, <3>3
    <2> QED
      BY <2>3, <2>4 DEF p, duration
  <1> QED
    BY <1>1, Invariance, PTL

-----------------------------------------------------------------------------
\* What is warm stays warm.

\* Only CheckCache sends a request to build a backend.
LEMMA BuildingIsAMiss ==
    ASSUME IInv, [Next]_vars, NEW t \in Threads, at[t] = "backend", at'[t] = "building"
    PROVE  CheckCache(t)
  <1> USE DEF Move, Reply
  <1>1. ASSUME NEW u \in Threads, NEW place, at' = [at EXCEPT ![u] = place], place # "building"
        PROVE  FALSE
    BY <1>1 DEF IInv, Typed
  <1>2. ASSUME UNCHANGED at PROVE FALSE
    BY <1>2
  <1>3. ASSUME NEW u \in Threads, NEW r \in Inputs, Receive(u, r) \/ Refuse(u, r) PROVE FALSE
    <2>1. FirstStep(r) # "building"
      BY DEF FirstStep
    <2> QED
      BY <1>1, <1>3, <2>1 DEF Receive, Refuse
  <1>4. ASSUME NEW u \in Threads, Serve(u) PROVE CheckCache(t)
    <2>1. AfterBackend(u) # "building"
      BY DEF AfterBackend
    <2>2. CASE DeterministicBackend(u) \/ PublishKey(u) \/ ReturnCached(u)
      BY <1>1, <2>1, <2>2 DEF DeterministicBackend, PublishKey, ReturnCached
    <2>3. CASE UnknownBackendName(u) \/ MissingFile(u) \/ TranscriptionFailed(u) \/ EmbedByHash(u)
               \/ FileVanished(u) \/ EmbedByModel(u) \/ ModelFails(u)
      BY <1>1, <2>3 DEF UnknownBackendName, MissingFile, TranscriptionFailed, EmbedByHash,
                        FileVanished, EmbedByModel, ModelFails
    <2>4. CASE Build(u) \/ OpenFile(u) \/ AssignTranscriber(u) \/ ReadTranscriber(u)
               \/ Transcribed(u) \/ ReadFrames(u)
      BY <1>1, <2>4 DEF Build, OpenFile, AssignTranscriber, ReadTranscriber, Transcribed,
                        ReadFrames
    <2>5. CASE CallTranscription(u)
      BY <1>2, <2>5 DEF CallTranscription
    <2>6. CASE CheckCache(u)
      BY <2>6 DEF CheckCache, IInv, Typed
    <2> QED
      BY <1>4, <2>2, <2>3, <2>4, <2>5, <2>6 DEF Serve
  <1> QED
    BY <1>2, <1>3, <1>4 DEF Next, Idle, vars

\* The steps of a request are no steps of a load, and start no miss.
LEMMA OutsideTranscription ==
    ASSUME IInv, [Next]_vars, ~(\E u \in Threads : CallTranscription(u))
    PROVE  /\ UNCHANGED model
           /\ \/ UNCHANGED step
              \/ \E u \in Threads, s \in {"lookup", "have"} : GoTo(u, s)
  <1> USE DEF transcriptionVars, modelVars
  <1>1. ASSUME NEW u \in Threads, NEW r \in Inputs, Receive(u, r) \/ Refuse(u, r)
        PROVE  UNCHANGED model /\ (UNCHANGED step \/ GoTo(u, "lookup"))
    BY <1>1 DEF Receive, Refuse
  <1>2. ASSUME NEW u \in Threads, Serve(u)
        PROVE  UNCHANGED model /\ (UNCHANGED step \/ GoTo(u, "lookup") \/ GoTo(u, "have"))
    <2>1. CASE OpenFile(u) \/ ReadTranscriber(u)
      BY <2>1 DEF OpenFile, ReadTranscriber
    <2>2. CASE UNCHANGED transcriptionVars
      BY <2>2
    <2> QED
      BY <1>2, <2>1, <2>2
         DEF Serve, DeterministicBackend, UnknownBackendName, CheckCache, Build, PublishKey,
             ReturnCached, MissingFile, AssignTranscriber, Transcribed, TranscriptionFailed,
             ReadFrames, EmbedByHash, FileVanished, EmbedByModel, ModelFails
  <1> QED
    BY <1>1, <1>2 DEF Next, Idle, vars

\* Only LookUp misses the outer cache.
LEMMA MissingIsALookUp ==
    ASSUME IInv, [Next]_vars, NEW t \in Threads, step[t] = "lookup", step'[t] = "missed"
    PROVE  outerCache = None
  <1> USE DEF GoTo
  <1>1. ASSUME NEW u \in Threads, NEW s, step' = [step EXCEPT ![u] = s], s # "missed"
        PROVE  FALSE
    BY <1>1 DEF IInv, Typed
  <1>2. ASSUME NEW u \in Threads, CallTranscription(u)
        PROVE  outerCache = None
    <2>1. CASE LookUp(u)
      BY <1>1, <2>1 DEF LookUp
    <2>2. CASE UnknownBackend(u) \/ LookUpInner(u) \/ Make(u) \/ Keep(u)
      BY <1>1, <2>2 DEF UnknownBackend, LookUpInner, Make, Keep
    <2>3. CASE Transcribe(u)
      BY <1>1, <2>3 DEF Transcribe, GetLoaded, BeginLoad, NotInstalled, EndLoad, LoadFails,
                        Prepare, Extract, ExtractNothing, ExtractFails, Hear, RunFails,
                        RunNeedsWav, EndCall, Errors
    <2> QED
      BY <1>2, <2>1, <2>2, <2>3 DEF CallTranscription, GetTranscriber
  <1> QED
    BY <1>1, <1>2, OutsideTranscription

\* Only EndLoad touches a model, and it puts in its place what all loads load.
LEMMA LoadsAgree ==
    ASSUME IInv, [Next]_vars, NEW x \in Threads, model[x] # None
    PROVE  model'[x] = model[x]
  <1>1. ASSUME NEW u \in Threads, EndLoad(u)
        PROVE  model'[x] = model[x]
    <2>1. device[uses[u]] = TheDevice /\ uses[u] \in Threads
      BY <1>1, NoneAssumption DEF EndLoad, IInv, Typed, LoadInv, TranscriberInv, HasTranscriber
    <2>2. model' = [model EXCEPT ![uses[u]] = TheModel]
      BY <1>1, <2>1, ResolveTwice DEF EndLoad, TheModel
    <2> QED
      BY <2>1, <2>2 DEF IInv, Typed, LoadInv
  <1>2. ASSUME NEW u \in Threads, CallTranscription(u), ~EndLoad(u)
        PROVE  UNCHANGED model
    BY <1>2 DEF modelVars, CallTranscription, GetTranscriber, LookUp, UnknownBackend, LookUpInner,
                Make, Keep, Transcribe, GetLoaded, BeginLoad, NotInstalled, LoadFails, Prepare,
                Extract, ExtractNothing, ExtractFails, Hear, RunFails, RunNeedsWav, EndCall
  <1> QED
    BY <1>1, <1>2, OutsideTranscription

\* After an answer of a backend no request builds another one, after a
\* transcript none makes another transcriber, and a model that is loaded is
\* replaced by its equal only (get_backend, get_whisper_transcriber,
\* _get_model and _get_pipeline, none of which takes a lock).
THEOREM WarmStaysAlways == Spec => WarmStays
  <1> DEFINE Stays == /\ \A t \in Threads : Warm(t)
                      /\ \A x \in Threads : model[x] # None => model'[x] = model[x]
  <1>1. IInv /\ [Next]_vars => [Stays]_vars
    <2> SUFFICES ASSUME IInv, [Next]_vars, ~(UNCHANGED vars) PROVE Stays
      OBVIOUS
    <2>1. ASSUME NEW t \in Threads, at[t] = "backend", at'[t] = "building"
          PROVE  \A u \in Threads : ~(Succeeded(u) /\ input[u].endpoint \in Embeds)
      BY <2>1, BuildingIsAMiss DEF CheckCache, Move, IInv, Typed, BackendInv
    <2>2. ASSUME NEW t \in Threads, step[t] = "lookup", step'[t] = "missed"
          PROVE  \A u \in Threads : result[u] \notin Transcripts
      BY <2>2, MissingIsALookUp DEF IInv, TranscriberInv
    <2>3. ASSUME NEW x \in Threads, model[x] # None
          PROVE  model'[x] = model[x]
      BY <2>3, LoadsAgree
    <2> QED
      BY <2>1, <2>2, <2>3 DEF Warm
  <1>2. Spec => [][Stays]_vars
    BY <1>1, Invariance, PTL DEF Spec
  <1> QED
    BY <1>2 DEF WarmStays

-----------------------------------------------------------------------------
\* The vectors of the deterministic backend.

Below == {p \in Nat \X Nat : p[1] < p[2]}

LEMMA LeastNumber ==
    ASSUME NEW T, T \subseteq Nat, T # {}
    PROVE  \E x \in T : \A y \in T : x <= y
  <1>1. Below = OpToRel(<, Nat)
    BY DEF Below, OpToRel
  <1>2. IsWellFoundedOn(Below, Nat)
    BY <1>1, NatLessThanWellFounded
  <1>3. \E x \in T : \A y \in T : ~ (<<y, x>> \in Below)
    BY <1>2, WFMin
  <1>4. \A x, y \in Nat : ~(<<y, x>> \in Below) => x <= y
    BY DEF Below
  <1> QED
    BY <1>3, <1>4

\* The first n words that have a sign and are hashed to the component i.
Cast(words, dims, n, i, sign) ==
    {m \in 1..n : Slot(words[m], dims) = i /\ Sign[words[m]] = sign}

Tally(words, dims, n, i) ==
    Cardinality(Cast(words, dims, n, i, 1)) - Cardinality(Cast(words, dims, n, i, -1))

LEMMA CastFinite ==
    ASSUME NEW words, NEW dims, NEW n \in Nat, NEW i, NEW sign
    PROVE  /\ IsFiniteSet(Cast(words, dims, n, i, sign))
           /\ Cardinality(Cast(words, dims, n, i, sign)) \in Nat
  <1>1. IsFiniteSet(1..n)
    BY FS_Interval
  <1>2. Cast(words, dims, n, i, sign) \subseteq 1..n
    BY DEF Cast
  <1> QED
    BY <1>1, <1>2, FS_Subset, FS_CardinalityType

\* One more word is counted once, where it is hashed to and by its sign.
LEMMA CastOneMore ==
    ASSUME NEW words, NEW dims, NEW n \in Nat \ {0}, NEW i, NEW sign
    PROVE  Cardinality(Cast(words, dims, n, i, sign)) =
              Cardinality(Cast(words, dims, n - 1, i, sign)) +
                 (IF Slot(words[n], dims) = i /\ Sign[words[n]] = sign THEN 1 ELSE 0)
  <1> DEFINE before == Cast(words, dims, n - 1, i, sign)
             after == Cast(words, dims, n, i, sign)
  <1>1. IsFiniteSet(before) /\ Cardinality(before) \in Nat
    BY CastFinite
  <1>2. 1..n = 1..(n - 1) \cup {n} /\ n \notin 1..(n - 1)
    OBVIOUS
  <1>3. CASE Slot(words[n], dims) = i /\ Sign[words[n]] = sign
    <2>1. after = before \cup {n} /\ n \notin before
      BY <1>2, <1>3 DEF Cast
    <2>2. Cardinality(before \cup {n}) = Cardinality(before) + 1
      <3> HIDE DEF before
      <3> QED
        BY <1>1, <2>1, FS_AddElement
    <2> QED
      BY <1>3, <2>1, <2>2
  <1>4. CASE ~(Slot(words[n], dims) = i /\ Sign[words[n]] = sign)
    <2>1. after = before
      BY <1>2, <1>4 DEF Cast
    <2> QED
      BY <1>1, <1>4, <2>1
  <1> QED
    BY <1>3, <1>4

LEMMA TallyOneMore ==
    ASSUME NEW words \in Seq(DOMAIN Hash), NEW dims, NEW n \in 1..Len(words), NEW i
    PROVE  /\ Tally(words, dims, n, i) \in Int
           /\ Tally(words, dims, n - 1, i) \in Int
           /\ Tally(words, dims, n, i) =
                 IF Slot(words[n], dims) = i
                 THEN Tally(words, dims, n - 1, i) + Sign[words[n]]
                 ELSE Tally(words, dims, n - 1, i)
  <1>1. n \in Nat \ {0} /\ n - 1 \in Nat /\ Sign[words[n]] \in {1, -1}
    BY HashAssumption
  <1>2. PICK p1 \in Nat, q1 \in Nat : /\ p1 = Cardinality(Cast(words, dims, n - 1, i, 1))
                                      /\ q1 = Cardinality(Cast(words, dims, n - 1, i, -1))
    BY <1>1, CastFinite
  <1>3. Cardinality(Cast(words, dims, n, i, 1)) =
           p1 + (IF Slot(words[n], dims) = i /\ Sign[words[n]] = 1 THEN 1 ELSE 0)
    BY <1>1, <1>2, CastOneMore
  <1>4. Cardinality(Cast(words, dims, n, i, -1)) =
           q1 + (IF Slot(words[n], dims) = i /\ Sign[words[n]] = -1 THEN 1 ELSE 0)
    BY <1>1, <1>2, CastOneMore
  <1>5. Tally(words, dims, n - 1, i) = p1 - q1
    BY <1>2 DEF Tally
  <1>6. CASE Sign[words[n]] = 1
    BY <1>3, <1>4, <1>5, <1>6 DEF Tally
  <1>7. CASE Sign[words[n]] = -1
    BY <1>3, <1>4, <1>5, <1>7 DEF Tally
  <1> QED
    BY <1>1, <1>6, <1>7

LEMMA TallyOfNone ==
    ASSUME NEW words, NEW dims, NEW i
    PROVE  Tally(words, dims, 0, i) = 0
  <1>1. Cast(words, dims, 0, i, 1) = {} /\ Cast(words, dims, 0, i, -1) = {}
    BY DEF Cast
  <1> QED
    BY <1>1, FS_EmptySet DEF Tally

\* The recursion of caption_embedding, and that it has one solution.
Counting(words, dims, counts) ==
    counts = [n \in 0..Len(words) |->
                 IF n = 0 THEN [i \in 1..dims |-> 0]
                 ELSE [counts[n - 1] EXCEPT ![Slot(words[n], dims)] = @ + Sign[words[n]]]]

CountedAt(words, dims, counts, n) ==
    [counts[n - 1] EXCEPT ![Slot(words[n], dims)] = @ + Sign[words[n]]]

LEMMA CountingSteps ==
    ASSUME NEW words \in Seq(DOMAIN Hash), NEW dims, NEW counts, Counting(words, dims, counts)
    PROVE  /\ counts[0] = [i \in 1..dims |-> 0]
           /\ \A n \in 1..Len(words) : counts[n] = CountedAt(words, dims, counts, n)
  <1>1. \A n \in 0..Len(words) : counts[n] =
           IF n = 0 THEN [i \in 1..dims |-> 0] ELSE CountedAt(words, dims, counts, n)
    BY DEF Counting, CountedAt
  <1>2. 0 \in 0..Len(words) /\ \A n \in 1..Len(words) : n \in 0..Len(words) /\ n # 0
    OBVIOUS
  <1>3. counts[0] = [i \in 1..dims |-> 0]
    BY <1>1, <1>2
  <1>4. ASSUME NEW n \in 1..Len(words)
        PROVE  counts[n] = CountedAt(words, dims, counts, n)
    BY <1>1, <1>2
  <1> QED
    BY <1>3, <1>4

LEMMA TallyCounts ==
    ASSUME NEW words \in Seq(DOMAIN Hash), NEW dims \in Nat \ {0}
    PROVE  Counting(words, dims,
                    [n \in 0..Len(words) |-> [i \in 1..dims |-> Tally(words, dims, n, i)]])
  <1> DEFINE g == [n \in 0..Len(words) |-> [i \in 1..dims |-> Tally(words, dims, n, i)]]
  <1>1. g[0] = [i \in 1..dims |-> 0]
    BY TallyOfNone
  <1>2. ASSUME NEW n \in 0..Len(words), n # 0
        PROVE  g[n] = [g[n - 1] EXCEPT ![Slot(words[n], dims)] = @ + Sign[words[n]]]
    <2>1. n \in 1..Len(words) /\ n - 1 \in 0..Len(words)
      BY <1>2
    <2>2. g[n - 1] = [i \in 1..dims |-> Tally(words, dims, n - 1, i)]
      BY <2>1
    <2>3. \A i \in 1..dims : Tally(words, dims, n, i) =
              IF Slot(words[n], dims) = i
              THEN Tally(words, dims, n - 1, i) + Sign[words[n]]
              ELSE Tally(words, dims, n - 1, i)
      BY <2>1, TallyOneMore
    <2> QED
      BY <2>2, <2>3
  <1> HIDE DEF g
  <1>3. g = [n \in 0..Len(words) |-> g[n]]
    BY DEF g
  <1> QED
    BY <1>1, <1>2, <1>3 DEF Counting, g

LEMMA CountsAreTallies ==
    ASSUME NEW words \in Seq(DOMAIN Hash), NEW dims \in Nat \ {0}
    PROVE  SignedCounts(words, dims) = [i \in 1..dims |-> Tally(words, dims, Len(words), i)]
  <1> DEFINE L == Len(words)
             f == CHOOSE counts : Counting(words, dims, counts)
             g == [n \in 0..L |-> [i \in 1..dims |-> Tally(words, dims, n, i)]]
  <1>1. Counting(words, dims, g) /\ Counting(words, dims, f)
    BY TallyCounts
  <1>2. SignedCounts(words, dims) = f[L]
    BY DEF SignedCounts, Counting
  <1> HIDE DEF f, g
  <1>3. /\ L \in Nat /\ f[0] = g[0]
        /\ \A n \in 1..L : /\ f[n] = CountedAt(words, dims, f, n)
                           /\ g[n] = CountedAt(words, dims, g, n)
    <2>1. L \in Nat
      OBVIOUS
    <2>2. /\ f[0] = [i \in 1..dims |-> 0]
          /\ \A n \in 1..L : f[n] = CountedAt(words, dims, f, n)
      BY <1>1, CountingSteps
    <2>3. /\ g[0] = [i \in 1..dims |-> 0]
          /\ \A n \in 1..L : g[n] = CountedAt(words, dims, g, n)
      BY <1>1, CountingSteps
    <2> QED
      BY <2>1, <2>2, <2>3
  <1> DEFINE differ == {n \in 0..L : f[n] # g[n]}
  <1>4. differ = {}
    <2> SUFFICES ASSUME differ # {} PROVE FALSE
      OBVIOUS
    <2>0. differ \subseteq Nat
      BY <1>3
    <2>1. PICK n \in differ : \A m \in differ : n <= m
      <3> HIDE DEF differ
      <3> QED
        BY <2>0, LeastNumber
    <2>2. n \in 1..L /\ n - 1 \in 0..L /\ n - 1 \notin differ
      BY <1>3, <2>1
    <2>3. f[n - 1] = g[n - 1]
      BY <2>2
    <2>4. CountedAt(words, dims, f, n) = CountedAt(words, dims, g, n)
      BY <2>3 DEF CountedAt
    <2> QED
      BY <1>3, <2>1, <2>2, <2>4
  <1>5. f[L] = g[L]
    BY <1>4
  <1> QED
    BY <1>2, <1>5 DEF g

\* What caption_embedding counts.
LEMMA CountsAreVotes ==
    ASSUME NEW words \in Seq(DOMAIN Hash), NEW dims \in Nat \ {0}
    PROVE  /\ SignedCounts(words, dims) = [i \in 1..dims |-> Votes(words, dims, i)]
           /\ \A i \in 1..dims : Votes(words, dims, i) \in Int
  <1>1. ASSUME NEW i \in 1..dims
        PROVE  Tally(words, dims, Len(words), i) = Votes(words, dims, i)
    <2>1. \A n \in DOMAIN words : Hash[words[n]] % dims = i - 1 <=> Slot(words[n], dims) = i
      <3>1. \A n \in DOMAIN words : Hash[words[n]] % dims \in Int
        BY HashAssumption
      <3> QED
        BY <3>1 DEF Slot
    <2>2. ASSUME NEW sign
          PROVE  {n \in DOMAIN words : Hash[words[n]] % dims = i - 1 /\ Sign[words[n]] = sign} =
                    Cast(words, dims, Len(words), i, sign)
      BY <2>1 DEF Cast
    <2> QED
      BY <2>2 DEF Tally, Votes
  <1>2. \A i \in 1..dims : Tally(words, dims, Len(words), i) \in Int
    <2>1. \A i : /\ Cardinality(Cast(words, dims, Len(words), i, 1)) \in Nat
                 /\ Cardinality(Cast(words, dims, Len(words), i, -1)) \in Nat
      BY CastFinite
    <2> QED
      BY <2>1 DEF Tally
  <1> QED
    BY <1>1, <1>2, CountsAreTallies

\* The digests hold all the bytes that are asked for (_expand_bytes).
LEMMA BytesOfDigests ==
    ASSUME NEW dims \in Nat \ {0}
    PROVE  /\ DOMAIN ExpandBytes(dims) = 1..dims
           /\ \A b \in 0..((dims - 1) \div 32), j \in 1..32 :
                 32 * b + j <= dims => /\ 32 * b + j \in 1..dims
                                       /\ ExpandBytes(dims)[32 * b + j] = Digest[b][j]
  <1>1. Chunks(dims) \in Nat /\ 32 * Chunks(dims) >= dims
    BY DEF Chunks
  <1> DEFINE all == 32 * Chunks(dims)
  <1>2. /\ ExpandBytes(dims) =
              [n \in {k \in 1..dims : k <= all} |->
                 [m \in 1..all |-> Digest[(m - 1) \div 32][1 + ((m - 1) % 32)]][n]]
    BY DEF ExpandBytes
  <1>3. all \in Nat /\ all >= dims
    BY <1>1
  <1> HIDE DEF all
  <1>4. {k \in 1..dims : k <= all} = 1..dims
    BY <1>3
  <1>5. \A n \in 1..dims : ExpandBytes(dims)[n] = Digest[(n - 1) \div 32][1 + ((n - 1) % 32)]
    BY <1>2, <1>3, <1>4
  <1>6. ASSUME NEW b \in 0..((dims - 1) \div 32), NEW j \in 1..32, 32 * b + j <= dims
        PROVE  /\ 32 * b + j \in 1..dims
               /\ (32 * b + j - 1) \div 32 = b /\ 1 + ((32 * b + j - 1) % 32) = j
    BY <1>6
  <1>7. DOMAIN ExpandBytes(dims) = 1..dims
    BY <1>2, <1>4
  <1>8. ASSUME NEW b \in 0..((dims - 1) \div 32), NEW j \in 1..32, 32 * b + j <= dims
        PROVE  ExpandBytes(dims)[32 * b + j] = Digest[b][j]
    <2> DEFINE n == 32 * b + j
    <2>1. n \in 1..dims /\ (n - 1) \div 32 = b /\ 1 + ((n - 1) % 32) = j
      BY <1>6, <1>8
    <2> HIDE DEF n
    <2>2. ExpandBytes(dims)[n] = Digest[b][j]
      BY <1>5, <2>1
    <2> QED
      BY <2>2 DEF n
  <1> QED
    BY <1>6, <1>7, <1>8

LEMMA LengthOf ==
    ASSUME NEW n \in Nat, NEW f, f = [i \in 1..n |-> f[i]]
    PROVE  Len(f) = n
  <1> DEFINE S == {f[i] : i \in 1..n}
  <1>1. f \in [1..n -> S]
    OBVIOUS
  <1>2. f \in Seq(S)
    BY <1>1
  <1> QED
    BY <1>1, <1>2

LEMMA CaptionSound ==
    ASSUME NEW words \in Seq(DOMAIN Hash), NEW dims \in Nat \ {0},
           NEW e, e = CaptionEmbedding(words, dims)
    PROVE  /\ e.ok <=> ~(\A i \in 1..dims : Votes(words, dims, i) = 0)
           /\ e.ok => e.vector = [i \in 1..dims |-> Votes(words, dims, i)]
           /\ e.ok => Len(e.vector) = dims
  <1> DEFINE counts == [i \in 1..dims |-> Votes(words, dims, i)]
  <1>1. SignedCounts(words, dims) = counts
    BY CountsAreVotes
  <1>2. counts = [i \in 1..dims |-> counts[i]] /\ \A i \in 1..dims : counts[i] = Votes(words, dims, i)
    OBVIOUS
  <1> HIDE DEF counts
  <1>3. CASE words = <<>>
    <2>1. e = Refused
      BY <1>3 DEF CaptionEmbedding
    <2>2. ASSUME NEW i \in 1..dims PROVE Votes(words, dims, i) = 0
      <3>1. DOMAIN words = {}
        BY <1>3
      <3>2. \A sign : {n \in DOMAIN words : Hash[words[n]] % dims = i - 1
                                           /\ Sign[words[n]] = sign} = {}
        BY <3>1
      <3>3. Votes(words, dims, i) = Cardinality({}) - Cardinality({})
        BY <3>2 DEF Votes
      <3> QED
        BY <3>3, FS_EmptySet
    <2> QED
      BY <2>1, <2>2 DEF Refused
  <1>4. CASE words # <<>>
    <2>1. e = Normalized(counts)
      BY <1>1, <1>4 DEF CaptionEmbedding
    <2>2. e = IF \A i \in 1..dims : counts[i] = 0 THEN Refused ELSE Vector(counts)
      <3>1. DOMAIN counts = 1..dims
        BY <1>2
      <3> QED
        BY <2>1, <3>1 DEF Normalized
    <2>3. Len(counts) = dims
      BY <1>2, LengthOf
    <2>4. e.ok => e.vector = counts
      BY <2>2 DEF Refused, Vector
    <2>5. e.ok <=> ~(\A i \in 1..dims : counts[i] = 0)
      BY <2>2 DEF Refused, Vector
    <2> QED
      BY <1>2, <2>3, <2>4, <2>5 DEF counts
  <1> QED
    BY <1>3, <1>4

BytesOf(e, dims) ==
    \A b \in 0..((dims - 1) \div 32), j \in 1..32 :
        32 * b + j <= dims => e.vector[32 * b + j] = 2 * Digest[b][j] - 255

LEMMA SeedSound ==
    ASSUME NEW dims \in Nat \ {0}, NEW e, e = SeedEmbedding(dims)
    PROVE  e.ok => Len(e.vector) = dims /\ BytesOf(e, dims)
  <1> DEFINE raw == ExpandBytes(dims)
             v == [n \in DOMAIN raw |-> 2 * raw[n] - 255]
  <1>1. e = Normalized(v)
    BY DEF SeedEmbedding
  <1>2. DOMAIN raw = 1..dims
    BY BytesOfDigests
  <1>3. v = [n \in 1..dims |-> v[n]]
    BY <1>2
  <1>4. Len(v) = dims
    <2> HIDE DEF v
    <2> QED
      BY <1>3, LengthOf
  <1>5. e.ok => e.vector = v
    <2> HIDE DEF v
    <2> QED
      BY <1>1 DEF Normalized, Refused, Vector
  <1>6. ASSUME NEW b \in 0..((dims - 1) \div 32), NEW j \in 1..32, 32 * b + j <= dims
        PROVE  v[32 * b + j] = 2 * Digest[b][j] - 255
    <2>1. 32 * b + j \in 1..dims /\ raw[32 * b + j] = Digest[b][j]
      BY <1>6, BytesOfDigests
    <2> DEFINE n == 32 * b + j
    <2> HIDE DEF n, raw
    <2>2. v[n] = 2 * raw[n] - 255
      BY <1>2, <2>1 DEF n
    <2> QED
      BY <2>1, <2>2 DEF n
  <1> HIDE DEF v
  <1> QED
    BY <1>4, <1>5, <1>6, ZenonT(60) DEF BytesOf

\* No vector without components.
LEMMA NothingWithoutDims ==
    ASSUME NEW dims \in Int, dims <= 0, NEW caption
    PROVE  EmbedMedia(caption, dims) = Refused /\ EmbedText(caption, dims) = Refused
  BY DEF EmbedMedia, EmbedText, SeedEmbedding, CaptionEmbedding

-----------------------------------------------------------------------------
\* What the requests have come to, and what is answered.

Steps == HasTranscriber \cup {"idle", "lookup", "missed", "making", "found", "raised"}

Heard == {"embed_video", "transcribe_video", "transcribe_audio"}

PlaceInv ==
    \A t \in Threads :
        /\ at[t] = "done" => Answered(t)
        /\ at[t] = "new" => step[t] = "idle" /\ result[t] = None
        /\ at[t] = "transcribing" => step[t] # "idle"
        /\ at[t] = "file" => input[t].endpoint \in {"embed_video", "transcribe_video"}
        /\ at[t] \in {"finding", "reading", "transcribing"} => input[t].endpoint \in Heard
        /\ settings.backend = "deterministic" /\ input[t].endpoint \in Embeds =>
              at[t] \in {"new", "backend", "file", "frames", "embedding", "done"}
        /\ step[t] \in Steps

FilesInv == upload \cup wav \cup tmp \subseteq Threads

\* "noaudio" is heard by who has looked for the sound.
ResultInv ==
    /\ result \in [Threads -> Transcripts \cup Errors \cup {None}]
    /\ \A t \in Threads : result[t] = "noaudio" => ~input[t].sound

Sound(t) == Honest(t) /\ (Hashed(t) => VectorSound(t))

AInv == PlaceInv /\ FilesInv /\ ResultInv /\ \A t \in Threads : Sound(t)

LEMMA SoundKept ==
    ASSUME NEW t \in Threads, Sound(t), settings' = settings, answer[t]' = answer[t],
           input[t]' = input[t]
    PROVE  Sound(t)'
  <1>1. /\ Succeeded(t)' = Succeeded(t) /\ Answered(t)' = Answered(t) /\ Dims(t)' = Dims(t)
    BY DEF Succeeded, Answered, Dims
  <1>2. Honest(t)'
    BY <1>1 DEF Sound, Honest
  <1>3. Hashed(t)' = Hashed(t)
    BY <1>1 DEF Hashed
  <1>4. VectorSound(t)' = VectorSound(t)
    BY <1>1 DEF VectorSound, Votes
  <1> QED
    BY <1>2, <1>3, <1>4 DEF Sound

\* A thread that has not answered has nothing to be held to.
LEMMA SoundBefore ==
    ASSUME NEW t \in Threads, ~Answered(t)
    PROVE  Sound(t)
  BY DEF Sound, Honest, Hashed, Succeeded, Answered

\* The steps that only move a request.
LEMMA MoveStep ==
    ASSUME IInv, AInv, UNCHANGED <<result, wav, tmp, settings, input, answer, upload>>,
           NEW t \in Threads, NEW place, Move(t, place), at[t] \notin {"new", "done"},
           NEW s \in Steps, step'[t] = s, \A u \in Threads \ {t} : step'[u] = step[u],
           place \notin {"new", "done"},
           place = "transcribing" => s # "idle",
           place = "file" => input[t].endpoint \in {"embed_video", "transcribe_video"},
           place \in {"finding", "reading", "transcribing"} => input[t].endpoint \in Heard,
           settings.backend = "deterministic" /\ input[t].endpoint \in Embeds =>
              place \in {"file", "frames", "embedding"}
    PROVE  AInv'
  <1> USE DEF Move
  <1>1. PlaceInv'
    <2> SUFFICES ASSUME NEW u \in Threads
                 PROVE  /\ at'[u] = "done" => Answered(u)'
                        /\ at'[u] = "new" => step'[u] = "idle" /\ result'[u] = None
                        /\ at'[u] = "transcribing" => step'[u] # "idle"
                        /\ at'[u] = "file" => input'[u].endpoint \in {"embed_video", "transcribe_video"}
                        /\ at'[u] \in {"finding", "reading", "transcribing"} => input'[u].endpoint \in Heard
                        /\ settings'.backend = "deterministic" /\ input'[u].endpoint \in Embeds =>
                              at'[u] \in {"new", "backend", "file", "frames", "embedding", "done"}
                        /\ step'[u] \in Steps
      BY DEF PlaceInv, Steps, HasTranscriber, Heard
    <2>1. CASE u = t
      BY <2>1 DEF IInv, Typed
    <2>2. CASE u # t
      BY <2>2 DEF IInv, Typed, AInv, PlaceInv, Answered
    <2> QED
      BY <2>1, <2>2
  <1>2. FilesInv' /\ ResultInv'
    BY DEF AInv, FilesInv, ResultInv
  <1>3. ASSUME NEW u \in Threads PROVE Sound(u)'
    BY <1>3, SoundKept DEF AInv
  <1> QED
    BY <1>1, <1>2, <1>3 DEF AInv

\* The steps that answer one.
LEMMA ReplyStep ==
    ASSUME IInv, AInv,
           UNCHANGED <<transcriptionVars, settings, input>>,
           NEW t \in Threads, NEW response, Reply(t, response), response.status # 0,
           at[t] # "new", Sound(t)'
    PROVE  AInv'
  <1> USE DEF Reply, Move, transcriptionVars
  <1>1. PlaceInv'
    BY DEF IInv, Typed, AInv, PlaceInv, Answered
  <1>2. FilesInv' /\ ResultInv'
    BY DEF AInv, FilesInv, ResultInv, UploadAfter
  <1>3. ASSUME NEW u \in Threads \ {t} PROVE Sound(u)'
    BY <1>3, SoundKept DEF AInv, IInv, Typed
  <1> QED
    BY <1>1, <1>2, <1>3 DEF AInv

\* An error, of a request that is not one for a vector, or has something wrong.
LEMMA ErrorStep ==
    ASSUME IInv, AInv, UNCHANGED <<transcriptionVars, settings, input>>,
           NEW t \in Threads, NEW status, Reply(t, Failure(status)), status \notin {0, 200},
           at[t] # "new",
           \/ settings.backend # "deterministic"
           \/ input[t].endpoint \notin Embeds
           \/ input[t].key # "good" \/ input[t].frames = "empty"
           \/ input[t].caption = Blank
    PROVE  AInv'
  <1>1. answer[t]' = Failure(status)
    BY DEF Reply, IInv, Typed
  <1>2. ~Succeeded(t)'
    BY <1>1 DEF Succeeded, Failure
  <1>3. Hashed(t)' => input[t].caption = Blank
    BY DEF Hashed
  <1>4. Sound(t)'
    BY <1>2, <1>3 DEF Sound, Honest, VectorSound
  <1> QED
    BY <1>4, ReplyStep DEF Failure

\* One step of Next after the other.

LEMMA DimsType ==
    ASSUME IInv, NEW t \in Threads, at[t] # "new"
    PROVE  /\ Dims(t) \in Int /\ input[t] \in Inputs
           /\ input[t].endpoint \in Embeds \cup {"transcribe_video", "transcribe_audio"}
  <1>1. input[t] \in Inputs /\ settings \in {GetSettings(env) : env \in Environments}
    BY DEF IInv, ReceivedInv, StartedIn
  <1>2. input[t].dims \in Int /\ settings.dims \in Int
    BY <1>1, WorkerAssumption
  <1> QED
    BY <1>1, <1>2, WorkerAssumption DEF Dims

LEMMA BackendMoves ==
    ASSUME IInv, AInv, NEW t \in Threads,
           DeterministicBackend(t) \/ CheckCache(t) \/ Build(t) \/ PublishKey(t) \/ ReturnCached(t)
    PROVE  AInv'
  <1> USE DEF transcriptionVars, workerVars
  <1>1. step[t] \in Steps /\ step' = step
    BY DEF AInv, PlaceInv, DeterministicBackend, CheckCache, Build, PublishKey, ReturnCached
  <1>2. /\ AfterBackend(t) \in {"file", "frames", "embedding"}
        /\ AfterBackend(t) = "file" => input[t].endpoint = "embed_video"
    BY DEF AfterBackend
  <1>3. CASE DeterministicBackend(t)
    BY <1>1, <1>2, <1>3, MoveStep DEF DeterministicBackend
  <1>4. CASE CheckCache(t)
    BY <1>1, <1>4, MoveStep DEF CheckCache
  <1>5. CASE Build(t)
    BY <1>1, <1>5, MoveStep DEF Build, AInv, PlaceInv
  <1>6. CASE PublishKey(t)
    BY <1>1, <1>6, MoveStep DEF PublishKey, AInv, PlaceInv
  <1>7. CASE ReturnCached(t)
    BY <1>1, <1>2, <1>7, MoveStep DEF ReturnCached, AInv, PlaceInv
  <1> QED
    BY <1>3, <1>4, <1>5, <1>6, <1>7

LEMMA OpenFileMoves ==
    ASSUME IInv, AInv, NEW t \in Threads, OpenFile(t)
    PROVE  AInv'
  <1> USE DEF OpenFile, GoTo, callVars, workerVars
  <1>1. step[t] \in Steps /\ {"lookup", "have"} \subseteq Steps /\ DOMAIN step = Threads
    BY DEF IInv, Typed, AInv, PlaceInv, Steps, HasTranscriber
  <1>2. CASE input[t].endpoint = "transcribe_video"
    BY <1>1, <1>2, MoveStep DEF Embeds, Heard
  <1>3. CASE input[t].endpoint = "embed_video" /\ ~DoTranscribe(t)
    BY <1>1, <1>3, MoveStep
  <1>4. CASE input[t].endpoint = "embed_video" /\ DoTranscribe(t)
    BY <1>1, <1>4, MoveStep DEF DoTranscribe, Heard
  <1> QED
    BY <1>2, <1>3, <1>4

LEMMA TranscriberMoves ==
    ASSUME IInv, AInv, NEW t \in Threads, AssignTranscriber(t) \/ ReadTranscriber(t)
    PROVE  AInv'
  <1> USE DEF GoTo, callVars, workerVars, transcriptionVars
  <1>1. step[t] \in Steps /\ "have" \in Steps /\ DOMAIN step = Threads
    BY DEF IInv, Typed, AInv, PlaceInv, Steps, HasTranscriber
  <1>2. CASE AssignTranscriber(t)
    BY <1>1, <1>2, MoveStep DEF AssignTranscriber, AInv, PlaceInv
  <1>3. CASE ReadTranscriber(t)
    BY <1>1, <1>3, MoveStep DEF ReadTranscriber, AInv, PlaceInv
  <1> QED
    BY <1>2, <1>3

\* A request comes in, or is refused.
LEMMA Arrivals ==
    ASSUME IInv, AInv, NEW t \in Threads, NEW r \in Inputs, Receive(t, r) \/ Refuse(t, r)
    PROVE  AInv'
  <1>1. /\ at[t] = "new" /\ input' = [input EXCEPT ![t] = r] /\ ~Answered(t)
        /\ UNCHANGED <<settings, result, tmp, wav>>
    BY DEF Receive, Refuse, IInv, BackendInv, callVars, transcriptionVars
  <1>2. ResultInv'
    BY <1>1, NoneAssumption DEF AInv, PlaceInv, ResultInv, IInv, Typed, Transcripts
  <1>3. ASSUME NEW u \in Threads \ {t}, UNCHANGED answer[u] PROVE Sound(u)'
    BY <1>1, <1>3, SoundKept DEF AInv, IInv, Typed
  <1>4. CASE Receive(t, r)
    <2> USE DEF Receive, Move, GoTo
    <2>1. Sound(t)'
      BY <1>1, <1>4, SoundBefore DEF Answered, Sound, Honest, Hashed, Succeeded
    <2>2. /\ r.endpoint \in Embeds \cup {"transcribe_video", "transcribe_audio"}
          /\ FirstStep(r) \in {"backend", "file", "transcribing"}
          /\ FirstStep(r) = "transcribing" <=> r.endpoint = "transcribe_audio"
          /\ FirstStep(r) = "file" <=> r.endpoint = "transcribe_video"
          /\ "lookup" \in Steps
      BY WorkerAssumption DEF FirstStep, Embeds, Steps
    <2>3. FilesInv'
      BY <1>1, <1>4 DEF FilesInv, AInv
    <2>4. PlaceInv'
      BY <1>1, <1>4, <2>2 DEF PlaceInv, AInv, IInv, Typed, Embeds, Answered, Heard
    <2> QED
      BY <1>2, <1>3, <1>4, <2>1, <2>3, <2>4 DEF AInv
  <1>5. CASE Refuse(t, r)
    <2> USE DEF Refuse, Reply, Move, transcriptionVars
    <2>1. answer[t]' = [status |-> 422]
      BY <1>5 DEF IInv, Typed, Failure
    <2>2. Dims(t)' = r.dims /\ r.dims < 0
      BY <1>1, <1>5, WorkerAssumption DEF Dims, Invalid, IInv, Typed
    <2>3. Sound(t)'
      <3>1. ~Succeeded(t)'
        BY <2>1 DEF Succeeded
      <3>2. ~Hashed(t)'
        BY <2>2, WorkerAssumption DEF Hashed
      <3> QED
        BY <3>1, <3>2 DEF Sound, Honest
    <2>4. FilesInv'
      BY <1>1, <1>5 DEF FilesInv, AInv, UploadAfter
    <2>5. PlaceInv'
      BY <1>1, <1>5, <2>1 DEF PlaceInv, AInv, IInv, Typed, Answered
    <2>6. \A u \in Threads \ {t} : UNCHANGED answer[u]
      BY <1>5 DEF IInv, Typed
    <2> QED
      BY <1>2, <1>3, <2>3, <2>4, <2>5, <2>6 DEF AInv
  <1> QED
    BY <1>4, <1>5

\* The answers.

LEMMA StatusIsNone ==
    \A endpoint, error : Status(endpoint, error) \notin {0, 200}
  BY DEF Status

LEMMA RequestsFail ==
    ASSUME IInv, AInv, NEW t \in Threads,
           \/ UnknownBackendName(t) \/ MissingFile(t) \/ TranscriptionFailed(t)
           \/ FileVanished(t) \/ ModelFails(t)
    PROVE  AInv'
  <1>1. CASE UnknownBackendName(t)
    BY <1>1, ErrorStep DEF UnknownBackendName
  <1>2. CASE MissingFile(t)
    BY <1>2, ErrorStep DEF MissingFile
  <1>3. CASE TranscriptionFailed(t)
    <2>1. settings.backend # "deterministic" \/ input[t].endpoint \notin Embeds
      BY <1>3 DEF TranscriptionFailed, AInv, PlaceInv
    <2> QED
      BY <1>3, <2>1, StatusIsNone, ErrorStep DEF TranscriptionFailed
  <1>4. CASE FileVanished(t)
    BY <1>4, StatusIsNone, ErrorStep DEF FileVanished
  <1>5. CASE ModelFails(t)
    <2>1. PICK e : Reply(t, Failure(Status(input[t].endpoint, e)))
      BY <1>5 DEF ModelFails
    <2> QED
      BY <1>5, <2>1, StatusIsNone, ErrorStep DEF ModelFails
  <1> QED
    BY <1>1, <1>2, <1>3, <1>4, <1>5

LEMMA ReadFramesSound ==
    ASSUME IInv, AInv, NEW t \in Threads, ReadFrames(t)
    PROVE  AInv'
  <1>1. CASE input[t].frames = "empty"
    BY <1>1, ErrorStep DEF ReadFrames
  <1>2. CASE input[t].frames # "empty"
    <2>1. step[t] \in Steps /\ step' = step
      BY DEF AInv, PlaceInv, ReadFrames, transcriptionVars
    <2> QED
      BY <1>2, <2>1, MoveStep DEF ReadFrames, transcriptionVars
  <1> QED
    BY <1>1, <1>2

\* What was heard of a video goes into its embedding, or is the answer.
LEMMA TranscribedSound ==
    ASSUME IInv, AInv, NEW t \in Threads, Transcribed(t)
    PROVE  AInv'
  <1>1. CASE input[t].endpoint = "embed_video"
    <2>1. step[t] \in Steps /\ step' = step
      BY DEF AInv, PlaceInv, Transcribed, transcriptionVars
    <2> QED
      BY <1>1, <2>1, MoveStep DEF Transcribed, transcriptionVars
  <1>2. CASE input[t].endpoint # "embed_video"
    <2> DEFINE response == [status |-> 200, transcript |-> result[t]]
    <2>1. Reply(t, response) /\ at[t] = "transcribing"
          /\ UNCHANGED <<transcriptionVars, settings, input>>
      BY <1>2 DEF Transcribed
    <2>2. answer[t]' = response
      BY <2>1 DEF Reply, IInv, Typed
    <2>3. input[t].endpoint \notin Embeds
      BY <1>2, <2>1 DEF AInv, PlaceInv, Heard, Embeds
    <2>4. Sound(t)'
      BY <2>1, <2>2, <2>3 DEF Sound, Honest, Hashed, AInv, ResultInv, transcriptionVars
    <2> QED
      BY <2>1, <2>4, ReplyStep
  <1> QED
    BY <1>1, <1>2

\* The transcript that goes with a vector is not an empty one for want of a stream.
LEMMA TranscriptHonest ==
    ASSUME IInv, AInv, NEW t \in Threads, at[t] # "new", TranscriptFor(t) = "noaudio"
    PROVE  ~input[t].sound
  <1>1. input[t].transcript # "noaudio" /\ None # "noaudio"
    BY WorkerAssumption, NoneAssumption DEF IInv, ReceivedInv, Transcripts
  <1> QED
    BY <1>1 DEF TranscriptFor, AInv, ResultInv

LEMMA EmbedByModelSound ==
    ASSUME IInv, AInv, NEW t \in Threads, EmbedByModel(t)
    PROVE  AInv'
  <1> DEFINE version == IF TranscriptFor(t) = "words" THEN "qwen3_vl_whisper_v1"
                        ELSE "qwen3_vl_v1"
             response == Success(t, version, None, Truncated(Hidden, Dims(t)), TranscriptFor(t))
  <1>1. /\ Reply(t, response) /\ at[t] = "embedding" /\ settings.backend = "qwen3_vl"
        /\ UNCHANGED <<transcriptionVars, settings, input>>
    BY DEF EmbedByModel
  <1>2. /\ response.status = 200 /\ response.version = version /\ response.dims = Dims(t)
        /\ response.size = Truncated(Hidden, Dims(t)) /\ response.transcript = TranscriptFor(t)
    BY DEF Success
  <1>3. answer[t]' = response
    BY <1>1 DEF Reply, IInv, Typed
  <1>4. TranscriptFor(t) = "noaudio" => ~input[t].sound
    BY <1>1, TranscriptHonest
  <1>5. \/ Truncated(Hidden, Dims(t)) = Dims(t)
        \/ Dims(t) \notin 1..Hidden /\ Truncated(Hidden, Dims(t)) = Hidden
    BY <1>1, DimsType, WorkerAssumption DEF Truncated
  <1> HIDE DEF response
  <1>6. Sound(t)'
    BY <1>1, <1>2, <1>3, <1>4, <1>5 DEF Sound, Honest, Hashed
  <1> QED
    BY <1>1, <1>2, <1>6, ReplyStep

LEMMA EmbedByHashSound ==
    ASSUME IInv, AInv, NEW t \in Threads, EmbedByHash(t)
    PROVE  AInv'
  <1> DEFINE words == input[t].caption
             dims == Dims(t)
             e == IF input[t].endpoint = "embed_text" THEN EmbedText(words, dims)
                  ELSE EmbedMedia(words, dims)
             success == Success(t, CaptionVersion(t), e.vector, Len(e.vector), TranscriptFor(t))
             failure == Failure(Status(input[t].endpoint, "Value"))
             response == IF e.ok THEN success ELSE failure
  <1>1. /\ Reply(t, response) /\ at[t] = "embedding" /\ settings.backend = "deterministic"
        /\ UNCHANGED <<transcriptionVars, settings, input>>
    BY DEF EmbedByHash
  <1>2. /\ dims \in Int /\ input[t] \in Inputs
        /\ words = Blank \/ words \in Seq(DOMAIN Hash)
    BY <1>1, DimsType, WorkerAssumption
  <1>3. answer[t]' = response
    BY <1>1 DEF Reply, IInv, Typed
  <1>4. TranscriptFor(t) = "noaudio" => ~input[t].sound
    BY <1>1, TranscriptHonest
  <1>5. /\ success.status = 200 /\ success.dims = dims /\ success.vector = e.vector
        /\ success.size = Len(e.vector) /\ success.transcript = TranscriptFor(t)
        /\ failure.status \notin {0, 200}
    BY StatusIsNone DEF Success, Failure
  <1>6. e.ok => dims > 0 /\ Len(e.vector) = dims
    <2>1. CASE dims <= 0
      BY <1>2, <2>1, NothingWithoutDims DEF Refused
    <2>2. CASE dims > 0 /\ words = Blank
      BY <1>2, <2>2, SeedSound DEF EmbedMedia, EmbedText, Refused
    <2>3. CASE dims > 0 /\ words # Blank
      <3>1. e = CaptionEmbedding(words, dims)
        BY <2>3 DEF EmbedMedia, EmbedText
      <3>2. dims \in Nat \ {0} /\ words \in Seq(DOMAIN Hash)
        BY <1>2, <2>3
      <3> HIDE DEF e, dims, words
      <3> QED
        BY <2>3, <3>1, <3>2, CaptionSound
    <2> QED
      BY <1>2, <2>1, <2>2, <2>3
  <1>7. ASSUME dims > 0, words # Blank
        PROVE  /\ e.ok <=> ~(\A i \in 1..dims : Votes(words, dims, i) = 0)
               /\ e.ok => e.vector = [i \in 1..dims |-> Votes(words, dims, i)]
    BY <1>2, <1>7, CaptionSound DEF EmbedMedia, EmbedText
  <1>8. ASSUME dims > 0, words = Blank, e.ok
        PROVE  \A b \in 0..((dims - 1) \div 32), j \in 1..32 :
                  32 * b + j <= dims => e.vector[32 * b + j] = 2 * Digest[b][j] - 255
    <2>1. e = SeedEmbedding(dims) /\ e.ok
      BY <1>8 DEF EmbedMedia, EmbedText, Refused
    <2>2. dims \in Nat \ {0}
      BY <1>2, <1>8
    <2> HIDE DEF e, dims, words
    <2>3. BytesOf(e, dims)
      BY <2>1, <2>2, SeedSound
    <2> QED
      BY <2>3 DEF BytesOf
  <1>9. Dims(t)' = dims /\ input[t]' = input[t] /\ settings' = settings
    BY <1>1 DEF Dims
  <1> HIDE DEF e, success, failure, dims, words
  <1>10. answer[t]' = IF e.ok THEN success ELSE failure
    BY <1>3
  <1>11. Honest(t)'
    BY <1>1, <1>4, <1>5, <1>6, <1>9, <1>10 DEF Honest, Succeeded
  <1>12. Hashed(t)' => VectorSound(t)'
    <2> SUFFICES ASSUME Hashed(t)' PROVE VectorSound(t)'
      OBVIOUS
    <2>1. dims > 0
      BY <1>9 DEF Hashed
    <2>2. Succeeded(t)' <=> e.ok
      BY <1>5, <1>10 DEF Succeeded
    <2>3. e.ok => answer[t]'.vector = e.vector
      BY <1>5, <1>10
    <2>4. words = input[t].caption
      BY DEF words
    <2> DEFINE counts == [i \in 1..dims |-> Votes(words, dims, i)]
               cancel == \A i \in 1..dims : counts[i] = 0
    <2>5. cancel <=> \A i \in 1..dims : Votes(words, dims, i) = 0
      OBVIOUS
    <2>6. /\ words # Blank => (Succeeded(t)' <=> ~cancel)
          /\ words # Blank /\ Succeeded(t)' => answer[t]'.vector = counts
      BY <1>7, <2>1, <2>2, <2>3, <2>5
    <2>7. Succeeded(t)' => Len(answer[t]'.vector) = dims
      BY <1>6, <2>2, <2>3
    <2>8. words = Blank /\ Succeeded(t)' =>
             \A b \in 0..((dims - 1) \div 32), j \in 1..32 :
                32 * b + j <= dims => answer[t]'.vector[32 * b + j] = 2 * Digest[b][j] - 255
      BY <1>8, <2>1, <2>2, <2>3
    <2>9. input[t].caption' = words
      BY <1>9, <2>4
    <2> QED
      BY <1>9, <2>6, <2>7, <2>8, <2>9 DEF VectorSound
  <1>13. response.status # 0
    BY <1>5
  <1> QED
    BY <1>1, <1>11, <1>12, <1>13, ReplyStep DEF Sound

\* transcription.py leaves the requests and their answers alone.
LEMMA CallTranscriptionSound ==
    ASSUME IInv, AInv, NEW t \in Threads, CallTranscription(t)
    PROVE  AInv'
  <1> USE DEF GoTo, callVars
  <1>1. /\ at[t] \in {"finding", "transcribing"}
        /\ UNCHANGED <<settings, input, at, answer, upload>>
    BY DEF CallTranscription, workerVars
  <1>2. PICK s \in Steps \ {"idle"} :
           /\ step' = [step EXCEPT ![t] = s]
           /\ \/ UNCHANGED result
              \/ \E r \in Errors \cup {"words", "mute"} : result' = [result EXCEPT ![t] = r]
              \/ ~input[t].sound /\ result' = [result EXCEPT ![t] = "noaudio"]
           /\ wav' \cup tmp' \subseteq wav \cup tmp \cup {t}
    <2>1. CASE GetTranscriber(t)
      BY <2>1 DEF GetTranscriber, LookUp, UnknownBackend, LookUpInner, Make, Keep, Steps,
                  HasTranscriber, Errors
    <2>2. CASE Transcribe(t)
      <3> USE DEF Steps, HasTranscriber, Errors
      <3>1. CASE GetLoaded(t) \/ BeginLoad(t) \/ NotInstalled(t) \/ EndLoad(t) \/ LoadFails(t)
        BY <3>1 DEF GetLoaded, BeginLoad, NotInstalled, EndLoad, LoadFails
      <3>2. CASE Prepare(t)
        BY <3>2 DEF Prepare
      <3>3. CASE Extract(t) \/ ExtractNothing(t) \/ ExtractFails(t) \/ RunNeedsWav(t)
        BY <3>3 DEF Extract, ExtractNothing, ExtractFails, ExtractError, RunNeedsWav
      <3>4. CASE Hear(t) \/ RunFails(t)
        BY <3>4 DEF Hear, RunFails, EndCall, Removed
      <3> QED
        BY <2>2, <3>1, <3>2, <3>3, <3>4 DEF Transcribe
    <2> QED
      BY <2>1, <2>2 DEF CallTranscription
  <1>3. PlaceInv'
    BY <1>1, <1>2 DEF AInv, PlaceInv, IInv, Typed, Answered, Steps
  <1>4. FilesInv'
    BY <1>1, <1>2 DEF AInv, FilesInv
  <1>5. ResultInv'
    BY <1>1, <1>2 DEF AInv, ResultInv, IInv, Typed, Transcripts, Errors
  <1>6. ASSUME NEW u \in Threads PROVE Sound(u)'
    BY <1>1, SoundKept DEF AInv
  <1> QED
    BY <1>3, <1>4, <1>5, <1>6 DEF AInv

LEMMA InitAInv == Init => AInv
  <1> SUFFICES ASSUME Init PROVE AInv
    OBVIOUS
  <1>1. PlaceInv
    BY DEF Init, TranscriptionInit, PlaceInv, NoInput, Embeds, Steps
  <1>2. FilesInv /\ ResultInv
    BY NoneAssumption DEF Init, TranscriptionInit, FilesInv, ResultInv, Transcripts
  <1>3. \A t \in Threads : Sound(t)
    BY SoundBefore DEF Init, Answered, NoResponse
  <1> QED
    BY <1>1, <1>2, <1>3 DEF AInv

LEMMA NextAInv == IInv /\ AInv /\ [Next]_vars => AInv'
  <1> SUFFICES ASSUME IInv, AInv, [Next]_vars PROVE AInv'
    OBVIOUS
  <1>1. ASSUME NEW t \in Threads, NEW r \in Inputs, Receive(t, r) \/ Refuse(t, r)
        PROVE  AInv'
    BY <1>1, Arrivals
  <1>2. ASSUME NEW t \in Threads, Serve(t)
        PROVE  AInv'
    BY <1>2, BackendMoves, OpenFileMoves, TranscriberMoves, RequestsFail, ReadFramesSound,
       TranscribedSound, EmbedByModelSound, EmbedByHashSound, CallTranscriptionSound
       DEF Serve
  <1>3. CASE UNCHANGED vars
    <2> USE <1>3 DEF vars, workerVars, transcriptionVars
    <2>1. PlaceInv' /\ FilesInv' /\ ResultInv'
      BY DEF AInv, PlaceInv, FilesInv, ResultInv, Answered
    <2>2. ASSUME NEW u \in Threads PROVE Sound(u)'
      BY SoundKept DEF AInv
    <2> QED
      BY <2>1, <2>2 DEF AInv
  <1> QED
    BY <1>1, <1>2, <1>3 DEF Next, Idle

THEOREM AnswersInvariance == Spec => []AInv
  BY InitAInv, NextAInv, Invariance, PTL DEF Spec

\* An answer is what the request asked for: as many components as it says, a
\* version that names the transcript if one went in, and no video with sound is
\* said to have none (main.py's responses over both backends and transcribe).
THEOREM AnswerHonestAlways == Spec => []AnswerHonest
  <1>1. IInv /\ AInv => AnswerHonest
    <2> SUFFICES ASSUME IInv, AInv PROVE AnswerHonest
      OBVIOUS
    <2>1. /\ {outerCache, innerCache, cachedBackend} \subseteq Threads \cup {None}
          /\ {uses, backend, transcriberOf} \subseteq [Threads -> Threads \cup {None}]
          /\ upload \cup wav \cup tmp \subseteq Threads
      BY DEF IInv, Typed, AInv, FilesInv
    <2>2. result \in [Threads -> Transcripts \cup Errors \cup {None}]
      BY DEF IInv, Typed, AInv, ResultInv
    <2>3. ASSUME NEW t \in Threads
          PROVE  /\ at[t] = "transcribing" /\ step[t] \notin {"lookup", "missed", "making", "raised"}
                       => uses[t] # None
                 /\ Answered(t) <=> at[t] = "done"
                 /\ Honest(t)
      BY DEF IInv, TranscriberInv, BackendInv, AInv, PlaceInv, Steps, Sound
    <2> QED
      BY <2>1, <2>2, <2>3 DEF AnswerHonest, TypeOK
  <1> QED
    BY <1>1, Invariance, AnswersInvariance, PTL

\* A vector counts every word of a caption once, whatever the number of words
\* and of dimensions, a caption is refused only if they cancel out, and a vector
\* without a caption is made of all the bytes of the hashes
\* (caption_embedding, seed_embedding, DeterministicBackend).
THEOREM VectorsSoundAlways == Spec => []VectorsSound
  <1>1. AInv => VectorsSound
    BY DEF AInv, Sound, VectorsSound
  <1> QED
    BY <1>1, AnswersInvariance, PTL
=============================================================================
