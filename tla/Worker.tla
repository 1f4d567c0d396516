------------------------------- MODULE Worker -------------------------------
(***************************************************************************)
(* The HTTP interface of the embedding worker: main.py over the factory of *)
(* backends, the transcribers and the backends' own code around the model. *)
(* Each request runs in a thread of its own; they share the caches, the    *)
(* transcribers and the temporary directory.  MicroBatcher has the load of *)
(* the embedding model and AdaptiveFrames the calls of it, which are one   *)
(* step here.                                                              *)
(***************************************************************************)
EXTENDS Transcription, Embeddings, VideoSampling, FiniteSets

CONSTANTS
    Environments, \* per worker: the environment variables that are set
    Machines,     \* per worker: see the variable machine
    Inputs,       \* requests
    Hidden        \* the length of the model's vectors

VARIABLES
    at,              \* per thread: where its request is
    cachedBackend,   \* _cached_backend, named after the thread that built it
    cachedKey,       \* _cached_key is the key of the settings
    backend,         \* per thread: what get_backend returned
    transcriberOf,   \* per backend: self._transcriber
    upload,          \* threads whose uploaded audio is in the temporary directory
    sampled,         \* per thread: the frames embed_video asks for
    answer           \* per thread: the response

factoryVars == <<cachedBackend, cachedKey, backend>>
workerVars == <<settings, machine, factoryVars, transcriberOf, upload, sampled>>
vars == <<transcriptionVars, workerVars, input, at, answer>>

-----------------------------------------------------------------------------
\* config.py.

EnvBool(raw, default) ==
    CASE raw = "on" -> TRUE
      [] raw = "off" -> FALSE
      [] OTHER -> default

\* get_settings, and below the line what is read from os.environ when needed.
\* A language is set or not, a limit that is no positive number is 0.
GetSettings(env) ==
    LET Get(name, default) == IF name \in DOMAIN env THEN env[name] ELSE default
    IN  [backend |-> Get("EMBEDDING_BACKEND", "deterministic"),
         dims |-> Get("EMBEDDING_DIMS", 1536),
         fps |-> Get("QWEN_VIDEO_FPS", 1),
         maxFrames |-> Get("QWEN_VIDEO_MAX_FRAMES", 64),
         targetFrames |-> Get("QWEN_VIDEO_TARGET_FRAMES", 10),
         transcribe |-> EnvBool(Get("TRANSCRIBE_ENABLED", "unset"), TRUE),
         whisper |-> Get("WHISPER_BACKEND", "openai"),
         whisperDevice |-> Get("WHISPER_DEVICE", "auto"),
         language |-> "WHISPER_LANGUAGE" \in DOMAIN env,
         \* ---
         dtype |-> Get("WHISPER_DTYPE", "auto"),
         override |-> Get("WHISPER_MAX_NEW_TOKENS", 0),
         extractor |-> Get("QWEN_VIDEO_FRAME_EXTRACTOR", "auto"),
         reader |-> Get("FORCE_QWENVL_VIDEO_READER", "installed")]

Embeds == {"embed_video", "embed_frames", "embed_text"}

\* The transcript that comes with frames is a text of the form, or missing.
ASSUME WorkerAssumption ==
    /\ \A env \in Environments :
          {GetSettings(env).fps, GetSettings(env).maxFrames, GetSettings(env).targetFrames,
           GetSettings(env).override, GetSettings(env).dims} \subseteq Int
    /\ \A m \in Machines : {m.decoder.positions, m.decoder.prompt} \subseteq Int
    /\ \A r \in Inputs :
          /\ r.endpoint \in Embeds \cup {"transcribe_video", "transcribe_audio"}
          /\ r.duration \in Nat
          /\ r.dims \in Int
          /\ r.caption = Blank \/ r.caption \in Seq(DOMAIN Hash)
          /\ r.transcript \in {"words", "mute", None}
    /\ Hidden \in Nat

NoInput == [endpoint |-> "none"]

NoResponse == [status |-> 0]

Init ==
    /\ settings \in {GetSettings(env) : env \in Environments}
    /\ machine \in Machines
    /\ TranscriptionInit
    /\ input = [t \in Threads |-> NoInput]
    /\ at = [t \in Threads |-> "new"]
    /\ cachedBackend = None
    /\ cachedKey = FALSE
    /\ backend = [t \in Threads |-> None]
    /\ transcriberOf = [t \in Threads |-> None]
    /\ upload = {}
    /\ sampled = [t \in Threads |-> None]
    /\ answer = [t \in Threads |-> NoResponse]

Move(t, place) == at' = [at EXCEPT ![t] = place]

-----------------------------------------------------------------------------
\* Answers.

\* How the endpoints turn an exception into a status; 500 is FastAPI's own.
Status(endpoint, error) ==
    CASE error = "Import" -> 501
      [] error = "NotImplemented" /\ endpoint # "embed_video" -> 501
      [] error = "Value" /\ endpoint \in {"embed_frames", "embed_text"} -> 400
      [] error = "ffmpeg" /\ endpoint \in {"transcribe_audio", "transcribe_video"} -> 501
      [] OTHER -> 500

Failure(status) == [status |-> status]

\* (mutated) The uploaded file is removed when there is an answer to give.
UploadAfterSuccess(t, response) ==
    IF response.status = 200 THEN upload \ {t} ELSE upload

\* The finally of transcribe_audio.
UploadAfter(t, response) == upload \ {t}

Reply(t, response) ==
    /\ answer' = [answer EXCEPT ![t] = response]
    /\ upload' = UploadAfter(t, response)
    /\ Move(t, "done")

\* req.dims or settings.dims; a request without dims has 0.
Dims(t) == IF input[t].dims # 0 THEN input[t].dims ELSE settings.dims

\* The models of the request bodies; the dims of a form may be negative.
Invalid(r) == r.endpoint \in {"embed_video", "embed_text"} /\ r.dims < 0

FirstStep(r) ==
    CASE r.endpoint \in Embeds -> "backend"
      [] r.endpoint = "transcribe_video" -> "file"
      [] OTHER -> "transcribing"

\* A request comes in; transcribe_audio stores its body first.
Receive(t, r) ==
    /\ at[t] = "new"
    /\ ~Invalid(r)
    /\ input' = [input EXCEPT ![t] = r]
    /\ Move(t, FirstStep(r))
    /\ IF r.endpoint = "transcribe_audio"
       THEN GoTo(t, "lookup") /\ upload' = upload \cup {t}
       ELSE UNCHANGED <<step, upload>>
    /\ UNCHANGED <<settings, machine, cacheVars, modelVars, uses, callVars, factoryVars,
                   transcriberOf, sampled, answer>>

Refuse(t, r) ==
    /\ at[t] = "new"
    /\ Invalid(r)
    /\ input' = [input EXCEPT ![t] = r]
    /\ Reply(t, Failure(422))
    /\ UNCHANGED <<settings, machine, transcriptionVars, factoryVars, transcriberOf, sampled>>

-----------------------------------------------------------------------------
\* get_backend.

AfterBackend(t) ==
    CASE input[t].endpoint = "embed_video" -> "file"
      [] input[t].endpoint = "embed_frames" -> "frames"
      [] OTHER -> "embedding"

DeterministicBackend(t) ==
    /\ at[t] = "backend"
    /\ settings.backend = "deterministic"
    /\ Move(t, AfterBackend(t))
    /\ UNCHANGED <<transcriptionVars, workerVars, input, answer>>

UnknownBackendName(t) ==
    /\ at[t] = "backend"
    /\ settings.backend \notin {"deterministic", "qwen3_vl"}
    /\ Reply(t, Failure(501))
    /\ UNCHANGED <<transcriptionVars, settings, machine, input, factoryVars, transcriberOf,
                   sampled>>

\* The check of both globals; with one environment there is one key.
CheckCache(t) ==
    /\ at[t] = "backend"
    /\ settings.backend = "qwen3_vl"
    /\ Move(t, IF cachedBackend = None \/ ~cachedKey THEN "building" ELSE "returning")
    /\ UNCHANGED <<transcriptionVars, workerVars, input, answer>>

Build(t) ==
    /\ at[t] = "building"
    /\ cachedBackend' = t
    /\ Move(t, "keying")
    /\ UNCHANGED <<transcriptionVars, settings, machine, input, cachedKey, backend,
                   transcriberOf, upload, sampled, answer>>

\* (mutated) The key is not remembered.
KeyForgotten(t) == cachedKey

KeyAfter(t) == TRUE

PublishKey(t) ==
    /\ at[t] = "keying"
    /\ cachedKey' = KeyAfter(t)
    /\ Move(t, "returning")
    /\ UNCHANGED <<transcriptionVars, settings, machine, input, cachedBackend, backend,
                   transcriberOf, upload, sampled, answer>>

\* The global is read again: it may be another thread's by now.
ReturnCached(t) ==
    /\ at[t] = "returning"
    /\ backend' = [backend EXCEPT ![t] = cachedBackend]
    /\ Move(t, AfterBackend(t))
    /\ UNCHANGED <<transcriptionVars, settings, machine, input, cachedBackend, cachedKey,
                   transcriberOf, upload, sampled, answer>>

-----------------------------------------------------------------------------
\* What comes before the embedding.

MissingFile(t) ==
    /\ at[t] = "file"
    /\ input[t].key # "good"
    /\ Reply(t, Failure(IF input[t].key = "bad" THEN 400 ELSE 404))
    /\ UNCHANGED <<transcriptionVars, settings, machine, input, factoryVars, transcriberOf,
                   sampled>>

\* do_transcribe; the deterministic backend takes no notice of it.
DoTranscribe(t) ==
    /\ settings.backend = "qwen3_vl"
    /\ EnvBool(input[t].transcribe, settings.transcribe)

\* The file is there.  _get_transcriber looks at its attribute first.
OpenFile(t) ==
    /\ at[t] = "file"
    /\ input[t].key = "good"
    /\ \/ /\ input[t].endpoint = "transcribe_video"
          /\ Move(t, "transcribing") /\ GoTo(t, "lookup") /\ UNCHANGED uses
       \/ /\ input[t].endpoint = "embed_video" /\ ~DoTranscribe(t)
          /\ Move(t, "embedding") /\ UNCHANGED <<step, uses>>
       \/ /\ input[t].endpoint = "embed_video" /\ DoTranscribe(t)
          /\ IF transcriberOf[backend[t]] # None
             THEN Move(t, "reading") /\ UNCHANGED <<step, uses>>
             ELSE Move(t, "finding") /\ GoTo(t, "lookup") /\ UNCHANGED uses
    /\ UNCHANGED <<workerVars, cacheVars, modelVars, callVars, input, answer>>

\* self._transcriber is assigned, and read again.
AssignTranscriber(t) ==
    /\ at[t] = "finding"
    /\ step[t] = "have"
    /\ transcriberOf' = [transcriberOf EXCEPT ![backend[t]] = uses[t]]
    /\ Move(t, "reading")
    /\ UNCHANGED <<transcriptionVars, settings, machine, input, factoryVars, upload, sampled,
                   answer>>

ReadTranscriber(t) ==
    /\ at[t] = "reading"
    /\ uses' = [uses EXCEPT ![t] = transcriberOf[backend[t]]]
    /\ GoTo(t, "have")
    /\ Move(t, "transcribing")
    /\ UNCHANGED <<workerVars, cacheVars, modelVars, callVars, input, answer>>

CallTranscription(t) ==
    /\ \/ at[t] \in {"finding", "transcribing"} /\ GetTranscriber(t)
       \/ at[t] = "transcribing" /\ Transcribe(t)
    /\ UNCHANGED <<workerVars, input, at, answer>>

Transcribed(t) ==
    /\ at[t] = "transcribing"
    /\ step[t] = "heard"
    /\ IF input[t].endpoint = "embed_video"
       THEN Move(t, "embedding") /\ UNCHANGED <<upload, answer>>
       ELSE Reply(t, [status |-> 200, transcript |-> result[t]])
    /\ UNCHANGED <<transcriptionVars, settings, machine, input, factoryVars, transcriberOf,
                   sampled>>

TranscriptionFailed(t) ==
    /\ at[t] \in {"finding", "transcribing"}
    /\ step[t] = "raised"
    /\ Reply(t, Failure(Status(input[t].endpoint, result[t])))
    /\ UNCHANGED <<transcriptionVars, settings, machine, input, factoryVars, transcriberOf,
                   sampled>>

\* Parts of the form without a byte do not count.
ReadFrames(t) ==
    /\ at[t] = "frames"
    /\ IF input[t].frames = "empty"
       THEN Reply(t, Failure(400))
       ELSE Move(t, "embedding") /\ UNCHANGED <<upload, answer>>
    /\ UNCHANGED <<transcriptionVars, settings, machine, input, factoryVars, transcriberOf,
                   sampled>>

-----------------------------------------------------------------------------
\* The embedding.

Success(t, version, vector, size, transcript) ==
    [status |-> 200, version |-> version, dims |-> Dims(t), vector |-> vector, size |-> size,
     transcript |-> transcript]

\* The transcript of a frames request comes with it.
TranscriptFor(t) ==
    CASE input[t].endpoint = "embed_video" -> result[t]
      [] input[t].endpoint = "embed_frames" -> input[t].transcript
      [] OTHER -> None

CaptionVersion(t) ==
    IF input[t].caption # Blank THEN "caption_v1"
    ELSE IF input[t].endpoint = "embed_video" THEN "hash_v1" ELSE "frames_hash_v1"

EmbedByHash(t) ==
    /\ at[t] = "embedding"
    /\ settings.backend = "deterministic"
    /\ LET e == IF input[t].endpoint = "embed_text" THEN EmbedText(input[t].caption, Dims(t))
                ELSE EmbedMedia(input[t].caption, Dims(t))
       IN  Reply(t, IF e.ok THEN Success(t, CaptionVersion(t), e.vector, Len(e.vector),
                                         TranscriptFor(t))
                    ELSE Failure(Status(input[t].endpoint, "Value")))
    /\ UNCHANGED <<transcriptionVars, settings, machine, input, factoryVars, transcriberOf,
                   sampled>>

\* sha256_file cannot open the file any more.
FileVanished(t) ==
    /\ at[t] = "embedding"
    /\ settings.backend = "deterministic"
    /\ input[t].endpoint = "embed_video" /\ input[t].caption = Blank
    /\ Reply(t, Failure(Status("embed_video", "Other")))
    /\ UNCHANGED <<transcriptionVars, settings, machine, input, factoryVars, transcriberOf,
                   sampled>>

\* Frames PIL cannot read, and a text of white space.
NothingToEmbed(r) ==
    \/ r.endpoint = "embed_frames" /\ r.frames = "garbled"
    \/ r.endpoint = "embed_text" /\ r.caption = Blank

\* _qwen_video_reader_backend
Reader == IF settings.reader # "installed" THEN settings.reader ELSE machine.reader

\* What embed_video gives the embedder, and whether it extracts the frames itself.
Sampling(t) ==
    [params |-> SamplingParams(input[t].duration, settings.fps, settings.maxFrames,
                               settings.targetFrames),
     extract |-> ExtractsFrames(settings.targetFrames, settings.extractor, Reader)]

EmbedByModel(t) ==
    /\ at[t] = "embedding"
    /\ settings.backend = "qwen3_vl"
    /\ ~NothingToEmbed(input[t])
    /\ sampled' = IF input[t].endpoint = "embed_video"
                  THEN [sampled EXCEPT ![t] = Sampling(t)] ELSE sampled
    /\ Reply(t, Success(t, IF TranscriptFor(t) = "words" THEN "qwen3_vl_whisper_v1"
                           ELSE "qwen3_vl_v1",
                        None, Truncated(Hidden, Dims(t)), TranscriptFor(t)))
    /\ UNCHANGED <<transcriptionVars, settings, machine, input, factoryVars, transcriberOf>>

\* The model is not installed, not loaded, or fails.
ModelFails(t) ==
    /\ at[t] = "embedding"
    /\ settings.backend = "qwen3_vl"
    /\ \E e \in IF NothingToEmbed(input[t]) THEN {"Value"} ELSE {"Import", "Value", "Runtime"} :
          Reply(t, Failure(Status(input[t].endpoint, e)))
    /\ UNCHANGED <<transcriptionVars, settings, machine, input, factoryVars, transcriberOf,
                   sampled>>

Serve(t) ==
    \/ DeterministicBackend(t) \/ UnknownBackendName(t) \/ CheckCache(t) \/ Build(t)
    \/ PublishKey(t) \/ ReturnCached(t) \/ MissingFile(t) \/ OpenFile(t)
    \/ AssignTranscriber(t) \/ ReadTranscriber(t) \/ CallTranscription(t) \/ Transcribed(t)
    \/ TranscriptionFailed(t) \/ ReadFrames(t) \/ EmbedByHash(t) \/ FileVanished(t)
    \/ EmbedByModel(t) \/ ModelFails(t)

\* A thread serves one request, so that the threads are the requests there are.
Idle == (\A t \in Threads : at[t] = "done") /\ UNCHANGED vars

Next ==
    \/ \E t \in Threads, r \in Inputs : Receive(t, r) \/ Refuse(t, r)
    \/ \E t \in Threads : Serve(t)
    \/ Idle

Spec == Init /\ [][Next]_vars

-----------------------------------------------------------------------------
Answered(t) == answer[t].status # 0

Succeeded(t) == answer[t].status = 200

\* The places and the files belong to threads, a transcriber or backend in use
\* was made by one, and nothing is called without having been found.
TypeOK ==
    /\ {outerCache, innerCache, cachedBackend} \subseteq Threads \cup {None}
    /\ {uses, backend, transcriberOf} \subseteq [Threads -> Threads \cup {None}]
    /\ upload \cup wav \cup tmp \subseteq Threads
    /\ result \in [Threads -> Transcripts \cup Errors \cup {None}]
    /\ \A t \in Threads :
          /\ at[t] = "transcribing" /\ step[t] \notin {"lookup", "missed", "making", "raised"}
                => uses[t] # None
          /\ Answered(t) <=> at[t] = "done"

\* A vector has as many components as the answer says, unless the model has
\* fewer or the dims make no sense; the version names the transcript if and
\* only if one went in; and "no audio" is never said of a video with sound.
Honest(t) ==
    Succeeded(t) =>
        /\ answer[t].transcript = "noaudio" => ~input[t].sound
        /\ input[t].endpoint \in Embeds =>
              /\ \/ answer[t].size = answer[t].dims
                 \/ /\ settings.backend = "qwen3_vl"
                    /\ answer[t].dims \notin 1..Hidden /\ answer[t].size = Hidden
              /\ settings.backend = "qwen3_vl" =>
                    (answer[t].version = "qwen3_vl_whisper_v1" <=> answer[t].transcript = "words")

\* What the worker answers of a request is so.
AnswerHonest == TypeOK /\ \A t \in Threads : Honest(t)

\* A temporary file exists only while the request that made it is at work; the
\* exception is the wav file of a request that failed in ffmpeg.
TempFilesGone ==
    \A t \in Threads :
        /\ t \in upload => at[t] # "done"
        /\ t \in wav => result[t] = "ffmpeg" \/ step[t] = "running"

\* Half precision is used if and only if the model is on a GPU with CUDA,
\* unless the environment asks for a precision, whoever loaded the model.
HalfOnlyOnCuda ==
    /\ \A t \in Threads :
          step[t] = "running" /\ settings.whisper = "openai" =>
              (kwargs[t].half <=> model[uses[t]].device = "cuda")
    /\ \A x \in Threads :
          model[x] # None =>
              /\ settings.whisperDevice # "auto" => model[x].device = settings.whisperDevice
              /\ settings.whisperDevice = "auto" =>
                    (model[x].device = "cuda" <=> "cuda" \in machine.gpus)
              /\ settings.dtype = "auto" =>
                    (model[x].dtype = "float16" <=> model[x].device = "cuda")

\* A generation fits into the decoder after its prompt, if anything does; one
\* that would be cut short is given a limit; and no limit exceeds the override.
TokensFit ==
    \A t \in Threads :
        LET tokens == kwargs[t].tokens
            prompt == 1 + machine.decoder.prompt
            room == machine.decoder.prompt >= 0 /\ prompt + 1 < machine.decoder.positions
        IN  step[t] = "running" /\ settings.whisper = "transformers" =>
                /\ room => prompt + tokens < machine.decoder.positions
                /\ room /\ CutsShort(machine.decoder) => tokens > 0
                /\ settings.override > 0 => tokens \in 1..settings.override

\* The frames asked of a video: at least one, no more than either limit allows,
\* and where the duration is known spread evenly over all of it: the last is
\* looked for before the end, and one more would not be.
FramesCover ==
    \A t \in Threads : sampled[t] # None =>
        LET p == sampled[t].params
            Before(moment, duration) == moment.num < duration * moment.den
        IN  /\ p.frames >= 1
            /\ settings.maxFrames > 0 => p.frames <= settings.maxFrames
            /\ settings.targetFrames > 0 => p.frames <= settings.targetFrames
            /\ settings.targetFrames > 0 /\ input[t].duration > 0 =>
                  /\ Before(Timestamp(p, p.frames - 1), input[t].duration)
                  /\ ~Before(Timestamp(p, p.frames), input[t].duration)

\* The words hashed to the component i of a vector: those that count one, less
\* those that count minus one.
Votes(words, dims, i) ==
    LET Cast(sign) == Cardinality({n \in DOMAIN words :
                          Hash[words[n]] % dims = i - 1 /\ Sign[words[n]] = sign})
    IN  Cast(1) - Cast(-1)

\* Of a request for a vector that nothing is wrong with.
Hashed(t) ==
    /\ settings.backend = "deterministic"
    /\ Answered(t)
    /\ input[t].endpoint \in Embeds
    /\ input[t].key = "good" /\ input[t].frames # "empty" /\ Dims(t) > 0

VectorSound(t) ==
    LET words == input[t].caption
        dims == Dims(t)
        counts == [i \in 1..dims |-> Votes(words, dims, i)]
        cancel == \A i \in 1..dims : counts[i] = 0
    IN  /\ words # Blank => (Succeeded(t) <=> ~cancel)
        /\ words # Blank /\ Succeeded(t) => answer[t].vector = counts
        /\ Succeeded(t) => Len(answer[t].vector) = dims
        /\ words = Blank /\ Succeeded(t) =>
              \A b \in 0..((dims - 1) \div 32), j \in 1..32 :
                 32 * b + j <= dims => answer[t].vector[32 * b + j] = 2 * Digest[b][j] - 255

\* A vector of the deterministic backend counts every word of the caption, or
\* is made of all the bytes of the hashes; a caption is refused if and only if
\* its words, if it has any, cancel out.
VectorsSound == \A t \in Threads : Hashed(t) => VectorSound(t)

Warm(t) ==
    /\ at[t] = "backend" /\ at'[t] = "building" =>
          \A u \in Threads : ~(Succeeded(u) /\ input[u].endpoint \in Embeds)
    /\ step[t] = "lookup" /\ step'[t] = "missed" =>
          \A u \in Threads : result[u] \notin Transcripts

\* Once a request has been answered by a backend, no request that comes after
\* builds another; once a recording has been transcribed, none makes another
\* transcriber; and a loaded model is never replaced by one that is different.
WarmStays ==
    [][/\ \A t \in Threads : Warm(t)
       /\ \A x \in Threads : model[x] # None => model'[x] = model[x]]_vars
=============================================================================
