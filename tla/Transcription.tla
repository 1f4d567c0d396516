--------------------------- MODULE Transcription ---------------------------
(***************************************************************************)
(* transcription.py as the threads of the worker call it: the two caches   *)
(* that hand out the transcriber (lru_cache runs the function it wraps     *)
(* outside its lock), the lazy load of its model without a lock, and one   *)
(* call of transcribe with its temporary wav file.                         *)
(* A transcriber is named after the thread that constructed it.            *)
(***************************************************************************)
EXTENDS Integers

CONSTANTS
    Threads,
    None

\* "mute" and "noaudio" are both the empty string.
Transcripts == {"words", "mute", "noaudio"}

ASSUME NoneAssumption == None \notin Threads \cup Transcripts

VARIABLES
    settings,     \* what get_settings() and os.environ say
    machine,      \* what is installed, and the decoder of the model
    input,        \* per thread: the request it serves
    outerCache,   \* of get_whisper_transcriber
    innerCache,   \* of get_openai_ / get_transformers_whisper_transcriber
    device,       \* per transcriber: self._device
    model,        \* per transcriber: self._model or self._pipeline
    step,         \* per thread: where its call is
    uses,         \* per thread: the transcriber it has got
    kwargs,       \* per thread: the arguments of the generation
    tmp,          \* threads whose tmp_audio_path is set
    wav,          \* threads whose call left a wav file in the temporary directory
    result        \* per thread: what transcribe heard, or raised

cacheVars == <<outerCache, innerCache>>
modelVars == <<device, model>>
callVars == <<kwargs, tmp, wav, result>>
transcriptionVars == <<outerCache, innerCache, device, model, step, uses, kwargs, tmp, wav, result>>

Errors == {"NotImplemented", "Import", "Value", "Runtime", "ffmpeg", "Other"}

Default == [half |-> FALSE, tokens |-> 0]

TranscriptionInit ==
    /\ outerCache = None /\ innerCache = None
    /\ device = [t \in Threads |-> settings.whisperDevice]
    /\ model = [t \in Threads |-> None]
    /\ step = [t \in Threads |-> "idle"]
    /\ uses = [t \in Threads |-> None]
    /\ kwargs = [t \in Threads |-> Default]
    /\ tmp = {} /\ wav = {}
    /\ result = [t \in Threads |-> None]

GoTo(t, s) == step' = [step EXCEPT ![t] = s]

-----------------------------------------------------------------------------
\* Tokens of a generation; machine.decoder describes the model: positions
\* (0 if it does not say), prompt (negative if the tokenizer does not say)
\* and the maximal lengths its two configurations give.

\* (mutated) The decoder's start token is not counted.
PromptWithoutStart(decoder, language) ==
    IF decoder.prompt >= 0 THEN decoder.prompt ELSE IF language THEN 4 ELSE 3

\* _decoder_prompt_len_for_pipeline
PromptLen(decoder, language) ==
    IF decoder.prompt >= 0 THEN 1 + decoder.prompt ELSE IF language THEN 4 ELSE 3

\* _max_new_tokens_budget_for_pipeline, 0 for None.
TokenBudget(decoder, language) ==
    LET budget == decoder.positions - PromptLen(decoder, language) - 1
    IN  IF decoder.positions <= 0 \/ budget <= 0 THEN 0 ELSE budget

\* A maximal length below 64 would cut every transcript short.
CutsShort(decoder) == \E length \in decoder.maxLengths : length < 64

\* (mutated) WHISPER_MAX_NEW_TOKENS goes to the model as it is.
OverrideUnbounded(override, decoder, language) ==
    IF override > 0 THEN override
    ELSE IF CutsShort(decoder) THEN TokenBudget(decoder, language) ELSE 0

\* _default_max_new_tokens_for_pipeline, 0 for None; override is not positive
\* when WHISPER_MAX_NEW_TOKENS is unset or not a positive number.
MaxNewTokens(override, decoder, language) ==
    LET budget == TokenBudget(decoder, language)
    IN  IF override > 0
        THEN IF budget = 0 \/ override < budget THEN override ELSE budget
        ELSE IF decoder.positions > 0 /\ CutsShort(decoder) THEN budget ELSE 0

-----------------------------------------------------------------------------
\* get_whisper_transcriber.

Cached(cache, t) == IF cache = None THEN t ELSE cache

Known == settings.whisper \in {"openai", "transformers"}

\* The outer cache; a call that misses it runs the function.
LookUp(t) ==
    /\ step[t] = "lookup"
    /\ Known
    /\ IF outerCache # None
       THEN uses' = [uses EXCEPT ![t] = outerCache] /\ GoTo(t, "have")
       ELSE GoTo(t, "missed") /\ UNCHANGED uses
    /\ UNCHANGED <<cacheVars, modelVars, callVars>>

UnknownBackend(t) ==
    /\ step[t] = "lookup"
    /\ ~Known
    /\ result' = [result EXCEPT ![t] = "NotImplemented"]
    /\ GoTo(t, "raised")
    /\ UNCHANGED <<cacheVars, modelVars, uses, kwargs, tmp, wav>>

LookUpInner(t) ==
    /\ step[t] = "missed"
    /\ IF innerCache # None
       THEN uses' = [uses EXCEPT ![t] = innerCache] /\ GoTo(t, "found")
       ELSE GoTo(t, "making") /\ UNCHANGED uses
    /\ UNCHANGED <<cacheVars, modelVars, callVars>>

\* The constructor returns; a cache keeps what came first, the caller has its own.
Make(t) ==
    /\ step[t] = "making"
    /\ uses' = [uses EXCEPT ![t] = t]
    /\ innerCache' = Cached(innerCache, t)
    /\ GoTo(t, "found")
    /\ UNCHANGED <<outerCache, modelVars, callVars>>

\* (mutated) Nothing is kept.
KeepNothing(t) == None

KeptFor(t) == Cached(outerCache, uses[t])

Keep(t) ==
    /\ step[t] = "found"
    /\ outerCache' = KeptFor(t)
    /\ GoTo(t, "have")
    /\ UNCHANGED <<innerCache, modelVars, uses, callVars>>

-----------------------------------------------------------------------------
\* _get_model and _get_pipeline.

DefaultDevice ==
    IF "cuda" \in machine.gpus THEN "cuda"
    ELSE IF "mps" \in machine.gpus THEN "mps" ELSE "cpu"

Resolve(d) == IF d = "auto" THEN DefaultDevice ELSE d

\* _whisper_dtype_from_env, _default_whisper_dtype
Dtype(d) ==
    IF settings.dtype \in {"float32", "float16", "bfloat16"} THEN settings.dtype
    ELSE IF d = "cuda" THEN "float16" ELSE "float32"

\* (mutated) self._device is assigned with the model.
NotResolvedYet(t) == device

\* self._device is assigned before the model is loaded.
ResolvedBefore(t) == [device EXCEPT ![uses[t]] = Resolve(@)]

Loaded(t) == model[uses[t]] # None

GetLoaded(t) ==
    /\ step[t] = "have"
    /\ Loaded(t)
    /\ GoTo(t, "ready")
    /\ UNCHANGED <<cacheVars, modelVars, uses, callVars>>

BeginLoad(t) ==
    /\ step[t] = "have"
    /\ ~Loaded(t)
    /\ machine.installed
    /\ device' = ResolvedBefore(t)
    /\ GoTo(t, "loading")
    /\ UNCHANGED <<cacheVars, model, uses, callVars>>

\* The import of whisper, torch or transformers.
NotInstalled(t) ==
    /\ step[t] = "have"
    /\ ~Loaded(t)
    /\ ~machine.installed
    /\ result' = [result EXCEPT ![t] = "Import"]
    /\ GoTo(t, "raised")
    /\ UNCHANGED <<cacheVars, modelVars, uses, kwargs, tmp, wav>>

EndLoad(t) ==
    /\ step[t] = "loading"
    /\ model' = [model EXCEPT ![uses[t]] =
                    LET d == Resolve(device[uses[t]]) IN [device |-> d, dtype |-> Dtype(d)]]
    /\ GoTo(t, "ready")
    /\ UNCHANGED <<cacheVars, device, uses, callVars>>

LoadFails(t) ==
    /\ step[t] = "loading"
    /\ result' = [result EXCEPT ![t] = "Runtime"]
    /\ GoTo(t, "raised")
    /\ UNCHANGED <<cacheVars, modelVars, uses, kwargs, tmp, wav>>

-----------------------------------------------------------------------------
\* transcribe.

\* The transformers pipeline wants an audio file, by its suffix.
Prepare(t) ==
    /\ step[t] = "ready"
    /\ kwargs' = [kwargs EXCEPT ![t] =
                     IF settings.whisper = "openai"
                     THEN [Default EXCEPT !.half = device[uses[t]] = "cuda"]
                     ELSE [Default EXCEPT !.tokens = MaxNewTokens(settings.override,
                                                                  machine.decoder,
                                                                  settings.language)]]
    /\ GoTo(t, IF settings.whisper = "openai" \/ input[t].audioName THEN "running"
               ELSE "extracting")
    /\ UNCHANGED <<cacheVars, modelVars, uses, tmp, wav, result>>

Extract(t) ==
    /\ step[t] = "extracting"
    /\ machine.ffmpeg /\ input[t].sound
    /\ tmp' = tmp \cup {t}
    /\ wav' = wav \cup {t}
    /\ GoTo(t, "running")
    /\ UNCHANGED <<cacheVars, modelVars, uses, kwargs, result>>

\* ffmpeg matches no streams; the empty wav file is removed.
ExtractNothing(t) ==
    /\ step[t] = "extracting"
    /\ machine.ffmpeg /\ ~input[t].sound
    /\ result' = [result EXCEPT ![t] = "noaudio"]
    /\ GoTo(t, "heard")
    /\ UNCHANGED <<cacheVars, modelVars, uses, kwargs, tmp, wav>>

\* (mutated) A failed ffmpeg is taken for a video without audio.
FailsSilently(t) == "noaudio"

\* No ffmpeg, or it fails: the wav file that was made before stays.
ExtractError(t) == "ffmpeg"

ExtractFails(t) ==
    /\ step[t] = "extracting"
    /\ wav' = wav \cup {t}
    /\ result' = [result EXCEPT ![t] = ExtractError(t)]
    /\ GoTo(t, IF ExtractError(t) \in Errors THEN "raised" ELSE "heard")
    /\ UNCHANGED <<cacheVars, modelVars, uses, kwargs, tmp>>

\* (mutated) An error leaves the file.
RemovedOnSuccess(t, s) == IF s = "heard" THEN wav \ (tmp \cap {t}) ELSE wav

\* The finally of transcribe.
Removed(t, s) == wav \ (tmp \cap {t})

EndCall(t, s, r) ==
    /\ result' = [result EXCEPT ![t] = r]
    /\ wav' = Removed(t, s)
    /\ GoTo(t, s)
    /\ UNCHANGED <<cacheVars, modelVars, uses, kwargs, tmp>>

\* Long audio is heard by the second call of _run_asr_pipeline.
Hear(t) ==
    /\ step[t] = "running"
    /\ \E r \in {"words", "mute"} : EndCall(t, "heard", r)

RunFails(t) ==
    /\ step[t] = "running"
    /\ \E e \in {"Value", "Runtime"} : EndCall(t, "raised", e)

\* Soundfile cannot read what has the name of an audio file.
RunNeedsWav(t) ==
    /\ step[t] = "running"
    /\ settings.whisper = "transformers" /\ t \notin tmp
    /\ GoTo(t, "extracting")
    /\ UNCHANGED <<cacheVars, modelVars, uses, callVars>>

GetTranscriber(t) ==
    LookUp(t) \/ UnknownBackend(t) \/ LookUpInner(t) \/ Make(t) \/ Keep(t)

Transcribe(t) ==
    \/ GetLoaded(t) \/ BeginLoad(t) \/ NotInstalled(t) \/ EndLoad(t) \/ LoadFails(t)
    \/ Prepare(t) \/ Extract(t) \/ ExtractNothing(t) \/ ExtractFails(t)
    \/ Hear(t) \/ RunFails(t) \/ RunNeedsWav(t)
=============================================================================
