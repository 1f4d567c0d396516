------------------------------ MODULE MCWorker ------------------------------
(* Instances of Worker for TLC. *)
EXTENDS Worker, TLC

Words == {"cat", "dog", "sun"}

\* In four dimensions cat and dog cancel out.
SmallHash == [w \in Words |-> CASE w = "cat" -> 5 [] w = "dog" -> 9 [] w = "sun" -> 6]

SmallSign == [w \in Words |-> IF w = "dog" THEN -1 ELSE 1]

TwoDigests == [i \in 0..1 |-> [j \in 1..32 |-> (97 * i + 37 * j) % 256]]

\* Five workers: without models; as set up by the README; with everything set;
\* without limits of frames and for a video reader; with unknown names.
FiveEnvironments == {
    [EMBEDDING_DIMS |-> 4],
    [EMBEDDING_BACKEND |-> "qwen3_vl"],
    [EMBEDDING_BACKEND |-> "qwen3_vl", EMBEDDING_DIMS |-> 2, QWEN_VIDEO_MAX_FRAMES |-> 3,
     WHISPER_BACKEND |-> "transformers", WHISPER_LANGUAGE |-> "en",
     WHISPER_MAX_NEW_TOKENS |-> 445, WHISPER_DTYPE |-> "bfloat16"],
    [EMBEDDING_BACKEND |-> "qwen3_vl", TRANSCRIBE_ENABLED |-> "off",
     QWEN_VIDEO_FPS |-> 0, QWEN_VIDEO_MAX_FRAMES |-> 0, QWEN_VIDEO_TARGET_FRAMES |-> 0,
     WHISPER_BACKEND |-> "transformers", WHISPER_DEVICE |-> "mps",
     QWEN_VIDEO_FRAME_EXTRACTOR |-> "ffmpeg", FORCE_QWENVL_VIDEO_READER |-> "decord"],
    [EMBEDDING_BACKEND |-> "clip", WHISPER_BACKEND |-> "vosk"]}

Decoder(positions, prompt, lengths) ==
    [positions |-> positions, prompt |-> prompt, maxLengths |-> lengths]

\* A GPU and a model that cuts short; a Mac with an old tokenizer and no ffmpeg;
\* nothing installed.
ThreeMachines == {
    [gpus |-> {"cuda"}, installed |-> TRUE, ffmpeg |-> TRUE, reader |-> "torchvision",
     decoder |-> Decoder(448, 3, {20, 448})],
    [gpus |-> {"mps"}, installed |-> TRUE, ffmpeg |-> FALSE, reader |-> "torchcodec",
     decoder |-> Decoder(4, -1, {20})],
    [gpus |-> {}, installed |-> FALSE, ffmpeg |-> TRUE, reader |-> "decord",
     decoder |-> Decoder(0, 3, {})]}

\* Fields an endpoint does not have keep these values.
Request(endpoint) ==
    [endpoint |-> endpoint, dims |-> 0, caption |-> Blank, key |-> "good", frames |-> "ok",
     transcript |-> None, transcribe |-> "unset", duration |-> 0, sound |-> TRUE,
     audioName |-> FALSE]

SomeInputs ==
    {[Request("embed_video") EXCEPT !.caption = <<"cat", "cat", "sun">>, !.duration = 7],
     [Request("embed_video") EXCEPT !.transcribe = "on", !.dims = 33],
     [Request("embed_video") EXCEPT !.sound = FALSE, !.caption = <<"cat", "dog">>],
     [Request("embed_video") EXCEPT !.key = "bad"],
     [Request("embed_video") EXCEPT !.dims = -1],
     [Request("embed_frames") EXCEPT !.caption = <<>>, !.transcript = "words"],
     [Request("embed_frames") EXCEPT !.dims = -1],
     [Request("embed_frames") EXCEPT !.frames = "empty"],
     [Request("embed_frames") EXCEPT !.frames = "garbled", !.dims = 2],
     [Request("embed_text") EXCEPT !.caption = <<"sun", "dog">>, !.dims = 3],
     Request("embed_text"),
     [Request("transcribe_video") EXCEPT !.key = "gone"],
     Request("transcribe_video"),
     [Request("transcribe_audio") EXCEPT !.audioName = TRUE],
     [Request("transcribe_audio") EXCEPT !.sound = FALSE]}

AnyThread == Permutations(Threads)
=============================================================================
