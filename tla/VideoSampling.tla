--------------------------- MODULE VideoSampling ---------------------------
(***************************************************************************)
(* How Qwen3VLBackend.embed_video chooses the frames of a video before it  *)
(* calls the embedder.  A rate is a pair of integers, num / den frames per *)
(* second; a duration is in whole seconds, 0 when ffprobe could not tell.  *)
(***************************************************************************)
EXTENDS Integers

Smaller(a, b) == IF a < b THEN a ELSE b

\* max_frames, which is at least one.
FrameCap(baseMaxFrames) == IF baseMaxFrames <= 0 THEN 1 ELSE baseMaxFrames

\* (mutated) The target is not held to the cap.
TargetUncapped(baseMaxFrames, target) == target

Target(baseMaxFrames, target) == Smaller(FrameCap(baseMaxFrames), target)

\* (mutated) The rate is that of the frames between the first and the last.
RateToLast(frames, duration, baseFps) ==
    IF duration <= 0 \/ frames = 1 THEN [num |-> baseFps, den |-> 1]
    ELSE [num |-> frames - 1, den |-> duration]

\* As many frames as the target, spread over the duration where it is known.
Rate(frames, duration, baseFps) ==
    IF duration <= 0 THEN [num |-> baseFps, den |-> 1]
    ELSE [num |-> frames, den |-> duration]

\* _compute_video_sampling_params: a target of zero turns the target off.
SamplingParams(duration, baseFps, baseMaxFrames, target) ==
    IF target <= 0
    THEN [fps |-> [num |-> baseFps, den |-> 1], frames |-> FrameCap(baseMaxFrames)]
    ELSE LET frames == Target(baseMaxFrames, target)
         IN  [fps |-> Rate(frames, duration, baseFps), frames |-> frames]

\* _extract_video_frames_ffmpeg replaces a rate that is not positive by one.
UsableRate(fps) == IF fps.num <= 0 THEN [num |-> 1, den |-> 1] ELSE fps

\* When it looks for the frame i, from 0; again a pair of integers.
Timestamp(params, i) ==
    LET rate == UsableRate(params.fps) IN [num |-> i * rate.den, den |-> rate.num]

\* _should_extract_video_frames; extractor is QWEN_VIDEO_FRAME_EXTRACTOR.
ExtractsFrames(target, extractor, reader) ==
    /\ target > 0
    /\ \/ extractor = "ffmpeg"
       \/ extractor = "auto" /\ reader = "torchvision"
=============================================================================
