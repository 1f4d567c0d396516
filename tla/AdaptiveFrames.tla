--------------------------- MODULE AdaptiveFrames ---------------------------
(***************************************************************************)
(* _process_with_adaptive_max_frames: the embedder is called again with    *)
(* another input when it fails in one of three known ways.  The input is   *)
(* a path, or the list of frames to embed; frame i of a list is the number *)
(* i, and a video that is read by ffmpeg has frames 1, 2, 3, ...           *)
(***************************************************************************)
EXTENDS Naturals, Sequences, FiniteSets

CONSTANTS
    MostFrames,   \* QWEN_VIDEO_MAX_FRAMES: no budget is larger
    TokenCounts,  \* numbers of tokens that an error message may name
    Path          \* a video given by its path

ASSUME BudgetAssumption == MostFrames \in Nat \ {0}

ASSUME TokenAssumption == TokenCounts \subseteq Nat

ASSUME PathAssumption == Path \notin Seq(1..MostFrames)

Attempts == 6

VARIABLES
    base,        \* the video of base_input
    video,       \* the video of the current input
    maxFrames,   \* max_frames, of the loop and of the current input
    attempt,     \* how many attempts of the loop have failed
    outcome,     \* "pending", "ok", or the error that is raised
    tooMany      \* history: the last budget the embedder refused

framesVars == <<base, video, maxFrames, attempt, outcome, tooMany>>

Videos == {Path} \cup Seq(1..MostFrames)

Frames(n) == [i \in 1..n |-> i]

\* embed_video gives a path or the frames ffmpeg could extract within the
\* budget, embed_video_frames gives as many frames as the budget allows.
FramesInit ==
    /\ maxFrames \in 1..MostFrames
    /\ base \in {Path} \cup {Frames(n) : n \in 1..maxFrames}
    /\ video = base
    /\ attempt = 0
    /\ outcome = "pending"
    /\ tooMany = 0

-----------------------------------------------------------------------------
(* The helpers *)

\* Mutated form of Spread: the last frame is never reached.
SpreadShort(n, target, i) == 1 + ((i * (n - 1)) \div target)

\* The i-th of target positions (i from 0) spread evenly over 1..n.
Spread(n, target, i) == 1 + ((i * (n - 1)) \div (target - 1))

\* _downsample_frames
Downsample(s, target) ==
    IF Len(s) <= target THEN s
    ELSE IF target = 1 THEN <<s[1]>>
    ELSE [i \in 1..target |-> s[Spread(Len(s), target, i - 1)]]

\* Mutated form of Half: half of the frames after the first, and no max(1, ...).
HalfToZero(current) == (current - 1) \div 2

\* max(1, current // 2)
Half(current) == IF current > 1 THEN current \div 2 ELSE 1

\* int(current * (ids / text)) in floating point: an exact quotient may be
\* missed by one from below.
Quotients(current, ids, text) ==
    LET q == (current * ids) \div text
    IN {q} \cup {p \in {q - 1} : (current * ids) % text = 0 /\ q > 0}

\* _reduce_max_frames_from_error with a message that names both counts.
ByRatio(current, ids, text) ==
    {IF q = 0 THEN 1 ELSE IF q >= current THEN current - 1 ELSE q :
        q \in Quotients(current, ids, text)}

\* _reduce_max_frames_from_error (current > 1); Half when the message names no
\* counts, or a count of zero.
Reduced(current) ==
    {Half(current)} \cup UNION {ByRatio(current, ids, text) :
                                   ids \in TokenCounts \ {0},
                                   text \in TokenCounts \ {0}}

\* Mutated form of NextBudgets: the cases "the ratio does not shrink the
\* budget" are left out, here and in _reduce_max_frames_from_error.
BudgetsUnclamped(current) == Reduced(current) \cup {current}

\* The budget of the next attempt: the loop clamps what it is told once more.
NextBudgets(current) ==
    {IF c >= current THEN Half(current) ELSE c : c \in Reduced(current)}

Increasing(s) == \A i, j \in DOMAIN s : i < j => s[i] < s[j]

\* What may be left of a list of frames, in order, but not nothing: frames that
\* cannot be resized are dropped.
Kept(s) ==
    {q \in UNION {[1..n -> {s[i] : i \in DOMAIN s}] : n \in 1..Len(s)} :
        Increasing(q)}

\* ffmpeg extracts one frame per timestamp; any of these calls may fail.
Extracted == Kept(Frames(maxFrames))

-----------------------------------------------------------------------------

Succeeds ==
    /\ outcome = "pending"
    /\ outcome' = "ok"
    /\ UNCHANGED <<base, video, maxFrames, attempt, tooMany>>

\* The input of the next attempt.
RetryWith(v) ==
    /\ outcome = "pending"
    /\ attempt < Attempts
    /\ attempt' = attempt + 1
    /\ video' = v
    /\ UNCHANGED <<base, outcome>>

Raise(error) ==
    /\ outcome = "pending"
    /\ outcome' = error
    /\ UNCHANGED <<base, video, maxFrames, attempt, tooMany>>

\* KeyError("video_fps"): only a path can be replaced by extracted frames.
MissingFpsRetried ==
    /\ video = Path
    /\ \E v \in Extracted : RetryWith(v)
    /\ UNCHANGED <<maxFrames, tooMany>>

\* ... no retry left, a list of frames, or nothing could be extracted.
MissingFpsRaised == Raise("video_fps")

\* "stack expects each tensor to be equal size": frames of a list are brought
\* to one size, and those that cannot be are dropped; a path is extracted.
SizeMismatchRetried ==
    /\ \E v \in IF video = Path THEN Extracted ELSE Kept(video) :
          RetryWith(v)
    /\ UNCHANGED <<maxFrames, tooMany>>

SizeMismatchRaised == Raise("size")

\* Mutated form of Shrunk: the list of frames is left as it is.
NotShrunk(budget) == base

\* The video of the input that is tried with a smaller budget.
Shrunk(budget) == IF base = Path THEN Path ELSE Downsample(base, budget)

\* The token counts of text and input differ: smaller budget, base input.
TokenMismatchRetried ==
    /\ maxFrames > 1
    /\ \E budget \in NextBudgets(maxFrames) :
          /\ RetryWith(Shrunk(budget))
          /\ maxFrames' = budget
    /\ tooMany' = maxFrames

\* ... with one frame left, or in the call after the last attempt.
TokenMismatchRaised ==
    /\ maxFrames <= 1 \/ attempt = Attempts
    /\ Raise("tokens")

OtherError == Raise("other")

FramesNext ==
    \/ Succeeds
    \/ MissingFpsRetried
    \/ MissingFpsRaised
    \/ SizeMismatchRetried
    \/ SizeMismatchRaised
    \/ TokenMismatchRetried
    \/ TokenMismatchRaised
    \/ OtherError

FramesSpec == FramesInit /\ [][FramesNext]_framesVars

-----------------------------------------------------------------------------
(* Properties *)

\* The variables keep their shape; a budget is never below one frame.
FramesTypeOK ==
    /\ base \in Videos
    /\ video \in Videos
    /\ maxFrames \in 1..MostFrames
    /\ attempt \in 0..Attempts
    /\ outcome \in {"pending", "ok", "video_fps", "size", "tokens", "other"}
    /\ tooMany \in 0..MostFrames

\* After the embedder refused a budget every later call uses a smaller one,
\* also when other errors were repaired in between, and a list of frames is
\* never longer than the budget and never out of order.
BelowRefused ==
    /\ tooMany # 0 => maxFrames < tooMany
    /\ video # Path => Len(video) <= maxFrames /\ Increasing(video)

\* The budget only ever goes down from what was refused, and never to nothing.
BudgetKept == maxFrames \in 1..MostFrames /\ BelowRefused

\* Shrinking a list of frames keeps its first frame, and its last one as long
\* as two are left: the embedding still covers the whole video.
CoversVideo ==
    [][ /\ maxFrames' < maxFrames
        /\ base # Path
        => /\ video'[1] = 1
           /\ maxFrames' > 1 => video'[Len(video')] = Len(base) ]_framesVars

=============================================================================
