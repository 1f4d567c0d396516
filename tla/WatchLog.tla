------------------------------ MODULE WatchLog ------------------------------
(***************************************************************************)
(* How watching becomes rows of `interactions`: the watch and impression   *)
(* part of the VideoFeed hook (app.js), its queue and timer, the batches   *)
(* it pushes, and FeedLive's handler that inserts them one by one.  The    *)
(* page shows the same videos throughout (Feed.tla models paging); its     *)
(* <video loop> elements start again after Duration ticks.  Only the       *)
(* active element can play: the observer pauses all others.                *)
(***************************************************************************)
EXTENDS Naturals, Sequences, SequencesExt

CONSTANTS
    Videos,       \* ids of the videos on the page
    First,        \* the one on top
    Duration,     \* ticks until a video starts again
    FlushAt,      \* 10 in app.js
    MaxWatch,     \* bound of the model: ticks of one watch
    MaxEvents     \* bound of the model: events queued

ASSUME WatchLogAssumption ==
    /\ First \in Videos
    /\ {Duration, FlushAt} \subseteq Nat \ {0}
    /\ {MaxWatch, MaxEvents} \subseteq Nat

VARIABLES
    active,            \* the video of activeIndex
    playing,           \* whether the active element plays
    userPaused,
    currentTime,       \* per element
    activeWatch,       \* [videoId, startSeconds], or NoWatch
    outbox,            \* interactionQueue, interactionFlushTimer, batches pushed
    left,              \* whether the page was left (destroyed)
    interactions,      \* the table, in the order of insertion
    happened,          \* history: every event that was queued, in order
    finished,          \* history: per video, the ticks played during finished watches
    sinceStart,        \* history: the ticks played since activeWatch was set
    lossless           \* history: no event was lost on its way

playerVars == <<active, playing, userPaused, currentTime>>

watchVars == <<activeWatch, finished, sinceStart>>

serverVars == <<interactions, lossless>>

vars == <<playerVars, watchVars, outbox, happened, left, serverVars>>

NoWatch == [videoId |-> "null"]

Impression(v) == [type |-> "impression", video |-> v, watch_ms |-> 0]

Watch(v, ticks) == [type |-> "watch", video |-> v, watch_ms |-> ticks]

Events == {Impression(v) : v \in Videos} \cup
          {Watch(v, n) : v \in Videos, n \in 1..(Duration - 1)}

\* (mutated) mounted starts the watch of the first video without its impression.
InitWatching ==
    /\ active = First
    /\ playing = FALSE
    /\ userPaused = FALSE
    /\ currentTime = [v \in Videos |-> 0]
    /\ activeWatch = [videoId |-> First, startSeconds |-> 0]
    /\ outbox = [queue |-> <<>>, timer |-> FALSE, batches |-> <<>>]
    /\ left = FALSE
    /\ interactions = <<>>
    /\ happened = <<>>
    /\ finished = [v \in Videos |-> 0]
    /\ sinceStart = 0
    /\ lossless = TRUE

Init ==
    /\ active = First
    /\ playing = FALSE
    /\ userPaused = FALSE
    /\ currentTime = [v \in Videos |-> 0]
    /\ activeWatch = NoWatch
    /\ outbox = [queue |-> <<>>, timer |-> FALSE, batches |-> <<>>]
    /\ left = FALSE
    /\ interactions = <<>>
    /\ happened = <<>>
    /\ finished = [v \in Videos |-> 0]
    /\ sinceStart = 0
    /\ lossless = TRUE

-----------------------------------------------------------------------------
\* The queue of the hook, as functions of the outbox.

\* (mutated) The events are copied out of the queue and stay in it.
FlushCopies(o) ==
    IF o.queue = <<>> THEN o ELSE [o EXCEPT !.batches = Append(@, o.queue)]

\* flushInteractionQueue
Flush(o) ==
    IF o.queue = <<>> THEN o
    ELSE [o EXCEPT !.queue = <<>>, !.batches = Append(@, o.queue)]

\* (mutated) The queue may reach its limit.
QueueOneMore(o, event) ==
    LET longer == [o EXCEPT !.queue = Append(@, event)]
    IN  IF Len(longer.queue) > FlushAt THEN Flush(longer)
        ELSE [longer EXCEPT !.timer = TRUE]

\* (mutated) The timer is set for the first event of the page only.
QueueTimerOnce(o, event) ==
    LET longer == [o EXCEPT !.queue = Append(@, event)]
    IN  IF Len(longer.queue) >= FlushAt THEN Flush(longer)
        ELSE [longer EXCEPT !.timer = o.timer \/ happened = <<>>]

\* queueInteraction
Queue(o, event) ==
    LET longer == [o EXCEPT !.queue = Append(@, event)]
    IN  IF Len(longer.queue) >= FlushAt THEN Flush(longer)
        ELSE [longer EXCEPT !.timer = TRUE]

-----------------------------------------------------------------------------
\* The hook.

\* The event that finalizeActiveWatch queues, if any.
Measured ==
    IF activeWatch # NoWatch /\ currentTime[active] > activeWatch.startSeconds
    THEN <<Watch(activeWatch.videoId, currentTime[active] - activeWatch.startSeconds)>>
    ELSE <<>>

QueueMeasured == IF Measured = <<>> THEN outbox ELSE Queue(outbox, Measured[1])

\* (mutated) Hiding the tab reports the watch but lets it run on.
FinalizeWithoutReset(next) ==
    /\ activeWatch' = IF next = NoWatch THEN activeWatch ELSE next
    /\ sinceStart' = 0
    /\ finished' = IF activeWatch = NoWatch THEN finished
                   ELSE [finished EXCEPT ![activeWatch.videoId] = @ + sinceStart]

\* finalizeActiveWatch, and what its caller sets activeWatch to.
FinalizeActiveWatch(next) ==
    /\ activeWatch' = next
    /\ sinceStart' = 0
    /\ finished' = IF activeWatch = NoWatch THEN finished
                   ELSE [finished EXCEPT ![activeWatch.videoId] = @ + sinceStart]

\* setActiveVideo: the observer reports another video than the active one ...
SetActiveVideo(v) ==
    LET events == Append(Measured, Impression(v))
    IN  /\ ~left
        /\ v # active
        /\ Len(happened) + Len(events) <= MaxEvents
        /\ FinalizeActiveWatch([videoId |-> v, startSeconds |-> currentTime[v]])
        /\ outbox' = Queue(QueueMeasured, Impression(v))
        /\ happened' = happened \o events
        /\ active' = v
        /\ userPaused' = FALSE
        /\ playing' = TRUE
        /\ UNCHANGED <<currentTime, left, serverVars>>

\* ... or the active one again, or for the first time.
KeepActiveVideo ==
    /\ ~left
    /\ playing' = (playing \/ ~userPaused)
    /\ UNCHANGED <<active, userPaused, currentTime, watchVars, outbox, happened, left,
                   serverVars>>

\* onPlayToggle
PlayToggle ==
    /\ ~left
    /\ userPaused' = ~userPaused
    /\ playing' = userPaused
    /\ UNCHANGED <<active, currentTime, watchVars, outbox, happened, left,
                   serverVars>>

\* onVisibilityChange, when the tab is hidden; what plays may go on playing.
HideTab ==
    /\ ~left
    /\ Len(happened) < MaxEvents
    /\ FinalizeActiveWatch(NoWatch)
    /\ outbox' = Flush(QueueMeasured)
    /\ happened' = happened \o Measured
    /\ UNCHANGED <<playerVars, left, serverVars>>

\* destroyed: the page is left.
Destroyed ==
    /\ ~left
    /\ left' = TRUE
    /\ playing' = FALSE
    /\ FinalizeActiveWatch(NoWatch)
    /\ outbox' = Flush(QueueMeasured)
    /\ happened' = happened \o Measured
    /\ UNCHANGED <<active, userPaused, currentTime, serverVars>>

\* The timer of scheduleInteractionFlush; destroyed does not clear it.
FlushTimeout ==
    /\ outbox.timer
    /\ outbox' = Flush([outbox EXCEPT !.timer = FALSE])
    /\ UNCHANGED <<playerVars, watchVars, happened, left, serverVars>>

\* The active element plays for a tick; it loops.
Play ==
    /\ playing
    /\ sinceStart < MaxWatch
    /\ currentTime' = [currentTime EXCEPT ![active] = (@ + 1) % Duration]
    /\ sinceStart' = IF activeWatch = NoWatch THEN 0 ELSE sinceStart + 1
    /\ UNCHANGED <<active, playing, userPaused, activeWatch, finished, outbox,
                   happened, left, serverVars>>

-----------------------------------------------------------------------------
\* The server: handle_event("interaction-batch") inserts event by event.

NextEvent == Head(Head(outbox.batches))

WithoutNextEvent ==
    LET rest == Tail(Head(outbox.batches))
    IN  [outbox EXCEPT !.batches = IF rest = <<>> THEN Tail(@)
                                   ELSE [@ EXCEPT ![1] = rest]]

Insert ==
    /\ outbox.batches # <<>>
    /\ interactions' = Append(interactions, NextEvent)
    /\ outbox' = WithoutNextEvent
    /\ UNCHANGED <<playerVars, watchVars, happened, left, lossless>>

\* The video is gone: the changeset's constraint fails, which is ignored.
InsertFails ==
    /\ outbox.batches # <<>>
    /\ outbox' = WithoutNextEvent
    /\ lossless' = FALSE
    /\ UNCHANGED <<playerVars, watchVars, happened, left, interactions>>

\* The socket closes, or the LiveView crashes in the middle of a batch.
Drop ==
    /\ outbox.batches # <<>>
    /\ outbox' = [outbox EXCEPT !.batches = <<>>]
    /\ lossless' = FALSE
    /\ UNCHANGED <<playerVars, watchVars, happened, left, interactions>>

Next ==
    \/ \E v \in Videos : SetActiveVideo(v)
    \/ KeepActiveVideo
    \/ PlayToggle
    \/ HideTab
    \/ Destroyed
    \/ FlushTimeout
    \/ Play
    \/ Insert
    \/ InsertFails
    \/ Drop

Spec == Init /\ [][Next]_vars

\* Timers fire and the server handles what arrives; the viewer owes nothing.
FairSpec == Spec /\ WF_vars(FlushTimeout) /\ WF_vars(Insert)

-----------------------------------------------------------------------------
\* Properties.

\* Type correctness; a watch row has a positive time below the duration.
TypeOK ==
    /\ active \in Videos
    /\ {playing, userPaused, left, lossless} \subseteq BOOLEAN
    /\ currentTime \in [Videos -> 0..(Duration - 1)]
    /\ activeWatch \in {NoWatch} \cup [videoId : Videos, startSeconds : 0..(Duration - 1)]
    /\ outbox \in [queue : Seq(Events), timer : BOOLEAN, batches : Seq(Seq(Events))]
    /\ Len(outbox.queue) < FlushAt
    /\ {interactions, happened} \subseteq Seq(Events)
    /\ finished \in [Videos -> Nat]
    /\ sinceStart \in 0..MaxWatch

\* As long as nothing is lost on the way, the table, the batches that travel and
\* the queue together hold every event of the page exactly once and in order.
OnceInOrder ==
    lossless =>
        interactions \o FlattenSeq(outbox.batches) \o outbox.queue = happened

TicksOf(events, v) ==
    LET ticks[n \in 0..Len(events)] ==
            IF n = 0 THEN 0
            ELSE ticks[n - 1] + (IF events[n].video = v THEN events[n].watch_ms ELSE 0)
    IN  ticks[Len(events)]

\* The watch time reported for a video is never more than it was played while it
\* was being watched: hiding the tab, leaving or scrolling reports a time once.
NeverOverReported == \A v \in Videos : TicksOf(happened, v) <= finished[v]

\* Each watch row of a video follows the impression it belongs to: a video that
\* was never made active has no watch time, whatever was lost before or after.
WatchAfterImpression ==
    \A i \in DOMAIN happened : happened[i].type = "watch" =>
        \E j \in 1..(i - 1) : happened[j] = Impression(happened[i].video)

\* On a connection that holds, each event reaches the table without the viewer
\* having to do anything more: the timer is always set when the queue is not empty.
EveryEventStored ==
    \A n \in 1..MaxEvents :
        Len(happened) >= n ~> Len(interactions) >= n \/ ~lossless

\* The log of a page: well formed, complete and in order, from the browser's queue
\* to the table of interactions.
Logged == TypeOK /\ OnceInOrder

\* The log holds no watch time that was not watched, and none of a video that was
\* never made active.
NothingInvented == NeverOverReported /\ WatchAfterImpression
=============================================================================
