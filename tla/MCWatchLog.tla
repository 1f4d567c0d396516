----------------------------- MODULE MCWatchLog -----------------------------
(* Two videos: enough for a video to be left, seen again and left again.   *)
EXTENDS WatchLog

CONSTANTS a, b  \* videos

MCVideos == {a, b}
=============================================================================
