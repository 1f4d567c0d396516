--------------------------- MODULE MCMicroBatcher ---------------------------
(* An instance of MicroBatcher for TLC. *)
EXTENDS MicroBatcher

CONSTANTS v1, v2, v3, t1, t2, f1

\* Three videos: two may fill a batch while the third waits on the queue.
ThreeVideos == {v1, v2, v3}
TwoTexts == {t1, t2}
OneFrames == {f1}
InvalidText == {t2}
BadVideoAndText == {v2, t2}
=============================================================================
