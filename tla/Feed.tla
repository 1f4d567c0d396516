-------------------------------- MODULE Feed --------------------------------
(***************************************************************************)
(* The feed page: the LiveView process and the browser, and the socket     *)
(* between them.  Events and renders keep their order; both are lost when  *)
(* the connection is, and the page is then mounted again in a new process  *)
(* while the hook lives on in the browser.                                 *)
(***************************************************************************)
EXTENDS FeedServer, FeedHook

CONSTANT MaxDrops  \* bound of the model: connections that are lost

ASSUME DropsAssumption == MaxDrops \in Nat

VARIABLES
    toBrowser,  \* renders on their way
    drops

vars == <<serverVars, hookVars, toBrowser, drops>>

Shown == [videos |-> videos, hasMore |-> hasMore, mode |-> mode]

Init ==
    /\ stored \in (SUBSET Videos) \ {{}}
    /\ IsFiniteSet(stored)
    /\ rankedIds \in {<<>>} \cup {r \in Rankings : ToSet(r) \subseteq stored}
    /\ LET q == IF rankedIds = <<>> THEN Newest(stored) ELSE rankedIds
       IN /\ videos = Page(q)
          /\ hasMore = More(q)
          /\ mode = ModeFor(More(q))
          /\ rankedOffset = IF rankedIds = <<>> THEN 0 ELSE Len(Page(q))
    /\ began = stored
    /\ HookInit(Shown)
    /\ toBrowser = <<>>
    /\ drops = 0

\* The LiveView process handles the next event; a render follows a change.
Handle ==
    /\ connected
    /\ toServer # <<>>
    /\ \/ Head(toServer) = "load-more" /\ LoadMore
       \/ Head(toServer) = "jump-to-end" /\ JumpToEnd
       \/ Head(toServer) = "jump-to-start" /\ JumpToStart
    /\ toServer' = Tail(toServer)
    /\ toBrowser' = IF Shown' = Shown THEN toBrowser ELSE Append(toBrowser, Shown')
    /\ UNCHANGED <<connected, viewVars, pendingVars, activeVars, drops>>

Receive ==
    /\ connected
    /\ toBrowser # <<>>
    /\ UNCHANGED connected
    /\ Updated(Head(toBrowser))
    /\ toBrowser' = Tail(toBrowser)
    /\ UNCHANGED <<serverVars, drops>>

Drop ==
    /\ connected
    /\ drops < MaxDrops
    /\ drops' = drops + 1
    /\ connected' = FALSE
    /\ toServer' = <<>>
    /\ toBrowser' = <<>>
    /\ UNCHANGED <<serverVars, viewVars, pendingVars, activeVars>>

\* The LiveView client joins again; the hook is only called when the page
\* looks different.
Rejoin ==
    /\ ~connected
    /\ connected' = TRUE
    /\ Mount
    /\ IF Shown' = page
       THEN UNCHANGED <<toServer, viewVars, pendingVars, activeVars>>
       ELSE Updated(Shown')
    /\ UNCHANGED <<toBrowser, drops>>

Next ==
    \/ HookNext /\ UNCHANGED <<serverVars, toBrowser, drops>>
    \/ Publish /\ UNCHANGED <<hookVars, toBrowser, drops>>
    \/ Handle
    \/ Receive
    \/ Drop
    \/ Rejoin

Spec == Init /\ [][Next]_vars

\* The processes of the server, the socket and the browser go on; nothing is
\* asked of the viewer.
FairSpec ==
    /\ Spec
    /\ WF_vars(Handle)
    /\ WF_vars(Receive)
    /\ WF_vars(Rejoin)
    /\ WF_vars((NoticeClone \/ NoticeVideo) /\ UNCHANGED <<serverVars, toBrowser, drops>>)
    /\ WF_vars(LoadingTimeout /\ UNCHANGED <<serverVars, toBrowser, drops>>)

-----------------------------------------------------------------------------
(* Properties *)

\* The variables keep their shape, and the active item is one of the page.
TypeOK ==
    /\ ServerTypeOK
    /\ connected \in BOOLEAN
    /\ toServer \in Seq({"load-more", "jump-to-end", "jump-to-start"})
    /\ toBrowser \in Seq([videos : Seq(Videos), hasMore : BOOLEAN,
                         mode : {"head", "tail", "full"}])
    /\ visible \in 1..LastPlace(page)
    /\ activeIndex \in 1..LastPlace(page)
    /\ activeVideoEl = 0 \/ OnPage(page, activeVideoEl)
    /\ {noticed, loadingMore, pendingJumpToEnd, pendingJumpToStart}
          \subseteq BOOLEAN
    /\ activeWatch \in Videos \cup {0}
    /\ drops \in 0..MaxDrops

InFlight(event) == event \in ToSet(toServer)

\* Waiting for the page to start again, there is something to wait for: the
\* event is on its way to the server, or a page it leads to on its way back.
\* Otherwise the keys and buttons that wrap around are dead from then on.
StartAnswered ==
    connected /\ pendingJumpToStart =>
        \/ InFlight("jump-to-start")
        \/ \E i \in DOMAIN toBrowser : toBrowser[i].mode # "tail"

\* As long as the connection holds, every jump is made in the end.
JumpsEnd ==
    /\ pendingJumpToEnd /\ drops = 0 ~> ~pendingJumpToEnd \/ drops > 0
    /\ pendingJumpToStart /\ drops = 0 ~> ~pendingJumpToStart \/ drops > 0

\* One jump at a time: the viewer is never taken from end to end twice by one
\* press, however often the key repeats while the server is slow.
OneJump ==
    \A i, j \in DOMAIN toServer :
        toServer[i] # "load-more" /\ toServer[j] # "load-more" => i = j

\* The video at the active place, 0 at a clone.
ActiveVideo ==
    LET n == ElementAt(page, activeIndex)
    IN IF OnPage(page, n) THEN page.videos[n] ELSE 0

\* Whatever arrives while the viewer is on a video and has not jumped, from loads
\* that were sent twice, crossed an upload or a jump, or were answered late, and
\* although clones are put around the list in the end: the active video stays the
\* active one.  Only a jump (a render to or from the tail) and the mount of a new
\* connection may put another video in its place.
LoadKeepsVideo ==
    [][ /\ connected
        /\ page' # page
        /\ page.mode # "tail" /\ page'.mode # "tail"
        /\ activeVideoEl # 0
        => ActiveVideo # 0 /\ ActiveVideo' = ActiveVideo ]_vars

\* What the browser is given by mount, load-more and the jumps is a stretch of the
\* feed: no video twice, none left out, and all of it when it is called full; and
\* the browser's indices stay on the page.
Paging == TypeOK /\ NoRepeat /\ NoGap /\ FullIsAll

\* The browser waits for a jump only when one is on its way, and for one only.
JumpsAwaited == OneJump /\ StartAnswered
=============================================================================
