------------------------------ MODULE FeedHook ------------------------------
(***************************************************************************)
(* The VideoFeed hook of one page in the browser (app.js).  The page shows *)
(* the list of the last render, between two clones when its mode is        *)
(* "full"; a place is the number of an item on it, from 1.  The LiveView   *)
(* client patches the n-th video of the list into the same element again   *)
(* and again, whatever video that is, so an element is known by n.         *)
(* Playing, sound and preloading are left out.                             *)
(***************************************************************************)
EXTENDS Naturals, Sequences

CONSTANT MaxEvents  \* bound of the model: loads that a slow server lets pile up

VARIABLES
    connected,           \* whether pushEvent reaches the server
    toServer,            \* events on their way
    page,                \* the render that is on the screen
    visible,             \* the place that is scrolled into view
    noticed,             \* whether the observer has reported that place
    activeIndex,         \* (a place)
    activeVideoEl,       \* n; 0 for none, or one that was removed
    loadingMore,
    pendingJumpToEnd,
    pendingJumpToStart,
    activeWatch          \* the video that is watched, 0 for null

viewVars == <<page, visible, noticed>>

pendingVars == <<loadingMore, pendingJumpToEnd, pendingJumpToStart>>

activeVars == <<activeIndex, activeVideoEl, activeWatch>>

hookVars == <<connected, toServer, viewVars, pendingVars, activeVars>>

HasClones(p) == p.mode = "full" /\ Len(p.videos) > 1

\* syncElements
FirstReal(p) == IF HasClones(p) THEN 2 ELSE 1

LastReal(p) == FirstReal(p) + Len(p.videos) - 1

LastPlace(p) == IF HasClones(p) THEN LastReal(p) + 1 ELSE LastReal(p)

\* Where element n is; the clones are elements 0 and Len(p.videos) + 1.
PlaceOf(p, n) == FirstReal(p) + n - 1

ElementAt(p, place) == place + 1 - FirstReal(p)

OnPage(p, n) == n \in DOMAIN p.videos

\* clampIndex
Clamp(p, place) ==
    IF place < 1 THEN 1 ELSE IF place > LastPlace(p) THEN LastPlace(p) ELSE place

HookInit(p) ==
    /\ connected = TRUE
    /\ toServer = <<>>
    /\ page = p
    /\ visible = FirstReal(p)
    /\ noticed = FALSE
    /\ activeIndex = FirstReal(p)
    /\ activeVideoEl = 0
    /\ loadingMore = FALSE
    /\ pendingJumpToEnd = FALSE
    /\ pendingJumpToStart = FALSE
    /\ activeWatch = 0

\* pushEvent: lost without a connection.
Push(events) == toServer' = IF connected' THEN toServer \o events ELSE toServer

\* Scroll to a place of page p, the next one on the screen.  The observer only
\* reports an element that was not in view before.
View(p, place) ==
    /\ page' = p
    /\ visible' = place
    /\ LET n == ElementAt(page, visible)
       IN noticed' = (/\ noticed
                      /\ OnPage(page, n) /\ OnPage(p, n)
                      /\ n = ElementAt(p, place))

\* maybeRequestMore, with the active place and page p.
MaybeRequestMore(p, place) ==
    LET wanted == p.hasMore /\ ~loadingMore /\ place >= LastReal(p) - 1
    IN /\ loadingMore' = (loadingMore \/ wanted)
       /\ Push(IF wanted THEN <<"load-more">> ELSE <<>>)

\* window.setTimeout of maybeRequestMore
LoadingTimeout ==
    /\ loadingMore
    /\ Len(toServer) < MaxEvents
    /\ loadingMore' = FALSE
    /\ UNCHANGED <<connected, toServer, viewVars, activeVars,
                   pendingJumpToEnd, pendingJumpToStart>>

-----------------------------------------------------------------------------
(* The viewer *)

\* A swipe, the wheel, the Home and End keys.
Swipe ==
    /\ \E place \in 1..LastPlace(page) \ {visible} : View(page, place)
    /\ UNCHANGED <<connected, toServer, pendingVars, activeVars>>

CanJumpToEnd ==
    activeIndex = FirstReal(page) /\ page.hasMore /\ page.mode = "head"

\* Mutated form of CanJumpToStart: from the end of any list that has more.
CanJumpFromHead == activeIndex = LastReal(page) /\ page.mode # "full"

CanJumpToStart == activeIndex = LastReal(page) /\ page.mode = "tail"

\* Mutated form of AsksForEnd: every press sends the event.
AsksForEndAgain == CanJumpToEnd

AsksForEnd == CanJumpToEnd /\ ~pendingJumpToEnd

AsksForStart == CanJumpToStart /\ ~pendingJumpToStart

\* scrollBy(-1) on the first video of a list with more.
PrevToEnd ==
    /\ AsksForEnd
    /\ UNCHANGED connected
    /\ pendingJumpToEnd' = TRUE
    /\ Push(<<"jump-to-end">>)
    /\ UNCHANGED <<loadingMore, pendingJumpToStart, viewVars,
                   activeVars>>

\* scrollBy(1) on the last video of the tail.
NextToStart ==
    /\ AsksForStart
    /\ UNCHANGED connected
    /\ pendingJumpToStart' = TRUE
    /\ Push(<<"jump-to-start">>)
    /\ UNCHANGED <<loadingMore, pendingJumpToEnd, viewVars,
                   activeVars>>

\* scrollBy otherwise.
ScrollBy ==
    /\ \/ ~AsksForEnd /\ View(page, Clamp(page, activeIndex - 1))
       \/ ~AsksForStart /\ View(page, Clamp(page, activeIndex + 1))
    /\ UNCHANGED <<connected, toServer, pendingVars, activeVars>>

\* The tab is hidden: finalizeActiveWatch.
HideTab ==
    /\ activeWatch # 0
    /\ activeWatch' = 0
    /\ UNCHANGED <<connected, toServer, viewVars, pendingVars, activeIndex,
                   activeVideoEl>>

-----------------------------------------------------------------------------
(* setActiveVideo, called by the observer *)

Changed == visible # activeIndex

\* A clone is left at once for the video it shows.
NoticeClone ==
    /\ ~noticed
    /\ ~OnPage(page, ElementAt(page, visible))
    /\ activeIndex' = visible
    /\ activeWatch' = IF Changed THEN 0 ELSE activeWatch
    /\ View(page, IF visible = 1 THEN LastReal(page) ELSE FirstReal(page))
    /\ UNCHANGED <<connected, toServer, activeVideoEl, pendingVars>>

NoticeVideo ==
    LET n == ElementAt(page, visible)
    IN /\ ~noticed
       /\ OnPage(page, n)
       /\ UNCHANGED connected
       /\ noticed' = TRUE
       /\ activeIndex' = visible
       /\ activeVideoEl' = n
       /\ activeWatch' = IF Changed THEN page.videos[n] ELSE activeWatch
       /\ MaybeRequestMore(page, visible)
       /\ UNCHANGED <<page, visible, pendingJumpToEnd,
                      pendingJumpToStart>>

-----------------------------------------------------------------------------
(* A new render *)

\* Mutated form of ActiveAfter: the index is kept.
IndexKept(p) == Clamp(p, activeIndex)

\* Mutated form of ActiveAfter: a removed element leaves the index as it is.
IndexUnclamped(p) ==
    IF OnPage(p, activeVideoEl) THEN PlaceOf(p, activeVideoEl) ELSE activeIndex

\* updated looks for the active element on the new page.
ActiveAfter(p) ==
    IF OnPage(p, activeVideoEl) THEN PlaceOf(p, activeVideoEl)
                                ELSE Clamp(p, activeIndex)

\* Where the browser leaves the viewer when a clone is put above the list.
PlacesAfter(p) ==
    LET n == ElementAt(page, visible)
    IN {Clamp(p, visible)} \cup {PlaceOf(p, m) : m \in {n} \cap DOMAIN p.videos}

\* updated
Updated(p) ==
    /\ activeIndex' = ActiveAfter(p)
    /\ activeVideoEl' = IF OnPage(p, activeVideoEl) THEN activeVideoEl ELSE 0
    /\ MaybeRequestMore(p, activeIndex')
    /\ pendingJumpToEnd' = (pendingJumpToEnd /\ p.mode # "tail")
    /\ pendingJumpToStart' = (pendingJumpToStart /\ p.mode = "tail")
    /\ IF pendingJumpToEnd' # pendingJumpToEnd THEN View(p, LastReal(p))
       ELSE IF pendingJumpToStart' # pendingJumpToStart THEN View(p, FirstReal(p))
       ELSE \E place \in PlacesAfter(p) : View(p, place)
    /\ UNCHANGED activeWatch

HookNext ==
    \/ Swipe
    \/ PrevToEnd
    \/ NextToStart
    \/ ScrollBy
    \/ HideTab
    \/ NoticeClone
    \/ NoticeVideo
    \/ LoadingTimeout

=============================================================================
