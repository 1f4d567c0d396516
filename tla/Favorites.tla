----------------------------- MODULE Favorites -----------------------------
(***************************************************************************)
(* The favorite button: FeedLive's toggle-favorite handler, which reads    *)
(* the row, deletes or inserts it and counts in one READ COMMITTED         *)
(* transaction, and writes the interaction after it.  A tab is a LiveView  *)
(* process: it runs one handler at a time, beside the other tabs of the    *)
(* same user and those of others.                                          *)
(***************************************************************************)
EXTENDS Integers, Sequences, FiniteSets, SequencesExt

CONSTANTS
    Tabs, Users, Videos,
    UserOf,        \* per tab
    MaxClicks      \* bound of the model: clicks on a favorite button

ASSUME FavoritesAssumption ==
    /\ UserOf \in [Tabs -> Users]
    /\ MaxClicks \in Nat
    /\ IsFiniteSet(Users) /\ IsFiniteSet(Tabs)

VARIABLES
    favorites,     \* committed rows
    tab,           \* per tab: the handler it is in, and what it shows
    log,           \* the interactions, in the order of their ids
    clicks,
    missed,        \* history, per user and video: favorites less unfavorites not logged
    outdated       \* history, per tab and video: who toggled since the tab last counted

vars == <<favorites, tab, log, clicks, missed, outdated>>

Pairs == Users \X Videos

NoRow == 0

Rows == [id : 1..MaxClicks, user : Users, video : Videos]

Answers == [favorited : BOOLEAN, favorites_count : 0..Cardinality(Users)]

Steps == {"idle", "read", "written", "counted", "committed", "down"}

RowsOf(rows, user, video) == {r \in rows : r.user = user /\ r.video = video}

\* favorites_count and favorited, which every list of videos joins in.
Listed(user) ==
    [v \in Videos |->
        [favorited |-> RowsOf(favorites, user, v) # {},
         favorites_count |-> Cardinality({r \in favorites : r.video = v})]]

Idle(shown) == [step |-> "idle", video |-> NoRow, found |-> NoRow, row |-> NoRow,
                told |-> NoRow, shown |-> shown]

Init ==
    /\ favorites = {}
    /\ tab = [t \in Tabs |-> Idle(Listed(UserOf[t]))]
    /\ log = <<>>
    /\ clicks = 0
    /\ missed = [p \in Pairs |-> 0]
    /\ outdated = [t \in Tabs |-> [v \in Videos |-> {}]]

-----------------------------------------------------------------------------
\* The transaction.

\* A click; the handler begins and looks the row up.
ReadFavorite(t, v) ==
    /\ tab[t].step = "idle"
    /\ clicks < MaxClicks
    /\ clicks' = clicks + 1
    /\ LET mine == RowsOf(favorites, UserOf[t], v)
       IN  tab' = [tab EXCEPT ![t].step = "read", ![t].video = v,
                     ![t].found = IF mine = {} THEN NoRow ELSE (CHOOSE r \in mine : TRUE).id,
                     ![t].row = [id |-> clicks', user |-> UserOf[t], video |-> v]]
    /\ UNCHANGED <<favorites, log, missed, outdated>>

SamePair(t, other) == UserOf[other] = UserOf[t] /\ tab[other].video = tab[t].video

\* (mutated) Rows are not locked.
NeverBlocked(t) == FALSE

\* Another transaction has written to the row of the pair and not ended.
Blocked(t) ==
    \E other \in Tabs \ {t} : SamePair(t, other) /\ tab[other].step \in {"written", "counted"}

MyRows(t) == RowsOf(favorites, UserOf[t], tab[t].video)

StillThere(t) == \E r \in MyRows(t) : r.id = tab[t].found

\* (mutated) Without the unique index.
NoConflict(t) == FALSE

\* The unique index on user and video.
Conflict(t) == MyRows(t) # {}

DeleteFavorite(t) ==
    /\ tab[t].step = "read"
    /\ tab[t].found # NoRow
    /\ ~Blocked(t)
    /\ StillThere(t)
    /\ tab' = [tab EXCEPT ![t].step = "written"]
    /\ UNCHANGED <<favorites, log, clicks, missed, outdated>>

InsertFavorite(t) ==
    /\ tab[t].step = "read"
    /\ tab[t].found = NoRow
    /\ ~Blocked(t)
    /\ ~Conflict(t)
    /\ tab' = [tab EXCEPT ![t].step = "written"]
    /\ UNCHANGED <<favorites, log, clicks, missed, outdated>>

\* The table as the transaction of a tab leaves it.
Written(t) ==
    IF tab[t].found = NoRow THEN favorites \cup {tab[t].row}
    ELSE {r \in favorites : r.id # tab[t].found}

\* (mutated) The favorites are counted without the transaction's own change.
CountCommitted(t) ==
    /\ tab[t].step = "written"
    /\ tab' = [tab EXCEPT ![t].step = "counted",
                 ![t].told = [favorited |-> tab[t].found = NoRow,
                              favorites_count |->
                                Cardinality({r \in favorites : r.video = tab[t].video})]]
    /\ outdated' = [outdated EXCEPT ![t][tab[t].video] = {}]
    /\ UNCHANGED <<favorites, log, clicks, missed>>

\* favorites_count sees what is committed, and the transaction's own change.
CountFavorites(t) ==
    /\ tab[t].step = "written"
    /\ tab' = [tab EXCEPT ![t].step = "counted",
                 ![t].told = [favorited |-> tab[t].found = NoRow,
                              favorites_count |->
                                Cardinality({r \in Written(t) : r.video = tab[t].video})]]
    /\ outdated' = [outdated EXCEPT ![t][tab[t].video] = {}]
    /\ UNCHANGED <<favorites, log, clicks, missed>>

Commit(t) ==
    /\ tab[t].step = "counted"
    /\ favorites' = Written(t)
    /\ tab' = [tab EXCEPT ![t].step = "committed"]
    /\ outdated' = [other \in Tabs |->
         IF other = t THEN outdated[other]
         ELSE [outdated[other] EXCEPT ![tab[t].video] = @ \cup {t}]]
    /\ UNCHANGED <<log, clicks, missed>>

-----------------------------------------------------------------------------
\* After the transaction.

Show(t) ==
    tab' = [tab EXCEPT ![t] = Idle([tab[t].shown EXCEPT ![tab[t].video] = tab[t].told])]

\* (mutated) The event is the opposite of what the tab showed.
EventShown(t) ==
    IF tab[t].shown[tab[t].video].favorited THEN "unfavorite" ELSE "favorite"

Event(t) == IF tab[t].told.favorited THEN "favorite" ELSE "unfavorite"

LogInteraction(t) ==
    /\ tab[t].step = "committed"
    /\ log' = Append(log, [user |-> UserOf[t], video |-> tab[t].video, event_type |-> Event(t)])
    /\ Show(t)
    /\ UNCHANGED <<favorites, clicks, missed, outdated>>

Miss(t) ==
    missed' = [missed EXCEPT ![<<UserOf[t], tab[t].video>>] =
                 IF tab[t].told.favorited THEN @ + 1 ELSE @ - 1]

\* The interaction is refused; the handler does not look.
InteractionRefused(t) ==
    /\ tab[t].step = "committed"
    /\ Miss(t)
    /\ Show(t)
    /\ UNCHANGED <<favorites, log, clicks, outdated>>

\* The process ends inside the handler: the row it wants to delete is gone, the
\* row it wants to insert is there, the database or the node fails.
Crash(t) ==
    /\ tab[t].step \notin {"idle", "down"}
    /\ tab' = [tab EXCEPT ![t] = [Idle(tab[t].shown) EXCEPT !.step = "down"]]
    /\ IF tab[t].step = "committed" THEN Miss(t) ELSE UNCHANGED missed
    /\ UNCHANGED <<favorites, log, clicks, outdated>>

\* The page is mounted, again: after a crash, or when it is reloaded.
Mount(t) ==
    /\ tab[t].step \in {"idle", "down"}
    /\ tab' = [tab EXCEPT ![t] = Idle(Listed(UserOf[t]))]
    /\ outdated' = [outdated EXCEPT ![t] = [v \in Videos |-> {}]]
    /\ UNCHANGED <<favorites, log, clicks, missed>>

Next ==
    \E t \in Tabs :
        \/ \E v \in Videos : ReadFavorite(t, v)
        \/ DeleteFavorite(t)
        \/ InsertFavorite(t)
        \/ CountFavorites(t)
        \/ Commit(t)
        \/ LogInteraction(t)
        \/ InteractionRefused(t)
        \/ Crash(t)
        \/ Mount(t)

Spec == Init /\ [][Next]_vars

-----------------------------------------------------------------------------
\* Properties.

\* Type correctness.  No count exceeds the number of users.
TypeOK ==
    /\ favorites \subseteq Rows
    /\ clicks \in 0..MaxClicks
    /\ log \in Seq([user : Users, video : Videos, event_type : {"favorite", "unfavorite"}])
    /\ missed \in [Pairs -> Int]
    /\ outdated \in [Tabs -> [Videos -> SUBSET Tabs]]
    /\ \A t \in Tabs :
         /\ tab[t].step \in Steps
         /\ tab[t].shown \in [Videos -> Answers]
         /\ tab[t].step \in {"counted", "committed"} => tab[t].told \in Answers
         /\ tab[t].step \in {"read", "written", "counted", "committed"} =>
              tab[t].row \in Rows /\ tab[t].found \in 0..MaxClicks

\* Two tabs that toggle at the same time leave at most one row: toggle_favorite.
OneRow == \A r, s \in favorites : r.user = s.user /\ r.video = s.video => r = s

Logged(p, event) ==
    Cardinality({i \in DOMAIN log :
        log[i] = [user |-> p[1], video |-> p[2], event_type |-> event]})

Committed(p, favorited) ==
    Cardinality({t \in Tabs : /\ tab[t].step = "committed"
                              /\ <<UserOf[t], tab[t].video>> = p
                              /\ tab[t].told.favorited = favorited})

\* The interactions account for the favorites: favorites less unfavorites, with
\* those that are about to be logged and those that were lost, is what the table
\* holds.  Toggles that did not commit are never logged.
LogBalances ==
    \A p \in Pairs :
        Logged(p, "favorite") - Logged(p, "unfavorite")
          + Committed(p, TRUE) - Committed(p, FALSE) + missed[p]
        = Cardinality(RowsOf(favorites, p[1], p[2]))

\* A tab that is not in a handler shows the truth about its own favorites until
\* another tab of the same user toggles, and about the count until anybody does.
ShownHonest ==
    \A t \in Tabs, v \in Videos : tab[t].step = "idle" =>
        /\ (\A other \in outdated[t][v] : UserOf[other] # UserOf[t]) =>
             tab[t].shown[v].favorited = (RowsOf(favorites, UserOf[t], v) # {})
        /\ outdated[t][v] = {} =>
             tab[t].shown[v].favorites_count = Cardinality({r \in favorites : r.video = v})

\* The table of toggle_favorite is well formed: a row for a user and a video at
\* most, whoever toggles at the same time.
TableOK == TypeOK /\ OneRow
=============================================================================
