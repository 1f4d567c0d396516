-------------------------- MODULE FavoritesProofs --------------------------
(***************************************************************************)
(* Proofs about Favorites for any number of users, tabs and clicks: one    *)
(* row per user and video, interactions that balance the table, and tabs   *)
(* that show the truth until somebody toggles.                             *)
(***************************************************************************)
EXTENDS Favorites, FiniteSetTheorems, TLAPS

Working == {"read", "written", "counted", "committed"}

\* The transaction holds the lock of its row, or of its key in the unique index.
Writing == {"written", "counted"}

Events == [user : Users, video : Videos, event_type : {"favorite", "unfavorite"}]

Fields ==
    [step : Steps, video : Videos \cup {NoRow}, found : 0..MaxClicks, row : Rows \cup {NoRow},
     told : Answers \cup {NoRow}, shown : [Videos -> Answers]]

Typed ==
    /\ favorites \subseteq Rows
    /\ clicks \in 0..MaxClicks
    /\ log \in Seq(Events)
    /\ missed \in [Pairs -> Int]
    /\ outdated \in [Tabs -> [Videos -> SUBSET Tabs]]
    /\ tab \in [Tabs -> Fields]

\* What a handler knows of itself.
HandlerInv ==
    \A t \in Tabs :
        /\ tab[t].step \in Working =>
              /\ tab[t].video \in Videos
              /\ tab[t].row \in Rows
              /\ tab[t].row.user = UserOf[t] /\ tab[t].row.video = tab[t].video
        /\ tab[t].step \in {"counted", "committed"} =>
              /\ tab[t].told \in Answers
              /\ tab[t].told.favorited <=> tab[t].found = NoRow

\* Ids are serial numbers.
IdsInv ==
    /\ \A r \in favorites : r.id <= clicks
    /\ \A r, s \in favorites : r.id = s.id => r = s
    /\ \A t \in Tabs : tab[t].step \in {"read", "written", "counted"} =>
          /\ tab[t].row.id <= clicks
          /\ \A r \in favorites : r.id # tab[t].row.id
          /\ \A u \in Tabs \ {t} :
                tab[u].step \in {"read", "written", "counted"} => tab[u].row.id # tab[t].row.id

\* Locks are exclusive, and what the handler read is still so when it has one.
LockInv ==
    \A t \in Tabs : tab[t].step \in Writing =>
        /\ \A u \in Tabs \ {t} : tab[u].step \in Writing => ~SamePair(t, u)
        /\ tab[t].found = NoRow => MyRows(t) = {}
        /\ tab[t].found # NoRow => StillThere(t)

TableInv == Typed /\ HandlerInv /\ IdsInv /\ LockInv /\ OneRow

-----------------------------------------------------------------------------
\* Facts about tables.

LEMMA RowsOfSubset ==
    \A rows, u, v : RowsOf(rows, u, v) = {r \in rows : r.user = u /\ r.video = v}
  BY DEF RowsOf

\* A table with at most one row per user and video has at most one row per
\* video for each user.
LEMMA CountBound ==
    ASSUME NEW rows \in SUBSET Rows, NEW v,
           \A r, s \in rows : r.user = s.user /\ r.video = s.video => r = s
    PROVE  Cardinality({r \in rows : r.video = v}) \in 0..Cardinality(Users)
  <1> DEFINE S == {r \in rows : r.video = v}
             f == [r \in S |-> r.user]
  <1>1. f \in Injection(S, Users)
    <2>1. f \in [S -> Users]
      BY DEF Rows
    <2>2. \A r, s \in S : f[r] = f[s] => r = s
      OBVIOUS
    <2> QED
      BY <2>1, <2>2 DEF Injection, IsInjective
  <1>2. IsFiniteSet(Users)
    BY FavoritesAssumption
  <1> HIDE DEF f, S
  <1>3. IsFiniteSet(S) /\ Cardinality(S) <= Cardinality(Users)
    BY <1>1, <1>2, FS_Injection
  <1>4. Cardinality(S) \in Nat /\ Cardinality(Users) \in Nat
    BY <1>2, <1>3, FS_CardinalityType
  <1> QED
    BY <1>3, <1>4 DEF S

-----------------------------------------------------------------------------
\* The table.

\* What a transaction writes: its row, or the table without the row it found.
LEMMA WrittenFacts ==
    ASSUME TableInv, NEW t \in Tabs, tab[t].step \in Writing
    PROVE  /\ Written(t) \subseteq Rows
           /\ \A r, s \in Written(t) : r.user = s.user /\ r.video = s.video => r = s
           /\ tab[t].found = NoRow =>
                 /\ Written(t) = favorites \cup {tab[t].row} /\ tab[t].row \notin favorites
                 /\ MyRows(t) = {}
           /\ tab[t].found # NoRow =>
                 \E r \in favorites :
                    /\ Written(t) = favorites \ {r} /\ MyRows(t) = {r}
                    /\ r.id = tab[t].found
  <1> USE DEF TableInv
  <1>1. /\ tab[t].row \in Rows /\ tab[t].row.user = UserOf[t] /\ tab[t].row.video = tab[t].video
    BY DEF HandlerInv, Working, Writing
  <1>2. CASE tab[t].found = NoRow
    <2>1. Written(t) = favorites \cup {tab[t].row} /\ MyRows(t) = {}
      BY <1>2 DEF Written, LockInv
    <2>2. tab[t].row \notin favorites
      BY <1>1, <2>1 DEF MyRows, RowsOf
    <2> QED
      BY <1>1, <1>2, <2>1, <2>2 DEF Typed, OneRow, MyRows, RowsOf
  <1>3. CASE tab[t].found # NoRow
    <2>1. PICK r \in MyRows(t) : r.id = tab[t].found
      BY <1>3 DEF LockInv, StillThere
    <2>2. MyRows(t) = {r} /\ r \in favorites
      BY <2>1 DEF OneRow, MyRows, RowsOf
    <2>3. Written(t) = favorites \ {r}
      BY <1>3, <2>1, <2>2 DEF Written, IdsInv
    <2> QED
      BY <1>3, <2>1, <2>2, <2>3 DEF Typed, OneRow
  <1> QED
    BY <1>2, <1>3

LEMMA ListedType == ASSUME TableInv, NEW user PROVE Listed(user) \in [Videos -> Answers]
  <1>1. \A v \in Videos : Cardinality({r \in favorites : r.video = v}) \in 0..Cardinality(Users)
    BY CountBound DEF TableInv, Typed, OneRow
  <1> QED
    BY <1>1 DEF Listed, Answers

LEMMA InitTable == Init => TableInv
  <1> SUFFICES ASSUME Init PROVE TableInv
    OBVIOUS
  <1>1. \A user : Listed(user) \in [Videos -> Answers]
    <2>1. \A v \in Videos : {r \in favorites : r.video = v} = {}
      BY DEF Init
    <2>2. Cardinality(Users) \in Nat
      BY FavoritesAssumption, FS_CardinalityType
    <2> QED
      BY <2>1, <2>2, FS_EmptySet DEF Listed, Answers
  <1>2. tab \in [Tabs -> Fields]
    BY <1>1, FavoritesAssumption DEF Init, Idle, Fields, Steps, NoRow
  <1>3. Typed
    BY <1>2, FavoritesAssumption DEF Init, Typed
  <1>4. HandlerInv /\ IdsInv /\ LockInv /\ OneRow
    BY DEF Init, Idle, HandlerInv, IdsInv, LockInv, OneRow, Working, Writing
  <1> QED
    BY <1>3, <1>4 DEF TableInv

\* A step in which no transaction gets a lock or commits.
LEMMA LocksKept ==
    ASSUME TableInv, UNCHANGED favorites,
           \A u \in Tabs : tab'[u].step \in Writing =>
              /\ tab[u].step \in Writing
              /\ tab'[u].video = tab[u].video /\ tab'[u].found = tab[u].found
    PROVE  LockInv'
  <1> SUFFICES ASSUME NEW u \in Tabs, tab'[u].step \in Writing
               PROVE  /\ \A w \in Tabs \ {u} : tab'[w].step \in Writing => ~SamePair(u, w)'
                      /\ tab'[u].found = NoRow => MyRows(u)' = {}
                      /\ tab'[u].found # NoRow => StillThere(u)'
    BY DEF LockInv
  <1>1. tab[u].step \in Writing /\ MyRows(u)' = MyRows(u) /\ tab'[u].found = tab[u].found
    BY DEF MyRows, RowsOf
  <1>2. \A w \in Tabs \ {u} : tab'[w].step \in Writing => ~SamePair(u, w)'
    BY DEF TableInv, LockInv, SamePair
  <1> QED
    BY <1>1, <1>2 DEF TableInv, LockInv, StillThere

LEMMA ReadFavoriteTable ==
    ASSUME TableInv, NEW t \in Tabs, NEW v \in Videos, ReadFavorite(t, v)
    PROVE  TableInv'
  <1> USE DEF TableInv
  <1> DEFINE mine == RowsOf(favorites, UserOf[t], v)
             found == IF mine = {} THEN NoRow ELSE (CHOOSE r \in mine : TRUE).id
             row == [id |-> clicks', user |-> UserOf[t], video |-> v]
  <1>0. /\ tab[t].step = "idle" /\ clicks < MaxClicks /\ clicks' = clicks + 1
        /\ UNCHANGED <<favorites, log, missed, outdated>>
    BY DEF ReadFavorite
  <1>4. tab' = [tab EXCEPT ![t].step = "read", ![t].video = v, ![t].found = found, ![t].row = row]
    BY Zenon DEF ReadFavorite
  <1>3. found \in 0..MaxClicks
    <2>1. CASE mine = {}
      BY <2>1, FavoritesAssumption DEF NoRow
    <2>2. CASE mine # {}
      <3>1. (CHOOSE r \in mine : TRUE) \in mine
        BY <2>2, Zenon
      <3>2. mine \subseteq Rows
        BY DEF RowsOf, Typed
      <3>3. \A r \in Rows : r.id \in 1..MaxClicks
        BY DEF Rows
      <3>4. found = (CHOOSE r \in mine : TRUE).id
        BY <2>2, Zenon
      <3> HIDE DEF found, mine
      <3> QED
        BY <3>1, <3>2, <3>3, <3>4, FavoritesAssumption
    <2> QED
      BY <2>1, <2>2
  <1> HIDE DEF found, mine
  <1>1. clicks \in 0..MaxClicks /\ clicks' \in 1..MaxClicks
    BY <1>0, FavoritesAssumption DEF Typed
  <1>2. row \in Rows
    BY <1>1, FavoritesAssumption DEF Rows
  <1> HIDE DEF row
  <1>5. Typed'
    <2>1. clicks' \in 0..MaxClicks
      BY <1>1, FavoritesAssumption
    <2>2. tab' \in [Tabs -> Fields]
      <3> DEFINE fields == [tab[t] EXCEPT !.step = "read", !.video = v, !.found = found, !.row = row]
      <3>1. fields \in Fields
        BY <1>2, <1>3 DEF Typed, Fields, Steps
      <3>2. tab' = [tab EXCEPT ![t] = fields]
        BY <1>4 DEF Typed, Fields
      <3> HIDE DEF fields
      <3> QED
        BY <3>1, <3>2 DEF Typed
    <2> QED
      BY <1>0, <2>1, <2>2 DEF Typed
  <1>6. HandlerInv'
    BY <1>2, <1>4 DEF Typed, Fields, HandlerInv, Working, row
  <1>7. IdsInv'
    <2>1. row.id = clicks + 1
      BY <1>0 DEF row
    <2>2. \A r \in Rows : r.id \in Int
      BY DEF Rows
    <2> QED
      BY <1>0, <1>1, <1>2, <1>4, <2>1, <2>2 DEF Typed, Fields, IdsInv, HandlerInv, Working
  <1>8. LockInv' /\ OneRow'
    BY <1>0, <1>4, LocksKept DEF Typed, Fields, OneRow, Writing
  <1> QED
    BY <1>5, <1>6, <1>7, <1>8

\* A transaction that gets its lock.
LEMMA WriteTable ==
    ASSUME TableInv, NEW t \in Tabs, DeleteFavorite(t) \/ InsertFavorite(t)
    PROVE  TableInv'
  <1> USE DEF TableInv
  <1>1. /\ tab[t].step = "read" /\ ~Blocked(t)
        /\ tab[t].found = NoRow => ~Conflict(t)
        /\ tab[t].found # NoRow => StillThere(t)
        /\ tab' = [tab EXCEPT ![t].step = "written"]
        /\ UNCHANGED <<favorites, log, clicks, missed, outdated>>
    BY DEF DeleteFavorite, InsertFavorite
  <1>2. Typed'
    BY <1>1 DEF Typed, Fields, Steps
  <1>3. HandlerInv' /\ OneRow'
    BY <1>1 DEF Typed, Fields, HandlerInv, OneRow, Working
  <1>4. IdsInv'
    BY <1>1 DEF Typed, Fields, IdsInv
  <1>5. LockInv'
    <2> SUFFICES ASSUME NEW u \in Tabs, tab'[u].step \in Writing
                 PROVE  /\ \A w \in Tabs \ {u} : tab'[w].step \in Writing => ~SamePair(u, w)'
                        /\ tab'[u].found = NoRow => MyRows(u)' = {}
                        /\ tab'[u].found # NoRow => StillThere(u)'
      BY DEF LockInv
    <2>1. \A w \in Tabs : /\ tab'[w].video = tab[w].video /\ tab'[w].found = tab[w].found
                          /\ w # t => tab'[w].step = tab[w].step
      BY <1>1 DEF Typed, Fields
    <2>2. MyRows(u)' = MyRows(u) /\ (StillThere(u)' <=> StillThere(u))
      BY <1>1, <2>1 DEF MyRows, RowsOf, StillThere
    <2>3. \A w \in Tabs : SamePair(u, w)' <=> SamePair(u, w)
      BY <2>1 DEF SamePair
    <2>4. \A w \in Tabs \ {t} : tab[w].step \in Writing => ~SamePair(t, w) /\ ~SamePair(w, t)
      BY <1>1 DEF Blocked, SamePair, Writing
    <2>5. CASE u = t
      BY <1>1, <2>1, <2>2, <2>3, <2>4, <2>5 DEF Conflict
    <2>6. CASE u # t
      BY <2>1, <2>2, <2>3, <2>4, <2>6 DEF LockInv
    <2> QED
      BY <2>5, <2>6
  <1> QED
    BY <1>2, <1>3, <1>4, <1>5

LEMMA CountTable ==
    ASSUME TableInv, NEW t \in Tabs, CountFavorites(t)
    PROVE  TableInv'
  <1> USE DEF TableInv
  <1> DEFINE count == Cardinality({r \in Written(t) : r.video = tab[t].video})
             told == [favorited |-> tab[t].found = NoRow, favorites_count |-> count]
  <1>1. /\ tab[t].step = "written"
        /\ tab' = [tab EXCEPT ![t].step = "counted", ![t].told = told]
        /\ outdated' = [outdated EXCEPT ![t][tab[t].video] = {}]
        /\ UNCHANGED <<favorites, log, clicks, missed>>
    BY DEF CountFavorites
  <1>2. count \in 0..Cardinality(Users)
    <2>1. /\ Written(t) \subseteq Rows
          /\ \A r, s \in Written(t) : r.user = s.user /\ r.video = s.video => r = s
      BY <1>1, WrittenFacts DEF Writing
    <2> QED
      BY <2>1, CountBound
  <1>3. told \in Answers /\ (told.favorited <=> tab[t].found = NoRow)
    <2> HIDE DEF count
    <2>1. told \in Answers
      BY <1>2 DEF Answers
    <2> QED
      BY <2>1
  <1> HIDE DEF told
  <1>4. Typed'
    BY <1>1, <1>3, ZenonT(60) DEF Typed, Fields, Steps
  <1>5. HandlerInv' /\ OneRow'
    BY <1>1, <1>3 DEF Typed, Fields, HandlerInv, OneRow, Working
  <1>6. IdsInv'
    BY <1>1 DEF Typed, Fields, IdsInv
  <1>7. LockInv'
    BY <1>1, LocksKept DEF Typed, Fields, Writing
  <1> QED
    BY <1>4, <1>5, <1>6, <1>7

LEMMA CommitTable ==
    ASSUME TableInv, NEW t \in Tabs, Commit(t)
    PROVE  TableInv'
  <1> USE DEF TableInv
  <1>1. /\ tab[t].step = "counted"
        /\ favorites' = Written(t)
        /\ tab' = [tab EXCEPT ![t].step = "committed"]
        /\ UNCHANGED <<log, clicks, missed>>
    BY DEF Commit
  <1>2. tab[t].video \in Videos
    BY <1>1 DEF HandlerInv, Working
  <1>3. outdated' \in [Tabs -> [Videos -> SUBSET Tabs]]
    BY <1>2 DEF Commit, Typed
  <1>4. Typed' /\ OneRow'
    <2>1. /\ Written(t) \subseteq Rows
          /\ \A r, s \in Written(t) : r.user = s.user /\ r.video = s.video => r = s
      BY <1>1, WrittenFacts DEF Writing
    <2> QED
      BY <1>1, <1>3, <2>1 DEF Typed, Fields, Steps, OneRow
  <1>5. HandlerInv'
    BY <1>1 DEF Typed, Fields, HandlerInv, Working
  <1>6. IdsInv'
    <2>1. favorites' \subseteq favorites \cup {tab[t].row}
      BY <1>1, WrittenFacts DEF Writing
    <2>2. /\ tab[t].row.id <= clicks /\ \A r \in favorites : r.id # tab[t].row.id
          /\ \A u \in Tabs \ {t} :
                tab[u].step \in {"read", "written", "counted"} => tab[u].row.id # tab[t].row.id
      BY <1>1 DEF IdsInv
    <2>3. \A u \in Tabs : /\ tab'[u].row = tab[u].row
                          /\ tab'[u].step \in {"read", "written", "counted"} =>
                                u # t /\ tab[u].step \in {"read", "written", "counted"}
      BY <1>1 DEF Typed, Fields
    <2>4. \A r, s \in favorites' : r.id = s.id => r = s
      BY <2>1, <2>2 DEF IdsInv
    <2> QED
      BY <1>1, <2>1, <2>2, <2>3, <2>4 DEF IdsInv
  <1>7. LockInv'
    <2> SUFFICES ASSUME NEW u \in Tabs, tab'[u].step \in Writing
                 PROVE  /\ \A w \in Tabs \ {u} : tab'[w].step \in Writing => ~SamePair(u, w)'
                        /\ tab'[u].found = NoRow => MyRows(u)' = {}
                        /\ tab'[u].found # NoRow => StillThere(u)'
      BY DEF LockInv
    <2>1. u # t /\ tab'[u] = tab[u] /\ tab[u].step \in Writing /\ ~SamePair(u, t)
      BY <1>1 DEF Typed, Fields, LockInv, Writing
    <2>2. MyRows(u)' = MyRows(u)
      <3>1. UserOf[u] # UserOf[t] \/ tab[u].video # tab[t].video
        BY <2>1 DEF SamePair
      <3>2. tab[t].row.user = UserOf[t] /\ tab[t].row.video = tab[t].video
        BY <1>1 DEF HandlerInv, Working
      <3>3. \A r \in MyRows(t) : r.user = UserOf[t] /\ r.video = tab[t].video
        BY DEF MyRows, RowsOf
      <3>4. \A r : ~(r.user = UserOf[u] /\ r.video = tab[u].video
                     /\ r.user = UserOf[t] /\ r.video = tab[t].video)
        BY <3>1
      <3>5. {r \in Written(t) : r.user = UserOf[u] /\ r.video = tab[u].video}
               = {r \in favorites : r.user = UserOf[u] /\ r.video = tab[u].video}
        BY <1>1, <3>2, <3>3, <3>4, WrittenFacts DEF Writing
      <3> QED
        BY <1>1, <2>1, <3>5 DEF MyRows, RowsOf
    <2>3. \A w \in Tabs \ {u} : tab'[w].step \in Writing => ~SamePair(u, w)'
      BY <1>1, <2>1 DEF Typed, Fields, LockInv, Writing, SamePair
    <2> QED
      BY <2>1, <2>2, <2>3 DEF LockInv, StillThere
  <1> QED
    BY <1>4, <1>5, <1>6, <1>7

\* A tab that is through with its handler, or was mounted.
LEMMA LeaveTable ==
    ASSUME TableInv, NEW t \in Tabs, NEW fields \in Fields, fields.step \in {"idle", "down"},
           tab' = [tab EXCEPT ![t] = fields], UNCHANGED <<favorites, clicks>>,
           missed' \in [Pairs -> Int], log' \in Seq(Events),
           outdated' \in [Tabs -> [Videos -> SUBSET Tabs]]
    PROVE  TableInv'
  <1> USE DEF TableInv
  <1>1. Typed' /\ OneRow'
    BY DEF Typed, OneRow
  <1>2. HandlerInv'
    BY DEF Typed, HandlerInv, Working
  <1>3. IdsInv'
    BY DEF Typed, IdsInv
  <1>4. LockInv'
    BY LocksKept DEF Typed, Writing
  <1> QED
    BY <1>1, <1>2, <1>3, <1>4

\* Where the steps after the commit, a crash and a mount leave the tab.
LEMMA LogInteractionLeaves ==
    ASSUME TableInv, NEW t \in Tabs, LogInteraction(t) \/ InteractionRefused(t)
    PROVE  \E fields \in Fields :
              /\ fields.step = "idle" /\ tab' = [tab EXCEPT ![t] = fields]
              /\ fields.shown = [tab[t].shown EXCEPT ![tab[t].video] = tab[t].told]
  <1> DEFINE fields == Idle([tab[t].shown EXCEPT ![tab[t].video] = tab[t].told])
  <1>1. tab[t].step = "committed" /\ tab' = [tab EXCEPT ![t] = fields]
    BY DEF LogInteraction, InteractionRefused, Show
  <1>2. tab[t].told \in Answers /\ tab[t].video \in Videos /\ tab[t].shown \in [Videos -> Answers]
    BY <1>1 DEF TableInv, Typed, Fields, HandlerInv, Working
  <1>3. fields \in Fields
    BY <1>2, FavoritesAssumption DEF Idle, Fields, Steps, NoRow
  <1> QED
    BY <1>1, <1>3 DEF Idle

LEMMA CrashLeaves ==
    ASSUME TableInv, NEW t \in Tabs, Crash(t)
    PROVE  \E fields \in Fields : fields.step = "down" /\ tab' = [tab EXCEPT ![t] = fields]
  <1> DEFINE fields == [Idle(tab[t].shown) EXCEPT !.step = "down"]
  <1>1. tab' = [tab EXCEPT ![t] = fields]
    BY DEF Crash
  <1>2. fields \in Fields
    BY FavoritesAssumption DEF TableInv, Typed, Idle, Fields, Steps, NoRow
  <1> QED
    BY <1>1, <1>2 DEF Idle

LEMMA MountLeaves ==
    ASSUME TableInv, NEW t \in Tabs, Mount(t)
    PROVE  \E fields \in Fields :
              /\ fields.step = "idle" /\ tab' = [tab EXCEPT ![t] = fields]
              /\ fields.shown = Listed(UserOf[t])
  <1>1. Idle(Listed(UserOf[t])) \in Fields
    BY ListedType, FavoritesAssumption DEF Idle, Fields, Steps, NoRow
  <1>2. tab' = [tab EXCEPT ![t] = Idle(Listed(UserOf[t]))]
    BY DEF Mount
  <1> QED
    BY <1>1, <1>2 DEF Idle

LEMMA MissType ==
    ASSUME TableInv, NEW t \in Tabs, tab[t].step = "committed", Miss(t)
    PROVE  missed' \in [Pairs -> Int]
  BY FavoritesAssumption DEF Miss, TableInv, Typed, HandlerInv, Working, Pairs

LEMMA AfterCommitTable ==
    ASSUME TableInv, NEW t \in Tabs,
           LogInteraction(t) \/ InteractionRefused(t) \/ Crash(t) \/ Mount(t)
    PROVE  TableInv'
  <1>1. CASE LogInteraction(t)
    <2>1. log' \in Seq(Events)
      <3>1. Event(t) \in {"favorite", "unfavorite"}
        BY DEF Event
      <3>2. tab[t].video \in Videos /\ UserOf[t] \in Users
        BY <1>1, FavoritesAssumption DEF LogInteraction, TableInv, HandlerInv, Working
      <3> QED
        BY <1>1, <3>1, <3>2 DEF LogInteraction, TableInv, Typed, Events
    <2>2. UNCHANGED <<favorites, clicks, missed, outdated>>
      BY <1>1 DEF LogInteraction
    <2> QED
      BY <1>1, <2>1, <2>2, LogInteractionLeaves, LeaveTable DEF TableInv, Typed
  <1>2. CASE InteractionRefused(t)
    <2>1. missed' \in [Pairs -> Int] /\ UNCHANGED <<favorites, clicks, log, outdated>>
      BY <1>2, MissType DEF InteractionRefused
    <2> QED
      BY <1>2, <2>1, LogInteractionLeaves, LeaveTable DEF TableInv, Typed
  <1>3. CASE Crash(t)
    <2>1. missed' \in [Pairs -> Int] /\ UNCHANGED <<favorites, clicks, log, outdated>>
      BY <1>3, MissType DEF Crash, TableInv, Typed
    <2> QED
      BY <1>3, <2>1, CrashLeaves, LeaveTable DEF TableInv, Typed
  <1>4. CASE Mount(t)
    <2>1. /\ outdated' \in [Tabs -> [Videos -> SUBSET Tabs]]
          /\ UNCHANGED <<favorites, clicks, log, missed>>
      BY <1>4 DEF Mount, TableInv, Typed
    <2> QED
      BY <1>4, <2>1, MountLeaves, LeaveTable DEF TableInv, Typed
  <1> QED
    BY <1>1, <1>2, <1>3, <1>4

LEMMA IdleTable == ASSUME TableInv, UNCHANGED vars PROVE TableInv'
  <1>1. Typed' /\ HandlerInv' /\ IdsInv' /\ OneRow'
    BY DEF TableInv, Typed, HandlerInv, IdsInv, OneRow, vars
  <1>2. LockInv'
    BY LocksKept DEF vars
  <1> QED
    BY <1>1, <1>2 DEF TableInv

LEMMA NextTable == TableInv /\ [Next]_vars => TableInv'
  <1> SUFFICES ASSUME TableInv, [Next]_vars PROVE TableInv'
    OBVIOUS
  <1>1. CASE UNCHANGED vars
    BY <1>1, IdleTable
  <1>2. CASE Next
    <2> PICK t \in Tabs :
               \/ \E v \in Videos : ReadFavorite(t, v)
               \/ DeleteFavorite(t) \/ InsertFavorite(t)
               \/ CountFavorites(t)
               \/ Commit(t)
               \/ LogInteraction(t) \/ InteractionRefused(t) \/ Crash(t) \/ Mount(t)
      BY <1>2 DEF Next
    <2> QED
      BY ReadFavoriteTable, WriteTable, CountTable, CommitTable, AfterCommitTable
  <1> QED
    BY <1>1, <1>2

LEMMA TableAlways == Spec => []TableInv
  BY InitTable, NextTable, PTL DEF Spec

\* At most one row per user and video, with every number within its bounds, for
\* any number of tabs that run toggle_favorite at once.
THEOREM TableOKAlways == Spec => []TableOK
  <1>1. TableInv => TableOK
    BY DEF TableInv, Typed, Fields, HandlerInv, Working, TableOK, TypeOK, Events
  <1> QED
    BY <1>1, TableAlways, PTL

-----------------------------------------------------------------------------
\* The interactions.

CommittedTabs(p, favorited) ==
    {t \in Tabs : /\ tab[t].step = "committed"
                  /\ <<UserOf[t], tab[t].video>> = p
                  /\ tab[t].told.favorited = favorited}

LoggedAt(p, event) ==
    {i \in DOMAIN log : log[i] = [user |-> p[1], video |-> p[2], event_type |-> event]}

LEMMA CommittedFinite ==
    \A p, b : /\ IsFiniteSet(CommittedTabs(p, b))
              /\ Committed(p, b) = Cardinality(CommittedTabs(p, b))
              /\ Committed(p, b) \in Int
  <1> SUFFICES ASSUME NEW p, NEW b
               PROVE  /\ IsFiniteSet(CommittedTabs(p, b))
                      /\ Committed(p, b) = Cardinality(CommittedTabs(p, b))
                      /\ Committed(p, b) \in Int
    OBVIOUS
  <1>1. CommittedTabs(p, b) \in SUBSET Tabs /\ IsFiniteSet(Tabs)
    BY FavoritesAssumption DEF CommittedTabs
  <1>2. IsFiniteSet(CommittedTabs(p, b))
    BY <1>1, FS_Subset
  <1>3. Cardinality(CommittedTabs(p, b)) \in Nat
    BY <1>2, FS_CardinalityType
  <1> QED
    BY <1>2, <1>3 DEF Committed, CommittedTabs

LEMMA LoggedFinite ==
    ASSUME log \in Seq(Events), NEW p, NEW event
    PROVE  /\ IsFiniteSet(LoggedAt(p, event))
           /\ Logged(p, event) = Cardinality(LoggedAt(p, event))
           /\ Logged(p, event) \in Int
  <1>1. LoggedAt(p, event) \in SUBSET (1..Len(log)) /\ Len(log) \in Nat
    BY DEF LoggedAt
  <1>2. IsFiniteSet(1..Len(log))
    BY <1>1, FS_Interval
  <1>3. IsFiniteSet(LoggedAt(p, event))
    BY <1>1, <1>2, FS_Subset
  <1>4. Cardinality(LoggedAt(p, event)) \in Nat
    BY <1>3, FS_CardinalityType
  <1> QED
    BY <1>3, <1>4 DEF Logged, LoggedAt

\* One interaction more.
LEMMA LogGrows ==
    ASSUME log \in Seq(Events), NEW e \in Events, log' = Append(log, e), NEW p, NEW event
    PROVE  Logged(p, event)' = Logged(p, event) +
              (IF e = [user |-> p[1], video |-> p[2], event_type |-> event] THEN 1 ELSE 0)
  <1> DEFINE new == Len(log) + 1
             wanted == [user |-> p[1], video |-> p[2], event_type |-> event]
  <1>1. /\ Len(log) \in Nat /\ DOMAIN log = 1..Len(log) /\ DOMAIN log' = 1..new
        /\ \A i \in 1..Len(log) : log'[i] = log[i]
        /\ log'[new] = e
    OBVIOUS
  <1>2. LoggedAt(p, event)' = IF e = wanted THEN LoggedAt(p, event) \cup {new}
                              ELSE LoggedAt(p, event)
    <2>1. /\ LoggedAt(p, event) = {i \in 1..Len(log) : log[i] = wanted}
          /\ LoggedAt(p, event)' = {i \in 1..new : log'[i] = wanted}
      BY <1>1 DEF LoggedAt
    <2>2. 1..new = 1..Len(log) \cup {new}
      BY <1>1
    <2> HIDE DEF wanted, new
    <2> QED
      BY <1>1, <2>1, <2>2
  <1>3. new \notin LoggedAt(p, event)
    BY <1>1 DEF LoggedAt
  <1>4. /\ IsFiniteSet(LoggedAt(p, event))
        /\ Logged(p, event) = Cardinality(LoggedAt(p, event)) /\ Logged(p, event) \in Int
    BY LoggedFinite
  <1>5. Logged(p, event)' = Cardinality(LoggedAt(p, event)')
    BY DEF Logged, LoggedAt
  <1>6. Cardinality(LoggedAt(p, event) \cup {new}) = Cardinality(LoggedAt(p, event)) + 1
    BY <1>3, <1>4, FS_AddElement
  <1> QED
    BY <1>2, <1>4, <1>5, <1>6

\* A toggle has been committed, and then logged or lost.
LEMMA CommittedJoins ==
    ASSUME NEW t \in Tabs, tab[t].step # "committed", tab \in [Tabs -> Fields],
           tab' = [tab EXCEPT ![t].step = "committed"], NEW p, NEW b
    PROVE  Committed(p, b)' = Committed(p, b) +
              (IF <<UserOf[t], tab[t].video>> = p /\ tab[t].told.favorited = b THEN 1 ELSE 0)
  <1>1. CommittedTabs(p, b)' =
           IF <<UserOf[t], tab[t].video>> = p /\ tab[t].told.favorited = b
           THEN CommittedTabs(p, b) \cup {t} ELSE CommittedTabs(p, b)
    BY DEF CommittedTabs, Fields
  <1>2. t \notin CommittedTabs(p, b)
    BY DEF CommittedTabs
  <1>3. Cardinality(CommittedTabs(p, b) \cup {t}) = Cardinality(CommittedTabs(p, b)) + 1
    BY <1>2, CommittedFinite, FS_AddElement
  <1>4. Committed(p, b)' = Cardinality(CommittedTabs(p, b)')
    BY DEF Committed, CommittedTabs
  <1> QED
    BY <1>1, <1>3, <1>4, CommittedFinite

LEMMA CommittedLeaves ==
    ASSUME NEW t \in Tabs, tab \in [Tabs -> Fields], NEW fields, fields.step # "committed",
           tab' = [tab EXCEPT ![t] = fields], NEW p, NEW b
    PROVE  Committed(p, b)' = Committed(p, b) -
              (IF /\ tab[t].step = "committed"
                  /\ <<UserOf[t], tab[t].video>> = p /\ tab[t].told.favorited = b
               THEN 1 ELSE 0)
  <1>1. CommittedTabs(p, b)' = CommittedTabs(p, b) \ {t}
    BY DEF CommittedTabs, Fields
  <1>2. Cardinality(CommittedTabs(p, b) \ {t}) =
           IF t \in CommittedTabs(p, b) THEN Cardinality(CommittedTabs(p, b)) - 1
           ELSE Cardinality(CommittedTabs(p, b))
    BY CommittedFinite, FS_RemoveElement
  <1>3. t \in CommittedTabs(p, b) <=>
           /\ tab[t].step = "committed"
           /\ <<UserOf[t], tab[t].video>> = p /\ tab[t].told.favorited = b
    BY DEF CommittedTabs
  <1>4. Committed(p, b)' = Cardinality(CommittedTabs(p, b)')
    BY DEF Committed, CommittedTabs
  <1> QED
    BY <1>1, <1>2, <1>3, <1>4, CommittedFinite

LEMMA CommittedKept ==
    ASSUME NEW t \in Tabs, tab \in [Tabs -> Fields], tab' \in [Tabs -> Fields],
           tab[t].step # "committed", tab'[t].step # "committed",
           \A u \in Tabs \ {t} : tab'[u] = tab[u], NEW p, NEW b
    PROVE  Committed(p, b)' = Committed(p, b)
  <1>1. CommittedTabs(p, b)' = CommittedTabs(p, b)
    BY DEF CommittedTabs
  <1> QED
    BY <1>1 DEF Committed, CommittedTabs

\* The pair of the toggle that a tab has committed.
IsPair(t, p) == <<UserOf[t], tab[t].video>> = p

LEMMA RowsCounted ==
    ASSUME TableInv, NEW user, NEW video
    PROVE  Cardinality(RowsOf(favorites, user, video)) \in Int
  <1>1. RowsOf(favorites, user, video) = {} \/ \E r : RowsOf(favorites, user, video) = {r}
    BY DEF TableInv, OneRow, RowsOf
  <1>2. IsFiniteSet({}) /\ \A r : IsFiniteSet({r})
    BY FS_EmptySet, FS_Singleton
  <1>3. IsFiniteSet(RowsOf(favorites, user, video))
    BY <1>1, <1>2, Zenon
  <1> QED
    BY <1>3, FS_CardinalityType

LEMMA CommitMovesRows ==
    ASSUME TableInv, NEW t \in Tabs, Commit(t), NEW p \in Pairs
    PROVE  /\ Cardinality(RowsOf(favorites, p[1], p[2])) \in Int
           /\ Cardinality(RowsOf(favorites, p[1], p[2]))' =
                Cardinality(RowsOf(favorites, p[1], p[2])) +
                  (IF IsPair(t, p) THEN IF tab[t].told.favorited THEN 1 ELSE -1 ELSE 0)
  <1> DEFINE mine == RowsOf(favorites, p[1], p[2])
             after == RowsOf(Written(t), p[1], p[2])
  <1>1. tab[t].step \in Writing /\ tab[t].step = "counted" /\ favorites' = Written(t)
    BY DEF Commit, Writing
  <1>2. /\ tab[t].row.user = UserOf[t] /\ tab[t].row.video = tab[t].video
        /\ tab[t].told.favorited <=> tab[t].found = NoRow
    BY <1>1 DEF TableInv, HandlerInv, Working
  <1>3. \E u \in Users, v \in Videos : p = <<u, v>>
    BY DEF Pairs
  <1>4. IsPair(t, p) <=> UserOf[t] = p[1] /\ tab[t].video = p[2]
    BY <1>3 DEF IsPair
  <1>5. Cardinality(RowsOf(favorites, p[1], p[2])') = Cardinality(after)
    BY <1>1 DEF RowsOf
  <1>6. Cardinality(mine) \in Int
    BY RowsCounted
  <1>7. CASE IsPair(t, p) /\ tab[t].found = NoRow
    <2>1. mine = {} /\ after = {tab[t].row}
      BY <1>1, <1>2, <1>4, <1>7, WrittenFacts DEF MyRows, RowsOf
    <2>2. Cardinality(mine) = 0 /\ Cardinality(after) = 1
      BY <2>1, FS_EmptySet, FS_Singleton
    <2> HIDE DEF mine, after
    <2> QED
      BY <1>2, <1>5, <1>6, <1>7, <2>2 DEF mine
  <1>8. CASE IsPair(t, p) /\ tab[t].found # NoRow
    <2>1. PICK r \in favorites : Written(t) = favorites \ {r} /\ MyRows(t) = {r}
      BY <1>1, <1>8, WrittenFacts
    <2>2. mine = {r} /\ after = {}
      BY <1>4, <1>8, <2>1 DEF MyRows, RowsOf
    <2>3. Cardinality(mine) = 1 /\ Cardinality(after) = 0
      BY <2>2, FS_EmptySet, FS_Singleton
    <2> HIDE DEF mine, after
    <2> QED
      BY <1>2, <1>5, <1>6, <1>8, <2>3 DEF mine
  <1>9. CASE ~IsPair(t, p)
    <2>1. \A r \in MyRows(t) : r.user = UserOf[t] /\ r.video = tab[t].video
      BY DEF MyRows, RowsOf
    <2>2. after = mine
      BY <1>1, <1>2, <1>4, <1>9, <2>1, WrittenFacts DEF RowsOf
    <2>3. Cardinality(after) = Cardinality(mine)
      BY <2>2
    <2> HIDE DEF mine, after
    <2> QED
      BY <1>5, <1>6, <1>9, <2>3 DEF mine
  <1> QED
    BY <1>6, <1>7, <1>8, <1>9

\* LogBalances of one pair, as an equation of six numbers.
Balanced(p) ==
    Logged(p, "favorite") - Logged(p, "unfavorite")
      + Committed(p, TRUE) - Committed(p, FALSE) + missed[p]
    = Cardinality(RowsOf(favorites, p[1], p[2]))

\* What moves the numbers of a pair keeps the balance when it adds up.
LEMMA BalanceKept ==
    ASSUME TableInv, NEW p \in Pairs, Balanced(p),
           Cardinality(RowsOf(favorites, p[1], p[2])) \in Int,
           NEW logged \in Int, NEW unlogged \in Int, NEW joined \in Int, NEW left \in Int,
           NEW lost \in Int,
           Logged(p, "favorite")' = Logged(p, "favorite") + logged,
           Logged(p, "unfavorite")' = Logged(p, "unfavorite") + unlogged,
           Committed(p, TRUE)' = Committed(p, TRUE) + joined,
           Committed(p, FALSE)' = Committed(p, FALSE) + left,
           missed'[p] = missed[p] + lost,
           Cardinality(RowsOf(favorites, p[1], p[2]))' =
             Cardinality(RowsOf(favorites, p[1], p[2]))
               + (logged - unlogged + joined - left + lost)
    PROVE  Balanced(p)'
  <1> DEFINE fav == Logged(p, "favorite")
             unfav == Logged(p, "unfavorite")
             on == Committed(p, TRUE)
             off == Committed(p, FALSE)
             rows == Cardinality(RowsOf(favorites, p[1], p[2]))
  <1>1. /\ fav' = fav + logged /\ unfav' = unfav + unlogged
        /\ on' = on + joined /\ off' = off + left /\ missed'[p] = missed[p] + lost
        /\ rows' = rows + (logged - unlogged + joined - left + lost)
    OBVIOUS
  <1>2. /\ fav \in Int /\ unfav \in Int /\ on \in Int /\ off \in Int
        /\ missed[p] \in Int /\ rows \in Int
    BY LoggedFinite, CommittedFinite DEF TableInv, Typed
  <1>3. fav - unfav + on - off + missed[p] = rows
    BY DEF Balanced
  <1>4. SUFFICES fav' - unfav' + on' - off' + missed'[p] = rows'
    BY DEF Balanced
  <1> HIDE DEF fav, unfav, on, off, rows
  <1> QED
    BY <1>1, <1>2, <1>3

LEMMA InitBalances == Init => LogBalances
  <1> SUFFICES ASSUME Init, NEW p \in Pairs PROVE Balanced(p)
    BY DEF LogBalances, Balanced
  <1> DEFINE fav == Logged(p, "favorite")
             unfav == Logged(p, "unfavorite")
             on == Committed(p, TRUE)
             off == Committed(p, FALSE)
             rows == Cardinality(RowsOf(favorites, p[1], p[2]))
  <1>1. fav = 0 /\ unfav = 0
    <2>1. LoggedAt(p, "favorite") = {} /\ LoggedAt(p, "unfavorite") = {}
      BY DEF Init, LoggedAt
    <2> QED
      BY <2>1, FS_EmptySet DEF Logged, LoggedAt
  <1>2. on = 0 /\ off = 0
    <2>1. CommittedTabs(p, TRUE) = {} /\ CommittedTabs(p, FALSE) = {}
      BY DEF Init, Idle, CommittedTabs
    <2> QED
      BY <2>1, FS_EmptySet DEF Committed, CommittedTabs
  <1>3. rows = 0 /\ missed[p] = 0
    <2>1. RowsOf(favorites, p[1], p[2]) = {} /\ missed[p] = 0
      BY DEF Init, RowsOf
    <2> QED
      BY <2>1, FS_EmptySet
  <1>4. SUFFICES fav - unfav + on - off + missed[p] = rows
    BY DEF Balanced
  <1> HIDE DEF fav, unfav, on, off, rows
  <1> QED
    BY <1>1, <1>2, <1>3

\* A step that neither commits nor ends a handler that has committed.
LEMMA NothingMoves ==
    ASSUME TableInv, LogBalances, UNCHANGED <<favorites, log, missed>>,
           \A p \in Pairs : /\ Committed(p, TRUE)' = Committed(p, TRUE)
                            /\ Committed(p, FALSE)' = Committed(p, FALSE)
    PROVE  LogBalances'
  BY DEF LogBalances, Logged

\* Who leaves after the commit has logged the toggle or lost it.
LEMMA CommittedAccounted ==
    ASSUME TableInv, LogBalances, NEW t \in Tabs, tab[t].step = "committed",
           NEW fields, fields.step # "committed", tab' = [tab EXCEPT ![t] = fields],
           UNCHANGED favorites,
           \/ /\ log' = Append(log, [user |-> UserOf[t], video |-> tab[t].video,
                                    event_type |-> Event(t)])
              /\ UNCHANGED missed
           \/ Miss(t) /\ UNCHANGED log
    PROVE  LogBalances'
  <1> SUFFICES ASSUME NEW p \in Pairs PROVE Balanced(p)'
    BY DEF LogBalances, Balanced
  <1> DEFINE told == tab[t].told.favorited
             e == [user |-> UserOf[t], video |-> tab[t].video, event_type |-> Event(t)]
             on == IF IsPair(t, p) /\ told THEN 1 ELSE 0
             off == IF IsPair(t, p) /\ ~told THEN 1 ELSE 0
  <1>1. told \in BOOLEAN /\ Event(t) = (IF told THEN "favorite" ELSE "unfavorite")
    BY DEF TableInv, HandlerInv, Answers, Event
  <1>2. \E u \in Users, v \in Videos : p = <<u, v>>
    BY DEF Pairs
  <1>3. IsPair(t, p) <=> UserOf[t] = p[1] /\ tab[t].video = p[2]
    BY <1>2 DEF IsPair
  <1>4. Committed(p, TRUE)' = Committed(p, TRUE) + (-on)
    <2>1. Committed(p, TRUE)' = Committed(p, TRUE) - on
      BY <1>1, CommittedLeaves DEF TableInv, Typed, IsPair
    <2> QED
      BY <2>1, CommittedFinite
  <1>5. Committed(p, FALSE)' = Committed(p, FALSE) + (-off)
    <2>1. Committed(p, FALSE)' = Committed(p, FALSE) - off
      BY <1>1, CommittedLeaves DEF TableInv, Typed, IsPair
    <2> QED
      BY <2>1, CommittedFinite
  <1>6. /\ Cardinality(RowsOf(favorites, p[1], p[2])) \in Int
        /\ Cardinality(RowsOf(favorites, p[1], p[2]))' =
              Cardinality(RowsOf(favorites, p[1], p[2]))
    <2>1. RowsOf(favorites, p[1], p[2])' = RowsOf(favorites, p[1], p[2])
      BY DEF RowsOf
    <2> QED
      BY <2>1, RowsCounted
  <1>7. /\ Logged(p, "favorite") \in Int /\ Logged(p, "unfavorite") \in Int
        /\ missed[p] \in Int
    BY LoggedFinite DEF TableInv, Typed
  <1>8. Balanced(p)
    BY DEF LogBalances, Balanced
  <1>9. on \in Int /\ off \in Int
    OBVIOUS
  <1>10. CASE log' = Append(log, e) /\ UNCHANGED missed
    <2>1. e \in Events
      BY <1>1, FavoritesAssumption DEF TableInv, HandlerInv, Working, Events
    <2>2. Logged(p, "favorite")' = Logged(p, "favorite") + on
      <3>1. e = [user |-> p[1], video |-> p[2], event_type |-> "favorite"] <=> IsPair(t, p) /\ told
        BY <1>1, <1>3
      <3> QED
        BY <1>10, <2>1, <3>1, LogGrows DEF TableInv, Typed
    <2>3. Logged(p, "unfavorite")' = Logged(p, "unfavorite") + off
      <3>1. e = [user |-> p[1], video |-> p[2], event_type |-> "unfavorite"] <=> IsPair(t, p) /\ ~told
        BY <1>1, <1>3
      <3> QED
        BY <1>10, <2>1, <3>1, LogGrows DEF TableInv, Typed
    <2>4. missed'[p] = missed[p] + 0
      BY <1>7, <1>10
    <2> HIDE DEF on, off
    <2>5. on - off + (-on) - (-off) + 0 = 0
      BY <1>9
    <2>6. Cardinality(RowsOf(favorites, p[1], p[2]))' =
            Cardinality(RowsOf(favorites, p[1], p[2])) + (on - off + (-on) - (-off) + 0)
      BY <1>6, <2>5
    <2>7. -on \in Int /\ -off \in Int /\ 0 \in Int
      BY <1>9
    <2> QED
      BY <1>4, <1>5, <1>6, <1>8, <1>9, <2>2, <2>3, <2>4, <2>6, <2>7, BalanceKept
  <1>11. CASE Miss(t) /\ UNCHANGED log
    <2> DEFINE lost == IF IsPair(t, p) THEN IF told THEN 1 ELSE -1 ELSE 0
    <2>1. missed'[p] = missed[p] + lost
      <3>1. CASE IsPair(t, p)
        BY <1>1, <1>7, <1>11, <3>1 DEF Miss, IsPair, TableInv, Typed
      <3>2. CASE ~IsPair(t, p)
        BY <1>7, <1>11, <3>2 DEF Miss, IsPair, TableInv, Typed
      <3> QED
        BY <3>1, <3>2
    <2>2. /\ Logged(p, "favorite")' = Logged(p, "favorite") + 0
          /\ Logged(p, "unfavorite")' = Logged(p, "unfavorite") + 0
      <3>1. /\ Logged(p, "favorite")' = Logged(p, "favorite")
            /\ Logged(p, "unfavorite")' = Logged(p, "unfavorite")
        BY <1>11 DEF Logged
      <3> QED
        BY <1>7, <3>1
    <2>3. 0 - 0 + (-on) - (-off) + lost = 0 /\ lost \in Int
      BY <1>1
    <2> HIDE DEF on, off, lost
    <2>4. Cardinality(RowsOf(favorites, p[1], p[2]))' =
            Cardinality(RowsOf(favorites, p[1], p[2])) + (0 - 0 + (-on) - (-off) + lost)
      BY <1>6, <2>3
    <2>5. -on \in Int /\ -off \in Int /\ 0 \in Int
      BY <1>9
    <2> QED
      BY <1>4, <1>5, <1>6, <1>8, <2>1, <2>2, <2>3, <2>4, <2>5, BalanceKept
  <1> QED
    BY <1>10, <1>11

LEMMA CommitBalances ==
    ASSUME TableInv, LogBalances, NEW t \in Tabs, Commit(t)
    PROVE  LogBalances'
  <1> SUFFICES ASSUME NEW p \in Pairs PROVE Balanced(p)'
    BY DEF LogBalances, Balanced
  <1> DEFINE told == tab[t].told.favorited
             on == IF IsPair(t, p) /\ told THEN 1 ELSE 0
             off == IF IsPair(t, p) /\ ~told THEN 1 ELSE 0
  <1>1. /\ tab[t].step = "counted" /\ tab' = [tab EXCEPT ![t].step = "committed"]
        /\ UNCHANGED <<log, missed>>
    BY DEF Commit
  <1>2. told \in BOOLEAN
    BY <1>1 DEF TableInv, HandlerInv, Answers
  <1>3. Committed(p, TRUE)' = Committed(p, TRUE) + on
    BY <1>1, <1>2, CommittedJoins DEF TableInv, Typed, IsPair
  <1>4. Committed(p, FALSE)' = Committed(p, FALSE) + off
    BY <1>1, <1>2, CommittedJoins DEF TableInv, Typed, IsPair
  <1>5. /\ Logged(p, "favorite")' = Logged(p, "favorite") + 0
        /\ Logged(p, "unfavorite")' = Logged(p, "unfavorite") + 0
        /\ missed'[p] = missed[p] + 0
    <2>1. /\ Logged(p, "favorite")' = Logged(p, "favorite")
          /\ Logged(p, "unfavorite")' = Logged(p, "unfavorite")
      BY <1>1 DEF Logged
    <2>2. /\ Logged(p, "favorite") \in Int /\ Logged(p, "unfavorite") \in Int
          /\ missed[p] \in Int
      BY LoggedFinite DEF TableInv, Typed
    <2> QED
      BY <1>1, <2>1, <2>2
  <1>6. on \in Int /\ off \in Int /\ 0 \in Int
    OBVIOUS
  <1>7. /\ Cardinality(RowsOf(favorites, p[1], p[2])) \in Int
        /\ Cardinality(RowsOf(favorites, p[1], p[2]))' =
              Cardinality(RowsOf(favorites, p[1], p[2])) + (0 - 0 + on - off + 0)
    <2>1. 0 - 0 + on - off + 0 = IF IsPair(t, p) THEN IF told THEN 1 ELSE -1 ELSE 0
      BY <1>2
    <2> QED
      BY <2>1, CommitMovesRows
  <1>8. Balanced(p)
    BY DEF LogBalances, Balanced
  <1> HIDE DEF on, off
  <1> QED
    BY <1>3, <1>4, <1>5, <1>6, <1>7, <1>8, BalanceKept

LEMMA NextBalances == TableInv /\ LogBalances /\ [Next]_vars => LogBalances'
  <1> SUFFICES ASSUME TableInv, LogBalances, [Next]_vars PROVE LogBalances'
    OBVIOUS
  <1>0. TableInv'
    BY NextTable
  <1>1. CASE UNCHANGED vars
    BY <1>1, NothingMoves DEF vars, Committed
  <1>2. ASSUME NEW t \in Tabs, NEW v \in Videos, ReadFavorite(t, v) PROVE LogBalances'
    <2>1. /\ tab[t].step = "idle" /\ tab'[t].step = "read"
          /\ \A u \in Tabs \ {t} : tab'[u] = tab[u]
          /\ UNCHANGED <<favorites, log, missed>>
      BY <1>2 DEF ReadFavorite, TableInv, Typed, Fields
    <2> QED
      BY <1>0, <2>1, CommittedKept, NothingMoves DEF TableInv, Typed
  <1>3. ASSUME NEW t \in Tabs, DeleteFavorite(t) \/ InsertFavorite(t) \/ CountFavorites(t)
        PROVE  LogBalances'
    <2>1. /\ tab[t].step \in {"read", "written"} /\ tab'[t].step \in {"written", "counted"}
          /\ \A u \in Tabs \ {t} : tab'[u] = tab[u]
          /\ UNCHANGED <<favorites, log, missed>>
      BY <1>3 DEF DeleteFavorite, InsertFavorite, CountFavorites, TableInv, Typed, Fields
    <2> QED
      BY <1>0, <2>1, CommittedKept, NothingMoves DEF TableInv, Typed
  <1>4. ASSUME NEW t \in Tabs, LogInteraction(t) \/ InteractionRefused(t) PROVE LogBalances'
    BY <1>4, LogInteractionLeaves, CommittedAccounted DEF LogInteraction, InteractionRefused
  <1>5. ASSUME NEW t \in Tabs, Crash(t) PROVE LogBalances'
    <2>1. PICK fields \in Fields : fields.step = "down" /\ tab' = [tab EXCEPT ![t] = fields]
      BY <1>5, CrashLeaves
    <2>2. CASE tab[t].step = "committed"
      BY <1>5, <2>1, <2>2, CommittedAccounted DEF Crash
    <2>3. CASE tab[t].step # "committed"
      <3>1. tab'[t].step # "committed" /\ \A u \in Tabs \ {t} : tab'[u] = tab[u]
        BY <2>1 DEF TableInv, Typed
      <3>2. UNCHANGED <<favorites, log, missed>>
        BY <1>5, <2>3 DEF Crash
      <3> QED
        BY <1>0, <2>3, <3>1, <3>2, CommittedKept, NothingMoves DEF TableInv, Typed
    <2> QED
      BY <2>2, <2>3
  <1>6. ASSUME NEW t \in Tabs, Mount(t) PROVE LogBalances'
    <2>1. PICK fields \in Fields : fields.step = "idle" /\ tab' = [tab EXCEPT ![t] = fields]
      BY <1>6, MountLeaves
    <2>2. tab[t].step # "committed" /\ UNCHANGED <<favorites, log, missed>>
      BY <1>6 DEF Mount
    <2>3. tab'[t].step # "committed" /\ \A u \in Tabs \ {t} : tab'[u] = tab[u]
      BY <2>1 DEF TableInv, Typed
    <2> QED
      BY <1>0, <2>2, <2>3, CommittedKept, NothingMoves DEF TableInv, Typed
  <1>7. ASSUME NEW t \in Tabs, Commit(t) PROVE LogBalances'
    BY <1>7, CommitBalances
  <1> QED
    BY <1>1, <1>2, <1>3, <1>4, <1>5, <1>6, <1>7 DEF Next

\* The interactions and what the table holds agree for any number of tabs, with
\* crashes and refused interactions: no toggle that is rolled back is logged, and
\* the event is the one that was committed.
THEOREM LogBalancesAlways == Spec => []LogBalances
  <1>1. Init => TableInv /\ LogBalances
    BY InitTable, InitBalances
  <1>2. TableInv /\ LogBalances /\ [Next]_vars => (TableInv /\ LogBalances)'
    BY NextTable, NextBalances
  <1> QED
    BY <1>1, <1>2, PTL DEF Spec

-----------------------------------------------------------------------------
\* What the tabs show.

VideoRows(rows, v) == {r \in rows : r.video = v}

\* The answer a tab has for a video, and the table the answer is about: until
\* the commit, the table as its own transaction sees it.
Seen(t, v) ==
    IF tab[t].step \in {"counted", "committed"} /\ tab[t].video = v THEN tab[t].told
    ELSE tab[t].shown[v]

Table(t, v) ==
    IF tab[t].step = "counted" /\ tab[t].video = v THEN Written(t) ELSE favorites

Honest(t, v) ==
    /\ (\A other \in outdated[t][v] : UserOf[other] # UserOf[t]) =>
          (Seen(t, v).favorited <=> RowsOf(Table(t, v), UserOf[t], v) # {})
    /\ outdated[t][v] = {} =>
          Seen(t, v).favorites_count = Cardinality(VideoRows(Table(t, v), v))

ShownInv == \A t \in Tabs, v \in Videos : tab[t].step # "down" => Honest(t, v)

LEMMA HonestKept ==
    ASSUME NEW t \in Tabs, NEW v \in Videos, Honest(t, v), Seen(t, v)' = Seen(t, v),
           outdated[t][v] \subseteq outdated'[t][v],
           (\A other \in outdated'[t][v] : UserOf[other] # UserOf[t]) =>
              RowsOf(Table(t, v), UserOf[t], v)' = RowsOf(Table(t, v), UserOf[t], v),
           outdated'[t][v] = {} => VideoRows(Table(t, v), v)' = VideoRows(Table(t, v), v)
    PROVE  Honest(t, v)'
  <1>1. ASSUME \A other \in outdated'[t][v] : UserOf[other] # UserOf[t]
        PROVE  Seen(t, v)'.favorited <=> RowsOf(Table(t, v), UserOf[t], v)' # {}
    <2>1. \A other \in outdated[t][v] : UserOf[other] # UserOf[t]
      BY <1>1
    <2> QED
      BY <1>1, <2>1 DEF Honest
  <1>2. ASSUME outdated'[t][v] = {}
        PROVE  Seen(t, v)'.favorites_count = Cardinality(VideoRows(Table(t, v), v)')
    <2>1. outdated[t][v] = {}
      BY <1>2
    <2> QED
      BY <1>2, <2>1 DEF Honest
  <1> QED
    BY <1>1, <1>2 DEF Honest

\* A tab that does nothing while the table and what outdates it stay.
LEMMA HonestAside ==
    ASSUME ShownInv, NEW t \in Tabs, NEW v \in Videos, tab'[t] = tab[t],
           tab'[t].step # "down", UNCHANGED favorites, outdated'[t][v] = outdated[t][v]
    PROVE  Honest(t, v)'
  <1>1. Seen(t, v)' = Seen(t, v) /\ Table(t, v)' = Table(t, v)
    BY DEF Seen, Table, Written
  <1>2. /\ RowsOf(Table(t, v), UserOf[t], v)' = RowsOf(Table(t, v), UserOf[t], v)
        /\ VideoRows(Table(t, v), v)' = VideoRows(Table(t, v), v)
    BY <1>1 DEF RowsOf, VideoRows
  <1>3. Honest(t, v)
    BY DEF ShownInv
  <1> QED
    BY <1>1, <1>2, <1>3, HonestKept

LEMMA ListedHonest ==
    ASSUME NEW user, NEW v \in Videos
    PROVE  /\ Listed(user)[v].favorited <=> RowsOf(favorites, user, v) # {}
           /\ Listed(user)[v].favorites_count = Cardinality(VideoRows(favorites, v))
  <1>1. Listed(user)[v] =
           [favorited |-> RowsOf(favorites, user, v) # {},
            favorites_count |-> Cardinality({r \in favorites : r.video = v})]
    BY Zenon DEF Listed
  <1>2. \A answer, b, n :
           answer = [favorited |-> b, favorites_count |-> n] =>
             answer.favorited = b /\ answer.favorites_count = n
    OBVIOUS
  <1> QED
    BY <1>1, <1>2, Zenon DEF VideoRows

LEMMA InitShown == Init => ShownInv
  <1> SUFFICES ASSUME Init, NEW t \in Tabs, NEW v \in Videos PROVE Honest(t, v)
    BY DEF ShownInv
  <1>1. Seen(t, v) = Listed(UserOf[t])[v] /\ Table(t, v) = favorites
    BY DEF Init, Idle, Seen, Table
  <1> QED
    BY <1>1, ListedHonest DEF Honest

\* The handler up to the count changes nothing that the tab shows.
LEMMA BeginShown ==
    ASSUME TableInv, ShownInv, NEW t \in Tabs,
           \/ \E v \in Videos : ReadFavorite(t, v)
           \/ DeleteFavorite(t) \/ InsertFavorite(t)
    PROVE  ShownInv'
  <1>1. /\ UNCHANGED <<favorites, outdated>>
        /\ tab[t].step \in {"idle", "read"} /\ tab'[t].step \in {"read", "written"}
        /\ tab'[t].shown = tab[t].shown
        /\ \A u \in Tabs \ {t} : tab'[u] = tab[u]
    <2>1. CASE \E v \in Videos : ReadFavorite(t, v)
      <3>1. PICK v \in Videos : ReadFavorite(t, v)
        BY <2>1
      <3>2. /\ UNCHANGED <<favorites, outdated>> /\ tab[t].step = "idle"
            /\ \E row, found : tab' = [tab EXCEPT ![t].step = "read", ![t].video = v,
                                                 ![t].found = found, ![t].row = row]
        BY <3>1, Zenon DEF ReadFavorite
      <3> QED
        BY <3>2 DEF TableInv, Typed, Fields
    <2>2. CASE DeleteFavorite(t) \/ InsertFavorite(t)
      BY <2>2 DEF DeleteFavorite, InsertFavorite, TableInv, Typed, Fields
    <2> QED
      BY <2>1, <2>2
  <1> SUFFICES ASSUME NEW u \in Tabs, NEW v \in Videos, tab'[u].step # "down"
               PROVE  Honest(u, v)'
    BY DEF ShownInv
  <1>2. CASE u # t
    BY <1>1, <1>2, HonestAside
  <1>3. CASE u = t
    <2>1. Seen(t, v)' = Seen(t, v) /\ Table(t, v)' = favorites /\ Table(t, v) = favorites
      BY <1>1 DEF Seen, Table
    <2>2. /\ RowsOf(Table(t, v), UserOf[t], v)' = RowsOf(Table(t, v), UserOf[t], v)
          /\ VideoRows(Table(t, v), v)' = VideoRows(Table(t, v), v)
      BY <2>1 DEF RowsOf, VideoRows
    <2>3. Honest(t, v)
      BY <1>1 DEF ShownInv
    <2> QED
      BY <1>1, <1>3, <2>1, <2>2, <2>3, HonestKept
  <1> QED
    BY <1>2, <1>3

LEMMA CountShown ==
    ASSUME TableInv, ShownInv, NEW t \in Tabs, CountFavorites(t)
    PROVE  ShownInv'
  <1> DEFINE count == Cardinality({r \in Written(t) : r.video = tab[t].video})
             told == [favorited |-> tab[t].found = NoRow, favorites_count |-> count]
  <1>1. /\ tab[t].step = "written"
        /\ tab' = [tab EXCEPT ![t].step = "counted", ![t].told = told]
        /\ outdated' = [outdated EXCEPT ![t][tab[t].video] = {}]
        /\ UNCHANGED favorites
    BY DEF CountFavorites
  <1>2. told.favorites_count = Cardinality(VideoRows(Written(t), tab[t].video))
    BY DEF VideoRows
  <1>3. told.favorited <=> RowsOf(Written(t), UserOf[t], tab[t].video) # {}
    <2>1. /\ told.favorited <=> tab[t].found = NoRow
          /\ tab[t].row.user = UserOf[t] /\ tab[t].row.video = tab[t].video
      BY <1>1 DEF TableInv, HandlerInv, Working
    <2>2. CASE tab[t].found = NoRow
      BY <1>1, <2>1, <2>2, WrittenFacts DEF Writing, RowsOf
    <2>3. CASE tab[t].found # NoRow
      BY <1>1, <2>1, <2>3, WrittenFacts DEF Writing, RowsOf, MyRows
    <2> QED
      BY <2>2, <2>3
  <1> HIDE DEF told
  <1>4. /\ tab'[t].step = "counted" /\ tab'[t].told = told
        /\ tab'[t].video = tab[t].video /\ tab'[t].shown = tab[t].shown
        /\ tab'[t].found = tab[t].found /\ tab'[t].row = tab[t].row
        /\ \A u \in Tabs \ {t} : tab'[u] = tab[u] /\ outdated'[u] = outdated[u]
        /\ \A v \in Videos : outdated'[t][v] = IF v = tab[t].video THEN {} ELSE outdated[t][v]
    BY <1>1 DEF TableInv, Typed, Fields
  <1> SUFFICES ASSUME NEW u \in Tabs, NEW v \in Videos, tab'[u].step # "down"
               PROVE  Honest(u, v)'
    BY DEF ShownInv
  <1>5. CASE u # t
    BY <1>1, <1>4, <1>5, HonestAside
  <1>6. CASE u = t /\ v = tab[t].video
    <2>1. Seen(t, v)' = told /\ Table(t, v)' = Written(t)
      BY <1>1, <1>4, <1>6 DEF Seen, Table, Written
    <2> QED
      BY <1>2, <1>3, <1>6, <2>1 DEF Honest, RowsOf, VideoRows
  <1>7. CASE u = t /\ v # tab[t].video
    <2>1. /\ Seen(t, v)' = Seen(t, v) /\ Table(t, v)' = favorites /\ Table(t, v) = favorites
      BY <1>1, <1>4, <1>7 DEF Seen, Table
    <2>2. /\ RowsOf(Table(t, v), UserOf[t], v)' = RowsOf(Table(t, v), UserOf[t], v)
          /\ VideoRows(Table(t, v), v)' = VideoRows(Table(t, v), v)
      BY <2>1 DEF RowsOf, VideoRows
    <2>3. Honest(t, v)
      BY <1>1 DEF ShownInv
    <2> QED
      BY <1>4, <1>7, <2>1, <2>2, <2>3, HonestKept
  <1> QED
    BY <1>5, <1>6, <1>7

\* A commit is the change that the committing tab has seen, and outdates the
\* others.
LEMMA CommitShown ==
    ASSUME TableInv, ShownInv, NEW t \in Tabs, Commit(t)
    PROVE  ShownInv'
  <1>1. /\ tab[t].step = "counted" /\ favorites' = Written(t)
        /\ tab' = [tab EXCEPT ![t].step = "committed"]
        /\ outdated' = [other \in Tabs |->
             IF other = t THEN outdated[other]
             ELSE [outdated[other] EXCEPT ![tab[t].video] = @ \cup {t}]]
    BY DEF Commit
  <1>2. /\ tab'[t].step = "committed" /\ tab'[t].told = tab[t].told
        /\ tab'[t].video = tab[t].video /\ tab'[t].shown = tab[t].shown
        /\ outdated'[t] = outdated[t]
        /\ \A u \in Tabs \ {t} : tab'[u] = tab[u]
        /\ \A u \in Tabs \ {t}, v \in Videos :
              outdated'[u][v] = IF v = tab[t].video THEN outdated[u][v] \cup {t} ELSE outdated[u][v]
    BY <1>1 DEF TableInv, Typed, Fields
  <1>3. ASSUME NEW r, ~(r \in Written(t) <=> r \in favorites)
        PROVE  r.user = UserOf[t] /\ r.video = tab[t].video
    <2>1. CASE tab[t].found = NoRow
      <3>1. r = tab[t].row
        BY <1>1, <1>3, <2>1, WrittenFacts DEF Writing
      <3> QED
        BY <1>1, <3>1 DEF TableInv, HandlerInv, Working
    <2>2. CASE tab[t].found # NoRow
      <3>1. PICK s \in favorites : Written(t) = favorites \ {s} /\ MyRows(t) = {s}
        BY <1>1, <2>2, WrittenFacts DEF Writing
      <3>2. r = s /\ s \in MyRows(t)
        BY <1>3, <3>1
      <3> QED
        BY <3>2 DEF MyRows, RowsOf
    <2> QED
      BY <2>1, <2>2
  <1> SUFFICES ASSUME NEW u \in Tabs, NEW v \in Videos, tab'[u].step # "down"
               PROVE  Honest(u, v)'
    BY DEF ShownInv
  <1>4. Seen(u, v)' = Seen(u, v) /\ tab[u].step # "down"
    BY <1>1, <1>2 DEF Seen
  <1>5. Honest(u, v)
    BY <1>4 DEF ShownInv
  <1>6. ASSUME v # tab[t].video
        PROVE  VideoRows(Table(u, v), v)' = VideoRows(Table(u, v), v)
    <2>1. \A r : r.video = v => (r \in favorites' <=> r \in favorites)
      <3> SUFFICES ASSUME NEW r, r.video = v PROVE r \in Written(t) <=> r \in favorites
        BY <1>1
      <3> QED
        BY <1>3, <1>6
    <2>2. \A r : r.video = v => (r \in Table(u, v)' <=> r \in Table(u, v))
      BY <1>1, <1>2, <1>6, <2>1 DEF Table, Written
    <2> QED
      BY <2>2 DEF VideoRows
  <1>7. ASSUME UserOf[u] # UserOf[t]
        PROVE  RowsOf(Table(u, v), UserOf[u], v)' = RowsOf(Table(u, v), UserOf[u], v)
    <2>1. \A r : r.user = UserOf[u] => (r \in favorites' <=> r \in favorites)
      <3> SUFFICES ASSUME NEW r, r.user = UserOf[u] PROVE r \in Written(t) <=> r \in favorites
        BY <1>1
      <3> QED
        BY <1>3, <1>7
    <2>2. \A r : r.user = UserOf[u] => (r \in Table(u, v)' <=> r \in Table(u, v))
      BY <1>1, <1>2, <1>7, <2>1 DEF Table, Written
    <2> QED
      BY <2>2 DEF RowsOf
  <1>8. CASE v # tab[t].video
    <2>1. VideoRows(Table(u, v), v)' = VideoRows(Table(u, v), v)
      BY <1>6, <1>8
    <2>2. RowsOf(Table(u, v), UserOf[u], v)' = RowsOf(Table(u, v), UserOf[u], v)
      BY <2>1 DEF RowsOf, VideoRows
    <2>3. outdated'[u][v] = outdated[u][v]
      BY <1>2, <1>8
    <2> QED
      BY <1>4, <1>5, <2>1, <2>2, <2>3, HonestKept
  <1>9. CASE u = t /\ v = tab[t].video
    <2>1. Table(t, v)' = favorites' /\ Table(t, v) = Written(t)
      BY <1>1, <1>2, <1>9 DEF Table
    <2>2. /\ RowsOf(Table(t, v), UserOf[t], v)' = RowsOf(Table(t, v), UserOf[t], v)
          /\ VideoRows(Table(t, v), v)' = VideoRows(Table(t, v), v)
      BY <1>1, <2>1 DEF RowsOf, VideoRows
    <2> QED
      BY <1>2, <1>4, <1>5, <1>9, <2>2, HonestKept
  <1>10. CASE u # t /\ v = tab[t].video
    <2>1. t \in outdated'[u][v] /\ outdated[u][v] \subseteq outdated'[u][v]
      BY <1>2, <1>10
    <2>2. (\A other \in outdated'[u][v] : UserOf[other] # UserOf[u]) =>
            RowsOf(Table(u, v), UserOf[u], v)' = RowsOf(Table(u, v), UserOf[u], v)
      BY <1>7, <2>1
    <2> QED
      BY <1>4, <1>5, <2>1, <2>2, HonestKept
  <1> QED
    BY <1>8, <1>9, <1>10

LEMMA AfterCommitShown ==
    ASSUME TableInv, ShownInv, NEW t \in Tabs,
           LogInteraction(t) \/ InteractionRefused(t) \/ Crash(t) \/ Mount(t)
    PROVE  ShownInv'
  <1> SUFFICES ASSUME NEW u \in Tabs, NEW v \in Videos, tab'[u].step # "down"
               PROVE  Honest(u, v)'
    BY DEF ShownInv
  <1>0. UNCHANGED favorites
    BY DEF LogInteraction, InteractionRefused, Crash, Mount
  <1>1. CASE LogInteraction(t) \/ InteractionRefused(t)
    <2>1. PICK fields \in Fields :
             /\ fields.step = "idle" /\ tab' = [tab EXCEPT ![t] = fields]
             /\ fields.shown = [tab[t].shown EXCEPT ![tab[t].video] = tab[t].told]
      BY <1>1, LogInteractionLeaves
    <2>2. tab[t].step = "committed" /\ UNCHANGED outdated
      BY <1>1 DEF LogInteraction, InteractionRefused
    <2>3. tab'[t] = fields /\ \A w \in Tabs \ {t} : tab'[w] = tab[w]
      BY <2>1 DEF TableInv, Typed
    <2>4. CASE u # t
      BY <1>0, <2>2, <2>3, <2>4, HonestAside
    <2>5. CASE u = t
      <3>1. Seen(t, v)' = Seen(t, v)
        BY <2>1, <2>2, <2>3 DEF Seen, TableInv, Typed, Fields
      <3>2. Table(t, v)' = favorites /\ Table(t, v) = favorites
        BY <1>0, <2>1, <2>2, <2>3 DEF Table
      <3>3. /\ RowsOf(Table(t, v), UserOf[t], v)' = RowsOf(Table(t, v), UserOf[t], v)
            /\ VideoRows(Table(t, v), v)' = VideoRows(Table(t, v), v)
        BY <3>2 DEF RowsOf, VideoRows
      <3>4. Honest(t, v)
        BY <2>2 DEF ShownInv
      <3> QED
        BY <2>2, <2>5, <3>1, <3>3, <3>4, HonestKept
    <2> QED
      BY <2>4, <2>5
  <1>2. CASE Crash(t)
    <2>1. UNCHANGED outdated /\ \E fields \in Fields :
             fields.step = "down" /\ tab' = [tab EXCEPT ![t] = fields]
      BY <1>2, CrashLeaves DEF Crash
    <2>2. u # t /\ tab'[u] = tab[u]
      BY <2>1 DEF TableInv, Typed
    <2> QED
      BY <1>0, <2>1, <2>2, HonestAside
  <1>3. CASE Mount(t)
    <2>1. PICK fields \in Fields :
             /\ fields.step = "idle" /\ tab' = [tab EXCEPT ![t] = fields]
             /\ fields.shown = Listed(UserOf[t])
      BY <1>3, MountLeaves
    <2>2. /\ tab'[t] = fields /\ \A w \in Tabs \ {t} : tab'[w] = tab[w]
          /\ \A w \in Tabs \ {t} : outdated'[w] = outdated[w]
      BY <1>3, <2>1 DEF TableInv, Typed, Mount
    <2>3. CASE u # t
      BY <1>0, <2>2, <2>3, HonestAside
    <2>4. CASE u = t
      <3>1. Seen(t, v)' = Listed(UserOf[t])[v] /\ Table(t, v)' = favorites
        BY <1>0, <2>1, <2>2 DEF Seen, Table
      <3>2. /\ RowsOf(favorites', UserOf[t], v) = RowsOf(favorites, UserOf[t], v)
            /\ VideoRows(favorites', v) = VideoRows(favorites, v)
        BY <1>0
      <3>3. /\ RowsOf(Table(t, v), UserOf[t], v)' = RowsOf(favorites, UserOf[t], v)
            /\ VideoRows(Table(t, v), v)' = VideoRows(favorites, v)
        BY <3>1, <3>2 DEF RowsOf, VideoRows
      <3> QED
        BY <2>4, <3>1, <3>3, ListedHonest DEF Honest
    <2> QED
      BY <2>3, <2>4
  <1> QED
    BY <1>1, <1>2, <1>3

LEMMA NextShown == TableInv /\ ShownInv /\ [Next]_vars => ShownInv'
  <1> SUFFICES ASSUME TableInv, ShownInv, [Next]_vars PROVE ShownInv'
    OBVIOUS
  <1>1. CASE UNCHANGED vars
    BY <1>1, HonestAside DEF vars, ShownInv
  <1>2. CASE Next
    <2> PICK t \in Tabs :
               \/ \E v \in Videos : ReadFavorite(t, v)
               \/ DeleteFavorite(t) \/ InsertFavorite(t)
               \/ CountFavorites(t)
               \/ Commit(t)
               \/ LogInteraction(t) \/ InteractionRefused(t) \/ Crash(t) \/ Mount(t)
      BY <1>2 DEF Next
    <2> QED
      BY BeginShown, CountShown, CommitShown, AfterCommitShown
  <1> QED
    BY <1>1, <1>2

\* A tab between handlers is right about its own favorites until its user
\* toggles in another tab, and about the count until anybody toggles.
THEOREM ShownHonestAlways == Spec => []ShownHonest
  <1>1. Init => TableInv /\ ShownInv
    BY InitTable, InitShown
  <1>2. TableInv /\ ShownInv /\ [Next]_vars => (TableInv /\ ShownInv)'
    BY NextTable, NextShown
  <1>3. TableInv /\ ShownInv => ShownHonest
    <2> SUFFICES ASSUME TableInv, ShownInv, NEW t \in Tabs, NEW v \in Videos,
                        tab[t].step = "idle"
                 PROVE  /\ (\A other \in outdated[t][v] : UserOf[other] # UserOf[t]) =>
                              tab[t].shown[v].favorited = (RowsOf(favorites, UserOf[t], v) # {})
                        /\ outdated[t][v] = {} =>
                              tab[t].shown[v].favorites_count =
                                Cardinality({r \in favorites : r.video = v})
      BY DEF ShownHonest
    <2>1. Honest(t, v) /\ Seen(t, v) = tab[t].shown[v] /\ Table(t, v) = favorites
      BY DEF ShownInv, Seen, Table
    <2>2. tab[t].shown[v].favorited \in BOOLEAN
      BY DEF TableInv, Typed, Fields, Answers
    <2> QED
      BY <2>1, <2>2 DEF Honest, VideoRows
  <1> QED
    BY <1>1, <1>2, <1>3, PTL DEF Spec
=============================================================================
