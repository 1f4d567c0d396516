--------------------------- MODULE IngestionProofs ---------------------------
(***************************************************************************)
(* Proofs about Ingestion.  Uploads and listed files are different items,  *)
(* so each side has an invariant of its own that the other side's steps    *)
(* only meet as a frame: they leave the items of this side alone and never *)
(* take a content out of the library.                                      *)
(***************************************************************************)
EXTENDS Ingestion, TLAPS

USE ContentAssumption, UploadAssumption, ListingAssumption, ItemAssumption

IsPending(u) == u \in ToSet(pending[sessionOf[u]])

IsTodo(u) == u \in ToSet(todo[sessionOf[u]])

Saves(s) == mode[s] \in {"saving", "discarding"}

\* The lists of a page hold its own uploads, each once; what is left to do is
\* part of what is pending, and what save found rejected is in the library or was
\* refused.
PageOK(s) ==
    /\ \A u \in ToSet(pending[s]) : sessionOf[u] = s
    /\ ToSet(todo[s]) \subseteq ToSet(pending[s])
    /\ IsInjective(pending[s])
    /\ IsInjective(todo[s])
    /\ mode[s] = "discarding" =>
          /\ todo[s] # <<>>
          /\ content[Head(todo[s])] \in Library \/ Head(todo[s]) \in refused
    /\ mode[s] = "saved" => todo[s] = <<>>

\* An upload that is not sent yet is nowhere.
UnsentOK(u) ==
    entry[u] \in {"absent", "uploading"} => ~IsPending(u) /\ u \notin rows

\* What is pending has its file, or its content is in the library already, or
\* it was refused.
PendingOK(u) ==
    /\ IsPending(u) => u \in files \/ content[u] \in Library \/ u \in refused
    /\ IsPending(u) /\ mode[sessionOf[u]] = "open" => u \notin rows
    /\ IsPending(u) /\ Saves(sessionOf[u]) /\ created[sessionOf[u]] = 0 =>
          u \notin rows
    /\ IsTodo(u) /\ Saves(sessionOf[u]) => u \notin rows

\* A file of the page is pending, unless the page died while copying it; once
\* save is past it, it has a row or no file.
FileOK(u) ==
    /\ u \in files => IsPending(u) \/ mode[sessionOf[u]] = "closed"
    /\ IsPending(u) /\ (Saves(sessionOf[u]) \/ mode[sessionOf[u]] = "saved") =>
          IsTodo(u) \/ u \in rows \/ u \notin files

SessionInv ==
    /\ SessionTypeOK
    /\ \A s \in Session : PageOK(s)
    /\ \A u \in Upload : UnsentOK(u) /\ PendingOK(u) /\ FileOK(u)
    /\ rows \cap Upload \subseteq files \cup refused

\* The steps in which a run works on a file, and those in which it removes one.
Removing == {"removeDuplicate", "removeRefused"}

Handling == {"copy", "create"} \cup Removing

Active == {"examine"} \cup Handling

USE DEF Removing, Handling, Active

\* A run has not touched what it has not come to, and works on one file.
RunOK(t) ==
    /\ step[t] \in Handling => Remains(t)
    /\ step[t] = "create" => Current(t) \in files
    /\ \A n \in 1..Len(listing[t]) :
          n >= at[t] => /\ listing[t][n] \notin rows
                        /\ verdict[listing[t][n]] = "todo"

TaskInv ==
    /\ TaskTypeOK
    /\ \A t \in Task : RunOK(t)
    /\ \A i \in (files \ rows) \cap Listed : InFlight(i) \/ Abandoned(i)
    /\ rows \cap Listed \subseteq files

IInv ==
    /\ StoreTypeOK
    /\ UniqueContent
    /\ SessionInv
    /\ TaskInv

-----------------------------------------------------------------------------
(* Sequences *)

LEMMA ConsFacts ==
    ASSUME NEW S, NEW q \in Seq(S), NEW u \in S
    PROVE  /\ <<u>> \o q \in Seq(S)
           /\ ToSet(<<u>> \o q) = ToSet(q) \cup {u}
           /\ IsInjective(q) /\ u \notin ToSet(q) => IsInjective(<<u>> \o q)
<1> DEFINE r == <<u>> \o q
<1>1. /\ r \in Seq(S)
      /\ Len(r) = Len(q) + 1
      /\ DOMAIN r = 1..(Len(q) + 1)
      /\ DOMAIN q = 1..Len(q)
      /\ Len(q) \in Nat
      /\ r[1] = u
      /\ \A i \in 2..(Len(q) + 1) : r[i] = q[i - 1]
  OBVIOUS
<1> HIDE DEF r
<1>2. ToSet(r) \subseteq ToSet(q) \cup {u}
  <2>1. ASSUME NEW i \in DOMAIN r PROVE r[i] \in ToSet(q) \cup {u}
    <3>1. CASE i = 1
      BY <3>1, <1>1
    <3>2. CASE i # 1
      <4>1. i \in 2..(Len(q) + 1) /\ i - 1 \in DOMAIN q
        BY <3>2, <1>1
      <4>2. r[i] = q[i - 1]
        BY <4>1, <1>1
      <4> QED BY <4>1, <4>2 DEF ToSet
    <3> QED BY <3>1, <3>2
  <2> QED BY <2>1 DEF ToSet
<1>3. ToSet(q) \cup {u} \subseteq ToSet(r)
  <2>1. ASSUME NEW i \in DOMAIN q PROVE q[i] \in ToSet(r)
    <3>1. i + 1 \in DOMAIN r /\ r[i + 1] = q[i]
      BY <1>1, <2>1
    <3> QED BY <3>1 DEF ToSet
  <2>2. u \in ToSet(r)
    BY <1>1 DEF ToSet
  <2> QED BY <2>1, <2>2 DEF ToSet
<1>4. ASSUME IsInjective(q), u \notin ToSet(q)
      PROVE  IsInjective(r)
  <2>1. ASSUME NEW i \in DOMAIN r, NEW j \in DOMAIN r, r[i] = r[j], i # j
        PROVE  FALSE
    <3>1. \A k \in 2..(Len(q) + 1) : k - 1 \in DOMAIN q /\ r[k] = q[k - 1]
      BY <1>1
    <3>2. \A k \in 2..(Len(q) + 1) : r[k] # u
      BY <3>1, <1>4 DEF ToSet
    <3>3. i \in 2..(Len(q) + 1) /\ j \in 2..(Len(q) + 1)
      BY <1>1, <2>1, <3>2
    <3>4. i - 1 = j - 1
      BY <3>1, <3>3, <2>1, <1>4 DEF IsInjective
    <3> QED BY <3>3, <3>4, <2>1
  <2> QED BY <2>1 DEF IsInjective
<1> QED BY <1>1, <1>2, <1>3, <1>4 DEF r

LEMMA TailFacts ==
    ASSUME NEW S, NEW q \in Seq(S), q # <<>>
    PROVE  /\ Head(q) \in S
           /\ Tail(q) \in Seq(S)
           /\ ToSet(q) = ToSet(Tail(q)) \cup {Head(q)}
           /\ IsInjective(q) =>
                  IsInjective(Tail(q)) /\ Head(q) \notin ToSet(Tail(q))
<1> DEFINE r == Tail(q)
<1>1. /\ Head(q) = q[1] /\ Head(q) \in S
      /\ r \in Seq(S)
      /\ Len(q) \in Nat /\ Len(q) >= 1
      /\ DOMAIN r = 1..(Len(q) - 1)
      /\ DOMAIN q = 1..Len(q)
      /\ \A i \in 1..(Len(q) - 1) : r[i] = q[i + 1]
  OBVIOUS
<1> HIDE DEF r
<1>2. ToSet(r) \cup {Head(q)} \subseteq ToSet(q)
  <2>1. ASSUME NEW i \in DOMAIN r PROVE r[i] \in ToSet(q)
    <3>1. i + 1 \in DOMAIN q /\ r[i] = q[i + 1]
      BY <1>1
    <3> QED BY <3>1 DEF ToSet
  <2>2. Head(q) \in ToSet(q)
    BY <1>1 DEF ToSet
  <2> QED BY <2>1, <2>2 DEF ToSet
<1>3. ToSet(q) \subseteq ToSet(r) \cup {Head(q)}
  <2>1. ASSUME NEW i \in DOMAIN q PROVE q[i] \in ToSet(r) \cup {Head(q)}
    <3>1. CASE i = 1
      BY <3>1, <1>1
    <3>2. CASE i # 1
      <4>1. i - 1 \in DOMAIN r /\ r[i - 1] = q[i]
        BY <3>2, <1>1
      <4> QED BY <4>1 DEF ToSet
    <3> QED BY <3>1, <3>2
  <2> QED BY <2>1 DEF ToSet
<1>4. ASSUME IsInjective(q)
      PROVE  IsInjective(r) /\ Head(q) \notin ToSet(r)
  <2>1. \A i \in DOMAIN r : i + 1 \in DOMAIN q /\ r[i] = q[i + 1]
    BY <1>1
  <2>2. IsInjective(r)
    <3> SUFFICES ASSUME NEW i \in DOMAIN r, NEW j \in DOMAIN r, r[i] = r[j]
                 PROVE  i = j
      BY DEF IsInjective
    <3>1. i + 1 = j + 1
      BY <2>1, <1>4 DEF IsInjective
    <3> QED BY <3>1, <1>1
  <2>3. ASSUME NEW i \in DOMAIN r, r[i] = Head(q) PROVE FALSE
    <3>1. i + 1 = 1
      BY <2>1, <2>3, <1>1, <1>4 DEF IsInjective
    <3> QED BY <3>1, <1>1
  <2> QED BY <2>2, <2>3 DEF ToSet
<1> QED BY <1>1, <1>2, <1>3, <1>4 DEF r

-----------------------------------------------------------------------------
(* What a step of the one side is to the other *)

\* The library only grows, and the items of X are left alone.
Elsewhere(X) ==
    /\ Library \subseteq Library'
    /\ rows' \cap X = rows \cap X
    /\ files' \cap X = files \cap X

LEMMA SessionFrame ==
    ASSUME SessionInv, UNCHANGED sessionVars, Elsewhere(Upload)
    PROVE  SessionInv'
<1>1. UNCHANGED <<entry, pending, seen, duplicates, mode, todo, created, refused>>
  BY DEF sessionVars
<1>2. SessionTypeOK'
  BY <1>1 DEF SessionInv, SessionTypeOK
<1>3. \A s \in Session : PageOK(s)'
  BY <1>1 DEF SessionInv, PageOK, Elsewhere
<1>4. ASSUME NEW u \in Upload
      PROVE  UnsentOK(u)' /\ PendingOK(u)' /\ FileOK(u)'
  <2>1. (u \in rows' <=> u \in rows) /\ (u \in files' <=> u \in files)
    BY DEF Elsewhere
  <2>2. IsPending(u)' = IsPending(u) /\ IsTodo(u)' = IsTodo(u)
    BY <1>1 DEF IsPending, IsTodo
  <2>3. UnsentOK(u) /\ PendingOK(u) /\ FileOK(u)
    BY DEF SessionInv
  <2>4. Saves(sessionOf[u])' = Saves(sessionOf[u])
    BY <1>1 DEF Saves
  <2> QED
    BY <1>1, <2>1, <2>2, <2>3, <2>4 DEF UnsentOK, PendingOK, FileOK, Elsewhere
<1>5. rows' \cap Upload \subseteq files' \cup refused'
  BY <1>1 DEF Elsewhere, SessionInv
<1> QED
  BY <1>2, <1>3, <1>4, <1>5 DEF SessionInv

LEMMA TaskFrame ==
    ASSUME TaskInv, UNCHANGED taskVars, Elsewhere(Listed)
    PROVE  TaskInv'
<1>1. UNCHANGED <<at, step, known, verdict>>
  BY DEF taskVars
<1>2. TaskTypeOK'
  BY <1>1 DEF TaskInv, TaskTypeOK
<1>3. ASSUME NEW t \in Task PROVE RunOK(t)'
  <2>1. listing[t] \in Seq(Listed) /\ at[t] \in Nat \ {0} /\ RunOK(t)
    BY DEF TaskInv, TaskTypeOK
  <2>2. Remains(t) => Current(t) \in Listed
    BY <2>1 DEF Remains, Current
  <2>3. \A n \in 1..Len(listing[t]) : listing[t][n] \in Listed
    BY <2>1
  <2> QED
    BY <1>1, <2>1, <2>2, <2>3 DEF RunOK, Elsewhere, Remains, Current
<1>4. ASSUME NEW i \in (files' \ rows') \cap Listed
      PROVE  InFlight(i)' \/ Abandoned(i)'
  <2>1. i \in (files \ rows) \cap Listed /\ i \notin Upload
    BY DEF Elsewhere
  <2>2. InFlight(i) \/ Abandoned(i)
    BY <2>1 DEF TaskInv
  <2> QED
    BY <1>1, <2>1, <2>2 DEF InFlight, Abandoned, Remains, Current
<1>5. rows' \cap Listed \subseteq files'
  BY DEF Elsewhere, TaskInv
<1> QED
  BY <1>2, <1>3, <1>4, <1>5 DEF TaskInv

-----------------------------------------------------------------------------
(* The table and the directory *)

LEMMA CreateRowFacts ==
    ASSUME StoreTypeOK, UniqueContent, NEW i \in Item, CreateRow(i),
           UNCHANGED files
    PROVE  /\ StoreTypeOK' /\ UniqueContent'
           /\ rows' = rows \cup {i} /\ i \notin rows
           /\ Library \subseteq Library'
  BY DEF StoreTypeOK, UniqueContent, CreateRow, Rejected, Library

LEMMA FilesFacts ==
    ASSUME StoreTypeOK, UniqueContent, UNCHANGED rows,
           NEW i \in Item, files' \subseteq files \cup {i}
    PROVE  /\ StoreTypeOK' /\ UniqueContent'
           /\ Library' = Library
  BY DEF StoreTypeOK, UniqueContent, Library

LEMMA SameStoreFacts ==
    ASSUME StoreTypeOK, UniqueContent, UNCHANGED storeVars
    PROVE  /\ StoreTypeOK' /\ UniqueContent'
           /\ rows' = rows /\ files' = files /\ Library' = Library
           /\ Elsewhere(Upload) /\ Elsewhere(Listed)
  BY DEF StoreTypeOK, UniqueContent, Library, storeVars, Elsewhere

-----------------------------------------------------------------------------
(* Steps of a page *)

\* An entry that was sent stays sent: Select, Cancel, SkipDuplicate.
LEMMA EntryStep ==
    ASSUME SessionInv, StoreTypeOK, UniqueContent,
           UNCHANGED <<storeVars, pending, seen, mode, todo, created, refused>>,
           NEW v \in Upload, NEW w, entry' = [entry EXCEPT ![v] = w],
           w \in {"absent", "uploading"} => entry[v] \in {"absent", "uploading"},
           SessionTypeOK'
    PROVE  SessionInv'
<1>1. \A s \in Session : PageOK(s)'
  BY SameStoreFacts DEF SessionInv, PageOK
<1>2. ASSUME NEW u \in Upload PROVE UnsentOK(u)' /\ PendingOK(u)' /\ FileOK(u)'
  <2>1. UnsentOK(u) /\ PendingOK(u) /\ FileOK(u)
    BY DEF SessionInv
  <2>2. IsPending(u)' = IsPending(u) /\ IsTodo(u)' = IsTodo(u)
    BY DEF IsPending, IsTodo
  <2>3. Saves(sessionOf[u])' = Saves(sessionOf[u])
    BY DEF Saves
  <2>4. entry'[u] \in {"absent", "uploading"} => entry[u] \in {"absent", "uploading"}
    BY DEF SessionInv, SessionTypeOK
  <2> QED
    BY <2>1, <2>2, <2>3, <2>4, SameStoreFacts DEF UnsentOK, PendingOK, FileOK
<1>3. (rows \cap Upload \subseteq files \cup refused)'
  BY SameStoreFacts DEF SessionInv
<1> QED
  BY <1>1, <1>2, <1>3 DEF SessionInv

\* A page is left, perhaps while it copies a file: SaveNothing, Close,
\* KeepUploadRaises.
LEMMA LeaveStep ==
    ASSUME SessionInv, StoreTypeOK, UniqueContent,
           UNCHANGED <<rows, entry, pending, seen, duplicates, todo, created,
                       refused>>,
           NEW s \in Session, NEW m \in {"quit", "closed"},
           mode' = [mode EXCEPT ![s] = m],
           mode[s] \in {"open", "saving", "discarding"},
           \/ files' = files
           \/ /\ m = "closed"
              /\ \E v \in Entries(s) : files' = files \cup {v}
    PROVE  SessionInv'
<1> USE DEF Entries
<1>1. SessionTypeOK'
  BY DEF SessionInv, SessionTypeOK
<1>2. Library' = Library
  BY DEF Library
<1>3. mode' \in [Session -> {"open", "saving", "discarding", "saved", "quit",
                              "closed"}]
  BY <1>1 DEF SessionTypeOK
<1>4. mode \in [Session -> {"open", "saving", "discarding", "saved", "quit",
                             "closed"}]
  BY DEF SessionInv, SessionTypeOK
<1>5. ASSUME NEW x \in Session PROVE PageOK(x)'
  <2>1. PageOK(x) /\ mode'[x] = IF x = s THEN m ELSE mode[x]
    BY <1>4 DEF SessionInv
  <2> QED
    BY <1>2, <2>1 DEF PageOK
<1>6. ASSUME NEW u \in Upload PROVE UnsentOK(u)' /\ PendingOK(u)' /\ FileOK(u)'
  <2>1. UnsentOK(u) /\ PendingOK(u) /\ FileOK(u)
    BY DEF SessionInv
  <2>2. IsPending(u)' = IsPending(u) /\ IsTodo(u)' = IsTodo(u)
    BY DEF IsPending, IsTodo
  <2>3. UnsentOK(u)'
    BY <2>1, <2>2 DEF UnsentOK
  <2>4. mode'[sessionOf[u]] =
            IF sessionOf[u] = s THEN m ELSE mode[sessionOf[u]]
    BY <1>4
  <2>5. PendingOK(u)'
    BY <1>2, <2>1, <2>2, <2>4 DEF PendingOK, Saves
  <2>6. FileOK(u)'
    BY <2>1, <2>2, <2>4 DEF FileOK, Saves
  <2> QED
    BY <2>3, <2>5, <2>6
<1>7. (rows \cap Upload \subseteq files \cup refused)'
  BY DEF SessionInv
<1> QED
  BY <1>1, <1>5, <1>6, <1>7 DEF SessionInv

LEMMA KeepUploadStep ==
    ASSUME SessionInv, StoreTypeOK, UniqueContent,
           NEW v \in Upload, KeepUpload(v)
    PROVE  SessionInv'
<1> DEFINE s == sessionOf[v]
<1>1. /\ mode[s] = "open" /\ entry[v] = "uploading"
      /\ files' = files \cup {v}
      /\ entry' = [entry EXCEPT ![v] = "done"]
      /\ pending' = [pending EXCEPT ![s] = <<v>> \o @]
      /\ seen' = [seen EXCEPT ![s] = @ \cup {content[v]}]
      /\ UNCHANGED <<rows, duplicates, mode, todo, created, refused>>
      /\ s \in Session /\ content[v] \in Hash
  BY DEF KeepUpload, CopyFile, Remember
<1> HIDE DEF s
<1>2. SessionTypeOK
  BY DEF SessionInv
<1>3. pending[s] \in Seq(Upload) /\ v \notin ToSet(pending[s]) /\ v \notin rows
  BY <1>1, <1>2 DEF SessionInv, UnsentOK, IsPending, SessionTypeOK, s
<1>4. /\ <<v>> \o pending[s] \in Seq(Upload)
      /\ ToSet(<<v>> \o pending[s]) = ToSet(pending[s]) \cup {v}
      /\ IsInjective(pending[s]) => IsInjective(<<v>> \o pending[s])
  BY <1>3, ConsFacts
<1>5. \A x \in Session :
         pending'[x] = IF x = s THEN <<v>> \o pending[s] ELSE pending[x]
  BY <1>1, <1>2 DEF SessionTypeOK
<1>6. SessionTypeOK'
  <2>1. pending' \in [Session -> Seq(Upload)]
    BY <1>1, <1>2, <1>4 DEF SessionTypeOK
  <2>2. seen' \in [Session -> SUBSET Hash]
    BY <1>1, <1>2 DEF SessionTypeOK
  <2>3. entry' \in [Upload -> {"absent", "uploading", "done", "cancelled",
                                "consumed"}]
    BY <1>1, <1>2 DEF SessionTypeOK
  <2> QED
    BY <1>1, <1>2, <2>1, <2>2, <2>3 DEF SessionTypeOK
<1>7. Library' = Library
  BY <1>1 DEF Library
<1>8. ASSUME NEW x \in Session PROVE PageOK(x)'
  <2>1. PageOK(x)
    BY DEF SessionInv
  <2>2. CASE x = s
    BY <1>1, <1>4, <1>5, <2>1, <2>2 DEF PageOK, s
  <2>3. CASE x # s
    <3>1. pending'[x] = pending[x]
      BY <1>5, <2>3
    <3> QED
      BY <1>1, <1>7, <2>1, <3>1 DEF PageOK
  <2> QED
    BY <2>2, <2>3
<1>9. ASSUME NEW u \in Upload PROVE UnsentOK(u)' /\ PendingOK(u)' /\ FileOK(u)'
  <2>1. UnsentOK(u) /\ PendingOK(u) /\ FileOK(u)
    BY DEF SessionInv
  <2>2. IsPending(u)' <=> IsPending(u) \/ u = v
    BY <1>4, <1>5 DEF IsPending, s
  <2>3. IsTodo(u)' = IsTodo(u) /\ Saves(sessionOf[u])' = Saves(sessionOf[u])
    BY <1>1 DEF IsTodo, Saves
  <2>4. u # v => entry'[u] = entry[u]
    BY <1>1, <1>2 DEF SessionTypeOK
  <2>5. entry'[v] = "done"
    BY <1>1, <1>2 DEF SessionTypeOK
  <2>6. UnsentOK(u)'
    BY <1>1, <2>1, <2>2, <2>4, <2>5 DEF UnsentOK
  <2>7. CASE u = v
    <3>1. ~Saves(s) /\ mode[s] # "saved"
      BY <1>1 DEF Saves
    <3>2. PendingOK(u)'
      BY <1>1, <1>3, <2>3, <2>7, <3>1 DEF PendingOK, s
    <3>3. FileOK(u)'
      BY <1>1, <2>2, <2>3, <2>7, <3>1 DEF FileOK, s
    <3> QED
      BY <2>6, <3>2, <3>3
  <2>8. CASE u # v
    BY <1>1, <1>7, <2>1, <2>2, <2>3, <2>6, <2>8 DEF PendingOK, FileOK
  <2> QED
    BY <2>7, <2>8
<1>10. (rows \cap Upload \subseteq files \cup refused)'
  BY <1>1 DEF SessionInv
<1> QED
  BY <1>6, <1>8, <1>9, <1>10 DEF SessionInv

LEMMA StartSaveStep ==
    ASSUME SessionInv, NEW s \in Session, StartSave(s)
    PROVE  SessionInv'
<1>1. /\ mode[s] = "open"
      /\ mode' = [mode EXCEPT ![s] = "saving"]
      /\ todo' = [todo EXCEPT ![s] = pending[s]]
      /\ created' = [created EXCEPT ![s] = 0]
      /\ rows' = rows /\ files' = files
      /\ UNCHANGED <<entry, pending, seen, duplicates, refused>>
  BY DEF StartSave, storeVars
<1>2. SessionTypeOK /\ SessionTypeOK'
  BY <1>1 DEF SessionInv, SessionTypeOK
<1>3. \A x \in Session :
         /\ mode'[x] = IF x = s THEN "saving" ELSE mode[x]
         /\ todo'[x] = IF x = s THEN pending[s] ELSE todo[x]
  BY <1>1, <1>2 DEF SessionTypeOK
<1>4. Library' = Library
  BY <1>1 DEF Library
<1>5. ASSUME NEW x \in Session PROVE PageOK(x)'
  <2>1. PageOK(x)
    BY DEF SessionInv
  <2>2. CASE x = s
    BY <1>1, <1>3, <2>1, <2>2 DEF PageOK
  <2>3. CASE x # s
    <3>1. mode'[x] = mode[x] /\ todo'[x] = todo[x]
      BY <1>3, <2>3
    <3> QED
      BY <1>1, <1>4, <2>1, <3>1 DEF PageOK
  <2> QED
    BY <2>2, <2>3
<1>6. ASSUME NEW u \in Upload PROVE UnsentOK(u)' /\ PendingOK(u)' /\ FileOK(u)'
  <2>1. UnsentOK(u) /\ PendingOK(u) /\ FileOK(u)
    BY DEF SessionInv
  <2>2. IsPending(u)' = IsPending(u)
    BY <1>1 DEF IsPending
  <2>3. UnsentOK(u)'
    BY <1>1, <2>1, <2>2 DEF UnsentOK
  <2>4. CASE sessionOf[u] = s
    BY <1>1, <1>3, <1>4, <2>1, <2>2, <2>3, <2>4
       DEF PendingOK, FileOK, Saves, IsTodo, IsPending
  <2>5. CASE sessionOf[u] # s
    <3>1. /\ mode'[sessionOf[u]] = mode[sessionOf[u]]
          /\ todo'[sessionOf[u]] = todo[sessionOf[u]]
          /\ created'[sessionOf[u]] = created[sessionOf[u]]
      BY <1>1, <1>2, <2>5 DEF SessionTypeOK
    <3> QED
      BY <1>1, <1>4, <2>1, <2>2, <2>3, <3>1 DEF PendingOK, FileOK, Saves, IsTodo
  <2> QED
    BY <2>4, <2>5
<1>7. (rows \cap Upload \subseteq files \cup refused)'
  BY <1>1 DEF SessionInv
<1> QED
  BY <1>2, <1>5, <1>6, <1>7 DEF SessionInv

\* The first pending upload that is left is dealt with: it is in the table now,
\* or it has no file any more and was refused, for its content or otherwise.
LEMMA SaveHeadStep ==
    ASSUME SessionInv, NEW s \in Session, Saves(s), todo[s] # <<>>,
           mode' = [mode EXCEPT ![s] = "saving"],
           todo' = [todo EXCEPT ![s] = Tail(@)],
           UNCHANGED <<entry, pending, seen, duplicates, refused>>,
           Library \subseteq Library',
           \/ /\ rows' = rows \cup {Head(todo[s])} /\ files' = files
              /\ content[Head(todo[s])] \notin Library
              /\ created' = [created EXCEPT ![s] = @ + 1]
           \/ /\ rows' = rows /\ files' = files \ {Head(todo[s])}
              /\ content[Head(todo[s])] \in Library \/ Head(todo[s]) \in refused
              /\ created' = created
    PROVE  SessionInv'
<1> DEFINE h == Head(todo[s])
<1>1. SessionTypeOK /\ PageOK(s) /\ todo[s] \in Seq(Upload)
  BY DEF SessionInv, SessionTypeOK
<1>2. /\ h \in Upload
      /\ Tail(todo[s]) \in Seq(Upload)
      /\ ToSet(todo[s]) = ToSet(Tail(todo[s])) \cup {h}
      /\ IsInjective(Tail(todo[s])) /\ h \notin ToSet(Tail(todo[s]))
  BY <1>1, TailFacts DEF PageOK
<1>3. sessionOf[h] = s /\ IsPending(h) /\ IsTodo(h)
  BY <1>1, <1>2 DEF PageOK, IsPending, IsTodo
<1>4. h \notin rows /\ entry[h] \notin {"absent", "uploading"}
  BY <1>2, <1>3 DEF SessionInv, PendingOK, UnsentOK
<1>5. h \in files \/ content[h] \in Library \/ h \in refused
  BY <1>2, <1>3 DEF SessionInv, PendingOK
<1> HIDE DEF h
<1>6. SessionTypeOK'
  <2>1. todo' \in [Session -> Seq(Upload)]
    BY <1>1, <1>2 DEF SessionTypeOK
  <2>2. created' \in [Session -> Nat]
    <3>1. created \in [Session -> Nat]
      BY <1>1 DEF SessionTypeOK
    <3>2. \A n \in Nat : n + 1 \in Nat
      OBVIOUS
    <3> QED
      BY <3>1, <3>2
  <2> QED
    BY <1>1, <2>1, <2>2 DEF SessionTypeOK
<1>7. \A x \in Session :
         /\ mode'[x] = IF x = s THEN "saving" ELSE mode[x]
         /\ todo'[x] = IF x = s THEN Tail(todo[s]) ELSE todo[x]
  BY <1>1 DEF SessionTypeOK
<1>8a. created' = [created EXCEPT ![s] = @ + 1] => created'[s] # 0
  <2>1. created[s] \in Nat
    BY <1>1 DEF SessionTypeOK
  <2>2. ASSUME created' = [created EXCEPT ![s] = @ + 1]
        PROVE  created'[s] = created[s] + 1
    <3>1. created \in [Session -> Nat]
      BY <1>1 DEF SessionTypeOK
    <3> QED
      BY <2>2, <3>1
  <2>3. ASSUME created'[s] = created[s] + 1 PROVE created'[s] # 0
    BY <2>1, <2>3
  <2> QED
    BY <2>2, <2>3
<1>8. created'[s] = 0 => rows' = rows
  BY <1>8a
<1>9. ASSUME NEW x \in Session PROVE PageOK(x)'
  <2>1. PageOK(x)
    BY DEF SessionInv
  <2>2. CASE x = s
    BY <1>2, <1>7, <2>1, <2>2 DEF PageOK
  <2>3. CASE x # s
    <3>1. todo'[x] = todo[x] /\ mode'[x] = mode[x]
      BY <1>7, <2>3
    <3>2. /\ mode'[x] = "discarding" =>
                /\ todo'[x] # <<>>
                /\ content[Head(todo'[x])] \in Library' \/ Head(todo'[x]) \in refused'
          /\ mode'[x] = "saved" => todo'[x] = <<>>
      <4>1. mode[x] = "saved" => todo[x] = <<>>
        BY <2>1 DEF PageOK
      <4>2. ASSUME mode[x] = "discarding"
            PROVE  /\ todo[x] # <<>>
                   /\ content[Head(todo[x])] \in Library' \/ Head(todo[x]) \in refused'
        <5>1. \/ content[Head(todo[x])] \in Library
              \/ Head(todo[x]) \in refused
          BY <2>1, <4>2 DEF PageOK
        <5>2. todo[x] # <<>>
          BY <2>1, <4>2 DEF PageOK
        <5> QED
          BY <5>1, <5>2
      <4> QED
        BY <3>1, <4>1, <4>2
    <3>3. pending'[x] = pending[x]
      OBVIOUS
    <3>4. /\ \A u \in ToSet(pending'[x]) : sessionOf[u] = x
          /\ ToSet(todo'[x]) \subseteq ToSet(pending'[x])
          /\ IsInjective(pending'[x]) /\ IsInjective(todo'[x])
      BY <2>1, <3>1, <3>3 DEF PageOK
    <3> QED
      BY <3>2, <3>4 DEF PageOK
  <2> QED
    BY <2>2, <2>3
<1>10. ASSUME NEW u \in Upload PROVE UnsentOK(u)' /\ PendingOK(u)' /\ FileOK(u)'
  <2>1. UnsentOK(u) /\ PendingOK(u) /\ FileOK(u)
    BY DEF SessionInv
  <2>2. IsPending(u)' = IsPending(u)
    BY DEF IsPending
  <2>3. UnsentOK(u)'
    BY <1>4, <2>1, <2>2 DEF UnsentOK, h
  <2>4. CASE sessionOf[u] # s
    <3>1. /\ mode'[sessionOf[u]] = mode[sessionOf[u]]
          /\ todo'[sessionOf[u]] = todo[sessionOf[u]]
          /\ created'[sessionOf[u]] = created[sessionOf[u]]
      BY <1>1, <1>7, <2>4 DEF SessionTypeOK
    <3>2. (u \in rows' <=> u \in rows) /\ (u \in files' <=> u \in files)
      BY <1>3, <2>4 DEF h
    <3> QED
      BY <2>1, <2>2, <2>3, <3>1, <3>2 DEF PendingOK, FileOK, Saves, IsTodo
  <2>5. CASE u = h
    <3>1. Saves(s)' /\ mode'[s] = "saving" /\ ~IsTodo(u)'
      BY <1>2, <1>3, <1>7, <2>5 DEF Saves, IsTodo
    <3>2. u \in rows' \/ (u \notin files' /\ (content[u] \in Library \/ u \in refused))
      BY <2>5 DEF h
    <3>3. u \in files' \/ content[u] \in Library' \/ u \in refused'
      BY <1>5, <2>5, <3>2 DEF h
    <3>4. created'[s] = 0 => u \notin rows'
      BY <1>4, <1>8, <2>5
    <3>5. PendingOK(u)'
      BY <1>3, <2>5, <3>1, <3>3, <3>4 DEF PendingOK, Saves
    <3>6. FileOK(u)'
      BY <1>3, <2>2, <2>5, <3>2 DEF FileOK
    <3> QED
      BY <2>3, <3>5, <3>6
  <2>6. CASE sessionOf[u] = s /\ u # h
    <3>1. (u \in rows' <=> u \in rows) /\ (u \in files' <=> u \in files)
      BY <2>6 DEF h
    <3>2. IsTodo(u)' = IsTodo(u)
      BY <1>2, <1>7, <2>6 DEF IsTodo
    <3>3. mode'[s] = "saving" /\ Saves(s)'
      BY <1>7 DEF Saves
    <3>4. created'[s] = 0 => created[s] = 0
      BY <1>1, <1>8a DEF SessionTypeOK
    <3>5. PendingOK(u)'
      BY <2>1, <2>2, <2>6, <3>1, <3>2, <3>3, <3>4 DEF PendingOK, Saves
    <3>6. FileOK(u)'
      BY <2>1, <2>2, <2>6, <3>1, <3>2, <3>3 DEF FileOK, Saves
    <3> QED
      BY <2>3, <3>5, <3>6
  <2> QED
    BY <2>4, <2>5, <2>6
<1>11. (rows \cap Upload \subseteq files \cup refused)'
  <2>1. CASE rows' = rows /\ files' = files \ {h}
    BY <1>4, <2>1 DEF SessionInv
  <2>2. CASE rows' = rows \cup {h} /\ files' = files
    BY <1>2, <1>3, <1>4, <1>5, <2>2 DEF SessionInv
  <2> QED
    BY <2>1, <2>2 DEF h
<1> QED
  BY <1>6, <1>9, <1>10, <1>11 DEF SessionInv

LEMMA SaveRejectedStep ==
    ASSUME SessionInv, NEW s \in Session, SaveRejected(s)
    PROVE  SessionInv'
<1>1. /\ mode[s] = "saving" /\ todo[s] # <<>>
      /\ \/ content[Head(todo[s])] \in Library /\ refused' = refused
         \/ refused' = refused \cup {Head(todo[s])}
      /\ mode' = [mode EXCEPT ![s] = "discarding"]
      /\ rows' = rows /\ files' = files
      /\ UNCHANGED <<entry, pending, seen, duplicates, todo, created>>
  BY DEF SaveRejected, Rejected, storeVars
<1>2. SessionTypeOK /\ SessionTypeOK' /\ refused \subseteq refused'
  <2>1. todo[s] \in Seq(Upload) /\ Head(todo[s]) \in Upload
    BY <1>1, TailFacts DEF SessionInv, SessionTypeOK
  <2> QED
    BY <1>1, <2>1 DEF SessionInv, SessionTypeOK
<1>3. \A x \in Session : mode'[x] = IF x = s THEN "discarding" ELSE mode[x]
  BY <1>1, <1>2 DEF SessionTypeOK
<1>4. Library' = Library
  BY <1>1 DEF Library
<1>5. ASSUME NEW x \in Session PROVE PageOK(x)'
  <2>1. PageOK(x)
    BY DEF SessionInv
  <2> QED
    BY <1>1, <1>2, <1>3, <1>4, <2>1 DEF PageOK
<1>6. ASSUME NEW u \in Upload PROVE UnsentOK(u)' /\ PendingOK(u)' /\ FileOK(u)'
  <2>1. UnsentOK(u) /\ PendingOK(u) /\ FileOK(u)
    BY DEF SessionInv
  <2>2. IsPending(u)' = IsPending(u) /\ IsTodo(u)' = IsTodo(u)
    BY <1>1 DEF IsPending, IsTodo
  <2>3. /\ Saves(sessionOf[u])' = Saves(sessionOf[u])
        /\ mode'[sessionOf[u]] = "open" <=> mode[sessionOf[u]] = "open"
        /\ mode'[sessionOf[u]] = "saved" <=> mode[sessionOf[u]] = "saved"
        /\ mode'[sessionOf[u]] = "closed" <=> mode[sessionOf[u]] = "closed"
    BY <1>1, <1>3 DEF Saves
  <2> QED
    BY <1>1, <1>2, <1>4, <2>1, <2>2, <2>3 DEF UnsentOK, PendingOK, FileOK
<1>7. (rows \cap Upload \subseteq files \cup refused)'
  BY <1>1, <1>2 DEF SessionInv
<1> QED
  BY <1>2, <1>5, <1>6, <1>7 DEF SessionInv

LEMMA FinishSaveStep ==
    ASSUME SessionInv, NEW s \in Session, FinishSave(s)
    PROVE  SessionInv'
<1>1. /\ mode[s] = "saving" /\ todo[s] = <<>>
      /\ entry' = [u \in Upload |-> IF u \in Completed(s) THEN "consumed"
                                                         ELSE entry[u]]
      /\ mode' = [mode EXCEPT ![s] = NextPage(s)]
      /\ rows' = rows /\ files' = files
      /\ UNCHANGED <<pending, seen, duplicates, todo, created, refused>>
  BY DEF FinishSave, storeVars
<1>2. NextPage(s) \in {"saved", "open"}
  BY DEF NextPage
<1>3. SessionTypeOK
  BY DEF SessionInv
<1>4. SessionTypeOK'
  BY <1>1, <1>2, <1>3 DEF SessionTypeOK
<1>5. \A x \in Session : mode'[x] = IF x = s THEN NextPage(s) ELSE mode[x]
  BY <1>1, <1>3 DEF SessionTypeOK
<1>6. Library' = Library
  BY <1>1 DEF Library
<1>7. ASSUME NEW x \in Session PROVE PageOK(x)'
  <2>1. PageOK(x)
    BY DEF SessionInv
  <2> QED
    BY <1>1, <1>2, <1>5, <1>6, <2>1 DEF PageOK
<1>8. ASSUME NEW u \in Upload PROVE UnsentOK(u)' /\ PendingOK(u)' /\ FileOK(u)'
  <2>1. UnsentOK(u) /\ PendingOK(u) /\ FileOK(u)
    BY DEF SessionInv
  <2>2. IsPending(u)' = IsPending(u) /\ IsTodo(u)' = IsTodo(u)
    BY <1>1 DEF IsPending, IsTodo
  <2>3. entry'[u] \in {"absent", "uploading"} => entry'[u] = entry[u]
    BY <1>1
  <2>4. UnsentOK(u)'
    BY <1>1, <2>1, <2>2, <2>3 DEF UnsentOK
  <2>5. CASE sessionOf[u] = s
    <3>1. mode'[s] = NextPage(s) /\ Saves(s)
      BY <1>1, <1>5 DEF Saves
    <3>2. mode'[s] = "open" => created[s] = 0
      BY <1>3, <3>1 DEF NextPage, SessionTypeOK
    <3>3. PendingOK(u)'
      BY <1>1, <1>2, <1>6, <2>1, <2>2, <2>5, <3>1, <3>2 DEF PendingOK, Saves
    <3>4. FileOK(u)'
      BY <1>1, <1>2, <2>1, <2>2, <2>5, <3>1 DEF FileOK, Saves
    <3> QED
      BY <2>4, <3>3, <3>4
  <2>6. CASE sessionOf[u] # s
    <3>1. mode'[sessionOf[u]] = mode[sessionOf[u]]
      BY <1>5, <2>6
    <3> QED
      BY <1>1, <1>6, <2>1, <2>2, <2>4, <3>1 DEF PendingOK, FileOK, Saves
  <2> QED
    BY <2>5, <2>6
<1>9. (rows \cap Upload \subseteq files \cup refused)'
  BY <1>1 DEF SessionInv
<1> QED
  BY <1>4, <1>7, <1>8, <1>9 DEF SessionInv

-----------------------------------------------------------------------------
(* All steps of pages *)

Safe == StoreTypeOK' /\ UniqueContent'

LEMMA UploadStepInv ==
    ASSUME SessionInv, StoreTypeOK, UniqueContent,
           NEW v \in Upload, UploadStep(v)
    PROVE  SessionInv' /\ Safe /\ Elsewhere(Listed)
<1>0. v \in Item /\ v \notin Listed /\ sessionOf[v] \in Session
  OBVIOUS
<1>1. SessionTypeOK
  BY DEF SessionInv
<1>2. CASE Select(v)
  <2>1. SessionTypeOK'
    BY <1>1, <1>2 DEF Select, SessionTypeOK
  <2> QED
    BY <1>2, <2>1, EntryStep, SameStoreFacts DEF Select, Safe
<1>3. CASE Cancel(v)
  <2>1. SessionTypeOK'
    BY <1>1, <1>3 DEF Cancel, SessionTypeOK
  <2> QED
    BY <1>3, <2>1, EntryStep, SameStoreFacts DEF Cancel, Safe
<1>4. CASE SkipDuplicate(v)
  <2>1. SessionTypeOK'
    <3>1. duplicates' \in [Session -> SUBSET Upload]
      BY <1>1, <1>4 DEF SkipDuplicate, SessionTypeOK
    <3> QED
      BY <1>1, <1>4, <3>1 DEF SkipDuplicate, SessionTypeOK
  <2> QED
    BY <1>4, <2>1, EntryStep, SameStoreFacts DEF SkipDuplicate, Safe
<1>5. CASE KeepUpload(v)
  <2>1. SessionInv'
    BY <1>5, KeepUploadStep
  <2>2. rows' = rows /\ files' = files \cup {v}
    BY <1>5 DEF KeepUpload, CopyFile
  <2>3. Safe /\ Library' = Library
    BY <1>0, <2>2, FilesFacts DEF Safe
  <2> QED
    BY <1>0, <2>1, <2>2, <2>3 DEF Elsewhere
<1>6. CASE KeepUploadRaises(v)
  <2>1. /\ rows' = rows
        /\ files' = files \/ files' = files \cup {v}
        /\ mode[sessionOf[v]] = "open"
        /\ mode' = [mode EXCEPT ![sessionOf[v]] = "closed"]
        /\ UNCHANGED <<entry, pending, seen, duplicates, todo, created, refused>>
    BY <1>6 DEF KeepUploadRaises, CopyFileFails
  <2>2. SessionInv'
    BY <1>0, <2>1, LeaveStep DEF Entries
  <2>3. Safe /\ Library' = Library
    BY <1>0, <2>1, FilesFacts DEF Safe
  <2> QED
    BY <1>0, <2>1, <2>2, <2>3 DEF Elsewhere
<1> QED
  BY <1>2, <1>3, <1>4, <1>5, <1>6 DEF UploadStep

LEMMA SessionStepInv ==
    ASSUME SessionInv, StoreTypeOK, UniqueContent,
           NEW s \in Session, SessionStep(s)
    PROVE  SessionInv' /\ Safe /\ Elsewhere(Listed)
<1>1. SessionTypeOK
  BY DEF SessionInv
<1>2. CASE SaveNothing(s)
  <2>1. SessionInv'
    BY <1>2, LeaveStep DEF SaveNothing, storeVars
  <2> QED
    BY <1>2, <2>1, SameStoreFacts DEF SaveNothing, Safe
<1>3. CASE StartSave(s)
  BY <1>3, StartSaveStep, SameStoreFacts DEF StartSave, Safe
<1>4. CASE SaveRejected(s)
  BY <1>4, SaveRejectedStep, SameStoreFacts DEF SaveRejected, Safe
<1>5. CASE FinishSave(s)
  BY <1>5, FinishSaveStep, SameStoreFacts DEF FinishSave, Safe
<1>6. CASE Close(s)
  <2>1. SessionInv'
    BY <1>6, LeaveStep DEF Close, storeVars
  <2> QED
    BY <1>6, <2>1, SameStoreFacts DEF Close, Safe
<1>7. CASE SaveNext(s)
  <2>1. /\ mode[s] = "saving" /\ todo[s] # <<>> /\ CreateRow(Head(todo[s]))
        /\ todo' = [todo EXCEPT ![s] = Tail(@)]
        /\ created' = [created EXCEPT ![s] = @ + 1]
        /\ UNCHANGED <<files, entry, pending, seen, duplicates, mode, refused>>
    BY <1>7 DEF SaveNext
  <2>2. mode' = [mode EXCEPT ![s] = "saving"]
    BY <1>1, <2>1 DEF SessionTypeOK
  <2>3. todo[s] \in Seq(Upload) /\ Head(todo[s]) \in Upload
    BY <1>1, <2>1, TailFacts DEF SessionTypeOK
  <2>4. /\ Safe /\ Library \subseteq Library'
        /\ rows' = rows \cup {Head(todo[s])}
    BY <2>1, <2>3, CreateRowFacts DEF Safe
  <2>5. content[Head(todo[s])] \notin Library
    BY <2>1 DEF CreateRow, Rejected
  <2>6. SessionInv'
    BY <2>1, <2>2, <2>4, <2>5, SaveHeadStep DEF Saves
  <2> QED
    BY <2>1, <2>3, <2>4, <2>6 DEF Elsewhere
<1>8. CASE SaveDiscard(s)
  <2>1. /\ mode[s] = "discarding"
        /\ files' = files \ {Head(todo[s])}
        /\ mode' = [mode EXCEPT ![s] = "saving"]
        /\ todo' = [todo EXCEPT ![s] = Tail(@)]
        /\ UNCHANGED <<rows, entry, pending, seen, duplicates, created, refused>>
    BY <1>8 DEF SaveDiscard, RemoveFile
  <2>2. /\ todo[s] # <<>>
        /\ content[Head(todo[s])] \in Library \/ Head(todo[s]) \in refused
    BY <2>1 DEF SessionInv, PageOK
  <2>3. todo[s] \in Seq(Upload) /\ Head(todo[s]) \in Upload
    BY <1>1, <2>2, TailFacts DEF SessionTypeOK
  <2>4. Safe /\ Library' = Library
    BY <2>1, <2>3, FilesFacts DEF Safe
  <2>5. SessionInv'
    BY <2>1, <2>2, <2>4, SaveHeadStep DEF Saves
  <2> QED
    BY <2>1, <2>3, <2>4, <2>5 DEF Elsewhere
<1> QED
  BY <1>2, <1>3, <1>4, <1>5, <1>6, <1>7, <1>8 DEF SessionStep

-----------------------------------------------------------------------------
(* Steps of a run *)

LEMMA CurrentFacts ==
    ASSUME TaskInv, NEW t \in Task, Remains(t)
    PROVE  /\ Current(t) \in Listed
           /\ at[t] \in 1..Len(listing[t])
           /\ Current(t) \notin rows
           /\ verdict[Current(t)] = "todo"
           /\ \A x \in Task : \A n \in 1..Len(listing[x]) :
                 listing[x][n] = Current(t) => x = t /\ n = at[t]
<1>1. /\ at[t] \in Nat \ {0} /\ listing[t] \in Seq(Listed)
      /\ RunOK(t)
  BY DEF TaskInv, TaskTypeOK
<1>2. at[t] \in 1..Len(listing[t])
  BY <1>1 DEF Remains
<1> QED
  BY <1>1, <1>2 DEF RunOK, Current

\* The run has dealt with its file: it has a row and a file, or neither, or the
\* copy failed.
LEMMA JudgeStep ==
    ASSUME TaskInv, NEW t \in Task, Remains(t),
           step[t] \in Active,
           NEW v \in {"created", "duplicate", "refused", "failed"}, Judge(t, v),
           UNCHANGED known,
           \A i \in Listed \ {Current(t)} :
              (i \in rows' <=> i \in rows) /\ (i \in files' <=> i \in files),
           Current(t) \in files' => Current(t) \in rows' \/ v = "failed",
           Current(t) \in rows' => Current(t) \in files'
    PROVE  TaskInv'
<1> DEFINE c == Current(t)
<1>1. /\ verdict' = [verdict EXCEPT ![c] = v]
      /\ at' = [at EXCEPT ![t] = @ + 1]
      /\ step' = [step EXCEPT ![t] = "examine"]
  BY DEF Judge
<1>2. /\ c \in Listed /\ verdict[c] = "todo"
      /\ \A x \in Task : \A n \in 1..Len(listing[x]) :
            listing[x][n] = c => x = t /\ n = at[t]
  BY CurrentFacts
<1>3. TaskTypeOK /\ at[t] \in Nat \ {0}
  BY DEF TaskInv, TaskTypeOK
<1> HIDE DEF c
<1>4. TaskTypeOK'
  <2>1. at' \in [Task -> Nat \ {0}]
    <3>1. at \in [Task -> Nat \ {0}] /\ at[t] + 1 \in Nat \ {0}
      BY <1>3 DEF TaskTypeOK
    <3> QED
      BY <1>1, <3>1
  <2> QED
    BY <1>1, <1>3, <2>1 DEF TaskTypeOK
<1>5. \A x \in Task : x # t => at'[x] = at[x] /\ step'[x] = step[x]
  BY <1>1, <1>3 DEF TaskTypeOK
<1>6. at'[t] = at[t] + 1 /\ step'[t] = "examine"
  BY <1>1, <1>3 DEF TaskTypeOK
<1>7. verdict'[c] = v /\ \A i \in Listed \ {c} : verdict'[i] = verdict[i]
  BY <1>1, <1>2, <1>3 DEF TaskTypeOK
<1>8. ASSUME NEW x \in Task PROVE RunOK(x)'
  <2>1. RunOK(x) /\ listing[x] \in Seq(Listed) /\ at[x] \in Nat \ {0}
    BY DEF TaskInv, TaskTypeOK
  <2>2. ASSUME NEW n \in 1..Len(listing[x]), n >= at'[x]
        PROVE  listing[x][n] \notin rows' /\ verdict'[listing[x][n]] = "todo"
    <3>1. n >= at[x] /\ (x = t => n # at[t])
      BY <1>3, <1>5, <1>6, <2>1, <2>2
    <3>2. listing[x][n] \in Listed \ {c}
      BY <1>2, <2>1, <3>1
    <3> QED
      BY <1>7, <2>1, <3>1, <3>2 DEF RunOK, c
  <2>3. CASE x = t
    BY <1>6, <2>2, <2>3 DEF RunOK
  <2>4. CASE x # t
    <3>1. Remains(x)' = Remains(x) /\ Current(x)' = Current(x)
      BY <1>5, <2>4 DEF Remains, Current
    <3>2. Remains(x) => Current(x) \in Listed \ {c}
      BY <1>2, <2>4, CurrentFacts DEF Current, c
    <3>3. step'[x] = step[x]
      BY <1>5, <2>4
    <3>4. Remains(x) => (Current(x) \in files' <=> Current(x) \in files)
      BY <3>2 DEF c
    <3> QED
      BY <2>1, <2>2, <3>1, <3>3, <3>4 DEF RunOK
  <2> QED
    BY <2>3, <2>4
<1>9. ASSUME NEW i \in (files' \ rows') \cap Listed
      PROVE  InFlight(i)' \/ Abandoned(i)'
  <2>0. i \notin Upload
    OBVIOUS
  <2>1. CASE i = c
    BY <1>7, <2>1 DEF Abandoned, c
  <2>2. CASE i # c
    <3>1. InFlight(i) \/ Abandoned(i)
      BY <2>2 DEF TaskInv, c
    <3>2. CASE verdict[i] = "failed"
      BY <1>7, <2>2, <3>2 DEF Abandoned
    <3>3. ASSUME NEW x \in Task, Remains(x), i = Current(x),
                 step[x] \in {"create", "aborted"} \cup Removing
          PROVE  InFlight(i)' \/ Abandoned(i)'
      <4>1. x # t
        BY <2>2, <3>3 DEF c
      <4>2. Remains(x)' /\ Current(x)' = Current(x) /\ step'[x] = step[x]
        BY <1>5, <3>3, <4>1 DEF Remains, Current
      <4> QED
        BY <3>3, <4>2 DEF InFlight, Abandoned
    <3> QED
      BY <2>0, <3>1, <3>2, <3>3 DEF InFlight, Abandoned
  <2> QED
    BY <2>1, <2>2
<1>10. rows' \cap Listed \subseteq files'
  BY DEF TaskInv
<1> QED
  BY <1>4, <1>8, <1>9, <1>10 DEF TaskInv

\* The run goes on with the same file, is finished, or ends where it is.
LEMMA MoveStep ==
    ASSUME TaskInv, NEW t \in Task,
           step[t] \in Active,
           NEW x \in Handling \cup {"done", "aborted"},
           step' = [step EXCEPT ![t] = x],
           known' \in [Task -> SUBSET Hash],
           UNCHANGED <<rows, at, verdict>>,
           x \in Handling => Remains(t),
           step[t] \in {"create"} \cup Removing => x \in Removing \cup {"aborted"},
           IF x = "create" THEN files' = files \cup {Current(t)}
                           ELSE files' = files
    PROVE  TaskInv'
<1>1. TaskTypeOK /\ TaskTypeOK'
  BY DEF TaskInv, TaskTypeOK
<1>2. \A y \in Task : step'[y] = IF y = t THEN x ELSE step[y]
  BY <1>1 DEF TaskTypeOK
<1>3. \A y \in Task : Remains(y)' = Remains(y) /\ Current(y)' = Current(y)
  BY DEF Remains, Current
<1>4. ASSUME NEW y \in Task PROVE RunOK(y)'
  <2>1. RunOK(y)
    BY DEF TaskInv
  <2>2. CASE y = t
    BY <1>2, <1>3, <2>1, <2>2 DEF RunOK
  <2>3. CASE y # t
    BY <1>2, <1>3, <2>1, <2>3 DEF RunOK
  <2> QED
    BY <2>2, <2>3
<1>5. ASSUME NEW i \in (files' \ rows') \cap Listed
      PROVE  InFlight(i)' \/ Abandoned(i)'
  <2>0. i \notin Upload
    OBVIOUS
  <2>1. CASE x = "create" /\ i = Current(t)
    BY <1>2, <1>3, <2>1 DEF InFlight
  <2>2. CASE i \in files
    <3>1. InFlight(i) \/ Abandoned(i)
      BY <2>2 DEF TaskInv
    <3>2. CASE verdict[i] = "failed"
      BY <3>2 DEF Abandoned
    <3>3. ASSUME NEW y \in Task, Remains(y), i = Current(y),
                 step[y] \in {"create", "aborted"} \cup Removing
          PROVE  InFlight(i)' \/ Abandoned(i)'
      BY <1>2, <1>3, <3>3 DEF InFlight, Abandoned
    <3> QED
      BY <2>0, <3>1, <3>2, <3>3 DEF InFlight, Abandoned
  <2> QED
    BY <2>1, <2>2
<1>6. (rows \cap Listed \subseteq files)'
  BY DEF TaskInv
<1> QED
  BY <1>1, <1>4, <1>5, <1>6 DEF TaskInv

\* A file that is not copied yet is not in the directory.
LEMMA NotCopied ==
    ASSUME TaskInv, NEW t \in Task, Remains(t), step[t] \in {"examine", "copy"}
    PROVE  Current(t) \notin files
<1>1. /\ Current(t) \in Listed /\ Current(t) \notin Upload
      /\ Current(t) \notin rows /\ verdict[Current(t)] = "todo"
  BY CurrentFacts
<1>2. ASSUME NEW x \in Task, Remains(x), Current(t) = Current(x) PROVE x = t
  <2>1. at[x] \in 1..Len(listing[x])
    BY <1>2, CurrentFacts
  <2> QED
    BY <1>2, <2>1, CurrentFacts DEF Current
<1> QED
  BY <1>1, <1>2 DEF TaskInv, InFlight, Abandoned

LEMMA TaskStepInv ==
    ASSUME TaskInv, StoreTypeOK, UniqueContent, NEW t \in Task, TaskStep(t)
    PROVE  TaskInv' /\ Safe /\ Elsewhere(Upload)
<1>1. TaskTypeOK /\ RunOK(t)
  BY DEF TaskInv
<1>2. Remains(t) => /\ Current(t) \in Listed /\ Current(t) \in Item
                    /\ Current(t) \notin Upload /\ Current(t) \notin rows
  BY CurrentFacts
<1>3. CASE ReadFails(t)
  <2>1. /\ step[t] = "examine" /\ Remains(t) /\ Judge(t, "failed")
        /\ UNCHANGED <<storeVars, known>>
    BY <1>3 DEF ReadFails
  <2> QED
    BY <1>2, <2>1, JudgeStep, SameStoreFacts DEF Safe
<1>4. CASE Examine(t)
  <2>1. step[t] = "examine" /\ Remains(t) /\ UNCHANGED storeVars
    BY <1>4 DEF Examine
  <2>2. Current(t) \notin files
    BY <2>1, NotCopied
  <2>3. Safe /\ Elsewhere(Upload) /\ rows' = rows /\ files' = files
    BY <2>1, SameStoreFacts DEF Safe
  <2>4. CASE Judge(t, "duplicate") /\ UNCHANGED known
    BY <1>2, <2>1, <2>2, <2>3, <2>4, JudgeStep
  <2>5. CASE /\ known' = [known EXCEPT ![t] = @ \cup {content[Current(t)]}]
             /\ step' = [step EXCEPT ![t] = "copy"]
             /\ UNCHANGED <<at, verdict>>
    <3>1. known' \in [Task -> SUBSET Hash]
      BY <1>1, <1>2, <2>1, <2>5 DEF TaskTypeOK
    <3> QED
      BY <2>1, <2>3, <2>5, <3>1, MoveStep
  <2> QED
    BY <1>4, <2>4, <2>5 DEF Examine
<1>5. CASE Copy(t)
  <2>1. /\ step[t] = "copy" /\ files' = files \cup {Current(t)}
        /\ step' = [step EXCEPT ![t] = "create"]
        /\ UNCHANGED <<rows, at, known, verdict>>
    BY <1>5 DEF Copy, CopyFile
  <2>2. Remains(t) /\ known' \in [Task -> SUBSET Hash]
    BY <1>1, <2>1 DEF RunOK, TaskTypeOK
  <2>3. TaskInv'
    BY <2>1, <2>2, MoveStep
  <2>4. Safe /\ Library' = Library
    BY <1>2, <2>1, <2>2, FilesFacts DEF Safe
  <2> QED
    BY <1>2, <2>1, <2>2, <2>3, <2>4 DEF Elsewhere
<1>6. CASE CopyFails(t)
  <2>1. /\ step[t] = "copy" /\ Judge(t, "failed") /\ UNCHANGED <<rows, known>>
        /\ files' = files \/ files' = files \cup {Current(t)}
    BY <1>6 DEF CopyFails, CopyFileFails, FailedVerdict
  <2>2. Remains(t)
    BY <1>1, <2>1 DEF RunOK
  <2>3. TaskInv'
    BY <1>2, <2>1, <2>2, JudgeStep
  <2>4. Safe /\ Library' = Library
    BY <1>2, <2>1, <2>2, FilesFacts DEF Safe
  <2> QED
    BY <1>2, <2>1, <2>2, <2>3, <2>4 DEF Elsewhere
<1>7. CASE Create(t)
  <2>1. /\ step[t] = "create" /\ CreateRow(Current(t)) /\ Judge(t, "created")
        /\ UNCHANGED <<files, known>>
    BY <1>7 DEF Create
  <2>2. Remains(t) /\ Current(t) \in files
    BY <1>1, <2>1 DEF RunOK
  <2>3. Safe /\ Library \subseteq Library' /\ rows' = rows \cup {Current(t)}
    BY <1>2, <2>1, <2>2, CreateRowFacts DEF Safe
  <2>4. TaskInv'
    BY <2>1, <2>2, <2>3, JudgeStep
  <2> QED
    BY <1>2, <2>1, <2>2, <2>3, <2>4 DEF Elsewhere
<1>8. CASE CreateRejected(t)
  <2>1. /\ step[t] = "create"
        /\ \E x \in Removing : step' = [step EXCEPT ![t] = x]
        /\ UNCHANGED <<storeVars, at, known, verdict>>
    BY <1>8 DEF CreateRejected, Removing
  <2>2. Remains(t) /\ known' \in [Task -> SUBSET Hash]
    BY <1>1, <2>1 DEF RunOK, TaskTypeOK
  <2> QED
    BY <2>1, <2>2, MoveStep, SameStoreFacts DEF Safe
<1>9. CASE RemoveCopy(t)
  <2>1. /\ step[t] \in Removing /\ files' = files \ {Current(t)}
        /\ Judge(t, RejectedVerdict(t)) /\ UNCHANGED <<rows, known>>
        /\ RejectedVerdict(t) \in {"duplicate", "refused"}
    BY <1>9 DEF RemoveCopy, RemoveFile, RejectedVerdict, Removing
  <2>2. Remains(t)
    BY <1>1, <2>1 DEF RunOK
  <2>3. TaskInv'
    BY <1>2, <2>1, <2>2, JudgeStep
  <2>4. Safe /\ Library' = Library
    BY <1>2, <2>1, <2>2, FilesFacts DEF Safe
  <2> QED
    BY <1>2, <2>1, <2>2, <2>3, <2>4 DEF Elsewhere
<1>10. CASE Finish(t)
  <2>1. /\ step[t] = "examine" /\ step' = [step EXCEPT ![t] = "done"]
        /\ UNCHANGED <<storeVars, at, known, verdict>>
    BY <1>10 DEF Finish
  <2>2. known' \in [Task -> SUBSET Hash]
    BY <1>1, <2>1 DEF TaskTypeOK
  <2> QED
    BY <2>1, <2>2, MoveStep, SameStoreFacts DEF Safe
<1>11. CASE Abort(t)
  <2>1. /\ step[t] \in Active
        /\ step' = [step EXCEPT ![t] = "aborted"]
        /\ UNCHANGED <<storeVars, at, known, verdict>>
    BY <1>11 DEF Abort
  <2>2. known' \in [Task -> SUBSET Hash]
    BY <1>1, <2>1 DEF TaskTypeOK
  <2> QED
    BY <2>1, <2>2, MoveStep, SameStoreFacts DEF Safe
<1> QED
  BY <1>3, <1>4, <1>5, <1>6, <1>7, <1>8, <1>9, <1>10, <1>11 DEF TaskStep

-----------------------------------------------------------------------------
(* The theorems *)

LEMMA InitIInv == Init => IInv
<1> SUFFICES ASSUME Init PROVE IInv
  OBVIOUS
<1> USE DEF Init, StoreInit, SessionInit, TaskInit
<1>1. StoreTypeOK /\ UniqueContent
  BY DEF StoreTypeOK, UniqueContent
<1>2. \A s \in Session : ToSet(pending[s]) = {} /\ ToSet(todo[s]) = {}
  BY DEF ToSet
<1>3. SessionInv
  <2>1. SessionTypeOK
    BY DEF SessionTypeOK
  <2>2. \A s \in Session : PageOK(s)
    BY <1>2 DEF PageOK, IsInjective
  <2>3. \A u \in Upload : UnsentOK(u) /\ PendingOK(u) /\ FileOK(u)
    BY <1>2 DEF UnsentOK, PendingOK, FileOK, IsPending, IsTodo
  <2> QED
    BY <2>1, <2>2, <2>3 DEF SessionInv
<1>4. TaskInv
  <2>1. TaskTypeOK
    BY DEF TaskTypeOK
  <2>2. ASSUME NEW t \in Task PROVE RunOK(t)
    <3>1. \A n \in 1..Len(listing[t]) : listing[t][n] \in Listed
      OBVIOUS
    <3> QED
      BY <3>1 DEF RunOK
  <2> QED
    BY <2>1, <2>2 DEF TaskInv
<1> QED
  BY <1>1, <1>3, <1>4 DEF IInv

LEMMA NextIInv == IInv /\ [Next]_vars => IInv'
<1> SUFFICES ASSUME IInv, [Next]_vars PROVE IInv'
  OBVIOUS
<1>1. StoreTypeOK /\ UniqueContent /\ SessionInv /\ TaskInv
  BY DEF IInv
<1>2. ASSUME NEW u \in Upload, UploadStep(u), UNCHANGED taskVars PROVE IInv'
  BY <1>1, <1>2, UploadStepInv, TaskFrame DEF IInv, Safe
<1>3. ASSUME NEW s \in Session, SessionStep(s), UNCHANGED taskVars PROVE IInv'
  BY <1>1, <1>3, SessionStepInv, TaskFrame DEF IInv, Safe
<1>4. ASSUME NEW t \in Task, TaskStep(t), UNCHANGED sessionVars PROVE IInv'
  BY <1>1, <1>4, TaskStepInv, SessionFrame DEF IInv, Safe
<1>5. CASE UNCHANGED vars
  <2>1. UNCHANGED storeVars /\ UNCHANGED sessionVars /\ UNCHANGED taskVars
    BY <1>5 DEF vars
  <2> QED
    BY <1>1, <2>1, SameStoreFacts, SessionFrame, TaskFrame DEF IInv
<1> QED
  BY <1>2, <1>3, <1>4, <1>5 DEF Next

THEOREM Invariance == Spec => []IInv
  BY InitIInv, NextIInv, PTL DEF Spec

\* Every variable keeps its type, for any number of pages, runs and files.
THEOREM TypeCorrect == Spec => []TypeOK
<1>1. IInv => TypeOK
  BY DEF IInv, SessionInv, TaskInv, TypeOK
<1> QED
  BY <1>1, Invariance, PTL

\* A content is in the library once, however uploads and imports race between
\* content_hash_exists? and create_video.
THEOREM UniqueContentAlways == Spec => []UniqueContent
<1>1. IInv => UniqueContent
  BY DEF IInv
<1> QED
  BY <1>1, Invariance, PTL

\* The file of a video exists as long as its row does: no rejected duplicate,
\* repeated save or other run removes it, but for an upload that was refused on
\* something else than its content and saved again.
THEOREM RowsHaveFilesAlways == Spec => []RowsHaveFiles
<1>1. IInv => RowsHaveFiles
  BY DEF IInv, StoreTypeOK, SessionInv, TaskInv, RowsHaveFiles
<1> QED
  BY <1>1, Invariance, PTL

\* Only pages that are abandoned, runs that are killed and copies that fail
\* leave files behind.
THEOREM NoStrayFilesAlways == Spec => []NoStrayFiles
<1>1. ASSUME IInv, NEW i \in files \ rows PROVE InFlight(i) \/ Abandoned(i)
  <2>1. StoreTypeOK /\ SessionInv /\ TaskInv
    BY <1>1 DEF IInv
  <2>2. CASE i \in Listed
    BY <1>1, <2>1, <2>2 DEF TaskInv
  <2>3. CASE i \in Upload
    <3>1. FileOK(i) /\ PageOK(sessionOf[i])
      BY <2>1, <2>3 DEF SessionInv
    <3>2. mode[sessionOf[i]] \in {"open", "saving", "discarding", "saved",
                                  "quit", "closed"}
      BY <2>1, <2>3 DEF SessionInv, SessionTypeOK
    <3>3. mode[sessionOf[i]] = "saved" => ~IsTodo(i)
      BY <3>1 DEF PageOK, IsTodo, ToSet
    <3>4. mode[sessionOf[i]] # "saved" \/ ~IsPending(i)
      BY <1>1, <3>1, <3>3 DEF FileOK
    <3> QED
      BY <1>1, <2>3, <3>1, <3>2, <3>4
         DEF FileOK, IsPending, InFlight, Abandoned
  <2> QED
    BY <1>1, <2>1, <2>2, <2>3 DEF StoreTypeOK
<1>2. IInv => NoStrayFiles
  BY <1>1 DEF NoStrayFiles
<1> QED
  BY <1>2, Invariance, PTL

-----------------------------------------------------------------------------
(***************************************************************************)
(* What an import counts and what a page shows as saved is so, for any     *)
(* number of pages, runs and files.  A hash is remembered before its file  *)
(* is copied: what a run calls a duplicate is explained by the library or  *)
(* by a file of the run that failed, in the copy or in the insert.         *)
(***************************************************************************)

Working(t) == step[t] \in Active

\* The content is in the library, or an earlier file of the run had it and failed.
Explained(t, h, n) ==
    \/ h \in Library
    \/ \E m \in 1..(n - 1) :
          /\ verdict[listing[t][m]] \in {"failed", "refused"}
          /\ content[listing[t][m]] = h

\* What file n of a run was counted as is so.
JudgedOK(t, n) ==
    LET i == listing[t][n]
    IN /\ verdict[i] = "created" <=> i \in rows
       /\ verdict[i] = "duplicate" =>
             i \notin files /\ Explained(t, content[i], n)

\* The hashes a run remembers are explained, but for the one it works on.
RunReport(t) ==
    /\ at[t] <= Len(listing[t]) + 1
    /\ \A n \in 1..(at[t] - 1) : JudgedOK(t, n)
    /\ \A h \in known[t] :
          Working(t) => \/ Explained(t, h, at[t])
                        \/ step[t] # "examine" /\ h = content[Current(t)]
    /\ step[t] = "removeDuplicate" => content[Current(t)] \in Library

\* The hashes a page remembers are those of uploads it keeps.
SeenOK(s) ==
    \A h \in seen[s] : \E v \in ToSet(pending[s]) : content[v] = h

\* The page had an upload of that content refused.
Refused(s, h) == \E w \in refused : sessionOf[w] = s /\ content[w] = h

EntryOK(u) ==
    /\ entry[u] = "done" =>
          content[u] \in Library \/ content[u] \in seen[sessionOf[u]]
    /\ entry[u] = "consumed" =>
          content[u] \in Library \/ Refused(sessionOf[u], content[u])

SavedInv ==
    /\ \A s \in Session : SeenOK(s)
    /\ \A u \in Upload : EntryOK(u)

ReportInv == IInv /\ SavedInv /\ \A t \in Task : RunReport(t)

-----------------------------------------------------------------------------
(* Pages *)

\* Nothing becomes done or consumed, and nothing is forgotten.
LEMMA SavedFrame ==
    ASSUME SavedInv, Library \subseteq Library', refused \subseteq refused',
           UNCHANGED <<seen, pending>>,
           \A u \in Upload :
              entry'[u] \in {"done", "consumed"} => entry'[u] = entry[u]
    PROVE  SavedInv'
<1>1. \A s \in Session : SeenOK(s)'
  BY DEF SavedInv, SeenOK
<1>2. ASSUME NEW u \in Upload PROVE EntryOK(u)'
  <2>1. EntryOK(u)
    BY DEF SavedInv
  <2> QED
    BY <2>1 DEF EntryOK, Refused
<1> QED
  BY <1>1, <1>2 DEF SavedInv

LEMMA UploadStepSaved ==
    ASSUME SessionInv, SavedInv, NEW v \in Upload, UploadStep(v),
           Library \subseteq Library'
    PROVE  SavedInv'
<1>0. SessionTypeOK /\ sessionOf[v] \in Session
  BY DEF SessionInv
<1>1. CASE Select(v) \/ Cancel(v)
  <2>1. /\ UNCHANGED <<seen, pending, refused>>
        /\ \E w \in {"uploading", "cancelled"} : entry' = [entry EXCEPT ![v] = w]
    BY <1>1 DEF Select, Cancel
  <2>2. \A u \in Upload :
           entry'[u] \in {"done", "consumed"} => entry'[u] = entry[u]
    BY <1>0, <2>1 DEF SessionTypeOK
  <2> QED
    BY <2>1, <2>2, SavedFrame
<1>2. CASE KeepUploadRaises(v)
  BY <1>2, SavedFrame DEF KeepUploadRaises
<1>3. CASE SkipDuplicate(v)
  <2>1. /\ KnownContent(v) /\ entry' = [entry EXCEPT ![v] = "done"]
        /\ UNCHANGED <<pending, seen, refused>>
    BY <1>3 DEF SkipDuplicate
  <2>2. \A s \in Session : SeenOK(s)'
    BY <2>1 DEF SavedInv, SeenOK
  <2>3. ASSUME NEW u \in Upload PROVE EntryOK(u)'
    <3>1. EntryOK(u)
      BY DEF SavedInv
    <3>2. entry'[u] = IF u = v THEN "done" ELSE entry[u]
      BY <1>0, <2>1 DEF SessionTypeOK
    <3> QED
      BY <2>1, <3>1, <3>2 DEF EntryOK, KnownContent, HashExists, Refused
  <2> QED
    BY <2>2, <2>3 DEF SavedInv
<1>4. CASE KeepUpload(v)
  <2> DEFINE p == sessionOf[v]
  <2>1. /\ entry' = [entry EXCEPT ![v] = "done"]
        /\ pending' = [pending EXCEPT ![p] = <<v>> \o @]
        /\ seen' = [seen EXCEPT ![p] = @ \cup {content[v]}]
        /\ refused' = refused
    BY <1>4 DEF KeepUpload, Remember
  <2>2. /\ pending[p] \in Seq(Upload)
        /\ pending'[p] = <<v>> \o pending[p]
        /\ seen'[p] = seen[p] \cup {content[v]}
        /\ \A s \in Session \ {p} : pending'[s] = pending[s] /\ seen'[s] = seen[s]
        /\ \A u \in Upload : entry'[u] = IF u = v THEN "done" ELSE entry[u]
    BY <1>0, <2>1 DEF SessionTypeOK
  <2>3. ToSet(pending'[p]) = ToSet(pending[p]) \cup {v}
    BY <2>2, ConsFacts
  <2> HIDE DEF p
  <2>4. p = sessionOf[v] /\ p \in Session
    BY <1>0 DEF p
  <2>5. ASSUME NEW s \in Session PROVE SeenOK(s)'
    <3>1. SeenOK(s)
      BY DEF SavedInv
    <3> QED
      BY <2>2, <2>3, <3>1 DEF SeenOK
  <2>6. ASSUME NEW u \in Upload PROVE EntryOK(u)'
    <3>1. EntryOK(u) /\ sessionOf[u] \in Session
      BY DEF SavedInv
    <3>2. seen[sessionOf[u]] \subseteq seen'[sessionOf[u]]
      BY <2>2, <3>1
    <3> QED
      BY <2>1, <2>2, <2>4, <3>1, <3>2 DEF EntryOK, Refused
  <2> QED
    BY <2>5, <2>6 DEF SavedInv
<1> QED
  BY <1>1, <1>2, <1>3, <1>4 DEF UploadStep

\* At the end of save, what is pending is in the library or was refused, and so
\* is what was skipped as a duplicate of it.
LEMMA SessionStepSaved ==
    ASSUME SessionInv, SavedInv, NEW s \in Session, SessionStep(s),
           Library \subseteq Library'
    PROVE  SavedInv'
<1>1. CASE SaveNothing(s) \/ StartSave(s) \/ SaveNext(s) \/ SaveRejected(s)
           \/ SaveDiscard(s) \/ Close(s)
  <2>1. UNCHANGED <<seen, pending, entry>> /\ refused \subseteq refused'
    BY <1>1 DEF SaveNothing, StartSave, SaveNext, SaveRejected, SaveDiscard, Close
  <2> QED
    BY <2>1, SavedFrame
<1>2. CASE FinishSave(s)
  <2>1. /\ mode[s] = "saving" /\ todo[s] = <<>>
        /\ entry' = [u \in Upload |-> IF u \in Completed(s) THEN "consumed"
                                                            ELSE entry[u]]
        /\ UNCHANGED <<pending, seen, refused>>
    BY <1>2 DEF FinishSave
  <2>2. ASSUME NEW v \in ToSet(pending[s]) 
        PROVE  content[v] \in Library \/ Refused(s, content[v])
    <3>1. PageOK(s) /\ pending[s] \in Seq(Upload)
      BY DEF SessionInv, SessionTypeOK
    <3>2. v \in Upload /\ sessionOf[v] = s
      BY <3>1 DEF PageOK, ToSet
    <3>3. PendingOK(v) /\ FileOK(v)
      BY <3>2 DEF SessionInv
    <3>4. IsPending(v) /\ ~IsTodo(v) /\ Saves(sessionOf[v])
      BY <2>1, <3>2 DEF IsPending, IsTodo, Saves, ToSet
    <3> QED
      BY <3>2, <3>3, <3>4 DEF PendingOK, FileOK, Library, Refused
  <2>3. \A h \in seen[s] : h \in Library \/ Refused(s, h)
    BY <2>2 DEF SavedInv, SeenOK
  <2>4. \A x \in Session : SeenOK(x)'
    BY <2>1 DEF SavedInv, SeenOK
  <2>5. ASSUME NEW u \in Upload PROVE EntryOK(u)'
    <3>1. EntryOK(u)
      BY DEF SavedInv
    <3>2. u \in Completed(s) =>
             /\ entry'[u] = "consumed"
             /\ content[u] \in Library \/ Refused(sessionOf[u], content[u])
      BY <2>1, <2>3, <3>1 DEF EntryOK, Completed, Entries
    <3>3. u \notin Completed(s) => entry'[u] = entry[u]
      BY <2>1
    <3> QED
      BY <2>1, <3>1, <3>2, <3>3 DEF EntryOK, Refused
  <2> QED
    BY <2>4, <2>5 DEF SavedInv
<1> QED
  BY <1>1, <1>2 DEF SessionStep

-----------------------------------------------------------------------------
(* Runs *)

\* A run that does not move, while its files and verdicts stay as they are.
LEMMA ReportFrame ==
    ASSUME TaskInv, NEW t \in Task, RunReport(t), Library \subseteq Library',
           at'[t] = at[t], step'[t] = step[t], known'[t] = known[t],
           \A n \in 1..Len(listing[t]) :
              LET i == listing[t][n]
              IN /\ verdict'[i] = verdict[i]
                 /\ i \in rows' <=> i \in rows
                 /\ i \in files' <=> i \in files
    PROVE  RunReport(t)'
<1>1. at[t] \in Nat \ {0} /\ at[t] <= Len(listing[t]) + 1
      /\ listing[t] \in Seq(Listed) /\ Len(listing[t]) \in Nat
  BY DEF TaskInv, TaskTypeOK, RunReport
<1>2. \A n \in 1..(at[t] - 1) : n \in 1..Len(listing[t])
  BY <1>1
<1>3. ASSUME NEW h, NEW n \in 1..at[t], Explained(t, h, n) PROVE Explained(t, h, n)'
  <2>1. \A m \in 1..(n - 1) : m \in 1..(at[t] - 1)
    BY <1>1
  <2> QED
    BY <1>2, <1>3, <2>1 DEF Explained
<1>4. ASSUME NEW n \in 1..(at[t] - 1) PROVE JudgedOK(t, n)'
  <2>1. JudgedOK(t, n) /\ n \in 1..Len(listing[t]) /\ n \in 1..at[t]
    BY <1>1, <1>2 DEF RunReport
  <2> QED
    BY <1>3, <2>1 DEF JudgedOK
<1>5. Current(t)' = Current(t) /\ Working(t)' = Working(t)
  BY DEF Current, Working
<1>6. at[t] \in 1..at[t]
  BY <1>1
<1>7. \A h \in known[t] : Explained(t, h, at[t]) => Explained(t, h, at[t])'
  BY <1>3, <1>6
<1>8. \A h \in known'[t] :
          Working(t)' => \/ Explained(t, h, at[t])'
                         \/ step'[t] # "examine" /\ h = content[Current(t)']
  BY <1>5, <1>7 DEF RunReport
<1>9. step'[t] = "removeDuplicate" => content[Current(t)'] \in Library'
  BY <1>5 DEF RunReport
<1> QED
  BY <1>1, <1>4, <1>8, <1>9 DEF RunReport

\* The other runs are not concerned by what a run does with its file.
LEMMA OtherRuns ==
    ASSUME TaskInv, NEW t \in Task, Remains(t), NEW x \in Task, x # t,
           RunReport(x), Library \subseteq Library',
           at'[x] = at[x], step'[x] = step[x], known'[x] = known[x],
           \A i \in Listed \ {Current(t)} :
              /\ verdict'[i] = verdict[i]
              /\ i \in rows' <=> i \in rows
              /\ i \in files' <=> i \in files
    PROVE  RunReport(x)'
<1>1. \A n \in 1..Len(listing[x]) : listing[x][n] \in Listed \ {Current(t)}
  <2>1. listing[x] \in Seq(Listed)
    OBVIOUS
  <2> QED
    BY <2>1, CurrentFacts
<1> QED
  BY <1>1, ReportFrame

\* The current file is counted: a file that failed or that is in the library
\* explains the hash the run remembers for it.
LEMMA JudgeReport ==
    ASSUME TaskInv, NEW t \in Task, Remains(t), RunReport(t), Working(t),
           NEW v \in {"created", "duplicate", "refused", "failed"}, Judge(t, v),
           UNCHANGED known, Library \subseteq Library',
           \A i \in Listed \ {Current(t)} :
              (i \in rows' <=> i \in rows) /\ (i \in files' <=> i \in files),
           v = "created" <=> Current(t) \in rows',
           v = "duplicate" =>
              /\ Current(t) \notin files'
              /\ \/ content[Current(t)] \in Library'
                 \/ step[t] = "examine" /\ content[Current(t)] \in known[t],
           \/ step[t] = "examine" \/ v \in {"failed", "refused"}
           \/ content[Current(t)] \in Library'
    PROVE  RunReport(t)'
<1> DEFINE c == Current(t)
<1>1. /\ verdict' = [verdict EXCEPT ![c] = v]
      /\ at' = [at EXCEPT ![t] = @ + 1]
      /\ step' = [step EXCEPT ![t] = "examine"]
  BY DEF Judge
<1>2. /\ c \in Listed /\ at[t] \in 1..Len(listing[t])
      /\ \A n \in 1..Len(listing[t]) : listing[t][n] = c => n = at[t]
      /\ listing[t][at[t]] = c
  BY CurrentFacts DEF Current
<1>3. TaskTypeOK /\ at[t] \in Nat \ {0} /\ listing[t] \in Seq(Listed)
      /\ Len(listing[t]) \in Nat
  BY DEF TaskInv, TaskTypeOK
<1> HIDE DEF c
<1>4. /\ at'[t] = at[t] + 1 /\ step'[t] = "examine" /\ known'[t] = known[t]
      /\ verdict'[c] = v /\ \A i \in Listed \ {c} : verdict'[i] = verdict[i]
  BY <1>1, <1>2, <1>3 DEF TaskTypeOK
<1>5. \A n \in 1..(at[t] - 1) :
          n \in 1..Len(listing[t]) /\ listing[t][n] \in Listed \ {c}
  BY <1>2, <1>3
<1>6. ASSUME NEW h, NEW n \in 1..at[t], Explained(t, h, n) PROVE Explained(t, h, n)'
  <2>1. \A m \in 1..(n - 1) : m \in 1..(at[t] - 1)
    BY <1>3
  <2> QED
    BY <1>4, <1>5, <1>6, <2>1 DEF Explained
<1>7. ASSUME NEW h, NEW n \in Nat, n = at[t],
             Explained(t, h, n)' \/ (v \in {"failed", "refused"} /\ h = content[c])
      PROVE  Explained(t, h, n + 1)'
  <2>1. \A m \in 1..(n - 1) : m \in 1..((n + 1) - 1)
    OBVIOUS
  <2>2. CASE Explained(t, h, n)'
    BY <2>1, <2>2 DEF Explained
  <2>3. CASE v \in {"failed", "refused"} /\ h = content[c]
    <3>1. n \in 1..((n + 1) - 1) /\ verdict'[listing[t][n]] \in {"failed", "refused"}
          /\ content[listing[t][n]] = h
      BY <1>2, <1>3, <1>4, <1>7, <2>3
    <3> QED
      BY <3>1 DEF Explained
  <2> QED
    BY <1>7, <2>2, <2>3
<1>8. ASSUME NEW n \in 1..at[t] PROVE JudgedOK(t, n)'
  <2>1. CASE n < at[t]
    <3>1. n \in 1..(at[t] - 1) /\ n \in 1..at[t]
      BY <1>3, <2>1
    <3>2. JudgedOK(t, n) /\ listing[t][n] \in Listed \ {c}
      BY <1>5, <3>1 DEF RunReport
    <3>3. verdict'[listing[t][n]] = verdict[listing[t][n]]
          /\ (listing[t][n] \in rows' <=> listing[t][n] \in rows)
          /\ (listing[t][n] \in files' <=> listing[t][n] \in files)
      BY <1>4, <3>2 DEF c
    <3> QED
      BY <1>6, <3>1, <3>2, <3>3 DEF JudgedOK
  <2>2. CASE n = at[t]
    <3>1. listing[t][n] = c /\ n \in Nat
      BY <1>2, <2>2
    <3>2. ASSUME NEW h, h = content[listing[t][n]], v = "duplicate"
          PROVE  Explained(t, h, n)'
      <4>1. CASE content[c] \in Library'
        BY <3>1, <3>2, <4>1 DEF Explained
      <4>2. CASE step[t] = "examine" /\ content[c] \in known[t]
        <5>1. Explained(t, h, n)
          BY <2>2, <3>1, <3>2, <4>2 DEF RunReport, Working
        <5> QED
          BY <1>6, <5>1
      <4> QED
        BY <3>2, <4>1, <4>2 DEF c
    <3>3. (v = "created" <=> c \in rows') /\ (v = "duplicate" => c \notin files')
      BY DEF c
    <3> QED
      BY <1>4, <3>1, <3>2, <3>3 DEF JudgedOK
  <2> QED
    BY <1>3, <2>1, <2>2
<1>9. ASSUME NEW h \in known[t], NEW n \in Nat, n = at[t]
      PROVE  Explained(t, h, n + 1)'
  <2>1. n \in 1..at[t]
    BY <1>3, <1>9
  <2>2. CASE Explained(t, h, n)
    BY <1>6, <1>7, <1>9, <2>1, <2>2
  <2>3. CASE step[t] # "examine" /\ h = content[c]
    <3>1. CASE v \in {"failed", "refused"}
      BY <1>7, <1>9, <2>3, <3>1
    <3>2. CASE content[c] \in Library'
      BY <2>3, <3>2 DEF Explained
    <3> QED
      BY <2>3, <3>1, <3>2 DEF c
  <2> QED
    BY <1>9, <2>2, <2>3 DEF RunReport, c
<1>10. \A h \in known'[t] : Explained(t, h, at[t])'
  <2> SUFFICES ASSUME NEW h \in known[t] PROVE Explained(t, h, at[t])'
    BY <1>4
  <2>1. PICK n \in Nat : n = at[t]
    BY <1>3
  <2>2. Explained(t, h, n + 1)' /\ at'[t] = n + 1
    BY <1>4, <1>9, <2>1
  <2> QED
    BY <2>2 DEF Explained
<1>11. (\A n \in 1..(at[t] - 1) : JudgedOK(t, n))'
  <2>1. at'[t] - 1 = at[t]
    BY <1>3, <1>4
  <2> QED
    BY <1>8, <2>1
<1>12. at'[t] <= Len(listing[t]) + 1
  BY <1>2, <1>3, <1>4
<1> QED
  BY <1>4, <1>10, <1>11, <1>12 DEF RunReport

\* The run goes on with the same file, is finished, or ends where it is.
LEMMA MoveReport ==
    ASSUME TaskInv, NEW t \in Task, RunReport(t), Working(t),
           Library \subseteq Library',
           NEW x \in Handling \cup {"done", "aborted"},
           step'[t] = x,
           UNCHANGED <<rows, at, verdict>>,
           x \in Handling => Remains(t),
           Remains(t) => \A i \in Listed \ {Current(t)} : i \in files' <=> i \in files,
           ~Remains(t) => files' = files,
           IF x = "copy" THEN known'[t] = known[t] \cup {content[Current(t)]}
                         ELSE known'[t] = known[t],
           x \in {"create"} \cup Removing => step[t] # "examine",
           x = "removeDuplicate" => content[Current(t)] \in Library
    PROVE  RunReport(t)'
<1>1. /\ at[t] \in Nat \ {0} /\ at[t] <= Len(listing[t]) + 1
      /\ listing[t] \in Seq(Listed) /\ Len(listing[t]) \in Nat
  BY DEF TaskInv, TaskTypeOK, RunReport
<1>2. Current(t)' = Current(t) /\ at'[t] = at[t] /\ verdict' = verdict /\ rows' = rows
  BY DEF Current
<1>3. ASSUME NEW h, NEW n, Explained(t, h, n) PROVE Explained(t, h, n)'
  BY <1>2, <1>3 DEF Explained
<1>4. ASSUME NEW n \in 1..(at[t] - 1) PROVE JudgedOK(t, n)'
  <2>1. JudgedOK(t, n)
    BY DEF RunReport
  <2>2. n \in 1..Len(listing[t]) /\ n # at[t] /\ listing[t][n] \in Listed
    BY <1>1
  <2>3. listing[t][n] \in files' <=> listing[t][n] \in files
    BY <2>2, CurrentFacts
  <2> QED
    BY <1>2, <1>3, <2>1, <2>3 DEF JudgedOK
<1>5. \A h : Explained(t, h, at[t]) => Explained(t, h, at[t])'
  BY <1>2 DEF Explained
<1>6. \A h \in known'[t] :
          Working(t)' => \/ Explained(t, h, at[t])'
                         \/ step'[t] # "examine" /\ h = content[Current(t)']
  <2> SUFFICES ASSUME NEW h \in known'[t], Working(t)'
               PROVE  \/ Explained(t, h, at[t])'
                      \/ step'[t] # "examine" /\ h = content[Current(t)']
    OBVIOUS
  <2>1. x \in Handling /\ step'[t] # "examine"
    BY DEF Working
  <2>2. h \in known[t] \/ h = content[Current(t)]
    BY <2>1
  <2>3. h \in known[t] => Explained(t, h, at[t]) \/ h = content[Current(t)]
    BY DEF RunReport
  <2> QED
    BY <1>2, <1>5, <2>1, <2>2, <2>3
<1>7. step'[t] = "removeDuplicate" => content[Current(t)'] \in Library'
  BY <1>2
<1>8. (\A n \in 1..(at[t] - 1) : JudgedOK(t, n))'
  BY <1>2, <1>4
<1> QED
  BY <1>1, <1>2, <1>6, <1>7, <1>8 DEF RunReport

LEMMA TaskStepReport ==
    ASSUME TaskInv, StoreTypeOK, UniqueContent, \A x \in Task : RunReport(x),
           NEW t \in Task, TaskStep(t), Library \subseteq Library'
    PROVE  \A x \in Task : RunReport(x)'
<1> DEFINE c == Current(t)
<1>1. TaskTypeOK /\ RunOK(t) /\ RunReport(t) /\ listing[t] \in Seq(Listed)
  BY DEF TaskInv
<1>2. Working(t) /\ (step[t] # "examine" => Remains(t))
  BY <1>1 DEF TaskStep, ReadFails, Examine, Copy, CopyFails, Create,
              CreateRejected, RemoveCopy, Finish, Abort, Working, RunOK
<1>3. Remains(t) => c \in Listed /\ c \notin rows /\ c \in Item
  BY CurrentFacts
<1>4. /\ \A i \in Listed : i # c => /\ i \in rows' <=> i \in rows
                                    /\ i \in files' <=> i \in files
      /\ ~Remains(t) => rows' = rows /\ files' = files
  BY <1>2 DEF TaskStep, ReadFails, Examine, Copy, CopyFails, Create,
              CreateRejected, RemoveCopy, Finish, Abort, CopyFile, CopyFileFails,
              CreateRow, RemoveFile, storeVars, Working
<1>5. /\ \A x \in Task \ {t} : at'[x] = at[x] /\ step'[x] = step[x] /\ known'[x] = known[x]
      /\ \A i \in Listed : i # c => verdict'[i] = verdict[i]
      /\ ~Remains(t) => verdict' = verdict
  BY <1>1, <1>2 DEF TaskTypeOK, TaskStep, ReadFails, Examine, Copy, CopyFails, Create,
              CreateRejected, RemoveCopy, Finish, Abort, Judge, Working
<1> SUFFICES RunReport(t)'
  <2> SUFFICES ASSUME NEW x \in Task, x # t PROVE RunReport(x)'
    OBVIOUS
  <2>1. CASE Remains(t)
    BY <1>4, <1>5, <2>1, OtherRuns
  <2>2. CASE ~Remains(t)
    BY <1>4, <1>5, <2>2, ReportFrame
  <2> QED
    BY <2>1, <2>2
<1>6. CASE ReadFails(t)
  BY <1>2, <1>3, <1>4, <1>6, JudgeReport DEF ReadFails, storeVars
<1>7. CASE Examine(t)
  <2>1. /\ step[t] = "examine" /\ Remains(t) /\ rows' = rows /\ files' = files
        /\ c \notin files
    BY <1>7, NotCopied DEF Examine, storeVars
  <2>2. CASE /\ Judge(t, "duplicate") /\ UNCHANGED known
             /\ content[c] \in known[t] \/ HashExists(c)
    BY <1>2, <1>3, <1>4, <2>1, <2>2, JudgeReport DEF HashExists
  <2>3. CASE /\ known' = [known EXCEPT ![t] = @ \cup {content[c]}]
             /\ step' = [step EXCEPT ![t] = "copy"]
             /\ UNCHANGED <<at, verdict>>
    <3>1. known'[t] = known[t] \cup {content[c]} /\ step'[t] = "copy"
      BY <1>1, <2>3 DEF TaskTypeOK
    <3> QED
      BY <1>2, <1>4, <2>1, <2>3, <3>1, MoveReport
  <2> QED
    BY <1>7, <2>2, <2>3 DEF Examine
<1>8. CASE Copy(t)
  <2>1. step'[t] = "create" /\ known'[t] = known[t]
    BY <1>1, <1>8 DEF Copy, TaskTypeOK
  <2> QED
    BY <1>2, <1>4, <1>8, <2>1, MoveReport DEF Copy
<1>9. CASE CopyFails(t)
  BY <1>2, <1>3, <1>4, <1>9, JudgeReport DEF CopyFails, FailedVerdict
<1>10. CASE Create(t)
  <2>1. rows' = rows \cup {c}
    BY <1>10 DEF Create, CreateRow
  <2>2. c \in rows' /\ content[c] \in Library'
    BY <2>1 DEF Library
  <2> QED
    BY <1>2, <1>3, <1>4, <1>10, <2>2, JudgeReport DEF Create
<1>11. CASE CreateRejected(t)
  <2>1. known'[t] = known[t] /\ step[t] = "create" /\ UNCHANGED <<rows, at, verdict>>
    BY <1>1, <1>11 DEF CreateRejected, storeVars
  <2>2. PICK x \in Removing :
           /\ step'[t] = x
           /\ x = "removeDuplicate" => content[c] \in Library
    BY <1>1, <1>11 DEF CreateRejected, TaskTypeOK, Removing, Rejected
  <2> QED
    BY <1>2, <1>4, <2>1, <2>2, MoveReport DEF Removing, Handling
<1>12. CASE RemoveCopy(t)
  <2>1. /\ c \notin files' /\ rows' = rows /\ step[t] # "examine"
        /\ Judge(t, RejectedVerdict(t)) /\ UNCHANGED known
    BY <1>12 DEF RemoveCopy, RemoveFile
  <2>2. \/ RejectedVerdict(t) = "refused"
        \/ RejectedVerdict(t) = "duplicate" /\ content[c] \in Library
    BY <1>1, <1>12 DEF RemoveCopy, RejectedVerdict, RunReport
  <2> QED
    BY <1>2, <1>3, <1>4, <2>1, <2>2, JudgeReport
<1>13. CASE Finish(t)
  <2>1. step'[t] = "done" /\ known'[t] = known[t]
    BY <1>1, <1>13 DEF Finish, TaskTypeOK
  <2> QED
    BY <1>2, <1>4, <1>13, <2>1, MoveReport DEF Finish, storeVars
<1>14. CASE Abort(t)
  <2>1. step'[t] = "aborted" /\ known'[t] = known[t]
    BY <1>1, <1>14 DEF Abort, TaskTypeOK
  <2> QED
    BY <1>2, <1>4, <1>14, <2>1, MoveReport DEF Abort, storeVars
<1> QED
  BY <1>6, <1>7, <1>8, <1>9, <1>10, <1>11, <1>12, <1>13, <1>14 DEF TaskStep

-----------------------------------------------------------------------------
(* The theorem *)

LEMMA InitReportInv == Init => ReportInv
<1> SUFFICES ASSUME Init PROVE ReportInv
  OBVIOUS
<1>1. IInv
  BY InitIInv
<1> USE DEF Init, StoreInit, SessionInit, TaskInit
<1>2. SavedInv
  BY DEF SavedInv, SeenOK, EntryOK
<1>3. ASSUME NEW t \in Task PROVE RunReport(t)
  <2>1. Len(listing[t]) \in Nat
    OBVIOUS
  <2> QED
    BY <2>1 DEF RunReport
<1> QED
  BY <1>1, <1>2, <1>3 DEF ReportInv

\* A run is not concerned by what pages do.
LEMMA RunsFrame ==
    ASSUME TaskInv, \A x \in Task : RunReport(x), UNCHANGED taskVars,
           Elsewhere(Listed)
    PROVE  \A x \in Task : RunReport(x)'
<1> SUFFICES ASSUME NEW x \in Task PROVE RunReport(x)'
  OBVIOUS
<1>1. \A n \in 1..Len(listing[x]) : listing[x][n] \in Listed
  OBVIOUS
<1> QED
  BY <1>1, ReportFrame DEF taskVars, Elsewhere

LEMMA NextReportInv == ReportInv /\ [Next]_vars => ReportInv'
<1> SUFFICES ASSUME ReportInv, [Next]_vars PROVE ReportInv'
  OBVIOUS
<1>1. /\ IInv /\ IInv' /\ SavedInv /\ \A x \in Task : RunReport(x)
      /\ StoreTypeOK /\ UniqueContent /\ SessionInv /\ TaskInv
  BY NextIInv DEF ReportInv, IInv
<1>2. ASSUME NEW u \in Upload, UploadStep(u), UNCHANGED taskVars PROVE ReportInv'
  <2>1. Elsewhere(Listed) /\ Library \subseteq Library'
    BY <1>1, <1>2, UploadStepInv DEF Elsewhere
  <2> QED
    BY <1>1, <1>2, <2>1, UploadStepSaved, RunsFrame DEF ReportInv
<1>3. ASSUME NEW s \in Session, SessionStep(s), UNCHANGED taskVars PROVE ReportInv'
  <2>1. Elsewhere(Listed) /\ Library \subseteq Library'
    BY <1>1, <1>3, SessionStepInv DEF Elsewhere
  <2> QED
    BY <1>1, <1>3, <2>1, SessionStepSaved, RunsFrame DEF ReportInv
<1>4. ASSUME NEW t \in Task, TaskStep(t), UNCHANGED sessionVars PROVE ReportInv'
  <2>1. Library \subseteq Library'
    BY <1>1, <1>4, TaskStepInv DEF Elsewhere
  <2>2. SavedInv'
    BY <1>1, <1>4, <2>1, SavedFrame DEF sessionVars
  <2> QED
    BY <1>1, <1>4, <2>1, <2>2, TaskStepReport DEF ReportInv
<1>5. CASE UNCHANGED vars
  <2>1. UNCHANGED storeVars /\ UNCHANGED sessionVars /\ UNCHANGED taskVars
    BY <1>5 DEF vars
  <2>2. Elsewhere(Listed) /\ Library \subseteq Library'
    BY <1>1, <2>1, SameStoreFacts DEF Elsewhere
  <2>3. SavedInv'
    BY <1>1, <2>1, <2>2, SavedFrame DEF sessionVars
  <2> QED
    BY <1>1, <2>1, <2>2, <2>3, RunsFrame DEF ReportInv
<1> QED
  BY <1>2, <1>3, <1>4, <1>5 DEF Next

\* What an import counts is so (a file counted as created has a row, one counted
\* as a duplicate is explained by the library or by an earlier failure),
\* and what save takes off a page is in the library unless the page had it
\* refused, for any pages and runs.
THEOREM TrueReportAlways == Spec => []TrueReport
<1>1. Spec => []ReportInv
  BY InitReportInv, NextReportInv, PTL DEF Spec
<1>2. ASSUME ReportInv PROVE TrueReport
  <2>1. ImportReportTrue
    BY <1>2 DEF ReportInv, RunReport, JudgedOK, Explained, ImportReportTrue
  <2>2. SavedMeansStored
    BY <1>2 DEF ReportInv, SavedInv, EntryOK, Refused, SavedMeansStored
  <2> QED
    BY <2>1, <2>2 DEF TrueReport
<1> QED
  BY <1>1, <1>2, PTL
=============================================================================
