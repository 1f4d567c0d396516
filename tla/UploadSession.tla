--------------------------- MODULE UploadSession ----------------------------
(***************************************************************************)
(* The admin upload page: one LiveView process per session.  A finished    *)
(* upload is hashed and copied at once (handle_progress) but its row is    *)
(* only created when the form is submitted (save), one transaction per     *)
(* pending upload.  Everything the session knows is lost when its process  *)
(* ends.                                                                   *)
(***************************************************************************)
EXTENDS VideoStore, Naturals, SequencesExt

CONSTANTS
    Session,    \* open upload pages
    Upload,     \* entries selected on them
    sessionOf   \* the page of each entry

ASSUME UploadAssumption ==
    /\ Upload \subseteq Item
    /\ sessionOf \in [Upload -> Session]

VARIABLES
    entry,       \* the state of each upload entry
    pending,     \* pending_uploads, newest first
    seen,        \* seen_hashes
    duplicates,  \* entries counted in duplicate_count by handle_progress
    mode,        \* where the LiveView process is
    todo,        \* what the reduce of save has left
    created,     \* created_count of this save
    refused      \* uploads with a changeset error on something else than their
                 \* content so far (a history: the page only counts them)

sessionVars ==
    <<entry, pending, seen, duplicates, mode, todo, created, refused>>

Entries(s) == {u \in Upload : sessionOf[u] = s}

SessionTypeOK ==
    /\ entry \in [Upload -> {"absent", "uploading", "done", "cancelled",
                             "consumed"}]
    /\ pending \in [Session -> Seq(Upload)]
    /\ seen \in [Session -> SUBSET Hash]
    /\ duplicates \in [Session -> SUBSET Upload]
    /\ mode \in [Session -> {"open", "saving", "discarding", "saved", "quit",
                             "closed"}]
    /\ todo \in [Session -> Seq(Upload)]
    /\ created \in [Session -> Nat]
    /\ refused \subseteq Upload

SessionInit ==
    /\ entry = [u \in Upload |-> "absent"]
    /\ pending = [s \in Session |-> <<>>]
    /\ seen = [s \in Session |-> {}]
    /\ duplicates = [s \in Session |-> {}]
    /\ mode = [s \in Session |-> "open"]
    /\ todo = [s \in Session |-> <<>>]
    /\ created = [s \in Session |-> 0]
    /\ refused = {}

\* A file is chosen; auto_upload starts to send it.
Select(u) ==
    /\ mode[sessionOf[u]] = "open"
    /\ entry[u] = "absent"
    /\ entry' = [entry EXCEPT ![u] = "uploading"]
    /\ UNCHANGED <<storeVars, pending, seen, duplicates, mode, todo, created,
                   refused>>

\* cancel-upload: the entry leaves the page; nothing else changes.
Cancel(u) ==
    /\ mode[sessionOf[u]] = "open"
    /\ entry[u] \in {"uploading", "done"}
    /\ entry' = [entry EXCEPT ![u] = "cancelled"]
    /\ UNCHANGED <<storeVars, pending, seen, duplicates, mode, todo, created,
                   refused>>

KnownContent(u) == content[u] \in seen[sessionOf[u]] \/ HashExists(u)

\* handle_progress of a finished upload whose content is known already.
SkipDuplicate(u) ==
    LET s == sessionOf[u]
    IN /\ mode[s] = "open"
       /\ entry[u] = "uploading"
       /\ KnownContent(u)
       /\ entry' = [entry EXCEPT ![u] = "done"]
       /\ duplicates' = [duplicates EXCEPT ![s] = @ \cup {u}]
       /\ UNCHANGED <<storeVars, pending, seen, mode, todo, created, refused>>

\* Mutated form of Remember: the list is replaced instead of extended.
RememberLast(s, u) == pending' = [pending EXCEPT ![s] = <<u>>]

\* [attrs | pending_uploads]
Remember(s, u) == pending' = [pending EXCEPT ![s] = <<u>> \o @]

\* handle_progress of a finished upload with new content.
KeepUpload(u) ==
    LET s == sessionOf[u]
    IN /\ mode[s] = "open"
       /\ entry[u] = "uploading"
       /\ ~KnownContent(u)
       /\ CopyFile(u)
       /\ entry' = [entry EXCEPT ![u] = "done"]
       /\ Remember(s, u)
       /\ seen' = [seen EXCEPT ![s] = @ \cup {content[u]}]
       /\ UNCHANGED <<rows, duplicates, mode, todo, created, refused>>

\* File.cp! raises: the LiveView process dies and the page starts afresh.
KeepUploadRaises(u) ==
    LET s == sessionOf[u]
    IN /\ mode[s] = "open"
       /\ entry[u] = "uploading"
       /\ ~KnownContent(u)
       /\ CopyFileFails(u)
       /\ mode' = [mode EXCEPT ![s] = "closed"]
       /\ UNCHANGED <<rows, entry, pending, seen, duplicates, todo, created,
                      refused>>

-----------------------------------------------------------------------------
(* save; with an upload in progress, or nothing at all, it only shows a flash *)

NothingInProgress(s) == \A u \in Entries(s) : entry[u] # "uploading"

Completed(s) == {u \in Entries(s) : entry[u] = "done"}

\* No completed entry: leave the page without creating anything.
SaveNothing(s) ==
    /\ mode[s] = "open"
    /\ NothingInProgress(s)
    /\ Completed(s) = {}
    /\ pending[s] # <<>> \/ duplicates[s] # {}
    /\ mode' = [mode EXCEPT ![s] = "quit"]
    /\ UNCHANGED <<storeVars, entry, pending, seen, duplicates, todo, created,
                   refused>>

StartSave(s) ==
    /\ mode[s] = "open"
    /\ NothingInProgress(s)
    /\ Completed(s) # {}
    /\ mode' = [mode EXCEPT ![s] = "saving"]
    /\ todo' = [todo EXCEPT ![s] = pending[s]]
    /\ created' = [created EXCEPT ![s] = 0]
    /\ UNCHANGED <<storeVars, entry, pending, seen, duplicates, refused>>

\* create_video answers {:ok, video}.
SaveNext(s) ==
    /\ mode[s] = "saving"
    /\ todo[s] # <<>>
    /\ CreateRow(Head(todo[s]))
    /\ todo' = [todo EXCEPT ![s] = Tail(@)]
    /\ created' = [created EXCEPT ![s] = @ + 1]
    /\ UNCHANGED <<files, entry, pending, seen, duplicates, mode, refused>>

\* create_video answers {:error, changeset}: on content_hash it counts as a
\* duplicate, on anything else as a failure ...
SaveRejected(s) ==
    /\ mode[s] = "saving"
    /\ todo[s] # <<>>
    /\ \/ Rejected(Head(todo[s])) /\ UNCHANGED refused
       \/ refused' = refused \cup {Head(todo[s])}
    /\ mode' = [mode EXCEPT ![s] = "discarding"]
    /\ UNCHANGED <<storeVars, entry, pending, seen, duplicates, todo, created>>

\* ... and the file is removed either way; the upload stays in pending_uploads.
SaveDiscard(s) ==
    /\ mode[s] = "discarding"
    /\ RemoveFile(Head(todo[s]))
    /\ mode' = [mode EXCEPT ![s] = "saving"]
    /\ todo' = [todo EXCEPT ![s] = Tail(@)]
    /\ UNCHANGED <<rows, entry, pending, seen, duplicates, created, refused>>

\* Mutated form of NextPage: the page is not left after a save.
StayOpen(s) == "open"

\* push_navigate when something was created; otherwise the page stays, with
\* pending_uploads as it was.
NextPage(s) == IF created[s] > 0 THEN "saved" ELSE "open"

\* The rest of save: the channels of the finished uploads are closed, which
\* takes their entries off the page.
FinishSave(s) ==
    /\ mode[s] = "saving"
    /\ todo[s] = <<>>
    /\ entry' = [u \in Upload |-> IF u \in Completed(s) THEN "consumed"
                                                        ELSE entry[u]]
    /\ mode' = [mode EXCEPT ![s] = NextPage(s)]
    /\ UNCHANGED <<storeVars, pending, seen, duplicates, todo, created, refused>>

\* The tab is closed, the connection is lost, the database raises, a restart.
Close(s) ==
    /\ mode[s] \in {"open", "saving", "discarding"}
    /\ mode' = [mode EXCEPT ![s] = "closed"]
    /\ UNCHANGED <<storeVars, entry, pending, seen, duplicates, todo, created,
                   refused>>

UploadStep(u) ==
    \/ Select(u)
    \/ Cancel(u)
    \/ SkipDuplicate(u)
    \/ KeepUpload(u)
    \/ KeepUploadRaises(u)

SessionStep(s) ==
    \/ SaveNothing(s)
    \/ StartSave(s)
    \/ SaveNext(s)
    \/ SaveRejected(s)
    \/ SaveDiscard(s)
    \/ FinishSave(s)
    \/ Close(s)

=============================================================================
