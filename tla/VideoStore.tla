----------------------------- MODULE VideoStore -----------------------------
(***************************************************************************)
(* The two places a video lives in: the videos table, with its unique      *)
(* index on content_hash, and the uploads directory.  An item is one file  *)
(* on its way into the library; its storage key is a fresh UUID, so the    *)
(* item itself stands for it, in the table and in the directory.           *)
(***************************************************************************)
CONSTANTS
    Item,      \* files somebody tries to add
    Hash,      \* contents, as their SHA-256
    content    \* the content of each item

ASSUME ContentAssumption == content \in [Item -> Hash]

VARIABLES
    rows,      \* items with a row in videos (and in video_embeddings)
    files      \* items with a file in the uploads directory

storeVars == <<rows, files>>

StoreTypeOK == rows \subseteq Item /\ files \subseteq Item

StoreInit == rows = {} /\ files = {}

Library == {content[i] : i \in rows}

\* content_hash_exists?
HashExists(i) == content[i] \in Library

\* Mutated form of Rejected: no unique index, only the check beforehand.
NeverRejected(i) == FALSE

\* create_video returns a changeset error on content_hash: the unique index
\* already has the hash, perhaps since the check, or the row itself is already
\* there.  An error on anything else (user_id, storage_key, the embedding) may
\* come back for any item, once or every time; its callers tell the two apart.
Rejected(i) == content[i] \in Library

\* create_video: the row and its embedding, in one transaction.
CreateRow(i) == ~Rejected(i) /\ rows' = rows \cup {i}

\* File.cp to the uploads directory.
CopyFile(i) == files' = files \cup {i}

\* A copy that fails may leave a part of the file behind.
CopyFileFails(i) == files' = files \/ files' = files \cup {i}

\* Mutated form of RemoveFile: files named after their content.
RemoveSameContent(i) == files' = {f \in files : content[f] # content[i]}

\* Mutated form of RemoveFile: the rejected file is left where it is.
RemoveNothing(i) == files' = files

\* File.rm_rf(Uploads.path(storage_key))
RemoveFile(i) == files' = files \ {i}

=============================================================================
