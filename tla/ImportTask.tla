----------------------------- MODULE ImportTask -----------------------------
(***************************************************************************)
(* mix videos.import and mix videos.import_url: one process that goes      *)
(* through a list of files.  Each is read (or downloaded) and hashed,      *)
(* compared with the hashes of this run and with the table, copied, and    *)
(* only then inserted; the outcome is counted and the next one follows.    *)
(***************************************************************************)
EXTENDS VideoStore, Naturals, Sequences

CONSTANTS
    Task,      \* runs of the tasks
    Listed,    \* files they import
    listing    \* the files of each run, in order

ASSUME ListingAssumption ==
    /\ Listed \subseteq Item
    /\ listing \in [Task -> Seq(Listed)]

VARIABLES
    at,        \* index of the current file of each run
    step,      \* what the run does with it
    known,     \* seen_hashes
    verdict    \* what each file was counted as; "failed" (unreadable or not
               \* copied) and "refused" (no row for it) are both failures

taskVars == <<at, step, known, verdict>>

TaskTypeOK ==
    /\ at \in [Task -> Nat \ {0}]
    /\ step \in [Task -> {"examine", "copy", "create", "removeDuplicate",
                          "removeRefused", "done", "aborted"}]
    /\ known \in [Task -> SUBSET Hash]
    /\ verdict \in [Listed -> {"todo", "created", "duplicate", "refused",
                               "failed"}]

TaskInit ==
    /\ at = [t \in Task |-> 1]
    /\ step = [t \in Task |-> "examine"]
    /\ known = [t \in Task |-> {}]
    /\ verdict = [i \in Listed |-> "todo"]

Current(t) == listing[t][at[t]]

Remains(t) == at[t] <= Len(listing[t])

\* The file is counted and the run goes on.
Judge(t, v) ==
    /\ verdict' = [verdict EXCEPT ![Current(t)] = v]
    /\ at' = [at EXCEPT ![t] = @ + 1]
    /\ step' = [step EXCEPT ![t] = "examine"]

\* Reading, downloading or hashing fails, or the extension is not supported.
ReadFails(t) ==
    /\ step[t] = "examine"
    /\ Remains(t)
    /\ Judge(t, "failed")
    /\ UNCHANGED <<storeVars, known>>

Examine(t) ==
    /\ step[t] = "examine"
    /\ Remains(t)
    /\ IF content[Current(t)] \in known[t] \/ HashExists(Current(t))
       THEN Judge(t, "duplicate") /\ UNCHANGED known
       ELSE /\ known' = [known EXCEPT ![t] = @ \cup {content[Current(t)]}]
            /\ step' = [step EXCEPT ![t] = "copy"]
            /\ UNCHANGED <<at, verdict>>
    /\ UNCHANGED storeVars

Copy(t) ==
    /\ step[t] = "copy"
    /\ CopyFile(Current(t))
    /\ step' = [step EXCEPT ![t] = "create"]
    /\ UNCHANGED <<rows, at, known, verdict>>

\* Mutated form of FailedVerdict: a failed copy is counted as a duplicate.
FailedAsDuplicate == "duplicate"

\* What a file that could not be converted or copied is counted as.
FailedVerdict == "failed"

\* ffmpeg or File.cp fails; the hash stays in seen_hashes.
CopyFails(t) ==
    /\ step[t] = "copy"
    /\ CopyFileFails(Current(t))
    /\ Judge(t, FailedVerdict)
    /\ UNCHANGED <<rows, known>>

Create(t) ==
    /\ step[t] = "create"
    /\ CreateRow(Current(t))
    /\ Judge(t, "created")
    /\ UNCHANGED <<files, known>>

\* create_video answers {:error, changeset}, on content_hash or not.
CreateRejected(t) ==
    /\ step[t] = "create"
    /\ \/ /\ Rejected(Current(t))
          /\ step' = [step EXCEPT ![t] = "removeDuplicate"]
       \/ step' = [step EXCEPT ![t] = "removeRefused"]
    /\ UNCHANGED <<storeVars, at, known, verdict>>

\* Mutated form of RejectedVerdict: every changeset error is a duplicate.
AlwaysDuplicate(t) == "duplicate"

\* changeset.errors[:content_hash]
RejectedVerdict(t) ==
    IF step[t] = "removeDuplicate" THEN "duplicate" ELSE "refused"

\* The copy is removed either way.
RemoveCopy(t) ==
    /\ step[t] \in {"removeDuplicate", "removeRefused"}
    /\ RemoveFile(Current(t))
    /\ Judge(t, RejectedVerdict(t))
    /\ UNCHANGED <<rows, known>>

Finish(t) ==
    /\ step[t] = "examine"
    /\ ~Remains(t)
    /\ step' = [step EXCEPT ![t] = "done"]
    /\ UNCHANGED <<storeVars, at, known, verdict>>

\* The process is interrupted, or the database or a download raises.
Abort(t) ==
    /\ step[t] \in {"examine", "copy", "create", "removeDuplicate",
                   "removeRefused"}
    /\ step' = [step EXCEPT ![t] = "aborted"]
    /\ UNCHANGED <<storeVars, at, known, verdict>>

TaskStep(t) ==
    \/ ReadFails(t)
    \/ Examine(t)
    \/ Copy(t)
    \/ CopyFails(t)
    \/ Create(t)
    \/ CreateRejected(t)
    \/ RemoveCopy(t)
    \/ Finish(t)
    \/ Abort(t)

=============================================================================
