----------------------------- MODULE Ingestion ------------------------------
(* Upload pages and import runs that fill one library at the same time. *)
EXTENDS UploadSession, ImportTask

vars == <<storeVars, sessionVars, taskVars>>

\* Every item is one upload entry or one file of one run.
ASSUME ItemAssumption ==
    /\ Upload \cap Listed = {}
    /\ Item = Upload \cup Listed
    /\ \A t1, t2 \in Task :
          \A i \in 1..Len(listing[t1]), j \in 1..Len(listing[t2]) :
              listing[t1][i] = listing[t2][j] => t1 = t2 /\ i = j

Init == StoreInit /\ SessionInit /\ TaskInit

Next ==
    \/ \E u \in Upload : UploadStep(u) /\ UNCHANGED taskVars
    \/ \E s \in Session : SessionStep(s) /\ UNCHANGED taskVars
    \/ \E t \in Task : TaskStep(t) /\ UNCHANGED sessionVars

Spec == Init /\ [][Next]_vars

-----------------------------------------------------------------------------
(* Properties *)

\* The variables keep their shape.
TypeOK == StoreTypeOK /\ SessionTypeOK /\ TaskTypeOK

\* However uploads and imports race between content_hash_exists? and
\* create_video, a content is in the library once.
UniqueContent ==
    \A i, j \in rows : content[i] = content[j] => i = j

\* A video can be played: the file of a row exists from the moment the row does,
\* and neither a rejected duplicate of it, nor saving the page again, nor
\* another run ever removes it.  The one exception: save removes the file of an
\* upload it could not create for another reason than its content, but keeps
\* the upload, and the next save of the page may create the row.
RowsHaveFiles == rows \ files \subseteq refused

InFlight(i) ==
    \/ /\ i \in Upload
       /\ mode[sessionOf[i]] \in {"open", "saving", "discarding"}
       /\ i \in ToSet(pending[sessionOf[i]])
    \/ /\ i \in Listed
       /\ \E t \in Task : /\ Remains(t)
                          /\ i = Current(t)
                          /\ step[t] \in {"create", "removeDuplicate",
                                        "removeRefused"}

Abandoned(i) ==
    \/ i \in Upload /\ mode[sessionOf[i]] \in {"quit", "closed"}
    \/ /\ i \in Listed
       /\ \/ verdict[i] = "failed"
          \/ \E t \in Task : /\ step[t] = "aborted"
                             /\ Remains(t)
                             /\ i = Current(t)

\* A file without a row is one somebody is still working on, or one that was
\* left behind by a page that was abandoned, a run that was killed or a copy
\* that failed: a save or an import that ends normally leaves no stray files.
NoStrayFiles ==
    \A i \in files \ rows : InFlight(i) \/ Abandoned(i)

\* What an import reports is true: a file has a row if and only if it was counted
\* as created, one counted as a duplicate has no file and its content is in the
\* library, unless an earlier file of the run with the same content was a
\* failure, not copied or not created (videos.import remembers the hash before
\* it copies the file).
ImportReportTrue ==
    \A t \in Task :
        \A n \in 1..(at[t] - 1) :
            LET i == listing[t][n]
            IN /\ verdict[i] = "created" <=> i \in rows
               /\ verdict[i] = "duplicate" =>
                     /\ i \notin files
                     /\ \/ content[i] \in Library
                        \/ \E m \in 1..(n - 1) :
                              /\ verdict[listing[t][m]] \in {"failed", "refused"}
                              /\ content[listing[t][m]] = content[i]

\* When save has taken an upload off the page its content is in the library,
\* however many saves, duplicates and other admins there were, unless the upload
\* the page kept of that content was refused for another reason.
SavedMeansStored ==
    \A u \in Upload :
        entry[u] = "consumed" =>
            \/ content[u] \in Library
            \/ \E w \in refused : /\ sessionOf[w] = sessionOf[u]
                                  /\ content[w] = content[u]

\* What an import counts and what a page shows as saved is so.
TrueReport == ImportReportTrue /\ SavedMeansStored
=============================================================================
