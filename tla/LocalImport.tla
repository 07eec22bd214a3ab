----------------------------- MODULE LocalImport -----------------------------
(***************************************************************************)
(* Importing a video file of the user (LocalImportsService): a row for the *)
(* pending asset with a grant to upload it, the upload past the API, and   *)
(* the commit, which looks for the object and then creates the video, its  *)
(* job and the tasks of its DAG in one SERIALIZABLE transaction.  Every    *)
(* request may be sent again, under the same idempotency key or another,   *)
(* while an earlier one is still under way.                                *)
(***************************************************************************)
EXTENDS Naturals

CONSTANTS
    File,       \* files the user wants to import
    Commit,     \* commit requests
    FileOf,     \* the file a commit request is for
    CommitKey   \* its idempotency key

ASSUME ImportAssumption ==
    /\ FileOf \in [Commit -> File]
    /\ \A r, q \in Commit : CommitKey[r] = CommitKey[q] => FileOf[r] = FileOf[q]

VARIABLES
    assetOf,  \* status of the asset of a file, "none" before its row
    stored,   \* files whose object is in the bucket
    imported, \* jobs created for a file
    commit,   \* the commit requests: current tells whether the rows its
              \* transaction has read are as they were
    replies   \* the idempotency keys with a stored response

importVars == <<assetOf, stored, imported, commit, replies>>

CommitPhase == {"idle", "inspect", "ready", "open", "done", "failed"}

(* requestUpload, for a new key or again; the row is PENDING once. *)
RequestUpload(u) ==
    /\ assetOf[u] = "none"
    /\ assetOf' = [assetOf EXCEPT ![u] = "PENDING"]
    /\ UNCHANGED <<stored, imported, commit, replies>>

(* The browser's PUT, again while the grant lasts. *)
PutFile(u) ==
    /\ assetOf[u] # "none"
    /\ stored' = stored \cup {u}
    /\ UNCHANGED <<assetOf, imported, commit, replies>>

-----------------------------------------------------------------------------
(* The commit: the request goes from one phase to the next. *)

To(r, phase) == commit' = [commit EXCEPT ![r] = [phase |-> phase, current |-> phase = "open"]]
Goes(r, phase) == To(r, phase) /\ UNCHANGED <<assetOf, stored, imported, replies>>

Answered(r) == CommitKey[r] \in replies

(* A request, or the next one after a failure or a lost response. *)
SendCommit(r) == commit[r].phase \in {"idle", "done", "failed"} /\ Goes(r, "inspect")

(* replayCommit and getPending, on the way to the object store. *)
ReadPending(r) ==
    /\ commit[r].phase = "inspect"
    /\ Goes(r, IF Answered(r) THEN "done"
               ELSE IF assetOf[FileOf[r]] = "PENDING" THEN "ready" ELSE "failed")

(* inspect, and the snapshot of the transaction: prior answer, asset, profile. *)
BeginImport(r, profileReady) ==
    /\ commit[r].phase = "ready"
    /\ Goes(r, IF FileOf[r] \notin stored THEN "failed"
               ELSE IF Answered(r) THEN "done"
               ELSE IF assetOf[FileOf[r]] = "PENDING" /\ profileReady THEN "open" ELSE "failed")

(* SERIALIZABLE: a row that it updates is as it was in the snapshot. *)
Serializes(r) == commit[r].current

(* The transaction commits or, for a serialization failure, does nothing. *)
EndImport(r) ==
    /\ commit[r].phase = "open"
    /\ IF Serializes(r) /\ ~Answered(r)
       THEN /\ assetOf' = [assetOf EXCEPT ![FileOf[r]] = "AVAILABLE"]
            /\ imported' = [imported EXCEPT ![FileOf[r]] = @ + 1]
            /\ replies' = replies \cup {CommitKey[r]}
            /\ commit' = [q \in Commit |->
                 IF q = r THEN [phase |-> "done", current |-> FALSE]
                 ELSE [commit[q] EXCEPT !.current = @ /\ FileOf[q] # FileOf[r]]]
            /\ UNCHANGED stored
       ELSE Goes(r, "failed")

-----------------------------------------------------------------------------
ImportInit ==
    /\ assetOf = [u \in File |-> "none"]
    /\ stored = {}
    /\ imported = [u \in File |-> 0]
    /\ commit = [r \in Commit |-> [phase |-> "idle", current |-> FALSE]]
    /\ replies = {}

ImportNext(profileReady) ==
    \/ \E u \in File : RequestUpload(u) \/ PutFile(u)
    \/ \E r \in Commit :
         \/ SendCommit(r) \/ ReadPending(r)
         \/ BeginImport(r, profileReady) \/ EndImport(r)

ImportTypeOK ==
    /\ assetOf \in [File -> {"none", "PENDING", "AVAILABLE"}]
    /\ stored \subseteq File
    /\ imported \in [File -> Nat]
    /\ commit \in [Commit -> [phase : CommitPhase, current : BOOLEAN]]
    /\ replies \subseteq {CommitKey[r] : r \in Commit}
=============================================================================
