----------------------------- MODULE VideoProofs -----------------------------
(***************************************************************************)
(* Proofs about VideoLifecycle: its types, publishing, and the deletion of *)
(* a video under uploads, exports, posts and failures, for any number of   *)
(* files, destinations, attempts and requests.                             *)
(*                                                                         *)
(* The deletion owns a video from its request on: only its runner, which   *)
(* works on a video that is DELETING, takes it further, and no finished    *)
(* file is AVAILABLE meanwhile, so nothing can be posted.  For what        *)
(* workers upload, the argument is about time: an upload URL that was live *)
(* when its asset was marked ends before the grace period does, and no new *)
(* one is signed for a marked asset.                                       *)
(***************************************************************************)
EXTENDS ScriptProofs

(* The tick is under way. *)
Ticking == runner.phase \in {"listing", "purging", "finalizing", "failing"}

(* The runner works on a video that is DELETING, with the attempts it has read, *)
(* and comes to remove rows after the grace period only.                        *)
TickIsDue ==
    /\ Ticking => video = "DELETING" /\ runner.attempts = deletion.attempts
    /\ runner.phase = "finalizing" => ~deletion.grace
    /\ video = "DELETING" => deletion.attempts < MaxAttempts

(* Nothing goes on for a video that is gone; the one Studio works on is not deleted. *)
OthersAreQuiet ==
    /\ video = "gone" => job = "none" /\ ~lease /\ package = "none"
    /\ cast = "studio" => Exists /\ ~InDeletion /\ runner.phase = "idle"

(* Neither row nor object. *)
Blank(a) ==
    asset[a].status = "none" /\ asset[a].was = "AVAILABLE" /\ ~asset[a].linked /\ ~object[a]

(* The finished files are there until the request marks them, and are not again. *)
OutputsFollowVideo == \A a \in Output :
    /\ Exists => asset[a].linked
    /\ Exists /\ ~InDeletion => asset[a].status = "AVAILABLE"
    /\ InDeletion => asset[a].status \in {"DELETING", "DELETED"}
    /\ asset[a].status = "DELETED" => ~object[a]
    /\ video = "gone" => Blank(a)

(* Proofs are rows of the video. *)
ProofsAreRows == \A d \in Destination : proof[d] # "none" => proven

(* An upload that is not committed is not AVAILABLE; when it was marked it was  *)
(* PENDING, and its URL lives within the grace period only.                      *)
UploadsEnd == \A u \in Upload :
    /\ u \in commits \/ u \in report.uploads => u \in sent
    /\ u \notin sent => asset[u].status # "AVAILABLE"
    /\ u \notin sent /\ asset[u].status = "DELETING" =>
           /\ asset[u].was = "PENDING" /\ grant[u] # "new"
           /\ deletion.grace \/ grant[u] = "none"
    /\ asset[u].status = "DELETED" => ~object[u] /\ (u \in sent \/ grant[u] = "none")

(* An upload without a row has not begun, or is over with its video. *)
UploadsHaveRows == \A u \in Upload :
    /\ Exists /\ asset[u].status = "none" => Blank(u) /\ grant[u] = "none" /\ u \notin sent
    /\ Exists /\ ~InDeletion => asset[u].status \in {"none", "PENDING", "AVAILABLE"}
    /\ video = "gone" => Blank(u) /\ (u \in sent \/ grant[u] = "none")

USE AssetAssumption, DeletionAssumption, PublishingAssumption
-----------------------------------------------------------------------------
(* Types. *)

(* The updates of an asset's row. *)
LEMMA AssetRowUpdates ==
    ASSUME NEW r \in AssetRow
    PROVE  /\ \A s \in {"none", "PENDING", "AVAILABLE", "DELETING", "DELETED"} :
                  [r EXCEPT !.status = s] \in AssetRow
           /\ \A b \in BOOLEAN : [r EXCEPT !.linked = b] \in AssetRow
           /\ r.status \in {"none", "PENDING", "AVAILABLE", "DELETING", "DELETED"}
           /\ r.was \in {"PENDING", "AVAILABLE"}
           /\ r.linked \in BOOLEAN
BY DEF AssetRow

(* An asset whose status is set keeps the rest of its row. *)
LEMMA StatusSet ==
    ASSUME asset \in [Asset -> AssetRow], NEW a \in Asset,
           NEW s \in {"none", "PENDING", "AVAILABLE", "DELETING", "DELETED"},
           asset' = [asset EXCEPT ![a].status = s]
    PROVE  /\ asset' \in [Asset -> AssetRow]
           /\ asset'[a].status = s
           /\ asset'[a].was = asset[a].was
           /\ asset'[a].linked = asset[a].linked
           /\ \A b \in Asset \ {a} : asset'[b] = asset[b]
<1> DEFINE row == [asset[a] EXCEPT !.status = s]
<1>1. asset[a] \in AssetRow
  OBVIOUS
<1>2. row \in AssetRow
  BY <1>1, AssetRowUpdates
<1>3. row.status = s /\ row.was = asset[a].was /\ row.linked = asset[a].linked
  BY <1>1 DEF AssetRow
<1>4. asset' = [asset EXCEPT ![a] = row]
  OBVIOUS
<1> HIDE DEF row
<1> QED
  BY <1>2, <1>3, <1>4

(* The rows and what workers upload. *)
LEMMA TasksTypes ==
    ASSUME DeletionTypeOK, Tasks \/ ExportSubtitles \/ Review \/ CreateJob
    PROVE  DeletionTypeOK'
<1> USE DEF DeletionTypeOK, VideoTypeOK
<1>1. CASE Claim \/ Reap \/ OtherTaskFails \/ Review \/ CreateJob
  BY <1>1
  DEF Claim, Reap, OtherTaskFails, Review, CreateJob, Projected, VideoStatus, JobStatus, uploadVars
<1>2. ASSUME NEW u \in Upload, CreateOutput(u) \/ RefreshOutput(u)
      PROVE  DeletionTypeOK'
  <2>1. u \in Asset
    BY DEF Asset
  <2>2. asset' \in [Asset -> AssetRow]
    BY <1>2, <2>1, StatusSet DEF CreateOutput, RefreshOutput, videoVars
  <2> QED
    BY <1>2, <2>2 DEF CreateOutput, RefreshOutput, videoVars, Grant
<1>3. ASSUME NEW u \in Upload, Put(u) \/ CheckCommit(u) \/ WriteCommit(u)
      PROVE  DeletionTypeOK'
  <2>1. u \in Asset
    BY DEF Asset
  <2>2. asset' \in [Asset -> AssetRow]
    BY <1>3, <2>1, StatusSet DEF Put, CheckCommit, WriteCommit, videoVars
  <2> QED
    BY <1>3, <2>1, <2>2 DEF Put, CheckCommit, WriteCommit, videoVars, uploadVars
<1>4. ASSUME NEW op \in {"complete", "fail"}, NEW us \in SUBSET Upload, CheckReport(op, us)
      PROVE  DeletionTypeOK'
  BY <1>4 DEF CheckReport, videoVars, Report
<1>5. ASSUME NEW b \in BOOLEAN, WriteComplete(b)
      PROVE  DeletionTypeOK'
  <2>1. report' \in Report /\ lease' \in BOOLEAN /\ job' \in JobStatus /\ video' \in VideoStatus
    BY <1>5 DEF WriteComplete, NoReport, Report, JobStatus, Projected, VideoStatus
  <2>2. asset' \in [Asset -> AssetRow]
    <3>1. ASSUME NEW a \in Asset
          PROVE  [asset[a] EXCEPT !.linked = @ \/ a \in report.uploads] \in AssetRow
      BY AssetRowUpdates
    <3> QED
      BY <1>5, <3>1 DEF WriteComplete
  <2> QED
    BY <1>5, <2>1, <2>2 DEF WriteComplete
<1>6. ASSUME NEW b \in BOOLEAN, WriteFail(b)
      PROVE  DeletionTypeOK'
  BY <1>6 DEF WriteFail, NoReport, Report, JobStatus
<1>7. CASE ExportBegin \/ ExportPut \/ ExportCheck
  BY <1>7 DEF ExportBegin, ExportPut, ExportCheck, Export, videoVars
<1>8. CASE ExportUpsert \/ ExportSucceed
  <2>1. ASSUME NEW a \in Asset
        PROVE  /\ [asset[a] EXCEPT !.status = "AVAILABLE"] \in AssetRow
               /\ [asset[a] EXCEPT !.linked = @ \/ (a \in Control /\ Exists)] \in AssetRow
    BY AssetRowUpdates
  <2>2. asset' \in [Asset -> AssetRow]
    <3>1. CASE ExportUpsert
      BY <2>1, <3>1 DEF ExportUpsert
    <3>2. CASE ExportSucceed
      BY <2>1, <3>2 DEF ExportSucceed
    <3> QED
      BY <1>8, <3>1, <3>2
  <2> QED
    BY <1>8, <2>2 DEF ExportUpsert, ExportSucceed, Export, JobStatus, Projected, VideoStatus
<1> QED
  BY <1>1, <1>2, <1>3, <1>4, <1>5, <1>6, <1>7, <1>8 DEF Tasks, ExportSubtitles

(* The deletion; that its failures are counted in time needs TickIsDue. *)
LEMMA DeletionTypes ==
    ASSUME DeletionTypeOK, TickIsDue,
           \/ RequestDeletion \/ Tick \/ TickFails \/ RemoveRows \/ DeletionClock
           \/ Crash \/ Restart \/ \E u \in Upload : GrantExpires(u)
    PROVE  DeletionTypeOK'
<1> USE DEF DeletionTypeOK, VideoTypeOK
<1>1. ASSUME NEW as, MarkDeleting(as)
      PROVE  asset' \in [Asset -> AssetRow]
  <2>1. ASSUME NEW a \in Asset
        PROVE  /\ asset[a] \in AssetRow
               /\ asset[a].status \in {"AVAILABLE", "PENDING"} =>
                      [asset[a] EXCEPT !.status = "DELETING", !.was = asset[a].status] \in AssetRow
    BY DEF AssetRow
  <2> QED
    BY <1>1, <2>1 DEF MarkDeleting
<1>2. CancelJob => job' \in JobStatus /\ lease' \in BOOLEAN /\ export' \in Export
  BY DEF CancelJob, JobStatus, Export
<1>3. AgeGrants => grant' \in [Upload -> Grant]
  BY DEF AgeGrants, Grant
<1>4. \A as : NeedsGrace(as) \in BOOLEAN
  BY DEF NeedsGrace
<1>5. Idle \in Runner
  BY DEF Idle, Runner
<1>6. CASE RequestDeletion
  BY <1>1, <1>2, <1>3, <1>4, <1>6 DEF RequestDeletion, Deletion, VideoStatus
<1>7. CASE Reschedule
  BY <1>1, <1>2, <1>3, <1>4, <1>5, <1>7 DEF Reschedule, Deletion
<1>8. CASE ClaimDeletion \/ ListAssets \/ AfterPurge \/ FinalizeFails \/ LoseFailure
  <2>1. runner' \in Runner
    <3>1. CASE ClaimDeletion
      BY <3>1 DEF ClaimDeletion, Deletion, Runner
    <3>2. CASE ListAssets
      BY <3>2 DEF ListAssets, Runner, VideoAssets
    <3>3. CASE AfterPurge \/ FinalizeFails \/ LoseFailure
      BY <1>5, <3>3 DEF AfterPurge, FinalizeFails, LoseFailure, Runner
    <3> QED
      BY <1>8, <3>1, <3>2, <3>3
  <2>2. deletion' \in Deletion
    BY <1>8 DEF ClaimDeletion, ListAssets, AfterPurge, FinalizeFails, LoseFailure, Deletion
  <2> QED
    BY <1>8, <2>1, <2>2
    DEF ClaimDeletion, ListAssets, AfterPurge, FinalizeFails, LoseFailure, videoVars, uploadVars
<1>9. ASSUME NEW a \in Asset, Purge(a) \/ PurgeFails(a)
      PROVE  DeletionTypeOK'
  <2>1. object' \in [Asset -> BOOLEAN]
    BY <1>9 DEF Purge, PurgeFails
  <2>2. CASE Purge(a)
    <3> DEFINE status == IF asset[a].status = "DELETING" THEN "DELETED" ELSE asset[a].status
    <3>1. status \in {"none", "PENDING", "AVAILABLE", "DELETING", "DELETED"}
      BY AssetRowUpdates
    <3>2. asset' = [asset EXCEPT ![a].status = status]
      BY <2>2 DEF Purge
    <3>3. runner' = [runner EXCEPT !.todo = runner.todo \ {a}]
      BY <2>2 DEF Purge
    <3>4. runner' \in Runner
      BY <3>3 DEF Runner
    <3> HIDE DEF status
    <3> QED
      BY <2>1, <2>2, <3>1, <3>2, <3>4, StatusSet DEF Purge, uploadVars
  <2>3. CASE PurgeFails(a)
    <3>1. runner' \in Runner
      BY <2>3 DEF PurgeFails, Runner
    <3> QED
      BY <2>1, <2>3, <3>1 DEF PurgeFails, uploadVars
  <2> QED
    BY <1>9, <2>2, <2>3
<1>10. CASE RemoveRows
  <2>1. runner' \in Runner
    BY <1>5, <1>10 DEF RemoveRows, Runner
  <2>2. asset' \in [Asset -> AssetRow]
    <3>1. NoAsset \in AssetRow
      BY DEF NoAsset, AssetRow
    <3> QED
      BY <1>10, <3>1 DEF RemoveRows
  <2> QED
    BY <1>10, <2>1, <2>2 DEF RemoveRows, VideoStatus, JobStatus, uploadVars
<1>11. CASE RecordFailure
  <2>1. video = "DELETING" => Failures(runner.attempts) \in 0..MaxAttempts
    BY <1>11 DEF RecordFailure, TickIsDue, Ticking, Failures, Deletion, Runner
  <2>2. deletion' \in Deletion
    BY <1>11, <2>1 DEF RecordFailure, Deletion
  <2> QED
    BY <1>5, <1>11, <2>2 DEF RecordFailure, VideoStatus, uploadVars
<1>12. CASE DeletionClock \/ \E u \in Upload : GrantExpires(u)
  BY <1>12
  DEF DeletionClock, BecomeDue, GraceEnds, GrantExpires, Deletion, Grant, videoVars, uploadVars
<1>13. CASE Crash \/ Restart
  BY <1>5, <1>13 DEF Crash, Restart, Idle, Runner, NoReport, Report, Export, videoVars, uploadVars
<1> QED
  BY <1>6, <1>7, <1>8, <1>9, <1>10, <1>11, <1>12, <1>13 DEF Tick, TickFails

-----------------------------------------------------------------------------
(* Publishing. *)

TaskRow == [status : TaskStatus, filled : SUBSET Field, locked : SUBSET Field]

(* A task whose status is set, the others being left alone. *)
TaskMoves(d, s) ==
    /\ task' \in [Destination -> TaskRow]
    /\ task'[d].status = s
    /\ \A e \in Destination \ {d} : task'[e] = task[e]

(* The updates of a task. *)
LEMMA TaskUpdates ==
    ASSUME task \in [Destination -> TaskRow], NEW d \in Destination
    PROVE  /\ \A s \in TaskStatus : task' = [task EXCEPT ![d].status = s] => TaskMoves(d, s)
           /\ \A s \in TaskStatus : \A f \in SUBSET Field :
                  task' = [task EXCEPT ![d].filled = f, ![d].status = s] => TaskMoves(d, s)
           /\ \A f \in SUBSET Field :
                  task' = [task EXCEPT ![d].locked = f] => TaskMoves(d, task[d].status)
<1>1. task[d] \in TaskRow
  OBVIOUS
<1>2. ASSUME NEW s \in TaskStatus, task' = [task EXCEPT ![d].status = s]
      PROVE  TaskMoves(d, s)
  <2> DEFINE row == [task[d] EXCEPT !.status = s]
  <2>1. row \in TaskRow /\ row.status = s
    BY <1>1 DEF TaskRow
  <2>2. task' = [task EXCEPT ![d] = row]
    BY <1>2
  <2> HIDE DEF row
  <2> QED
    BY <2>1, <2>2 DEF TaskMoves
<1>3. ASSUME NEW s \in TaskStatus, NEW f \in SUBSET Field,
             task' = [task EXCEPT ![d].filled = f, ![d].status = s]
      PROVE  TaskMoves(d, s)
  <2> DEFINE row == [task[d] EXCEPT !.filled = f, !.status = s]
  <2>1. row \in TaskRow /\ row.status = s
    BY <1>1 DEF TaskRow
  <2>2. task' = [task EXCEPT ![d] = row]
    BY <1>3
  <2> HIDE DEF row
  <2> QED
    BY <2>1, <2>2 DEF TaskMoves
<1>4. ASSUME NEW f \in SUBSET Field, task' = [task EXCEPT ![d].locked = f]
      PROVE  TaskMoves(d, task[d].status)
  <2> DEFINE row == [task[d] EXCEPT !.locked = f]
  <2>1. row \in TaskRow /\ row.status = task[d].status
    BY <1>1 DEF TaskRow
  <2>2. task' = [task EXCEPT ![d] = row]
    BY <1>4
  <2> HIDE DEF row
  <2> QED
    BY <2>1, <2>2 DEF TaskMoves
<1> QED
  BY <1>2, <1>3, <1>4

PublishingInv == PublishingTypeOK /\ VerifiedIsProved /\ PackageAgrees

(* A package that is projected is approved only if its tasks are. *)
LEMMA ProjectAgrees ==
    ASSUME NEW ts
    PROVE  /\ Project(ts) \in PackageStatus
           /\ Project(ts) = "APPROVED" => \A d \in Required : ts[d].status \in Approved
BY DEF Project, PackageStatus

(* Preparing the package and its checklist, and what the deletion leaves of them. *)
LEMMA PreparationKeeps ==
    ASSUME PublishingInv, Preparation \/ PublishingGone
    PROVE  PublishingInv'
<1> USE DEF PublishingInv, PublishingTypeOK
<1>1. NewTask.status = "READY_FOR_CONTENT"
      /\ NewTask \in [status : TaskStatus, filled : SUBSET Field, locked : SUBSET Field]
  BY DEF NewTask, TaskStatus
<1>2. CASE ApproveOutputs
  BY <1>2 DEF ApproveOutputs, VerifiedIsProved, PackageAgrees
<1>3. CASE CreatePackage
  BY <1>1, <1>3 DEF CreatePackage, PackageStatus, VerifiedIsProved, PackageAgrees
<1>6. CASE PublishingGone
  BY <1>1, <1>6 DEF PublishingGone, PackageStatus, ProofStatus, VerifiedIsProved, PackageAgrees
<1>4. ASSUME NEW d \in Destination, NEW done \in BOOLEAN, CheckChecklist(d, done)
      PROVE  PublishingInv'
  <2>1. [task |-> d, done |-> done] \in [task : Destination, done : BOOLEAN]
    OBVIOUS
  <2> QED
    BY <1>4, <2>1 DEF CheckChecklist, VerifiedIsProved, PackageAgrees
<1>5. ASSUME NEW c \in checklist, WriteChecklist(c)
      PROVE  PublishingInv'
  BY <1>5 DEF WriteChecklist, VerifiedIsProved, PackageAgrees
<1> QED
  BY <1>2, <1>3, <1>4, <1>5, <1>6 DEF Preparation

(* Content is written, approved and revised. *)
LEMMA ContentKeeps ==
    ASSUME PublishingInv, NEW d \in Destination, Content(d)
    PROVE  PublishingInv'
<1> USE DEF PublishingInv, PublishingTypeOK
<1>0. task \in [Destination -> TaskRow]
  BY DEF TaskRow
<1>1. ASSUME NEW s \in TaskStatus \ Frozen, TaskMoves(d, s), package' = Project(task'),
             UNCHANGED <<approved, checked, proof, checklist>>
      PROVE  PublishingInv'
  <2>1. PublishingTypeOK'
    BY <1>1, ProjectAgrees DEF TaskMoves, TaskRow
  <2>2. VerifiedIsProved' /\ PackageAgrees'
    BY <1>1, ProjectAgrees DEF TaskMoves, VerifiedIsProved, PackageAgrees, Frozen
  <2> QED
    BY <2>1, <2>2
<1>2. ASSUME NEW f \in Field, UpdateField(d, f)
      PROVE  PublishingInv'
  <2> DEFINE filled == task[d].filled \cup {f}
             s == IF filled = Field THEN "CONTENT_GENERATED" ELSE "READY_FOR_CONTENT"
  <2>1. filled \in SUBSET Field
    BY <1>0 DEF TaskRow
  <2>2. s \in TaskStatus \ Frozen
    BY DEF TaskStatus, Frozen
  <2>3. task' = [task EXCEPT ![d].filled = filled, ![d].status = s]
    BY <1>2 DEF UpdateField
  <2> HIDE DEF filled, s
  <2> QED
    BY <1>0, <1>1, <1>2, <2>1, <2>2, <2>3, TaskUpdates DEF UpdateField
<1>3. ASSUME NEW f \in Field, NEW on \in BOOLEAN, LockField(d, f, on)
      PROVE  PublishingInv'
  <2> DEFINE locked == IF on THEN task[d].locked \cup {f} ELSE task[d].locked \ {f}
  <2>1. locked \in SUBSET Field
    BY <1>0 DEF TaskRow
  <2>2. task' = [task EXCEPT ![d].locked = locked]
    BY <1>3 DEF LockField
  <2> HIDE DEF locked
  <2>3. TaskMoves(d, task[d].status)
    BY <1>0, <2>1, <2>2, TaskUpdates
  <2> QED
    BY <1>3, <2>3 DEF LockField, TaskMoves, TaskRow, VerifiedIsProved, PackageAgrees
<1>4. CASE ApproveContent(d)
  BY <1>0, <1>1, <1>4, TaskUpdates DEF ApproveContent, TaskStatus, Frozen
<1>5. CASE RequestRevision(d)
  BY <1>0, <1>1, <1>5, TaskUpdates DEF RequestRevision, RevisedPackage, TaskStatus, Frozen
<1> QED
  BY <1>2, <1>3, <1>4, <1>5 DEF Content

(* The post, its proof and its verification leave the package as it is. *)
LEMMA PostingKeeps ==
    ASSUME PublishingInv, NEW d \in Destination, Posting(d)
    PROVE  PublishingInv'
<1> USE DEF PublishingInv, PublishingTypeOK
<1>0. task \in [Destination -> TaskRow]
  BY DEF TaskRow
<1>1. CASE StartPosting(d)
  <2>1. TaskMoves(d, "POSTING_MANUAL")
    BY <1>0, <1>1, TaskUpdates DEF StartPosting, TaskStatus
  <2> QED
    BY <1>1, <2>1 DEF StartPosting, TaskMoves, TaskRow, VerifiedIsProved, PackageAgrees, Approved
<1>2. CASE SubmitProof(d)
  <2>1. TaskMoves(d, "PUBLISHED")
    BY <1>0, <1>2, TaskUpdates DEF SubmitProof, TaskStatus
  <2> QED
    BY <1>2, <2>1
    DEF SubmitProof, TaskMoves, TaskRow, VerifiedIsProved, PackageAgrees, Approved, ProofStatus
<1>3. ASSUME NEW ok \in BOOLEAN, Verify(d, ok)
      PROVE  PublishingInv'
  <2>1. TaskMoves(d, Verified(ok))
    BY <1>0, <1>3, TaskUpdates DEF Verify, Verified, TaskStatus
  <2>2. PublishingTypeOK'
    BY <1>3, <2>1 DEF Verify, TaskMoves, TaskRow, ProofStatus
  <2>3. VerifiedIsProved' /\ PackageAgrees'
    BY <1>3, <2>1 DEF Verify, Verified, TaskMoves, VerifiedIsProved, PackageAgrees, Approved
  <2> QED
    BY <2>2, <2>3
<1> QED
  BY <1>1, <1>2, <1>3 DEF Posting

-----------------------------------------------------------------------------
(* The video and its finished files. *)

DeletionInv ==
    /\ DeletionTypeOK
    /\ cast \in Casts
    /\ TickIsDue
    /\ OthersAreQuiet
    /\ OutputsFollowVideo
    /\ ProofsAreRows
    /\ NeverPublished

(* What jobs, exports, Studio and publishing may do to the video and its files: *)
(* the video does not enter its deletion, and does not leave it.                *)
GoesOn ==
    /\ video' = video \/ (Exists /\ ~InDeletion /\ Exists' /\ ~InDeletion')
    /\ video = "gone" => UNCHANGED <<job, lease>>
    /\ \A a \in Output :
           /\ asset'[a].status = asset[a].status /\ asset'[a].was = asset[a].was
           /\ asset[a].linked => asset'[a].linked
           /\ video = "gone" /\ asset'[a].linked => asset[a].linked
           /\ object'[a] = object[a]
    /\ UNCHANGED <<deletion, runner>>

(* What goes on leaves the deletion as it was. *)
LEMMA GoesOnKeeps ==
    ASSUME DeletionInv, GoesOn, DeletionTypeOK', UNCHANGED <<proven, publishingVars, cast>>,
           cast # "studio"
    PROVE  DeletionInv'
<1> USE DEF DeletionInv, GoesOn, publishingVars
<1>1. TickIsDue'
  BY DEF TickIsDue, Ticking, InDeletion
<1>2. OthersAreQuiet'
  BY DEF OthersAreQuiet, InDeletion, Exists
<1>3. OutputsFollowVideo'
  BY DEF OutputsFollowVideo, Blank, InDeletion, Exists
<1>4. ProofsAreRows' /\ NeverPublished'
  BY DEF ProofsAreRows, NeverPublished, InDeletion, Exists
<1> QED
  BY <1>1, <1>2, <1>3, <1>4

(* The work on the video goes on in this sense. *)
LEMMA WorkGoesOn ==
    ASSUME DeletionInv, Tasks \/ ExportSubtitles \/ Review \/ CreateJob
    PROVE  GoesOn /\ UNCHANGED proven
<1> USE DEF DeletionInv, DeletionTypeOK, VideoTypeOK
<1>1. CASE Claim \/ Reap \/ OtherTaskFails \/ Review \/ CreateJob
  BY <1>1
  DEF Claim, Reap, OtherTaskFails, Review, CreateJob, Projected, uploadVars, GoesOn,
      OthersAreQuiet, InDeletion, Exists, ActiveJob
<1>2. ASSUME NEW u \in Upload,
             CreateOutput(u) \/ RefreshOutput(u) \/ Put(u) \/ CheckCommit(u) \/ WriteCommit(u)
      PROVE  GoesOn /\ UNCHANGED proven
  <2>1. u \in Asset /\ Output \subseteq Asset \ {u}
    BY DEF Asset
  <2>2. CASE CreateOutput(u)
    BY <2>1, <2>2, StatusSet DEF CreateOutput, GoesOn
  <2>3. CASE Put(u)
    BY <2>1, <2>3 DEF Put, GoesOn, uploadVars
  <2>4. CASE RefreshOutput(u) \/ CheckCommit(u)
    BY <2>4 DEF RefreshOutput, CheckCommit, GoesOn, videoVars
  <2>5. CASE WriteCommit(u)
    BY <2>1, <2>5, StatusSet DEF WriteCommit, GoesOn
  <2> QED
    BY <1>2, <2>2, <2>3, <2>4, <2>5
<1>3. ASSUME NEW op, NEW us, CheckReport(op, us)
      PROVE  GoesOn /\ UNCHANGED proven
  BY <1>3 DEF CheckReport, GoesOn, videoVars
<1>4. ASSUME NEW b \in BOOLEAN, WriteComplete(b)
      PROVE  GoesOn /\ UNCHANGED proven
  <2>1. ASSUME NEW a \in Output, Exists
        PROVE  /\ asset'[a].status = asset[a].status /\ asset'[a].was = asset[a].was
               /\ asset[a].linked => asset'[a].linked
    <3> DEFINE linked == asset[a].linked \/ a \in report.uploads
               row == [asset[a] EXCEPT !.linked = linked]
    <3>1. a \in Asset /\ asset[a] \in AssetRow
      BY DEF Asset
    <3>2. asset'[a] = row
      BY <1>4, <2>1, <3>1 DEF WriteComplete
    <3>3. linked \in BOOLEAN /\ (asset[a].linked => linked)
      OBVIOUS
    <3> HIDE DEF linked
    <3>4. row.status = asset[a].status /\ row.was = asset[a].was /\ row.linked = linked
      BY <3>1, <3>3 DEF AssetRow
    <3> QED
      BY <3>2, <3>3, <3>4
  <2> QED
    BY <1>4, <2>1 DEF WriteComplete, GoesOn, Projected, InDeletion, Exists
<1>5. ASSUME NEW b \in BOOLEAN, WriteFail(b)
      PROVE  GoesOn /\ UNCHANGED proven
  BY <1>5 DEF WriteFail, GoesOn, Exists
<1>6. CASE ExportBegin \/ ExportPut \/ ExportCheck
  BY <1>6 DEF ExportBegin, ExportPut, ExportCheck, GoesOn, videoVars, Asset
<1>7. CASE ExportUpsert \/ ExportSucceed
  <2>1. ASSUME NEW a \in Output
        PROVE  /\ asset'[a].status = asset[a].status /\ asset'[a].was = asset[a].was
               /\ asset'[a].linked <=> asset[a].linked
    <3> DEFINE linked == asset[a].linked \/ (a \in Control /\ Exists)
               row == [asset[a] EXCEPT !.linked = linked]
    <3>1. a \in Asset /\ asset[a] \in AssetRow /\ a \notin Control
      BY DEF Asset
    <3>2. asset'[a] = IF ExportUpsert THEN asset[a] ELSE row
      BY <1>7, <3>1 DEF ExportUpsert, ExportSucceed
    <3>3. linked \in BOOLEAN /\ (asset[a].linked <=> linked)
      BY <3>1
    <3> HIDE DEF linked
    <3>4. row.status = asset[a].status /\ row.was = asset[a].was /\ row.linked = linked
      BY <3>1, <3>3 DEF AssetRow
    <3> QED
      BY <3>2, <3>3, <3>4
  <2> QED
    BY <1>7, <2>1
    DEF ExportUpsert, ExportSucceed, GoesOn, Projected, OthersAreQuiet, InDeletion, Exists
<1> QED
  BY <1>1, <1>2, <1>3, <1>4, <1>5, <1>6, <1>7 DEF Tasks, ExportSubtitles

(* A post needs the finished files, so none is proved while they are deleted; *)
(* and a package, so none is proved afterwards.                               *)
LEMMA WorkspaceKeeps ==
    ASSUME DeletionInv, PublishingTypeOK, Workspace
    PROVE  DeletionInv'
<1> USE DEF DeletionInv
<1>1. /\ UNCHANGED <<job, lease, asset, object, uploadVars, deletion, runner, cast>>
      /\ cast = "workspace"
      /\ Preparation \/ \E d \in Destination : Content(d) \/ Posting(d)
  BY DEF Workspace, PublishingStep, Preparation, Content, Posting, ApproveOutputs, CreatePackage,
         CheckChecklist, WriteChecklist, UpdateField, LockField, ApproveContent, RequestRevision,
         StartPosting, SubmitProof, Verify, videoVars
<1>2. ASSUME UNCHANGED <<video, proven, proof>>, Exists \/ UNCHANGED package
      PROVE  DeletionInv'
  <2>1. DeletionTypeOK'
    BY <1>1, <1>2 DEF DeletionTypeOK, VideoTypeOK, uploadVars
  <2>2. TickIsDue' /\ OthersAreQuiet' /\ OutputsFollowVideo'
    BY <1>1, <1>2
    DEF TickIsDue, Ticking, OthersAreQuiet, OutputsFollowVideo, Blank, InDeletion, Exists
  <2>3. ProofsAreRows' /\ NeverPublished'
    BY <1>1, <1>2 DEF ProofsAreRows, NeverPublished
  <2> QED
    BY <1>1, <2>1, <2>2, <2>3
<1>3. CASE Preparation
  BY <1>2, <1>3
  DEF Preparation, ApproveOutputs, CreatePackage, CheckChecklist, WriteChecklist, videoVars
<1>4. ASSUME NEW d \in Destination, Content(d) \/ StartPosting(d)
      PROVE  DeletionInv'
  <2>1. package # "none"
    BY <1>4
    DEF Content, UpdateField, LockField, ApproveContent, RequestRevision, StartPosting, Mutable,
        Known
  <2>2. UNCHANGED <<video, proven, proof>>
    BY <1>4
    DEF Content, UpdateField, LockField, ApproveContent, RequestRevision, StartPosting, videoVars
  <2> QED
    BY <1>2, <2>1, <2>2 DEF OthersAreQuiet, Exists
<1>5. ASSUME NEW d \in Destination, SubmitProof(d)
      PROVE  DeletionInv'
  <2>1. video' = video /\ proven' = TRUE /\ UNCHANGED package
    BY <1>5 DEF SubmitProof
  <2>2. Exists /\ ~InDeletion
    BY <1>5
    DEF SubmitProof, Known, AssetsReady, Available, OthersAreQuiet, OutputsFollowVideo, Exists
  <2>3. DeletionTypeOK'
    BY <1>1, <2>1 DEF DeletionTypeOK, VideoTypeOK, uploadVars
  <2>4. TickIsDue' /\ OthersAreQuiet' /\ OutputsFollowVideo'
    BY <1>1, <2>1
    DEF TickIsDue, Ticking, OthersAreQuiet, OutputsFollowVideo, Blank, InDeletion, Exists
  <2>5. ProofsAreRows' /\ NeverPublished'
    BY <2>1, <2>2 DEF ProofsAreRows, NeverPublished, InDeletion, Exists
  <2> QED
    BY <1>1, <2>3, <2>4, <2>5
<1>6. ASSUME NEW d \in Destination, NEW ok \in BOOLEAN, Verify(d, ok)
      PROVE  DeletionInv'
  <2>1. video' \in {video, "PUBLISHED"} /\ UNCHANGED <<proven, package>>
    BY <1>6 DEF Verify
  <2>2. proven /\ Exists /\ ~InDeletion
    BY <1>6 DEF Verify, ProofsAreRows, NeverPublished, Exists, InDeletion
  <2>3. DeletionTypeOK'
    BY <1>1, <2>1 DEF DeletionTypeOK, VideoTypeOK, uploadVars, VideoStatus
  <2>4. TickIsDue' /\ OthersAreQuiet' /\ OutputsFollowVideo'
    BY <1>1, <2>1, <2>2
    DEF TickIsDue, Ticking, OthersAreQuiet, OutputsFollowVideo, Blank, InDeletion, Exists
  <2>5. ProofsAreRows' /\ NeverPublished'
    BY <2>1, <2>2 DEF ProofsAreRows, NeverPublished, InDeletion, Exists
  <2> QED
    BY <1>1, <2>3, <2>4, <2>5
<1> QED
  BY <1>1, <1>3, <1>4, <1>5, <1>6 DEF Posting

(* What Studio works on does not come into a deletion. *)
LEMMA StudioKeeps ==
    ASSUME DeletionInv, ScriptInv',
           \/ ScriptStep(FullPipeline) \/ ScriptStep(Editor)
           \/ \E j \in StudioJob : ScriptStep(StudioTask(j))
    PROVE  DeletionInv'
<1> USE DEF DeletionInv
<1>1. /\ UNCHANGED <<job, lease, asset, object, proven, uploadVars, deletion, runner,
                     publishingVars, cast>>
      /\ cast = "studio"
      /\ FullPipeline \/ Editor \/ \E j \in StudioJob : StudioTask(j)
  BY DEF ScriptStep
<1>2. Exists /\ ~InDeletion /\ runner.phase = "idle"
  BY <1>1 DEF OthersAreQuiet
<1>3. video' \in VideoStatus
  BY <1>1 DEF ScriptInv
<1>4. ASSUME NEW t, Succeed(t)
      PROVE  Exists' /\ ~InDeletion'
  BY <1>2, <1>4 DEF Succeed, Projected, Exists, InDeletion
<1>5. Exists' /\ ~InDeletion'
  <2>1. CASE FullPipeline
    BY <1>2, <1>4, <2>1
    DEF FullPipeline, DubAll, SeparateAudio, ReadScript, LinkSubtitles, Render, ClaimStep,
        RetryStep, FailStep, CancelFull, Projected, Exists, InDeletion
  <2>2. CASE Editor
    BY <1>2, <2>2
    DEF Editor, Load, PassReview, DecideOtherwise, Edit, Rerender, Regenerate, CreateStudioJob,
        Exists, InDeletion
  <2>3. ASSUME NEW j \in StudioJob, StudioTask(j)
        PROVE  Exists' /\ ~InDeletion'
    BY <1>2, <2>3
    DEF StudioTask, ClaimJob, CompleteJob, CancelStudioJob, RetryJob, FailJob, Projected, Exists,
        InDeletion
  <2> QED
    BY <1>1, <2>1, <2>2, <2>3
<1>6. DeletionTypeOK'
  BY <1>1, <1>3 DEF DeletionTypeOK, VideoTypeOK, uploadVars
<1>7. TickIsDue' /\ OthersAreQuiet' /\ OutputsFollowVideo'
  BY <1>1, <1>2, <1>5
  DEF TickIsDue, Ticking, OthersAreQuiet, OutputsFollowVideo, Blank, InDeletion, Exists
<1>8. ProofsAreRows' /\ NeverPublished'
  BY <1>1, <1>5 DEF ProofsAreRows, NeverPublished, InDeletion, Exists, publishingVars
<1> QED
  BY <1>1, <1>6, <1>7, <1>8

(* Assets that are marked remember what they were; the others are left alone. *)
LEMMA Marked ==
    ASSUME asset \in [Asset -> AssetRow], NEW as, MarkDeleting(as), NEW a \in Asset
    PROVE  /\ asset'[a].linked = asset[a].linked
           /\ a \in as /\ asset[a].status \in {"AVAILABLE", "PENDING"} =>
                  asset'[a].status = "DELETING" /\ asset'[a].was = asset[a].status
           /\ ~(a \in as /\ asset[a].status \in {"AVAILABLE", "PENDING"}) => asset'[a] = asset[a]
<1> DEFINE row == [asset[a] EXCEPT !.status = "DELETING", !.was = asset[a].status]
<1>1. row.linked = asset[a].linked /\ row.status = "DELETING" /\ row.was = asset[a].status
  BY DEF AssetRow
<1>2. asset'[a] = IF a \in as /\ asset[a].status \in {"AVAILABLE", "PENDING"} THEN row ELSE asset[a]
  BY DEF MarkDeleting
<1> HIDE DEF row
<1> QED
  BY <1>1, <1>2

(* The request, and the runner's tick until it removes the rows. *)
LEMMA DeletionKeeps ==
    ASSUME DeletionInv, cast # "studio", UNCHANGED <<publishingVars, cast>>,
           \/ RequestDeletion \/ Tick \/ TickFails \/ DeletionClock \/ Crash \/ Restart
           \/ \E u \in Upload : GrantExpires(u)
    PROVE  DeletionInv'
<1> USE DEF DeletionInv, publishingVars
<1>0. /\ asset \in [Asset -> AssetRow] /\ object \in [Asset -> BOOLEAN]
      /\ deletion \in Deletion /\ runner \in Runner
  BY DEF DeletionTypeOK, VideoTypeOK
<1>1. DeletionTypeOK'
  BY DeletionTypes
<1>2. UNCHANGED proven
  BY DEF RequestDeletion, Tick, ClaimDeletion, ListAssets, Purge, AfterPurge, Reschedule,
         RecordFailure, TickFails, FinalizeFails, PurgeFails, LoseFailure, DeletionClock, BecomeDue,
         GraceEnds, Crash, Restart, GrantExpires, videoVars
<1>3. Output \subseteq Asset
  BY DEF Asset
<1>4. CASE RequestDeletion
  <2>1. /\ Exists /\ video # "DELETING" /\ ~proven /\ video' = "DELETING"
        /\ MarkDeleting(VideoAssets) /\ UNCHANGED <<object, runner>>
        /\ deletion'.attempts = 0
    BY <1>0, <1>4 DEF RequestDeletion
  <2>2. TickIsDue' /\ OthersAreQuiet' /\ ProofsAreRows' /\ NeverPublished'
    BY <1>2, <2>1
    DEF TickIsDue, Ticking, OthersAreQuiet, ProofsAreRows, NeverPublished
  <2>3. ASSUME NEW a \in Output
        PROVE  /\ asset'[a].linked /\ asset'[a].status \in {"DELETING", "DELETED"}
               /\ asset'[a].status = "DELETED" => ~object[a]
    <3>1. a \in Asset /\ asset[a].linked /\ asset[a].status \in {"AVAILABLE", "DELETING", "DELETED"}
          /\ a \in VideoAssets
      BY <1>3, <2>1 DEF OutputsFollowVideo, VideoAssets
    <3> QED
      BY <1>0, <2>1, <3>1, Marked DEF OutputsFollowVideo
  <2> QED
    BY <1>1, <2>1, <2>2, <2>3 DEF OutputsFollowVideo, InDeletion, Exists
<1>5. CASE Reschedule
  <2>1. /\ Ticking /\ video = "DELETING" /\ video' = video
        /\ MarkDeleting(Stragglers) /\ UNCHANGED object
        /\ deletion'.attempts = deletion.attempts /\ runner'.phase = "idle"
    BY <1>0, <1>5 DEF Reschedule, Ticking, Idle, Deletion
  <2>2. TickIsDue' /\ OthersAreQuiet' /\ ProofsAreRows' /\ NeverPublished'
    BY <1>2, <2>1
    DEF TickIsDue, Ticking, OthersAreQuiet, ProofsAreRows, NeverPublished
  <2>3. \A a \in Output : asset'[a] = asset[a]
    BY <1>0, <1>3, <2>1, Marked DEF OutputsFollowVideo, InDeletion
  <2> QED
    BY <1>1, <2>1, <2>2, <2>3 DEF OutputsFollowVideo, InDeletion, Exists
<1>6. ASSUME UNCHANGED <<video, job, lease, asset, object>>, TickIsDue'
      PROVE  DeletionInv'
  <2>1. OthersAreQuiet' /\ OutputsFollowVideo' /\ ProofsAreRows' /\ NeverPublished'
    BY <1>2, <1>6
    DEF OthersAreQuiet, OutputsFollowVideo, Blank, ProofsAreRows, NeverPublished, InDeletion, Exists
  <2> QED
    BY <1>1, <1>6, <2>1
<1>7. CASE ClaimDeletion \/ ListAssets \/ AfterPurge \/ FinalizeFails \/ LoseFailure
  <2> USE DEF TickIsDue, Ticking, videoVars
  <2>1. TickIsDue'
    <3>1. CASE ClaimDeletion
      BY <1>0, <3>1 DEF ClaimDeletion, Deletion
    <3>2. CASE ListAssets
      BY <1>0, <3>2 DEF ListAssets, Runner
    <3>3. CASE AfterPurge
      BY <1>0, <3>3 DEF AfterPurge, Idle, Runner
    <3>4. CASE FinalizeFails
      <4>1. runner'.attempts = runner.attempts /\ runner'.phase = "failing"
        BY <1>0, <3>4 DEF FinalizeFails, Runner
      <4> QED
        BY <3>4, <4>1 DEF FinalizeFails
    <3>5. CASE LoseFailure
      BY <3>5 DEF LoseFailure, Idle
    <3> QED
      BY <1>7, <3>1, <3>2, <3>3, <3>4, <3>5
  <2> QED
    BY <1>6, <1>7, <2>1
    DEF ClaimDeletion, ListAssets, AfterPurge, FinalizeFails, LoseFailure, videoVars
<1>8. CASE DeletionClock \/ Crash \/ Restart \/ \E u \in Upload : GrantExpires(u)
  <2>1. TickIsDue'
    BY <1>0, <1>8
    DEF DeletionClock, BecomeDue, GraceEnds, Crash, Restart, GrantExpires, TickIsDue, Ticking, Idle,
        videoVars, Deletion
  <2> QED
    BY <1>6, <1>8, <2>1
    DEF DeletionClock, BecomeDue, GraceEnds, Crash, Restart, GrantExpires, videoVars
<1>9. ASSUME NEW a \in Asset, Purge(a) \/ PurgeFails(a)
      PROVE  DeletionInv'
  <2>1. /\ runner.phase = "purging" /\ UNCHANGED <<video, job, lease, deletion>>
        /\ runner'.phase \in {"purging", "failing"} /\ runner'.attempts = runner.attempts
        /\ \A b \in Asset : object'[b] => object[b]
    BY <1>0, <1>9 DEF Purge, PurgeFails, uploadVars, Runner
  <2>2. TickIsDue' /\ OthersAreQuiet' /\ ProofsAreRows' /\ NeverPublished'
    BY <1>2, <2>1 DEF TickIsDue, Ticking, OthersAreQuiet, ProofsAreRows, NeverPublished
  <2>3. video = "DELETING"
    BY <2>1 DEF TickIsDue, Ticking
  <2>4. ASSUME NEW b \in Output
        PROVE  /\ asset'[b].linked /\ asset'[b].status \in {"DELETING", "DELETED"}
               /\ asset'[b].status = "DELETED" => ~object'[b]
    <3>1. /\ b \in Asset /\ asset[b].linked /\ asset[b].status \in {"DELETING", "DELETED"}
          /\ asset[b].status = "DELETED" => ~object[b]
      BY <1>3, <2>3 DEF OutputsFollowVideo, InDeletion, Exists
    <3>2. CASE PurgeFails(a)
      BY <2>1, <3>1, <3>2 DEF PurgeFails
    <3>3. CASE Purge(a)
      <4> DEFINE status == IF asset[a].status = "DELETING" THEN "DELETED" ELSE asset[a].status
      <4>1. status \in {"none", "PENDING", "AVAILABLE", "DELETING", "DELETED"}
        BY <1>0, AssetRowUpdates
      <4>2. asset' = [asset EXCEPT ![a].status = status] /\ ~object'[a]
        BY <1>0, <3>3 DEF Purge
      <4>3. status \in {asset[a].status, "DELETED"}
        OBVIOUS
      <4> HIDE DEF status
      <4>4. /\ asset'[a].status = status /\ asset'[a].linked = asset[a].linked
            /\ \A c \in Asset \ {a} : asset'[c] = asset[c]
        BY <1>0, <4>1, <4>2, StatusSet
      <4> QED
        BY <2>1, <3>1, <4>2, <4>3, <4>4
    <3> QED
      BY <1>9, <3>2, <3>3
  <2> QED
    BY <1>1, <2>1, <2>2, <2>3, <2>4 DEF OutputsFollowVideo, InDeletion, Exists
<1>10. CASE RecordFailure
  <2>1. video = "DELETING" /\ runner'.phase = "idle" /\ UNCHANGED <<job, lease, asset, object>>
    BY <1>10 DEF RecordFailure, TickIsDue, Ticking, Idle
  <2>2. /\ video' \in {"DELETING", "DELETE_FAILED"}
        /\ video' = "DELETING" => deletion'.attempts < MaxAttempts
    <3> DEFINE n == runner.attempts + 1
    <3>1. n \in Nat
      BY <1>0 DEF Runner
    <3>2. /\ video' = IF n >= MaxAttempts THEN "DELETE_FAILED" ELSE video
          /\ deletion' = [deletion EXCEPT !.attempts = n,
                                          !.next = IF n >= MaxAttempts THEN "never" ELSE "later"]
      BY <1>10, <2>1 DEF RecordFailure, Failures
    <3>3. deletion'.attempts = n
      BY <1>0, <3>2 DEF Deletion
    <3> HIDE DEF n
    <3> QED
      BY <2>1, <3>1, <3>2, <3>3
  <2>3. TickIsDue' /\ OthersAreQuiet' /\ ProofsAreRows' /\ NeverPublished'
    BY <1>2, <2>1, <2>2 DEF TickIsDue, Ticking, OthersAreQuiet, ProofsAreRows, NeverPublished
  <2>4. OutputsFollowVideo'
    BY <2>1, <2>2 DEF OutputsFollowVideo, Blank, InDeletion, Exists
  <2> QED
    BY <1>1, <2>3, <2>4
<1> QED
  BY <1>4, <1>5, <1>7, <1>8, <1>9, <1>10 DEF Tick, TickFails

(* The rows go when the objects of all finished files have gone. *)
LEMMA RemoveRowsKeeps ==
    ASSUME DeletionInv, RemoveRows, UNCHANGED cast,
           IF video' = "gone" THEN PublishingGone ELSE UNCHANGED publishingVars
    PROVE  DeletionInv'
<1> USE DEF DeletionInv
<1>1. DeletionTypeOK'
  BY DeletionTypes
<1>2. /\ video = "DELETING" /\ cast # "studio" /\ ~proven /\ UNCHANGED <<object, proven, deletion>>
      /\ Stragglers = {}
  BY DEF RemoveRows, TickIsDue, Ticking, OthersAreQuiet, InDeletion, NeverPublished
<1>3. /\ runner' = Idle /\ video' = "gone" /\ job' = "none" /\ lease' = FALSE
      /\ asset' = [a \in Asset |-> IF a \in VideoAssets THEN NoAsset ELSE asset[a]]
  BY <1>2 DEF RemoveRows
<1>4. PublishingGone
  BY <1>3
<1>5. TickIsDue' /\ OthersAreQuiet'
  BY <1>2, <1>3, <1>4 DEF TickIsDue, Ticking, OthersAreQuiet, Idle, PublishingGone
<1>6. ProofsAreRows' /\ NeverPublished'
  BY <1>2, <1>4 DEF ProofsAreRows, NeverPublished, PublishingGone
<1>7. ASSUME NEW a \in Output
      PROVE  Blank(a)'
  <2>1. /\ a \in Asset /\ asset[a].linked /\ asset[a].status \in {"DELETING", "DELETED"}
        /\ asset[a].status = "DELETED" => ~object[a]
    BY <1>2 DEF OutputsFollowVideo, InDeletion, Exists, Asset
  <2>2. a \in VideoAssets /\ ~object[a]
    BY <1>2, <2>1 DEF VideoAssets, Stragglers
  <2> QED
    BY <1>2, <1>3, <2>1, <2>2 DEF Blank, NoAsset
<1>8. OutputsFollowVideo'
  BY <1>3, <1>7 DEF OutputsFollowVideo, Blank, InDeletion, Exists
<1> QED
  BY <1>1, <1>2, <1>5, <1>6, <1>8

-----------------------------------------------------------------------------
(* Uploads.  With QuickRetry a failed deletion may begin again, without its *)
(* grace period, while URLs are live that it has waited for.                *)

UploadInv == UploadsEnd /\ UploadsHaveRows

(* Steps that leave uploads alone, and the grace period. *)
UploadsAlone ==
    /\ \A u \in Upload :
           /\ asset'[u].status = asset[u].status /\ asset'[u].was = asset[u].was
           /\ asset'[u].linked => asset[u].linked \/ (Exists /\ u \in sent)
           /\ object'[u] = object[u]
    /\ UNCHANGED <<grant, sent>> /\ commits' \subseteq commits
    /\ report'.uploads \subseteq report.uploads \cup sent
    /\ deletion'.grace = deletion.grace
    /\ Exists' <=> Exists
    /\ Exists' /\ ~InDeletion' => ~InDeletion

(* They keep what is known of uploads. *)
LEMMA UploadsAloneKeeps == UploadInv /\ UploadsAlone => UploadInv'
BY DEF UploadInv, UploadsAlone, UploadsEnd, UploadsHaveRows, Blank, Exists

(* What an agent uploads, and what the handlers write of it. *)
LEMMA UploadStep ==
    ASSUME DeletionInv, UploadInv, NEW u \in Upload,
           \/ CreateOutput(u) \/ RefreshOutput(u) \/ GrantExpires(u)
           \/ Put(u) \/ CheckCommit(u) \/ WriteCommit(u)
    PROVE  UploadInv'
<1> USE DEF UploadInv, UploadsEnd, UploadsHaveRows
<1>1. /\ asset \in [Asset -> AssetRow] /\ object \in [Asset -> BOOLEAN]
      /\ grant \in [Upload -> Grant] /\ lease \in BOOLEAN
      /\ u \in Asset /\ Upload \subseteq Asset
  BY DEF DeletionInv, DeletionTypeOK, VideoTypeOK, Asset
<1>2. lease => Exists
  BY DEF DeletionInv, OthersAreQuiet, Exists
<1>3. CASE CreateOutput(u)
  <2>1. /\ asset'[u].status = "PENDING"
        /\ \A v \in Upload \ {u} : asset'[v] = asset[v] /\ grant'[v] = grant[v]
        /\ UNCHANGED <<video, object, sent, commits, report, deletion>>
    BY <1>1, <1>3, StatusSet DEF CreateOutput
  <2> QED
    BY <1>2, <1>3, <2>1 DEF CreateOutput, Exists, InDeletion, Blank
<1>4. CASE RefreshOutput(u)
  BY <1>1, <1>2, <1>4 DEF RefreshOutput, videoVars, Exists, InDeletion, Blank
<1>5. CASE GrantExpires(u)
  BY <1>1, <1>5 DEF GrantExpires, videoVars, Exists, InDeletion, Blank
<1>6. CASE Put(u)
  BY <1>1, <1>6 DEF Put, uploadVars, Exists, InDeletion, Blank
<1>7. CASE CheckCommit(u)
  BY <1>1, <1>2, <1>7 DEF CheckCommit, videoVars, Exists, InDeletion, Blank
<1>8. CASE WriteCommit(u)
  <2>1. CASE asset[u].status = "none"
    BY <1>8, <2>1 DEF WriteCommit, Exists, InDeletion, Blank
  <2>2. CASE asset[u].status # "none"
    <3>1. /\ asset'[u].status = "AVAILABLE" /\ u \in sent
          /\ \A v \in Upload \ {u} : asset'[v] = asset[v]
          /\ commits' \subseteq commits
          /\ UNCHANGED <<video, object, grant, sent, report, deletion>>
      BY <1>1, <1>8, <2>2, StatusSet DEF WriteCommit
    <3> QED
      BY <2>2, <3>1 DEF Exists, InDeletion, Blank
  <2> QED
    BY <2>1, <2>2
<1> QED
  BY <1>3, <1>4, <1>5, <1>6, <1>7, <1>8

(* What else goes on leaves uploads alone. *)
LEMMA WorkLeavesUploads ==
    ASSUME DeletionInv, UploadInv,
           \/ Claim \/ Reap \/ OtherTaskFails \/ Review \/ CreateJob \/ ExportSubtitles
           \/ \E op \in {"complete", "fail"}, us \in SUBSET Upload : CheckReport(op, us)
           \/ \E b \in BOOLEAN : WriteComplete(b) \/ WriteFail(b)
    PROVE  UploadsAlone
<1>0. /\ asset \in [Asset -> AssetRow] /\ object \in [Asset -> BOOLEAN]
      /\ Upload \subseteq Asset /\ Upload \cap Control = {}
  BY DEF DeletionInv, DeletionTypeOK, VideoTypeOK, Asset
<1>1. CASE Claim \/ Reap \/ OtherTaskFails \/ Review \/ CreateJob
  BY <1>1
  DEF Claim, Reap, OtherTaskFails, Review, CreateJob, Projected, uploadVars, UploadsAlone,
      DeletionInv, OthersAreQuiet, InDeletion, Exists, ActiveJob
<1>2. ASSUME NEW op, NEW us \in SUBSET Upload, CheckReport(op, us)
      PROVE  UploadsAlone
  BY <1>2 DEF CheckReport, UploadsAlone, videoVars, Exists, InDeletion
<1>3. ASSUME NEW b \in BOOLEAN, WriteFail(b)
      PROVE  UploadsAlone
  BY <1>3 DEF WriteFail, NoReport, UploadsAlone, Exists, InDeletion
<1>4. ASSUME NEW b \in BOOLEAN, WriteComplete(b)
      PROVE  UploadsAlone
  <2>1. ASSUME NEW a \in Upload, Exists
        PROVE  /\ asset'[a].status = asset[a].status /\ asset'[a].was = asset[a].was
               /\ asset'[a].linked => asset[a].linked \/ a \in sent
    <3> DEFINE linked == asset[a].linked \/ a \in report.uploads
               row == [asset[a] EXCEPT !.linked = linked]
    <3>1. a \in Asset /\ asset[a] \in AssetRow
      BY <1>0
    <3>2. asset'[a] = row
      BY <1>4, <2>1, <3>1 DEF WriteComplete
    <3>3. linked \in BOOLEAN /\ (linked => asset[a].linked \/ a \in sent)
      BY DEF UploadInv, UploadsEnd
    <3> HIDE DEF linked
    <3>4. row.status = asset[a].status /\ row.was = asset[a].was /\ row.linked = linked
      BY <3>1, <3>3 DEF AssetRow
    <3> QED
      BY <3>2, <3>3, <3>4
  <2> QED
    BY <1>4, <2>1 DEF WriteComplete, NoReport, UploadsAlone, Projected, InDeletion, Exists
<1>5. CASE ExportBegin \/ ExportPut \/ ExportCheck
  BY <1>0, <1>5
  DEF ExportBegin, ExportPut, ExportCheck, UploadsAlone, videoVars, Exists, InDeletion
<1>6. CASE ExportUpsert
  BY <1>0, <1>6 DEF ExportUpsert, UploadsAlone, Exists, InDeletion
<1>7. CASE ExportSucceed
  <2>1. ASSUME NEW a \in Upload
        PROVE  /\ asset'[a].status = asset[a].status /\ asset'[a].was = asset[a].was
               /\ asset'[a].linked <=> asset[a].linked
    <3> DEFINE linked == asset[a].linked \/ (a \in Control /\ Exists)
               row == [asset[a] EXCEPT !.linked = linked]
    <3>1. a \in Asset /\ asset[a] \in AssetRow /\ a \notin Control
      BY <1>0
    <3>2. asset'[a] = row
      BY <1>7, <3>1 DEF ExportSucceed
    <3>3. linked \in BOOLEAN /\ (asset[a].linked <=> linked)
      BY <3>1
    <3> HIDE DEF linked
    <3>4. row.status = asset[a].status /\ row.was = asset[a].was /\ row.linked = linked
      BY <3>1, <3>3 DEF AssetRow
    <3> QED
      BY <3>2, <3>3, <3>4
  <2> QED
    BY <1>7, <2>1
    DEF ExportSucceed, UploadsAlone, Projected, DeletionInv, OthersAreQuiet, Exists, InDeletion
<1> QED
  BY <1>1, <1>2, <1>3, <1>4, <1>5, <1>6, <1>7 DEF ExportSubtitles

(* Marking an upload: a URL that is live now lives as long as the grace period *)
(* at most, and an upload that was marked before has none, or its grace.       *)
LEMMA MarkUploads ==
    ASSUME DeletionInv, UploadInv, NEW as,
           \A u \in Upload : asset[u].status \in {"PENDING", "AVAILABLE"} => u \in as,
           MarkDeleting(as), AgeGrants, Exists, video' = "DELETING",
           deletion'.grace = NeedsGrace(as), UNCHANGED <<object, sent, commits, report>>,
           \A u \in Upload \ sent : asset[u].status = "DELETING" => grant[u] = "none"
    PROVE  UploadInv'
<1> USE DEF UploadInv, UploadsEnd, UploadsHaveRows
<1>1. /\ asset \in [Asset -> AssetRow] /\ grant \in [Upload -> Grant] /\ Upload \subseteq Asset
  BY DEF DeletionInv, DeletionTypeOK, VideoTypeOK, Asset
<1>2. ASSUME NEW u \in Upload
      PROVE  /\ grant'[u] # "new" /\ (grant[u] = "none" => grant'[u] = "none")
             /\ asset'[u].status = "PENDING" => FALSE
             /\ asset[u].status = "none" => asset'[u] = asset[u]
             /\ asset[u].status \in {"DELETING", "DELETED"} => asset'[u] = asset[u]
             /\ asset[u].status = "PENDING" =>
                    /\ asset'[u].status = "DELETING" /\ asset'[u].was = "PENDING"
                    /\ deletion'.grace
             /\ asset[u].status = "AVAILABLE" => asset'[u].status = "DELETING"
  <2>1. grant'[u] # "new" /\ (grant[u] = "none" => grant'[u] = "none")
    BY <1>1 DEF AgeGrants
  <2>2. u \in Asset /\ asset[u].status \in {"none", "PENDING", "AVAILABLE", "DELETING", "DELETED"}
    BY <1>1 DEF AssetRow
  <2>3. asset[u].status = "PENDING" => NeedsGrace(as)
    BY DEF NeedsGrace, Pending
  <2> QED
    BY <1>1, <2>1, <2>2, <2>3, Marked
<1>3. ASSUME NEW u \in Upload
      PROVE  asset[u].status \in {"none", "PENDING", "AVAILABLE", "DELETING", "DELETED"}
  BY <1>1 DEF AssetRow
<1>4. UploadsEnd'
  <2>1. ASSUME NEW u \in Upload, u \in commits' \/ u \in report'.uploads
        PROVE  u \in sent'
    BY <2>1
  <2>2. ASSUME NEW u \in Upload, u \notin sent'
        PROVE  /\ asset'[u].status # "AVAILABLE"
               /\ asset'[u].status = "DELETING" =>
                      /\ asset'[u].was = "PENDING" /\ grant'[u] # "new"
                      /\ deletion'.grace \/ grant'[u] = "none"
    BY <1>2, <1>3, <2>2
  <2>3. ASSUME NEW u \in Upload, asset'[u].status = "DELETED"
        PROVE  ~object'[u] /\ (u \in sent' \/ grant'[u] = "none")
    BY <1>2, <1>3, <2>3
  <2> QED
    BY <2>1, <2>2, <2>3
<1>5. UploadsHaveRows'
  <2>1. \A u \in Upload : asset'[u].status = "none" => asset[u].status = "none"
    BY <1>2, <1>3
  <2>2. ASSUME NEW u \in Upload, asset'[u].status = "none"
        PROVE  Blank(u)' /\ grant'[u] = "none" /\ u \notin sent
    <3>1. asset[u].status = "none"
      BY <2>1, <2>2
    <3>2. Blank(u) /\ grant[u] = "none" /\ u \notin sent
      BY <3>1
    <3>3. asset'[u] = asset[u] /\ grant'[u] = "none"
      BY <1>2, <3>1, <3>2
    <3> QED
      BY <3>2, <3>3 DEF Blank
  <2> QED
    BY <2>2 DEF Exists, InDeletion
<1> QED
  BY <1>4, <1>5

(* The deletion, until it removes the rows. *)
LEMMA DeletionKeepsUploads ==
    ASSUME DeletionInv, UploadInv, ~QuickRetry,
           \/ RequestDeletion \/ Tick \/ TickFails \/ DeletionClock \/ Crash \/ Restart
    PROVE  UploadInv'
<1>0. /\ asset \in [Asset -> AssetRow] /\ object \in [Asset -> BOOLEAN]
      /\ deletion \in Deletion /\ runner \in Runner /\ grant \in [Upload -> Grant]
      /\ Upload \subseteq Asset
  BY DEF DeletionInv, DeletionTypeOK, VideoTypeOK, Asset
<1>1. CASE RequestDeletion
  <2>1. /\ Exists /\ video' = "DELETING" /\ MarkDeleting(VideoAssets) /\ AgeGrants
        /\ deletion'.grace = NeedsGrace(VideoAssets) /\ UNCHANGED <<object, sent, commits, report>>
        /\ video # "DELETING" /\ (video = "DELETE_FAILED" => DelayOver)
    <3> DEFINE grace == NeedsGrace(VideoAssets)
    <3>1. deletion' = [attempts |-> 0, next |-> "due", grace |-> grace]
      BY <1>1 DEF RequestDeletion
    <3>2. deletion'.grace = grace
      BY <3>1
    <3> QED
      BY <1>1, <3>2 DEF RequestDeletion, CancelJob
  <2>2. \A u \in Upload \ sent : asset[u].status = "DELETING" => grant[u] = "none"
    BY <1>0, <2>1 DEF UploadInv, UploadsEnd, UploadsHaveRows, InDeletion, Exists, DelayOver, Grant
  <2>3. \A u \in Upload : asset[u].status \in {"PENDING", "AVAILABLE"} => u \in VideoAssets
    BY <1>0 DEF VideoAssets
  <2> QED
    BY <2>1, <2>2, <2>3, MarkUploads
<1>2. CASE Reschedule
  <2>1. /\ Exists /\ video' = "DELETING" /\ MarkDeleting(Stragglers) /\ AgeGrants
        /\ deletion'.grace = NeedsGrace(Stragglers) /\ UNCHANGED <<object, sent, commits, report>>
        /\ ~deletion.grace
    <3> DEFINE grace == NeedsGrace(Stragglers)
    <3>1. deletion' = [deletion EXCEPT !.next = "due", !.grace = grace]
      BY <1>2 DEF Reschedule
    <3>2. grace \in BOOLEAN
      BY DEF NeedsGrace
    <3> HIDE DEF grace
    <3>3. deletion'.grace = grace
      BY <1>0, <3>1, <3>2 DEF Deletion
    <3> QED
      BY <1>2, <3>3 DEF grace, Reschedule, Exists, DeletionInv, TickIsDue
  <2>2. \A u \in Upload \ sent : asset[u].status = "DELETING" => grant[u] = "none"
    BY <2>1 DEF UploadInv, UploadsEnd
  <2>3. \A u \in Upload : asset[u].status \in {"PENDING", "AVAILABLE"} => u \in Stragglers
    BY <1>0 DEF Stragglers, VideoAssets
  <2> QED
    BY <2>1, <2>2, <2>3, MarkUploads
<1>3. CASE \/ ClaimDeletion \/ ListAssets \/ AfterPurge \/ RecordFailure \/ FinalizeFails
           \/ LoseFailure \/ BecomeDue \/ Restart
  <2>1. deletion'.grace = deletion.grace
    BY <1>0, <1>3
    DEF ClaimDeletion, ListAssets, AfterPurge, RecordFailure, FinalizeFails, LoseFailure, BecomeDue,
        Restart, Deletion
  <2>2. Exists' /\ ~InDeletion' => ~InDeletion
    BY <1>3
    DEF ClaimDeletion, ListAssets, AfterPurge, RecordFailure, FinalizeFails, LoseFailure, BecomeDue,
        Restart, InDeletion, Exists, videoVars
  <2>3. UNCHANGED <<asset, object, grant, sent, commits, report>> /\ (Exists' <=> Exists)
    BY <1>3
    DEF ClaimDeletion, ListAssets, AfterPurge, RecordFailure, FinalizeFails, LoseFailure, BecomeDue,
        Restart, Exists, videoVars, uploadVars
  <2> QED
    BY <2>1, <2>2, <2>3, UploadsAloneKeeps DEF UploadsAlone
<1>4. CASE Crash
  <2>1. UploadsAlone
    BY <1>4 DEF Crash, NoReport, UploadsAlone, videoVars, Exists, InDeletion
  <2> QED
    BY <2>1, UploadsAloneKeeps
<1>5. CASE GraceEnds
  <2>1. UNCHANGED <<videoVars, uploadVars>> /\ DelayOver
    BY <1>5 DEF GraceEnds
  <2> QED
    BY <1>0, <2>1
    DEF videoVars, uploadVars, DelayOver, UploadInv, UploadsEnd, UploadsHaveRows, Blank, Exists,
        InDeletion, Grant
<1>6. ASSUME NEW a \in Asset, Purge(a) \/ PurgeFails(a)
      PROVE  UploadInv'
  <2>1. /\ video = "DELETING" /\ UNCHANGED <<video, grant, sent, commits, report, deletion>>
        /\ \A b \in Asset : object'[b] => object[b]
    BY <1>0, <1>6 DEF Purge, PurgeFails, uploadVars, DeletionInv, TickIsDue, Ticking
  <2>2. CASE PurgeFails(a)
    BY <1>0, <2>1, <2>2
    DEF PurgeFails, UploadInv, UploadsEnd, UploadsHaveRows, Blank, Exists, InDeletion
  <2>3. CASE Purge(a)
    <3> DEFINE status == IF asset[a].status = "DELETING" THEN "DELETED" ELSE asset[a].status
    <3>1. status \in {"none", "PENDING", "AVAILABLE", "DELETING", "DELETED"}
      BY <1>0, AssetRowUpdates
    <3>2. asset' = [asset EXCEPT ![a].status = status] /\ ~object'[a]
      BY <1>0, <2>3 DEF Purge
    <3>3. /\ asset[a].status = "DELETING" => status = "DELETED"
          /\ asset[a].status # "DELETING" => status = asset[a].status
      OBVIOUS
    <3>4. deletion.grace => asset[a].was # "PENDING"
      BY <2>3 DEF Purge, Purgeable
    <3> HIDE DEF status
    <3>5. /\ asset'[a].status = status /\ asset'[a].was = asset[a].was
          /\ \A c \in Asset \ {a} : asset'[c] = asset[c]
      BY <1>0, <3>1, <3>2, StatusSet
    <3>6. UploadsEnd'
      BY <1>0, <2>1, <3>2, <3>3, <3>4, <3>5 DEF UploadInv, UploadsEnd
    <3>7. UploadsHaveRows'
      BY <1>0, <2>1, <3>2, <3>3, <3>5 DEF UploadInv, UploadsHaveRows, Blank, Exists, InDeletion
    <3> QED
      BY <3>6, <3>7 DEF UploadInv
  <2> QED
    BY <1>6, <2>2, <2>3
<1> QED
  BY <1>1, <1>2, <1>3, <1>4, <1>5, <1>6 DEF Tick, TickFails, DeletionClock

(* The rows go when no upload has an object or a live URL. *)
LEMMA RemoveRowsKeepsUploads ==
    ASSUME DeletionInv, UploadInv, RemoveRows
    PROVE  UploadInv'
<1>1. /\ video = "DELETING" /\ UNCHANGED <<object, uploadVars, deletion>>
      /\ Stragglers = {} /\ video' = "gone"
      /\ asset' = [a \in Asset |-> IF a \in VideoAssets THEN NoAsset ELSE asset[a]]
  BY DEF RemoveRows, DeletionInv, TickIsDue, Ticking, InDeletion, NeverPublished
<1>2. asset \in [Asset -> AssetRow] /\ Upload \subseteq Asset
  BY DEF DeletionInv, DeletionTypeOK, VideoTypeOK, Asset
<1>3. ASSUME NEW u \in Upload
      PROVE  /\ Blank(u)' /\ (u \in sent \/ grant[u] = "none")
             /\ u \in commits \/ u \in report.uploads => u \in sent
  <2>1. CASE asset[u].status = "none"
    BY <1>1, <1>2, <2>1
    DEF UploadInv, UploadsEnd, UploadsHaveRows, Blank, Exists, VideoAssets
  <2>2. CASE asset[u].status # "none"
    <3>1. u \in VideoAssets /\ asset[u].status = "DELETED"
      BY <1>1, <1>2, <2>2 DEF VideoAssets, Stragglers
    <3> QED
      BY <1>1, <1>2, <3>1 DEF UploadInv, UploadsEnd, Blank, NoAsset
  <2> QED
    BY <2>1, <2>2
<1> QED
  BY <1>1, <1>3 DEF UploadInv, UploadsEnd, UploadsHaveRows, Blank, uploadVars, Exists, InDeletion

-----------------------------------------------------------------------------
(* The specification. *)

VideoInv == ScriptInv /\ PublishingInv /\ DeletionInv

(* A video begins with its files there and no deletion, package or proof. *)
LEMMA VideoInvInit == Init => VideoInv /\ UploadInv
<1> SUFFICES ASSUME Init PROVE VideoInv /\ UploadInv
  OBVIOUS
<1>1. ScriptInv
  BY ScriptInvInit
<1>2. PublishingInv
  <2>1. NewTask.status = "READY_FOR_CONTENT"
        /\ NewTask \in [status : TaskStatus, filled : SUBSET Field, locked : SUBSET Field]
    BY DEF NewTask, TaskStatus
  <2> QED
    BY <2>1
    DEF Init, PublishingInit, PublishingInv, PublishingTypeOK, PackageStatus, ProofStatus,
        VerifiedIsProved, PackageAgrees
<1>3. ASSUME NEW a \in Asset
      PROVE  /\ asset[a] \in AssetRow /\ asset[a].was = "AVAILABLE"
             /\ asset[a].status = IF a \in Output THEN "AVAILABLE" ELSE "none"
             /\ asset[a].linked <=> a \in Output
  BY DEF Init, DeletionInit, NoAsset, AssetRow
<1>4. DeletionTypeOK
  <2>1. Idle \in Runner /\ NoReport \in Report
    BY DEF Idle, Runner, NoReport, Report
  <2>2. export \in Export /\ deletion \in Deletion
    BY DEF Init, DeletionInit, Export, Deletion
  <2>3. asset \in [Asset -> AssetRow] /\ object \in [Asset -> BOOLEAN]
    BY <1>3 DEF Init, DeletionInit
  <2> QED
    BY <2>1, <2>2, <2>3
    DEF Init, DeletionInit, DeletionTypeOK, VideoTypeOK, VideoStatus, JobStatus, Grant
<1>5. TickIsDue /\ OthersAreQuiet /\ ProofsAreRows /\ NeverPublished
  BY DEF Init, DeletionInit, PublishingInit, TickIsDue, Ticking, Idle, OthersAreQuiet, Exists,
         InDeletion, ProofsAreRows, NeverPublished
<1>6. OutputsFollowVideo
  BY <1>3 DEF Init, DeletionInit, OutputsFollowVideo, Exists, InDeletion, Asset
<1>7. UploadInv
  <2>1. ASSUME NEW u \in Upload
        PROVE  u \in Asset /\ asset[u].status = "none" /\ Blank(u)
    <3>1. u \in Asset /\ u \notin Output
      BY DEF Asset
    <3> QED
      BY <1>3, <3>1 DEF Init, DeletionInit, Blank
  <2> QED
    BY <2>1
    DEF Init, DeletionInit, NoReport, UploadInv, UploadsEnd, UploadsHaveRows, Exists, InDeletion
<1> QED
  BY <1>1, <1>2, <1>4, <1>5, <1>6, <1>7 DEF VideoInv, DeletionInv, Init

(* Every step keeps the video, its script, its package and its finished files in order. *)
LEMMA VideoInvStep ==
    ASSUME VideoInv, [Next]_lifecycleVars
    PROVE  VideoInv'
<1>1. ScriptInv'
  BY ScriptInvStep DEF VideoInv
<1> USE <1>1 DEF VideoInv
<1>2. ASSUME UNCHANGED publishingVars
      PROVE  PublishingInv'
  BY <1>2 DEF publishingVars, PublishingInv, PublishingTypeOK, VerifiedIsProved, PackageAgrees
<1>3. CASE Pipeline \/ DeletionStep(Review)
  <2>1. /\ Tasks \/ ExportSubtitles \/ OtherTaskFails \/ Review \/ CreateJob
        /\ UNCHANGED <<publishingVars, cast>> /\ cast # "studio"
    BY <1>3 DEF Pipeline, DeletionStep
  <2>2. Tasks \/ ExportSubtitles \/ Review \/ CreateJob
    BY <2>1 DEF Tasks
  <2>3. DeletionTypeOK'
    BY <2>2, TasksTypes DEF DeletionInv
  <2>4. GoesOn /\ UNCHANGED proven
    BY <2>2, WorkGoesOn
  <2> QED
    BY <1>2, <2>1, <2>3, <2>4, GoesOnKeeps
<1>4. CASE Workspace
  <2>1. PublishingInv'
    BY <1>4, PreparationKeeps, ContentKeeps, PostingKeeps DEF Workspace, PublishingStep
  <2> QED
    BY <1>4, <2>1, WorkspaceKeeps DEF PublishingInv
<1>5. CASE \/ ScriptStep(FullPipeline) \/ ScriptStep(Editor)
           \/ \E j \in StudioJob : ScriptStep(StudioTask(j))
  <2>1. UNCHANGED publishingVars
    BY <1>5 DEF ScriptStep
  <2> QED
    BY <1>2, <1>5, <2>1, StudioKeeps
<1>6. CASE \/ DeletionStep(Tick) \/ Clock
           \/ DeletionStep(RequestDeletion)
           \/ DeletionStep(TickFails) \/ DeletionStep(Crash) \/ DeletionStep(Restart)
  <2>1. /\ \/ RequestDeletion \/ Tick \/ TickFails \/ DeletionClock \/ Crash \/ Restart
           \/ \E u \in Upload : GrantExpires(u)
        /\ UNCHANGED <<publishingVars, cast>> /\ cast # "studio"
    BY <1>6 DEF DeletionStep, Clock
  <2> QED
    BY <1>2, <2>1, DeletionKeeps
<1>7. CASE /\ RemoveRows /\ UNCHANGED cast
           /\ IF video' = "gone" THEN PublishingGone ELSE UNCHANGED publishingVars
  BY <1>2, <1>7, PreparationKeeps, RemoveRowsKeeps
<1>8. CASE UNCHANGED lifecycleVars
  <2>1. UNCHANGED <<videoVars, uploadVars, deletion, runner, publishingVars, cast>>
    BY <1>8 DEF lifecycleVars, deletionVars
  <2>2. DeletionTypeOK'
    BY <2>1 DEF DeletionInv, DeletionTypeOK, VideoTypeOK, videoVars, uploadVars
  <2>3. TickIsDue' /\ OthersAreQuiet' /\ OutputsFollowVideo'
    BY <2>1 DEF DeletionInv, TickIsDue, Ticking, OthersAreQuiet, OutputsFollowVideo, Blank,
                InDeletion, Exists, videoVars, publishingVars
  <2>4. ProofsAreRows' /\ NeverPublished'
    BY <2>1 DEF DeletionInv, ProofsAreRows, NeverPublished, videoVars, publishingVars
  <2> QED
    BY <1>2, <2>1, <2>2, <2>3, <2>4 DEF DeletionInv
<1> QED
  BY <1>3, <1>4, <1>5, <1>6, <1>7, <1>8 DEF Next, DeletionRunner

(* And its uploads. *)
LEMMA UploadInvStep ==
    ASSUME VideoInv, VideoInv', UploadInv, ~QuickRetry, [Next]_lifecycleVars
    PROVE  UploadInv'
<1> USE DEF VideoInv
<1>1. ASSUME UNCHANGED <<asset, object, uploadVars, deletion>>, Exists' <=> Exists,
             Exists' /\ ~InDeletion' => ~InDeletion
      PROVE  UploadInv'
  BY <1>1, UploadsAloneKeeps DEF UploadsAlone, uploadVars
<1>2. CASE Pipeline \/ DeletionStep(Review)
  <2>1. Tasks \/ ExportSubtitles \/ OtherTaskFails \/ Review \/ CreateJob
    BY <1>2 DEF Pipeline, DeletionStep
  <2>2. ASSUME \/ Claim \/ Reap \/ OtherTaskFails \/ Review \/ CreateJob \/ ExportSubtitles
               \/ \E op \in {"complete", "fail"}, us \in SUBSET Upload : CheckReport(op, us)
               \/ \E b \in BOOLEAN : WriteComplete(b) \/ WriteFail(b)
        PROVE  UploadInv'
    BY <2>2, WorkLeavesUploads, UploadsAloneKeeps
  <2>3. ASSUME NEW u \in Upload,
               CreateOutput(u) \/ RefreshOutput(u) \/ Put(u) \/ CheckCommit(u) \/ WriteCommit(u)
        PROVE  UploadInv'
    BY <2>3, UploadStep
  <2> QED
    BY <2>1, <2>2, <2>3 DEF Tasks
<1>3. CASE Workspace
  <2>1. UNCHANGED <<asset, object, uploadVars, deletion>>
    BY <1>3
    DEF Workspace, PublishingStep, Preparation, Content, Posting, ApproveOutputs, CreatePackage,
        CheckChecklist, WriteChecklist, UpdateField, LockField, ApproveContent, RequestRevision,
        StartPosting, SubmitProof, Verify, videoVars
  <2>2. video' = video \/ (video' = "PUBLISHED" /\ proven)
    BY <1>3
    DEF Workspace, PublishingStep, Preparation, Content, Posting, ApproveOutputs, CreatePackage,
        CheckChecklist, WriteChecklist, UpdateField, LockField, ApproveContent, RequestRevision,
        StartPosting, SubmitProof, Verify, videoVars, DeletionInv, ProofsAreRows
  <2> QED
    BY <1>1, <2>1, <2>2 DEF DeletionInv, NeverPublished, Exists, InDeletion
<1>4. CASE \/ ScriptStep(FullPipeline) \/ ScriptStep(Editor)
           \/ \E j \in StudioJob : ScriptStep(StudioTask(j))
  <2>1. UNCHANGED <<asset, object, uploadVars, deletion, cast>> /\ cast = "studio"
    BY <1>4 DEF ScriptStep
  <2> QED
    BY <1>1, <2>1 DEF DeletionInv, OthersAreQuiet
<1>5. CASE \/ DeletionStep(Tick) \/ Clock
           \/ DeletionStep(RequestDeletion)
           \/ DeletionStep(TickFails) \/ DeletionStep(Crash) \/ DeletionStep(Restart)
  <2>1. \/ RequestDeletion \/ Tick \/ TickFails \/ DeletionClock \/ Crash \/ Restart
        \/ \E u \in Upload : GrantExpires(u)
    BY <1>5 DEF DeletionStep, Clock
  <2> QED
    BY <2>1, DeletionKeepsUploads, UploadStep
<1>6. CASE RemoveRows
  BY <1>6, RemoveRowsKeepsUploads
<1>7. CASE UNCHANGED lifecycleVars
  BY <1>1, <1>7 DEF lifecycleVars, deletionVars, videoVars, Exists, InDeletion
<1> QED
  BY <1>2, <1>3, <1>4, <1>5, <1>6, <1>7 DEF Next, DeletionRunner

(* VideoInv holds throughout the life of a video. *)
LEMMA VideoInvariant == Spec => []VideoInv
BY VideoInvInit, VideoInvStep, PTL DEF Spec

(* Every variable of the life of a video has its type; the attempts of its *)
(* deletion are never more than MAX_DELETION_ATTEMPTS.                     *)
THEOREM VideoTypeCorrect == Spec => []TypeOK
<1>1. VideoInv => TypeOK
  BY DEF VideoInv, ScriptInv, PublishingInv, DeletionInv, TypeOK
<1> QED
  BY <1>1, VideoInvariant, PTL

(* A video that is being deleted, or is gone, has no proof of publication. *)
THEOREM DeletedIsUnpublished == Spec => []NeverPublished
<1>1. VideoInv => NeverPublished
  BY DEF VideoInv, DeletionInv
<1> QED
  BY <1>1, VideoInvariant, PTL

(* A task is verified by its latest proof, a published one waits for its own. *)
THEOREM TasksAreProved == Spec => []VerifiedIsProved
<1>1. VideoInv => VerifiedIsProved
  BY DEF VideoInv, PublishingInv
<1> QED
  BY <1>1, VideoInvariant, PTL

(* An approved package has no required task that waits for a requested revision. *)
THEOREM PackagesAgree == Spec => []PackageAgrees
<1>1. VideoInv => PackageAgrees
  BY DEF VideoInv, PublishingInv
<1> QED
  BY <1>1, VideoInvariant, PTL

(* A video becomes PUBLISHED only with the verification of its last required post. *)
THEOREM VideosArePublishedWhenVerified == Spec => PublishedWhenVerified
<1>1. ASSUME VideoInv, VideoInv', [Next]_lifecycleVars, video # "PUBLISHED", video' = "PUBLISHED"
      PROVE  \A d \in Required : task'[d].status = "VERIFIED" /\ proof'[d] = "VERIFIED"
  <2> USE <1>1
  <2>1. CASE Workspace
    <3>1. PICK d \in Destination, ok \in BOOLEAN : Verify(d, ok) /\ ok /\ SiblingsVerified(d)
      BY <2>1
      DEF Workspace, PublishingStep, Preparation, Content, Posting, ApproveOutputs, CreatePackage,
          CheckChecklist, WriteChecklist, UpdateField, LockField, ApproveContent, RequestRevision,
          StartPosting, SubmitProof, Verify, videoVars
    <3>2. TaskMoves(d, "VERIFIED")
      <4>1. task \in [Destination -> TaskRow]
        BY DEF VideoInv, PublishingInv, PublishingTypeOK, TaskRow
      <4> QED
        BY <3>1, <4>1, TaskUpdates DEF Verify, Verified, TaskStatus
    <3>3. \A e \in Required : task'[e].status = "VERIFIED"
      BY <3>1, <3>2 DEF TaskMoves, SiblingsVerified
    <3> QED
      BY <3>3 DEF VideoInv, PublishingInv, VerifiedIsProved
  <2>2. CASE Pipeline \/ DeletionStep(Review)
    BY <2>2
    DEF Pipeline, DeletionStep, Tasks, ExportSubtitles, Review, CreateJob, Claim, Reap,
        OtherTaskFails, CreateOutput, RefreshOutput, Put, CheckCommit, WriteCommit, CheckReport,
        WriteComplete, WriteFail, ExportBegin, ExportPut, ExportUpsert, ExportCheck, ExportSucceed,
        Projected, videoVars
  <2>3. CASE \/ DeletionStep(Tick) \/ Clock \/ RemoveRows
             \/ DeletionStep(RequestDeletion)
             \/ DeletionStep(TickFails) \/ DeletionStep(Crash) \/ DeletionStep(Restart)
    BY <2>3
    DEF DeletionStep, Clock, RequestDeletion, Tick, ClaimDeletion, ListAssets, Purge, AfterPurge,
        Reschedule, RecordFailure, RemoveRows, TickFails, FinalizeFails, PurgeFails, LoseFailure,
        DeletionClock, BecomeDue, GraceEnds, GrantExpires, Crash, Restart, videoVars
  <2>4. CASE \/ ScriptStep(FullPipeline) \/ ScriptStep(Editor)
             \/ \E j \in StudioJob : ScriptStep(StudioTask(j))
    <3>1. ~Succeed("TTS") /\ ~Succeed("SEPARATE") /\ ~Succeed("SRT") /\ ~Succeed("RENDER")
      BY DEF Succeed, Projected
    <3> QED
      BY <2>4, <3>1
      DEF ScriptStep, FullPipeline, Editor, StudioTask, DubAll, SeparateAudio, ReadScript,
          LinkSubtitles, Render, ClaimStep, RetryStep, FailStep, CancelFull, Load, PassReview,
          DecideOtherwise, Edit, Rerender, Regenerate, CreateStudioJob, ClaimJob, CompleteJob,
          CancelStudioJob, RetryJob, FailJob, Projected
  <2>5. CASE UNCHANGED lifecycleVars
    BY <2>5 DEF lifecycleVars, deletionVars, videoVars
  <2> QED
    BY <2>1, <2>2, <2>3, <2>4, <2>5 DEF Next, DeletionRunner
<1> QED
  BY <1>1, VideoInvariant, PTL DEF Spec, PublishedWhenVerified

(* Unless a failed deletion is requested again within the minute, a video that *)
(* is gone leaves neither row nor object of its files behind.                  *)
THEOREM NothingIsLeftBehind ==
    ASSUME ~QuickRetry
    PROVE  Spec => []NothingLeftBehind
<1>1. VideoInv /\ UploadInv => NothingLeftBehind
  <2>1. ASSUME VideoInv, NEW a \in Asset, Blank(a)
        PROVE  asset[a] = NoAsset /\ ~object[a]
    <3>1. asset[a] \in AssetRow
      BY <2>1 DEF VideoInv, DeletionInv, DeletionTypeOK, VideoTypeOK
    <3> QED
      BY <2>1, <3>1 DEF Blank, NoAsset, AssetRow
  <2> QED
    BY <2>1
    DEF VideoInv, DeletionInv, OutputsFollowVideo, UploadInv, UploadsHaveRows, NothingLeftBehind,
        Asset
<1> QED
  BY <1>1, VideoInvInit, UploadInvStep, VideoInvariant, PTL DEF Spec
=============================================================================
