--------------------------- MODULE VideoLifecycle ---------------------------
(***************************************************************************)
(* One finished video between its pipeline, Studio, the publishing         *)
(* workspace and its deletion, which all write its row and read what the   *)
(* others have left in it.                                                 *)
(*                                                                         *)
(* A behaviour shows one of four casts.  Three can delete the video: in    *)
(* "workers" GPU workers write files, in "export" the control plane writes *)
(* one, in "workspace" a package is made, posted and revised while no job  *)
(* runs.  In "studio" it is dubbed, edited, reviewed and rendered (Script) *)
(* and not deleted.                                                        *)
(***************************************************************************)
EXTENDS VideoDeletion, Publishing, Script

VARIABLE cast

Casts == {"workers", "export", "workspace", "studio"}

lifecycleVars == <<deletionVars, publishingVars, scriptVars, cast>>

Init ==
    /\ cast \in Casts
    /\ DeletionInit
    /\ PublishingInit
    /\ ScriptInit
    /\ cast = "workspace" => job = "SUCCEEDED"
    /\ cast = "studio" => job = "active" /\ video = "PROCESSING"

DeletionStep(A) == cast # "studio" /\ A /\ UNCHANGED <<publishingVars, scriptVars, cast>>

PublishingStep(A) == A /\ Up /\ UNCHANGED <<uploadVars, deletion, runner, scriptVars, cast>>

(* Of the job and its files, Script has its own account. *)
ScriptStep(A) ==
    /\ cast = "studio" /\ A
    /\ UNCHANGED <<job, lease, asset, object, proven, uploadVars, deletion, runner,
                   publishingVars, cast>>

Pipeline ==
    \/ cast = "workers" /\ DeletionStep(Tasks \/ CreateJob)
    \/ cast = "export" /\ DeletionStep(ExportSubtitles \/ OtherTaskFails \/ CreateJob)

Workspace ==
    /\ cast = "workspace"
    /\ PublishingStep(Preparation \/ \E d \in Destination : Content(d) \/ Posting(d))

DeletionRunner ==
    \/ DeletionStep(Tick)
    \/ RemoveRows /\ UNCHANGED <<scriptVars, cast>>
       /\ IF video' = "gone" THEN PublishingGone ELSE UNCHANGED publishingVars

Clock == DeletionStep(DeletionClock \/ \E u \in Upload : GrantExpires(u))

Next ==
    \/ Pipeline
    \/ Workspace
    \/ ScriptStep(FullPipeline)
    \/ ScriptStep(Editor)
    \/ \E j \in StudioJob : ScriptStep(StudioTask(j))
    \/ DeletionStep(Review)
    \/ DeletionStep(RequestDeletion)
    \/ DeletionRunner
    \/ Clock
    \/ DeletionStep(TickFails)
    \/ DeletionStep(Crash)
    \/ DeletionStep(Restart)

Spec == Init /\ [][Next]_lifecycleVars

-----------------------------------------------------------------------------
TypeOK ==
    /\ DeletionTypeOK
    /\ PublishingTypeOK
    /\ ScriptTypeOK
    /\ cast \in Casts

(* When the rows of a video are gone, no file of its tasks is left, neither  *)
(* as a row nor as an object that no row names: an upload that was under way *)
(* when the deletion was requested arrives within the grace period, or was   *)
(* there before its object was deleted (PrismaVideoDeletionRepository).      *)
NothingLeftBehind ==
    video = "gone" => \A a \in Output \cup Upload : asset[a] = NoAsset /\ ~object[a]

(* A video that is being deleted, or is gone, has no proof of publication:   *)
(* the operator cannot prove a post whose files the deletion has taken       *)
(* (ensureAssets in proof, against the count of proofs in request).          *)
NeverPublished == video \in {"DELETING", "DELETE_FAILED", "gone"} => ~proven

(* A task that counts as verified is so by its latest proof, and one that is *)
(* published waits for the verification of its own, whatever revisions,      *)
(* approvals and posts came between.                                         *)
VerifiedIsProved == \A d \in Destination :
    /\ task[d].status = "VERIFIED" => proof[d] = "VERIFIED"
    /\ task[d].status = "PUBLISHED" => proof[d] = "PENDING"

(* An approved package never hides a revision that someone has requested: of *)
(* its required tasks each has approved content, or failed verification.     *)
PackageAgrees == package = "APPROVED" =>
    \A d \in Required : task[d].status \in Approved
                        \/ (task[d].status = "NEEDS_REVISION" /\ proof[d] = "FAILED")

(* verify makes a video PUBLISHED only when every required post is verified. *)
PublishedWhenVerified ==
    [][video # "PUBLISHED" /\ video' = "PUBLISHED"
       => \A d \in Required : task'[d].status = "VERIFIED" /\ proof'[d] = "VERIFIED"]_lifecycleVars

(* A decision that names the current version of the video is about its       *)
(* current script and dub: whatever an editor, a job or another reviewer     *)
(* changes after the reviewer loaded the page makes the decision stale (the  *)
(* test of input.version in review).                                         *)
ViewIsCurrent == seen # Unseen => seen.text = text /\ seen.dub = dub

(* Whoever renders it, the full pipeline or Studio, after retries, cancelled *)
(* jobs and regenerated segments, an output comes after the review of the    *)
(* dub and has the voice of every segment (prepareTask, renderExecution).    *)
OutputIsWhole == output # NoOutput =>
    /\ step["REVIEW"] = "SUCCEEDED"
    /\ \A s \in Segment : output.dub[s] # 0

(* A full pipeline that ends with nothing changed since the review has       *)
(* delivered the dub and the script that were approved, whatever failed and  *)
(* was retried on the way.                                                   *)
OutputIsApproved == full = "SUCCEEDED" /\ ~changed =>
    output.dub = dub /\ output.subtitles = text

(* What docs/architecture/video-library.md says of READY_TO_PUBLISH, that    *)
(* the video has an approved output.  A regenerated segment also makes its   *)
(* video READY_TO_PUBLISH, rendered or not (refreshAggregateStatus).         *)
ReadyHasOutput == cast = "studio" /\ video = "READY_TO_PUBLISH" => output # NoOutput

(* A deletion ends, in an empty library or a visible failure, once the       *)
(* process stays up and no worker takes a task of the video any more (tasks  *)
(* have a limited number of attempts): neither late commits nor completions  *)
(* that revive a cancelled job, nor failures of storage, keep it going, and  *)
(* no job makes the video something else.                                    *)
DeletionEnds ==
    <>[](Up /\ ~lease) => (video = "DELETING" ~> video \in {"DELETE_FAILED", "gone"})
=============================================================================
