------------------------------ MODULE VideoDb ------------------------------
(***************************************************************************)
(* The rows and objects of one video that several parts of the control     *)
(* plane write: its status, its latest job, its assets and the objects     *)
(* behind them in storage.                                                 *)
(***************************************************************************)
EXTENDS Naturals, FiniteSets

CONSTANTS
    Output,     \* the finished files: linked to the video, behind its render outputs
    Upload,     \* files that GPU workers may still create
    Control     \* the subtitle file that the control plane exports itself

Asset == Output \cup Upload \cup Control

ASSUME AssetAssumption ==
    /\ Output \cap Upload = {} /\ Output \cap Control = {} /\ Upload \cap Control = {}
    /\ IsFiniteSet(Asset) /\ Output # {}

VARIABLES
    video,  \* videos.status, "gone" without a row
    job,    \* the latest job of the video
    lease,  \* whether a worker holds an unreleased, unexpired lease of it
    asset,  \* assets rows
    object, \* whether an asset's object is in storage
    proven  \* whether the video has publication_proofs rows

videoVars == <<video, job, lease, asset, object, proven>>

VideoStatus == {"PROCESSING", "AWAITING_REVIEW", "READY_TO_PUBLISH", "PUBLISHED", "FAILED",
                "DELETING", "DELETE_FAILED", "gone"}

(* "stuck" is an active job whose tasks are all terminal: a completion that *)
(* overlaps a cancel makes the job active again (TaskLeases, Pipeline).     *)
JobStatus == {"none", "active", "stuck", "SUCCEEDED", "FAILED", "CANCELLED"}
ActiveJob == {"active", "stuck"}

(* was is what the deletion remembers in metadata.deletion.previousStatus;  *)
(* linked stands for the rows that lead from the video to the asset.        *)
AssetRow == [status : {"none", "PENDING", "AVAILABLE", "DELETING", "DELETED"},
             was : {"PENDING", "AVAILABLE"}, linked : BOOLEAN]

NoAsset == [status |-> "none", was |-> "AVAILABLE", linked |-> FALSE]
Available(a) == asset[a].status = "AVAILABLE"

(* DELETION_STATUSES, which job completion and Studio leave alone. *)
InDeletion == video \in {"DELETING", "DELETE_FAILED"}
Exists == video # "gone"

(* Not faithful, for mutation: a completion that forgets the guard. *)
AlwaysProjected(s) == s

(* What a job that ends or waits for review makes of its video. *)
Projected(s) == IF InDeletion THEN video ELSE s

VideoTypeOK ==
    /\ video \in VideoStatus
    /\ job \in JobStatus
    /\ lease \in BOOLEAN
    /\ asset \in [Asset -> AssetRow]
    /\ object \in [Asset -> BOOLEAN]
    /\ proven \in BOOLEAN
=============================================================================
