--------------------------- MODULE VideoDeletion ---------------------------
(***************************************************************************)
(* Deleting a video while its files are still being written.  A request    *)
(* (Serializable) cancels its jobs and marks its assets; VideoDeletionRunner*)
(* then removes the objects, and the rows when no object is left           *)
(* (PrismaVideoDeletionRepository).  Against it run the agent's uploads    *)
(* (assets.py) with the output handlers of the task API, which check the   *)
(* lease in one transaction and write in another, and the control plane's  *)
(* own subtitle export.                                                    *)
(*                                                                         *)
(* Time: an upload URL ends with the lease it was signed under at the      *)
(* latest (LEASE_MS, one minute), so neither a grace period (15 minutes)   *)
(* nor the wait for another attempt (a minute or more) is over before the  *)
(* URLs that were live when the assets were marked.                        *)
(***************************************************************************)
EXTENDS VideoDb

CONSTANTS
    MaxAttempts, \* MAX_DELETION_ATTEMPTS (6)
    Faults,      \* whether storage and database requests fail and the process dies
    QuickRetry   \* whether a failed deletion may be requested again within a minute

ASSUME DeletionAssumption ==
    MaxAttempts \in Nat \ {0} /\ Faults \in BOOLEAN /\ QuickRetry \in BOOLEAN

VARIABLES
    grant,    \* presigned upload URLs: "old" if signed before assets were last marked
    sent,     \* uploads whose commit the agent has sent
    commits,  \* commit handlers that have verified their object
    report,   \* the complete or fail handler that has passed its checks
    export,   \* the runner's attempt of EXPORT_SRT
    deletion, \* videos.deletion_*: failed attempts, when the next is due, the grace period
    runner    \* VideoDeletionRunner

uploadVars == <<grant, sent, commits, report, export>>
deletionVars == <<videoVars, uploadVars, deletion, runner>>

Grant == {"none", "old", "new"}
Report == [op : {"none", "complete", "fail"}, uploads : SUBSET Upload]
Export == [phase : {"none", "executing", "put", "stored", "checked", "done"}, fenced : BOOLEAN]
Deletion == [attempts : 0..MaxAttempts, next : {"due", "later", "never"}, grace : BOOLEAN]
Runner == [phase : {"down", "idle", "listing", "purging", "finalizing", "failing"},
           todo : SUBSET Asset, attempts : 0..MaxAttempts]

NoReport == [op |-> "none", uploads |-> {}]
Idle == [phase |-> "idle", todo |-> {}, attempts |-> 0]
Up == runner.phase # "down"

-----------------------------------------------------------------------------
(* The job: a worker takes its task and loses it again, another task fails. *)

Claim ==
    /\ Up /\ job = "active" /\ ~lease
    /\ lease' = TRUE
    /\ UNCHANGED <<video, job, asset, object, proven, uploadVars, deletion, runner>>

(* reapExpired: the job waits for a retry or fails. *)
Reap ==
    /\ Up /\ lease
    /\ lease' = FALSE
    /\ job' \in {"active", "FAILED"}
    /\ UNCHANGED <<video, asset, object, proven, uploadVars, deletion, runner>>

(* A parallel task of the job fails for good; the lease stays. *)
OtherTaskFails ==
    /\ Up /\ job = "active"
    /\ job' = "FAILED"
    /\ video' = Projected("FAILED")
    /\ UNCHANGED <<lease, asset, object, proven, uploadVars, deletion, runner>>

-----------------------------------------------------------------------------
(* Uploads.  The agent writes to storage with the URL alone, whatever has  *)
(* become of its task, but not after it has sent the commit.               *)

CreateOutput(u) ==
    /\ Up /\ lease
    /\ asset[u].status = "none"
    /\ asset' = [asset EXCEPT ![u].status = "PENDING"]
    /\ grant' = [grant EXCEPT ![u] = "new"]
    /\ UNCHANGED <<video, job, lease, object, proven, sent, commits, report, export, deletion, runner>>

RefreshOutput(u) ==
    /\ Up /\ lease /\ u \notin sent
    /\ asset[u].status \in {"PENDING", "AVAILABLE"}
    /\ grant' = [grant EXCEPT ![u] = "new"]
    /\ UNCHANGED <<videoVars, sent, commits, report, export, deletion, runner>>

GrantExpires(u) ==
    /\ grant[u] # "none"
    /\ grant' = [grant EXCEPT ![u] = "none"]
    /\ UNCHANGED <<videoVars, sent, commits, report, export, deletion, runner>>

Put(u) ==
    /\ grant[u] # "none" /\ u \notin sent
    /\ object' = [object EXCEPT ![u] = TRUE]
    /\ UNCHANGED <<video, job, lease, asset, proven, uploadVars, deletion, runner>>

(* commitOutput: the checks under the lease, then those of the object, *)
CheckCommit(u) ==
    /\ Up /\ lease /\ u \notin sent
    /\ asset[u].status = "PENDING" /\ object[u]
    /\ sent' = sent \cup {u}
    /\ commits' = commits \cup {u}
    /\ UNCHANGED <<videoVars, grant, report, export, deletion, runner>>

(* and the update, by primary key alone; it throws when the row is gone. *)
WriteCommit(u) ==
    /\ u \in commits
    /\ commits' = commits \ {u}
    /\ asset' = IF asset[u].status = "none" THEN asset
                ELSE [asset EXCEPT ![u].status = "AVAILABLE"]
    /\ UNCHANGED <<video, job, lease, object, proven, grant, sent, report, export, deletion, runner>>

(* complete validates its outputs, fail has nothing to validate. *)
CheckReport(op, us) ==
    /\ Up /\ lease /\ report = NoReport
    /\ op = "fail" => us = {}
    /\ \A u \in us : u \in sent /\ Available(u)
    /\ report' = [op |-> op, uploads |-> us]
    /\ UNCHANGED <<videoVars, grant, sent, commits, export, deletion, runner>>

(* The writes of complete, its orchestrator and its aggregate: `last' says *)
(* that every other task of the job has succeeded.                         *)
WriteComplete(last) ==
    /\ report.op = "complete"
    /\ last => job # "FAILED"
    /\ report' = NoReport
    /\ IF ~Exists THEN UNCHANGED <<video, job, lease, asset>>
       ELSE /\ lease' = FALSE
            /\ asset' = [a \in Asset |-> [asset[a] EXCEPT !.linked = @ \/ a \in report.uploads]]
            /\ job' = IF last THEN "SUCCEEDED"
                      ELSE IF job = "CANCELLED" THEN "stuck" ELSE job
            /\ video' = IF last THEN Projected("READY_TO_PUBLISH")
                        ELSE IF job = "FAILED" THEN Projected("FAILED") ELSE video
    /\ UNCHANGED <<object, proven, grant, sent, commits, export, deletion, runner>>

WriteFail(retry) ==
    /\ report.op = "fail"
    /\ report' = NoReport
    /\ IF ~Exists THEN UNCHANGED <<job, lease>>
       ELSE lease' = FALSE /\ job' = (IF retry THEN "active" ELSE "FAILED")
    /\ UNCHANGED <<video, asset, object, proven, grant, sent, commits, export, deletion, runner>>

-----------------------------------------------------------------------------
(* The subtitle export: the object, its row (an upsert), and then the link, *)
(* unless the job was seen cancelled before: the transaction reads its task *)
(* without a lock and writes by primary key (ControlPlaneRunner).           *)

ExportBegin ==
    /\ Up /\ job \in {"active", "FAILED"}
    /\ export = [phase |-> "none", fenced |-> FALSE]
    /\ export' = [export EXCEPT !.phase = "executing"]
    /\ UNCHANGED <<videoVars, grant, sent, commits, report, deletion, runner>>

ExportPut ==
    /\ Up /\ export.phase = "executing"
    /\ export' = [export EXCEPT !.phase = "put"]
    /\ object' = [a \in Asset |-> a \in Control \/ object[a]]
    /\ UNCHANGED <<video, job, lease, asset, proven, grant, sent, commits, report, deletion, runner>>

ExportUpsert ==
    /\ Up /\ export.phase = "put"
    /\ export' = [export EXCEPT !.phase = "stored"]
    /\ asset' = [a \in Asset |-> IF a \in Control THEN [asset[a] EXCEPT !.status = "AVAILABLE"]
                                 ELSE asset[a]]
    /\ UNCHANGED <<video, job, lease, object, proven, grant, sent, commits, report, deletion, runner>>

ExportCheck ==
    /\ Up /\ export.phase = "stored"
    /\ export' = [export EXCEPT !.phase = IF export.fenced THEN "done" ELSE "checked"]
    /\ UNCHANGED <<videoVars, grant, sent, commits, report, deletion, runner>>

(* It throws when the rows are gone, and makes a job cancelled since active again. *)
ExportSucceed ==
    /\ Up /\ export.phase = "checked"
    /\ export' = [export EXCEPT !.phase = "done"]
    /\ asset' = [a \in Asset |-> [asset[a] EXCEPT !.linked = @ \/ (a \in Control /\ Exists)]]
    /\ job' = IF job = "CANCELLED" THEN "stuck" ELSE job
    /\ video' = IF job = "FAILED" THEN Projected("FAILED") ELSE video
    /\ UNCHANGED <<lease, object, proven, grant, sent, commits, report, deletion, runner>>

-----------------------------------------------------------------------------
(* Studio: an edit or a decision sends the video to review; a new job needs *)
(* that none is active.  A new job starts when the old one's lease is gone. *)

Review ==
    /\ Up /\ Exists /\ ~InDeletion
    /\ video' = "AWAITING_REVIEW"
    /\ UNCHANGED <<job, lease, asset, object, proven, uploadVars, deletion, runner>>

CreateJob ==
    /\ Up /\ Exists /\ ~InDeletion
    /\ job \notin ActiveJob /\ ~lease
    /\ job' = "active"
    /\ video' = "PROCESSING"
    /\ UNCHANGED <<lease, asset, object, proven, uploadVars, deletion, runner>>

-----------------------------------------------------------------------------
(* The deletion. *)

(* collectVideoAssetIds: linked, or created by an attempt; a control output has no attempt. *)
VideoAssets == {a \in Asset : asset[a].status # "none" /\ (asset[a].linked \/ a \in Upload)}

Pending(as) == {a \in as : asset[a].status = "PENDING"}

MarkDeleting(as) ==
    asset' = [a \in Asset |-> IF a \in as /\ asset[a].status \in {"AVAILABLE", "PENDING"}
                              THEN [asset[a] EXCEPT !.status = "DELETING", !.was = asset[a].status]
                              ELSE asset[a]]

(* cancelJobInTransaction *)
CancelJob ==
    IF job \in ActiveJob
    THEN job' = "CANCELLED" /\ lease' = FALSE /\ export' = [export EXCEPT !.fenced = TRUE]
    ELSE UNCHANGED <<job, lease, export>>

(* Not faithful, for mutation: no grace for uploads that may still arrive. *)
GraceForJobs(as) == FALSE

(* Whether files may still arrive: the deletion then waits DELETION_GRACE_MS. *)
NeedsGrace(as) == job \in ActiveJob \/ Pending(as) # {}

(* Upload URLs that are live now end before any delay that begins now. *)
AgeGrants == grant' = [u \in Upload |-> IF grant[u] = "new" THEN "old" ELSE grant[u]]
DelayOver == \A u \in Upload : grant[u] # "old"

(* request: refused for a video that is being deleted or has proofs. *)
RequestDeletion ==
    /\ Up /\ Exists /\ video # "DELETING"
    /\ video = "DELETE_FAILED" => QuickRetry \/ DelayOver
    /\ ~proven
    /\ video' = "DELETING"
    /\ CancelJob
    /\ MarkDeleting(VideoAssets)
    /\ deletion' = [attempts |-> 0, next |-> "due", grace |-> NeedsGrace(VideoAssets)]
    /\ AgeGrants
    /\ UNCHANGED <<object, proven, sent, commits, report, runner>>

(* tick: the next due video, under a soft lease. *)
ClaimDeletion ==
    /\ runner.phase = "idle"
    /\ video = "DELETING" /\ deletion.next = "due"
    /\ deletion' = [deletion EXCEPT !.next = "later"]
    /\ runner' = [phase |-> "listing", todo |-> {}, attempts |-> deletion.attempts]
    /\ UNCHANGED <<videoVars, uploadVars>>

(* assetsToPurge *)
ListAssets ==
    /\ runner.phase = "listing"
    /\ runner' = [runner EXCEPT !.phase = "purging",
                                !.todo = {a \in VideoAssets : asset[a].status = "DELETING"}]
    /\ UNCHANGED <<videoVars, uploadVars, deletion>>

(* What may be purged now: during the grace period only what was uploaded before. *)
Purgeable(as) == IF deletion.grace THEN {a \in as : asset[a].was # "PENDING"} ELSE as

(* purge: the object, then the row unless a late commit has revived it. *)
Purge(a) ==
    /\ runner.phase = "purging" /\ a \in Purgeable(runner.todo)
    /\ object' = [object EXCEPT ![a] = FALSE]
    /\ asset' = [asset EXCEPT ![a].status = IF @ = "DELETING" THEN "DELETED" ELSE @]
    /\ runner' = [runner EXCEPT !.todo = @ \ {a}]
    /\ UNCHANGED <<video, job, lease, proven, uploadVars, deletion>>

(* Storage or the database fails, perhaps between the two. *)
PurgeFails(a) ==
    /\ Faults
    /\ runner.phase = "purging" /\ a \in Purgeable(runner.todo)
    /\ object' \in {object, [object EXCEPT ![a] = FALSE]}
    /\ runner' = [runner EXCEPT !.phase = "failing", !.todo = {}]
    /\ UNCHANGED <<video, job, lease, asset, proven, uploadVars, deletion>>

(* scheduleAt during the grace period, finalize after it. *)
AfterPurge ==
    /\ runner.phase = "purging" /\ Purgeable(runner.todo) = {}
    /\ runner' = IF deletion.grace THEN Idle ELSE [runner EXCEPT !.phase = "finalizing", !.todo = {}]
    /\ UNCHANGED <<videoVars, uploadVars, deletion>>

Stragglers == {a \in VideoAssets : asset[a].status # "DELETED"}

(* finalize (Serializable): begins again if jobs or files have appeared, *)
Reschedule ==
    /\ runner.phase = "finalizing" /\ video = "DELETING"
    /\ job \in ActiveJob \/ Stragglers # {}
    /\ CancelJob
    /\ MarkDeleting(Stragglers)
    /\ deletion' = [deletion EXCEPT !.next = "due", !.grace = NeedsGrace(Stragglers)]
    /\ AgeGrants
    /\ runner' = Idle
    /\ UNCHANGED <<video, object, proven, sent, commits, report>>

(* skips a video that is no longer to be deleted, refuses one that has been *)
(* published, and otherwise deletes the rows (deleteVideoRows).             *)
RemoveRows ==
    /\ runner.phase = "finalizing"
    /\ video = "DELETING" => job \notin ActiveJob /\ Stragglers = {}
    /\ IF proven \/ video # "DELETING"
       THEN /\ runner' = IF video = "DELETING" THEN [runner EXCEPT !.phase = "failing"] ELSE Idle
            /\ UNCHANGED <<video, job, lease, asset>>
       ELSE /\ runner' = Idle
            /\ video' = "gone"
            /\ job' = "none"
            /\ lease' = FALSE
            /\ asset' = [a \in Asset |-> IF a \in VideoAssets THEN NoAsset ELSE asset[a]]
    /\ UNCHANGED <<object, proven, uploadVars, deletion>>

FinalizeFails ==
    /\ Faults
    /\ runner.phase \in {"listing", "finalizing"}
    /\ runner' = [runner EXCEPT !.phase = "failing", !.todo = {}]
    /\ UNCHANGED <<videoVars, uploadVars, deletion>>

(* recordFailure, with the attempts read by the claim. *)
Failures(n) == n + 1

RecordFailure ==
    /\ runner.phase = "failing"
    /\ runner' = Idle
    /\ IF video # "DELETING" THEN UNCHANGED <<video, deletion>>
       ELSE LET n == Failures(runner.attempts)
            IN  /\ deletion' = [deletion EXCEPT !.attempts = n,
                                                !.next = IF n >= MaxAttempts THEN "never" ELSE "later"]
                /\ video' = IF n >= MaxAttempts THEN "DELETE_FAILED" ELSE video
    /\ UNCHANGED <<job, lease, asset, object, proven, uploadVars>>

(* It fails itself: the tick swallows the error. *)
LoseFailure ==
    /\ Faults
    /\ runner.phase = "failing"
    /\ runner' = Idle
    /\ UNCHANGED <<videoVars, uploadVars, deletion>>

(* The next attempt is due: the backoff, or the soft lease, is over. *)
BecomeDue ==
    /\ deletion.next = "later"
    /\ DelayOver
    /\ deletion' = [deletion EXCEPT !.next = "due"]
    /\ UNCHANGED <<videoVars, uploadVars, runner>>

GraceEnds ==
    /\ deletion.grace
    /\ DelayOver
    /\ deletion' = [deletion EXCEPT !.grace = FALSE]
    /\ UNCHANGED <<videoVars, uploadVars, runner>>

(* The process dies with the handlers it serves and the export it executes. *)
Crash ==
    /\ Faults /\ Up
    /\ runner' = [Idle EXCEPT !.phase = "down"]
    /\ commits' = {}
    /\ report' = NoReport
    /\ export' = [export EXCEPT !.phase = IF @ = "done" THEN @ ELSE "none"]
    /\ UNCHANGED <<videoVars, grant, sent, deletion>>

Restart ==
    /\ ~Up
    /\ runner' = Idle
    /\ UNCHANGED <<videoVars, uploadVars, deletion>>

-----------------------------------------------------------------------------
(* A video with finished files, whose job may still be running. *)
DeletionInit ==
    /\ \/ video = "PROCESSING" /\ job = "active"
       \/ video = "READY_TO_PUBLISH" /\ job = "SUCCEEDED"
    /\ lease = FALSE
    /\ asset = [a \in Asset |-> IF a \in Output THEN [NoAsset EXCEPT !.status = "AVAILABLE", !.linked = TRUE]
                                ELSE NoAsset]
    /\ object = [a \in Asset |-> a \in Output]
    /\ proven = FALSE
    /\ grant = [u \in Upload |-> "none"]
    /\ sent = {}
    /\ commits = {}
    /\ report = NoReport
    /\ export = [phase |-> IF job = "active" THEN "none" ELSE "done", fenced |-> FALSE]
    /\ deletion = [attempts |-> 0, next |-> "never", grace |-> FALSE]
    /\ runner = Idle

Tasks ==
    \/ Claim \/ Reap \/ OtherTaskFails
    \/ \E u \in Upload : CreateOutput(u) \/ RefreshOutput(u) \/ Put(u) \/ CheckCommit(u) \/ WriteCommit(u)
    \/ CheckReport("fail", {}) \/ \E u \in Upload : CheckReport("complete", {u})
    \/ \E b \in BOOLEAN : WriteComplete(b) \/ WriteFail(b)

ExportSubtitles == ExportBegin \/ ExportPut \/ ExportUpsert \/ ExportCheck \/ ExportSucceed

(* The steps of a tick but the last one. *)
Tick ==
    \/ ClaimDeletion \/ ListAssets \/ AfterPurge \/ Reschedule
    \/ \E a \in Asset : Purge(a)
    \/ RecordFailure

TickFails == FinalizeFails \/ LoseFailure \/ \E a \in Asset : PurgeFails(a)

DeletionClock == BecomeDue \/ GraceEnds

DeletionTypeOK ==
    /\ VideoTypeOK
    /\ grant \in [Upload -> Grant]
    /\ sent \subseteq Upload
    /\ commits \subseteq Upload
    /\ report \in Report
    /\ export \in Export
    /\ deletion \in Deletion
    /\ runner \in Runner
=============================================================================
