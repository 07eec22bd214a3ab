------------------------------- MODULE Script -------------------------------
(***************************************************************************)
(* What a finished video is made of: the script of its segments, the dub   *)
(* that is selected for each, the subtitles and the render; and the three  *)
(* who make it: the tasks of the full pipeline from the dub to the render, *)
(* the jobs that Studio creates to dub a segment or render again           *)
(* (createJob), and the editor, who rewrites and reviews (edit, review).   *)
(*                                                                         *)
(* A script or a dub is a function from segments to the number of the      *)
(* segment revision that is meant; two takes of one revision are not told  *)
(* apart.  Completions are atomic here, and so are claim and start; what   *)
(* may come between their checks and their writes is TaskLeases.           *)
(***************************************************************************)
EXTENDS VideoDb

CONSTANTS
    Segment,   \* video_segments
    Revisions, \* BOUND: segment_revisions of a segment
    StudioJob  \* BOUND: jobs of Studio that are not over

ASSUME ScriptAssumption == Segment # {} /\ Revisions \in Nat \ {0}

VARIABLES
    text,      \* the current revision of each segment
    dub,       \* the revision that the SELECTED audio of a segment speaks, 0 without audio
    step,      \* pipeline_tasks.status of the FULL_PIPELINE job
    full,      \* the status of that job
    retryable, \* whether the queue's retry accepts its failure code
    cut,       \* the dubs in the input manifest of its RENDER
    read,      \* the script that the attempt of EXPORT_SRT has stored
    subtitles, \* the script in the current OUTPUT_SUBTITLE
    studio,    \* Studio's jobs, each of one task
    output,    \* the latest render output
    seen,      \* what the reviewer loaded, as long as the video has that version
    changed    \* history: whether script or dub changed after the review was passed

scriptVars == <<text, dub, step, full, retryable, cut, read, subtitles, studio, output, seen, changed>>

Step == {"TTS", "REVIEW", "SEPARATE", "SRT", "RENDER"}
StepStatus == {"BLOCKED", "READY", "RUNNING", "WAITING", "SUCCEEDED", "FAILED", "CANCELLED"}

Needs == [t \in Step |->
            CASE t = "TTS" -> {}
              [] t = "REVIEW" -> {"TTS"}
              [] t \in {"SEPARATE", "SRT"} -> {"REVIEW"}
              [] t = "RENDER" -> {"REVIEW", "SEPARATE", "SRT"}]

CreatedAfter == [t \in Step |->
            CASE t = "TTS" -> Step \ {"TTS"}
              [] t = "REVIEW" -> {"SEPARATE", "SRT", "RENDER"}
              [] t = "SEPARATE" -> {"SRT", "RENDER"}
              [] t = "SRT" -> {"RENDER"}
              [] t = "RENDER" -> {}]

Lines == [Segment -> 0..Revisions]
Silence == [s \in Segment |-> 0]
First == [s \in Segment |-> 1]

(* Silence as the script of subtitles or of an export: there are none. *)
RenderOutput == [dub : Lines, subtitles : Lines]
NoOutput == [dub |-> Silence, subtitles |-> Silence]
View == [text : Lines, dub : Lines]
Unseen == [text |-> Silence, dub |-> Silence]
NoJob == [kind |-> "none", status |-> "none", input |-> Silence]

(* Every write of the editor, and every status of a video that a completion *)
(* writes, increments videos.version.                                       *)
NewVersion == seen' = Unseen

Unfinished == {"READY", "RUNNING"}
JobIsActive == full = "active" \/ \E j \in StudioJob : studio[j].status \in Unfinished

-----------------------------------------------------------------------------
(* The full pipeline. *)

(* Not faithful, for mutation: one prerequisite is enough. *)
OpenedByAny(t) == {u \in Step : step[u] = "BLOCKED" /\ t \in Needs[u]}

(* unlockDependents of t, which has just succeeded. *)
Opened(t) == {u \in Step : /\ step[u] = "BLOCKED"
                           /\ t \in Needs[u]
                           /\ \A d \in Needs[u] \ {t} : step[d] = "SUCCEEDED"}

(* What every completion of a step does; prepareTask gives a render the dubs *)
(* that are SELECTED when its last prerequisite succeeds.                    *)
Succeed(t) ==
    LET st == [u \in Step |-> IF u = t THEN "SUCCEEDED"
                              ELSE IF u \notin Opened(t) THEN step[u]
                              ELSE IF u = "REVIEW" THEN "WAITING" ELSE "READY"]
        Is(x) == \E u \in Step : st[u] = x
        all == \A u \in Step : st[u] = "SUCCEEDED"
    IN  /\ step' = st
        /\ full' = IF all THEN "SUCCEEDED" ELSE IF Is("FAILED") THEN "FAILED" ELSE "active"
        /\ cut' = IF "RENDER" \in Opened(t) THEN dub ELSE cut
        /\ IF all \/ Is("FAILED") \/ "REVIEW" \in Opened(t)
           THEN /\ video' = Projected(IF all THEN "READY_TO_PUBLISH"
                                      ELSE IF Is("FAILED") THEN "FAILED" ELSE "AWAITING_REVIEW")
                /\ NewVersion
           ELSE UNCHANGED <<video, seen>>

(* The claims of the task API and of the runner; both set the job RUNNING. *)
ClaimStep(t) ==
    /\ t # "REVIEW" /\ step[t] = "READY"
    /\ step' = [step EXCEPT ![t] = "RUNNING"]
    /\ full' = "active"
    /\ UNCHANGED <<video, text, dub, retryable, cut, read, subtitles, studio, output, seen, changed>>

(* GENERATE_INITIAL_TTS: its manifest was prepared by the transaction that *)
(* created the first revisions.                                            *)
DubAll ==
    /\ step["TTS"] = "RUNNING"
    /\ Succeed("TTS")
    /\ dub' = First
    /\ UNCHANGED <<text, retryable, read, subtitles, studio, output, changed>>

SeparateAudio ==
    /\ step["SEPARATE"] = "RUNNING"
    /\ Succeed("SEPARATE")
    /\ UNCHANGED <<text, dub, retryable, read, subtitles, studio, output, changed>>

(* EXPORT_SRT: execute stores the script as it is then, *)
ReadScript ==
    /\ step["SRT"] = "RUNNING" /\ read = Silence
    /\ read' = text
    /\ UNCHANGED <<video, text, dub, step, full, retryable, cut, subtitles, studio, output, seen, changed>>

(* and succeed links what it has stored. *)
LinkSubtitles ==
    /\ step["SRT"] = "RUNNING" /\ read # Silence
    /\ Succeed("SRT")
    /\ subtitles' = read
    /\ read' = Silence
    /\ UNCHANGED <<text, dub, retryable, studio, output, changed>>

(* RENDER: the output gets the subtitles that are current when it is done. *)
Render ==
    /\ step["RENDER"] = "RUNNING"
    /\ Succeed("RENDER")
    /\ output' = [dub |-> cut, subtitles |-> subtitles]
    /\ UNCHANGED <<text, dub, retryable, read, subtitles, studio, changed>>

(* An attempt fails or its lease expires.  When it was the last one, the job *)
(* fails, and for good if it was the runner's: its codes are not retryable.  *)
(* A GPU task may fail with another code; then too no retry follows.  The    *)
(* video fails with the runner's fail, not when recovery ends the attempt.   *)
FailStep(t, last) ==
    /\ step[t] = "RUNNING"
    /\ step' = [step EXCEPT ![t] = IF last THEN "FAILED" ELSE "READY"]
    /\ full' = IF last THEN "FAILED" ELSE "active"
    /\ retryable' = IF last THEN t # "SRT" ELSE retryable
    /\ \/ last /\ t = "SRT" /\ video' = Projected("FAILED") /\ NewVersion
       \/ UNCHANGED <<video, seen>>
    /\ read' = IF t = "SRT" THEN Silence ELSE read
    /\ UNCHANGED <<text, dub, cut, subtitles, studio, output, changed>>

(* The queue. *)
CancelFull ==
    /\ full = "active"
    /\ full' = "CANCELLED"
    /\ step' = [t \in Step |-> IF step[t] = "SUCCEEDED" THEN step[t] ELSE "CANCELLED"]
    /\ read' = Silence
    /\ UNCHANGED <<video, text, dub, retryable, cut, subtitles, studio, output, seen, changed>>

(* The retry looks at the tasks of its job, not at other jobs of the video; *)
(* it clears the failure code, also if another task of the job is FAILED.   *)
RetryStep(t) ==
    /\ ~InDeletion
    /\ full = "FAILED" /\ retryable
    /\ step[t] = "FAILED"
    /\ \A u \in CreatedAfter[t] : step[u] \notin {"SUCCEEDED", "RUNNING"}
    /\ step' = [step EXCEPT ![t] = "READY"]
    /\ full' = "active"
    /\ retryable' = FALSE
    /\ UNCHANGED <<video, text, dub, cut, read, subtitles, studio, output, seen, changed>>

-----------------------------------------------------------------------------
(* The editor. *)

(* GET /studio *)
Load ==
    /\ seen' = [text |-> text, dub |-> dub]
    /\ UNCHANGED <<video, text, dub, step, full, retryable, cut, read, subtitles, studio, output, changed>>

(* Not faithful, for mutation: an edit that leaves the version alone. *)
EditUnversioned(s) ==
    /\ ~InDeletion
    /\ text[s] < Revisions
    /\ text' = [text EXCEPT ![s] = @ + 1]
    /\ video' = "AWAITING_REVIEW"
    /\ changed' = (changed \/ step["REVIEW"] = "SUCCEEDED")
    /\ UNCHANGED <<dub, step, full, retryable, cut, read, subtitles, studio, output, seen>>

(* edit, by a client that has the current version; jobs are no obstacle. *)
Edit(s) ==
    /\ ~InDeletion
    /\ text[s] < Revisions
    /\ text' = [text EXCEPT ![s] = @ + 1]
    /\ video' = "AWAITING_REVIEW"
    /\ NewVersion
    /\ changed' = (changed \/ step["REVIEW"] = "SUCCEEDED")
    /\ UNCHANGED <<dub, step, full, retryable, cut, read, subtitles, studio, output>>

(* review: an approval of the dub passes the gate, if it waits. *)
PassReview ==
    /\ ~InDeletion /\ seen # Unseen
    /\ step["REVIEW"] = "WAITING"
    /\ step' = [t \in Step |-> IF t = "REVIEW" THEN "SUCCEEDED"
                               ELSE IF t \in Opened("REVIEW") THEN "READY" ELSE step[t]]
    /\ full' = "active"
    /\ video' = "PROCESSING"
    /\ NewVersion
    /\ UNCHANGED <<text, dub, retryable, cut, read, subtitles, studio, output, changed>>

(* Any other decision. *)
DecideOtherwise ==
    /\ ~InDeletion /\ seen # Unseen
    /\ video' = "AWAITING_REVIEW"
    /\ NewVersion
    /\ UNCHANGED <<text, dub, step, full, retryable, cut, read, subtitles, studio, output, changed>>

(* createJob: refused while a job is active; replays answer from the record. *)
(* It may take the place of a failed job that nobody is going to retry.      *)
CreateStudioJob(j, kind, input) ==
    /\ ~InDeletion /\ ~JobIsActive
    /\ studio[j].status \in {"none", "FAILED"}
    /\ studio' = [studio EXCEPT ![j] = [kind |-> kind, status |-> "READY", input |-> input]]
    /\ video' = "PROCESSING"
    /\ NewVersion
    /\ UNCHANGED <<text, dub, step, full, retryable, cut, read, subtitles, output, changed>>

(* regenerateExecution *)
Regenerate(j, s) ==
    CreateStudioJob(j, "REGENERATE", [u \in Segment |-> IF u = s THEN text[s] ELSE 0])

(* Not faithful, for mutation: whatever dubs there are will do. *)
SomeDub == dub # Silence

(* renderExecution: the background, which only separation leaves, and a dub. *)
RenderInputs == step["SEPARATE"] = "SUCCEEDED" /\ dub # Silence

Rerender(j) ==
    /\ RenderInputs
    /\ CreateStudioJob(j, "RENDER", dub)

-----------------------------------------------------------------------------
(* Studio's jobs. *)

SetJob(j, s) == studio' = [studio EXCEPT ![j].status = s]

(* One that has succeeded or is cancelled is not looked at again. *)
Ended(j) == studio' = [studio EXCEPT ![j] = NoJob]

ClaimJob(j) ==
    /\ studio[j].status = "READY"
    /\ SetJob(j, "RUNNING")
    /\ UNCHANGED <<video, text, dub, step, full, retryable, cut, read, subtitles, output, seen, changed>>

(* Its only task succeeds, so the job and the video do; new audio replaces *)
(* what was SELECTED, whichever revision is current by now.                *)
CompleteJob(j) ==
    /\ studio[j].status = "RUNNING"
    /\ Ended(j)
    /\ video' = Projected("READY_TO_PUBLISH")
    /\ NewVersion
    /\ IF studio[j].kind = "REGENERATE"
       THEN /\ dub' = [s \in Segment |-> IF studio[j].input[s] = 0 THEN dub[s] ELSE studio[j].input[s]]
            /\ changed' = (changed \/ step["REVIEW"] = "SUCCEEDED")
            /\ UNCHANGED output
       ELSE /\ output' = [dub |-> studio[j].input, subtitles |-> subtitles]
            /\ UNCHANGED <<dub, changed>>
    /\ UNCHANGED <<text, step, full, retryable, cut, read, subtitles>>

FailJob(j, last) ==
    /\ studio[j].status = "RUNNING"
    /\ SetJob(j, IF last THEN "FAILED" ELSE "READY")
    /\ UNCHANGED <<video, text, dub, step, full, retryable, cut, read, subtitles, output, seen, changed>>

CancelStudioJob(j) ==
    /\ studio[j].status \in Unfinished
    /\ Ended(j)
    /\ UNCHANGED <<video, text, dub, step, full, retryable, cut, read, subtitles, output, seen, changed>>

RetryJob(j) ==
    /\ ~InDeletion
    /\ studio[j].status = "FAILED"
    /\ SetJob(j, "READY")
    /\ UNCHANGED <<video, text, dub, step, full, retryable, cut, read, subtitles, output, seen, changed>>

-----------------------------------------------------------------------------
(* The cast has just been assigned: each segment has its first revision, and *)
(* the dub of these is READY.                                                *)
ScriptInit ==
    /\ text = First
    /\ dub = Silence
    /\ step = [t \in Step |-> IF t = "TTS" THEN "READY" ELSE "BLOCKED"]
    /\ full = "active"
    /\ retryable = FALSE
    /\ cut = Silence
    /\ read = Silence
    /\ subtitles = Silence
    /\ studio = [j \in StudioJob |-> NoJob]
    /\ output = NoOutput
    /\ seen = Unseen
    /\ changed = FALSE

FullPipeline ==
    \/ DubAll \/ SeparateAudio \/ ReadScript \/ LinkSubtitles \/ Render
    \/ \E t \in Step : ClaimStep(t) \/ RetryStep(t) \/ \E last \in BOOLEAN : FailStep(t, last)
    \/ CancelFull

Editor ==
    \/ Load \/ PassReview \/ DecideOtherwise
    \/ \E s \in Segment : Edit(s)
    \/ \E j \in StudioJob : Rerender(j) \/ \E s \in Segment : Regenerate(j, s)

StudioTask(j) ==
    \/ ClaimJob(j) \/ CompleteJob(j) \/ CancelStudioJob(j) \/ RetryJob(j)
    \/ \E last \in BOOLEAN : FailJob(j, last)

ScriptTypeOK ==
    /\ text \in Lines /\ dub \in Lines
    /\ step \in [Step -> StepStatus]
    /\ full \in {"active", "SUCCEEDED", "FAILED", "CANCELLED"}
    /\ retryable \in BOOLEAN
    /\ cut \in Lines /\ read \in Lines /\ subtitles \in Lines
    /\ studio \in [StudioJob -> [kind : {"none", "REGENERATE", "RENDER"},
                                 status : {"none", "READY", "RUNNING", "FAILED"}, input : Lines]]
    /\ output \in RenderOutput
    /\ seen \in View
    /\ changed \in BOOLEAN
=============================================================================
