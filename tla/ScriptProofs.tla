---------------------------- MODULE ScriptProofs ----------------------------
(***************************************************************************)
(* Proofs about the part of VideoLifecycle in which a video is dubbed,     *)
(* reviewed and rendered: for any number of segments, of revisions and of  *)
(* jobs of Studio, what a render is made of, and what a reviewer decides   *)
(* about.                                                                  *)
(*                                                                         *)
(* All of it rests on one fact about the pipeline: a task that is open, or *)
(* over, comes after all that it needs (StepsInOrder).  So the dubs that   *)
(* prepareTask gives to the render are there, and were reviewed; and while *)
(* nothing has changed since the review, they are the current ones.        *)
(***************************************************************************)
EXTENDS VideoLifecycle, TLAPS

(* A task is neither waiting for others nor cancelled. *)
Entered(t) == step[t] \notin {"BLOCKED", "CANCELLED"}

(* What a step needs has succeeded when it opens, and stays so.  A cancelled *)
(* job leaves nothing open; a job is SUCCEEDED when all its tasks are.       *)
StepsInOrder ==
    /\ \A t \in Step : Entered(t) => \A d \in Needs[t] : step[d] = "SUCCEEDED"
    /\ (\E t \in Step : step[t] = "CANCELLED") =>
           \A t \in Step : step[t] \in {"SUCCEEDED", "CANCELLED"}
    /\ full = "SUCCEEDED" <=> \A t \in Step : step[t] = "SUCCEEDED"

Voiced(dubs) == \A s \in Segment : dubs[s] # 0

(* Jobs that render again have found the background that the pipeline made. *)
StudioRenders(j) == studio[j].status # "none" /\ studio[j].kind = "RENDER"

StudioJobsAreReal ==
    \A j \in StudioJob :
        /\ studio[j].status # "none" => studio[j].kind # "none"
        /\ StudioRenders(j) => step["SEPARATE"] = "SUCCEEDED"

(* Wherever dubs are that a render takes, each segment has its voice. *)
InputsAreVoiced ==
    /\ step["TTS"] = "SUCCEEDED" => Voiced(dub)
    /\ Entered("RENDER") => Voiced(cut)
    /\ \A j \in StudioJob : StudioRenders(j) => Voiced(studio[j].input)

(* What an attempt of EXPORT_SRT has read goes with the attempt.  As long as *)
(* nothing has changed since the review, what was handed to the render and  *)
(* to the subtitles is what is current.                                     *)
InputsAreCurrent ==
    /\ read # Silence => step["SRT"] = "RUNNING"
    /\ ~changed =>
        /\ Entered("RENDER") => cut = dub
        /\ step["SRT"] = "SUCCEEDED" => subtitles = text
        /\ read # Silence => read = text
        /\ \A j \in StudioJob : StudioRenders(j) => studio[j].input = dub

(* What a render is made of, and what the properties of the runs say of it. *)
ContentInv ==
    /\ StudioJobsAreReal
    /\ InputsAreVoiced
    /\ InputsAreCurrent
    /\ ViewIsCurrent
    /\ OutputIsWhole
    /\ OutputIsApproved

(* The video's own status matters here in the cast that completions write it in. *)
ScriptInv ==
    /\ ScriptTypeOK
    /\ cast = "studio" => video \in VideoStatus
    /\ StepsInOrder
    /\ ContentInv

USE ScriptAssumption
-----------------------------------------------------------------------------
(* Types. *)

ScriptTypes == ScriptTypeOK /\ video \in VideoStatus

(* A completion writes statuses. *)
LEMMA SucceedTypes ==
    ASSUME ScriptTypes, NEW t \in Step, Succeed(t)
    PROVE  /\ step' \in [Step -> StepStatus]
           /\ full' \in {"active", "SUCCEEDED", "FAILED", "CANCELLED"}
           /\ cut' \in Lines
           /\ video' \in VideoStatus
           /\ seen' \in View
BY DEF ScriptTypes, ScriptTypeOK, Succeed, StepStatus, Projected, VideoStatus, NewVersion,
       Unseen, View, Silence, Lines

(* The full pipeline keeps its types. *)
LEMMA FullPipelineTypes ==
    ASSUME ScriptTypes, FullPipeline
    PROVE  ScriptTypes'
<1> USE DEF ScriptTypes, ScriptTypeOK
<1>1. Silence \in Lines /\ First \in Lines
  BY DEF Silence, First, Lines
<1>2. CASE DubAll
  BY <1>1, <1>2, SucceedTypes DEF DubAll, Step
<1>3. CASE SeparateAudio
  BY <1>3, SucceedTypes DEF SeparateAudio, Step
<1>4. CASE ReadScript
  BY <1>4 DEF ReadScript
<1>5. CASE LinkSubtitles
  BY <1>1, <1>5, SucceedTypes DEF LinkSubtitles, Step
<1>6. CASE Render
  BY <1>6, SucceedTypes DEF Render, Step, RenderOutput
<1>7. ASSUME NEW t \in Step, ClaimStep(t) \/ RetryStep(t)
      PROVE  ScriptTypes'
  BY <1>7 DEF ClaimStep, RetryStep, StepStatus
<1>8. ASSUME NEW t \in Step, NEW last \in BOOLEAN, FailStep(t, last)
      PROVE  ScriptTypes'
  <2>1. retryable' \in BOOLEAN
    <3> DEFINE gpu == t # "SRT"
    <3>1. gpu \in BOOLEAN
      OBVIOUS
    <3>2. retryable' = IF last THEN gpu ELSE retryable
      BY <1>8 DEF FailStep
    <3> HIDE DEF gpu
    <3> QED
      BY <3>1, <3>2
  <2>2. step' \in [Step -> StepStatus]
    BY <1>8 DEF FailStep, StepStatus
  <2>3. video' \in VideoStatus /\ seen' \in View
    <3>1. CASE video' = Projected("FAILED") /\ NewVersion
      BY <1>1, <3>1 DEF Projected, VideoStatus, NewVersion, Unseen, View
    <3>2. CASE UNCHANGED <<video, seen>>
      BY <3>2
    <3> QED
      BY <1>8, <3>1, <3>2 DEF FailStep
  <2>4. full' \in {"active", "SUCCEEDED", "FAILED", "CANCELLED"} /\ read' \in Lines
    BY <1>1, <1>8 DEF FailStep
  <2> QED
    BY <1>8, <2>1, <2>2, <2>3, <2>4 DEF FailStep
<1>9. CASE CancelFull
  BY <1>1, <1>9 DEF CancelFull, StepStatus
<1> QED
  BY <1>2, <1>3, <1>4, <1>5, <1>6, <1>7, <1>8, <1>9 DEF FullPipeline

(* So do the editor and the jobs of Studio. *)
LEMMA StudioTypes ==
    ASSUME ScriptTypes, Editor \/ \E j \in StudioJob : StudioTask(j)
    PROVE  ScriptTypes'
<1> USE DEF ScriptTypes, ScriptTypeOK
<1>1. Silence \in Lines /\ First \in Lines /\ Unseen \in View
  BY DEF Silence, First, Lines, Unseen, View
<1>2. CASE Load
  BY <1>2 DEF Load, View
<1>3. CASE PassReview \/ DecideOtherwise
  BY <1>1, <1>3 DEF PassReview, DecideOtherwise, NewVersion, StepStatus, VideoStatus
<1>4. ASSUME NEW s \in Segment, Edit(s)
      PROVE  ScriptTypes'
  <2>1. text' \in Lines
    BY <1>4 DEF Edit, Lines
  <2> QED
    BY <1>1, <1>4, <2>1 DEF Edit, NewVersion, VideoStatus
<1>5. ASSUME NEW j \in StudioJob, NEW kind \in {"REGENERATE", "RENDER"}, NEW input \in Lines,
             CreateStudioJob(j, kind, input)
      PROVE  ScriptTypes'
  BY <1>1, <1>5 DEF CreateStudioJob, NewVersion, VideoStatus
<1>6. ASSUME NEW j \in StudioJob, Rerender(j)
      PROVE  ScriptTypes'
  BY <1>5, <1>6 DEF Rerender
<1>7. ASSUME NEW j \in StudioJob, NEW s \in Segment, Regenerate(j, s)
      PROVE  ScriptTypes'
  <2>1. [u \in Segment |-> IF u = s THEN text[s] ELSE 0] \in Lines
    BY DEF Lines
  <2> QED
    BY <1>5, <1>7, <2>1 DEF Regenerate
<1>8. ASSUME NEW j \in StudioJob, CompleteJob(j)
      PROVE  ScriptTypes'
  <2>1. dub' \in Lines /\ output' \in RenderOutput
    BY <1>8 DEF CompleteJob, Lines, RenderOutput
  <2> QED
    BY <1>1, <1>8, <2>1
    DEF CompleteJob, Ended, NoJob, NewVersion, Projected, VideoStatus
<1>9. ASSUME NEW j \in StudioJob,
             \/ ClaimJob(j) \/ CancelStudioJob(j) \/ RetryJob(j)
             \/ \E last \in BOOLEAN : FailJob(j, last)
      PROVE  ScriptTypes'
  BY <1>1, <1>9 DEF ClaimJob, CancelStudioJob, RetryJob, FailJob, SetJob, Ended, NoJob
<1> QED
  BY <1>2, <1>3, <1>4, <1>6, <1>7, <1>8, <1>9 DEF Editor, StudioTask

-----------------------------------------------------------------------------
(* The order of the steps. *)

(* Needs, step by step. *)
LEMMA NeedsOf ==
    /\ Needs["TTS"] = {}
    /\ Needs["REVIEW"] = {"TTS"}
    /\ Needs["SEPARATE"] = {"REVIEW"}
    /\ Needs["SRT"] = {"REVIEW"}
    /\ Needs["RENDER"] = {"REVIEW", "SEPARATE", "SRT"}
    /\ \A t \in Step : Needs[t] \subseteq Step
BY DEF Needs, Step

(* What succeeds opens, of the steps that are blocked, those that need nothing *)
(* else any more, and leaves the others alone.                                 *)
LEMMA SucceedOpens ==
    ASSUME ScriptTypes, StepsInOrder, NEW t \in Step, step[t] = "RUNNING", t # "REVIEW", Succeed(t)
    PROVE  /\ step'[t] = "SUCCEEDED"
           /\ \A u \in Step \ {t} : \/ u \notin Opened(t) /\ step'[u] = step[u]
                                    \/ /\ u \in Opened(t)
                                       /\ step'[u] = IF u = "REVIEW" THEN "WAITING" ELSE "READY"
           /\ cut' = IF "RENDER" \in Opened(t) THEN dub ELSE cut
           /\ full' = "SUCCEEDED" <=> \A u \in Step : step'[u] = "SUCCEEDED"
           /\ UNCHANGED seen \/ NewVersion
           /\ StepsInOrder'
<1>1. /\ step'[t] = "SUCCEEDED"
      /\ \A u \in Step \ {t} : \/ u \notin Opened(t) /\ step'[u] = step[u]
                               \/ /\ u \in Opened(t)
                                  /\ step'[u] = IF u = "REVIEW" THEN "WAITING" ELSE "READY"
      /\ cut' = IF "RENDER" \in Opened(t) THEN dub ELSE cut
      /\ UNCHANGED seen \/ NewVersion
  BY DEF Succeed
<1>2. full' = "SUCCEEDED" <=> \A u \in Step : step'[u] = "SUCCEEDED"
  BY DEF Succeed
<1>3. \A u \in Step : step[u] # "CANCELLED" /\ step'[u] # "CANCELLED"
  BY <1>1 DEF StepsInOrder, Step
<1>4. ASSUME NEW u \in Step, Entered(u)'
      PROVE  \A d \in Needs[u] : step'[d] = "SUCCEEDED"
  BY <1>1, <1>4, NeedsOf DEF StepsInOrder, Entered, Opened, Step
<1> QED
  BY <1>1, <1>2, <1>3, <1>4 DEF StepsInOrder

(* No step is entered out of order, whatever is claimed, fails, is retried or *)
(* cancelled.                                                                  *)
LEMMA FullPipelineOrder ==
    ASSUME ScriptTypes, StepsInOrder, FullPipeline
    PROVE  StepsInOrder'
<1> USE DEF ScriptTypes, ScriptTypeOK
<1>1. CASE DubAll
  BY <1>1, SucceedOpens DEF DubAll, Step
<1>2. CASE SeparateAudio
  BY <1>2, SucceedOpens DEF SeparateAudio, Step
<1>3. CASE ReadScript
  BY <1>3 DEF ReadScript, StepsInOrder, Entered
<1>4. CASE LinkSubtitles
  BY <1>4, SucceedOpens DEF LinkSubtitles, Step
<1>5. CASE Render
  BY <1>5, SucceedOpens DEF Render, Step
<1>6. ASSUME NEW t \in Step, ClaimStep(t) \/ RetryStep(t) \/ \E last \in BOOLEAN : FailStep(t, last)
      PROVE  StepsInOrder'
  <2>1. /\ Entered(t) /\ step[t] # "SUCCEEDED"
        /\ step'[t] \in {"READY", "RUNNING", "FAILED"}
        /\ \A u \in Step \ {t} : step'[u] = step[u]
        /\ full' # "SUCCEEDED"
    BY <1>6 DEF ClaimStep, RetryStep, FailStep, Entered
  <2> QED
    BY <2>1, NeedsOf DEF StepsInOrder, Entered
<1>7. CASE CancelFull
  BY <1>7, NeedsOf DEF CancelFull, StepsInOrder, Entered
<1> QED
  BY <1>1, <1>2, <1>3, <1>4, <1>5, <1>6, <1>7 DEF FullPipeline

(* Passing the review opens the separation and the subtitles. *)
LEMMA PassReviewOpens ==
    ASSUME ScriptTypes, StepsInOrder, PassReview
    PROVE  /\ step["SEPARATE"] = "BLOCKED" /\ step["SRT"] = "BLOCKED" /\ step["RENDER"] = "BLOCKED"
           /\ step' = [step EXCEPT !["REVIEW"] = "SUCCEEDED", !["SEPARATE"] = "READY",
                                   !["SRT"] = "READY"]
           /\ StepsInOrder'
<1> USE DEF ScriptTypes, ScriptTypeOK
<1>1. /\ step["SEPARATE"] = "BLOCKED" /\ step["SRT"] = "BLOCKED" /\ step["RENDER"] = "BLOCKED"
      /\ step["TTS"] = "SUCCEEDED"
  BY NeedsOf DEF PassReview, StepsInOrder, Entered, Step
<1>2. Opened("REVIEW") = {"SEPARATE", "SRT"}
  BY <1>1, NeedsOf DEF Opened, PassReview, Step
<1>3. step' = [step EXCEPT !["REVIEW"] = "SUCCEEDED", !["SEPARATE"] = "READY", !["SRT"] = "READY"]
  BY <1>2 DEF PassReview, Step
<1>4. full' = "active"
  BY DEF PassReview
<1>5. StepsInOrder'
  BY <1>1, <1>3, <1>4, NeedsOf DEF PassReview, StepsInOrder, Entered, Step
<1> QED
  BY <1>1, <1>3, <1>5

(* What has succeeded before a step is entered, however far back. *)
LEMMA Before ==
    ASSUME StepsInOrder
    PROVE  /\ Entered("REVIEW") => step["TTS"] = "SUCCEEDED"
           /\ Entered("SEPARATE") \/ Entered("SRT") =>
                  step["REVIEW"] = "SUCCEEDED" /\ step["TTS"] = "SUCCEEDED"
           /\ Entered("RENDER") => \A d \in Step \ {"RENDER"} : step[d] = "SUCCEEDED"
BY NeedsOf DEF StepsInOrder, Entered, Step

-----------------------------------------------------------------------------
(* What the render takes, and what the reviewer has seen. *)

(* The dub of all segments comes before the review and before all that is made *)
(* of it, and sends the video to review.                                       *)
LEMMA DubAllStep ==
    ASSUME ScriptTypes, StepsInOrder, ContentInv, DubAll
    PROVE  ContentInv'
<1> USE DEF ScriptTypes, ScriptTypeOK
<1>1. /\ step["TTS"] = "RUNNING"
      /\ \A t \in Step \ {"TTS"} : step[t] = "BLOCKED"
  BY NeedsOf DEF DubAll, StepsInOrder, Entered, Step, StepStatus
<1>2. Opened("TTS") = {"REVIEW"}
  BY <1>1, NeedsOf DEF Opened, Step
<1>3. /\ step'["TTS"] = "SUCCEEDED" /\ step'["REVIEW"] = "WAITING"
      /\ \A t \in {"SEPARATE", "SRT", "RENDER"} : step'[t] = "BLOCKED"
  BY <1>1, <1>2, SucceedOpens DEF DubAll, Step
<1>4. NewVersion
  BY <1>2 DEF DubAll, Succeed
<1>5. Voiced(dub')
  BY DEF DubAll, Voiced, First
<1>6. full' # "SUCCEEDED"
  BY <1>1, <1>2, <1>3, SucceedOpens DEF DubAll, Step
<1>7. UNCHANGED <<text, read, studio, output, changed>>
  BY DEF DubAll
<1>8. \A j \in StudioJob : ~StudioRenders(j) /\ ~StudioRenders(j)'
  BY <1>1, <1>7 DEF ContentInv, StudioJobsAreReal, StudioRenders, Step
<1>9. StudioJobsAreReal' /\ InputsAreVoiced' /\ InputsAreCurrent'
  BY <1>1, <1>3, <1>5, <1>7, <1>8
  DEF ContentInv, StudioJobsAreReal, InputsAreVoiced, InputsAreCurrent, Entered, Step
<1>10. ViewIsCurrent' /\ OutputIsWhole' /\ OutputIsApproved'
  BY <1>1, <1>4, <1>6, <1>7
  DEF ContentInv, ViewIsCurrent, OutputIsWhole, OutputIsApproved, NewVersion, Step
<1> QED
  BY <1>9, <1>10 DEF ContentInv

(* The dubs go to the render when its last prerequisite succeeds, and to the *)
(* output with the render itself.                                            *)
LEMMA LaterStepSucceeds ==
    ASSUME ScriptTypes, StepsInOrder, ContentInv, SeparateAudio \/ LinkSubtitles \/ Render
    PROVE  ContentInv'
<1> USE DEF ScriptTypes, ScriptTypeOK
<1>1. PICK t \in {"SEPARATE", "SRT", "RENDER"} :
          /\ step[t] = "RUNNING" /\ Succeed(t)
          /\ t = "SRT" => read # Silence
          /\ subtitles' = IF t = "SRT" THEN read ELSE subtitles
          /\ read' = IF t = "SRT" THEN Silence ELSE read
          /\ output' = IF t = "RENDER" THEN [dub |-> cut, subtitles |-> subtitles] ELSE output
  BY DEF SeparateAudio, LinkSubtitles, Render
<1>2. UNCHANGED <<text, dub, studio, changed>>
  BY DEF SeparateAudio, LinkSubtitles, Render
<1>3. t \in Step /\ t # "REVIEW"
  BY <1>1 DEF Step
<1>4. /\ step["TTS"] = "SUCCEEDED" /\ step["REVIEW"] = "SUCCEEDED"
      /\ step'["TTS"] = "SUCCEEDED" /\ step'["REVIEW"] = "SUCCEEDED"
  BY <1>1, <1>3, Before, SucceedOpens DEF Entered, Opened, Step
<1>5. /\ step'[t] = "SUCCEEDED"
      /\ \A u \in Step \ {t} : \/ u \notin Opened(t) /\ step'[u] = step[u]
                               \/ u \in Opened(t) /\ step'[u] \in {"WAITING", "READY"}
      /\ cut' = IF "RENDER" \in Opened(t) THEN dub ELSE cut
      /\ full' = "SUCCEEDED" <=> \A u \in Step : step'[u] = "SUCCEEDED"
      /\ UNCHANGED seen \/ NewVersion
  BY <1>1, <1>3, SucceedOpens
<1>6. Entered("RENDER")' => Entered("RENDER") \/ "RENDER" \in Opened(t)
  BY <1>1, <1>5 DEF Entered, Step
<1>7. StudioJobsAreReal'
  BY <1>1, <1>2, <1>5 DEF ContentInv, StudioJobsAreReal, StudioRenders, Opened, Step
<1>8. InputsAreVoiced'
  BY <1>2, <1>4, <1>5, <1>6 DEF ContentInv, InputsAreVoiced, StudioRenders, Voiced, Entered, Step
<1>9. InputsAreCurrent'
  BY <1>1, <1>2, <1>5, <1>6
  DEF ContentInv, InputsAreCurrent, StudioRenders, Entered, Step, Opened
<1>10. ViewIsCurrent'
  BY <1>2, <1>5 DEF ContentInv, ViewIsCurrent, NewVersion
<1>11. OutputIsWhole'
  BY <1>1, <1>4 DEF ContentInv, OutputIsWhole, InputsAreVoiced, Voiced, Entered
<1>12. OutputIsApproved'
  BY <1>1, <1>2, <1>3, <1>5, Before
  DEF ContentInv, OutputIsApproved, InputsAreCurrent, Entered, Step, StepsInOrder
<1> QED
  BY <1>7, <1>8, <1>9, <1>10, <1>11, <1>12 DEF ContentInv

(* Claims, failures, retries and cancels change nothing that a render takes, and *)
(* open nothing.                                                                  *)
LEMMA StepGoesOn ==
    ASSUME ScriptTypes, StepsInOrder, ContentInv,
           \/ ReadScript \/ CancelFull
           \/ \E t \in Step :
                  ClaimStep(t) \/ RetryStep(t) \/ \E last \in BOOLEAN : FailStep(t, last)
    PROVE  ContentInv'
<1> USE DEF ScriptTypes, ScriptTypeOK
<1>1. /\ UNCHANGED <<text, dub, cut, studio, subtitles, output, changed>>
      /\ \A t \in Step : step'[t] = "SUCCEEDED" <=> step[t] = "SUCCEEDED"
      /\ \A t \in Step : Entered(t)' => Entered(t)
  BY DEF ReadScript, CancelFull, ClaimStep, RetryStep, FailStep, Entered
<1>2. UNCHANGED seen \/ NewVersion
  BY DEF ReadScript, CancelFull, ClaimStep, RetryStep, FailStep
<1>3. full' = "SUCCEEDED" => full = "SUCCEEDED"
  BY DEF ReadScript, CancelFull, ClaimStep, RetryStep, FailStep
<1>4. read' # Silence => step'["SRT"] = "RUNNING" /\ read' \in {read, text}
  BY DEF ReadScript, CancelFull, ClaimStep, RetryStep, FailStep, ContentInv, InputsAreCurrent, Step
<1>5. /\ StudioJobsAreReal' /\ InputsAreVoiced' /\ ViewIsCurrent'
      /\ OutputIsWhole' /\ OutputIsApproved'
  BY <1>1, <1>2, <1>3
  DEF ContentInv, StudioJobsAreReal, StudioRenders, InputsAreVoiced, Voiced, ViewIsCurrent,
      NewVersion, OutputIsWhole, OutputIsApproved, Step
<1>6. InputsAreCurrent'
  BY <1>1, <1>4 DEF ContentInv, InputsAreCurrent, StudioRenders, Step
<1> QED
  BY <1>5, <1>6 DEF ContentInv

(* The reviewer loads what is current; the others invalidate what he has loaded. *)
LEMMA EditorStep ==
    ASSUME ScriptTypes, StepsInOrder, ContentInv,
           Load \/ PassReview \/ DecideOtherwise \/ \E s \in Segment : Edit(s)
    PROVE  StepsInOrder' /\ ContentInv'
<1> USE DEF ScriptTypes, ScriptTypeOK
<1>1. CASE Load
  BY <1>1
  DEF Load, ContentInv, StepsInOrder, StudioJobsAreReal, StudioRenders, InputsAreVoiced, Voiced,
      InputsAreCurrent, ViewIsCurrent, OutputIsWhole, OutputIsApproved, Entered
<1>2. CASE DecideOtherwise
  BY <1>2
  DEF DecideOtherwise, ContentInv, StepsInOrder, StudioJobsAreReal, StudioRenders, InputsAreVoiced,
      Voiced, InputsAreCurrent, ViewIsCurrent, NewVersion, OutputIsWhole, OutputIsApproved, Entered
<1>3. CASE PassReview
  <2>1. /\ UNCHANGED <<text, dub, cut, read, subtitles, studio, output, changed>>
        /\ NewVersion /\ full' = "active" /\ step["REVIEW"] = "WAITING"
    BY <1>3 DEF PassReview
  <2>2. /\ \A t \in Step : step[t] = "SUCCEEDED" => step'[t] = "SUCCEEDED"
        /\ step'["REVIEW"] = "SUCCEEDED" /\ step'["SRT"] = "READY" /\ step'["RENDER"] = "BLOCKED"
        /\ step'["TTS"] = step["TTS"] /\ step["SRT"] = "BLOCKED" /\ step["RENDER"] = "BLOCKED"
    BY <1>3, PassReviewOpens DEF Step
  <2>3. StudioJobsAreReal' /\ InputsAreVoiced' /\ InputsAreCurrent'
    BY <2>1, <2>2
    DEF ContentInv, StudioJobsAreReal, StudioRenders, InputsAreVoiced, Voiced, InputsAreCurrent,
        Entered, Step
  <2>4. ViewIsCurrent' /\ OutputIsWhole' /\ OutputIsApproved'
    BY <2>1, <2>2 DEF ContentInv, ViewIsCurrent, NewVersion, OutputIsWhole, OutputIsApproved
  <2> QED
    BY <1>3, <2>3, <2>4, PassReviewOpens DEF ContentInv
<1>4. ASSUME NEW s \in Segment, Edit(s)
      PROVE  StepsInOrder' /\ ContentInv'
  <2>1. /\ UNCHANGED <<dub, step, full, cut, read, subtitles, studio, output>>
        /\ NewVersion
        /\ changed' = FALSE => changed = FALSE /\ step["REVIEW"] # "SUCCEEDED"
    BY <1>4 DEF Edit
  <2>2. StepsInOrder'
    BY <2>1 DEF StepsInOrder, Entered
  <2>3. StudioJobsAreReal' /\ InputsAreVoiced' /\ ViewIsCurrent' /\ OutputIsWhole'
    BY <2>1
    DEF ContentInv, StudioJobsAreReal, StudioRenders, InputsAreVoiced, Voiced, ViewIsCurrent,
        NewVersion, OutputIsWhole, Entered
  <2>4. step["REVIEW"] # "SUCCEEDED" =>
            /\ ~Entered("RENDER") /\ ~Entered("SRT") /\ ~Entered("SEPARATE")
            /\ full # "SUCCEEDED"
    BY Before DEF StepsInOrder, Step
  <2>5. InputsAreCurrent' /\ OutputIsApproved'
    BY <2>1, <2>4
    DEF ContentInv, InputsAreCurrent, OutputIsApproved, StudioJobsAreReal, StudioRenders, Entered
  <2> QED
    BY <2>2, <2>3, <2>5 DEF ContentInv
<1> QED
  BY <1>1, <1>2, <1>3, <1>4

(* A job of Studio that is created, and the background and dubs it is given. *)
LEMMA CreateStudioJobStep ==
    ASSUME ScriptTypes, StepsInOrder, ContentInv, NEW j \in StudioJob,
           Rerender(j) \/ \E s \in Segment : Regenerate(j, s)
    PROVE  StepsInOrder' /\ ContentInv'
<1> USE DEF ScriptTypes, ScriptTypeOK
<1>1. PICK kind, input :
          /\ kind \in {"REGENERATE", "RENDER"}
          /\ kind = "RENDER" => RenderInputs /\ input = dub
          /\ studio' = [studio EXCEPT ![j] = [kind |-> kind, status |-> "READY", input |-> input]]
          /\ NewVersion
          /\ UNCHANGED <<text, dub, step, full, cut, read, subtitles, output, changed>>
  BY DEF Rerender, Regenerate, CreateStudioJob
<1>2. \A i \in StudioJob \ {j} : studio'[i] = studio[i]
  BY <1>1
<1>3. studio'[j].kind = kind /\ studio'[j].status = "READY" /\ studio'[j].input = input
  BY <1>1
<1>4. StepsInOrder' /\ ViewIsCurrent' /\ OutputIsWhole' /\ OutputIsApproved'
  BY <1>1
  DEF StepsInOrder, Entered, ContentInv, ViewIsCurrent, NewVersion, OutputIsWhole, OutputIsApproved
<1>5. StudioJobsAreReal'
  BY <1>1, <1>2, <1>3 DEF ContentInv, StudioJobsAreReal, StudioRenders, RenderInputs
<1>6. RenderInputs => Voiced(dub)
  BY Before DEF ContentInv, InputsAreVoiced, RenderInputs, Entered
<1>7. InputsAreVoiced' /\ InputsAreCurrent'
  BY <1>1, <1>2, <1>3, <1>6
  DEF ContentInv, InputsAreVoiced, InputsAreCurrent, StudioRenders, Voiced, Entered
<1> QED
  BY <1>4, <1>5, <1>7 DEF ContentInv

(* What a job of Studio changes when it completes. *)
LEMMA StudioTaskStep ==
    ASSUME ScriptTypes, StepsInOrder, ContentInv, NEW j \in StudioJob, StudioTask(j)
    PROVE  StepsInOrder' /\ ContentInv'
<1> USE DEF ScriptTypes, ScriptTypeOK
<1>1. /\ UNCHANGED <<text, step, full, cut, read, subtitles>>
      /\ UNCHANGED seen \/ NewVersion
      /\ \A i \in StudioJob \ {j} : studio'[i] = studio[i]
      /\ studio'[j].status # "none" =>
             studio[j].status # "none" /\ studio'[j].kind = studio[j].kind
                                      /\ studio'[j].input = studio[j].input
  BY DEF StudioTask, ClaimJob, CompleteJob, CancelStudioJob, RetryJob, FailJob, SetJob, Ended, NoJob
<1>2. StepsInOrder'
  BY <1>1 DEF StepsInOrder, Entered
<1>3. StudioJobsAreReal'
  BY <1>1 DEF ContentInv, StudioJobsAreReal, StudioRenders
<1>4. \A i \in StudioJob :
          StudioRenders(i)' => StudioRenders(i) /\ studio'[i].input = studio[i].input
  BY <1>1 DEF StudioRenders
<1>5. CASE UNCHANGED <<dub, output, changed, seen>>
  BY <1>1, <1>2, <1>3, <1>4, <1>5
  DEF ContentInv, InputsAreVoiced, Voiced, InputsAreCurrent, ViewIsCurrent, OutputIsWhole,
      OutputIsApproved, Entered
<1>6. CASE CompleteJob(j) /\ studio[j].kind = "REGENERATE"
  <2>1. /\ dub' = [s \in Segment |-> IF studio[j].input[s] = 0 THEN dub[s] ELSE studio[j].input[s]]
        /\ changed' = FALSE => changed = FALSE /\ step["REVIEW"] # "SUCCEEDED"
        /\ output' = output /\ NewVersion
    BY <1>6 DEF CompleteJob
  <2>2. Voiced(dub) => Voiced(dub')
    BY <2>1 DEF Voiced
  <2>3. step["REVIEW"] # "SUCCEEDED" =>
            /\ ~Entered("RENDER") /\ ~Entered("SRT") /\ ~Entered("SEPARATE")
            /\ full # "SUCCEEDED"
    BY Before DEF StepsInOrder, Step
  <2>4. InputsAreVoiced'
    BY <1>1, <1>4, <2>2 DEF ContentInv, InputsAreVoiced, Entered, Voiced
  <2>5. InputsAreCurrent' /\ OutputIsApproved'
    BY <1>1, <1>4, <2>1, <2>3
    DEF ContentInv, InputsAreCurrent, OutputIsApproved, StudioJobsAreReal, StudioRenders, Entered
  <2>6. ViewIsCurrent' /\ OutputIsWhole'
    BY <1>1, <2>1 DEF ContentInv, ViewIsCurrent, NewVersion, OutputIsWhole
  <2> QED
    BY <1>2, <1>3, <2>4, <2>5, <2>6 DEF ContentInv
<1>7. CASE CompleteJob(j) /\ studio[j].kind # "REGENERATE"
  <2>1. /\ StudioRenders(j)
        /\ output' = [dub |-> studio[j].input, subtitles |-> subtitles]
        /\ UNCHANGED <<dub, changed>> /\ NewVersion
    BY <1>7 DEF CompleteJob, StudioRenders, ContentInv, StudioJobsAreReal
  <2>2. step["REVIEW"] = "SUCCEEDED"
    BY <2>1, Before DEF ContentInv, StudioJobsAreReal, Entered
  <2>3. InputsAreVoiced' /\ InputsAreCurrent' /\ ViewIsCurrent'
    BY <1>1, <1>4, <2>1
    DEF ContentInv, InputsAreVoiced, Voiced, InputsAreCurrent, ViewIsCurrent, NewVersion, Entered
  <2>4. OutputIsWhole' /\ OutputIsApproved'
    BY <1>1, <2>1, <2>2
    DEF ContentInv, InputsAreVoiced, Voiced, InputsAreCurrent, OutputIsWhole, OutputIsApproved,
        StepsInOrder, Step
  <2> QED
    BY <1>2, <1>3, <2>3, <2>4 DEF ContentInv
<1> QED
  BY <1>5, <1>6, <1>7
  DEF StudioTask, ClaimJob, CancelStudioJob, RetryJob, FailJob

-----------------------------------------------------------------------------
(* The specification. *)

(* A new script has nothing that was made of it. *)
LEMMA ScriptInvInit == Init => ScriptInv
<1> SUFFICES ASSUME Init PROVE ScriptInv
  OBVIOUS
<1> USE DEF Init, ScriptInit, Silence, First, NoOutput, Unseen, NoJob
<1>1. ScriptTypeOK
  <2>1. Silence \in Lines /\ First \in Lines
    BY DEF Lines
  <2> QED
    BY <2>1 DEF ScriptTypeOK, StepStatus, RenderOutput, View
<1>2. cast = "studio" => video \in VideoStatus
  BY DEF VideoStatus
<1>3. StepsInOrder
  BY NeedsOf DEF StepsInOrder, Entered, Step
<1>4. StudioJobsAreReal /\ InputsAreVoiced /\ InputsAreCurrent
  BY DEF StudioJobsAreReal, InputsAreVoiced, InputsAreCurrent, StudioRenders, Entered, Step
<1>5. ViewIsCurrent /\ OutputIsWhole /\ OutputIsApproved
  BY DEF ViewIsCurrent, OutputIsWhole, OutputIsApproved
<1> QED
  BY <1>1, <1>2, <1>3, <1>4, <1>5 DEF ScriptInv, ContentInv

(* In the other casts nobody touches the script. *)
LEMMA ScriptKept ==
    ASSUME ScriptInv, UNCHANGED <<scriptVars, cast>>, cast # "studio" \/ video' \in VideoStatus
    PROVE  ScriptInv'
<1> USE DEF ScriptInv, scriptVars
<1>1. ScriptTypeOK'
  BY DEF ScriptTypeOK
<1>2. StepsInOrder'
  BY DEF StepsInOrder, Entered
<1>3. StudioJobsAreReal' /\ InputsAreVoiced' /\ InputsAreCurrent'
  BY DEF ContentInv, StudioJobsAreReal, InputsAreVoiced, Voiced, InputsAreCurrent, StudioRenders,
         Entered
<1>4. ViewIsCurrent' /\ OutputIsWhole' /\ OutputIsApproved'
  BY DEF ContentInv, ViewIsCurrent, OutputIsWhole, OutputIsApproved
<1> QED
  BY <1>1, <1>2, <1>3, <1>4 DEF ContentInv

(* Every step of the life of a video keeps what it is made of in order. *)
LEMMA ScriptInvStep ==
    ASSUME ScriptInv, [Next]_lifecycleVars
    PROVE  ScriptInv'
<1>1. CASE \/ ScriptStep(FullPipeline) \/ ScriptStep(Editor)
            \/ \E j \in StudioJob : ScriptStep(StudioTask(j))
  <2>1. ScriptTypes /\ StepsInOrder /\ ContentInv /\ UNCHANGED cast
    BY <1>1 DEF ScriptStep, ScriptInv, ScriptTypes
  <2>2. FullPipeline \/ Editor \/ \E j \in StudioJob : StudioTask(j)
    BY <1>1 DEF ScriptStep
  <2>3. ScriptTypes'
    BY <2>1, <2>2, FullPipelineTypes, StudioTypes
  <2>4. ASSUME FullPipeline
        PROVE  StepsInOrder' /\ ContentInv'
    BY <2>1, <2>4, FullPipelineOrder, DubAllStep, LaterStepSucceeds, StepGoesOn
    DEF FullPipeline
  <2>5. ASSUME Editor
        PROVE  StepsInOrder' /\ ContentInv'
    BY <2>1, <2>5, EditorStep, CreateStudioJobStep DEF Editor
  <2>6. ASSUME NEW j \in StudioJob, StudioTask(j)
        PROVE  StepsInOrder' /\ ContentInv'
    BY <2>1, <2>6, StudioTaskStep
  <2> QED
    BY <2>1, <2>2, <2>3, <2>4, <2>5, <2>6 DEF ScriptInv, ScriptTypes
<1>2. CASE Pipeline
  BY <1>2, ScriptKept DEF Pipeline, DeletionStep
<1>3. CASE Workspace
  BY <1>3, ScriptKept DEF Workspace, PublishingStep
<1>4. CASE RemoveRows /\ UNCHANGED <<scriptVars, cast>>
  BY <1>4, ScriptKept DEF RemoveRows, ScriptInv, VideoStatus
<1>5. CASE \/ DeletionStep(Tick) \/ Clock
           \/ DeletionStep(Review) \/ DeletionStep(RequestDeletion)
           \/ DeletionStep(TickFails) \/ DeletionStep(Crash) \/ DeletionStep(Restart)
  BY <1>5, ScriptKept DEF DeletionStep, Clock
<1>6. CASE UNCHANGED lifecycleVars
  BY <1>6, ScriptKept DEF lifecycleVars, deletionVars, videoVars, ScriptInv
<1> QED
  BY <1>1, <1>2, <1>3, <1>4, <1>5, <1>6 DEF Next, DeletionRunner

(* ScriptInv holds throughout the life of a video. *)
LEMMA ScriptInvariant == Spec => []ScriptInv
BY ScriptInvInit, ScriptInvStep, PTL DEF Spec

(* An editor, a job of the pipeline or of Studio, and another reviewer all *)
(* make a decision stale that was about what they have changed.            *)
THEOREM DecisionsAreCurrent == Spec => []ViewIsCurrent
<1>1. ScriptInv => ViewIsCurrent
  BY DEF ScriptInv, ContentInv
<1> QED
  BY <1>1, ScriptInvariant, PTL

(* No render, of the pipeline or of Studio, lacks the voice of a segment or *)
(* comes before the review of the dub.                                      *)
THEOREM RendersAreWhole == Spec => []OutputIsWhole
<1>1. ScriptInv => OutputIsWhole
  BY DEF ScriptInv, ContentInv
<1> QED
  BY <1>1, ScriptInvariant, PTL

(* A pipeline that ends with nothing changed since the review delivers the dub *)
(* and the script that were approved.                                          *)
THEOREM RendersAreApproved == Spec => []OutputIsApproved
<1>1. ScriptInv => OutputIsApproved
  BY DEF ScriptInv, ContentInv
<1> QED
  BY <1>1, ScriptInvariant, PTL
=============================================================================
