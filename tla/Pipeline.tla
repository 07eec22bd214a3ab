------------------------------ MODULE Pipeline ------------------------------
(***************************************************************************)
(* The dubbing pipeline: GPU workers behind the worker task API, the       *)
(* control plane's own runner, the reviewer and the queue, all advancing   *)
(* the same jobs.  The API and the runner are one process: while it is     *)
(* down or still recovering, only clocks move.                             *)
(***************************************************************************)
EXTENDS ControlPlaneRunner

CONSTANTS Session, Nobody, CanRun, Overlap, MaxCalls

VARIABLES lease, current, calls

Workers == INSTANCE TaskLeases

ASSUME PipelineAssumption ==
    /\ Nobody \notin Session
    /\ CanRun \in [Session -> SUBSET Task]
    /\ Overlap \subseteq Workers!Op
    /\ MaxCalls \in Nat

pipelineVars == <<dbVars, lease, current, calls, runnerVars>>

Up == ~InPhase("down") /\ ~InPhase("recovering")

-----------------------------------------------------------------------------
(* The reviewer (PrismaStudioRepository.review, Serializable). *)

(* An approval of the dub resumes the pipeline at the waiting review task. *)
Approve(t) ==
    LET j == JobOf[t]
        st == [status EXCEPT ![t] = "SUCCEEDED"]
        us == Unlocked(st, t)
    IN  /\ Class[t] = "HUMAN"
        /\ status[t] = "WAITING"
        /\ \A u \in {t} \cup us : RowFree(u)
        /\ status' = AfterUnlock(st, us)
        /\ progress' = [progress EXCEPT ![t] = ProgressTop]
        /\ job' = [job EXCEPT ![j] = Aggregate(AfterUnlock(st, us), j)]
        /\ video' = [video EXCEPT ![j] = "PROCESSING"]
        /\ UNCHANGED <<attemptCount, maxAttempts, attempt, failure, committing>>

(* Any other decision sends the video back to review, whatever its job does. *)
OtherDecision(j) ==
    /\ video' = [video EXCEPT ![j] = "AWAITING_REVIEW"]
    /\ UNCHANGED <<status, attemptCount, maxAttempts, progress, attempt, job, failure,
                   committing>>

Review ==
    /\ Up
    /\ \/ \E t \in Task : Approve(t)
       \/ \E j \in Job : OtherDecision(j)
    /\ UNCHANGED <<lease, current, calls, runnerVars>>

-----------------------------------------------------------------------------
(* The worker task API and the queue. *)
WorkerRequest ==
    /\ Up
    /\ \/ \E s \in Session, t \in Task : Workers!Claim(s, t)
       \/ \E t \in Task, n \in AttemptNumber : Workers!Request(t, n)
       \/ \E c \in calls : Workers!Finish(c)
       \/ \E c \in committing : Workers!Commit(c)
       \/ \E s \in Session : Workers!EndSession(s)
    /\ UNCHANGED runnerVars

QueueRequest ==
    /\ Up
    /\ \/ \E j \in Job : Workers!Cancel(j)
       \/ \E t \in Task : Workers!Retry(t)
    /\ UNCHANGED runnerVars

LeaseClock ==
    /\ \E t \in Task, n \in AttemptNumber : Workers!Expire(t, n)
    /\ UNCHANGED runnerVars

(* The runner. *)
Poll ==
    /\ \/ \E t \in ControlTask : RunnerClaim(t)
       \/ \E phase \in {"succeeding", "failing"} : Execute(phase)
       \/ Discard
       \/ Succeed
       \/ BeginSucceed
       \/ \E c \in committing : CommitSucceed(c)
       \/ RecordFailure
       \/ LoseFailure
    /\ UNCHANGED <<lease, current, calls>>

Boot ==
    /\ \/ Restart
       \/ \E t \in ControlTask : Recover(t)
       \/ BeginPolling
    /\ UNCHANGED <<lease, current, calls>>

RunnerClock ==
    /\ \E t \in ControlTask : Age(t)
    /\ UNCHANGED <<lease, current, calls>>

ProcessCrash ==
    /\ Crash
    /\ calls' = {}
    /\ UNCHANGED <<lease, current>>

Init == Workers!Init /\ RunnerInit

Next ==
    \/ Review
    \/ WorkerRequest
    \/ QueueRequest
    \/ LeaseClock
    \/ Poll
    \/ Boot
    \/ RunnerClock
    \/ ProcessCrash

Spec == Init /\ [][Next]_pipelineVars

(***************************************************************************)
(* Fairness.  The timer keeps the runner polling while the process is up,  *)
(* whatever it executes returns or throws, a process that died is started  *)
(* again, time passes, and a recovery is not interrupted for ever.         *)
(***************************************************************************)
Fairness ==
    /\ WF_pipelineVars(Poll)
    /\ WF_pipelineVars(Boot)
    /\ \A t \in ControlTask :
           /\ WF_pipelineVars(Age(t) /\ UNCHANGED <<lease, current, calls>>)
           /\ SF_pipelineVars(Recover(t) /\ UNCHANGED <<lease, current, calls>>)

FairSpec == Spec /\ Fairness
-----------------------------------------------------------------------------
(* Every variable has the type of its column. *)
TypeOK == Workers!TypeOK /\ RunnerTypeOK

(***************************************************************************)
(* No task leaves BLOCKED before all its prerequisites have succeeded, and *)
(* it does not keep what it gained from one that is taken back later:      *)
(* "... or unlock a dependent too early" (pipeline-orchestrator.ts).       *)
(***************************************************************************)
NoEarlyUnlock ==
    \A t \in Task : status[t] \notin {"BLOCKED", "CANCELLED"} =>
        \A d \in Deps[t] : status[d] = "SUCCEEDED"

(***************************************************************************)
(* A control plane task is RUNNING exactly while one of its attempts is    *)
(* STARTED, which is its latest; and what the runner works on is that      *)
(* attempt, unless the queue cancelled it meanwhile.                       *)
(***************************************************************************)
WorksOn(t) == runner.phase \in {"executing", "succeeding", "failing", "committing"}
              /\ runner.task = t

RunnerOwnsWork ==
    \A t \in ControlTask :
        /\ status[t] = "RUNNING" <=> \E k \in AttemptNumber : attempt[t][k] = "STARTED"
        /\ \A k \in AttemptNumber : attempt[t][k] = "STARTED" => k = attemptCount[t]
        /\ WorksOn(t) => /\ runner.attempt = attemptCount[t]
                         /\ attempt[t][runner.attempt] \in {"STARTED", "CANCELLED"}

(***************************************************************************)
(* A GPU task is LEASED or RUNNING exactly while it has an unreleased      *)
(* lease, also when the process dies with transactions open.               *)
(***************************************************************************)
WorkersOwnWork ==
    \A t \in Task \ ControlTask :
        status[t] \in {"LEASED", "RUNNING"} <=> \E n \in AttemptNumber : Workers!Active(t, n)

(* Whatever task is worked on has one executor of its kind, and knows it. *)
WorkIsOwned == RunnerOwnsWork /\ WorkersOwnWork

(***************************************************************************)
(* The job row agrees with its tasks whoever completed the last of them:   *)
(* it is SUCCEEDED exactly when all of them are; a CANCELLED one has tasks *)
(* that are CANCELLED and none that could be claimed or is held; and where *)
(* one task is CANCELLED the job is too, unless the runner has recorded    *)
(* the end of its own task over the cancel: then nothing of the job is     *)
(* left to do, or held by anybody, but that one task.                      *)
(***************************************************************************)
Over(t) == status[t] \in {"SUCCEEDED", "CANCELLED"}

Revived(j) ==
    \E t \in ControlTask \cap TasksOf(j) :
        /\ status[t] \notin {"BLOCKED", "CANCELLED"}
        /\ \A u \in TasksOf(j) \ {t} : Over(u)

JobAgrees ==
    \A j \in Job :
        /\ job[j] = "SUCCEEDED" <=> \A t \in TasksOf(j) : status[t] = "SUCCEEDED"
        /\ job[j] = "CANCELLED" => \A t \in TasksOf(j) : Over(t)
        /\ job[j] = "CANCELLED" => \E t \in TasksOf(j) : status[t] = "CANCELLED"
        /\ (\E t \in TasksOf(j) : status[t] = "CANCELLED") => job[j] = "CANCELLED" \/ Revived(j)

(***************************************************************************)
(* No result is ever taken back, and a cancel only by the runner, of the   *)
(* one task whose check it has behind it.                                  *)
(***************************************************************************)
Overwritten(t) ==
    /\ status[t] = "CANCELLED"
    /\ runner.phase \in {"succeeding", "failing", "committing"}
    /\ runner.task = t

EndIsFinal ==
    [][/\ \A t \in Task : Over(t) => status'[t] = status[t] \/ Overwritten(t)
       /\ \A j \in Job : job[j] \in {"SUCCEEDED", "CANCELLED"} =>
              \/ job'[j] = job[j]
              \/ job[j] = "CANCELLED" /\ \E t \in TasksOf(j) : Overwritten(t)]_pipelineVars

(***************************************************************************)
(* A control plane task that is RUNNING although no runner works on it.    *)
(* Only a start of the process ends it: if the process is restarted again  *)
(* and again, no task stays like that for ever.                            *)
(***************************************************************************)
Orphan(t) == status[t] = "RUNNING" /\ ~WorksOn(t)

OrphansEnd ==
    []<>InPhase("down") => \A t \in ControlTask : []<>(~Orphan(t))
-----------------------------------------------------------------------------
(* What the documentation says of steps that the code takes. *)

(* "... and opens the next dependency" (worker-task-execution.md): a task   *)
(* whose prerequisites have all succeeded is not left BLOCKED.              *)
NoStranded ==
    \A t \in Task : status[t] = "BLOCKED" => \E d \in Deps[t] : status[d] # "SUCCEEDED"

(* "CANCELLED and SUCCEEDED are terminal" (queue-lifecycle.md), of a cancelled *)
(* task whose end the runner is about to record.                               *)
CancelledIsTerminal ==
    [][\A t \in Task : status[t] = "CANCELLED" => status'[t] = "CANCELLED"]_pipelineVars
=============================================================================
