----------------------------- MODULE PipelineDb -----------------------------
(***************************************************************************)
(* The pipeline tables of the control plane database: pipeline_jobs,       *)
(* pipeline_tasks, pipeline_task_dependencies and task_attempts, and the   *)
(* three pieces of code every executor shares:                             *)
(*                                                                         *)
(*   - PipelineOrchestrator, which unlocks the dependents of a completed   *)
(*     task and recomputes the status of its job;                          *)
(*   - cancelJobInTransaction (queue/infrastructure/cancel-job.ts);        *)
(*   - the queue's manual retry of a failed task.                          *)
(*                                                                         *)
(* Transactions opened without an isolation level run at PostgreSQL's      *)
(* READ COMMITTED: a completion reads its siblings in one statement and    *)
(* commits in a later one.  Such a completion is a record of `committing'  *)
(* between the two; it holds the locks of the rows it has already written  *)
(* but not the job row, which it updates last.                             *)
(***************************************************************************)
EXTENDS Naturals, FiniteSets

CONSTANTS
    Job,                \* pipeline_jobs rows
    Task,               \* pipeline_tasks rows
    JobOf,              \* pipeline_tasks.pipeline_job_id
    Deps,               \* pipeline_task_dependencies: prerequisites of a task
    Class,              \* resource_class: "GPU", "CONTROL_PLANE" or "HUMAN"
    CreatedAfter,       \* tasks whose created_at is later than the task's
    InitialMaxAttempts, \* max_attempts of a new task (3 for every task in schema.prisma)
    AttemptBound,       \* BOUND: attempts a task may ever have
    ProgressTop,        \* progress_bps is 0..ProgressTop; ProgressTop is 10000
    SplitCommit         \* whether other steps may come between a completion's
                        \* reading of its siblings and its commit

ASSUME TablesAssumption ==
    /\ JobOf \in [Task -> Job]
    /\ Deps \in [Task -> SUBSET Task]
    /\ Class \in [Task -> {"GPU", "CONTROL_PLANE", "HUMAN"}]
    /\ CreatedAfter \in [Task -> SUBSET Task]

ASSUME BoundsAssumption ==
    /\ AttemptBound \in Nat
    /\ InitialMaxAttempts \in [Task -> 1..AttemptBound]
    /\ ProgressTop \in Nat \ {0}
    /\ SplitCommit \in BOOLEAN

VARIABLES
    status,       \* pipeline_tasks.status
    attemptCount, \* pipeline_tasks.attempt_count
    maxAttempts,  \* pipeline_tasks.max_attempts
    progress,     \* pipeline_tasks.progress_bps
    attempt,      \* task_attempts.status, by task and attempt_number
    job,          \* pipeline_jobs.status
    failure,      \* pipeline_jobs.failure_code, by whether retry allows it
    video,        \* videos.status of the job's video
    committing    \* completions that have read their siblings, not committed

dbVars == <<status, attemptCount, maxAttempts, progress, attempt, job,
            failure, video, committing>>

TaskStatus == {"BLOCKED", "READY", "LEASED", "RUNNING", "WAITING",
               "SUCCEEDED", "FAILED", "CANCELLED"}
JobStatus == {"QUEUED", "RUNNING", "WAITING_FOR_GPU", "WAITING_FOR_REVIEW",
              "SUCCEEDED", "FAILED", "CANCELLED"}
ActiveJobStatus == {"QUEUED", "RUNNING", "WAITING_FOR_GPU", "WAITING_FOR_REVIEW"}
AttemptStatus == {"NONE", "STARTED", "SUCCEEDED", "FAILED", "TIMED_OUT", "CANCELLED"}
FailureClass == {"NONE", "RETRYABLE", "PERMANENT"}
VideoStatus == {"PROCESSING", "AWAITING_REVIEW", "READY_TO_PUBLISH", "FAILED"}

AttemptNumber == 1..AttemptBound
TasksOf(j) == {t \in Task : JobOf[t] = j}

(* Not faithful, for mutation: a retry that forgets the budget, *)
(* and one that is off by one.                                  *)
BudgetForgotten(t) == maxAttempts[t] > 0
BudgetOffByOne(t) == attemptCount[t] <= maxAttempts[t]

(* attempt_count < max_attempts: what every claim, and every retry, asks of a task. *)
HasBudget(t) == attemptCount[t] < maxAttempts[t]

(* Not faithful, for mutation: one prerequisite is enough. *)
UnlockedByAny(st, t) == {u \in Task : st[u] = "BLOCKED" /\ t \in Deps[u]}

(***************************************************************************)
(* unlockDependents: the BLOCKED dependents of t that have every           *)
(* prerequisite SUCCEEDED in st; a review gate waits for its reviewer.     *)
(***************************************************************************)
Unlocked(st, t) ==
    {u \in Task : /\ st[u] = "BLOCKED"
                  /\ t \in Deps[u]
                  /\ \A d \in Deps[u] : st[d] = "SUCCEEDED"}

AfterUnlock(st, us) ==
    [u \in Task |-> IF u \notin us THEN st[u]
                    ELSE IF Class[u] = "HUMAN" THEN "WAITING" ELSE "READY"]

(* Not faithful, for mutation: some for every. *)
AggregateOfSome(st, j) ==
    IF \E t \in TasksOf(j) : st[t] = "SUCCEEDED" THEN "SUCCEEDED" ELSE "RUNNING"

(* refreshAggregateStatus: the status of job j projected from its tasks. *)
Aggregate(st, j) ==
    LET Some(P(_)) == \E t \in TasksOf(j) : P(t)
        Failed(t) == st[t] = "FAILED"
        InReview(t) == Class[t] = "HUMAN" /\ st[t] = "WAITING"
        ForGpu(t) == Class[t] = "GPU" /\ st[t] = "READY"
    IN  IF \A t \in TasksOf(j) : st[t] = "SUCCEEDED" THEN "SUCCEEDED"
        ELSE IF Some(Failed) THEN "FAILED"
        ELSE IF Some(InReview) THEN "WAITING_FOR_REVIEW"
        ELSE IF Some(ForGpu) THEN "WAITING_FOR_GPU"
        ELSE "RUNNING"

(* What unlocking us and then reaching job status js does to a video in status v. *)
VideoAfter(v, us, js) ==
    IF js = "SUCCEEDED" THEN "READY_TO_PUBLISH"
    ELSE IF js = "FAILED" THEN "FAILED"
    ELSE IF \E u \in us : Class[u] = "HUMAN" THEN "AWAITING_REVIEW"
    ELSE v

(***************************************************************************)
(* The writes a completion of attempt k of task t decides on, from what it *)
(* can read: committed rows and its own.  `fence' is the lease it releases *)
(* and 0 when the executor holds no lease.                                 *)
(***************************************************************************)
Completion(t, k, fence) ==
    LET st == [status EXCEPT ![t] = "SUCCEEDED"]
        us == Unlocked(st, t)
    IN  [task |-> t, attempt |-> k, fence |-> fence, unlock |-> us,
         jobTo |-> Aggregate(AfterUnlock(st, us), JobOf[t])]

CompletionRecord ==
    [task : Task, attempt : AttemptNumber, fence : {0} \cup AttemptNumber,
     unlock : SUBSET Task, jobTo : JobStatus]

(* No open completion has written the row of task t or locked it to unlock it. *)
RowFree(t) == \A c \in committing : t # c.task /\ t \notin c.unlock

ApplyCompletion(c) ==
    LET j == JobOf[c.task]
    IN  /\ status' = AfterUnlock([status EXCEPT ![c.task] = "SUCCEEDED"], c.unlock)
        /\ progress' = [progress EXCEPT ![c.task] = ProgressTop]
        /\ attempt' = [attempt EXCEPT ![c.task][c.attempt] = "SUCCEEDED"]
        /\ job' = [job EXCEPT ![j] = c.jobTo]
        /\ video' = [video EXCEPT ![j] = VideoAfter(@, c.unlock, c.jobTo)]
        /\ UNCHANGED <<attemptCount, maxAttempts, failure>>

(* Not faithful, for mutation: a cancel takes back what has succeeded. *)
CancellableAll(j) == TasksOf(j)

(***************************************************************************)
(* cancelJobInTransaction, called by the queue's cancel (Serializable).    *)
(* A row another transaction holds makes it wait and then fail with a      *)
(* serialization error, so it takes effect only when its rows are free.    *)
(***************************************************************************)
Cancellable(j) ==
    {t \in TasksOf(j) : status[t] \notin {"SUCCEEDED", "CANCELLED"}}

CancelRows(j) ==
    /\ job[j] \in ActiveJobStatus
    /\ \A t \in Cancellable(j) : RowFree(t)
    /\ status' = [t \in Task |-> IF t \in Cancellable(j) THEN "CANCELLED" ELSE status[t]]
    /\ attempt' = [t \in Task |-> [k \in AttemptNumber |->
                      IF JobOf[t] = j /\ attempt[t][k] = "STARTED"
                      THEN "CANCELLED" ELSE attempt[t][k]]]
    /\ job' = [job EXCEPT ![j] = "CANCELLED"]
    /\ UNCHANGED <<attemptCount, maxAttempts, progress, failure, video, committing>>

(***************************************************************************)
(* The queue's retry of failed task t (Serializable): refused when a task  *)
(* created later already runs or succeeded.  BOUND: AttemptBound caps how  *)
(* often the budget is raised.                                             *)
(***************************************************************************)
RetryConflict(t) ==
    \E u \in TasksOf(JobOf[t]) \cap CreatedAfter[t] :
        status[u] \in {"SUCCEEDED", "RUNNING", "LEASED"}

RetryRows(t) ==
    LET j == JobOf[t]
    IN  /\ job[j] = "FAILED"
        /\ failure[j] = "RETRYABLE"
        /\ status[t] = "FAILED"
        /\ RowFree(t)
        /\ ~RetryConflict(t)
        /\ attemptCount[t] < AttemptBound
        /\ status' = [status EXCEPT ![t] = "READY"]
        /\ progress' = [progress EXCEPT ![t] = 0]
        /\ maxAttempts' = [maxAttempts EXCEPT ![t] =
                              IF @ > attemptCount[t] THEN @ ELSE attemptCount[t] + 1]
        /\ job' = [job EXCEPT ![j] = "QUEUED"]
        /\ failure' = [failure EXCEPT ![j] = "NONE"]
        /\ UNCHANGED <<attemptCount, attempt, video, committing>>

(***************************************************************************)
(* A new job: the tasks without prerequisites are READY, the others        *)
(* BLOCKED.                                                                *)
(***************************************************************************)
DbInit ==
    /\ status = [t \in Task |-> IF Deps[t] = {} THEN "READY" ELSE "BLOCKED"]
    /\ attemptCount = [t \in Task |-> 0]
    /\ maxAttempts = InitialMaxAttempts
    /\ progress = [t \in Task |-> 0]
    /\ attempt = [t \in Task |-> [k \in AttemptNumber |-> "NONE"]]
    /\ job = [j \in Job |-> "WAITING_FOR_GPU"]
    /\ failure = [j \in Job |-> "NONE"]
    /\ video = [j \in Job |-> "PROCESSING"]
    /\ committing = {}

DbTypeOK ==
    /\ status \in [Task -> TaskStatus]
    /\ attemptCount \in [Task -> 0..AttemptBound]
    /\ maxAttempts \in [Task -> 1..AttemptBound]
    /\ progress \in [Task -> 0..ProgressTop]
    /\ attempt \in [Task -> [AttemptNumber -> AttemptStatus]]
    /\ job \in [Job -> JobStatus]
    /\ failure \in [Job -> FailureClass]
    /\ video \in [Job -> VideoStatus]
    /\ committing \subseteq CompletionRecord
=============================================================================
