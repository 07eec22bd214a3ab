------------------------- MODULE ControlPlaneRunner -------------------------
(***************************************************************************)
(* The control plane's own executor (ControlPlaneRunner): one process that *)
(* polls for READY tasks of resource class CPU or CONTROL_PLANE, executes  *)
(* one at a time outside any transaction, and records the result in a      *)
(* READ COMMITTED transaction (succeed, fail) that first re-reads the      *)
(* task, without a lock, and writes by primary key much later: whatever    *)
(* commits in between is written over.  The process may die at any point;  *)
(* when it starts again it first times out the attempts that an earlier    *)
(* life left STARTED, if they are older than five minutes, and only then   *)
(* begins to poll.  Nothing looks for such attempts later.                 *)
(*                                                                         *)
(* The process also serves the HTTP API, so every transaction that is open *)
(* when it dies is rolled back.                                            *)
(***************************************************************************)
EXTENDS PipelineDb

VARIABLES
    runner, \* what the process is doing, and on which attempt of which task
    young   \* control plane tasks whose latest attempt started recently

runnerVars == <<runner, young>>

ControlTask == {t \in Task : Class[t] = "CONTROL_PLANE"}

Resting == [phase : {"down", "idle"}]
Recovering == [phase : {"recovering"}, todo : SUBSET ControlTask]
Working == [phase : {"executing", "succeeding", "failing", "committing"},
            task : ControlTask, attempt : AttemptNumber]

Down == [phase |-> "down"]
Idle == [phase |-> "idle"]
On(phase, t, k) == [phase |-> phase, task |-> t, attempt |-> k]

InPhase(phase) == runner.phase = phase

RunnerInit ==
    /\ runner = Idle
    /\ young = {}

(* Not faithful, for mutation: a task someone is running may be claimed too. *)
RunnableAgain(t) == status[t] \in {"READY", "RUNNING"} /\ HasBudget(t)

Runnable(t) == status[t] = "READY" /\ HasBudget(t)

(* claim: the runner does not look at the job of the task it takes. *)
RunnerClaim(t) ==
    LET k == attemptCount[t] + 1
    IN  /\ InPhase("idle")
        /\ Runnable(t)
        /\ RowFree(t)
        /\ attempt' = [attempt EXCEPT ![t][k] = "STARTED"]
        /\ status' = [status EXCEPT ![t] = "RUNNING"]
        /\ attemptCount' = [attemptCount EXCEPT ![t] = k]
        /\ job' = [job EXCEPT ![JobOf[t]] = "RUNNING"]
        /\ runner' = On("executing", t, k)
        /\ young' = young \cup {t}
        /\ UNCHANGED <<maxAttempts, progress, failure, video, committing>>

(* The task as succeed and fail re-read it is still the one that was claimed. *)
StillClaimed ==
    /\ status[runner.task] = "RUNNING"
    /\ attemptCount[runner.task] = runner.attempt

(* execute returns or throws, and succeed or fail has read the task it is   *)
(* to write: the check is over, nothing is locked.  A succeed that throws   *)
(* is rolled back and goes on as a fail, which reads the task again; of     *)
(* that only the last reading counts.                                       *)
Execute(phase) ==
    /\ InPhase("executing")
    /\ phase \in {"succeeding", "failing"}
    /\ StillClaimed
    /\ runner' = [runner EXCEPT !.phase = phase]
    /\ UNCHANGED <<dbVars, young>>

(* succeed or fail finds that the task has moved on and returns. *)
Discard ==
    /\ InPhase("executing")
    /\ ~StillClaimed
    /\ runner' = Idle
    /\ UNCHANGED <<dbVars, young>>

(* The writes of succeed, on the rows as they have become: a cancel that     *)
(* has committed since the check is overwritten.                             *)
Succeed ==
    /\ InPhase("succeeding")
    /\ RowFree(runner.task)
    /\ ApplyCompletion(Completion(runner.task, runner.attempt, 0))
    /\ runner' = Idle
    /\ UNCHANGED <<committing, young>>

(* succeed, up to the point where it has read the siblings of its task. *)
BeginSucceed ==
    LET new == Completion(runner.task, runner.attempt, 0)
    IN  /\ SplitCommit
        /\ InPhase("succeeding")
        /\ RowFree(runner.task)
        /\ \A u \in new.unlock : RowFree(u)
        /\ committing' = committing \cup {new}
        /\ runner' = [runner EXCEPT !.phase = "committing"]
        /\ UNCHANGED <<status, attemptCount, maxAttempts, progress, attempt, job, failure,
                       video, young>>

CommitSucceed(c) ==
    /\ InPhase("committing")
    /\ c \in committing
    /\ c.fence = 0
    /\ ApplyCompletion(c)
    /\ committing' = committing \ {c}
    /\ runner' = Idle
    /\ UNCHANGED young

(* The writes of fail: the attempt ends.  Without budget it fails the task, *)
(* the job and the video; the failure code is not one the queue's retry     *)
(* accepts.  The budget is that of the check: only a task that is FAILED or *)
(* READY can have it changed, which this one is not before these writes.    *)
RecordFailure ==
    LET t == runner.task
        j == JobOf[t]
        retry == HasBudget(t)
    IN  /\ InPhase("failing")
        /\ RowFree(t)
        /\ attempt' = [attempt EXCEPT ![t][runner.attempt] = "FAILED"]
        /\ status' = [status EXCEPT ![t] = IF retry THEN "READY" ELSE "FAILED"]
        /\ job' = [job EXCEPT ![j] = IF retry THEN "RUNNING" ELSE "FAILED"]
        /\ failure' = [failure EXCEPT ![j] = IF retry THEN @ ELSE "PERMANENT"]
        /\ video' = [video EXCEPT ![j] = IF retry THEN @ ELSE "FAILED"]
        /\ runner' = Idle
        /\ UNCHANGED <<attemptCount, maxAttempts, progress, committing, young>>

(* The transaction that records the failure fails itself: tick swallows it. *)
LoseFailure ==
    /\ InPhase("failing")
    /\ runner' = Idle
    /\ UNCHANGED <<dbVars, young>>

(* INTERRUPTED_AFTER_MS have passed since the latest attempt of t started. *)
Age(t) ==
    /\ t \in young
    /\ young' = young \ {t}
    /\ UNCHANGED <<dbVars, runner>>

Crash ==
    /\ ~InPhase("down")
    /\ runner' = Down
    /\ committing' = {}
    /\ UNCHANGED <<status, attemptCount, maxAttempts, progress, attempt, job, failure,
                   video, young>>

(* Not faithful, for mutation: attempts without a retry left are not recovered. *)
InterruptedRetryable ==
    {t \in ControlTask \ young :
        /\ status[t] = "RUNNING" /\ HasBudget(t)
        /\ \E k \in AttemptNumber : attempt[t][k] = "STARTED"}

(* The attempts that recoverInterrupted finds when the process starts. *)
Interrupted ==
    {t \in ControlTask \ young :
        /\ status[t] = "RUNNING"
        /\ \E k \in AttemptNumber : attempt[t][k] = "STARTED"}

Restart ==
    /\ InPhase("down")
    /\ runner' = [phase |-> "recovering", todo |-> Interrupted]
    /\ UNCHANGED <<dbVars, young>>

(* recoverInterrupted, for one of them.  The queue cannot be reached yet,  *)
(* so the attempt is still STARTED.  The video is left as it is.           *)
Recover(t) ==
    LET j == JobOf[t]
        retry == HasBudget(t)
    IN  /\ InPhase("recovering")
        /\ t \in runner.todo
        /\ attempt' = [attempt EXCEPT ![t] = [k \in AttemptNumber |->
                          IF @[k] = "STARTED" THEN "TIMED_OUT" ELSE @[k]]]
        /\ status' = [status EXCEPT ![t] = IF @ # "RUNNING" THEN @
                                           ELSE IF retry THEN "READY" ELSE "FAILED"]
        /\ job' = [job EXCEPT ![j] = IF retry THEN "RUNNING" ELSE "FAILED"]
        /\ failure' = [failure EXCEPT ![j] = IF retry THEN @ ELSE "PERMANENT"]
        /\ runner' = [runner EXCEPT !.todo = @ \ {t}]
        /\ UNCHANGED <<attemptCount, maxAttempts, progress, video, committing, young>>

BeginPolling ==
    /\ InPhase("recovering")
    /\ runner.todo = {}
    /\ runner' = Idle
    /\ UNCHANGED <<dbVars, young>>

RunnerTypeOK ==
    /\ runner \in Resting \cup Recovering \cup Working
    /\ young \subseteq ControlTask
=============================================================================
