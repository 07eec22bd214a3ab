--------------------------- MODULE PipelineProofs ---------------------------
(***************************************************************************)
(* Proofs about Pipeline: its types; and, where the worker handlers that   *)
(* decide on the status of a task check and write at once (Atomic), that   *)
(* no task is unlocked too early, that work has one executor, and that     *)
(* what ended stays as it is.  The job row agrees with its tasks if        *)
(* moreover each job has a task that waits for all the others (LastTask):  *)
(* without one, two completions that read before they commit may both      *)
(* leave the job open.                                                     *)
(*                                                                         *)
(* Atomic says nothing of the control plane's runner, which writes long    *)
(* after its check in any case: a cancel that commits in between is taken  *)
(* back (Resumes), and what is proved says of which task, and what else of *)
(* its job is then left.                                                   *)
(*                                                                         *)
(* The argument separates the rows from the executors.  To the rows of     *)
(* tasks, jobs and open completions, a step of any executor is one of the  *)
(* six of RowsNext, and what is proved of the rows is proved of those.     *)
(***************************************************************************)
EXTENDS Pipeline, TLAPS

Atomic == Overlap \cap {"start", "complete", "fail"} = {}

JobsHaveTasks == \A j \in Job : \E t \in Task : JobOf[t] = j

(* The tasks that a task waits for, also by way of others. *)
IsBefore(B) ==
    /\ B \in [Task -> SUBSET Task]
    /\ \A t \in Task, e \in Task :
           e \in B[t] <=> e \in Deps[t] \/ \E d \in Deps[t] : e \in B[d]

Before == CHOOSE B : IsBefore(B)

LastTask ==
    SplitCommit =>
        /\ \E B : IsBefore(B)
        /\ \A j \in Job : \E t \in TasksOf(j) : TasksOf(j) \ {t} \subseteq Before[t]

-----------------------------------------------------------------------------
(* Leases. *)

(* Only GPU tasks are leased, once for each attempt, and the latest lease is *)
(* the only one that may be unreleased.                                      *)
LeasesAreAttempts ==
    \A t \in Task, n \in AttemptNumber :
        /\ lease[t][n].state # "NONE" <=> Class[t] = "GPU" /\ n <= attemptCount[t]
        /\ lease[t][n].state # "NONE" => lease[t][n].attempt = n
        /\ Workers!Active(t, n) => n = attemptCount[t]

(* Handlers past their check name leases that were granted. *)
HandlersWereGranted ==
    /\ \A c \in calls : lease[c.task][c.fence].state # "NONE"
    /\ \A c \in committing : c.fence # 0 =>
           c.attempt = c.fence /\ lease[c.task][c.fence].state # "NONE"

TypeInv == TypeOK /\ LeasesAreAttempts /\ HandlersWereGranted

-----------------------------------------------------------------------------
(* Rows. *)

(* What completion c is about to write follows from the rows. *)
WritesHold(c) ==
    /\ status[c.task] \in {"RUNNING", "CANCELLED"}
    /\ \A d \in Deps[c.task] : status[d] = "SUCCEEDED"
    /\ \A u \in c.unlock :
           /\ status[u] = "BLOCKED"
           /\ c.task \in Deps[u]
           /\ \A d \in Deps[u] : d # c.task => status[d] = "SUCCEEDED"
    /\ c.jobTo = "SUCCEEDED" =>
           \A u \in TasksOf(JobOf[c.task]) : u # c.task => status[u] = "SUCCEEDED"
    /\ c.jobTo # "CANCELLED"

CommitsHold ==
    /\ \A c \in committing : SplitCommit /\ WritesHold(c)
    /\ \A c, d \in committing : c.task = d.task => c = d

(* A job that has ended has no task left to work on. *)
EndedJobs ==
    \A j \in Job :
        /\ job[j] = "SUCCEEDED" => \A t \in TasksOf(j) : status[t] = "SUCCEEDED"
        /\ job[j] = "CANCELLED" =>
               \A t \in TasksOf(j) : status[t] \in {"SUCCEEDED", "CANCELLED"}

RowsInv == NoEarlyUnlock /\ EndedJobs /\ CommitsHold

(* A cancelled task of which the runner is about to record the end: nothing *)
(* that it needed, and no other task of its job, has been left to do.       *)
Resumes(t) ==
    /\ t \in ControlTask
    /\ Overwritten(t)
    /\ job[JobOf[t]] = "CANCELLED"
    /\ \A d \in Deps[t] : status[d] = "SUCCEEDED"

Completable(t) == status[t] = "RUNNING" \/ Resumes(t)

(* What ended stays as it is, but for what the runner takes back. *)
FinalStep ==
    /\ \A t \in Task : Over(t) => status'[t] = status[t] \/ Resumes(t)
    /\ \A j \in Job : job[j] \in {"SUCCEEDED", "CANCELLED"} =>
           \/ job'[j] = job[j]
           \/ /\ job[j] = "CANCELLED"
              /\ \E t \in TasksOf(j) : Resumes(t) /\ status'[t] # "CANCELLED"

(* A task is cancelled with its job, and unlocked before it succeeds. *)
CancelledTogether ==
    \A t \in Task : status[t] # "CANCELLED" /\ status'[t] = "CANCELLED" =>
        job'[JobOf[t]] = "CANCELLED"

UnlockedFirst == \A t \in Task : status[t] = "BLOCKED" => status'[t] # "SUCCEEDED"

-----------------------------------------------------------------------------
(* Executors. *)

(* An open completion holds its lease or is the runner's. *)
CommitsAreOwned ==
    \A c \in committing :
        IF c.fence = 0
        THEN c.task \in ControlTask /\ runner = On("committing", c.task, c.attempt)
        ELSE Workers!Active(c.task, c.fence)

(* Only the start of the process ends the attempts that it found. *)
FoundAreRunning ==
    InPhase("recovering") => \A t \in runner.todo : status[t] = "RUNNING"

CallsRecheck == \A c \in calls : c.op \in Overlap

OwnersInv == WorkIsOwned /\ CommitsAreOwned /\ FoundAreRunning /\ CallsRecheck

(* The task that the runner works on is RUNNING, or was cancelled with its job. *)
HeldInv ==
    \A t \in ControlTask : WorksOn(t) =>
        /\ status[t] = "RUNNING" \/ (status[t] = "CANCELLED" /\ job[JobOf[t]] = "CANCELLED")
        /\ \A d \in Deps[t] : status[d] = "SUCCEEDED"

HeldStep ==
    \A t \in ControlTask : WorksOn(t)' =>
        status'[t] = "RUNNING" \/ (WorksOn(t) /\ status'[t] = "CANCELLED")

PipelineInv == TypeInv /\ RowsInv /\ OwnersInv /\ HeldInv

-----------------------------------------------------------------------------
(* Jobs. *)

(* What a task waits for in any way has succeeded when it is no longer blocked. *)
EarlierSucceeded ==
    SplitCommit =>
        \A t \in Task : status[t] \notin {"BLOCKED", "CANCELLED"} =>
            \A e \in Before[t] : status[e] = "SUCCEEDED"

(* The completion of the last task of a job knows that it is. *)
LastKnows ==
    \A c \in committing :
        (\A u \in TasksOf(JobOf[c.task]) : u # c.task => status[u] = "SUCCEEDED")
            => c.jobTo = "SUCCEEDED"

JobInv == JobAgrees /\ EarlierSucceeded /\ LastKnows

-----------------------------------------------------------------------------
(* What the steps of all executors do to the rows. *)

AtWork == {"READY", "LEASED", "RUNNING", "FAILED"}

(* Task t is granted, started, given back, failed or retried. *)
Moves(t, st, js) ==
    /\ status[t] \in AtWork \/ Resumes(t)
    /\ st \in AtWork
    /\ js \in JobStatus \ {"SUCCEEDED", "CANCELLED"}
    /\ RowFree(t)
    /\ status' = [status EXCEPT ![t] = st]
    /\ job' = [job EXCEPT ![JobOf[t]] = js]
    /\ committing' = committing

IsCompletion(c) ==
    \E t \in Task, k \in AttemptNumber, n \in {0} \cup AttemptNumber : c = Completion(t, k, n)

(* Completion c reads its siblings, and commits later. *)
Begins(c) ==
    /\ SplitCommit
    /\ IsCompletion(c)
    /\ Completable(c.task)
    /\ RowFree(c.task)
    /\ committing' = committing \cup {c}
    /\ UNCHANGED <<status, job>>

(* Completion c is applied, at once or by its commit. *)
Completes(c) ==
    /\ c \in committing \/ IsCompletion(c)
    /\ Completable(c.task)
    /\ status' = AfterUnlock([status EXCEPT ![c.task] = "SUCCEEDED"], c.unlock)
    /\ job' = [job EXCEPT ![JobOf[c.task]] = c.jobTo]
    /\ committing' \subseteq committing
    /\ \A d \in committing' : d.task # c.task

(* The reviewer approves at task t. *)
Approves(t) ==
    LET st == [status EXCEPT ![t] = "SUCCEEDED"]
        us == Unlocked(st, t)
    IN  /\ status[t] = "WAITING"
        /\ \A u \in {t} \cup us : RowFree(u)
        /\ status' = AfterUnlock(st, us)
        /\ job' = [job EXCEPT ![JobOf[t]] = Aggregate(AfterUnlock(st, us), JobOf[t])]
        /\ committing' = committing

(* Job j is cancelled. *)
Withdraws(j) ==
    /\ job[j] \in ActiveJobStatus
    /\ \A t \in Cancellable(j) : RowFree(t)
    /\ status' = [t \in Task |-> IF t \in Cancellable(j) THEN "CANCELLED" ELSE status[t]]
    /\ job' = [job EXCEPT ![j] = "CANCELLED"]
    /\ committing' = committing

(* The rows stay, but a crash rolls back the open completions. *)
Rests == UNCHANGED <<status, job>> /\ committing' \subseteq committing

RowsNext ==
    \/ \E t \in Task, st \in TaskStatus, js \in JobStatus : Moves(t, st, js)
    \/ \E c \in CompletionRecord : Begins(c)
    \/ \E c \in CompletionRecord : Completes(c)
    \/ \E t \in Task : Approves(t)
    \/ \E j \in Job : Withdraws(j)
    \/ Rests

USE TablesAssumption, BoundsAssumption

-----------------------------------------------------------------------------
(* Operators. *)

(* The tables of the worker task API are the tables of everyone else. *)
LEMMA Tables ==
    /\ TypeOK <=> /\ DbTypeOK
                  /\ lease \in [Task -> [AttemptNumber -> Workers!Lease]]
                  /\ current \subseteq Session
                  /\ calls \subseteq Workers!Call
                  /\ RunnerTypeOK
    /\ Workers!AttemptNumber = AttemptNumber
    /\ \A j \in Job : Workers!TasksOf(j) = TasksOf(j)
<1>1. /\ Workers!AttemptNumber = AttemptNumber
      /\ Workers!CompletionRecord = CompletionRecord
  BY DEF AttemptNumber, Workers!AttemptNumber, CompletionRecord, Workers!CompletionRecord,
         JobStatus, Workers!JobStatus
<1>2. Workers!DbTypeOK <=> DbTypeOK
  BY <1>1 DEF DbTypeOK, Workers!DbTypeOK, TaskStatus, Workers!TaskStatus, JobStatus,
              Workers!JobStatus, AttemptStatus, Workers!AttemptStatus, FailureClass,
              Workers!FailureClass, VideoStatus, Workers!VideoStatus
<1>3. \A j \in Job : Workers!TasksOf(j) = TasksOf(j)
  BY DEF TasksOf, Workers!TasksOf
<1> QED
  BY <1>1, <1>2, <1>3 DEF TypeOK, Workers!TypeOK

(* A job is set to SUCCEEDED when its tasks are, and never to CANCELLED, by *)
(* its tasks.                                                               *)
LEMMA AggregateEnds ==
    ASSUME NEW st, NEW j
    PROVE  /\ Aggregate(st, j) # "CANCELLED"
           /\ Aggregate(st, j) \in JobStatus
           /\ Aggregate(st, j) = "SUCCEEDED" <=> \A t \in TasksOf(j) : st[t] = "SUCCEEDED"
BY DEF Aggregate, JobStatus

(* What unlocking after task t does to each task. *)
LEMMA UnlockedTasks ==
    ASSUME status \in [Task -> TaskStatus], NEW t \in Task, NEW st,
           st = [status EXCEPT ![t] = "SUCCEEDED"], status[t] # "BLOCKED"
    PROVE  /\ Unlocked(st, t) \subseteq Task
           /\ t \notin Unlocked(st, t)
           /\ \A u \in Unlocked(st, t) :
                  /\ status[u] = "BLOCKED"
                  /\ t \in Deps[u]
                  /\ \A d \in Deps[u] : d # t => status[d] = "SUCCEEDED"
           /\ AfterUnlock(st, Unlocked(st, t)) \in [Task -> TaskStatus]
           /\ AfterUnlock(st, Unlocked(st, t))[t] = "SUCCEEDED"
           /\ \A u \in Unlocked(st, t) :
                  AfterUnlock(st, Unlocked(st, t))[u] \in {"WAITING", "READY"}
           /\ \A u \in Task : u # t /\ u \notin Unlocked(st, t) =>
                  AfterUnlock(st, Unlocked(st, t))[u] = status[u]
<1>1. /\ st \in [Task -> TaskStatus] /\ st[t] = "SUCCEEDED"
      /\ \A u \in Task : u # t => st[u] = status[u]
  BY DEF TaskStatus
<1>2. \A u \in Task : Deps[u] \subseteq Task
  OBVIOUS
<1>3. Unlocked(st, t) \subseteq Task /\ t \notin Unlocked(st, t)
  BY <1>1 DEF Unlocked
<1>4. \A u \in Unlocked(st, t) :
          /\ status[u] = "BLOCKED"
          /\ t \in Deps[u]
          /\ \A d \in Deps[u] : d # t => status[d] = "SUCCEEDED"
  BY <1>1, <1>2 DEF Unlocked
<1> DEFINE us == Unlocked(st, t)
<1> HIDE DEF us
<1>5. AfterUnlock(st, us) \in [Task -> TaskStatus]
  BY <1>1 DEF AfterUnlock, TaskStatus
<1>6. \A u \in Task : /\ u \notin us => AfterUnlock(st, us)[u] = st[u]
                      /\ u \in us => AfterUnlock(st, us)[u] \in {"WAITING", "READY"}
  BY DEF AfterUnlock
<1>7. t \notin us
  BY <1>3 DEF us
<1> QED
  BY <1>1, <1>3, <1>4, <1>5, <1>6, <1>7 DEF us

(* What a completion decides on follows from the rows it reads. *)
LEMMA CompletionHolds ==
    ASSUME TypeOK, NoEarlyUnlock, NEW c, IsCompletion(c), Completable(c.task)
    PROVE  /\ c \in CompletionRecord
           /\ WritesHold(c)
           /\ (\A u \in TasksOf(JobOf[c.task]) : u # c.task => status[u] = "SUCCEEDED")
                  => c.jobTo = "SUCCEEDED"
<1>1. PICK t \in Task, k \in AttemptNumber, n \in {0} \cup AttemptNumber : c = Completion(t, k, n)
  BY DEF IsCompletion
<1>2. PICK st : st = [status EXCEPT ![t] = "SUCCEEDED"]
  OBVIOUS
<1> DEFINE us == Unlocked(st, t)
           after == AfterUnlock(st, us)
<1>3. c = [task |-> t, attempt |-> k, fence |-> n, unlock |-> us,
           jobTo |-> Aggregate(after, JobOf[t])]
  BY <1>1, <1>2 DEF Completion
<1>4. /\ c.task = t /\ c.unlock = us /\ c.jobTo = Aggregate(after, JobOf[t])
      /\ status[t] \in {"RUNNING", "CANCELLED"}
      /\ \A d \in Deps[t] : status[d] = "SUCCEEDED"
  BY <1>3 DEF Completable, Resumes, Overwritten, NoEarlyUnlock
<1>5. /\ us \subseteq Task /\ t \notin us
      /\ \A u \in us : /\ status[u] = "BLOCKED"
                       /\ t \in Deps[u]
                       /\ \A d \in Deps[u] : d # t => status[d] = "SUCCEEDED"
      /\ after[t] = "SUCCEEDED"
      /\ \A u \in us : after[u] \in {"WAITING", "READY"}
      /\ \A u \in Task : u # t /\ u \notin us => after[u] = status[u]
  <2>1. status \in [Task -> TaskStatus] /\ status[t] # "BLOCKED"
    BY <1>4, Tables DEF DbTypeOK
  <2>2. us \subseteq Task /\ t \notin us
    BY <1>2, <2>1, UnlockedTasks
  <2>3. \A u \in us : /\ status[u] = "BLOCKED"
                      /\ t \in Deps[u]
                      /\ \A d \in Deps[u] : d # t => status[d] = "SUCCEEDED"
    BY <1>2, <2>1, UnlockedTasks
  <2>4. after[t] = "SUCCEEDED"
    BY <1>2, <2>1, UnlockedTasks
  <2>5. \A u \in us : after[u] \in {"WAITING", "READY"}
    BY <1>2, <2>1, UnlockedTasks
  <2>6. ASSUME NEW u \in Task, u # t, u \notin us
        PROVE  after[u] = status[u]
    <3>1. st[u] = status[u]
      BY <1>2, <2>1, <2>6
    <3> QED
      BY <2>6, <3>1 DEF AfterUnlock
  <2> QED
    BY <2>2, <2>3, <2>4, <2>5, <2>6
<1> HIDE DEF us, after
<1>6. /\ c.jobTo # "CANCELLED" /\ c.jobTo \in JobStatus
      /\ c.jobTo = "SUCCEEDED" <=> \A u \in TasksOf(JobOf[t]) : after[u] = "SUCCEEDED"
  BY <1>4, AggregateEnds
<1>7. c.jobTo = "SUCCEEDED" <=>
          \A u \in TasksOf(JobOf[t]) : u # t => status[u] = "SUCCEEDED"
  BY <1>5, <1>6 DEF TasksOf
<1>8. c \in CompletionRecord
  BY <1>3, <1>4, <1>5, <1>6 DEF CompletionRecord
<1>9. WritesHold(c)
  BY <1>4, <1>5, <1>6, <1>7 DEF WritesHold
<1> QED
  BY <1>4, <1>7, <1>8, <1>9

-----------------------------------------------------------------------------
(* What the steps of RowsNext keep of the rows. *)

RowsStep == RowsInv' /\ FinalStep /\ CancelledTogether /\ UnlockedFirst

(* The types that the lemmas on rows use. *)
RowTypes ==
    /\ status \in [Task -> TaskStatus]
    /\ job \in [Job -> JobStatus]
    /\ committing \subseteq CompletionRecord

(* The tables of task, job and open completion rows are typed. *)
LEMMA RowsAreTyped == ASSUME TypeOK PROVE RowTypes
BY Tables DEF DbTypeOK, RowTypes

(* A job whose task is neither SUCCEEDED nor CANCELLED has not ended. *)
LEMMA OpenJob ==
    ASSUME EndedJobs, NEW t \in Task, status[t] \notin {"SUCCEEDED", "CANCELLED"}
    PROVE  JobOf[t] \in Job /\ job[JobOf[t]] \notin {"SUCCEEDED", "CANCELLED"}
BY DEF EndedJobs, TasksOf

(* The move of a task that no open completion has a hold of. *)
LEMMA RowsMove ==
    ASSUME RowTypes, RowsInv, NEW t \in Task, NEW st \in TaskStatus, NEW js \in JobStatus,
           Moves(t, st, js)
    PROVE  RowsStep
<1>1. /\ status[t] \in AtWork \/ Resumes(t)
      /\ st \in AtWork /\ RowFree(t) /\ committing' = committing
      /\ js \notin {"SUCCEEDED", "CANCELLED"}
  BY DEF Moves
<1>2. /\ status'[t] = st
      /\ \A u \in Task : u # t => status'[u] = status[u]
  BY DEF Moves, RowTypes
<1>3. /\ JobOf[t] \in Job
      /\ job[JobOf[t]] \notin {"SUCCEEDED", "CANCELLED"} \/ Resumes(t)
      /\ job'[JobOf[t]] = js
      /\ \A j \in Job : j # JobOf[t] => job'[j] = job[j]
  BY <1>1, OpenJob DEF Moves, RowTypes, RowsInv, AtWork
<1>4. /\ status[t] \notin {"BLOCKED", "SUCCEEDED"}
      /\ status[t] = "CANCELLED" => Resumes(t)
      /\ st \notin {"BLOCKED", "SUCCEEDED", "CANCELLED"}
  BY <1>1 DEF AtWork, Resumes, Overwritten
<1>5. /\ \A u \in Task : Deps[u] \subseteq Task
      /\ \A j \in Job : TasksOf(j) \subseteq Task
  BY DEF TasksOf
<1>6. NoEarlyUnlock'
  <2>1. \A d \in Deps[t] : status[d] = "SUCCEEDED"
    BY <1>4 DEF NoEarlyUnlock, RowsInv, Resumes
  <2> QED
    BY <1>2, <1>4, <1>5, <2>1 DEF NoEarlyUnlock, RowsInv
<1>7. EndedJobs'
  <2> SUFFICES ASSUME NEW j \in Job
               PROVE  /\ job'[j] = "SUCCEEDED" => \A u \in TasksOf(j) : status'[u] = "SUCCEEDED"
                      /\ job'[j] = "CANCELLED" =>
                             \A u \in TasksOf(j) : status'[u] \in {"SUCCEEDED", "CANCELLED"}
    BY DEF EndedJobs
  <2>1. CASE j = JobOf[t]
    BY <1>1, <1>3, <2>1
  <2>2. CASE j # JobOf[t]
    <3>1. t \notin TasksOf(j) /\ job'[j] = job[j]
      BY <1>3, <2>2 DEF TasksOf
    <3> QED
      BY <1>2, <1>5, <3>1 DEF RowsInv, EndedJobs
  <2> QED
    BY <2>1, <2>2
<1>8. CommitsHold'
  <2> SUFFICES ASSUME NEW c \in committing
               PROVE  SplitCommit /\ WritesHold(c)'
    BY <1>1 DEF RowsInv, CommitsHold
  <2>1. /\ SplitCommit /\ WritesHold(c) /\ c.task \in Task /\ c.unlock \subseteq Task
        /\ c.task # t
    BY <1>1 DEF RowsInv, CommitsHold, RowTypes, CompletionRecord, RowFree
  <2>2. \A u \in Task : /\ status[u] = "SUCCEEDED" => status'[u] = "SUCCEEDED"
                        /\ status[u] = "BLOCKED" => status'[u] = "BLOCKED"
    BY <1>2, <1>4
  <2>3. /\ status'[c.task] \in {"RUNNING", "CANCELLED"}
        /\ \A d \in Deps[c.task] : status'[d] = "SUCCEEDED"
    BY <1>2, <1>5, <2>1, <2>2 DEF WritesHold
  <2>4. \A u \in c.unlock :
             /\ status'[u] = "BLOCKED"
             /\ c.task \in Deps[u]
             /\ \A d \in Deps[u] : d # c.task => status'[d] = "SUCCEEDED"
    BY <1>5, <2>1, <2>2 DEF WritesHold
  <2>5. /\ c.jobTo # "CANCELLED"
        /\ c.jobTo = "SUCCEEDED" =>
               \A u \in TasksOf(JobOf[c.task]) : u # c.task => status'[u] = "SUCCEEDED"
    BY <2>1, <2>2 DEF WritesHold, TasksOf
  <2> QED
    BY <2>1, <2>3, <2>4, <2>5 DEF WritesHold
<1>9. FinalStep /\ CancelledTogether /\ UnlockedFirst
  <2>1. t \in TasksOf(JobOf[t]) /\ status'[t] # "CANCELLED"
    BY <1>2, <1>4 DEF TasksOf
  <2>2. \A u \in Task : Over(u) => status'[u] = status[u] \/ Resumes(u)
    BY <1>2, <1>4 DEF Over
  <2>3. \A j \in Job : job[j] \in {"SUCCEEDED", "CANCELLED"} =>
            \/ job'[j] = job[j]
            \/ /\ job[j] = "CANCELLED"
               /\ \E u \in TasksOf(j) : Resumes(u) /\ status'[u] # "CANCELLED"
    BY <1>3, <2>1 DEF Resumes
  <2> QED
    BY <1>2, <1>4, <2>2, <2>3 DEF FinalStep, CancelledTogether, UnlockedFirst
<1> QED
  BY <1>6, <1>7, <1>8, <1>9 DEF RowsStep, RowsInv

(* A completion that has read its siblings holds what it is about to write. *)
LEMMA RowsBegin ==
    ASSUME TypeOK, RowTypes, RowsInv, NEW c, Begins(c)
    PROVE  RowsStep
<1>1. /\ SplitCommit /\ IsCompletion(c) /\ Completable(c.task) /\ RowFree(c.task)
      /\ committing' = committing \cup {c} /\ status' = status /\ job' = job
  BY DEF Begins
<1>2. WritesHold(c)
  BY <1>1, CompletionHolds DEF RowsInv
<1>3. \A d \in committing : d.task # c.task
  BY <1>1 DEF RowFree
<1>4. \A d \in committing' : WritesHold(d)'
  BY <1>1, <1>2 DEF RowsInv, CommitsHold, WritesHold
<1>5. CommitsHold'
  BY <1>1, <1>3, <1>4 DEF RowsInv, CommitsHold
<1>6. NoEarlyUnlock' /\ EndedJobs'
  BY <1>1 DEF RowsInv, NoEarlyUnlock, EndedJobs
<1>7. FinalStep /\ CancelledTogether /\ UnlockedFirst
  BY <1>1 DEF FinalStep, CancelledTogether, UnlockedFirst
<1> QED
  BY <1>5, <1>6, <1>7 DEF RowsStep, RowsInv

(* Rows that stay as they are. *)
LEMMA RowsRest ==
    ASSUME RowTypes, RowsInv, Rests
    PROVE  RowsStep
<1>1. NoEarlyUnlock' /\ EndedJobs'
  BY DEF RowsInv, NoEarlyUnlock, EndedJobs, Rests
<1>2. \A d \in committing' : d \in committing /\ SplitCommit /\ WritesHold(d)'
  BY DEF RowsInv, CommitsHold, WritesHold, Rests
<1>3. CommitsHold'
  BY <1>2 DEF RowsInv, CommitsHold
<1>4. FinalStep /\ CancelledTogether /\ UnlockedFirst
  BY DEF FinalStep, CancelledTogether, UnlockedFirst, Rests
<1> QED
  BY <1>1, <1>3, <1>4 DEF RowsStep, RowsInv

(* Task t succeeds and unlocks the tasks us, and its job becomes js. *)
Succeeds(t, us, js) ==
    /\ status[t] = "WAITING" \/ Completable(t)
    /\ us \subseteq Task
    /\ \A u \in us : /\ status[u] = "BLOCKED"
                     /\ t \in Deps[u]
                     /\ \A d \in Deps[u] : d # t => status[d] = "SUCCEEDED"
    /\ js # "CANCELLED"
    /\ js = "SUCCEEDED" => \A u \in TasksOf(JobOf[t]) : u # t => status[u] = "SUCCEEDED"
    /\ status'[t] = "SUCCEEDED"
    /\ \A u \in us : status'[u] \in {"WAITING", "READY"}
    /\ \A u \in Task : u # t /\ u \notin us => status'[u] = status[u]
    /\ job'[JobOf[t]] = js
    /\ \A j \in Job : j # JobOf[t] => job'[j] = job[j]
    /\ committing' \subseteq committing
    /\ \A d \in committing' : d.task # t

(* Two open completions never unlock the same task: it waits for both. *)
LEMMA RowsSucceed ==
    ASSUME RowTypes, RowsInv, NEW t \in Task, NEW us, NEW js, Succeeds(t, us, js)
    PROVE  RowsStep
<1>1. /\ \A u \in us : /\ u \in Task
                       /\ status[u] = "BLOCKED"
                       /\ t \in Deps[u]
                       /\ \A d \in Deps[u] : d # t => status[d] = "SUCCEEDED"
      /\ status[t] \in {"RUNNING", "WAITING"} \/ (status[t] = "CANCELLED" /\ Resumes(t))
      /\ t \notin us
  BY DEF Succeeds, Completable, Resumes, Overwritten
<1>2. /\ status'[t] = "SUCCEEDED"
      /\ \A u \in us : status'[u] \in {"WAITING", "READY"}
      /\ \A u \in Task : u # t /\ u \notin us => status'[u] = status[u]
  BY DEF Succeeds
<1>3. /\ JobOf[t] \in Job
      /\ job[JobOf[t]] \notin {"SUCCEEDED", "CANCELLED"} \/ Resumes(t)
      /\ job'[JobOf[t]] = js
      /\ \A j \in Job : j # JobOf[t] => job'[j] = job[j]
      /\ js # "CANCELLED"
      /\ js = "SUCCEEDED" => \A u \in TasksOf(JobOf[t]) : u # t => status[u] = "SUCCEEDED"
  BY <1>1, OpenJob DEF Succeeds, RowsInv
<1>4. \A u \in Task :
          /\ status[u] = "SUCCEEDED" => status'[u] = "SUCCEEDED"
          /\ status[u] = "CANCELLED" => status'[u] = "CANCELLED" \/ (u = t /\ Resumes(t))
  BY <1>1, <1>2
<1>5. /\ \A u \in Task : Deps[u] \subseteq Task
      /\ \A j \in Job : TasksOf(j) \subseteq Task
  BY DEF TasksOf
<1>6. NoEarlyUnlock'
  <2> SUFFICES ASSUME NEW u \in Task, status'[u] \notin {"BLOCKED", "CANCELLED"},
                      NEW d \in Deps[u]
               PROVE  status'[d] = "SUCCEEDED"
    BY DEF NoEarlyUnlock
  <2>1. CASE u \in us
    <3>1. d = t \/ status[d] = "SUCCEEDED"
      BY <1>1, <2>1
    <3> QED
      BY <1>2, <1>4, <1>5, <3>1
  <2>2. CASE u \notin us
    <3>1. status[u] \notin {"BLOCKED", "CANCELLED"} \/ Resumes(u)
      BY <1>1, <1>2, <2>2
    <3>2. status[d] = "SUCCEEDED"
      BY <3>1 DEF RowsInv, NoEarlyUnlock, Resumes
    <3> QED
      BY <1>4, <1>5, <3>2
  <2> QED
    BY <2>1, <2>2
<1>7. EndedJobs'
  <2> SUFFICES ASSUME NEW j \in Job
               PROVE  /\ job'[j] = "SUCCEEDED" => \A u \in TasksOf(j) : status'[u] = "SUCCEEDED"
                      /\ job'[j] = "CANCELLED" =>
                             \A u \in TasksOf(j) : status'[u] \in {"SUCCEEDED", "CANCELLED"}
    BY DEF EndedJobs
  <2>1. CASE j = JobOf[t]
    BY <1>2, <1>3, <1>4, <1>5, <2>1
  <2>2. CASE j # JobOf[t]
    <3>1. t \notin TasksOf(j) /\ job'[j] = job[j]
      BY <1>3, <2>2 DEF TasksOf
    <3> QED
      BY <1>4, <1>5, <3>1 DEF RowsInv, EndedJobs
  <2> QED
    BY <2>1, <2>2
<1>8. CommitsHold'
  <2>1. committing' \subseteq committing /\ \A d \in committing' : d.task # t
    BY DEF Succeeds
  <2> SUFFICES ASSUME NEW c \in committing'
               PROVE  SplitCommit /\ WritesHold(c)'
    BY <2>1 DEF RowsInv, CommitsHold
  <2>2. /\ SplitCommit /\ WritesHold(c) /\ c.task \in Task /\ c.unlock \subseteq Task
        /\ c.task # t
    BY <2>1 DEF RowsInv, CommitsHold, RowTypes, CompletionRecord
  <2>3. /\ status[c.task] \in {"RUNNING", "CANCELLED"} /\ c.task \notin us
        /\ \A d \in Deps[c.task] : status[d] = "SUCCEEDED"
    BY <1>1, <2>2 DEF WritesHold
  <2>4. /\ status'[c.task] \in {"RUNNING", "CANCELLED"}
        /\ \A d \in Deps[c.task] : status'[d] = "SUCCEEDED"
    BY <1>2, <1>4, <1>5, <2>2, <2>3
  <2>5. ASSUME NEW u \in c.unlock
        PROVE  /\ status'[u] = "BLOCKED"
               /\ c.task \in Deps[u]
               /\ \A d \in Deps[u] : d # c.task => status'[d] = "SUCCEEDED"
    <3>1. /\ status[u] = "BLOCKED" /\ c.task \in Deps[u] /\ u \in Task
          /\ \A d \in Deps[u] : d # c.task => status[d] = "SUCCEEDED"
      BY <2>2 DEF WritesHold
    <3>2. u \notin us
      BY <1>1, <2>2, <2>3, <3>1
    <3>3. status'[u] = "BLOCKED"
      BY <1>1, <1>2, <3>1, <3>2
    <3> QED
      BY <1>4, <1>5, <3>1, <3>3
  <2>6. /\ c.jobTo # "CANCELLED"
        /\ c.jobTo = "SUCCEEDED" =>
               \A u \in TasksOf(JobOf[c.task]) : u # c.task => status'[u] = "SUCCEEDED"
    BY <1>4, <2>2 DEF WritesHold, TasksOf
  <2> QED
    BY <2>2, <2>4, <2>5, <2>6 DEF WritesHold
<1>9. FinalStep /\ CancelledTogether /\ UnlockedFirst
  <2>1. t \in TasksOf(JobOf[t])
    BY DEF TasksOf
  <2>2. \A u \in Task : Over(u) => status'[u] = status[u] \/ Resumes(u)
    BY <1>4 DEF Over
  <2>3. \A j \in Job : job[j] \in {"SUCCEEDED", "CANCELLED"} =>
            \/ job'[j] = job[j]
            \/ /\ job[j] = "CANCELLED"
               /\ \E u \in TasksOf(j) : Resumes(u) /\ status'[u] # "CANCELLED"
    BY <1>2, <1>3, <2>1 DEF Resumes
  <2>4. CancelledTogether /\ UnlockedFirst
    BY <1>1, <1>2 DEF CancelledTogether, UnlockedFirst
  <2> QED
    BY <2>2, <2>3, <2>4 DEF FinalStep
<1> QED
  BY <1>6, <1>7, <1>8, <1>9 DEF RowsStep, RowsInv

(* A completion, of a worker or of the runner, at once or by its commit. *)
LEMMA CompletionSucceeds ==
    ASSUME TypeOK, RowTypes, RowsInv, NEW c, Completes(c)
    PROVE  c \in CompletionRecord /\ Succeeds(c.task, c.unlock, c.jobTo)
<1>1. c \in CompletionRecord /\ WritesHold(c)
  <2>1. CASE c \in committing
    BY <2>1 DEF RowTypes, RowsInv, CommitsHold
  <2>2. CASE IsCompletion(c)
    BY <2>2, CompletionHolds DEF Completes, RowsInv
  <2> QED
    BY <2>1, <2>2 DEF Completes
<1>2. c.task \in Task /\ c.unlock \subseteq Task /\ JobOf[c.task] \in Job
  BY <1>1 DEF CompletionRecord
<1>3. c.task \notin c.unlock
  BY <1>1 DEF WritesHold
<1>4. /\ status'[c.task] = "SUCCEEDED"
      /\ \A u \in c.unlock : status'[u] \in {"WAITING", "READY"}
      /\ \A u \in Task : u # c.task /\ u \notin c.unlock => status'[u] = status[u]
  BY <1>2, <1>3 DEF Completes, AfterUnlock, RowTypes
<1>5. /\ job'[JobOf[c.task]] = c.jobTo
      /\ \A j \in Job : j # JobOf[c.task] => job'[j] = job[j]
  BY <1>2 DEF Completes, RowTypes
<1>6. Succeeds(c.task, c.unlock, c.jobTo)
  BY <1>1, <1>2, <1>4, <1>5 DEF Succeeds, Completes, WritesHold
<1> QED
  BY <1>1, <1>6

(* An approval waits for the completions that hold a task it unlocks. *)
LEMMA ApprovalSucceeds ==
    ASSUME TypeOK, RowTypes, NEW t \in Task, Approves(t)
    PROVE  \E us, js : /\ Succeeds(t, us, js)
                       /\ js = "SUCCEEDED" <=>
                              \A u \in TasksOf(JobOf[t]) : status'[u] = "SUCCEEDED"
<1>1. PICK st : st = [status EXCEPT ![t] = "SUCCEEDED"]
  OBVIOUS
<1> DEFINE us == Unlocked(st, t)
           js == Aggregate(AfterUnlock(st, us), JobOf[t])
<1>2. /\ status[t] = "WAITING" /\ RowFree(t)
      /\ status' = AfterUnlock(st, us)
      /\ job' = [job EXCEPT ![JobOf[t]] = js]
      /\ committing' = committing
  BY <1>1 DEF Approves
<1>3. st \in [Task -> TaskStatus] /\ st[t] = "SUCCEEDED" /\ status[t] # "BLOCKED"
  BY <1>1, <1>2 DEF RowTypes, TaskStatus
<1>4. /\ us \subseteq Task /\ t \notin us
      /\ \A u \in us : /\ status[u] = "BLOCKED"
                       /\ t \in Deps[u]
                       /\ \A d \in Deps[u] : d # t => status[d] = "SUCCEEDED"
  BY <1>1, <1>3, UnlockedTasks DEF RowTypes
<1>5. \A u \in Task : u # t => st[u] = status[u]
  BY <1>1 DEF RowTypes
<1>6. js # "CANCELLED" /\ (js = "SUCCEEDED" <=>
          \A u \in TasksOf(JobOf[t]) : status'[u] = "SUCCEEDED")
  BY <1>2, AggregateEnds
<1> HIDE DEF us, js
<1>7. /\ status'[t] = "SUCCEEDED"
      /\ \A u \in us : status'[u] \in {"WAITING", "READY"}
      /\ \A u \in Task : u # t /\ u \notin us => status'[u] = status[u]
  BY <1>2, <1>3, <1>4, <1>5 DEF AfterUnlock
<1>8. /\ job'[JobOf[t]] = js
      /\ \A j \in Job : j # JobOf[t] => job'[j] = job[j]
  BY <1>2 DEF RowTypes
<1>9. js = "SUCCEEDED" => \A u \in TasksOf(JobOf[t]) : u # t => status[u] = "SUCCEEDED"
  BY <1>6, <1>7 DEF TasksOf
<1>10. \A d \in committing' : d.task # t
  BY <1>2 DEF RowFree
<1>11. Succeeds(t, us, js)
  BY <1>2, <1>4, <1>6, <1>7, <1>8, <1>9, <1>10 DEF Succeeds
<1> QED
  BY <1>6, <1>11

(* A cancel waits for the completions that hold a task it cancels. *)
LEMMA RowsWithdraw ==
    ASSUME RowTypes, RowsInv, NEW j \in Job, Withdraws(j)
    PROVE  RowsStep
<1>1. /\ \A t \in TasksOf(j) :
             IF status[t] \in {"SUCCEEDED", "CANCELLED"} THEN status'[t] = status[t]
             ELSE status'[t] = "CANCELLED" /\ RowFree(t)
      /\ \A t \in Task : t \notin TasksOf(j) => status'[t] = status[t]
  BY DEF Withdraws, Cancellable, TasksOf
<1>2. /\ job[j] \notin {"SUCCEEDED", "CANCELLED"}
      /\ job'[j] = "CANCELLED"
      /\ \A i \in Job : i # j => job'[i] = job[i]
      /\ committing' = committing
  BY DEF Withdraws, RowTypes, ActiveJobStatus
<1>3. /\ \A u \in Task : Deps[u] \subseteq Task
      /\ \A i \in Job : TasksOf(i) \subseteq Task
  BY DEF TasksOf
<1>4. \A t \in Task : /\ status[t] \in {"SUCCEEDED", "CANCELLED"} => status'[t] = status[t]
                      /\ status'[t] = status[t] \/ status'[t] = "CANCELLED"
  BY <1>1
<1>5. NoEarlyUnlock'
  BY <1>3, <1>4 DEF NoEarlyUnlock, RowsInv
<1>6. EndedJobs'
  <2> SUFFICES ASSUME NEW i \in Job
               PROVE  /\ job'[i] = "SUCCEEDED" => \A u \in TasksOf(i) : status'[u] = "SUCCEEDED"
                      /\ job'[i] = "CANCELLED" =>
                             \A u \in TasksOf(i) : status'[u] \in {"SUCCEEDED", "CANCELLED"}
    BY DEF EndedJobs
  <2>1. CASE i = j
    BY <1>1, <1>2, <2>1
  <2>2. CASE i # j
    BY <1>2, <1>3, <1>4, <2>2 DEF RowsInv, EndedJobs
  <2> QED
    BY <2>1, <2>2
<1>7. CommitsHold'
  <2> SUFFICES ASSUME NEW c \in committing
               PROVE  SplitCommit /\ WritesHold(c)'
    BY <1>2 DEF RowsInv, CommitsHold
  <2>1. /\ SplitCommit /\ WritesHold(c) /\ c.task \in Task /\ c.unlock \subseteq Task
        /\ ~RowFree(c.task) /\ \A u \in c.unlock : ~RowFree(u)
    BY DEF RowsInv, CommitsHold, RowTypes, CompletionRecord, RowFree
  <2>2. status'[c.task] = status[c.task] /\ \A u \in c.unlock : status'[u] = status[u]
    BY <1>1, <2>1
  <2>3. /\ c.jobTo # "CANCELLED"
        /\ c.jobTo = "SUCCEEDED" =>
               \A u \in TasksOf(JobOf[c.task]) : u # c.task => status'[u] = "SUCCEEDED"
    BY <1>4, <2>1 DEF WritesHold, TasksOf
  <2>4. /\ \A d \in Deps[c.task] : status'[d] = "SUCCEEDED"
        /\ \A u \in c.unlock : \A d \in Deps[u] : d # c.task => status'[d] = "SUCCEEDED"
    BY <1>3, <1>4, <2>1 DEF WritesHold
  <2> QED
    BY <2>1, <2>2, <2>3, <2>4 DEF WritesHold
<1>8. FinalStep /\ CancelledTogether /\ UnlockedFirst
  <2>1. CancelledTogether
    BY <1>1, <1>2 DEF CancelledTogether, TasksOf
  <2> QED
    BY <1>2, <1>4, <2>1 DEF FinalStep, UnlockedFirst, Over
<1> QED
  BY <1>5, <1>6, <1>7, <1>8 DEF RowsStep, RowsInv

(* Whoever takes it, a step keeps the rows consistent. *)
LEMMA RowsKeep ==
    ASSUME TypeOK, RowsInv, RowsNext
    PROVE  RowsStep
<1>1. RowTypes
  BY RowsAreTyped
<1>2. ASSUME NEW t \in Task, NEW st \in TaskStatus, NEW js \in JobStatus, Moves(t, st, js)
      PROVE  RowsStep
  BY <1>1, <1>2, RowsMove
<1>3. ASSUME NEW c \in CompletionRecord, Begins(c)
      PROVE  RowsStep
  BY <1>1, <1>3, RowsBegin
<1>4. ASSUME NEW c \in CompletionRecord, Completes(c)
      PROVE  RowsStep
  <2>1. c.task \in Task /\ Succeeds(c.task, c.unlock, c.jobTo)
    BY <1>1, <1>4, CompletionSucceeds DEF CompletionRecord
  <2> QED
    BY <1>1, <2>1, RowsSucceed
<1>5. ASSUME NEW t \in Task, Approves(t)
      PROVE  RowsStep
  <2>1. PICK us, js : Succeeds(t, us, js)
    BY <1>1, <1>5, ApprovalSucceeds
  <2> QED
    BY <1>1, <2>1, RowsSucceed
<1>6. ASSUME NEW j \in Job, Withdraws(j)
      PROVE  RowsStep
  BY <1>1, <1>6, RowsWithdraw
<1>7. ASSUME Rests
      PROVE  RowsStep
  BY <1>1, <1>7, RowsRest
<1> QED
  BY <1>2, <1>3, <1>4, <1>5, <1>6, <1>7 DEF RowsNext

-----------------------------------------------------------------------------
(* Types, and the leases that were granted. *)

LeaseTypes == lease \in [Task -> [AttemptNumber -> Workers!Lease]]

(* The operators that the worker task API shares with the runner. *)
LEMMA SharedOperators ==
    /\ \A t : Workers!RowFree(t) <=> RowFree(t)
    /\ \A t : Workers!HasBudget(t) <=> HasBudget(t)
    /\ \A t, k, n : Workers!Completion(t, k, n) = Completion(t, k, n)
    /\ \A c : Workers!ApplyCompletion(c) <=> ApplyCompletion(c)
<1>1. \A st, t : Workers!Unlocked(st, t) = Unlocked(st, t)
  BY DEF Unlocked, Workers!Unlocked
<1>2. \A st, us : Workers!AfterUnlock(st, us) = AfterUnlock(st, us)
  BY DEF AfterUnlock, Workers!AfterUnlock
<1>3. \A st, j : Workers!Aggregate(st, j) = Aggregate(st, j)
  BY DEF Aggregate, Workers!Aggregate, TasksOf, Workers!TasksOf
<1>4. \A v, us, js : Workers!VideoAfter(v, us, js) = VideoAfter(v, us, js)
  BY DEF VideoAfter, Workers!VideoAfter
<1>5. \A t, k, n : Workers!Completion(t, k, n) = Completion(t, k, n)
  BY <1>1, <1>2, <1>3 DEF Completion, Workers!Completion
<1>6. \A c : Workers!ApplyCompletion(c) <=> ApplyCompletion(c)
  BY <1>2, <1>4 DEF ApplyCompletion, Workers!ApplyCompletion
<1> QED
  BY <1>5, <1>6 DEF RowFree, Workers!RowFree, HasBudget, Workers!HasBudget

(* The types after a step. *)
LEMMA TablesNext ==
    ASSUME DbTypeOK', LeaseTypes', current' \subseteq Session, calls' \subseteq Workers!Call,
           RunnerTypeOK'
    PROVE  TypeOK'
<1>1. /\ Workers!AttemptNumber = AttemptNumber
      /\ Workers!CompletionRecord = CompletionRecord
  BY DEF AttemptNumber, Workers!AttemptNumber, CompletionRecord, Workers!CompletionRecord,
         JobStatus, Workers!JobStatus
<1>2. Workers!DbTypeOK'
  BY <1>1 DEF DbTypeOK, Workers!DbTypeOK, TaskStatus, Workers!TaskStatus, JobStatus,
              Workers!JobStatus, AttemptStatus, Workers!AttemptStatus, FailureClass,
              Workers!FailureClass, VideoStatus, Workers!VideoStatus
<1> QED
  BY <1>1, <1>2 DEF TypeOK, Workers!TypeOK, LeaseTypes

(* A step that grants no lease, and adds no handler without one. *)
LEMMA LeasesKeep ==
    ASSUME TypeInv, DbTypeOK', LeaseTypes', RunnerTypeOK', current' \subseteq Session,
           \A t \in Task, n \in AttemptNumber :
               /\ lease'[t][n].state = "NONE" <=> lease[t][n].state = "NONE"
               /\ lease'[t][n].attempt = lease[t][n].attempt
               /\ Workers!Active(t, n)' => Workers!Active(t, n),
           \A t \in Task : Class[t] = "GPU" => attemptCount'[t] = attemptCount[t],
           \A c \in calls' : \/ c \in calls
                             \/ c \in Workers!Call /\ lease[c.task][c.fence].state # "NONE",
           \A c \in committing' :
               \/ c \in committing
               \/ c.fence # 0 => c.attempt = c.fence /\ lease[c.task][c.fence].state # "NONE"
    PROVE  TypeInv'
<1>1. \A c \in calls' : c \in Workers!Call /\ lease[c.task][c.fence].state # "NONE"
  BY Tables DEF TypeInv, HandlersWereGranted
<1>2. \A c \in Workers!Call : c.task \in Task /\ c.fence \in AttemptNumber
  BY Tables DEF Workers!Call
<1>3. TypeOK'
  <2>1. calls' \subseteq Workers!Call
    BY <1>1
  <2> QED
    BY <2>1, TablesNext
<1>4. LeasesAreAttempts'
  BY DEF TypeInv, LeasesAreAttempts, Workers!Active
<1>5. \A c \in calls' : lease'[c.task][c.fence].state # "NONE"
  BY <1>1, <1>2
<1>6. ASSUME NEW c \in committing', c.fence # 0
      PROVE  c.attempt = c.fence /\ lease'[c.task][c.fence].state # "NONE"
  <2>1. c.task \in Task /\ c.fence \in AttemptNumber
    BY <1>6 DEF DbTypeOK, CompletionRecord
  <2>2. c.attempt = c.fence /\ lease[c.task][c.fence].state # "NONE"
    BY <1>6 DEF TypeInv, HandlersWereGranted
  <2> QED
    BY <2>1, <2>2
<1> QED
  BY <1>3, <1>4, <1>5, <1>6 DEF TypeInv, HandlersWereGranted

(* One entry of the table of attempts. *)
LEMMA AttemptTyped ==
    ASSUME DbTypeOK, NEW t \in Task, NEW k \in AttemptNumber, NEW r \in AttemptStatus,
           attempt' = [attempt EXCEPT ![t][k] = r]
    PROVE  attempt' \in [Task -> [AttemptNumber -> AttemptStatus]]
<1>1. attempt \in [Task -> [AttemptNumber -> AttemptStatus]]
  BY DEF DbTypeOK
<1>2. [attempt[t] EXCEPT ![k] = r] \in [AttemptNumber -> AttemptStatus]
  BY <1>1
<1> QED
  BY <1>1, <1>2

(* A completion writes values of the types of their columns. *)
LEMMA ApplyTyped ==
    ASSUME DbTypeOK, NEW c \in CompletionRecord, ApplyCompletion(c),
           committing' \subseteq CompletionRecord
    PROVE  DbTypeOK'
<1>1. c.task \in Task /\ c.attempt \in AttemptNumber /\ c.jobTo \in JobStatus
  BY DEF CompletionRecord
<1>2. JobOf[c.task] \in Job
  BY <1>1
<1>3. status' \in [Task -> TaskStatus]
  BY <1>1 DEF ApplyCompletion, AfterUnlock, DbTypeOK, TaskStatus
<1>4. progress' \in [Task -> 0..ProgressTop]
  BY <1>1 DEF ApplyCompletion, DbTypeOK
<1>5. attempt' \in [Task -> [AttemptNumber -> AttemptStatus]]
  <2>1. "SUCCEEDED" \in AttemptStatus
    BY DEF AttemptStatus
  <2>2. attempt' = [attempt EXCEPT ![c.task][c.attempt] = "SUCCEEDED"]
    BY DEF ApplyCompletion
  <2> QED
    BY <1>1, <2>1, <2>2, AttemptTyped
<1>6. job' \in [Job -> JobStatus]
  BY <1>1, <1>2 DEF ApplyCompletion, DbTypeOK
<1>7. video' \in [Job -> VideoStatus]
  <2>1. VideoAfter(video[JobOf[c.task]], c.unlock, c.jobTo) \in VideoStatus
    BY <1>2 DEF VideoAfter, DbTypeOK, VideoStatus
  <2> QED
    BY <1>2, <2>1 DEF ApplyCompletion, DbTypeOK
<1> QED
  BY <1>3, <1>4, <1>5, <1>6, <1>7 DEF ApplyCompletion, DbTypeOK

(* What a new completion carries to its commit. *)
LEMMA CompletionTyped ==
    ASSUME DbTypeOK, NEW t \in Task, NEW k \in AttemptNumber, NEW n \in {0} \cup AttemptNumber
    PROVE  /\ Completion(t, k, n) \in CompletionRecord
           /\ IsCompletion(Completion(t, k, n))
           /\ Completion(t, k, n).task = t
           /\ Completion(t, k, n).attempt = k
           /\ Completion(t, k, n).fence = n
<1> DEFINE st == [status EXCEPT ![t] = "SUCCEEDED"]
           us == Unlocked(st, t)
           js == Aggregate(AfterUnlock(st, us), JobOf[t])
<1>1. us \in SUBSET Task
  BY DEF Unlocked
<1>2. js \in JobStatus
  BY AggregateEnds
<1>3. Completion(t, k, n) =
          [task |-> t, attempt |-> k, fence |-> n, unlock |-> us, jobTo |-> js]
  BY DEF Completion
<1> HIDE DEF us, js
<1> QED
  BY <1>1, <1>2, <1>3 DEF CompletionRecord, IsCompletion

(* A worker's completion ends the attempt that its lease names. *)
LEMMA LeasedCompletion ==
    ASSUME DbTypeOK, NEW t \in Task, NEW k \in AttemptNumber,
           NEW c, c = Completion(t, k, k)
    PROVE  /\ c \in CompletionRecord
           /\ IsCompletion(c)
           /\ c.task = t /\ c.attempt = k /\ c.fence = k
<1>1. k \in {0} \cup AttemptNumber
  OBVIOUS
<1> QED
  BY <1>1, CompletionTyped

(* The lease of a handler is released. *)
LEMMA ReleaseKeeps ==
    ASSUME LeaseTypes, NEW c, c.task \in Task, c.fence \in AttemptNumber,
           lease[c.task][c.fence].state # "NONE", Workers!Release(c)
    PROVE  /\ LeaseTypes'
           /\ \A t \in Task, n \in AttemptNumber :
                  /\ lease'[t][n].state = "NONE" <=> lease[t][n].state = "NONE"
                  /\ lease'[t][n].attempt = lease[t][n].attempt
                  /\ Workers!Active(t, n)' <=>
                         Workers!Active(t, n) /\ ~(t = c.task /\ n = c.fence)
<1> DEFINE old == lease[c.task][c.fence]
           new == Workers!Released(old)
<1>1. /\ lease \in [Task -> [AttemptNumber -> Workers!Lease]]
      /\ old \in Workers!Lease
  BY DEF LeaseTypes
<1>2. /\ new \in Workers!Lease
      /\ new.state = "RELEASED" /\ new.attempt = old.attempt
  BY <1>1 DEF Workers!Released, Workers!Lease
<1>3. lease' = [lease EXCEPT ![c.task][c.fence] = new]
  BY <1>1 DEF Workers!Release
<1> HIDE DEF new
<1>4. [lease[c.task] EXCEPT ![c.fence] = new] \in [AttemptNumber -> Workers!Lease]
  BY <1>1, <1>2
<1>5. LeaseTypes'
  BY <1>1, <1>3, <1>4 DEF LeaseTypes, Workers!Lease
<1>6. ASSUME NEW t \in Task, NEW n \in AttemptNumber
      PROVE  lease'[t][n] = IF t = c.task /\ n = c.fence THEN new ELSE lease[t][n]
  BY <1>1, <1>3
<1> QED
  BY <1>2, <1>5, <1>6 DEF Workers!Active

(* The deadline of a lease is moved or has passed. *)
LEMMA DeadlineKeeps ==
    ASSUME LeaseTypes, NEW t \in Task, NEW n \in AttemptNumber, NEW b \in BOOLEAN,
           lease' = [lease EXCEPT ![t][n].expired = b]
    PROVE  /\ LeaseTypes'
           /\ \A u \in Task, m \in AttemptNumber :
                  /\ lease'[u][m].state = lease[u][m].state
                  /\ lease'[u][m].attempt = lease[u][m].attempt
                  /\ Workers!Active(u, m)' <=> Workers!Active(u, m)
<1> DEFINE old == lease[t][n]
           new == [old EXCEPT !.expired = b]
<1>1. /\ lease \in [Task -> [AttemptNumber -> Workers!Lease]]
      /\ old \in Workers!Lease
  BY DEF LeaseTypes
<1>2. /\ new \in Workers!Lease
      /\ new.state = old.state /\ new.attempt = old.attempt
  BY <1>1 DEF Workers!Lease
<1>3. lease' = [lease EXCEPT ![t][n] = new]
  BY <1>1
<1> HIDE DEF new
<1>4. [lease[t] EXCEPT ![n] = new] \in [AttemptNumber -> Workers!Lease]
  BY <1>1, <1>2
<1>5. LeaseTypes'
  BY <1>1, <1>3, <1>4 DEF LeaseTypes, Workers!Lease
<1>6. ASSUME NEW u \in Task, NEW m \in AttemptNumber
      PROVE  lease'[u][m] = IF u = t /\ m = n THEN new ELSE lease[u][m]
  BY <1>1, <1>3
<1> QED
  BY <1>2, <1>5, <1>6 DEF Workers!Active

(* What LeasesKeep asks of a step. *)
KeepsLeases ==
    /\ DbTypeOK' /\ LeaseTypes'
    /\ \A t \in Task, n \in AttemptNumber :
           /\ lease'[t][n].state = "NONE" <=> lease[t][n].state = "NONE"
           /\ lease'[t][n].attempt = lease[t][n].attempt
           /\ Workers!Active(t, n)' => Workers!Active(t, n)
    /\ attemptCount' = attemptCount
    /\ \A c \in committing' :
           \/ c \in committing
           \/ c.fence # 0 => c.attempt = c.fence /\ lease[c.task][c.fence].state # "NONE"

(* A handler past its check, of a lease that was granted. *)
Granted(c) ==
    /\ c \in Workers!Call
    /\ c.task \in Task /\ c.fence \in AttemptNumber
    /\ lease[c.task][c.fence].state # "NONE"
    /\ Workers!AttemptOf(c) = c.fence
    /\ Class[c.task] = "GPU"

(* A handler past its check names a GPU task and the attempt of its lease. *)
LEMMA CallsAreGranted ==
    ASSUME TypeInv, NEW c \in Workers!Call, lease[c.task][c.fence].state # "NONE"
    PROVE  Granted(c)
<1>1. c.task \in Task /\ c.fence \in AttemptNumber
  BY Tables DEF Workers!Call
<1> QED
  BY <1>1 DEF Granted, TypeInv, LeasesAreAttempts, Workers!AttemptOf

(* The ways an attempt ends without a result. *)
LEMMA EndAttemptKeeps ==
    ASSUME TypeInv, NEW c, Granted(c), NEW outcome \in AttemptStatus,
           Workers!EndAttempt(c, outcome)
    PROVE  KeepsLeases
<1>1. /\ c.task \in Task /\ c.fence \in AttemptNumber /\ JobOf[c.task] \in Job
      /\ lease[c.task][c.fence].state # "NONE" /\ c.code \in FailureClass
      /\ attempt' = [attempt EXCEPT ![c.task][c.fence] = outcome]
      /\ Workers!Release(c)
      /\ UNCHANGED <<attemptCount, maxAttempts, progress, video, committing>>
  BY DEF Granted, Workers!EndAttempt, Workers!Call, FailureClass, Workers!FailureClass
<1>2. DbTypeOK
  BY Tables DEF TypeInv
<1>3. attempt' \in [Task -> [AttemptNumber -> AttemptStatus]]
  BY <1>1, <1>2, AttemptTyped
<1>4. status' \in [Task -> TaskStatus]
  BY <1>1, <1>2 DEF Workers!EndAttempt, DbTypeOK, TaskStatus
<1>5. job' \in [Job -> JobStatus]
  BY <1>1, <1>2 DEF Workers!EndAttempt, DbTypeOK, JobStatus
<1>6. failure' \in [Job -> FailureClass]
  BY <1>1, <1>2 DEF Workers!EndAttempt, DbTypeOK
<1>7. DbTypeOK'
  BY <1>1, <1>2, <1>3, <1>4, <1>5, <1>6 DEF DbTypeOK
<1>8. LeaseTypes
  BY Tables DEF TypeInv, LeaseTypes
<1>9. /\ LeaseTypes'
      /\ \A t \in Task, n \in AttemptNumber :
             /\ lease'[t][n].state = "NONE" <=> lease[t][n].state = "NONE"
             /\ lease'[t][n].attempt = lease[t][n].attempt
             /\ Workers!Active(t, n)' => Workers!Active(t, n)
  BY <1>1, <1>8, ReleaseKeeps
<1> QED
  BY <1>1, <1>7, <1>9 DEF KeepsLeases

(* The writes of the worker task API. *)
LEMMA WriteKeeps ==
    ASSUME TypeInv, NEW c, Granted(c), Workers!Write(c)
    PROVE  KeepsLeases
<1>1. /\ c.task \in Task /\ c.fence \in AttemptNumber
      /\ lease[c.task][c.fence].state # "NONE" /\ Workers!AttemptOf(c) = c.fence
      /\ c \in Workers!Call
  BY DEF Granted
<1>2. DbTypeOK /\ LeaseTypes
  BY Tables DEF TypeInv, LeaseTypes
<1>3. ASSUME lease' = lease, attemptCount' = attemptCount, committing' = committing, DbTypeOK'
      PROVE  KeepsLeases
  BY <1>2, <1>3 DEF KeepsLeases, LeaseTypes, Workers!Active, Workers!Lease
<1>4. CASE Workers!Start(c)
  <2>1. status' \in [Task -> TaskStatus]
    BY <1>1, <1>2, <1>4 DEF Workers!Start, DbTypeOK, TaskStatus
  <2>2. DbTypeOK'
    BY <1>2, <1>4, <2>1 DEF Workers!Start, DbTypeOK
  <2> QED
    BY <1>3, <1>4, <2>2 DEF Workers!Start
<1>5. CASE Workers!Renew(c)
  <2>1. lease' = [lease EXCEPT ![c.task][c.fence].expired = FALSE]
    BY <1>5 DEF Workers!Renew
  <2>2. UNCHANGED dbVars
    BY <1>5 DEF Workers!Renew, Workers!dbVars, dbVars
  <2>3. DbTypeOK'
    BY <1>2, <2>2 DEF dbVars, DbTypeOK
  <2>4. /\ LeaseTypes'
        /\ \A u \in Task, m \in AttemptNumber :
               /\ lease'[u][m].state = lease[u][m].state
               /\ lease'[u][m].attempt = lease[u][m].attempt
               /\ Workers!Active(u, m)' <=> Workers!Active(u, m)
    BY <1>1, <1>2, <2>1, DeadlineKeeps
  <2> QED
    BY <2>2, <2>3, <2>4 DEF KeepsLeases, dbVars
<1>6. CASE Workers!Progress(c)
  <2>1. c.bps \in 0..ProgressTop
    BY <1>1 DEF Workers!Call
  <2>2. progress' \in [Task -> 0..ProgressTop]
    BY <1>1, <1>2, <1>6, <2>1 DEF Workers!Progress, DbTypeOK
  <2>3. DbTypeOK'
    BY <1>2, <1>6, <2>2 DEF Workers!Progress, DbTypeOK
  <2> QED
    BY <1>3, <1>6, <2>3 DEF Workers!Progress
<1>7. CASE Workers!Complete(c)
  <2> DEFINE new == Completion(c.task, c.fence, c.fence)
  <2>1. /\ ApplyCompletion(new) /\ Workers!Release(c) /\ committing' = committing
    BY <1>1, <1>7, SharedOperators DEF Workers!Complete
  <2>2. new \in CompletionRecord
    BY <1>1, <1>2, CompletionTyped
  <2> HIDE DEF new
  <2>3. DbTypeOK'
    BY <1>2, <2>1, <2>2, ApplyTyped DEF DbTypeOK
  <2>4. attemptCount' = attemptCount
    BY <2>1 DEF ApplyCompletion
  <2>5. /\ LeaseTypes'
        /\ \A t \in Task, n \in AttemptNumber :
               /\ lease'[t][n].state = "NONE" <=> lease[t][n].state = "NONE"
               /\ lease'[t][n].attempt = lease[t][n].attempt
               /\ Workers!Active(t, n)' => Workers!Active(t, n)
    BY <1>1, <1>2, <2>1, ReleaseKeeps
  <2> QED
    BY <2>1, <2>3, <2>4, <2>5 DEF KeepsLeases
<1>8. CASE Workers!BeginCommit(c)
  <2> DEFINE new == Completion(c.task, c.fence, c.fence)
  <2>1. /\ committing' = committing \cup {new}
        /\ UNCHANGED <<status, attemptCount, maxAttempts, progress, attempt, job, failure,
                       video, lease>>
    BY <1>1, <1>8, SharedOperators DEF Workers!BeginCommit
  <2>2. /\ new \in CompletionRecord
        /\ new.task = c.task /\ new.attempt = c.fence /\ new.fence = c.fence
    BY <1>1, <1>2, CompletionTyped
  <2> HIDE DEF new
  <2>3. DbTypeOK'
    BY <1>2, <2>1, <2>2 DEF DbTypeOK
  <2>4. LeaseTypes' /\ \A t \in Task, n \in AttemptNumber :
                           Workers!Active(t, n)' <=> Workers!Active(t, n)
    BY <1>2, <2>1 DEF LeaseTypes, Workers!Active, Workers!Lease
  <2> QED
    BY <1>1, <2>1, <2>2, <2>3, <2>4 DEF KeepsLeases
<1>9. CASE Workers!Fail(c)
  <2>1. "FAILED" \in AttemptStatus
    BY DEF AttemptStatus
  <2> QED
    BY <1>9, <2>1, EndAttemptKeeps DEF Workers!Fail
<1>10. CASE Workers!Reap(c)
  <2>1. "TIMED_OUT" \in AttemptStatus
    BY DEF AttemptStatus
  <2> QED
    BY <1>10, <2>1, EndAttemptKeeps DEF Workers!Reap
<1>11. CASE Workers!ReapNothing(c)
  <2>1. UNCHANGED dbVars /\ lease' = lease
    BY <1>11 DEF Workers!ReapNothing, Workers!dbVars, dbVars
  <2>2. DbTypeOK' /\ attemptCount' = attemptCount /\ committing' = committing
    BY <1>2, <2>1 DEF dbVars, DbTypeOK
  <2> QED
    BY <1>3, <2>1, <2>2
<1> QED
  BY <1>4, <1>5, <1>6, <1>7, <1>8, <1>9, <1>10, <1>11 DEF Workers!Write

(* The token that a claim reads as the latest is the attempt count. *)
LEMMA LatestFenceIsCount ==
    ASSUME TypeInv, NEW t \in Task, Class[t] = "GPU"
    PROVE  Workers!LatestFence(t) = attemptCount[t]
<1> DEFINE issued == {n \in AttemptNumber : lease[t][n].state # "NONE"}
<1>1. attemptCount[t] \in 0..AttemptBound
  BY Tables DEF TypeInv, DbTypeOK
<1>2. issued = {n \in AttemptNumber : n <= attemptCount[t]}
  BY DEF TypeInv, LeasesAreAttempts
<1>3. Workers!LatestFence(t) =
          IF issued = {} THEN 0 ELSE CHOOSE n \in issued : \A m \in issued : m <= n
  BY Tables DEF Workers!LatestFence
<1>4. CASE attemptCount[t] = 0
  <2>1. issued = {}
    BY <1>2, <1>4 DEF AttemptNumber
  <2> QED
    BY <1>3, <1>4, <2>1
<1>5. CASE attemptCount[t] # 0
  <2>1. /\ attemptCount[t] \in issued
        /\ \A m \in issued : m <= attemptCount[t]
    BY <1>1, <1>2, <1>5 DEF AttemptNumber
  <2> DEFINE top == CHOOSE n \in issued : \A m \in issued : m <= n
  <2>2. top \in issued /\ \A m \in issued : m <= top
    BY <2>1
  <2>3. top = attemptCount[t]
    <3> HIDE DEF issued, top
    <3>1. top \in Nat /\ attemptCount[t] \in Nat
      BY <1>1, <2>2 DEF issued, AttemptNumber
    <3> QED
      BY <2>1, <2>2, <3>1
  <2> QED
    BY <1>3, <2>1, <2>3
<1> QED
  BY <1>4, <1>5

(* A claim grants the lease of the next attempt; no other lease is active. *)
LEMMA ClaimGrants ==
    ASSUME TypeInv, NEW s \in Session, NEW t \in Task, Workers!Claim(s, t)
    PROVE  /\ attemptCount[t] + 1 \in AttemptNumber
           /\ LeaseTypes'
           /\ lease'[t][attemptCount[t] + 1].state = "ACTIVE"
           /\ lease'[t][attemptCount[t] + 1].attempt = attemptCount[t] + 1
           /\ \A u \in Task, n \in AttemptNumber :
                  u # t \/ n # attemptCount[t] + 1 => lease'[u][n] = lease[u][n]
<1> DEFINE k == attemptCount[t] + 1
           granted == [state |-> "ACTIVE", attempt |-> k, session |-> s, expired |-> FALSE]
<1>1. /\ attemptCount[t] \in 0..AttemptBound /\ maxAttempts[t] \in 1..AttemptBound
      /\ attemptCount[t] < maxAttempts[t] /\ Class[t] = "GPU"
  BY Tables, SharedOperators DEF Workers!Claim, HasBudget, TypeInv, DbTypeOK
<1>2. k \in AttemptNumber /\ k \in 0..AttemptBound
  BY <1>1 DEF AttemptNumber
<1>3. Workers!LatestFence(t) + 1 = k
  BY <1>1, LatestFenceIsCount
<1>4. granted \in Workers!Lease /\ granted.state = "ACTIVE" /\ granted.attempt = k
  BY <1>2 DEF Workers!Lease
<1>5. lease' = [lease EXCEPT ![t][k] = granted]
  BY <1>3 DEF Workers!Claim
<1>6. lease \in [Task -> [AttemptNumber -> Workers!Lease]]
  BY Tables DEF TypeInv
<1> HIDE DEF granted
<1>7. [lease[t] EXCEPT ![k] = granted] \in [AttemptNumber -> Workers!Lease]
  BY <1>2, <1>4, <1>6
<1>8. LeaseTypes'
  <2> HIDE DEF k
  <2> QED
    BY <1>5, <1>6, <1>7 DEF LeaseTypes, Workers!Lease
<1>9. ASSUME NEW u \in Task, NEW n \in AttemptNumber
      PROVE  lease'[u][n] = IF u = t /\ n = k THEN granted ELSE lease[u][n]
  <2> HIDE DEF k
  <2> QED
    BY <1>2, <1>5, <1>6
<1> QED
  BY <1>2, <1>4, <1>8, <1>9

(* A claim grants the next lease, and nothing to anybody else. *)
LEMMA ClaimTyped ==
    ASSUME TypeInv, NEW s \in Session, NEW t \in Task, Workers!Claim(s, t),
           UNCHANGED runnerVars
    PROVE  TypeInv'
<1> DEFINE k == attemptCount[t] + 1
<1>1. /\ k \in AttemptNumber
      /\ LeaseTypes'
      /\ lease'[t][k].state = "ACTIVE" /\ lease'[t][k].attempt = k
      /\ \A u \in Task, n \in AttemptNumber :
             u # t \/ n # k => lease'[u][n] = lease[u][n]
  BY ClaimGrants
<1>2. /\ attempt' = [attempt EXCEPT ![t][k] = "STARTED"]
      /\ status' = [status EXCEPT ![t] = "LEASED"]
      /\ attemptCount' = [attemptCount EXCEPT ![t] = k]
      /\ job' = [job EXCEPT ![JobOf[t]] = "RUNNING"]
      /\ UNCHANGED <<maxAttempts, progress, failure, video, committing, current, calls>>
      /\ Class[t] = "GPU"
      /\ \A n \in AttemptNumber : ~Workers!Active(t, n)
  BY Tables DEF Workers!Claim
<1>3. DbTypeOK /\ LeaseTypes /\ RunnerTypeOK /\ current \subseteq Session
      /\ calls \subseteq Workers!Call
  BY Tables DEF TypeInv, LeaseTypes
<1>4. k \in 0..AttemptBound /\ k \in Nat /\ attemptCount[t] \in Nat
  BY <1>1, <1>3 DEF AttemptNumber, DbTypeOK
<1> HIDE DEF k
<1>5. attempt' \in [Task -> [AttemptNumber -> AttemptStatus]]
  <2>1. "STARTED" \in AttemptStatus
    BY DEF AttemptStatus
  <2> QED
    BY <1>1, <1>2, <1>3, <2>1, AttemptTyped
<1>6. DbTypeOK'
  BY <1>2, <1>3, <1>4, <1>5 DEF DbTypeOK, TaskStatus, JobStatus
<1>7. RunnerTypeOK'
  BY <1>3 DEF RunnerTypeOK, runnerVars
<1>8. TypeOK'
  BY <1>1, <1>2, <1>3, <1>6, <1>7, TablesNext DEF Workers!Call
<1>9. LeasesAreAttempts'
  <2>1. attemptCount'[t] = k /\ \A u \in Task : u # t => attemptCount'[u] = attemptCount[u]
    BY <1>2, <1>3 DEF DbTypeOK
  <2>2. ASSUME NEW u \in Task, NEW n \in AttemptNumber
        PROVE  /\ lease'[u][n].state # "NONE" <=> Class[u] = "GPU" /\ n <= attemptCount'[u]
               /\ lease'[u][n].state # "NONE" => lease'[u][n].attempt = n
               /\ lease'[u][n].state = "ACTIVE" => n = attemptCount'[u]
    <3>1. /\ lease[u][n].state # "NONE" <=> Class[u] = "GPU" /\ n <= attemptCount[u]
          /\ lease[u][n].state # "NONE" => lease[u][n].attempt = n
          /\ lease[u][n].state = "ACTIVE" => n = attemptCount[u]
      BY DEF TypeInv, LeasesAreAttempts, Workers!Active
    <3>2. CASE u = t /\ n = k
      BY <1>1, <1>2, <1>4, <2>1, <3>2 DEF k
    <3>3. CASE u = t /\ n # k
      <4>1. n \in Nat /\ (n <= k <=> n <= attemptCount[t])
        BY <1>4, <3>3 DEF k, AttemptNumber
      <4> QED
        BY <1>1, <1>2, <2>1, <3>1, <3>3, <4>1 DEF Workers!Active
    <3>4. CASE u # t
      BY <1>1, <2>1, <3>1, <3>4
    <3> QED
      BY <3>2, <3>3, <3>4
  <2> QED
    BY <2>2 DEF LeasesAreAttempts, Workers!Active
<1>10. HandlersWereGranted'
  <2>1. \A u \in Task, n \in AttemptNumber :
            lease[u][n].state # "NONE" => lease'[u][n].state # "NONE"
    BY <1>1
  <2>2. \A c \in calls : c.task \in Task /\ c.fence \in AttemptNumber
    BY <1>3, Tables DEF Workers!Call
  <2>3. \A c \in committing : c.task \in Task /\ (c.fence # 0 => c.fence \in AttemptNumber)
    BY <1>3 DEF DbTypeOK, CompletionRecord
  <2> QED
    BY <1>2, <2>1, <2>2, <2>3 DEF TypeInv, HandlersWereGranted
<1> QED
  BY <1>8, <1>9, <1>10 DEF TypeInv

(* A request of the worker task API, handled at once or past its check only. *)
LEMMA RequestTyped ==
    ASSUME TypeInv, UNCHANGED runnerVars, NEW t \in Task, NEW n \in AttemptNumber,
           Workers!Request(t, n)
    PROVE  TypeInv'
<1>1. DbTypeOK /\ LeaseTypes /\ RunnerTypeOK /\ current \subseteq Session
      /\ calls \subseteq Workers!Call
  BY Tables DEF TypeInv, LeaseTypes
<1>2. RunnerTypeOK'
  BY <1>1 DEF RunnerTypeOK, runnerVars
<1>3. PICK c \in Workers!CallOn(t, n) : Workers!Serve(c) \/ Workers!Open(c)
  BY DEF Workers!Request
<1>4. c \in Workers!Call /\ lease[c.task][c.fence].state # "NONE"
  BY Tables DEF Workers!Request, Workers!CallOn, Workers!Call
<1>5. CASE Workers!Serve(c)
  <2>1. Granted(c) /\ Workers!Write(c) /\ UNCHANGED <<current, calls>>
    BY <1>4, <1>5, CallsAreGranted DEF Workers!Serve
  <2>2. KeepsLeases
    BY <2>1, WriteKeeps
  <2> QED
    BY <1>1, <1>2, <2>1, <2>2, LeasesKeep DEF KeepsLeases
<1>6. CASE Workers!Open(c)
  <2>1. UNCHANGED dbVars /\ UNCHANGED <<lease, current>> /\ calls' = calls \cup {c}
    BY <1>6 DEF Workers!Open, Workers!dbVars, dbVars
  <2>2. DbTypeOK' /\ attemptCount' = attemptCount /\ committing' = committing
    BY <1>1, <2>1 DEF dbVars, DbTypeOK
  <2>3. LeaseTypes' /\ \A u \in Task, m \in AttemptNumber :
                           Workers!Active(u, m)' <=> Workers!Active(u, m)
    BY <1>1, <2>1 DEF LeaseTypes, Workers!Active, Workers!Lease
  <2> QED
    BY <1>1, <1>2, <1>4, <2>1, <2>2, <2>3, LeasesKeep
<1> QED
  BY <1>3, <1>5, <1>6

(* A handler that was past its check writes. *)
LEMMA FinishTyped ==
    ASSUME TypeInv, UNCHANGED runnerVars, NEW c \in calls, Workers!Finish(c)
    PROVE  TypeInv'
<1>1. DbTypeOK /\ LeaseTypes /\ RunnerTypeOK /\ current \subseteq Session
      /\ calls \subseteq Workers!Call
  BY Tables DEF TypeInv, LeaseTypes
<1>2. RunnerTypeOK'
  BY <1>1 DEF RunnerTypeOK, runnerVars
<1>3. Granted(c) /\ Workers!Write(c) /\ current' = current /\ calls' \subseteq calls
  BY <1>1, CallsAreGranted DEF Workers!Finish, TypeInv, HandlersWereGranted
<1>4. KeepsLeases
  BY <1>3, WriteKeeps
<1> QED
  BY <1>1, <1>2, <1>3, <1>4, LeasesKeep DEF KeepsLeases

(* A step that changes no lease and adds no handler of a worker. *)
LEMMA NoLeaseTyped ==
    ASSUME TypeInv, DbTypeOK', RunnerTypeOK', UNCHANGED <<lease, current>>, calls' \subseteq calls,
           \A t \in Task : Class[t] = "GPU" => attemptCount'[t] = attemptCount[t],
           \A c \in committing' : c \in committing \/ c.fence = 0
    PROVE  TypeInv'
<1>1. LeaseTypes /\ current \subseteq Session
  BY Tables DEF TypeInv, LeaseTypes
<1>2. LeaseTypes' /\ \A u \in Task, m \in AttemptNumber :
                         Workers!Active(u, m)' <=> Workers!Active(u, m)
  BY <1>1 DEF LeaseTypes, Workers!Active, Workers!Lease
<1> QED
  BY <1>1, <1>2, LeasesKeep

(* The commit of a completion, and the other steps on leases. *)
LEMMA WorkersTyped ==
    ASSUME TypeInv, UNCHANGED runnerVars,
           \/ \E c \in committing : Workers!Commit(c)
           \/ \E s \in Session : Workers!EndSession(s)
           \/ \E t \in Task, n \in AttemptNumber : Workers!Expire(t, n)
    PROVE  TypeInv'
<1>1. DbTypeOK /\ LeaseTypes /\ RunnerTypeOK /\ current \subseteq Session
      /\ calls \subseteq Workers!Call
  BY Tables DEF TypeInv, LeaseTypes
<1>2. RunnerTypeOK'
  BY <1>1 DEF RunnerTypeOK, runnerVars
<1>3. ASSUME NEW c \in committing, Workers!Commit(c)
      PROVE  TypeInv'
  <2>1. c \in CompletionRecord /\ c.fence # 0
    BY <1>1, <1>3 DEF DbTypeOK, Workers!Commit
  <2>2. /\ c.task \in Task /\ c.fence \in AttemptNumber
        /\ lease[c.task][c.fence].state # "NONE"
    BY <2>1 DEF CompletionRecord, TypeInv, HandlersWereGranted
  <2>3. /\ ApplyCompletion(c) /\ Workers!Release(c) /\ committing' \subseteq committing
        /\ UNCHANGED <<current, calls>>
    BY <1>3, SharedOperators DEF Workers!Commit
  <2>4. DbTypeOK'
    BY <1>1, <2>1, <2>3, ApplyTyped DEF DbTypeOK
  <2>5. attemptCount' = attemptCount
    BY <2>3 DEF ApplyCompletion
  <2>6. /\ LeaseTypes'
        /\ \A t \in Task, n \in AttemptNumber :
               /\ lease'[t][n].state = "NONE" <=> lease[t][n].state = "NONE"
               /\ lease'[t][n].attempt = lease[t][n].attempt
               /\ Workers!Active(t, n)' => Workers!Active(t, n)
    BY <1>1, <2>2, <2>3, ReleaseKeeps
  <2> QED
    BY <1>1, <1>2, <2>3, <2>4, <2>5, <2>6, LeasesKeep
<1>4. ASSUME NEW s \in Session, Workers!EndSession(s)
      PROVE  TypeInv'
  <2>1. UNCHANGED dbVars /\ UNCHANGED <<lease, calls>> /\ current' \subseteq current
    BY <1>4 DEF Workers!EndSession, Workers!dbVars, dbVars
  <2>2. DbTypeOK' /\ attemptCount' = attemptCount /\ committing' = committing
    BY <1>1, <2>1 DEF dbVars, DbTypeOK
  <2>3. LeaseTypes' /\ \A u \in Task, m \in AttemptNumber :
                           Workers!Active(u, m)' <=> Workers!Active(u, m)
    BY <1>1, <2>1 DEF LeaseTypes, Workers!Active, Workers!Lease
  <2> QED
    BY <1>1, <1>2, <2>1, <2>2, <2>3, LeasesKeep
<1>5. ASSUME NEW t \in Task, NEW n \in AttemptNumber, Workers!Expire(t, n)
      PROVE  TypeInv'
  <2>1. /\ UNCHANGED dbVars /\ UNCHANGED <<current, calls>>
        /\ lease' = [lease EXCEPT ![t][n].expired = TRUE]
    BY <1>5 DEF Workers!Expire, Workers!dbVars, dbVars
  <2>2. DbTypeOK' /\ attemptCount' = attemptCount /\ committing' = committing
    BY <1>1, <2>1 DEF dbVars, DbTypeOK
  <2>3. /\ LeaseTypes'
        /\ \A u \in Task, m \in AttemptNumber :
               /\ lease'[u][m].state = lease[u][m].state
               /\ lease'[u][m].attempt = lease[u][m].attempt
               /\ Workers!Active(u, m)' <=> Workers!Active(u, m)
    BY <1>1, <2>1, DeadlineKeeps
  <2> QED
    BY <1>1, <1>2, <2>1, <2>2, <2>3, LeasesKeep
<1> QED
  BY <1>3, <1>4, <1>5

(* The queue's cancel and retry, as they are here. *)
LEMMA QueueOperators ==
    /\ \A j : Workers!CancelRows(j) <=> CancelRows(j)
    /\ \A t : Workers!RetryRows(t) <=> RetryRows(t)
<1>1. \A j : Workers!Cancellable(j) = Cancellable(j)
  BY DEF Cancellable, Workers!Cancellable, TasksOf, Workers!TasksOf
<1>2. \A j : Workers!CancelRows(j) <=> CancelRows(j)
  BY <1>1, SharedOperators, Tables
  DEF CancelRows, Workers!CancelRows, ActiveJobStatus, Workers!ActiveJobStatus
<1>3. \A t : Workers!RetryConflict(t) <=> RetryConflict(t)
  BY DEF RetryConflict, Workers!RetryConflict, TasksOf, Workers!TasksOf
<1>4. \A t : Workers!RetryRows(t) <=> RetryRows(t)
  BY <1>3, SharedOperators DEF RetryRows, Workers!RetryRows
<1> QED
  BY <1>2, <1>4

(* A cancel releases the leases of its job. *)
LEMMA CancelKeeps ==
    ASSUME TypeInv, NEW j \in Job, Workers!Cancel(j)
    PROVE  /\ LeaseTypes'
           /\ \A t \in Task, n \in AttemptNumber :
                  /\ lease'[t][n].state = "NONE" <=> lease[t][n].state = "NONE"
                  /\ lease'[t][n].attempt = lease[t][n].attempt
                  /\ Workers!Active(t, n)' <=> Workers!Active(t, n) /\ JobOf[t] # j
<1>1. lease \in [Task -> [AttemptNumber -> Workers!Lease]]
  BY Tables DEF TypeInv
<1>2. lease' = [t \in Task |-> [n \in AttemptNumber |->
                   IF JobOf[t] = j /\ lease[t][n].state = "ACTIVE"
                   THEN Workers!Released(lease[t][n]) ELSE lease[t][n]]]
  BY Tables DEF Workers!Cancel, Workers!Active
<1>3. ASSUME NEW t \in Task, NEW n \in AttemptNumber
      PROVE  /\ lease[t][n] \in Workers!Lease
             /\ Workers!Released(lease[t][n]) \in Workers!Lease
             /\ Workers!Released(lease[t][n]).state = "RELEASED"
             /\ Workers!Released(lease[t][n]).attempt = lease[t][n].attempt
  <2> DEFINE l == lease[t][n]
  <2>1. l \in Workers!Lease
    BY <1>1
  <2> HIDE DEF l
  <2>2. /\ Workers!Released(l) \in Workers!Lease
        /\ Workers!Released(l).state = "RELEASED"
        /\ Workers!Released(l).attempt = l.attempt
    BY <2>1 DEF Workers!Released, Workers!Lease
  <2> QED
    BY <2>1, <2>2 DEF l
<1>4. ASSUME NEW t \in Task, NEW n \in AttemptNumber
      PROVE  lease'[t][n] = IF JobOf[t] = j /\ lease[t][n].state = "ACTIVE"
                            THEN Workers!Released(lease[t][n]) ELSE lease[t][n]
  BY <1>2
<1>5. lease' \in [Task -> [AttemptNumber -> Workers!Lease]]
  BY <1>2, <1>3
<1>6. LeaseTypes'
  BY <1>5 DEF LeaseTypes, Workers!Lease
<1> QED
  BY <1>3, <1>4, <1>6 DEF Workers!Active

(* A cancel of the queue ends leases and attempts. *)
LEMMA CancelTyped ==
    ASSUME TypeInv, UNCHANGED runnerVars, NEW j \in Job, Workers!Cancel(j)
    PROVE  TypeInv'
<1>1. DbTypeOK /\ RunnerTypeOK /\ current \subseteq Session
  BY Tables DEF TypeInv
<1>2. RunnerTypeOK'
  BY <1>1 DEF RunnerTypeOK, runnerVars
<1>3. CancelRows(j) /\ UNCHANGED <<current, calls>>
  BY QueueOperators DEF Workers!Cancel
<1>4. status' \in [Task -> TaskStatus]
  BY <1>1, <1>3 DEF CancelRows, DbTypeOK, TaskStatus
<1>5. attempt' \in [Task -> [AttemptNumber -> AttemptStatus]]
  BY <1>1, <1>3 DEF CancelRows, DbTypeOK, AttemptStatus
<1>6. job' \in [Job -> JobStatus]
  BY <1>1, <1>3 DEF CancelRows, DbTypeOK, JobStatus
<1>7. DbTypeOK' /\ attemptCount' = attemptCount /\ committing' = committing
  BY <1>1, <1>3, <1>4, <1>5, <1>6 DEF CancelRows, DbTypeOK
<1>8. /\ LeaseTypes'
      /\ \A t \in Task, n \in AttemptNumber :
             /\ lease'[t][n].state = "NONE" <=> lease[t][n].state = "NONE"
             /\ lease'[t][n].attempt = lease[t][n].attempt
             /\ Workers!Active(t, n)' => Workers!Active(t, n)
  BY CancelKeeps
<1> QED
  BY <1>1, <1>2, <1>3, <1>7, <1>8, LeasesKeep

(* A retry of the queue starts nothing by itself. *)
LEMMA RetryTyped ==
    ASSUME TypeInv, UNCHANGED runnerVars, NEW t \in Task, Workers!Retry(t)
    PROVE  TypeInv'
<1>1. DbTypeOK /\ RunnerTypeOK
  BY Tables DEF TypeInv
<1>2. RunnerTypeOK'
  BY <1>1 DEF RunnerTypeOK, runnerVars
<1>3. RetryRows(t) /\ UNCHANGED <<lease, current, calls>>
  BY QueueOperators DEF Workers!Retry, Workers!leaseVars
<1>4. status' \in [Task -> TaskStatus] /\ job' \in [Job -> JobStatus]
  BY <1>1, <1>3 DEF RetryRows, DbTypeOK, TaskStatus, JobStatus
<1>5. failure' \in [Job -> FailureClass] /\ progress' \in [Task -> 0..ProgressTop]
  BY <1>1, <1>3 DEF RetryRows, DbTypeOK, FailureClass
<1>6. maxAttempts' \in [Task -> 1..AttemptBound]
  <2>1. attemptCount[t] \in 0..AttemptBound /\ attemptCount[t] < AttemptBound
    BY <1>1, <1>3 DEF RetryRows, DbTypeOK
  <2>2. attemptCount[t] + 1 \in 1..AttemptBound
    BY <2>1
  <2> QED
    BY <1>1, <1>3, <2>2 DEF RetryRows, DbTypeOK
<1>7. DbTypeOK' /\ attemptCount' = attemptCount /\ committing' = committing
  BY <1>1, <1>3, <1>4, <1>5, <1>6 DEF RetryRows, DbTypeOK
<1> QED
  BY <1>2, <1>3, <1>7, NoLeaseTyped

(* A decision of the reviewer. *)
LEMMA ReviewTyped ==
    ASSUME TypeInv, Review
    PROVE  TypeInv'
<1>1. DbTypeOK /\ RunnerTypeOK
  BY Tables DEF TypeInv
<1>2. UNCHANGED <<lease, current, calls, runnerVars>>
  BY DEF Review
<1>3. RunnerTypeOK'
  BY <1>1, <1>2 DEF RunnerTypeOK, runnerVars
<1>4. ASSUME NEW t \in Task, Approve(t)
      PROVE  TypeInv'
  <2> DEFINE us == Unlocked([status EXCEPT ![t] = "SUCCEEDED"], t)
             after == AfterUnlock([status EXCEPT ![t] = "SUCCEEDED"], us)
  <2>1. /\ status' = after
        /\ progress' = [progress EXCEPT ![t] = ProgressTop]
        /\ job' = [job EXCEPT ![JobOf[t]] = Aggregate(after, JobOf[t])]
        /\ video' = [video EXCEPT ![JobOf[t]] = "PROCESSING"]
        /\ UNCHANGED <<attemptCount, maxAttempts, attempt, failure, committing>>
    BY <1>4 DEF Approve
  <2>2. after \in [Task -> TaskStatus]
    <3> HIDE DEF us
    <3> QED
      BY <1>1 DEF AfterUnlock, DbTypeOK, TaskStatus
  <2>3. Aggregate(after, JobOf[t]) \in JobStatus
    BY AggregateEnds
  <2> HIDE DEF after
  <2>4. progress' \in [Task -> 0..ProgressTop]
    BY <1>1, <2>1 DEF DbTypeOK
  <2>5. job' \in [Job -> JobStatus]
    BY <1>1, <2>1, <2>3 DEF DbTypeOK
  <2>6. video' \in [Job -> VideoStatus]
    BY <1>1, <2>1 DEF DbTypeOK, VideoStatus
  <2>7. DbTypeOK'
    BY <1>1, <2>1, <2>2, <2>4, <2>5, <2>6 DEF DbTypeOK
  <2> QED
    BY <1>2, <1>3, <2>1, <2>7, NoLeaseTyped
<1>5. ASSUME NEW j \in Job, OtherDecision(j)
      PROVE  TypeInv'
  <2>1. DbTypeOK' /\ attemptCount' = attemptCount /\ committing' = committing
    BY <1>1, <1>5 DEF OtherDecision, DbTypeOK, VideoStatus
  <2> QED
    BY <1>2, <1>3, <2>1, NoLeaseTyped
<1> QED
  BY <1>4, <1>5 DEF Review

-----------------------------------------------------------------------------
(* Types of the runner's steps. *)

(* The phases of the runner, and what it carries in them. *)
LEMMA RunnerPhases ==
    ASSUME RunnerTypeOK
    PROVE  /\ runner.phase \in {"executing", "succeeding", "failing", "committing"} =>
                  /\ runner.task \in ControlTask
                  /\ runner.attempt \in AttemptNumber
                  /\ runner = On(runner.phase, runner.task, runner.attempt)
           /\ runner.phase = "recovering" =>
                  runner.todo \subseteq ControlTask
                  /\ runner = [phase |-> "recovering", todo |-> runner.todo]
<1>1. CASE runner \in Resting
  BY <1>1 DEF Resting
<1>2. CASE runner \in Recovering
  BY <1>2 DEF Recovering
<1>3. CASE runner \in Working
  BY <1>3 DEF Working, On
<1> QED
  BY <1>1, <1>2, <1>3 DEF RunnerTypeOK

(* What the runner may become. *)
LEMMA WorkingTyped ==
    ASSUME NEW phase \in {"executing", "succeeding", "failing", "committing"},
           NEW t \in ControlTask, NEW k \in AttemptNumber
    PROVE  On(phase, t, k) \in Working
BY DEF On, Working

(* A process that rests, or is down, carries nothing. *)
LEMMA RestingTyped == Idle \in Resting /\ Down \in Resting
BY DEF Idle, Down, Resting

(* A step of the runner that writes no table. *)
LEMMA QuietTyped ==
    ASSUME TypeInv, UNCHANGED dbVars, UNCHANGED <<lease, current, calls>>, RunnerTypeOK'
    PROVE  TypeInv'
<1>1. DbTypeOK' /\ attemptCount' = attemptCount /\ committing' = committing
  BY Tables DEF TypeInv, dbVars, DbTypeOK
<1> QED
  BY <1>1, NoLeaseTyped

(* A step of the polling runner. *)
LEMMA PollTyped ==
    ASSUME TypeInv, Poll
    PROVE  TypeInv'
<1>1. DbTypeOK /\ RunnerTypeOK /\ young \subseteq ControlTask
  BY Tables DEF TypeInv, RunnerTypeOK
<1>2. UNCHANGED <<lease, current, calls>>
  BY DEF Poll
<1>3. \A t \in ControlTask : t \in Task /\ Class[t] = "CONTROL_PLANE" /\ JobOf[t] \in Job
  BY DEF ControlTask
<1>4. ASSUME NEW t \in ControlTask, RunnerClaim(t)
      PROVE  TypeInv'
  <2> DEFINE k == attemptCount[t] + 1
  <2>1. k \in AttemptNumber /\ k \in 0..AttemptBound
    <3>1. /\ attemptCount[t] \in 0..AttemptBound /\ maxAttempts[t] \in 1..AttemptBound
          /\ attemptCount[t] < maxAttempts[t]
      BY <1>1, <1>3, <1>4 DEF RunnerClaim, Runnable, HasBudget, DbTypeOK
    <3> QED
      BY <3>1 DEF AttemptNumber
  <2>2. /\ attempt' = [attempt EXCEPT ![t][k] = "STARTED"]
        /\ status' = [status EXCEPT ![t] = "RUNNING"]
        /\ attemptCount' = [attemptCount EXCEPT ![t] = k]
        /\ job' = [job EXCEPT ![JobOf[t]] = "RUNNING"]
        /\ runner' = On("executing", t, k)
        /\ young' = young \cup {t}
        /\ UNCHANGED <<maxAttempts, progress, failure, video, committing>>
    BY <1>4 DEF RunnerClaim
  <2> HIDE DEF k
  <2>3. attempt' \in [Task -> [AttemptNumber -> AttemptStatus]]
    <3>1. "STARTED" \in AttemptStatus
      BY DEF AttemptStatus
    <3> QED
      BY <1>1, <1>3, <2>1, <2>2, <3>1, AttemptTyped
  <2>4. DbTypeOK'
    BY <1>1, <2>1, <2>2, <2>3 DEF DbTypeOK, TaskStatus, JobStatus
  <2>5. RunnerTypeOK'
    BY <1>1, <2>1, <2>2, WorkingTyped DEF RunnerTypeOK
  <2>6. \A u \in Task : Class[u] = "GPU" => attemptCount'[u] = attemptCount[u]
    BY <1>1, <1>3, <2>2 DEF DbTypeOK
  <2> QED
    BY <1>2, <2>2, <2>4, <2>5, <2>6, NoLeaseTyped
<1>5. ASSUME NEW phase \in {"succeeding", "failing"}, Execute(phase)
      PROVE  TypeInv'
  <2>1. runner.task \in ControlTask /\ runner.attempt \in AttemptNumber
        /\ runner = On("executing", runner.task, runner.attempt)
    BY <1>1, <1>5, RunnerPhases DEF Execute, InPhase
  <2>2. runner' = On(phase, runner.task, runner.attempt)
    BY <1>5, <2>1 DEF Execute, On
  <2>3. RunnerTypeOK'
    BY <1>1, <1>5, <2>1, <2>2, WorkingTyped DEF RunnerTypeOK, Execute
  <2> QED
    BY <1>2, <1>5, <2>3, QuietTyped DEF Execute
<1>6. ASSUME Discard \/ LoseFailure
      PROVE  TypeInv'
  <2>1. UNCHANGED dbVars /\ runner' = Idle /\ young' = young
    BY <1>6 DEF Discard, LoseFailure
  <2>2. RunnerTypeOK'
    BY <1>1, <2>1, RestingTyped DEF RunnerTypeOK
  <2> QED
    BY <1>2, <2>1, <2>2, QuietTyped
<1>7. ASSUME Succeed
      PROVE  TypeInv'
  <2>1. runner.task \in ControlTask /\ runner.attempt \in AttemptNumber
    BY <1>1, <1>7, RunnerPhases DEF Succeed, InPhase
  <2> DEFINE new == Completion(runner.task, runner.attempt, 0)
  <2>2. new \in CompletionRecord
    BY <1>1, <1>3, <2>1, CompletionTyped
  <2>3. ApplyCompletion(new) /\ runner' = Idle /\ UNCHANGED <<committing, young>>
    BY <1>7 DEF Succeed
  <2> HIDE DEF new
  <2>4. DbTypeOK'
    BY <1>1, <2>2, <2>3, ApplyTyped DEF DbTypeOK
  <2>5. RunnerTypeOK' /\ attemptCount' = attemptCount
    BY <1>1, <2>3, RestingTyped DEF RunnerTypeOK, ApplyCompletion
  <2> QED
    BY <1>2, <2>3, <2>4, <2>5, NoLeaseTyped
<1>8. ASSUME BeginSucceed
      PROVE  TypeInv'
  <2>1. runner.task \in ControlTask /\ runner.attempt \in AttemptNumber
        /\ runner = On("succeeding", runner.task, runner.attempt)
    BY <1>1, <1>8, RunnerPhases DEF BeginSucceed, InPhase
  <2> DEFINE new == Completion(runner.task, runner.attempt, 0)
  <2>2. new \in CompletionRecord /\ new.fence = 0
    BY <1>1, <1>3, <2>1, CompletionTyped
  <2>3. /\ committing' = committing \cup {new}
        /\ runner' = [runner EXCEPT !.phase = "committing"]
        /\ UNCHANGED <<status, attemptCount, maxAttempts, progress, attempt, job, failure,
                       video, young>>
    BY <1>8 DEF BeginSucceed
  <2> HIDE DEF new
  <2>4. DbTypeOK'
    BY <1>1, <2>2, <2>3 DEF DbTypeOK
  <2>5. runner' = On("committing", runner.task, runner.attempt)
    BY <2>1, <2>3 DEF On
  <2>6. RunnerTypeOK'
    BY <1>1, <2>1, <2>3, <2>5, WorkingTyped DEF RunnerTypeOK
  <2> QED
    BY <1>2, <2>2, <2>3, <2>4, <2>6, NoLeaseTyped
<1>9. ASSUME NEW c \in committing, CommitSucceed(c)
      PROVE  TypeInv'
  <2>1. /\ c \in CompletionRecord /\ ApplyCompletion(c) /\ runner' = Idle /\ young' = young
        /\ committing' \subseteq committing
    BY <1>1, <1>9 DEF CommitSucceed, DbTypeOK
  <2>2. DbTypeOK'
    BY <1>1, <2>1, ApplyTyped DEF DbTypeOK
  <2>3. RunnerTypeOK' /\ attemptCount' = attemptCount
    BY <1>1, <2>1, RestingTyped DEF RunnerTypeOK, ApplyCompletion
  <2> QED
    BY <1>2, <2>1, <2>2, <2>3, NoLeaseTyped
<1>10. ASSUME RecordFailure
       PROVE  TypeInv'
  <2>1. runner.task \in Task /\ runner.attempt \in AttemptNumber /\ JobOf[runner.task] \in Job
    BY <1>1, <1>3, <1>10, RunnerPhases DEF RecordFailure, InPhase
  <2>2. attempt' = [attempt EXCEPT ![runner.task][runner.attempt] = "FAILED"]
    BY <1>10 DEF RecordFailure
  <2>3. attempt' \in [Task -> [AttemptNumber -> AttemptStatus]]
    <3>1. "FAILED" \in AttemptStatus
      BY DEF AttemptStatus
    <3> QED
      BY <1>1, <2>1, <2>2, <3>1, AttemptTyped
  <2>4. status' \in [Task -> TaskStatus] /\ job' \in [Job -> JobStatus]
    BY <1>1, <1>10, <2>1 DEF RecordFailure, DbTypeOK, TaskStatus, JobStatus
  <2>5. failure' \in [Job -> FailureClass] /\ video' \in [Job -> VideoStatus]
    BY <1>1, <1>10, <2>1 DEF RecordFailure, DbTypeOK, FailureClass, VideoStatus
  <2>6. /\ UNCHANGED <<attemptCount, maxAttempts, progress, committing, young>>
        /\ runner' = Idle
    BY <1>10 DEF RecordFailure
  <2>7. DbTypeOK' /\ RunnerTypeOK'
    BY <1>1, <2>3, <2>4, <2>5, <2>6, RestingTyped DEF DbTypeOK, RunnerTypeOK
  <2> QED
    BY <1>2, <2>6, <2>7, NoLeaseTyped
<1> QED
  BY <1>4, <1>5, <1>6, <1>7, <1>8, <1>9, <1>10 DEF Poll

(* A step of the start of the process. *)
LEMMA BootTyped ==
    ASSUME TypeInv, Boot
    PROVE  TypeInv'
<1>1. DbTypeOK /\ RunnerTypeOK /\ young \subseteq ControlTask
  BY Tables DEF TypeInv, RunnerTypeOK
<1>2. UNCHANGED <<lease, current, calls>>
  BY DEF Boot
<1>3. \A t \in ControlTask : t \in Task /\ JobOf[t] \in Job
  BY DEF ControlTask
<1>4. ASSUME NEW ts \in SUBSET ControlTask, runner' = [phase |-> "recovering", todo |-> ts],
             young' = young
      PROVE  RunnerTypeOK'
  <2>1. runner' \in Recovering
    BY <1>4 DEF Recovering
  <2> QED
    BY <1>1, <1>4, <2>1 DEF RunnerTypeOK
<1>5. ASSUME Restart
      PROVE  TypeInv'
  <2>1. Interrupted \in SUBSET ControlTask
    BY DEF Interrupted
  <2>2. RunnerTypeOK'
    BY <1>4, <1>5, <2>1 DEF Restart
  <2> QED
    BY <1>2, <1>5, <2>2, QuietTyped DEF Restart
<1>6. ASSUME NEW t \in ControlTask, Recover(t)
      PROVE  TypeInv'
  <2>1. runner.todo \subseteq ControlTask
        /\ runner = [phase |-> "recovering", todo |-> runner.todo]
    BY <1>1, <1>6, RunnerPhases DEF Recover, InPhase
  <2>2. runner' = [phase |-> "recovering", todo |-> runner.todo \ {t}] /\ young' = young
    <3>1. PICK td : runner = [phase |-> "recovering", todo |-> td]
      BY <2>1
    <3> QED
      BY <1>6, <3>1 DEF Recover
  <2>3. RunnerTypeOK'
    BY <1>4, <2>1, <2>2
  <2>4. attempt' \in [Task -> [AttemptNumber -> AttemptStatus]]
    BY <1>1, <1>3, <1>6 DEF Recover, DbTypeOK, AttemptStatus
  <2>5. status' \in [Task -> TaskStatus] /\ job' \in [Job -> JobStatus]
    BY <1>1, <1>3, <1>6 DEF Recover, DbTypeOK, TaskStatus, JobStatus
  <2>6. failure' \in [Job -> FailureClass]
    BY <1>1, <1>3, <1>6 DEF Recover, DbTypeOK, FailureClass
  <2>7. UNCHANGED <<attemptCount, maxAttempts, progress, video, committing>>
    BY <1>6 DEF Recover
  <2>8. DbTypeOK'
    BY <1>1, <2>4, <2>5, <2>6, <2>7 DEF DbTypeOK
  <2> QED
    BY <1>2, <2>3, <2>7, <2>8, NoLeaseTyped
<1>7. ASSUME BeginPolling
      PROVE  TypeInv'
  <2>1. RunnerTypeOK'
    BY <1>1, <1>7, RestingTyped DEF BeginPolling, RunnerTypeOK
  <2> QED
    BY <1>2, <1>7, <2>1, QuietTyped DEF BeginPolling
<1> QED
  BY <1>5, <1>6, <1>7 DEF Boot

(* Time passes, or the process dies with transactions open. *)
LEMMA ClocksTyped ==
    ASSUME TypeInv, RunnerClock \/ ProcessCrash
    PROVE  TypeInv'
<1>1. DbTypeOK /\ RunnerTypeOK
  BY Tables DEF TypeInv
<1>2. ASSUME RunnerClock
      PROVE  TypeInv'
  <2>1. PICK t \in ControlTask : Age(t)
    BY <1>2 DEF RunnerClock
  <2>2. RunnerTypeOK'
    BY <1>1, <2>1 DEF RunnerTypeOK, Age
  <2> QED
    BY <1>2, <2>1, <2>2, QuietTyped DEF RunnerClock, Age
<1>3. ASSUME ProcessCrash
      PROVE  TypeInv'
  <2>1. /\ UNCHANGED <<status, attemptCount, maxAttempts, progress, attempt, job, failure,
                       video, young, lease, current>>
        /\ runner' = Down /\ committing' = {} /\ calls' = {}
    BY <1>3 DEF ProcessCrash, Crash
  <2>2. RunnerTypeOK' /\ DbTypeOK'
    BY <1>1, <2>1, RestingTyped DEF RunnerTypeOK, DbTypeOK
  <2> QED
    BY <2>1, <2>2, NoLeaseTyped
<1> QED
  BY <1>2, <1>3

(* The initial state. *)
LEMMA InitTyped == Init => TypeInv
<1> SUFFICES ASSUME Init
             PROVE  TypeInv
  OBVIOUS
<1>1. /\ Workers!DbInit /\ lease = [t \in Task |-> [n \in AttemptNumber |-> Workers!NoLease]]
      /\ current = Session /\ calls = {} /\ runner = Idle /\ young = {}
  BY Tables DEF Init, Workers!Init, RunnerInit
<1>2. /\ status = [t \in Task |-> IF Deps[t] = {} THEN "READY" ELSE "BLOCKED"]
      /\ attemptCount = [t \in Task |-> 0]
      /\ maxAttempts = InitialMaxAttempts
      /\ progress = [t \in Task |-> 0]
      /\ attempt = [t \in Task |-> [k \in AttemptNumber |-> "NONE"]]
      /\ job = [j \in Job |-> "WAITING_FOR_GPU"]
      /\ failure = [j \in Job |-> "NONE"]
      /\ video = [j \in Job |-> "PROCESSING"]
      /\ committing = {}
  BY <1>1, Tables DEF Workers!DbInit
<1>3. DbTypeOK
  BY <1>2 DEF DbTypeOK, TaskStatus, JobStatus, FailureClass, VideoStatus, AttemptStatus
<1>4. RunnerTypeOK
  BY <1>1, RestingTyped DEF RunnerTypeOK
<1>5. Workers!NoLease \in Workers!Lease /\ Workers!NoLease.state = "NONE"
  BY DEF Workers!NoLease, Workers!Lease
<1>6. TypeOK
  BY <1>1, <1>3, <1>4, <1>5, Tables
<1>7. LeasesAreAttempts
  BY <1>1, <1>2, <1>5 DEF LeasesAreAttempts, Workers!Active, AttemptNumber
<1> QED
  BY <1>1, <1>2, <1>6, <1>7 DEF TypeInv, HandlersWereGranted

(* Whoever takes it, a step keeps types and grants. *)
LEMMA NextTyped ==
    ASSUME TypeInv, [Next]_pipelineVars
    PROVE  TypeInv'
<1>1. CASE Review
  BY <1>1, ReviewTyped
<1>2. ASSUME WorkerRequest
      PROVE  TypeInv'
  <2>1. UNCHANGED runnerVars
    BY <1>2 DEF WorkerRequest
  <2>2. ASSUME NEW s \in Session, NEW t \in Task, Workers!Claim(s, t)
        PROVE  TypeInv'
    BY <2>1, <2>2, ClaimTyped
  <2>3. ASSUME NEW t \in Task, NEW n \in AttemptNumber, Workers!Request(t, n)
        PROVE  TypeInv'
    BY <2>1, <2>3, RequestTyped
  <2>4. ASSUME NEW c \in calls, Workers!Finish(c)
        PROVE  TypeInv'
    BY <2>1, <2>4, FinishTyped
  <2> QED
    BY <1>2, <2>1, <2>2, <2>3, <2>4, WorkersTyped DEF WorkerRequest
<1>3. CASE QueueRequest
  BY <1>3, CancelTyped, RetryTyped DEF QueueRequest
<1>4. CASE LeaseClock
  BY <1>4, WorkersTyped DEF LeaseClock
<1>5. CASE Poll
  BY <1>5, PollTyped
<1>6. CASE Boot
  BY <1>6, BootTyped
<1>7. CASE RunnerClock \/ ProcessCrash
  BY <1>7, ClocksTyped
<1>8. ASSUME UNCHANGED pipelineVars
      PROVE  TypeInv'
  <2>1. RunnerTypeOK'
    BY <1>8, Tables DEF TypeInv, RunnerTypeOK, pipelineVars, runnerVars
  <2> QED
    BY <1>8, <2>1, QuietTyped DEF pipelineVars
<1> QED
  BY <1>1, <1>2, <1>3, <1>4, <1>5, <1>6, <1>7, <1>8 DEF Next

(* Every column keeps its type, whoever writes it: for every set of tasks    *)
(* and sessions, any dependency graph, and however handlers are interleaved. *)
THEOREM PipelineTypeCorrect == Spec => []TypeOK
<1>1. Init => TypeInv
  BY InitTyped
<1>2. TypeInv /\ [Next]_pipelineVars => TypeInv'
  BY NextTyped
<1>3. TypeInv => TypeOK
  BY DEF TypeInv
<1> QED
  BY <1>1, <1>2, <1>3, PTL DEF Spec

-----------------------------------------------------------------------------
(* What the steps of the worker task API, the reviewer and the queue do to the *)
(* rows, and what they keep of who owns the work.                              *)

AtHand == {"LEASED", "RUNNING"}

(* Task t is put to work, or taken from it, no more than before. *)
Unmoved(t) == /\ status'[t] = "RUNNING" <=> status[t] = "RUNNING"
              /\ status[t] = "CANCELLED" => status'[t] = "CANCELLED"

(* What succeeds or is unlocked is, of all tasks, the only one that changes. *)
LEMMA SucceedsMoves ==
    ASSUME NEW t \in Task, NEW us, NEW js, Succeeds(t, us, js)
    PROVE  \A u \in Task : u # t =>
               /\ status'[u] \in AtHand <=> status[u] \in AtHand
               /\ Unmoved(u)
BY DEF Succeeds, AtHand, Unmoved

(* A lease that is not released belongs to a GPU task that is worked on. *)
LEMMA ActiveIsWorking ==
    ASSUME PipelineInv, NEW t \in Task, NEW n \in AttemptNumber, Workers!Active(t, n)
    PROVE  /\ status[t] \in AtHand /\ t \notin ControlTask
           /\ \A m \in AttemptNumber : Workers!Active(t, m) => m = n
<1>1. lease[t][n].state # "NONE"
  BY DEF Workers!Active
<1>2. Class[t] = "GPU" /\ n = attemptCount[t]
  BY <1>1 DEF PipelineInv, TypeInv, LeasesAreAttempts
<1>3. t \notin ControlTask
  BY <1>2 DEF ControlTask
<1>4. status[t] \in AtHand
  BY <1>3 DEF PipelineInv, OwnersInv, WorkIsOwned, WorkersOwnWork, AtHand
<1> QED
  BY <1>2, <1>3, <1>4 DEF PipelineInv, TypeInv, LeasesAreAttempts

(* What a step that is not the runner's must keep. *)
RunnerUntouched ==
    \A t \in ControlTask : /\ attempt'[t] = attempt[t]
                           /\ attemptCount'[t] = attemptCount[t]
                           /\ Unmoved(t)

CommitsKept ==
    \A c \in committing' : /\ c \in committing \/ c.fence # 0
                           /\ c.fence # 0 => Workers!Active(c.task, c.fence)'

(* A step of anyone but the runner keeps the owners if it keeps these three. *)
LEMMA OwnersKeep ==
    ASSUME OwnersInv, HeldInv, Up \/ status' = status, UNCHANGED runnerVars, RunnerUntouched,
           WorkersOwnWork', CommitsKept, \A c \in calls' : c.op \in Overlap
    PROVE  OwnersInv' /\ HeldStep
<1>1. runner' = runner
  BY DEF runnerVars
<1>2. RunnerOwnsWork'
  BY <1>1 DEF OwnersInv, WorkIsOwned, RunnerOwnsWork, RunnerUntouched, Unmoved, WorksOn
<1>3. CommitsAreOwned'
  BY <1>1 DEF OwnersInv, CommitsAreOwned, CommitsKept
<1>4. FoundAreRunning'
  BY <1>1 DEF OwnersInv, FoundAreRunning, InPhase, Up
<1>5. HeldStep
  BY <1>1 DEF HeldInv, HeldStep, RunnerUntouched, Unmoved, WorksOn
<1> QED
  BY <1>2, <1>3, <1>4, <1>5 DEF OwnersInv, WorkIsOwned, CallsRecheck

(* Open completions keep their leases beside a handler of another task. *)
LEMMA CommitsBeside ==
    ASSUME PipelineInv, NEW t, RowFree(t), committing' \subseteq committing,
           \A u \in Task, n \in AttemptNumber :
               u # t => (Workers!Active(u, n)' <=> Workers!Active(u, n))
    PROVE  CommitsKept
<1>1. ASSUME NEW c \in committing', c.fence # 0
      PROVE  Workers!Active(c.task, c.fence)'
  <2>1. c \in committing /\ c \in CompletionRecord /\ c.task # t
    BY Tables DEF PipelineInv, TypeInv, DbTypeOK, RowFree
  <2>2. c.task \in Task /\ c.fence \in AttemptNumber
    BY <1>1, <2>1 DEF CompletionRecord
  <2>3. Workers!Active(c.task, c.fence)
    BY <1>1, <2>1 DEF PipelineInv, OwnersInv, CommitsAreOwned
  <2> QED
    BY <2>1, <2>2, <2>3
<1> QED
  BY <1>1 DEF CommitsKept

(* Work without a change of the leases or of what is worked on. *)
LEMMA WorkersRest ==
    ASSUME PipelineInv,
           \A t \in Task \ ControlTask :
               /\ status'[t] \in AtHand <=> status[t] \in AtHand
               /\ \A n \in AttemptNumber : Workers!Active(t, n)' <=> Workers!Active(t, n)
    PROVE  WorkersOwnWork'
BY DEF PipelineInv, OwnersInv, WorkIsOwned, WorkersOwnWork, AtHand

(* The only lease of a task is released, and nobody works on it any more. *)
LEMMA WorkersEnd ==
    ASSUME PipelineInv, NEW t \in Task, NEW n \in AttemptNumber, Workers!Active(t, n),
           status'[t] \notin AtHand,
           \A u \in Task : u # t => (status'[u] \in AtHand <=> status[u] \in AtHand),
           \A u \in Task, m \in AttemptNumber :
               Workers!Active(u, m)' <=> Workers!Active(u, m) /\ ~(u = t /\ m = n)
    PROVE  WorkersOwnWork'
<1>1. \A m \in AttemptNumber : ~Workers!Active(t, m)'
  BY ActiveIsWorking
<1>2. \A u \in Task \ ControlTask : u # t =>
          (status'[u] \in AtHand <=> \E m \in AttemptNumber : Workers!Active(u, m)')
  BY DEF PipelineInv, OwnersInv, WorkIsOwned, WorkersOwnWork, AtHand
<1> QED
  BY <1>1, <1>2 DEF WorkersOwnWork, AtHand

(* What a handler that writes still knows of what it checked. *)
Checked(c) ==
    /\ RowFree(c.task)
    /\ c.op \in {"start", "complete", "fail"} => Workers!Active(c.task, c.fence)
    /\ c.op = "start" => status[c.task] = "LEASED"
    /\ c.op = "complete" => status[c.task] = "RUNNING"

(* What a handler does to the rows, and keeps of who owns the work. *)
HandlerStep == RowsNext /\ RunnerUntouched /\ WorkersOwnWork' /\ CommitsKept

(* A failed or released attempt gives its task and its lease back together. *)
LEMMA EndAttemptOwns ==
    ASSUME PipelineInv, NEW c, Granted(c), RowFree(c.task), Workers!Active(c.task, c.fence),
           NEW outcome, Workers!EndAttempt(c, outcome)
    PROVE  HandlerStep
<1> DEFINE t == c.task
           st == IF c.retry THEN "READY" ELSE "FAILED"
           js == IF c.retry THEN "WAITING_FOR_GPU" ELSE "FAILED"
<1>1. /\ t \in Task /\ c.fence \in AttemptNumber /\ lease[t][c.fence].state # "NONE"
      /\ attempt' = [attempt EXCEPT ![t][c.fence] = outcome]
      /\ status' = [status EXCEPT ![t] = st]
      /\ job' = [job EXCEPT ![JobOf[t]] = js]
      /\ Workers!Release(c)
      /\ UNCHANGED <<attemptCount, committing>>
  BY DEF Granted, Workers!EndAttempt
<1>2. DbTypeOK /\ LeaseTypes
  BY Tables DEF PipelineInv, TypeInv, LeaseTypes
<1>3. /\ st \in {"READY", "FAILED"}
      /\ js \in JobStatus \ {"SUCCEEDED", "CANCELLED"}
  BY DEF JobStatus
<1> HIDE DEF st, js
<1>4. status[t] \in AtHand /\ t \notin ControlTask
  BY <1>1, ActiveIsWorking
<1>5. RowsNext
  <2>1. Moves(t, st, js)
    BY <1>1, <1>3, <1>4 DEF Moves, AtWork, AtHand
  <2>2. st \in TaskStatus /\ js \in JobStatus
    BY <1>3 DEF TaskStatus
  <2> QED
    BY <1>1, <2>1, <2>2 DEF RowsNext
<1>6. /\ status'[t] = st /\ \A u \in Task : u # t => status'[u] = status[u]
      /\ \A u \in Task : u # t => attempt'[u] = attempt[u]
  BY <1>1, <1>2 DEF DbTypeOK
<1>7. RunnerUntouched
  BY <1>1, <1>4, <1>6 DEF RunnerUntouched, Unmoved, ControlTask
<1>8. \A u \in Task, m \in AttemptNumber :
          Workers!Active(u, m)' <=> Workers!Active(u, m) /\ ~(u = t /\ m = c.fence)
  BY <1>1, <1>2, ReleaseKeeps
<1>9. WorkersOwnWork'
  <2>1. status'[t] \notin AtHand
    BY <1>3, <1>6 DEF AtHand
  <2> QED
    BY <1>1, <1>6, <1>8, <2>1, WorkersEnd
<1>10. CommitsKept
  <2>1. committing' \subseteq committing
    BY <1>1
  <2>2. \A u \in Task, n \in AttemptNumber :
            u # t => (Workers!Active(u, n)' <=> Workers!Active(u, n))
    BY <1>8
  <2> QED
    BY <2>1, <2>2, CommitsBeside
<1> QED
  BY <1>5, <1>7, <1>9, <1>10 DEF HandlerStep

(* What a handler writes is within what it checked. *)
LEMMA WriteOwns ==
    ASSUME PipelineInv, NEW c, Granted(c), Checked(c), Workers!Write(c)
    PROVE  HandlerStep
<1> DEFINE t == c.task
<1>1. /\ t \in Task /\ c.fence \in AttemptNumber /\ lease[t][c.fence].state # "NONE"
      /\ Workers!AttemptOf(c) = c.fence /\ RowFree(t) /\ JobOf[t] \in Job
      /\ Class[t] = "GPU" /\ t \notin ControlTask
  BY DEF Granted, Checked, ControlTask
<1>2. DbTypeOK /\ LeaseTypes /\ TypeOK /\ RowTypes
  BY Tables, RowsAreTyped DEF PipelineInv, TypeInv, LeaseTypes
<1>3. ASSUME Rests, UNCHANGED <<attempt, attemptCount, committing>>,
             \A u \in Task, n \in AttemptNumber :
                 Workers!Active(u, n)' <=> Workers!Active(u, n)
      PROVE  HandlerStep
  <2>1. status' = status /\ committing' \subseteq committing
    BY <1>3 DEF Rests
  <2>2. RunnerUntouched
    BY <1>3, <2>1 DEF RunnerUntouched, Unmoved
  <2>3. WorkersOwnWork'
    BY <1>3, <2>1, WorkersRest
  <2>4. CommitsKept
    BY <1>1, <1>3, <2>1, CommitsBeside
  <2> QED
    BY <1>3, <2>2, <2>3, <2>4 DEF HandlerStep, RowsNext
<1>4. CASE Workers!Start(c)
  <2>1. /\ status[t] = "LEASED" /\ Workers!Active(t, c.fence)
        /\ status' = [status EXCEPT ![t] = "RUNNING"]
        /\ UNCHANGED <<attemptCount, attempt, job, committing, lease>>
    BY <1>4 DEF Workers!Start, Checked
  <2>2. job[JobOf[t]] \notin {"SUCCEEDED", "CANCELLED"} /\ job[JobOf[t]] \in JobStatus
    BY <1>1, <1>2, <2>1, OpenJob DEF PipelineInv, RowsInv, RowTypes
  <2>3. job' = [job EXCEPT ![JobOf[t]] = job[JobOf[t]]]
    BY <1>2, <2>1 DEF RowTypes
  <2>4. Moves(t, "RUNNING", job[JobOf[t]])
    BY <1>1, <2>1, <2>2, <2>3 DEF Moves, AtWork
  <2>5. RowsNext
    <3>1. "RUNNING" \in TaskStatus
      BY DEF TaskStatus
    <3> QED
      BY <1>1, <2>2, <2>4, <3>1 DEF RowsNext
  <2>6. status'[t] = "RUNNING" /\ \A u \in Task : u # t => status'[u] = status[u]
    BY <1>1, <1>2, <2>1 DEF RowTypes
  <2>7. RunnerUntouched
    BY <1>1, <2>1, <2>6 DEF RunnerUntouched, Unmoved, ControlTask
  <2>8. \A u \in Task, n \in AttemptNumber : Workers!Active(u, n)' <=> Workers!Active(u, n)
    BY <2>1 DEF Workers!Active
  <2>9. \A u \in Task : status'[u] \in AtHand <=> status[u] \in AtHand
    BY <2>1, <2>6 DEF AtHand
  <2>10. WorkersOwnWork'
    BY <2>8, <2>9, WorkersRest
  <2>11. CommitsKept
    <3>1. committing' \subseteq committing
      BY <2>1
    <3> QED
      BY <1>1, <2>8, <3>1, CommitsBeside
  <2> QED
    BY <2>5, <2>7, <2>10, <2>11 DEF HandlerStep
<1>5. CASE Workers!Renew(c)
  <2>1. lease' = [lease EXCEPT ![t][c.fence].expired = FALSE]
    BY <1>5 DEF Workers!Renew
  <2>2. UNCHANGED dbVars
    BY <1>5 DEF Workers!Renew, Workers!dbVars, dbVars
  <2>3. \A u \in Task, m \in AttemptNumber : Workers!Active(u, m)' <=> Workers!Active(u, m)
    BY <1>1, <1>2, <2>1, DeadlineKeeps
  <2> QED
    BY <1>3, <2>2, <2>3 DEF dbVars, Rests
<1>6. CASE Workers!Progress(c)
  BY <1>3, <1>6 DEF Workers!Progress, Rests, Workers!Active
<1>7. CASE Workers!Complete(c)
  <2>0. PICK new : new = Completion(c.task, c.fence, c.fence)
    OBVIOUS
  <2>1. /\ ApplyCompletion(new) /\ Workers!Release(c) /\ committing' = committing
        /\ status[t] = "RUNNING" /\ Workers!Active(t, c.fence)
    BY <1>1, <1>7, <2>0, SharedOperators DEF Workers!Complete, Checked
  <2>2. /\ new \in CompletionRecord /\ IsCompletion(new)
        /\ new.task = t /\ new.attempt = c.fence
    BY <1>1, <1>2, <2>0, LeasedCompletion
  <2>3. Completes(new)
    BY <1>1, <2>1, <2>2 DEF Completes, Completable, ApplyCompletion, RowFree
  <2>4. RowsNext
    BY <2>2, <2>3 DEF RowsNext
  <2>5. Succeeds(t, new.unlock, new.jobTo)
    BY <1>2, <2>2, <2>3, CompletionSucceeds DEF PipelineInv
  <2>6. /\ status'[t] = "SUCCEEDED"
        /\ \A u \in Task : u # t => /\ status'[u] \in AtHand <=> status[u] \in AtHand
                                    /\ Unmoved(u)
    <3>1. status'[t] = "SUCCEEDED"
      BY <2>5 DEF Succeeds
    <3> QED
      BY <1>1, <2>5, <3>1, SucceedsMoves
  <2>7. \A u \in Task : u # t => attempt'[u] = attempt[u] /\ attemptCount'[u] = attemptCount[u]
    BY <1>1, <1>2, <2>1, <2>2 DEF ApplyCompletion, DbTypeOK
  <2>8. RunnerUntouched
    BY <1>1, <2>6, <2>7 DEF RunnerUntouched, Unmoved, ControlTask
  <2>9. \A u \in Task, m \in AttemptNumber :
            Workers!Active(u, m)' <=> Workers!Active(u, m) /\ ~(u = t /\ m = c.fence)
    BY <1>1, <1>2, <2>1, ReleaseKeeps
  <2>10. WorkersOwnWork'
    <3>1. status'[t] \notin AtHand
      BY <2>6 DEF AtHand
    <3> QED
      BY <1>1, <2>1, <2>6, <2>9, <3>1, WorkersEnd
  <2>11. CommitsKept
    <3>1. committing' \subseteq committing
      BY <2>1
    <3>2. \A u \in Task, n \in AttemptNumber :
              u # t => (Workers!Active(u, n)' <=> Workers!Active(u, n))
      BY <2>9
    <3> QED
      BY <1>1, <3>1, <3>2, CommitsBeside
  <2> QED
    BY <2>4, <2>8, <2>10, <2>11 DEF HandlerStep
<1>8. CASE Workers!BeginCommit(c)
  <2>0. PICK new : new = Completion(c.task, c.fence, c.fence)
    OBVIOUS
  <2>1. /\ committing' = committing \cup {new} /\ SplitCommit
        /\ UNCHANGED <<status, attemptCount, attempt, job, lease>>
        /\ status[t] = "RUNNING" /\ Workers!Active(t, c.fence)
    BY <1>1, <1>8, <2>0, SharedOperators DEF Workers!BeginCommit, Checked
  <2>2. /\ new \in CompletionRecord /\ IsCompletion(new)
        /\ new.task = t /\ new.fence = c.fence
    BY <1>1, <1>2, <2>0, LeasedCompletion
  <2>3. RowsNext
    <3>1. Begins(new)
      BY <1>1, <2>1, <2>2 DEF Begins, Completable
    <3> QED
      BY <2>2, <3>1 DEF RowsNext
  <2>4. RunnerUntouched
    BY <2>1 DEF RunnerUntouched, Unmoved
  <2>5. \A u \in Task, n \in AttemptNumber : Workers!Active(u, n)' <=> Workers!Active(u, n)
    BY <2>1 DEF Workers!Active
  <2>6. WorkersOwnWork'
    BY <2>1, <2>5, WorkersRest
  <2>7. CommitsKept
    <3>1. ASSUME NEW d \in committing, d.fence # 0
          PROVE  Workers!Active(d.task, d.fence)'
      <4>1. d.task \in Task /\ d.fence \in AttemptNumber
        BY <1>2, <3>1 DEF RowTypes, CompletionRecord
      <4> QED
        BY <2>5, <3>1, <4>1 DEF PipelineInv, OwnersInv, CommitsAreOwned
    <3>2. new.fence # 0 /\ Workers!Active(new.task, new.fence)'
      <4>1. c.fence # 0 /\ Workers!Active(t, c.fence)'
        BY <1>1, <2>1, <2>5 DEF AttemptNumber
      <4>2. new.fence # 0
        BY <2>2, <4>1
      <4> QED
        BY <2>2, <4>1, <4>2 DEF Workers!Active
    <3>3. ASSUME NEW d \in committing'
          PROVE  /\ d \in committing \/ d.fence # 0
                 /\ d.fence # 0 => Workers!Active(d.task, d.fence)'
      <4>1. d \in committing \/ d = new
        BY <2>1
      <4> QED
        BY <3>1, <3>2, <4>1
    <3> QED
      BY <3>3 DEF CommitsKept
  <2> QED
    BY <2>3, <2>4, <2>6, <2>7 DEF HandlerStep
<1>9. CASE Workers!Fail(c)
  BY <1>1, <1>9, EndAttemptOwns DEF Workers!Fail, Checked
<1>10. CASE Workers!Reap(c)
  BY <1>1, <1>10, EndAttemptOwns DEF Workers!Reap
<1>11. CASE Workers!ReapNothing(c)
  <2>1. UNCHANGED dbVars /\ lease' = lease
    BY <1>11 DEF Workers!ReapNothing, Workers!dbVars, dbVars
  <2> QED
    BY <1>3, <2>1 DEF dbVars, Rests, Workers!Active
<1> QED
  BY <1>4, <1>5, <1>6, <1>7, <1>8, <1>9, <1>10, <1>11 DEF Workers!Write

(* What a step must keep for PipelineInv, once its types are known. *)
StepHolds == RowsNext /\ OwnersInv' /\ HeldStep

(* A claim leases a READY task that had no lease. *)
LEMMA ClaimOwns ==
    ASSUME PipelineInv, Up, UNCHANGED runnerVars, NEW s \in Session, NEW t \in Task,
           Workers!Claim(s, t)
    PROVE  StepHolds
<1>0. PICK k : k = attemptCount[t] + 1
  OBVIOUS
<1>1. /\ k \in AttemptNumber
      /\ lease'[t][k].state = "ACTIVE"
      /\ \A u \in Task, n \in AttemptNumber : u # t \/ n # k => lease'[u][n] = lease[u][n]
  BY <1>0, ClaimGrants DEF PipelineInv
<1>2. /\ attempt' = [attempt EXCEPT ![t][k] = "STARTED"]
      /\ status' = [status EXCEPT ![t] = "LEASED"]
      /\ attemptCount' = [attemptCount EXCEPT ![t] = k]
      /\ job' = [job EXCEPT ![JobOf[t]] = "RUNNING"]
      /\ UNCHANGED <<committing, calls>>
      /\ Class[t] = "GPU" /\ status[t] = "READY" /\ RowFree(t)
  BY <1>0, SharedOperators DEF Workers!Claim
<1>3. DbTypeOK /\ t \notin ControlTask
  BY <1>2, Tables DEF PipelineInv, TypeInv, ControlTask
<1>4. RowsNext
  <2>1. Moves(t, "LEASED", "RUNNING")
    BY <1>2 DEF Moves, AtWork, JobStatus
  <2>2. "LEASED" \in TaskStatus /\ "RUNNING" \in JobStatus
    BY DEF TaskStatus, JobStatus
  <2> QED
    BY <2>1, <2>2 DEF RowsNext
<1>5. /\ status'[t] = "LEASED" /\ \A u \in Task : u # t => status'[u] = status[u]
      /\ \A u \in Task : u # t => attempt'[u] = attempt[u] /\ attemptCount'[u] = attemptCount[u]
  BY <1>2, <1>3 DEF DbTypeOK
<1>6. RunnerUntouched
  BY <1>3, <1>5 DEF RunnerUntouched, Unmoved, ControlTask
<1>7. Workers!Active(t, k)' /\ \A u \in Task, n \in AttemptNumber :
          u # t => (Workers!Active(u, n)' <=> Workers!Active(u, n))
  BY <1>1 DEF Workers!Active
<1>8. WorkersOwnWork'
  <2>1. \A u \in Task \ ControlTask : u # t =>
            (status'[u] \in AtHand <=> \E n \in AttemptNumber : Workers!Active(u, n)')
    BY <1>5, <1>7 DEF PipelineInv, OwnersInv, WorkIsOwned, WorkersOwnWork, AtHand
  <2> QED
    BY <1>1, <1>5, <1>7, <2>1 DEF WorkersOwnWork, AtHand
<1>9. CommitsKept
  BY <1>2, <1>7, CommitsBeside
<1>10. \A c \in calls' : c.op \in Overlap
  BY <1>2 DEF PipelineInv, OwnersInv, CallsRecheck
<1>11. OwnersInv' /\ HeldStep
  BY <1>6, <1>8, <1>9, <1>10, OwnersKeep DEF PipelineInv
<1> QED
  BY <1>4, <1>11 DEF StepHolds

(* A step that touches neither the rows nor what is leased. *)
LEMMA RestOwns ==
    ASSUME PipelineInv, UNCHANGED dbVars, UNCHANGED runnerVars,
           \A t \in Task, n \in AttemptNumber :
               Workers!Active(t, n)' <=> Workers!Active(t, n),
           \A c \in calls' : c.op \in Overlap
    PROVE  StepHolds
<1>1. /\ UNCHANGED <<status, attemptCount, attempt, job, committing>>
      /\ RowsNext
  BY DEF dbVars, RowsNext, Rests
<1>2. RunnerUntouched
  BY <1>1 DEF RunnerUntouched, Unmoved
<1>3. WorkersOwnWork'
  BY <1>1, WorkersRest
<1>4. CommitsKept
  <2>1. ASSUME NEW c \in committing', c.fence # 0
        PROVE  Workers!Active(c.task, c.fence)'
    <3>1. c \in committing /\ c \in CompletionRecord
      BY <1>1, Tables DEF PipelineInv, TypeInv, DbTypeOK
    <3>2. c.task \in Task /\ c.fence \in AttemptNumber
      BY <2>1, <3>1 DEF CompletionRecord
    <3> QED
      BY <2>1, <3>1, <3>2 DEF PipelineInv, OwnersInv, CommitsAreOwned
  <2> QED
    BY <1>1, <2>1 DEF CommitsKept
<1>5. OwnersInv' /\ HeldStep
  BY <1>1, <1>2, <1>3, <1>4, OwnersKeep DEF PipelineInv
<1> QED
  BY <1>1, <1>5 DEF StepHolds

(* A request finds in its rows what it checks, when it writes at once. *)
LEMMA RequestOwns ==
    ASSUME PipelineInv, Up, UNCHANGED runnerVars, NEW t \in Task, NEW n \in AttemptNumber,
           Workers!Request(t, n)
    PROVE  StepHolds
<1>1. PICK c \in Workers!CallOn(t, n) : Workers!Serve(c) \/ Workers!Open(c)
  BY DEF Workers!Request
<1>2. c \in Workers!Call /\ lease[c.task][c.fence].state # "NONE"
  BY Tables DEF Workers!Request, Workers!CallOn, Workers!Call
<1>3. Granted(c)
  BY <1>2, CallsAreGranted DEF PipelineInv
<1>4. CASE Workers!Serve(c)
  <2>1. /\ Workers!Check(c) /\ RowFree(c.task) /\ Workers!Write(c) /\ calls' = calls
    BY <1>4, SharedOperators DEF Workers!Serve
  <2>2. Checked(c)
    BY <2>1 DEF Checked, Workers!Check, Workers!StartCheck, Workers!RenewCheck,
                Workers!ProgressCheck, Workers!CompleteCheck, Workers!FailCheck,
                Workers!ReapCheck, Workers!WithLease
  <2>3. HandlerStep
    BY <1>3, <2>1, <2>2, WriteOwns
  <2>4. \A d \in calls' : d.op \in Overlap
    BY <2>1 DEF PipelineInv, OwnersInv, CallsRecheck
  <2>5. OwnersInv' /\ HeldStep
    BY <2>3, <2>4, OwnersKeep DEF HandlerStep, PipelineInv
  <2> QED
    BY <2>3, <2>5 DEF StepHolds, HandlerStep
<1>5. CASE Workers!Open(c)
  <2>1. UNCHANGED dbVars /\ lease' = lease /\ calls' = calls \cup {c} /\ c.op \in Overlap
    BY <1>5 DEF Workers!Open, Workers!dbVars, dbVars
  <2>2. \A d \in calls' : d.op \in Overlap
    BY <2>1 DEF PipelineInv, OwnersInv, CallsRecheck
  <2>3. \A u \in Task, m \in AttemptNumber : Workers!Active(u, m)' <=> Workers!Active(u, m)
    BY <2>1 DEF Workers!Active
  <2> QED
    BY <2>1, <2>2, <2>3, RestOwns
<1> QED
  BY <1>1, <1>4, <1>5

(* A handler that writes later is none of those that decide on a status, but *)
(* for the reaper, which re-checks the lease.                                *)
LEMMA FinishOwns ==
    ASSUME PipelineInv, Atomic, Up, UNCHANGED runnerVars, NEW c \in calls, Workers!Finish(c)
    PROVE  StepHolds
<1>1. Granted(c)
  BY CallsAreGranted, Tables DEF PipelineInv, TypeInv, HandlersWereGranted
<1>2. /\ RowFree(c.task) /\ Workers!Write(c) /\ calls' \subseteq calls
      /\ c.op \notin {"start", "complete", "fail"}
  BY SharedOperators DEF Workers!Finish, PipelineInv, OwnersInv, CallsRecheck, Atomic
<1>3. HandlerStep
  BY <1>1, <1>2, WriteOwns DEF Checked
<1>4. \A d \in calls' : d.op \in Overlap
  BY <1>2 DEF PipelineInv, OwnersInv, CallsRecheck
<1>5. OwnersInv' /\ HeldStep
  BY <1>3, <1>4, OwnersKeep DEF HandlerStep, PipelineInv
<1> QED
  BY <1>3, <1>5 DEF StepHolds, HandlerStep

(* The commit of a worker's completion: it held its row and its lease. *)
LEMMA CommitOwns ==
    ASSUME PipelineInv, Up, UNCHANGED runnerVars, NEW c \in committing, Workers!Commit(c)
    PROVE  StepHolds
<1> DEFINE t == c.task
<1>1. DbTypeOK /\ LeaseTypes /\ TypeOK /\ RowTypes
  BY Tables, RowsAreTyped DEF PipelineInv, TypeInv, LeaseTypes
<1>2. /\ c \in CompletionRecord /\ c.fence # 0 /\ ApplyCompletion(c) /\ Workers!Release(c)
      /\ committing' = committing \ {c} /\ calls' = calls
  BY <1>1, SharedOperators DEF DbTypeOK, Workers!Commit
<1>3. /\ t \in Task /\ c.fence \in AttemptNumber /\ c.attempt \in AttemptNumber
  BY <1>2 DEF CompletionRecord
<1>4. Workers!Active(t, c.fence)
  BY <1>2 DEF PipelineInv, OwnersInv, CommitsAreOwned
<1>5. /\ t \notin ControlTask /\ lease[t][c.fence].state # "NONE"
  BY <1>3, <1>4, ActiveIsWorking DEF Workers!Active
<1>6. /\ \A d \in committing' : d \in committing /\ d.task # t
      /\ status[t] = "RUNNING"
  <2>1. /\ \A d \in committing' : d \in committing /\ d.task # t
        /\ status[t] \in {"RUNNING", "CANCELLED"}
    BY <1>2 DEF PipelineInv, RowsInv, CommitsHold, WritesHold
  <2>2. status[t] \in AtHand
    BY <1>3, <1>4, ActiveIsWorking
  <2> QED
    BY <2>1, <2>2 DEF AtHand
<1>7. Completes(c)
  BY <1>2, <1>6 DEF Completes, Completable, ApplyCompletion
<1>8. RowsNext
  BY <1>2, <1>7 DEF RowsNext
<1>9. Succeeds(t, c.unlock, c.jobTo)
  BY <1>1, <1>7, CompletionSucceeds DEF PipelineInv
<1>10. /\ status'[t] = "SUCCEEDED"
       /\ \A u \in Task : u # t => /\ status'[u] \in AtHand <=> status[u] \in AtHand
                                   /\ Unmoved(u)
  <2>1. status'[t] = "SUCCEEDED"
    BY <1>9 DEF Succeeds
  <2> QED
    BY <1>3, <1>9, <2>1, SucceedsMoves
<1>11. \A u \in Task : u # t => attempt'[u] = attempt[u] /\ attemptCount'[u] = attemptCount[u]
  BY <1>1, <1>2, <1>3 DEF ApplyCompletion, DbTypeOK
<1>12. RunnerUntouched
  BY <1>5, <1>10, <1>11 DEF RunnerUntouched, Unmoved, ControlTask
<1>13. \A u \in Task, m \in AttemptNumber :
           Workers!Active(u, m)' <=> Workers!Active(u, m) /\ ~(u = t /\ m = c.fence)
  BY <1>1, <1>2, <1>3, <1>5, ReleaseKeeps
<1>14. WorkersOwnWork'
  <2>1. status'[t] \notin AtHand
    BY <1>10 DEF AtHand
  <2> QED
    BY <1>3, <1>4, <1>10, <1>13, <2>1, WorkersEnd
<1>15. CommitsKept
  <2>1. ASSUME NEW d \in committing', d.fence # 0
        PROVE  Workers!Active(d.task, d.fence)'
    <3>1. d \in committing /\ d.task # t /\ d \in CompletionRecord
      BY <1>6, <1>1 DEF RowTypes
    <3>2. d.task \in Task /\ d.fence \in AttemptNumber
      BY <2>1, <3>1 DEF CompletionRecord
    <3>3. Workers!Active(d.task, d.fence)
      BY <2>1, <3>1 DEF PipelineInv, OwnersInv, CommitsAreOwned
    <3> QED
      BY <1>13, <3>1, <3>2, <3>3
  <2> QED
    BY <1>6, <2>1 DEF CommitsKept
<1>16. \A d \in calls' : d.op \in Overlap
  BY <1>2 DEF PipelineInv, OwnersInv, CallsRecheck
<1>17. OwnersInv' /\ HeldStep
  BY <1>12, <1>14, <1>15, <1>16, OwnersKeep DEF PipelineInv
<1> QED
  BY <1>8, <1>17 DEF StepHolds

(* Leases expire and sessions end without a change of the rows. *)
LEMMA ClockOwns ==
    ASSUME PipelineInv, UNCHANGED runnerVars,
           \/ \E s \in Session : Workers!EndSession(s)
           \/ \E t \in Task, n \in AttemptNumber : Workers!Expire(t, n)
    PROVE  StepHolds
<1>1. \A c \in calls : c.op \in Overlap
  BY DEF PipelineInv, OwnersInv, CallsRecheck
<1>2. ASSUME NEW s \in Session, Workers!EndSession(s)
      PROVE  StepHolds
  <2>1. UNCHANGED dbVars /\ UNCHANGED <<lease, calls>>
    BY <1>2 DEF Workers!EndSession, Workers!dbVars, dbVars
  <2>2. \A u \in Task, m \in AttemptNumber : Workers!Active(u, m)' <=> Workers!Active(u, m)
    BY <2>1 DEF Workers!Active
  <2> QED
    BY <1>1, <2>1, <2>2, RestOwns
<1>3. ASSUME NEW t \in Task, NEW n \in AttemptNumber, Workers!Expire(t, n)
      PROVE  StepHolds
  <2>1. /\ UNCHANGED dbVars /\ calls' = calls
        /\ lease' = [lease EXCEPT ![t][n].expired = TRUE]
    BY <1>3 DEF Workers!Expire, Workers!dbVars, dbVars
  <2>2. LeaseTypes
    BY Tables DEF PipelineInv, TypeInv, LeaseTypes
  <2>3. \A u \in Task, m \in AttemptNumber : Workers!Active(u, m)' <=> Workers!Active(u, m)
    BY <2>1, <2>2, DeadlineKeeps
  <2> QED
    BY <1>1, <2>1, <2>3, RestOwns
<1> QED
  BY <1>2, <1>3

(* A cancel takes the tasks from their executors with their leases. *)
LEMMA CancelOwns ==
    ASSUME PipelineInv, Up, UNCHANGED runnerVars, NEW j \in Job, Workers!Cancel(j)
    PROVE  StepHolds
<1>1. DbTypeOK /\ runner' = runner
  BY Tables DEF PipelineInv, TypeInv, runnerVars
<1>2. /\ CancelRows(j) /\ calls' = calls
  BY QueueOperators DEF Workers!Cancel
<1>3. /\ \A t \in Task : status'[t] = IF t \in Cancellable(j) THEN "CANCELLED" ELSE status[t]
      /\ \A t \in Task, k \in AttemptNumber :
             attempt'[t][k] = IF JobOf[t] = j /\ attempt[t][k] = "STARTED"
                              THEN "CANCELLED" ELSE attempt[t][k]
      /\ \A t \in Cancellable(j) : RowFree(t)
      /\ attemptCount' = attemptCount /\ committing' = committing
  BY <1>2 DEF CancelRows
<1>4. \A t \in Task : t \in Cancellable(j) <=>
          JobOf[t] = j /\ status[t] \notin {"SUCCEEDED", "CANCELLED"}
  BY DEF Cancellable, TasksOf
<1>5. RowsNext
  <2>1. Withdraws(j)
    BY <1>2 DEF CancelRows, Withdraws
  <2> QED
    BY <2>1 DEF RowsNext
<1>6. \A t \in Task, n \in AttemptNumber :
          Workers!Active(t, n)' <=> Workers!Active(t, n) /\ JobOf[t] # j
  BY CancelKeeps DEF PipelineInv
<1>7. \A t \in Task : status'[t] \in AtHand <=> status[t] \in AtHand /\ JobOf[t] # j
  BY <1>3, <1>4 DEF AtHand
<1>8. WorkersOwnWork'
  BY <1>6, <1>7 DEF PipelineInv, OwnersInv, WorkIsOwned, WorkersOwnWork, AtHand
<1>9. RunnerOwnsWork'
  <2> SUFFICES ASSUME NEW t \in ControlTask
               PROVE  /\ status'[t] = "RUNNING" <=>
                             \E k \in AttemptNumber : attempt'[t][k] = "STARTED"
                      /\ \A k \in AttemptNumber :
                             attempt'[t][k] = "STARTED" => k = attemptCount'[t]
                      /\ WorksOn(t)' =>
                             /\ runner'.attempt = attemptCount'[t]
                             /\ attempt'[t][runner'.attempt] \in {"STARTED", "CANCELLED"}
    BY DEF RunnerOwnsWork
  <2>1. t \in Task
    BY DEF ControlTask
  <2>2. /\ status[t] = "RUNNING" <=> \E k \in AttemptNumber : attempt[t][k] = "STARTED"
        /\ \A k \in AttemptNumber : attempt[t][k] = "STARTED" => k = attemptCount[t]
        /\ WorksOn(t) => /\ runner.attempt = attemptCount[t]
                         /\ attempt[t][runner.attempt] \in {"STARTED", "CANCELLED"}
    BY DEF PipelineInv, OwnersInv, WorkIsOwned, RunnerOwnsWork
  <2>3. status'[t] = "RUNNING" <=> \E k \in AttemptNumber : attempt'[t][k] = "STARTED"
    BY <1>3, <1>4, <2>1, <2>2
  <2>4. \A k \in AttemptNumber : attempt'[t][k] = "STARTED" => k = attemptCount'[t]
    BY <1>3, <2>1, <2>2
  <2>5. ASSUME WorksOn(t)'
        PROVE  /\ runner'.attempt = attemptCount'[t]
               /\ attempt'[t][runner'.attempt] \in {"STARTED", "CANCELLED"}
    <3>1. WorksOn(t)
      BY <1>1, <2>5 DEF WorksOn
    <3>2. runner.attempt \in AttemptNumber
      BY <3>1, Tables, RunnerPhases DEF WorksOn, PipelineInv, TypeInv
    <3> QED
      BY <1>1, <1>3, <2>1, <2>2, <3>1, <3>2
  <2> QED
    BY <2>3, <2>4, <2>5
<1>10. CommitsAreOwned'
  <2> SUFFICES ASSUME NEW c \in committing
               PROVE  IF c.fence = 0
                      THEN c.task \in ControlTask
                           /\ runner' = On("committing", c.task, c.attempt)
                      ELSE Workers!Active(c.task, c.fence)'
    BY <1>3 DEF CommitsAreOwned
  <2>1. IF c.fence = 0
        THEN c.task \in ControlTask /\ runner = On("committing", c.task, c.attempt)
        ELSE Workers!Active(c.task, c.fence)
    BY DEF PipelineInv, OwnersInv, CommitsAreOwned
  <2>2. /\ c.task \in Task /\ (c.fence # 0 => c.fence \in AttemptNumber)
    BY <1>1 DEF DbTypeOK, CompletionRecord
  <2>3. ASSUME c.fence # 0
        PROVE  Workers!Active(c.task, c.fence) /\ JobOf[c.task] # j
    <3>1. Workers!Active(c.task, c.fence)
      BY <2>1, <2>3
    <3>2. status[c.task] \in AtHand
      BY <2>2, <2>3, <3>1, ActiveIsWorking
    <3> QED
      BY <1>3, <1>4, <2>2, <3>1, <3>2 DEF RowFree, AtHand
  <2> QED
    BY <1>1, <1>6, <2>1, <2>2, <2>3
<1>11. FoundAreRunning' /\ CallsRecheck'
  BY <1>1, <1>2 DEF FoundAreRunning, InPhase, Up, PipelineInv, OwnersInv, CallsRecheck
<1>12. HeldStep
  <2> SUFFICES ASSUME NEW t \in ControlTask, WorksOn(t)
               PROVE  status'[t] \in {"RUNNING", "CANCELLED"}
    BY <1>1 DEF HeldStep, WorksOn
  <2>1. t \in Task /\ status[t] \in {"RUNNING", "CANCELLED"}
    BY DEF PipelineInv, HeldInv, ControlTask
  <2> QED
    BY <1>3, <2>1
<1> QED
  BY <1>5, <1>8, <1>9, <1>10, <1>11, <1>12 DEF StepHolds, OwnersInv, WorkIsOwned

(* A step on a task that nobody works on. *)
LEMMA IdleOwns ==
    ASSUME PipelineInv, Up, UNCHANGED <<runnerVars, lease, calls, committing>>, RowsNext,
           UNCHANGED <<attempt, attemptCount>>,
           \A t \in Task : /\ status'[t] \in AtHand <=> status[t] \in AtHand
                           /\ Unmoved(t)
    PROVE  StepHolds
<1>1. \A t \in Task, n \in AttemptNumber : Workers!Active(t, n)' <=> Workers!Active(t, n)
  BY DEF Workers!Active
<1>2. WorkersOwnWork'
  BY <1>1, WorkersRest
<1>3. RunnerUntouched
  BY DEF RunnerUntouched, ControlTask
<1>4. CommitsKept
  <2>1. ASSUME NEW c \in committing', c.fence # 0
        PROVE  Workers!Active(c.task, c.fence)'
    <3>1. Workers!Active(c.task, c.fence)
      BY <2>1 DEF PipelineInv, OwnersInv, CommitsAreOwned
    <3> QED
      BY <3>1 DEF Workers!Active
  <2> QED
    BY <2>1 DEF CommitsKept
<1>5. \A c \in calls' : c.op \in Overlap
  BY DEF PipelineInv, OwnersInv, CallsRecheck
<1>6. UNCHANGED runnerVars
  BY DEF runnerVars
<1>7. OwnersInv' /\ HeldStep
  BY <1>2, <1>3, <1>4, <1>5, <1>6, OwnersKeep DEF PipelineInv
<1> QED
  BY <1>7 DEF StepHolds

(* A retry makes READY a task that has no executor. *)
LEMMA RetryOwns ==
    ASSUME PipelineInv, Up, UNCHANGED runnerVars, NEW t \in Task, Workers!Retry(t)
    PROVE  StepHolds
<1>1. DbTypeOK
  BY Tables DEF PipelineInv, TypeInv
<1>2. RetryRows(t) /\ UNCHANGED <<lease, current, calls>>
  BY QueueOperators DEF Workers!Retry, Workers!leaseVars
<1>3. /\ status[t] = "FAILED" /\ RowFree(t)
      /\ status' = [status EXCEPT ![t] = "READY"]
      /\ job' = [job EXCEPT ![JobOf[t]] = "QUEUED"]
      /\ UNCHANGED <<attempt, attemptCount, committing>>
  BY <1>2 DEF RetryRows
<1>4. RowsNext
  <2>1. Moves(t, "READY", "QUEUED")
    BY <1>3 DEF Moves, AtWork, JobStatus
  <2>2. "READY" \in TaskStatus /\ "QUEUED" \in JobStatus
    BY DEF TaskStatus, JobStatus
  <2> QED
    BY <2>1, <2>2 DEF RowsNext
<1>5. \A u \in Task : /\ status'[u] \in AtHand <=> status[u] \in AtHand
                      /\ Unmoved(u)
  BY <1>1, <1>3 DEF DbTypeOK, AtHand, Unmoved
<1> QED
  BY <1>2, <1>3, <1>4, <1>5, IdleOwns

(* A decision of the reviewer concerns only tasks that nobody works on. *)
LEMMA ReviewOwns ==
    ASSUME PipelineInv, Review
    PROVE  StepHolds
<1>1. TypeOK /\ RowTypes
  BY RowsAreTyped DEF PipelineInv, TypeInv
<1>2. Up /\ UNCHANGED <<runnerVars, lease, calls>>
  BY DEF Review
<1>3. ASSUME NEW t \in Task, Approve(t)
      PROVE  StepHolds
  <2>1. Approves(t) /\ UNCHANGED <<attempt, attemptCount, committing>>
    BY <1>3 DEF Approve, Approves
  <2>2. PICK us, js : Succeeds(t, us, js)
    BY <1>1, <2>1, ApprovalSucceeds
  <2>3. status[t] = "WAITING" /\ status'[t] = "SUCCEEDED"
    BY <2>1, <2>2 DEF Approves, Succeeds
  <2>4. \A u \in Task : /\ status'[u] \in AtHand <=> status[u] \in AtHand
                        /\ Unmoved(u)
    BY <2>2, <2>3, SucceedsMoves DEF AtHand, Unmoved
  <2>5. RowsNext
    BY <2>1 DEF RowsNext
  <2> QED
    BY <1>2, <2>1, <2>4, <2>5, IdleOwns
<1>4. ASSUME NEW j \in Job, OtherDecision(j)
      PROVE  StepHolds
  <2>1. UNCHANGED <<status, job, attempt, attemptCount, committing>> /\ RowsNext
    BY <1>4 DEF OtherDecision, RowsNext, Rests
  <2> QED
    BY <1>2, <2>1, IdleOwns DEF Unmoved
<1> QED
  BY <1>3, <1>4 DEF Review

-----------------------------------------------------------------------------
(* What the runner's own steps do. *)

(* A step that is the runner's: no lease changes, and no work of a worker. *)
RunnerStep ==
    /\ UNCHANGED lease /\ calls' \subseteq calls
    /\ \A t \in Task \ ControlTask : status'[t] \in AtHand <=> status[t] \in AtHand
    /\ \A c \in committing' :
           \/ c \in committing /\ c.fence # 0
           \/ /\ c.fence = 0
              /\ c.task \in ControlTask /\ runner' = On("committing", c.task, c.attempt)

(* A step of the runner keeps the leases and what workers work on. *)
LEMMA RunnerKeeps ==
    ASSUME PipelineInv, RunnerStep, RowsNext, RunnerOwnsWork', FoundAreRunning', HeldStep
    PROVE  StepHolds
<1>1. \A t \in Task, n \in AttemptNumber : Workers!Active(t, n)' <=> Workers!Active(t, n)
  BY DEF RunnerStep, Workers!Active
<1>2. WorkersOwnWork'
  BY <1>1, WorkersRest DEF RunnerStep
<1>3. CommitsAreOwned'
  <2>1. ASSUME NEW c \in committing, c.fence # 0
        PROVE  Workers!Active(c.task, c.fence)'
    <3>1. Workers!Active(c.task, c.fence)
      BY <2>1 DEF PipelineInv, OwnersInv, CommitsAreOwned
    <3> QED
      BY <3>1 DEF RunnerStep, Workers!Active
  <2> QED
    BY <2>1 DEF CommitsAreOwned, RunnerStep
<1>4. CallsRecheck'
  BY DEF RunnerStep, CallsRecheck, PipelineInv, OwnersInv
<1> QED
  BY <1>2, <1>3, <1>4 DEF StepHolds, OwnersInv, WorkIsOwned

(* The runner has no open completion but the one it is committing. *)
LEMMA NoRunnerCommit ==
    ASSUME PipelineInv, ~InPhase("committing")
    PROVE  \A c \in committing : c.fence # 0
BY DEF PipelineInv, OwnersInv, CommitsAreOwned, InPhase, On

(* What the runner records is the latest attempt of its task, which is RUNNING *)
(* or was cancelled with its job.                                              *)
LEMMA RunnerMay ==
    ASSUME PipelineInv, runner.phase \in {"succeeding", "failing", "committing"}
    PROVE  /\ runner.task \in ControlTask
           /\ runner.attempt = attemptCount[runner.task]
           /\ Completable(runner.task)
<1>1. runner.task \in ControlTask
  BY Tables, RunnerPhases DEF PipelineInv, TypeInv
<1>2. WorksOn(runner.task)
  BY DEF WorksOn
<1>3. runner.attempt = attemptCount[runner.task]
  BY <1>1, <1>2 DEF PipelineInv, OwnersInv, WorkIsOwned, RunnerOwnsWork
<1>4. Completable(runner.task)
  BY <1>1, <1>2 DEF PipelineInv, HeldInv, Completable, Resumes, Overwritten
<1> QED
  BY <1>1, <1>3, <1>4

(* No attempt of the control plane but the latest is STARTED. *)
LEMMA OthersEnded ==
    ASSUME PipelineInv, NEW t \in ControlTask, NEW k \in AttemptNumber, k # attemptCount[t]
    PROVE  attempt[t][k] # "STARTED"
BY DEF PipelineInv, OwnersInv, WorkIsOwned, RunnerOwnsWork

(* The runner's task ends, or is given back, and the runner turns to no other. *)
LEMMA RunnerEnds ==
    ASSUME PipelineInv, NEW t \in ControlTask,
           status'[t] # "RUNNING",
           \A k \in AttemptNumber : attempt'[t][k] # "STARTED",
           attemptCount' = attemptCount,
           \A u \in ControlTask : u # t =>
               /\ attempt'[u] = attempt[u]
               /\ Unmoved(u),
           \A u \in ControlTask : ~WorksOn(u)'
    PROVE  RunnerOwnsWork'
BY DEF PipelineInv, OwnersInv, WorkIsOwned, RunnerOwnsWork, Unmoved

(* The rows of attempts stay, and the runner stays on its task or leaves it. *)
LEMMA RunnerStays ==
    ASSUME PipelineInv, UNCHANGED <<status, attempt, attemptCount>>,
           \A u \in ControlTask : WorksOn(u)' => WorksOn(u) /\ runner'.attempt = runner.attempt
    PROVE  RunnerOwnsWork'
BY DEF PipelineInv, OwnersInv, WorkIsOwned, RunnerOwnsWork

(* The claim of a task that nobody works on. *)
LEMMA RunnerClaimOwns ==
    ASSUME PipelineInv, NEW t \in ControlTask, RunnerClaim(t), UNCHANGED <<lease, current, calls>>
    PROVE  StepHolds
<1>0. PICK k : k = attemptCount[t] + 1
  OBVIOUS
<1>1. DbTypeOK /\ t \in Task
  BY Tables DEF PipelineInv, TypeInv, ControlTask
<1>2. k \in AttemptNumber
  <2>1. /\ attemptCount[t] \in 0..AttemptBound /\ maxAttempts[t] \in 1..AttemptBound
        /\ attemptCount[t] < maxAttempts[t]
    BY <1>1 DEF RunnerClaim, Runnable, HasBudget, DbTypeOK
  <2> QED
    BY <1>0, <2>1 DEF AttemptNumber
<1>3. /\ InPhase("idle") /\ status[t] = "READY" /\ RowFree(t)
      /\ attempt' = [attempt EXCEPT ![t][k] = "STARTED"]
      /\ status' = [status EXCEPT ![t] = "RUNNING"]
      /\ attemptCount' = [attemptCount EXCEPT ![t] = k]
      /\ job' = [job EXCEPT ![JobOf[t]] = "RUNNING"]
      /\ runner' = On("executing", t, k)
      /\ committing' = committing
  BY <1>0 DEF RunnerClaim, Runnable
<1>4. RowsNext
  <2>1. Moves(t, "RUNNING", "RUNNING")
    BY <1>3 DEF Moves, AtWork, JobStatus
  <2>2. "RUNNING" \in TaskStatus /\ "RUNNING" \in JobStatus
    BY DEF TaskStatus, JobStatus
  <2> QED
    BY <1>1, <2>1, <2>2 DEF RowsNext
<1>5. /\ status'[t] = "RUNNING" /\ attemptCount'[t] = k
      /\ attempt'[t][k] = "STARTED"
      /\ \A m \in AttemptNumber : m # k => attempt'[t][m] = attempt[t][m]
      /\ \A u \in Task : u # t => /\ status'[u] = status[u]
                                  /\ attempt'[u] = attempt[u]
                                  /\ attemptCount'[u] = attemptCount[u]
  BY <1>1, <1>2, <1>3 DEF DbTypeOK
<1>6. RunnerOwnsWork'
  <2> SUFFICES ASSUME NEW u \in ControlTask
               PROVE  /\ status'[u] = "RUNNING" <=>
                             \E m \in AttemptNumber : attempt'[u][m] = "STARTED"
                      /\ \A m \in AttemptNumber :
                             attempt'[u][m] = "STARTED" => m = attemptCount'[u]
                      /\ WorksOn(u)' =>
                             /\ runner'.attempt = attemptCount'[u]
                             /\ attempt'[u][runner'.attempt] \in {"STARTED", "CANCELLED"}
    BY DEF RunnerOwnsWork
  <2>1. /\ status[u] = "RUNNING" <=> \E m \in AttemptNumber : attempt[u][m] = "STARTED"
        /\ \A m \in AttemptNumber : attempt[u][m] = "STARTED" => m = attemptCount[u]
    BY DEF PipelineInv, OwnersInv, WorkIsOwned, RunnerOwnsWork
  <2>2. runner'.task = t /\ runner'.attempt = k
    BY <1>3 DEF On
  <2>3. CASE u = t
    <3>1. \A m \in AttemptNumber : attempt[t][m] # "STARTED"
      BY <1>3, <2>1, <2>3
    <3> QED
      BY <1>2, <1>5, <2>2, <2>3, <3>1
  <2>4. CASE u # t
    <3>1. ~WorksOn(u)' /\ u \in Task
      BY <2>2, <2>4 DEF WorksOn, ControlTask
    <3> QED
      BY <1>5, <2>1, <2>4, <3>1
  <2> QED
    BY <2>3, <2>4
<1>7. FoundAreRunning'
  BY <1>3 DEF FoundAreRunning, InPhase, On
<1>8. RunnerStep
  <2>1. \A c \in committing : c.fence # 0
    BY <1>3, NoRunnerCommit DEF InPhase
  <2>2. \A u \in Task \ ControlTask : status'[u] \in AtHand <=> status[u] \in AtHand
    BY <1>5
  <2> QED
    BY <1>3, <2>1, <2>2 DEF RunnerStep
<1>9. HeldStep
  BY <1>3, <1>5 DEF HeldStep, WorksOn, On
<1> QED
  BY <1>4, <1>6, <1>7, <1>8, <1>9, RunnerKeeps

(* A completion of the runner, at once or by its commit. *)
LEMMA RunnerCompletes ==
    ASSUME PipelineInv, UNCHANGED <<lease, calls>>, NEW c \in CompletionRecord,
           c \in committing \/ IsCompletion(c), ApplyCompletion(c),
           c.task \in ControlTask, c.attempt = attemptCount[c.task], Completable(c.task),
           runner' = Idle,
           \A d \in committing' : d \in committing /\ d.task # c.task /\ d.fence # 0
    PROVE  StepHolds
<1>1. DbTypeOK /\ RowTypes /\ TypeOK
  BY Tables, RowsAreTyped DEF PipelineInv, TypeInv
<1>2. Completes(c)
  BY DEF Completes, ApplyCompletion
<1>3. RowsNext
  BY <1>2 DEF RowsNext
<1>4. c.task \in Task /\ c.attempt \in AttemptNumber
  BY DEF CompletionRecord
<1>5. Succeeds(c.task, c.unlock, c.jobTo)
  BY <1>1, <1>2, CompletionSucceeds DEF PipelineInv
<1>6. /\ status'[c.task] = "SUCCEEDED"
      /\ \A u \in Task : u # c.task => /\ status'[u] \in AtHand <=> status[u] \in AtHand
                                       /\ Unmoved(u)
  <2>1. status'[c.task] = "SUCCEEDED"
    BY <1>5 DEF Succeeds
  <2> QED
    BY <1>4, <1>5, <2>1, SucceedsMoves
<1>7. /\ attempt'[c.task][c.attempt] = "SUCCEEDED"
      /\ \A k \in AttemptNumber : k # c.attempt => attempt'[c.task][k] = attempt[c.task][k]
      /\ \A u \in Task : u # c.task => attempt'[u] = attempt[u]
      /\ attemptCount' = attemptCount
  BY <1>1, <1>4 DEF ApplyCompletion, DbTypeOK
<1>8. \A k \in AttemptNumber : attempt'[c.task][k] # "STARTED"
  BY <1>7, OthersEnded
<1>9. \A u \in ControlTask : u \in Task /\ ~WorksOn(u)'
  BY DEF WorksOn, Idle, ControlTask
<1>10. RunnerOwnsWork'
  BY <1>6, <1>7, <1>8, <1>9, RunnerEnds
<1>11. FoundAreRunning'
  BY DEF FoundAreRunning, InPhase, Idle
<1>12. RunnerStep
  BY <1>6 DEF RunnerStep
<1>13. HeldStep
  BY <1>9 DEF HeldStep
<1> QED
  BY <1>3, <1>10, <1>11, <1>12, <1>13, RunnerKeeps

(* The runner's rows of failure and recovery: its task leaves RUNNING. *)
LEMMA RunnerGivesBack ==
    ASSUME PipelineInv, UNCHANGED <<lease, calls, committing>>, NEW t \in ControlTask,
           Completable(t), RowFree(t),
           NEW st \in {"READY", "FAILED"}, NEW js \in {"RUNNING", "FAILED"},
           status' = [status EXCEPT ![t] = st],
           job' = [job EXCEPT ![JobOf[t]] = js],
           attemptCount' = attemptCount,
           \A k \in AttemptNumber : attempt'[t][k] # "STARTED",
           \A u \in Task : u # t => attempt'[u] = attempt[u],
           \A u \in ControlTask : ~WorksOn(u)',
           ~InPhase("committing"), FoundAreRunning'
    PROVE  StepHolds
<1>1. DbTypeOK /\ t \in Task
  BY Tables DEF PipelineInv, TypeInv, ControlTask
<1>2. Moves(t, st, js)
  BY DEF Moves, AtWork, JobStatus, Completable
<1>3. RowsNext
  <2>1. st \in TaskStatus /\ js \in JobStatus
    BY DEF TaskStatus, JobStatus
  <2> QED
    BY <1>1, <1>2, <2>1 DEF RowsNext
<1>4. status'[t] = st /\ \A u \in Task : u # t => status'[u] = status[u]
  BY <1>1 DEF DbTypeOK
<1>5. RunnerOwnsWork'
  <2>1. \A u \in ControlTask : u \in Task
    BY DEF ControlTask
  <2> QED
    BY <1>4, <2>1, RunnerEnds DEF Unmoved
<1>6. RunnerStep
  <2>1. \A c \in committing : c.fence # 0
    BY NoRunnerCommit
  <2>2. \A u \in Task \ ControlTask : status'[u] \in AtHand <=> status[u] \in AtHand
    BY <1>4
  <2> QED
    BY <2>1, <2>2 DEF RunnerStep
<1> QED
  BY <1>3, <1>5, <1>6, RunnerKeeps DEF HeldStep

(* The runner changes its phase, and no row. *)
LEMMA RunnerRests ==
    ASSUME PipelineInv, UNCHANGED <<lease, calls>>, UNCHANGED dbVars,
           \A u \in ControlTask : WorksOn(u)' => WorksOn(u) /\ runner'.attempt = runner.attempt,
           runner' = runner \/ ~InPhase("committing"), FoundAreRunning'
    PROVE  StepHolds
<1>1. UNCHANGED <<status, attempt, attemptCount, job, committing>> /\ RowsNext
  BY DEF dbVars, RowsNext, Rests
<1>2. RunnerOwnsWork'
  BY <1>1, RunnerStays
<1>3. RunnerStep
  <2>1. CASE runner' = runner
    BY <1>1, <2>1 DEF RunnerStep, PipelineInv, OwnersInv, CommitsAreOwned
  <2>2. CASE ~InPhase("committing")
    BY <1>1, <2>2, NoRunnerCommit DEF RunnerStep
  <2> QED
    BY <2>1, <2>2
<1>4. HeldStep
  BY <1>1 DEF HeldStep, HeldInv, PipelineInv
<1> QED
  BY <1>1, <1>2, <1>3, <1>4, RunnerKeeps

(* A polling runner works on the attempt that it claimed, or on none. *)
LEMMA PollOwns ==
    ASSUME PipelineInv, Poll
    PROVE  StepHolds
<1>1. DbTypeOK /\ RunnerTypeOK /\ RowTypes
  BY Tables, RowsAreTyped DEF PipelineInv, TypeInv
<1>2. UNCHANGED <<lease, current, calls>>
  BY DEF Poll
<1>3. ASSUME runner' = Idle
      PROVE  FoundAreRunning' /\ \A u \in ControlTask : ~WorksOn(u)'
  BY <1>3 DEF FoundAreRunning, InPhase, Idle, WorksOn
<1>4. ASSUME NEW t \in ControlTask, RunnerClaim(t)
      PROVE  StepHolds
  BY <1>2, <1>4, RunnerClaimOwns
<1>5. ASSUME NEW phase \in {"succeeding", "failing"}, Execute(phase)
      PROVE  StepHolds
  <2>1. runner = On("executing", runner.task, runner.attempt)
    BY <1>1, <1>5, RunnerPhases DEF Execute, InPhase
  <2>2. /\ runner' = On(phase, runner.task, runner.attempt)
        /\ UNCHANGED dbVars /\ ~InPhase("committing")
    BY <1>5, <2>1 DEF Execute, On, InPhase
  <2>3. \A u \in ControlTask : WorksOn(u)' => WorksOn(u) /\ runner'.attempt = runner.attempt
    BY <1>5, <2>2 DEF WorksOn, On, Execute, InPhase
  <2>4. FoundAreRunning'
    BY <1>5, <2>2 DEF FoundAreRunning, InPhase, On
  <2> QED
    BY <1>2, <2>2, <2>3, <2>4, RunnerRests
<1>6. ASSUME Discard \/ LoseFailure
      PROVE  StepHolds
  <2>1. UNCHANGED dbVars /\ runner' = Idle /\ ~InPhase("committing")
    BY <1>6 DEF Discard, LoseFailure, InPhase
  <2> QED
    BY <1>2, <1>3, <2>1, RunnerRests
<1>7. ASSUME Succeed
      PROVE  StepHolds
  <2>1. runner.task \in ControlTask /\ runner.attempt \in AttemptNumber
        /\ runner.task \in Task
    BY <1>1, <1>7, RunnerPhases DEF Succeed, InPhase, ControlTask
  <2>2. PICK c : c = Completion(runner.task, runner.attempt, 0)
    OBVIOUS
  <2>3. /\ c \in CompletionRecord /\ IsCompletion(c)
        /\ c.task = runner.task /\ c.attempt = runner.attempt
    BY <1>1, <2>1, <2>2, CompletionTyped
  <2>4. /\ ApplyCompletion(c) /\ runner' = Idle /\ committing' = committing
        /\ RowFree(runner.task) /\ ~InPhase("committing")
        /\ runner.phase = "succeeding"
    BY <1>7, <2>2 DEF Succeed, InPhase
  <2>5. \A d \in committing' : d \in committing /\ d.task # c.task /\ d.fence # 0
    BY <2>3, <2>4, NoRunnerCommit DEF RowFree
  <2>6. Completable(c.task) /\ c.attempt = attemptCount[c.task]
    BY <2>3, <2>4, RunnerMay
  <2> QED
    BY <1>2, <2>1, <2>3, <2>4, <2>5, <2>6, RunnerCompletes
<1>8. ASSUME BeginSucceed
      PROVE  StepHolds
  <2>1. /\ runner.task \in ControlTask /\ runner.attempt \in AttemptNumber
        /\ runner.task \in Task
        /\ runner = On("succeeding", runner.task, runner.attempt)
    BY <1>1, <1>8, RunnerPhases DEF BeginSucceed, InPhase, ControlTask
  <2>2. PICK c : c = Completion(runner.task, runner.attempt, 0)
    OBVIOUS
  <2>3. /\ c \in CompletionRecord /\ IsCompletion(c) /\ c.fence = 0
        /\ c.task = runner.task /\ c.attempt = runner.attempt
    BY <1>1, <2>1, <2>2, CompletionTyped
  <2>4. /\ SplitCommit /\ RowFree(runner.task) /\ runner.phase = "succeeding"
        /\ committing' = committing \cup {c}
        /\ runner' = [runner EXCEPT !.phase = "committing"]
        /\ UNCHANGED <<status, attemptCount, attempt, job>>
        /\ ~InPhase("committing")
    BY <1>8, <2>2 DEF BeginSucceed, InPhase
  <2>5. runner' = On("committing", c.task, c.attempt)
    BY <2>1, <2>3, <2>4 DEF On
  <2>6. RowsNext
    <3>1. Begins(c)
      BY <2>3, <2>4, RunnerMay DEF Begins
    <3> QED
      BY <2>3, <3>1 DEF RowsNext
  <2>7. \A u \in ControlTask : WorksOn(u)' => WorksOn(u) /\ runner'.attempt = runner.attempt
    BY <1>8, <2>3, <2>5 DEF WorksOn, On, BeginSucceed, InPhase
  <2>8. RunnerOwnsWork'
    BY <2>4, <2>7, RunnerStays
  <2>9. FoundAreRunning'
    BY <2>5 DEF FoundAreRunning, InPhase, On
  <2>10. RunnerStep
    <3>1. \A d \in committing : d.fence # 0
      BY <2>4, NoRunnerCommit
    <3> QED
      BY <1>2, <2>1, <2>3, <2>4, <2>5, <3>1 DEF RunnerStep
  <2>11. HeldStep
    BY <2>4, <2>7 DEF HeldStep, HeldInv, PipelineInv
  <2> QED
    BY <2>6, <2>8, <2>9, <2>10, <2>11, RunnerKeeps
<1>9. ASSUME NEW c \in committing, CommitSucceed(c)
      PROVE  StepHolds
  <2>1. /\ c \in CompletionRecord /\ c.fence = 0 /\ ApplyCompletion(c) /\ runner' = Idle
        /\ committing' = committing \ {c}
    BY <1>1, <1>9 DEF CommitSucceed, DbTypeOK
  <2>2. c.task \in ControlTask /\ runner = On("committing", c.task, c.attempt)
    BY <2>1 DEF PipelineInv, OwnersInv, CommitsAreOwned
  <2>3. c.attempt = attemptCount[c.task] /\ Completable(c.task)
    BY <2>2, RunnerMay DEF On
  <2>4. \A d \in committing' : d \in committing /\ d.task # c.task /\ d.fence # 0
    <3>1. ASSUME NEW d \in committing, d # c
          PROVE  d.task # c.task /\ d.fence # 0
      <4>1. d.task # c.task
        BY <3>1 DEF PipelineInv, RowsInv, CommitsHold
      <4>2. d.fence = 0 => runner = On("committing", d.task, d.attempt)
        BY DEF PipelineInv, OwnersInv, CommitsAreOwned
      <4> QED
        BY <2>2, <4>1, <4>2 DEF On
    <3> QED
      BY <2>1, <3>1
  <2> QED
    BY <1>2, <2>1, <2>2, <2>3, <2>4, RunnerCompletes
<1>10. ASSUME RecordFailure
       PROVE  StepHolds
  <2>1. PICK t : t = runner.task
    OBVIOUS
  <2>2. t \in ControlTask /\ t \in Task /\ runner.attempt \in AttemptNumber
    BY <1>1, <1>10, <2>1, RunnerPhases DEF RecordFailure, InPhase, ControlTask
  <2>3. PICK st, js : /\ st = IF HasBudget(t) THEN "READY" ELSE "FAILED"
                      /\ js = IF HasBudget(t) THEN "RUNNING" ELSE "FAILED"
    OBVIOUS
  <2>4. /\ RowFree(t) /\ runner.phase = "failing"
        /\ attempt' = [attempt EXCEPT ![t][runner.attempt] = "FAILED"]
        /\ status' = [status EXCEPT ![t] = st]
        /\ job' = [job EXCEPT ![JobOf[t]] = js]
        /\ runner' = Idle /\ UNCHANGED <<attemptCount, committing>> /\ ~InPhase("committing")
    BY <1>10, <2>1, <2>3 DEF RecordFailure, InPhase
  <2>5. /\ \A k \in AttemptNumber : attempt'[t][k] # "STARTED"
        /\ \A u \in Task : u # t => attempt'[u] = attempt[u]
    <3>1. /\ attempt'[t][runner.attempt] = "FAILED"
          /\ \A k \in AttemptNumber : k # runner.attempt => attempt'[t][k] = attempt[t][k]
          /\ \A u \in Task : u # t => attempt'[u] = attempt[u]
      BY <1>1, <2>2, <2>4 DEF DbTypeOK
    <3> QED
      BY <2>1, <2>2, <2>4, <3>1, OthersEnded, RunnerMay
  <2>6. st \in {"READY", "FAILED"} /\ js \in {"RUNNING", "FAILED"}
    BY <2>3
  <2>7. Completable(t)
    BY <2>1, <2>4, RunnerMay
  <2> QED
    BY <1>2, <1>3, <2>2, <2>4, <2>5, <2>6, <2>7, RunnerGivesBack
<1> QED
  BY <1>4, <1>5, <1>6, <1>7, <1>8, <1>9, <1>10 DEF Poll

(* What recovery times out is still RUNNING, and no completion holds it. *)
LEMMA BootOwns ==
    ASSUME PipelineInv, Boot
    PROVE  StepHolds
<1>1. DbTypeOK /\ RunnerTypeOK /\ RowTypes
  BY Tables, RowsAreTyped DEF PipelineInv, TypeInv
<1>2. UNCHANGED <<lease, current, calls>>
  BY DEF Boot
<1>3. ASSUME Restart
      PROVE  StepHolds
  <2>1. /\ runner' = [phase |-> "recovering", todo |-> Interrupted]
        /\ UNCHANGED dbVars /\ ~InPhase("committing")
    BY <1>3 DEF Restart, InPhase
  <2>2. \A t \in Interrupted : status'[t] = "RUNNING"
    BY <2>1 DEF Interrupted, dbVars
  <2>3. FoundAreRunning' /\ \A u \in ControlTask : ~WorksOn(u)'
    BY <2>1, <2>2 DEF FoundAreRunning, InPhase, WorksOn
  <2> QED
    BY <1>2, <2>1, <2>3, RunnerRests
<1>4. ASSUME NEW t \in ControlTask, Recover(t)
      PROVE  StepHolds
  <2>1. PICK st, js : /\ st = IF HasBudget(t) THEN "READY" ELSE "FAILED"
                      /\ js = IF HasBudget(t) THEN "RUNNING" ELSE "FAILED"
    OBVIOUS
  <2>2. PICK td : runner = [phase |-> "recovering", todo |-> td]
    BY <1>1, <1>4, RunnerPhases DEF Recover, InPhase
  <2>3. /\ t \in td /\ runner' = [phase |-> "recovering", todo |-> td \ {t}]
        /\ ~InPhase("committing") /\ t \in Task
    BY <1>4, <2>2 DEF Recover, InPhase, ControlTask
  <2>4. \A u \in td : status[u] = "RUNNING"
    BY <2>2 DEF PipelineInv, OwnersInv, FoundAreRunning, InPhase
  <2>5. /\ status' = [status EXCEPT ![t] = st]
        /\ job' = [job EXCEPT ![JobOf[t]] = js]
        /\ UNCHANGED <<attemptCount, committing>>
        /\ \A k \in AttemptNumber : attempt'[t][k] # "STARTED"
        /\ \A u \in Task : u # t => attempt'[u] = attempt[u]
    <3>1. status' = [status EXCEPT ![t] = st]
      BY <1>1, <1>4, <2>1, <2>3, <2>4 DEF Recover, DbTypeOK
    <3>2. job' = [job EXCEPT ![JobOf[t]] = js] /\ UNCHANGED <<attemptCount, committing>>
      BY <1>4, <2>1 DEF Recover
    <3>3. /\ \A k \in AttemptNumber : attempt'[t][k] =
                 IF attempt[t][k] = "STARTED" THEN "TIMED_OUT" ELSE attempt[t][k]
          /\ \A u \in Task : u # t => attempt'[u] = attempt[u]
      BY <1>1, <1>4, <2>3 DEF Recover, DbTypeOK
    <3> QED
      BY <3>1, <3>2, <3>3
  <2>6. RowFree(t)
    <3> SUFFICES ASSUME NEW c \in committing
                 PROVE  t # c.task /\ t \notin c.unlock
      BY DEF RowFree
    <3>1. c.fence # 0 /\ c \in CompletionRecord
      BY <1>1, <2>3, NoRunnerCommit DEF RowTypes
    <3>2. c.task \in Task /\ c.fence \in AttemptNumber /\ Workers!Active(c.task, c.fence)
      BY <3>1 DEF CompletionRecord, PipelineInv, OwnersInv, CommitsAreOwned
    <3>3. c.task \notin ControlTask
      BY <3>2, ActiveIsWorking
    <3>4. \A u \in c.unlock : status[u] = "BLOCKED"
      BY DEF PipelineInv, RowsInv, CommitsHold, WritesHold
    <3> QED
      BY <2>3, <2>4, <3>3, <3>4
  <2>7. FoundAreRunning' /\ \A u \in ControlTask : ~WorksOn(u)'
    <3>1. runner'.phase = "recovering" /\ runner'.todo = td \ {t}
      BY <2>3
    <3>2. td \subseteq ControlTask
      BY <1>1, <2>2, RunnerPhases
    <3>3. \A u \in td \ {t} : status'[u] = "RUNNING"
      BY <1>1, <2>4, <2>5, <3>2 DEF DbTypeOK, ControlTask
    <3> QED
      BY <3>1, <3>3 DEF FoundAreRunning, InPhase, WorksOn
  <2>8. st \in {"READY", "FAILED"} /\ js \in {"RUNNING", "FAILED"} /\ Completable(t)
    BY <2>1, <2>3, <2>4 DEF Completable
  <2> QED
    BY <1>2, <2>3, <2>5, <2>6, <2>7, <2>8, RunnerGivesBack
<1>5. ASSUME BeginPolling
      PROVE  StepHolds
  <2>1. UNCHANGED dbVars /\ runner' = Idle /\ ~InPhase("committing")
    BY <1>5 DEF BeginPolling, InPhase
  <2>2. FoundAreRunning' /\ \A u \in ControlTask : ~WorksOn(u)'
    BY <2>1 DEF FoundAreRunning, InPhase, Idle, WorksOn
  <2> QED
    BY <1>2, <2>1, <2>2, RunnerRests
<1> QED
  BY <1>3, <1>4, <1>5 DEF Boot

(* Time passes, or a crash rolls back the open completions. *)
LEMMA ClocksOwn ==
    ASSUME PipelineInv, RunnerClock \/ ProcessCrash
    PROVE  StepHolds
<1>1. ASSUME RunnerClock
      PROVE  StepHolds
  <2>1. UNCHANGED dbVars /\ runner' = runner /\ UNCHANGED <<lease, current, calls>>
    BY <1>1 DEF RunnerClock, Age
  <2>2. status' = status
    BY <2>1 DEF dbVars
  <2>3. FoundAreRunning'
    BY <2>1, <2>2 DEF FoundAreRunning, InPhase, PipelineInv, OwnersInv
  <2>4. \A u \in ControlTask : WorksOn(u)' => WorksOn(u) /\ runner'.attempt = runner.attempt
    BY <2>1 DEF WorksOn
  <2> QED
    BY <2>1, <2>3, <2>4, RunnerRests
<1>2. ASSUME ProcessCrash
      PROVE  StepHolds
  <2>1. /\ UNCHANGED <<status, attempt, attemptCount, job, lease>>
        /\ runner' = Down /\ committing' = {} /\ calls' = {}
    BY <1>2 DEF ProcessCrash, Crash
  <2>2. RowsNext
    BY <2>1 DEF RowsNext, Rests
  <2>3. FoundAreRunning' /\ \A u \in ControlTask : ~WorksOn(u)'
    BY <2>1 DEF FoundAreRunning, InPhase, Down, WorksOn
  <2>4. RunnerOwnsWork'
    BY <2>1, <2>3, RunnerStays
  <2>5. RunnerStep
    BY <2>1 DEF RunnerStep
  <2> QED
    BY <2>2, <2>3, <2>4, <2>5, RunnerKeeps DEF HeldStep
<1> QED
  BY <1>1, <1>2

-----------------------------------------------------------------------------
(* The invariant of the rows and of who owns the work. *)

(* Whoever takes it, a step is one of the six to the rows, and keeps the owners. *)
LEMMA StepOwns ==
    ASSUME Atomic, PipelineInv, [Next]_pipelineVars
    PROVE  StepHolds
<1>1. CASE Review
  BY <1>1, ReviewOwns
<1>2. ASSUME WorkerRequest
      PROVE  StepHolds
  <2>1. Up /\ UNCHANGED runnerVars
    BY <1>2 DEF WorkerRequest
  <2>2. ASSUME NEW s \in Session, NEW t \in Task, Workers!Claim(s, t)
        PROVE  StepHolds
    BY <2>1, <2>2, ClaimOwns
  <2>3. ASSUME NEW t \in Task, NEW n \in AttemptNumber, Workers!Request(t, n)
        PROVE  StepHolds
    BY <2>1, <2>3, RequestOwns
  <2>4. ASSUME NEW c \in calls, Workers!Finish(c)
        PROVE  StepHolds
    BY <2>1, <2>4, FinishOwns
  <2>5. ASSUME NEW c \in committing, Workers!Commit(c)
        PROVE  StepHolds
    BY <2>1, <2>5, CommitOwns
  <2> QED
    BY <1>2, <2>1, <2>2, <2>3, <2>4, <2>5, ClockOwns DEF WorkerRequest
<1>3. CASE QueueRequest
  BY <1>3, CancelOwns, RetryOwns DEF QueueRequest
<1>4. CASE LeaseClock
  BY <1>4, ClockOwns DEF LeaseClock
<1>5. CASE Poll
  BY <1>5, PollOwns
<1>6. CASE Boot
  BY <1>6, BootOwns
<1>7. CASE RunnerClock \/ ProcessCrash
  BY <1>7, ClocksOwn
<1>8. ASSUME UNCHANGED pipelineVars
      PROVE  StepHolds
  <2>1. UNCHANGED dbVars /\ UNCHANGED <<runner, lease, calls, status>>
    BY <1>8 DEF pipelineVars, dbVars, runnerVars
  <2>2. FoundAreRunning'
    BY <2>1 DEF FoundAreRunning, InPhase, PipelineInv, OwnersInv
  <2>3. \A u \in ControlTask : WorksOn(u)' => WorksOn(u) /\ runner'.attempt = runner.attempt
    BY <2>1 DEF WorksOn
  <2> QED
    BY <2>1, <2>2, <2>3, RunnerRests
<1> QED
  BY <1>1, <1>2, <1>3, <1>4, <1>5, <1>6, <1>7, <1>8 DEF Next

(* At first nothing is worked on. *)
LEMMA InitOwns == Init => PipelineInv
<1> SUFFICES ASSUME Init
             PROVE  PipelineInv
  OBVIOUS
<1>1. /\ Workers!DbInit /\ lease = [t \in Task |-> [n \in AttemptNumber |-> Workers!NoLease]]
      /\ calls = {} /\ runner = Idle
  BY Tables DEF Init, Workers!Init, RunnerInit
<1>2. /\ status = [t \in Task |-> IF Deps[t] = {} THEN "READY" ELSE "BLOCKED"]
      /\ attempt = [t \in Task |-> [k \in AttemptNumber |-> "NONE"]]
      /\ job = [j \in Job |-> "WAITING_FOR_GPU"]
      /\ committing = {}
  BY <1>1, Tables DEF Workers!DbInit
<1>3. TypeInv
  BY InitTyped
<1>4. RowsInv
  BY <1>2 DEF RowsInv, NoEarlyUnlock, EndedJobs, CommitsHold
<1>5. \A t \in Task, n \in AttemptNumber : ~Workers!Active(t, n)
  BY <1>1 DEF Workers!Active, Workers!NoLease
<1>6. WorkersOwnWork
  BY <1>2, <1>5 DEF WorkersOwnWork
<1>7. RunnerOwnsWork
  BY <1>1, <1>2 DEF RunnerOwnsWork, WorksOn, Idle, ControlTask
<1>8. OwnersInv
  BY <1>1, <1>2, <1>6, <1>7
  DEF OwnersInv, WorkIsOwned, CommitsAreOwned, FoundAreRunning, CallsRecheck, InPhase, Idle
<1>9. HeldInv
  BY <1>1 DEF HeldInv, WorksOn, Idle
<1> QED
  BY <1>3, <1>4, <1>8, <1>9 DEF PipelineInv

(* The whole invariant is inductive. *)
LEMMA NextOwns ==
    ASSUME Atomic, PipelineInv, [Next]_pipelineVars
    PROVE  PipelineInv' /\ RowsStep /\ RowsNext
<1>1. TypeInv'
  BY NextTyped DEF PipelineInv
<1>2. StepHolds
  BY StepOwns
<1>3. RowsStep
  BY <1>2, RowsKeep DEF StepHolds, PipelineInv, TypeInv
<1>4. HeldInv'
  <2> SUFFICES ASSUME NEW t \in ControlTask, WorksOn(t)'
               PROVE  /\ \/ status'[t] = "RUNNING"
                         \/ status'[t] = "CANCELLED" /\ job'[JobOf[t]] = "CANCELLED"
                      /\ \A d \in Deps[t] : status'[d] = "SUCCEEDED"
    BY DEF HeldInv
  <2>1. t \in Task /\ JobOf[t] \in Job /\ Deps[t] \subseteq Task
    BY DEF ControlTask
  <2>2. CASE status'[t] = "RUNNING"
    BY <1>3, <2>1, <2>2 DEF RowsStep, RowsInv, NoEarlyUnlock
  <2>3. CASE status'[t] # "RUNNING"
    <3>1. WorksOn(t) /\ status'[t] = "CANCELLED"
      BY <1>2, <2>3 DEF StepHolds, HeldStep
    <3>2. /\ status[t] = "RUNNING" \/ (status[t] = "CANCELLED" /\ job[JobOf[t]] = "CANCELLED")
          /\ \A d \in Deps[t] : status[d] = "SUCCEEDED"
      BY <3>1 DEF PipelineInv, HeldInv
    <3>3. \A d \in Deps[t] : status'[d] = "SUCCEEDED"
      BY <1>3, <2>1, <3>2 DEF RowsStep, FinalStep, Over, Resumes, Overwritten
    <3>4. job'[JobOf[t]] = "CANCELLED"
      <4>1. CASE status[t] = "RUNNING"
        BY <1>3, <2>1, <3>1, <4>1 DEF RowsStep, CancelledTogether
      <4>2. CASE job[JobOf[t]] = "CANCELLED"
        BY <1>3, <2>1, <3>1, <4>2
        DEF RowsStep, FinalStep, Resumes, Overwritten, WorksOn
      <4> QED
        BY <3>2, <4>1, <4>2
    <3> QED
      BY <3>1, <3>3, <3>4
  <2> QED
    BY <2>2, <2>3
<1> QED
  BY <1>1, <1>2, <1>3, <1>4 DEF StepHolds, RowsStep, PipelineInv

(***************************************************************************)
(* No task leaves BLOCKED before its prerequisites succeeded, whoever      *)
(* completes them and whenever their commits arrive: for every dependency  *)
(* graph, and any number of workers.                                       *)
(***************************************************************************)
THEOREM TasksAreUnlockedInOrder ==
    ASSUME Atomic
    PROVE  Spec => []NoEarlyUnlock
<1>1. Init => PipelineInv
  BY InitOwns
<1>2. PipelineInv /\ [Next]_pipelineVars => PipelineInv'
  BY NextOwns
<1>3. PipelineInv => NoEarlyUnlock
  BY DEF PipelineInv, RowsInv
<1> QED
  BY <1>1, <1>2, <1>3, PTL DEF Spec

(***************************************************************************)
(* A task of the control plane is RUNNING exactly while its latest attempt *)
(* is STARTED, and what the runner works on is that attempt or one that a  *)
(* cancel ended meanwhile; a GPU task is LEASED or RUNNING exactly while   *)
(* it has an unreleased lease: through claims, reaping, cancels also       *)
(* between the runner's check and its writes, retries, crashes with        *)
(* transactions open, and recovery.                                        *)
(***************************************************************************)
THEOREM WorkHasOneOwner ==
    ASSUME Atomic
    PROVE  Spec => []WorkIsOwned
<1>1. Init => PipelineInv
  BY InitOwns
<1>2. PipelineInv /\ [Next]_pipelineVars => PipelineInv'
  BY NextOwns
<1>3. PipelineInv => WorkIsOwned
  BY DEF PipelineInv, OwnersInv
<1> QED
  BY <1>1, <1>2, <1>3, PTL DEF Spec

(***************************************************************************)
(* No result of a task or a job is ever taken back: not by a late          *)
(* completion, the reaper, a retry or the recovery.  A cancel is taken     *)
(* back by one step only, the runner's record of the one task of which it  *)
(* had passed the check when the cancel came.                              *)
(***************************************************************************)
THEOREM PipelineEndsAreFinal ==
    ASSUME Atomic
    PROVE  Spec => EndIsFinal
<1>1. Init => PipelineInv
  BY InitOwns
<1>2. PipelineInv /\ [Next]_pipelineVars => PipelineInv'
  BY NextOwns
<1> DEFINE Ended ==
        /\ \A t \in Task : Over(t) => status'[t] = status[t] \/ Overwritten(t)
        /\ \A j \in Job : job[j] \in {"SUCCEEDED", "CANCELLED"} =>
               \/ job'[j] = job[j]
               \/ job[j] = "CANCELLED" /\ \E t \in TasksOf(j) : Overwritten(t)
<1>3. PipelineInv /\ [Next]_pipelineVars => [Ended]_pipelineVars
  <2> SUFFICES ASSUME PipelineInv, [Next]_pipelineVars
               PROVE  Ended
    OBVIOUS
  <2>1. FinalStep
    BY NextOwns DEF RowsStep
  <2> QED
    BY <2>1 DEF FinalStep, Resumes
<1> HIDE DEF Ended
<1>4. Spec => [][Ended]_pipelineVars
  BY <1>1, <1>2, <1>3, PTL DEF Spec
<1> QED
  BY <1>4 DEF Ended, EndIsFinal

-----------------------------------------------------------------------------
(* The job row. *)

JobFollows(j) ==
    /\ job[j] = "SUCCEEDED" <=> \A t \in TasksOf(j) : status[t] = "SUCCEEDED"
    /\ job[j] = "CANCELLED" => \A t \in TasksOf(j) : Over(t)
    /\ job[j] = "CANCELLED" => \E t \in TasksOf(j) : status[t] = "CANCELLED"
    /\ (\E t \in TasksOf(j) : status[t] = "CANCELLED") => job[j] = "CANCELLED" \/ Revived(j)

(* JobAgrees says of each job that it follows its tasks, *)
LEMMA JobsFollow == JobAgrees <=> \A j \in Job : JobFollows(j)
BY DEF JobAgrees, JobFollows

(* also after a step. *)
LEMMA JobsFollowNext == JobAgrees' <=> \A j \in Job : JobFollows(j)'
BY DEF JobAgrees, JobFollows

(* A job follows its tasks as before if neither it nor any of them ends. *)
LEMMA JobStays ==
    ASSUME JobAgrees, NEW j \in Job,
           job'[j] = job[j] \/ {job[j], job'[j]} \cap {"SUCCEEDED", "CANCELLED"} = {},
           \A t \in TasksOf(j) :
               \/ status'[t] = status[t]
               \/ {status[t], status'[t]} \cap {"SUCCEEDED", "CANCELLED"} = {}
                  /\ status'[t] # "BLOCKED"
    PROVE  JobFollows(j)'
<1>1. /\ job'[j] = "SUCCEEDED" <=> job[j] = "SUCCEEDED"
      /\ job'[j] = "CANCELLED" <=> job[j] = "CANCELLED"
  OBVIOUS
<1>2. \A t \in TasksOf(j) :
          /\ status'[t] = "SUCCEEDED" <=> status[t] = "SUCCEEDED"
          /\ status'[t] = "CANCELLED" <=> status[t] = "CANCELLED"
  OBVIOUS
<1>3. JobFollows(j)
  BY JobsFollow
<1>4. Revived(j) => Revived(j)'
  <2> SUFFICES ASSUME NEW t \in ControlTask \cap TasksOf(j),
                      status[t] \notin {"BLOCKED", "CANCELLED"},
                      \A u \in TasksOf(j) \ {t} : Over(u)
               PROVE  Revived(j)'
    BY DEF Revived
  <2>1. status'[t] \notin {"BLOCKED", "CANCELLED"}
    OBVIOUS
  <2>2. \A u \in TasksOf(j) \ {t} : Over(u)'
    BY <1>2 DEF Over
  <2> QED
    BY <2>1, <2>2 DEF Revived
<1> QED
  BY <1>1, <1>2, <1>3, <1>4 DEF JobFollows, Over

(* If its prerequisites have succeeded, so has all that they waited for. *)
LEMMA EarlierOf ==
    ASSUME EarlierSucceeded, LastTask, SplitCommit, NEW t \in Task,
           \A d \in Deps[t] : status[d] = "SUCCEEDED"
    PROVE  \A e \in Before[t] : status[e] = "SUCCEEDED"
<1>1. /\ Before \in [Task -> SUBSET Task]
      /\ \A u \in Task, f \in Task :
             f \in Before[u] <=> f \in Deps[u] \/ \E d \in Deps[u] : f \in Before[d]
  BY DEF LastTask, Before, IsBefore
<1>2. \A d \in Deps[t] : d \in Task /\ \A e \in Before[d] : status[e] = "SUCCEEDED"
  BY DEF EarlierSucceeded
<1> QED
  BY <1>1, <1>2

(* What a task waits for has still succeeded, and so has what that waits for. *)
LEMMA EarlierStay ==
    ASSUME EarlierSucceeded, LastTask, RowsInv, RowsStep, status' \in [Task -> TaskStatus]
    PROVE  EarlierSucceeded'
<1> SUFFICES ASSUME SplitCommit, NEW t \in Task, status'[t] \notin {"BLOCKED", "CANCELLED"},
                    NEW e \in Before[t]
             PROVE  status'[e] = "SUCCEEDED"
  BY DEF EarlierSucceeded
<1>1. /\ Before \in [Task -> SUBSET Task]
      /\ \A u \in Task, f \in Task :
             f \in Before[u] <=> f \in Deps[u] \/ \E d \in Deps[u] : f \in Before[d]
  BY DEF LastTask, Before, IsBefore
<1>2. e \in Task /\ Deps[t] \subseteq Task
  BY <1>1
<1>3. ASSUME NEW u \in Task, \A d \in Deps[u] : status[d] = "SUCCEEDED", e \in Before[u]
      PROVE  status'[e] = "SUCCEEDED"
  <2>1. status[e] = "SUCCEEDED"
    BY <1>3, EarlierOf
  <2> QED
    BY <1>2, <2>1 DEF RowsStep, FinalStep, Over, Resumes, Overwritten
<1>4. \A d \in Deps[t] : status'[d] = "SUCCEEDED"
  BY DEF RowsStep, RowsInv, NoEarlyUnlock
<1>5. CASE e \in Deps[t]
  BY <1>4, <1>5
<1>6. ASSUME NEW d \in Deps[t], e \in Before[d]
      PROVE  status'[e] = "SUCCEEDED"
  <2>1. d \in Task /\ status'[d] = "SUCCEEDED"
    BY <1>2, <1>4
  <2>2. status[d] # "BLOCKED" /\ (status[d] = "CANCELLED" => Resumes(d))
    BY <2>1 DEF RowsStep, UnlockedFirst, FinalStep, Over
  <2>3. \A f \in Deps[d] : status[f] = "SUCCEEDED"
    BY <2>1, <2>2 DEF RowsInv, NoEarlyUnlock, Resumes
  <2> QED
    BY <1>3, <1>6, <2>1, <2>3
<1> QED
  BY <1>1, <1>2, <1>5, <1>6

(* An open completion that is the last of its job read all the others. *)
LEMMA LastStays ==
    ASSUME RowTypes, RowsInv, RowsInv', EarlierSucceeded, EarlierSucceeded', LastKnows,
           LastTask, NEW c \in committing, c \in committing',
           \A u \in TasksOf(JobOf[c.task]) : u # c.task => status'[u] = "SUCCEEDED"
    PROVE  c.jobTo = "SUCCEEDED"
<1>1. /\ SplitCommit /\ c.task \in Task /\ JobOf[c.task] \in Job
      /\ status'[c.task] \in {"RUNNING", "CANCELLED"}
      /\ \A d \in Deps[c.task] : status[d] = "SUCCEEDED"
  BY DEF RowTypes, CompletionRecord, RowsInv, CommitsHold, WritesHold
<1>2. PICK l \in TasksOf(JobOf[c.task]) : TasksOf(JobOf[c.task]) \ {l} \subseteq Before[l]
  BY <1>1 DEF LastTask
<1>3. l \in Task /\ c.task \in TasksOf(JobOf[c.task])
  BY <1>1, <1>2 DEF TasksOf
<1>4. CASE l = c.task
  <2>1. \A u \in TasksOf(JobOf[c.task]) : u # c.task => status[u] = "SUCCEEDED"
    BY <1>1, <1>2, <1>4, EarlierOf
  <2> QED
    BY <2>1 DEF LastKnows
<1>5. CASE l # c.task
  <2>1. status'[l] = "SUCCEEDED" /\ c.task \in Before[l]
    BY <1>2, <1>3, <1>5
  <2> QED
    BY <1>1, <1>3, <2>1 DEF EarlierSucceeded
<1> QED
  BY <1>4, <1>5

(* The job follows when a task succeeds, if what is written of the job does. *)
LEMMA JobsSucceed ==
    ASSUME RowTypes, RowsInv, JobAgrees, NEW t \in Task, NEW us, NEW js,
           Succeeds(t, us, js),
           (\A u \in TasksOf(JobOf[t]) : u # t => status[u] = "SUCCEEDED") => js = "SUCCEEDED"
    PROVE  JobAgrees'
<1>1. /\ us \subseteq Task
      /\ \A u \in us : status[u] = "BLOCKED" /\ status'[u] \in {"WAITING", "READY"}
      /\ status[t] \in {"RUNNING", "WAITING"} \/ Resumes(t)
      /\ status'[t] = "SUCCEEDED"
      /\ \A u \in Task : u # t /\ u \notin us => status'[u] = status[u]
  BY DEF Succeeds, Completable
<1>2. \A u \in Task : \/ u = t
                      \/ status'[u] = status[u]
                      \/ {status[u], status'[u]} \cap {"SUCCEEDED", "CANCELLED"} = {}
                         /\ status'[u] # "BLOCKED"
  BY <1>1
<1>3. /\ job'[JobOf[t]] = js /\ js # "CANCELLED"
      /\ js = "SUCCEEDED" => \A u \in TasksOf(JobOf[t]) : u # t => status[u] = "SUCCEEDED"
      /\ \A j \in Job : j # JobOf[t] => job'[j] = job[j]
  BY DEF Succeeds
<1>4. ASSUME NEW j \in Job, j # JobOf[t]
      PROVE  JobFollows(j)'
  <2>1. \A u \in TasksOf(j) : u \in Task /\ u # t
    BY <1>4 DEF TasksOf
  <2> QED
    BY <1>2, <1>3, <1>4, <2>1, JobStays
<1>5. PICK i : i = JobOf[t]
  OBVIOUS
<1>6. i \in Job /\ t \in TasksOf(i) /\ JobFollows(i) /\ \A u \in TasksOf(i) : u \in Task
  BY <1>5, JobsFollow DEF TasksOf
<1>7. \A u \in TasksOf(i) : u # t =>
          /\ status'[u] = "SUCCEEDED" <=> status[u] = "SUCCEEDED"
          /\ status'[u] = "CANCELLED" <=> status[u] = "CANCELLED"
  BY <1>2, <1>6
<1>8. js = "SUCCEEDED" <=> \A u \in TasksOf(i) : status'[u] = "SUCCEEDED"
  BY <1>1, <1>3, <1>5, <1>7
<1>9. ASSUME NEW v \in TasksOf(i), status'[v] = "CANCELLED"
      PROVE  Revived(i)'
  <2>1. t \in ControlTask /\ \A u \in TasksOf(i) \ {t} : Over(u)
    <3>1. CASE Resumes(t)
      BY <1>5, <1>6, <3>1 DEF Resumes, JobFollows
    <3>2. CASE status[t] \in {"RUNNING", "WAITING"}
      <4>1. status[v] = "CANCELLED" /\ ~Over(t)
        BY <1>1, <1>7, <1>9, <3>2 DEF Over
      <4>2. Revived(i)
        BY <1>6, <4>1 DEF JobFollows
      <4> QED
        BY <1>6, <4>1, <4>2 DEF Revived
    <3> QED
      BY <1>1, <3>1, <3>2
  <2>2. \A u \in TasksOf(i) \ {t} : Over(u)'
    BY <1>7, <2>1 DEF Over
  <2> QED
    BY <1>1, <1>6, <2>1, <2>2 DEF Revived
<1>10. JobFollows(i)'
  BY <1>3, <1>5, <1>8, <1>9 DEF JobFollows
<1> QED
  BY <1>4, <1>5, <1>10, JobsFollowNext

(* The rows are also typed after a step. *)
LEMMA RowsTypedNext == ASSUME TypeOK' PROVE RowTypes'
<1>1. Workers!DbTypeOK'
  BY DEF TypeOK, Workers!TypeOK
<1>2. /\ Workers!AttemptNumber = AttemptNumber
      /\ Workers!CompletionRecord = CompletionRecord
  BY DEF AttemptNumber, Workers!AttemptNumber, CompletionRecord, Workers!CompletionRecord,
         JobStatus, Workers!JobStatus
<1> QED
  BY <1>1, <1>2 DEF Workers!DbTypeOK, RowTypes, TaskStatus, Workers!TaskStatus, JobStatus,
                    Workers!JobStatus

(* Whoever takes it, a step keeps each job in agreement with its tasks. *)
LEMMA JobsKeep ==
    ASSUME LastTask, TypeOK, RowsInv, RowTypes', JobInv, RowsStep, RowsNext
    PROVE  JobInv'
<1>1. /\ RowTypes /\ JobAgrees /\ EarlierSucceeded /\ LastKnows /\ RowsInv'
  BY RowsAreTyped DEF JobInv, RowsStep
<1>2. EarlierSucceeded'
  BY <1>1, EarlierStay DEF RowTypes
<1>3. ASSUME NEW c \in committing, c \in committing',
             \A u \in TasksOf(JobOf[c.task]) : u # c.task => status'[u] = "SUCCEEDED"
      PROVE  c.jobTo = "SUCCEEDED"
  BY <1>1, <1>2, <1>3, LastStays
<1>4. ASSUME committing' \subseteq committing
      PROVE  LastKnows'
  BY <1>3, <1>4 DEF LastKnows, TasksOf
<1>5. ASSUME NEW t \in Task, NEW st \in TaskStatus, NEW js \in JobStatus, Moves(t, st, js)
      PROVE  JobInv'
  <2>1. /\ status[t] \in AtWork \/ Resumes(t)
        /\ st \in AtWork
        /\ js \notin {"SUCCEEDED", "CANCELLED"}
        /\ status'[t] = st /\ \A u \in Task : u # t => status'[u] = status[u]
        /\ committing' = committing
    BY <1>1, <1>5 DEF Moves, RowTypes
  <2>2. /\ \A j \in Job : j = JobOf[t] \/ job'[j] = job[j]
        /\ JobOf[t] \in Job /\ job'[JobOf[t]] = js
    BY <1>1, <1>5 DEF Moves, RowTypes
  <2>3. ASSUME NEW j \in Job, j # JobOf[t] \/ status[t] \in AtWork
        PROVE  JobFollows(j)'
    <3>1. \A u \in TasksOf(j) :
              \/ status'[u] = status[u]
              \/ {status[u], status'[u]} \cap {"SUCCEEDED", "CANCELLED"} = {}
                 /\ status'[u] # "BLOCKED"
      BY <2>1, <2>3 DEF AtWork, TasksOf
    <3>2. job'[j] = job[j] \/ {job[j], job'[j]} \cap {"SUCCEEDED", "CANCELLED"} = {}
      BY <1>1, <2>1, <2>2, <2>3, OpenJob DEF RowsInv, AtWork
    <3> QED
      BY <1>1, <3>1, <3>2, JobStays
  <2>4. ASSUME Resumes(t)
        PROVE  JobFollows(JobOf[t])'
    <3>1. PICK i : i = JobOf[t]
      OBVIOUS
    <3>2. /\ i \in Job /\ t \in TasksOf(i) /\ t \in ControlTask
          /\ \A u \in TasksOf(i) : u \in Task /\ Over(u)
      BY <1>1, <2>2, <2>4, <3>1, JobsFollow DEF Resumes, JobFollows, TasksOf
    <3>3. job'[i] \notin {"SUCCEEDED", "CANCELLED"} /\ status'[t] \in AtWork
      BY <2>1, <2>2, <3>1
    <3>4. \A u \in TasksOf(i) \ {t} : Over(u)'
      BY <2>1, <3>2 DEF Over
    <3>5. Revived(i)'
      BY <3>2, <3>3, <3>4 DEF Revived, AtWork
    <3>6. JobFollows(i)'
      BY <3>2, <3>3, <3>5 DEF JobFollows, AtWork
    <3> QED
      BY <3>1, <3>6
  <2>5. \A j \in Job : JobFollows(j)'
    BY <2>1, <2>3, <2>4
  <2> QED
    BY <1>2, <1>4, <2>1, <2>5, JobsFollowNext DEF JobInv
<1>6. ASSUME NEW c \in CompletionRecord, Begins(c)
      PROVE  JobInv'
  <2>1. /\ IsCompletion(c) /\ Completable(c.task)
        /\ committing' = committing \cup {c}
        /\ status' = status /\ job' = job
    BY <1>6 DEF Begins
  <2>2. JobAgrees'
    BY <1>1, <2>1, JobStays, JobsFollowNext
  <2>3. (\A u \in TasksOf(JobOf[c.task]) : u # c.task => status[u] = "SUCCEEDED")
            => c.jobTo = "SUCCEEDED"
    BY <2>1, CompletionHolds DEF RowsInv
  <2>4. LastKnows'
    BY <1>3, <2>1, <2>3 DEF LastKnows, TasksOf
  <2> QED
    BY <1>2, <2>2, <2>4 DEF JobInv
<1>7. ASSUME NEW c \in CompletionRecord, Completes(c)
      PROVE  JobInv'
  <2>1. c.task \in Task /\ Succeeds(c.task, c.unlock, c.jobTo)
    BY <1>1, <1>7, CompletionSucceeds DEF CompletionRecord
  <2>2. (\A u \in TasksOf(JobOf[c.task]) : u # c.task => status[u] = "SUCCEEDED")
            => c.jobTo = "SUCCEEDED"
    <3>1. CASE c \in committing
      BY <1>1, <3>1 DEF LastKnows
    <3>2. CASE IsCompletion(c)
      BY <1>7, <3>2, CompletionHolds DEF Completes, RowsInv
    <3> QED
      BY <1>7, <3>1, <3>2 DEF Completes
  <2>3. JobAgrees'
    BY <1>1, <2>1, <2>2, JobsSucceed
  <2> QED
    BY <1>2, <1>4, <2>1, <2>3 DEF JobInv, Succeeds
<1>8. ASSUME NEW t \in Task, Approves(t)
      PROVE  JobInv'
  <2>1. PICK us, js : /\ Succeeds(t, us, js)
                      /\ js = "SUCCEEDED" <=>
                             \A u \in TasksOf(JobOf[t]) : status'[u] = "SUCCEEDED"
    BY <1>1, <1>8, ApprovalSucceeds
  <2>2. (\A u \in TasksOf(JobOf[t]) : u # t => status[u] = "SUCCEEDED") => js = "SUCCEEDED"
    <3>1. \A u \in Task : status[u] = "SUCCEEDED" => status'[u] = "SUCCEEDED"
      BY DEF RowsStep, FinalStep, Over, Resumes, Overwritten
    <3> QED
      BY <2>1, <3>1 DEF Succeeds, TasksOf
  <2>3. JobAgrees'
    BY <1>1, <2>1, <2>2, JobsSucceed
  <2> QED
    BY <1>2, <1>4, <2>1, <2>3 DEF JobInv, Succeeds
<1>9. ASSUME NEW j \in Job, Withdraws(j)
      PROVE  JobInv'
  <2>1. /\ \A t \in TasksOf(j) :
               /\ status[t] = "SUCCEEDED" => status'[t] = "SUCCEEDED"
               /\ status[t] # "SUCCEEDED" => status'[t] = "CANCELLED"
        /\ \A t \in Task : t \notin TasksOf(j) => status'[t] = status[t]
    BY <1>9 DEF Withdraws, Cancellable, TasksOf
  <2>2. /\ job[j] \notin {"SUCCEEDED", "CANCELLED"}
        /\ job'[j] = "CANCELLED"
        /\ \A i \in Job : i # j => job'[i] = job[i]
        /\ committing' = committing
    BY <1>1, <1>9 DEF Withdraws, RowTypes, ActiveJobStatus
  <2>3. PICK t \in TasksOf(j) : status[t] # "SUCCEEDED"
    BY <1>1, <2>2, JobsFollow DEF JobFollows
  <2>4. status'[t] = "CANCELLED"
    BY <2>1, <2>3
  <2>5. JobFollows(j)'
    BY <2>1, <2>2, <2>4 DEF JobFollows, Over
  <2>6. ASSUME NEW i \in Job, i # j
        PROVE  JobFollows(i)'
    <3>1. \A u \in TasksOf(i) : status'[u] = status[u]
      BY <2>1, <2>6 DEF TasksOf
    <3> QED
      BY <1>1, <2>2, <2>6, <3>1, JobStays
  <2> QED
    BY <1>2, <1>4, <2>2, <2>5, <2>6, JobsFollowNext DEF JobInv
<1>10. ASSUME Rests
       PROVE  JobInv'
  <2>1. status' = status /\ job' = job /\ committing' \subseteq committing
    BY <1>10 DEF Rests
  <2>2. JobAgrees'
    BY <1>1, <2>1, JobStays, JobsFollowNext
  <2> QED
    BY <1>2, <1>4, <2>1, <2>2 DEF JobInv
<1> QED
  BY <1>5, <1>6, <1>7, <1>8, <1>9, <1>10 DEF RowsNext

(* At first every job has work, none of it done. *)
LEMMA InitJobs ==
    ASSUME LastTask, JobsHaveTasks, Init
    PROVE  JobInv
<1>1. /\ \A t \in Task : status[t] = IF Deps[t] = {} THEN "READY" ELSE "BLOCKED"
      /\ \A j \in Job : job[j] = "WAITING_FOR_GPU"
      /\ committing = {}
  BY Tables DEF Init, Workers!Init, Workers!DbInit
<1>2. JobAgrees
  BY <1>1, JobsFollow DEF JobFollows, TasksOf, JobsHaveTasks
<1>3. EarlierSucceeded
  <2> SUFFICES ASSUME SplitCommit, NEW t \in Task, status[t] # "BLOCKED", NEW e \in Before[t]
               PROVE  FALSE
    BY DEF EarlierSucceeded
  <2>1. Deps[t] = {}
    BY <1>1
  <2>2. IsBefore(Before)
    BY DEF LastTask, Before
  <2>3. e \in Task
    BY <2>2 DEF IsBefore
  <2> QED
    BY <2>1, <2>2, <2>3 DEF IsBefore
<1>4. LastKnows
  BY <1>1 DEF LastKnows
<1> QED
  BY <1>2, <1>3, <1>4 DEF JobInv

(***************************************************************************)
(* A job is SUCCEEDED exactly when all its tasks are, whoever completes    *)
(* the last of them; a CANCELLED one has nothing left to do; and a task is *)
(* CANCELLED in another job only where the runner has taken back the       *)
(* cancel of its own task, all others of the job being over.               *)
(***************************************************************************)
THEOREM JobsAgreeWithTasks ==
    ASSUME Atomic, LastTask, JobsHaveTasks
    PROVE  Spec => []JobAgrees
<1> DEFINE Inv == PipelineInv /\ JobInv
<1>1. Init => Inv
  BY InitOwns, InitJobs
<1>2. Inv /\ [Next]_pipelineVars => Inv'
  <2> SUFFICES ASSUME Inv, [Next]_pipelineVars
               PROVE  Inv'
    OBVIOUS
  <2>1. PipelineInv' /\ RowsStep /\ RowsNext
    BY NextOwns
  <2>2. RowTypes'
    BY <2>1, RowsTypedNext DEF PipelineInv, TypeInv
  <2>3. JobInv'
    BY <2>1, <2>2, JobsKeep DEF PipelineInv, TypeInv
  <2> QED
    BY <2>1, <2>3
<1>3. Inv => JobAgrees
  BY DEF JobInv
<1> QED
  BY <1>1, <1>2, <1>3, PTL DEF Spec
=============================================================================
