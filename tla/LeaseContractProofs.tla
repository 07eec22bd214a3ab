------------------------- MODULE LeaseContractProofs -------------------------
(***************************************************************************)
(* Proofs about TaskLeases, beyond its fencing: leases, tasks, their       *)
(* dependencies and their jobs agree, what has ended stays as it is, and   *)
(* the protocol keeps the promise of FencedTask.                           *)
(*                                                                         *)
(* These hold where the handlers that decide on the status of a task check *)
(* and write at once (Atomic), and where completions of one job that read  *)
(* before they commit come one after the other (OneAtATime): without the   *)
(* first a cancelled task moves again, without the second two completions  *)
(* miss each other.                                                        *)
(***************************************************************************)
EXTENDS TaskLeasesProofs

Atomic == Overlap \cap {"start", "complete", "fail"} = {}

JobsHaveTasks == \A j \in Job : \E t \in Task : JobOf[t] = j

(* The tasks that a task waits for, also by way of others. *)
IsBefore(B) ==
    /\ B \in [Task -> SUBSET Task]
    /\ \A t \in Task, e \in Task :
           e \in B[t] <=> e \in Deps[t] \/ \E d \in Deps[t] : e \in B[d]

Before == CHOOSE B : IsBefore(B)

(* Of two tasks of a job one waits for the other, and for no other job's. *)
OneAtATime ==
    SplitCommit =>
        /\ \E B : IsBefore(B)
        /\ \A t \in Task : \A d \in Deps[t] : JobOf[d] = JobOf[t]
        /\ \A t, u \in Task :
               JobOf[t] = JobOf[u] => t = u \/ t \in Before[u] \/ u \in Before[t]

-----------------------------------------------------------------------------
(* What a completion is about to write still follows from the rows. *)
WritesHold(c) ==
    /\ status[c.task] = "RUNNING"
    /\ \A u \in Task : u \in c.unlock <=>
           /\ status[u] = "BLOCKED"
           /\ c.task \in Deps[u]
           /\ \A d \in Deps[u] : d # c.task => status[d] = "SUCCEEDED"
    /\ c.jobTo = "SUCCEEDED" <=>
           \A u \in TasksOf(JobOf[c.task]) : u # c.task => status[u] = "SUCCEEDED"
    /\ c.jobTo # "CANCELLED"

(* A completion that waits for its commit holds its lease and its row. *)
CommitsHold ==
    /\ \A c \in committing :
           /\ SplitCommit
           /\ c.fence \in AttemptNumber
           /\ Active(c.task, c.fence)
           /\ WritesHold(c)
    /\ \A c, d \in committing : c.task = d.task => c = d

CallsRecheck == \A c \in calls : c.op \in Overlap

(* An attempt that has not been counted has not been made. *)
UncountedIsNone ==
    \A t \in Task, n \in AttemptNumber : n > attemptCount[t] => attempt[t][n] = "NONE"

(* What a task waits for in any way has succeeded when it is no longer blocked. *)
EarlierSucceeded ==
    SplitCommit =>
        \A t \in Task : status[t] \notin {"BLOCKED", "CANCELLED"} =>
            \A e \in Before[t] : status[e] = "SUCCEEDED"

RowsInv ==
    /\ IndInv
    /\ RowsAgree
    /\ EarlierSucceeded
    /\ CommitsHold
    /\ CallsRecheck
    /\ UncountedIsNone

(* What one step may not change (EndIsFinal). *)
FinalStep ==
    /\ \A t \in Task : status[t] \in {"SUCCEEDED", "CANCELLED"} => status'[t] = status[t]
    /\ \A j \in Job : job[j] \in {"SUCCEEDED", "CANCELLED"} => job'[j] = job[j]
    /\ \A t \in Task, n \in AttemptNumber :
           attempt[t][n] \notin {"NONE", "STARTED"} => attempt'[t][n] = attempt[t][n]

(* A task is unlocked before it succeeds. *)
UnlockedFirst == \A t \in Task : status[t] = "BLOCKED" => status'[t] # "SUCCEEDED"

RowsStep == RowsAgree' /\ CommitsHold' /\ FinalStep /\ UnlockedFirst

USE TablesAssumption, BoundsAssumption, SessionAssumption

-----------------------------------------------------------------------------
(* Operators. *)

(* A lease is unreleased exactly while its attempt is STARTED. *)
LEMMA ActiveIsStarted ==
    ASSUME IndInv, NEW t \in Task, NEW n \in AttemptNumber
    PROVE  /\ Active(t, n) <=> attempt[t][n] = "STARTED"
           /\ Active(t, n) => n = attemptCount[t]
BY DEF IndInv, LeaseFencing, OnlyLatestIsLive

(* A job is set to SUCCEEDED when its tasks are, and never to CANCELLED, by *)
(* its tasks.                                                               *)
LEMMA AggregateEnds ==
    ASSUME NEW st, NEW j
    PROVE  /\ Aggregate(st, j) # "CANCELLED"
           /\ Aggregate(st, j) = "SUCCEEDED" <=> \A t \in TasksOf(j) : st[t] = "SUCCEEDED"
BY DEF Aggregate

(* What a completion decides on follows from the rows it reads. *)
LEMMA CompletionHolds ==
    ASSUME TypeOK, NEW t \in Task, NEW k, NEW n, status[t] = "RUNNING"
    PROVE  WritesHold(Completion(t, k, n))
<1> DEFINE st == [status EXCEPT ![t] = "SUCCEEDED"]
           us == Unlocked(st, t)
           c == Completion(t, k, n)
<1>1. /\ c.task = t /\ c.unlock = us
      /\ c.jobTo = Aggregate(AfterUnlock(st, us), JobOf[t])
  BY DEF Completion
<1>2. /\ st[t] = "SUCCEEDED"
      /\ \A u \in Task : u # t => st[u] = status[u]
  BY DEF TypeOK, DbTypeOK
<1> HIDE DEF st
<1>3. \A u \in Task : u \in us <=>
          /\ status[u] = "BLOCKED"
          /\ t \in Deps[u]
          /\ \A d \in Deps[u] : d # t => status[d] = "SUCCEEDED"
  <2> SUFFICES ASSUME NEW u \in Task
               PROVE  u \in us <=> /\ status[u] = "BLOCKED"
                                   /\ t \in Deps[u]
                                   /\ \A d \in Deps[u] : d # t => status[d] = "SUCCEEDED"
    OBVIOUS
  <2>1. Deps[u] \subseteq Task
    BY DEF TablesAssumption
  <2>2. st[u] = "BLOCKED" <=> status[u] = "BLOCKED"
    BY <1>2
  <2>3. \A d \in Deps[u] : st[d] = "SUCCEEDED" <=> (d # t => status[d] = "SUCCEEDED")
    BY <1>2, <2>1
  <2> QED
    BY <2>2, <2>3 DEF Unlocked
<1>4. \A u \in Task : AfterUnlock(st, us)[u] = "SUCCEEDED" <=> st[u] = "SUCCEEDED"
  BY <1>2, <1>3 DEF AfterUnlock
<1> HIDE DEF us, c
<1>5. TasksOf(JobOf[t]) \subseteq Task
  BY DEF TasksOf
<1>6. c.jobTo # "CANCELLED"
  BY <1>1, AggregateEnds
<1>7. c.jobTo = "SUCCEEDED" <=>
          \A u \in TasksOf(JobOf[t]) : u # t => status[u] = "SUCCEEDED"
  <2>1. c.jobTo = "SUCCEEDED" <=>
            \A u \in TasksOf(JobOf[t]) : AfterUnlock(st, us)[u] = "SUCCEEDED"
    BY <1>1, AggregateEnds
  <2> QED
    BY <1>2, <1>4, <1>5, <2>1
<1>8. WritesHold(c)
  BY <1>1, <1>3, <1>6, <1>7 DEF WritesHold
<1> QED
  BY <1>8 DEF c

(* Beside a completion that waits for its commit, no task of its job moves. *)
LEMMA SiblingsRest ==
    ASSUME RowsInv, OneAtATime, NEW c \in committing, NEW u \in Task,
           JobOf[u] = JobOf[c.task], u # c.task
    PROVE  status[u] \in {"BLOCKED", "SUCCEEDED"}
<1>0. c.task \in Task
  BY DEF RowsInv, IndInv, TypeOK, DbTypeOK, CompletionRecord
<1>1. /\ c.task \in Task /\ JobOf[c.task] \in Job
      /\ SplitCommit /\ status[c.task] = "RUNNING"
  BY <1>0 DEF RowsInv, CommitsHold, WritesHold, TablesAssumption
<1>2. status[u] # "CANCELLED"
  BY <1>1 DEF RowsInv, RowsAgree, JobAgrees, TasksOf
<1>3. CASE u \in Before[c.task]
  BY <1>1, <1>3 DEF RowsInv, EarlierSucceeded
<1>4. CASE c.task \in Before[u]
  BY <1>1, <1>2, <1>4 DEF RowsInv, EarlierSucceeded
<1> QED
  BY <1>1, <1>3, <1>4 DEF OneAtATime

(* A task that is unlocked comes after tasks that had been unlocked before. *)
LEMMA EarlierStay ==
    ASSUME RowsInv, OneAtATime, RowsStep, status' \in [Task -> TaskStatus]
    PROVE  EarlierSucceeded'
<1> SUFFICES ASSUME SplitCommit, NEW t \in Task, status'[t] \notin {"BLOCKED", "CANCELLED"},
                    NEW e \in Before[t]
             PROVE  status'[e] = "SUCCEEDED"
  BY DEF EarlierSucceeded
<1>1. /\ Before \in [Task -> SUBSET Task]
      /\ \A u \in Task, f \in Task :
             f \in Before[u] <=> f \in Deps[u] \/ \E d \in Deps[u] : f \in Before[d]
  BY DEF OneAtATime, Before, IsBefore
<1>2. e \in Task /\ Deps[t] \subseteq Task
  BY <1>1 DEF TablesAssumption
<1>3. ASSUME NEW u \in Task, status[u] \notin {"BLOCKED", "CANCELLED"}, e \in Before[u]
      PROVE  status'[e] = "SUCCEEDED"
  <2>1. status[e] = "SUCCEEDED"
    BY <1>3 DEF RowsInv, EarlierSucceeded
  <2> QED
    BY <1>2, <2>1 DEF RowsStep, FinalStep
<1>4. \A d \in Deps[t] : status'[d] = "SUCCEEDED"
  BY DEF RowsStep, RowsAgree, DagRespected
<1>5. CASE e \in Deps[t]
  BY <1>4, <1>5
<1>6. ASSUME NEW d \in Deps[t], e \in Before[d]
      PROVE  status'[e] = "SUCCEEDED"
  <2>1. d \in Task /\ status'[d] = "SUCCEEDED"
    BY <1>2, <1>4
  <2>2. status[d] \notin {"BLOCKED", "CANCELLED"}
    BY <2>1 DEF RowsStep, UnlockedFirst, FinalStep
  <2> QED
    BY <1>3, <1>6, <2>1, <2>2
<1> QED
  BY <1>1, <1>2, <1>5, <1>6

(* While nothing of their jobs moves, completions may still be committed. *)
LEMMA CommitsStay ==
    ASSUME RowsInv, IndInv', OneAtATime, committing' \subseteq committing,
           \A c \in committing' :
               /\ attempt'[c.task] = attempt[c.task]
               /\ \A u \in Task : JobOf[u] = JobOf[c.task] => status'[u] = status[u]
    PROVE  CommitsHold'
<1>1. ASSUME NEW c \in committing'
      PROVE  /\ SplitCommit
             /\ c.fence \in AttemptNumber
             /\ Active(c.task, c.fence)'
             /\ WritesHold(c)'
  <2>1. /\ SplitCommit /\ c.fence \in AttemptNumber /\ Active(c.task, c.fence)
        /\ WritesHold(c) /\ c.task \in Task
    BY <1>1 DEF RowsInv, CommitsHold, IndInv, TypeOK, DbTypeOK, CompletionRecord
  <2>2. Active(c.task, c.fence)'
    <3>1. attempt'[c.task][c.fence] = "STARTED"
      BY <1>1, <2>1, ActiveIsStarted DEF RowsInv
    <3> QED
      BY <2>1, <3>1 DEF IndInv, LeaseFencing, OnlyLatestIsLive
  <2>3. \A u \in Task : JobOf[u] = JobOf[c.task] => status'[u] = status[u]
    BY <1>1
  <2>4. \A u \in Task : Deps[u] \subseteq Task
    BY DEF TablesAssumption
  <2>7. \A u \in Task : /\ c.task \in Deps[u] => JobOf[u] = JobOf[c.task]
                        /\ \A d \in Deps[u] : JobOf[d] = JobOf[u]
    BY <2>1 DEF OneAtATime
  <2>5. \A u \in Task : u \in c.unlock <=>
            /\ status'[u] = "BLOCKED"
            /\ c.task \in Deps[u]
            /\ \A d \in Deps[u] : d # c.task => status'[d] = "SUCCEEDED"
    BY <2>1, <2>3, <2>4, <2>7 DEF WritesHold
  <2>6. /\ status'[c.task] = "RUNNING" /\ c.jobTo # "CANCELLED"
        /\ c.jobTo = "SUCCEEDED" <=>
               \A u \in TasksOf(JobOf[c.task]) : u # c.task => status'[u] = "SUCCEEDED"
    BY <2>1, <2>3 DEF WritesHold, TasksOf
  <2> QED
    BY <2>1, <2>2, <2>5, <2>6 DEF WritesHold
<1> QED
  BY <1>1 DEF CommitsHold, RowsInv

-----------------------------------------------------------------------------
(* Steps by their effect on the rows. *)

(* One task that is neither blocked nor at its end is granted, started, given *)
(* back or retried.                                                            *)
LEMMA TaskMoves ==
    ASSUME RowsInv, IndInv', OneAtATime, NEW t \in Task, RowFree(t),
           NEW st \in {"READY", "LEASED", "RUNNING", "FAILED"},
           NEW js, js \notin {"SUCCEEDED", "CANCELLED"},
           status[t] \in {"READY", "LEASED", "RUNNING", "FAILED"},
           status' = [status EXCEPT ![t] = st],
           job' = [job EXCEPT ![JobOf[t]] = js],
           committing' = committing,
           \A u \in Task : u # t => attempt'[u] = attempt[u],
           st \in {"LEASED", "RUNNING"} <=> \E n \in AttemptNumber : attempt'[t][n] = "STARTED",
           \A n \in AttemptNumber :
               attempt[t][n] \notin {"NONE", "STARTED"} => attempt'[t][n] = attempt[t][n]
    PROVE  RowsStep
<1>1. /\ status \in [Task -> TaskStatus] /\ job \in [Job -> JobStatus] /\ JobOf[t] \in Job
      /\ \A u \in Task : Deps[u] \subseteq Task
  BY DEF RowsInv, IndInv, TypeOK, DbTypeOK, TablesAssumption
<1>2. /\ status'[t] = st /\ \A u \in Task : u # t => status'[u] = status[u]
      /\ job'[JobOf[t]] = js /\ \A j \in Job : j # JobOf[t] => job'[j] = job[j]
  BY <1>1
<1>3. job[JobOf[t]] \notin {"SUCCEEDED", "CANCELLED"}
  BY <1>1 DEF RowsInv, RowsAgree, JobAgrees, TasksOf
<1>4. WorkIsLeased'
  <2>1. ASSUME NEW u \in Task
        PROVE  WorkingTask(u)' <=> \E n \in AttemptNumber : attempt'[u][n] = "STARTED"
    <3>1. CASE u = t
      BY <1>2, <3>1 DEF WorkingTask
    <3>2. CASE u # t
      BY <1>2, <3>2, ActiveIsStarted DEF WorkingTask, RowsInv, RowsAgree, WorkIsLeased
    <3> QED
      BY <3>1, <3>2
  <2> QED
    BY <2>1 DEF WorkIsLeased, IndInv, LeaseFencing, OnlyLatestIsLive
<1>5. DagRespected'
  BY <1>1, <1>2 DEF DagRespected, RowsInv, RowsAgree
<1>6. JobAgrees'
  BY <1>1, <1>2, <1>3 DEF JobAgrees, TasksOf, RowsInv, RowsAgree
<1>7. CommitsHold'
  <2>1. ASSUME NEW c \in committing
        PROVE  /\ attempt'[c.task] = attempt[c.task]
               /\ \A u \in Task : JobOf[u] = JobOf[c.task] => status'[u] = status[u]
    <3>1. c.task \in Task /\ c.task # t
      BY DEF RowFree, RowsInv, IndInv, TypeOK, DbTypeOK, CompletionRecord
    <3>2. JobOf[t] # JobOf[c.task]
      BY <3>1, SiblingsRest
    <3> QED
      BY <1>2, <3>1, <3>2
  <2> QED
    BY <2>1, CommitsStay
<1>8. FinalStep
  <2>1. \A u \in Task, n \in AttemptNumber :
            attempt[u][n] \notin {"NONE", "STARTED"} => attempt'[u][n] = attempt[u][n]
    OBVIOUS
  <2>2. \A u \in Task : status[u] \in {"SUCCEEDED", "CANCELLED"} => status'[u] = status[u]
    BY <1>2
  <2>3. \A j \in Job : job[j] \in {"SUCCEEDED", "CANCELLED"} => job'[j] = job[j]
    BY <1>2, <1>3
  <2> QED
    BY <2>1, <2>2, <2>3 DEF FinalStep
<1>9. UnlockedFirst
  BY <1>2 DEF UnlockedFirst
<1> QED
  BY <1>4, <1>5, <1>6, <1>7, <1>8, <1>9 DEF RowsStep, RowsAgree

(* A completion is applied, at once or by its commit. *)
LEMMA Completes ==
    ASSUME RowsInv, IndInv', OneAtATime, NEW c \in CompletionRecord,
           Active(c.task, c.attempt), WritesHold(c), ApplyCompletion(c),
           committing' \subseteq committing, \A d \in committing' : d.task # c.task
    PROVE  /\ RowsStep
           /\ \A u \in Task : u # c.task =>
                  /\ attempt'[u] = attempt[u]
                  /\ status'[u] # status[u] =>
                         status[u] = "BLOCKED" /\ status'[u] \in {"WAITING", "READY"}
           /\ status'[c.task] = "SUCCEEDED"
<1> DEFINE t == c.task
           k == c.attempt
<1>1. /\ t \in Task /\ k \in AttemptNumber /\ c.unlock \subseteq Task /\ c.jobTo \in JobStatus
      /\ status \in [Task -> TaskStatus] /\ job \in [Job -> JobStatus] /\ JobOf[t] \in Job
      /\ attempt \in [Task -> [AttemptNumber -> AttemptStatus]]
  BY DEF RowsInv, IndInv, TypeOK, DbTypeOK, TablesAssumption, CompletionRecord
<1>2. \A u \in Task : Deps[u] \subseteq Task
  BY DEF TablesAssumption
<1>3. \A u \in Task : u \in c.unlock <=>
          /\ status[u] = "BLOCKED"
          /\ t \in Deps[u]
          /\ \A d \in Deps[u] : d # t => status[d] = "SUCCEEDED"
  BY DEF WritesHold
<1>4. status[t] = "RUNNING" /\ t \notin c.unlock
  BY <1>1, <1>3 DEF WritesHold
<1>5. /\ status'[t] = "SUCCEEDED"
      /\ \A u \in Task : /\ u \in c.unlock => status'[u] \in {"WAITING", "READY"}
                         /\ u \notin c.unlock /\ u # t => status'[u] = status[u]
  BY <1>1, <1>4 DEF ApplyCompletion, AfterUnlock
<1>6. /\ job'[JobOf[t]] = c.jobTo /\ \A j \in Job : j # JobOf[t] => job'[j] = job[j]
  BY <1>1 DEF ApplyCompletion
<1>7. /\ attempt'[t][k] = "SUCCEEDED"
      /\ \A n \in AttemptNumber : n # k => attempt'[t][n] = attempt[t][n]
      /\ \A u \in Task : u # t => attempt'[u] = attempt[u]
  BY <1>1 DEF ApplyCompletion
<1>8. /\ attempt[t][k] = "STARTED"
      /\ \A n \in AttemptNumber : n # k => attempt[t][n] # "STARTED"
  BY <1>1, ActiveIsStarted DEF RowsInv
<1>9. job[JobOf[t]] \notin {"SUCCEEDED", "CANCELLED"}
  BY <1>1, <1>4 DEF RowsInv, RowsAgree, JobAgrees, TasksOf
<1> HIDE DEF t, k
<1>10. WorkIsLeased'
  <2>1. ASSUME NEW u \in Task
        PROVE  WorkingTask(u)' <=> \E n \in AttemptNumber : attempt'[u][n] = "STARTED"
    <3>1. CASE u = t
      BY <1>5, <1>7, <1>8, <3>1 DEF WorkingTask
    <3>2. CASE u # t
      <4>1. WorkingTask(u) <=> \E n \in AttemptNumber : attempt[u][n] = "STARTED"
        BY ActiveIsStarted DEF RowsInv, RowsAgree, WorkIsLeased
      <4> QED
        BY <1>3, <1>5, <1>7, <3>2, <4>1 DEF WorkingTask
    <3> QED
      BY <3>1, <3>2
  <2> QED
    BY <2>1 DEF WorkIsLeased, IndInv, LeaseFencing, OnlyLatestIsLive
<1>11. DagRespected'
  <2> SUFFICES ASSUME NEW u \in Task, status'[u] # "CANCELLED"
               PROVE  status'[u] = "BLOCKED" <=> \E d \in Deps[u] : status'[d] # "SUCCEEDED"
    BY DEF DagRespected
  <2>1. status[u] # "CANCELLED" =>
            (status[u] = "BLOCKED" <=> \E d \in Deps[u] : status[d] # "SUCCEEDED")
    BY DEF RowsInv, RowsAgree, DagRespected
  <2>2. \A d \in Deps[u] : status'[d] = "SUCCEEDED" <=> (d = t \/ status[d] = "SUCCEEDED")
    BY <1>1, <1>2, <1>3, <1>5
  <2>3. CASE u = t
    BY <1>4, <1>5, <2>1, <2>2, <2>3
  <2>4. CASE u \in c.unlock
    BY <1>3, <1>5, <2>2, <2>4
  <2>5. CASE u # t /\ u \notin c.unlock
    <3>1. status'[u] = status[u]
      BY <1>5, <2>5
    <3> QED
      BY <1>3, <2>1, <2>2, <2>5, <3>1
  <2> QED
    BY <2>3, <2>4, <2>5
<1>12. JobAgrees'
  <2> SUFFICES ASSUME NEW j \in Job
               PROVE  /\ job'[j] = "SUCCEEDED" <=>
                             \A u \in TasksOf(j) : status'[u] = "SUCCEEDED"
                      /\ job'[j] = "CANCELLED" <=>
                             \E u \in TasksOf(j) : status'[u] = "CANCELLED"
                      /\ job'[j] = "CANCELLED" =>
                             \A u \in TasksOf(j) : status'[u] \in {"SUCCEEDED", "CANCELLED"}
    BY DEF JobAgrees
  <2>1. /\ job[j] = "SUCCEEDED" <=> \A u \in TasksOf(j) : status[u] = "SUCCEEDED"
        /\ job[j] = "CANCELLED" <=> \E u \in TasksOf(j) : status[u] = "CANCELLED"
        /\ job[j] = "CANCELLED" =>
               \A u \in TasksOf(j) : status[u] \in {"SUCCEEDED", "CANCELLED"}
    BY DEF RowsInv, RowsAgree, JobAgrees
  <2>2. \A u \in Task :
            /\ status'[u] = "CANCELLED" <=> status[u] = "CANCELLED"
            /\ u # t => (status'[u] = "SUCCEEDED" <=> status[u] = "SUCCEEDED")
    BY <1>3, <1>4, <1>5
  <2>3. CASE j = JobOf[t]
    <3>1. c.jobTo # "CANCELLED"
          /\ (c.jobTo = "SUCCEEDED" <=>
                 \A u \in TasksOf(j) : u # t => status[u] = "SUCCEEDED")
      BY <2>3 DEF WritesHold, t
    <3> QED
      BY <1>5, <1>6, <1>9, <2>1, <2>2, <2>3, <3>1 DEF TasksOf
  <2>4. CASE j # JobOf[t]
    <3>1. job'[j] = job[j]
      BY <1>6, <2>4
    <3>2. \A u \in TasksOf(j) : u \in Task /\ u # t
      BY <2>4 DEF TasksOf
    <3> QED
      BY <2>1, <2>2, <3>1, <3>2
  <2> QED
    BY <2>3, <2>4
<1>13. CommitsHold'
  <2>1. ASSUME NEW d \in committing'
        PROVE  /\ attempt'[d.task] = attempt[d.task]
               /\ \A u \in Task : JobOf[u] = JobOf[d.task] => status'[u] = status[u]
    <3>1. d \in committing /\ d.task \in Task /\ d.task # t /\ SplitCommit
      BY DEF RowsInv, IndInv, TypeOK, DbTypeOK, CompletionRecord, CommitsHold, t
    <3>2. JobOf[t] # JobOf[d.task]
      BY <1>1, <1>4, <3>1, SiblingsRest
    <3>3. \A u \in c.unlock : JobOf[u] = JobOf[t]
      BY <1>1, <1>3, <3>1 DEF OneAtATime
    <3> QED
      BY <1>5, <1>7, <3>1, <3>2, <3>3
  <2> QED
    BY <2>1, CommitsStay
<1>14. FinalStep
  <2>1. \A u \in Task, n \in AttemptNumber :
            attempt[u][n] \notin {"NONE", "STARTED"} => attempt'[u][n] = attempt[u][n]
    BY <1>7, <1>8
  <2>2. \A u \in Task : status[u] \in {"SUCCEEDED", "CANCELLED"} => status'[u] = status[u]
    BY <1>3, <1>4, <1>5
  <2>3. \A j \in Job : job[j] \in {"SUCCEEDED", "CANCELLED"} => job'[j] = job[j]
    BY <1>6, <1>9
  <2> QED
    BY <2>1, <2>2, <2>3 DEF FinalStep
<1>15. \A u \in Task : u # t =>
           /\ attempt'[u] = attempt[u]
           /\ status'[u] # status[u] =>
                  status[u] = "BLOCKED" /\ status'[u] \in {"WAITING", "READY"}
  BY <1>3, <1>5, <1>7
<1>16. UnlockedFirst
  BY <1>4, <1>15 DEF UnlockedFirst
<1> QED
  BY <1>5, <1>10, <1>11, <1>12, <1>13, <1>14, <1>15, <1>16 DEF RowsStep, RowsAgree, t

(* Cancelling a job ends what it has not finished, and nothing else. *)
LEMMA CancelEnds ==
    ASSUME RowsInv, IndInv', OneAtATime, NEW j \in Job, Cancel(j)
    PROVE  RowsStep
<1>1. /\ job[j] \in ActiveJobStatus /\ \A t \in Cancellable(j) : RowFree(t)
      /\ \A t \in Task : status'[t] = IF t \in Cancellable(j) THEN "CANCELLED" ELSE status[t]
      /\ \A t \in Task, n \in AttemptNumber :
             attempt'[t][n] = IF JobOf[t] = j /\ attempt[t][n] = "STARTED"
                              THEN "CANCELLED" ELSE attempt[t][n]
      /\ committing' = committing
      /\ attempt' = [t \in Task |-> [n \in AttemptNumber |-> attempt'[t][n]]]
  BY DEF Cancel, CancelRows
<1>2. job'[j] = "CANCELLED" /\ \A i \in Job : i # j => job'[i] = job[i]
  BY DEF Cancel, CancelRows, RowsInv, IndInv, TypeOK, DbTypeOK
<1>3. \A t \in Task : t \in Cancellable(j) <=>
          JobOf[t] = j /\ status[t] \notin {"SUCCEEDED", "CANCELLED"}
  BY DEF Cancellable, TasksOf
<1>4. \A t \in Task : Deps[t] \subseteq Task
  BY DEF TablesAssumption
<1>5. job[j] \notin {"SUCCEEDED", "CANCELLED"}
  BY <1>1 DEF ActiveJobStatus
<1>6. \A t \in Task : status'[t] = "SUCCEEDED" <=> status[t] = "SUCCEEDED"
  BY <1>1, <1>3
<1>7. WorkIsLeased'
  <2>1. ASSUME NEW t \in Task
        PROVE  WorkingTask(t)' <=> \E n \in AttemptNumber : attempt'[t][n] = "STARTED"
    <3>1. WorkingTask(t) <=> \E n \in AttemptNumber : attempt[t][n] = "STARTED"
      BY ActiveIsStarted DEF RowsInv, RowsAgree, WorkIsLeased
    <3>2. CASE JobOf[t] = j
      <4>1. status'[t] \in {"SUCCEEDED", "CANCELLED"}
        BY <1>1, <1>3, <3>2
      <4>2. \A n \in AttemptNumber : attempt'[t][n] # "STARTED"
        BY <1>1, <3>2
      <4> QED
        BY <4>1, <4>2 DEF WorkingTask
    <3>3. CASE JobOf[t] # j
      <4>1. status'[t] = status[t]
        BY <1>1, <1>3, <3>3
      <4>2. \A n \in AttemptNumber : attempt'[t][n] = attempt[t][n]
        BY <1>1, <3>3
      <4> QED
        BY <3>1, <4>1, <4>2 DEF WorkingTask
    <3> QED
      BY <3>2, <3>3
  <2> QED
    BY <2>1 DEF WorkIsLeased, IndInv, LeaseFencing, OnlyLatestIsLive
<1>8. DagRespected'
  <2> SUFFICES ASSUME NEW t \in Task, status'[t] # "CANCELLED"
               PROVE  status'[t] = "BLOCKED" <=> \E d \in Deps[t] : status'[d] # "SUCCEEDED"
    BY DEF DagRespected
  <2>1. status'[t] = status[t]
    BY <1>1
  <2>2. status[t] = "BLOCKED" <=> \E d \in Deps[t] : status[d] # "SUCCEEDED"
    BY <2>1 DEF RowsInv, RowsAgree, DagRespected
  <2> QED
    BY <1>4, <1>6, <2>1, <2>2
<1>9. JobAgrees'
  <2>1. ASSUME NEW i \in Job
        PROVE  /\ job[i] = "SUCCEEDED" <=> \A u \in TasksOf(i) : status[u] = "SUCCEEDED"
               /\ job[i] = "CANCELLED" <=> \E u \in TasksOf(i) : status[u] = "CANCELLED"
               /\ job[i] = "CANCELLED" =>
                      \A u \in TasksOf(i) : status[u] \in {"SUCCEEDED", "CANCELLED"}
    BY DEF RowsInv, RowsAgree, JobAgrees
  <2>2. PICK t \in TasksOf(j) : t \in Task /\ status[t] \notin {"SUCCEEDED", "CANCELLED"}
    BY <1>5, <2>1 DEF TasksOf
  <2>3. status'[t] = "CANCELLED"
    BY <1>1, <1>3, <2>2 DEF TasksOf
  <2>4. \A u \in TasksOf(j) : status'[u] \in {"SUCCEEDED", "CANCELLED"}
    BY <1>1, <1>3 DEF TasksOf
  <2>5. ASSUME NEW i \in Job, i # j
        PROVE  job'[i] = job[i] /\ \A u \in TasksOf(i) : status'[u] = status[u]
    BY <1>1, <1>2, <1>3, <2>5 DEF TasksOf
  <2>6. ASSUME NEW i \in Job
        PROVE  /\ job'[i] = "SUCCEEDED" <=> \A u \in TasksOf(i) : status'[u] = "SUCCEEDED"
               /\ job'[i] = "CANCELLED" <=> \E u \in TasksOf(i) : status'[u] = "CANCELLED"
               /\ job'[i] = "CANCELLED" =>
                      \A u \in TasksOf(i) : status'[u] \in {"SUCCEEDED", "CANCELLED"}
    <3>1. CASE i = j
      BY <1>2, <2>2, <2>3, <2>4, <3>1
    <3>2. CASE i # j
      BY <2>1, <2>5, <3>2
    <3> QED
      BY <3>1, <3>2
  <2> QED
    BY <2>6 DEF JobAgrees
<1>10. CommitsHold'
  <2>1. ASSUME NEW c \in committing'
        PROVE  /\ attempt'[c.task] = attempt[c.task]
               /\ \A u \in Task : JobOf[u] = JobOf[c.task] => status'[u] = status[u]
    <3>1. c \in committing /\ c.task \in Task /\ status[c.task] = "RUNNING"
      BY <1>1 DEF RowsInv, IndInv, TypeOK, DbTypeOK, CompletionRecord, CommitsHold, WritesHold
    <3>2. JobOf[c.task] # j
      BY <1>1, <1>3, <3>1 DEF RowFree
    <3>3. \A u \in Task : JobOf[u] = JobOf[c.task] => status'[u] = status[u]
      BY <1>1, <1>3, <3>2
    <3>4. attempt \in [Task -> [AttemptNumber -> AttemptStatus]]
          /\ attempt' \in [Task -> [AttemptNumber -> AttemptStatus]]
      BY DEF RowsInv, IndInv, TypeOK, DbTypeOK
    <3>5. \A n \in AttemptNumber : attempt'[c.task][n] = attempt[c.task][n]
      BY <1>1, <3>1, <3>2
    <3>6. attempt'[c.task] = attempt[c.task]
      BY <3>1, <3>4, <3>5
    <3> QED
      BY <3>3, <3>6
  <2> QED
    BY <1>1, <2>1, CommitsStay
<1>11. FinalStep
  <2>1. \A u \in Task, n \in AttemptNumber :
            attempt[u][n] \notin {"NONE", "STARTED"} => attempt'[u][n] = attempt[u][n]
    BY <1>1
  <2>2. \A u \in Task : status[u] \in {"SUCCEEDED", "CANCELLED"} => status'[u] = status[u]
    BY <1>1, <1>3
  <2>3. \A i \in Job : job[i] \in {"SUCCEEDED", "CANCELLED"} => job'[i] = job[i]
    BY <1>2, <1>5
  <2> QED
    BY <2>1, <2>2, <2>3 DEF FinalStep
<1>12. UnlockedFirst
  BY <1>6 DEF UnlockedFirst
<1> QED
  BY <1>7, <1>8, <1>9, <1>10, <1>11, <1>12 DEF RowsStep, RowsAgree

(* A step that moves no task; a completion may have read its siblings and *)
(* wait for its commit from here on.                                       *)
LEMMA NothingMoves ==
    ASSUME RowsInv, IndInv', UNCHANGED <<status, job, attempt>>,
           \/ committing' = committing
           \/ \E c \in CompletionRecord :
                 /\ committing' = committing \cup {c}
                 /\ RowFree(c.task) /\ SplitCommit /\ c.fence \in AttemptNumber
                 /\ Active(c.task, c.fence) /\ WritesHold(c)
    PROVE  RowsStep
<1>1. \A t \in Task, n \in AttemptNumber : Active(t, n)' <=> Active(t, n)
  BY ActiveIsStarted DEF RowsInv, IndInv, LeaseFencing, OnlyLatestIsLive
<1>2. RowsAgree'
  <2>1. WorkIsLeased'
    BY <1>1 DEF RowsInv, RowsAgree, WorkIsLeased, WorkingTask
  <2>2. DagRespected' /\ JobAgrees'
    BY DEF RowsInv, RowsAgree, DagRespected, JobAgrees
  <2> QED
    BY <2>1, <2>2 DEF RowsAgree
<1>3. ASSUME NEW c \in CompletionRecord, SplitCommit, c.fence \in AttemptNumber,
             Active(c.task, c.fence), WritesHold(c)
      PROVE  Active(c.task, c.fence)' /\ WritesHold(c)'
  <2>1. c.task \in Task
    BY DEF CompletionRecord
  <2> QED
    BY <1>1, <1>3, <2>1 DEF WritesHold
<1>4. committing \subseteq CompletionRecord
  BY DEF RowsInv, IndInv, TypeOK, DbTypeOK
<1>5. \A c \in committing : /\ SplitCommit /\ c.fence \in AttemptNumber
                            /\ Active(c.task, c.fence)' /\ WritesHold(c)'
  BY <1>3, <1>4 DEF RowsInv, CommitsHold
<1>6. CommitsHold'
  <2>1. CASE committing' = committing
    BY <1>5, <2>1 DEF RowsInv, CommitsHold
  <2>2. CASE committing' # committing
    <3>1. PICK c \in CompletionRecord :
              /\ committing' = committing \cup {c}
              /\ RowFree(c.task) /\ SplitCommit /\ c.fence \in AttemptNumber
              /\ Active(c.task, c.fence) /\ WritesHold(c)
      BY <2>2
    <3>2. Active(c.task, c.fence)' /\ WritesHold(c)'
      BY <1>3, <3>1
    <3>3. \A d, e \in committing' : d.task = e.task => d = e
      BY <3>1 DEF RowFree, RowsInv, CommitsHold
    <3>4. \A d \in committing' : /\ SplitCommit /\ d.fence \in AttemptNumber
                                 /\ Active(d.task, d.fence)' /\ WritesHold(d)'
      BY <1>5, <3>1, <3>2
    <3> QED
      BY <3>3, <3>4 DEF CommitsHold
  <2> QED
    BY <2>1, <2>2
<1>7. FinalStep
  BY DEF FinalStep
<1> QED
  BY <1>2, <1>6, <1>7 DEF RowsStep, UnlockedFirst

-----------------------------------------------------------------------------
(* The steps of FencedTask, seen from the rows. *)

HeldTask(t) == \E n \in AttemptNumber : Active(t, n)
AcceptedOf(t) == {n \in AttemptNumber : attempt[t][n] = "SUCCEEDED"}

ContractStep == [Contract!Next]_(Contract!taskVars)

(* A step that changes none of it is none of the contract's. *)
LEMMA HoldsNothingNew ==
    ASSUME attemptCount' = attemptCount,
           \A t \in Task : /\ HeldTask(t)' <=> HeldTask(t)
                           /\ OutcomeOf(t)' = OutcomeOf(t)
                           /\ AcceptedOf(t)' = AcceptedOf(t)
    PROVE  ContractStep
<1>1. [t \in Task |-> HeldTask(t)]' = [t \in Task |-> HeldTask(t)]
  <2>1. ASSUME NEW t \in Task PROVE HeldTask(t)' = HeldTask(t)
    BY Zenon DEF HeldTask
  <2> QED
    BY <2>1, Zenon
<1>2. [t \in Task |-> OutcomeOf(t)]' = [t \in Task |-> OutcomeOf(t)]
  OBVIOUS
<1>3. [t \in Task |-> AcceptedOf(t)]' = [t \in Task |-> AcceptedOf(t)]
  OBVIOUS
<1>4. UNCHANGED Contract!taskVars
  BY <1>1, <1>2, <1>3 DEF Contract!taskVars, HeldTask, AcceptedOf
<1> QED
  BY <1>4 DEF ContractStep

(* A claim is a grant under the next token. *)
LEMMA ClaimGrants ==
    ASSUME NEW t \in Task, OutcomeOf(t) = "open", ~HeldTask(t), attemptCount[t] < AttemptBound,
           attemptCount' = [attemptCount EXCEPT ![t] = attemptCount[t] + 1],
           \A u \in Task : /\ HeldTask(u)' <=> (HeldTask(u) \/ u = t)
                           /\ OutcomeOf(u)' = OutcomeOf(u)
                           /\ AcceptedOf(u)' = AcceptedOf(u)
    PROVE  ContractStep
<1>1. [u \in Task |-> HeldTask(u)]' = [[u \in Task |-> HeldTask(u)] EXCEPT ![t] = TRUE]
  <2>1. ASSUME NEW u \in Task PROVE HeldTask(u)' = IF u = t THEN TRUE ELSE HeldTask(u)
    BY Zenon DEF HeldTask
  <2>2. [u \in Task |-> HeldTask(u)]' = [u \in Task |-> IF u = t THEN TRUE ELSE HeldTask(u)]
    BY <2>1, Zenon
  <2> QED
    BY <2>2
<1>2. [u \in Task |-> OutcomeOf(u)]' = [u \in Task |-> OutcomeOf(u)]
  OBVIOUS
<1>3. [u \in Task |-> AcceptedOf(u)]' = [u \in Task |-> AcceptedOf(u)]
  OBVIOUS
<1>4. [u \in Task |-> OutcomeOf(u)][t] = "open" /\ ~[u \in Task |-> HeldTask(u)][t]
  OBVIOUS
<1>5. attemptCount' = [attemptCount EXCEPT ![t] = @ + 1]
  OBVIOUS
<1>6. Contract!Grant(t)
  BY <1>1, <1>2, <1>3, <1>4, <1>5 DEF Contract!Grant, HeldTask, AcceptedOf
<1> QED
  BY <1>6 DEF ContractStep, Contract!Next

(* A grant ends, and the task with it: with a result, or without. *)
LEMMA GrantEnds ==
    ASSUME NEW t \in Task, NEW o, HeldTask(t), attemptCount' = attemptCount,
           OutcomeOf(t)' = o, ~HeldTask(t)',
           \A u \in Task : u # t => /\ HeldTask(u)' <=> HeldTask(u)
                                    /\ OutcomeOf(u)' = OutcomeOf(u)
    PROVE  /\ [u \in Task |-> HeldTask(u)]' = [[u \in Task |-> HeldTask(u)] EXCEPT ![t] = FALSE]
           /\ [u \in Task |-> OutcomeOf(u)]' = [[u \in Task |-> OutcomeOf(u)] EXCEPT ![t] = o]
           /\ [u \in Task |-> HeldTask(u)][t]
<1>1. [u \in Task |-> HeldTask(u)]' = [[u \in Task |-> HeldTask(u)] EXCEPT ![t] = FALSE]
  <2>1. ASSUME NEW u \in Task PROVE HeldTask(u)' = IF u = t THEN FALSE ELSE HeldTask(u)
    <3>1. CASE u = t
      BY <3>1, Zenon DEF HeldTask
    <3>2. CASE u # t
      BY <3>2, Zenon DEF HeldTask
    <3> QED
      BY <3>1, <3>2, Zenon
  <2>2. [u \in Task |-> HeldTask(u)]' = [u \in Task |-> IF u = t THEN FALSE ELSE HeldTask(u)]
    BY <2>1, Zenon
  <2> QED
    BY <2>2
<1>2. [u \in Task |-> OutcomeOf(u)]' = [[u \in Task |-> OutcomeOf(u)] EXCEPT ![t] = o]
  OBVIOUS
<1> QED
  BY <1>1, <1>2

(* A completion accepts the result of the latest token. *)
LEMMA CompletionAccepts ==
    ASSUME NEW t \in Task, HeldTask(t), attemptCount' = attemptCount,
           OutcomeOf(t)' = "accepted", ~HeldTask(t)',
           AcceptedOf(t)' = AcceptedOf(t) \cup {attemptCount[t]},
           \A u \in Task : u # t => /\ HeldTask(u)' <=> HeldTask(u)
                                    /\ OutcomeOf(u)' = OutcomeOf(u)
                                    /\ AcceptedOf(u)' = AcceptedOf(u)
    PROVE  ContractStep
<1>1. [u \in Task |-> AcceptedOf(u)]'
          = [[u \in Task |-> AcceptedOf(u)] EXCEPT ![t] = @ \cup {attemptCount[t]}]
  OBVIOUS
<1>2. Contract!Accept(t)
  BY <1>1, GrantEnds DEF Contract!Accept, HeldTask, AcceptedOf
<1> QED
  BY <1>2 DEF ContractStep, Contract!Next

(* A failure, or a reaped lease, gives the task back. *)
LEMMA EndGivesBack ==
    ASSUME NEW t \in Task, NEW o \in {"open", "refused"}, HeldTask(t),
           attemptCount' = attemptCount,
           OutcomeOf(t)' = o, ~HeldTask(t)',
           \A u \in Task : /\ AcceptedOf(u)' = AcceptedOf(u)
                           /\ u # t => /\ HeldTask(u)' <=> HeldTask(u)
                                       /\ OutcomeOf(u)' = OutcomeOf(u)
    PROVE  ContractStep
<1>1. [u \in Task |-> AcceptedOf(u)]' = [u \in Task |-> AcceptedOf(u)]
  OBVIOUS
<1>2. Contract!GiveBack(t, o)
  BY <1>1, GrantEnds DEF Contract!GiveBack, HeldTask, AcceptedOf
<1>3. o \in Contract!Outcome
  BY DEF Contract!Outcome
<1> QED
  BY <1>2, <1>3 DEF ContractStep, Contract!Next

(* A cancel withdraws the tasks it ends. *)
LEMMA CancelWithdraws ==
    ASSUME NEW ts \in SUBSET Task, attemptCount' = attemptCount,
           \A t \in ts : OutcomeOf(t) \in {"open", "refused"} /\ OutcomeOf(t)' = "withdrawn",
           \A u \in Task : /\ AcceptedOf(u)' = AcceptedOf(u)
                           /\ HeldTask(u)' <=> HeldTask(u) /\ u \notin ts
                           /\ u \notin ts => OutcomeOf(u)' = OutcomeOf(u)
    PROVE  ContractStep
<1>1. [u \in Task |-> HeldTask(u)]'
          = [u \in Task |-> [v \in Task |-> HeldTask(v)][u] /\ u \notin ts]
  <2>1. ASSUME NEW u \in Task
        PROVE  HeldTask(u)' = ([v \in Task |-> HeldTask(v)][u] /\ u \notin ts)
    <3>1. [v \in Task |-> HeldTask(v)][u] = HeldTask(u)
      OBVIOUS
    <3>2. HeldTask(u)' = (HeldTask(u) /\ u \notin ts)
      BY Zenon DEF HeldTask
    <3> QED
      BY <3>1, <3>2, Zenon
  <2> QED
    BY <2>1, Zenon
<1>2. [u \in Task |-> OutcomeOf(u)]'
          = [u \in Task |-> IF u \in ts THEN "withdrawn" ELSE [v \in Task |-> OutcomeOf(v)][u]]
  OBVIOUS
<1>3. [u \in Task |-> AcceptedOf(u)]' = [u \in Task |-> AcceptedOf(u)]
  OBVIOUS
<1>4. \A t \in ts : [v \in Task |-> OutcomeOf(v)][t] \in {"open", "refused"}
  OBVIOUS
<1>5. Contract!Withdraw(ts)
  BY <1>1, <1>2, <1>3, <1>4 DEF Contract!Withdraw, HeldTask, AcceptedOf
<1> QED
  BY <1>5 DEF ContractStep, Contract!Next

(* A manual retry opens a refused task again. *)
LEMMA RetryReopens ==
    ASSUME NEW t \in Task, attemptCount' = attemptCount,
           OutcomeOf(t) = "refused", OutcomeOf(t)' = "open",
           \A u \in Task : /\ AcceptedOf(u)' = AcceptedOf(u)
                           /\ HeldTask(u)' <=> HeldTask(u)
                           /\ u # t => OutcomeOf(u)' = OutcomeOf(u)
    PROVE  ContractStep
<1>1. [u \in Task |-> HeldTask(u)]' = [u \in Task |-> HeldTask(u)]
  <2>1. ASSUME NEW u \in Task PROVE HeldTask(u)' = HeldTask(u)
    BY Zenon DEF HeldTask
  <2> QED
    BY <2>1, Zenon
<1>2. [u \in Task |-> OutcomeOf(u)]' = [[u \in Task |-> OutcomeOf(u)] EXCEPT ![t] = "open"]
  OBVIOUS
<1>3. [u \in Task |-> AcceptedOf(u)]' = [u \in Task |-> AcceptedOf(u)]
  OBVIOUS
<1>4. [u \in Task |-> OutcomeOf(u)][t] = "refused"
  OBVIOUS
<1>5. Contract!Reopen(t)
  BY <1>1, <1>2, <1>3, <1>4 DEF Contract!Reopen, HeldTask, AcceptedOf
<1> QED
  BY <1>5 DEF ContractStep, Contract!Next

-----------------------------------------------------------------------------
(* The actions. *)

(* What is held follows from the attempts, before and after a step. *)
LEMMA HeldIsStarted ==
    ASSUME IndInv, IndInv', NEW t \in Task
    PROVE  /\ HeldTask(t) <=> \E n \in AttemptNumber : attempt[t][n] = "STARTED"
           /\ HeldTask(t)' <=> \E n \in AttemptNumber : attempt'[t][n] = "STARTED"
BY DEF HeldTask, IndInv, LeaseFencing, OnlyLatestIsLive

(* Only attempts that are counted are made or ended. *)
LEMMA CountedAttempts ==
    ASSUME RowsInv, IndInv',
           \A t \in Task : attemptCount'[t] >= attemptCount[t],
           \A t \in Task, n \in AttemptNumber :
               attempt'[t][n] = attempt[t][n] \/ n <= attemptCount'[t]
    PROVE  UncountedIsNone'
<1>1. \A t \in Task : attemptCount[t] \in Nat /\ attemptCount'[t] \in Nat
  BY DEF RowsInv, IndInv, TypeOK, DbTypeOK
<1> QED
  BY <1>1 DEF RowsInv, UncountedIsNone, AttemptNumber

(* A claim. *)
LEMMA ClaimRows ==
    ASSUME RowsInv, IndInv', OneAtATime, NEW s \in Session, NEW t \in Task, Claim(s, t)
    PROVE  RowsStep /\ ContractStep /\ UncountedIsNone'
<1> DEFINE k == attemptCount[t] + 1
<1>1. /\ attemptCount[t] \in 0..AttemptBound /\ maxAttempts[t] \in 1..AttemptBound
      /\ attemptCount[t] < maxAttempts[t]
      /\ attemptCount \in [Task -> 0..AttemptBound]
      /\ attempt \in [Task -> [AttemptNumber -> AttemptStatus]]
      /\ status \in [Task -> TaskStatus]
  BY DEF Claim, HasBudget, RowsInv, IndInv, TypeOK, DbTypeOK
<1>2. k \in AttemptNumber /\ attemptCount[t] < AttemptBound
  BY <1>1 DEF AttemptNumber, BoundsAssumption
<1>3. /\ attempt' = [attempt EXCEPT ![t][k] = "STARTED"]
      /\ attemptCount' = [attemptCount EXCEPT ![t] = k]
      /\ status' = [status EXCEPT ![t] = "LEASED"]
      /\ job' = [job EXCEPT ![JobOf[t]] = "RUNNING"]
      /\ status[t] = "READY" /\ RowFree(t) /\ committing' = committing
      /\ \A n \in AttemptNumber : ~Active(t, n)
  BY DEF Claim
<1>4. /\ attempt[t][k] = "NONE" /\ attempt'[t][k] = "STARTED"
      /\ \A n \in AttemptNumber : n # k => attempt'[t][n] = attempt[t][n]
      /\ \A u \in Task : u # t => attempt'[u] = attempt[u]
      /\ attemptCount'[t] = k /\ \A u \in Task : u # t => attemptCount'[u] = attemptCount[u]
      /\ status'[t] = "LEASED" /\ \A u \in Task : u # t => status'[u] = status[u]
  BY <1>1, <1>2, <1>3 DEF RowsInv, UncountedIsNone
<1> HIDE DEF k
<1>5. RowsStep
  <2>1. \E n \in AttemptNumber : attempt'[t][n] = "STARTED"
    BY <1>2, <1>4
  <2>2. \A n \in AttemptNumber :
            attempt[t][n] \notin {"NONE", "STARTED"} => attempt'[t][n] = attempt[t][n]
    BY <1>4
  <2>3. \A u \in Task : u # t => attempt'[u] = attempt[u]
    BY <1>4
  <2> DEFINE st == "LEASED"
             js == "RUNNING"
  <2>4. /\ st \in {"READY", "LEASED", "RUNNING", "FAILED"} /\ js \notin {"SUCCEEDED", "CANCELLED"}
        /\ st \in {"LEASED", "RUNNING"}
        /\ status[t] \in {"READY", "LEASED", "RUNNING", "FAILED"}
        /\ status' = [status EXCEPT ![t] = st]
        /\ job' = [job EXCEPT ![JobOf[t]] = js]
    BY <1>3
  <2> HIDE DEF st, js
  <2> QED
    BY <1>3, <2>1, <2>2, <2>3, <2>4, TaskMoves
<1>6. ContractStep
  <2>1. OutcomeOf(t) = "open" /\ OutcomeOf(t)' = "open" /\ ~HeldTask(t)
    BY <1>3, <1>4 DEF OutcomeOf, HeldTask
  <2>2. HeldTask(t)' /\ \A u \in Task : u # t => (HeldTask(u)' <=> HeldTask(u))
    BY <1>2, <1>4, HeldIsStarted DEF RowsInv
  <2>3. \A u \in Task : OutcomeOf(u)' = OutcomeOf(u)
    BY <1>4, <2>1 DEF OutcomeOf
  <2>4. \A u \in Task : AcceptedOf(u)' = AcceptedOf(u)
    BY <1>4 DEF AcceptedOf
  <2>5. attemptCount' = [attemptCount EXCEPT ![t] = attemptCount[t] + 1]
    BY <1>3 DEF k
  <2> QED
    BY <1>2, <2>1, <2>2, <2>3, <2>4, <2>5, ClaimGrants
<1>7. UncountedIsNone'
  <2>1. \A u \in Task : attemptCount'[u] >= attemptCount[u]
    BY <1>1, <1>4 DEF k
  <2>2. \A u \in Task, n \in AttemptNumber :
            attempt'[u][n] = attempt[u][n] \/ n <= attemptCount'[u]
    BY <1>2, <1>4 DEF AttemptNumber
  <2> QED
    BY <2>1, <2>2, CountedAttempts
<1> QED
  BY <1>5, <1>6, <1>7

(* A step that moves no task, and one that starts one. *)
LEMMA QuietRows ==
    ASSUME RowsInv, IndInv', RowsStep, UNCHANGED <<attempt, attemptCount>>,
           \A t \in Task : status'[t] = status[t] \/ {status[t], status'[t]} = {"LEASED", "RUNNING"}
    PROVE  ContractStep /\ UncountedIsNone'
<1>1. \A t \in Task : HeldTask(t)' <=> HeldTask(t)
  BY HeldIsStarted DEF RowsInv
<1>2. \A t \in Task : OutcomeOf(t)' = OutcomeOf(t) /\ AcceptedOf(t)' = AcceptedOf(t)
  BY DEF OutcomeOf, AcceptedOf
<1>3. ContractStep
  BY <1>1, <1>2, HoldsNothingNew
<1> QED
  BY <1>3 DEF RowsInv, UncountedIsNone

(* A start. *)
LEMMA StartRows ==
    ASSUME RowsInv, IndInv', OneAtATime, NEW c \in Call, RowFree(c.task), Start(c),
           status[c.task] = "LEASED"
    PROVE  RowsStep /\ ContractStep /\ UncountedIsNone'
<1> DEFINE t == c.task
<1>1. /\ t \in Task /\ JobOf[t] \in Job
      /\ status \in [Task -> TaskStatus] /\ job \in [Job -> JobStatus]
  BY DEF Call, RowsInv, IndInv, TypeOK, DbTypeOK, TablesAssumption
<1>2. /\ status' = [status EXCEPT ![t] = "RUNNING"]
      /\ UNCHANGED <<attempt, attemptCount, job, committing>>
  BY DEF Start
<1>3. job[JobOf[t]] \notin {"SUCCEEDED", "CANCELLED"}
  BY <1>1 DEF RowsInv, RowsAgree, JobAgrees, TasksOf
<1>4. job' = [job EXCEPT ![JobOf[t]] = job[JobOf[t]]]
  BY <1>1, <1>2
<1>5. \E n \in AttemptNumber : attempt'[t][n] = "STARTED"
  BY <1>1, <1>2, ActiveIsStarted DEF RowsInv, RowsAgree, WorkIsLeased, WorkingTask
<1> HIDE DEF t
<1>6. RowsStep
  BY <1>1, <1>2, <1>3, <1>4, <1>5, TaskMoves DEF t
<1>7. \A u \in Task : status'[u] = status[u] \/ {status[u], status'[u]} = {"LEASED", "RUNNING"}
  BY <1>1, <1>2 DEF t
<1> QED
  BY <1>2, <1>6, <1>7, QuietRows

(* A failure, or a reaped lease: the attempt ends, and is retried or not. *)
LEMMA EndRows ==
    ASSUME RowsInv, IndInv', OneAtATime, NEW c \in Call, RowFree(c.task),
           Active(c.task, c.fence), NEW r \in {"FAILED", "TIMED_OUT"}, EndAttempt(c, r)
    PROVE  RowsStep /\ ContractStep /\ UncountedIsNone'
<1> DEFINE t == c.task
           n == c.fence
           st == IF c.retry THEN "READY" ELSE "FAILED"
           js == IF c.retry THEN "WAITING_FOR_GPU" ELSE "FAILED"
           o == IF c.retry THEN "open" ELSE "refused"
<1>1. /\ t \in Task /\ n \in AttemptNumber
      /\ status \in [Task -> TaskStatus] /\ attempt \in [Task -> [AttemptNumber -> AttemptStatus]]
  BY DEF Call, RowsInv, IndInv, TypeOK, DbTypeOK
<1>2. AttemptOf(c) = n /\ n = attemptCount[t]
  BY <1>1, ActiveIsStarted DEF RowsInv, IndInv, LeaseFencing, TokensAreAttempts, AttemptOf, Active,
                              AttemptNumber
<1>3. /\ attempt[t][n] = "STARTED"
      /\ \A m \in AttemptNumber : m # n => attempt[t][m] # "STARTED"
  BY <1>1, <1>2, ActiveIsStarted DEF RowsInv
<1>4. /\ status' = [status EXCEPT ![t] = st]
      /\ job' = [job EXCEPT ![JobOf[t]] = js]
      /\ attempt' = [attempt EXCEPT ![t][n] = r]
      /\ UNCHANGED <<attemptCount, committing>>
  BY <1>2 DEF EndAttempt
<1>5. /\ attempt'[t][n] = r
      /\ \A m \in AttemptNumber : m # n => attempt'[t][m] = attempt[t][m]
      /\ \A u \in Task : u # t => attempt'[u] = attempt[u]
      /\ status'[t] = st /\ \A u \in Task : u # t => status'[u] = status[u]
  BY <1>1, <1>4
<1>6. status[t] \in {"LEASED", "RUNNING"}
  BY <1>1 DEF RowsInv, RowsAgree, WorkIsLeased, WorkingTask
<1>7. st \in {"READY", "FAILED"} /\ js \notin {"SUCCEEDED", "CANCELLED"} /\ RowFree(t)
  OBVIOUS
<1>8. /\ \A m \in AttemptNumber : attempt'[t][m] # "STARTED"
      /\ \A m \in AttemptNumber :
             attempt[t][m] \notin {"NONE", "STARTED"} => attempt'[t][m] = attempt[t][m]
  BY <1>3, <1>5
<1>9. o \in {"open", "refused"} /\ OutcomeOf(t)' = o
  BY <1>5 DEF OutcomeOf
<1> HIDE DEF t, n, st, js, o
<1>10. RowsStep
  BY <1>1, <1>4, <1>5, <1>6, <1>7, <1>8, TaskMoves
<1>11. ContractStep
  <2>1. HeldTask(t) /\ ~HeldTask(t)'
    BY <1>1, <1>3, <1>8, HeldIsStarted DEF RowsInv
  <2>2. \A u \in Task : u # t => /\ HeldTask(u)' <=> HeldTask(u)
                                 /\ OutcomeOf(u)' = OutcomeOf(u)
    BY <1>5, HeldIsStarted DEF RowsInv, OutcomeOf
  <2>3. ASSUME NEW u \in Task PROVE AcceptedOf(u)' = AcceptedOf(u)
    <3>1. \A m \in AttemptNumber : attempt'[u][m] = "SUCCEEDED" <=> attempt[u][m] = "SUCCEEDED"
      BY <1>1, <1>3, <1>5
    <3> QED
      BY <3>1 DEF AcceptedOf
  <2> QED
    BY <1>1, <1>4, <1>9, <2>1, <2>2, <2>3, EndGivesBack
<1>12. UncountedIsNone'
  <2>1. \A u \in Task : attemptCount'[u] = attemptCount[u] /\ attemptCount[u] \in Nat
    BY <1>4 DEF RowsInv, IndInv, TypeOK, DbTypeOK
  <2>2. \A u \in Task, m \in AttemptNumber :
            attempt'[u][m] = attempt[u][m] \/ m <= attemptCount'[u]
    <3>1. n <= attemptCount'[t]
      BY <1>1, <1>2, <2>1
    <3> QED
      BY <1>5, <3>1
  <2> QED
    BY <2>1, <2>2, CountedAttempts
<1> QED
  BY <1>10, <1>11, <1>12

(* A completion, at once or by its commit. *)
LEMMA CompleteRows ==
    ASSUME RowsInv, IndInv', OneAtATime, NEW c \in CompletionRecord,
           Active(c.task, c.attempt), WritesHold(c), ApplyCompletion(c),
           committing' \subseteq committing, \A d \in committing' : d.task # c.task
    PROVE  RowsStep /\ ContractStep /\ UncountedIsNone'
<1> DEFINE t == c.task
           n == c.attempt
<1>1. /\ t \in Task /\ n \in AttemptNumber /\ n = attemptCount[t]
      /\ attempt[t][n] = "STARTED"
      /\ \A m \in AttemptNumber : m # n => attempt[t][m] # "STARTED"
      /\ attempt \in [Task -> [AttemptNumber -> AttemptStatus]]
  BY ActiveIsStarted DEF CompletionRecord, RowsInv, IndInv, TypeOK, DbTypeOK
<1>2. /\ RowsStep
      /\ \A u \in Task : u # t =>
             /\ attempt'[u] = attempt[u]
             /\ status'[u] # status[u] =>
                    status[u] = "BLOCKED" /\ status'[u] \in {"WAITING", "READY"}
      /\ status'[t] = "SUCCEEDED"
  BY Completes
<1>3. /\ attempt'[t][n] = "SUCCEEDED" /\ attemptCount' = attemptCount
      /\ \A m \in AttemptNumber : m # n => attempt'[t][m] = attempt[t][m]
  BY <1>1 DEF ApplyCompletion
<1> HIDE DEF t, n
<1>4. ContractStep
  <2>0. \A m \in AttemptNumber : attempt'[t][m] # "STARTED"
    BY <1>1, <1>3
  <2>1. HeldTask(t) /\ ~HeldTask(t)'
    BY <1>1, <2>0, HeldIsStarted DEF RowsInv
  <2>2. OutcomeOf(t)' = "accepted"
    BY <1>2 DEF OutcomeOf
  <2>3. \A u \in Task : u # t => OutcomeOf(u)' = OutcomeOf(u)
    BY <1>2 DEF OutcomeOf
  <2>4. \A u \in Task : u # t => /\ HeldTask(u)' <=> HeldTask(u)
                                 /\ AcceptedOf(u)' = AcceptedOf(u)
    BY <1>2, HeldIsStarted DEF RowsInv, AcceptedOf
  <2>5. AcceptedOf(t)' = AcceptedOf(t) \cup {attemptCount[t]}
    BY <1>1, <1>3 DEF AcceptedOf
  <2> QED
    BY <1>1, <1>3, <2>1, <2>2, <2>3, <2>4, <2>5, CompletionAccepts
<1>5. UncountedIsNone'
  <2>1. \A u \in Task : attemptCount'[u] = attemptCount[u] /\ attemptCount[u] \in Nat
    BY <1>3 DEF RowsInv, IndInv, TypeOK, DbTypeOK
  <2>2. \A u \in Task, m \in AttemptNumber :
            attempt'[u][m] = attempt[u][m] \/ m <= attemptCount'[u]
    BY <1>1, <1>2, <1>3, <2>1 DEF AttemptNumber
  <2> QED
    BY <2>1, <2>2, CountedAttempts
<1> QED
  BY <1>2, <1>4, <1>5

(* A cancel. *)
LEMMA CancelRowsStep ==
    ASSUME RowsInv, IndInv', OneAtATime, NEW j \in Job, Cancel(j)
    PROVE  RowsStep /\ ContractStep /\ UncountedIsNone'
<1>1. /\ \A t \in Task : status'[t] = IF t \in Cancellable(j) THEN "CANCELLED" ELSE status[t]
      /\ \A t \in Task, n \in AttemptNumber :
             attempt'[t][n] = IF JobOf[t] = j /\ attempt[t][n] = "STARTED"
                              THEN "CANCELLED" ELSE attempt[t][n]
      /\ attemptCount' = attemptCount
  BY DEF Cancel, CancelRows
<1>2. \A t \in Task : t \in Cancellable(j) <=>
          JobOf[t] = j /\ status[t] \notin {"SUCCEEDED", "CANCELLED"}
  BY DEF Cancellable, TasksOf
<1>3. \A t \in Task : WorkingTask(t) <=> \E n \in AttemptNumber : attempt[t][n] = "STARTED"
  BY ActiveIsStarted DEF RowsInv, RowsAgree, WorkIsLeased
<1>4. RowsStep
  BY CancelEnds
<1>5. ContractStep
  <2>1. ASSUME NEW t \in Task
        PROVE  /\ AcceptedOf(t)' = AcceptedOf(t)
               /\ HeldTask(t)' <=> HeldTask(t) /\ t \notin Cancellable(j)
    <3>1. AcceptedOf(t)' = AcceptedOf(t)
      BY <1>1 DEF AcceptedOf
    <3>2. HeldTask(t) <=> \E n \in AttemptNumber : attempt[t][n] = "STARTED"
      BY HeldIsStarted DEF RowsInv
    <3>3. HeldTask(t)' <=> \E n \in AttemptNumber : attempt'[t][n] = "STARTED"
      BY HeldIsStarted DEF RowsInv
    <3>4. CASE JobOf[t] = j
      <4>1. ~HeldTask(t)'
        BY <1>1, <3>3, <3>4
      <4>2. HeldTask(t) => t \in Cancellable(j)
        BY <1>2, <1>3, <3>2, <3>4 DEF WorkingTask
      <4> QED
        BY <3>1, <4>1, <4>2
    <3>5. CASE JobOf[t] # j
      <4>1. t \notin Cancellable(j)
        BY <1>2, <3>5
      <4>2. HeldTask(t)' <=> HeldTask(t)
        BY <1>1, <3>2, <3>3, <3>5
      <4> QED
        BY <3>1, <4>1, <4>2
    <3> QED
      BY <3>4, <3>5
  <2>2. \A t \in Task : t \notin Cancellable(j) => OutcomeOf(t)' = OutcomeOf(t)
    BY <1>1 DEF OutcomeOf
  <2>3. \A t \in Cancellable(j) :
            OutcomeOf(t) \in {"open", "refused"} /\ OutcomeOf(t)' = "withdrawn"
    BY <1>1, <1>2 DEF OutcomeOf, Cancellable, TasksOf
  <2>4. Cancellable(j) \in SUBSET Task
    BY DEF Cancellable, TasksOf
  <2> QED
    BY <1>1, <2>1, <2>2, <2>3, <2>4, CancelWithdraws
<1>6. UncountedIsNone'
  BY <1>1 DEF RowsInv, UncountedIsNone
<1> QED
  BY <1>4, <1>5, <1>6

(* A manual retry. *)
LEMMA RetryRowsStep ==
    ASSUME RowsInv, IndInv', OneAtATime, NEW t \in Task, Retry(t)
    PROVE  RowsStep /\ ContractStep /\ UncountedIsNone'
<1>1. /\ status[t] = "FAILED" /\ RowFree(t)
      /\ status' = [status EXCEPT ![t] = "READY"]
      /\ job' = [job EXCEPT ![JobOf[t]] = "QUEUED"]
      /\ UNCHANGED <<attempt, attemptCount, committing>>
  BY DEF Retry, RetryRows
<1>2. \A n \in AttemptNumber : attempt[t][n] # "STARTED"
  BY <1>1, ActiveIsStarted DEF RowsInv, RowsAgree, WorkIsLeased, WorkingTask
<1>3. status'[t] = "READY" /\ \A u \in Task : u # t => status'[u] = status[u]
  BY <1>1 DEF RowsInv, IndInv, TypeOK, DbTypeOK
<1>4. RowsStep
  <2> DEFINE st == "READY"
             js == "QUEUED"
  <2>1. /\ st \in {"READY", "LEASED", "RUNNING", "FAILED"} /\ js \notin {"SUCCEEDED", "CANCELLED"}
        /\ st \notin {"LEASED", "RUNNING"}
        /\ status[t] \in {"READY", "LEASED", "RUNNING", "FAILED"}
        /\ status' = [status EXCEPT ![t] = st]
        /\ job' = [job EXCEPT ![JobOf[t]] = js]
    BY <1>1
  <2> HIDE DEF st, js
  <2> QED
    BY <1>1, <1>2, <2>1, TaskMoves
<1>5. ContractStep
  <2>1. OutcomeOf(t) = "refused" /\ OutcomeOf(t)' = "open"
    BY <1>1, <1>3 DEF OutcomeOf
  <2>2. \A u \in Task : u # t => OutcomeOf(u)' = OutcomeOf(u)
    BY <1>3 DEF OutcomeOf
  <2>3. \A u \in Task : /\ AcceptedOf(u)' = AcceptedOf(u)
                        /\ HeldTask(u)' <=> HeldTask(u)
    BY <1>1, HeldIsStarted DEF RowsInv, AcceptedOf
  <2> QED
    BY <1>1, <2>1, <2>2, <2>3, RetryReopens
<1>6. UncountedIsNone'
  BY <1>1 DEF RowsInv, UncountedIsNone
<1> QED
  BY <1>4, <1>5, <1>6

-----------------------------------------------------------------------------
(* The handlers. *)

(* What a handler writes, at once or later. *)
LEMMA WriteRows ==
    ASSUME RowsInv, IndInv', OneAtATime, NEW c \in Call, RowFree(c.task), Write(c),
           c.op = "start" => status[c.task] = "LEASED",
           c.op \in {"complete", "fail"} => Active(c.task, c.fence),
           c.op = "complete" => status[c.task] = "RUNNING"
    PROVE  RowsStep /\ ContractStep /\ UncountedIsNone'
<1>1. TypeOK /\ c.task \in Task /\ c.fence \in AttemptNumber
  BY DEF RowsInv, IndInv, Call
<1>2. ASSUME UNCHANGED <<status, job, attempt, attemptCount, committing>>
      PROVE  RowsStep /\ ContractStep /\ UncountedIsNone'
  <2>1. RowsStep
    BY <1>2, NothingMoves
  <2> QED
    BY <1>2, <2>1, QuietRows
<1>3. Active(c.task, c.fence) => AttemptOf(c) = c.fence
  BY <1>1, ActiveIsStarted
     DEF RowsInv, IndInv, LeaseFencing, TokensAreAttempts, AttemptOf, Active, AttemptNumber
<1> DEFINE new == Completion(c.task, AttemptOf(c), c.fence)
<1>4. c.op = "complete" =>
          /\ new \in CompletionRecord /\ WritesHold(new) /\ Active(new.task, new.attempt)
          /\ new.task = c.task /\ new.fence = c.fence /\ SplitCommit \in BOOLEAN
  BY <1>1, <1>3, CompletionType, CompletionHolds DEF BoundsAssumption
<1>5. CASE Start(c)
  BY <1>5, StartRows DEF Start
<1>6. CASE Renew(c) \/ Progress(c) \/ ReapNothing(c)
  BY <1>2, <1>6 DEF Renew, Progress, ReapNothing, dbVars
<1>7. CASE Complete(c)
  <2>1. c.op = "complete" /\ ApplyCompletion(new) /\ committing' = committing
    BY <1>7 DEF Complete
  <2>2. \A d \in committing' : d.task # new.task
    BY <1>4, <2>1 DEF RowFree
  <2> HIDE DEF new
  <2> QED
    BY <1>4, <2>1, <2>2, CompleteRows
<1>8. CASE BeginCommit(c)
  <2>1. /\ c.op = "complete" /\ SplitCommit /\ committing' = committing \cup {new}
        /\ UNCHANGED <<status, job, attempt, attemptCount>>
    BY <1>8 DEF BeginCommit
  <2> HIDE DEF new
  <2>2. /\ RowFree(new.task) /\ new.fence \in AttemptNumber /\ Active(new.task, new.fence)
        /\ new \in CompletionRecord /\ WritesHold(new)
    BY <1>1, <1>4, <2>1
  <2>3. RowsStep
    BY <2>1, <2>2, NothingMoves
  <2> QED
    BY <2>1, <2>3, QuietRows
<1>9. CASE Fail(c)
  BY <1>9, EndRows DEF Fail
<1>10. CASE Reap(c)
  BY <1>10, EndRows DEF Reap
<1> QED
  BY <1>5, <1>6, <1>7, <1>8, <1>9, <1>10 DEF Write

(* A commit. *)
LEMMA CommitRows ==
    ASSUME RowsInv, IndInv', OneAtATime, NEW c \in committing, Commit(c)
    PROVE  RowsStep /\ ContractStep /\ UncountedIsNone'
<1>1. c \in CompletionRecord /\ WritesHold(c) /\ Active(c.task, c.fence) /\ c.attempt = c.fence
  BY DEF Commit, RowsInv, IndInv, TypeOK, DbTypeOK, CommitsHold, LeaseFencing, HandlersWereGranted
<1>2. /\ ApplyCompletion(c) /\ committing' \subseteq committing
      /\ \A d \in committing' : d.task # c.task
  BY DEF Commit, RowsInv, CommitsHold
<1> QED
  BY <1>1, <1>2, CompleteRows

(* Every step moves the rows as they may be moved, and is one of the contract's. *)
LEMMA RowsNext ==
    ASSUME RowsInv, Atomic, OneAtATime, [Next]_vars
    PROVE  RowsInv' /\ FinalStep /\ ContractStep
<1>1. IndInv'
  BY NextIndInv DEF RowsInv
<1>2. ASSUME UNCHANGED <<status, job, attempt, attemptCount, committing>>
      PROVE  RowsStep /\ ContractStep /\ UncountedIsNone'
  <2>1. RowsStep
    BY <1>1, <1>2, NothingMoves
  <2> QED
    BY <1>1, <1>2, <2>1, QuietRows
<1>3. ASSUME NEW s \in Session, NEW t \in Task, Claim(s, t)
      PROVE  RowsStep /\ ContractStep /\ UncountedIsNone' /\ CallsRecheck'
  <2>1. calls' = calls
    BY <1>3 DEF Claim
  <2> QED
    BY <1>1, <1>3, <2>1, ClaimRows DEF RowsInv, CallsRecheck
<1>4. ASSUME NEW t \in Task, NEW n \in AttemptNumber, NEW c \in CallOn(t, n), Serve(c)
      PROVE  RowsStep /\ ContractStep /\ UncountedIsNone' /\ CallsRecheck'
  <2>1. c \in Call /\ RowFree(c.task) /\ Write(c) /\ calls' = calls
    BY <1>4 DEF Serve, CallOn, Call
  <2>2. /\ c.op = "start" => status[c.task] = "LEASED"
        /\ c.op \in {"complete", "fail"} => Active(c.task, c.fence)
        /\ c.op = "complete" => status[c.task] = "RUNNING"
    BY <1>4 DEF Serve, Check, StartCheck, RenewCheck, ProgressCheck, CompleteCheck, FailCheck,
                ReapCheck, WithLease
  <2> QED
    BY <1>1, <2>1, <2>2, WriteRows DEF RowsInv, CallsRecheck
<1>5. ASSUME NEW t \in Task, NEW n \in AttemptNumber, NEW c \in CallOn(t, n), Open(c)
      PROVE  RowsStep /\ ContractStep /\ UncountedIsNone' /\ CallsRecheck'
  BY <1>2, <1>5 DEF Open, dbVars, RowsInv, CallsRecheck
<1>6. ASSUME NEW c \in calls, Finish(c)
      PROVE  RowsStep /\ ContractStep /\ UncountedIsNone' /\ CallsRecheck'
  <2>1. c \in Call /\ c.op \in Overlap /\ RowFree(c.task) /\ Write(c) /\ calls' \subseteq calls
    BY <1>6 DEF Finish, RowsInv, IndInv, TypeOK, CallsRecheck
  <2>2. c.op \notin {"start", "complete", "fail"}
    BY <2>1 DEF Atomic
  <2> QED
    BY <1>1, <2>1, <2>2, WriteRows DEF RowsInv, CallsRecheck
<1>7. ASSUME NEW c \in committing, Commit(c)
      PROVE  RowsStep /\ ContractStep /\ UncountedIsNone' /\ CallsRecheck'
  <2>1. calls' = calls
    BY <1>7 DEF Commit
  <2> QED
    BY <1>1, <1>7, <2>1, CommitRows DEF RowsInv, CallsRecheck
<1>8. ASSUME NEW t \in Task, NEW n \in AttemptNumber, Expire(t, n)
      PROVE  RowsStep /\ ContractStep /\ UncountedIsNone' /\ CallsRecheck'
  BY <1>2, <1>8 DEF Expire, dbVars, RowsInv, CallsRecheck
<1>9. ASSUME NEW s \in Session, EndSession(s)
      PROVE  RowsStep /\ ContractStep /\ UncountedIsNone' /\ CallsRecheck'
  BY <1>2, <1>9 DEF EndSession, dbVars, RowsInv, CallsRecheck
<1>10. ASSUME NEW j \in Job, Cancel(j)
       PROVE  RowsStep /\ ContractStep /\ UncountedIsNone' /\ CallsRecheck'
  <2>1. calls' = calls
    BY <1>10 DEF Cancel
  <2> QED
    BY <1>1, <1>10, <2>1, CancelRowsStep DEF RowsInv, CallsRecheck
<1>11. ASSUME NEW t \in Task, Retry(t)
       PROVE  RowsStep /\ ContractStep /\ UncountedIsNone' /\ CallsRecheck'
  <2>1. calls' = calls
    BY <1>11 DEF Retry, leaseVars
  <2> QED
    BY <1>1, <1>11, <2>1, RetryRowsStep DEF RowsInv, CallsRecheck
<1>12. ASSUME UNCHANGED vars
       PROVE  RowsStep /\ ContractStep /\ UncountedIsNone' /\ CallsRecheck'
  <2>1. UNCHANGED <<status, job, attempt, attemptCount, committing>> /\ calls' = calls
    BY <1>12 DEF vars, dbVars, leaseVars
  <2>2. CallsRecheck'
    BY <2>1 DEF RowsInv, CallsRecheck
  <2> QED
    BY <1>2, <2>1, <2>2
<1>13. ASSUME NEW t \in Task, NEW n \in AttemptNumber, Request(t, n)
       PROVE  RowsStep /\ ContractStep /\ UncountedIsNone' /\ CallsRecheck'
  <2>1. PICK c \in CallOn(t, n) : Serve(c) \/ Open(c)
    BY <1>13 DEF Request
  <2> QED
    BY <2>1, <1>4, <1>5
<1>14. RowsStep /\ ContractStep /\ UncountedIsNone' /\ CallsRecheck'
  <2>1. CASE Next
    BY <2>1, <1>3, <1>13, <1>6, <1>7, <1>8, <1>9, <1>10, <1>11 DEF Next
  <2> QED
    BY <2>1, <1>12
<1>15. EarlierSucceeded'
  BY <1>1, <1>14, EarlierStay DEF IndInv, TypeOK, DbTypeOK
<1> QED
  BY <1>1, <1>14, <1>15 DEF RowsInv, RowsStep

(* At first every job has work, and no task has been tried. *)
LEMMA InitRowsInv ==
    ASSUME JobsHaveTasks, OneAtATime, Init
    PROVE  RowsInv /\ Contract!Init
<1>1. IndInv
  BY InitIndInv
<1>2. /\ \A t \in Task : status[t] = IF Deps[t] = {} THEN "READY" ELSE "BLOCKED"
      /\ \A t \in Task, n \in AttemptNumber : attempt[t][n] = "NONE" /\ ~Active(t, n)
      /\ \A j \in Job : job[j] = "WAITING_FOR_GPU"
      /\ committing = {} /\ calls = {}
  BY DEF Init, DbInit, Active, NoLease
<1>3. \A t \in Task : Deps[t] \subseteq Task
  BY DEF TablesAssumption
<1>4. RowsAgree
  <2>1. WorkIsLeased
    BY <1>2 DEF WorkIsLeased, WorkingTask
  <2>2. DagRespected
    BY <1>2, <1>3 DEF DagRespected
  <2>3. JobAgrees
    BY <1>2 DEF JobAgrees, TasksOf, JobsHaveTasks
  <2> QED
    BY <2>1, <2>2, <2>3 DEF RowsAgree
<1>5. CommitsHold /\ CallsRecheck /\ UncountedIsNone
  BY <1>2 DEF CommitsHold, CallsRecheck, UncountedIsNone
<1>6. Contract!Init
  <2>1. attemptCount = [t \in Task |-> 0]
    BY DEF Init, DbInit
  <2>2. [t \in Task |-> HeldTask(t)] = [t \in Task |-> FALSE]
    <3>1. ASSUME NEW t \in Task PROVE HeldTask(t) = FALSE
      BY <1>2, Zenon DEF HeldTask
    <3> QED
      BY <3>1, Zenon
  <2>3. [t \in Task |-> OutcomeOf(t)] = [t \in Task |-> "open"]
    BY <1>2 DEF OutcomeOf
  <2>4. [t \in Task |-> AcceptedOf(t)] = [t \in Task |-> {}]
    <3>1. ASSUME NEW t \in Task PROVE AcceptedOf(t) = {}
      BY <1>2 DEF AcceptedOf
    <3> QED
      BY <3>1
  <2> QED
    BY <2>1, <2>2, <2>3, <2>4 DEF Contract!Init, HeldTask, AcceptedOf
<1>7. EarlierSucceeded
  <2> SUFFICES ASSUME SplitCommit, NEW t \in Task, status[t] # "BLOCKED", NEW e \in Before[t]
               PROVE  FALSE
    BY DEF EarlierSucceeded
  <2>1. Deps[t] = {}
    BY <1>2
  <2>2. IsBefore(Before)
    BY DEF OneAtATime, Before
  <2>3. e \in Task
    BY <2>2 DEF IsBefore
  <2> QED
    BY <2>1, <2>2, <2>3 DEF IsBefore
<1> QED
  BY <1>1, <1>4, <1>5, <1>6, <1>7 DEF RowsInv

(***************************************************************************)
(* Leases, tasks, their dependencies and their jobs tell the same story:   *)
(* no task works for nobody, none is unlocked early or never, and the job  *)
(* row follows its tasks.                                                  *)
(***************************************************************************)
THEOREM RowsStayConsistent ==
    ASSUME Atomic, OneAtATime, JobsHaveTasks
    PROVE  Spec => []RowsAgree
<1>1. Init => RowsInv
  BY InitRowsInv
<1>2. RowsInv /\ [Next]_vars => RowsInv'
  BY RowsNext
<1>3. RowsInv => RowsAgree
  BY DEF RowsInv
<1> QED
  BY <1>1, <1>2, <1>3, PTL DEF Spec

(* Nothing that ended changes any more: tasks, jobs and attempts. *)
THEOREM EndsAreFinal ==
    ASSUME Atomic, OneAtATime, JobsHaveTasks
    PROVE  Spec => EndIsFinal
<1>1. Init => RowsInv
  BY InitRowsInv
<1>2. RowsInv /\ [Next]_vars => RowsInv'
  BY RowsNext
<1>3. RowsInv /\ [Next]_vars => [FinalStep]_vars
  BY RowsNext
<1> QED
  BY <1>1, <1>2, <1>3, PTL DEF Spec, EndIsFinal, FinalStep

(***************************************************************************)
(* Whatever the handlers, the reaper, commits and the queue do, each step  *)
(* is a grant under the next token, the acceptance of the latest one, the  *)
(* end of a grant, a withdrawal, a reopening, or nothing the contract sees.*)
(***************************************************************************)
THEOREM LeasesKeepContract ==
    ASSUME Atomic, OneAtATime, JobsHaveTasks
    PROVE  Spec => KeepsContract
<1>1. Init => RowsInv /\ Contract!Init
  BY InitRowsInv
<1>2. RowsInv /\ [Next]_vars => RowsInv'
  BY RowsNext
<1>3. RowsInv /\ [Next]_vars => [Contract!Next]_(Contract!taskVars)
  BY RowsNext DEF ContractStep
<1> QED
  BY <1>1, <1>2, <1>3, PTL DEF Spec, KeepsContract, Contract!Spec
=============================================================================
