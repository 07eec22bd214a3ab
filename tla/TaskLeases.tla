----------------------------- MODULE TaskLeases -----------------------------
(***************************************************************************)
(* The worker task API: GPU workers claim READY tasks under a lease with a *)
(* fencing token, start, report progress, renew, and complete or fail;     *)
(* leases that expire are reaped (PrismaWorkerTasksRepository).            *)
(*                                                                         *)
(* A handler is one READ COMMITTED transaction: withLease reads the lease, *)
(* the task and the session, checks them, and only then writes, by primary *)
(* key and without repeating the checks.  Serve is a handler nothing       *)
(* interferes with.  A handler of Overlap may also be split at that point: *)
(* Open checks and remembers what was read, Finish writes, and other       *)
(* transactions commit in between.  The reaper reads the expired leases    *)
(* before the transactions that release them, which re-check the lease     *)
(* and nothing else.                                                       *)
(*                                                                         *)
(* Time is abstract: a lease expires when Expire says so (LEASE_MS after   *)
(* its last renewal at the earliest), a retry backoff is a claim that      *)
(* comes later, and an open transaction may stay open arbitrarily long. *)
(***************************************************************************)
EXTENDS PipelineDb

CONSTANTS
    Session,   \* worker_sessions rows
    Nobody,    \* the session of a lease that was never granted
    CanRun,    \* tasks a session's role, capabilities and capacity qualify for
    Overlap,   \* operations whose check and write other steps may separate
    MaxCalls   \* BOUND: handlers open at the same time

Op == {"start", "progress", "renew", "complete", "fail", "reap"}

ASSUME SessionAssumption ==
    /\ Nobody \notin Session
    /\ CanRun \in [Session -> SUBSET Task]
    /\ Overlap \subseteq Op
    /\ MaxCalls \in Nat

VARIABLES
    lease,    \* task_leases, by task and fencing token
    current,  \* sessions neither ended nor with a revoked credential
    calls     \* handlers between their check and their write

leaseVars == <<lease, current, calls>>
vars == <<dbVars, leaseVars>>

NoLease == [state |-> "NONE", attempt |-> 0, session |-> Nobody, expired |-> FALSE]
Lease == [state : {"NONE", "ACTIVE", "RELEASED"}, attempt : 0..AttemptBound,
          session : Session \cup {Nobody}, expired : BOOLEAN]

(* What a handler carries from its check to its write. *)
Call == [op : Op, task : Task, fence : AttemptNumber, retry : BOOLEAN,
         code : FailureClass, bps : 0..ProgressTop]

Active(t, n) == lease[t][n].state = "ACTIVE"
AttemptOf(c) == lease[c.task][c.fence].attempt

(* _max(fencingToken) over the leases of t, 0 when it has none. *)
LatestFence(t) ==
    LET issued == {n \in AttemptNumber : lease[t][n].state # "NONE"}
    IN  IF issued = {} THEN 0
        ELSE CHOOSE n \in issued : \A m \in issued : m <= n

(***************************************************************************)
(* claim: one transaction whose SELECT ... FOR UPDATE SKIP LOCKED holds    *)
(* the task row until the commit.  An agent claims one task at a time.     *)
(***************************************************************************)
Claim(s, t) ==
    LET k == attemptCount[t] + 1
        fence == LatestFence(t) + 1
    IN  /\ s \in current
        /\ \A u \in Task, n \in AttemptNumber :
               Active(u, n) => lease[u][n].session # s
        /\ t \in CanRun[s]
        /\ Class[t] = "GPU"
        /\ status[t] = "READY"
        /\ HasBudget(t)
        /\ job[JobOf[t]] # "CANCELLED"
        /\ \A n \in AttemptNumber : ~Active(t, n)
        /\ RowFree(t)
        /\ attempt' = [attempt EXCEPT ![t][k] = "STARTED"]
        /\ lease' = [lease EXCEPT ![t][fence] =
                        [state |-> "ACTIVE", attempt |-> k, session |-> s, expired |-> FALSE]]
        /\ status' = [status EXCEPT ![t] = "LEASED"]
        /\ attemptCount' = [attemptCount EXCEPT ![t] = k]
        /\ job' = [job EXCEPT ![JobOf[t]] = "RUNNING"]
        /\ UNCHANGED <<maxAttempts, progress, failure, video, committing, current, calls>>

-----------------------------------------------------------------------------
(* The checks. *)

(* Not faithful, for mutation: a released lease is as good as a live one. *)
WithAnyLease(c) ==
    /\ lease[c.task][c.fence].state # "NONE"
    /\ ~lease[c.task][c.fence].expired
    /\ Active(c.task, c.fence) => lease[c.task][c.fence].session \in current
    /\ status[c.task] # "CANCELLED"

WithLease(c) ==
    /\ Active(c.task, c.fence)
    /\ ~lease[c.task][c.fence].expired
    /\ lease[c.task][c.fence].session \in current
    /\ status[c.task] # "CANCELLED"

Plain(c) == c.retry = FALSE /\ c.code = "NONE" /\ c.bps = 0

(* A second start of a RUNNING task only returns the view. *)
StartCheck(c) ==
    /\ c.op = "start" /\ Plain(c)
    /\ WithLease(c)
    /\ status[c.task] = "LEASED"

RenewCheck(c) ==
    /\ c.op = "renew" /\ Plain(c)
    /\ WithLease(c)

ProgressCheck(c) ==
    /\ c.op = "progress" /\ c.retry = FALSE /\ c.code = "NONE"
    /\ WithLease(c)
    /\ status[c.task] = "RUNNING"
    /\ c.bps >= progress[c.task]

CompleteCheck(c) ==
    /\ c.op = "complete" /\ Plain(c)
    /\ WithLease(c)
    /\ status[c.task] = "RUNNING"

FailCheck(c) ==
    /\ c.op = "fail" /\ c.bps = 0
    /\ c.code \in {"RETRYABLE", "PERMANENT"}
    /\ c.retry = HasBudget(c.task)
    /\ WithLease(c)

ReapCheck(c) ==
    /\ c.op = "reap" /\ c.bps = 0
    /\ c.code = "RETRYABLE"
    /\ c.retry = HasBudget(c.task)
    /\ Active(c.task, c.fence)
    /\ lease[c.task][c.fence].expired

Check(c) == \/ StartCheck(c)
            \/ RenewCheck(c)
            \/ ProgressCheck(c)
            \/ CompleteCheck(c)
            \/ FailCheck(c)
            \/ ReapCheck(c)
-----------------------------------------------------------------------------
(* The writes, each on the rows as they are when it happens. *)

(* Nothing reads the session and the deadline of a released lease again. *)
Released(l) == [l EXCEPT !.state = "RELEASED", !.session = Nobody, !.expired = FALSE]

Release(c) == lease' = [lease EXCEPT ![c.task][c.fence] = Released(@)]

Start(c) ==
    /\ c.op = "start"
    /\ status' = [status EXCEPT ![c.task] = "RUNNING"]
    /\ UNCHANGED <<attemptCount, maxAttempts, progress, attempt, job, failure, video,
                   committing, lease>>

Renew(c) ==
    /\ c.op = "renew"
    /\ lease' = [lease EXCEPT ![c.task][c.fence].expired = FALSE]
    /\ UNCHANGED dbVars

Progress(c) ==
    /\ c.op = "progress"
    /\ progress' = [progress EXCEPT ![c.task] = c.bps]
    /\ UNCHANGED <<status, attemptCount, maxAttempts, attempt, job, failure, video,
                   committing, lease>>

(* complete, with the reads of the orchestrator and the commit at once. *)
Complete(c) ==
    /\ c.op = "complete"
    /\ ApplyCompletion(Completion(c.task, AttemptOf(c), c.fence))
    /\ Release(c)
    /\ UNCHANGED committing

(* complete, up to the point where it has read its siblings and holds its row locks. *)
BeginCommit(c) ==
    LET new == Completion(c.task, AttemptOf(c), c.fence)
    IN  /\ c.op = "complete"
        /\ SplitCommit
        /\ \A u \in new.unlock : RowFree(u)
        /\ committing' = committing \cup {new}
        /\ UNCHANGED <<status, attemptCount, maxAttempts, progress, attempt, job, failure,
                       video, lease>>

(* Not faithful, for mutation: the last attempt is retried too. *)
EndForRetry(c, outcome) ==
    /\ attempt' = [attempt EXCEPT ![c.task][AttemptOf(c)] = outcome]
    /\ status' = [status EXCEPT ![c.task] = "READY"]
    /\ job' = [job EXCEPT ![JobOf[c.task]] = "WAITING_FOR_GPU"]
    /\ Release(c)
    /\ UNCHANGED <<attemptCount, maxAttempts, progress, video, committing, failure>>

(* What fail and the reaper share: the attempt ends as `outcome' and the lease *)
(* is released; the task is retried if the budget it was read with allows.     *)
EndAttempt(c, outcome) ==
    LET j == JobOf[c.task]
    IN  /\ attempt' = [attempt EXCEPT ![c.task][AttemptOf(c)] = outcome]
        /\ status' = [status EXCEPT ![c.task] = IF c.retry THEN "READY" ELSE "FAILED"]
        /\ Release(c)
        /\ job' = [job EXCEPT ![j] = IF c.retry THEN "WAITING_FOR_GPU" ELSE "FAILED"]
        /\ failure' = [failure EXCEPT ![j] = IF c.retry THEN @ ELSE c.code]
        /\ UNCHANGED <<attemptCount, maxAttempts, progress, video, committing>>

Fail(c) == c.op = "fail" /\ EndAttempt(c, "FAILED")

(* Not faithful, for mutation: the reaper trusts its list. *)
ReapUnchecked(c) == c.op = "reap" /\ EndAttempt(c, "TIMED_OUT")

Reap(c) ==
    /\ c.op = "reap"
    /\ Active(c.task, c.fence) /\ lease[c.task][c.fence].expired
    /\ EndAttempt(c, "TIMED_OUT")

(* The lease was released or renewed since the reaper listed it. *)
ReapNothing(c) ==
    /\ c.op = "reap"
    /\ ~(Active(c.task, c.fence) /\ lease[c.task][c.fence].expired)
    /\ UNCHANGED <<dbVars, lease>>

Write(c) == \/ Start(c)
            \/ Renew(c)
            \/ Progress(c)
            \/ Complete(c)
            \/ BeginCommit(c)
            \/ Fail(c)
            \/ Reap(c)
            \/ ReapNothing(c)
-----------------------------------------------------------------------------
(* How handlers run. *)

Serve(c) ==
    /\ Check(c)
    /\ RowFree(c.task)
    /\ Write(c)
    /\ UNCHANGED <<current, calls>>

Open(c) ==
    /\ c.op \in Overlap
    /\ Cardinality(calls) < MaxCalls
    /\ Check(c)
    /\ calls' = calls \cup {c}
    /\ UNCHANGED <<dbVars, lease, current>>

(* A request names a lease that was granted; any other one is refused. *)
CallOn(t, n) == [op : Op, task : {t}, fence : {n}, retry : BOOLEAN,
                 code : FailureClass, bps : 0..ProgressTop]

Request(t, n) ==
    /\ lease[t][n].state # "NONE"
    /\ \E c \in CallOn(t, n) : Serve(c) \/ Open(c)

Finish(c) ==
    /\ c \in calls
    /\ RowFree(c.task)
    /\ Write(c)
    /\ calls' = calls \ {c}
    /\ UNCHANGED current

Commit(c) ==
    /\ c \in committing
    /\ c.fence # 0
    /\ ApplyCompletion(c)
    /\ Release(c)
    /\ committing' = committing \ {c}
    /\ UNCHANGED <<current, calls>>

(* LEASE_MS passed since the last renewal of the lease. *)
Expire(t, n) ==
    /\ Active(t, n)
    /\ ~lease[t][n].expired
    /\ lease' = [lease EXCEPT ![t][n].expired = TRUE]
    /\ UNCHANGED <<dbVars, current, calls>>

(* The session is ended or its credential revoked: its leases stay as they are. *)
EndSession(s) ==
    /\ s \in current
    /\ current' = current \ {s}
    /\ UNCHANGED <<dbVars, lease, calls>>

Cancel(j) ==
    /\ CancelRows(j)
    /\ lease' = [t \in Task |-> [n \in AttemptNumber |->
                    IF JobOf[t] = j /\ Active(t, n)
                    THEN Released(lease[t][n]) ELSE lease[t][n]]]
    /\ UNCHANGED <<current, calls>>

Retry(t) ==
    /\ RetryRows(t)
    /\ UNCHANGED leaseVars

Init ==
    /\ DbInit
    /\ lease = [t \in Task |-> [n \in AttemptNumber |-> NoLease]]
    /\ current = Session
    /\ calls = {}

Next ==
    \/ \E s \in Session, t \in Task : Claim(s, t)
    \/ \E t \in Task, n \in AttemptNumber : Request(t, n)
    \/ \E c \in calls : Finish(c)
    \/ \E c \in committing : Commit(c)
    \/ \E t \in Task, n \in AttemptNumber : Expire(t, n)
    \/ \E s \in Session : EndSession(s)
    \/ \E j \in Job : Cancel(j)
    \/ \E t \in Task : Retry(t)

Spec == Init /\ [][Next]_vars

(***************************************************************************)
(* Fairness.  Nobody renews the same lease for ever, and clocks advance,   *)
(* so every lease expires that is not released; while a worker is          *)
(* connected it polls claim every two seconds, and each claim reaps first; *)
(* an open transaction is committed or rolled back; a session that is not  *)
(* working keeps polling for a task.  Nothing is assumed of a worker that  *)
(* holds a task: it may never report again.                                *)
(***************************************************************************)
ReapLease(t, n) ==
    \E c \in CallOn(t, n) : c.op = "reap" /\ (Serve(c) \/ Open(c))

FinishCall(t, n) == \E c \in calls : c.task = t /\ c.fence = n /\ Finish(c)

Fairness ==
    /\ \A t \in Task, n \in AttemptNumber :
           /\ WF_vars(Expire(t, n))
           /\ WF_vars(current # {} /\ ReapLease(t, n))
           /\ WF_vars(FinishCall(t, n))
    /\ WF_vars(\E c \in committing : Commit(c))
    /\ \A s \in Session : WF_vars(\E t \in Task : Claim(s, t))

FairSpec == Spec /\ Fairness
-----------------------------------------------------------------------------
(* Every variable has the type of its column. *)
TypeOK ==
    /\ DbTypeOK
    /\ lease \in [Task -> [AttemptNumber -> Lease]]
    /\ current \subseteq Session
    /\ calls \subseteq Call

(***************************************************************************)
(* Whatever separates a check from its write: the tokens of a task are its *)
(* attempt numbers, handed out in order; an unreleased lease belongs to    *)
(* the latest attempt, which is the only one STARTED; a session never      *)
(* holds two leases; a handler past its check, however late, names a lease *)
(* that was granted; and no attempt exceeds the budget.                    *)
(***************************************************************************)
TokensAreAttempts ==
    \A t \in Task, n \in AttemptNumber :
        /\ lease[t][n].state # "NONE" <=> n <= attemptCount[t]
        /\ n <= attemptCount[t] => lease[t][n].attempt = n
        /\ Active(t, n) <=> lease[t][n].session \in Session

OnlyLatestIsLive ==
    \A t \in Task, n \in AttemptNumber :
        /\ Active(t, n) => n = attemptCount[t]
        /\ Active(t, n) <=> attempt[t][n] = "STARTED"

OneLeasePerSession ==
    \A t, u \in Task, n, m \in AttemptNumber :
        Active(t, n) /\ Active(u, m) /\ lease[t][n].session = lease[u][m].session => t = u

HandlersWereGranted ==
    /\ \A c \in calls : lease[c.task][c.fence].state # "NONE"
    /\ \A c \in committing : c.fence # 0 =>
           c.attempt = c.fence /\ lease[c.task][c.fence].state # "NONE"

WithinBudget == \A t \in Task : attemptCount[t] <= maxAttempts[t]

LeaseFencing ==
    /\ TokensAreAttempts
    /\ OnlyLatestIsLive
    /\ OneLeasePerSession
    /\ HandlersWereGranted
    /\ WithinBudget

(***************************************************************************)
(* A GPU task is LEASED or RUNNING exactly while one of its leases is      *)
(* unreleased: no task is left working for nobody, which no claim could    *)
(* pick up again, and no lease outlives the work it was granted for.       *)
(***************************************************************************)
WorkingTask(t) == status[t] \in {"LEASED", "RUNNING"}

WorkIsLeased ==
    \A t \in Task : WorkingTask(t) <=> \E n \in AttemptNumber : Active(t, n)

(***************************************************************************)
(* "... or unlock a dependent too early" (pipeline-orchestrator.ts), nor   *)
(* never: a task of a job that was not cancelled is BLOCKED exactly while  *)
(* one of its prerequisites has not succeeded.                             *)
(***************************************************************************)
DagRespected ==
    \A t \in Task : status[t] # "CANCELLED" =>
        (status[t] = "BLOCKED" <=> \E d \in Deps[t] : status[d] # "SUCCEEDED")

(***************************************************************************)
(* The job row agrees with its tasks: it is SUCCEEDED exactly when all of  *)
(* them are, and CANCELLED exactly when one is, none of which is still     *)
(* claimable or held.                                                      *)
(***************************************************************************)
JobAgrees ==
    \A j \in Job :
        /\ job[j] = "SUCCEEDED" <=> \A t \in TasksOf(j) : status[t] = "SUCCEEDED"
        /\ job[j] = "CANCELLED" <=> \E t \in TasksOf(j) : status[t] = "CANCELLED"
        /\ job[j] = "CANCELLED" =>
               \A t \in TasksOf(j) : status[t] \in {"SUCCEEDED", "CANCELLED"}

(* Leases, tasks, their dependencies and their jobs tell the same story. *)
RowsAgree == WorkIsLeased /\ DagRespected /\ JobAgrees

(***************************************************************************)
(* Nothing that ended changes any more: tasks and jobs that SUCCEEDED or   *)
(* were CANCELLED, and attempts that ended in any way.                     *)
(***************************************************************************)
EndIsFinal ==
    [][/\ \A t \in Task : status[t] \in {"SUCCEEDED", "CANCELLED"} => status'[t] = status[t]
       /\ \A j \in Job : job[j] \in {"SUCCEEDED", "CANCELLED"} => job'[j] = job[j]
       /\ \A t \in Task, n \in AttemptNumber :
              attempt[t][n] \notin {"NONE", "STARTED"} => attempt'[t][n] = attempt[t][n]]_vars

(***************************************************************************)
(* The lease protocol keeps the promise of FencedTask.                     *)
(***************************************************************************)
OutcomeOf(t) ==
    CASE status[t] = "SUCCEEDED" -> "accepted"
      [] status[t] = "CANCELLED" -> "withdrawn"
      [] status[t] = "FAILED" -> "refused"
      [] OTHER -> "open"

Contract == INSTANCE FencedTask WITH
    MaxToken <- AttemptBound,
    token <- attemptCount,
    held <- [t \in Task |-> \E n \in AttemptNumber : Active(t, n)],
    outcome <- [t \in Task |-> OutcomeOf(t)],
    accepted <- [t \in Task |-> {n \in AttemptNumber : attempt[t][n] = "SUCCEEDED"}]

KeepsContract == Contract!Spec

(***************************************************************************)
(* As long as one session that can run every GPU task stays connected,     *)
(* every job comes to rest, even if every other worker disappears and this *)
(* one never completes anything; unless there is always another renewal    *)
(* between its check and its write, which may revive an expired lease.     *)
(***************************************************************************)
Settled(j) == job[j] \in {"SUCCEEDED", "FAILED", "CANCELLED"}

JobsSettle ==
    \A s \in Session :
        (/\ {t \in Task : Class[t] = "GPU"} \subseteq CanRun[s]
         /\ [](s \in current)
         /\ <>[](\A c \in calls : c.op # "renew"))
            => <>[](\A j \in Job : Settled(j))
-----------------------------------------------------------------------------
(* What the documentation says of steps that the code takes. *)

(* "CANCELLED and SUCCEEDED are terminal" (queue-lifecycle.md), of a cancelled *)
(* task: a handler that passed its checks before the cancel must not revive it. *)
CancelledIsTerminal ==
    [][\A t \in Task : status[t] = "CANCELLED" => status'[t] = "CANCELLED"]_vars
=============================================================================
