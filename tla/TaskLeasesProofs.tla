-------------------------- MODULE TaskLeasesProofs --------------------------
(***************************************************************************)
(* Proofs about TaskLeases, for every set of jobs, tasks and sessions, any *)
(* dependency graph and any set of overlapping handlers: type correctness  *)
(* and the fencing invariant.                                              *)
(*                                                                         *)
(* The two are proved together.  A completion writes the attempt its lease *)
(* names, so its type rests on TokensAreAttempts; and the maximum token is *)
(* found from the typed attempt count.                                     *)
(***************************************************************************)
EXTENDS TaskLeases, TLAPS

IndInv == TypeOK /\ LeaseFencing

(* What a step leaves alone when it neither grants nor ends a lease. *)
SameLeases ==
    /\ \A t \in Task, n \in AttemptNumber :
           /\ lease'[t][n].state = lease[t][n].state
           /\ lease'[t][n].attempt = lease[t][n].attempt
           /\ lease'[t][n].session = lease[t][n].session
    /\ attempt' = attempt
    /\ attemptCount' = attemptCount

USE TablesAssumption, BoundsAssumption, SessionAssumption

-----------------------------------------------------------------------------
(* The operators the actions are built from. *)

(* The status a job is given by refreshAggregateStatus is a job status. *)
LEMMA AggregateType ==
    ASSUME NEW st, NEW j
    PROVE  Aggregate(st, j) \in JobStatus
BY DEF Aggregate, JobStatus

(* Unlocking tasks leaves every status a task status. *)
LEMMA AfterUnlockType ==
    ASSUME NEW st \in [Task -> TaskStatus], NEW us
    PROVE  AfterUnlock(st, us) \in [Task -> TaskStatus]
BY DEF AfterUnlock, TaskStatus

(* A job status moves a video to a video status. *)
LEMMA VideoAfterType ==
    ASSUME NEW v \in VideoStatus, NEW us, NEW js
    PROVE  VideoAfter(v, us, js) \in VideoStatus
BY DEF VideoAfter, VideoStatus

(* The token that a claim reads as the latest is the attempt count. *)
LEMMA LatestFenceIsCount ==
    ASSUME TypeOK, TokensAreAttempts, NEW t \in Task
    PROVE  LatestFence(t) = attemptCount[t]
<1> DEFINE issued == {n \in AttemptNumber : lease[t][n].state # "NONE"}
<1>1. attemptCount[t] \in 0..AttemptBound
  BY DEF TypeOK, DbTypeOK
<1>2. issued = {n \in AttemptNumber : n <= attemptCount[t]}
  BY DEF TokensAreAttempts
<1>3. CASE attemptCount[t] = 0
  <2>1. issued = {}
    BY <1>2, <1>3 DEF AttemptNumber
  <2> QED
    BY <1>3, <2>1 DEF LatestFence
<1>4. CASE attemptCount[t] # 0
  <2>1. /\ attemptCount[t] \in issued
        /\ \A m \in issued : m <= attemptCount[t]
    BY <1>1, <1>2, <1>4 DEF AttemptNumber
  <2>2. issued # {}
    BY <2>1
  <2> DEFINE top == CHOOSE n \in issued : \A m \in issued : m <= n
  <2>3. top \in issued /\ \A m \in issued : m <= top
    BY <2>1
  <2>4. top = attemptCount[t]
    <3> HIDE DEF issued, top
    <3>1. top \in Nat /\ attemptCount[t] \in Nat
      BY <1>1, <2>3 DEF issued, AttemptNumber
    <3> QED
      BY <2>1, <2>3, <3>1
  <2> QED
    BY <2>2, <2>4 DEF LatestFence
<1> QED
  BY <1>3, <1>4

(* What a completion of a granted attempt carries to its commit. *)
LEMMA CompletionType ==
    ASSUME TypeOK, NEW t \in Task, NEW k \in AttemptNumber, NEW n \in AttemptNumber
    PROVE  /\ Completion(t, k, n) \in CompletionRecord
           /\ Completion(t, k, n).task = t
           /\ Completion(t, k, n).attempt = k
           /\ Completion(t, k, n).fence = n
<1> DEFINE st == [status EXCEPT ![t] = "SUCCEEDED"]
           us == Unlocked(st, t)
<1>1. us \in SUBSET Task
  BY DEF Unlocked
<1>2. Aggregate(AfterUnlock(st, us), JobOf[t]) \in JobStatus
  BY AggregateType
<1>3. n \in {0} \cup AttemptNumber
  OBVIOUS
<1> HIDE DEF us, st
<1>4. Completion(t, k, n) =
        [task |-> t, attempt |-> k, fence |-> n, unlock |-> us,
         jobTo |-> Aggregate(AfterUnlock(st, us), JobOf[t])]
  BY DEF Completion, us, st
<1> QED
  BY <1>1, <1>2, <1>3, <1>4 DEF CompletionRecord

-----------------------------------------------------------------------------
(* Steps by their effect on the leases. *)

(* A step that grants and ends no lease, and adds no handler without one, *)
(* keeps the fencing.                                                     *)
LEMMA SameLeasesFencing ==
    ASSUME TypeOK, TypeOK', LeaseFencing, SameLeases,
           \A t \in Task : maxAttempts'[t] >= maxAttempts[t],
           \A c \in calls' : c \in calls \/ lease[c.task][c.fence].state # "NONE",
           \A c \in committing' : \/ c \in committing
                                  \/ /\ c.attempt = c.fence
                                     /\ lease[c.task][c.fence].state # "NONE"
    PROVE  LeaseFencing'
<1>1. TokensAreAttempts'
  BY DEF LeaseFencing, TokensAreAttempts, SameLeases, Active
<1>2. OnlyLatestIsLive'
  BY DEF LeaseFencing, OnlyLatestIsLive, SameLeases, Active
<1>3. OneLeasePerSession'
  BY DEF LeaseFencing, OneLeasePerSession, SameLeases, Active
<1>4. HandlersWereGranted'
  <2>1. ASSUME NEW c \in calls' PROVE lease'[c.task][c.fence].state # "NONE"
    <3>1. c.task \in Task /\ c.fence \in AttemptNumber
      BY <2>1 DEF TypeOK, Call
    <3>2. lease[c.task][c.fence].state # "NONE"
      BY <2>1 DEF LeaseFencing, HandlersWereGranted
    <3> QED
      BY <3>1, <3>2 DEF SameLeases
  <2>2. ASSUME NEW c \in committing', c.fence # 0
        PROVE  c.attempt = c.fence /\ lease'[c.task][c.fence].state # "NONE"
    <3>1. c.task \in Task /\ c.fence \in AttemptNumber
      BY <2>2 DEF TypeOK, DbTypeOK, CompletionRecord
    <3>2. c.attempt = c.fence /\ lease[c.task][c.fence].state # "NONE"
      BY <2>2 DEF LeaseFencing, HandlersWereGranted
    <3> QED
      BY <3>1, <3>2 DEF SameLeases
  <2> QED
    BY <2>1, <2>2 DEF HandlersWereGranted
<1>5. WithinBudget'
  BY DEF LeaseFencing, WithinBudget, SameLeases, TypeOK, DbTypeOK
<1> QED
  BY <1>1, <1>2, <1>3, <1>4, <1>5 DEF LeaseFencing

(* What releasing does to a lease. *)
LEMMA ReleasedLease ==
    ASSUME NEW l \in Lease
    PROVE  /\ Released(l) \in Lease
           /\ Released(l).state = "RELEASED"
           /\ Released(l).session = Nobody
           /\ Released(l).attempt = l.attempt
BY DEF Released, Lease

(* A step that releases one granted lease and ends its attempt keeps the  *)
(* fencing.                                                               *)
LEMMA EndLeaseFencing ==
    ASSUME TypeOK, TypeOK', LeaseFencing,
           NEW t \in Task, NEW n \in AttemptNumber, NEW r,
           lease[t][n].state # "NONE",
           lease' = [lease EXCEPT ![t][n] = Released(@)],
           r \notin {"NONE", "STARTED"},
           attempt' = [attempt EXCEPT ![t][n] = r],
           UNCHANGED <<attemptCount, maxAttempts>>,
           calls' \subseteq calls, committing' \subseteq committing
    PROVE  LeaseFencing'
<1>0. /\ lease \in [Task -> [AttemptNumber -> Lease]]
      /\ attempt \in [Task -> [AttemptNumber -> AttemptStatus]]
  BY DEF TypeOK, DbTypeOK
<1>1. ASSUME NEW u \in Task, NEW m \in AttemptNumber
      PROVE  /\ lease'[u][m].attempt = lease[u][m].attempt
             /\ lease'[u][m].state = "NONE" <=> lease[u][m].state = "NONE"
             /\ Active(u, m)' => Active(u, m)
             /\ Active(u, m)' => lease'[u][m].session = lease[u][m].session
             /\ Active(u, m)' <=> attempt'[u][m] = "STARTED"
             /\ Active(u, m)' <=> lease'[u][m].session \in Session
  <2>1. CASE u = t /\ m = n
    <3>1. lease'[u][m] = Released(lease[u][m]) /\ attempt'[u][m] = r
      BY <1>0, <2>1
    <3>2. lease[u][m] \in Lease
      BY <1>0
    <3>3. /\ lease'[u][m].state = "RELEASED"
          /\ lease'[u][m].session = Nobody
          /\ lease'[u][m].attempt = lease[u][m].attempt
      BY <3>1, <3>2, ReleasedLease
    <3>4. lease[u][m].state # "NONE" /\ r # "STARTED" /\ Nobody \notin Session
      BY <2>1, SessionAssumption DEF SessionAssumption
    <3>5. ~Active(u, m)'
      BY <3>3 DEF Active
    <3> QED
      BY <3>1, <3>3, <3>4, <3>5
  <2>2. CASE u # t \/ m # n
    <3>1. lease'[u][m] = lease[u][m] /\ attempt'[u][m] = attempt[u][m]
      BY <1>0, <2>2
    <3> QED
      BY <3>1 DEF Active, LeaseFencing, OnlyLatestIsLive, TokensAreAttempts
  <2> QED
    BY <2>1, <2>2
<1>2. TokensAreAttempts'
  BY <1>1 DEF LeaseFencing, TokensAreAttempts
<1>3. OnlyLatestIsLive'
  BY <1>1 DEF LeaseFencing, OnlyLatestIsLive
<1>4. OneLeasePerSession'
  BY <1>1 DEF LeaseFencing, OneLeasePerSession
<1>5. HandlersWereGranted'
  <2>1. ASSUME NEW c \in calls' PROVE lease'[c.task][c.fence].state # "NONE"
    <3>1. c.task \in Task /\ c.fence \in AttemptNumber
      BY <2>1 DEF TypeOK, Call
    <3> QED
      BY <1>1, <2>1, <3>1 DEF LeaseFencing, HandlersWereGranted
  <2>2. ASSUME NEW c \in committing', c.fence # 0
        PROVE  c.attempt = c.fence /\ lease'[c.task][c.fence].state # "NONE"
    <3>1. c.task \in Task /\ c.fence \in AttemptNumber
      BY <2>2 DEF TypeOK, DbTypeOK, CompletionRecord
    <3> QED
      BY <1>1, <2>2, <3>1 DEF LeaseFencing, HandlersWereGranted
  <2> QED
    BY <2>1, <2>2 DEF HandlersWereGranted
<1>6. WithinBudget'
  BY DEF LeaseFencing, WithinBudget
<1> QED
  BY <1>2, <1>3, <1>4, <1>5, <1>6 DEF LeaseFencing
-----------------------------------------------------------------------------
(* The steps. *)

(* The rows a completion commits have the types of their columns. *)
LEMMA ApplyCompletionType ==
    ASSUME TypeOK, NEW c \in CompletionRecord, ApplyCompletion(c)
    PROVE  /\ status' \in [Task -> TaskStatus]
           /\ attemptCount' \in [Task -> 0..AttemptBound]
           /\ maxAttempts' \in [Task -> 1..AttemptBound]
           /\ progress' \in [Task -> 0..ProgressTop]
           /\ attempt' \in [Task -> [AttemptNumber -> AttemptStatus]]
           /\ job' \in [Job -> JobStatus]
           /\ failure' \in [Job -> FailureClass]
           /\ video' \in [Job -> VideoStatus]
<1>1. /\ c.task \in Task
      /\ c.attempt \in AttemptNumber
      /\ c.jobTo \in JobStatus
      /\ JobOf[c.task] \in Job
  BY DEF CompletionRecord, TablesAssumption
<1>2. [status EXCEPT ![c.task] = "SUCCEEDED"] \in [Task -> TaskStatus]
  BY DEF TypeOK, DbTypeOK, TaskStatus
<1>3. status' \in [Task -> TaskStatus]
  BY <1>2, AfterUnlockType DEF ApplyCompletion
<1>4. video' \in [Job -> VideoStatus]
  <2>1. VideoAfter(video[JobOf[c.task]], c.unlock, c.jobTo) \in VideoStatus
    BY <1>1, VideoAfterType DEF TypeOK, DbTypeOK
  <2> QED
    BY <1>1, <2>1 DEF ApplyCompletion, TypeOK, DbTypeOK
<1>5. attempt' \in [Task -> [AttemptNumber -> AttemptStatus]]
  <2>1. [attempt[c.task] EXCEPT ![c.attempt] = "SUCCEEDED"] \in [AttemptNumber -> AttemptStatus]
    BY <1>1 DEF TypeOK, DbTypeOK, AttemptStatus
  <2> QED
    BY <1>1, <2>1 DEF ApplyCompletion, TypeOK, DbTypeOK
<1>6. progress' \in [Task -> 0..ProgressTop]
  <2>1. ProgressTop \in 0..ProgressTop
    BY BoundsAssumption DEF BoundsAssumption
  <2> QED
    BY <2>1 DEF ApplyCompletion, TypeOK, DbTypeOK
<1>7. job' \in [Job -> JobStatus]
  BY <1>1 DEF ApplyCompletion, TypeOK, DbTypeOK
<1> QED
  BY <1>3, <1>4, <1>5, <1>6, <1>7 DEF ApplyCompletion, TypeOK, DbTypeOK

(* Releasing a lease leaves a table of leases. *)
LEMMA ReleaseType ==
    ASSUME TypeOK, NEW c, c.task \in Task, c.fence \in AttemptNumber, Release(c)
    PROVE  lease' \in [Task -> [AttemptNumber -> Lease]]
<1>1. Released(lease[c.task][c.fence]) \in Lease
  BY ReleasedLease DEF TypeOK
<1>2. [lease[c.task] EXCEPT ![c.fence] = Released(@)] \in [AttemptNumber -> Lease]
  BY <1>1 DEF TypeOK
<1> QED
  BY <1>2 DEF Release, TypeOK

(* The initial state. *)
LEMMA InitIndInv == Init => IndInv
<1> SUFFICES ASSUME Init PROVE IndInv
  OBVIOUS
<1>1. NoLease \in Lease
  BY DEF NoLease, Lease, BoundsAssumption
<1>2. TypeOK
  <2>1. DbTypeOK
    BY DEF Init, DbInit, DbTypeOK, TaskStatus, JobStatus, FailureClass, VideoStatus,
           AttemptStatus, BoundsAssumption
  <2> QED
    BY <1>1, <2>1 DEF Init, TypeOK
<1>3. LeaseFencing
  BY DEF Init, DbInit, LeaseFencing, TokensAreAttempts, OnlyLatestIsLive, OneLeasePerSession,
         HandlersWereGranted, WithinBudget, Active, NoLease, AttemptNumber,
         SessionAssumption, BoundsAssumption
<1> QED
  BY <1>2, <1>3 DEF IndInv

(* A claim grants the next token under a new attempt. *)
LEMMA ClaimStep ==
    ASSUME IndInv, NEW s \in Session, NEW t \in Task, Claim(s, t)
    PROVE  IndInv'
<1> DEFINE k == attemptCount[t] + 1
           granted == [state |-> "ACTIVE", attempt |-> k, session |-> s, expired |-> FALSE]
<1>1. /\ attemptCount[t] \in 0..AttemptBound
      /\ maxAttempts[t] \in 1..AttemptBound
      /\ attemptCount[t] < maxAttempts[t]
  BY DEF Claim, HasBudget, IndInv, TypeOK, DbTypeOK
<1>2. k \in AttemptNumber /\ k \in 0..AttemptBound /\ k <= maxAttempts[t]
  BY <1>1, BoundsAssumption DEF AttemptNumber, BoundsAssumption
<1>3. LatestFence(t) + 1 = k
  BY LatestFenceIsCount DEF IndInv, LeaseFencing
<1>4. granted \in Lease
  BY <1>2 DEF Lease
<1>5. /\ lease' = [lease EXCEPT ![t][k] = granted]
      /\ attempt' = [attempt EXCEPT ![t][k] = "STARTED"]
      /\ attemptCount' = [attemptCount EXCEPT ![t] = k]
      /\ UNCHANGED <<maxAttempts, progress, failure, video, committing, current, calls>>
  BY <1>3 DEF Claim
<1>6. TypeOK'
  <2>1. lease' \in [Task -> [AttemptNumber -> Lease]]
    <3>1. [lease[t] EXCEPT ![k] = granted] \in [AttemptNumber -> Lease]
      BY <1>2, <1>4 DEF IndInv, TypeOK
    <3> HIDE DEF granted, k
    <3> QED
      BY <1>5, <3>1 DEF IndInv, TypeOK
  <2>2. attempt' \in [Task -> [AttemptNumber -> AttemptStatus]]
    <3>1. [attempt[t] EXCEPT ![k] = "STARTED"] \in [AttemptNumber -> AttemptStatus]
      BY <1>2 DEF IndInv, TypeOK, DbTypeOK, AttemptStatus
    <3> HIDE DEF k
    <3> QED
      BY <1>5, <3>1 DEF IndInv, TypeOK, DbTypeOK
  <2>3. attemptCount' \in [Task -> 0..AttemptBound]
    BY <1>2, <1>5 DEF IndInv, TypeOK, DbTypeOK
  <2>4. status' \in [Task -> TaskStatus] /\ job' \in [Job -> JobStatus]
    BY DEF Claim, IndInv, TypeOK, DbTypeOK, TaskStatus, JobStatus, TablesAssumption
  <2> QED
    BY <1>5, <2>1, <2>2, <2>3, <2>4 DEF IndInv, TypeOK, DbTypeOK
<1>7. /\ \A m \in AttemptNumber : lease'[t][m] = IF m = k THEN granted ELSE lease[t][m]
      /\ \A m \in AttemptNumber :
             attempt'[t][m] = IF m = k THEN "STARTED" ELSE attempt[t][m]
      /\ \A u \in Task : u # t => /\ lease'[u] = lease[u]
                                 /\ attempt'[u] = attempt[u]
                                 /\ attemptCount'[u] = attemptCount[u]
      /\ attemptCount'[t] = k
  <2> HIDE DEF granted, k
  <2> QED
    BY <1>2, <1>5 DEF IndInv, TypeOK, DbTypeOK
<1>8. \A m \in AttemptNumber : ~Active(t, m)
  BY DEF Claim
<1>9. TokensAreAttempts'
  <2>1. ASSUME NEW u \in Task, NEW n \in AttemptNumber
        PROVE  /\ lease'[u][n].state # "NONE" <=> n <= attemptCount'[u]
               /\ n <= attemptCount'[u] => lease'[u][n].attempt = n
               /\ Active(u, n)' <=> lease'[u][n].session \in Session
    <3>1. CASE u # t
      BY <1>7, <3>1 DEF IndInv, LeaseFencing, TokensAreAttempts, Active
    <3>2. CASE u = t /\ n = k
      <4>1. lease'[u][n] = granted /\ attemptCount'[u] = n
        BY <1>7, <3>2
      <4>2. n <= n
        BY DEF AttemptNumber
      <4> QED
        BY <3>2, <4>1, <4>2 DEF Active
    <3>3. CASE u = t /\ n # k
      <4>1. lease'[u][n] = lease[u][n] /\ attemptCount'[u] = k
        BY <1>7, <3>3
      <4>2. n <= k <=> n <= attemptCount[t]
        BY <1>1, <3>3 DEF AttemptNumber
      <4> QED
        BY <3>3, <4>1, <4>2 DEF IndInv, LeaseFencing, TokensAreAttempts, Active
    <3> QED
      BY <3>1, <3>2, <3>3
  <2> QED
    BY <2>1 DEF TokensAreAttempts
<1>10. OnlyLatestIsLive'
  <2>1. ASSUME NEW u \in Task, NEW n \in AttemptNumber
        PROVE  /\ Active(u, n)' => n = attemptCount'[u]
               /\ Active(u, n)' <=> attempt'[u][n] = "STARTED"
    <3>1. CASE u # t
      BY <1>7, <3>1 DEF IndInv, LeaseFencing, OnlyLatestIsLive, Active
    <3>2. CASE u = t /\ n = k
      <4>1. lease'[u][n] = granted /\ attempt'[u][n] = "STARTED" /\ attemptCount'[u] = n
        BY <1>7, <3>2
      <4> QED
        BY <4>1 DEF Active
    <3>3. CASE u = t /\ n # k
      <4>1. lease'[u][n] = lease[u][n] /\ attempt'[u][n] = attempt[u][n]
        BY <1>7, <3>3
      <4> QED
        BY <1>8, <3>3, <4>1 DEF IndInv, LeaseFencing, OnlyLatestIsLive, Active
    <3> QED
      BY <3>1, <3>2, <3>3
  <2> QED
    BY <2>1 DEF OnlyLatestIsLive
<1>11. OneLeasePerSession'
  <2>1. \A u \in Task, n \in AttemptNumber : Active(u, n) => lease[u][n].session # s
    BY DEF Claim
  <2>2. ASSUME NEW u \in Task, NEW n \in AttemptNumber, Active(u, n)'
        PROVE  \/ u = t /\ lease'[u][n].session = s
               \/ u # t /\ Active(u, n) /\ lease'[u][n] = lease[u][n]
    <3>1. CASE u # t
      BY <1>7, <2>2, <3>1 DEF Active
    <3>2. CASE u = t /\ n = k
      <4>1. lease'[u][n] = granted
        BY <1>7, <3>2
      <4> QED
        BY <3>2, <4>1
    <3>3. CASE u = t /\ n # k
      <4>1. lease'[u][n] = lease[u][n]
        BY <1>7, <3>3
      <4> QED
        BY <1>8, <2>2, <3>3, <4>1 DEF Active
    <3> QED
      BY <3>1, <3>2, <3>3
  <2> QED
    BY <2>1, <2>2 DEF IndInv, LeaseFencing, OneLeasePerSession
<1>12. HandlersWereGranted'
  <2>1. \A u \in Task, n \in AttemptNumber :
            lease[u][n].state # "NONE" => lease'[u][n].state # "NONE"
    BY <1>7
  <2>2. /\ \A c \in calls : c.task \in Task /\ c.fence \in AttemptNumber
        /\ \A c \in committing : c.task \in Task /\ (c.fence # 0 => c.fence \in AttemptNumber)
    BY DEF IndInv, TypeOK, DbTypeOK, Call, CompletionRecord
  <2> QED
    BY <1>5, <2>1, <2>2 DEF IndInv, LeaseFencing, HandlersWereGranted
<1>13. WithinBudget'
  <2> HIDE DEF k
  <2> QED
    BY <1>2, <1>5 DEF IndInv, LeaseFencing, WithinBudget, TypeOK, DbTypeOK
<1> QED
  BY <1>6, <1>9, <1>10, <1>11, <1>12, <1>13 DEF IndInv, LeaseFencing

(* A handler that passed its check names a granted lease. *)
LEMMA CheckedIsGranted ==
    ASSUME NEW c, Check(c)
    PROVE  lease[c.task][c.fence].state # "NONE"
BY DEF Check, StartCheck, RenewCheck, ProgressCheck, CompleteCheck, FailCheck, ReapCheck,
       WithLease, Active

(* The write of a handler that names a granted lease, whatever happened   *)
(* since its check.                                                       *)
LEMMA WriteStep ==
    ASSUME IndInv, NEW c \in Call, lease[c.task][c.fence].state # "NONE", Write(c),
           current' = current, calls' \subseteq calls
    PROVE  IndInv'
<1>1. /\ c.task \in Task
      /\ c.fence \in AttemptNumber
      /\ c.bps \in 0..ProgressTop
      /\ c.code \in FailureClass
      /\ JobOf[c.task] \in Job
  BY DEF Call, TablesAssumption
<1>2. AttemptOf(c) = c.fence
  <2>1. c.fence <= attemptCount[c.task]
    BY <1>1 DEF IndInv, LeaseFencing, TokensAreAttempts
  <2> QED
    BY <1>1, <2>1 DEF AttemptOf, IndInv, LeaseFencing, TokensAreAttempts
<1>3. calls' \subseteq Call /\ current' \subseteq Session
  BY DEF IndInv, TypeOK
<1>4. TypeOK /\ LeaseFencing
  BY DEF IndInv
<1>5. CASE Start(c)
  <2>1. TypeOK'
    BY <1>1, <1>3, <1>4, <1>5 DEF Start, TypeOK, DbTypeOK, TaskStatus
  <2>2. LeaseFencing'
    BY <1>4, <1>5, <2>1, SameLeasesFencing DEF Start, SameLeases, TypeOK, DbTypeOK
  <2> QED
    BY <2>1, <2>2 DEF IndInv
<1>6. CASE Renew(c)
  <2>1. /\ [lease[c.task][c.fence] EXCEPT !.expired = FALSE] \in Lease
        /\ [lease[c.task][c.fence] EXCEPT !.expired = FALSE].state = lease[c.task][c.fence].state
        /\ [lease[c.task][c.fence] EXCEPT !.expired = FALSE].attempt = lease[c.task][c.fence].attempt
        /\ [lease[c.task][c.fence] EXCEPT !.expired = FALSE].session = lease[c.task][c.fence].session
    <3>1. lease[c.task][c.fence] \in Lease
      BY <1>1, <1>4 DEF TypeOK
    <3> QED
      BY <3>1 DEF Lease
  <2>2. lease' = [lease EXCEPT ![c.task][c.fence] =
                     [lease[c.task][c.fence] EXCEPT !.expired = FALSE]]
    BY <1>1, <1>4, <1>6 DEF Renew, TypeOK
  <2> DEFINE renewed == [lease[c.task][c.fence] EXCEPT !.expired = FALSE]
  <2>3. lease' \in [Task -> [AttemptNumber -> Lease]]
    <3>1. [lease[c.task] EXCEPT ![c.fence] = renewed] \in [AttemptNumber -> Lease]
      BY <1>1, <1>4, <2>1 DEF TypeOK
    <3> HIDE DEF renewed
    <3> QED
      BY <1>1, <1>4, <2>2, <3>1 DEF TypeOK, renewed
  <2>4. \A t \in Task, n \in AttemptNumber :
            lease'[t][n] = IF t = c.task /\ n = c.fence THEN renewed ELSE lease[t][n]
    <3>1. lease' = [lease EXCEPT ![c.task][c.fence] = renewed]
      BY <2>2
    <3> HIDE DEF renewed
    <3> QED
      BY <1>1, <1>4, <3>1 DEF TypeOK
  <2>5. TypeOK'
    BY <1>3, <1>4, <1>6, <2>3 DEF Renew, dbVars, TypeOK, DbTypeOK
  <2>6. SameLeases
    BY <1>6, <2>1, <2>4 DEF Renew, dbVars, SameLeases
  <2>7. LeaseFencing'
    BY <1>4, <1>6, <2>5, <2>6, SameLeasesFencing DEF Renew, dbVars, TypeOK, DbTypeOK
  <2> QED
    BY <2>5, <2>7 DEF IndInv
<1>7. CASE Progress(c)
  <2>1. TypeOK'
    BY <1>1, <1>3, <1>4, <1>7 DEF Progress, TypeOK, DbTypeOK
  <2>2. LeaseFencing'
    BY <1>4, <1>7, <2>1, SameLeasesFencing DEF Progress, SameLeases, TypeOK, DbTypeOK
  <2> QED
    BY <2>1, <2>2 DEF IndInv
<1>8. CASE Complete(c)
  <2> DEFINE new == Completion(c.task, AttemptOf(c), c.fence)
  <2>1. /\ new \in CompletionRecord
        /\ new.task = c.task /\ new.attempt = c.fence
    BY <1>1, <1>2, <1>4, CompletionType
  <2>2. ApplyCompletion(new) /\ Release(c) /\ committing' = committing
    BY <1>8 DEF Complete
  <2> HIDE DEF new
  <2>3. lease' \in [Task -> [AttemptNumber -> Lease]]
    BY <1>1, <1>4, <2>2, ReleaseType
  <2>4. TypeOK'
    BY <1>3, <1>4, <2>1, <2>2, <2>3, ApplyCompletionType DEF TypeOK, DbTypeOK
  <2>5. /\ lease' = [lease EXCEPT ![c.task][c.fence] = Released(@)]
        /\ attempt' = [attempt EXCEPT ![c.task][c.fence] = "SUCCEEDED"]
        /\ UNCHANGED <<attemptCount, maxAttempts>>
        /\ committing' \subseteq committing
        /\ "SUCCEEDED" \notin {"NONE", "STARTED"}
    BY <2>1, <2>2 DEF ApplyCompletion, Release
  <2>6. LeaseFencing'
    BY <1>1, <1>4, <2>4, <2>5, EndLeaseFencing
  <2> QED
    BY <2>4, <2>6 DEF IndInv
<1>9. CASE BeginCommit(c)
  <2> DEFINE new == Completion(c.task, AttemptOf(c), c.fence)
  <2>1. /\ new \in CompletionRecord
        /\ new.task = c.task /\ new.attempt = c.fence /\ new.fence = c.fence
    BY <1>1, <1>2, <1>4, CompletionType
  <2>2. /\ committing' = committing \cup {new}
        /\ UNCHANGED <<status, attemptCount, maxAttempts, progress, attempt, job, failure,
                       video, lease>>
    BY <1>9 DEF BeginCommit
  <2> HIDE DEF new
  <2>3. TypeOK'
    BY <1>3, <1>4, <2>1, <2>2 DEF TypeOK, DbTypeOK
  <2>4. SameLeases
    BY <2>2 DEF SameLeases
  <2>5. \A d \in committing' : \/ d \in committing
                               \/ d.attempt = d.fence /\ lease[d.task][d.fence].state # "NONE"
    BY <2>1, <2>2
  <2>6. \A t \in Task : maxAttempts'[t] >= maxAttempts[t]
    BY <1>4, <2>2 DEF TypeOK, DbTypeOK
  <2>7. LeaseFencing'
    BY <1>4, <2>3, <2>4, <2>5, <2>6, SameLeasesFencing
  <2> QED
    BY <2>3, <2>7 DEF IndInv
<1>10. ASSUME NEW outcome, outcome \in {"FAILED", "TIMED_OUT"}, EndAttempt(c, outcome)
       PROVE  IndInv'
  <2>1. lease' \in [Task -> [AttemptNumber -> Lease]]
    BY <1>1, <1>4, <1>10, ReleaseType DEF EndAttempt
  <2>2. attempt' \in [Task -> [AttemptNumber -> AttemptStatus]]
    <3>1. [attempt[c.task] EXCEPT ![c.fence] = outcome] \in [AttemptNumber -> AttemptStatus]
      BY <1>1, <1>4, <1>10 DEF TypeOK, DbTypeOK, AttemptStatus
    <3> QED
      BY <1>1, <1>2, <1>4, <1>10, <3>1 DEF EndAttempt, TypeOK, DbTypeOK
  <2>3. status' \in [Task -> TaskStatus]
    BY <1>4, <1>10 DEF EndAttempt, TypeOK, DbTypeOK, TaskStatus
  <2>4. job' \in [Job -> JobStatus]
    BY <1>1, <1>4, <1>10 DEF EndAttempt, TypeOK, DbTypeOK, JobStatus
  <2>5. failure' \in [Job -> FailureClass]
    BY <1>1, <1>4, <1>10 DEF EndAttempt, TypeOK, DbTypeOK
  <2>6. TypeOK'
    BY <1>3, <1>4, <1>10, <2>1, <2>2, <2>3, <2>4, <2>5 DEF EndAttempt, TypeOK, DbTypeOK
  <2>7. /\ lease' = [lease EXCEPT ![c.task][c.fence] = Released(@)]
        /\ attempt' = [attempt EXCEPT ![c.task][c.fence] = outcome]
        /\ UNCHANGED <<attemptCount, maxAttempts, committing>>
    BY <1>2, <1>10 DEF EndAttempt, Release
  <2>8. LeaseFencing'
    BY <1>1, <1>4, <1>10, <2>6, <2>7, EndLeaseFencing
  <2> QED
    BY <2>6, <2>8 DEF IndInv
<1>11. CASE Fail(c)
  BY <1>10, <1>11 DEF Fail
<1>12. CASE Reap(c)
  BY <1>10, <1>12 DEF Reap
<1>13. CASE ReapNothing(c)
  <2>1. TypeOK'
    BY <1>3, <1>4, <1>13 DEF ReapNothing, dbVars, TypeOK, DbTypeOK
  <2>2. LeaseFencing'
    BY <1>4, <1>13, <2>1, SameLeasesFencing
       DEF ReapNothing, dbVars, SameLeases, TypeOK, DbTypeOK
  <2> QED
    BY <2>1, <2>2 DEF IndInv
<1> QED
  BY <1>5, <1>6, <1>7, <1>8, <1>9, <1>11, <1>12, <1>13 DEF Write

(* The commit of a completion whose locks were taken earlier. *)
LEMMA CommitStep ==
    ASSUME IndInv, NEW c \in committing, Commit(c)
    PROVE  IndInv'
<1>1. c \in CompletionRecord /\ c.task \in Task /\ c.fence \in AttemptNumber
  BY DEF Commit, IndInv, TypeOK, DbTypeOK, CompletionRecord
<1>2. c.attempt = c.fence /\ lease[c.task][c.fence].state # "NONE"
  BY DEF Commit, IndInv, LeaseFencing, HandlersWereGranted
<1>3. TypeOK'
  <2>1. lease' \in [Task -> [AttemptNumber -> Lease]]
    BY <1>1, ReleaseType DEF Commit, IndInv
  <2> QED
    BY <1>1, <2>1, ApplyCompletionType DEF Commit, IndInv, TypeOK, DbTypeOK
<1>4. /\ lease' = [lease EXCEPT ![c.task][c.fence] = Released(@)]
      /\ attempt' = [attempt EXCEPT ![c.task][c.fence] = "SUCCEEDED"]
      /\ UNCHANGED <<attemptCount, maxAttempts>>
      /\ calls' \subseteq calls /\ committing' \subseteq committing
      /\ "SUCCEEDED" \notin {"NONE", "STARTED"}
  BY <1>2 DEF Commit, ApplyCompletion, Release
<1>5. LeaseFencing'
  BY <1>1, <1>2, <1>3, <1>4, EndLeaseFencing DEF IndInv
<1> QED
  BY <1>3, <1>5 DEF IndInv

(* The passing of a deadline. *)
LEMMA ExpireStep ==
    ASSUME IndInv, NEW t \in Task, NEW n \in AttemptNumber, Expire(t, n)
    PROVE  IndInv'
<1> DEFINE late == [lease[t][n] EXCEPT !.expired = TRUE]
<1>1. /\ late \in Lease
      /\ late.state = lease[t][n].state
      /\ late.attempt = lease[t][n].attempt
      /\ late.session = lease[t][n].session
  <2>1. lease[t][n] \in Lease
    BY DEF IndInv, TypeOK
  <2> QED
    BY <2>1 DEF Lease
<1>2. /\ lease' = [lease EXCEPT ![t][n] = late]
      /\ UNCHANGED <<dbVars, current, calls>>
  BY DEF Expire, IndInv, TypeOK
<1>3. [lease[t] EXCEPT ![n] = late] \in [AttemptNumber -> Lease]
  BY <1>1 DEF IndInv, TypeOK
<1> HIDE DEF late
<1>4. TypeOK'
  BY <1>2, <1>3 DEF dbVars, IndInv, TypeOK, DbTypeOK
<1>5. \A u \in Task, m \in AttemptNumber :
          lease'[u][m] = IF u = t /\ m = n THEN late ELSE lease[u][m]
  BY <1>2 DEF IndInv, TypeOK
<1>6. SameLeases
  BY <1>1, <1>2, <1>5 DEF SameLeases, dbVars
<1>7. LeaseFencing'
  BY <1>2, <1>4, <1>6, SameLeasesFencing DEF IndInv, dbVars, TypeOK, DbTypeOK
<1> QED
  BY <1>4, <1>7 DEF IndInv

(* The queue's cancel releases the leases of a job and ends their attempts. *)
LEMMA CancelStep ==
    ASSUME IndInv, NEW j \in Job, Cancel(j)
    PROVE  IndInv'
<1> DEFINE ended(t, n) == JobOf[t] = j /\ Active(t, n)
<1>1. \A t \in Task, n \in AttemptNumber : attempt[t][n] = "STARTED" <=> Active(t, n)
  BY DEF IndInv, LeaseFencing, OnlyLatestIsLive
<1>2. ASSUME NEW t \in Task, NEW n \in AttemptNumber
      PROVE  /\ lease'[t][n] = IF ended(t, n) THEN Released(lease[t][n]) ELSE lease[t][n]
             /\ attempt'[t][n] = IF ended(t, n) THEN "CANCELLED" ELSE attempt[t][n]
  BY <1>1 DEF Cancel, CancelRows
<1>3. ASSUME NEW t \in Task, NEW n \in AttemptNumber
      PROVE  /\ lease[t][n] \in Lease
             /\ Released(lease[t][n]) \in Lease
             /\ Released(lease[t][n]).state = "RELEASED"
             /\ Released(lease[t][n]).session = Nobody
             /\ Released(lease[t][n]).attempt = lease[t][n].attempt
  <2>1. lease[t][n] \in Lease
    BY DEF IndInv, TypeOK
  <2> QED
    BY <2>1, ReleasedLease
<1>4. UNCHANGED <<attemptCount, maxAttempts, progress, failure, video, committing, current, calls>>
  BY DEF Cancel, CancelRows
<1>5. TypeOK'
  <2>1. lease' \in [Task -> [AttemptNumber -> Lease]]
    BY <1>3 DEF Cancel
  <2>2. attempt' \in [Task -> [AttemptNumber -> AttemptStatus]]
    BY DEF Cancel, CancelRows, IndInv, TypeOK, DbTypeOK, AttemptStatus
  <2>3. status' \in [Task -> TaskStatus] /\ job' \in [Job -> JobStatus]
    BY DEF Cancel, CancelRows, IndInv, TypeOK, DbTypeOK, TaskStatus, JobStatus
  <2> QED
    BY <1>4, <2>1, <2>2, <2>3 DEF IndInv, TypeOK, DbTypeOK
<1>6. ASSUME NEW t \in Task, NEW n \in AttemptNumber
      PROVE  /\ lease'[t][n].attempt = lease[t][n].attempt
             /\ lease'[t][n].state = "NONE" <=> lease[t][n].state = "NONE"
             /\ Active(t, n)' => Active(t, n)
             /\ Active(t, n)' => lease'[t][n].session = lease[t][n].session
             /\ Active(t, n)' <=> attempt'[t][n] = "STARTED"
             /\ Active(t, n)' <=> lease'[t][n].session \in Session
  <2>1. CASE ended(t, n)
    <3>1. lease'[t][n] = Released(lease[t][n]) /\ attempt'[t][n] = "CANCELLED"
      BY <1>2, <2>1
    <3>2. lease[t][n].state = "ACTIVE" /\ Nobody \notin Session
      BY <2>1, SessionAssumption DEF Active, SessionAssumption
    <3>3. ~Active(t, n)'
      BY <1>3, <3>1 DEF Active
    <3> QED
      BY <1>3, <3>1, <3>2, <3>3
  <2>2. CASE ~ended(t, n)
    <3>1. lease'[t][n] = lease[t][n] /\ attempt'[t][n] = attempt[t][n]
      BY <1>2, <2>2
    <3> QED
      BY <1>1, <3>1 DEF Active, IndInv, LeaseFencing, TokensAreAttempts
  <2> QED
    BY <2>1, <2>2
<1> HIDE DEF ended
<1>7. TokensAreAttempts'
  BY <1>4, <1>6 DEF IndInv, LeaseFencing, TokensAreAttempts
<1>8. OnlyLatestIsLive'
  BY <1>4, <1>6 DEF IndInv, LeaseFencing, OnlyLatestIsLive
<1>9. OneLeasePerSession'
  BY <1>6 DEF IndInv, LeaseFencing, OneLeasePerSession
<1>10. HandlersWereGranted'
  <2>1. /\ \A c \in calls : c.task \in Task /\ c.fence \in AttemptNumber
        /\ \A c \in committing : c.task \in Task /\ (c.fence # 0 => c.fence \in AttemptNumber)
    BY DEF IndInv, TypeOK, DbTypeOK, Call, CompletionRecord
  <2> QED
    BY <1>4, <1>6, <2>1 DEF IndInv, LeaseFencing, HandlersWereGranted
<1>11. WithinBudget'
  BY <1>4 DEF IndInv, LeaseFencing, WithinBudget
<1> QED
  BY <1>5, <1>7, <1>8, <1>9, <1>10, <1>11 DEF IndInv, LeaseFencing

(* A manual retry grants no lease: it only lets the task be claimed again. *)
LEMMA RetryStep ==
    ASSUME IndInv, NEW t \in Task, Retry(t)
    PROVE  IndInv'
<1>1. /\ attemptCount[t] \in 0..AttemptBound /\ attemptCount[t] < AttemptBound
      /\ \A u \in Task : maxAttempts[u] \in 1..AttemptBound
      /\ AttemptBound \in Nat
      /\ JobOf[t] \in Job
  BY BoundsAssumption, TablesAssumption
     DEF Retry, RetryRows, IndInv, TypeOK, DbTypeOK, BoundsAssumption, TablesAssumption
<1> DEFINE raised == IF maxAttempts[t] > attemptCount[t] THEN maxAttempts[t]
                     ELSE attemptCount[t] + 1
<1>2. raised \in 1..AttemptBound /\ raised >= maxAttempts[t]
  BY <1>1
<1>3. maxAttempts' = [maxAttempts EXCEPT ![t] = raised]
  BY DEF Retry, RetryRows
<1> HIDE DEF raised
<1>4. \A u \in Task : maxAttempts'[u] >= maxAttempts[u]
  BY <1>1, <1>2, <1>3 DEF IndInv, TypeOK, DbTypeOK
<1>5. maxAttempts' \in [Task -> 1..AttemptBound]
  BY <1>2, <1>3 DEF IndInv, TypeOK, DbTypeOK
<1>6. /\ status' \in [Task -> TaskStatus] /\ job' \in [Job -> JobStatus]
      /\ failure' \in [Job -> FailureClass]
  BY <1>1 DEF Retry, RetryRows, IndInv, TypeOK, DbTypeOK, TaskStatus, JobStatus, FailureClass
<1>7. progress' \in [Task -> 0..ProgressTop]
  <2>1. 0 \in 0..ProgressTop
    BY BoundsAssumption DEF BoundsAssumption
  <2> QED
    BY <2>1 DEF Retry, RetryRows, IndInv, TypeOK, DbTypeOK
<1>8. UNCHANGED <<attemptCount, attempt, video, committing, lease, current, calls>>
  BY DEF Retry, RetryRows, leaseVars
<1>9. TypeOK'
  BY <1>5, <1>6, <1>7, <1>8 DEF IndInv, TypeOK, DbTypeOK
<1>10. SameLeases
  BY <1>8 DEF SameLeases
<1>11. LeaseFencing'
  BY <1>4, <1>8, <1>9, <1>10, SameLeasesFencing DEF IndInv
<1> QED
  BY <1>9, <1>11 DEF IndInv

(* Opening a handler and ending a session write no row of the lease tables. *)
LEMMA QuietStep ==
    ASSUME IndInv, UNCHANGED <<dbVars, lease>>, calls' \subseteq Call, current' \subseteq Session,
           \A c \in calls' : c \in calls \/ lease[c.task][c.fence].state # "NONE"
    PROVE  IndInv'
<1>1. TypeOK'
  BY DEF dbVars, IndInv, TypeOK, DbTypeOK
<1>2. SameLeases
  BY DEF dbVars, SameLeases
<1>3. LeaseFencing'
  BY <1>1, <1>2, SameLeasesFencing DEF dbVars, IndInv, TypeOK, DbTypeOK
<1> QED
  BY <1>1, <1>3 DEF IndInv

(* Every step keeps the inductive invariant. *)
LEMMA NextIndInv == IndInv /\ [Next]_vars => IndInv'
<1> SUFFICES ASSUME IndInv, [Next]_vars PROVE IndInv'
  OBVIOUS
<1>1. ASSUME NEW s \in Session, NEW t \in Task, Claim(s, t) PROVE IndInv'
  BY <1>1, ClaimStep
<1>2. ASSUME NEW c \in Call, Serve(c) PROVE IndInv'
  <2>1. lease[c.task][c.fence].state # "NONE"
    BY <1>2, CheckedIsGranted DEF Serve
  <2> QED
    BY <1>2, <2>1, WriteStep DEF Serve
<1>3. ASSUME NEW c \in Call, Open(c) PROVE IndInv'
  <2>1. lease[c.task][c.fence].state # "NONE"
    BY <1>3, CheckedIsGranted DEF Open
  <2> QED
    BY <1>3, <2>1, QuietStep DEF Open, IndInv, TypeOK
<1>4. ASSUME NEW t \in Task, NEW n \in AttemptNumber, Request(t, n) PROVE IndInv'
  <2>1. PICK c \in CallOn(t, n) : Serve(c) \/ Open(c)
    BY <1>4 DEF Request
  <2>2. c \in Call
    BY DEF CallOn, Call
  <2> QED
    BY <2>1, <2>2, <1>2, <1>3
<1>5. ASSUME NEW c \in calls, Finish(c) PROVE IndInv'
  <2>1. c \in Call /\ lease[c.task][c.fence].state # "NONE"
    BY DEF IndInv, TypeOK, LeaseFencing, HandlersWereGranted
  <2> QED
    BY <1>5, <2>1, WriteStep DEF Finish
<1>6. ASSUME NEW c \in committing, Commit(c) PROVE IndInv'
  BY <1>6, CommitStep
<1>7. ASSUME NEW t \in Task, NEW n \in AttemptNumber, Expire(t, n) PROVE IndInv'
  BY <1>7, ExpireStep
<1>8. ASSUME NEW s \in Session, EndSession(s) PROVE IndInv'
  BY <1>8, QuietStep DEF EndSession, IndInv, TypeOK
<1>9. ASSUME NEW j \in Job, Cancel(j) PROVE IndInv'
  BY <1>9, CancelStep
<1>10. ASSUME NEW t \in Task, Retry(t) PROVE IndInv'
  BY <1>10, RetryStep
<1>11. CASE UNCHANGED vars
  BY <1>11, QuietStep DEF vars, leaseVars, IndInv, TypeOK
<1> QED
  BY <1>1, <1>4, <1>5, <1>6, <1>7, <1>8, <1>9, <1>10, <1>11 DEF Next

-----------------------------------------------------------------------------
(* Every column keeps its type, whichever handlers overlap. *)
THEOREM TypeCorrect == Spec => []TypeOK
<1>1. IndInv => TypeOK
  BY DEF IndInv
<1> QED
  BY InitIndInv, NextIndInv, <1>1, PTL DEF Spec

(***************************************************************************)
(* The fencing holds for every number of workers, tasks and attempts and   *)
(* for every set of handlers whose check and write are separated: at any   *)
(* time a task has at most one unreleased lease, that of its latest        *)
(* attempt, and a session at most one.                                     *)
(***************************************************************************)
THEOREM FencingHolds == Spec => []LeaseFencing
<1>1. IndInv => LeaseFencing
  BY DEF IndInv
<1> QED
  BY InitIndInv, NextIndInv, <1>1, PTL DEF Spec
=============================================================================
