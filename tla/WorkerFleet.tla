----------------------------- MODULE WorkerFleet -----------------------------
(***************************************************************************)
(* One rented worker: its rows in the registry (PrismaWorkersRepository:   *)
(* enrolment token, credential, session, desired and observed status), the *)
(* leases its sessions hold, and the agent process on the machine          *)
(* (agent.py), which a supervisor restarts whenever it ends.  The rows of  *)
(* different workers meet in one place only: every claim, of any worker,   *)
(* first releases the expired leases of all of them.                       *)
(*                                                                         *)
(* Requests and responses may be lost, the agent may die at any point, and *)
(* a response is applied to whatever the agent does when it arrives.  A    *)
(* claim, a heartbeat and the start of a session read and write in two     *)
(* steps (READ COMMITTED), and all of them may outlast the process that    *)
(* sent them.  A worker enrols at most once, because a session stays open  *)
(* as long as it is wanted; its billing session is open that long too.     *)
(* Identifiers that nothing remembers any more are used again.             *)
(***************************************************************************)
EXTENDS Naturals, FiniteSets

CONSTANTS
    LeaseId, SessionId, \* identifiers
    None,               \* no lease, session or heartbeat
    MaxRequests,        \* BOUND: claims, starts and beats of earlier sessions in flight
    OthersPoll,         \* whether another worker keeps claiming
    Faults              \* whether processes die, requests get lost and leases expire

ASSUME FleetAssumption ==
    /\ None \notin LeaseId \cup SessionId
    /\ MaxRequests \in Nat \ {0}
    /\ OthersPoll \in BOOLEAN /\ Faults \in BOOLEAN

VARIABLES
    desired,     \* workers.desired_status
    observed,    \* workers.observed_status
    token,       \* whether an enrolment token can still be exchanged
    credential,  \* the worker's worker_credentials row
    session,     \* the latest worker_sessions row
    leases,      \* unreleased task_leases of the worker
    starts,      \* startSession requests in flight that have passed their checks
    claims,      \* claim requests in flight
    beat,        \* the heartbeat in flight
    agent        \* the agent process

registry == <<desired, observed, token, credential, session>>
vars == <<registry, leases, starts, claims, beat, agent>>

Desired == {"ACTIVE", "DRAINING", "REVOKED"}
Observed == {"PENDING", "READY", "BUSY", "DRAINING", "SAFE_TO_TERMINATE", "OFFLINE",
             "TERMINATED"}

SessionRow == [id : SessionId \cup {None}, open : BOOLEAN, slots : 0..1, fresh : BOOLEAN]
LeaseRow == [id : LeaseId, session : SessionId, expired : BOOLEAN]
Start == [old : SessionId, awaited : BOOLEAN]
Claim == [n : 1..MaxRequests, session : SessionId, checked : BOOLEAN]
Beat == [phase : {"sent", "counted", "answered"}, session : SessionId, lease : LeaseId \cup {None},
         slots : 0..1, status : Observed \cup {None}, desired : Desired, cancel : BOOLEAN]

(* What the process knows; its credential file outlives it. *)
Agent == [phase : {"off", "idle", "claiming", "working"}, enrolled : BOOLEAN,
          session : SessionId \cup {None}, desired : Desired,
          lease : LeaseId \cup {None}, cancel : BOOLEAN]

LeasesOf(s) == {l \in leases : l.session = s}
Unexpired == {l \in leases : ~l.expired}
Running == agent.phase # "off"
LeftBehind == IF beat # None /\ beat.session # agent.session THEN 1 ELSE 0
InFlight == Cardinality(claims) + Cardinality(starts) + LeftBehind

FreshLease == LeaseId \ ({l.id : l \in leases} \cup {agent.lease}
                         \cup (IF beat = None THEN {} ELSE {beat.lease}))
FreshSession(waiting) ==
    SessionId \ ({session.id, agent.session} \cup {l.session : l \in leases}
                 \cup {c.session : c \in claims} \cup {st.old : st \in waiting}
                 \cup (IF beat = None THEN {} ELSE {beat.session}))
(* credential(): the secret of the agent belongs to an unrevoked credential. *)
Authentic == credential = "live"

-----------------------------------------------------------------------------
(* The operator (Serializable transactions on the worker row). *)

(* BOUND: no tokens for a worker that has its credential and needs none. *)
IssueToken ==
    /\ desired = "ACTIVE"
    /\ ~agent.enrolled
    /\ token' = TRUE
    /\ UNCHANGED <<desired, observed, credential, session, leases, starts, claims, beat, agent>>

TokenExpires ==
    /\ token
    /\ token' = FALSE
    /\ UNCHANGED <<desired, observed, credential, session, leases, starts, claims, beat, agent>>

Drain ==
    /\ desired # "REVOKED"
    /\ observed # "TERMINATED"
    /\ desired' = "DRAINING"
    /\ observed' = IF leases = {} THEN "SAFE_TO_TERMINATE" ELSE "DRAINING"
    /\ UNCHANGED <<token, credential, session, leases, starts, claims, beat, agent>>

Revoke ==
    /\ desired' = "REVOKED"
    /\ credential' = IF Authentic THEN "revoked" ELSE credential
    /\ token' = FALSE
    /\ UNCHANGED <<observed, session, leases, starts, claims, beat, agent>>

ConfirmTermination ==
    /\ leases = {}
    /\ observed = "SAFE_TO_TERMINATE" \/ desired = "REVOKED"
    /\ session' = [session EXCEPT !.open = FALSE]
    /\ observed' = "TERMINATED"
    /\ UNCHANGED <<desired, token, credential, leases, starts, claims, beat, agent>>

(* OFFLINE_MS without a heartbeat, which a list or detail request then shows. *)
Silence ==
    /\ session.open /\ session.fresh
    /\ session' = [session EXCEPT !.fresh = FALSE]
    /\ UNCHANGED <<desired, observed, token, credential, leases, starts, claims, beat, agent>>

RefreshOffline ==
    /\ observed \in {"READY", "BUSY", "DRAINING"}
    /\ session.open /\ ~session.fresh
    /\ observed' = "OFFLINE"
    /\ UNCHANGED <<desired, token, credential, session, leases, starts, claims, beat, agent>>

-----------------------------------------------------------------------------
(* The agent opens its session: start_session with a stored credential, enroll without. *)

NewSession(s) == [id |-> s, open |-> TRUE, slots |-> 1, fresh |-> TRUE]

(* The response reaches the process, or the process ends without it. *)
Opened(s, delivered) ==
    agent' = IF delivered
             THEN [phase |-> "idle", enrolled |-> TRUE, session |-> s, desired |-> "ACTIVE",
                   lease |-> None, cancel |-> FALSE]
             ELSE agent

Enroll(delivered) ==
    \E s \in FreshSession(starts) :
        /\ ~Running /\ ~agent.enrolled
        /\ token /\ desired = "ACTIVE" /\ ~session.open
        /\ token' = FALSE
        /\ credential' = "live"
        /\ session' = NewSession(s)
        /\ observed' = "READY"
        /\ Opened(s, delivered)
        /\ UNCHANGED <<desired, leases, starts, claims, beat>>

(* The process, off until it has its session, waits for one start at a time. *)
Opening == \E st \in starts : st.awaited

(* startSession() checks: an open session is replaced unless it holds leases.  *)
(* The billing session is closed with the last one.                            *)
CheckStart ==
    /\ ~Running /\ ~Opening
    /\ InFlight < MaxRequests
    /\ agent.enrolled /\ Authentic
    /\ desired = "ACTIVE"
    /\ session.open
    /\ LeasesOf(session.id) = {}
    /\ starts' = starts \cup {[old |-> session.id, awaited |-> TRUE]}
    /\ UNCHANGED <<registry, leases, claims, beat, agent>>

(* Not faithful, for mutation: whatever session is open is replaced. *)
AnyOpen(st) == session.open

(* worker_sessions_one_active: the session that was read is the one to replace. *)
StillOpen(st) == session.open /\ session.id = st.old

(* It replaces that session, whatever has changed since, and answers. *)
WriteStart(st) ==
    \E s \in FreshSession(starts \ {st}) :
        /\ st \in starts /\ StillOpen(st)
        /\ session' = NewSession(s)
        /\ observed' = "READY"
        /\ Opened(s, st.awaited)
        /\ starts' = starts \ {st}
        /\ UNCHANGED <<desired, token, credential, leases, claims, beat>>

(* Another start was first, or the worker's billing is over. *)
FailStart(st) ==
    /\ st \in starts /\ ~StillOpen(st)
    /\ starts' = starts \ {st}
    /\ UNCHANGED <<registry, leases, claims, beat, agent>>

(* The process ends without its answer; the request goes on. *)
GiveUpStart ==
    /\ Faults
    /\ \E st \in starts :
           /\ st.awaited
           /\ starts' = (starts \ {st}) \cup {[st EXCEPT !.awaited = FALSE]}
    /\ UNCHANGED <<registry, leases, claims, beat, agent>>

Off == [agent EXCEPT !.phase = "off", !.session = None, !.lease = None, !.cancel = FALSE,
                     !.desired = "ACTIVE"]

Crash ==
    /\ Faults /\ Running
    /\ agent' = Off
    /\ UNCHANGED <<registry, leases, starts, claims, beat>>

(* The loop of run() ends once the agent knows that it is not wanted. *)
Leave ==
    /\ agent.phase = "idle"
    /\ agent.desired # "ACTIVE"
    /\ agent' = Off
    /\ UNCHANGED <<registry, leases, starts, claims, beat>>

(* _observe_desired_status *)
Observe(a, d) == IF a.desired = "ACTIVE" \/ d = "REVOKED" THEN [a EXCEPT !.desired = d] ELSE a

-----------------------------------------------------------------------------
(* Claims. *)

SendClaim ==
    /\ agent.phase = "idle"
    /\ agent.desired = "ACTIVE"
    /\ InFlight < MaxRequests
    /\ \E n \in 1..MaxRequests :
           /\ \A c \in claims : c.n # n
           /\ claims' = claims \cup {[n |-> n, session |-> agent.session, checked |-> FALSE]}
    /\ agent' = [agent EXCEPT !.phase = "claiming"]
    /\ UNCHANGED <<registry, leases, starts, beat>>

Awaits(c) == agent.phase = "claiming" /\ agent.session = c.session

(* Not faithful, for mutation: a worker that is draining is served. *)
NotRevoked(c) ==
    /\ session.id = c.session /\ session.open
    /\ Authentic
    /\ desired # "REVOKED"

(* session(): the session and its credential are current, the worker neither *)
(* revoked nor draining, its heartbeat recent.                               *)
Entitled(c) ==
    /\ session.id = c.session /\ session.open
    /\ Authentic
    /\ desired = "ACTIVE"
    /\ session.fresh

(* Not faithful, for mutation: what the latest session holds is not looked at. *)
KeptForSession == {l \in leases : ~l.expired \/ l.session = session.id}

(* reapExpired: what is left of the leases. *)
AfterReap == Unexpired

(* The request is refused: the exception ends run(). *)
RefuseClaim(c) ==
    /\ c \in claims /\ ~c.checked
    /\ ~Entitled(c)
    /\ leases' = AfterReap
    /\ claims' = claims \ {c}
    /\ agent' = IF Awaits(c) THEN Off ELSE agent
    /\ UNCHANGED <<registry, starts, beat>>

(* No free slot, a lease in this session, or nothing to do. *)
ClaimNothing(c) ==
    /\ c \in claims /\ ~c.checked
    /\ Entitled(c)
    /\ leases' = AfterReap
    /\ claims' = claims \ {c}
    /\ agent' = IF Awaits(c) THEN Observe([agent EXCEPT !.phase = "idle"], desired) ELSE agent
    /\ UNCHANGED <<registry, starts, beat>>

(* The checks, and the lease and the status that are written after them. *)
CheckClaim(c) ==
    /\ c \in claims /\ ~c.checked
    /\ Entitled(c)
    /\ session.slots = 1
    /\ \A l \in AfterReap : l.session # c.session
    /\ leases' = AfterReap
    /\ claims' = (claims \ {c}) \cup {[c EXCEPT !.checked = TRUE]}
    /\ UNCHANGED <<registry, starts, beat, agent>>

CommitClaim(c) ==
    /\ c \in claims /\ c.checked
    /\ \E id \in FreshLease :
           /\ leases' = leases \cup {[id |-> id, session |-> c.session, expired |-> FALSE]}
           /\ observed' = "BUSY"
           /\ claims' = claims \ {c}
           /\ agent' = IF Awaits(c)
                       THEN [agent EXCEPT !.phase = "working", !.lease = id, !.cancel = FALSE]
                       ELSE agent
           /\ UNCHANGED <<desired, token, credential, session, starts, beat>>

(* Not faithful, for mutation: the agent goes on in the same session. *)
StaysAfterLoss == [agent EXCEPT !.phase = "idle"]

(* What the agent is when the response of a claim never comes. *)
AfterLoss == Off

(* The agent hears nothing (35 s, or a broken connection): the exception ends run(). *)
LoseClaim ==
    /\ Faults
    /\ agent.phase = "claiming"
    /\ agent' = AfterLoss
    /\ UNCHANGED <<registry, leases, starts, claims, beat>>

DropClaim(c) ==
    /\ c \in claims /\ ~Awaits(c)
    /\ claims' = claims \ {c}
    /\ UNCHANGED <<registry, leases, starts, beat, agent>>

-----------------------------------------------------------------------------
(* The task the agent works on. *)

Idle == [agent EXCEPT !.phase = "idle", !.lease = None, !.cancel = FALSE]

(* complete or fail under withLease: the lease is released. *)
Report ==
    /\ agent.phase = "working" /\ ~agent.cancel
    /\ session.open /\ session.id = agent.session /\ Authentic
    /\ \E l \in Unexpired : l.id = agent.lease /\ leases' = leases \ {l}
    /\ agent' = Idle
    /\ UNCHANGED <<registry, starts, claims, beat>>

(* A request of the task is refused, or the cancel flag is seen: the task is  *)
(* dropped without a word.  A refused renewal comes out of the finally of     *)
(* _run_task, so the process ends; other errors than a lost lease may refuse  *)
(* an input or an output.                                                     *)
Abandon ==
    /\ agent.phase = "working"
    /\ \/ agent.cancel \/ Faults
       \/ ~session.open \/ session.id # agent.session \/ ~Authentic
       \/ \A l \in Unexpired : l.id # agent.lease
    /\ agent' \in {Idle, Off}
    /\ UNCHANGED <<registry, leases, starts, claims, beat>>

Expire(id) ==
    /\ Faults
    /\ \E l \in Unexpired :
           /\ l.id = id
           /\ leases' = (leases \ {l}) \cup {[l EXCEPT !.expired = TRUE]}
    /\ UNCHANGED <<registry, starts, claims, beat, agent>>

(* A claim of another worker. *)
Reap ==
    /\ OthersPoll
    /\ leases # AfterReap
    /\ leases' = AfterReap
    /\ UNCHANGED <<registry, starts, claims, beat, agent>>

(* cancelJobInTransaction releases the lease of the job's task. *)
QueueCancel(l) ==
    /\ l \in leases
    /\ leases' = leases \ {l}
    /\ UNCHANGED <<registry, starts, claims, beat, agent>>

-----------------------------------------------------------------------------
(* Heartbeats. *)

SendBeat ==
    /\ Running /\ beat = None
    /\ beat' = [phase |-> "sent", session |-> agent.session, lease |-> agent.lease,
                slots |-> IF agent.lease = None /\ agent.desired = "ACTIVE" THEN 1 ELSE 0,
                status |-> None, desired |-> "ACTIVE", cancel |-> FALSE]
    /\ UNCHANGED <<registry, leases, starts, claims, agent>>

(* Not faithful, for mutation: the status is the desired one while there is work. *)
CopiedStatus(b) == IF LeasesOf(b.session) = {} THEN "READY" ELSE desired

BeatStatus(b) ==
    IF desired = "DRAINING"
    THEN IF LeasesOf(b.session) = {} THEN "SAFE_TO_TERMINATE" ELSE "DRAINING"
    ELSE IF LeasesOf(b.session) # {} \/ b.lease # None THEN "BUSY" ELSE "READY"

Accepted(b) ==
    Authentic /\ session.id = b.session /\ session.open /\ desired # "REVOKED"

(* At READ COMMITTED: the leases are counted in one statement, *)
CountBeat ==
    /\ beat # None /\ beat.phase = "sent"
    /\ Accepted(beat)
    /\ beat' = [beat EXCEPT !.phase = "counted", !.status = BeatStatus(beat), !.desired = desired]
    /\ UNCHANGED <<registry, leases, starts, claims, agent>>

(* and the status that follows is written in a later one. *)
WriteBeat ==
    /\ beat # None /\ beat.phase = "counted"
    /\ session' = IF session.id = beat.session
                  THEN [session EXCEPT !.slots = beat.slots, !.fresh = TRUE]
                  ELSE session
    /\ observed' = beat.status
    /\ beat' = [beat EXCEPT
                   !.phase = "answered", !.status = None,
                   !.cancel = beat.lease \notin {l.id : l \in LeasesOf(beat.session)} \cup {None}]
    /\ UNCHANGED <<desired, token, credential, leases, starts, claims, agent>>

(* The cancel flag is one of the agent, not of the task the heartbeat named. *)
HearAnswer ==
    /\ beat # None /\ beat.phase = "answered"
    /\ beat' = None
    /\ agent' = IF Running /\ agent.session = beat.session
                THEN LET a == Observe(agent, beat.desired)
                     IN  [a EXCEPT !.cancel = @ \/ (beat.cancel /\ a.phase = "working")]
                ELSE agent
    /\ UNCHANGED <<registry, leases, starts, claims>>

(* The loop swallows the exception of a request that is refused, *)
RefuseBeat ==
    /\ beat # None /\ beat.phase = "sent"
    /\ ~Accepted(beat)
    /\ beat' = None
    /\ UNCHANGED <<registry, leases, starts, claims, agent>>

(* or lost on the way. *)
LoseBeat ==
    /\ Faults
    /\ beat # None /\ beat.phase # "counted"
    /\ beat' = None
    /\ UNCHANGED <<registry, leases, starts, claims, agent>>

-----------------------------------------------------------------------------
Init ==
    /\ desired = "ACTIVE"
    /\ observed = "PENDING"
    /\ token = TRUE
    /\ credential = "none"
    /\ session = [id |-> None, open |-> FALSE, slots |-> 0, fresh |-> FALSE]
    /\ leases = {}
    /\ starts = {}
    /\ claims = {}
    /\ beat = None
    /\ agent = [phase |-> "off", enrolled |-> FALSE, session |-> None, desired |-> "ACTIVE",
                lease |-> None, cancel |-> FALSE]

Operator == IssueToken \/ Drain \/ Revoke \/ ConfirmTermination
Clock == TokenExpires \/ Silence \/ RefreshOffline \/ \E id \in LeaseId : Expire(id)
ServeStart == \E st \in starts : WriteStart(st) \/ FailStart(st)
Answer == \E st \in starts : st.awaited /\ WriteStart(st)
Open ==
    \/ \E delivered \in BOOLEAN : (Faults \/ delivered) /\ Enroll(delivered)
    \/ CheckStart \/ ServeStart
ServeClaim ==
    \E c \in claims : RefuseClaim(c) \/ ClaimNothing(c) \/ CheckClaim(c) \/ CommitClaim(c)
ClaimLoss == LoseClaim \/ \E c \in claims : DropClaim(c)
Work == Report \/ Abandon
Heartbeat == SendBeat \/ CountBeat \/ WriteBeat \/ HearAnswer \/ RefuseBeat

Next ==
    \/ Operator
    \/ Clock
    \/ Open
    \/ GiveUpStart
    \/ Crash
    \/ Leave
    \/ SendClaim
    \/ ServeClaim
    \/ ClaimLoss
    \/ Work
    \/ Heartbeat
    \/ LoseBeat
    \/ Reap
    \/ \E l \in leases : QueueCancel(l)

Spec == Init /\ [][Next]_vars

(***************************************************************************)
(* Fairness.  The supervisor restarts the agent, an executor ends (it has a*)
(* timeout), a running agent keeps polling and its heartbeats keep being   *)
(* answered, requests in flight are served or lost, clocks advance, and    *)
(* another worker polls if OthersPoll.  The operator does nothing more     *)
(* than once, and no single request is sure to be answered: only a process *)
(* that tries again and again gets a session some time.                    *)
(***************************************************************************)
Fairness ==
    /\ WF_vars(CheckStart) /\ WF_vars(ServeStart) /\ SF_vars(Answer)
    /\ WF_vars(Leave)
    /\ WF_vars(SendClaim)
    /\ WF_vars(ServeClaim)
    /\ WF_vars(Work)
    /\ WF_vars(Heartbeat)
    /\ WF_vars(Reap)
    /\ \A id \in LeaseId : WF_vars(Expire(id))

FairSpec == Spec /\ Fairness
-----------------------------------------------------------------------------
(* Every variable has the type of its column. *)
TypeOK ==
    /\ desired \in Desired
    /\ observed \in Observed
    /\ token \in BOOLEAN
    /\ credential \in {"none", "live", "revoked"}
    /\ session \in SessionRow
    /\ leases \subseteq LeaseRow
    /\ starts \subseteq Start
    /\ claims \subseteq Claim
    /\ beat \in Beat \cup {None}
    /\ agent \in Agent

(***************************************************************************)
(* A session never holds two unreleased leases, although claim counts them *)
(* without a lock and responses get lost; and what an agent works on is    *)
(* the only lease its session can hold.  TaskLeases builds on this.        *)
(***************************************************************************)
OneLeasePerSession ==
    /\ \A l, m \in leases : l.session = m.session => l = m
    /\ agent.phase = "working" =>
           \A l \in leases : l.session = agent.session => l.id = agent.lease

(***************************************************************************)
(* No two executors of one identity (gpu-worker-control-plane.md): the     *)
(* agent that runs has the worker's latest session, and what it works on is*)
(* a lease of that one.  A start that was given up does not replace it, and*)
(* what a claim adds late to a session that has been replaced runs nowhere.*)
(***************************************************************************)
OneExecutor ==
    Running =>
        /\ agent.session = session.id
        /\ \A l \in leases : l.id = agent.lease => l.session = session.id

(***************************************************************************)
(* From a drain or a revocation on, the worker loses its leases and gets   *)
(* no others, also if it dies or never reports.                            *)
(***************************************************************************)
UnwantedBecomesIdle == desired # "ACTIVE" ~> [](leases = {})

(***************************************************************************)
(* "A worker that restarts opens a new session" (worker-task-execution.md):*)
(* as long as it is wanted and its credential is good, an agent does not   *)
(* stay locked out by the lease it lost track of.                          *)
(***************************************************************************)
Welcome == desired = "ACTIVE" /\ agent.enrolled

RestartResumes == <>[]Welcome => []<>Running
-----------------------------------------------------------------------------
(* What the documentation says of steps that the code takes. *)

(* "Only when activeLeaseCount = 0 does the monitor switch to               *)
(* SAFE_TO_TERMINATE" (gpu-worker-control-plane.md): a machine shown as safe *)
(* to delete runs nothing.                                                  *)
SafeMeansIdle == observed = "SAFE_TO_TERMINATE" => leases = {}

(* "DRAINING, no active lease left -> SAFE_TO_TERMINATE" (gpu-worker-       *)
(* control-plane.md); the operator waits for it before deleting the machine *)
(* (control-plane-compose.md).                                              *)
DrainCompletes ==
    session.open /\ observed = "DRAINING" ~>
        observed = "SAFE_TO_TERMINATE" \/ desired = "REVOKED"
=============================================================================
