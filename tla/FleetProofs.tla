----------------------------- MODULE FleetProofs -----------------------------
(***************************************************************************)
(* Proofs about Fleet, for every set of roles, leases and sessions and any *)
(* number of requests in flight: what a pod leaves behind when it returns, *)
(* which leases a session can hold, and which session the agent that runs  *)
(* can have.                                                               *)
(*                                                                         *)
(* In the pod, who is alive follows from what _supervise does for its role.*)
(* In the registry, that a session holds one lease rests on how many of    *)
(* its claims are in flight; that the agent's is the latest, on what the   *)
(* starts that were given up have read.                                    *)
(***************************************************************************)
EXTENDS Fleet, TLAPS

-----------------------------------------------------------------------------
(* The pod. *)

(* Agents are launched from StartAgents on, and an agent that _supervise does *)
(* not watch is not alive.                                                     *)
PodInv ==
    /\ PodTypeOK
    /\ InStartup => \A r \in Role : role[r] = "none"
    /\ \A r \in Role : role[r] \notin {"running", "ending"} => proc[r] # "alive"
    /\ phase = "returned" =>
           daemon # "up" /\ \A r \in Role : role[r] \in {"none", "over"}

(* What _supervise is doing decides whether an agent can outlive the pod. *)
LEMMA PodStep ==
    ASSUME PodInv, [PodNext]_podVars
    PROVE  PodInv'
<1> USE DEF PodInv, PodTypeOK, PodPhase, RolePhase
<1>1. CASE Startup
  BY <1>1 DEF Startup, LaunchDaemon, Join, StartAgents, StartupFails, Leaving, InStartup
<1>2. ASSUME NEW r \in Role, Launch(r) \/ Supervise(r) \/ AgentExits(r)
      PROVE  PodInv'
  BY <1>2 DEF Launch, Launched, LaunchFails, Supervise, DelayEnds, SeeExit, SeeStop, KillAgent,
              AgentExits, Proceed, Stopping, InStartup
<1>3. CASE Ending
  BY <1>3 DEF Ending, Shutdown, GraceOver, ReturnPod, AllOver, Leaving, InStartup
<1>4. CASE Signal \/ DaemonExits
  BY <1>4 DEF Signal, DaemonExits, InStartup
<1>5. CASE UNCHANGED podVars
  BY <1>5 DEF podVars, InStartup
<1> QED
  BY <1>1, <1>2, <1>3, <1>4, <1>5 DEF PodNext

-----------------------------------------------------------------------------
(* The registry. *)

(* An agent that runs knows its session, and the lease it works on. *)
AgentKnows ==
    /\ agent.phase = "off" <=> agent.session = None
    /\ agent.phase = "working" => agent.lease # None

(* A session that is open is a session. *)
OpenHasId == session.open => session.id # None

(* A heartbeat that has counted the leases has a status to write. *)
CountedHasStatus == beat # None /\ beat.phase = "counted" => beat.status \in Observed

(* A session has one claim in flight at most, and none while its agent does not *)
(* wait for one.                                                                 *)
OneClaimPerSession ==
    /\ \A c, d \in claims : c.session = d.session => c = d
    /\ agent.phase \in {"idle", "working"} => \A c \in claims : c.session # agent.session

(* What a claim has checked still holds when it commits, whatever session is the *)
(* latest by then.                                                                *)
ChecksHold == \A c \in claims : c.checked => \A l \in leases : l.session # c.session

(* No start can still replace the session of an agent that runs. *)
StartsAreOld == Running => \A st \in starts : st.old # session.id

LeaseInv ==
    /\ TypeOK
    /\ AgentKnows
    /\ OpenHasId
    /\ CountedHasStatus
    /\ OneClaimPerSession
    /\ ChecksHold
    /\ StartsAreOld
    /\ OneExecutor
    /\ OneLeasePerSession

USE FleetAssumption

(* At first there is no session, no lease and no claim in flight. *)
LEMMA InitLeaseInv == Init => LeaseInv
BY DEF Init, LeaseInv, TypeOK, AgentKnows, OpenHasId, CountedHasStatus,
       OneClaimPerSession, ChecksHold, StartsAreOld, OneExecutor, Running, OneLeasePerSession,
       Desired, Observed, SessionRow, Agent

(* The operator and the clocks open no session and grant no lease. *)
LEMMA RegistryStep ==
    ASSUME LeaseInv, Operator \/ Clock
    PROVE  LeaseInv'
<1> USE DEF LeaseInv, TypeOK, AgentKnows, OpenHasId, CountedHasStatus, OneClaimPerSession,
            ChecksHold, StartsAreOld, OneExecutor, Running, OneLeasePerSession, Desired, Observed,
            SessionRow
<1>1. CASE IssueToken \/ TokenExpires
  <2>1. token' \in BOOLEAN
        /\ UNCHANGED <<desired, observed, credential, session, leases, starts, claims, beat, agent>>
    BY <1>1 DEF IssueToken, TokenExpires
  <2> QED
    BY <2>1
<1>2. CASE Drain
  BY <1>2 DEF Drain
<1>3. CASE Revoke
  <2>1. TypeOK'
    BY <1>3 DEF Revoke, Authentic
  <2>2. AgentKnows' /\ OpenHasId' /\ CountedHasStatus'
    BY <1>3 DEF Revoke, Authentic
  <2>3. OneClaimPerSession' /\ ChecksHold' /\ StartsAreOld' /\ OneExecutor' /\ OneLeasePerSession'
    BY <1>3 DEF Revoke, Authentic
  <2> QED
    BY <2>1, <2>2, <2>3
<1>4. CASE ConfirmTermination
  <2>1. TypeOK'
    BY <1>4 DEF ConfirmTermination
  <2>2. AgentKnows' /\ OpenHasId' /\ CountedHasStatus'
    BY <1>4 DEF ConfirmTermination
  <2>3. OneClaimPerSession' /\ ChecksHold' /\ StartsAreOld' /\ OneExecutor' /\ OneLeasePerSession'
    BY <1>4 DEF ConfirmTermination
  <2> QED
    BY <2>1, <2>2, <2>3
<1>5. CASE Silence
  <2>1. session' \in SessionRow /\ session'.id = session.id /\ session'.open = session.open
    BY <1>5 DEF Silence
  <2>2. UNCHANGED <<desired, observed, token, credential, leases, starts, claims, beat, agent>>
    BY <1>5 DEF Silence
  <2> QED
    BY <2>1, <2>2
<1>6. CASE RefreshOffline
  BY <1>6 DEF RefreshOffline
<1>7. ASSUME NEW id \in LeaseId, Expire(id)
      PROVE  LeaseInv'
  <2>1. PICK l \in leases : leases' = (leases \ {l}) \cup {[l EXCEPT !.expired = TRUE]}
    BY <1>7 DEF Expire, Unexpired
  <2>2. UNCHANGED <<registry, starts, claims, beat, agent>>
    BY <1>7 DEF Expire
  <2> DEFINE m == [l EXCEPT !.expired = TRUE]
  <2>3. m \in LeaseRow /\ m.id = l.id /\ m.session = l.session
    BY DEF LeaseRow
  <2> HIDE DEF m
  <2>4. leases' = (leases \ {l}) \cup {m}
    BY <2>1 DEF m
  <2>5. TypeOK'
    BY <2>2, <2>3, <2>4 DEF registry
  <2> QED
    BY <2>2, <2>3, <2>4, <2>5 DEF registry
<1> QED
  BY <1>1, <1>2, <1>3, <1>4, <1>5, <1>6, <1>7 DEF Operator, Clock

(* A session s is opened, and the agent may hear of it. *)
Begins(s) ==
    /\ ~Running
    /\ \A c \in claims : c.session # s
    /\ \A l \in leases : l.session # s
    /\ starts' \subseteq starts /\ \A st \in starts' : st.old # s
    /\ session' = NewSession(s)
    /\ \E heard \in BOOLEAN : Opened(s, heard)
    /\ observed' = "READY"
    /\ token' \in BOOLEAN /\ credential' \in {"none", "live", "revoked"}
    /\ UNCHANGED <<desired, leases, claims, beat>>

(* A new session has no claim and no lease, and it is not the one a start has read. *)
LEMMA NewSessionStep ==
    ASSUME LeaseInv, NEW s \in SessionId, Begins(s)
    PROVE  LeaseInv'
<1> USE DEF LeaseInv, TypeOK, AgentKnows, OpenHasId, CountedHasStatus, OneClaimPerSession,
            ChecksHold, StartsAreOld, OneExecutor, Running, OneLeasePerSession, Begins
<1>1. session' \in SessionRow /\ session'.id = s /\ s # None
  BY DEF NewSession, SessionRow
<1>2. agent' = agent \/ (agent' \in Agent /\ agent'.phase = "idle" /\ agent'.session = s
                         /\ agent'.lease = None)
  BY DEF Opened, Agent, Desired
<1>3. TypeOK'
  BY <1>1, <1>2 DEF Observed
<1>4. AgentKnows' /\ OpenHasId' /\ CountedHasStatus' /\ ChecksHold'
  BY <1>1, <1>2
<1>5. OneClaimPerSession' /\ OneLeasePerSession'
  BY <1>1, <1>2
<1>6. StartsAreOld' /\ OneExecutor'
  BY <1>1, <1>2 DEF LeaseRow
<1> QED
  BY <1>3, <1>4, <1>5, <1>6

(* A session is opened only while no agent runs. *)
LEMMA OpenStep ==
    ASSUME LeaseInv, Open \/ GiveUpStart
    PROVE  LeaseInv'
<1>1. ASSUME NEW delivered \in BOOLEAN, Enroll(delivered)
      PROVE  LeaseInv'
  <2>1. PICK s \in FreshSession(starts) :
            ~Running /\ session' = NewSession(s) /\ observed' = "READY" /\ Opened(s, delivered)
    BY <1>1 DEF Enroll
  <2>2. s \in SessionId /\ Begins(s)
    BY <1>1, <2>1 DEF Enroll, Begins, FreshSession
  <2> QED
    BY <2>2, NewSessionStep
<1>2. ASSUME NEW st \in starts, WriteStart(st)
      PROVE  LeaseInv'
  <2>1. PICK s \in FreshSession(starts \ {st}) :
            /\ StillOpen(st) /\ session' = NewSession(s) /\ observed' = "READY"
            /\ Opened(s, st.awaited)
    BY <1>2 DEF WriteStart
  <2>2. ~Running /\ st.awaited \in BOOLEAN /\ token \in BOOLEAN
        /\ credential \in {"none", "live", "revoked"}
    BY <2>1 DEF StillOpen, Start, LeaseInv, TypeOK, StartsAreOld
  <2>3. s \in SessionId /\ Begins(s)
    BY <1>2, <2>1, <2>2 DEF WriteStart, Begins, FreshSession
  <2> QED
    BY <2>3, NewSessionStep
<1> USE DEF LeaseInv, TypeOK, AgentKnows, OpenHasId, CountedHasStatus, OneClaimPerSession,
            ChecksHold, StartsAreOld, OneExecutor, Running, OneLeasePerSession, registry
<1>3. CASE CheckStart
  <2>1. session.id \in SessionId
    BY <1>3 DEF CheckStart, SessionRow
  <2>2. [old |-> session.id, awaited |-> TRUE] \in Start
    BY <2>1 DEF Start
  <2> QED
    BY <1>3, <2>2 DEF CheckStart
<1>4. CASE GiveUpStart
  <2>1. PICK st \in starts : starts' = (starts \ {st}) \cup {[st EXCEPT !.awaited = FALSE]}
    BY <1>4 DEF GiveUpStart
  <2>2. [st EXCEPT !.awaited = FALSE] \in Start /\ [st EXCEPT !.awaited = FALSE].old = st.old
    BY DEF Start
  <2>3. UNCHANGED <<registry, leases, claims, beat, agent>>
    BY <1>4 DEF GiveUpStart
  <2> QED
    BY <2>1, <2>2, <2>3
<1>5. ASSUME NEW st \in starts, FailStart(st)
      PROVE  LeaseInv'
  BY <1>5 DEF FailStart
<1> QED
  BY <1>1, <1>2, <1>3, <1>4, <1>5 DEF Open, ServeStart

(* An agent that goes off, or is idle after its task, relies on nothing. *)
LEMMA AgentRests ==
    ASSUME LeaseInv, agent' = Off \/ (agent' = Idle /\ agent.phase \in {"idle", "working"}),
           leases' \subseteq leases, UNCHANGED <<registry, starts, claims, beat>>
    PROVE  LeaseInv'
<1> USE DEF LeaseInv, TypeOK
<1>1. \/ /\ agent' \in Agent /\ agent'.phase = "off" /\ agent'.session = None
      \/ /\ agent' \in Agent /\ agent'.phase = "idle" /\ agent'.session = agent.session
         /\ agent.phase \in {"idle", "working"} /\ agent'.lease = None
  <2>1. CASE agent' = Off
    BY <2>1 DEF Off, Agent, Desired
  <2>2. CASE agent' = Idle /\ agent.phase \in {"idle", "working"}
    BY <2>2 DEF Idle, Agent
  <2> QED
    BY <2>1, <2>2
<1>2. TypeOK'
  BY <1>1 DEF registry
<1>3. AgentKnows'
  BY <1>1 DEF AgentKnows
<1>4. OpenHasId' /\ CountedHasStatus'
  BY DEF OpenHasId, CountedHasStatus, registry
<1>5. OneClaimPerSession'
  BY <1>1 DEF OneClaimPerSession
<1>6. ChecksHold' /\ StartsAreOld' /\ OneExecutor'
  BY <1>1 DEF ChecksHold, StartsAreOld, OneExecutor, Running, registry, LeaseRow
<1>7. OneLeasePerSession'
  BY <1>1 DEF OneLeasePerSession
<1> QED
  BY <1>2, <1>3, <1>4, <1>5, <1>6, <1>7

(* The agent goes off, drops its task or reports it. *)
LEMMA AgentStep ==
    ASSUME LeaseInv, Crash \/ Leave \/ Work
    PROVE  LeaseInv'
<1>1. agent' = Off \/ (agent' = Idle /\ agent.phase \in {"idle", "working"})
  BY DEF Crash, Leave, Work, Report, Abandon
<1>2. leases' \subseteq leases /\ UNCHANGED <<registry, starts, claims, beat>>
  BY DEF Crash, Leave, Work, Report, Abandon
<1> QED
  BY <1>1, <1>2, AgentRests

(* A claim is sent by an idle agent only, which has none in flight. *)
LEMMA SendClaimStep ==
    ASSUME LeaseInv, SendClaim
    PROVE  LeaseInv'
<1> USE DEF LeaseInv, TypeOK, AgentKnows, OpenHasId, CountedHasStatus, OneClaimPerSession,
            ChecksHold, StartsAreOld, OneExecutor, Running, OneLeasePerSession, Agent, Desired
<1>1. PICK n \in 1..MaxRequests :
          claims' = claims \cup {[n |-> n, session |-> agent.session, checked |-> FALSE]}
  BY DEF SendClaim
<1>2. agent.phase = "idle" /\ agent' = [agent EXCEPT !.phase = "claiming"]
      /\ UNCHANGED <<registry, leases, starts, beat>>
  BY DEF SendClaim
<1> DEFINE c == [n |-> n, session |-> agent.session, checked |-> FALSE]
<1>3. c \in Claim /\ c.session = agent.session /\ ~c.checked
  BY <1>2 DEF Claim
<1> HIDE DEF c
<1>4. claims' = claims \cup {c}
  BY <1>1 DEF c
<1>5. TypeOK'
  BY <1>2, <1>3, <1>4 DEF registry
<1>6. /\ AgentKnows' /\ OpenHasId' /\ CountedHasStatus'
      /\ StartsAreOld' /\ OneExecutor' /\ OneLeasePerSession'
  BY <1>2 DEF registry
<1>7. ChecksHold' /\ OneClaimPerSession'
  BY <1>2, <1>3, <1>4 DEF registry
<1> QED
  BY <1>5, <1>6, <1>7

(* A claim that is answered takes nothing that another can rely on. *)
LEMMA RefusedClaimStep ==
    ASSUME LeaseInv, NEW c \in claims, RefuseClaim(c) \/ ClaimNothing(c) \/ CheckClaim(c)
    PROVE  LeaseInv'
<1> USE DEF LeaseInv, TypeOK, AgentKnows, OpenHasId, CountedHasStatus, OneClaimPerSession,
            ChecksHold, StartsAreOld, OneExecutor, Running, OneLeasePerSession, Agent, Desired,
            AfterReap,
            Unexpired
<1>1. CASE RefuseClaim(c)
  <2>1. TypeOK'
    BY <1>1 DEF RefuseClaim, Off, Awaits, registry
  <2>2. AgentKnows' /\ OpenHasId' /\ CountedHasStatus'
    BY <1>1 DEF RefuseClaim, Off, Awaits, registry
  <2>3. OneClaimPerSession' /\ ChecksHold' /\ StartsAreOld' /\ OneExecutor' /\ OneLeasePerSession'
    BY <1>1 DEF RefuseClaim, Off, Awaits, registry
  <2> QED
    BY <2>1, <2>2, <2>3
<1>2. CASE ClaimNothing(c)
  <2>1. TypeOK'
    BY <1>2 DEF ClaimNothing, Observe, registry
  <2>2. agent'.phase = agent.phase \/ (agent'.phase = "idle" /\ agent.phase = "claiming")
    BY <1>2 DEF ClaimNothing, Observe, Awaits
  <2>3. agent'.session = agent.session /\ agent'.lease = agent.lease
    BY <1>2 DEF ClaimNothing, Observe
  <2>4. agent'.phase = "idle" /\ agent.phase = "claiming" => agent.session = c.session
    BY <1>2 DEF ClaimNothing, Awaits
  <2> QED
    BY <1>2, <2>1, <2>2, <2>3, <2>4 DEF ClaimNothing, registry
<1>3. CASE CheckClaim(c)
  <2> DEFINE d == [c EXCEPT !.checked = TRUE]
  <2>1. d \in Claim /\ d.session = c.session
    BY DEF Claim
  <2> HIDE DEF d
  <2>2. claims' = (claims \ {c}) \cup {d} /\ leases' \subseteq leases
    BY <1>3 DEF CheckClaim, d
  <2>3. c.session = session.id /\ \A l \in leases' : l.session # c.session
    BY <1>3 DEF CheckClaim, Entitled
  <2>4. UNCHANGED <<registry, starts, beat, agent>>
    BY <1>3 DEF CheckClaim
  <2>5. TypeOK'
    BY <2>1, <2>2, <2>4 DEF registry
  <2>6. OneClaimPerSession' /\ ChecksHold'
    BY <2>1, <2>2, <2>3, <2>4 DEF registry
  <2> QED
    BY <2>2, <2>4, <2>5, <2>6 DEF registry
<1> QED
  BY <1>1, <1>2, <1>3

(* The lease that a claim grants is the only one of its session. *)
LEMMA CommitClaimStep ==
    ASSUME LeaseInv, NEW c \in claims, CommitClaim(c)
    PROVE  LeaseInv'
<1> USE DEF LeaseInv, TypeOK, AgentKnows, OpenHasId, CountedHasStatus, OneClaimPerSession,
            ChecksHold, StartsAreOld, OneExecutor, Running, OneLeasePerSession, Agent, Desired,
            FreshLease
<1>1. PICK id \in FreshLease :
          /\ leases' = leases \cup {[id |-> id, session |-> c.session, expired |-> FALSE]}
          /\ observed' = "BUSY"
          /\ claims' = claims \ {c}
          /\ agent' = IF Awaits(c)
                      THEN [agent EXCEPT !.phase = "working", !.lease = id, !.cancel = FALSE]
                      ELSE agent
          /\ UNCHANGED <<desired, token, credential, session, starts, beat>>
  BY DEF CommitClaim
<1>2. c.checked /\ c.session \in SessionId
  BY DEF CommitClaim, Claim
<1> DEFINE m == [id |-> id, session |-> c.session, expired |-> FALSE]
<1> m \in LeaseRow /\ m.id = id /\ m.session = c.session
  BY <1>2 DEF LeaseRow
<1> HIDE DEF m
<1> leases' = leases \cup {m}
  BY <1>1 DEF m
<1>3. TypeOK'
  BY <1>1, <1>2 DEF Observed
<1>4. AgentKnows' /\ OneClaimPerSession' /\ OpenHasId' /\ CountedHasStatus'
  BY <1>1, <1>2 DEF Awaits
<1>5. ChecksHold' /\ StartsAreOld' /\ OneExecutor'
  BY <1>1, <1>2 DEF Awaits
<1>6. OneLeasePerSession'
  BY <1>1, <1>2 DEF Awaits
<1> QED
  BY <1>3, <1>4, <1>5, <1>6

(* What the network or a death takes from a claim leaves the leases as they are. *)
LEMMA ClaimLossStep ==
    ASSUME LeaseInv, ClaimLoss
    PROVE  LeaseInv'
<1>1. CASE LoseClaim
  BY <1>1, AgentRests DEF LoseClaim, AfterLoss
<1>2. ASSUME NEW c \in claims, DropClaim(c)
      PROVE  LeaseInv'
  BY <1>2 DEF DropClaim, registry, LeaseInv, TypeOK, AgentKnows, OpenHasId, CountedHasStatus,
              OneClaimPerSession, ChecksHold, StartsAreOld, OneExecutor, Running, OneLeasePerSession
<1> QED
  BY <1>1, <1>2 DEF ClaimLoss

(* A heartbeat writes a status of the worker; it opens no session. *)
LEMMA BeatStep ==
    ASSUME LeaseInv, Heartbeat \/ LoseBeat
    PROVE  LeaseInv'
<1> USE DEF LeaseInv, TypeOK, AgentKnows, OpenHasId, CountedHasStatus, OneClaimPerSession,
            ChecksHold, StartsAreOld, OneExecutor, Running, OneLeasePerSession, Desired
<1>1. CASE SendBeat
  <2>1. beat' \in Beat /\ beat'.phase = "sent"
        /\ UNCHANGED <<registry, leases, starts, claims, agent>>
    BY <1>1 DEF SendBeat, Beat, Agent
  <2> QED
    BY <2>1 DEF registry
<1>2. CASE CountBeat
  <2>1. BeatStatus(beat) \in Observed
    BY DEF BeatStatus, Observed
  <2> QED
    BY <1>2, <2>1 DEF CountBeat, Beat, registry
<1>3. CASE WriteBeat
  <2> beat \in Beat
    BY <1>3 DEF WriteBeat
  <2>1. beat' \in Beat /\ beat'.phase = "answered"
    BY <1>3 DEF WriteBeat, Beat
  <2>2. session' \in SessionRow /\ session'.id = session.id /\ session'.open = session.open
    BY <1>3 DEF WriteBeat, Beat, SessionRow
  <2>3. UNCHANGED <<desired, token, credential, leases, starts, claims, agent>>
    BY <1>3 DEF WriteBeat
  <2>4. observed' = beat.status /\ beat.phase = "counted" /\ beat # None
    BY <1>3 DEF WriteBeat
  <2> QED
    BY <2>1, <2>2, <2>3, <2>4
<1>4. CASE HearAnswer
  BY <1>4 DEF HearAnswer, Observe, Agent, Beat, registry
<1>5. CASE LoseBeat \/ RefuseBeat
  BY <1>5 DEF LoseBeat, RefuseBeat, registry
<1> QED
  BY <1>1, <1>2, <1>3, <1>4, <1>5 DEF Heartbeat

(* Every step of the registry, the agent and the clocks. *)
LEMMA LeaseStep ==
    ASSUME LeaseInv, [Next]_vars
    PROVE  LeaseInv'
<1>1. ASSUME Reap \/ \E l \in leases : QueueCancel(l)
      PROVE  LeaseInv'
  <2>1. leases' \subseteq leases /\ UNCHANGED <<registry, starts, claims, beat, agent>>
    BY <1>1 DEF Reap, QueueCancel, AfterReap, Unexpired
  <2> QED
    BY <2>1 DEF registry, LeaseInv, TypeOK, AgentKnows, OpenHasId, CountedHasStatus,
                OneClaimPerSession, ChecksHold, StartsAreOld, OneExecutor, Running,
                OneLeasePerSession
<1>2. CASE UNCHANGED vars
  BY <1>2 DEF vars, registry, LeaseInv, TypeOK, AgentKnows, OpenHasId, CountedHasStatus,
              OneClaimPerSession, ChecksHold, StartsAreOld, OneExecutor, Running, OneLeasePerSession
<1> QED
  BY <1>1, <1>2, RegistryStep, OpenStep, AgentStep, SendClaimStep, RefusedClaimStep,
     CommitClaimStep, ClaimLossStep, BeatStep DEF Next, ServeClaim

-----------------------------------------------------------------------------
(* The machine. *)

FleetInv == LeaseInv /\ PodInv /\ cast \in {"agent", "pod"}

(* At first nothing has been launched. *)
LEMMA InitFleetInv == FleetInit => FleetInv
<1> SUFFICES ASSUME FleetInit PROVE FleetInv
  OBVIOUS
<1>1. LeaseInv
  BY InitLeaseInv DEF FleetInit
<1>2. PodInv
  BY DEF FleetInit, PodInit, PodInv, PodTypeOK, PodPhase, RolePhase, InStartup
<1> QED
  BY <1>1, <1>2 DEF FleetInit, FleetInv

(* One side of the machine moves at a time. *)
LEMMA FleetStep ==
    ASSUME FleetInv, [FleetNext]_fleetVars
    PROVE  FleetInv'
<1>1. CASE Serving(Next)
  BY <1>1, LeaseStep, PodStep DEF FleetInv, Serving, podVars
<1>2. CASE Hosting(PodNext)
  BY <1>2, LeaseStep, PodStep DEF FleetInv, Hosting, vars
<1>3. CASE UNCHANGED fleetVars
  BY <1>3, LeaseStep, PodStep DEF FleetInv, fleetVars
<1> QED
  BY <1>1, <1>2, <1>3 DEF FleetNext

(* The invariants of the leases and of the pod hold together. *)
LEMMA FleetInvariant == FleetSpec => []FleetInv
BY InitFleetInv, FleetStep, PTL DEF FleetSpec

(* Every variable of the machine keeps the type of its column or attribute. *)
THEOREM FleetTypeCorrect == FleetSpec => []FleetTypeOK
<1>1. FleetInv => FleetTypeOK
  BY DEF FleetInv, LeaseInv, PodInv, FleetTypeOK
<1> QED
  BY <1>1, FleetInvariant, PTL

(* When run_pod returns, however it ends, no agent it launched is alive and *)
(* tailscaled has been told to stop.                                         *)
THEOREM PodLeavesNothing == FleetSpec => []NothingSurvivesPod
<1>1. FleetInv => NothingSurvivesPod
  BY DEF FleetInv, PodInv, NothingSurvivesPod
<1> QED
  BY <1>1, FleetInvariant, PTL

(* claim never gives a session a second lease, and an agent at work holds the *)
(* one its session has, although claims are checked and committed in two steps *)
(* and their responses get lost.                                                *)
THEOREM SessionHoldsOneLease == FleetSpec => []OneLeasePerSession
<1>1. FleetInv => OneLeasePerSession
  BY DEF FleetInv, LeaseInv
<1> QED
  BY <1>1, FleetInvariant, PTL

(* The agent that runs has the latest session and works on a lease of that  *)
(* one, although starts outlast the processes that sent them and a claim may *)
(* commit in a session that has been replaced.                               *)
THEOREM LatestSessionRuns == FleetSpec => []OneExecutor
<1>1. FleetInv => OneExecutor
  BY DEF FleetInv, LeaseInv
<1> QED
  BY <1>1, FleetInvariant, PTL
=============================================================================
