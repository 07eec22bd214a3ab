--------------------------------- MODULE Pod ---------------------------------
(***************************************************************************)
(* The process that runs a rented machine (reup-pod-supervisor): run_pod   *)
(* joins the tailnet, waits for the control plane, and then supervises one *)
(* agent per role until it is told to stop or tailscaled is gone.  An      *)
(* agent that ends is launched again after a delay; at the end each is     *)
(* told to terminate and, after a grace period, killed.  Signals, exits,   *)
(* launches and timers come in any order: everything is a coroutine.       *)
(***************************************************************************)
CONSTANT Role

VARIABLES
    phase,   \* of run_pod; from "stopping" on, Supervisor._stopping is set
    stop,    \* the event that SIGTERM sets
    daemon,  \* tailscaled: "told" once it has been sent SIGTERM
    role,    \* what _supervise does for a role
    proc,    \* the agent's process
    overdue  \* whether the grace period is over

podVars == <<phase, stop, daemon, role, proc, overdue>>

PodPhase == {"joining", "waiting", "running", "stopping", "returned"}
RolePhase == {"none", "launching", "running", "delay", "ending", "over"}

Stopping == phase \in {"stopping", "returned"}
InStartup == phase \in {"joining", "waiting"}
Proceed(r, p) == role' = [role EXCEPT ![r] = p]

(* The finally of run_pod: tailscaled is told, whichever way it ends. *)
Leaving == phase' = "returned" /\ daemon' = IF daemon = "up" THEN "told" ELSE daemon

-----------------------------------------------------------------------------
(* Startup: bring_up_tailscale, then wait_for_control_plane. *)

LaunchDaemon ==
    /\ phase = "joining" /\ daemon = "none"
    /\ daemon' = "up"
    /\ UNCHANGED <<phase, stop, role, proc, overdue>>

Join ==
    /\ phase = "joining" /\ daemon # "none"
    /\ phase' = "waiting"
    /\ UNCHANGED <<stop, daemon, role, proc, overdue>>

StartAgents ==
    /\ phase = "waiting"
    /\ phase' = "running"
    /\ role' = [r \in Role |-> "launching"]
    /\ UNCHANGED <<stop, daemon, proc, overdue>>

(* By PodStartupError, after a timeout; or by stop, which cancels it. *)
StartupFails == InStartup /\ Leaving /\ UNCHANGED <<stop, role, proc, overdue>>

-----------------------------------------------------------------------------
(* _supervise of one role. *)

Launched(r) ==
    /\ role[r] = "launching"
    /\ Proceed(r, "running")
    /\ proc' = [proc EXCEPT ![r] = "alive"]
    /\ UNCHANGED <<phase, stop, daemon, overdue>>

LaunchFails(r) ==
    /\ role[r] = "launching"
    /\ Proceed(r, "delay")
    /\ UNCHANGED <<phase, stop, daemon, proc, overdue>>

(* The delay is cut short by a stop. *)
DelayEnds(r) ==
    /\ role[r] = "delay"
    /\ Proceed(r, IF Stopping THEN "over" ELSE "launching")
    /\ UNCHANGED <<phase, stop, daemon, proc, overdue>>

(* _run_until_stopped: the process exits, *)
SeeExit(r) ==
    /\ role[r] \in {"running", "ending"} /\ proc[r] = "dead"
    /\ Proceed(r, IF Stopping THEN "over" ELSE "delay")
    /\ UNCHANGED <<phase, stop, daemon, proc, overdue>>

(* or is told to terminate, *)
SeeStop(r) ==
    /\ role[r] = "running" /\ Stopping
    /\ Proceed(r, "ending")
    /\ UNCHANGED <<phase, stop, daemon, proc, overdue>>

(* Not faithful, for mutation: SIGTERM is all that an agent gets. *)
Trusted(r) == FALSE

Overdue(r) == overdue

(* and killed and reaped when the deadline of the pod has passed. *)
KillAgent(r) ==
    /\ role[r] = "ending" /\ proc[r] = "alive"
    /\ Overdue(r)
    /\ proc' = [proc EXCEPT ![r] = "dead"]
    /\ Proceed(r, "over")
    /\ UNCHANGED <<phase, stop, daemon, overdue>>

-----------------------------------------------------------------------------
(* The end. *)

(* Supervisor.stop, by the event or because the proxy is gone. *)
Shutdown ==
    /\ phase = "running"
    /\ stop \/ daemon = "dead"
    /\ phase' = "stopping"
    /\ UNCHANGED <<stop, daemon, role, proc, overdue>>

(* Not faithful, for mutation: it waits for the processes it knows. *)
NoneKnown == \A r \in Role : role[r] \notin {"running", "ending"}

AllOver == \A r \in Role : role[r] = "over"

(* shutdown waits for every _supervise, then run_pod returns. *)
ReturnPod ==
    /\ phase = "stopping"
    /\ AllOver
    /\ Leaving
    /\ UNCHANGED <<stop, role, proc, overdue>>

-----------------------------------------------------------------------------
(* The outside. *)

Signal == stop' = TRUE /\ UNCHANGED <<phase, daemon, role, proc, overdue>>

AgentExits(r) ==
    /\ proc[r] = "alive"
    /\ proc' = [proc EXCEPT ![r] = "dead"]
    /\ UNCHANGED <<phase, stop, daemon, role, overdue>>

DaemonExits ==
    /\ daemon \in {"up", "told"}
    /\ daemon' = "dead"
    /\ UNCHANGED <<phase, stop, role, proc, overdue>>

GraceOver ==
    /\ phase = "stopping"
    /\ overdue' = TRUE
    /\ UNCHANGED <<phase, stop, daemon, role, proc>>

-----------------------------------------------------------------------------
(* A pod joins a tailnet or does without. *)
PodInit ==
    /\ phase \in {"joining", "waiting"}
    /\ stop = FALSE
    /\ daemon = "none"
    /\ role = [r \in Role |-> "none"]
    /\ proc = [r \in Role |-> "none"]
    /\ overdue = FALSE

Startup == LaunchDaemon \/ Join \/ StartAgents \/ StartupFails
Launch(r) == Launched(r) \/ LaunchFails(r)
Supervise(r) == DelayEnds(r) \/ SeeExit(r) \/ SeeStop(r) \/ KillAgent(r)
Ending == Shutdown \/ GraceOver \/ ReturnPod

PodNext ==
    \/ Startup
    \/ \E r \in Role : Launch(r) \/ Supervise(r) \/ AgentExits(r)
    \/ Ending
    \/ Signal \/ DaemonExits

PodTypeOK ==
    /\ phase \in PodPhase
    /\ stop \in BOOLEAN
    /\ daemon \in {"none", "up", "told", "dead"}
    /\ role \in [Role -> RolePhase]
    /\ proc \in [Role -> {"none", "alive", "dead"}]
    /\ overdue \in BOOLEAN
=============================================================================
