-------------------------------- MODULE Fleet --------------------------------
(***************************************************************************)
(* A rented machine, seen from its two sides.  A behaviour shows one of    *)
(* two casts: in "agent" one agent of it and the registry (WorkerFleet),   *)
(* for which the supervisor is only what starts the agent again; in "pod"  *)
(* the supervisor and its agents (Pod), for which an agent is only a       *)
(* process that may exit, or may not, at any time.                         *)
(***************************************************************************)
EXTENDS WorkerFleet, Pod

VARIABLE cast

fleetVars == <<vars, podVars, cast>>

FleetInit == Init /\ PodInit /\ cast \in {"agent", "pod"} /\ (cast = "agent" => phase = "waiting")

Serving(A) == cast = "agent" /\ A /\ UNCHANGED <<podVars, cast>>
Hosting(A) == cast = "pod" /\ A /\ UNCHANGED <<vars, cast>>

FleetNext == Serving(Next) \/ Hosting(PodNext)

(***************************************************************************)
(* That of WorkerFleet; and in the pod, coroutines that can go on do, a    *)
(* launch and the startup end one way or the other, and clocks advance.    *)
(* Nothing makes an agent exit.                                            *)
(***************************************************************************)
FleetFairness ==
    /\ WF_fleetVars(Serving(CheckStart)) /\ WF_fleetVars(Serving(ServeStart))
    /\ SF_fleetVars(Serving(Answer))
    /\ WF_fleetVars(Serving(Leave))
    /\ WF_fleetVars(Serving(SendClaim))
    /\ WF_fleetVars(Serving(ServeClaim))
    /\ WF_fleetVars(Serving(Work))
    /\ WF_fleetVars(Serving(Heartbeat))
    /\ WF_fleetVars(Serving(Reap))
    /\ \A id \in LeaseId : WF_fleetVars(Serving(Expire(id)))
    /\ WF_fleetVars(Hosting(Startup))
    /\ \A r \in Role : WF_fleetVars(Hosting(Launch(r))) /\ WF_fleetVars(Hosting(Supervise(r)))
    /\ WF_fleetVars(Hosting(Ending))

FleetSpec == FleetInit /\ [][FleetNext]_fleetVars /\ FleetFairness

-----------------------------------------------------------------------------
FleetTypeOK == TypeOK /\ PodTypeOK /\ cast \in {"agent", "pod"}

(* When the supervisor returns, no agent that it launched is alive, also one *)
(* whose launch was under way when it was told to stop, and tailscaled has   *)
(* been told to stop (shutdown "never returns early").                       *)
NothingSurvivesPod ==
    phase = "returned" => daemon # "up" /\ \A r \in Role : proc[r] # "alive"

(* It does return, whenever it is told to stop or tailscaled is gone, even   *)
(* with agents that ignore the signal or do not stop exiting.                *)
StopReturns == (stop \/ daemon = "dead") ~> phase = "returned"
=============================================================================
