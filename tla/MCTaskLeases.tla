---------------------------- MODULE MCTaskLeases ----------------------------
(***************************************************************************)
(* The GPU end of the dubbing pipeline for one video: audio separation and *)
(* the render that needs it, claimed by batch workers.                     *)
(***************************************************************************)
EXTENDS TaskLeases, TLC

MCTask == {"SEPARATE_AUDIO", "RENDER"}
MCJob == {"job"}
MCJobOf == [t \in MCTask |-> "job"]
MCDeps == ("SEPARATE_AUDIO" :> {}) @@ ("RENDER" :> {"SEPARATE_AUDIO"})
MCClass == [t \in MCTask |-> "GPU"]
MCCreatedAfter == ("SEPARATE_AUDIO" :> {"RENDER"}) @@ ("RENDER" :> {})
MCCanRun == [s \in Session |-> MCTask]
OneAttempt == [t \in MCTask |-> 1]
RenderRetries == ("SEPARATE_AUDIO" :> 1) @@ ("RENDER" :> 2)

LockStepOps == {"renew", "reap", "progress"}
CancelRace == {"start", "complete"}
=============================================================================
