------------------------------ MODULE Content ------------------------------
(***************************************************************************)
(* Content on its way through the studio: how it is brought in (Intake),   *)
(* and what becomes of a video once its pipeline runs (VideoLifecycle).    *)
(* Each stage knows the other only by what it leaves, a video past its     *)
(* ingest or one that is to be processed: a behaviour shows one of them,   *)
(* and the other rests as it began.                                        *)
(***************************************************************************)
EXTENDS Intake, VideoLifecycle

VARIABLE stage

contentVars == <<intakeVars, lifecycleVars, stage>>

ContentInit ==
    /\ stage \in {"intake", "library"}
    /\ IntakeInit
    /\ Init
    /\ stage = "library" => part = "catalog"
    /\ stage = "intake" => cast = "studio"

Entering(A) == stage = "intake" /\ A /\ UNCHANGED <<lifecycleVars, stage>>
Living(A) == stage = "library" /\ A /\ UNCHANGED <<intakeVars, stage>>

ContentNext == Entering(IntakeNext) \/ Living(Next)

(***************************************************************************)
(* The timer of the deletion's runner goes on, time passes, and a failure  *)
(* is recorded unless the database stays away for ever.  Nothing makes a   *)
(* user or a worker act.  Every one of these steps changes the variable it *)
(* is subscripted with.                                                    *)
(***************************************************************************)
ContentFairness ==
    /\ WF_runner(Living(DeletionRunner))
    /\ SF_runner(Living(DeletionStep(RecordFailure)))
    /\ WF_deletion(Living(DeletionStep(BecomeDue)))
    /\ WF_deletion(Living(DeletionStep(GraceEnds)))
    /\ \A u \in Upload : WF_grant(Living(DeletionStep(GrantExpires(u))))

ContentSpec == ContentInit /\ [][ContentNext]_contentVars /\ ContentFairness
=============================================================================
