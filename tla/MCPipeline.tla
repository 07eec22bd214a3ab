----------------------------- MODULE MCPipeline -----------------------------
(***************************************************************************)
(* The part of buildFullPipelineDag from the dub to the render, where the  *)
(* three kinds of executor meet: the review waits for the dub, separation  *)
(* (GPU) and subtitles (control plane) run side by side after it, and the  *)
(* render waits for both.                                                  *)
(***************************************************************************)
EXTENDS Pipeline, TLC

MCTask == {"DUB", "REVIEW", "SEPARATE", "SRT", "RENDER"}
MCJob == {"job"}
MCJobOf == [t \in MCTask |-> "job"]
MCDeps == [t \in MCTask |->
             CASE t = "DUB" -> {}
               [] t = "REVIEW" -> {"DUB"}
               [] t \in {"SEPARATE", "SRT"} -> {"REVIEW"}
               [] t = "RENDER" -> {"REVIEW", "SEPARATE", "SRT"}]
MCClass == [t \in MCTask |->
             CASE t = "REVIEW" -> "HUMAN"
               [] t = "SRT" -> "CONTROL_PLANE"
               [] OTHER -> "GPU"]
MCCreatedAfter == [t \in MCTask |->
             CASE t = "DUB" -> {"REVIEW", "SEPARATE", "SRT", "RENDER"}
               [] t = "REVIEW" -> {"SEPARATE", "SRT", "RENDER"}
               [] t = "SEPARATE" -> {"SRT", "RENDER"}
               [] t = "SRT" -> {"RENDER"}
               [] t = "RENDER" -> {}]
MCCanRun == [s \in Session |-> MCTask]
OneAttempt == [t \in MCTask |-> 1]
SrtRetries == [t \in MCTask |-> IF t = "SRT" THEN 2 ELSE 1]

NoOverlap == {}
ReapOnly == {"reap"}
=============================================================================
