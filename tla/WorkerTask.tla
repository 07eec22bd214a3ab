----------------------------- MODULE WorkerTask -----------------------------
(***************************************************************************)
(* A GPU task, seen from its two ends.  A behaviour shows one of two       *)
(* casts: in "lease" the control plane, for which a worker is what sends   *)
(* requests or falls silent (TaskLeases); in "work" the machine, for which *)
(* the control plane is what accepts or refuses them (TaskRun).            *)
(***************************************************************************)
EXTENDS TaskLeases, TaskRun

VARIABLE cast

taskEnds == <<vars, taskVars, cast>>

TaskInit == Init /\ TaskRunInit /\ cast \in {"lease", "work"} /\ (cast = "lease" => executor = "batch")

Leasing(A) == cast = "lease" /\ A /\ UNCHANGED <<taskVars, cast>>
Working(A) == cast = "work" /\ A /\ UNCHANGED <<vars, cast>>

TaskNext == Leasing(Next) \/ Working(TaskRunNext)

(***************************************************************************)
(* That of TaskLeases; and on the machine every coroutine that can go on   *)
(* does, and calls and tools end, by a response or a timeout.  Nothing     *)
(* makes the model process answer, a heartbeat or a renewal arrive or a    *)
(* cancel happen.                                                          *)
(***************************************************************************)
TaskFairness ==
    /\ \A t \in Task, n \in AttemptNumber :
           /\ WF_taskEnds(Leasing(Expire(t, n)))
           /\ WF_taskEnds(Leasing(current # {} /\ ReapLease(t, n)))
           /\ WF_taskEnds(Leasing(FinishCall(t, n)))
    /\ WF_taskEnds(Leasing(\E c \in committing : Commit(c)))
    /\ \A s \in Session : WF_taskEnds(Leasing(\E t \in Task : Claim(s, t)))
    /\ WF_taskEnds(Working(Conduct))
    /\ WF_taskEnds(Working(Execute))
    /\ \A a \in Attempt : WF_taskEnds(Working(Adapt(a)))

TaskSpec == TaskInit /\ [][TaskNext]_taskEnds /\ TaskFairness

-----------------------------------------------------------------------------
(* As long as one session that can run every GPU task stays connected, every *)
(* job comes to rest (JobsSettle), where there are sessions.                 *)
LeasedJobsSettle == cast = "lease" => JobsSettle
=============================================================================
