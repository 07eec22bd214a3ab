------------------------------- MODULE TaskRun -------------------------------
(***************************************************************************)
(* The agent process and the tasks it executes, one after the other:       *)
(* _run_task and its lease renewer (agent.py), the executor with its       *)
(* adapter (batch_executor.py, adapters/, tts.py), the tools and the model *)
(* process these run, and the files they leave.  The control plane is what *)
(* it answers: as long as the lease of an attempt is held it accepts what  *)
(* the attempt sends, afterwards it refuses it.                            *)
(*                                                                         *)
(* Coroutines interleave at their awaits.  An adapter is a task of its     *)
(* own, and one that _run_or_cancel no longer awaits runs on beside the    *)
(* next task of the process.  A request of one adapter to the model        *)
(* process holds a lock until it is answered, times out or is cancelled.   *)
(* A file is named by its state: it is "partial" while it is written, and  *)
(* what is made from a partial file is.  The process is not killed.        *)
(***************************************************************************)
EXTENDS Naturals, Sequences

CONSTANTS
    Attempts,  \* BOUND: the attempts that the machine is given
    Parts      \* BOUND: the segments, or variants, of a task

ASSUME TaskRunAssumption == Attempts \in Nat \ {0} /\ Parts \in Nat \ {0}

VARIABLES
    executor,  \* "batch" or "interactive-tts"
    fate,      \* what became of the lease of each attempt
    main,      \* where _run_task, or run around it, is
    mine,      \* _active_task
    renewer,   \* the task of _renew_loop
    cancel,    \* the event _cancel_requested, which all tasks share
    raising,   \* whether an exception leaves _run_task once its finally is done
    asking,    \* the attempt that the heartbeat in flight names
    adapter,   \* of each attempt: the coroutine of its executor and adapter
    lock,      \* the attempt whose adapter holds OmniVoiceProcess._lock
    model,     \* the model process, with the lines in its pipes
    output,    \* the files in outputs/, one for each part
    prompt,    \* the cached prompt of the voice that all tasks use
    part       \* and the .part file it is prepared in

Attempt == 1..Attempts
NoAttempt == 0

fileVars == <<output, prompt, part>>
modelVars == <<lock, model>>
mainVars == <<main, mine, renewer, cancel, raising>>
taskVars == <<executor, fate, mainVars, asking, adapter, modelVars, fileVars>>

File == {"none", "partial", "whole"}
Line == [op : {"prepare", "synthesize"}, of : Attempt, left : 1..Parts]

(* Where an adapter is when nobody need await it. *)
InAdapter == {"next", "lock", "request", "report", "tool"}
Ended == {"none", "done", "failed", "refused", "timeout", "cancelled", "over"}
Adapter == [at : InAdapter \cup Ended \cup {"download", "made"}, left : 0..Parts,
            op : {"prepare", "synthesize"}]

Stopped == [asked |-> <<>>, said |-> <<>>]

Held(a) == fate[a] = "held"
Attached(a) == mine = a /\ main = "executing"
Goes(a, where) == adapter' = [adapter EXCEPT ![a].at = where]
(* The coroutine of an orphan ends with whatever ends it, unseen. *)
Raises(a, how) == Goes(a, IF Attached(a) THEN how ELSE "over")

-----------------------------------------------------------------------------
(* The control plane. *)

(* The queue cancels the job, or the lease expires and is reaped. *)
Withdraw(a) ==
    /\ Held(a)
    /\ fate' = [fate EXCEPT ![a] = "withdrawn"]
    /\ UNCHANGED <<executor, mainVars, asking, adapter, modelVars, fileVars>>

(* _heartbeat_loop: the attempt is read before the request, the event is set *)
(* after it, for whichever task is active then.                              *)
AskHeartbeat ==
    /\ asking = NoAttempt /\ mine # NoAttempt /\ main # "closing"
    /\ asking' = mine
    /\ UNCHANGED <<executor, fate, mainVars, adapter, modelVars, fileVars>>

HearHeartbeat ==
    /\ asking # NoAttempt /\ main # "closing"
    /\ asking' = NoAttempt
    /\ cancel' = (cancel \/ (~Held(asking) /\ mine # NoAttempt))
    /\ UNCHANGED <<executor, fate, main, mine, renewer, raising, adapter, modelVars, fileVars>>

-----------------------------------------------------------------------------
(* _run_task *)

Take(a) ==
    /\ main = "idle"
    /\ fate[a] = "none" /\ \A b \in 1..(a - 1) : fate[b] # "none"
    /\ fate' = [fate EXCEPT ![a] = "held"]
    /\ main' = "starting"
    /\ mine' = a
    /\ cancel' = FALSE
    /\ UNCHANGED <<executor, renewer, raising, asking, adapter, modelVars, fileVars>>

Begin ==
    /\ main = "starting"
    /\ \/ /\ Held(mine)
          /\ main' = "executing" /\ renewer' = "on"
          /\ adapter' = [adapter EXCEPT ![mine].at = "download", ![mine].left = Parts]
       \/ ~Held(mine) /\ main' = "finishing" /\ UNCHANGED <<renewer, adapter>>
       \/ main' = "failing" /\ UNCHANGED <<renewer, adapter>>
    /\ UNCHANGED <<executor, fate, mine, cancel, raising, asking, modelVars, fileVars>>

(* _renew_loop: told of a cancel that commits while the request is handled, *)
(* refused after one, or without an answer.                                 *)
RenewLease ==
    /\ renewer = "on" /\ main \in {"executing", "completing", "failing"}
    /\ \/ /\ Held(mine) /\ renewer' = "told"
          /\ fate' = [fate EXCEPT ![mine] = "withdrawn"]
          /\ cancel' = TRUE
       \/ ~Held(mine) /\ renewer' = "refused" /\ UNCHANGED <<fate, cancel>>
       \/ renewer' = "failed" /\ UNCHANGED <<fate, cancel>>
    /\ UNCHANGED <<executor, main, mine, raising, asking, adapter, modelVars, fileVars>>

(* _execute_with_lease, when the renewer is done: execute is cancelled where *)
(* it waits, which is not a way to cancel the adapter that it waits for.     *)
StopExecuting ==
    /\ main = "executing" /\ renewer # "on"
    /\ main' = "finishing" \/ (renewer = "failed" /\ main' = "failing")
    /\ IF adapter[mine].at \in InAdapter THEN UNCHANGED adapter ELSE Goes(mine, "over")
    /\ UNCHANGED <<executor, fate, mine, renewer, cancel, raising, asking, modelVars, fileVars>>

(* When it is not: how the executor ended decides what is reported. *)
AfterExecution(how) ==
    CASE how = "done" -> IF cancel THEN "finishing" ELSE "completing"
      [] how \in {"failed", "timeout"} -> "failing"
      [] OTHER -> "finishing"

SeeEnd ==
    /\ main = "executing" /\ renewer = "on"
    /\ adapter[mine].at \in Ended
    /\ main' = AfterExecution(adapter[mine].at)
    /\ UNCHANGED <<executor, fate, mine, renewer, cancel, raising, asking, adapter, modelVars,
                   fileVars>>

(* _complete: handled, then answered, or refused; or no answer comes. *)
SendResult ==
    /\ main = "completing"
    /\ \/ /\ Held(mine)
          /\ fate' = [fate EXCEPT ![mine] = "accepted"]
          /\ UNCHANGED main
       \/ ~Held(mine) /\ main' = "finishing" /\ UNCHANGED fate
       \/ main' = "failing" /\ UNCHANGED fate
    /\ UNCHANGED <<executor, mine, renewer, cancel, raising, asking, adapter, modelVars, fileVars>>

(* _safe_fail, which says nothing of a cancelled task; what it raises itself *)
(* ends the process.                                                         *)
SafeFail ==
    /\ main = "failing"
    /\ \/ /\ Held(mine) /\ ~cancel
          /\ fate' = [fate EXCEPT ![mine] = "failed"]
          /\ UNCHANGED <<main, raising>>
       \/ (cancel \/ ~Held(mine)) /\ main' = "finishing" /\ UNCHANGED <<fate, raising>>
       \/ ~cancel /\ main' = "finishing" /\ raising' = TRUE /\ UNCHANGED fate
    /\ UNCHANGED <<executor, mine, renewer, cancel, asking, adapter, modelVars, fileVars>>

(* The finally: the error of a renewer comes out of it before the rest is done. *)
LeaveTask ==
    /\ main = "finishing"
    /\ renewer' = "off"
    /\ IF renewer \in {"refused", "failed"}
       THEN main' = "closing" /\ UNCHANGED <<mine, cancel, raising>>
       ELSE /\ main' = IF raising THEN "closing" ELSE "idle"
            /\ mine' = NoAttempt /\ cancel' = FALSE /\ raising' = FALSE
    /\ UNCHANGED <<executor, fate, asking, adapter, modelVars, fileVars>>

(* run: its loop ends between two tasks. *)
EndLoop ==
    /\ main = "idle"
    /\ main' = "closing"
    /\ UNCHANGED <<executor, fate, mine, renewer, cancel, raising, asking, adapter, modelVars,
                   fileVars>>

(* The executor is closed, which takes the lock; what is left of the coroutines *)
(* is cancelled; the supervisor launches the agent again.                      *)
Relaunch ==
    /\ main = "closing"
    /\ lock = NoAttempt
    /\ model' = Stopped
    /\ adapter' = [a \in Attempt |->
                     IF adapter[a].at = "none" THEN adapter[a] ELSE [adapter[a] EXCEPT !.at = "over"]]
    /\ main' = "idle" /\ mine' = NoAttempt /\ cancel' = FALSE /\ raising' = FALSE
    /\ asking' = NoAttempt
    /\ UNCHANGED <<executor, fate, renewer, lock, fileVars>>

-----------------------------------------------------------------------------
(* BatchMediaExecutor.execute *)

Download ==
    /\ main = "executing" /\ renewer = "on"
    /\ adapter[mine].at = "download"
    /\ \/ cancel /\ Goes(mine, "cancelled")
       \/ ~cancel /\ Held(mine) /\ Goes(mine, "next")
       \/ ~cancel /\ \E how \in {"refused", "failed"} : Goes(mine, how)
    /\ UNCHANGED <<executor, fate, mainVars, asking, modelVars, fileVars>>

(* The uploads.  Grants and files may be refused although the lease is held. *)
Upload ==
    /\ main = "executing" /\ renewer = "on"
    /\ adapter[mine].at = "made"
    /\ \/ cancel /\ Goes(mine, "cancelled")
       \/ ~cancel /\ Held(mine) /\ Goes(mine, "done")
       \/ ~cancel /\ \E how \in {"refused", "failed"} : Goes(mine, how)
    /\ UNCHANGED <<executor, fate, mainVars, asking, modelVars, fileVars>>

(* Not faithful, for mutation: a cancelled request leaves the model process alone. *)
Kept(a) == model

(* OmniVoiceProcess._request: whatever interrupts it stops the process. *)
Interrupted(a) == IF lock = a THEN Stopped ELSE model

LockAfter(a) == IF lock = a THEN NoAttempt ELSE lock

(* _run_or_cancel sees the event before anything else ends its adapter. *)
CancelAdapter ==
    /\ main = "executing" /\ renewer = "on"
    /\ cancel /\ adapter[mine].at \in InAdapter
    /\ Goes(mine, "cancelled")
    /\ lock' = LockAfter(mine)
    /\ model' = Interrupted(mine)
    /\ UNCHANGED <<executor, fate, mainVars, asking, fileVars>>

-----------------------------------------------------------------------------
(* The adapters. *)

(* One segment (OmniVoiceAdapter.run) or variant (FfmpegRenderAdapter.run; the *)
(* other tools have one) after the other.                                     *)
NextPart(a) ==
    /\ adapter[a].at = "next"
    /\ \/ executor = "batch" /\ Goes(a, "report")
       \/ executor # "batch" /\ adapter[a].left = 0 /\ Goes(a, "made")
       \/ executor # "batch" /\ adapter[a].left > 0 /\ cancel /\ Raises(a, "cancelled")
       \/ /\ executor # "batch" /\ adapter[a].left > 0 /\ ~cancel
          /\ adapter' = [adapter EXCEPT ![a].at = "lock",
                                         ![a].op = IF prompt = "none" THEN "prepare" ELSE "synthesize"]
    /\ UNCHANGED <<executor, fate, mainVars, asking, modelVars, fileVars>>

(* Progress is reported to the control plane, which may tell of a cancel too. *)
AfterReport(a) ==
    CASE executor # "batch" -> "next"
      [] adapter[a].left = 0 -> "made"
      [] OTHER -> "tool"

ReportProgress(a) ==
    /\ adapter[a].at = "report"
    /\ \/ /\ Held(a) /\ Goes(a, AfterReport(a))
          /\ \/ UNCHANGED <<fate, cancel>>
             \/ fate' = [fate EXCEPT ![a] = "withdrawn"] /\ cancel' = TRUE
       \/ ~Held(a) /\ Raises(a, "refused") /\ UNCHANGED <<fate, cancel>>
       \/ Raises(a, "failed") /\ UNCHANGED <<fate, cancel>>
    /\ UNCHANGED <<executor, main, mine, renewer, raising, asking, modelVars, fileVars>>

(* IsolatedProcessRunner.run: the tool writes its output, *)
ToolWrites(a) ==
    /\ adapter[a].at = "tool"
    /\ output' = [output EXCEPT ![a][adapter[a].left] = "partial"]
    /\ UNCHANGED <<executor, fate, mainVars, asking, adapter, modelVars, prompt, part>>

(* and exits, or is killed when its time is over. *)
ToolEnds(a) ==
    /\ adapter[a].at = "tool"
    /\ \/ /\ adapter' = [adapter EXCEPT ![a].at = "next", ![a].left = @ - 1]
          /\ output' = [output EXCEPT ![a][adapter[a].left] = "whole"]
       \/ (\E how \in {"failed", "timeout"} : Raises(a, how)) /\ UNCHANGED output
    /\ UNCHANGED <<executor, fate, mainVars, asking, modelVars, prompt, part>>

(* OmniVoiceProcess._request: with the lock, the line is sent.  The process is *)
(* started if there is none; its restarts between two requests, when it has    *)
(* served many or its memory has grown, are not told apart from going on.      *)
SendRequest(a) ==
    /\ adapter[a].at = "lock" /\ lock = NoAttempt
    /\ lock' = a
    /\ Goes(a, "request")
    /\ model' = [model EXCEPT !.asked =
                   Append(@, [op |-> adapter[a].op, of |-> a, left |-> adapter[a].left])]
    /\ UNCHANGED <<executor, fate, mainVars, asking, fileVars>>

(* os.replace for a prompt, validate_wav for speech. *)
Use(a) ==
    IF adapter[a].op = "prepare"
    THEN /\ IF part = "none" THEN Raises(a, "failed") /\ UNCHANGED <<prompt, part>>
            ELSE /\ prompt' = part /\ part' = "none"
                 /\ adapter' = [adapter EXCEPT ![a].at = "lock", ![a].op = "synthesize"]
    ELSE /\ \/ /\ output[a][adapter[a].left] # "none"
               /\ adapter' = [adapter EXCEPT ![a].at = "report", ![a].left = @ - 1]
            \/ output[a][adapter[a].left] # "whole" /\ Raises(a, "failed")
         /\ UNCHANGED <<prompt, part>>

(* The line that is read is the next one that the process wrote. *)
HearResponse(a) ==
    /\ adapter[a].at = "request"
    /\ model.said # <<>>
    /\ lock' = NoAttempt
    /\ IF Head(model.said) = "ok"
       THEN Use(a) /\ model' = [model EXCEPT !.said = Tail(@)]
       ELSE Raises(a, "failed") /\ model' = Stopped /\ UNCHANGED <<prompt, part>>
    /\ UNCHANGED <<executor, fate, mainVars, asking, output>>

(* Not faithful, for mutation: a response is waited for as long as it takes. *)
Patient(a) == FALSE

Waits(a) == adapter[a].at = "request" /\ model.said = <<>>

(* None comes in time. *)
NoResponse(a) ==
    /\ Waits(a)
    /\ Raises(a, "timeout")
    /\ lock' = NoAttempt
    /\ model' = Stopped
    /\ UNCHANGED <<executor, fate, mainVars, asking, fileVars>>

-----------------------------------------------------------------------------
(* The model process (omnivoice_server.py), one line after the other. *)

Writes(r, file) ==
    IF r.op = "prepare" THEN part' = file /\ UNCHANGED output
                        ELSE output' = [output EXCEPT ![r.of][r.left] = file] /\ UNCHANGED part

ModelWrites ==
    /\ model.asked # <<>>
    /\ Writes(Head(model.asked), "partial")
    /\ UNCHANGED <<executor, fate, mainVars, asking, adapter, modelVars, prompt>>

(* Speech is as good as the prompt it is made with. *)
ModelAnswers ==
    /\ model.asked # <<>>
    /\ \/ /\ LET r == Head(model.asked)
             IN  Writes(r, IF r.op = "synthesize" THEN prompt ELSE "whole")
          /\ model' = [model EXCEPT !.asked = Tail(@), !.said = Append(@, "ok")]
       \/ /\ model' = [model EXCEPT !.asked = Tail(@), !.said = Append(@, "error")]
          /\ UNCHANGED <<output, part>>
    /\ UNCHANGED <<executor, fate, mainVars, asking, adapter, lock, prompt>>

ModelDies ==
    /\ model.asked # <<>>
    /\ model' = [asked |-> <<>>, said |-> Append(model.said, "end")]
    /\ UNCHANGED <<executor, fate, mainVars, asking, adapter, lock, fileVars>>

-----------------------------------------------------------------------------
TaskRunInit ==
    /\ executor \in {"batch", "interactive-tts"}
    /\ fate = [a \in Attempt |-> "none"]
    /\ main = "idle" /\ mine = NoAttempt /\ renewer = "off"
    /\ cancel = FALSE /\ raising = FALSE /\ asking = NoAttempt
    /\ adapter = [a \in Attempt |-> [at |-> "none", left |-> 0, op |-> "prepare"]]
    /\ lock = NoAttempt /\ model = Stopped
    /\ output = [a \in Attempt |-> [n \in 1..Parts |-> "none"]]
    /\ prompt = "none" /\ part = "none"

Conduct == Begin \/ StopExecuting \/ SeeEnd \/ SendResult \/ SafeFail \/ LeaveTask \/ Relaunch
Execute == Download \/ Upload \/ CancelAdapter
Adapt(a) ==
    \/ NextPart(a) \/ ReportProgress(a) \/ ToolEnds(a)
    \/ SendRequest(a) \/ HearResponse(a) \/ NoResponse(a)
ModelRuns == ModelWrites \/ ModelAnswers \/ ModelDies

TaskRunNext ==
    \/ \E a \in Attempt : Withdraw(a) \/ Take(a) \/ Adapt(a) \/ ToolWrites(a)
    \/ Conduct \/ Execute
    \/ AskHeartbeat \/ HearHeartbeat \/ RenewLease \/ EndLoop
    \/ ModelRuns

TaskRunTypeOK ==
    /\ executor \in {"batch", "interactive-tts"}
    /\ fate \in [Attempt -> {"none", "held", "accepted", "failed", "withdrawn"}]
    /\ main \in {"idle", "starting", "executing", "completing", "failing", "finishing", "closing"}
    /\ mine \in Attempt \cup {NoAttempt}
    /\ renewer \in {"off", "on", "told", "refused", "failed"}
    /\ cancel \in BOOLEAN /\ raising \in BOOLEAN
    /\ asking \in Attempt \cup {NoAttempt}
    /\ adapter \in [Attempt -> Adapter]
    /\ lock \in Attempt \cup {NoAttempt}
    /\ Len(model.asked) + Len(model.said) <= 1
    /\ model.asked \in Seq(Line) /\ model.said \in Seq({"ok", "error", "end"})
    /\ output \in [Attempt -> [1..Parts -> File]]
    /\ prompt \in File /\ part \in File

(* What the control plane accepts of an attempt has been written to its end, *)
(* with a prompt that was, for that very attempt: no response is taken for   *)
(* that of another request, no file is used that an interrupted one left     *)
(* ("atomic" downloads and prompts; "serial JSON-lines client", tts.py).     *)
AcceptedIsWhole ==
    \A a \in Attempt : fate[a] = "accepted" => \A n \in 1..Parts : output[a][n] = "whole"

(* No attempt keeps the process for ever, whatever tools, the model process, *)
(* the control plane and the user do; nor does an adapter that its executor  *)
(* has abandoned, to which nobody says stop.                                 *)
Busy(a) == mine = a \/ adapter[a].at \in InAdapter

AttemptEnds == \A a \in Attempt : Busy(a) ~> ~Busy(a)
=============================================================================
