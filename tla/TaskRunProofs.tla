---------------------------- MODULE TaskRunProofs ----------------------------
(***************************************************************************)
(* Proofs about TaskRun, for any number of attempts that a machine is      *)
(* given and any number of parts of a task: its types, and that what the   *)
(* control plane accepts is whole.                                         *)
(*                                                                         *)
(* The second rests on the pipes of the model process: between a request   *)
(* and its response it has the line of the attempt that holds the lock,    *)
(* and nothing else, because whatever interrupts a request stops it.  So   *)
(* a response is about the file that is looked at next.                    *)
(***************************************************************************)
EXTENDS WorkerTask, TLAPS

(* The line in which an adapter asks for what it needs. *)
AskedBy(a) == [op |-> adapter[a].op, of |-> a, left |-> adapter[a].left]

(* The model process serves who holds the lock, and nobody else. *)
ModelServes ==
    /\ \A a \in Attempt : lock = a <=> adapter[a].at = "request"
    /\ lock = NoAttempt => model = Stopped
    /\ lock # NoAttempt =>
           \/ model = [asked |-> <<AskedBy(lock)>>, said |-> <<>>]
           \/ \E r \in {"ok", "error", "end"} : model = [asked |-> <<>>, said |-> <<r>>]

(* The file that a response of the model process is about. *)
Answered(a) == IF adapter[a].op = "prepare" THEN part ELSE output[a][adapter[a].left]

ResponsesAreTrue == lock # NoAttempt /\ model.said = <<"ok">> => Answered(lock) = "whole"

(* Speech is asked for with a prompt that has been prepared. *)
PromptIsWhole ==
    /\ prompt \in {"none", "whole"}
    /\ \A a \in Attempt :
           adapter[a].at \in {"lock", "request"} /\ adapter[a].op = "synthesize" => prompt = "whole"

(* Parts are made from the last to the first. *)
PartsAreWhole ==
    \A a \in Attempt :
        /\ adapter[a].at \in {"lock", "request", "tool"} => adapter[a].left > 0
        /\ adapter[a].at \in {"made", "done"} => adapter[a].left = 0
        /\ adapter[a].at \in InAdapter \cup {"download", "made", "done"} =>
               \A n \in 1..Parts : n > adapter[a].left => output[a][n] = "whole"

(* Where _run_task is, and what it has taken and executed. *)
InTask == main \in {"starting", "executing", "completing", "failing", "finishing"}

TaskIsTaken ==
    /\ InTask => mine \in Attempt /\ fate[mine] # "none"
    /\ main = "starting" => adapter[mine].at = "none"
    /\ main = "completing" => adapter[mine].at = "done"
    /\ \A a \in Attempt : fate[a] = "none" => adapter[a].at = "none"
    /\ \A a \in Attempt : fate[a] = "accepted" => adapter[a].at \in {"done", "over"}

(* The types of all variables but the model process, which ModelServes describes. *)
AgentTypes ==
    /\ executor \in {"batch", "interactive-tts"}
    /\ fate \in [Attempt -> {"none", "held", "accepted", "failed", "withdrawn"}]
    /\ main \in {"idle", "starting", "executing", "completing", "failing", "finishing", "closing"}
    /\ mine \in Attempt \cup {NoAttempt}
    /\ renewer \in {"off", "on", "told", "refused", "failed"}
    /\ cancel \in BOOLEAN /\ raising \in BOOLEAN
    /\ asking \in Attempt \cup {NoAttempt}
    /\ adapter \in [Attempt -> Adapter]
    /\ lock \in Attempt \cup {NoAttempt}
    /\ output \in [Attempt -> [1..Parts -> File]]
    /\ prompt \in File /\ part \in File

RunInv ==
    /\ AgentTypes
    /\ ModelServes
    /\ ResponsesAreTrue
    /\ PromptIsWhole
    /\ PartsAreWhole
    /\ TaskIsTaken
    /\ AcceptedIsWhole

USE TaskRunAssumption
-----------------------------------------------------------------------------
(* Adapters. *)

Place == InAdapter \cup Ended \cup {"download", "made"}
Asks == {"prepare", "synthesize"}

Row(at, left, op) == [at |-> at, left |-> left, op |-> op]

(* The three fields of an adapter. *)
LEMMA RowFields ==
    ASSUME NEW at \in Place, NEW left \in 0..Parts, NEW op \in Asks
    PROVE  /\ Row(at, left, op) \in Adapter
           /\ Row(at, left, op).at = at
           /\ Row(at, left, op).left = left
           /\ Row(at, left, op).op = op
BY DEF Row, Adapter, Place, Asks

(* An adapter has nothing but its three fields. *)
LEMMA AdapterRow ==
    ASSUME AgentTypes, NEW a \in Attempt
    PROVE  /\ adapter[a].at \in Place /\ adapter[a].left \in 0..Parts
           /\ adapter[a].op \in Asks
           /\ adapter[a] = Row(adapter[a].at, adapter[a].left, adapter[a].op)
BY DEF AgentTypes, Adapter, Place, Asks, Row

(* Going somewhere with another part to make. *)
LEMMA MovesTo ==
    ASSUME AgentTypes, NEW a \in Attempt, NEW at \in Place, NEW left \in 0..Parts
    PROVE  [adapter[a] EXCEPT !.at = at, !.left = left] = Row(at, left, adapter[a].op)
<1>1. adapter[a] \in Adapter
  BY DEF AgentTypes
<1>2. [adapter[a] EXCEPT !.at = at] = Row(at, adapter[a].left, adapter[a].op)
  BY <1>1 DEF Row, Adapter
<1>3. Row(at, adapter[a].left, adapter[a].op) \in Adapter
  BY AdapterRow, RowFields
<1>4. [Row(at, adapter[a].left, adapter[a].op) EXCEPT !.left = left] = Row(at, left, adapter[a].op)
  BY <1>3 DEF Row, Adapter
<1> QED
  BY <1>2, <1>4

(* The same, with another thing to ask the model process for. *)
LEMMA AsksFor ==
    ASSUME AgentTypes, NEW a \in Attempt, NEW at \in Place, NEW op \in Asks
    PROVE  [adapter[a] EXCEPT !.at = at, !.op = op] = Row(at, adapter[a].left, op)
<1>1. adapter[a] \in Adapter
  BY DEF AgentTypes
<1>2. [adapter[a] EXCEPT !.at = at] = Row(at, adapter[a].left, adapter[a].op)
  BY <1>1 DEF Row, Adapter
<1>3. Row(at, adapter[a].left, adapter[a].op) \in Adapter
  BY AdapterRow, RowFields
<1>4. [Row(at, adapter[a].left, adapter[a].op) EXCEPT !.op = op] = Row(at, adapter[a].left, op)
  BY <1>3 DEF Row, Adapter
<1> QED
  BY <1>2, <1>4

(* Going somewhere changes the place only. *)
LEMMA GoesTo ==
    ASSUME AgentTypes, NEW a \in Attempt, NEW where \in Place, Goes(a, where)
    PROVE  adapter' = [adapter EXCEPT ![a] = Row(where, adapter[a].left, adapter[a].op)]
<1>1. adapter' = [adapter EXCEPT ![a].at = where]
  BY DEF Goes
<1>2. [adapter[a] EXCEPT !.at = where] = Row(where, adapter[a].left, adapter[a].op)
  <2>1. adapter[a] \in Adapter
    BY DEF AgentTypes
  <2> QED
    BY <2>1 DEF Row, Adapter
<1> QED
  BY <1>1, <1>2

(* What has been taken, executed and accepted does not change when the lease *)
(* of an attempt is withdrawn and adapters that are under way move.          *)
LEMMA TakenStays ==
    ASSUME TaskIsTaken, AgentTypes, main' = main, mine' = mine,
           \A b \in Attempt : fate'[b] = fate[b] \/ (fate[b] # "none" /\ fate'[b] = "withdrawn"),
           \A b \in Attempt : \/ adapter'[b].at = adapter[b].at
                              \/ adapter[b].at \notin {"none", "done", "over"}
    PROVE  TaskIsTaken'
<1>1. InTask' => mine' \in Attempt /\ fate'[mine'] # "none"
  BY DEF TaskIsTaken, InTask
<1>2. main = "starting" \/ main = "completing" => mine \in Attempt
  BY DEF TaskIsTaken, InTask
<1>3. main' = "starting" => adapter'[mine'].at = "none"
  BY <1>2 DEF TaskIsTaken
<1>4. main' = "completing" => adapter'[mine'].at = "done"
  BY <1>2 DEF TaskIsTaken
<1>5. \A b \in Attempt : fate'[b] = "none" => adapter'[b].at = "none"
  BY DEF TaskIsTaken
<1>6. \A b \in Attempt : fate'[b] = "accepted" => adapter'[b].at \in {"done", "over"}
  BY DEF TaskIsTaken
<1> QED
  BY <1>1, <1>3, <1>4, <1>5, <1>6 DEF TaskIsTaken

(* What an attempt has made so far, when its adapter is at this place. *)
Made(r, files) ==
    /\ r.at \in {"lock", "request", "tool"} => r.left > 0
    /\ r.at \in {"made", "done"} => r.left = 0
    /\ r.at \in InAdapter \cup {"download", "made", "done"} =>
           \A n \in 1..Parts : n > r.left => files[n] = "whole"

(* What has been made, for one adapter. *)
LEMMA PartsAreMade == PartsAreWhole <=> \A a \in Attempt : Made(adapter[a], output[a])
BY DEF PartsAreWhole, Made

(* A step of _run_task and its helpers moves no adapter. *)
LEMMA ConductStep ==
    ASSUME RunInv, AgentTypes', TaskIsTaken',
           UNCHANGED <<adapter, lock, model, output, prompt, part>>,
           \A a \in Attempt : \/ fate'[a] = "accepted" => fate[a] = "accepted"
                              \/ adapter[a].at = "done"
    PROVE  RunInv'
<1>1. ModelServes' /\ ResponsesAreTrue' /\ PromptIsWhole' /\ PartsAreWhole'
  BY DEF RunInv, ModelServes, AskedBy, ResponsesAreTrue, Answered, PromptIsWhole, PartsAreWhole
<1>2. ASSUME NEW a \in Attempt, fate'[a] = "accepted"
      PROVE  \A n \in 1..Parts : output'[a][n] = "whole"
  <2>1. CASE fate[a] = "accepted"
    BY <2>1 DEF RunInv, AcceptedIsWhole
  <2>2. CASE adapter[a].at = "done"
    BY <2>2 DEF RunInv, PartsAreWhole
  <2> QED
    BY <1>2, <2>1, <2>2
<1>3. AcceptedIsWhole'
  BY <1>2 DEF AcceptedIsWhole
<1> QED
  BY <1>1, <1>3 DEF RunInv

(* An adapter moves, without the model process. *)
LEMMA AdapterStep ==
    ASSUME RunInv, AgentTypes', TaskIsTaken', NEW a \in Attempt, NEW r \in Adapter,
           adapter' = [adapter EXCEPT ![a] = r],
           adapter[a].at # "request", r.at # "request",
           UNCHANGED <<lock, model, prompt, part>>,
           \A b \in Attempt : b # a => output'[b] = output[b],
           r.at = "lock" /\ r.op = "synthesize" => prompt = "whole",
           Made(r, output'[a]),
           fate[a] = "accepted" => output'[a] = output[a],
           \A b \in Attempt : fate'[b] = "accepted" => fate[b] = "accepted"
    PROVE  RunInv'
<1>1. adapter'[a] = r /\ \A b \in Attempt : b # a => adapter'[b] = adapter[b]
  BY DEF RunInv, AgentTypes
<1>2. lock # a
  BY DEF RunInv, ModelServes
<1>3. lock # NoAttempt => lock \in Attempt /\ adapter'[lock] = adapter[lock]
                          /\ output'[lock] = output[lock]
  BY <1>1, <1>2 DEF RunInv, AgentTypes
<1>4. ModelServes'
  <2>1. \A b \in Attempt : lock' = b <=> adapter'[b].at = "request"
    BY <1>1 DEF RunInv, ModelServes
  <2>2. lock' = NoAttempt => model' = Stopped
    BY DEF RunInv, ModelServes
  <2>3. lock # NoAttempt => AskedBy(lock)' = AskedBy(lock)
    BY <1>3 DEF AskedBy
  <2> QED
    BY <2>1, <2>2, <2>3 DEF RunInv, ModelServes
<1>5. ResponsesAreTrue'
  BY <1>3 DEF RunInv, ResponsesAreTrue, Answered
<1>6. PromptIsWhole'
  BY <1>1 DEF RunInv, PromptIsWhole
<1>7. PartsAreWhole'
  BY <1>1, PartsAreMade DEF RunInv, PartsAreWhole, Made
<1>8. AcceptedIsWhole'
  BY DEF RunInv, AcceptedIsWhole
<1> QED
  BY <1>4, <1>5, <1>6, <1>7, <1>8 DEF RunInv
-----------------------------------------------------------------------------
(* The control plane and _run_task. *)

(* What leaves the adapters where they are, and accepts nothing. *)
LEMMA QuietStep ==
    ASSUME RunInv,
           \/ \E a \in Attempt : Withdraw(a) \/ Take(a)
           \/ AskHeartbeat \/ HearHeartbeat \/ RenewLease \/ SeeEnd \/ SafeFail
           \/ LeaveTask \/ EndLoop
    PROVE  RunInv'
<1>1. ASSUME NEW a \in Attempt, Withdraw(a) PROVE RunInv'
  <2>1. AgentTypes'
    BY <1>1 DEF Withdraw, Held, RunInv, AgentTypes, mainVars, modelVars, fileVars
  <2>2. TaskIsTaken'
    BY <1>1, TakenStays DEF Withdraw, Held, RunInv, AgentTypes, mainVars
  <2>3. \A b \in Attempt : fate'[b] = "accepted" => fate[b] = "accepted"
    BY <1>1 DEF Withdraw, RunInv, AgentTypes
  <2> QED
    BY <1>1, <2>1, <2>2, <2>3, ConductStep DEF Withdraw, modelVars, fileVars
<1>2. ASSUME NEW a \in Attempt, Take(a) PROVE RunInv'
  <2>1. AgentTypes'
    BY <1>2 DEF Take, RunInv, AgentTypes, modelVars, fileVars
  <2>2. fate' = [fate EXCEPT ![a] = "held"] /\ fate[a] = "none" /\ mine' = a
        /\ main' = "starting" /\ adapter' = adapter
    BY <1>2 DEF Take
  <2>3. \A b \in Attempt : fate'[b] = IF b = a THEN "held" ELSE fate[b]
    BY <2>2 DEF RunInv, AgentTypes
  <2>4. TaskIsTaken'
    BY <2>2, <2>3 DEF RunInv, TaskIsTaken, InTask
  <2> QED
    BY <1>2, <2>1, <2>3, <2>4, ConductStep DEF Take, modelVars, fileVars
<1>3. CASE AskHeartbeat
  <2>1. AgentTypes'
    BY <1>3 DEF AskHeartbeat, RunInv, AgentTypes, mainVars, modelVars, fileVars
  <2>2. TaskIsTaken'
    BY <1>3 DEF AskHeartbeat, RunInv, TaskIsTaken, InTask, mainVars
  <2> QED
    BY <1>3, <2>1, <2>2, ConductStep DEF AskHeartbeat, modelVars, fileVars
<1>4. CASE HearHeartbeat
  <2>1. cancel' \in BOOLEAN
    BY <1>4, Zenon DEF HearHeartbeat, RunInv, AgentTypes
  <2>2. AgentTypes'
    BY <1>4, <2>1 DEF HearHeartbeat, RunInv, AgentTypes, modelVars, fileVars
  <2>3. TaskIsTaken'
    BY <1>4 DEF HearHeartbeat, RunInv, TaskIsTaken, InTask
  <2> QED
    BY <1>4, <2>2, <2>3, ConductStep DEF HearHeartbeat, modelVars, fileVars
<1>5. CASE RenewLease
  <2>1. main \in {"executing", "completing", "failing"} /\ mine \in Attempt
    BY <1>5 DEF RenewLease, RunInv, TaskIsTaken, InTask
  <2>2. \A b \in Attempt : fate'[b] = fate[b] \/ (fate[b] = "held" /\ fate'[b] = "withdrawn")
    BY <1>5, <2>1 DEF RenewLease, Held, RunInv, AgentTypes
  <2>3. fate' \in [Attempt -> {"none", "held", "accepted", "failed", "withdrawn"}]
        /\ renewer' \in {"told", "refused", "failed"} /\ cancel' \in BOOLEAN
    BY <1>5, <2>1 DEF RenewLease, RunInv, AgentTypes
  <2>4. AgentTypes'
    BY <1>5, <2>3 DEF RenewLease, RunInv, AgentTypes, modelVars, fileVars
  <2>5. TaskIsTaken'
    BY <1>5, <2>2, TakenStays DEF RenewLease, RunInv
  <2> QED
    BY <1>5, <2>2, <2>4, <2>5, ConductStep DEF RenewLease, modelVars, fileVars
<1>6. CASE SeeEnd
  <2>1. /\ main' \in {"completing", "failing", "finishing"} /\ mine \in Attempt
        /\ fate[mine] # "none"
        /\ main' = "completing" => adapter[mine].at = "done"
    BY <1>6 DEF SeeEnd, AfterExecution, RunInv, TaskIsTaken, InTask
  <2>2. AgentTypes'
    BY <1>6, <2>1 DEF SeeEnd, RunInv, AgentTypes, modelVars, fileVars
  <2>3. TaskIsTaken'
    BY <1>6, <2>1 DEF SeeEnd, RunInv, TaskIsTaken, InTask
  <2> QED
    BY <1>6, <2>2, <2>3, ConductStep DEF SeeEnd, modelVars, fileVars
<1>7. CASE SafeFail
  <2>1. mine \in Attempt /\ main' \in {"failing", "finishing"} /\ mine' = mine
        /\ adapter' = adapter /\ raising' \in BOOLEAN
    BY <1>7 DEF SafeFail, RunInv, TaskIsTaken, InTask, AgentTypes
  <2>2. \A b \in Attempt : fate'[b] = fate[b] \/ (fate[b] = "held" /\ fate'[b] = "failed")
    BY <1>7, <2>1 DEF SafeFail, Held, RunInv, AgentTypes
  <2>3. fate' \in [Attempt -> {"none", "held", "accepted", "failed", "withdrawn"}]
    BY <1>7, <2>1 DEF SafeFail, RunInv, AgentTypes
  <2>4. AgentTypes'
    BY <1>7, <2>1, <2>3 DEF SafeFail, RunInv, AgentTypes, modelVars, fileVars
  <2>5. TaskIsTaken'
    <3>1. main = "failing"
      BY <1>7 DEF SafeFail
    <3>2. fate[mine] # "none"
      BY <3>1 DEF RunInv, TaskIsTaken, InTask
    <3> QED
      BY <2>1, <2>2, <3>2 DEF RunInv, TaskIsTaken, InTask
  <2> QED
    BY <1>7, <2>2, <2>4, <2>5, ConductStep DEF SafeFail, modelVars, fileVars
<1>8. CASE LeaveTask
  <2>1. main' \in {"idle", "closing"} /\ mine' \in {mine, NoAttempt}
        /\ fate' = fate /\ adapter' = adapter
    BY <1>8 DEF LeaveTask
  <2>2. AgentTypes'
    BY <1>8, <2>1 DEF LeaveTask, RunInv, AgentTypes, modelVars, fileVars
  <2>3. TaskIsTaken'
    BY <2>1 DEF RunInv, TaskIsTaken, InTask
  <2> QED
    BY <1>8, <2>1, <2>2, <2>3, ConductStep DEF LeaveTask, modelVars, fileVars
<1>9. CASE EndLoop
  <2>1. AgentTypes'
    BY <1>9 DEF EndLoop, RunInv, AgentTypes, modelVars, fileVars
  <2>2. TaskIsTaken'
    BY <1>9 DEF EndLoop, RunInv, TaskIsTaken, InTask
  <2> QED
    BY <1>9, <2>1, <2>2, ConductStep DEF EndLoop, modelVars, fileVars
<1> QED
  BY <1>1, <1>2, <1>3, <1>4, <1>5, <1>6, <1>7, <1>8, <1>9

(* The result is accepted of an attempt that has made all its parts. *)
LEMMA SendResultStep == ASSUME RunInv, SendResult PROVE RunInv'
<1>1. main = "completing" /\ mine \in Attempt /\ adapter[mine].at = "done"
      /\ fate[mine] # "none"
  BY DEF SendResult, RunInv, TaskIsTaken, InTask
<1>2. /\ \A b \in Attempt : fate'[b] = fate[b] \/ (b = mine /\ fate'[b] = "accepted")
      /\ fate' \in [Attempt -> {"none", "held", "accepted", "failed", "withdrawn"}]
      /\ main' \in {"completing", "finishing", "failing"}
      /\ mine' = mine /\ adapter' = adapter
  BY <1>1 DEF SendResult, Held, RunInv, AgentTypes
<1>3. AgentTypes'
  BY <1>2 DEF SendResult, RunInv, AgentTypes, modelVars, fileVars
<1>4. TaskIsTaken'
  BY <1>1, <1>2 DEF RunInv, TaskIsTaken, InTask
<1> QED
  BY <1>1, <1>2, <1>3, <1>4, ConductStep DEF SendResult, modelVars, fileVars

(* The executor is given the attempt. *)
LEMMA BeginStep == ASSUME RunInv, Begin PROVE RunInv'
<1>1. main = "starting" /\ mine \in Attempt /\ adapter[mine].at = "none" /\ fate[mine] # "none"
  BY DEF Begin, RunInv, TaskIsTaken, InTask
<1>2. fate' = fate /\ mine' = mine
  BY DEF Begin
<1>3. CASE adapter' # adapter
  <2> DEFINE r == Row("download", Parts, adapter[mine].op)
  <2>1. /\ r \in Adapter /\ r.at = "download" /\ r.left = Parts
    BY <1>1, AdapterRow, RowFields DEF RunInv, Place
  <2>2. main' = "executing" /\ renewer' = "on" /\ fate[mine] = "held"
        /\ adapter' = [adapter EXCEPT ![mine].at = "download", ![mine].left = Parts]
    BY <1>3 DEF Begin, Held
  <2>3. adapter' = [adapter EXCEPT ![mine] = r]
    <3> DEFINE w == "download"
    <3>0. w \in Place /\ Parts \in 0..Parts
      BY DEF Place
    <3> HIDE DEF w
    <3>1. [adapter[mine] EXCEPT !.at = w, !.left = Parts] = r
      BY <1>1, <3>0, MovesTo DEF RunInv, r, w
    <3> QED
      BY <2>2, <3>1 DEF w
  <2> HIDE DEF r
  <2>4. AgentTypes'
    <3>1. adapter' \in [Attempt -> Adapter]
      BY <2>1, <2>3 DEF RunInv, AgentTypes
    <3> QED
      BY <1>2, <2>2, <3>1 DEF Begin, RunInv, AgentTypes, modelVars, fileVars
  <2>5. adapter'[mine] = r /\ \A b \in Attempt : b # mine => adapter'[b] = adapter[b]
    BY <1>1, <2>3 DEF RunInv, AgentTypes
  <2>6. TaskIsTaken'
    BY <1>1, <1>2, <2>1, <2>2, <2>5 DEF RunInv, TaskIsTaken, InTask
  <2>7. Made(r, output'[mine])
    BY <2>1 DEF Made, InAdapter
  <2> QED
    BY <1>1, <1>2, <2>1, <2>2, <2>3, <2>4, <2>6, <2>7, AdapterStep DEF Begin, modelVars, fileVars
<1>4. CASE adapter' = adapter
  <2>1. main' \in {"finishing", "failing"} /\ renewer' = renewer
    <3>1. [adapter[mine] EXCEPT !.at = "download", !.left = Parts].at = "download"
      BY <1>1 DEF RunInv, AgentTypes, Adapter
    <3>2. adapter' = [adapter EXCEPT ![mine].at = "download", ![mine].left = Parts] =>
              adapter'[mine].at = "download"
      BY <1>1, <3>1 DEF RunInv, AgentTypes
    <3> QED
      BY <1>1, <1>4, <3>2 DEF Begin
  <2>2. AgentTypes'
    BY <1>2, <1>4, <2>1 DEF Begin, RunInv, AgentTypes, modelVars, fileVars
  <2>3. TaskIsTaken'
    BY <1>1, <1>2, <1>4, <2>1 DEF RunInv, TaskIsTaken, InTask
  <2> QED
    BY <1>2, <1>4, <2>2, <2>3, ConductStep DEF Begin, modelVars, fileVars
<1> QED
  BY <1>3, <1>4
-----------------------------------------------------------------------------
(* The executor and the adapters, without the model process. *)

Unfinished == InAdapter \cup {"download", "made"}

(* An adapter that goes somewhere keeps its parts. *)
LEMMA GoesTypes ==
    ASSUME AgentTypes, NEW a \in Attempt, NEW where \in Place, Goes(a, where)
    PROVE  /\ adapter' \in [Attempt -> Adapter]
           /\ adapter'[a] = Row(where, adapter[a].left, adapter[a].op)
           /\ adapter'[a].at = where
           /\ \A b \in Attempt : b # a => adapter'[b] = adapter[b]
<1>1. adapter' = [adapter EXCEPT ![a] = Row(where, adapter[a].left, adapter[a].op)]
  BY GoesTo
<1>2. Row(where, adapter[a].left, adapter[a].op) \in Adapter
      /\ Row(where, adapter[a].left, adapter[a].op).at = where
  BY AdapterRow, RowFields
<1> QED
  BY <1>1, <1>2 DEF AgentTypes

(* An adapter goes on, without the model process and with its parts. *)
LEMMA GoesStep ==
    ASSUME RunInv, AgentTypes', NEW a \in Attempt, NEW where \in Place, Goes(a, where),
           adapter[a].at \in Unfinished \ {"request"},
           where \notin {"request", "lock"},
           where = "tool" => adapter[a].left > 0,
           where \in {"made", "done"} => adapter[a].left = 0,
           UNCHANGED <<main, mine, lock, model, output, prompt, part>>,
           \A b \in Attempt : fate'[b] = fate[b] \/ (fate[b] # "none" /\ fate'[b] = "withdrawn")
    PROVE  RunInv'
<1> DEFINE r == Row(where, adapter[a].left, adapter[a].op)
<1>1. adapter' = [adapter EXCEPT ![a] = r]
  BY GoesTo DEF RunInv
<1>2. r \in Adapter /\ r.at = where /\ r.left = adapter[a].left
  BY AdapterRow, RowFields DEF RunInv
<1> HIDE DEF r
<1>3. adapter'[a] = r /\ \A b \in Attempt : b # a => adapter'[b] = adapter[b]
  BY <1>1 DEF RunInv, AgentTypes
<1>4. adapter[a].at \notin {"none", "done", "over"}
  BY DEF Unfinished, InAdapter
<1>5. TaskIsTaken'
  BY <1>3, <1>4, TakenStays DEF RunInv
<1>6. fate[a] # "accepted"
  BY <1>4 DEF RunInv, TaskIsTaken
<1>7. Made(r, output'[a])
  BY <1>2 DEF RunInv, PartsAreWhole, Made, Unfinished
<1> QED
  BY <1>1, <1>2, <1>4, <1>5, <1>6, <1>7, AdapterStep DEF Unfinished

(* Downloads and uploads go through as long as the lease is held. *)
LEMMA TransferStep == ASSUME RunInv, Download \/ Upload PROVE RunInv'
<1>1. main = "executing" /\ mine \in Attempt /\ adapter[mine].at \in {"download", "made"}
  BY DEF Download, Upload, RunInv, TaskIsTaken, InTask
<1>2. PICK where \in {"cancelled", "next", "done", "refused", "failed"} :
          /\ Goes(mine, where)
          /\ where = "done" => adapter[mine].at = "made"
  BY DEF Download, Upload
<1>3. UNCHANGED <<executor, fate, main, mine, renewer, cancel, raising, asking, lock, model,
                  output, prompt, part>>
  BY DEF Download, Upload, mainVars, modelVars, fileVars
<1>4. where \in Place /\ where \notin {"request", "lock", "tool", "made"}
  BY <1>2 DEF Place, InAdapter, Ended
<1>5. adapter' \in [Attempt -> Adapter]
  BY <1>1, <1>2, <1>4, GoesTypes DEF RunInv
<1>6. AgentTypes'
  BY <1>3, <1>5 DEF RunInv, AgentTypes
<1>7. where = "done" => adapter[mine].left = 0
  BY <1>1, <1>2 DEF RunInv, PartsAreWhole
<1>8. adapter[mine].at \in Unfinished \ {"request"}
  BY <1>1 DEF Unfinished
<1> QED
  BY <1>1, <1>2, <1>3, <1>4, <1>6, <1>7, <1>8, GoesStep

(* execute is left where it awaits, or goes with the renewer. *)
LEMMA StopExecutingStep == ASSUME RunInv, StopExecuting PROVE RunInv'
<1>1. main = "executing" /\ mine \in Attempt /\ fate[mine] # "none"
  BY DEF StopExecuting, RunInv, TaskIsTaken, InTask
<1>2. /\ main' \in {"finishing", "failing"} /\ mine' = mine /\ fate' = fate
      /\ UNCHANGED <<executor, renewer, cancel, raising, asking, lock, model, output, prompt,
                     part>>
  BY DEF StopExecuting, modelVars, fileVars
<1>3. CASE adapter[mine].at \in InAdapter
  <2>1. adapter' = adapter
    BY <1>3 DEF StopExecuting
  <2>2. AgentTypes'
    BY <1>2, <2>1 DEF RunInv, AgentTypes
  <2>3. TaskIsTaken'
    BY <1>1, <1>2, <2>1 DEF RunInv, TaskIsTaken, InTask
  <2> QED
    BY <1>2, <2>1, <2>2, <2>3, ConductStep
<1>4. CASE adapter[mine].at \notin InAdapter
  <2> DEFINE over == "over"
             r == Row(over, adapter[mine].left, adapter[mine].op)
  <2>1. over \in Place /\ over \notin InAdapter \cup {"download", "made", "done"}
    BY DEF Place, InAdapter, Ended
  <2>2. Goes(mine, over)
    BY <1>4 DEF StopExecuting
  <2> HIDE DEF over
  <2>3. adapter' = [adapter EXCEPT ![mine] = r]
    BY <1>1, <2>1, <2>2, GoesTo DEF RunInv
  <2>4. r \in Adapter /\ r.at = over
    BY <1>1, <2>1, AdapterRow, RowFields DEF RunInv
  <2>5. /\ adapter' \in [Attempt -> Adapter]
        /\ adapter'[mine].at = over /\ \A b \in Attempt : b # mine => adapter'[b] = adapter[b]
    BY <1>1, <2>1, <2>2, GoesTypes DEF RunInv
  <2> HIDE DEF r
  <2>6. AgentTypes'
    BY <1>2, <2>5 DEF RunInv, AgentTypes
  <2>7. TaskIsTaken'
    BY <1>1, <1>2, <2>5 DEF RunInv, TaskIsTaken, InTask, over
  <2>8. Made(r, output'[mine])
    BY <2>1, <2>4 DEF Made, InAdapter
  <2>9. adapter[mine].at # "request" /\ r.at \notin {"request", "lock"}
    BY <1>4, <2>1, <2>4 DEF InAdapter
  <2> QED
    BY <1>1, <1>2, <2>3, <2>4, <2>6, <2>7, <2>8, <2>9, AdapterStep
<1> QED
  BY <1>3, <1>4

(* Where an exception of an adapter is seen, or not. *)
LEMMA RaisesGoes ==
    ASSUME NEW a \in Attempt, NEW how \in Ended, Raises(a, how)
    PROVE  \E where \in {how, "over"} : Goes(a, where)
BY DEF Raises

(* The next part, or the end of them. *)
LEMMA NextPartStep == ASSUME RunInv, NEW a \in Attempt, NextPart(a) PROVE RunInv'
<1>1. /\ adapter[a].at = "next"
      /\ UNCHANGED <<executor, fate, main, mine, renewer, cancel, raising, asking, lock, model,
                     output, prompt, part>>
  BY DEF NextPart, mainVars, modelVars, fileVars
<1>2. adapter[a].at \in Unfinished \ {"request"} /\ fate[a] # "accepted"
  BY <1>1 DEF Unfinished, InAdapter, RunInv, TaskIsTaken
<1>3. ASSUME NEW where \in {"report", "made", "cancelled", "over"}, Goes(a, where),
             where = "made" => adapter[a].left = 0
      PROVE  RunInv'
  <2>1. where \in Place /\ where \notin {"request", "lock", "tool", "done"}
    BY DEF Place, InAdapter, Ended
  <2>2. adapter' \in [Attempt -> Adapter]
    BY <1>3, <2>1, GoesTypes DEF RunInv
  <2>3. AgentTypes'
    BY <1>1, <2>2 DEF RunInv, AgentTypes
  <2> QED
    BY <1>1, <1>2, <1>3, <2>1, <2>3, GoesStep
<1>4. ASSUME NEW op \in Asks, adapter[a].left > 0,
             op = IF prompt = "none" THEN "prepare" ELSE "synthesize",
             adapter' = [adapter EXCEPT ![a].at = "lock", ![a].op = op]
      PROVE  RunInv'
  <2> DEFINE where == "lock"
             r == Row(where, adapter[a].left, op)
  <2>1. where \in Place /\ where = "lock"
    BY DEF Place, InAdapter
  <2>2. adapter' = [adapter EXCEPT ![a].at = where, ![a].op = op]
    BY <1>4
  <2> HIDE DEF where
  <2>3. [adapter[a] EXCEPT !.at = where, !.op = op] = r
    BY <2>1, AsksFor DEF RunInv
  <2>4. r \in Adapter /\ r.at = where /\ r.left = adapter[a].left /\ r.op = op
    BY <2>1, AdapterRow, RowFields DEF RunInv
  <2>5. adapter' = [adapter EXCEPT ![a] = r]
    BY <2>2, <2>3
  <2> HIDE DEF r
  <2>6. AgentTypes'
    BY <1>1, <2>4, <2>5 DEF RunInv, AgentTypes
  <2>7. \A b \in Attempt : b # a => adapter'[b] = adapter[b]
    BY <2>5 DEF RunInv, AgentTypes
  <2>8. TaskIsTaken'
    BY <1>1, <2>7, TakenStays DEF RunInv
  <2>9. Made(r, output'[a])
    BY <1>1, <1>4, <2>1, <2>4 DEF RunInv, PartsAreWhole, Made, InAdapter
  <2>10. r.op = "synthesize" => prompt = "whole"
    BY <1>4, <2>4 DEF RunInv, PromptIsWhole
  <2> QED
    BY <1>1, <1>2, <2>1, <2>4, <2>5, <2>6, <2>8, <2>9, <2>10, AdapterStep
<1>5. CASE executor = "batch" /\ Goes(a, "report")
  BY <1>3, <1>5
<1>6. CASE adapter[a].left = 0 /\ Goes(a, "made")
  BY <1>3, <1>6
<1>7. CASE Raises(a, "cancelled")
  <2>1. PICK where \in {"cancelled", "over"} : Goes(a, where)
    BY <1>7, RaisesGoes DEF Ended
  <2> QED
    BY <1>3, <2>1
<1>8. CASE /\ adapter[a].left > 0
           /\ adapter' = [adapter EXCEPT ![a].at = "lock",
                              ![a].op = IF prompt = "none" THEN "prepare" ELSE "synthesize"]
  <2> DEFINE op == IF prompt = "none" THEN "prepare" ELSE "synthesize"
  <2>1. op \in Asks
    BY DEF Asks
  <2> QED
    BY <1>4, <1>8, <2>1
<1>9. adapter[a].left \in Nat
  BY AdapterRow DEF RunInv
<1> QED
  BY <1>5, <1>6, <1>7, <1>8 DEF NextPart

(* A report, after which a cancel may be known. *)
LEMMA ReportProgressStep == ASSUME RunInv, NEW a \in Attempt, ReportProgress(a) PROVE RunInv'
<1>1. /\ adapter[a].at = "report"
      /\ UNCHANGED <<executor, main, mine, renewer, raising, asking, lock, model, output, prompt,
                     part>>
  BY DEF ReportProgress, modelVars, fileVars
<1>2. adapter[a].at \in Unfinished \ {"request"}
  BY <1>1 DEF Unfinished, InAdapter
<1>3. /\ \A b \in Attempt : fate'[b] = fate[b] \/ (fate[b] # "none" /\ fate'[b] = "withdrawn")
      /\ fate' \in [Attempt -> {"none", "held", "accepted", "failed", "withdrawn"}]
      /\ cancel' \in BOOLEAN
  BY DEF ReportProgress, Held, RunInv, AgentTypes
<1>4. PICK where \in {"next", "made", "tool", "refused", "failed", "over"} :
          /\ Goes(a, where)
          /\ where = "tool" => adapter[a].left # 0
          /\ where = "made" => adapter[a].left = 0
  <2>1. CASE Goes(a, AfterReport(a))
    <3>1. /\ AfterReport(a) \in {"next", "made", "tool"}
          /\ AfterReport(a) = "tool" => adapter[a].left # 0
          /\ AfterReport(a) = "made" => adapter[a].left = 0
      BY DEF AfterReport
    <3> QED
      BY <2>1, <3>1
  <2>2. CASE Raises(a, "refused")
    BY <2>2, RaisesGoes DEF Ended
  <2>3. CASE Raises(a, "failed")
    BY <2>3, RaisesGoes DEF Ended
  <2> QED
    BY <2>1, <2>2, <2>3 DEF ReportProgress
<1>5. where \in Place /\ where \notin {"request", "lock", "done"}
  BY <1>4 DEF Place, InAdapter, Ended
<1>6. adapter' \in [Attempt -> Adapter]
  BY <1>4, <1>5, GoesTypes DEF RunInv
<1>7. AgentTypes'
  BY <1>1, <1>3, <1>6 DEF RunInv, AgentTypes
<1>8. where = "tool" => adapter[a].left > 0
  BY <1>4, AdapterRow DEF RunInv
<1> QED
  BY <1>1, <1>2, <1>3, <1>4, <1>5, <1>7, <1>8, GoesStep

(* A file of the part that is made next changes. *)
LEMMA FileChanges ==
    ASSUME AgentTypes, NEW a \in Attempt, NEW n \in 1..Parts, NEW file \in File,
           output' = [output EXCEPT ![a][n] = file]
    PROVE  /\ output' \in [Attempt -> [1..Parts -> File]]
           /\ output'[a][n] = file
           /\ \A m \in 1..Parts : m # n => output'[a][m] = output[a][m]
           /\ \A b \in Attempt : b # a => output'[b] = output[b]
BY DEF AgentTypes

(* A tool spoils only the part that it is about to make. *)
LEMMA ToolWritesStep == ASSUME RunInv, NEW a \in Attempt, ToolWrites(a) PROVE RunInv'
<1> DEFINE n == adapter[a].left
           r == adapter[a]
           file == "partial"
<1>1. /\ adapter[a].at = "tool" /\ adapter' = adapter
      /\ output' = [output EXCEPT ![a][n] = file]
      /\ UNCHANGED <<executor, fate, main, mine, renewer, cancel, raising, asking, lock, model,
                     prompt, part>>
  BY DEF ToolWrites, mainVars, modelVars
<1>2. n \in 1..Parts /\ file \in File /\ r \in Adapter
  BY <1>1, AdapterRow DEF RunInv, PartsAreWhole, File, AgentTypes
<1> HIDE DEF file
<1>3. /\ output' \in [Attempt -> [1..Parts -> File]]
      /\ \A m \in 1..Parts : m # n => output'[a][m] = output[a][m]
      /\ \A b \in Attempt : b # a => output'[b] = output[b]
  BY <1>1, <1>2, FileChanges DEF RunInv
<1>4. AgentTypes'
  BY <1>1, <1>3 DEF RunInv, AgentTypes
<1>5. TaskIsTaken'
  BY <1>1, TakenStays DEF RunInv
<1>6. Made(r, output'[a])
  BY <1>1, <1>2, <1>3 DEF RunInv, PartsAreWhole, Made, InAdapter
<1>7. fate[a] # "accepted"
  BY <1>1 DEF RunInv, TaskIsTaken
<1>8. adapter' = [adapter EXCEPT ![a] = r]
  BY <1>1 DEF RunInv, AgentTypes
<1> QED
  BY <1>1, <1>2, <1>3, <1>4, <1>5, <1>6, <1>7, <1>8, AdapterStep

(* A tool has made its part, or has not. *)
LEMMA ToolEndsStep == ASSUME RunInv, NEW a \in Attempt, ToolEnds(a) PROVE RunInv'
<1>1. /\ adapter[a].at = "tool"
      /\ UNCHANGED <<executor, fate, main, mine, renewer, cancel, raising, asking, lock, model,
                     prompt, part>>
  BY DEF ToolEnds, mainVars, modelVars
<1>2. adapter[a].left \in 1..Parts /\ adapter[a].op \in Asks
  BY <1>1, AdapterRow DEF RunInv, PartsAreWhole
<1>3. CASE /\ adapter' = [adapter EXCEPT ![a].at = "next", ![a].left = @ - 1]
           /\ output' = [output EXCEPT ![a][adapter[a].left] = "whole"]
  <2> DEFINE where == "next"
             file == "whole"
             n == adapter[a].left
             m == n - 1
             r == Row(where, m, adapter[a].op)
  <2>1. where \in Place /\ where = "next" /\ file \in File /\ file = "whole" /\ m \in 0..Parts
    BY <1>2 DEF Place, InAdapter, File
  <2>2. adapter' = [adapter EXCEPT ![a].at = where, ![a].left = m]
    <3>1. [adapter[a] EXCEPT !.at = "next", !.left = @ - 1] =
              [adapter[a] EXCEPT !.at = "next", !.left = adapter[a].left - 1]
      OBVIOUS
    <3> QED
      BY <1>3
  <2>3. output' = [output EXCEPT ![a][n] = file]
    BY <1>3
  <2> HIDE DEF where, file
  <2>4. /\ output' \in [Attempt -> [1..Parts -> File]]
        /\ output'[a][n] = "whole"
        /\ \A k \in 1..Parts : k # n => output'[a][k] = output[a][k]
        /\ \A b \in Attempt : b # a => output'[b] = output[b]
    BY <1>2, <2>1, <2>3, FileChanges DEF RunInv
  <2>5. [adapter[a] EXCEPT !.at = where, !.left = m] = r
    BY <2>1, MovesTo DEF RunInv
  <2>6. r \in Adapter /\ r.at = "next" /\ r.left = m
    BY <1>2, <2>1, RowFields
  <2>7. adapter' = [adapter EXCEPT ![a] = r]
    BY <2>2, <2>5
  <2> HIDE DEF r
  <2>8. AgentTypes'
    BY <1>1, <2>4, <2>6, <2>7 DEF RunInv, AgentTypes
  <2>9. \A b \in Attempt : b # a => adapter'[b] = adapter[b]
    BY <2>7 DEF RunInv, AgentTypes
  <2>10. TaskIsTaken'
    BY <1>1, <2>9, TakenStays DEF RunInv
  <2>11. Made(r, output'[a])
    <3>1. \A k \in 1..Parts : k > n => output[a][k] = "whole"
      BY <1>1 DEF RunInv, PartsAreWhole, InAdapter
    <3>2. \A k \in 1..Parts : k > m => output'[a][k] = "whole"
      BY <1>2, <2>4, <3>1
    <3> QED
      BY <2>6, <3>2 DEF Made
  <2>12. fate[a] # "accepted"
    BY <1>1 DEF RunInv, TaskIsTaken
  <2> QED
    BY <1>1, <2>4, <2>6, <2>7, <2>8, <2>10, <2>11, <2>12, AdapterStep
<1>4. CASE (\E how \in {"failed", "timeout"} : Raises(a, how)) /\ output' = output
  <2>1. PICK where \in {"failed", "timeout", "over"} : Goes(a, where)
    BY <1>4, RaisesGoes DEF Ended
  <2>2. where \in Place /\ where \notin {"request", "lock", "tool", "made", "done"}
    BY <2>1 DEF Place, InAdapter, Ended
  <2>3. adapter' \in [Attempt -> Adapter]
    BY <2>1, <2>2, GoesTypes DEF RunInv
  <2>4. AgentTypes'
    BY <1>1, <1>4, <2>3 DEF RunInv, AgentTypes
  <2>5. adapter[a].at \in Unfinished \ {"request"}
    BY <1>1 DEF Unfinished, InAdapter
  <2> QED
    BY <1>1, <1>4, <2>1, <2>2, <2>4, <2>5, GoesStep
<1> QED
  BY <1>3, <1>4 DEF ToolEnds
-----------------------------------------------------------------------------
(* The model process. *)

(* Pipes with one line. *)
LEMMA OneLine ==
    ASSUME NEW x
    PROVE  /\ Append(<<>>, x) = <<x>>
           /\ Head(<<x>>) = x
           /\ Tail(<<x>>) = <<>>
           /\ <<x>> # <<>>
           /\ Len(<<x>>) = 1
OBVIOUS

(* The three states of the pipes: nothing, a request, a response. *)
Asking(a) == [asked |-> <<AskedBy(a)>>, said |-> <<>>]
Saying(r) == [asked |-> <<>>, said |-> <<r>>]
Response == {"ok", "error", "end"}

(* A line in a pipe is that of the attempt which holds the lock. *)
LEMMA PipesHold ==
    ASSUME RunInv
    PROVE  /\ lock = NoAttempt => model = Stopped
           /\ model.asked # <<>> => lock # NoAttempt /\ model = Asking(lock)
           /\ model.said # <<>> => lock # NoAttempt /\ \E r \in Response : model = Saying(r)
<1>1. lock = NoAttempt => model = Stopped
  BY DEF RunInv, ModelServes
<1>2. lock # NoAttempt => model = Asking(lock) \/ \E r \in Response : model = Saying(r)
  BY DEF RunInv, ModelServes, Asking, Saying, Response
<1>3. Stopped.asked = <<>> /\ Stopped.said = <<>>
  BY DEF Stopped
<1>4. Asking(lock).said = <<>> /\ \A r : Saying(r).asked = <<>>
  BY DEF Asking, Saying
<1> QED
  BY <1>1, <1>2, <1>3, <1>4

(* An adapter comes back from a request, answered or not, and the process has *)
(* nothing left of it.                                                         *)
LEMMA ReleaseStep ==
    ASSUME RunInv, AgentTypes', NEW a \in Attempt, NEW r \in Adapter,
           adapter' = [adapter EXCEPT ![a] = r],
           adapter[a].at = "request", r.at # "request",
           lock' = NoAttempt, model' = Stopped,
           UNCHANGED <<fate, main, mine, output>>,
           prompt' \in {prompt, "whole"},
           r.at = "lock" /\ r.op = "synthesize" => prompt' = "whole",
           Made(r, output[a])
    PROVE  RunInv'
<1>1. adapter'[a] = r /\ \A b \in Attempt : b # a => adapter'[b] = adapter[b]
  BY DEF RunInv, AgentTypes
<1>2. ModelServes'
  <2>1. \A b \in Attempt : adapter'[b].at # "request"
    BY <1>1 DEF RunInv, ModelServes
  <2>2. \A b \in Attempt : b # NoAttempt
    BY DEF Attempt, NoAttempt
  <2> QED
    BY <2>1, <2>2 DEF ModelServes
<1>3. ResponsesAreTrue'
  BY DEF ResponsesAreTrue
<1>4. PromptIsWhole'
  BY <1>1 DEF RunInv, PromptIsWhole
<1>5. PartsAreWhole'
  BY <1>1 DEF RunInv, PartsAreWhole, Made
<1>6. TaskIsTaken'
  BY <1>1, TakenStays DEF RunInv
<1>7. AcceptedIsWhole'
  BY DEF RunInv, AcceptedIsWhole
<1> QED
  BY <1>2, <1>3, <1>4, <1>5, <1>6, <1>7 DEF RunInv

(* An adapter that is interrupted while it waits for the model process. *)
LEMMA InterruptedStep ==
    ASSUME RunInv, NEW a \in Attempt, adapter[a].at = "request",
           NEW where \in Ended \ {"done"}, Goes(a, where),
           lock' = NoAttempt, model' = Stopped,
           UNCHANGED <<executor, fate, mainVars, asking, fileVars>>
    PROVE  RunInv'
<1> DEFINE r == Row(where, adapter[a].left, adapter[a].op)
<1>1. where \in Place
  BY DEF Place
<1>2. adapter' = [adapter EXCEPT ![a] = r]
  BY <1>1, GoesTo DEF RunInv
<1>3. r \in Adapter /\ r.at = where
  BY <1>1, AdapterRow, RowFields DEF RunInv
<1>4. where \notin InAdapter \cup {"download", "made", "done"}
  BY DEF Ended, InAdapter
<1>5. adapter' \in [Attempt -> Adapter]
  BY <1>1, GoesTypes DEF RunInv
<1> HIDE DEF r
<1>6. AgentTypes'
  BY <1>5 DEF RunInv, AgentTypes, mainVars, fileVars, NoAttempt
<1>7. Made(r, output[a])
  BY <1>3, <1>4 DEF Made, InAdapter
<1>8. r.at \notin {"request", "lock"}
  BY <1>3, <1>4 DEF InAdapter
<1> QED
  BY <1>2, <1>3, <1>6, <1>7, <1>8, ReleaseStep DEF mainVars, fileVars

(* A cancelled adapter gives up the lock, and what it asked for with it. *)
LEMMA CancelAdapterStep == ASSUME RunInv, CancelAdapter PROVE RunInv'
<1> DEFINE where == "cancelled"
<1>1. main = "executing" /\ mine \in Attempt /\ adapter[mine].at \in InAdapter
  BY DEF CancelAdapter, RunInv, TaskIsTaken, InTask
<1>2. /\ Goes(mine, where)
      /\ UNCHANGED <<executor, fate, mainVars, asking, fileVars>>
      /\ lock' = IF lock = mine THEN NoAttempt ELSE lock
      /\ model' = IF lock = mine THEN Stopped ELSE model
  BY DEF CancelAdapter, LockAfter, Interrupted
<1>3. where \in Ended \ {"done"} /\ where \in Place /\ where \notin InAdapter \cup {"made"}
  BY DEF Ended, Place, InAdapter
<1> HIDE DEF where
<1>4. lock = mine <=> adapter[mine].at = "request"
  BY <1>1 DEF RunInv, ModelServes
<1>5. CASE lock = mine
  BY <1>1, <1>2, <1>3, <1>4, <1>5, InterruptedStep
<1>6. CASE lock # mine
  <2>1. adapter' \in [Attempt -> Adapter]
    BY <1>1, <1>2, <1>3, GoesTypes DEF RunInv
  <2>2. AgentTypes'
    BY <1>2, <1>6, <2>1 DEF RunInv, AgentTypes, mainVars, fileVars
  <2>3. where \notin {"request", "lock", "tool", "made", "done"}
    BY <1>3 DEF InAdapter
  <2>4. adapter[mine].at \in Unfinished \ {"request"}
    BY <1>1, <1>4, <1>6 DEF Unfinished
  <2> QED
    BY <1>1, <1>2, <1>3, <1>6, <2>2, <2>3, <2>4, GoesStep DEF mainVars, fileVars
<1> QED
  BY <1>5, <1>6

(* So does one that has waited too long. *)
LEMMA NoResponseStep == ASSUME RunInv, NEW a \in Attempt, NoResponse(a) PROVE RunInv'
<1>1. adapter[a].at = "request"
  BY DEF NoResponse, Waits
<1>2. PICK where \in {"timeout", "over"} : Goes(a, where)
  BY RaisesGoes DEF NoResponse, Ended
<1>3. where \in Ended \ {"done"}
  BY <1>2 DEF Ended
<1> QED
  BY <1>1, <1>2, <1>3, InterruptedStep DEF NoResponse

(* A request is sent to a process that has nothing in its pipes. *)
LEMMA SendRequestStep == ASSUME RunInv, NEW a \in Attempt, SendRequest(a) PROVE RunInv'
<1> DEFINE where == "request"
           r == Row(where, adapter[a].left, adapter[a].op)
<1>1. /\ adapter[a].at = "lock" /\ lock = NoAttempt /\ lock' = a /\ Goes(a, where)
      /\ model' = [model EXCEPT !.asked = Append(@, AskedBy(a))]
      /\ UNCHANGED <<executor, fate, main, mine, renewer, cancel, raising, asking, output,
                     prompt, part>>
  BY DEF SendRequest, AskedBy, mainVars, fileVars
<1>2. where \in Place /\ where = "request"
  BY DEF Place, InAdapter
<1> HIDE DEF where
<1>3. /\ adapter' \in [Attempt -> Adapter] /\ adapter'[a] = r /\ r.at = "request"
      /\ r.left = adapter[a].left /\ r.op = adapter[a].op
      /\ \A b \in Attempt : b # a => adapter'[b] = adapter[b]
  BY <1>1, <1>2, GoesTypes, AdapterRow, RowFields DEF RunInv
<1> HIDE DEF r
<1>4. AgentTypes'
  BY <1>1, <1>3 DEF RunInv, AgentTypes
<1>5. model' = Asking(a)
  <2>1. model = [asked |-> <<>>, said |-> <<>>]
    BY <1>1 DEF RunInv, ModelServes, Stopped
  <2>2. Append(<<>>, AskedBy(a)) = <<AskedBy(a)>>
    BY OneLine
  <2> QED
    BY <1>1, <2>1, <2>2 DEF Asking
<1>6. AskedBy(a)' = AskedBy(a)
  BY <1>3 DEF AskedBy
<1>7. ModelServes'
  <2>1. \A b \in Attempt : lock' = b <=> adapter'[b].at = "request"
    BY <1>1, <1>3 DEF RunInv, ModelServes, NoAttempt, Attempt
  <2>2. a # NoAttempt
    BY DEF NoAttempt, Attempt
  <2> QED
    BY <1>1, <1>5, <1>6, <2>1, <2>2 DEF ModelServes, Asking
<1>8. ResponsesAreTrue'
  <2>1. model'.said = <<>>
    BY <1>5 DEF Asking
  <2>2. <<"ok">> # <<>>
    BY OneLine
  <2> QED
    BY <2>1, <2>2 DEF ResponsesAreTrue
<1>9. PromptIsWhole'
  BY <1>1, <1>3 DEF RunInv, PromptIsWhole
<1>10. PartsAreWhole'
  BY <1>1, <1>3 DEF RunInv, PartsAreWhole, InAdapter
<1>11. TaskIsTaken'
  BY <1>1, <1>3, TakenStays DEF RunInv
<1>12. AcceptedIsWhole'
  BY <1>1 DEF RunInv, AcceptedIsWhole
<1> QED
  BY <1>4, <1>7, <1>8, <1>9, <1>10, <1>11, <1>12 DEF RunInv

(* The response is read by who waits for it, and is about its file. *)
LEMMA HearResponseStep == ASSUME RunInv, NEW a \in Attempt, HearResponse(a) PROVE RunInv'
<1>1. /\ adapter[a].at = "request" /\ lock = a /\ model.said # <<>> /\ lock' = NoAttempt
      /\ UNCHANGED <<executor, fate, mainVars, asking, output>>
  BY DEF HearResponse, RunInv, ModelServes
<1>2. PICK s \in Response : model = Saying(s)
  BY <1>1, PipesHold
<1>3. Head(model.said) = s /\ [model EXCEPT !.said = Tail(@)] = Stopped
  <2>1. Head(<<s>>) = s /\ Tail(<<s>>) = <<>>
    BY OneLine
  <2> QED
    BY <1>2, <2>1 DEF Saying, Stopped
<1>4. adapter[a].left \in 1..Parts /\ adapter[a].op \in Asks /\ fate[a] # "accepted"
  BY <1>1, AdapterRow DEF RunInv, PartsAreWhole, TaskIsTaken
<1>5. ASSUME NEW where \in {"failed", "over"}, Goes(a, where), model' = Stopped,
             UNCHANGED <<prompt, part>>
      PROVE  RunInv'
  <2>1. where \in Ended \ {"done"}
    BY DEF Ended
  <2> QED
    BY <1>1, <1>5, <2>1, InterruptedStep DEF fileVars
<1>6. CASE s # "ok"
  <2>1. Raises(a, "failed") /\ model' = Stopped /\ UNCHANGED <<prompt, part>>
    BY <1>3, <1>6 DEF HearResponse
  <2> QED
    BY <1>5, <2>1, RaisesGoes DEF Ended
<1>7. CASE s = "ok"
  <2>1. Use(a) /\ model' = Stopped
    BY <1>3, <1>7 DEF HearResponse
  <2>2. Answered(a) = "whole"
    <3>1. model.said = <<"ok">>
      BY <1>2, <1>7 DEF Saying
    <3>2. a # NoAttempt
      BY DEF NoAttempt, Attempt
    <3> QED
      BY <1>1, <3>1, <3>2 DEF RunInv, ResponsesAreTrue
  <2>3. CASE adapter[a].op = "prepare"
    <3> DEFINE where == "lock"
               op == "synthesize"
               r == Row(where, adapter[a].left, op)
    <3>1. where \in Place /\ where = "lock" /\ op \in Asks
      BY DEF Place, InAdapter, Asks
    <3>2. part = "whole"
      BY <2>2, <2>3 DEF Answered
    <3>3. /\ prompt' = "whole" /\ part' = "none"
          /\ adapter' = [adapter EXCEPT ![a].at = where, ![a].op = op]
      BY <2>1, <2>3, <3>2 DEF Use
    <3> HIDE DEF where, op
    <3>4. [adapter[a] EXCEPT !.at = where, !.op = op] = r
      BY <3>1, AsksFor DEF RunInv
    <3>5. r \in Adapter /\ r.at = where /\ r.left = adapter[a].left
      BY <1>4, <3>1, AdapterRow, RowFields DEF RunInv
    <3>6. adapter' = [adapter EXCEPT ![a] = r]
      BY <3>3, <3>4
    <3> HIDE DEF r
    <3>7. AgentTypes'
      <4>1. adapter' \in [Attempt -> Adapter]
        BY <3>5, <3>6 DEF RunInv, AgentTypes
      <4>2. prompt' \in File /\ part' \in File /\ lock' \in Attempt \cup {NoAttempt}
        BY <1>1, <3>3 DEF File
      <4> QED
        BY <1>1, <4>1, <4>2 DEF RunInv, AgentTypes, mainVars
    <3>8. Made(r, output[a])
      BY <1>1, <3>1, <3>5 DEF RunInv, PartsAreWhole, Made, InAdapter
    <3> QED
      BY <1>1, <2>1, <3>1, <3>3, <3>5, <3>6, <3>7, <3>8, ReleaseStep DEF mainVars
  <2>4. CASE adapter[a].op # "prepare"
    <3> DEFINE n == adapter[a].left
    <3>1. output[a][n] = "whole"
      BY <2>2, <2>4 DEF Answered
    <3>2. /\ adapter' = [adapter EXCEPT ![a].at = "report", ![a].left = @ - 1]
          /\ UNCHANGED <<prompt, part>>
      BY <2>1, <2>4, <3>1 DEF Use
    <3> DEFINE where == "report"
               m == n - 1
               r == Row(where, m, adapter[a].op)
    <3>3. where \in Place /\ where = "report" /\ m \in 0..Parts
      BY <1>4 DEF Place, InAdapter
    <3>4. adapter' = [adapter EXCEPT ![a].at = where, ![a].left = m]
      <4>1. [adapter[a] EXCEPT !.at = "report", !.left = @ - 1] =
                [adapter[a] EXCEPT !.at = "report", !.left = adapter[a].left - 1]
        OBVIOUS
      <4> QED
        BY <3>2
    <3> HIDE DEF where
    <3>5. [adapter[a] EXCEPT !.at = where, !.left = m] = r
      BY <3>3, MovesTo DEF RunInv
    <3>6. r \in Adapter /\ r.at = "report" /\ r.left = m
      BY <1>4, <3>3, RowFields
    <3>7. adapter' = [adapter EXCEPT ![a] = r]
      BY <3>4, <3>5
    <3> HIDE DEF r
    <3>8. AgentTypes'
      <4>1. adapter' \in [Attempt -> Adapter]
        BY <3>6, <3>7 DEF RunInv, AgentTypes
      <4>2. prompt' \in File /\ part' \in File /\ lock' \in Attempt \cup {NoAttempt}
        BY <1>1, <3>2 DEF RunInv, AgentTypes
      <4> QED
        BY <1>1, <4>1, <4>2 DEF RunInv, AgentTypes, mainVars
    <3>9. Made(r, output[a])
      <4>1. \A k \in 1..Parts : k > n => output[a][k] = "whole"
        BY <1>1 DEF RunInv, PartsAreWhole, InAdapter
      <4>2. \A k \in 1..Parts : k > m => output[a][k] = "whole"
        BY <1>4, <3>1, <4>1
      <4> QED
        BY <3>6, <4>2 DEF Made
    <3> QED
      BY <1>1, <2>1, <3>2, <3>6, <3>7, <3>8, <3>9, ReleaseStep DEF mainVars
  <2> QED
    BY <2>3, <2>4
<1> QED
  BY <1>6, <1>7

(* The process writes the file that it was asked for, and may have answered. *)
LEMMA ModelStep ==
    ASSUME RunInv, NEW a \in Attempt, lock = a, model = Asking(a),
           UNCHANGED <<executor, fate, mainVars, asking, adapter, lock, prompt>>,
           part' \in File, output' \in [Attempt -> [1..Parts -> File]],
           \A b \in Attempt : b # a => output'[b] = output[b],
           \A m \in 1..Parts : m # adapter[a].left => output'[a][m] = output[a][m],
           model' = Asking(a) \/ \E s \in Response : model' = Saying(s),
           model' = Saying("ok") => Answered(a)' = "whole"
    PROVE  RunInv'
<1>1. adapter[a].at = "request" /\ a # NoAttempt
  BY DEF RunInv, ModelServes, NoAttempt, Attempt
<1>2. AgentTypes'
  BY DEF RunInv, AgentTypes, mainVars
<1>3. ModelServes'
  BY <1>1 DEF RunInv, ModelServes, Asking, Saying, Response, AskedBy
<1>4. ResponsesAreTrue'
  <2>1. model' = Asking(a) => model'.said # <<"ok">>
    BY OneLine DEF Asking
  <2>2. \A s \in Response : model' = Saying(s) /\ model'.said = <<"ok">> => model' = Saying("ok")
    BY DEF Saying
  <2> QED
    BY <2>1, <2>2 DEF ResponsesAreTrue
<1>5. PromptIsWhole'
  BY DEF RunInv, PromptIsWhole
<1>6. PartsAreWhole'
  <2>1. \A m \in 1..Parts : m > adapter[a].left => output'[a][m] = output[a][m]
    BY AdapterRow DEF RunInv
  <2> QED
    BY <1>1, <2>1 DEF RunInv, PartsAreWhole
<1>7. TaskIsTaken'
  BY TakenStays DEF RunInv, mainVars
<1>8. AcceptedIsWhole'
  <2>1. fate[a] # "accepted"
    BY <1>1 DEF RunInv, TaskIsTaken
  <2> QED
    BY <2>1 DEF RunInv, AcceptedIsWhole
<1> QED
  BY <1>2, <1>3, <1>4, <1>5, <1>6, <1>7, <1>8 DEF RunInv

(* The file that a line names. *)
LEMMA LineWrites ==
    ASSUME RunInv, NEW a \in Attempt, adapter[a].left \in 1..Parts, NEW file \in File,
           Writes(AskedBy(a), file)
    PROVE  /\ part' \in File /\ output' \in [Attempt -> [1..Parts -> File]]
           /\ \A b \in Attempt : b # a => output'[b] = output[b]
           /\ \A m \in 1..Parts : m # adapter[a].left => output'[a][m] = output[a][m]
           /\ adapter' = adapter => Answered(a)' = file
<1>1. CASE adapter[a].op = "prepare"
  <2>1. part' = file /\ output' = output
    BY <1>1 DEF Writes, AskedBy
  <2> QED
    BY <1>1, <2>1 DEF RunInv, AgentTypes, Answered
<1>2. CASE adapter[a].op # "prepare"
  <2>1. part' = part /\ output' = [output EXCEPT ![a][adapter[a].left] = file]
    BY <1>2 DEF Writes, AskedBy
  <2>2. /\ output' \in [Attempt -> [1..Parts -> File]]
        /\ output'[a][adapter[a].left] = file
        /\ \A m \in 1..Parts : m # adapter[a].left => output'[a][m] = output[a][m]
        /\ \A b \in Attempt : b # a => output'[b] = output[b]
    BY <2>1, FileChanges DEF RunInv
  <2> QED
    BY <1>2, <2>1, <2>2 DEF RunInv, AgentTypes, Answered
<1> QED
  BY <1>1, <1>2

(* The model process writes, answers or dies. *)
LEMMA ModelRunsStep == ASSUME RunInv, ModelRuns PROVE RunInv'
<1>1. /\ model.asked # <<>>
      /\ UNCHANGED <<executor, fate, mainVars, asking, adapter, lock, prompt>>
  BY DEF ModelRuns, ModelWrites, ModelAnswers, ModelDies, modelVars, fileVars
<1>2. PICK a \in Attempt : lock = a /\ model = Asking(a)
  BY <1>1, PipesHold DEF RunInv, AgentTypes
<1>3. Head(model.asked) = AskedBy(a) /\ Tail(model.asked) = <<>> /\ model.said = <<>>
  <2>1. Head(<<AskedBy(a)>>) = AskedBy(a) /\ Tail(<<AskedBy(a)>>) = <<>>
    BY OneLine
  <2> QED
    BY <1>2, <2>1 DEF Asking
<1>4. ASSUME NEW s PROVE Append(model.said, s) = <<s>>
  BY <1>3, OneLine
<1>5. adapter[a].at = "request" /\ adapter[a].left \in 1..Parts /\ adapter[a].op \in Asks
  BY <1>2, AdapterRow DEF RunInv, ModelServes, PartsAreWhole
<1>6. CASE ModelWrites
  <2> DEFINE file == "partial"
  <2>1. file \in File
    BY DEF File
  <2>2. Writes(AskedBy(a), file) /\ model' = Asking(a)
    BY <1>2, <1>3, <1>6 DEF ModelWrites, modelVars
  <2> HIDE DEF file
  <2>3. /\ part' \in File /\ output' \in [Attempt -> [1..Parts -> File]]
        /\ \A b \in Attempt : b # a => output'[b] = output[b]
        /\ \A m \in 1..Parts : m # adapter[a].left => output'[a][m] = output[a][m]
    BY <1>2, <1>5, <2>1, <2>2, LineWrites
  <2>4. model' # Saying("ok")
    BY <2>2, OneLine DEF Asking, Saying
  <2> QED
    BY <1>1, <1>2, <2>2, <2>3, <2>4, ModelStep
<1>7. ASSUME Writes(AskedBy(a), "whole"),
             model' = [model EXCEPT !.asked = Tail(@), !.said = Append(@, "ok")]
      PROVE  RunInv'
  <2> DEFINE file == "whole"
  <2>1. file \in File /\ Writes(AskedBy(a), file)
    BY <1>7 DEF File
  <2>2. model' = Saying("ok")
    <3>1. model = [asked |-> <<AskedBy(a)>>, said |-> <<>>]
      BY <1>2 DEF Asking
    <3> QED
      BY <1>3, <1>4, <1>7, <3>1 DEF Saying
  <2> HIDE DEF file
  <2>3. /\ part' \in File /\ output' \in [Attempt -> [1..Parts -> File]]
        /\ \A b \in Attempt : b # a => output'[b] = output[b]
        /\ \A m \in 1..Parts : m # adapter[a].left => output'[a][m] = output[a][m]
        /\ Answered(a)' = file
    BY <1>1, <1>2, <1>5, <2>1, LineWrites
  <2> QED
    BY <1>1, <1>2, <2>2, <2>3, ModelStep DEF file, Response
<1>8. ASSUME NEW s \in {"error", "end"}, model' = Saying(s), UNCHANGED <<output, part>>
      PROVE  RunInv'
  <2>1. s \in Response /\ Saying(s) # Saying("ok")
    BY DEF Response, Saying
  <2> QED
    BY <1>1, <1>2, <1>8, <2>1, ModelStep DEF RunInv, AgentTypes
<1>9. CASE ModelAnswers
  <2>1. prompt = "whole" \/ adapter[a].op = "prepare"
    BY <1>2, <1>5 DEF RunInv, PromptIsWhole, Asks
  <2>2. (IF AskedBy(a).op = "synthesize" THEN prompt ELSE "whole") = "whole"
    BY <2>1 DEF AskedBy
  <2>3. CASE /\ Writes(AskedBy(a), IF AskedBy(a).op = "synthesize" THEN prompt ELSE "whole")
             /\ model' = [model EXCEPT !.asked = Tail(@), !.said = Append(@, "ok")]
    BY <1>7, <2>2, <2>3
  <2>4. CASE /\ model' = [model EXCEPT !.asked = Tail(@), !.said = Append(@, "error")]
             /\ UNCHANGED <<output, part>>
    <3>1. model = [asked |-> <<AskedBy(a)>>, said |-> <<>>]
      BY <1>2 DEF Asking
    <3>2. model' = Saying("error")
      BY <1>3, <1>4, <2>4, <3>1 DEF Saying
    <3> QED
      BY <1>8, <2>4, <3>2
  <2> QED
    BY <1>3, <1>9, <2>3, <2>4 DEF ModelAnswers
<1>10. CASE ModelDies
  <2>1. model' = Saying("end")
    BY <1>4, <1>10 DEF ModelDies, Saying
  <2> QED
    BY <1>8, <1>10, <2>1 DEF ModelDies, fileVars
<1> QED
  BY <1>6, <1>9, <1>10 DEF ModelRuns
-----------------------------------------------------------------------------
(* The agent is closed with its coroutines and launched again. *)
LEMMA RelaunchStep == ASSUME RunInv, Relaunch PROVE RunInv'
<1>1. /\ lock = NoAttempt /\ lock' = NoAttempt /\ model' = Stopped
      /\ main' = "idle" /\ mine' = NoAttempt /\ cancel' = FALSE /\ raising' = FALSE
      /\ asking' = NoAttempt
      /\ UNCHANGED <<executor, fate, renewer, output, prompt, part>>
      /\ adapter' = [a \in Attempt |->
                        IF adapter[a].at = "none" THEN adapter[a]
                        ELSE [adapter[a] EXCEPT !.at = "over"]]
  BY DEF Relaunch, fileVars
<1>2. ASSUME NEW a \in Attempt
      PROVE  /\ adapter'[a] \in Adapter
             /\ adapter[a].at = "none" => adapter'[a] = adapter[a]
             /\ adapter[a].at # "none" => adapter'[a].at = "over"
  <2>1. adapter[a] \in Adapter
    BY DEF RunInv, AgentTypes
  <2>2. [adapter[a] EXCEPT !.at = "over"] \in Adapter
        /\ [adapter[a] EXCEPT !.at = "over"].at = "over"
    BY <2>1 DEF Adapter, Ended
  <2> QED
    BY <1>1, <2>1, <2>2
<1>3. \A a \in Attempt : adapter'[a].at \in {"none", "over"}
  BY <1>2
<1>4. AgentTypes'
  <2>1. adapter' \in [Attempt -> Adapter]
    BY <1>1, <1>2
  <2> QED
    BY <1>1, <2>1 DEF RunInv, AgentTypes
<1>5. ModelServes'
  BY <1>1, <1>3 DEF ModelServes, NoAttempt, Attempt
<1>6. ResponsesAreTrue' /\ PromptIsWhole' /\ PartsAreWhole'
  BY <1>1, <1>3 DEF RunInv, ResponsesAreTrue, PromptIsWhole, PartsAreWhole, InAdapter
<1>7. TaskIsTaken'
  <2>1. \A a \in Attempt : fate'[a] = "none" => adapter'[a].at = "none"
    BY <1>1, <1>2 DEF RunInv, TaskIsTaken
  <2>2. \A a \in Attempt : fate'[a] = "accepted" => adapter'[a].at \in {"done", "over"}
    BY <1>1, <1>2 DEF RunInv, TaskIsTaken
  <2> QED
    BY <1>1, <2>1, <2>2 DEF TaskIsTaken, InTask
<1>8. AcceptedIsWhole'
  BY <1>1 DEF RunInv, AcceptedIsWhole
<1> QED
  BY <1>4, <1>5, <1>6, <1>7, <1>8 DEF RunInv

(* At first nothing has been given to the machine. *)
LEMMA InitRunInv == TaskInit => RunInv
<1> SUFFICES ASSUME TaskRunInit PROVE RunInv
  BY DEF TaskInit
<1>1. AgentTypes
  <2> DEFINE row == [at |-> "none", left |-> 0, op |-> "prepare"]
  <2>1. row \in Adapter
    BY DEF Adapter, Ended
  <2> HIDE DEF row
  <2>2. adapter \in [Attempt -> Adapter]
    BY <2>1 DEF TaskRunInit, row
  <2>3. output \in [Attempt -> [1..Parts -> File]] /\ prompt \in File /\ part \in File
    BY DEF TaskRunInit, File
  <2> QED
    BY <2>2, <2>3 DEF TaskRunInit, AgentTypes, NoAttempt
<1>2. \A a \in Attempt : adapter[a].at = "none" /\ fate[a] = "none" /\ a # NoAttempt
  BY DEF TaskRunInit, Attempt, NoAttempt
<1>3. lock = NoAttempt /\ model = Stopped /\ main = "idle" /\ prompt = "none"
  BY DEF TaskRunInit
<1>4. ModelServes /\ ResponsesAreTrue
  BY <1>2, <1>3 DEF ModelServes, ResponsesAreTrue
<1>5. PromptIsWhole /\ PartsAreWhole
  BY <1>2, <1>3 DEF PromptIsWhole, PartsAreWhole, InAdapter
<1>6. TaskIsTaken /\ AcceptedIsWhole
  BY <1>2, <1>3 DEF TaskIsTaken, InTask, AcceptedIsWhole
<1> QED
  BY <1>1, <1>4, <1>5, <1>6 DEF RunInv

(* Whatever happens on the machine keeps the invariant. *)
LEMMA NextRunInv == ASSUME RunInv, [TaskNext]_taskEnds PROVE RunInv'
<1>1. ASSUME UNCHANGED taskVars PROVE RunInv'
  <2>1. AgentTypes' /\ TaskIsTaken'
    BY <1>1 DEF taskVars, mainVars, modelVars, fileVars, RunInv, AgentTypes, TaskIsTaken, InTask
  <2> QED
    BY <1>1, <2>1, ConductStep DEF taskVars, mainVars, modelVars, fileVars
<1>2. ASSUME NEW a \in Attempt, Adapt(a) PROVE RunInv'
  BY <1>2, NextPartStep, ReportProgressStep, ToolEndsStep, SendRequestStep, HearResponseStep,
     NoResponseStep DEF Adapt
<1>3. CASE Conduct
  BY <1>3, BeginStep, StopExecutingStep, QuietStep, SendResultStep, RelaunchStep DEF Conduct
<1>4. CASE Execute
  BY <1>4, TransferStep, CancelAdapterStep DEF Execute
<1>5. ASSUME TaskRunNext PROVE RunInv'
  BY <1>2, <1>3, <1>4, <1>5, QuietStep, ToolWritesStep, ModelRunsStep DEF TaskRunNext
<1> QED
  BY <1>1, <1>5 DEF TaskNext, Leasing, Working, taskEnds

(* The model process has at most one line in its pipes. *)
LEMMA PipesAreTyped ==
    ASSUME RunInv
    PROVE  /\ Len(model.asked) + Len(model.said) <= 1
           /\ model.asked \in Seq(Line) /\ model.said \in Seq({"ok", "error", "end"})
<1>1. CASE lock = NoAttempt
  <2>1. model.asked = <<>> /\ model.said = <<>>
    BY <1>1, PipesHold DEF Stopped
  <2> QED
    BY <2>1
<1>2. CASE lock # NoAttempt
  <2>1. lock \in Attempt
    BY <1>2 DEF RunInv, AgentTypes
  <2>2. adapter[lock].left \in 1..Parts /\ adapter[lock].op \in Asks
    BY <2>1, AdapterRow DEF RunInv, ModelServes, PartsAreWhole
  <2>3. AskedBy(lock) \in Line
    BY <2>1, <2>2 DEF AskedBy, Line, Asks
  <2>4. CASE model = Asking(lock)
    <3>1. model.asked = <<AskedBy(lock)>> /\ model.said = <<>>
      BY <2>4 DEF Asking
    <3> QED
      BY <2>3, <3>1
  <2>5. ASSUME NEW r \in Response, model = Saying(r)
        PROVE  /\ Len(model.asked) + Len(model.said) <= 1
               /\ model.asked \in Seq(Line) /\ model.said \in Seq(Response)
    <3>1. model.asked = <<>> /\ model.said = <<r>>
      BY <2>5 DEF Saying
    <3> QED
      BY <3>1
  <2>6. model = Asking(lock) \/ \E r \in Response : model = Saying(r)
    BY <1>2 DEF RunInv, ModelServes, Asking, Saying, Response
  <2> QED
    BY <2>4, <2>5, <2>6 DEF Response
<1> QED
  BY <1>1, <1>2

(***************************************************************************)
(* Every variable of the agent, the executor, the adapters and the model   *)
(* process keeps its type; no more than one line is in the pipes.          *)
(***************************************************************************)
THEOREM TaskRunTypeCorrect == TaskSpec => []TaskRunTypeOK
<1>1. RunInv => TaskRunTypeOK
  BY PipesAreTyped DEF RunInv, AgentTypes, TaskRunTypeOK
<1> QED
  BY <1>1, InitRunInv, NextRunInv, PTL DEF TaskSpec

(***************************************************************************)
(* What the control plane accepts of an attempt is whole, in every part,   *)
(* however often requests, tools and the agent itself are interrupted and  *)
(* although adapters that nobody awaits run on beside the next task.       *)
(***************************************************************************)
THEOREM AcceptedResultsAreWhole == TaskSpec => []AcceptedIsWhole
<1>1. RunInv => AcceptedIsWhole
  BY DEF RunInv
<1> QED
  BY <1>1, InitRunInv, NextRunInv, PTL DEF TaskSpec
=============================================================================
