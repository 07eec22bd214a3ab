----------------------------- MODULE FencedTask -----------------------------
(***************************************************************************)
(* What the lease protocol promises about a task, whatever the handlers,   *)
(* the reaper and the queue do to get there.  A task is granted to one     *)
(* holder at a time, each grant under the next fencing token.  A result is *)
(* accepted once, from the holder of the latest token, and is then final;  *)
(* a withdrawn task never accepts anything.  A grant that ends without a   *)
(* result leaves the task open for another one or refused, and a refused   *)
(* task may be opened again.                                               *)
(***************************************************************************)
EXTENDS Naturals

CONSTANTS Task, MaxToken

VARIABLES
    token,    \* the latest fencing token granted, 0 before the first
    held,     \* whether that grant is still in force
    outcome,  \* what has become of the task
    accepted  \* the tokens a result was accepted from

taskVars == <<token, held, outcome, accepted>>

Outcome == {"open", "accepted", "refused", "withdrawn"}

Init ==
    /\ token = [t \in Task |-> 0]
    /\ held = [t \in Task |-> FALSE]
    /\ outcome = [t \in Task |-> "open"]
    /\ accepted = [t \in Task |-> {}]

Grant(t) ==
    /\ outcome[t] = "open"
    /\ ~held[t]
    /\ token[t] < MaxToken
    /\ token' = [token EXCEPT ![t] = @ + 1]
    /\ held' = [held EXCEPT ![t] = TRUE]
    /\ UNCHANGED <<outcome, accepted>>

Accept(t) ==
    /\ held[t]
    /\ held' = [held EXCEPT ![t] = FALSE]
    /\ outcome' = [outcome EXCEPT ![t] = "accepted"]
    /\ accepted' = [accepted EXCEPT ![t] = @ \cup {token[t]}]
    /\ UNCHANGED token

(* The holder fails or its lease runs out. *)
GiveBack(t, after) ==
    /\ held[t]
    /\ after \in {"open", "refused"}
    /\ held' = [held EXCEPT ![t] = FALSE]
    /\ outcome' = [outcome EXCEPT ![t] = after]
    /\ UNCHANGED <<token, accepted>>

Withdraw(ts) ==
    /\ \A t \in ts : outcome[t] \in {"open", "refused"}
    /\ held' = [t \in Task |-> held[t] /\ t \notin ts]
    /\ outcome' = [t \in Task |-> IF t \in ts THEN "withdrawn" ELSE outcome[t]]
    /\ UNCHANGED <<token, accepted>>

Reopen(t) ==
    /\ outcome[t] = "refused"
    /\ outcome' = [outcome EXCEPT ![t] = "open"]
    /\ UNCHANGED <<token, held, accepted>>

Next ==
    \/ \E t \in Task : Grant(t) \/ Accept(t) \/ Reopen(t)
    \/ \E t \in Task, after \in Outcome : GiveBack(t, after)
    \/ \E ts \in SUBSET Task : Withdraw(ts)

Spec == Init /\ [][Next]_taskVars
=============================================================================
