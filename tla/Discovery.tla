------------------------------ MODULE Discovery ------------------------------
(***************************************************************************)
(* Discovery runs: each scans the pages of a source with the credential of *)
(* an account.  A run is a row; what executes it is a promise in the API   *)
(* process (DiscoveryRunner), started after the row is written, started    *)
(* again whenever the request is replayed, and gone when the process dies. *)
(* Transactions are READ COMMITTED: cancelling a run and storing a page    *)
(* each read the run in one statement and write it in a later one.         *)
(***************************************************************************)
EXTENDS Naturals

CONSTANTS
    Run,
    Executor,    \* BOUND: executions of runs that are dispatched at the same time
    MaxPages,    \* pages of one execution (20)
    Limit        \* requestedLimit, items of a run

ASSUME DiscoveryAssumption == MaxPages \in Nat \ {0} /\ Limit \in Nat

VARIABLES
    account,   \* source_accounts.status, and whether a credential is current
    validator, \* whether validateAccount waits for the provider
    run,       \* discovery_runs, with the number of their discovery_items
    exec,      \* executions
    cancels,   \* cancelRun transactions that have read an unfinished run
    late,      \* pages stored in a run that was already cancelled
    crashed    \* whether the process has died

discoveryVars == <<account, validator, run, exec, cancels, late, crashed>>

RunStatus == {"none", "QUEUED", "RUNNING", "SUCCEEDED", "PARTIAL", "FAILED", "CANCELLED"}
Underway == {"QUEUED", "RUNNING"}

Execution == [phase : {"idle", "dispatched", "claimed", "scanning", "fetched", "storing",
                       "finishing", "failing"},
              run : Run \cup {"none"}, page : 0..MaxPages, total : 0..Limit, size : 0..Limit,
              more : BOOLEAN]

NoExecution == [phase |-> "idle", run |-> "none", page |-> 0, total |-> 0, size |-> 0, more |-> TRUE]

SetStatus(r, s) == run' = [run EXCEPT ![r].status = s]
Phase(e, p) == exec' = [exec EXCEPT ![e] = IF p = "idle" THEN NoExecution ELSE [@ EXCEPT !.phase = p]]
At(e, p) == exec[e].phase = p

-----------------------------------------------------------------------------
(* The account. *)

(* A cookie may have expired before it is imported. *)
StoreCredential(s) ==
    /\ account' = [status |-> s, credential |-> TRUE]
    /\ UNCHANGED <<validator, run, exec, cancels, late, crashed>>

RevokeCredential ==
    /\ account' = [status |-> "REVOKED", credential |-> FALSE]
    /\ UNCHANGED <<validator, run, exec, cancels, late, crashed>>

(* validateAccount reads the credential, asks the provider, *)
BeginValidation ==
    /\ account.credential /\ ~validator
    /\ validator' = TRUE
    /\ UNCHANGED <<account, run, exec, cancels, late, crashed>>

(* and records the answer, whatever has become of the credential meanwhile. *)
RecordValidation(s) ==
    /\ validator
    /\ validator' = FALSE
    /\ account' = [account EXCEPT !.status = s]
    /\ UNCHANGED <<run, exec, cancels, late, crashed>>

-----------------------------------------------------------------------------
(* Runs. *)

Dispatched(e, r) ==
    exec' = [exec EXCEPT ![e] = [NoExecution EXCEPT !.phase = "dispatched", !.run = r]]

CreateRun(r, e) ==
    /\ run[r].status = "none"
    /\ account.status = "ACTIVE"
    /\ SetStatus(r, "QUEUED")
    /\ At(e, "idle") /\ Dispatched(e, r)
    /\ UNCHANGED <<account, validator, cancels, late, crashed>>

(* A replayed request returns the run of its key, and dispatches it again. *)
ReplayCreate(r, e) ==
    /\ run[r].status # "none"
    /\ At(e, "idle") /\ Dispatched(e, r)
    /\ UNCHANGED <<account, validator, run, cancels, late, crashed>>

Claimable(r) == run[r].status = "QUEUED"

(* claimRun *)
ClaimRun(e) ==
    /\ At(e, "dispatched")
    /\ IF Claimable(exec[e].run)
       THEN SetStatus(exec[e].run, "RUNNING") /\ Phase(e, "claimed")
       ELSE Phase(e, "idle") /\ UNCHANGED run
    /\ UNCHANGED <<account, validator, cancels, late, crashed>>

(* The cookie is read once: the scan goes on with it if it is revoked. *)
ReadCredential(e) ==
    /\ At(e, "claimed")
    /\ Phase(e, IF account.credential THEN "scanning" ELSE "failing")
    /\ UNCHANGED <<account, validator, run, cancels, late, crashed>>

Scan(e, size, more) ==
    /\ At(e, "scanning")
    /\ size <= Limit - exec[e].total
    /\ exec' = [exec EXCEPT ![e].phase = "fetched", ![e].size = size, ![e].more = more]
    /\ UNCHANGED <<account, validator, run, cancels, late, crashed>>

(* The provider, the cipher or the database fails. *)
StepFails(e) ==
    /\ exec[e].phase \in {"claimed", "scanning", "fetched", "storing", "finishing"}
    /\ Phase(e, "failing")
    /\ UNCHANGED <<account, validator, run, cancels, late, crashed>>

(* Not faithful, for mutation: a page is stored whatever the run has become. *)
NeverStopped(r) == FALSE

Stopped(r) == run[r].status = "CANCELLED"

(* persistPage: the check, *)
CheckPage(e) ==
    /\ At(e, "fetched")
    /\ Phase(e, IF Stopped(exec[e].run) THEN "idle" ELSE "storing")
    /\ UNCHANGED <<account, validator, run, cancels, late, crashed>>

(* and the items that the run does not have yet, with its counts. *)
StorePage(e, inserted) ==
    /\ At(e, "storing")
    /\ inserted <= exec[e].size
    /\ LET r == exec[e].run
           total == exec[e].total + exec[e].size
           page == exec[e].page + 1
           last == ~exec[e].more \/ total >= Limit \/ exec[e].size = 0 \/ page >= MaxPages
       IN  /\ run' = [run EXCEPT ![r].pages = @ + 1, ![r].items = @ + inserted]
           /\ late' = [late EXCEPT ![r] = IF run[r].status = "CANCELLED" THEN @ + 1 ELSE @]
           /\ exec' = [exec EXCEPT ![e].phase = IF last THEN "finishing" ELSE "scanning",
                                   ![e].total = total, ![e].page = page]
    /\ UNCHANGED <<account, validator, cancels, crashed>>

(* finishRun *)
Finish(e) ==
    /\ At(e, "finishing")
    /\ IF run[exec[e].run].status = "RUNNING" THEN SetStatus(exec[e].run, "SUCCEEDED") ELSE UNCHANGED run
    /\ Phase(e, "idle")
    /\ UNCHANGED <<account, validator, cancels, late, crashed>>

(* Not faithful, for mutation: only runs that wait can fail, or the error is the status. *)
WaitingOnly == {"QUEUED"}
ErrorCode(total) == IF total > 0 THEN "PARTIAL" ELSE "DISCOVERY_PROVIDER_FAILED"

MayFail == Underway
Outcome(total) == IF total > 0 THEN "PARTIAL" ELSE "FAILED"

(* finishRun of what was found, or failRun. *)
Fail(e) ==
    /\ At(e, "failing")
    /\ IF run[exec[e].run].status \in (IF exec[e].total > 0 THEN {"RUNNING"} ELSE MayFail)
       THEN SetStatus(exec[e].run, Outcome(exec[e].total)) ELSE UNCHANGED run
    /\ Phase(e, "idle")
    /\ UNCHANGED <<account, validator, cancels, late, crashed>>

(* cancelRun: the read, *)
ReadCancel(r) ==
    /\ run[r].status \in Underway
    /\ cancels' = cancels \cup {r}
    /\ UNCHANGED <<account, validator, run, exec, late, crashed>>

(* and the write, by primary key alone. *)
WriteCancel(r) ==
    /\ r \in cancels
    /\ cancels' = cancels \ {r}
    /\ SetStatus(r, "CANCELLED")
    /\ UNCHANGED <<account, validator, exec, late, crashed>>

(* Also what a failure to record a failure does: nothing handles the rejection. *)
CrashApi ==
    /\ crashed' = TRUE
    /\ exec' = [e \in Executor |-> NoExecution]
    /\ cancels' = {}
    /\ validator' = FALSE
    /\ UNCHANGED <<account, run, late>>

-----------------------------------------------------------------------------
DiscoveryInit ==
    /\ account = [status |-> "ACTIVE", credential |-> TRUE]
    /\ validator = FALSE
    /\ run = [r \in Run |-> [status |-> "none", pages |-> 0, items |-> 0]]
    /\ exec = [e \in Executor |-> NoExecution]
    /\ cancels = {}
    /\ late = [r \in Run |-> 0]
    /\ crashed = FALSE

Credentials == (\E s \in {"ACTIVE", "EXPIRED"} : StoreCredential(s)) \/ RevokeCredential

Validation == BeginValidation \/ \E s \in {"ACTIVE", "EXPIRED"} : RecordValidation(s)

Execute(e) ==
    \/ ClaimRun(e) \/ ReadCredential(e) \/ CheckPage(e) \/ Finish(e) \/ Fail(e)
    \/ \E size \in 0..Limit, more \in BOOLEAN : Scan(e, size, more)
    \/ \E inserted \in 0..Limit : StorePage(e, inserted)

Requests ==
    \/ \E r \in Run, e \in Executor : CreateRun(r, e) \/ ReplayCreate(r, e)
    \/ \E r \in Run : ReadCancel(r) \/ WriteCancel(r)

DiscoveryTypeOK ==
    /\ account \in [status : {"ACTIVE", "EXPIRED", "REVOKED"}, credential : BOOLEAN]
    /\ validator \in BOOLEAN
    /\ \A r \in Run : run[r].status \in RunStatus /\ run[r].pages \in Nat /\ run[r].items \in Nat
    /\ exec \in [Executor -> Execution]
    /\ cancels \subseteq Run
    /\ late \in [Run -> Nat]
    /\ crashed \in BOOLEAN
=============================================================================
