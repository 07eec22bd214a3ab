---------------------------- MODULE IntakeProofs ----------------------------
(***************************************************************************)
(* Proofs about Intake, for every set of runs, executions, sources,        *)
(* requests and files, and every limit.  The four parts share no variable  *)
(* that an invariant speaks of, so each has an inductive invariant of its  *)
(* own, and a step of one leaves those of the others alone.                *)
(***************************************************************************)
EXTENDS Intake, TLAPS

-----------------------------------------------------------------------------
(* Imports. *)

(* A file is available once its job exists, and a transaction whose snapshot *)
(* is current has it before it.                                              *)
ImportInv ==
    /\ ImportTypeOK
    /\ \A u \in File : imported[u] = IF assetOf[u] = "AVAILABLE" THEN 1 ELSE 0
    /\ \A r \in Commit :
           commit[r].phase = "open" /\ commit[r].current => assetOf[FileOf[r]] = "PENDING"

USE ImportAssumption

(* At first no file has been uploaded and no commit has begun. *)
LEMMA InitImportInv == ImportInit => ImportInv
BY DEF ImportInit, ImportInv, ImportTypeOK, CommitPhase

(* Of the commits of one file, one finds its snapshot current. *)
LEMMA ImportStep ==
    ASSUME ImportInv, NEW p, ImportNext(p) \/ UNCHANGED importVars
    PROVE  ImportInv'
<1> USE DEF ImportInv, ImportTypeOK, CommitPhase
<1>1. ASSUME NEW u \in File, RequestUpload(u) \/ PutFile(u)
      PROVE  ImportInv'
  BY <1>1 DEF RequestUpload, PutFile
<1>2. ASSUME NEW r \in Commit, NEW phase \in CommitPhase, Goes(r, phase),
             phase = "open" => assetOf[FileOf[r]] = "PENDING"
      PROVE  ImportInv'
  BY <1>2 DEF Goes, To
<1>3. ASSUME NEW r \in Commit, SendCommit(r) \/ ReadPending(r) \/ BeginImport(r, p)
      PROVE  ImportInv'
  BY <1>2, <1>3 DEF SendCommit, ReadPending, BeginImport
<1>4. ASSUME NEW r \in Commit, EndImport(r), Serializes(r), ~Answered(r)
      PROVE  ImportInv'
  <2>1. assetOf[FileOf[r]] = "PENDING" /\ FileOf[r] \in File
    BY <1>4 DEF EndImport, Serializes
  <2>2. /\ assetOf' = [assetOf EXCEPT ![FileOf[r]] = "AVAILABLE"]
        /\ imported' = [imported EXCEPT ![FileOf[r]] = @ + 1]
        /\ replies' = replies \cup {CommitKey[r]}
        /\ commit' = [q \in Commit |->
             IF q = r THEN [phase |-> "done", current |-> FALSE]
             ELSE [commit[q] EXCEPT !.current = @ /\ FileOf[q] # FileOf[r]]]
        /\ stored' = stored
    BY <1>4 DEF EndImport
  <2>3. ImportTypeOK'
    <3>1. ASSUME NEW q \in Commit
          PROVE  commit'[q] \in [phase : CommitPhase, current : BOOLEAN]
      <4> DEFINE b == commit[q].current /\ FileOf[q] # FileOf[r]
      <4>1. b \in BOOLEAN /\ commit[q] \in [phase : CommitPhase, current : BOOLEAN]
        OBVIOUS
      <4>2. commit'[q] = IF q = r THEN [phase |-> "done", current |-> FALSE]
                                  ELSE [commit[q] EXCEPT !.current = b]
        BY <2>2
      <4> HIDE DEF b
      <4> QED
        BY <4>1, <4>2
    <3>2. commit' \in [Commit -> [phase : CommitPhase, current : BOOLEAN]]
      BY <2>2, <3>1
    <3> QED
      BY <2>1, <2>2, <3>2
  <2>4. \A u \in File : imported'[u] = IF assetOf'[u] = "AVAILABLE" THEN 1 ELSE 0
    BY <2>1, <2>2
  <2>5. ASSUME NEW q \in Commit, commit'[q].phase = "open", commit'[q].current
        PROVE  assetOf'[FileOf[q]] = "PENDING"
    BY <2>1, <2>2, <2>5
  <2> QED
    BY <2>3, <2>4, <2>5
<1>5. ASSUME NEW r \in Commit, EndImport(r), ~(Serializes(r) /\ ~Answered(r))
      PROVE  ImportInv'
  BY <1>2, <1>5 DEF EndImport
<1>6. CASE UNCHANGED importVars
  BY <1>6 DEF importVars
<1> QED
  BY <1>1, <1>3, <1>4, <1>5, <1>6 DEF ImportNext

-----------------------------------------------------------------------------
(* Scans. *)

Scans(e) == exec[e].phase \in {"claimed", "scanning", "fetched", "storing"}

ScanTypes ==
    /\ DiscoveryTypeOK
    /\ run \in [Run -> [status : RunStatus, pages : Nat, items : Nat]]

(* An execution that is dispatched has a run, and one that scans its run has *)
(* claimed it.                                                                *)
ExecutionHasRun == \A e \in Executor :
    /\ exec[e].phase # "idle" => exec[e].run \in Run /\ run[exec[e].run].status # "none"
    /\ Scans(e) => run[exec[e].run].status # "QUEUED"
    /\ exec[e].phase = "dispatched" => exec[e].page = 0 /\ exec[e].total = 0

(* claimRun lets one execution scan a run. *)
OneScanner == \A e, f \in Executor : Scans(e) /\ Scans(f) /\ exec[e].run = exec[f].run => e = f

(* The counts of the row do not exceed those the execution goes by. *)
CountsAgree == \A e \in Executor : Scans(e) =>
    /\ run[exec[e].run].pages = exec[e].page
    /\ run[exec[e].run].items <= exec[e].total
    /\ exec[e].page < MaxPages
    /\ exec[e].phase \in {"fetched", "storing"} => exec[e].total + exec[e].size <= Limit

RunCounts == \A r \in Run :
    /\ run[r].status \in {"none", "QUEUED"} => run[r].pages = 0 /\ run[r].items = 0
    /\ run[r].pages <= MaxPages /\ run[r].items <= Limit

(* After the page that came late, no other is on its way. *)
LateEnds == \A r \in Run :
    /\ late[r] <= 1
    /\ late[r] = 1 =>
           /\ run[r].status = "CANCELLED"
           /\ \A e \in Executor : exec[e].phase = "storing" => exec[e].run # r

ScanInv ==
    ScanTypes /\ ExecutionHasRun /\ OneScanner /\ CountsAgree /\ RunCounts /\ LateEnds

USE DiscoveryAssumption

(* An executor that has nothing to do is a record like any other. *)
LEMMA NoExecutionType == NoExecution \in Execution /\ NoExecution.phase = "idle"
BY DEF NoExecution, Execution

(* At first no run exists and no executor has one. *)
LEMMA InitScanInv == DiscoveryInit => ScanInv
<1> SUFFICES ASSUME DiscoveryInit PROVE ScanInv
  OBVIOUS
<1>1. ScanTypes
  BY NoExecutionType DEF DiscoveryInit, ScanTypes, DiscoveryTypeOK, RunStatus
<1>2. \A e \in Executor : exec[e].phase = "idle"
  BY NoExecutionType DEF DiscoveryInit
<1> QED
  BY <1>1, <1>2 DEF DiscoveryInit, ScanInv, ExecutionHasRun, OneScanner, CountsAgree, RunCounts,
                    LateEnds, Scans

(* A step that leaves runs and executions alone. *)
LEMMA QuietScan ==
    ASSUME ScanInv, UNCHANGED <<run, exec, late>>, DiscoveryTypeOK'
    PROVE  ScanInv'
BY DEF ScanInv, ScanTypes, ExecutionHasRun, OneScanner, CountsAgree, RunCounts, LateEnds, Scans

(* Credentials, validations and cancels that begin touch no run. *)
LEMMA AccountStep ==
    ASSUME ScanInv, Credentials \/ Validation \/ \E r \in Run : ReadCancel(r)
    PROVE  ScanInv'
<1>1. UNCHANGED <<run, exec, late>>
  BY DEF Credentials, Validation, StoreCredential, RevokeCredential, BeginValidation,
         RecordValidation, ReadCancel
<1>2. account' \in [status : {"ACTIVE", "EXPIRED", "REVOKED"}, credential : BOOLEAN]
  <2> account \in [status : {"ACTIVE", "EXPIRED", "REVOKED"}, credential : BOOLEAN]
    BY DEF ScanInv, ScanTypes, DiscoveryTypeOK
  <2>1. ASSUME NEW s \in {"ACTIVE", "EXPIRED"}, StoreCredential(s)
        PROVE  account' \in [status : {"ACTIVE", "EXPIRED", "REVOKED"}, credential : BOOLEAN]
    BY <2>1 DEF StoreCredential
  <2>4. CASE RevokeCredential
    BY <2>4 DEF RevokeCredential
  <2>2. CASE Validation
    BY <2>2 DEF Validation, BeginValidation, RecordValidation
  <2>3. CASE \E r \in Run : ReadCancel(r)
    BY <2>3 DEF ReadCancel
  <2> QED
    BY <2>1, <2>2, <2>3, <2>4 DEF Credentials
<1>3. validator' \in BOOLEAN /\ cancels' \subseteq Run /\ crashed' = crashed
  BY DEF ScanInv, ScanTypes, DiscoveryTypeOK, Credentials, Validation, StoreCredential,
         RevokeCredential, BeginValidation, RecordValidation, ReadCancel
<1>4. DiscoveryTypeOK'
  BY <1>1, <1>2, <1>3 DEF ScanInv, ScanTypes, DiscoveryTypeOK
<1> QED
  BY <1>1, <1>4, QuietScan

(* Statuses move on from QUEUED, and no longer once a page came late. *)
StatusesMove ==
    /\ run' \in [Run -> [status : RunStatus, pages : Nat, items : Nat]]
    /\ \A q \in Run :
          /\ run'[q].pages = run[q].pages /\ run'[q].items = run[q].items
          /\ \/ run'[q].status = run[q].status
             \/ run[q].status = "none" /\ run'[q].status = "QUEUED"
             \/ /\ run'[q].status \notin {"none", "QUEUED"}
                /\ late[q] = 1 => run'[q].status = "CANCELLED"

(* One status write moves only the run it is for. *)
LEMMA SetStatusMoves ==
    ASSUME ScanInv, NEW r \in Run, NEW st \in RunStatus, SetStatus(r, st),
           \/ run[r].status = "none" /\ st = "QUEUED"
           \/ st \notin {"none", "QUEUED"} /\ (late[r] = 1 => st = "CANCELLED")
    PROVE  StatusesMove /\ run'[r].status = st
BY DEF ScanInv, ScanTypes, SetStatus, StatusesMove

(* A cancel moves a run without its execution. *)
LEMMA StatusStep ==
    ASSUME ScanInv, StatusesMove, cancels' \subseteq Run,
           UNCHANGED <<account, validator, exec, late, crashed>>
    PROVE  ScanInv'
<1> USE DEF ScanInv, ScanTypes, StatusesMove
<1>1. ScanTypes'
  BY DEF DiscoveryTypeOK
<1>2. ExecutionHasRun' /\ OneScanner'
  BY DEF ExecutionHasRun, OneScanner, Scans
<1>3. CountsAgree'
  BY DEF CountsAgree, ExecutionHasRun, Scans
<1>4. RunCounts'
  BY DEF RunCounts
<1>5. LateEnds'
  BY DEF LateEnds
<1> QED
  BY <1>1, <1>2, <1>3, <1>4, <1>5

(* What an execution becomes in a step: it scans the run it has claimed now, *)
(* or the one it has been scanning, by the same counts.                      *)
GoesOn(e, x) ==
    /\ x.phase # "idle" => x.run \in Run /\ run'[x.run].status # "none"
    /\ x.phase = "dispatched" => x.page = 0 /\ x.total = 0
    /\ x.phase = "claimed" =>
           /\ run[x.run].status = "QUEUED" /\ run'[x.run].status # "QUEUED"
           /\ x.page = 0 /\ x.total = 0
    /\ x.phase \in {"scanning", "fetched", "storing"} =>
           /\ Scans(e)
           /\ x.run = exec[e].run /\ x.page = exec[e].page /\ x.total = exec[e].total
    /\ x.phase \in {"fetched", "storing"} => x.total + x.size <= Limit
    /\ x.phase = "storing" => run[x.run].status # "CANCELLED"

(* An executor that goes on with its run while only statuses move keeps the scans bounded. *)
LEMMA ExecutionStep ==
    ASSUME ScanInv, StatusesMove, NEW e \in Executor, NEW x \in Execution,
           exec' = [exec EXCEPT ![e] = x], GoesOn(e, x),
           account' = account, validator' = validator, cancels' \subseteq Run,
           late' = late, crashed' = crashed
    PROVE  ScanInv'
<1> USE DEF ScanInv, ScanTypes, StatusesMove, GoesOn
<1>1. exec \in [Executor -> Execution] /\ exec' \in [Executor -> Execution] /\ exec'[e] = x
      /\ \A f \in Executor \ {e} : exec'[f] = exec[f]
  BY DEF DiscoveryTypeOK
<1>2. ScanTypes'
  BY <1>1 DEF DiscoveryTypeOK
<1>3. ExecutionHasRun'
  BY <1>1 DEF ExecutionHasRun, Scans
<1>4. OneScanner'
  BY <1>1 DEF OneScanner, ExecutionHasRun, Scans
<1>5. CountsAgree'
  <2>1. ASSUME NEW f \in Executor, f # e, Scans(f)'
        PROVE  /\ run'[exec'[f].run].pages = exec'[f].page
               /\ run'[exec'[f].run].items <= exec'[f].total
               /\ exec'[f].page < MaxPages
               /\ exec'[f].phase \in {"fetched", "storing"} =>
                      exec'[f].total + exec'[f].size <= Limit
    BY <1>1, <2>1 DEF CountsAgree, ExecutionHasRun, Scans
  <2>2. ASSUME Scans(e)'
        PROVE  /\ run'[exec'[e].run].pages = exec'[e].page
               /\ run'[exec'[e].run].items <= exec'[e].total
               /\ exec'[e].page < MaxPages
               /\ exec'[e].phase \in {"fetched", "storing"} =>
                      exec'[e].total + exec'[e].size <= Limit
    BY <1>1, <2>2 DEF CountsAgree, ExecutionHasRun, RunCounts, Scans
  <2> QED
    BY <2>1, <2>2 DEF CountsAgree
<1>6. RunCounts'
  BY DEF RunCounts
<1>7. LateEnds'
  BY <1>1 DEF LateEnds
<1> QED
  BY <1>2, <1>3, <1>4, <1>5, <1>6, <1>7

(* An execution goes to another phase, and nothing else of it changes. *)
LEMMA PhaseMoves ==
    ASSUME ScanInv, NEW e \in Executor, NEW p, Phase(e, p),
           p \in {"idle", "claimed", "scanning", "storing", "failing"}
    PROVE  \E x \in Execution :
              /\ exec' = [exec EXCEPT ![e] = x]
              /\ x.phase = p
              /\ p # "idle" => /\ x.run = exec[e].run /\ x.page = exec[e].page
                             /\ x.total = exec[e].total /\ x.size = exec[e].size
<1>1. exec[e] \in Execution
  BY DEF ScanInv, ScanTypes, DiscoveryTypeOK
<1>2. CASE p = "idle"
  BY <1>2, NoExecutionType DEF Phase
<1>3. CASE p # "idle"
  <2> DEFINE x == [exec[e] EXCEPT !.phase = p]
  <2>1. x \in Execution /\ x.phase = p /\ x.run = exec[e].run /\ x.page = exec[e].page
        /\ x.total = exec[e].total /\ x.size = exec[e].size
    BY <1>1, <1>3 DEF Execution
  <2>2. exec' = [exec EXCEPT ![e] = x]
    BY <1>3 DEF Phase
  <2> QED
    BY <2>1, <2>2
<1> QED
  BY <1>2, <1>3

(* A run is handed to an executor that was idle, with nothing scanned. *)
LEMMA DispatchStep ==
    ASSUME ScanInv, NEW r \in Run, NEW e \in Executor, CreateRun(r, e) \/ ReplayCreate(r, e)
    PROVE  ScanInv'
<1> DEFINE x == [NoExecution EXCEPT !.phase = "dispatched", !.run = r]
<1>1. x \in Execution /\ x.phase = "dispatched" /\ x.run = r /\ x.page = 0 /\ x.total = 0
  <2>1. NoExecution.page = 0 /\ NoExecution.total = 0
    BY DEF NoExecution
  <2>2. x \in Execution /\ x.phase = "dispatched" /\ x.run = r /\ x.page = NoExecution.page
        /\ x.total = NoExecution.total
    BY NoExecutionType DEF Execution
  <2> QED
    BY <2>1, <2>2
<1>2. exec' = [exec EXCEPT ![e] = x]
  BY DEF CreateRun, ReplayCreate, Dispatched
<1>3. UNCHANGED <<account, validator, cancels, late, crashed>>
  BY DEF CreateRun, ReplayCreate
<1> HIDE DEF x
<1>4. StatusesMove /\ run'[r].status # "none"
  <2>1. CASE CreateRun(r, e)
    BY <2>1, SetStatusMoves DEF CreateRun, RunStatus
  <2>2. CASE ReplayCreate(r, e)
    BY <2>2 DEF ReplayCreate, StatusesMove, ScanInv, ScanTypes
  <2> QED
    BY <2>1, <2>2
<1>5. GoesOn(e, x)
  BY <1>1, <1>4 DEF GoesOn
<1> QED
  BY <1>1, <1>2, <1>3, <1>4, <1>5, ExecutionStep DEF ScanInv, ScanTypes, DiscoveryTypeOK

(* persistPage: the counts of the row follow those of its one execution. *)
LEMMA StoreStep ==
    ASSUME ScanInv, NEW e \in Executor, NEW inserted \in 0..Limit, StorePage(e, inserted)
    PROVE  ScanInv'
<1> DEFINE r == exec[e].run
           total == exec[e].total + exec[e].size
           page == exec[e].page + 1
           last == ~exec[e].more \/ total >= Limit \/ exec[e].size = 0 \/ page >= MaxPages
           x == [exec[e] EXCEPT !.phase = IF last THEN "finishing" ELSE "scanning",
                                !.total = total, !.page = page]
<1>1. exec \in [Executor -> Execution] /\ exec[e] \in Execution /\ exec[e].phase = "storing"
  BY DEF StorePage, At, ScanInv, ScanTypes, DiscoveryTypeOK
<1>2. r \in Run /\ run[r].status \notin {"none", "QUEUED"} /\ late[r] \in Nat /\ late[r] # 1
      /\ late[r] <= 1
  BY <1>1 DEF ScanInv, ScanTypes, DiscoveryTypeOK, ExecutionHasRun, Scans, LateEnds
<1>3. /\ run[r].pages = exec[e].page /\ run[r].items <= exec[e].total /\ exec[e].page < MaxPages
      /\ total <= Limit /\ run[r].items \in Nat
  BY <1>1, <1>2 DEF ScanInv, ScanTypes, CountsAgree, Scans
<1>4. /\ page \in 0..MaxPages /\ total \in 0..Limit
      /\ run[r].items + inserted <= total
  BY <1>1, <1>3 DEF Execution, StorePage
<1>5. /\ x \in Execution /\ x.run = r /\ x.page = page /\ x.total = total
      /\ x.phase = IF last THEN "finishing" ELSE "scanning"
  BY <1>1, <1>4 DEF Execution
<1>6. ~last => page < MaxPages
  BY <1>4
<1>7. /\ run' = [run EXCEPT ![r].pages = @ + 1, ![r].items = @ + inserted]
      /\ late' = [late EXCEPT ![r] = IF run[r].status = "CANCELLED" THEN @ + 1 ELSE @]
      /\ UNCHANGED <<account, validator, cancels, crashed>>
  BY DEF StorePage
<1>8. exec' = [exec EXCEPT ![e] = x]
  BY DEF StorePage
<1> HIDE DEF x, last
<1>9. /\ run' \in [Run -> [status : RunStatus, pages : Nat, items : Nat]]
      /\ \A q \in Run : run'[q].status = run[q].status
      /\ \A q \in Run \ {r} : run'[q] = run[q] /\ late'[q] = late[q]
      /\ run'[r].pages = page /\ run'[r].items = run[r].items + inserted
      /\ late' \in [Run -> Nat]
      /\ late'[r] <= 1 /\ (late'[r] = 1 => run[r].status = "CANCELLED")
  <2>1. /\ run \in [Run -> [status : RunStatus, pages : Nat, items : Nat]]
        /\ late \in [Run -> Nat]
    BY DEF ScanInv, ScanTypes, DiscoveryTypeOK
  <2>2. /\ page \in Nat /\ run[r].items + inserted \in Nat /\ run[r].pages + 1 = page
    BY <1>3, <1>4
  <2>3. run' = [run EXCEPT ![r] = [run[r] EXCEPT !.pages = page,
                                                !.items = run[r].items + inserted]]
    BY <1>2, <1>7, <2>1, <2>2
  <2>4. late[r] = 0
    BY <1>2
  <2>5. late' = [late EXCEPT ![r] = IF run[r].status = "CANCELLED" THEN 1 ELSE 0]
    BY <1>7, <2>4
  <2>6. /\ run' \in [Run -> [status : RunStatus, pages : Nat, items : Nat]]
        /\ run'[r].status = run[r].status /\ run'[r].pages = page
        /\ run'[r].items = run[r].items + inserted
        /\ \A q \in Run \ {r} : run'[q] = run[q]
    BY <1>2, <2>1, <2>2, <2>3
  <2>7. /\ late' \in [Run -> Nat] /\ \A q \in Run \ {r} : late'[q] = late[q]
        /\ late'[r] <= 1 /\ (late'[r] = 1 => run[r].status = "CANCELLED")
    BY <1>2, <2>1, <2>5
  <2> QED
    BY <2>6, <2>7
<1>10. /\ exec' \in [Executor -> Execution] /\ exec'[e] = x
       /\ \A f \in Executor \ {e} : exec'[f] = exec[f]
  BY <1>1, <1>5, <1>8
<1>11. \A f \in Executor \ {e} : Scans(f) => exec[f].run # r
  BY <1>1 DEF ScanInv, OneScanner, Scans
<1> HIDE DEF r, total, page
<1>12. ScanTypes'
  BY <1>7, <1>9, <1>10 DEF ScanInv, ScanTypes, DiscoveryTypeOK
<1>13. ExecutionHasRun'
  BY <1>2, <1>5, <1>9, <1>10 DEF ScanInv, ExecutionHasRun, Scans
<1>14. OneScanner'
  BY <1>1, <1>5, <1>10 DEF ScanInv, OneScanner, Scans, r
<1>15. CountsAgree'
  BY <1>2, <1>4, <1>5, <1>6, <1>9, <1>10, <1>11 DEF ScanInv, CountsAgree, Scans, ExecutionHasRun
<1>16. RunCounts'
  BY <1>2, <1>4, <1>9 DEF ScanInv, RunCounts
<1>17. LateEnds'
  BY <1>5, <1>9, <1>10, <1>11 DEF ScanInv, LateEnds, Scans
<1> QED
  BY <1>12, <1>13, <1>14, <1>15, <1>16, <1>17 DEF ScanInv

(* What a promise that is dispatched does on its way. *)
LEMMA ExecuteStep ==
    ASSUME ScanInv, NEW e \in Executor, Execute(e) \/ StepFails(e)
    PROVE  ScanInv'
<1> DEFINE r == exec[e].run
<1>1. exec[e] \in Execution /\ cancels \subseteq Run
  BY DEF ScanInv, ScanTypes, DiscoveryTypeOK
<1>2. /\ exec[e].phase # "idle" => r \in Run /\ run[r].status \in RunStatus \ {"none"}
      /\ exec[e].phase = "dispatched" => exec[e].page = 0 /\ exec[e].total = 0
      /\ exec[e].phase \in {"fetched", "storing"} => exec[e].total + exec[e].size <= Limit
  BY DEF ScanInv, ScanTypes, ExecutionHasRun, CountsAgree, Scans
<1>3. r \in Run /\ run[r].status # "CANCELLED" => late[r] # 1
  BY DEF ScanInv, LateEnds
<1>4. UNCHANGED run => StatusesMove
  BY DEF ScanInv, ScanTypes, StatusesMove
<1>5. ASSUME NEW p \in {"idle", "claimed", "scanning", "storing", "failing"}, Phase(e, p),
             StatusesMove, exec[e].phase # "idle",
             p = "claimed" => /\ exec[e].phase = "dispatched"
                              /\ run[r].status = "QUEUED" /\ run'[r].status = "RUNNING",
             p = "scanning" => exec[e].phase = "claimed",
             p = "storing" => exec[e].phase = "fetched" /\ run[r].status # "CANCELLED",
             UNCHANGED <<account, validator, cancels, late, crashed>>
      PROVE  ScanInv'
  <2>1. PICK x \in Execution :
            /\ exec' = [exec EXCEPT ![e] = x]
            /\ x.phase = p
            /\ p # "idle" => /\ x.run = r /\ x.page = exec[e].page
                           /\ x.total = exec[e].total /\ x.size = exec[e].size
    BY <1>5, PhaseMoves
  <2>2. run'[r].status # "none"
    BY <1>2, <1>5 DEF StatusesMove
  <2> HIDE DEF r
  <2>3. GoesOn(e, x)
    BY <1>2, <1>5, <2>1, <2>2 DEF GoesOn, Scans, r
  <2> QED
    BY <1>1, <1>5, <2>1, <2>3, ExecutionStep
<1>6. CASE ClaimRun(e)
  <2>1. exec[e].phase = "dispatched"
    BY <1>6 DEF ClaimRun, At
  <2>2. CASE run[r].status = "QUEUED"
    <3>1. SetStatus(r, "RUNNING") /\ Phase(e, "claimed")
      BY <1>6, <2>2 DEF ClaimRun, Claimable
    <3>2. StatusesMove /\ run'[r].status = "RUNNING"
      BY <1>2, <1>3, <2>1, <2>2, <3>1, SetStatusMoves DEF RunStatus
    <3> QED
      BY <1>5, <1>6, <2>1, <2>2, <3>1, <3>2 DEF ClaimRun
  <2>3. CASE run[r].status # "QUEUED"
    BY <1>4, <1>5, <1>6, <2>1, <2>3 DEF ClaimRun, Claimable
  <2> QED
    BY <2>2, <2>3
<1>7. CASE ReadCredential(e) \/ CheckPage(e) \/ StepFails(e)
  BY <1>4, <1>5, <1>7 DEF ReadCredential, CheckPage, StepFails, Stopped, At
<1>8. ASSUME NEW size \in 0..Limit, NEW more \in BOOLEAN, Scan(e, size, more)
      PROVE  ScanInv'
  <2> DEFINE x == [exec[e] EXCEPT !.phase = "fetched", !.size = size, !.more = more]
  <2>1. exec' = [exec EXCEPT ![e] = x] /\ exec[e].phase = "scanning"
        /\ UNCHANGED <<account, validator, run, cancels, late, crashed>>
    BY <1>8 DEF Scan, At
  <2>2. x \in Execution /\ x.phase = "fetched" /\ x.run = r /\ x.page = exec[e].page
        /\ x.total = exec[e].total /\ x.size = size
    BY <1>1 DEF Execution
  <2>3. x.total + x.size <= Limit
    BY <1>1, <1>8, <2>2 DEF Scan, Execution
  <2> HIDE DEF x, r
  <2>4. GoesOn(e, x)
    BY <1>2, <2>1, <2>2, <2>3 DEF GoesOn, Scans, r
  <2> QED
    BY <1>1, <1>4, <2>1, <2>2, <2>4, ExecutionStep
<1>9. CASE Finish(e) \/ Fail(e)
  <2>1. Phase(e, "idle") /\ exec[e].phase # "idle"
        /\ UNCHANGED <<account, validator, cancels, late, crashed>>
    BY <1>9 DEF Finish, Fail, At
  <2>2. \/ UNCHANGED run
        \/ /\ run[r].status # "CANCELLED"
           /\ \E st \in {"SUCCEEDED", "PARTIAL", "FAILED"} : SetStatus(r, st)
    BY <1>9 DEF Finish, Fail, Outcome, MayFail, Underway
  <2>3. StatusesMove
    BY <1>2, <1>3, <1>4, <2>1, <2>2, SetStatusMoves DEF RunStatus
  <2> QED
    BY <1>5, <2>1, <2>3
<1> QED
  BY <1>6, <1>7, <1>8, <1>9, StoreStep DEF Execute

(* Every step of the discovery keeps its scans bounded. *)
LEMMA ScanStep ==
    ASSUME ScanInv,
           \/ Requests \/ Validation \/ Credentials \/ CrashApi
           \/ \E e \in Executor : Execute(e) \/ StepFails(e)
           \/ UNCHANGED discoveryVars
    PROVE  ScanInv'
<1>1. ASSUME NEW r \in Run, WriteCancel(r)
      PROVE  ScanInv'
  <2>1. StatusesMove
    BY <1>1, SetStatusMoves DEF WriteCancel, RunStatus
  <2> QED
    BY <1>1, <2>1, StatusStep DEF WriteCancel, ScanInv, ScanTypes, DiscoveryTypeOK
<1>2. CASE CrashApi
  <2>1. /\ UNCHANGED <<account, run, late>>
        /\ cancels' = {} /\ validator' = FALSE /\ crashed' = TRUE
        /\ exec' \in [Executor -> Execution] /\ \A e \in Executor : exec'[e].phase = "idle"
    BY <1>2, NoExecutionType DEF CrashApi
  <2> QED
    BY <2>1 DEF ScanInv, ScanTypes, DiscoveryTypeOK, ExecutionHasRun, OneScanner, CountsAgree,
                RunCounts, LateEnds, Scans
<1>3. CASE UNCHANGED discoveryVars
  BY <1>3, QuietScan DEF discoveryVars, ScanInv, ScanTypes, DiscoveryTypeOK
<1> QED
  BY <1>1, <1>2, <1>3, AccountStep, DispatchStep, ExecuteStep DEF Requests

-----------------------------------------------------------------------------
(* Runs in the hands of an execution. *)

(* What an executor becomes that does not leave its run behind: the runs that *)
(* go on are those of others, or its own.                                     *)
TakesAlong(e, x) == \A r \in Run : run'[r].status \in Underway =>
    \/ run'[r].status = run[r].status /\ ~Holds(e, r)
    \/ /\ x.run = r
       /\ IF run'[r].status = "QUEUED" THEN x.phase = "dispatched"
          ELSE x.phase \notin {"idle", "dispatched"}

(* One executor moves, and what the others hold they hold on to. *)
LEMMA HeldMoves ==
    ASSUME ScanInv, RunsAreHeld, NEW e \in Executor, NEW x \in Execution,
           exec' = [exec EXCEPT ![e] = x], crashed' = crashed, TakesAlong(e, x)
    PROVE  RunsAreHeld'
<1>1. /\ exec'[e] = x
      /\ \A f \in Executor \ {e} : exec'[f] = exec[f]
  BY DEF ScanInv, ScanTypes, DiscoveryTypeOK
<1>2. ASSUME NEW r \in Run, run'[r].status \in Underway, ~crashed
      PROVE  \E f \in Executor : Holds(f, r)'
  <2>1. CASE run'[r].status = run[r].status /\ ~Holds(e, r)
    <3>1. PICK f \in Executor : Holds(f, r)
      BY <1>2, <2>1 DEF RunsAreHeld
    <3>2. f # e
      BY <2>1, <3>1
    <3>3. Holds(f, r)'
      BY <1>1, <2>1, <3>1, <3>2 DEF Holds, At
    <3> QED
      BY <3>3
  <2>2. CASE /\ x.run = r
             /\ IF run'[r].status = "QUEUED" THEN x.phase = "dispatched"
                ELSE x.phase \notin {"idle", "dispatched"}
    BY <1>1, <2>2 DEF Holds, At
  <2> QED
    BY <1>2, <2>1, <2>2 DEF TakesAlong
<1> QED
  BY <1>2 DEF RunsAreHeld

(* Nobody's executor moves, and runs at most end. *)
LEMMA HeldRests ==
    ASSUME RunsAreHeld, exec' = exec, crashed' = crashed,
           \A r \in Run : run'[r].status \in Underway => run'[r].status = run[r].status
    PROVE  RunsAreHeld'
<1>1. ASSUME NEW e \in Executor, NEW r \in Run, run'[r].status = run[r].status, Holds(e, r)
      PROVE  Holds(e, r)'
  BY <1>1 DEF Holds, At
<1> QED
  BY <1>1 DEF RunsAreHeld

(* A run that is created or asked for again is handed to an idle executor. *)
LEMMA HeldDispatched ==
    ASSUME ScanInv, RunsAreHeld, NEW r \in Run, NEW e \in Executor,
           CreateRun(r, e) \/ ReplayCreate(r, e)
    PROVE  RunsAreHeld'
<1> DEFINE x == [NoExecution EXCEPT !.phase = "dispatched", !.run = r]
<1>1. x \in Execution /\ x.phase = "dispatched" /\ x.run = r
  BY NoExecutionType DEF Execution
<1>2. exec' = [exec EXCEPT ![e] = x] /\ exec[e].phase = "idle" /\ crashed' = crashed
  BY DEF CreateRun, ReplayCreate, Dispatched, At
<1> HIDE DEF x
<1>3. \A q \in Run : ~Holds(e, q)
  BY <1>2 DEF Holds, At
<1>4. \A q \in Run : run'[q].status = run[q].status \/ (q = r /\ run'[q].status = "QUEUED")
  BY DEF CreateRun, ReplayCreate, SetStatus, ScanInv, ScanTypes
<1> QED
  BY <1>1, <1>2, <1>3, <1>4, HeldMoves DEF TakesAlong

(* An execution gives its run up only when that is over, or is another's. *)
LEMMA HeldExecuted ==
    ASSUME ScanInv, RunsAreHeld, NEW e \in Executor, Execute(e) \/ StepFails(e)
    PROVE  RunsAreHeld'
<1> DEFINE r == exec[e].run
<1>1. exec[e] \in Execution /\ exec \in [Executor -> Execution]
      /\ run \in [Run -> [status : RunStatus, pages : Nat, items : Nat]]
  BY DEF ScanInv, ScanTypes, DiscoveryTypeOK
<1>2. crashed' = crashed
  BY DEF Execute, StepFails, ClaimRun, ReadCredential, CheckPage, Finish, Fail, Scan, StorePage
<1>3. exec[e].phase # "idle" => r \in Run
  BY DEF ScanInv, ExecutionHasRun
<1>4. ASSUME NEW x \in Execution, exec' = [exec EXCEPT ![e] = x], x.run = r,
             x.phase \notin {"idle", "dispatched"}, exec[e].phase # "dispatched",
             \A q \in Run : run'[q].status = run[q].status
      PROVE  RunsAreHeld'
  <2>1. TakesAlong(e, x)
    BY <1>4 DEF TakesAlong, Holds, At
  <2> QED
    BY <1>2, <1>4, <2>1, HeldMoves
<1>5. ASSUME NEW p \in {"scanning", "storing", "failing"}, Phase(e, p), run' = run,
             exec[e].phase # "dispatched"
      PROVE  RunsAreHeld'
  <2>1. PICK x \in Execution : exec' = [exec EXCEPT ![e] = x] /\ x.phase = p /\ x.run = r
    BY <1>5, PhaseMoves
  <2> QED
    BY <1>4, <1>5, <2>1
<1>6. ASSUME Phase(e, "idle"),
             \A q \in Run : run'[q].status \in Underway =>
                 run'[q].status = run[q].status /\ ~Holds(e, q)
      PROVE  RunsAreHeld'
  <2>1. PICK x \in Execution : exec' = [exec EXCEPT ![e] = x]
    BY <1>6, PhaseMoves
  <2>2. TakesAlong(e, x)
    BY <1>6 DEF TakesAlong
  <2> QED
    BY <1>2, <2>1, <2>2, HeldMoves
<1>7. CASE ClaimRun(e)
  <2>1. exec[e].phase = "dispatched" /\ r \in Run
    BY <1>3, <1>7 DEF ClaimRun, At
  <2>2. CASE run[r].status = "QUEUED"
    <3>1. SetStatus(r, "RUNNING") /\ Phase(e, "claimed")
      BY <1>7, <2>2 DEF ClaimRun, Claimable
    <3>2. PICK x \in Execution :
              exec' = [exec EXCEPT ![e] = x] /\ x.phase = "claimed" /\ x.run = r
      BY <3>1, PhaseMoves
    <3>3. \A q \in Run : run'[q].status = IF q = r THEN "RUNNING" ELSE run[q].status
      BY <1>1, <2>1, <3>1 DEF SetStatus
    <3>4. \A q \in Run : q # r => ~Holds(e, q)
      BY DEF Holds
    <3>5. TakesAlong(e, x)
      BY <3>2, <3>3, <3>4 DEF TakesAlong
    <3> QED
      BY <1>2, <3>2, <3>5, HeldMoves
  <2>3. CASE run[r].status # "QUEUED"
    <3>1. Phase(e, "idle") /\ run' = run
      BY <1>7, <2>3 DEF ClaimRun, Claimable
    <3>2. \A q \in Run : ~Holds(e, q)
      BY <2>1, <2>3 DEF Holds, At
    <3> QED
      BY <1>6, <3>1, <3>2
  <2> QED
    BY <2>2, <2>3
<1>8. CASE ReadCredential(e) \/ StepFails(e)
  BY <1>5, <1>8 DEF ReadCredential, StepFails, At
<1>9. CASE CheckPage(e)
  <2>1. CASE Stopped(r)
    <3>1. Phase(e, "idle") /\ run' = run /\ run[r].status = "CANCELLED"
      BY <1>9, <2>1 DEF CheckPage, Stopped
    <3>2. \A q \in Run : run[q].status \in Underway => ~Holds(e, q)
      BY <3>1 DEF Holds, Underway
    <3> QED
      BY <1>6, <3>1, <3>2
  <2>2. CASE ~Stopped(r)
    BY <1>5, <1>9, <2>2 DEF CheckPage, At
  <2> QED
    BY <2>1, <2>2
<1>10. ASSUME NEW size \in 0..Limit, NEW more \in BOOLEAN, Scan(e, size, more)
       PROVE  RunsAreHeld'
  <2> DEFINE x == [exec[e] EXCEPT !.phase = "fetched", !.size = size, !.more = more]
  <2>1. exec' = [exec EXCEPT ![e] = x] /\ exec[e].phase = "scanning" /\ run' = run
    BY <1>10 DEF Scan, At
  <2>2. x \in Execution /\ x.phase = "fetched" /\ x.run = r
    BY <1>1 DEF Execution
  <2> HIDE DEF x
  <2> QED
    BY <1>4, <2>1, <2>2
<1>11. ASSUME NEW inserted \in 0..Limit, StorePage(e, inserted)
       PROVE  RunsAreHeld'
  <2>1. exec[e].phase = "storing" /\ r \in Run
    BY <1>3, <1>11 DEF StorePage, At
  <2>2. run' = [run EXCEPT ![r].pages = @ + 1, ![r].items = @ + inserted]
    BY <1>11 DEF StorePage
  <2>3. \A q \in Run : run'[q].status = run[q].status
    BY <1>1, <2>1, <2>2
  <2> DEFINE t == exec[e].total + exec[e].size
             g == exec[e].page + 1
             last == ~exec[e].more \/ t >= Limit \/ exec[e].size = 0 \/ g >= MaxPages
             p == IF last THEN "finishing" ELSE "scanning"
  <2>4. exec' = [exec EXCEPT ![e].phase = p, ![e].total = t, ![e].page = g]
    BY <1>11 DEF StorePage
  <2>5. p \in {"finishing", "scanning"}
    OBVIOUS
  <2> HIDE DEF t, g, p
  <2>6. /\ exec'[e].run = r /\ exec'[e].phase = p
        /\ \A f \in Executor \ {e} : exec'[f] = exec[f]
    BY <1>1, <2>4 DEF Execution
  <2>7. exec'[e] \in Execution /\ exec' \in [Executor -> Execution]
    BY <1>11, StoreStep DEF ScanInv, ScanTypes, DiscoveryTypeOK
  <2>8. exec' = [exec EXCEPT ![e] = exec'[e]]
    BY <1>1, <2>6, <2>7
  <2>9. exec'[e].phase \notin {"idle", "dispatched"} /\ exec[e].phase # "dispatched"
    BY <2>1, <2>5, <2>6
  <2> QED
    BY <1>4, <2>3, <2>6, <2>7, <2>8, <2>9
<1>12. CASE Finish(e) \/ Fail(e)
  <2>1. Phase(e, "idle") /\ exec[e].phase \in {"finishing", "failing"} /\ r \in Run
    BY <1>3, <1>12 DEF Finish, Fail, At
  <2>2. /\ run[r].status = "RUNNING" => run'[r].status \notin Underway
        /\ \A q \in Run : run'[q].status \in Underway => run'[q].status = run[q].status
    BY <1>1, <1>12, <2>1 DEF Finish, Fail, SetStatus, Outcome, MayFail, Underway
  <2>3. \A q \in Run : Holds(e, q) => q = r /\ run[q].status # "QUEUED"
    BY <2>1 DEF Holds, At
  <2>4. \A q \in Run : run'[q].status \in Underway => ~Holds(e, q)
    BY <2>2, <2>3 DEF Underway
  <2> QED
    BY <1>6, <2>1, <2>2, <2>4
<1> QED
  BY <1>7, <1>8, <1>9, <1>10, <1>11, <1>12 DEF Execute

(* Every step of the discovery leaves its runs in hand. *)
LEMMA HeldStep ==
    ASSUME ScanInv, RunsAreHeld,
           \/ Requests \/ Validation \/ Credentials \/ CrashApi
           \/ \E e \in Executor : Execute(e) \/ StepFails(e)
           \/ UNCHANGED discoveryVars
    PROVE  RunsAreHeld'
<1>1. ASSUME NEW r \in Run, WriteCancel(r)
      PROVE  RunsAreHeld'
  <2>1. exec' = exec /\ crashed' = crashed
        /\ \A q \in Run : run'[q].status = IF q = r THEN "CANCELLED" ELSE run[q].status
    BY <1>1 DEF WriteCancel, SetStatus, ScanInv, ScanTypes
  <2> QED
    BY <2>1, HeldRests DEF Underway
<1>2. CASE Validation \/ Credentials \/ (\E r \in Run : ReadCancel(r)) \/ UNCHANGED discoveryVars
  <2>1. exec' = exec /\ run' = run /\ crashed' = crashed
    BY <1>2 DEF Validation, Credentials, StoreCredential, RevokeCredential, BeginValidation,
                RecordValidation, ReadCancel, discoveryVars
  <2> QED
    BY <2>1, HeldRests
<1>3. CASE CrashApi
  BY <1>3 DEF CrashApi, RunsAreHeld
<1> QED
  BY <1>1, <1>2, <1>3, HeldDispatched, HeldExecuted DEF Requests

-----------------------------------------------------------------------------
(* Ingest requests. *)

RequestRow == [phase : {"new", "open", "lost", "refused", "answered", "failed"}, tries : 0..2,
               seen : Answer \cup {NoAnswer}, based : SUBSET Source, stale : SUBSET Source,
               reply : Answer \cup {NoAnswer}]

IngestTypes ==
    /\ videoOf \in [Source -> VideoState]
    /\ jobs \in [Source -> [active : Nat, failed : 0..1]]
    /\ ready \in BOOLEAN
    /\ request \in [Request -> RequestRow]
    /\ answers \in [Key -> Answer \cup {NoAnswer}]
    /\ \A r \in Request : request[r].phase = "new" => request[r].tries = 0

(* An open transaction has judged the items of its request, *)
OpenHasSeen == \A r \in Request :
    request[r].phase = "open" => request[r].seen \in [Selected[r] -> Result]

(* and unless the video has changed since, its verdict still holds. *)
VerdictHolds == \A r \in Request :
    request[r].phase = "open" =>
        \A s \in Creates(r) \cap request[r].based :
            s \notin request[r].stale => videoOf[s] \notin {"later", "deleting"}

(* A request is answered with what is stored for its key. *)
AnswerIsStored == \A r \in Request :
    request[r].phase = "answered" =>
        request[r].reply = answers[KeyOf[r]] /\ answers[KeyOf[r]] # NoAnswer

IngestInv == IngestTypes /\ OpenHasSeen /\ VerdictHolds /\ AnswerIsStored /\ OneActiveIngest

USE IngestAssumption

(* A request that has not been sent is a row of its type. *)
LEMMA NewRequestType ==
    /\ NewRequest \in RequestRow
    /\ NewRequest.phase = "new" /\ NewRequest.tries = 0
BY DEF NewRequest, RequestRow

(* At first no request has been sent and no key has an answer. *)
LEMMA InitIngestInv == IngestInit => IngestInv
<1> SUFFICES ASSUME IngestInit PROVE IngestInv
  OBVIOUS
<1>1. IngestTypes
  BY NewRequestType DEF IngestInit, IngestTypes, VideoState
<1>2. \A r \in Request : request[r].phase = "new"
  BY NewRequestType DEF IngestInit
<1> QED
  BY <1>1, <1>2 DEF IngestInit, IngestInv, OpenHasSeen, VerdictHolds, AnswerIsStored,
                    OneActiveIngest

(* A verdict on the items of a request is an answer, and not the empty one. *)
LEMMA VerdictIsAnswer ==
    ASSUME NEW r \in Request, NEW v \in [Selected[r] -> Result]
    PROVE  v \in Answer /\ v # NoAnswer
<1>1. v \in Answer
  BY DEF Answer
<1>2. Selected[r] # {}
  OBVIOUS
<1>3. DOMAIN v = Selected[r] /\ DOMAIN NoAnswer = {}
  BY DEF NoAnswer
<1> QED
  BY <1>1, <1>2, <1>3

(* What is left of a transaction that is over. *)
LEMMA EndedType ==
    ASSUME IngestTypes, NEW r \in Request, NEW reply \in Answer \cup {NoAnswer},
           NEW p \in {"lost", "refused", "answered", "failed"}
    PROVE  RequestEnded(r, p, reply) \in RequestRow /\ RequestEnded(r, p, reply).phase = p
           /\ RequestEnded(r, p, reply).reply = reply
<1> DEFINE tries == IF p = "answered" THEN 0 ELSE request[r].tries
<1>1. tries \in 0..2
  BY DEF IngestTypes, RequestRow
<1> HIDE DEF tries
<1>2. /\ [NewRequest EXCEPT !.phase = p, !.tries = tries, !.reply = reply] \in RequestRow
      /\ [NewRequest EXCEPT !.phase = p, !.tries = tries, !.reply = reply].phase = p
      /\ [NewRequest EXCEPT !.phase = p, !.tries = tries, !.reply = reply].reply = reply
  BY <1>1, NewRequestType DEF RequestRow
<1> QED
  BY <1>2 DEF RequestEnded, tries

(* A change of videos makes snapshots stale and changes no request otherwise. *)
LEMMA OutdatedType ==
    ASSUME IngestTypes, NEW ss \in SUBSET Source
    PROVE  /\ Outdated(ss) \in [Request -> RequestRow]
           /\ \A r \in Request :
                 /\ Outdated(ss)[r].phase = request[r].phase
                 /\ Outdated(ss)[r].tries = request[r].tries
                 /\ Outdated(ss)[r].seen = request[r].seen
                 /\ Outdated(ss)[r].based = request[r].based
                 /\ Outdated(ss)[r].reply = request[r].reply
                 /\ request[r].phase = "open" =>
                        Outdated(ss)[r].stale = request[r].stale \cup (ss \cap request[r].based)
<1> DEFINE Stale(r) == IF request[r].phase = "open"
                       THEN request[r].stale \cup (ss \cap request[r].based) ELSE request[r].stale
<1>1. Outdated(ss) = [r \in Request |-> [request[r] EXCEPT !.stale = Stale(r)]]
  BY DEF Outdated
<1>2. ASSUME NEW r \in Request
      PROVE  request[r] \in RequestRow /\ Stale(r) \in SUBSET Source
  BY DEF IngestTypes, RequestRow
<1> HIDE DEF Stale
<1>3. ASSUME NEW r \in Request
      PROVE  /\ Outdated(ss)[r] \in RequestRow
             /\ Outdated(ss)[r].phase = request[r].phase
             /\ Outdated(ss)[r].tries = request[r].tries
             /\ Outdated(ss)[r].seen = request[r].seen
             /\ Outdated(ss)[r].based = request[r].based
             /\ Outdated(ss)[r].reply = request[r].reply
             /\ Outdated(ss)[r].stale = Stale(r)
  BY <1>1, <1>2 DEF RequestRow
<1> QED
  BY <1>1, <1>3 DEF Stale

(* A request moves on, and nothing it writes is seen by others. *)
LEMMA RequestStep ==
    ASSUME IngestInv, NEW r \in Request, NEW x \in RequestRow,
           request' = [request EXCEPT ![r] = x], UNCHANGED <<videoOf, jobs, ready, answers>>,
           x.phase # "new",
           x.phase = "open" =>
               /\ x.seen \in [Selected[r] -> Result]
               /\ \A s \in Selected[r] :
                     x.seen[s] = "CREATED" => videoOf[s] \notin {"later", "deleting"},
           x.phase = "answered" => x.reply = answers[KeyOf[r]] /\ answers[KeyOf[r]] # NoAnswer
    PROVE  IngestInv'
<1> USE DEF IngestInv, IngestTypes
<1>1. /\ request' \in [Request -> RequestRow] /\ request'[r] = x
      /\ \A q \in Request \ {r} : request'[q] = request[q]
  OBVIOUS
<1>2. IngestTypes' /\ OneActiveIngest'
  BY <1>1 DEF OneActiveIngest
<1>3. OpenHasSeen' /\ AnswerIsStored'
  BY <1>1 DEF OpenHasSeen, AnswerIsStored
<1>4. VerdictHolds'
  BY <1>1 DEF VerdictHolds, Creates
<1> QED
  BY <1>2, <1>3, <1>4

(* The transaction that wins: its verdicts hold, so nothing is created twice. *)
LEMMA CommitStep ==
    ASSUME IngestInv, NEW r \in Request, CommitRequest(r)
    PROVE  /\ IngestInv'
           /\ \A s \in Source : videoOf[s] \in {"later", "deleting"} => videoOf'[s] = videoOf[s]
<1> DEFINE seen == request[r].seen
           created == Creates(r)
           mine == RequestEnded(r, "answered", seen)
<1> USE DEF IngestInv, IngestTypes
<1>1. /\ request[r].phase = "open" /\ ~Conflict(r) /\ ~UniqueTaken(r)
      /\ videoOf' = [s \in Source |-> IF s \in created THEN "INGEST_QUEUED" ELSE videoOf[s]]
      /\ jobs' = [s \in Source |->
                    IF s \in created THEN [jobs[s] EXCEPT !.active = @ + 1] ELSE jobs[s]]
      /\ answers' = [answers EXCEPT ![KeyOf[r]] = seen]
      /\ request' = [Outdated(created) EXCEPT ![r] = mine]
      /\ ready' = ready
  BY DEF CommitRequest
<1>2. seen \in Answer /\ seen # NoAnswer /\ seen \in [Selected[r] -> Result]
  BY <1>1, VerdictIsAnswer DEF OpenHasSeen
<1>3. created \subseteq Source /\ KeyOf[r] \in Key /\ answers[KeyOf[r]] = NoAnswer
  BY <1>1 DEF Creates, Key, UniqueTaken, AnswerTaken
<1>4. mine \in RequestRow /\ mine.phase = "answered" /\ mine.reply = seen
  BY <1>2, EndedType
<1>5. ASSUME NEW s \in created
      PROVE  videoOf[s] \notin {"later", "deleting"} /\ jobs[s].active = 0
  <2>1. jobs[s].active = 0
    BY <1>1, <1>3 DEF UniqueTaken, ActiveTaken
  <2>2. CASE s \in request[r].based
    BY <1>1, <2>1, <2>2 DEF VerdictHolds, Conflict
  <2>3. CASE s \notin request[r].based
    BY <1>1, <2>1, <2>3 DEF UniqueTaken
  <2> QED
    BY <2>2, <2>3
<1>6. /\ request' \in [Request -> RequestRow] /\ request'[r] = mine
      /\ \A q \in Request \ {r} :
            /\ request'[q].phase = request[q].phase
            /\ request'[q].tries = request[q].tries
            /\ request'[q].seen = request[q].seen
            /\ request'[q].based = request[q].based
            /\ request'[q].reply = request[q].reply
            /\ request[q].phase = "open" =>
                   request'[q].stale = request[q].stale \cup (created \cap request[q].based)
  BY <1>1, <1>3, <1>4, OutdatedType
<1>7. /\ answers' \in [Key -> Answer \cup {NoAnswer}] /\ answers'[KeyOf[r]] = seen
      /\ \A k \in Key : k # KeyOf[r] => answers'[k] = answers[k]
  BY <1>1, <1>2, <1>3
<1>8. /\ jobs' \in [Source -> [active : Nat, failed : 0..1]]
      /\ \A s \in Source : jobs'[s].active <= 1
  <2>1. ASSUME NEW s \in Source
        PROVE  jobs'[s] \in [active : Nat, failed : 0..1] /\ jobs'[s].active <= 1
    <3>1. CASE s \in created
      <4>1. jobs'[s] = [jobs[s] EXCEPT !.active = 1]
        BY <1>1, <1>5, <3>1
      <4> QED
        BY <4>1
    <3>2. CASE s \notin created
      BY <1>1, <3>2 DEF OneActiveIngest
    <3> QED
      BY <3>1, <3>2
  <2> QED
    BY <1>1, <2>1
<1> HIDE DEF created, seen, mine
<1>9. IngestTypes'
  BY <1>1, <1>4, <1>6, <1>7, <1>8 DEF VideoState
<1>10. OpenHasSeen'
  BY <1>4, <1>6 DEF OpenHasSeen
<1>11. AnswerIsStored'
  <2>1. \A q \in Request : KeyOf[q] \in Key
    BY DEF Key
  <2> QED
    BY <1>2, <1>3, <1>4, <1>6, <1>7, <2>1 DEF AnswerIsStored
<1>12. VerdictHolds'
  <2>1. ASSUME NEW q \in Request, request'[q].phase = "open"
        PROVE  q # r /\ request[q].phase = "open" /\ Creates(q)' = Creates(q)
    BY <1>4, <1>6, <2>1 DEF Creates
  <2> QED
    BY <1>1, <1>3, <1>6, <2>1 DEF VerdictHolds, Creates
<1>13. \A s \in Source : videoOf[s] \in {"later", "deleting"} => videoOf'[s] = videoOf[s]
  BY <1>1, <1>5
<1> QED
  BY <1>8, <1>9, <1>10, <1>11, <1>12, <1>13 DEF OneActiveIngest

(* A request that is handled answers its key, and does nothing if the key has an answer. *)
LEMMA HandleStep ==
    ASSUME IngestInv, NEW r \in Request, NEW usable, Handle(r, usable)
    PROVE  IngestInv'
<1> DEFINE answer == answers[KeyOf[r]]
<1>1. answer \in Answer \cup {NoAnswer} /\ request[r] \in RequestRow
  BY DEF IngestInv, IngestTypes, Key
<1>2. ASSUME NEW p \in {"lost", "refused", "answered", "failed"},
             request' = [request EXCEPT ![r] =
                 RequestEnded(r, p, IF p \in {"lost", "refused"} THEN NoAnswer ELSE answer)],
             p = "answered" => answer # NoAnswer,
             UNCHANGED <<videoOf, jobs, ready, answers>>
      PROVE  IngestInv'
  <2> DEFINE reply == IF p \in {"lost", "refused"} THEN NoAnswer ELSE answer
             x == RequestEnded(r, p, reply)
  <2>1. reply \in Answer \cup {NoAnswer}
    BY <1>1, Zenon
  <2> HIDE DEF reply
  <2>2. x \in RequestRow /\ x.phase = p /\ x.reply = reply
    BY <1>2, <2>1, EndedType DEF IngestInv
  <2>3. request' = [request EXCEPT ![r] = x]
    BY <1>2 DEF reply
  <2>4. p = "answered" => reply = answer
    BY DEF reply
  <2> HIDE DEF x
  <2> QED
    BY <1>1, <1>2, <2>2, <2>3, <2>4, RequestStep DEF IngestInv
<1>3. CASE Begin(r, usable)
  <2> DEFINE verdict == [s \in Selected[r] |-> Disposition(s, usable)]
             x == [request[r] EXCEPT !.phase = "open", !.tries = request[r].tries + 1,
                                     !.seen = verdict,
                                     !.based = {s \in Selected[r] : videoOf[s] # "none"}]
  <2>1. \/ request' = [request EXCEPT ![r] = RequestEnded(r, "answered", answer)] /\ answer # NoAnswer
        \/ request' = [request EXCEPT ![r] = RequestEnded(r, "refused", NoAnswer)]
        \/ request' = [request EXCEPT ![r] = x]
    <3>1. request' = [request EXCEPT ![r] =
              IF answer # NoAnswer THEN RequestEnded(r, "answered", answer)
              ELSE IF \A s \in Selected[r] : verdict[s] = "SKIPPED_INVALID"
                   THEN RequestEnded(r, "refused", NoAnswer)
              ELSE x]
      BY <1>3 DEF Begin
    <3> QED
      BY <3>1, Zenon
  <2>2. verdict \in [Selected[r] -> Result]
    BY DEF Disposition, Result
  <2>3. \A s \in Selected[r] : verdict[s] = "CREATED" => videoOf[s] \notin {"later", "deleting"}
    BY DEF Disposition
  <2>4. verdict \in Answer
    BY <2>2, VerdictIsAnswer
  <2> HIDE DEF verdict
  <2>5. request[r].tries + 1 \in 0..2
    <3>1. request[r].phase = "new" \/ request[r].tries = 1
      BY <1>3 DEF Begin
    <3>2. request[r].tries \in {0, 1}
      BY <3>1 DEF IngestInv, IngestTypes
    <3> QED
      BY <3>2
  <2>6. x \in RequestRow /\ x.phase = "open" /\ x.seen = verdict
    BY <1>1, <2>4, <2>5 DEF RequestRow
  <2>7. UNCHANGED <<videoOf, jobs, ready, answers>>
    BY <1>3 DEF Begin
  <2> HIDE DEF x
  <2>8. CASE request' = [request EXCEPT ![r] = x]
    BY <2>2, <2>3, <2>6, <2>7, <2>8, RequestStep
  <2> QED
    BY <1>2, <2>1, <2>7, <2>8
<1>4. CASE Lose(r)
  BY <1>2, <1>4 DEF Lose
<1>5. CASE TakeWinner(r)
  BY <1>2, <1>5 DEF TakeWinner
<1> QED
  BY <1>3, <1>4, <1>5, CommitStep DEF Handle

(* Other writers change one video, and tell the transactions that read it. *)
LEMMA OthersStep ==
    ASSUME IngestInv, NEW s \in Source, Others(s)
    PROVE  /\ IngestInv'
           /\ \A q \in Source : videoOf'[q] = videoOf[q] \/ videoOf'[q] # "INGEST_QUEUED"
<1> USE DEF IngestInv, IngestTypes
<1>1. ASSUME NEW x \in [active : 0..1, failed : 0..1], jobs' = [jobs EXCEPT ![s] = x],
             \/ UNCHANGED <<videoOf, request>>
             \/ /\ \E v \in VideoState \ {"INGEST_QUEUED"} : videoOf' = [videoOf EXCEPT ![s] = v]
                /\ Touch(s),
             UNCHANGED <<ready, answers>>
      PROVE  /\ IngestInv'
             /\ \A q \in Source : videoOf'[q] = videoOf[q] \/ videoOf'[q] # "INGEST_QUEUED"
  <2>1. /\ jobs' \in [Source -> [active : Nat, failed : 0..1]]
        /\ \A q \in Source : jobs'[q].active <= 1
    BY <1>1 DEF OneActiveIngest
  <2>2. /\ request' \in [Request -> RequestRow]
        /\ \A r \in Request :
              /\ request'[r].phase = request[r].phase
              /\ request'[r].tries = request[r].tries
              /\ request'[r].seen = request[r].seen
              /\ request'[r].based = request[r].based
              /\ request'[r].reply = request[r].reply
              /\ request[r].phase = "open" =>
                     \/ request'[r].stale = request[r].stale \cup ({s} \cap request[r].based)
                     \/ videoOf' = videoOf /\ request'[r].stale = request[r].stale
    BY <1>1, OutdatedType DEF Touch
  <2>3. IngestTypes' /\ OneActiveIngest'
    BY <1>1, <2>1, <2>2 DEF OneActiveIngest
  <2>4. OpenHasSeen'
    BY <2>2 DEF OpenHasSeen
  <2>5. AnswerIsStored'
    BY <1>1, <2>2 DEF AnswerIsStored
  <2>6. VerdictHolds'
    <3>1. \A r \in Request : Creates(r)' = Creates(r)
      BY <2>2 DEF Creates
    <3>2. ASSUME NEW r \in Request, request'[r].phase = "open",
                 NEW q \in Creates(r) \cap request[r].based, q \notin request'[r].stale
          PROVE  videoOf'[q] = videoOf[q] /\ videoOf[q] \notin {"later", "deleting"}
      <4>1. q \notin request[r].stale /\ (videoOf' = videoOf \/ q # s)
        BY <2>2, <3>2
      <4> QED
        BY <1>1, <2>2, <3>2, <4>1 DEF VerdictHolds, Creates
    <3> QED
      BY <2>2, <3>1, <3>2 DEF VerdictHolds
  <2> QED
    BY <1>1, <2>3, <2>4, <2>5, <2>6
<1>2. jobs[s] \in [active : 0..1, failed : 0..1]
  <2>1. jobs[s] \in [active : Nat, failed : 0..1] /\ jobs[s].active <= 1
    BY DEF OneActiveIngest
  <2>2. jobs[s].active = 0 \/ jobs[s].active = 1
    <3>1. \A n \in Nat : n <= 1 => n = 0 \/ n = 1
      OBVIOUS
    <3> QED
      BY <2>1, <3>1
  <2> QED
    BY <2>1, <2>2
<1>3. CASE DownloadFails(s)
  <2> DEFINE x == [active |-> jobs[s].active - 1, failed |-> 1]
  <2>1. jobs' = [jobs EXCEPT ![s] = x] /\ x \in [active : 0..1, failed : 0..1]
    BY <1>2, <1>3 DEF DownloadFails
  <2> HIDE DEF x
  <2> QED
    BY <1>1, <1>3, <2>1 DEF DownloadFails, VideoState
<1>4. CASE DownloadEnds(s) \/ CancelIngest(s)
  <2> DEFINE x == [jobs[s] EXCEPT !.active = jobs[s].active - 1]
  <2>1. jobs' = [jobs EXCEPT ![s] = x] /\ x \in [active : 0..1, failed : 0..1]
    BY <1>2, <1>4 DEF DownloadEnds, CancelIngest
  <2> HIDE DEF x
  <2> QED
    BY <1>1, <1>4, <2>1 DEF DownloadEnds, CancelIngest, VideoState
<1>5. CASE PipelineFails(s)
  <2>1. jobs' = [jobs EXCEPT ![s] = jobs[s]]
    BY <1>5 DEF PipelineFails
  <2> QED
    BY <1>1, <1>2, <1>5, <2>1 DEF PipelineFails, VideoState
<1>6. CASE RetryIngest(s)
  <2> DEFINE x == [active |-> jobs[s].active + 1, failed |-> jobs[s].failed - 1]
  <2>1. jobs' = [jobs EXCEPT ![s] = x] /\ x \in [active : 0..1, failed : 0..1]
    BY <1>2, <1>6 DEF RetryIngest, ActiveTaken
  <2> HIDE DEF x
  <2> QED
    BY <1>1, <1>6, <2>1 DEF RetryIngest
<1>7. CASE DeleteVideo(s)
  <2> DEFINE x == [jobs[s] EXCEPT !.active = 0]
  <2>1. jobs' = [jobs EXCEPT ![s] = x] /\ x \in [active : 0..1, failed : 0..1]
    BY <1>2, <1>7 DEF DeleteVideo
  <2> HIDE DEF x
  <2> QED
    BY <1>1, <1>7, <2>1 DEF DeleteVideo, VideoState
<1>8. CASE VideoGone(s)
  <2> DEFINE x == [jobs[s] EXCEPT !.failed = 0]
  <2>1. jobs' = [jobs EXCEPT ![s] = x] /\ x \in [active : 0..1, failed : 0..1]
    BY <1>2, <1>8 DEF VideoGone
  <2> HIDE DEF x
  <2> QED
    BY <1>1, <1>8, <2>1 DEF VideoGone, VideoState
<1> QED
  BY <1>3, <1>4, <1>5, <1>6, <1>7, <1>8 DEF Others

(* Nothing but a commit queues a video. *)
LEMMA IngestStep ==
    ASSUME IngestInv, NEW usable,
           \/ \E r \in Request : Handle(r, usable)
           \/ \E s \in Source : Others(s)
           \/ EditProfile
           \/ UNCHANGED ingestVars
    PROVE  /\ IngestInv'
           /\ \A s \in Source : videoOf[s] \in {"later", "deleting"} => videoOf'[s] # "INGEST_QUEUED"
<1>1. ASSUME NEW r \in Request, Handle(r, usable)
      PROVE  \A s \in Source : videoOf[s] \in {"later", "deleting"} => videoOf'[s] # "INGEST_QUEUED"
  BY <1>1, CommitStep DEF Handle, Begin, Lose, TakeWinner
<1>2. CASE EditProfile \/ UNCHANGED ingestVars
  <2>1. UNCHANGED <<videoOf, jobs, request, answers>> /\ ready' \in BOOLEAN
    BY <1>2 DEF EditProfile, ingestVars, IngestInv, IngestTypes
  <2> QED
    BY <2>1 DEF IngestInv, IngestTypes, OpenHasSeen, VerdictHolds, Creates, AnswerIsStored,
                OneActiveIngest
<1> QED
  BY <1>1, <1>2, HandleStep, OthersStep

-----------------------------------------------------------------------------
(* The catalog. *)

RequestsOf(ops) ==
    [op : ops, licensed : BOOLEAN, language : Language, status : {"DRAFT", "ACTIVE"},
     voiced : BOOLEAN, seen : VoiceStatus, fresh : BOOLEAN, same : BOOLEAN]

CatalogTypes == CatalogTypeOK /\ (open = NoRequest \/ open \in RequestsOf(Overlap))

(* What a request has read of a row is so while the row keeps its version. *)
ReadHolds == open.fresh /\ open.op = "update" => open.seen = voice.status

CatalogInv == CatalogTypes /\ ReadHolds

(* A voice is READY with a licence only, and jobs speak with such voices. *)
LicenceInv == (voice.status = "READY" => voice.licensed) /\ JobVoicesAreLicensed

USE CatalogAssumption

(* What a client sends has loaded its row. *)
LEMMA RequestType ==
    ASSUME NEW c \in CatalogRequest
    PROVE  c \in RequestsOf(CatalogOp) /\ c.fresh
BY DEF CatalogRequest, RequestsOf, VoiceStatus

(* No open request is a request of its own operation. *)
LEMMA NoRequestType == NoRequest \in RequestsOf({"none"})
BY DEF NoRequest, RequestsOf, VoiceStatus

(* At first no request is open and no job exists. *)
LEMMA InitCatalog == CatalogInit => CatalogInv /\ LicenceInv
BY DEF NoRequest, CatalogInit, CatalogInv, CatalogTypes, CatalogTypeOK, RequestsOf, ReadHolds,
       LicenceInv, JobVoicesAreLicensed, Live, VoiceStatus, ProfileStatus, VoiceOp, CatalogOp

(* What a transaction has read is true of the rows it writes. *)
ReadIs(c) ==
    /\ c \in RequestsOf(CatalogOp)
    /\ c.fresh /\ c.op = "update" => c.seen = voice.status

(* A request that passes its checks has read the rows as they are. *)
LEMMA ReadRequest ==
    ASSUME CatalogInv, NEW c \in CatalogRequest, CatalogCheck(c)
    PROVE  /\ ReadIs(Read(c)) /\ Read(c).op = c.op /\ Read(c).fresh
           /\ c.op = "activate" => Read(c).licensed = voice.licensed
<1> DEFINE seen == IF c.op \in {"update", "commitSample"} THEN voice.status ELSE "DRAFT"
           licensed == IF c.op = "activate" THEN voice.licensed ELSE c.licensed
<1>1. c \in RequestsOf(CatalogOp) /\ c.fresh
  BY RequestType
<1>2. seen \in VoiceStatus /\ licensed \in BOOLEAN
  BY <1>1 DEF CatalogInv, CatalogTypes, CatalogTypeOK, VoiceStatus, RequestsOf
<1>3. Read(c) = [c EXCEPT !.seen = seen, !.licensed = licensed]
  BY DEF Read
<1> HIDE DEF seen, licensed
<1>4. /\ Read(c) \in RequestsOf(CatalogOp) /\ Read(c).op = c.op /\ Read(c).fresh = c.fresh
      /\ Read(c).seen = seen /\ Read(c).licensed = licensed
  BY <1>1, <1>2, <1>3 DEF RequestsOf
<1> QED
  BY <1>1, <1>4 DEF ReadIs, seen, licensed

(* The writes of a request leave rows of their type. *)
LEMMA WriteType ==
    ASSUME CatalogInv, NEW d \in RequestsOf(CatalogOp), CatalogWrite(d)
    PROVE  /\ voice' \in [status : VoiceStatus, licensed : BOOLEAN, primary : Language,
                          samples : SUBSET Language]
           /\ channel' \in [status : ProfileStatus, voiced : BOOLEAN]
           /\ series' \in [status : ProfileStatus \cup {"NONE"}, voiced : BOOLEAN]
           /\ licences' = licences
           /\ d.op \notin VoiceOp => voice' = voice
           /\ d.op \notin ChannelOp => channel' = channel
           /\ d.op \notin SeriesOp => series' = series
<1> USE DEF RequestsOf, VoiceStatus, ProfileStatus
<1>1. /\ voice \in [status : VoiceStatus, licensed : BOOLEAN, primary : Language,
                    samples : SUBSET Language]
      /\ channel \in [status : ProfileStatus, voiced : BOOLEAN]
      /\ series \in [status : ProfileStatus \cup {"NONE"}, voiced : BOOLEAN]
  BY DEF CatalogInv, CatalogTypes, CatalogTypeOK
<1>2. CASE d.op \in VoiceOp /\ WriteVoice(d)
  <2>1. CASE d.op = "update"
    BY <1>1, <1>2, <2>1 DEF WriteVoice, VoiceAfter, AfterUpdate, VoiceOp, ChannelOp, SeriesOp,
                           CatalogWrite
  <2>2. CASE d.op = "activate"
    BY <1>1, <1>2, <2>2 DEF WriteVoice, VoiceAfter, Activated, VoiceOp, ChannelOp, SeriesOp,
                           CatalogWrite
  <2>3. CASE d.op \in {"archive", "restore"}
    BY <1>1, <1>2, <2>3 DEF WriteVoice, VoiceAfter, VoiceOp, ChannelOp, SeriesOp, CatalogWrite
  <2>4. CASE d.op \in {"commitSample", "detach"}
    BY <1>1, <1>2, <2>4 DEF WriteVoice, VoiceAfter, VoiceOp, ChannelOp, SeriesOp, CatalogWrite
  <2> QED
    BY <1>2, <2>1, <2>2, <2>3, <2>4 DEF VoiceOp
<1>3. CASE d.op \in ChannelOp /\ WriteChannel(d)
  BY <1>1, <1>3 DEF CatalogWrite, WriteChannel, ChannelAfter, ChannelOp, VoiceOp, SeriesOp
<1>4. CASE d.op \in SeriesOp /\ WriteSeries(d)
  BY <1>1, <1>4 DEF CatalogWrite, WriteSeries, SeriesAfter, ChannelOp, VoiceOp, SeriesOp
<1> QED
  BY <1>2, <1>3, <1>4 DEF CatalogWrite

(* A voice is licensed as long as it is READY. *)
LEMMA WriteLicence ==
    ASSUME CatalogInv, LicenceInv, NEW d, ReadIs(d), CatalogWrite(d),
           d.op = "activate" => d.licensed = voice.licensed
    PROVE  LicenceInv'
<1> USE DEF ReadIs, RequestsOf, LicenceInv, JobVoicesAreLicensed
<1>1. /\ voice \in [status : VoiceStatus, licensed : BOOLEAN, primary : Language,
                    samples : SUBSET Language]
  BY DEF CatalogInv, CatalogTypes, CatalogTypeOK
<1>2. CASE d.op \in VoiceOp /\ WriteVoice(d)
  <2>1. CASE d.op = "update"
    BY <1>1, <1>2, <2>1 DEF WriteVoice, VoiceAfter, AfterUpdate, CatalogWrite, VersionHolds,
                           Versioned
  <2>2. CASE d.op = "activate"
    BY <1>1, <1>2, <2>2 DEF WriteVoice, VoiceAfter, Activated, CatalogWrite
  <2>3. CASE d.op \in {"archive", "restore", "commitSample", "detach"}
    BY <1>1, <1>2, <2>3 DEF WriteVoice, VoiceAfter, CatalogWrite
  <2> QED
    BY <1>2, <2>1, <2>2, <2>3 DEF VoiceOp
<1>3. CASE d.op \notin VoiceOp
  BY <1>3, WriteType
<1> QED
  BY <1>2, <1>3 DEF CatalogWrite, WriteChannel, WriteSeries, VoiceOp, ChannelOp, SeriesOp

(* Whoever writes first leaves the other without its version. *)
LEMMA CatalogInvStep ==
    ASSUME CatalogInv, CatalogNext \/ UNCHANGED catalogVars
    PROVE  CatalogInv'
<1>1. open = NoRequest \/ open \in RequestsOf(Overlap)
  BY DEF CatalogInv, CatalogTypes
<1>2. NoRequest \in RequestsOf({"none"}) /\ NoRequest.op = "none"
  BY NoRequestType DEF RequestsOf
<1>3. ASSUME NEW c \in CatalogRequest, ServeCatalog(c)
      PROVE  CatalogInv'
  <2> DEFINE d == Read(c)
  <2>1. d \in RequestsOf(CatalogOp) /\ d.op = c.op /\ CatalogWrite(d) /\ c.op \in CatalogOp
    BY <1>3, ReadRequest, RequestType DEF ServeCatalog, ReadIs, RequestsOf
  <2>2. /\ open' = NoRequest \/ open' \in RequestsOf(Overlap)
        /\ open'.op = open.op /\ open'.seen = open.seen
        /\ open'.fresh => open.fresh /\ (open.op \in Versioned => ~SameRow(c.op, open.op))
    <3>1. CASE open = NoRequest
      BY <1>1, <1>2, <1>3, <3>1 DEF ServeCatalog, Versioned
    <3>2. CASE open # NoRequest
      <4> DEFINE fresh == open.fresh /\ ~(open.op \in Versioned /\ SameRow(c.op, open.op))
                 same == open.same /\ ~(open.op = "detach" /\ c.op = "commitSample"
                                        /\ c.language = open.language)
      <4>1. open' = [open EXCEPT !.fresh = fresh, !.same = same]
        BY <1>3, <3>2 DEF ServeCatalog, Noticed
      <4>2. fresh \in BOOLEAN /\ same \in BOOLEAN
        BY <1>1 DEF RequestsOf
      <4> HIDE DEF same, fresh
      <4>3. open \in RequestsOf(Overlap)
        BY <1>1, <3>2
      <4>4. open' \in RequestsOf(Overlap) /\ open'.op = open.op /\ open'.seen = open.seen
            /\ open'.fresh = fresh
        BY <4>1, <4>2, <4>3 DEF RequestsOf
      <4> QED
        BY <4>4 DEF fresh
    <3> QED
      BY <3>1, <3>2
  <2> HIDE DEF d
  <2>3. CatalogTypes'
    BY <1>2, <2>1, <2>2, WriteType DEF CatalogInv, CatalogTypes, CatalogTypeOK, RequestsOf,
                                       ProfileStatus
  <2>4. open'.fresh /\ open.op = "update" => c.op \notin VoiceOp
    BY <2>2 DEF SameRow, VoiceOp, Versioned
  <2>5. ReadHolds'
    BY <2>1, <2>2, <2>4, WriteType DEF CatalogInv, ReadHolds
  <2> QED
    BY <2>3, <2>5 DEF CatalogInv
<1>4. ASSUME NEW c \in CatalogRequest, OpenCatalog(c)
      PROVE  CatalogInv'
  <2>1. open' = Read(c) /\ ReadIs(Read(c)) /\ Read(c).op \in Overlap
        /\ UNCHANGED <<voice, channel, series, licences>>
    BY <1>4, ReadRequest DEF OpenCatalog
  <2>2. open' \in RequestsOf(Overlap)
    BY <2>1 DEF ReadIs, RequestsOf
  <2> QED
    BY <2>1, <2>2 DEF CatalogInv, CatalogTypes, CatalogTypeOK, RequestsOf, ProfileStatus, ReadHolds,
                      ReadIs, Live
<1>5. CASE FinishCatalog
  <2>1. open' = NoRequest /\ open \in RequestsOf(CatalogOp)
    BY <1>1, <1>5 DEF FinishCatalog, RequestsOf
  <2>2. CatalogTypes'
    BY <1>2, <1>5, <2>1, WriteType DEF FinishCatalog, CatalogInv, CatalogTypes, CatalogTypeOK,
                                       RequestsOf, ProfileStatus
  <2>3. ReadHolds'
    BY <1>2, <2>1 DEF ReadHolds, VoiceOp
  <2> QED
    BY <2>2, <2>3 DEF CatalogInv
<1>6. CASE SnapshotForJob \/ UNCHANGED catalogVars
  <2>1. UNCHANGED <<voice, channel, series, open>> /\ licences' \subseteq BOOLEAN
    BY <1>6 DEF SnapshotForJob, catalogVars, CatalogInv, CatalogTypes, CatalogTypeOK
  <2> QED
    BY <2>1 DEF CatalogInv, CatalogTypes, CatalogTypeOK, ReadHolds, Live
<1> QED
  BY <1>3, <1>4, <1>5, <1>6 DEF CatalogNext

(* A request that is open writes what it has read. *)
LEMMA OpenReadIs ==
    ASSUME CatalogInv, open # NoRequest
    PROVE  ReadIs(open) /\ open.op \in Overlap
BY DEF CatalogInv, CatalogTypes, ReadHolds, ReadIs, RequestsOf

(* Jobs are created with licensed voices, unless an activation takes long. *)
LEMMA LicenceStep ==
    ASSUME CatalogInv, LicenceInv, "activate" \notin Overlap, CatalogNext \/ UNCHANGED catalogVars
    PROVE  LicenceInv'
<1>1. ASSUME NEW c \in CatalogRequest, ServeCatalog(c)
      PROVE  LicenceInv'
  BY <1>1, ReadRequest, WriteLicence DEF ServeCatalog
<1>2. CASE FinishCatalog
  <2>1. CASE CatalogWrite(open)
    BY <1>2, <2>1, OpenReadIs, WriteLicence DEF FinishCatalog
  <2>2. CASE UNCHANGED <<voice, channel, series, licences>>
    BY <2>2 DEF LicenceInv, JobVoicesAreLicensed
  <2> QED
    BY <1>2, <2>1, <2>2 DEF FinishCatalog
<1>3. CASE SnapshotForJob
  <2>1. voice.status = "READY"
    BY <1>3 DEF SnapshotForJob, ChannelReady, SeriesReady
  <2>2. voice.licensed = TRUE
    BY <2>1 DEF LicenceInv, CatalogInv, CatalogTypes, CatalogTypeOK
  <2> QED
    BY <1>3, <2>2 DEF SnapshotForJob, LicenceInv, JobVoicesAreLicensed
<1>4. CASE (\E c \in CatalogRequest : OpenCatalog(c)) \/ UNCHANGED catalogVars
  BY <1>4 DEF OpenCatalog, catalogVars, LicenceInv, JobVoicesAreLicensed
<1> QED
  BY <1>1, <1>2, <1>3, <1>4 DEF CatalogNext

-----------------------------------------------------------------------------
(* The four parts. *)

IntakeInv ==
    /\ ImportInv /\ ScanInv /\ IngestInv /\ CatalogInv
    /\ part \in {"scan", "ingest", "import", "catalog"}

(* The four invariants hold at first. *)
LEMMA InitIntakeInv == IntakeInit => IntakeInv
BY InitImportInv, InitScanInv, InitIngestInv, InitCatalog DEF IntakeInit, IntakeInv

(* Of the four, each goes on or is left alone. *)
LEMMA CastStep ==
    ASSUME [IntakeNext]_intakeVars
    PROVE  /\ \E p : ImportNext(p) \/ UNCHANGED importVars
           /\ \/ Requests \/ Validation \/ Credentials \/ CrashApi
              \/ \E e \in Executor : Execute(e) \/ StepFails(e)
              \/ UNCHANGED discoveryVars
           /\ \/ \E r \in Request : Handle(r, AccountUsable)
              \/ \E s \in Source : Others(s)
              \/ EditProfile
              \/ UNCHANGED ingestVars
           /\ CatalogNext \/ UNCHANGED catalogVars
           /\ part' = part
BY DEF IntakeNext, intakeVars, Scanning, Ingesting, Importing, Cataloguing

(* Every step of the intake keeps the four invariants. *)
LEMMA IntakeStep ==
    ASSUME IntakeInv, [IntakeNext]_intakeVars
    PROVE  IntakeInv'
BY CastStep, ImportStep, ScanStep, IngestStep, CatalogInvStep DEF IntakeInv

(* The four invariants hold together. *)
LEMMA IntakeInvariant == IntakeSpec => []IntakeInv
BY InitIntakeInv, IntakeStep, PTL DEF IntakeSpec

(* Every row and every request in flight keeps its type. *)
THEOREM IntakeTypeCorrect == IntakeSpec => []IntakeTypeOK
<1>1. ASSUME IntakeInv PROVE IntakeTypeOK
  <2>1. IngestTypeOK
    BY <1>1 DEF IntakeInv, IngestInv, IngestTypes, IngestTypeOK, RequestRow
  <2> QED
    BY <1>1, <2>1 DEF IntakeInv, ImportInv, ScanInv, ScanTypes, CatalogInv, CatalogTypes, IntakeTypeOK
<1> QED
  BY <1>1, IntakeInvariant, PTL

(* claimRun lets one execution scan a run, however often it is dispatched, so *)
(* its limits bound what is stored; and a page is stored in a cancelled run at *)
(* most once.                                                                   *)
THEOREM ScansStop == IntakeSpec => []ScanStops
<1>1. IntakeInv => ScanStops
  BY DEF IntakeInv, ScanInv, RunCounts, LateEnds, ScanStops, ScanIsBounded, CancelStopsScan
<1> QED
  BY <1>1, IntakeInvariant, PTL

(* Whichever step of an execution fails, however often its run is dispatched  *)
(* or cancelled, an execution that has yet to end it has every unfinished run *)
(* while the process lives: claimRun, finishRun and failRun leave none behind. *)
THEOREM NoRunLeftBehind == IntakeSpec => []RunsAreHeld
<1>1. IntakeInit => RunsAreHeld
  BY DEF IntakeInit, DiscoveryInit, RunsAreHeld, Underway
<1>2. ASSUME IntakeInv /\ RunsAreHeld, [IntakeNext]_intakeVars
      PROVE  RunsAreHeld'
  BY <1>2, CastStep, HeldStep DEF IntakeInv
<1> QED
  BY <1>1, <1>2, IntakeInvariant, PTL DEF IntakeSpec

(* Replays and overlapping requests create no second ingest job and get no     *)
(* second answer, and overlapping commits import no file twice: create under   *)
(* REPEATABLE READ with its unique indexes, commit under SERIALIZABLE.         *)
THEOREM NothingIsDoneTwice == IntakeSpec => []NothingTwice
<1>1. ASSUME IntakeInv PROVE NothingTwice
  <2>1. OneAnswerPerKey
    BY <1>1 DEF IntakeInv, IngestInv, AnswerIsStored, OneAnswerPerKey
  <2>2. OneActiveIngest
    BY <1>1 DEF IntakeInv, IngestInv
  <2>3. OneJobPerUpload
    BY <1>1 DEF IntakeInv, ImportInv, OneJobPerUpload
  <2> QED
    BY <2>1, <2>2, <2>3 DEF NothingTwice
<1> QED
  BY <1>1, IntakeInvariant, PTL

(* A request that saw a failed video does not queue it again once it has gone *)
(* past its ingest or is being deleted: its transaction conflicts.            *)
THEOREM NoVideoResurrected == IntakeSpec => NoResurrection
<1>1. ASSUME IntakeInv, [IntakeNext]_intakeVars
      PROVE  [\A s \in Source :
                  videoOf[s] \in {"later", "deleting"} => videoOf'[s] # "INGEST_QUEUED"]_intakeVars
  BY <1>1, CastStep, IngestStep DEF IntakeInv
<1> QED
  BY <1>1, IntakeInvariant, PTL DEF IntakeSpec, NoResurrection

(* Unless an activation is overlapped by a change of the licence, no job is *)
(* created with an unlicensed voice, whatever else overlaps.                *)
THEOREM JobsAreLicensed ==
    ASSUME "activate" \notin Overlap
    PROVE  IntakeSpec => []JobVoicesAreLicensed
<1>1. IntakeInit => IntakeInv /\ LicenceInv
  BY InitIntakeInv, InitCatalog DEF IntakeInit
<1>2. ASSUME IntakeInv /\ LicenceInv, [IntakeNext]_intakeVars
      PROVE  (IntakeInv /\ LicenceInv)'
  BY <1>2, CastStep, IntakeStep, LicenceStep DEF IntakeInv
<1>3. IntakeInv /\ LicenceInv => JobVoicesAreLicensed
  BY DEF LicenceInv
<1> QED
  BY <1>1, <1>2, <1>3, PTL DEF IntakeSpec
=============================================================================
