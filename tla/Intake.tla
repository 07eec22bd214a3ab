------------------------------- MODULE Intake -------------------------------
(***************************************************************************)
(* How content enters the studio: an account is validated, runs discover   *)
(* content with it, and requests turn content into videos to be ingested;  *)
(* or the user imports a file.  The jobs are configured by the catalog.    *)
(*                                                                         *)
(* A behaviour shows one of four parts.  In "scan" runs are executed; in   *)
(* "ingest" they are over, and their content is ingested; in "import"      *)
(* files are; in "catalog" profiles and voices are edited.  The first      *)
(* three know the catalog only by what it decides: ready.                  *)
(***************************************************************************)
EXTENDS Discovery, Ingest, LocalImport, Catalog

VARIABLE part

intakeVars == <<discoveryVars, ingestVars, importVars, catalogVars, part>>

IntakeInit ==
    /\ DiscoveryInit /\ IngestInit /\ ImportInit /\ CatalogInit
    /\ part \in {"scan", "ingest", "import", "catalog"}
    /\ part \in {"scan", "catalog"} => ready

(* What evaluate asks of the account. *)
AccountUsable == account.status = "ACTIVE" /\ account.credential

Scanning(A) == A /\ part = "scan" /\ UNCHANGED <<ingestVars, importVars, catalogVars, part>>
Ingesting(A) == A /\ part = "ingest" /\ UNCHANGED <<discoveryVars, importVars, catalogVars, part>>
Importing(A) == A /\ part = "import" /\ UNCHANGED <<discoveryVars, ingestVars, catalogVars, part>>
Cataloguing(A) == A /\ part = "catalog" /\ UNCHANGED <<discoveryVars, ingestVars, importVars, part>>

IntakeNext ==
    \/ Scanning(Requests \/ Validation)
    \/ /\ Credentials /\ part \in {"scan", "ingest"}
       /\ UNCHANGED <<ingestVars, importVars, catalogVars, part>>
    \/ \E e \in Executor : Scanning(Execute(e))
    \/ \E e \in Executor : Scanning(StepFails(e))
    \/ Scanning(CrashApi)
    \/ \E r \in Request : Ingesting(Handle(r, AccountUsable))
    \/ \E s \in Source : Ingesting(Others(s))
    \/ /\ EditProfile /\ part \in {"ingest", "import"}
       /\ UNCHANGED <<discoveryVars, importVars, catalogVars, part>>
    \/ Importing(ImportNext(ready))
    \/ Cataloguing(CatalogNext)

IntakeSpec == IntakeInit /\ [][IntakeNext]_intakeVars

-----------------------------------------------------------------------------
IntakeTypeOK ==
    /\ DiscoveryTypeOK
    /\ IngestTypeOK
    /\ ImportTypeOK
    /\ CatalogTypeOK
    /\ part \in {"scan", "ingest", "import", "catalog"}

(* However often a run is dispatched, one execution scans it: it takes no    *)
(* more pages from the provider, and no more items, than it may (claimRun).  *)
ScanIsBounded == \A r \in Run : run[r].pages <= MaxPages /\ run[r].items <= Limit

(* A cancelled run takes in at most the page that was on its way.            *)
CancelStopsScan == \A r \in Run : late[r] <= 1

(* So a scan comes to its end in time: at its limits, or at its cancel.      *)
ScanStops == ScanIsBounded /\ CancelStopsScan

(* Whichever step of it fails, and however often it is dispatched again or   *)
(* cancelled, a run that waits or runs is in the hands of an execution that  *)
(* has yet to take it or to end it, unless the process has died: nothing     *)
(* takes up the run of a dead process.  None is left behind (DiscoveryRunner).*)
Holds(e, r) ==
    /\ exec[e].run = r
    /\ IF run[r].status = "QUEUED" THEN At(e, "dispatched")
       ELSE exec[e].phase \notin {"idle", "dispatched"}

RunsAreHeld == \A r \in Run :
    run[r].status \in Underway /\ ~crashed => \E e \in Executor : Holds(e, r)

(* All requests that are answered for one idempotency key are answered the   *)
(* same, however they overlap and whatever happened to the video between.    *)
OneAnswerPerKey == \A r, q \in Request :
    KeyOf[r] = KeyOf[q] /\ request[r].phase = "answered" /\ request[q].phase = "answered"
    => request[r].reply = request[q].reply

(* No request, and no retry of the queue, makes a second ingest job active.  *)
OneActiveIngest == \A s \in Source : jobs[s].active <= 1

(* A video that is past its ingest, or being deleted, is not queued again by *)
(* a request that saw it failed.                                             *)
NoResurrection ==
    [][\A s \in Source : videoOf[s] \in {"later", "deleting"} => videoOf'[s] # "INGEST_QUEUED"]_intakeVars

(* A file that is imported becomes one video with one job, however often and  *)
(* under whatever keys its commit is sent (commit is SERIALIZABLE).           *)
OneJobPerUpload == \A u \in File : imported[u] <= 1

(* What is asked for twice, by a replay, a second request or a second commit  *)
(* that overlaps the first, is done and answered once.                        *)
NothingTwice == OneAnswerPerKey /\ OneActiveIngest /\ OneJobPerUpload

(* No job is created with a voice whose licence does not allow commercial     *)
(* use, whatever happens to the voice and the profiles that use it.           *)
JobVoicesAreLicensed == licences \subseteq {TRUE}

(* No series is in use below an archived channel.                             *)
NoLiveSeriesUnderArchived == Live(series) => ParentLive
=============================================================================
