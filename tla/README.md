# Reup Dubbing Studio: a TLA+ model of the control plane

This directory holds a formal model of the control plane of Reup Dubbing Studio
(`src/apps/api`, NestJS, Prisma, PostgreSQL) and of the machines it rents for its
GPU workers (`src/workers/gpu`): how content enters, how it becomes jobs, who works on
them, how the results are published, and how all of it is deleted. It contains TLA+ modules translated from the source,
TLC configurations that check them on small instances, and theorems that the TLA+
proof system proves for all instances. Line numbers in `PROJECT.json` ("map") tie
every definition to the code it stands for.

- [1. The system](#1-the-system): its parts, their state, how they interact
- [2. What is hard, and what should hold](#2-what-is-hard-and-what-should-hold)
- [3. The modules](#3-the-modules)
- [4. The runs](#4-the-runs)
- [5. Fairness](#5-fairness)
- [6. What is proved](#6-what-is-proved)
- [7. Where the code and the documentation disagree](#7-where-the-code-and-the-documentation-disagree)
- [8. Abstractions and what is not modelled](#8-abstractions-and-what-is-not-modelled)
- [9. Plan](#9-plan)

## 1. The system

Content is discovered or imported, a *job* with a DAG of *tasks* is created for each
video, four kinds of actor push the tasks forward through one PostgreSQL database, and
what comes out is reviewed, posted by hand, and in the end deleted:

```
 accounts, runs --> discovered content --ingest--> video, job
 local file -----------------------------import--> video, job, tasks, dependencies
 voices, channels, series --snapshot--> every job      |
                                                       v
   GPU workers --claim/start/renew/progress/complete/fail--> task API --+
   control plane runner (a timer in the API process) -------------------+--> orchestrator:
   reviewer (studio) ---------------------------------------------------+    unlock dependents,
   queue (cancel, retry) -----------------------------------------------'    project job status
                                                       |
                     render outputs --> package, posts, proofs (publishing) --> PUBLISHED
                     deletion runner (another timer): cancels jobs, purges files, removes rows

 rented machine: pod supervisor --> one agent per role --enroll/session/heartbeat--> registry
```

| Component | State | Operations | Interacts with |
|---|---|---|---|
| Worker task API (`workers/infrastructure/prisma-worker-tasks-repository.ts`) | `task_leases` with fencing tokens, `task_attempts`, status of tasks, pending assets | claim, start, renew, progress, complete, fail, reapExpired; createOutput, refreshOutput, commitOutput | orchestrator (same transaction), queue (shared rows), worker sessions, object store |
| Pipeline orchestrator (`pipeline-orchestrator.ts`) | none of its own; writes tasks, job, video | afterWorkerSucceeded, unlockDependents, refreshAggregateStatus | called by the task API, the runner and the review |
| Control plane runner (`control-plane-runner.ts`) | one active task in memory; attempts in the database | tick: claim, execute, succeed or fail; recoverInterrupted at start | orchestrator; a crash of the process loses its memory |
| Queue (`queue/infrastructure`) | `pipeline_jobs`, idempotency records | cancel, retry, list | takes tasks from under workers and runner |
| Studio (`studio/infrastructure`) | review decisions, segment revisions, video status | review, edits, createJob | orchestrator, deletion |
| Local import and DAG (`local-imports`) | pending assets, initial rows of a job | requestUpload, commit | browser, object store, profiles |
| Worker agent (`workers/gpu/.../agent.py`) | the task it runs, cancel flag, lease token | poll, heartbeat loop, renew loop, execute, report | task API, worker registry |
| Worker registry (`prisma-workers-repository.ts`) | workers, enrolment tokens, credentials, sessions | enroll, startSession, heartbeat, drain, revoke, confirmTermination | sessions decide who may claim |
| Pod supervisor (`reup_worker/pod`) | child processes, the stop event, a deadline | startup, launch, watch, restart, shutdown | agents, tailscaled |
| Video deletion (`video-deletion`) | deletion status, attempts, soft lease, grace period | request, claim, purge, finalize, recordFailure | cancels jobs, races uploads, Studio, publishing |
| Publishing (`publishing`) | packages, posts and their fields, checklists, proofs | createPackage, edits, approve, start, proof, verify, requestRevision | video status |
| Ingest (`ingest`) | videos, ingest jobs, idempotency records | preflight, create | unique indexes, queue, deletion |
| Discovery (`discovery`) | accounts and credentials, runs, pages, items | storeCredential, validateAccount, createRun, execute, cancelRun | provider; a promise in the API process per run |
| Voices and profiles (`voices`, `profiles`) | licence, samples and status of a voice; status and voice of channels and series | update, activate, archive, restore, samples; snapshotForJob | every job takes a snapshot |
| GPU task executors (`batch_executor.py`, `tts.py`, `process.py`, `adapters/`, `tools/`) | workspace files, the model process with its lock and pipes, the prompt cache | execute (download, adapter, upload), run or cancel, prepare, synthesize, stop | agent (progress, cancel event), object store, child processes |
| Settings, review policy; library, dashboard; platform; web UI; contracts; infrastructure | versioned rows, projections, none | CRUD, queries, I/O | |

## 2. What is hard, and what should hold

Most transactions name no isolation level: they run at READ COMMITTED. The consequences
shape the model.

1. **Check, then write.** `withLease` reads the lease, the task and the session, checks
   them, and the handler then writes by primary key. Nothing repeats the checks, so a
   cancel, a reaper or another handler may commit in between. `succeed` and `fail` of the
   control plane runner, `commitOutput`, `startSession`, the heartbeat, `cancelRun`, `activate`
   of a voice and `checklist` have the same shape.
2. **Read siblings, then commit.** A completion reads the status of its siblings in one
   statement and commits in a later one. Two completions do not see each other.
3. **Lists that age.** `reapExpired` lists expired leases with the status and budget of
   their tasks, then releases each in a transaction of its own. A deletion lists files, and
   more may come.
4. **Repeated requests.** Where the isolation is stronger (ingest: REPEATABLE READ,
   import: SERIALIZABLE) the loser of a race has to find the winner's answer. A replayed
   discovery run is dispatched again.

To these come lost workers, lost responses, two clocks (a grant to upload outlives the
lease it was made for), processes that die while they execute, failures of the
transaction that records a failure, results for an attempt that is over, manual retries
that raise a budget, machines that are told to stop while they start, and coroutines of one
process that share an event, a model and a cache with the task before them. `PROJECT.json`
("hazards") lists each at its line, with the property that covers it or the reason why none
does.

What makes the parts correct:

- **leases**: at most one unreleased lease of a task, always that of its latest attempt;
  tokens grow with the attempts; a task is LEASED or RUNNING exactly while it is leased;
  a silent worker does not keep a task for ever;
- **orchestrator**: no task is unlocked before its prerequisites have succeeded, and none
  is left behind when they have; the job row agrees with its tasks;
- **runner**: it only ever records the result of the attempt that is current, and over a cancel
  only if its check came before; a crash does not orphan a task for ever;
- **queue**: a cancel is final for everything that has not succeeded;
- **review and Studio**: an approval resumes the DAG exactly once and is about what is current;
  what is rendered was reviewed, is whole, and is what was approved;
- **registry and agent**: a session holds one lease, whatever gets lost; only the latest
  session of a worker runs anything; a worker that is not wanted becomes idle, one that is wanted comes
  back; a machine shown as safe to terminate runs nothing;
- **executors**: what is accepted of an attempt is its own and whole, and an attempt that
  is cancelled, refused or stuck does not keep the machine;
- **pod**: told to stop, it stops, and leaves no agent behind;
- **deletion**: it ends, leaves no file behind, and never takes a published video;
- **publishing**: proof, post, package and video agree;
- **discovery**: a run is scanned once, within its limits, stops when it is cancelled,
  and is never left behind;
- **ingest and import**: one active ingest job per video, one answer per key, one job per
  file, and nothing queued again that has moved on;
- **voices and profiles**: jobs use licensed voices; no series is in use under an archived
  channel.

## 3. The modules

| Module | Models | Notes |
|---|---|---|
| `PipelineDb` | the tables shared by all, the orchestrator, `cancelJobInTransaction`, the queue's retry | operators and row-level actions; no `Next` of its own |
| `TaskLeases` | the worker task API: one action per handler, the lease clock, sessions, cancel and retry with their effect on leases | complete specification `Spec`, and `FairSpec` |
| `FencedTask` | the abstract promise of the lease protocol: grants under growing tokens to one holder at a time, a result accepted once and final | refined by `TaskLeases` (`KeepsContract`) |
| `TaskLeasesProofs`, `LeaseContractProofs` | theorems about `TaskLeases`: its types and its fencing; the agreement of the rows and the refinement of `FencedTask` | proofs |
| `PipelineProofs` | theorems about `Pipeline`: its types, the order of its tasks, who owns the work, what is final, the agreement of job and tasks | proofs |
| `TaskRunProofs`, `FleetProofs`, `ScriptProofs`, `VideoProofs`, `IntakeProofs` | theorems about `TaskRun` in `WorkerTask`, `Fleet`, the part `Script` of `VideoLifecycle`, the rest of it, and `Intake` | proofs |
| `ControlPlaneRunner` | the runner as a process with phases (what it checks and what it writes are two of them), crash and restart | actions only; composed in `Pipeline` |
| `Pipeline` | workers, runner, reviewer and queue on the same rows, and the process they share | composes `TaskLeases` (INSTANCE) and `ControlPlaneRunner` |
| `WorkerFleet` | the registry's rows of one worker and its agent, with requests and responses in flight | complete specification |
| `TaskRun` | the agent process and the tasks it executes in turn: `_run_task` and its renewer, the executor, the adapters, the model process, the files | `TaskRunInit`, `TaskRunNext` |
| `WorkerTask` | a task from both ends: the control plane that leases it (`TaskLeases`), or the machine that executes it (`TaskRun`) | `TaskSpec` |
| `Pod` | `run_pod` and the supervision of its agents | composed in `Fleet` |
| `Fleet` | a machine from both sides: agent and registry, or supervisor and agents | `FleetSpec` |
| `VideoDb` | the rows and files of one video | shared by the next three |
| `VideoDeletion` | uploads and commits of workers, the subtitle export, Studio, and the deletion with its runner | actions |
| `Publishing` | package, posts, checklist, proofs | actions |
| `Script` | script, dub, subtitles and render of a video: the pipeline from the dub on, the editor, Studio's jobs | actions |
| `VideoLifecycle` | the life of a video in which all of them meet | composes `VideoDeletion`, `Publishing` and `Script` |
| `Discovery` | account, runs and their executions | actions |
| `Ingest` | ingest requests on snapshots, with indexes, replays and second tries, against queue and deletion | actions |
| `LocalImport` | the upload and the commit of a local file | actions |
| `Catalog` | a voice, a channel and a series, with their version checks, and the snapshot of a job | actions |
| `Intake` | how content enters, with what it is configured by | composes `Discovery`, `Ingest`, `LocalImport`, `Catalog` |
| `Content` | what enters (`Intake`), and what becomes of it (`VideoLifecycle`) | `ContentSpec` |
| `MCTaskLeases`, `MCWorkerTask`, `MCPipeline`, `MCIntake`, `MCContent` | instances for TLC | model values, small DAGs, requests |

`WorkerTask`, `Fleet` and `VideoLifecycle` divide a behaviour into *casts*, `Intake` into *parts*
and `Content` into *stages*, chosen in the initial state: the actors that would only multiply
each other's states without touching the same rows do not act in the same behaviour. What one
needs of another enters as what that one decides: `ready` is the outcome of the catalog's
snapshot for the two parts that create jobs, `EditProfile` any change of it; a video that is past
its ingest is `later` to the requests for it.

**State and code.** `status`, `attemptCount`, `maxAttempts`, `progress` are columns of
`pipeline_tasks`; `attempt[t][k]` is the status of the row of `task_attempts` with
number `k`; `job`, `failure` and `video` are columns of `pipeline_jobs` and `videos`;
`lease[t][n]` is the row of `task_leases` with fencing token `n`. `failure` keeps only
whether the queue's retry accepts the code. `current` is the set of worker sessions that
are neither ended nor revoked. `runner` is what the timer of the API process is doing: in the
phases `succeeding` and `failing` it has read its task and not yet written.
`young` holds the control plane tasks whose attempt is younger than the five minutes
`recoverInterrupted` waits for.

**Handlers and transactions.** A handler is a record `[op, task, fence, retry, code, bps]`:
the request together with what its checks read and its writes use (`retry` is the budget
decision). `Check` is the conjunction of the code's guards, `Write` its writes.
`Serve(c)` performs both at once, the interleaving in which nothing interferes. For an
operation of the constant `Overlap`, `Open(c)` performs the checks only and `Finish(c)`
the writes later, on rows that may have changed. A completion may in addition be split
between its reads of the siblings and its commit (`BeginCommit`, `Commit`, when
`SplitCommit`): it is then a record of `committing` and holds the locks of the rows it
has written (`RowFree`), but not the job row, which is written last.

The runner has no `Overlap`: its `succeed` and `fail` are always in two steps, what they check
(`Execute`, `Discard`) and what they write (`Succeed`, `BeginSucceed`, `RecordFailure`), and
anything may commit in between. So is the end of the subtitle export in `VideoDeletion`
(`ExportCheck`, `ExportSucceed`): a deletion between the two cancels the job, which the
export makes active again before its file is linked.

**Contract.** `TaskLeases!Contract` maps a task's attempt count to the token, an
unreleased lease to the holder, the task's status to the outcome, and the attempts that
SUCCEEDED to the accepted tokens. `KeepsContract` says that every step of the protocol is
a step of `FencedTask` or changes nothing it can see.

**Fleet.** Requests and responses are records in flight. A claim, a heartbeat and the start of a
session are each served in two steps, what they read and what they write; a response is applied
to whatever the agent does when it arrives, or lost. `starts` holds the starts that have passed
their checks, each with the session it is to replace (`old`) and whether a process still waits
for it: when it does not, the request goes on all the same, beside that of the next process.
What excludes two of them is the unique index `worker_sessions_one_active` (`StillOpen`).
Identifiers of leases and sessions are used again once nothing remembers them.

**Task run.** `main` says where `_run_task` is, `adapter[a].at` where the coroutine of the
executor or the adapter of attempt `a` waits. A heartbeat in flight names the attempt it
was sent for (`asking`), while the event it may set (`cancel`) is that of whichever task runs
then. `fate[a]` is all the control plane knows of the attempt; what is sent when it is no
longer `held` is refused. An adapter that nobody awaits any more (`StopExecuting` cancels
`execute`, not the adapter it waits for) goes on and ends unseen (`Raises`). The model process is
its two pipes: requests that it has not finished, and answers that nobody has read. A file is
`partial` while it is written, and speech is as good as the prompt it was made with.

**Video.** A file is an asset row with the object behind it and the grants that may still
write it; `stored` objects outlive rows, which is what `NothingLeftBehind` is about. Two
clocks run: the soft lease of the deletion (five minutes) against the grace period
(fifteen) in which old grants (at most five) run out.

**Script.** A script or a dub is a function from segments to segment revisions, `output` what
the latest render was made of, `seen` the page that a reviewer has loaded, as long as
`videos.version` is still the one it shows. What a step of the pipeline takes, and when, is
the point: the render's dubs when it is unlocked (`cut`), its subtitles when it completes, the
subtitles' script when they are exported (`read`), one segment's revision when its job is
created (`input`).

**Intake.** A request is a record with what its snapshot showed. For REPEATABLE READ and
SERIALIZABLE a transaction that updates a row which has changed fails; at READ COMMITTED
(`Catalog`, `cancelRun`, `persistPage`) it writes on what is there. `fresh` in the catalog
says whether the row still has the version that the checks have seen: writes by
`updateMany where version` need it, writes by id do not.

## 4. The runs

Pass runs finish within about three and a half minutes with two TLC workers.

| Run | States | What it asks | What it shows |
|---|---|---|---|
| `worker_task` | 376 k | at the control plane `TypeOK`, `LeaseFencing`, `RowsAgree` (`WorkIsLeased`, `DagRespected` and `JobAgrees`), `EndIsFinal`, `KeepsContract`, `LeasedJobsSettle`, with two sessions, automatic retries, completions split at the commit, and reap, renew and progress split; on the machine `TaskRunTypeOK`, `AcceptedIsWhole`, `AttemptEnds` | tokens stay attempt numbers, at most one lease of a task and of a session is unreleased, the budget is kept (proved with every handler split, section 6); the handlers that run on their own (renew loop, progress reports, another worker's reaper) interfere with nothing: rows agree, what ended stays ended, the contract is implemented; with one polling session that can run every task, every job comes to rest, though no worker ever reports. On the machine, no cancel, refusal, timeout or failure lets one attempt's files or answers pass for another's, or keeps it busy for ever |
| `pipeline` | 350 k | `TypeOK`, `NoEarlyUnlock`, `WorkIsOwned` (`RunnerOwnsWork` and `WorkersOwnWork`), `JobAgrees`, `EndIsFinal`, `OrphansEnd` | GPU workers, runner, reviewer and queue on one DAG with crashes of the process, split completions and the runner's check and writes apart. What the runner writes over a cancel is one task, of whose job nothing else is left to do (`Overwritten`, `Revived`); all else is final and agrees |
| `fleet` | 517 k | `FleetTypeOK`, `OneLeasePerSession`, `OneExecutor`, `UnwantedBecomesIdle`, `RestartResumes`; `NothingSurvivesPod`, `StopReturns` | lost messages, deaths, expiries, drains, revocations and starts of sessions that overlap claims neither let a session hold two leases, nor an earlier session run anything, nor wedge a worker for good, as long as some other worker polls; a pod ends with all its agents whenever it is told to |
| `content` | 848 k | where content enters `IntakeTypeOK`, `ScanStops` (`ScanIsBounded` and `CancelStopsScan`), `RunsAreHeld`, `NothingTwice` (`OneAnswerPerKey`, `OneActiveIngest` and `OneJobPerUpload`), `NoResurrection`, `JobVoicesAreLicensed`; in the library `TypeOK`, `NothingLeftBehind`, `NeverPublished`, `VerifiedIsProved`, `PackageAgrees`, `PublishedWhenVerified`, `DeletionEnds`, `ViewIsCurrent`, `OutputIsWhole`, `OutputIsApproved` | replays, races and retries create one job and one answer each, no run is left behind unless the process dies, cancelled ones stop, and the catalog's version checks do what they are for; in Studio, a decision is about the current script and dub, and an output comes after the review, lacks no voice, and is what was approved unless something changed since; a deletion among workers, exports, Studio and posts in progress ends, takes every file, and takes no published video |
| `lease_cancelled` | - | `CancelledIsTerminal` | violated, see section 7 |
| `runner_cancelled` | - | `CancelledIsTerminal`, of the runner | violated, see section 7 |
| `pipeline_stranded` | - | `NoStranded` | violated, see section 7 |
| `fleet_safe` | - | `SafeMeansIdle` | violated, see section 7 |
| `fleet_drain` | - | `DrainCompletes` | violated, see section 7 |
| `voice_unlicensed` | - | `JobVoicesAreLicensed` with an activation split | violated, see section 7 |
| `series_archived` | - | `NoLiveSeriesUnderArchived` | violated, see section 7 |
| `video_ready` | - | `ReadyHasOutput` | violated, see section 7 |

`worker_task` and `pipeline` leave start, complete and fail of the workers out of `Overlap` on
purpose: those check and write at once there, because otherwise `EndIsFinal` and the
`WorkIsLeased` of `RowsAgree` do not hold, which is the disagreement `lease_cancelled` shows. The
runner has no such exemption: `EndIsFinal` and `JobAgrees` of `pipeline` say what its late writes
do to a cancel, and `runner_cancelled` checks the rule as the documentation states it. In the
same way the catalog of `content` leaves out activate alone, which `voice_unlicensed` splits;
createSeries, archiveChannel and restoreSeries overlap there like all the others, and
`series_archived` shows the one rule that this breaks. Each run says what the remaining
interleavings preserve.

Every property of a passing run has a mutant in `PROJECT.json`: a plausible bug in one
definition (a forgotten budget, a reaper that trusts its list, a grace period for jobs
only, a version that is not required again, ...) for which the property fails. The
mutated operators stand next to the originals, marked "Not faithful, for mutation".

**Bounds, and why they are enough.**

- `AttemptBound` (2 or 3) caps attempts of a task, `InitialMaxAttempts` (1 or 2) stands
  for the schema's default of 3. A manual retry raises the budget by one beyond it, so a
  task goes through a first attempt, a retry of either kind, and exhaustion. Further
  attempts repeat the same transitions with a larger token.
- `MaxCalls` (1) caps handlers between check and write. One
  suffices for any pair: the other one runs as `Serve`, at any point between the two
  halves of the first.
- `ProgressTop = 1` stands for 10000: progress is compared and copied, never computed.
- Two tasks in a chain (`MCTaskLeases`) are the least DAG with an unlock; the five of
  `MCPipeline` are the part of `buildFullPipelineDag` from the dub to the render, where
  the three kinds of executor meet and two prerequisites run side by side.
- In `pipeline` the subtitle export may be tried twice and the GPU tasks once; their
  automatic retry is what `worker_task` exercises.
- `fleet` has two leases and two sessions of one worker, and two requests in flight
  (`MaxRequests`: claims, starts, and a heartbeat of an earlier session): the least with which a
  claim that lost its response overlaps the next one, a session is replaced while a claim of
  it is on its way, and two starts replace the same session. An identifier that something
  still remembers is not given to a new session, so two of them suffice. Workers meet only in the
  reaper, which `OthersPoll` stands for. The pod has two roles, as the image has.
- `worker_task` gives the machine two attempts (`Attempts`) of one segment or variant
  (`Parts`): the second one meets what the first has left behind (an adapter still at work, the lock,
  answers in the pipe, the cached prompt, the event). A second segment of the same attempt
  would meet nothing else: the pipe and the cache do not tell it from the first of the next.
- `fleet_safe` and `fleet_drain` need no faults: one lease, two sessions, one request in flight.
- In the library, `content` has one finished file, one file that a worker may still upload and the subtitle file
  of the control plane, two attempts at a deletion (six in the code: the count only decides when to stop) and two
  required destinations, so that a sibling of a verified post can be revised. Two segments
  are the least with a dub that is partly made; a segment is edited once (`Revisions`), which
  tells its old text and its old voice from the new; Studio has one job at a time that is
  not over (`StudioJob`), and any number of them one after the other. Attempts are not
  counted in `Script`: any of them may be the last.
- Where content enters, `content` has one run with two executions, two pages of two items; two sources, a request
  for both that is sent twice, and another request for one of them, so that a key and a
  video can be contended at the same time; two files and four commits, two of them with one
  key; and one voice, channel and series with two languages. One request of the catalog at a
  time is open between its checks and its writes; the others run at any point in between.
- Deadlock is allowed where the system may come to rest: when all workers have left, the
  job has settled, the video is gone, the pod has returned or every request is answered.
  `Pipeline` never stops: the review of a video that is already decided, and the crash of
  the process, remain possible.

## 5. Fairness

`TaskLeases!FairSpec` assumes that

- every lease expires in the end (`Expire`, weakly fair for each lease). That is a supposition
  about workers and not only about clocks: it says that none renews for ever, which its executor's
  timeout ends and nothing in the control plane does. `JobsSettle` names it (from some point on no
  renewal is open);
- while some session is connected, an expired lease is reaped, and a handler that is open
  commits: an agent polls `claim` every two seconds when it has no task, and `claim` begins with
  `reapExpired`. Without any session nothing is reaped;
- a session without a task that keeps finding a READY one it can run eventually claims one.

Given these, what `LeasedJobsSettle` adds is the budget: a job comes to rest although its tasks
are claimed, expire, are reaped and retried again and again.

Nothing is assumed of a worker that holds a task: it may never start, renew or report.
That is why `JobsSettle` says that jobs *settle* (SUCCEEDED, FAILED or CANCELLED) and not
that they succeed. It is stated under the premise that one session with the capabilities
for all GPU tasks stays connected; without any such session nobody reaps, and a job may
stay RUNNING for ever.

`Pipeline!FairSpec` assumes that the runner's timer keeps ticking and whatever it executes
returns or throws, that a process that died is started again, that time passes, and
(strongly fair) that the recovery of an interrupted task is not cut off by a crash each
time it is tried. It assumes nothing of workers, reviewer or queue.

`WorkerTask!TaskFairness` is that of `TaskLeases` where there are sessions. On the machine,
every coroutine that can go on does, calls to the control plane end with an answer, a refusal
or an error (the HTTP client has a timeout), tools end or are killed when
their time is over, and a request to the model is answered or times out. Nothing makes the
model answer, a renewal or a heartbeat arrive, or a cancel happen.

`WorkerFleet` and `Fleet` assume that the supervisor restarts the agent, which asks for a session
whenever it may (`CheckStart`), that a start that was checked is written or fails (`ServeStart`),
and that of those that an agent waits for again and again, not every one is given up first
(`Answer`, strongly fair: no single request is sure to be answered); that a running agent polls, its heartbeats are answered
and its executor ends (it has a timeout), that requests in flight are served or lost,
that leases expire, and that some worker polls (`Reap`, only if `OthersPoll`). The
operator need not do anything. `RestartResumes` does not hold without `OthersPoll`: the
only worker of a fleet, locked out by a lease it has lost track of, waits for a reap that
only its own claim would cause. In the pod, a coroutine that can go on does, a launch and
the startup end in some way, the grace period ends, and nothing makes an agent exit.

`Content!ContentFairness` assumes, of the library, that the deletion's timer ticks while the
process is up, that due dates and the grace period come and grants run out, and (strongly fair)
that a failure is recorded in the end. `DeletionEnds` is stated for deletions during which,
from some point on, the process is up and no worker holds a lease on the video's tasks. Of what
enters it assumes nothing: `RunsAreHeld` says instead that an unfinished run always has an
execution that goes on with it. As an execution scans a bounded number of pages, the run then
ends if the promise goes on; where the process has died nothing takes it up, and no document
says that something should.

## 6. What is proved

Eight modules of proofs, at least one for each specification that a run checks. All theorems are
about the same specification as the run, for **every** value of the constants that meets their
assumptions: functions have the right domains, bounds are naturals, `Nobody` is no session. TLC
evaluates the assumptions in each run.

| Module | Theorem | States | Rests on |
|---|---|---|---|
| `TaskLeasesProofs` | `TypeCorrect`, `FencingHolds` | `TypeOK`, `LeaseFencing` | `IndInv` |
| `LeaseContractProofs` | `RowsStayConsistent`, `EndsAreFinal`, `LeasesKeepContract` | `RowsAgree`, `EndIsFinal`, the refinement `KeepsContract` | `RowsInv`; under `Atomic`, `OneAtATime`, `JobsHaveTasks` |
| `PipelineProofs` | `PipelineTypeCorrect`, `TasksAreUnlockedInOrder`, `WorkHasOneOwner`, `PipelineEndsAreFinal`, `JobsAgreeWithTasks` | `TypeOK`, `NoEarlyUnlock`, `WorkIsOwned`, `EndIsFinal`, `JobAgrees` | `TypeInv`; under `Atomic`, `PipelineInv`; for the last, under `LastTask` and `JobsHaveTasks` too, `JobInv` |
| `TaskRunProofs` | `TaskRunTypeCorrect`, `AcceptedResultsAreWhole` | `TaskRunTypeOK`, `AcceptedIsWhole` | `RunInv` |
| `FleetProofs` | `FleetTypeCorrect`, `PodLeavesNothing`, `SessionHoldsOneLease`, `LatestSessionRuns` | `FleetTypeOK`, `NothingSurvivesPod`, `OneLeasePerSession`, `OneExecutor` | `PodInv`, `LeaseInv` |
| `ScriptProofs` | `DecisionsAreCurrent`, `RendersAreWhole`, `RendersAreApproved` | `ViewIsCurrent`, `OutputIsWhole`, `OutputIsApproved` | `ScriptInv` |
| `VideoProofs` | `VideoTypeCorrect`, `DeletedIsUnpublished`, `TasksAreProved`, `PackagesAgree`, `VideosArePublishedWhenVerified`, `NothingIsLeftBehind` | `TypeOK`, `NeverPublished`, `VerifiedIsProved`, `PackageAgrees`, `PublishedWhenVerified`, `NothingLeftBehind` | `PublishingInv`, `DeletionInv`, and for the last, under `~QuickRetry`, `UploadInv` |
| `IntakeProofs` | `IntakeTypeCorrect`, `ScansStop`, `NoRunLeftBehind`, `NothingIsDoneTwice`, `NoVideoResurrected`, `JobsAreLicensed` | `IntakeTypeOK`, `ScanStops`, `RunsAreHeld`, `NothingTwice`, `NoResurrection`, `JobVoicesAreLicensed` | `ImportInv`, `ScanInv`, `IngestInv`, `CatalogInv` (with `LicenceInv`, and for the last, `Overlap` restricted) |

Each follows the same plan: the inductive invariant holds initially, each action keeps it
(one lemma for each action or kind of action, one step for each conjunct it can disturb), and it
implies the property. TLC has checked the invariants on the instances of the runs.

**Leases.** `IndInv == TypeOK /\ LeaseFencing` needs no restriction of `Overlap` or `MaxCalls`;
neither half is inductive alone. `TypeOK` needs `TokensAreAttempts`, because a completion
writes the attempt that its lease names, which must be one that exists. `LeaseFencing` needs
more than the statement one would like to make (one unreleased lease, of the latest attempt):

- `TokensAreAttempts`: `claim` computes the next token from the leases there are
  (`_max(fencingToken) + 1`) and the attempt number from the task (`attempt_count + 1`).
  The lemma `LatestFenceIsCount` shows that they agree because every attempt was granted a
  lease, so a new lease never lands on a used token;
- `HandlersWereGranted`: a handler that passed its checks long ago may write now, after
  its lease was released, its task claimed again, or its job cancelled. All that is left of its
  checks is that the lease it names was granted once. That is enough: it releases that
  lease and ends that attempt, both of which the invariant allows at any time
  (`EndLeaseFencing`), and never touches another;
- `OneLeasePerSession` and `WithinBudget` follow from the guard of `claim`, and stay true
  because no handler revives a released lease (`renew` writes the deadline only) and a
  retry only raises the budget.

**Rows and contract.** `RowsInv` adds to `IndInv` the agreement of the rows (`RowsAgree`),
that an attempt which has not been counted has not been made (`UncountedIsNone`: without it the
result that a completion accepts could be there already), and what an open completion
knows (`CommitsHold`): its lease is unreleased, and what it will write (`WritesHold`: whom it
unlocks, what becomes of the job) still follows from the rows. The hypotheses:

- `Atomic`: start, complete and fail are not in `Overlap`. The run `lease_cancelled` shows that
  `EndIsFinal` is lost otherwise;
- `OneAtATime`: if completions read before they commit (`SplitCommit`), any two tasks of a job
  wait for one another, directly or by way of others (`Before`, a relation that
  `EarlierSucceeded` carries through the steps). Two open completions of one job would
  miss each other: the run `pipeline_stranded`. Without `SplitCommit` the dependencies are arbitrary;
- `JobsHaveTasks`: a job without tasks is not SUCCEEDED although all of its tasks are.

`LeasesKeepContract` is the refinement of `FencedTask`, step by step: a claim is a `Grant`
under the next token, a completion accepts the result of the latest one, fail and reap end a grant,
a cancel withdraws, a retry reopens, and everything else is a stutter
(`QuietRows`). `EndsAreFinal` follows from the same steps (`FinalStep`).

**Pipeline.** Here workers, the runner, the reviewer and the queue write the same rows. The
proof keeps the rows and the executors apart.

- *Rows.* To tasks, jobs and open completions, a step of any executor is one of the six of
  `RowsNext`: a task moves on, a completion begins, one is applied, the reviewer approves, a
  job is cancelled, or nothing happens but a rollback (`StepOwns`). The first three may also
  start from a CANCELLED task whose check the runner has behind it (`Resumes`): its writes are
  proved to be those of a task that is RUNNING, because the cancel has left its attempt, its
  prerequisites and the rest of its job as they must be (`HeldInv`). `RowsInv` is proved of those
  six (`RowsKeep`): what an open completion is about to write still follows from the rows
  (`WritesHold`), two of them never unlock the same task, since it waits for both, and a job
  that ended has no task left to work on (`EndedJobs`). From it follow `NoEarlyUnlock` and
  `EndIsFinal`.
- *Executors.* `OwnersInv` adds to `WorkIsOwned` that an open completion holds its lease or is
  the one the runner is committing (`CommitsAreOwned`), and that a recovering process has found
  only tasks that are still RUNNING (`FoundAreRunning`). It lasts through a crash, which
  rolls back what is open, because leases and attempts are released by the same
  transaction that ends the work.
- *Jobs.* `JobInv`: while completions read their siblings before they commit, the last one must
  know that it is the last (`LastKnows`). Two siblings that are completed at the same time
  do not; the hypothesis `LastTask` says that each job has a task that waits, directly or by
  way of others, for all its others. `buildFullPipelineDag` has one, RENDER, and the jobs of
  Studio and ingest have a single task. It is weaker than `OneAtATime`: side by side, SEPARATE_AUDIO
  and EXPORT_SRT may be completed at once. What that costs is `NoStranded`, in
  the run `pipeline_stranded`, not `JobAgrees`.

`PipelineTypeCorrect` needs no hypothesis; the others need `Atomic`, as the contract does. `Atomic`
is about the handlers of workers only. The runner's check and its writes are apart in all
theorems, so `PipelineEndsAreFinal` and `JobsAgreeWithTasks` do not say that a cancel is final,
which is false (`runner_cancelled`), but what is all that can be written over it: the one task of
the runner, while the rest of its job stays over.

**The machine.** `RunInv` rests on the pipes of the model process (`ModelServes`): between
request and response they hold the line of the attempt that has the lock and nothing else,
because whatever interrupts a request stops the process. So a response is about the file that is
used next (`ResponsesAreTrue`), a prompt is replaced by whole ones only (`PromptIsWhole`), and
parts are made from the last to the first (`PartsAreWhole`). An orphaned adapter can spoil
nothing that was accepted: an accepted attempt is done, and files are written by an adapter
for its own attempt only.

**Pod and registry.** `PodInv`: an agent that `_supervise` does not watch is not alive, none is
launched before `StartAgents`, and when the pod has returned every role is over. `LeaseInv`:
a session has one claim in flight at most, and what a claim has checked holds until it commits
(`ChecksHold`), whatever session is the latest by then: leases are looked up by session, and no
other claim of that session is on its way. A claim of a session that has been replaced meanwhile
adds a lease to it, which `OneLeasePerSession` covers and which nobody runs: once an agent has its
session, no start that is still in flight can replace it (`StartsAreOld`), because the one that
was served has replaced the session that the others had read. That is `OneExecutor`.

**Script.** `StepsInOrder`: a task that is open, or over, comes after all that it needs. From it,
the dubs that `prepareTask` hands to a render are complete (`InputsAreVoiced`), and as long as
nothing has changed since the review they, and what the export of subtitles has read, are the
current ones (`InputsAreCurrent`).

**Publishing and deletion.** `PublishingInv` is the type and the two properties, by the cases of
`Project`. In `DeletionInv`, the deletion owns a video from its request on: only its runner takes
it further (`TickIsDue`, `OthersAreQuiet`), and meanwhile none of its finished files is AVAILABLE
(`OutputsFollowVideo`), so nothing can be posted. `UploadInv` is about time: an upload URL that
was live when its asset was marked ends before the grace period does, and no new one is signed for
a marked asset. It needs `~QuickRetry`: a failed deletion that is requested again within a
minute skips that wait (section 7, observations).

**Intake.** Each part has an invariant of its own, and a step of one leaves the variables of the
others alone. `ScanInv`: one execution scans a run (`OneScanner`), its counts agree with the
row's (`CountsAgree`), and after a page that came late none is under way (`LateEnds`). `RunsAreHeld`
is inductive on top of it: an execution lets go of a run only by ending it, or by finding it
taken by another or ended. `IngestInv`
says what an open transaction knows (`VerdictHolds`: unless a video has changed since, which its
commit notices, it may still be queued) and that the answer to a key is what is stored for it
(`AnswerIsStored`). `ImportInv`: a commit whose snapshot is current finds its file not yet imported.
`CatalogInv`: what a request has read is so while the row keeps its version (`ReadHolds`);
`JobsAreLicensed` needs activate not to overlap, and the run `voice_unlicensed` shows why.

**What the proofs found.** An open request of the catalog was taken for the model's "no
request" when it was equal to it, and was lost: `NoRequest` is now an operation of its own. `NeverPublished` needs a video to have a finished file
(`Output # {}` in `AssetAssumption`): in the code `createPackage` refuses an output whose video
file is not available. An attempt of the
subtitle export that ends must take what it has read with it (`InputsAreCurrent`), or a later
attempt could store a script older than the review; the code reads inside the attempt.

**Only model-checked.** Liveness (`LeasedJobsSettle`, `AttemptEnds`, `OrphansEnd`,
`UnwantedBecomesIdle`, `RestartResumes`, `StopReturns`, `DeletionEnds`) is out of the prover's reach, as is ENABLED. Every safety invariant and action property of a
passing run is a theorem. Some have hypotheses about how handlers overlap; outside of them
nothing is proved, and `lease_cancelled` and `voice_unlicensed` show what then goes wrong.

## 7. Where the code and the documentation disagree

1. **A cancelled task can come back** (`lease_cancelled`). `queue-lifecycle.md:86` calls
   CANCELLED and SUCCEEDED terminal, and `cancel-job.ts:11` says a worker's late
   complete is refused. `start` and `complete` write by primary key after their checks: if a
   cancel commits in between, the CANCELLED task becomes RUNNING or SUCCEEDED again, with
   its lease released. The same gap lets `complete` and `fail` of one attempt both
   succeed.
2. **The runner, too, takes back a cancel** (`runner_cancelled`). `succeed` and `fail` of
   `control-plane-runner.ts` (169, 189) read the task without a lock and write attempt, task
   and job by primary key after many other statements (171-182, 192-207). A cancel that commits in
   between is overwritten: the CANCELLED task becomes SUCCEEDED, READY or FAILED, with its attempt
   SUCCEEDED or FAILED, and its job is written or projected anew, next to siblings that stay
   CANCELLED. What `pipeline` shows is that this is all: it is that one task, no other task of
   the job has anything left to do, and nobody else's result or cancel is touched.
3. **A task can be left BLOCKED with all prerequisites SUCCEEDED** (`pipeline_stranded`).
   `worker-task-execution.md:187` says completing opens the next dependency. When audio
   separation (a worker) and the subtitle export (the runner) complete in overlapping
   transactions, each reads the other as unfinished and the render is never unlocked.
4. **A busy worker is shown as safe to terminate** (`fleet_safe`).
   `gpu-worker-control-plane.md:203` says that only a worker without leases becomes
   SAFE_TO_TERMINATE. The heartbeat counts leases in one statement and writes the status in
   a later one; a claim that saw the worker ACTIVE before the drain may commit in between.
5. **A drained worker may never become safe** (`fleet_drain`).
   `gpu-worker-control-plane.md:67` and `control-plane-compose.md:187` promise the operator
   that a drain ends in SAFE_TO_TERMINATE. An agent that learns of the drain while it works
   leaves when its task is done, without the idle heartbeat that would say so.
6. **An unlicensed voice may be READY** (`voice_unlicensed`). `voice-library.md:19` says a
   voice is READY only if its commercial use is allowed. `activate` decides on the row it
   has read and writes by id; an update that revokes the licence in between is forgotten,
   and jobs are created with the voice.
7. **A live series under an archived channel** (`series_archived`).
   `channel-series-profiles.md:336-337` says that archiving a channel is refused while one of its
   series is not archived. `archiveChannel` counts the series, and `createSeries` and
   `restoreSeries` read the status of the channel, at READ COMMITTED and before they write rows of
   their own: when they overlap, both commit.
8. **A video without output may be READY_TO_PUBLISH** (`video_ready`). `video-library.md:89`
   says that such a video has an approved output. Any job whose tasks have all succeeded
   sets the status (`refreshAggregateStatus`), also the one that dubs a single segment
   again: if the full pipeline was cancelled or failed before its render, nothing was
   ever rendered.

Observations made on the way, which no run is about:

- `startSession` refuses to replace a session that holds a lease, but looks for one at READ
  COMMITTED and replaces the session in a later statement: a claim of the old session that
  commits in between leaves a lease with a session that has ended. What
  `gpu-worker-control-plane.md:152-153` wants of it, no two executors of one identity, holds
  nevertheless (`OneExecutor`): the process that sent the claim has died, the answer reaches
  nobody, and the lease is reaped when it expires.
- `queue-lifecycle.md:135` speaks of successors; the queue's retry compares creation times
  (`RetryConflict`), so a failed separation cannot be retried once the subtitle export,
  created later but independent of it, has run.
- The comment in `control-plane-runner.ts:66` says a later poll retries database-level
  failures. When the transaction of `fail` itself fails, the task stays RUNNING until the
  process is started again (`Orphan`; `OrphansEnd` says that a start does end it).
- An edit after the approval does not undo it: `studio-domain-analysis.md:20` and
  `database-design.md:934` say that it makes the decision stale and forces another review, but
  the pipeline goes on, renders the old dub with the new subtitles (or the old ones, if they
  had been exported) and sets the video READY_TO_PUBLISH. While the review gate is open the
  job is active, so a segment that is edited then cannot be dubbed again before the approval.
- Studio's render takes the current dubs but never exports the subtitles again, so an
  output may show the old text with the new voice (`manual-checklist.md:189` expects cues that match).
  It also renders without subtitles when their export has failed.
- The queue's retry looks at its own job only: a full pipeline and a job of Studio can be
  active on one video, although `createJob` excludes that.
- The web UI sends reviews of the scope SCRIPT, while only an approval of the scope TTS opens
  the gate. `previewAsset` orders takes by a number that starts again with each revision of
  the segment, so it may play an older one.
- `cancelRun` writes CANCELLED by id: a run that has ended meanwhile becomes CANCELLED.
- Nothing in the repository approves a render output, so `createPackage` always finds its
  assets unavailable; `ApproveOutputs` is an external action of the model.
- A subtitle export whose row is not linked to the video leaves its object behind; a
  deletion that is requested again within a minute of a reschedule gives pending uploads no
  grace period (`QuickRetry`, off in `content`, reproduces it); a duplicate upload of a local
  file within ten minutes after its video has been deleted does the same.
- `verify` looks neither at the status of its post nor projects the package: an old proof of
  a post that was revised can still be verified, and the video stays PUBLISHED when a
  revision is requested.
- Of two ingest requests with different keys for one FAILED video the loser gets a
  serialization failure, which becomes a 500, and so does the second of two concurrent
  commits of an import; `ingest-job-creation.md` promises ALREADY_QUEUED.
- Archiving a voice and taking it as a default do not exclude each other.
- A cookie that is revoked is used until the scan ends, and `validateAccount` records an
  answer about a cookie that may have been replaced.
- The heartbeat's cancel flag may be set for the task that follows the one it is about
  (`HearAnswer`, and `HearHeartbeat` in `TaskRun`), which costs that task an attempt. A late heartbeat may overwrite
  TERMINATED or DRAINING until the next one. A lost enroll response spends the token.
- A renewal that is refused or fails while `_run_task` completes or reports comes out of its
  `finally` (`await renewer` suppresses only the cancellation): the task stays active, its
  workspace is not finished, and the process ends (`LeaveTask`, and `Abandon` in
  `WorkerFleet`). The supervisor starts it again; `WorkspaceLifecycle.reap` has no caller.
- Cancelling `execute` while it waits in `_run_or_cancel` does not cancel the adapter: after a
  refused renewal a render goes on beside the next task until it ends or times out. No file
  is shared, so `AcceptedIsWhole` holds; the GPU is.

## 8. Abstractions and what is not modelled

- **Time.** No clock: a lease (60 s) may expire at any moment, a retry back-off (15 s) is
  a claim that comes later, transactions may stay open longer than Prisma's timeout. The
  model allows more behaviours than the deployment.
- **The reaper inside `claim`.** Its transactions precede that of the claim and are
  modelled as reaps of their own, at any time.
- **Claim's requirements** (role, capabilities, VRAM, scratch space, manifests, approved
  image, heartbeat age, drain) are the set `CanRun[s]`; sessions end but are not started.
  `READY` rows that another transaction has locked are skipped, as `SKIP LOCKED` does.
  Claim's condition that the task has no unreleased lease is also a partial unique index
  of the database (`task_leases_one_active_per_task`).
- **One task at a time.** `TaskLeases` takes two claims of one session not to overlap.
  `WorkerFleet` does not, and shows (`OneLeasePerSession`) that a session holds one lease.
- **Requests that outlive their process.** A claim, a start or a heartbeat that has been sent is
  served whatever becomes of the agent: it may begin and commit after the next start, and nothing
  is derived from how long the supervisor waits or a transaction may take. `MaxRequests` bounds
  how many of them there are.
- **One enrolment.** A worker enrols once: while it is wanted its session stays open (and so does
  its billing session), and `enroll` asks that there is none.
- **Fleet**: image and version checks, heartbeat sequence numbers (one heartbeat is in
  flight at a time), billing rows and idempotency records are left out; in the pod, the
  length of the back-off, exit codes and logs.
- **Task run**: the process is not killed (`Crash` in `WorkerFleet` is); a model process that
  outlives a killed agent is left out, and so are its restarts between two requests, after
  a number of them or when its memory has grown, which leave the pipes as empty as they
  were. Stopping a process is one step: nothing else of its coroutine runs meanwhile, and the
  lock is held. Workspaces and their clean-up, input checks and the cache of inputs are left
  out; the files of an attempt are in a directory of its own.
- **Video**: one video; versions, which only refuse requests (but for the review in `Script`),
  and dates of posts are left out; grants last as long as the code's constants say (`GrantExpires` before `GraceEnds`).
- **Script**: takes of one revision are not told apart, both render variants are one output,
  the success and failure of a step are atomic also where the runner executes it (`Pipeline` has
  its check and its writes apart), and the video is not deleted in this cast
  (`DELETION_STATUSES` is in the guards, and the other casts exercise it).
- **Intake**: watchlists, categories and the items' rows are counts; the provider is any
  answer; the executor of ingest jobs (resource class IO) is not part of the repository and
  is external. A voice, channel and series are the columns that decide whether jobs may use
  them; all other edits are an update that changes none of these.
- **Serializable transactions** (cancel, retry, review) are atomic and take effect only
  when no open completion holds a row they need: otherwise PostgreSQL makes them wait and
  fail, and the client repeats the request. Version checks and idempotency keys, which
  only refuse requests, are left out.
- **One API process.** The code takes no measure against a second one beyond the row
  locks; the deployment (`compose.yaml`) runs one.
- **Creation order.** `CreatedAfter` orders tasks as `local-imports` creates them, one
  `create` after another.
- **Left out of the rows** of `PipelineDb`: assets, revisions, manifests, outputs and grants, events,
  audit and outbox records, priorities, timestamps shown to users. `VideoDeletion` has the
  guard that keeps the status of a video that is being deleted.
- **Not modelled**: settings and review policy are single versioned rows, read by a
  snapshot and written by one request at a time; the library and the dashboard only read;
  the API platform is configuration and I/O; the web UI and the contract packages, the larger
  part of the repository's lines, present or generate what the API defines and keep no state
  that the pipeline depends on; what the executors' tools compute is beyond a model checker;
  infrastructure is deployment. `PROJECT.json` gives each
  with its reason, and for the components that are modelled in part what is left out.

## 9. Plan

The components with a protocol of their own are modelled, and the safety properties of all
specifications are proved. What is left: the weakest hypotheses. `RowsStayConsistent` asks
for `OneAtATime`, while for `Pipeline` the agreement of job and tasks needs only `LastTask`; and
what survives handlers that write long after their checks, without `Atomic`, is open beyond
types and fencing.
