------------------------------- MODULE Ingest -------------------------------
(***************************************************************************)
(* Turning discovered content into videos with ingest jobs                 *)
(* (PrismaIngestRepository.create).  A request selects content, may be     *)
(* sent again with the same idempotency key while the first is under way,  *)
(* and runs against other requests, the queue and the video's deletion.    *)
(* Its transaction is REPEATABLE READ: it judges every item on a snapshot, *)
(* and what it writes fails if a row it updates has changed since, or if a *)
(* unique index already holds what it inserts.  The loser of a unique race *)
(* looks for the answer of its key, and tries once more.                   *)
(***************************************************************************)
EXTENDS Naturals, FiniteSets

CONSTANTS
    Source,      \* source content, on one channel
    Request,
    KeyOf,       \* the idempotency key of a request
    Selected     \* the content it selects: equal for equal keys

ASSUME IngestAssumption ==
    /\ Selected \in [Request -> SUBSET Source]
    /\ {} \notin {Selected[r] : r \in Request}
    /\ \A r, q \in Request : KeyOf[r] = KeyOf[q] => Selected[r] = Selected[q]

VARIABLES
    videoOf,   \* videos.status of the video of a source: "later" is any of the pipeline after it
    jobs,    \* its ingest jobs: how many are active, how many have failed
    ready,   \* whether the profile lets jobs be created (ensureJobReady)
    request, \* the requests
    answers  \* idempotency_records: the stored response of a key

ingestVars == <<videoOf, jobs, ready, request, answers>>

Key == {KeyOf[r] : r \in Request}
VideoState == {"none", "INGEST_QUEUED", "FAILED", "later", "deleting"}
Result == {"CREATED", "ALREADY_QUEUED", "ALREADY_INGESTED", "SKIPPED_INVALID"}
Answer == UNION {[Selected[r] -> Result] : r \in Request}
NoAnswer == [s \in {} |-> "CREATED"]

(* A request: seen is the verdict on its snapshot, based the videos it      *)
(* updates, stale those that have changed since.                            *)
NewRequest == [phase |-> "new", tries |-> 0, seen |-> NoAnswer, based |-> {}, stale |-> {},
               reply |-> NoAnswer]

-----------------------------------------------------------------------------
(* What the transaction sees: evaluate. *)

Disposition(s, usable) ==
    IF ~(usable /\ ready) THEN "SKIPPED_INVALID"
    ELSE IF jobs[s].active > 0 THEN "ALREADY_QUEUED"
    ELSE IF videoOf[s] \in {"later", "deleting"} THEN "ALREADY_INGESTED"
    ELSE "CREATED"

(* Every video that is written makes the snapshots of open transactions stale. *)
Outdated(ss) == [r \in Request |->
    [request[r] EXCEPT !.stale =
        IF request[r].phase = "open" THEN @ \cup (ss \cap request[r].based) ELSE @]]
Touch(s) == request' = Outdated({s})

(* What is left of a transaction that is over. *)
RequestEnded(r, phase, reply) ==
    [NewRequest EXCEPT !.phase = phase, !.tries = IF phase = "answered" THEN 0 ELSE request[r].tries,
                       !.reply = reply]

Begin(r, usable) ==
    /\ \/ request[r].phase = "new"
       \/ request[r].phase = "lost" /\ request[r].tries = 1 /\ answers[KeyOf[r]] = NoAnswer
    /\ LET verdict == [s \in Selected[r] |-> Disposition(s, usable)]
           stored == answers[KeyOf[r]]
       IN  request' = [request EXCEPT ![r] =
               IF stored # NoAnswer THEN RequestEnded(r, "answered", stored)
               ELSE IF \A s \in Selected[r] : verdict[s] = "SKIPPED_INVALID"
                    THEN RequestEnded(r, "refused", NoAnswer)
               ELSE [@ EXCEPT !.phase = "open", !.tries = request[r].tries + 1, !.seen = verdict,
                              !.based = {s \in Selected[r] : videoOf[s] # "none"}]]
    /\ UNCHANGED <<videoOf, jobs, ready, answers>>

Creates(r) == {s \in Selected[r] : request[r].seen[s] = "CREATED"}

(* Not faithful, for mutation: READ COMMITTED does not notice the change. *)
NoConflict(r) == FALSE

(* A video it updates has changed, or is gone: not a unique error. *)
Conflict(r) == Creates(r) \cap request[r].based \cap request[r].stale # {}

ActiveTaken(s) == jobs[s].active > 0

(* Not faithful, for mutation: the response is stored by an upsert. *)
Upserted(r) == FALSE

AnswerTaken(r) == answers[KeyOf[r]] # NoAnswer

UniqueTaken(r) ==
    \/ \E s \in Creates(r) : (s \notin request[r].based /\ videoOf[s] # "none") \/ ActiveTaken(s)
    \/ AnswerTaken(r)

CommitRequest(r) ==
    /\ request[r].phase = "open"
    /\ ~Conflict(r) /\ ~UniqueTaken(r)
    /\ videoOf' = [s \in Source |-> IF s \in Creates(r) THEN "INGEST_QUEUED" ELSE videoOf[s]]
    /\ jobs' = [s \in Source |-> IF s \in Creates(r) THEN [jobs[s] EXCEPT !.active = @ + 1] ELSE jobs[s]]
    /\ answers' = [answers EXCEPT ![KeyOf[r]] = request[r].seen]
    /\ request' = [Outdated(Creates(r)) EXCEPT ![r] = RequestEnded(r, "answered", request[r].seen)]
    /\ UNCHANGED ready

(* The transaction fails, by a unique error or, for good, by another. *)
Lose(r) ==
    /\ request[r].phase = "open"
    /\ \/ UniqueTaken(r) /\ request' = [request EXCEPT ![r] = RequestEnded(r, "lost", NoAnswer)]
       \/ Conflict(r) /\ request' = [request EXCEPT ![r] = RequestEnded(r, "refused", NoAnswer)]
    /\ UNCHANGED <<videoOf, jobs, ready, answers>>

(* The winner's response is the loser's; without one and another try, it fails. *)
TakeWinner(r) ==
    /\ request[r].phase \in {"lost", "refused"}
    /\ \/ answers[KeyOf[r]] # NoAnswer
       \/ request[r].phase = "refused" \/ request[r].tries = 2
    /\ request' = [request EXCEPT ![r] =
                     RequestEnded(r, IF answers[KeyOf[r]] # NoAnswer THEN "answered" ELSE "failed",
                                  answers[KeyOf[r]])]
    /\ UNCHANGED <<videoOf, jobs, ready, answers>>

-----------------------------------------------------------------------------
(* What else happens to the video and its jobs. *)

(* The download (no executor under src/): it fails or the pipeline goes on. *)
DownloadFails(s) ==
    /\ jobs[s].active > 0
    /\ jobs' = [jobs EXCEPT ![s] = [active |-> @.active - 1, failed |-> 1]]
    /\ videoOf' = [videoOf EXCEPT ![s] = "FAILED"]
    /\ Touch(s)
    /\ UNCHANGED <<ready, answers>>

DownloadEnds(s) ==
    /\ jobs[s].active > 0
    /\ jobs' = [jobs EXCEPT ![s].active = @ - 1]
    /\ videoOf' = [videoOf EXCEPT ![s] = "later"]
    /\ Touch(s)
    /\ UNCHANGED <<ready, answers>>

(* A later job of the video fails. *)
PipelineFails(s) ==
    /\ videoOf[s] = "later"
    /\ videoOf' = [videoOf EXCEPT ![s] = "FAILED"]
    /\ Touch(s)
    /\ UNCHANGED <<jobs, ready, answers>>

(* Queue: cancel leaves the video as it is, *)
CancelIngest(s) ==
    /\ jobs[s].active > 0
    /\ jobs' = [jobs EXCEPT ![s].active = @ - 1]
    /\ UNCHANGED <<videoOf, ready, request, answers>>

(* and so does retry, which only the index keeps from a second active job. *)
RetryIngest(s) ==
    /\ jobs[s].failed > 0 /\ videoOf[s] # "deleting"
    /\ ~ActiveTaken(s)
    /\ jobs' = [jobs EXCEPT ![s] = [active |-> @.active + 1, failed |-> @.failed - 1]]
    /\ UNCHANGED <<videoOf, ready, request, answers>>

(* The deletion cancels the jobs of the video, and later removes its rows. *)
DeleteVideo(s) ==
    /\ videoOf[s] # "none"
    /\ jobs' = [jobs EXCEPT ![s].active = 0]
    /\ videoOf' = [videoOf EXCEPT ![s] = "deleting"]
    /\ Touch(s)
    /\ UNCHANGED <<ready, answers>>

VideoGone(s) ==
    /\ videoOf[s] = "deleting" /\ jobs[s].active = 0
    /\ jobs' = [jobs EXCEPT ![s].failed = 0]
    /\ videoOf' = [videoOf EXCEPT ![s] = "none"]
    /\ Touch(s)
    /\ UNCHANGED <<ready, answers>>

EditProfile ==
    /\ ready' = ~ready
    /\ UNCHANGED <<videoOf, jobs, request, answers>>

-----------------------------------------------------------------------------
IngestInit ==
    /\ videoOf = [s \in Source |-> "none"]
    /\ jobs = [s \in Source |-> [active |-> 0, failed |-> 0]]
    /\ ready \in BOOLEAN
    /\ request = [r \in Request |-> NewRequest]
    /\ answers = [k \in Key |-> NoAnswer]

Handle(r, usable) == Begin(r, usable) \/ CommitRequest(r) \/ Lose(r) \/ TakeWinner(r)

Others(s) ==
    \/ DownloadFails(s) \/ DownloadEnds(s) \/ PipelineFails(s)
    \/ CancelIngest(s) \/ RetryIngest(s)
    \/ DeleteVideo(s) \/ VideoGone(s)

IngestTypeOK ==
    /\ videoOf \in [Source -> VideoState]
    /\ \A s \in Source : jobs[s].active \in Nat /\ jobs[s].failed \in 0..1
    /\ ready \in BOOLEAN
    /\ \A r \in Request :
         /\ request[r].phase \in {"new", "open", "lost", "refused", "answered", "failed"}
         /\ request[r].tries \in 0..2
         /\ request[r].seen \in Answer \cup {NoAnswer}
         /\ request[r].reply \in Answer \cup {NoAnswer}
    /\ answers \in [Key -> Answer \cup {NoAnswer}]
=============================================================================
