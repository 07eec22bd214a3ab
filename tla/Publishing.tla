----------------------------- MODULE Publishing -----------------------------
(***************************************************************************)
(* Publishing a finished video by hand: one package with a task per        *)
(* destination; its content is written and approved, posted by the         *)
(* operator, proved and verified (PrismaPublishingRepository).             *)
(*                                                                         *)
(* Every operation checks the version of the task the client has seen, so  *)
(* an action here is an operation with the current version; the others are *)
(* refused.  Most transactions are Serializable.  The checklist's runs at  *)
(* READ COMMITTED: it checks in one statement and writes in later ones,    *)
(* and the version it increments it does not check again.                  *)
(***************************************************************************)
EXTENDS VideoDb

CONSTANTS
    Destination, \* one publication task per destination
    Required,    \* the tasks whose destination is required
    Field,       \* content fields of a task
    MaxCalls     \* BOUND: checklist requests open at the same time

ASSUME PublishingAssumption ==
    Required \subseteq Destination /\ IsFiniteSet(Field) /\ MaxCalls \in Nat

VARIABLES
    approved,  \* whether the render outputs are APPROVED
    package,   \* publish_packages.status
    task,      \* publication_tasks: status and content
    checked,   \* whether the required checklist items of a task are COMPLETED
    proof,     \* verification_status of the latest proof of a task
    checklist  \* checklist requests between their check and their writes

publishingVars == <<approved, package, task, checked, proof, checklist>>

PackageStatus == {"none", "DRAFT", "GENERATED", "APPROVED"}
TaskStatus == {"READY_FOR_CONTENT", "CONTENT_GENERATED", "READY_TO_PUBLISH", "POSTING_MANUAL",
               "PUBLISHED", "VERIFIED", "NEEDS_REVISION"}
ProofStatus == {"none", "PENDING", "VERIFIED", "FAILED"}
Frozen == {"PUBLISHED", "VERIFIED"}
Approved == {"READY_TO_PUBLISH", "POSTING_MANUAL", "PUBLISHED", "VERIFIED"}

NewTask == [status |-> "READY_FOR_CONTENT", filled |-> {}, locked |-> {}]

-----------------------------------------------------------------------------
(* projectPackage: the status of the package, from those of its tasks. *)
Project(ts) ==
    IF Required # {} /\ \A d \in Required : ts[d].status \in Approved THEN "APPROVED"
    ELSE IF Destination # {} /\ \A d \in Destination : ts[d].status # "READY_FOR_CONTENT" THEN "GENERATED"
    ELSE "DRAFT"

(* mutableTask *)
Mutable(d) == package # "none" /\ task[d].status \notin Frozen
Known(d) == package # "none"

(* Not faithful, for mutation: posting goes on without its files. *)
AssetsForgotten == TRUE

(* ensureAssets *)
AssetsReady == \A a \in Output : Available(a)

(* Nothing under src/ approves a render output: whoever does writes the column. *)
ApproveOutputs ==
    /\ Exists /\ ~approved
    /\ approved' = TRUE
    /\ UNCHANGED <<videoVars, package, task, checked, proof, checklist>>

CreatePackage ==
    /\ Exists
    /\ package = "none"
    /\ approved
    /\ AssetsReady
    /\ package' = "DRAFT"
    /\ task' = [d \in Destination |-> NewTask]
    /\ UNCHANGED <<videoVars, approved, checked, proof, checklist>>

(* A field gets a new revision: content to be approved again, or still incomplete. *)
UpdateField(d, f) ==
    /\ Mutable(d)
    /\ f \in Field \ task[d].locked
    /\ LET filled == task[d].filled \cup {f}
       IN  task' = [task EXCEPT ![d].filled = filled,
                                ![d].status = IF filled = Field THEN "CONTENT_GENERATED"
                                              ELSE "READY_FOR_CONTENT"]
    /\ package' = Project(task')
    /\ UNCHANGED <<videoVars, approved, checked, proof, checklist>>

LockField(d, f, on) ==
    /\ Mutable(d)
    /\ task' = [task EXCEPT ![d].locked = IF on THEN @ \cup {f} ELSE @ \ {f}]
    /\ UNCHANGED <<videoVars, approved, package, checked, proof, checklist>>

ApproveContent(d) ==
    /\ Mutable(d)
    /\ task[d].status \in {"CONTENT_GENERATED", "NEEDS_REVISION"}
    /\ task[d].filled = Field
    /\ task' = [task EXCEPT ![d].status = "READY_TO_PUBLISH"]
    /\ package' = Project(task')
    /\ UNCHANGED <<videoVars, approved, checked, proof, checklist>>

CheckChecklist(d, done) ==
    /\ Mutable(d)
    /\ Cardinality(checklist) < MaxCalls
    /\ checklist' = checklist \cup {[task |-> d, done |-> done]}
    /\ UNCHANGED <<videoVars, approved, package, task, checked, proof>>

WriteChecklist(c) ==
    /\ c \in checklist
    /\ checklist' = checklist \ {c}
    /\ checked' = IF package = "none" THEN checked ELSE [checked EXCEPT ![c.task] = c.done]
    /\ UNCHANGED <<videoVars, approved, package, task, proof>>

StartPosting(d) ==
    /\ Mutable(d)
    /\ task[d].status = "READY_TO_PUBLISH"
    /\ AssetsReady
    /\ task' = [task EXCEPT ![d].status = "POSTING_MANUAL"]
    /\ UNCHANGED <<videoVars, approved, package, checked, proof, checklist>>

SubmitProof(d) ==
    /\ Known(d)
    /\ task[d].status \in {"POSTING_MANUAL", "PUBLISHED"}
    /\ checked[d]
    /\ AssetsReady
    /\ proof' = [proof EXCEPT ![d] = "PENDING"]
    /\ proven' = TRUE
    /\ task' = [task EXCEPT ![d].status = "PUBLISHED"]
    /\ UNCHANGED <<video, job, lease, asset, object, approved, package, checked, checklist>>

(* Not faithful, for mutation: the task itself is enough. *)
VerifiedAlone(d) == d \in Required

(* The other required tasks of the package are verified. *)
SiblingsVerified(d) == \A e \in Required \ {d} : task[e].status = "VERIFIED"

(* Not faithful, for mutation: a refuted post stays published. *)
StaysPublished(ok) == IF ok THEN "VERIFIED" ELSE "PUBLISHED"

Verified(ok) == IF ok THEN "VERIFIED" ELSE "NEEDS_REVISION"

(* verify: whatever the status of the task; the last verification publishes the *)
(* video, whatever its status.  The package is not projected.                   *)
Verify(d, ok) ==
    /\ Known(d)
    /\ proof[d] = "PENDING"
    /\ proof' = [proof EXCEPT ![d] = IF ok THEN "VERIFIED" ELSE "FAILED"]
    /\ task' = [task EXCEPT ![d].status = Verified(ok)]
    /\ video' = IF ok /\ SiblingsVerified(d) THEN "PUBLISHED" ELSE video
    /\ UNCHANGED <<job, lease, asset, object, proven, approved, package, checked, checklist>>

(* Not faithful, for mutation: the package keeps the status it had, or takes the task's. *)
KeepPackage(ts) == package
TaskStatusOf(ts) == "NEEDS_REVISION"

RevisedPackage(ts) == Project(ts)

RequestRevision(d) ==
    /\ Known(d)
    /\ task[d].status \in {"CONTENT_GENERATED"} \cup Approved
    /\ task' = [task EXCEPT ![d].status = "NEEDS_REVISION"]
    /\ package' = RevisedPackage(task')
    /\ UNCHANGED <<videoVars, approved, checked, proof, checklist>>

-----------------------------------------------------------------------------
PublishingInit ==
    /\ approved = FALSE
    /\ package = "none"
    /\ task = [d \in Destination |-> NewTask]
    /\ checked = [d \in Destination |-> FALSE]
    /\ proof = [d \in Destination |-> "none"]
    /\ checklist = {}

(* What deleteVideoRows leaves: nothing, but for requests that have read before. *)
PublishingGone ==
    /\ approved' = FALSE
    /\ package' = "none"
    /\ task' = [d \in Destination |-> NewTask]
    /\ checked' = [d \in Destination |-> FALSE]
    /\ proof' = [d \in Destination |-> "none"]
    /\ UNCHANGED checklist

Content(d) ==
    \/ \E f \in Field : UpdateField(d, f) \/ \E on \in BOOLEAN : LockField(d, f, on)
    \/ ApproveContent(d)
    \/ RequestRevision(d)

Posting(d) ==
    \/ StartPosting(d)
    \/ SubmitProof(d)
    \/ \E ok \in BOOLEAN : Verify(d, ok)

Preparation ==
    \/ ApproveOutputs \/ CreatePackage
    \/ \E d \in Destination, done \in BOOLEAN : CheckChecklist(d, done)
    \/ \E c \in checklist : WriteChecklist(c)

PublishingTypeOK ==
    /\ approved \in BOOLEAN
    /\ package \in PackageStatus
    /\ task \in [Destination -> [status : TaskStatus, filled : SUBSET Field, locked : SUBSET Field]]
    /\ checked \in [Destination -> BOOLEAN]
    /\ proof \in [Destination -> ProofStatus]
    /\ checklist \subseteq [task : Destination, done : BOOLEAN]
=============================================================================
