------------------------------- MODULE Catalog -------------------------------
(***************************************************************************)
(* What jobs are configured by: a voice with its licence and its samples   *)
(* (PrismaVoiceRepository, PrismaVoiceSampleRepository), a channel profile *)
(* that may speak with it and a series of that channel                     *)
(* (PrismaProfileRepository).  Creating a job takes a snapshot of them.    *)
(*                                                                         *)
(* Every request names the version its client has loaded.  Its transaction *)
(* is READ COMMITTED: it reads and checks first, and writes on rows that   *)
(* may have changed.  Some writes require the version again                *)
(* (updateMany where version), others name the row by its id only.  For an *)
(* operation of Overlap the two halves are two steps.                      *)
(***************************************************************************)
EXTENDS Naturals, FiniteSets

CONSTANTS
    Language,
    Target,     \* channel_profiles.target_language
    Overlap     \* operations whose checks and writes may be separated

VoiceOp == {"update", "activate", "archive", "restore", "commitSample", "detach"}
ChannelOp == {"updateChannel", "archiveChannel", "restoreChannel"}
SeriesOp == {"createSeries", "updateSeries", "archiveSeries", "restoreSeries"}
CatalogOp == VoiceOp \cup ChannelOp \cup SeriesOp

ASSUME CatalogAssumption == Target \in Language /\ Overlap \subseteq CatalogOp

VARIABLES
    voice,    \* the voice: its primary language, the languages with a current sample
    channel,  \* the channel; voiced if the voice is its default
    series,   \* the series; voiced if the voice is its override
    open,     \* the request between its checks and its writes (BOUND: one)
    licences  \* for each job created, whether its voice was licensed then

catalogVars == <<voice, channel, series, open, licences>>

VoiceStatus == {"DRAFT", "READY", "BLOCKED_LICENSE", "ARCHIVED"}
ProfileStatus == {"DRAFT", "ACTIVE", "ARCHIVED"}

(* A request; seen is the status its checks read, fresh whether the row has *)
(* the version its client loaded, same whether the sample is still current. *)
(* What an operation does not ask for has one value.                        *)
CatalogRequest ==
    {c \in [op : CatalogOp, licensed : BOOLEAN, language : Language, status : {"DRAFT", "ACTIVE"},
            voiced : BOOLEAN, seen : {"DRAFT"}, fresh : {TRUE}, same : {TRUE}] :
        /\ c.licensed => c.op = "update"
        /\ c.language # Target => c.op \in {"update", "commitSample", "detach"}
        /\ c.voiced \/ c.status = "ACTIVE" => c.op \in {"updateChannel", "updateSeries"}}
NoRequest == [op |-> "none", licensed |-> FALSE, language |-> Target, status |-> "DRAFT",
              voiced |-> FALSE, seen |-> "DRAFT", fresh |-> TRUE, same |-> TRUE]

-----------------------------------------------------------------------------
(* What the code derives from the rows: view, toChannelView, toSeriesView. *)

Speaks == voice.primary \in voice.samples
VoiceReady == voice.licensed /\ Speaks
ChannelReady(c) == c.voiced /\ voice.status = "READY"
SeriesReady(s) ==
    /\ channel.status = "ACTIVE"
    /\ voice.status = "READY"
    /\ s.voiced \/ channel.voiced

Live(s) == s.status \in {"DRAFT", "ACTIVE"}
InUse == \E profile \in {channel, series} : profile.voiced /\ Live(profile)
ParentLive == Live(channel)

-----------------------------------------------------------------------------
(* The checks at the head of each transaction. *)

VoiceCheck(c) ==
    \/ c.op \in {"update", "commitSample"} /\ voice.status # "ARCHIVED"
    \/ /\ c.op = "activate" /\ voice.status # "ARCHIVED"
       /\ ~(voice.status = "READY" /\ VoiceReady)
       /\ voice.licensed => Speaks
    \/ c.op = "archive" /\ voice.status # "ARCHIVED" /\ ~InUse
    \/ c.op = "restore" /\ voice.status = "ARCHIVED"
    \/ c.op = "detach" /\ voice.status # "READY" /\ c.language \in voice.samples

ChannelCheck(c) ==
    \/ c.op = "updateChannel" /\ Live(channel)
    \/ c.op = "archiveChannel" /\ ~Live(series)
    \/ c.op = "restoreChannel"

SeriesCheck(c) ==
    \/ c.op = "createSeries" /\ series.status = "NONE" /\ ParentLive
    \/ c.op = "updateSeries" /\ Live(series) /\ ParentLive
    \/ c.op = "archiveSeries" /\ series.status # "NONE"
    \/ c.op = "restoreSeries" /\ series.status # "NONE" /\ ParentLive

CatalogCheck(c) == VoiceCheck(c) \/ ChannelCheck(c) \/ SeriesCheck(c)

(* What the transaction remembers, for its writes, of the rows it has read. *)
Read(c) ==
    [c EXCEPT !.seen = IF c.op \in {"update", "commitSample"} THEN voice.status ELSE "DRAFT",
              !.licensed = IF c.op = "activate" THEN voice.licensed ELSE @]

-----------------------------------------------------------------------------
(* The writes. *)

(* Not faithful, for mutation: the version is not required again. *)
NoVersion(c) == TRUE

(* updateMany where version: it writes nothing, and the request fails, when *)
(* the row has changed.  The others write by id.                            *)
Versioned == {"update", "updateChannel", "archiveChannel", "restoreChannel",
              "updateSeries", "archiveSeries", "restoreSeries"}

VersionHolds(c) == c.op \in Versioned => c.fresh

AfterUpdate(c) ==
    LET cleared == c.licensed /\ c.language \in voice.samples
    IN  [voice EXCEPT !.licensed = c.licensed, !.primary = c.language,
           !.status = IF c.seen # "READY" THEN @
                      ELSE IF ~c.licensed THEN "BLOCKED_LICENSE"
                      ELSE IF cleared THEN @ ELSE "DRAFT"]

Activated(c) == IF c.licensed THEN "READY" ELSE "BLOCKED_LICENSE"

VoiceAfter(c) ==
    CASE c.op = "update" -> AfterUpdate(c)
      [] c.op = "activate" -> [voice EXCEPT !.status = Activated(c)]
      [] c.op = "archive" -> [voice EXCEPT !.status = "ARCHIVED"]
      [] c.op = "restore" -> [voice EXCEPT !.status = "DRAFT"]
      [] c.op = "commitSample" -> [voice EXCEPT !.samples = @ \cup {c.language},
                                     !.status = IF c.seen = "READY" THEN "DRAFT" ELSE @]
      [] c.op = "detach" -> [voice EXCEPT !.samples = IF c.same THEN @ \ {c.language} ELSE @]

ChannelAfter(c) ==
    [channel EXCEPT !.status = CASE c.op = "updateChannel" -> c.status
                                 [] c.op = "archiveChannel" -> "ARCHIVED"
                                 [] c.op = "restoreChannel" -> "DRAFT",
                    !.voiced = IF c.op = "updateChannel" THEN c.voiced ELSE @]

SeriesAfter(c) ==
    [series EXCEPT !.status = CASE c.op = "updateSeries" -> c.status
                                [] c.op = "archiveSeries" -> "ARCHIVED"
                                [] c.op \in {"createSeries", "restoreSeries"} -> "DRAFT",
                   !.voiced = IF c.op = "updateSeries" THEN c.voiced ELSE @]

(* An update must not leave a profile ACTIVE that is not ready: it is undone. *)
WriteVoice(c) == voice' = VoiceAfter(c) /\ UNCHANGED <<channel, series>>
WriteChannel(c) ==
    /\ ChannelAfter(c).status = "ACTIVE" => ChannelReady(ChannelAfter(c))
    /\ channel' = ChannelAfter(c)
    /\ UNCHANGED <<voice, series>>
WriteSeries(c) ==
    /\ SeriesAfter(c).status = "ACTIVE" => SeriesReady(SeriesAfter(c))
    /\ series' = SeriesAfter(c)
    /\ UNCHANGED <<voice, channel>>

CatalogWrite(c) ==
    /\ VersionHolds(c)
    /\ \/ c.op \in VoiceOp /\ WriteVoice(c)
       \/ c.op \in ChannelOp /\ WriteChannel(c)
       \/ c.op \in SeriesOp /\ WriteSeries(c)
    /\ UNCHANGED licences

(* A write gives its row a new version, and a committed sample replaces one: *)
(* noticed by an open request that will ask.                                 *)
SameRow(o, p) == \E ops \in {VoiceOp, ChannelOp, SeriesOp} : {o, p} \subseteq ops
Noticed(c) ==
    [open EXCEPT !.fresh = @ /\ ~(open.op \in Versioned /\ SameRow(c.op, open.op)),
                 !.same = @ /\ ~(open.op = "detach" /\ c.op = "commitSample"
                                 /\ c.language = open.language)]

-----------------------------------------------------------------------------
(* A request that nothing separates; one that is separated, from its checks *)
(* to its writes; and one that fails, at either end or by a lost connection. *)
ServeCatalog(c) ==
    /\ CatalogCheck(c)
    /\ CatalogWrite(Read(c))
    /\ open' = IF open = NoRequest THEN open ELSE Noticed(c)

OpenCatalog(c) ==
    /\ open = NoRequest
    /\ c.op \in Overlap
    /\ CatalogCheck(c)
    /\ open' = Read(c)
    /\ UNCHANGED <<voice, channel, series, licences>>

FinishCatalog ==
    /\ open # NoRequest
    /\ \/ CatalogWrite(open)
       \/ UNCHANGED <<voice, channel, series, licences>>
    /\ open' = NoRequest

(* snapshotForJobInTransaction, in the transaction that creates a job. *)
SnapshotForJob ==
    /\ \/ channel.status = "ACTIVE" /\ ChannelReady(channel)
       \/ series.status = "ACTIVE" /\ SeriesReady(series)
    /\ Speaks \/ Target \in voice.samples
    /\ licences' = licences \cup {voice.licensed}
    /\ UNCHANGED <<voice, channel, series, open>>

CatalogInit ==
    /\ voice = [status |-> "DRAFT", licensed |-> FALSE, primary |-> Target, samples |-> {}]
    /\ channel = [status |-> "DRAFT", voiced |-> FALSE]
    /\ series = [status |-> "NONE", voiced |-> FALSE]
    /\ open = NoRequest
    /\ licences = {}

CatalogNext ==
    \/ \E c \in CatalogRequest : ServeCatalog(c) \/ OpenCatalog(c)
    \/ FinishCatalog
    \/ SnapshotForJob

CatalogTypeOK ==
    /\ voice \in [status : VoiceStatus, licensed : BOOLEAN, primary : Language,
                  samples : SUBSET Language]
    /\ channel \in [status : ProfileStatus, voiced : BOOLEAN]
    /\ series \in [status : ProfileStatus \cup {"NONE"}, voiced : BOOLEAN]
    /\ open \in [op : CatalogOp \cup {"none"}, licensed : BOOLEAN, language : Language,
                 status : ProfileStatus, voiced : BOOLEAN, seen : VoiceStatus,
                 fresh : BOOLEAN, same : BOOLEAN]
    /\ licences \subseteq BOOLEAN
=============================================================================
