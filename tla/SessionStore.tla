---------------------------- MODULE SessionStore ----------------------------
(***************************************************************************)
(* The durable session store, for one session identity.                    *)
(*                                                                         *)
(* Every public operation of SQLiteSessionStore runs in one                *)
(* BEGIN IMMEDIATE ... COMMIT transaction, so an operation is one atomic   *)
(* step here.  The only thing an operation can use that is older than its  *)
(* transaction is the clock: claim_run and finalize_run read `now` before  *)
(* they queue for the lock, so these two take a parameter `now` that may   *)
(* lie behind `clock`.  InMemorySessionStore has the same operations.      *)
(*                                                                         *)
(* An operation that raises or finds nothing to do leaves the store as it  *)
(* is; its outcome is given by the ...Outcome operators, which the modules *)
(* built on this one test in the same step.                                *)
(***************************************************************************)
EXTENDS Naturals, Sequences, FiniteSets

CONSTANTS
    Runs,            \* run identifiers of this session
    Owners,          \* owner tokens, one per handler invocation
    Keys,            \* idempotency keys of events and of checkpoints
    Bodies,          \* event payloads; each has a field run_status
    States,          \* workflow states a checkpoint may hold
    Sources,         \* business-source namespaces of an invalidation
    Versions,        \* source versions an invalidation may carry
    Progress,        \* how far a resume point may say its run had come
    NoKey,           \* "no idempotency key was given"
    NoRun,           \* "this event belongs to no run"
    NoOwner,         \* "no handler owns this claim"
    NoSource,        \* "this invalidation names no source"
    MaxEvents,       \* max_transcript_events_per_session
    MaxClaims,       \* max_run_claims_per_session
    MaxCheckpoints,  \* max_checkpoints_per_session
    MaxPoints,       \* max_resume_points_per_session
    RunLease,        \* lease of an executing run
    FinalLease,      \* lease of a run that is committing its outcome
    PointTTL         \* RESUME_POINT_TTL_SECONDS

ASSUME NullAssumption ==
    NoKey \notin Keys /\ NoRun \notin Runs /\ NoOwner \notin Owners
        /\ NoSource \notin Sources

ASSUME VersionAssumption == Versions \subseteq Nat \ {0} /\ Progress \subseteq Nat

ASSUME LimitAssumption ==
    /\ MaxEvents \in Nat /\ MaxClaims \in Nat
    /\ MaxCheckpoints \in Nat \ {0} /\ MaxPoints \in Nat \ {0}

ASSUME LeaseAssumption ==
    RunLease \in Nat \ {0} /\ FinalLease \in Nat \ {0} /\ PointTTL \in Nat \ {0}

VARIABLES
    clock,        \* wall clock shared by the server processes
    created,      \* the session row exists
    status,       \* SessionRecord.status
    revision,     \* SessionRecord.revision, the compare-and-swap token
    cutoff,       \* SessionRecord.memory_invalidated_revision
    versions,     \* SessionRecord.memory_source_versions (0: absent)
    transcript,   \* transcript_events in sequence order
    checkpoints,  \* session_checkpoints, oldest first
    claims,       \* session_run_claims
    stops,        \* session_run_stops
    points        \* session_run_resume_points

storeVars == <<clock, created, status, revision, cutoff, versions,
               transcript, checkpoints, claims, stops, points>>

(***************************************************************************)
(* Rows.                                                                   *)
(***************************************************************************)
SessionStatus == {"active", "waiting_approval", "completed", "failed", "cancelled"}

EventKind == {"user", "assistant", "error", "cancel", "invalidated"}

\* What a caller hands to append; the store adds the revision.
Draft ==
    [key : Keys, kind : EventKind \ {"invalidated"}, run : Runs, body : Bodies,
     source : {NoSource}, version : {0}]
    \cup
    [key : Keys \cup {NoKey}, kind : {"invalidated"}, run : {NoRun}, body : Bodies,
     source : {NoSource}, version : {0}]
    \cup
    [key : Keys \cup {NoKey}, kind : {"invalidated"}, run : {NoRun}, body : Bodies,
     source : Sources, version : Versions]

TranscriptEvent ==
    [key : Keys \cup {NoKey}, kind : EventKind, run : Runs \cup {NoRun},
     body : Bodies, source : Sources \cup {NoSource}, version : Nat,
     revision : Nat]

\* The row that append writes for a draft.
Recorded(d, rev) ==
    [key |-> d.key, kind |-> d.kind, run |-> d.run, body |-> d.body,
     source |-> d.source, version |-> d.version, revision |-> rev]

Checkpoint == [key : Keys, revision : Nat, lastSeq : Nat, state : States]

RunClaim == [state : {"none", "active", "finalizing", "abandoned"},
             owner : Owners \cup {NoOwner}, expires : Nat]

NoClaim == [state |-> "none", owner |-> NoOwner, expires |-> 0]

\* `progress` stands for the execution state in the payload: how many tool
\* calls had been completed when the point was taken.
ResumePoint == [created : Nat, cutoff : Nat, versions : [Sources -> Nat], progress : Nat]

\* The points a caller can present: built from a record it read, now or before.
OfferedPoint == [created : 0..clock, cutoff : 0..revision,
                 versions : [Sources -> Versions \cup {0}], progress : Progress]

(***************************************************************************)
(* Reads.                                                                  *)
(***************************************************************************)
Events == {transcript[i] : i \in 1..Len(transcript)}

HasEvent(k) == \E i \in 1..Len(transcript) : transcript[i].key = k

EventOf(k) == transcript[CHOOSE i \in 1..Len(transcript) : transcript[i].key = k]

HasCheckpoint == Len(checkpoints) > 0

LatestCheckpoint == checkpoints[Len(checkpoints)]

\* The newest `limit` events, oldest first.
RecentTranscript(limit) ==
    IF Len(transcript) <= limit THEN transcript
    ELSE SubSeq(transcript, Len(transcript) - limit + 1, Len(transcript))

Claimed == {r \in Runs : claims[r].state # "none"}

\* Mutant: a run that is being finalized still takes a stop request.
ActiveRunsFinalizing ==
    {r \in Runs : claims[r].state \in {"active", "finalizing"} /\ claims[r].expires > clock}

ActiveRuns == {r \in Runs : claims[r].state = "active" /\ claims[r].expires > clock}

LivePoints == {r \in DOMAIN points : points[r].created + PointTTL > clock}

(***************************************************************************)
(* Initial state: the database is empty.                                   *)
(***************************************************************************)
StoreInit ==
    /\ clock = 0
    /\ created = FALSE
    /\ status = "active"
    /\ revision = 0
    /\ cutoff = 0
    /\ versions = [s \in Sources |-> 0]
    /\ transcript = <<>>
    /\ checkpoints = <<>>
    /\ claims = [r \in Runs |-> NoClaim]
    /\ stops = {}
    /\ points = [r \in {} |-> 0]

(***************************************************************************)
(* create                                                                  *)
(***************************************************************************)
Create ==
    /\ created' = TRUE
    /\ UNCHANGED <<clock, status, revision, cutoff, versions, transcript,
                   checkpoints, claims, stops, points>>

(***************************************************************************)
(* claim_run: the first caller owns the run for ever; a later caller only  *)
(* learns whether that owner may still be alive, and fences it when its    *)
(* lease has run out.                                                      *)
(***************************************************************************)
\* Mutant: an expired lease can be taken over.
ClaimOutcomeTakeover(r, now) ==
    CASE claims[r].state = "none" ->
            IF Cardinality(Claimed) >= MaxClaims THEN "capacity" ELSE "acquired"
      [] claims[r].state \in {"active", "finalizing"} ->
            IF claims[r].expires > now THEN "live" ELSE "acquired"
      [] OTHER -> "stale"

ClaimOutcome(r, now) ==
    CASE claims[r].state = "none" ->
            IF Cardinality(Claimed) >= MaxClaims THEN "capacity" ELSE "acquired"
      [] claims[r].state \in {"active", "finalizing"} /\ claims[r].expires > now -> "live"
      [] OTHER -> "stale"

\* Mutant: a fenced claim is written with a state the table does not know.
ClaimRunUnknownState(r, o, now) ==
    /\ created
    /\ claims' = [claims EXCEPT ![r] =
           [state |-> IF ClaimOutcome(r, now) = "acquired" THEN "active" ELSE "stale",
            owner |-> o, expires |-> now + RunLease]]
    /\ UNCHANGED <<clock, created, status, revision, cutoff, versions,
                   transcript, checkpoints, stops, points>>

ClaimRun(r, o, now) ==
    /\ created
    /\ \/ /\ ClaimOutcome(r, now) = "acquired"
          /\ claims' = [claims EXCEPT ![r] =
                 [state |-> "active", owner |-> o, expires |-> now + RunLease]]
       \/ /\ ClaimOutcome(r, now) = "stale"
          /\ claims' = [claims EXCEPT ![r].state = "abandoned"]
       \/ /\ ClaimOutcome(r, now) \in {"live", "capacity"}
          /\ UNCHANGED claims
    /\ UNCHANGED <<clock, created, status, revision, cutoff, versions,
                   transcript, checkpoints, stops, points>>

(***************************************************************************)
(* finalize_run: only the owner of a claim that nobody fenced succeeds.    *)
(* The expiry is not looked at.                                            *)
(***************************************************************************)
MayFinalize(r, o) == created /\ claims[r].state = "active" /\ claims[r].owner = o

FinalizeRun(r, o, now) ==
    /\ MayFinalize(r, o)
    /\ claims' = [claims EXCEPT ![r] =
           [state |-> "finalizing", owner |-> o, expires |-> now + FinalLease]]
    /\ UNCHANGED <<clock, created, status, revision, cutoff, versions,
                   transcript, checkpoints, stops, points>>

(***************************************************************************)
(* request_stop                                                            *)
(***************************************************************************)
RequestStop(r) ==
    /\ r \in ActiveRuns
    /\ stops' = stops \cup {r}
    /\ UNCHANGED <<clock, created, status, revision, cutoff, versions,
                   transcript, checkpoints, claims, points>>

(***************************************************************************)
(* save_resume_point.  Expired points go first; `kept` is what             *)
(* _trim_resume_points leaves: the new point and the newest others, by     *)
(* count and by total size.                                                *)
(***************************************************************************)
PointAdmissible(r, p) ==
    /\ created
    /\ r \in ActiveRuns
    /\ r \notin stops
    /\ p.created <= clock /\ clock < p.created + PointTTL
    /\ r \in LivePoints => p.created >= points[r].created
    /\ p.cutoff = cutoff
    /\ p.versions = versions

TrimmedPoints(r, p, kept) ==
    /\ kept \subseteq LivePoints \cup {r}
    /\ r \in kept
    /\ Cardinality(kept) <= MaxPoints
    /\ \A gone \in (LivePoints \cup {r}) \ kept, stay \in kept \ {r} :
          points[gone].created <= points[stay].created

SaveResumePoint(r, p, kept) ==
    /\ PointAdmissible(r, p)
    /\ TrimmedPoints(r, p, kept)
    /\ points' = [x \in kept |-> IF x = r THEN p ELSE points[x]]
    /\ UNCHANGED <<clock, created, status, revision, cutoff, versions,
                   transcript, checkpoints, claims, stops>>

\* _expire_resume_points alone: what a refused save_resume_point, and every
\* get_resume_point, leaves behind.
ExpireResumePoints ==
    /\ points' = [x \in LivePoints |-> points[x]]
    /\ UNCHANGED <<clock, created, status, revision, cutoff, versions,
                   transcript, checkpoints, claims, stops>>

(***************************************************************************)
(* append.  An idempotency key answers before the revision is compared, an *)
(* invalidation that its source has overtaken answers with the event of    *)
(* the current cutoff, and only then does the compare-and-swap count.  A   *)
(* caller that passes no expected revision is one that passes `revision`.  *)
(***************************************************************************)
SameContent(d, e) ==
    d.kind = e.kind /\ d.run = e.run /\ d.body = e.body
        /\ d.source = e.source /\ d.version = e.version

\* Mutant: only a repeated version is recognised, not an older one.
OvertakenEqual(d) ==
    d.kind = "invalidated" /\ d.source # NoSource /\ d.version = versions[d.source]

Overtaken(d) ==
    d.kind = "invalidated" /\ d.source # NoSource /\ d.version <= versions[d.source]

\* Mutant: the key is not looked up.
AppendOutcomeKeyless(d, expected) ==
    CASE ~created -> "missing"
      [] created /\ Overtaken(d) -> "overtaken"
      [] OTHER ->
            IF expected # revision THEN "revision"
            ELSE IF Len(transcript) >= MaxEvents THEN "capacity" ELSE "appended"

AppendOutcome(d, expected) ==
    CASE ~created -> "missing"
      [] created /\ d.key # NoKey /\ HasEvent(d.key) ->
            IF SameContent(d, EventOf(d.key)) THEN "replay" ELSE "conflict"
      [] created /\ ~(d.key # NoKey /\ HasEvent(d.key)) /\ Overtaken(d) -> "overtaken"
      [] OTHER ->
            IF expected # revision THEN "revision"
            ELSE IF Len(transcript) >= MaxEvents THEN "capacity" ELSE "appended"

\* finished_resume_run_id: the run whose saved progress is of no more use.
FinishesRun(d) == d.kind \in {"assistant", "error"} /\ d.body.run_status # "cancelled"

\* Mutant: the cutoff is the revision the caller expected, not the new one.
AppendEventEarlyCutoff(d, expected) ==
    /\ AppendOutcome(d, expected) = "appended"
    /\ revision' = revision + 1
    /\ transcript' = Append(transcript, Recorded(d, revision + 1))
    /\ cutoff' = IF d.kind = "invalidated" THEN expected ELSE cutoff
    /\ versions' = IF d.kind = "invalidated" /\ d.source # NoSource
                   THEN [versions EXCEPT ![d.source] = d.version] ELSE versions
    /\ points' = [x \in {y \in LivePoints : ~(FinishesRun(d) /\ y = d.run)} |-> points[x]]
    /\ UNCHANGED <<clock, created, status, checkpoints, claims, stops>>

AppendEvent(d, expected) ==
    /\ AppendOutcome(d, expected) = "appended"
    /\ revision' = revision + 1
    /\ transcript' = Append(transcript, Recorded(d, revision + 1))
    /\ cutoff' = IF d.kind = "invalidated" THEN revision + 1 ELSE cutoff
    /\ versions' = IF d.kind = "invalidated" /\ d.source # NoSource
                   THEN [versions EXCEPT ![d.source] = d.version] ELSE versions
    /\ points' = [x \in {y \in LivePoints : ~(FinishesRun(d) /\ y = d.run)} |-> points[x]]
    /\ UNCHANGED <<clock, created, status, checkpoints, claims, stops>>

(***************************************************************************)
(* save_checkpoint.  _prune_checkpoints keeps the newest MaxCheckpoints    *)
(* and, when their total size is too large, fewer: `kept` of them.         *)
(***************************************************************************)
HasCheckpointKey(k) == \E i \in 1..Len(checkpoints) : checkpoints[i].key = k

CheckpointOf(k) == checkpoints[CHOOSE i \in 1..Len(checkpoints) : checkpoints[i].key = k]

CheckpointOutcome(k, s, expected) ==
    CASE ~created -> "missing"
      [] created /\ HasCheckpointKey(k) ->
            IF CheckpointOf(k).state = s THEN "replay" ELSE "conflict"
      [] OTHER -> IF expected # revision THEN "revision" ELSE "saved"

\* Mutant: pruning drops the newest checkpoints and keeps them out of order.
NewestReversed(s, n) == [i \in 1..n |-> s[Len(s) - i + 1]]

\* Mutant: pruning keeps the oldest checkpoints.
NewestFirst(s, n) == SubSeq(s, 1, n)

Newest(s, n) == SubSeq(s, Len(s) - n + 1, Len(s))

\* Mutant: the checkpoint claims the event after the last one.
SaveCheckpointAhead(k, s, expected, kept) ==
    /\ CheckpointOutcome(k, s, expected) = "saved"
    /\ kept \in 1..MaxCheckpoints /\ kept <= Len(checkpoints) + 1
    /\ revision' = revision + 1
    /\ checkpoints' = Newest(Append(checkpoints,
           [key |-> k, revision |-> revision + 1, lastSeq |-> Len(transcript) + 1, state |-> s]),
           kept)
    /\ UNCHANGED <<clock, created, status, cutoff, versions, transcript,
                   claims, stops, points>>

SaveCheckpoint(k, s, expected, kept) ==
    /\ CheckpointOutcome(k, s, expected) = "saved"
    /\ kept \in 1..MaxCheckpoints /\ kept <= Len(checkpoints) + 1
    /\ revision' = revision + 1
    /\ checkpoints' = Newest(Append(checkpoints,
           [key |-> k, revision |-> revision + 1, lastSeq |-> Len(transcript), state |-> s]),
           kept)
    /\ UNCHANGED <<clock, created, status, cutoff, versions, transcript,
                   claims, stops, points>>

(***************************************************************************)
(* set_status                                                              *)
(***************************************************************************)
\* Mutant: the status changes without a new revision.
SetStatusSilent(st, expected) ==
    /\ created
    /\ expected = revision
    /\ status' = st
    /\ UNCHANGED <<clock, created, revision, cutoff, versions, transcript, checkpoints,
                   claims, stops, points>>

SetStatus(st, expected) ==
    /\ created
    /\ expected = revision
    /\ status' = st
    /\ revision' = revision + 1
    /\ UNCHANGED <<clock, created, cutoff, versions, transcript, checkpoints,
                   claims, stops, points>>

Tick ==
    /\ clock' = clock + 1
    /\ UNCHANGED <<created, status, revision, cutoff, versions, transcript,
                   checkpoints, claims, stops, points>>

(***************************************************************************)
(* The store under every client: any operation, with any argument.         *)
(***************************************************************************)
StoreNext ==
    \/ Tick
    \/ Create
    \/ \E r \in Runs, o \in Owners : \E now \in 0..clock : ClaimRun(r, o, now)
    \/ \E r \in Runs, o \in Owners : \E now \in 0..clock : FinalizeRun(r, o, now)
    \/ \E r \in Runs : RequestStop(r)
    \/ \E r \in Runs, kept \in SUBSET Runs : \E p \in OfferedPoint :
          SaveResumePoint(r, p, kept)
    \/ ExpireResumePoints
    \/ \E d \in Draft : AppendEvent(d, revision)
    \/ \E k \in Keys, s \in States, kept \in 1..MaxCheckpoints :
          SaveCheckpoint(k, s, revision, kept)
    \/ \E st \in SessionStatus : SetStatus(st, revision)

StoreSpec == StoreInit /\ [][StoreNext]_storeVars

(***************************************************************************)
(* Properties of the store alone, whatever its clients do.                 *)
(***************************************************************************)

\* Every row has its type.
StoreTypeOK ==
    /\ clock \in Nat /\ created \in BOOLEAN /\ status \in SessionStatus
    /\ revision \in Nat /\ cutoff \in Nat /\ versions \in [Sources -> Nat]
    /\ transcript \in Seq(TranscriptEvent) /\ checkpoints \in Seq(Checkpoint)
    /\ claims \in [Runs -> RunClaim] /\ stops \subseteq Runs
    /\ DOMAIN points \subseteq Runs
    /\ \A r \in DOMAIN points : points[r] \in ResumePoint

\* append commits an idempotency key at most once, whatever the order and the
\* number of the deliveries that carry it.
KeysCommitOnce ==
    \A i, j \in 1..Len(transcript) :
        transcript[i].key = transcript[j].key /\ transcript[i].key # NoKey => i = j

\* The event that append returns for an overtaken invalidation exists (the
\* `assert prior is not None`): a source has a version only once there is a
\* cutoff, and the cutoff is the revision of an invalidation event.
CutoffIsAnEvent ==
    /\ (\E s \in Sources : versions[s] > 0) => cutoff > 0
    /\ cutoff > 0 => \E i \in 1..Len(transcript) :
                        /\ transcript[i].revision = cutoff
                        /\ transcript[i].kind = "invalidated"

\* resume() takes the events after the checkpoint by sequence number, its
\* callers reason by revision: both select the same events, for every
\* checkpoint that is still stored, and none points past the transcript.
SnapshotSuffixExact ==
    \A c \in 1..Len(checkpoints) :
        /\ checkpoints[c].lastSeq <= Len(transcript)
        /\ \A i \in 1..Len(transcript) :
              i > checkpoints[c].lastSeq <=> transcript[i].revision > checkpoints[c].revision

\* Sequence order is revision order, for events and for checkpoints, and no
\* row carries a revision the session has not reached.
RevisionsOrdered ==
    /\ \A i, j \in 1..Len(transcript) :
          i < j => transcript[i].revision < transcript[j].revision
    /\ \A i, j \in 1..Len(checkpoints) :
          i < j => checkpoints[i].revision < checkpoints[j].revision
    /\ \A i \in 1..Len(transcript) : transcript[i].revision \in 1..revision
    /\ \A i \in 1..Len(checkpoints) : checkpoints[i].revision \in 1..revision

NewestKept ==
    checkpoints' # checkpoints =>
        /\ checkpoints' # <<>> /\ checkpoints'[Len(checkpoints')].revision = revision'
        /\ \A i \in 1..Len(checkpoints), j \in 1..Len(checkpoints') :
              checkpoints'[j].revision < checkpoints[i].revision =>
                  \E k \in 1..Len(checkpoints') : checkpoints'[k] = checkpoints[i]

\* save_checkpoint leaves the checkpoint it returns as the one resume() reads,
\* and _prune_checkpoints, by count and then by size, never removes a newer
\* checkpoint than one it keeps.
NewestCheckpointKept == [][NewestKept]_storeVars

ClaimMoves ==
    \A r \in Runs :
        /\ claims[r].state # "none" => claims'[r].owner = claims[r].owner
        /\ claims'[r].state # claims[r].state =>
              <<claims[r].state, claims'[r].state>> \in
                  {<<"none", "active">>, <<"active", "finalizing">>,
                   <<"active", "abandoned">>, <<"finalizing", "abandoned">>}

\* A run is acquired once: its owner never changes, and its claim only moves
\* active -> finalizing -> abandoned, never back, so a fenced owner can never
\* finalize and an abandoned run can never be executed again.
ClaimLifecycle == [][ClaimMoves]_storeVars

StopFrozen == \A r \in Runs : claims[r].state # "active" => (r \in stops' <=> r \in stops)

\* Once a run is being finalized (or was fenced) its stop request can neither
\* appear nor vanish: the owner that asks stop_requested after finalize_run
\* gets the last word on the race between stop and completion.
StopFrozenAfterFinalize == [][StopFrozen]_storeVars

RevisionCovers ==
    /\ revision' \in {revision, revision + 1}
    /\ revision' = revision =>
          UNCHANGED <<status, cutoff, versions, transcript, checkpoints>>

\* The revision is a sound compare-and-swap token: whatever a reader could
\* have seen of the transcript, the checkpoints, the status or the cutoff
\* changes only together with a revision that grows by one.
RevisionCoversChange == [][RevisionCovers]_storeVars

CutoffForward == cutoff' >= cutoff /\ \A s \in Sources : versions'[s] >= versions[s]

\* Invalidation only moves forward, for the session and for every source,
\* although requests may be repeated and arrive in any order.
CutoffMonotone == [][CutoffForward]_storeVars
=============================================================================
