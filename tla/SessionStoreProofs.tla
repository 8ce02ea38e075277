------------------------- MODULE SessionStoreProofs -------------------------
(***************************************************************************)
(* Proofs about SessionStore, for every value of its constants.            *)
(***************************************************************************)
EXTENDS SessionStore, SequenceTheorems, TLAPS

(***************************************************************************)
(* What the two growing tables look like after a step.                     *)
(***************************************************************************)

\* append writes a well-typed row: a draft carries a version only if it is a
\* source invalidation.
LEMMA RecordedType ==
    ASSUME NEW d \in Draft, NEW n \in Nat
    PROVE  Recorded(d, n) \in TranscriptEvent
<1>1. /\ d.key \in Keys \cup {NoKey} /\ d.kind \in EventKind
      /\ d.run \in Runs \cup {NoRun} /\ d.body \in Bodies
      /\ d.source \in Sources \cup {NoSource} /\ d.version \in Versions \cup {0}
  BY DEF Draft, EventKind
<1>2. Versions \cup {0} \subseteq Nat
  BY VersionAssumption DEF VersionAssumption
<1>3. d.version \in Nat
  BY <1>1, <1>2
<1> QED
  BY <1>1, <1>3 DEF Recorded, TranscriptEvent

\* append puts one row behind the ones that are there.
LEMMA AppendedRows ==
    ASSUME StoreTypeOK, NEW d \in Draft, AppendEvent(d, revision)
    PROVE  /\ transcript' \in Seq(TranscriptEvent)
           /\ Len(transcript') = Len(transcript) + 1
           /\ \A i \in 1..Len(transcript) : transcript'[i] = transcript[i]
           /\ transcript'[Len(transcript) + 1] = Recorded(d, revision + 1)
<1>1. revision + 1 \in Nat /\ transcript \in Seq(TranscriptEvent)
  BY DEF StoreTypeOK
<1>2. Recorded(d, revision + 1) \in TranscriptEvent
  BY <1>1, RecordedType
<1>3. transcript' = Append(transcript, Recorded(d, revision + 1))
  BY DEF AppendEvent
<1> QED
  BY <1>1, <1>2, <1>3, AppendProperties

\* save_checkpoint puts one row behind the newest kept - 1 others.
LEMMA KeptCheckpoints ==
    ASSUME StoreTypeOK, NEW k \in Keys, NEW s \in States, NEW kept \in 1..MaxCheckpoints,
           SaveCheckpoint(k, s, revision, kept)
    PROVE  LET new == [key |-> k, revision |-> revision + 1,
                       lastSeq |-> Len(transcript), state |-> s]
           IN  /\ checkpoints' \in Seq(Checkpoint)
               /\ Len(checkpoints') = kept
               /\ \A i \in 1..(kept - 1) :
                     /\ Len(checkpoints) + 1 - kept + i \in 1..Len(checkpoints)
                     /\ checkpoints'[i] = checkpoints[Len(checkpoints) + 1 - kept + i]
               /\ checkpoints'[kept] = new
<1> DEFINE new == [key |-> k, revision |-> revision + 1,
                   lastSeq |-> Len(transcript), state |-> s]
           all == Append(checkpoints, new)
           n == Len(checkpoints)
<1>1. n \in Nat /\ kept \in Nat /\ kept >= 1 /\ kept <= n + 1
  BY LimitAssumption DEF LimitAssumption, StoreTypeOK, SaveCheckpoint
<1>2. new \in Checkpoint
  BY DEF Checkpoint, StoreTypeOK
<1>3. /\ all \in Seq(Checkpoint) /\ Len(all) = n + 1
      /\ \A i \in 1..n : all[i] = checkpoints[i]
      /\ all[n + 1] = new
  BY <1>2, AppendProperties DEF StoreTypeOK
<1>4. checkpoints' = SubSeq(all, n + 2 - kept, n + 1)
  <2>1. checkpoints' = SubSeq(all, Len(all) - kept + 1, Len(all))
    BY DEF SaveCheckpoint, Newest
  <2>2. Len(all) - kept + 1 = n + 2 - kept
    BY <1>1, <1>3
  <2> QED
    BY <2>1, <2>2, <1>3
<1>5. \A i \in (n + 2 - kept)..(n + 1) : all[i] \in Checkpoint
  BY <1>1, <1>3, ElementOfSeq
<1>6. /\ checkpoints' \in Seq(Checkpoint)
      /\ Len(checkpoints') = kept
      /\ \A i \in 1..kept : checkpoints'[i] = all[n + 1 - kept + i]
  <2> HIDE DEF all, n
  <2>1. n + 2 - kept \in Int /\ n + 1 \in Int
    BY <1>1
  <2>2. /\ SubSeq(all, n + 2 - kept, n + 1) \in Seq(Checkpoint)
        /\ Len(SubSeq(all, n + 2 - kept, n + 1)) =
              IF n + 2 - kept <= n + 1 THEN (n + 1) - (n + 2 - kept) + 1 ELSE 0
        /\ \A i \in 1..((n + 1) - (n + 2 - kept) + 1) :
              SubSeq(all, n + 2 - kept, n + 1)[i] = all[(n + 2 - kept) + i - 1]
    BY <2>1, <1>5, SubSeqProperties
  <2>3. (n + 1) - (n + 2 - kept) + 1 = kept /\ n + 2 - kept <= n + 1
    BY <1>1
  <2>4. \A i \in 1..kept : (n + 2 - kept) + i - 1 = n + 1 - kept + i
    BY <1>1
  <2> QED
    BY <1>4, <2>2, <2>3, <2>4
<1>7. \A i \in 1..(kept - 1) : n + 1 - kept + i \in 1..n
  BY <1>1
<1>8. n + 1 - kept + kept = n + 1 /\ kept \in 1..kept /\ 1..(kept - 1) \subseteq 1..kept
  BY <1>1
<1> QED
  BY <1>3, <1>6, <1>7, <1>8

(***************************************************************************)
(* Type correctness.                                                       *)
(***************************************************************************)

\* The empty database is well typed.
LEMMA TypeInit == StoreInit => StoreTypeOK
<1> SUFFICES ASSUME StoreInit PROVE StoreTypeOK
  OBVIOUS
<1>1. claims \in [Runs -> RunClaim]
  BY DEF StoreInit, NoClaim, RunClaim
<1>2. transcript \in Seq(TranscriptEvent) /\ checkpoints \in Seq(Checkpoint)
  BY EmptySeq DEF StoreInit
<1> QED
  BY <1>1, <1>2 DEF StoreInit, StoreTypeOK, SessionStatus

\* Every operation leaves well-typed rows.
LEMMA TypeStep == StoreTypeOK /\ [StoreNext]_storeVars => StoreTypeOK'
<1> SUFFICES ASSUME StoreTypeOK, [StoreNext]_storeVars PROVE StoreTypeOK'
  OBVIOUS
<1> USE DEF StoreTypeOK
<1>1. CASE Tick
  BY <1>1 DEF Tick
<1>2. CASE Create
  BY <1>2 DEF Create
<1>3. ASSUME NEW r \in Runs, NEW o \in Owners, NEW now \in 0..clock, ClaimRun(r, o, now)
      PROVE  StoreTypeOK'
  <2>1. claims' \in [Runs -> RunClaim]
    <3>1. now + RunLease \in Nat
      BY LeaseAssumption DEF LeaseAssumption
    <3>2. CASE claims' = [claims EXCEPT ![r] =
                 [state |-> "active", owner |-> o, expires |-> now + RunLease]]
      BY <3>1, <3>2 DEF RunClaim
    <3>3. CASE claims' = [claims EXCEPT ![r].state = "abandoned"]
      <4>1. [claims[r] EXCEPT !.state = "abandoned"] \in RunClaim
        BY DEF RunClaim
      <4> QED
        BY <3>3, <4>1
    <3> QED
      BY <1>3, <3>2, <3>3 DEF ClaimRun
  <2> QED
    BY <1>3, <2>1 DEF ClaimRun
<1>4. ASSUME NEW r \in Runs, NEW o \in Owners, NEW now \in 0..clock, FinalizeRun(r, o, now)
      PROVE  StoreTypeOK'
  <2>1. claims' \in [Runs -> RunClaim]
    <3>1. now + FinalLease \in Nat
      BY LeaseAssumption DEF LeaseAssumption
    <3> QED
      BY <1>4, <3>1 DEF FinalizeRun, RunClaim
  <2> QED
    BY <1>4, <2>1 DEF FinalizeRun
<1>5. ASSUME NEW r \in Runs, RequestStop(r)
      PROVE  StoreTypeOK'
  BY <1>5 DEF RequestStop
<1>6. ASSUME NEW r \in Runs, NEW kept \in SUBSET Runs, NEW p \in OfferedPoint,
             SaveResumePoint(r, p, kept)
      PROVE  StoreTypeOK'
  <2>1. p \in ResumePoint
    <3>1. Versions \cup {0} \subseteq Nat /\ Progress \subseteq Nat
      BY VersionAssumption DEF VersionAssumption
    <3>2. 0..clock \subseteq Nat /\ 0..revision \subseteq Nat
      OBVIOUS
    <3>3. [Sources -> Versions \cup {0}] \subseteq [Sources -> Nat]
      BY <3>1
    <3> QED
      BY <3>1, <3>2, <3>3 DEF OfferedPoint, ResumePoint
  <2>2. points' = [x \in kept |-> IF x = r THEN p ELSE points[x]]
    BY <1>6 DEF SaveResumePoint
  <2>3. kept \subseteq LivePoints \cup {r}
    BY <1>6 DEF SaveResumePoint, TrimmedPoints
  <2>4. DOMAIN points' \subseteq Runs /\ \A x \in DOMAIN points' : points'[x] \in ResumePoint
    BY <2>1, <2>2, <2>3 DEF LivePoints
  <2> QED
    BY <1>6, <2>4 DEF SaveResumePoint
<1>7. CASE ExpireResumePoints
  BY <1>7 DEF ExpireResumePoints, LivePoints
<1>8. ASSUME NEW d \in Draft, AppendEvent(d, revision)
      PROVE  StoreTypeOK'
  <2>1. transcript' \in Seq(TranscriptEvent)
    BY <1>8, AppendedRows
  <2>2. DOMAIN points' \subseteq Runs /\ \A x \in DOMAIN points' : points'[x] \in ResumePoint
    BY <1>8 DEF AppendEvent, LivePoints
  <2>3. versions' \in [Sources -> Nat]
    <3>1. d.version \in Nat
      BY RecordedType DEF Recorded, TranscriptEvent
    <3> QED
      BY <1>8, <3>1 DEF AppendEvent
  <2>4. revision' \in Nat /\ cutoff' \in Nat
    BY <1>8 DEF AppendEvent
  <2> QED
    BY <1>8, <2>1, <2>2, <2>3, <2>4 DEF AppendEvent
<1>9. ASSUME NEW k \in Keys, NEW s \in States, NEW kept \in 1..MaxCheckpoints,
             SaveCheckpoint(k, s, revision, kept)
      PROVE  StoreTypeOK'
  <2>1. checkpoints' \in Seq(Checkpoint)
    BY <1>9, KeptCheckpoints
  <2> QED
    BY <1>9, <2>1 DEF SaveCheckpoint
<1>10. ASSUME NEW st \in SessionStatus, SetStatus(st, revision)
       PROVE  StoreTypeOK'
  BY <1>10 DEF SetStatus
<1>11. CASE UNCHANGED storeVars
  BY <1>11 DEF storeVars
<1> QED
  BY <1>1, <1>2, <1>3, <1>4, <1>5, <1>6, <1>7, <1>8, <1>9, <1>10, <1>11 DEF StoreNext

\* The rows of every table keep their types under every client.
THEOREM StoreTypeCorrect == StoreSpec => []StoreTypeOK
BY TypeInit, TypeStep, PTL DEF StoreSpec

(***************************************************************************)
(* What the tables say about each other.                                   *)
(***************************************************************************)
DataInv == RevisionsOrdered /\ KeysCommitOnce /\ CutoffIsAnEvent /\ SnapshotSuffixExact

\* append inserts only under a key that no row has.
LEMMA FreshKey ==
    ASSUME NEW d, AppendOutcome(d, revision) = "appended"
    PROVE  d.key # NoKey => ~HasEvent(d.key)
BY DEF AppendOutcome

\* A step that leaves the rows alone may raise the revision.
LEMMA QuietStep ==
    ASSUME StoreTypeOK, DataInv, revision' \in {revision, revision + 1},
           UNCHANGED <<transcript, checkpoints, cutoff, versions>>
    PROVE  DataInv'
<1>1. RevisionsOrdered'
  <2>1. revision \in Nat /\ 1..revision \subseteq 1..revision'
    BY DEF StoreTypeOK
  <2> QED
    BY <2>1 DEF DataInv, RevisionsOrdered
<1>2. KeysCommitOnce' /\ CutoffIsAnEvent' /\ SnapshotSuffixExact'
  BY DEF DataInv, KeysCommitOnce, CutoffIsAnEvent, SnapshotSuffixExact
<1> QED
  BY <1>1, <1>2 DEF DataInv

\* append keeps the tables consistent.
LEMMA AppendStep ==
    ASSUME StoreTypeOK, DataInv, NEW d \in Draft, AppendEvent(d, revision)
    PROVE  DataInv'
<1> DEFINE n == Len(transcript)
           new == Recorded(d, revision + 1)
<1>1. /\ n \in Nat /\ revision \in Nat /\ Len(transcript') = n + 1
      /\ \A i \in 1..n : transcript'[i] = transcript[i]
      /\ transcript'[n + 1] = new
  BY AppendedRows DEF StoreTypeOK
<1>2. checkpoints' = checkpoints /\ revision' = revision + 1
  BY DEF AppendEvent
<1>3. new.revision = revision + 1 /\ new.key = d.key /\ new.kind = d.kind
  BY DEF Recorded
<1>4. 1..(n + 1) = 1..n \cup {n + 1} /\ n + 1 \notin 1..n
  BY <1>1
<1>5. \A i \in 1..n : transcript[i].revision \in 1..revision
  BY DEF DataInv, RevisionsOrdered
<1>6. \A c \in 1..Len(checkpoints) : checkpoints[c].revision \in 1..revision
  BY DEF DataInv, RevisionsOrdered
<1> HIDE DEF n, new
<1>7. RevisionsOrdered'
  <2>1. \A i \in 1..(n + 1) : transcript'[i].revision \in 1..(revision + 1)
    BY <1>1, <1>3, <1>4, <1>5
  <2>2. ASSUME NEW i \in 1..(n + 1), NEW j \in 1..(n + 1), i < j
        PROVE  transcript'[i].revision < transcript'[j].revision
    <3>1. i \in 1..n
      BY <2>2, <1>1
    <3>2. CASE j = n + 1
      BY <3>1, <3>2, <1>1, <1>3, <1>5
    <3>3. CASE j \in 1..n
      <4>1. transcript[i].revision < transcript[j].revision
        BY <2>2, <3>1, <3>3 DEF DataInv, RevisionsOrdered, n
      <4> QED
        BY <3>1, <3>3, <4>1, <1>1
    <3> QED
      BY <3>2, <3>3, <1>4
  <2>3. \A i \in 1..Len(checkpoints) : checkpoints[i].revision \in 1..(revision + 1)
    BY <1>1, <1>6
  <2>4. \A i, j \in 1..Len(checkpoints) :
           i < j => checkpoints[i].revision < checkpoints[j].revision
    BY DEF DataInv, RevisionsOrdered
  <2> QED
    BY <1>1, <1>2, <2>1, <2>2, <2>3, <2>4 DEF RevisionsOrdered
<1>8. KeysCommitOnce'
  <2>1. d.key # NoKey => \A i \in 1..n : transcript[i].key # d.key
    BY FreshKey DEF AppendEvent, HasEvent, n
  <2>2. \A i, j \in 1..n :
           transcript[i].key = transcript[j].key /\ transcript[i].key # NoKey => i = j
    BY DEF DataInv, KeysCommitOnce, n
  <2>3. \A i, j \in 1..(n + 1) :
           transcript'[i].key = transcript'[j].key /\ transcript'[i].key # NoKey => i = j
    BY <2>1, <2>2, <1>1, <1>3, <1>4
  <2> QED
    BY <2>3, <1>1 DEF KeysCommitOnce
<1>9. CutoffIsAnEvent'
  <2>1. CASE d.kind = "invalidated"
    <3>1. cutoff' = revision + 1 /\ revision + 1 > 0
      BY <2>1, <1>1 DEF AppendEvent
    <3>2. n + 1 \in 1..Len(transcript') /\ transcript'[n + 1].revision = cutoff'
             /\ transcript'[n + 1].kind = "invalidated"
      BY <2>1, <3>1, <1>1, <1>3, <1>4
    <3> QED
      BY <3>1, <3>2 DEF CutoffIsAnEvent
  <2>2. CASE d.kind # "invalidated"
    <3>1. cutoff' = cutoff /\ versions' = versions
      BY <2>2 DEF AppendEvent
    <3>2. 1..n \subseteq 1..Len(transcript')
      BY <1>1, <1>4
    <3>3. CutoffIsAnEvent
      BY DEF DataInv
    <3>4. cutoff > 0 => \E i \in 1..n : /\ transcript'[i].revision = cutoff
                                        /\ transcript'[i].kind = "invalidated"
      BY <3>3, <1>1 DEF CutoffIsAnEvent, n
    <3> QED
      BY <3>1, <3>2, <3>3, <3>4 DEF CutoffIsAnEvent
  <2> QED
    BY <2>1, <2>2
<1>10. SnapshotSuffixExact'
  <2>1. ASSUME NEW c \in 1..Len(checkpoints)
        PROVE  /\ checkpoints[c].lastSeq <= n + 1
               /\ \A i \in 1..(n + 1) : i > checkpoints[c].lastSeq <=>
                     transcript'[i].revision > checkpoints[c].revision
    <3>1. checkpoints[c].lastSeq \in Nat /\ checkpoints[c].lastSeq <= n
      <4>1. checkpoints[c] \in Checkpoint
        BY ElementOfSeq DEF StoreTypeOK
      <4>2. checkpoints[c].lastSeq <= Len(transcript)
        BY DEF DataInv, SnapshotSuffixExact
      <4> QED
        BY <4>1, <4>2 DEF Checkpoint, n
    <3>2. \A i \in 1..n : i > checkpoints[c].lastSeq <=>
             transcript[i].revision > checkpoints[c].revision
      BY DEF DataInv, SnapshotSuffixExact, n
    <3>3. n + 1 > checkpoints[c].lastSeq /\ transcript'[n + 1].revision > checkpoints[c].revision
      BY <3>1, <1>1, <1>3, <1>6
    <3> QED
      BY <3>1, <3>2, <3>3, <1>1, <1>4
  <2> QED
    BY <2>1, <1>1, <1>2 DEF SnapshotSuffixExact
<1> QED
  BY <1>7, <1>8, <1>9, <1>10 DEF DataInv

\* save_checkpoint keeps the tables consistent, whatever it prunes.
LEMMA CheckpointStep ==
    ASSUME StoreTypeOK, DataInv, NEW k \in Keys, NEW s \in States,
           NEW kept \in 1..MaxCheckpoints, SaveCheckpoint(k, s, revision, kept)
    PROVE  DataInv'
<1> DEFINE n == Len(transcript)
           old(i) == Len(checkpoints) + 1 - kept + i
<1>1. /\ n \in Nat /\ revision \in Nat /\ kept \in Nat /\ kept >= 1
      /\ Len(checkpoints) \in Nat
      /\ Len(checkpoints') = kept
      /\ \A i \in 1..(kept - 1) :
            old(i) \in 1..Len(checkpoints) /\ checkpoints'[i] = checkpoints[old(i)]
      /\ checkpoints'[kept].revision = revision + 1
      /\ checkpoints'[kept].lastSeq = n
  <2>1. /\ n \in Nat /\ revision \in Nat /\ kept \in Nat /\ kept >= 1
        /\ Len(checkpoints) \in Nat
    BY LimitAssumption DEF LimitAssumption, StoreTypeOK
  <2>2. /\ Len(checkpoints') = kept
        /\ \A i \in 1..(kept - 1) :
              old(i) \in 1..Len(checkpoints) /\ checkpoints'[i] = checkpoints[old(i)]
        /\ checkpoints'[kept] = [key |-> k, revision |-> revision + 1, lastSeq |-> n, state |-> s]
    BY KeptCheckpoints
  <2> QED
    BY <2>1, <2>2
<1>2. transcript' = transcript /\ revision' = revision + 1
         /\ cutoff' = cutoff /\ versions' = versions
  BY DEF SaveCheckpoint
<1>3. 1..kept = 1..(kept - 1) \cup {kept} /\ kept \notin 1..(kept - 1)
  BY <1>1
<1>4. \A i \in 1..n : transcript[i].revision \in 1..revision
  BY DEF DataInv, RevisionsOrdered
<1>5. \A c \in 1..Len(checkpoints) : checkpoints[c].revision \in 1..revision
  BY DEF DataInv, RevisionsOrdered
<1>6. \A i, j \in 1..(kept - 1) : i < j => old(i) < old(j)
  BY <1>1
<1> HIDE DEF n, old
<1>7. RevisionsOrdered'
  <2>1. \A i \in 1..kept : checkpoints'[i].revision \in 1..(revision + 1)
    <3>1. \A i \in 1..(kept - 1) : checkpoints'[i].revision \in 1..revision
      BY <1>1, <1>5
    <3>2. 1..revision \subseteq 1..(revision + 1) /\ revision + 1 \in 1..(revision + 1)
      BY <1>1
    <3> QED
      BY <3>1, <3>2, <1>1, <1>3
  <2>2. ASSUME NEW i \in 1..kept, NEW j \in 1..kept, i < j
        PROVE  checkpoints'[i].revision < checkpoints'[j].revision
    <3>1. i \in 1..(kept - 1)
      BY <2>2, <1>1
    <3>2. CASE j = kept
      BY <3>1, <3>2, <1>1, <1>5, SMTT(30)
    <3>3. CASE j \in 1..(kept - 1)
      <4>1. \A a, b \in 1..Len(checkpoints) :
               a < b => checkpoints[a].revision < checkpoints[b].revision
        BY DEF DataInv, RevisionsOrdered
      <4>2. checkpoints[old(i)].revision < checkpoints[old(j)].revision
        BY <2>2, <3>1, <3>3, <4>1, <1>1, <1>6
      <4> QED
        BY <3>1, <3>3, <4>2, <1>1
    <3> QED
      BY <3>2, <3>3, <1>3
  <2>3. \A i \in 1..Len(transcript) : transcript[i].revision \in 1..(revision + 1)
    BY <1>1, <1>4 DEF n
  <2>4. \A i, j \in 1..Len(transcript) :
           i < j => transcript[i].revision < transcript[j].revision
    BY DEF DataInv, RevisionsOrdered
  <2> QED
    BY <1>1, <1>2, <2>1, <2>2, <2>3, <2>4 DEF RevisionsOrdered
<1>8. KeysCommitOnce' /\ CutoffIsAnEvent'
  BY <1>2 DEF DataInv, KeysCommitOnce, CutoffIsAnEvent
<1>9. SnapshotSuffixExact'
  <2>1. \A c \in 1..Len(checkpoints) :
           /\ checkpoints[c].lastSeq <= n
           /\ \A i \in 1..n : i > checkpoints[c].lastSeq <=>
                 transcript[i].revision > checkpoints[c].revision
    BY DEF DataInv, SnapshotSuffixExact, n
  <2>2. \A c \in 1..(kept - 1) :
           /\ checkpoints'[c].lastSeq <= n
           /\ \A i \in 1..n : i > checkpoints'[c].lastSeq <=>
                 transcript[i].revision > checkpoints'[c].revision
    BY <2>1, <1>1
  <2>3. /\ checkpoints'[kept].lastSeq <= n
        /\ \A i \in 1..n : i > checkpoints'[kept].lastSeq <=>
              transcript[i].revision > checkpoints'[kept].revision
    BY <1>1, <1>4
  <2>4. \A c \in 1..kept :
           /\ checkpoints'[c].lastSeq <= n
           /\ \A i \in 1..n : i > checkpoints'[c].lastSeq <=>
                 transcript[i].revision > checkpoints'[c].revision
    BY <2>2, <2>3, <1>3
  <2> QED
    BY <2>4, <1>1, <1>2 DEF SnapshotSuffixExact, n
<1> QED
  BY <1>7, <1>8, <1>9 DEF DataInv

\* The empty tables are consistent.
LEMMA DataInit == StoreInit => DataInv
BY DEF StoreInit, DataInv, RevisionsOrdered, KeysCommitOnce, CutoffIsAnEvent, SnapshotSuffixExact

\* Every operation keeps the tables consistent.
LEMMA DataStep == StoreTypeOK /\ DataInv /\ [StoreNext]_storeVars => DataInv'
<1> SUFFICES ASSUME StoreTypeOK, DataInv, [StoreNext]_storeVars PROVE DataInv'
  OBVIOUS
<1>1. ASSUME NEW d \in Draft, AppendEvent(d, revision) PROVE DataInv'
  BY <1>1, AppendStep
<1>2. ASSUME NEW k \in Keys, NEW s \in States, NEW kept \in 1..MaxCheckpoints,
             SaveCheckpoint(k, s, revision, kept)
      PROVE  DataInv'
  BY <1>2, CheckpointStep
<1>3. ASSUME NEW st \in SessionStatus, SetStatus(st, revision) PROVE DataInv'
  BY <1>3, QuietStep DEF SetStatus
<1>4. CASE Tick \/ Create \/ ExpireResumePoints
  BY <1>4, QuietStep DEF Tick, Create, ExpireResumePoints
<1>5. ASSUME NEW r \in Runs, NEW o \in Owners, NEW now \in 0..clock,
             ClaimRun(r, o, now) \/ FinalizeRun(r, o, now)
      PROVE  DataInv'
  BY <1>5, QuietStep DEF ClaimRun, FinalizeRun
<1>6. ASSUME NEW r \in Runs, RequestStop(r) PROVE DataInv'
  BY <1>6, QuietStep DEF RequestStop
<1>7. ASSUME NEW r \in Runs, NEW kept \in SUBSET Runs, NEW p \in OfferedPoint,
             SaveResumePoint(r, p, kept)
      PROVE  DataInv'
  BY <1>7, QuietStep DEF SaveResumePoint
<1>8. CASE UNCHANGED storeVars
  BY <1>8, QuietStep DEF storeVars
<1> QED
  BY <1>1, <1>2, <1>3, <1>4, <1>5, <1>6, <1>7, <1>8 DEF StoreNext

\* The inductive invariant of the store.
LEMMA StoreInvariant == StoreSpec => [](StoreTypeOK /\ DataInv)
BY TypeInit, TypeStep, DataInit, DataStep, PTL DEF StoreSpec

\* However often a delivery is repeated, append commits its key once.
THEOREM KeysAreCommittedOnce == StoreSpec => []KeysCommitOnce
<1>1. StoreTypeOK /\ DataInv => KeysCommitOnce
  BY DEF DataInv
<1> QED
  BY <1>1, StoreInvariant, PTL

\* The assertion in append never fails: an overtaken invalidation finds the
\* event of the current cutoff.
THEOREM CutoffAlwaysHasItsEvent == StoreSpec => []CutoffIsAnEvent
<1>1. StoreTypeOK /\ DataInv => CutoffIsAnEvent
  BY DEF DataInv
<1> QED
  BY <1>1, StoreInvariant, PTL

\* The suffix that resume returns by sequence number is the one its callers
\* mean by revision.
THEOREM ResumeSuffixIsExact == StoreSpec => []SnapshotSuffixExact
<1>1. StoreTypeOK /\ DataInv => SnapshotSuffixExact
  BY DEF DataInv
<1> QED
  BY <1>1, StoreInvariant, PTL

\* Rows are in revision order and never ahead of the session.
THEOREM RowsFollowRevisions == StoreSpec => []RevisionsOrdered
<1>1. StoreTypeOK /\ DataInv => RevisionsOrdered
  BY DEF DataInv
<1> QED
  BY <1>1, StoreInvariant, PTL

(***************************************************************************)
(* What a step may never do.                                               *)
(***************************************************************************)

\* A run has one owner for ever, and its claim never moves back.
THEOREM RunsAreClaimedOnce == StoreSpec => ClaimLifecycle
<1>1. ASSUME StoreTypeOK, [StoreNext]_storeVars PROVE [ClaimMoves]_storeVars
  <2>1. ASSUME NEW r \in Runs, NEW o \in Owners, NEW now \in 0..clock, ClaimRun(r, o, now)
        PROVE  ClaimMoves
    <3>1. CASE claims' = [claims EXCEPT ![r] =
                 [state |-> "active", owner |-> o, expires |-> now + RunLease]]
               /\ ClaimOutcome(r, now) = "acquired"
      <4>1. claims[r].state = "none"
        BY <3>1 DEF ClaimOutcome
      <4> QED
        BY <1>1, <3>1, <4>1 DEF ClaimMoves, StoreTypeOK
    <3>2. CASE claims' = [claims EXCEPT ![r].state = "abandoned"]
               /\ ClaimOutcome(r, now) = "stale"
      <4>1. claims[r].state \in {"active", "finalizing", "abandoned"}
        <5>1. claims[r].state # "none"
          BY <3>2 DEF ClaimOutcome
        <5> QED
          BY <1>1, <5>1 DEF StoreTypeOK, RunClaim
      <4>2. \A x \in Runs : claims'[x].owner = claims[x].owner
                 /\ (x # r => claims'[x] = claims[x])
        BY <1>1, <3>2 DEF StoreTypeOK, RunClaim
      <4>3. claims'[r].state = "abandoned"
        BY <1>1, <3>2 DEF StoreTypeOK, RunClaim
      <4> QED
        BY <4>1, <4>2, <4>3 DEF ClaimMoves
    <3>3. CASE UNCHANGED claims
      BY <3>3 DEF ClaimMoves
    <3> QED
      BY <2>1, <3>1, <3>2, <3>3 DEF ClaimRun
  <2>2. ASSUME NEW r \in Runs, NEW o \in Owners, NEW now \in 0..clock, FinalizeRun(r, o, now)
        PROVE  ClaimMoves
    <3>1. claims[r].state = "active" /\ claims[r].owner = o
      BY <2>2 DEF FinalizeRun, MayFinalize
    <3> QED
      BY <1>1, <2>2, <3>1 DEF FinalizeRun, ClaimMoves, StoreTypeOK
  <2>3. CASE UNCHANGED claims
    BY <2>3 DEF ClaimMoves
  <2>4. \/ UNCHANGED claims
        \/ \E r \in Runs, o \in Owners : \E now \in 0..clock :
              ClaimRun(r, o, now) \/ FinalizeRun(r, o, now)
    BY <1>1 DEF StoreNext, storeVars, Tick, Create, RequestStop, SaveResumePoint,
                ExpireResumePoints, AppendEvent, SaveCheckpoint, SetStatus
  <2> QED
    BY <2>1, <2>2, <2>3, <2>4
<1> QED
  BY <1>1, StoreTypeCorrect, PTL DEF StoreSpec, ClaimLifecycle

\* After finalize_run the answer of stop_requested is final.
THEOREM StopIsFrozen == StoreSpec => StopFrozenAfterFinalize
<1>1. ASSUME [StoreNext]_storeVars PROVE [StopFrozen]_storeVars
  <2>1. ASSUME NEW r \in Runs, RequestStop(r) PROVE StopFrozen
    BY <2>1 DEF RequestStop, ActiveRuns, StopFrozen
  <2>2. CASE UNCHANGED stops
    BY <2>2 DEF StopFrozen
  <2>3. UNCHANGED stops \/ \E r \in Runs : RequestStop(r)
    BY <1>1 DEF StoreNext, storeVars, Tick, Create, ClaimRun, FinalizeRun, SaveResumePoint,
                ExpireResumePoints, AppendEvent, SaveCheckpoint, SetStatus
  <2> QED
    BY <2>1, <2>2, <2>3
<1> QED
  BY <1>1, PTL DEF StoreSpec, StopFrozenAfterFinalize

\* A reader whose revision is still the current one has seen everything.
THEOREM RevisionIsSound == StoreSpec => RevisionCoversChange
<1>1. ASSUME StoreTypeOK, [StoreNext]_storeVars PROVE [RevisionCovers]_storeVars
  <2>1. CASE UNCHANGED <<revision, status, cutoff, versions, transcript, checkpoints>>
    BY <2>1 DEF RevisionCovers
  <2>2. CASE revision' = revision + 1
    BY <1>1, <2>2 DEF RevisionCovers, StoreTypeOK
  <2>3. \/ UNCHANGED <<revision, status, cutoff, versions, transcript, checkpoints>>
        \/ revision' = revision + 1
    BY <1>1 DEF StoreNext, storeVars, Tick, Create, ClaimRun, FinalizeRun, RequestStop,
                SaveResumePoint, ExpireResumePoints, AppendEvent, SaveCheckpoint, SetStatus
  <2> QED
    BY <2>1, <2>2, <2>3
<1> QED
  BY <1>1, StoreTypeCorrect, PTL DEF StoreSpec, RevisionCoversChange

\* A new checkpoint is the newest row, and the rows that pruning removes are
\* older than every row it keeps.
LEMMA CheckpointKeepsNewest ==
    ASSUME StoreTypeOK, DataInv, NEW k \in Keys, NEW s \in States,
           NEW kept \in 1..MaxCheckpoints, SaveCheckpoint(k, s, revision, kept)
    PROVE  NewestKept
<1> DEFINE m == Len(checkpoints)
           old(i) == m + 1 - kept + i
<1>1. /\ kept \in Nat /\ kept >= 1 /\ m \in Nat /\ revision \in Nat /\ Len(checkpoints') = kept
      /\ \A i \in 1..(kept - 1) : old(i) \in 1..m /\ checkpoints'[i] = checkpoints[old(i)]
      /\ checkpoints'[kept].revision = revision + 1
  <2>1. kept \in Nat /\ kept >= 1 /\ m \in Nat /\ revision \in Nat
    BY LimitAssumption DEF LimitAssumption, StoreTypeOK
  <2> DEFINE new == [key |-> k, revision |-> revision + 1, lastSeq |-> Len(transcript), state |-> s]
  <2>2. /\ Len(checkpoints') = kept
        /\ \A i \in 1..(kept - 1) : old(i) \in 1..m /\ checkpoints'[i] = checkpoints[old(i)]
        /\ checkpoints'[kept] = new
    BY KeptCheckpoints
  <2>3. new.revision = revision + 1
    OBVIOUS
  <2> HIDE DEF m, old, new
  <2> QED
    BY <2>1, <2>2, <2>3
<1>2. revision' = revision + 1
  BY DEF SaveCheckpoint
<1>3. /\ \A i, j \in 1..m : i < j => checkpoints[i].revision < checkpoints[j].revision
      /\ \A i \in 1..m : checkpoints[i].revision \in 1..revision
  BY DEF DataInv, RevisionsOrdered
<1>4. ASSUME NEW i \in 1..m, NEW j \in 1..kept, checkpoints'[j].revision < checkpoints[i].revision
      PROVE  \E l \in 1..kept : checkpoints'[l] = checkpoints[i]
  <2>1. j \in 1..(kept - 1)
    BY <1>1, <1>3, <1>4
  <2>2. old(j) \in 1..m /\ checkpoints[old(j)].revision < checkpoints[i].revision
    BY <1>1, <1>4, <2>1
  <2>3. old(j) < i
    <3>1. old(j) \in Int /\ i \in Int
      BY <1>1
    <3>2. ~(i < old(j)) /\ i # old(j)
      <4>1. checkpoints[i].revision \in Nat /\ checkpoints[old(j)].revision \in Nat
        BY <1>1, <1>3, <2>2, SMTT(30)
      <4> QED
        BY <1>3, <2>2, <4>1
    <3> QED
      BY <3>1, <3>2
  <2> DEFINE l == i - (m + 1 - kept)
  <2>4. l \in 1..(kept - 1) /\ l \in 1..kept /\ old(l) = i
    BY <1>1, <2>1, <2>3
  <2> HIDE DEF l, old
  <2>5. checkpoints'[l] = checkpoints[i]
    BY <1>1, <2>4
  <2> QED
    BY <2>4, <2>5
<1>5. checkpoints' # <<>>
  BY <1>1
<1> QED
  BY <1>1, <1>2, <1>4, <1>5 DEF NewestKept

\* save_checkpoint and _prune_checkpoints keep the newest checkpoint, for every
\* limit on their number and whatever their sizes force out.
THEOREM NewestIsKept == StoreSpec => NewestCheckpointKept
<1>1. ASSUME StoreTypeOK, DataInv, [StoreNext]_storeVars PROVE [NewestKept]_storeVars
  <2>1. CASE UNCHANGED checkpoints
    BY <2>1 DEF NewestKept
  <2>2. CASE \E k \in Keys, s \in States, kept \in 1..MaxCheckpoints :
                SaveCheckpoint(k, s, revision, kept)
    BY <1>1, <2>2, CheckpointKeepsNewest
  <2>3. \/ UNCHANGED checkpoints
        \/ \E k \in Keys, s \in States, kept \in 1..MaxCheckpoints :
              SaveCheckpoint(k, s, revision, kept)
    BY <1>1 DEF StoreNext, storeVars, Tick, Create, ClaimRun, FinalizeRun, RequestStop,
                SaveResumePoint, ExpireResumePoints, AppendEvent, SetStatus
  <2> QED
    BY <2>1, <2>2, <2>3
<1> QED
  BY <1>1, StoreInvariant, PTL DEF StoreSpec, NewestCheckpointKept

\* Neither the cutoff nor a source version ever moves back.
THEOREM InvalidationIsMonotone == StoreSpec => CutoffMonotone
<1>1. ASSUME StoreTypeOK, DataInv PROVE cutoff <= revision
  <2>1. CASE cutoff = 0
    BY <1>1, <2>1 DEF StoreTypeOK
  <2>2. CASE cutoff > 0
    <3>1. PICK i \in 1..Len(transcript) : transcript[i].revision = cutoff
      BY <1>1, <2>2 DEF DataInv, CutoffIsAnEvent
    <3>2. transcript[i].revision \in 1..revision
      BY <1>1 DEF DataInv, RevisionsOrdered
    <3> QED
      BY <3>1, <3>2, <1>1 DEF StoreTypeOK
  <2> QED
    BY <2>1, <2>2, <1>1 DEF StoreTypeOK
<1>2. ASSUME StoreTypeOK, DataInv, [StoreNext]_storeVars PROVE [CutoffForward]_storeVars
  <2>1. CASE UNCHANGED <<cutoff, versions>>
    BY <1>2, <2>1 DEF CutoffForward, StoreTypeOK
  <2>2. ASSUME NEW d \in Draft, AppendEvent(d, revision) PROVE CutoffForward
    <3>1. cutoff' >= cutoff
      BY <1>1, <1>2, <2>2 DEF AppendEvent, StoreTypeOK
    <3>2. CASE d.kind = "invalidated" /\ d.source # NoSource
      <4>1. ~Overtaken(d)
        BY <2>2 DEF AppendEvent, AppendOutcome
      <4>2. d.source \in Sources /\ d.version \in Nat
        <5>1. Recorded(d, revision) \in TranscriptEvent
          BY <1>2, RecordedType DEF StoreTypeOK
        <5> QED
          BY <3>2, <5>1 DEF Recorded, TranscriptEvent
      <4>3. d.version >= versions[d.source]
        BY <3>2, <4>1, <4>2, <1>2 DEF Overtaken, StoreTypeOK
      <4>4. versions' = [versions EXCEPT ![d.source] = d.version]
        BY <2>2, <3>2 DEF AppendEvent
      <4> QED
        BY <3>1, <4>2, <4>3, <4>4, <1>2 DEF CutoffForward, StoreTypeOK
    <3>3. CASE ~(d.kind = "invalidated" /\ d.source # NoSource)
      <4>1. versions' = versions
        BY <2>2, <3>3 DEF AppendEvent
      <4> QED
        BY <3>1, <4>1, <1>2 DEF CutoffForward, StoreTypeOK
    <3> QED
      BY <3>2, <3>3
  <2>3. UNCHANGED <<cutoff, versions>> \/ \E d \in Draft : AppendEvent(d, revision)
    BY <1>2 DEF StoreNext, storeVars, Tick, Create, ClaimRun, FinalizeRun, RequestStop,
                SaveResumePoint, ExpireResumePoints, SaveCheckpoint, SetStatus
  <2> QED
    BY <2>1, <2>2, <2>3
<1> QED
  BY <1>2, StoreInvariant, PTL DEF StoreSpec, CutoffMonotone
=============================================================================
