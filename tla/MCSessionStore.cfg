SPECIFICATION StoreSpec
CONSTANTS
    Runs = {r1}
    Owners = {o1, o2}
    Keys = {k1, k2, k3}
    Bodies <- MCBodies
    States = {s1}
    Sources = {src}
    Versions = {1, 2}
    Progress = {0}
    NoKey = NoKey
    NoRun = NoRun
    NoOwner = NoOwner
    NoSource = NoSource
    MaxEvents = 2
    MaxClaims = 1
    MaxCheckpoints = 2
    MaxPoints = 1
    RunLease = 1
    FinalLease = 1
    PointTTL = 1
    MaxClock = 1
    MaxRevision = 3
SYMMETRY Symmetric
CONSTRAINT Bounded
INVARIANTS StoreTypeOK KeysCommitOnce CutoffIsAnEvent SnapshotSuffixExact RevisionsOrdered
PROPERTIES NewestCheckpointKept RevisionCoversChange CutoffMonotone ClaimLifecycle StopFrozenAfterFinalize
CHECK_DEADLOCK FALSE
