\* Two messages, three handlers in two processes, an invalidation, the archive and
\* a history that must evict.
SPECIFICATION AppSpec
CONSTANTS
    Owners <- MCOwners
    Keys <- MCKeys
    Bodies <- MCBodies
    States <- MCStates
    Progress = {0}
    NoKey = NoKey
    NoRun = NoRun
    NoOwner = NoOwner
    NoSource = NoSource
    Runs = {m1, m2}
    MaxEvents = 8
    MaxClaims = 2
    MaxCheckpoints = 1
    MaxPoints = 1
    RunLease = 1
    FinalLease = 1
    PointTTL = 2
    Procs = {p1, p2}
    Deliveries <- OneDelivery
    MaxHandlers = 3
    MaxClock = 0
    MaxDrops = 0
    MaxInvalidations = 1
    MaxTools = 0
    MaxMarks = 0
    MaxFaults = 0
    MaxInterrupts = 0
    MaxStops = 0
    HookOutcomes = {"accept"}
    MaxTrim = 1
    ShortTerm = {1}
    HistoryLimit = 2
    ScanLimit = 8
    TargetOf <- NoTargets
    Signals = {}
    LegacyRuns = {}
    Sources = {}
    Versions = {1}
SYMMETRY Interchangeable
INVARIANTS ArchiveCurrent ContextCurrent
PROPERTIES CompletedIsCurrent CommitKeepsHistory
CHECK_DEADLOCK FALSE
