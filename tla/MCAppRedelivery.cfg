\* One message, delivered up to three times to two processes that may die anywhere,
\* with leases that run out, a stop, a caller that may withdraw its authorization,
\* and possibly a run that an older release left unfinished.
SPECIFICATION AppSpec
CONSTANTS
    Owners <- MCOwners
    Keys <- MCKeys
    Bodies <- MCBodies
    States <- MCStates
    Progress = {0}
    NoKey = NoKey
    NoRun = NoRun
    NoOwner = NoOwner
    NoSource = NoSource
    Runs = {m1}
    MaxEvents = 6
    MaxClaims = 2
    MaxCheckpoints = 1
    MaxPoints = 1
    RunLease = 1
    FinalLease = 1
    PointTTL = 3
    Procs = {p1, p2}
    Deliveries <- OneDelivery
    MaxHandlers = 3
    MaxClock = 2
    MaxDrops = 2
    MaxInvalidations = 0
    MaxTools = 0
    MaxMarks = 1
    MaxFaults = 1
    MaxInterrupts = 1
    MaxStops = 1
    HookOutcomes = {"accept", "reject", "cancel"}
    MaxTrim = 0
    ShortTerm = {1}
    HistoryLimit = 2
    ScanLimit = 6
    TargetOf <- NoTargets
    Signals = {}
    LegacyRuns = {m1}
    Sources = {}
    Versions = {1}
CONSTRAINT Bounded
SYMMETRY Symmetric
INVARIANTS AppTypeOK AtMostOnce OneOutcome AnswersAgree StopWins FinishedHasNoPoint
CHECK_DEADLOCK FALSE
