\* A message, its stop and its continuation, with tool calls, checkpoints and an
\* invalidation.
SPECIFICATION AppSpec
CONSTANTS
    Owners <- MCOwners
    Keys <- MCKeys
    Bodies <- MCBodies
    States <- MCStates
    Progress = {0}
    NoKey = NoKey
    NoRun = NoRun
    NoOwner = NoOwner
    NoSource = NoSource
    m1 = m1
    c1 = c1
    Runs = {m1, c1}
    MaxEvents = 8
    MaxClaims = 2
    MaxCheckpoints = 1
    MaxPoints = 1
    RunLease = 2
    FinalLease = 1
    PointTTL = 2
    Procs = {p1}
    Deliveries <- OneDelivery
    MaxHandlers = 3
    MaxClock = 1
    MaxDrops = 3
    MaxInvalidations = 1
    MaxTools = 1
    MaxMarks = 2
    MaxFaults = 0
    MaxInterrupts = 1
    MaxStops = 2
    HookOutcomes = {"accept"}
    MaxTrim = 0
    ShortTerm = {1}
    HistoryLimit = 2
    ScanLimit = 8
    TargetOf <- OneTarget
    Signals = {}
    LegacyRuns = {}
    Sources = {}
    Versions = {1}
INVARIANTS ContinuationExact
CHECK_DEADLOCK FALSE
