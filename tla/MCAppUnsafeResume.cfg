\* A handler cancelled while its caller authorizes the commit.
SPECIFICATION AppSpec
CONSTANTS
    Owners <- MCOwners
    Keys <- MCKeys
    Bodies <- MCBodies
    States <- MCStates
    Progress = {0}
    NoKey = NoKey
    NoRun = NoRun
    NoOwner = NoOwner
    NoSource = NoSource
    m1 = m1
    c1 = c1
    Runs = {m1, c1}
    MaxEvents = 8
    MaxClaims = 2
    MaxCheckpoints = 1
    MaxPoints = 1
    RunLease = 1
    FinalLease = 1
    PointTTL = 2
    Procs = {p1}
    Deliveries <- OneDelivery
    MaxHandlers = 2
    MaxClock = 0
    MaxDrops = 3
    MaxInvalidations = 0
    MaxTools = 1
    MaxMarks = 1
    MaxFaults = 0
    MaxInterrupts = 0
    MaxStops = 0
    HookOutcomes = {"accept", "cancel"}
    MaxTrim = 0
    ShortTerm = {1}
    HistoryLimit = 2
    ScanLimit = 8
    TargetOf <- OneTarget
    Signals = {}
    LegacyRuns = {}
    Sources = {}
    Versions = {1}
INVARIANTS ContinuationExact
CHECK_DEADLOCK FALSE
