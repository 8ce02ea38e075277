\* Three messages, one of them delivered to two processes, and an invalidation.
SPECIFICATION AppSpec
CONSTANTS
    Owners <- MCOwners
    Keys <- MCKeys
    Bodies <- MCBodies
    States <- MCStates
    Progress = {0}
    NoKey = NoKey
    NoRun = NoRun
    NoOwner = NoOwner
    NoSource = NoSource
    Runs = {m1, m2, m3}
    MaxEvents = 8
    MaxClaims = 3
    MaxCheckpoints = 1
    MaxPoints = 1
    RunLease = 1
    FinalLease = 1
    PointTTL = 2
    Procs = {p1, p2}
    Deliveries <- OneDelivery
    MaxHandlers = 4
    MaxClock = 0
    MaxDrops = 0
    MaxInvalidations = 1
    MaxTools = 0
    MaxMarks = 0
    MaxFaults = 0
    MaxInterrupts = 0
    MaxStops = 0
    HookOutcomes = {"accept"}
    MaxTrim = 0
    ShortTerm = {0}
    HistoryLimit = 3
    ScanLimit = 8
    TargetOf <- NoTargets
    Signals = {}
    LegacyRuns = {}
    Sources = {}
    Versions = {1}
SYMMETRY Interchangeable
CONSTRAINT OneMessageAtATime
INVARIANTS SummaryReset
CHECK_DEADLOCK FALSE
