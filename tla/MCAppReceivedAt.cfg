\* One message delivered twice, received at two times.
SPECIFICATION AppSpec
CONSTANTS
    Owners <- MCOwners
    Keys <- MCKeys
    Bodies <- MCBodies
    States <- MCStates
    Progress = {0}
    NoKey = NoKey
    NoRun = NoRun
    NoOwner = NoOwner
    NoSource = NoSource
    Runs = {m1}
    MaxEvents = 8
    MaxClaims = 2
    MaxCheckpoints = 1
    MaxPoints = 1
    RunLease = 1
    FinalLease = 1
    PointTTL = 2
    Procs = {p1}
    Deliveries <- TwoDeliveries
    MaxHandlers = 2
    MaxClock = 0
    MaxDrops = 3
    MaxInvalidations = 0
    MaxTools = 0
    MaxMarks = 0
    MaxFaults = 0
    MaxInterrupts = 0
    MaxStops = 0
    HookOutcomes = {"accept"}
    MaxTrim = 0
    ShortTerm = {1}
    HistoryLimit = 2
    ScanLimit = 8
    TargetOf <- NoTargets
    Signals = {}
    LegacyRuns = {}
    Sources = {}
    Versions = {1}
INVARIANTS RedeliveryIsNoConflict
CHECK_DEADLOCK FALSE
