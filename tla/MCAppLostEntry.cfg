\* One message delivered to two processes while another one is unfinished.
SPECIFICATION AppSpec
CONSTANTS
    Owners <- MCOwners
    Keys <- MCKeys
    Bodies <- MCBodies
    States <- MCStates
    Progress = {0}
    NoKey = NoKey
    NoRun = NoRun
    NoOwner = NoOwner
    NoSource = NoSource
    Runs = {m1, m2}
    MaxEvents = 8
    MaxClaims = 2
    MaxCheckpoints = 1
    MaxPoints = 1
    RunLease = 1
    FinalLease = 1
    PointTTL = 2
    Procs = {p1, p2}
    Deliveries <- OneDelivery
    MaxHandlers = 3
    MaxClock = 0
    MaxDrops = 1
    MaxInvalidations = 0
    MaxTools = 0
    MaxMarks = 0
    MaxFaults = 0
    MaxInterrupts = 0
    MaxStops = 0
    HookOutcomes = {"accept"}
    MaxTrim = 0
    ShortTerm = {1}
    HistoryLimit = 2
    ScanLimit = 8
    TargetOf <- NoTargets
    Signals = {}
    LegacyRuns = {}
    Sources = {}
    Versions = {1}
SYMMETRY Symmetric
PROPERTIES HistoryKept
CHECK_DEADLOCK FALSE
