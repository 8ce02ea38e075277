SPECIFICATION MCSpec
CONSTANTS
    Events = {e1, e2}
    Tasks = {t1, t2}
    NoEvent = NoEvent
    Lease = 3
    Timeout = 1
    Retention = 2
    MaxEntries = 1
    MaxLag = 1
    MaxTime = 5
    MaxTokens = 3
    Names = {n1, n2}
    NoName = NoName
    StateKeys = {k1, k2}
    Values = {1}
    CommandIds = {c1, c2}
    Links = {l1, l2}
    ResumeKey = rk
    Ttl = 1
    MaxRecords = 1
    MaxRetained = 2
    MaxStateTime = 3
    MaxWrites = 3
    MaxCursor = 2
    MaxConnects = 3
    LinkTime = 1
SYMMETRY Symmetric
INVARIANTS
    OneWorker
    NoOrphan
    FailClosed
    RetentionWindow
    LoneLinkLives
PROPERTIES
    LiveRowsKept
    CursorKept
CHECK_DEADLOCK FALSE
