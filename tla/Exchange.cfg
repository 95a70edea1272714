SPECIFICATION Spec
CONSTANTS
    U32Max = 100000
    Keys <- MCKeys
    Typing <- MCTyping
    Horizon = 60
    Windows <- MCWindows
    Quantities = {1, 65536}
    Thresholds <- MCThresholds
    Labels = {1077, 65526, 65527}
    Trackers <- MCTrackers
    MaxEntries = 1
    MaxRequests = 2
    MaxReports = 2
    MaxAnswers = 2
    Targets <- MCTargets
    Verdicts <- MCVerdicts
    OddShapes <- MCOddShapes
    RecvBuf = 2048
CHECK_DEADLOCK FALSE
INVARIANTS
    TypeOK
    KeyOrEncodingError
    NeverPanics
    PacketsExact
    GrantIsServers
    AnswersUnderstood
    ReportsAccounted
