SPECIFICATION Spec
CONSTANTS
    U32Max = 63
    U64Max = 511
    MAX_REPLAY_COUNT = 4
    Schedules <- MCSchedules
    Units <- MCUnits
    ReplayCounts <- MCReplayCounts
    FinalUnits <- MCFinalUnits
    DedupLimits <- MCDedupLimits
INVARIANTS
    UnitsAreExact
    TtlIsHorizon
    AcceptedIffWithinLimits
CHECK_DEADLOCK FALSE
