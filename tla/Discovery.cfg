SPECIFICATION FairSpec
CONSTANTS
    Tasks = {t1, t2}
    Targets = {"s-1", "s-2", "other"}
    WithId = {"s-1", "s-2"}
    Ips <- MCIps
    Interval = 1
    Sec = 2
    MaxTime = 5
INVARIANTS
    TypeOK
    ServedFresh
PROPERTIES
    NewestAnswerKept
    OperationsEnd
