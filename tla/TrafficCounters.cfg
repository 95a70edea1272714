SPECIFICATION Spec
CONSTANTS
    Senders = {s1, s2}
    Router = router
    U64Max = 76
    Lengths = {0, 50}
    MaxDatagrams = 3
INVARIANTS
    TypeOK
    NoLostUpdate
    CutOffIsFlagged
    TotalsAddUp
PROPERTIES
    SnapshotsGrow
