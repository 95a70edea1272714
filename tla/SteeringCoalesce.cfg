SPECIFICATION Spec
CONSTANTS
    Requests = {r1, r2}
    Reporters = {p1}
    MaxSteers = 2
    MayCancel = FALSE
INVARIANT
    AdviceIsCurrent
