SPECIFICATION Spec
CONSTANTS
    MinPort = 10
    MaxPort = 12
    LowPorts = {5}
    Foreign <- MCForeign
    MayDeny <- MCMayDeny
INVARIANT
    SkipsUnavailable
