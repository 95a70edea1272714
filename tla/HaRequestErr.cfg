SPECIFICATION Spec
CONSTANTS
    ServerIds <- MCServerIds
    Addrs <- MCAddrs
    Memberships <- MCMemberships
    Replies <- MCReplies
    MayFail <- MCMayFail
    Gap <- MCGap
    Before <- MCBefore
    ReplayCount = 1
    FinalGap = 1
    CompletionDelivery = TRUE
    AgeUnit = 4
    MaxReplies = 1
    MaxLate = 0
INVARIANT
    ErrMeansNoDecision
CHECK_DEADLOCK FALSE
