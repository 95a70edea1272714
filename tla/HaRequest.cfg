SPECIFICATION FairSpec
CONSTANTS
    ServerIds <- MCServerIds
    Addrs <- MCAddrs
    Memberships <- MCMemberships
    Replies <- MCReplies
    MayFail <- MCMayFail
    Gap <- MCGap
    Before <- MCBefore
    ReplayCount = 1
    FinalGap = 1
    CompletionDelivery = TRUE
    AgeUnit = 4
    MaxReplies = 2
    MaxLate = 2
INVARIANTS
    TypeOK
    SelectedIsOldestHeard
    OldestFirst
    TimeoutAtHorizon
    SendsWithinHorizon
    PromptTimeoutIsSilent
    PartialDeliveryVisible
PROPERTIES
    ImplementsAdmission
CHECK_DEADLOCK FALSE
