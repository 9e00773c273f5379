\* The code's own cap.
SPECIFICATION FairSpec
CONSTANTS
    OnlineReconnectCycleCap = 6
    MaxNetChanges = 2
INVARIANTS
    SmAgrees
    NoJoinWithoutToken
    RetryBudget
PROPERTIES
    OutageEnds
