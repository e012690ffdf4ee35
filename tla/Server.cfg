SPECIFICATION ServerFairSpec
CONSTANTS
    a1 = a1
    a2 = a2
    NoRequest = NoRequest
    Alerts <- TwoAlerts
    NumTargets = 2
    MaxPendingAlerts = 1
    Requests <- GoodOrNot
    TokenConfigured = TRUE
INVARIANTS
    DrainIsComplete
    OnlyForcedEndCancels
    AcceptedIsDelivered
PROPERTIES
    NothingPostedAfterEnd
    ImplementsService
