SPECIFICATION HFairSpec
CONSTANTS
    a1 = a1
    a2 = a2
    a3 = a3
    NoRequest = NoRequest
    Alerts <- OneAlert
    NumTargets = 2
    MaxPendingAlerts = 0
    Requests <- AnyRequest
    TokenConfigured = TRUE
INVARIANTS
    UnauthorizedLearnsNothing
