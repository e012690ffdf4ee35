SPECIFICATION HFairSpec
CONSTANTS
    a1 = a1
    a2 = a2
    a3 = a3
    NoRequest = NoRequest
    Alerts <- ThreeAlerts
    NumTargets = 1
    MaxPendingAlerts = 1
    Requests <- WrongToken
    TokenConfigured = FALSE
INVARIANT
    RetryIsSafe
PROPERTIES
    EveryRequestIsAnswered
