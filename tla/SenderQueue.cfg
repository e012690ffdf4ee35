SPECIFICATION Spec
CONSTANTS
    a1 = a1
    a2 = a2
    a3 = a3
    Alerts <- ThreeAlerts
    NumTargets = 2
    MaxPendingAlerts = 1
PROPERTY
    ImplementsQueue
