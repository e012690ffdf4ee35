SPECIFICATION Spec
CONSTANTS
    MaxAttempts = 3
    MaxSeq = 2
    RecoveryTimeout = 1
INVARIANTS
    TypeOK
    DownIsRecovering
    ReportsCurrentAttempt
    ResumeIsExact
    InvalidSessionIsForgotten
    OutageIsWatched
    StopsOnlyOnRequest
