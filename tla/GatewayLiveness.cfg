SPECIFICATION FairSpec
CONSTANTS
    MaxAttempts = 2
    MaxSeq = 1
    RecoveryTimeout = 2
PROPERTIES
    GivesUpOnlyAfterTimeout
    FatalIsReported
    CanceledSupervisorStops
    OutageEnds
    AcceptedReadyIsAnnounced
    ImplementsReadyService
