SPECIFICATION AuthFairSpec
CONSTANT MaxTasks = 4
INVARIANTS
    ScanCanSucceed
    SuccessIsWritten
PROPERTIES
    ScanIsNotAbandoned
    CancelEndsCommand
