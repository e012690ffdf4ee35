CONSTANT
    Files <- MCFiles
SPECIFICATION FairCommandSpec
INVARIANTS
    NothingLeftBehind
    ExitStatusIsTruthful
    StartedIsUsable
PROPERTIES
    SignalEndsCommand
    ServicesEndTogether
