SPECIFICATION Spec
CONSTANTS
    Characters <- SomeCharacters
    AlertBodies <- SomeAlerts
    TextBodies <- SomeTexts
    MessagePrefixes <- SomePrefixes
    MessageLimits <- SomeLimits
INVARIANTS
    MessageIsBestFit
    StateSurvives
    LogsAgree
