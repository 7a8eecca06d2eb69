SPECIFICATION FairSpec
CONSTANTS
    Domain <- Intents
    Artifacts <- AnyArtifact
    Configs <- LegalAndNot
    MaxInFlight = 1
    MaxKills = 1
INVARIANTS
    TypeOK
    ProbeAgreesWithItself
    ReadinessNeverFlaps
PROPERTIES
    NoCrashLoop
