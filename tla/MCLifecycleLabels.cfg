SPECIFICATION Spec
CONSTANTS
    Domain <- Intents
    Artifacts <- Loadable
    Configs <- OnlyLegal
    MaxInFlight = 1
    MaxKills = 1
INVARIANT
    LoadedSpeaksDomain
