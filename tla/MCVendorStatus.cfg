SPECIFICATION Spec

CONSTANTS
    requiredDPFCRDs <- MCrequiredDPFCRDs
    requiredDPFControllers <- MCrequiredDPFControllers
    Argos <- MCArgos
    DPUs = {"dpu"}
    Intents <- MCIntents
    DPUStates <- MCDPUStates
    Installations <- MCInstallations
    None = None
    MaxTries = 2
    MaxEnv = 2

INVARIANT TypeOK
PROPERTIES
    
    DaemonConditionKept
    
    OnlyGoodNewsIsStale
