SPECIFICATION LifecycleSpec

CHECK_DEADLOCK FALSE

CONSTANTS
    MaxVersion = 2
    Pin = 2
    Remembers = FALSE
    Refusing = {TRUE, FALSE}
    Forbidden = TRUE
    None = None
    Callers = {lcm}
    Worker = lcm
    lcm = lcm
    AllowDowngrade = FALSE
    MaxAttempts = 2
    ThirdParty <- MCThirdParty
    FirstReleases <- MCFirstReleases
    MaxFaults = 1
    MaxEdits = 1
    Configs = {n1}
    n1 = n1
    Annotated <- MCAnnotated
    Objects = {d1}
    d1 = d1
    MaxUserOps = 3
    MaxListFaults = 1

INVARIANTS
    LifecycleTypeOK
    InstallGuarded

PROPERTIES
    
    
    ListedReferencesKept
    ConfigDeletionCompletes
