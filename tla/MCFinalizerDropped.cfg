SPECIFICATION LifecycleSpec

CHECK_DEADLOCK FALSE

CONSTANTS
    MaxVersion = 2
    Pin = 2
    Remembers = FALSE
    Refusing = {TRUE}
    Forbidden = FALSE
    None = None
    Callers = {lcm}
    Worker = lcm
    lcm = lcm
    AllowDowngrade = FALSE
    MaxAttempts = 2
    ThirdParty <- MCThirdParty
    FirstReleases <- MCFirstReleases
    MaxFaults = 0
    MaxEdits = 0
    Configs = {n1}
    n1 = n1
    Annotated <- MCAnnotated
    Objects = {d1}
    d1 = d1
    MaxUserOps = 3
    MaxListFaults = 0

PROPERTIES
    FinalizerHeldUntilDecided
