SPECIFICATION LifecycleSpec

CHECK_DEADLOCK FALSE

CONSTANTS
    MaxVersion = 2
    Pin = 2
    Remembers = FALSE
    Refusing = {FALSE}
    Forbidden = FALSE
    None = None
    Callers = {lcm}
    Worker = lcm
    lcm = lcm
    AllowDowngrade = FALSE
    MaxAttempts = 2
    ThirdParty <- MCThirdParty
    FirstReleases <- MCOurs
    MaxFaults = 0
    MaxEdits = 0
    Configs = {n1}
    n1 = n1
    Annotated <- MCDeleting
    Objects = {d1, d2}
    d2 = d2
    d1 = d1
    MaxUserOps = 4
    MaxListFaults = 1

PROPERTIES
    ReferencedKept
