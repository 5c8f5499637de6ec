SPECIFICATION Spec

CONSTANTS
    MaxVersion = 4
    Pin = 3
    Remembers = FALSE
    Refusing = {FALSE}
    Forbidden = FALSE
    None = None
    Callers = {c1, c2}
    c1 = c1
    c2 = c2
    AllowDowngrade = FALSE
    MaxAttempts = 2
    ThirdParty <- MCThirdParty
    FirstReleases <- MCFirstReleases
    MaxFaults = 2
    MaxEdits = 2

INVARIANTS
    TypeOK

PROPERTIES
    SuccessIsPinned
    
    NeverBelowFound
    RollbackRestores
    EnsureReturns
