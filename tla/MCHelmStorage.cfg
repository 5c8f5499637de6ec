SPECIFICATION Spec

CONSTANTS
    c1 = c1
    c2 = c2
    Callers = {c1, c2}
    CallsOf <- MCCallsOf
    None = None
    MaxVersion = 2
    Pin = 2
    MaxRevision = 2
    MaxTries = 2
    MaxEdits = 1
    MaxFaults = 1

INVARIANTS
    TypeOK

PROPERTIES
    KeepsPromise
    SuccessIsStored
    CallsReturn
