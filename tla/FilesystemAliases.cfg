SPECIFICATION Spec
CONSTANTS
    c1 = c1  c2 = c2  f1 = f1
    Clients = {c1, c2}
    Locations <- Aliases
    Paths = {f1}
    PathOf <- OneFile
    Words <- MCWords
    Values <- MCValues
    Json <- MCJson
    LockNames <- MCLockNames
    MaxRevision = 3
PROPERTIES
    CompareAndSwap
