SPECIFICATION FairSpec
CONSTANTS
    c1 = c1  c2 = c2  f1 = f1
    Clients = {c1, c2}
    Locations <- OneLocation
    Paths = {f1}
    PathOf <- OneFile
    Words <- MCWords
    Values <- MCValues
    Json <- MCJson
    LockNames <- MCLockNames
    MaxRevision = 3
INVARIANTS
    NoTornObject
    AckedSurvives
    TemporariesOwned
    ObjectsApart
PROPERTIES
    CompareAndSwap
    LocksReleased
    Linearizable
