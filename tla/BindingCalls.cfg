SPECIFICATION FairSpec
CONSTANTS
    t1 = t1  t2 = t2  t3 = t3
    Tasks = {t1, t2, t3}
    Kinds = {"map", "queue"}
    HandleCount = 2
    PoolSize = 2
    MaxOpens = 2
INVARIANTS
    HandlesResolve
    ReachesOwn
PROPERTIES
    CallsEnd
CHECK_DEADLOCK FALSE
