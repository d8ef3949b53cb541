SPECIFICATION Spec
CONSTANTS
    t1 = t1  t2 = t2  t3 = t3
    Tasks = {t1}
    Kinds = {"map"}
    HandleCount = 2
    PoolSize = 1
    MaxOpens = 1
INVARIANTS
    EntriesOwned
CHECK_DEADLOCK FALSE
