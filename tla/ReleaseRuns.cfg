SPECIFICATION FairSpec
CONSTANTS
    r1 = r1  r2 = r2
    Runs = {r1, r2}
    Overrides = {2}
    Attempts = 2
    MaxFaults = 2
    MaxReruns = 1
INVARIANTS
    TypeOK
    TagComplete
    NeverPremature
    OnlyQueueLeftBehind
PROPERTIES
    ReleaseResumes
CHECK_DEADLOCK FALSE
