\* Two processes with unsynchronised id generators, versions that are content
\* hashes (S3 ETags) and may recur, and a request that may arrive after its
\* caller gave up.
SPECIFICATION Spec
CONSTANTS
    w1 = w1
    w2 = w2
    p1 = p1
    p2 = p2
    t1 = t1
    t2 = t2
    t3 = t3
    Workers = {w1, w2}
    Processes = {p1, p2}
    ProcessOf <- TwoProcesses
    Ids = {1, 2}
    Tokens = {t1, t2}
    NoToken = NoToken
    Durations = {0, 1}
    ContentVersions = TRUE
    MaxSkew = 0
    MaxMillis = 2
    MaxAttempts = 2
    MaxTime = 2
    MaxInFlight = 1
SYMMETRY QueueSymmetry
INVARIANTS
    TypeOK
    StoredIdsIncrease
    NoLostMessage
    AckedStaysGone
    AttemptsCountClaims
    OnlyLatestClaimAcks
    LeaseExclusive
    DeadlinesGrow
PROPERTIES
    PublishAppends
    Linearizable
