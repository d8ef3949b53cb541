SPECIFICATION FairSpec
CONSTANTS
    w1 = w1  w2 = w2  w3 = w3
    Workers = {w1, w2}
    Items = {1, 2, 3}
    MaxFaults = 2
    MaxErrors = 1
    MaxExpiries = 1
INVARIANTS
    TypeOK
    CompletedExact
    AssertionsHold
PROPERTIES
    QueueDrains
    LoopsEnd
