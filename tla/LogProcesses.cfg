SPECIFICATION Spec
CONSTANTS
    w1 = w1  w2 = w2  w3 = w3  p1 = p1  p2 = p2
    Writers = {w1, w2, w3}
    Processes = {p1, p2}
    ProcessOf <- TwoProcesses
    Ids = {1, 2, 3, 4}
    MaxInFlight = 1
INVARIANTS
    RecordsIncrease
    TailComplete
PROPERTIES
    AppendOnly
