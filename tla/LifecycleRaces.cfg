SPECIFICATION Spec
CONSTANTS
    c1 = c1  c2 = c2  c3 = c3  v1 = v1  v2 = v2
    Clients = {c1, c2, c3}
    Schemas = {v1, v2}
    Foreign = Foreign
    Absent = Absent
    MaxInFlight = 1
SYMMETRY CallerSymmetry
INVARIANTS
    HandlesAgree
    OneCreator
    VerdictsHold
