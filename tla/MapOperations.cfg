SPECIFICATION Spec
CONSTANTS
    w1 = w1  w2 = w2  k1 = k1  k2 = k2  x = x
    Workers = {w1, w2}
    Keys = {k1, k2}
    Values = {x}
    NoValue = NoValue
    MaxVersion = 3
    MaxInFlight = 1
INVARIANTS
    TypeOK
    VersionNamesSnapshot
PROPERTIES
    Linearizable
SYMMETRY MapSymmetry
