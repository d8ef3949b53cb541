SPECIFICATION ConflictSpec
CONSTANTS
    Clients = {c1, c2}
    Locations = {l1}
    Contents = {1, 2}
INVARIANTS
    ConflictMeansStale
