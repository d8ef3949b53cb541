SPECIFICATION Spec
CONSTANTS
    c1 = c1  c2 = c2  l1 = l1
    Clients = {c1, c2}
    Locations = {l1}
    Contents = {1, 2}
PROPERTIES
    Linearizable
SYMMETRY ClientSymmetry
