CONSTANTS
    MaxClients = 8
    ServerIdx = 1
    NULL = NULL
    Conn = {c1, c2}
    Garbage = {0}
SPECIFICATION Spec
SYMMETRY Symmetry
INVARIANT
    ActiveListed
