\* A /30 tunnel: four addresses, of which one can be leased.
CONSTANTS
    MaxClients = 4
    ServerIdx = 1
    NULL = NULL
    Conn = {c1, c2, c3}
    Garbage = {0, 1}
SPECIFICATION Spec
SYMMETRY Symmetry
INVARIANTS
    BlockOwnership
    HandleNotForeign
PROPERTY
    ImplementsLease
