CONSTANTS
    MaxClients = 8
    ServerIdx = 1
    NULL = NULL
    Conn = {c1, c2, c3}
    Garbage = {0, 1}
    Talker = {c1}
SPECIFICATION CtrlSpec
SYMMETRY Symmetry
INVARIANTS
    
    IpOwnership
PROPERTY
    ShutsDownOwn
