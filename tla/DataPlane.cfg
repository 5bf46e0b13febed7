CONSTANTS
    SendBlock = {s1}
    RecvBlock = {r1, r2, r3}
    Conn = {c1, c2}
    Packet = {p1, p2}
    QueueSize = 2
    MaxTracked = 1
    NULL = NULL
SPECIFICATION Spec
INVARIANTS
    InFlightIntact
    BlocksReturned
PROPERTIES
    PacketsIntactInOrder
    StopReturns
