\* No address to lease and more connections than slots in the client list.
CONSTANTS
    MaxClients = 2
    ServerIdx = 0
    NULL = NULL
    Conn = {c1, c2, c3}
    Garbage = {0}
SPECIFICATION Spec
INVARIANT
    NoBlockLeak

    
