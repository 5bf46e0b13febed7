\* Both builds: two producers and two consumers on a ring of two slots.
CONSTANTS
    Size = 2
    Producer = {p1, p2}
    Consumer = {c1, c2}
    Item = {NULL, x}
    NULL = NULL
SPECIFICATION BuildSpec
INVARIANTS
    PermitsAccounted
PROPERTIES
    ImplementsFifo
    WaitersWake
