\* Pool: four threads on two blocks.  Windows pool: three users, two blocks.
\* state_sync: two waiters, three values, seconds of two ticks.
\* Lock-free pool: three threads on three blocks.  Lock-free queue: a ring of
\* two, a size_t of eight values.
CONSTANTS
    Thread = {t1, t2, t3, t4}
    Cap = 2
    Memory = {b1, b2}
    User = {u1, u2, u3}
    Destroyer = d
    WinCap = 2
    Waiter = {w1, w2}
    State = {idle, target, other}
    Target = target
    Other = other
    Timeouts = {1, 3}
    SecTicks = 2
    MaxTime = 4
    Worker = {k1, k2, k3}
    Owner = o
    LfThread = {f1, f2, f3}
    Capacity = 3
    LfItem = {x, y}
    Size = 2
    Wrap = 8
    NULL = NULL
SPECIFICATION PrimSpec
CHECK_DEADLOCK FALSE
INVARIANTS
    BlocksAccounted
    NoLostWakeup
    NoneSleepsThrough
    
    FreeListSound
PROPERTIES
    TimeoutTruthful
    WaitsReturn
    SomeoneSucceeds
    LfImplementsFifo
