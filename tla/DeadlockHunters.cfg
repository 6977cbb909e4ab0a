CONSTANTS
    t1 = t1
    t2 = t2
    t3 = t3
    a = a
    b = b
    c = c
    None = None
    Threads <- MCThreads
    Mutexes <- MCMutexes
    Orders <- MCOrders
    Grace = 2
SPECIFICATION FairSpec
INVARIANTS
    EdgesTrue
    AlarmTrue
PROPERTIES
    DeadlockForever
    DeadlockReported
    EndsOrStarves
