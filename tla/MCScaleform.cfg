\* A thread whose pointers are null and for which no object is left to make is done.
CHECK_DEADLOCK FALSE
SPECIFICATION PointersSpec
CONSTANTS
    t1 = t1
    t2 = t2
    p = p
    q = q
    r = r
    a = a
    b = b
    Users <- OnTwoThreads
    LocalsOf <- OwnPointers
    Objects = {a, b}
    Root = a
    NULL = NULL
INVARIANT
    LifetimeEndsWithPointers
