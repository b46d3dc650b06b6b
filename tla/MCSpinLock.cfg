SPECIFICATION Spec
CONSTANTS
    Threads = {t1, t2, t3}
    NoThread = NoThread
    MaxDepth = 3
INVARIANTS
    MutualExclusion
    NoSelfDeadlock
    CountMatchesScopes
PROPERTY ImplementsMutex
