SPECIFICATION Spec
CONSTANTS
    g1 = g1
    g2 = g2
    d1 = d1
    d2 = d2
    Trampolines = {g1}
    Sites <- TwoSites
    LengthAt <- Lengths
    Targets = {d1, d2}
    BlockSizes = {24, 36}
    RawSizes = {6}
    TextEnd = 120
    Reach = 64
    PageSize = 16
    Granularity = 32
    Pages = 16
    Layouts <- Crowded
    PoolBase = 64
    PoolSize = 0
    NoMem = NoMem
INVARIANT NeverOutOfRange
CHECK_DEADLOCK FALSE
