SPECIFICATION Spec
CONSTANTS
    a = a
    b = b
    k1 = k1
    k2 = k2
    k3 = k3
    Tables = {a, b}
    Keys = {k1, k2, k3}
    Hash <- Colliding
    MinSize = 2
    MaxCapacity = 2
    Vacant = Vacant
    Sentinel = Sentinel
    NoSlot = NoSlot
INVARIANTS
    ChainsHome
    FreeExact
    SweepNeverRevisits
PROPERTY ImplementsSets
CHECK_DEADLOCK FALSE
