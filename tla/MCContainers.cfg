\* A library is read once, and a list whose pop_front has crashed is done.
CHECK_DEADLOCK FALSE
SPECIFICATION Spec
CONSTANTS
    c1 = c1
    c2 = c2
    v1 = v1
    v2 = v2
    n1 = n1
    n2 = n2
    n3 = n3
    n4 = n4
    p1 = p1
    p2 = p2
    p3 = p3
    k1 = k1
    k2 = k2
    k3 = k3
    k4 = k4
    k5 = k5
    Junk = Junk
    Zero = Zero
    NULL = NULL
    Hole = Hole
    Failed = Failed
    Vacant = Vacant
    Sentinel = Sentinel
    NoSlot = NoSlot
    Unused = Unused
    Arrays <- TwoContainers
    Values <- TwoValues
    Rooms <- NoneOrTwo
    MaxSize = 3
    MaxReserved = 4
    MaxRange = 2
    Lists <- TwoContainers
    Nodes <- FourNodes
    Pages <- ThreePages
    PageSize = 2
    Ids <- OneToFour
    Offsets <- OneToThree
    MaxEntries = 4
    Tables <- OneTable
    Keys <- FiveKeys
    Hash <- Colliding
    MinSize = 2
    MaxCapacity = 4
INVARIANTS
    ArraysInOrder
    CallsDoAsNamed
    StorageHolds
PROPERTIES
    ArenaImplementsQueue
    TableImplementsSets
