\* A thread that has dropped all it had, of an object nobody makes again, is done.
CHECK_DEADLOCK FALSE
SPECIFICATION Spec
CONSTANTS
    t1 = t1
    t2 = t2
    p = p
    q = q
    r = r
    a = a
    b = b
    x = x
    y = y
    NULL = NULL
    Unused = Unused
    Users <- TwoThreads
    LocalsOf <- ThreePointers
    Objects <- AB
    Root = a
    CountMax <- SmallFields
    MaxHeld = 3
    Weightless <- OnlyB
    ScriptLocals <- PQ
    ScriptObjects <- AB
    Boxes <- XY
INVARIANTS
    CountsExact
    DiesWithLastReference
    TouchesFreedOnlyThroughSelf
    VariablesBalanced
SYMMETRY BoxesAlike
