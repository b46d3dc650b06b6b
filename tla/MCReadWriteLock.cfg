SPECIFICATION Spec
CONSTANTS
    Threads = {t1, t2, t3}
    NoThread = NoThread
    WriterBit = 100
    MaxDepth = 3
INVARIANTS
    TypeOK
    WriterAlone
    WriterReenters
    WordExact
PROPERTY ImplementsShared
