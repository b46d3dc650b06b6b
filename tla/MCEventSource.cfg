SPECIFICATION Spec
CONSTANTS
    t1 = t1
    t2 = t2
    s1 = s1
    s2 = s2
    s3 = s3
    srcA = srcA
    srcB = srcB
    Threads = {t1, t2}
    Sources = {srcA}
    Sinks = {s1, s2, s3}
    Mortal = {s3}
    MayCall <- Reentrant
    NoSink = NoSink
    NoCall = NoCall
    NotifyModulus = 256
    MaxNesting = 2
INVARIANTS
    TypeOK
    ListsConsistent
    LoopsAgree
    NoCallAfterDelete
PROPERTIES
    FrozenWhileNotifying
    ImplementsRegistry
