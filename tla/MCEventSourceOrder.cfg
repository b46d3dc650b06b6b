SPECIFICATION FairSpec
CONSTANTS
    t1 = t1
    t2 = t2
    s1 = s1
    s2 = s2
    s3 = s3
    srcA = srcA
    srcB = srcB
    Threads = {t1, t2}
    Sources = {srcA, srcB}
    Sinks = {s1}
    Mortal = {}
    MayCall <- Ordered
    NoSink = NoSink
    NoCall = NoCall
    NotifyModulus = 256
    MaxNesting = 2
INVARIANTS
    NoCircularWait
PROPERTY NotificationsEnd
