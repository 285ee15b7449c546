SPECIFICATION FairSpec
CONSTANTS
    p1 = p1
    p2 = p2
    m1 = m1
    m2 = m2
    w1 = w1
    w2 = w2
    Process = {p1, p2}
    Thread = {m1, m2, w1, w2}
    ProcessOf <- Threading
    Main = {m1, m2}
    MaxKill = 2
INVARIANTS
    TypeOK
    InterceptsWhenReady
    SingleThreadSafe
    SleepersHaveWaker
PROPERTIES
    
    StartEnds
    SegvOnlyAtExit
    BlockedByTheDead
CHECK_DEADLOCK FALSE
