SPECIFICATION FairSpec
CONSTANTS
    p1 = p1
    p2 = p2
    t1 = t1
    t2 = t2
    Process = {p1, p2}
    Thread = {t1, t2}
    ProcessOf <- TwoProcesses
    Kind = {"open", "stat"}
    FS = {0}
    MAX_REC = 4
    N_SAMPLE_FOR_AVG = 1
    Window = {1}
    Threshold = 0
    QuietStart = TRUE
    MaxCall = 4
    MaxTime = 3
    MaxPublish = 0
    MaxStart = 2
INVARIANTS
    TypeOK
    SleepSerialized
    TicketsDistinct
    CallsAccounted
    DelaysAccounted
    DelayHonoured
    TicketInv
    DelayInv
PROPERTIES
    LimiterSpec
    CallReturns
CHECK_DEADLOCK FALSE
