SPECIFICATION Spec
CONSTANTS
    p1 = p1
    p2 = p2
    t1 = t1
    t2 = t2
    Process = {p1}
    Thread = {t1}
    ProcessOf <- OneThread
    Kind = {"open"}
    FS = {0}
    MAX_REC = 4
    N_SAMPLE_FOR_AVG = 2
    Window = {1, 3}
    Threshold = 0
    QuietStart = TRUE
    MaxCall = 6
    MaxTime = 5
    MaxPublish = 2
    MaxStart = 1
INVARIANTS
    RateLimit
CHECK_DEADLOCK FALSE
