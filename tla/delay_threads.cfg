SPECIFICATION Spec
CONSTANTS
    p1 = p1
    p2 = p2
    t1 = t1
    t2 = t2
    Process = {p1}
    Thread = {t1, t2}
    ProcessOf <- OneProcess
    Kind = {"open", "stat"}
    FS = {0}
    MAX_REC = 4
    N_SAMPLE_FOR_AVG = 1
    Window = {2}
    Threshold = 0
    QuietStart = TRUE
    MaxCall = 6
    MaxTime = 3
    MaxPublish = 0
    MaxStart = 2
INVARIANTS
    DelayHonoured
CHECK_DEADLOCK FALSE
