SPECIFICATION Spec
CONSTANTS
    p1 = p1
    p2 = p2
    t1 = t1
    t2 = t2
    Process = {p1, p2}
    Thread = {t1, t2}
    ProcessOf <- TwoProcesses
    Kind = {"open"}
    FS = {0}
    MAX_REC = 4
    N_SAMPLE_FOR_AVG = 1
    Window = {2}
    Threshold = 0
    QuietStart = FALSE
    MaxCall = 5
    MaxTime = 3
    MaxPublish = 0
    MaxStart = 2
INVARIANTS
    SleepSerialized
CHECK_DEADLOCK FALSE
