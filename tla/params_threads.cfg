SPECIFICATION Spec
CONSTANTS
    p1 = p1
    p2 = p2
    t1 = t1
    t2 = t2
    q1 = q1
    q2 = q2
    v1 = v1
    v2 = v2
    Process = {p1}
    Thread = {t1, t2}
    ProcessOf <- OneProcess
    Publisher = {q1}
    MAX_FS_SERVER = 3
    NConfigured = 2
    Value = {v1, v2}
    Config <- AllV1
    Zero = Zero
    MaxCall = 3
INVARIANTS
    LocalNotCounted
CHECK_DEADLOCK FALSE
