SPECIFICATION Spec
CONSTANTS
    p1 = p1
    c1 = c1
    m1 = m1
    w1 = w1
    n1 = n1
    work = work
    tmp = tmp
    Process = {p1, c1}
    Thread = {m1, w1, n1}
    ProcessOf <- MCProcessOf
    Main <- MCMain
    Exec = {p1}
    Dir = {work, tmp}
    NServers = 2
    MaxCall = 3
    ServerOf <- MCServerOf
    None = None
INVARIANTS
    TypeOK
    
PROPERTIES
    WorkingDirSpec
CHECK_DEADLOCK FALSE
