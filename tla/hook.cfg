SPECIFICATION Spec
CONSTANTS
    ld = ld
    libc = libc
    exe = exe
    open = open
    open64 = open64
    getcwd = getcwd
    a1 = a1
    a2 = a2
    a3 = a3
    a4 = a4
    w1 = w1
    w2 = w2
    w3 = w3
    p1 = p1
    p2 = p2
    p3 = p3
    Module = {ld, libc, exe}
    Symbol = {open, open64, getcwd}
    Code = {a1, a2, a3, a4}
    Wrapper = {w1, w2, w3}
    Pointer = {p1, p2, p3}
    None = None
    Original = Original
    Astray = Astray
    Address <- MCAddress
    Near <- MCNear
    Request <- MCRequest
    MAX_MODULE = 3
    Capacity = 5
    MaxRegister = 5
INVARIANTS
    TypeOK
    CallMeetsWrapper
    PointerMeetsOriginal
    Restored
PROPERTIES
    SlotKept
CHECK_DEADLOCK FALSE
