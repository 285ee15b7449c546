SPECIFICATION FairSpec
CONSTANTS
    a = a
    b = b
    c = c
    Key = {a, b, c}
    Hash <- Collide
    Lists <- Jobs
    READ_MAX = 7
    Junk = {5}
    CallThreshold = 2
    RateThreshold = 4
    Interval = 5
    MaxCall <- Calls
    MaxWire <- Halves
    MaxPeriod <- Periods
    MaxDie = 1
INVARIANTS
    TypeOK
    RanksRight
    RatesAddUp
    WarningJustified
PROPERTIES
    CollectorSpec
    DeadForgotten
    TermObeyed
CHECK_DEADLOCK FALSE
