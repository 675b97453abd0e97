SPECIFICATION PushSpec
CONSTANTS
    p1 = p1
    p2 = p2
    p3 = p3
    Publishers = {p1, p2, p3}
    MaxCalls = 5
    BackoffMin = 2
    BackoffMax = 5
    MaxWait = 6
    RetryAfters <- MCRetryAfters
    aa = aa
    ab = ab
    WAuths = {aa, ab}
    WTtl = 1
    WMinBackoff = 5
    WMaxBackoff = 30
    WPlans <- MCWPlans
INVARIANTS
    PushTypeOK
    Accounting
    MobSubHonest
PROPERTIES
    WindowRespected
CHECK_DEADLOCK FALSE
