SPECIFICATION MCSpec
CONSTANTS
    r1 = r1
    r2 = r2
    old = old
    new = new
    u1 = u1
    l1 = l1
    l2 = l2
    s1 = s1
    ZhihuReqs = {r1, r2}
    ZCreds = {old, new}
    ZNew = new
    ZMaxPages = 2
    ZLimits <- MCZLimits
    XReqs = 1
    XUsers = {u1}
    XMaxPages = 2
    XLimits <- MCXLimits
    BiliLoops = {l1, l2}
    BiliReqs = {r1, r2}
    BSessions = {s1}
    BMaxPages = 2
    BLimits <- MCBLimits
    RateReqs = {r1, r2}
    RateBase = 1
    RateMax = 3
    MaxNow = 8
INVARIANTS
    SessionsTypeOK
    CrashNeedsRace
    
    OneAtATime
PROPERTIES
    DropsAreRefusals
    NeverLiftedEarly
    EverySessionOffered
CHECK_DEADLOCK FALSE
