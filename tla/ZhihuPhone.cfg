SPECIFICATION ZhihuSpec
CONSTANTS
    r1 = r1
    r2 = r2
    old = old
    new = new
    ZhihuReqs = {r1, r2}
    ZCreds = {old, new}
    ZNew = new
    ZMaxPages = 1
    ZLimits <- MCLimits
PROPERTIES
    PhoneTurnComes
CHECK_DEADLOCK FALSE
