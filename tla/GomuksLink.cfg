SPECIFICATION Spec
CONSTANTS
    k1 = k1
    k2 = k2
    Calls = {k1, k2}
    EventKind <- MCEventKind
    MsgCap = 1
    MaxEvents = 4
    MaxBreaks = 3
    Limits <- MCLimits
INVARIANTS
    TypeOK
    AnswersAreOwn
    SweepReachesAll
PROPERTIES
    Gapless
    EveryEventArrives
CHECK_DEADLOCK FALSE
