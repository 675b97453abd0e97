SPECIFICATION PollsSpec
CONSTANTS
    Channels = {"one", "two"}
    Items = {1, 2}
    Entries <- MCEntries
    Window = 2
    Backends <- MCBackends
    MaxCrashes = 1
    ra = ra
    rb = rb
    ua = ua
    MRooms = {ra, rb}
    MMembers = {ua}
    MQueueSize = 1
    MTimeline = 2
    MPlans <- MCMPlans
    CPage = 2
    CFeeds <- MCCFeeds
    IPage = 2
    IMorePages = 1
    IKeep = 2
    IFeeds <- MCIFeeds
INVARIANTS
    PollsTypeOK
    MarksAreHandled
    NotPassedOver
    OnceUnlessReset
    
    SwallowedNeedsNewClient
    
    StreamHonest
PROPERTIES
    PublishedOnce
CHECK_DEADLOCK FALSE
