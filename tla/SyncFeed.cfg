CONSTANTS
    Devices = {"laptop", "desktop"}
    Entities = {"e1", "e2"}
    Shared = {"e1"}
    Scenes <- SmallScenes
    PageSize = 2
    MaxRev = 3
SPECIFICATION SyncSpec
CHECK_DEADLOCK FALSE
INVARIANTS
    FeedMatchesServer
    NoLostUpdate
    CaughtUpAgrees
PROPERTIES
    OutboxDrained
