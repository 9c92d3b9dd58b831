SPECIFICATION FairSpec
CONSTANTS
    MaxSessions = 2
    Files = {"a", "b", "c"}
    Exists = {"a", "b"}
    Listings <- MCListings
    AllHook = {TRUE, FALSE}
    Strays = 2
    Revisions = {1, 2}
    Revision = 1
    MaxCommands = 4
    MaxUnread = 2
    MaxKills = 1
    Faults = {"local", "socket", "abort", "heartbeat", "disk"}
INVARIANTS TypeOK InStep ServesTheWanted NoLateBlock
PROPERTIES CommandsReturn ChildEnds
CHECK_DEADLOCK FALSE
