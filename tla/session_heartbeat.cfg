SPECIFICATION Spec
CONSTANTS
    MaxSessions = 2
    Files = {"a", "b", "c"}
    Exists = {"a", "b"}
    Listings <- MCListings
    AllHook = {TRUE}
    Strays = 2
    Revisions = {1}
    Revision = 1
    MaxCommands = 2
    MaxUnread = 2
    MaxKills = 0
    Faults = {"heartbeat"}
PROPERTIES SilentClientIsDropped
CHECK_DEADLOCK FALSE
