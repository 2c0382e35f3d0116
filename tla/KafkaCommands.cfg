\* Commands that switch connections, change preferences, and meet a shutdown.
SPECIFICATION FairSpec
CONSTANTS
    MaxCommands = 5
    Profiles = {plain, plugged}
    Managed = {plugged}
    None = None
    Bounds <- Behaviors
INVARIANTS
    ProtectionIsInForce
    ConnectionIsShared
    NewestReadPrevails
    ClosedIsQuiet
PROPERTIES
    NewestCommandPrevails
    ShutdownSettles
CHECK_DEADLOCK FALSE
