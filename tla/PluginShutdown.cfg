\* Two plugins, so that changes queue behind each other and a close finds both.
SPECIFICATION FairSpec
CONSTANTS
    Plugins = {p1, p2}
    None = None
    Offered = {"install", "recovery", "exit"}
    Beside = {}
    MaxChanges = 3
    MaxBackends = 2
    MaxRequests = 1
CHECK_DEADLOCK FALSE
INVARIANTS
    HostEndsClean
PROPERTIES
    EverythingSettles
