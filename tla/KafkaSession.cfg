\* Three operations, three streams and two requests, four of them in a behaviour.
SPECIFICATION TimedSpec
CONSTANTS
    MaxOps = 3
    MaxCons = 3
    MaxReqs = 2
    MaxCalls = 4
    CallsDuringInstall = FALSE
INVARIANTS
    ConnectionsAreOwned
    DisconnectedIsQuiet
    StreamsAreBarred
PROPERTIES
    ReadsStayCurrent
    ImplementsLease
    LifecycleSettles
CHECK_DEADLOCK FALSE
