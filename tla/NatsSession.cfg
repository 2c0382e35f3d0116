SPECIFICATION FairSpec
CONSTANTS
    MaxCalls = 3
CHECK_DEADLOCK FALSE
INVARIANT ShownIsOwned
INVARIANT CleanupIsHeld
INVARIANT ViewerConverges
PROPERTY CallsSettle
