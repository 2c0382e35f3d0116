\* Replays of two records.
SPECIFICATION FairSpec
CONSTANTS
    Ids = {1, 2}
    None = 0
    Total = 2
    MaxJobs = 2
    MaxFindings = 1
    MaxPlans = 1
    MaxReviews = 2
    Bounds <- Behaviors
INVARIANTS
    UnsentIsUnsent
    OneHistoryUser
    DestinationOutlivesReplay
PROPERTIES
    ImplementsLedger
    DestinationsAreReleased
    WorkSettles
CHECK_DEADLOCK FALSE
