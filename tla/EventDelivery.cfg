SPECIFICATION Spec
CONSTANTS
    MaxReads = 2
    MaxClients = 2
    Bounds <- Behaviors
    QueueDepth = 2
    BatchSize = 2
    Oversized = {1}
    MaxEvents = 6
    MaxBytes = 8
    MaxRecords = 4
    MaxRecordBytes = 5
    Large = 2
INVARIANTS CostsAddUp LossIsAccounted ContinuationIsLossless NothingIsStuck
PROPERTIES LeaseIsShownFirst FinalStands
CHECK_DEADLOCK FALSE
