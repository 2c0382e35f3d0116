SPECIFICATION Spec
CONSTANTS
    QueuedRecords = 3
    QueuedBytes = 5
    BatchRecords = 2
    BatchBytes = 5
    EnvelopeBytes = 1
    Sizes = {1, 2, 4, 5}
    MaxCounter = 7
CHECK_DEADLOCK FALSE
INVARIANT RecordsAddUp
INVARIANT QueueIsSound
PROPERTY QueueDrains
