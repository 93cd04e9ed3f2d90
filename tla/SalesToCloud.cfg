CONSTANTS
    Sale <- TwoSales
    Task = {1, 2}
    RetryBatch = 1
    MaxAttempts = 2
    MaxReceipts = 2
    Request = {1, 2}
    NoRequest = 0
    LabelsFit = TRUE
    BatchSize = 2
    MaxTries = 1
    MaxEvents = 2
SPECIFICATION Spec
CHECK_DEADLOCK FALSE
INVARIANTS
    SyncedIsPostedOnce
PROPERTIES
    FiledStays
