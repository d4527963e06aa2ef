SPECIFICATION Spec
CONSTANTS
    Documents = {d1}
    MaxDocuments = 1
    OcrConfigured = TRUE
    Costs <- OneCost
    CallQueueBounded = TRUE

CHECK_DEADLOCK FALSE
INVARIANT ServerBusyIsReported

