SPECIFICATION FairSpec
CONSTANTS
    Documents = {d1, d2, d3}
    MaxDocuments = 2
    OcrConfigured = TRUE
    Costs <- TwoCosts
    CallQueueBounded = FALSE
CHECK_DEADLOCK FALSE
INVARIANTS TypeOK NeverCleanUnread EveryDocumentAccountedFor UsageConserved TrailIsComplete
PROPERTIES RunEnds
