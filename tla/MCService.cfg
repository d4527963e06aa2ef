SPECIFICATION ServiceSpec
CONSTANTS
    FileKinds <- AllKinds
    MaxFiles = 3
    MaxDocuments = 2
    MaxDocumentBytes = 3
    MaxCaseBytes = 4
    ChunkBytes = 2
    MaxParallelReads = 2
    MaxPages = 2
CHECK_DEADLOCK FALSE
INVARIANTS ServiceTypeOK HeldWithinBudget TooLargeForCause AcceptedIsReadable PlacesConserved WholeOrNothing OnlyFailureLeavesPages ReadsHaveClient
PROPERTIES EveryReadEnds LifespanEnds
