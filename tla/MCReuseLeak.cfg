SPECIFICATION Spec
CONSTANTS
    CaseIds = {c1}
    NoCase = NoCase
    MaxSubmits = 2
    MaxRetained = 1
    Retention = 0
    MaxEvents = 0
    MaxTime = 1
    Watchers = {}
    MaxConcurrent = 1
    MaxQueued = 1
    Endings <- OneEnding
    CallersBringIds = TRUE

CHECK_DEADLOCK FALSE
INVARIANT WaitingIsExact

