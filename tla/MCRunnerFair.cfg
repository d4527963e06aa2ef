SPECIFICATION FairSpec
CONSTANTS
    CaseIds = {c1, c2, c3}
    NoCase = NoCase
    MaxSubmits = 3
    MaxRetained = 1
    Retention = 0
    MaxEvents = 0
    MaxTime = 1
    Watchers = {w1}
    MaxConcurrent = 1
    MaxQueued = 2
    Endings <- TwoEndings
    CallersBringIds = FALSE
CHECK_DEADLOCK FALSE
INVARIANTS NoLostWakeup
PROPERTIES EverySubmissionEnds CloseEnds FairlyImplementsLifecycle EveryWatchEnds
