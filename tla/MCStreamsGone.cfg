SPECIFICATION ServiceSpec
CONSTANTS
    CaseIds = {c1}
    NoCase = NoCase
    MaxSubmits = 1
    MaxRetained = 0
    Retention = 0
    MaxEvents = 0
    MaxTime = 1
    MaxConcurrent = 1
    MaxQueued = 1
    Endings <- OneEnding
    CallersBringIds = FALSE
    Sessions = {s1}
    MaxStreams = 2
    Watchers <- TwoStreams
CHECK_DEADLOCK FALSE
INVARIANT NoStreamForTheGone

