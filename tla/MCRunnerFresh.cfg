SPECIFICATION Spec
CONSTANTS
    CaseIds = {c1, c2, c3}
    NoCase = NoCase
    MaxSubmits = 3
    MaxRetained = 1
    Retention = 1
    MaxEvents = 1
    MaxTime = 3
    Watchers = {}
    MaxConcurrent = 1
    MaxQueued = 2
    Endings <- SomeEndings
    CallersBringIds = FALSE
CHECK_DEADLOCK FALSE
INVARIANTS WaitingIsExact RunHasRecord RecordCoherent
PROPERTIES TerminalIsFinal
