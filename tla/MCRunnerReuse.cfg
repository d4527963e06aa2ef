SPECIFICATION Spec
CONSTANTS
    CaseIds = {c1, c2}
    NoCase = NoCase
    MaxSubmits = 4
    MaxRetained = 1
    Retention = 0
    MaxEvents = 0
    MaxTime = 2
    Watchers = {}
    MaxConcurrent = 2
    MaxQueued = 3
    Endings <- OneEnding
    CallersBringIds = TRUE
SYMMETRY IdSymmetry
CHECK_DEADLOCK FALSE
INVARIANTS TypeOK SlotsConserved NoSlotIdles QueueBounded RecordHasRun ShutdownSettles

