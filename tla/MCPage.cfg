SPECIFICATION Spec
CONSTANTS
    MaxSubmits = 2
    MaxConcurrent = 1
CHECK_DEADLOCK FALSE
INVARIANTS PageTypeOK PageCoherent
PROPERTIES ShownMovesForward EndIsShown FormerSessionsEnd
