SPECIFICATION Spec
CONSTANTS
    Scores = {1, 2, 3}
    Limits = {0, 1, 2, 4, 6}
    MaxLen = 5
INVARIANTS
    KeepsMostUrgent
CHECK_DEADLOCK FALSE
