SPECIFICATION Spec
CONSTANTS
    HistoryMax = 2
    HistoryKeep = 1
    Lengths = {1}
    MaxRevision = 3
INVARIANT
    ConflictsResolved
CHECK_DEADLOCK FALSE
