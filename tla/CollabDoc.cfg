SPECIFICATION Spec
CONSTANTS
    HistoryMax = 2
    HistoryKeep = 1
    Lengths = {1, 2}
    MaxRevision = 4
INVARIANTS
    PairsConverge
    HistoryIsLatest
    IntentKept
CHECK_DEADLOCK FALSE
