SPECIFICATION Spec
CONSTANTS
    Executions = {e1}
    Workers = {w1, w2}
    None = None
    MaxRedeliver = 0
    MaxCrashes = 0
PROPERTY
    CancelledIsFinal
