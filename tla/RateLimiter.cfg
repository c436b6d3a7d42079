SPECIFICATION LimitsSpec
CONSTANTS
    Requests = {q1, q2, q3}
    Strategies = {"fixed_window", "sliding_window", "token_bucket"}
    Limit = 1
    Window = 2
    BucketTTL = 2
    MaxRaised = 1
    MaxDelay = 2
    MaxTime = 3
    Callers = {c1, c2}
    Kinds = {"auth", "validator"}
    Lifetime = 2
    MaxCalls = 5
    MaxCuts = 1
SYMMETRY MCRequests
INVARIANTS
    RefusedOnlyWhenUsedUp
    WindowLimit
    BucketLimit
    ServedAsDecided
    LetThroughBounded
    CountersEnd
CHECK_DEADLOCK FALSE
