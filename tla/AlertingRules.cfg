SPECIFICATION Spec
CONSTANTS
    Requests = {r1, r2}
    m1 = m1
    p1 = p1
    p2 = p2
    p3 = p3
    Metrics = {m1}
    RuleNames = {"down", "memory"}
    Rules = {p1, p2, p3}
    Triggers <- MCTriggers
    Severity <- MCSeverity
    InitialRules <- MCInitialRules
    None = None
    Spares = {0, 2}
    Window = 2
    HistoryMax = 2
    MaxTime = 4
    MaxEdits = 2
    MaxHandled = 1
INVARIANT
    AllRulesChecked
CHECK_DEADLOCK FALSE
