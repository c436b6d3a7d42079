SPECIFICATION FairSpec
CONSTANTS
    Executions = {e1}
    Workers = {w1, w2}
    None = None
    MaxRedeliver = 1
    MaxCrashes = 1
INVARIANTS
    TypeOK
    ActiveHasOwner
    SuccessIsEarned
    OneLaunchPerDelivery
    PendingNotLaunched
PROPERTIES
    EnqueuedSettles
    ImplementsLifecycle
