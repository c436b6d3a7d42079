SPECIFICATION MCFairSpec
CONSTANTS
    None = None
    a1 = a1
    a2 = a2
    b1 = b1
    c1 = c1
    alice = alice
    bob = bob
    carol = carol
    Handlers = {a1, b1}
    UserOf <- MCUserOf
    Movers = {b1}
    MaxUsers = 2
    Spares = {0, 2}
    MaxOps = 1
    Sockets = {s1, s2}
    Channels = {"executions", "alerts"}
    QueueMax = 2
    BatchMax = 2
    MaxMessages = 3
PROPERTIES
    DisconnectedLeaves
    QueuedIsHeard
CHECK_DEADLOCK FALSE
