SPECIFICATION Spec
CONSTANTS
    None = None
    a1 = a1
    a2 = a2
    b1 = b1
    c1 = c1
    alice = alice
    bob = bob
    carol = carol
    Handlers = {a1, a2, b1}
    UserOf <- MCUserOf
    Movers = {b1}
    MaxUsers = 2
    Spares = {2}
    MaxOps = 1
INVARIANT
    AllInformed
CHECK_DEADLOCK FALSE
