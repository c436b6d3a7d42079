SPECIFICATION CastSpec
CONSTANTS
    None = None
    a1 = a1
    a2 = a2
    b1 = b1
    c1 = c1
    alice = alice
    bob = bob
    carol = carol
    Handlers = {a1, a2, b1, c1}
    UserOf <- MCUserOf
    Movers = {}
    MaxUsers = 3
    Spares = {2}
    MaxOps = 1
SYMMETRY MCSockets
INVARIANTS
    NoGhost
    StayedInformed
CHECK_DEADLOCK FALSE
