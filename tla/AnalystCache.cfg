SPECIFICATION FairCacheSpec
CONSTANTS
    n1 = n1
    n2 = n2
    r1 = r1
    r2 = r2
    w1 = w1
    Node = {n1, n2}
    Reader = {r1, r2}
    Writer = {w1}
    NodeOf <- Placed
    None = None
    MaxVersion = 2
    MaxMishaps = 1
INVARIANTS
    StaleForAReason
    OneLoadPerAbsence
PROPERTIES
    CachesConverge
CHECK_DEADLOCK FALSE
