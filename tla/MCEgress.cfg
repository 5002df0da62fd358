SPECIFICATION FairSpec
CONSTANTS
    n1 = n1
    n2 = n2
    h1 = h1
    p1 = p1
    Namespace = {n1, n2}
    Host = {h1}
    NoDoc = NoDoc
    Broken = Broken
    Burst = 2
    Operator = {p1}
    Elder = n1
    Buffer = 1
    Wire = 1
    MaxRuns = 2
    MaxConns = 2
    MaxFaults = 1
CHECK_DEADLOCK FALSE
INVARIANTS
    DeclaredOnly
    NoBlindSpot
PROPERTIES
    PolicyTakesEffect
    RelayReturns
