SPECIFICATION MCFairSpec
CONSTANTS
    c1 = c1
    c2 = c2
    r1 = r1
    k1 = k1
    Requests = {r1, r2}
    Keys = {k1, k2}
    Chains = {c1, c2}
    Passes = {p1}
    Amounts = {1}
    MaxAmount = 1
    Cap <- MCCap
    PinsPayees <- MCPins
    Horizon = 1
    MaxEvents = 1
INVARIANTS
    TypeOK
    KeyPaidOnce
    CeilingHolds
PROPERTIES
    ImplementsChargeLedger
    InFlightIsSettled
CHECK_DEADLOCK FALSE
