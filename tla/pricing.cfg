SPECIFICATION Spec
CONSTANTS
    s1 = s1
    s2 = s2
    g = g
    Subs = {s1, s2}
    Legacy = {s1}
    Requests = {h1, h2}
    Tiers = {g}
    Prices = {1, 2}
    PlanInterval = monthly
    IntervalOf <- MCIntervalOf
    Default = Default
    Null = Null
    MaxEvents = 3
INVARIANTS
    TypeOK
PROPERTIES
    ReachesWhoItSays
    PaidIsRecorded
SYMMETRY Symmetry
CHECK_DEADLOCK FALSE
