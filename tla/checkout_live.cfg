SPECIFICATION FairSpec
CONSTANTS
    Sessions = {s1}
    Tabs = {t1}
    Chains = {c1}
    Rows = {i1}
    Sweeps = {w1}
    Tiers = {1, 2}
    Trials = {2}
    None = None
    MaxSign = 1
    MaxEvents = 1
INVARIANTS
    SubscribedAsPaid
PROPERTIES
    OrphansSwept
    WaitEnds
CHECK_DEADLOCK FALSE
