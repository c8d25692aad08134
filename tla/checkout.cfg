SPECIFICATION Spec
CONSTANTS
    Sessions = {s1, s2}
    Tabs = {t1}
    Chains = {c1}
    Rows = {i1, i2}
    Sweeps = {w1, w2}
    Tiers = {1}
    Trials = {}
    None = None
    MaxSign = 3
    MaxEvents = 0
INVARIANTS
    TypeOK
    OneLiveWhenQuiet
    PaidSweepIsSubscribed
PROPERTIES
    SweptWasSettled
SYMMETRY Symmetry
CHECK_DEADLOCK FALSE
