SPECIFICATION Spec
CONSTANTS
    c1 = c1
    c2 = c2
    Subs = {s1}
    Chains = {c1, c2}
    Ticks = {t1}
    Rows = {r1}
    Prices = {1, 2}
    Cap <- MCCap
    MaxRetries = 2
    Wallet = 3
    Horizon = 1
    MaxEvents = 2
PROPERTY PulledOncePerPeriod
CHECK_DEADLOCK FALSE
