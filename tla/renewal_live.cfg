SPECIFICATION FairSpec
CONSTANTS
    c1 = c1
    c2 = c2
    Subs = {s1}
    Chains = {c2}
    Ticks = {t1}
    Rows = {r1}
    Prices = {2, 3}
    Cap <- MCCapOne
    MaxRetries = 2
    Wallet = 4
    Horizon = 1
    MaxEvents = 2
PROPERTIES
    BridgesDrain
    GrantlessIsDunned
CHECK_DEADLOCK FALSE
