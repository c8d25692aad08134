SPECIFICATION ClaimsSpec
CONSTANTS
    c1 = c1
    c2 = c2
    Subs = {s1}
    Chains = {c1, c2}
    Ticks = {t1, t2}
    Rows = {r1, r2}
    Prices = {1, 2}
    Cap <- MCCap
    MaxRetries = 2
    Wallet = 2
    Horizon = 2
    MaxEvents = 2
INVARIANTS
    TypeOK
    InFlightPaysCurrentPeriod
    DunningStopsAtLimit
PROPERTIES
    NeverPullOverFlight
    TakenAgainOnlyGivenBack
    PriceRiseNeverDuns
    ImplementsLedger
SYMMETRY Symmetry
CHECK_DEADLOCK FALSE
