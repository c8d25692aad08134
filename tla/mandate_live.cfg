SPECIFICATION FairSpec
CONSTANTS
    Mandates = {m1}
    Chains = {c1}
    Rows = {i1}
    Pages = {p1}
    None = None
    MaxSign = 2
    MaxEvents = 2
PROPERTIES
    DisabledIsSeen
CHECK_DEADLOCK FALSE
