SPECIFICATION Spec
CONSTANTS
    Mandates = {m1}
    Chains = {c1}
    Rows = {i1, i2}
    Pages = {p1, p2}
    None = None
    MaxSign = 2
    MaxEvents = 1
INVARIANTS
    TypeOK
    ActiveWasProved
    RevokedForCause
    ToldOnce
SYMMETRY Symmetry
CHECK_DEADLOCK FALSE
