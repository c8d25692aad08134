SPECIFICATION FairSpec
CONSTANTS
    Senders = {s1, s2}
    MaxNonce = 3
    MaxLost = 1
    MaxAnchors = 1
    MaxPayouts = 1
INVARIANTS
    TypeOK
    NeverTwice
    HolesHaveACause
PROPERTIES
    SentIsMined
CHECK_DEADLOCK FALSE
