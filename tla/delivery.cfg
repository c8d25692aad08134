SPECIFICATION FairSpec
CONSTANTS
    Events = {e1}
    Endpoints = {w1, w2}
    Subscribed <- AllJobs
    Passes = {p1, p2}
    Take = 1
    MaxAttempts = 2
    None = None
    MaxChanges = 1
    MaxReplays = 1
    MaxFaults = 1
INVARIANTS
    TypeOK
    AcceptedOnce
    NothingDropped
PROPERTIES
    FailureIsRetried
CHECK_DEADLOCK FALSE
