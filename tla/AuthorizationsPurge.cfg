SPECIFICATION FairSpec
CONSTANTS
    Ids = {a1}
    Updates = {u1, u2}
    Deactivations = {d1}
    PendingLifetime = 1
    Lifetime = 1
    Grace = 2
    RPCTime = 1
    MaxIDs = 1
    MayFail = FALSE
    Revoking = FALSE
    Purging = TRUE
    MaxTime = 5
INVARIANTS ChallengesKept NoOrphans
PROPERTY ValidationDecides
CHECK_DEADLOCK FALSE
