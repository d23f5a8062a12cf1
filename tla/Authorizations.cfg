SPECIFICATION Spec
CONSTANTS
    Ids = {a1, a2}
    Updates = {u1, u2}
    Deactivations = {d1}
    PendingLifetime = 1
    Lifetime = 1
    Grace = 2
    RPCTime = 1
    MaxIDs = 1
    MayFail = TRUE
    Revoking = TRUE
    Purging = FALSE
    MaxTime = 1
SYMMETRY Symmetry
INVARIANTS OneTable DecidedByOneVerdict ValidOnesRevoked
PROPERTY StatusDescends
CHECK_DEADLOCK FALSE
