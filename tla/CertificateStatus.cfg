CONSTANTS
    Serials = {c1}
    Revocations = {q1, q2}
    Reasons = {0, 1}
    MinTimeToExpiry = 1
    StaleMaxAge = 3
    Lifetime = 2
    BatchSize = 1
    Parallel = 1
    Skew = 0
    Start = 3
    MaxTime = 6
    MaxRevokeTime = 5
SPECIFICATION Spec
SYMMETRY RevocationSymmetry
INVARIANTS NoRevocationEscapes RevokedResponseBacked
CHECK_DEADLOCK FALSE
