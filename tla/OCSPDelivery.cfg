CONSTANTS
    Serials = {c1}
    Revocations = {q1}
    Reasons = {0}
    MinTimeToExpiry = 1
    StaleMaxAge = 5
    Lifetime = 5
    BatchSize = 1
    Parallel = 1
    Skew = 1
    Start = 5
    MaxTime = 9
    MaxRevokeTime = 6
    OCSPServers <- TwoServers
    Validity = 2
    Retries = 1
SPECIFICATION DeliveryFairSpec
INVARIANTS GoodServedBriefly 
PROPERTIES EveryCertificateAnswered RevocationReaches
CHECK_DEADLOCK FALSE
