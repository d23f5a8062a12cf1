SPECIFICATION Spec
CONSTANTS
    Workers = {w1, w2}
    Keys = {k1, k2, k3}
    Contacts = {a}
    Scenarios <- MCScenarios
    RegistrationsPerIP <- MCRegistrationsPerIP
    PendingPerAccount <- MCPendingPerAccount
    InvalidPerAccount <- MCInvalidPerAccount
    PendingLifetime = 1
    Lifetime = 3
    ReuseCutOff = 1
    MaxRegistrations = 3
    MaxAuthzs = 3
    MaxUpdates = 2
    MaxTime = 2
SYMMETRY Symmetry
CHECK_DEADLOCK FALSE
INVARIANTS   InvalidCounted 
PROPERTIES  DeactivationFinal
