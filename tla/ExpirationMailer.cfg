CONSTANTS
    Certs = {"c1", "c2"}
    Registrations = {"r1", "r2"}
    NagTimes <- TwoGroups
    Scenarios <- SomeScenarios
    MaxFaults = 2
    MaxTime = 7
SPECIFICATION Spec
INVARIANTS NagsBounded 
CHECK_DEADLOCK FALSE
