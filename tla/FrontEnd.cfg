CONSTANTS
    Tokens = {n1, n2}
    Posts = {"p1", "p2"}
    Scenarios <- SomeScenarios
SPECIFICATION FESpec
INVARIANTS OneCallPerNonce 
CHECK_DEADLOCK FALSE
