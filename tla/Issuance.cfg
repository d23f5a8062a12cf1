SPECIFICATION FairSpec
CONSTANTS
    Workers = {w1, w2}
    Names = {"a", "b"}
    Base <- MCBase
    Scenarios <- MCScenarios
    Backdate = 1
    StaleAfter = 1
    RPCTime = 1
    RequestTimeout = 1
    OldestIssuedSCT = 2
    MaxCertificates = 3
    MaxTime = 3
CHECK_DEADLOCK FALSE
INVARIANTS   TotalRecentlyBelow
PROPERTIES OrphansRepaired EveryoneLogged
