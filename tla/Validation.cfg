\* The VA: challenges of every type beside the CAA check.
CONSTANTS
  Scenarios <- AllScenarios
  maxRedirect = 3
  maxTries = 2
  Proxies = {p1, p2, p3}
  maxFailures = 1
SPECIFICATION FairSpec
CHECK_DEADLOCK FALSE
INVARIANTS VerdictExact ClosestRecordsDecide AddressesRecorded QuorumAgrees
PROPERTIES NobodyBlocks
