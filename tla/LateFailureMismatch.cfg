\* A proxy that fails after another has answered with records.
CONSTANTS
  Scenarios <- DistributedOnly
  maxRedirect = 3
  maxTries = 2
  Proxies = {p1, p2, p3}
  maxFailures = 1
SPECIFICATION Spec
CHECK_DEADLOCK FALSE
INVARIANT QuorumSuffices
