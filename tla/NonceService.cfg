CONSTANTS
    MaxUsed = 2
    MaxLatest = 5
    MaxRestarts = 1
SPECIFICATION Spec
INVARIANTS AtMostOnce OvertakenBeforeRefused
PROPERTY ImplementsOneTimeTokens
