SPECIFICATION FairSpec
CONSTANTS
    N = 2
    M = 2
    MaxAmount = 1
INVARIANTS VerdictExact
PROPERTIES ReturnsRestored
