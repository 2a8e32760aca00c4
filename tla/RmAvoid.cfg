SPECIFICATION FairSpec
CONSTANTS
    N = 3
    M = 1
    MaxRequests = 2
    Releases = FALSE
    DLAVOID = TRUE
    TimelyWait = TRUE
    SpuriousWakeups = FALSE
    TotalOf0 = 2
    TotalOf1 = 0
    NeedOf0 = 2
    NeedOf1 = 0
    Total <- MCTotal
    MaxNeed <- MCUnequalNeed
INVARIANTS SafeStateKept NothingGrantableLeft
PROPERTIES EverybodyQuits
CHECK_DEADLOCK FALSE
