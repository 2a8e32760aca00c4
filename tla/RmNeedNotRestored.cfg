SPECIFICATION Spec
CONSTANTS
    N = 2
    M = 1
    MaxRequests = 3
    Releases = TRUE
    DLAVOID = TRUE
    TimelyWait = TRUE
    SpuriousWakeups = FALSE
    TotalOf0 = 2
    TotalOf1 = 0
    NeedOf0 = 2
    NeedOf1 = 0
    Total <- MCTotal
    MaxNeed <- MCMaxNeed
INVARIANTS SafeStateKept
CHECK_DEADLOCK FALSE
