SPECIFICATION Spec
CONSTANTS
    N = 2
    M = 2
    MaxRequests = 3
    Releases = TRUE
    DLAVOID = FALSE
    TimelyWait = TRUE
    SpuriousWakeups = FALSE
    TotalOf0 = 1
    TotalOf1 = 1
    NeedOf0 = 1
    NeedOf1 = 1
    Total <- MCTotal
    MaxNeed <- MCMaxNeed
INVARIANTS LedgerAgrees QueuedThreadsBlocked WaitersHaveRequests
CHECK_DEADLOCK FALSE
