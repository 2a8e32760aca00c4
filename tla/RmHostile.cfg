SPECIFICATION FairSpec
CONSTANTS
    N = 2
    M = 1
    MaxRequests = 2
    Releases = TRUE
    DLAVOID = FALSE
    TimelyWait = FALSE
    SpuriousWakeups = TRUE
    TotalOf0 = 2
    TotalOf1 = 0
    NeedOf0 = 2
    NeedOf1 = 0
    Total <- MCTotal
    MaxNeed <- MCMaxNeed
INVARIANTS RequestHandedOver Conservation
PROPERTIES EveryRequestAcknowledged
CHECK_DEADLOCK FALSE
