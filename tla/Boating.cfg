SPECIFICATION MCSpec
CONSTANTS
    M = 3
    N = 3
    RideTime <- MCRideTime
    SpuriousWakeups = TRUE
    Thread = {t1, t2, t3, t4, t5}
    Initial = 1
    MaxPermits = 3
INVARIANTS PairsMatched RideIsVisitors EndsAfterLastRide BarrierAlive ValueCountsSleepers
PROPERTIES SessionRides IsCountingSemaphore
CHECK_DEADLOCK FALSE
