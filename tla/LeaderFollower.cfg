SPECIFICATION FairSpec
CONSTANTS
    n = 2
    Follower <- MCFollower
    LeaderNumbers <- MCNumbers
    Digits <- MCDigits
INVARIANTS OneTurn SumOfThisRound LeavesInTime
PROPERTIES SessionEnds
CHECK_DEADLOCK FALSE
