SPECIFICATION FairSpec
CONSTANT n = 4
INVARIANTS RoundOver OneBall
PROPERTIES GameEnds
CHECK_DEADLOCK FALSE
