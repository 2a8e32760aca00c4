SPECIFICATION FairSpec
CONSTANTS
    Cooks = 2
    Waiters = 2
    Tables = 2
    Globals = 14
    Stride = 12
    Cells = 51
    Guests <- MCGuests
INVARIANTS TablesKept NoWorkAsleep KitchenTokens
PROPERTIES OrdersPassedOn
CHECK_DEADLOCK FALSE
