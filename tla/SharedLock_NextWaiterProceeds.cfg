SPECIFICATION LockSpec
CONSTANTS
    Keys = {k1}
    MaxTickets = 3
CHECK_DEADLOCK FALSE
INVARIANT NextWaiterProceeds
