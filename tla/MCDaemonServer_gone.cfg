SPECIFICATION Spec
CONSTANTS
    Keys = {k1}
    MaxTickets = 2
    Clients = {c1, c2}
CHECK_DEADLOCK FALSE
INVARIANT GoneClientsHoldNothing
