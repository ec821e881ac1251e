\* Part of the balance is locked by an older request.
CHECK_DEADLOCK FALSE
SPECIFICATION Spec
CONSTANTS
    Funds = 0
    Deposits = {2}
    Earned = {0}
    Locks = {0, 1}
    MaxLies = 1
    MaxDeaths = 0
    MaxFlights = 1
INVARIANTS
    ZeroesAreReread
