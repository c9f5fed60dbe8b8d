SPECIFICATION FairSpec
CONSTANTS
    MaxSeats = 2
    MaxRequests = 3
    MaxHands = 2
    MaxLosses = 1
    MaxMoves = 2
INVARIANTS
    SaltsReproduceSeed
    LatestDrawAfterSalts
PROPERTIES
    DrawsDealOnce
    ShuffleClears
CHECK_DEADLOCK FALSE
