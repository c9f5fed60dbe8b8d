SPECIFICATION HandSpec
CONSTANTS
    MaxSeats = 3
    SmallBlind = 1
    BigBlind = 2
    StackSizes = {2, 3}
    RakeBps = 2500
    RakeCapBB = 1
    RakeFreeBB = 1
    Ranks = {1, 2}
    MaxHands = 1
PROPERTIES
    ExclusionCostsOnlyAHand
CHECK_DEADLOCK FALSE
