SPECIFICATION FairHandSpec
CONSTANTS
    MaxSeats = 3
    SmallBlind = 1
    BigBlind = 2
    StackSizes = {0, 2, 3}
    RakeBps = 2500
    RakeCapBB = 1
    RakeFreeBB = 1
    Ranks = {1, 2}
    MaxHands = 2
INVARIANTS
    CleanBetweenHands
    DealtOnce
    EveryPotHasAnOwner
PROPERTIES
    ImplementsPurse
    HandsFinish
CHECK_DEADLOCK FALSE
