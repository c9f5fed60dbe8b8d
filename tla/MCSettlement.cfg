SPECIFICATION SettlementSpec
CONSTANTS
    MaxSeats = 4
    RakeBps = 2500
    RakeCapBB = 3
    RakeFreeBB = 4
    Blind = 1
    Stakes = {0, 1, 2, 3}
    ShowdownRanks = {1, 2}
INVARIANTS
    PaysTheReference
    RakeIsFair
    BooksAgree
CHECK_DEADLOCK FALSE
