SPECIFICATION Spec
CONSTANTS
    Seats = {1, 2}
    BuyIn = 3
    Ante = 2
    MaxBet = 3
    MaxHands = 2
    Tries = 2
    RakeBps = 5000
    BigBlind = 2
    Told = {2, 3}
    RakeCapBB = 3
    RakeFreeBB = 1
    MaxBehind = 1
    Guesses = 1
INVARIANTS
    RecordsAreOfTheirHand
    
    
CHECK_DEADLOCK FALSE
