SPECIFICATION FairSpec
CONSTANTS
    MaxHands = 1
    MaxHandAdvance = 100
    NumSeats = 3
    Me = 1
    Present = {2}
    Showdown = 1
    Unsecured = {2}
    CommitEvery = 1
    MaxTurns = 1
    MaxFaults = 1
INVARIANTS RecordedIsRecent CallsLand
PROPERTIES HandsGoOn HistoryCatchesUp
