SPECIFICATION FairSpec
CONSTANTS
    MaxSeats = 2
    Players = {alice, bob, carol}
    Nobody = nobody
    Absent = absent
    Public = public
INVARIANTS
    FlagNamesOccupant
    OnlyTheOccupantReads
PROPERTIES
    SeatHeals
CHECK_DEADLOCK FALSE
