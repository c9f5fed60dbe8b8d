SPECIFICATION Spec
CONSTANTS
    MaxSeats = 3
    Players = {alice, bob, house}
    Treasury = house
    Creator = alice
    Registered = {alice, house}
    Nobody = nobody
    Wallet = 1
    MinBuyIn = 1
    MaxBuyIn = 1
    MaxHands = 1
    MaxTrips = 4
INVARIANTS
    SeatMapAgrees
    NeverSplitMidHand
    Solvent
PROPERTIES
    ImplementsLedger
    EveryoneGetsHome
CHECK_DEADLOCK FALSE
