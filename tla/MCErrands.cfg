SPECIFICATION ErrandSpec
CONSTANTS
    MaxSeats = 2
    Players = {alice, bob}
    Treasury = bob
    Creator = alice
    Registered = {alice, bob}
    Clients = {alice, bob}
    Nobody = nobody
    Wallet = 1
    MinBuyIn = 1
    MaxBuyIn = 1
    MaxHands = 1
    MaxTrips = 12
    MaxErrands = 2
    MaxFaults = 1
    MaxDraws = 1
PROPERTIES
    StartIsAllOrNothing
    StartsAgree
    ErrandsSucceed
CHECK_DEADLOCK FALSE
