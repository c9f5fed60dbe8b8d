SPECIFICATION Spec
CONSTANTS
    MaxSeats = 4
    SmallBlind = 1
    BigBlind = 2
    StackSizes = {0, 1, 3, 6}
INVARIANTS
    TurnIsPlayable
    StreetClosesMatched
    ActiveStakesLead
    RaiseRights
    OfferedRaisesAreLegal
CHECK_DEADLOCK FALSE
