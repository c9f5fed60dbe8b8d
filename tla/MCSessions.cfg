SPECIFICATION Spec
CONSTANTS
    Wallets = {alice, bob}
    Nobody = nobody
    MaxFaults = 2
PROPERTIES
    ReadsAsItself
    NoDeadEnd
CHECK_DEADLOCK FALSE
