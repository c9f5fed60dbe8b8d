SPECIFICATION Spec
CONSTANTS
    Stack = 3
    MaxBet = 2
    Showdown = 2
    MaxHands = 2
    MaxLate = 1
INVARIANT ShownOnce
PROPERTIES
    NeverDips
    RetiresItself
CHECK_DEADLOCK FALSE
