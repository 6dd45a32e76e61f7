SPECIFICATION FairSpec
CONSTANTS
    Bite = 7
    Attempts = 6
    MaxLate = 2
    MaxFaults = 2
CHECK_DEADLOCK FALSE
PROPERTY ServicesRecover
