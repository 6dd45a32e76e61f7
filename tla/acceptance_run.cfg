SPECIFICATION AcceptanceSpec
CONSTANTS
    MaxReboots = 2
    MaxSignals = 2
    NoVM = NoVM
    NoState = NoState
    MaxAttempts = 3
    MaxFaults = 2
    None = None
CHECK_DEADLOCK FALSE
INVARIANTS VerdictIsEarned PreparedIsProven
PROPERTIES UndisturbedPasses
