SPECIFICATION BootsSpec
CONSTANTS
    Boards <- MCBoards
    Boots <- MCBoots
    Invalid = {"zero"}
    MaxBlocks = 3
    MaxLosses = 1
    Bite = 7
    Attempts = 6
    MaxLate = 2
    MaxFaults = 2
    Builds = {b1, b2}
    Kernels <- MCKernels
    Initrds <- MCInitrds
    Trees <- MCTrees
    Orders <- MCOrders
    MaxChanges = 1
CHECK_DEADLOCK FALSE
INVARIANTS BothOrNone OwnAddress NeverBites FitsAreSound
PROPERTIES LiveUntouched OnlyGrowsInside BoardComesUp
