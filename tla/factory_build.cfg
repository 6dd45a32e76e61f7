SPECIFICATION FactorySpec
CONSTANTS
    Files <- MCFiles
    Links <- MCLinks
    Roots <- MCRoots
    Sources = {"s1", "s2"}
    MaxRuns = 2
    Builds = {"r1", "r2"}
    MaxFaults = 1
    None = None
CHECK_DEADLOCK FALSE
INVARIANTS OutputIsOfOneImage NothingLeftMounted
PROPERTIES RootIsKept PreparationSpec PublishedOnce UndisturbedFinishes
