SPECIFICATION HardwareSpec
CONSTANTS
    Testers <- OneTester
    MaxLevel = 3
    Signals <- AllSignals
    Interfaces = {"eth0"}
    MaxCount = 2
    MaxSamples = 3
    MaxElapsed = 2
    None = None
INVARIANTS KernelLevelLeft ReportIsTrue
PROPERTIES RatesAreTrue
