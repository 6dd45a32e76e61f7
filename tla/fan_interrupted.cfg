SPECIFICATION Spec
CONSTANTS
    Testers <- OneTester
    MaxLevel = 2
    Signals <- Interrupts
INVARIANTS InterruptedWaitRestores
