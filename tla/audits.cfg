SPECIFICATION AuditSpec
CONSTANTS
    Modules = {1, 2, 3}
    Builtins = {9}
    Required = {1}
    Trees <- MCTrees
    Parts <- MCParts
    Initrds <- MCInitrds
    Known = {"m"}
    Limit = 5
    Frames = 2
    Names = {"a", "b"}
    Images <- MCImages
    Wanted <- MCWanted
    MaxHops = 3
    FdtNames = {"images"}
    Slashed <- MCSlashed
    Keys = {"data"}
    Values = {"x", "y"}
    MaxTokens = 8
    Absent = Absent
    Headers <- MCHeaders
    MaxHeaders = 4
    Sizes <- MCSizes
CHECK_DEADLOCK FALSE
INVARIANTS ModulesCanLoad NothingUnseen BoardReadsTheSame NothingOverlaps
PROPERTIES SoundIsPassed
