SPECIFICATION BothSpec
CONSTANTS
    MaxRuns = 3
    c1 = c1
    c2 = c2
    Commits <- MCCommits
    Source <- MCSource
    Main = Main
    NoRef = NoRef
    Official = Official
    ReplaceExisting = FALSE
    DraftsListed = FALSE
    ImmutablePolicy = TRUE
CHECK_DEADLOCK FALSE
PROPERTIES PreflightRefusesLeftovers
