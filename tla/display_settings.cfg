SPECIFICATION FairSpec
CONSTANTS
    Procs = {p1, p2}
    Themes <- MCThemes
    LegacyTheme <- MCLegacyTheme
    Changes <- MCChanges
    Contents <- MCContents
    DirShipped = TRUE
    Absent = Absent
    Torn = Torn
    Invalid = Invalid
    None = None
INVARIANTS BacklightFollowsConfig
PROPERTIES NeverLitWhileOff AcknowledgedIsDurable RegisterSpec EveryCommandEnds
