SPECIFICATION Spec
CONSTANTS
    Procs = {p1, p2}
    Themes <- MCThemes
    LegacyTheme <- MCLegacyTheme
    Changes <- MCChanges
    Contents <- MCContents
    DirShipped = FALSE
    Absent = Absent
    Torn = Torn
    Invalid = Invalid
    None = None
PROPERTIES NeverLitWhileOff
