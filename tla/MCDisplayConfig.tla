--------------------------- MODULE MCDisplayConfig ---------------------------
(* Two e87nctl processes that may each change brightness or switch the     *)
(* display off and on, over a file of any of the versions in the field.    *)
EXTENDS DisplayConfig

MCThemes == {"dark", "aurora"}
MCLegacyTheme == [dual |-> "dark", compact |-> "aurora"]
MCChanges == {[key |-> "enabled", value |-> FALSE], [key |-> "enabled", value |-> TRUE],
              [key |-> "brightness_percent", value |-> 100]}
MCContents == {DefaultConfig, Absent, Invalid,
               [enabled |-> FALSE, brightness_percent |-> 50],
               [enabled |-> TRUE, brightness_percent |-> 50, theme |-> "compact"]}
=============================================================================
