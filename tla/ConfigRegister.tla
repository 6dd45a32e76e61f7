--------------------------- MODULE ConfigRegister ---------------------------
(***************************************************************************)
(* What the display settings promise (hardware.py, display()): one         *)
(* configuration, changed one setting at a time as if no two setters ever  *)
(* ran together; a power loss may take back changes that were not yet      *)
(* committed, but never leaves anything else than some value it had.       *)
(***************************************************************************)
CONSTANTS Updates,        \* the changes setters can ask for
          Updated(_, _),  \* the configuration after a change
          Initials,       \* configurations the system may start with
          Unusable        \* a configuration no setter works with

VARIABLES value, \* the configuration everybody reads
          kept   \* the configurations a power loss may leave

reg == <<value, kept>>

Init == value \in Initials /\ kept = {value}

Set(u) ==
    /\ value # Unusable
    /\ value' = Updated(value, u)
    /\ kept' = kept \cup {value'}

Commit == kept' = {value} /\ UNCHANGED value

PowerLoss ==
    /\ value' \in kept
    /\ kept' = {value'}

Next == (\E u \in Updates : Set(u)) \/ Commit \/ PowerLoss

Spec == Init /\ [][Next]_reg
=============================================================================
