--------------------------- MODULE RootPreparation ---------------------------
(* What preparing a root filesystem promises: a set of things to do, each  *)
(* done at once or not at all, and none ever undone, over any number of    *)
(* attempts.                                                               *)
CONSTANT Work

VARIABLE todo

Init == todo \subseteq Work

Do == \E w \in todo : todo' = todo \ {w}

Spec == Init /\ [][Do]_todo
=============================================================================
