------------------------------ MODULE MCFanTest ------------------------------
(* One process that tests the fan, and the signals that reach it. *)
EXTENDS FanTest

OneTester == {"shell"}
AllSignals == {"INT", "KILL"}
Interrupts == {"INT"}

=============================================================================
