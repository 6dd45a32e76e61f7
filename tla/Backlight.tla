------------------------------ MODULE Backlight ------------------------------
(***************************************************************************)
(* The active-low E87N backlight: board-support/e87n/hardware.py maps a    *)
(* user percentage to the raw value of the pwm-backlight device.  Raw 26   *)
(* is dark, and raw 0 is full brightness.                                  *)
(***************************************************************************)
EXTENDS Integers

MaxRaw == 26
Dark == MaxRaw

(* _raw_brightness *)
RawBrightness(percent) == (MaxRaw * (100 - percent) + 50) \div 100

(* Mutant: off is raw zero, the way an active-high backlight is dark. *)
ActiveHighRaw(config) ==
    IF config.enabled THEN RawBrightness(config.brightness_percent) ELSE 0

(* _apply_config: a display that is off is dark, never raw zero. *)
AppliedRaw(config) ==
    RawBrightness(IF config.enabled THEN config.brightness_percent ELSE 0)
=============================================================================
