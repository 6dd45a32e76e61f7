--------------------------- MODULE AcceptanceProofs --------------------------
(***************************************************************************)
(* Theorems about AcceptanceRun and Provenance.  For any number of reboots *)
(* nobody asked for and of signals, the verdict PASS is earned and leaves  *)
(* nothing; for any number of attempts and faults, a release is prepared   *)
(* from nothing but what QEMU accepted.                                    *)
(***************************************************************************)
EXTENDS MCAcceptance, TLAPS

(* The machine that execute has at each of its steps. *)
Machine ==
    mode = "execute" =>
        /\ step \in 1..3 \cup {14, 19, 20, 26} => vm = NoVM
        /\ step \in 1..3 => started = 0
        /\ step \in 4..13 => /\ vm # NoVM /\ vm.id = 1 /\ vm.disk = "primary"
                             /\ started = 1
        /\ step = 14 => started = 1
        /\ step \in 15..18 => /\ vm # NoVM /\ vm.id = 2 /\ vm.disk = "primary"
                              /\ started = 2
        /\ step \in {19, 20} => started = 2
        /\ step \in 21..25 => vm # NoVM /\ vm.id = 3 /\ vm.disk = "fresh"

(* The boot that runs is the last one, and its keys are those that the     *)
(* firmware makes.                                                         *)
Running ==
    vm # NoVM =>
        /\ vm.boot = boots
        /\ firmware.keys = "fixed" => disks[vm.disk].keys = 1
        /\ firmware.keys = "each boot" => disks[vm.disk].keys = vm.boot

(* The state file: it is of this boot if the firmware loses files, it has  *)
(* the keys of its boot if the firmware makes some at each boot, and it is *)
(* the one of the last phase that wrote it.                                *)
StateOfBoot ==
    vm # NoVM /\ ~firmware.persists /\ disks[vm.disk].state # NoState
        => disks[vm.disk].state.boot = vm.boot

StateOfKeys ==
    firmware.keys = "each boot" =>
        \A d \in Disks : disks[d].state # NoState => disks[d].state.keys = disks[d].state.boot

(* No state file is of a boot to come. *)
Past == \A d \in Disks : disks[d].state # NoState => disks[d].state.boot <= boots

StateOfPhase ==
    disks["primary"].state # NoState =>
        /\ step \in 7..12 => disks["primary"].state.boot = log["baseline"].boot
        /\ step \in 13..17 => disks["primary"].state.boot = log["warm"].boot

(* What is known of the firmware and of the log behind each step. *)
Earned ==
    /\ step > 1 => firmware.keys # "shipped"
    /\ step > 6 => /\ log["baseline"].vm = 1
                   /\ firmware.keys = "fixed" => log["baseline"].keys = 1
    /\ step > 12 => /\ firmware.persists /\ firmware.keys # "each boot"
                    /\ log["warm"].vm = 1
                    /\ log["baseline"].boot < log["warm"].boot
    /\ step > 17 => /\ log["cold"].vm = 2 /\ log["cold"].disk = "primary"
                    /\ log["warm"].boot < log["cold"].boot
    /\ step > 23 => /\ log["fresh"].disk = "fresh"
                    /\ firmware.keys = "fixed" => log["fresh"].keys = 1
    /\ step > 24 => firmware.keys # "fixed"

(* What main has done of its cleanup when the status is PASS. *)
Cleaned ==
    /\ status = "PASS" => step = 26 /\ mode # "execute"
    /\ status = "PASS" /\ mode \in {"remove", "save"} => vm = NoVM
    /\ status = "PASS" /\ mode = "save" => ~work
    /\ file = "PASS" => /\ step = 26 /\ mode \in {"exit 0", "exit 1"}
                        /\ vm = NoVM /\ ~work

(* What is kept of boots, disks and results. *)
Core == Running /\ StateOfBoot /\ StateOfKeys /\ Past /\ StateOfPhase /\ Earned

LEMMA ScriptIs ==
    /\ DOMAIN Script = 1..26
    /\ Script[1].do = "preflight"
    /\ Script[2].do = "copy" /\ Script[2].arg = "primary"
    /\ Script[3].do = "start" /\ Script[3].arg = "primary"
    /\ Script[4].do = "wait" /\ Script[4].arg = "first"
    /\ Script[5].do = "login"
    /\ Script[6].do = "baseline"
    /\ Script[7].do = "transfer"
    /\ Script[8].do = "packages"
    /\ Script[9].do = "reboot"
    /\ Script[10].do = "wait" /\ Script[10].arg = "warm"
    /\ Script[11].do = "login"
    /\ Script[12].do = "restarted" /\ Script[12].arg = "warm"
    /\ Script[13].do = "stop"
    /\ Script[14].do = "start" /\ Script[14].arg = "primary"
    /\ Script[15].do = "wait" /\ Script[15].arg = "cold"
    /\ Script[16].do = "login"
    /\ Script[17].do = "restarted" /\ Script[17].arg = "cold"
    /\ Script[18].do = "stop"
    /\ Script[19].do = "copy" /\ Script[19].arg = "fresh"
    /\ Script[20].do = "start" /\ Script[20].arg = "fresh"
    /\ Script[21].do = "wait" /\ Script[21].arg = "fresh"
    /\ Script[22].do = "login"
    /\ Script[23].do = "fresh"
    /\ Script[24].do = "compare"
    /\ Script[25].do = "stop"
    /\ Script[26].do = "validate"
<1>1. DOMAIN Script = 1..26
    BY DEF Script
<1>s1. Script[1].do = "preflight"
    BY DEF Script, Step
<1>s2. Script[2].do = "copy" /\ Script[2].arg = "primary"
    BY DEF Script, Step
<1>s3. Script[3].do = "start" /\ Script[3].arg = "primary"
    BY DEF Script, Step
<1>s4. Script[4].do = "wait" /\ Script[4].arg = "first"
    BY DEF Script, Step
<1>s5. Script[5].do = "login"
    BY DEF Script, Step
<1>s6. Script[6].do = "baseline"
    BY DEF Script, Step
<1>s7. Script[7].do = "transfer"
    BY DEF Script, Step
<1>s8. Script[8].do = "packages"
    BY DEF Script, Step
<1>s9. Script[9].do = "reboot"
    BY DEF Script, Step
<1>s10. Script[10].do = "wait" /\ Script[10].arg = "warm"
    BY DEF Script, Step
<1>s11. Script[11].do = "login"
    BY DEF Script, Step
<1>s12. Script[12].do = "restarted" /\ Script[12].arg = "warm"
    BY DEF Script, Step
<1>s13. Script[13].do = "stop"
    BY DEF Script, Step
<1>s14. Script[14].do = "start" /\ Script[14].arg = "primary"
    BY DEF Script, Step
<1>s15. Script[15].do = "wait" /\ Script[15].arg = "cold"
    BY DEF Script, Step
<1>s16. Script[16].do = "login"
    BY DEF Script, Step
<1>s17. Script[17].do = "restarted" /\ Script[17].arg = "cold"
    BY DEF Script, Step
<1>s18. Script[18].do = "stop"
    BY DEF Script, Step
<1>s19. Script[19].do = "copy" /\ Script[19].arg = "fresh"
    BY DEF Script, Step
<1>s20. Script[20].do = "start" /\ Script[20].arg = "fresh"
    BY DEF Script, Step
<1>s21. Script[21].do = "wait" /\ Script[21].arg = "fresh"
    BY DEF Script, Step
<1>s22. Script[22].do = "login"
    BY DEF Script, Step
<1>s23. Script[23].do = "fresh"
    BY DEF Script, Step
<1>s24. Script[24].do = "compare"
    BY DEF Script, Step
<1>s25. Script[25].do = "stop"
    BY DEF Script, Step
<1>s26. Script[26].do = "validate"
    BY DEF Script, Step
<1>2. QED
    BY <1>1, <1>s1, <1>s2, <1>s3, <1>s4, <1>s5, <1>s6, <1>s7, <1>s8, <1>s9, <1>s10,
       <1>s11, <1>s12, <1>s13, <1>s14, <1>s15, <1>s16, <1>s17, <1>s18, <1>s19, <1>s20,
       <1>s21, <1>s22, <1>s23, <1>s24, <1>s25, <1>s26

(* Where in execute each kind of step stands. *)
LEMMA Positions ==
    ASSUME NEW i \in 1..26
    PROVE  /\ Script[i].do = "preflight" => i = 1
           /\ Script[i].do = "copy" => \/ i = 2 /\ Script[i].arg = "primary"
                                       \/ i = 19 /\ Script[i].arg = "fresh"
           /\ Script[i].do = "start" => \/ i \in {3, 14} /\ Script[i].arg = "primary"
                                        \/ i = 20 /\ Script[i].arg = "fresh"
           /\ Script[i].do = "wait" => i \in {4, 10, 15, 21}
           /\ Script[i].do = "login" => i \in {5, 11, 16, 22}
           /\ Script[i].do = "baseline" => i = 6
           /\ Script[i].do = "transfer" => i = 7
           /\ Script[i].do = "packages" => i = 8
           /\ Script[i].do = "reboot" => i = 9
           /\ Script[i].do = "restarted" => \/ i = 12 /\ Script[i].arg = "warm"
                                            \/ i = 17 /\ Script[i].arg = "cold"
           /\ Script[i].do = "stop" => i \in {13, 18, 25}
           /\ Script[i].do = "fresh" => i = 23
           /\ Script[i].do = "compare" => i = 24
           /\ Script[i].do = "validate" => i = 26
<1>1. i \in 1..9 \/ i \in 10..18 \/ i \in 19..26
    OBVIOUS
<1>2. CASE i \in 1..9
    BY <1>2, ScriptIs
<1>3. CASE i \in 10..18
    BY <1>3, ScriptIs
<1>4. CASE i \in 19..26
    BY <1>4, ScriptIs
<1>5. QED
    BY <1>1, <1>2, <1>3, <1>4

(***************************************************************************)
(* Types, and where the machine is.                                        *)
(***************************************************************************)
Placed == TypeOK /\ Machine

LEMMA PlacedInitially == Init => Placed
<1> SUFFICES ASSUME Init PROVE Placed
    OBVIOUS
<1>1. TypeOK
  <2>1. disks \in [Disks -> Copies] /\ log \in [Phases -> Reports]
    BY DEF Init, Unused, Disks, Copies, Reports
  <2>2. step \in DOMAIN Script /\ mode \in Modes
    BY ScriptIs DEF Init, Modes
  <2>3. budget \in [reboots : 0..MaxReboots, signals : 0..MaxSignals]
    BY BoundsAssumption DEF Init
  <2>4. QED
    BY <2>1, <2>2, <2>3 DEF Init, TypeOK
<1>2. Machine
    BY DEF Init, Machine
<1>3. QED
    BY <1>1, <1>2 DEF Placed

(* The next step is one as long as this is not the last. *)
LEMMA NextStep ==
    ASSUME TypeOK, Script[step].do # "validate", Advance \/ Raise
    PROVE  step' \in DOMAIN Script /\ mode' \in Modes
<1>1. step \in 1..26 /\ step # 26 /\ DOMAIN Script = 1..26 /\ mode \in Modes
    BY ScriptIs DEF TypeOK
<1>2. CASE Advance
    BY <1>1, <1>2 DEF Advance
<1>3. CASE Raise
    BY <1>1, <1>3 DEF Raise, Modes
<1>4. QED
    BY <1>2, <1>3

(* What a boot does to the disk it is from, and to the other one. *)
LEMMA BootStep ==
    ASSUME TypeOK, NEW d \in Disks, Boot(d)
    PROVE  /\ boots' = boots + 1 /\ boots' \in Nat
           /\ disks' \in [Disks -> Copies]
           /\ \A e \in Disks \ {d} : disks'[e] = disks[e]
           /\ disks'[d].state = IF firmware.persists THEN disks[d].state ELSE NoState
           /\ firmware.keys = "fixed" => disks'[d].keys = 1
           /\ firmware.keys = "each boot" => disks'[d].keys = boots + 1
<1> DEFINE copy == [keys  |-> KeysOfBoot(disks[d].keys),
                    state |-> IF firmware.persists THEN disks[d].state ELSE NoState]
<1>1. disks[d] \in Copies /\ boots \in Nat
    BY DEF TypeOK
<1>2. KeysOfBoot(disks[d].keys) \in Nat
  <2>1. disks[d].keys \in Nat
    BY <1>1 DEF Copies
  <2>2. KeysOfBoot(disks[d].keys) \in {disks[d].keys, boots + 1, 1}
    BY DEF KeysOfBoot
  <2>3. QED
    BY <1>1, <2>1, <2>2
<1>3. copy \in Copies
    BY <1>1, <1>2 DEF Copies
<1>4. boots' = boots + 1 /\ disks' = [disks EXCEPT ![d] = copy]
    BY DEF Boot
<1>5. disks'[d] = copy
    BY <1>4 DEF TypeOK
<1>6. /\ firmware.keys = "fixed" => copy.keys = 1
      /\ firmware.keys = "each boot" => copy.keys = boots + 1
    BY DEF KeysOfBoot
<1>7. disks' \in [Disks -> Copies]
    BY <1>3, <1>4 DEF TypeOK
<1>8. \A e \in Disks \ {d} : disks'[e] = disks[e]
    BY <1>4 DEF TypeOK
<1>9. disks'[d].state = IF firmware.persists THEN disks[d].state ELSE NoState
    BY <1>5
<1>10. /\ firmware.keys = "fixed" => disks'[d].keys = 1
       /\ firmware.keys = "each boot" => disks'[d].keys = boots + 1
    BY <1>5, <1>6
<1>11. boots' = boots + 1 /\ boots' \in Nat
    BY <1>1, <1>4
<1>12. QED
    BY <1>7, <1>8, <1>9, <1>10, <1>11

LEMMA PlacedStep == Placed /\ [Next]_vars => Placed'
<1> SUFFICES ASSUME Placed, [Next]_vars PROVE Placed'
    OBVIOUS
<1> USE DEF Placed, guest, main
<1>0. step \in 1..26 /\ DOMAIN Script = 1..26
    BY ScriptIs DEF TypeOK
<1>1. CASE Preflight
  <2>1. step' \in DOMAIN Script /\ mode' \in Modes
    BY <1>1, <1>0, NextStep DEF Preflight, At, Require
  <2>2. disks' \in [Disks -> Copies] /\ vm' \in Machines \cup {NoVM} /\ log' \in [Phases -> Reports]
    BY <1>1, <1>0, Positions, NothingAssumption DEF Preflight, At, Require, TypeOK,
       Machine, Machines, States, Copies, Reports, Disks, Phases
  <2>3. TypeOK'
    BY <1>1, <2>1, <2>2 DEF Preflight, At, Require, TypeOK, Machines
  <2>4. Machine'
    BY <1>1, <1>0, Positions, NothingAssumption DEF Preflight, At, Require, Advance,
       Raise, TypeOK, Machine, Machines, Modes, Disks
  <2>5. QED
    BY <2>3, <2>4
<1>2. CASE Copy
  <2>1. step' \in DOMAIN Script /\ mode' \in Modes
    BY <1>2, <1>0, NextStep DEF Copy, At, Require, Arg
  <2>2. disks' \in [Disks -> Copies] /\ vm' \in Machines \cup {NoVM} /\ log' \in [Phases -> Reports]
    BY <1>2, <1>0, Positions, NothingAssumption DEF Copy, At, Require, Arg, TypeOK,
       Machine, Machines, States, Copies, Reports, Disks, Phases
  <2>3. TypeOK'
    BY <1>2, <2>1, <2>2 DEF Copy, At, Require, Arg, TypeOK, Machines
  <2>4. Machine'
    BY <1>2, <1>0, Positions, NothingAssumption DEF Copy, At, Require, Arg, Advance,
       Raise, TypeOK, Machine, Machines, Modes, Disks
  <2>5. QED
    BY <2>3, <2>4
<1>3. CASE Start
  <2>1. step' \in DOMAIN Script /\ mode' \in Modes
    BY <1>3, NextStep DEF Start, At
  <2>2. /\ mode = "execute" /\ Arg \in Disks
        /\ \/ step \in {3, 14} /\ Arg = "primary"
           \/ step = 20 /\ Arg = "fresh"
    BY <1>3, <1>0, Positions DEF Start, At, Arg, Disks
  <2>3. disks' \in [Disks -> Copies] /\ boots' = boots + 1 /\ boots' \in Nat
    BY <1>3, <2>2, BootStep DEF Start
  <2>4. vm' \in Machines /\ started' = started + 1 /\ started' \in Nat /\ vm'.id = started + 1
        /\ vm'.disk = Arg
    BY <1>3, <2>2, <2>3 DEF Start, TypeOK, Machines
  <2>5. TypeOK'
    BY <1>3, <2>1, <2>3, <2>4 DEF Start, TypeOK
  <2>6. Machine'
    <3>1. step' = step + 1 /\ vm' # NoVM
        BY <1>3, <2>4, NothingAssumption DEF Start, Advance
    <3>2. CASE step = 3
        BY <2>2, <2>4, <3>1, <3>2 DEF Machine
    <3>3. CASE step = 14
        BY <2>2, <2>4, <3>1, <3>3 DEF Machine
    <3>4. CASE step = 20
        BY <2>2, <2>4, <3>1, <3>4 DEF Machine
    <3>5. QED
        BY <2>2, <3>2, <3>3, <3>4
  <2>7. QED
    BY <2>5, <2>6
<1>4. CASE Wait
  <2>1. step' \in DOMAIN Script /\ mode' \in Modes
    BY <1>4, NextStep DEF Wait, At, Require
  <2>2. vm \in Machines
    BY <1>4, <1>0, Positions DEF Wait, At, TypeOK, Machine
  <2>3. initial' \in Nat
    BY <1>4, <2>2 DEF Wait, TypeOK, Machines
  <2>4. TypeOK'
    BY <1>4, <2>1, <2>3 DEF Wait, TypeOK
  <2>5. Machine'
    BY <1>4, <1>0, Positions DEF Wait, At, Require, Advance, Raise, Machine
  <2>6. QED
    BY <2>4, <2>5
<1>5. CASE Command
  <2>1. step' \in DOMAIN Script /\ mode' \in Modes
    BY <1>5, NextStep DEF Command, At, Require
  <2>2. TypeOK'
    BY <1>5, <2>1 DEF Command, TypeOK
  <2>3. mode = "execute" /\ step \in {5, 7, 11, 16, 22}
    BY <1>5, <1>0, Positions DEF Command, At
  <2>4. Machine'
    BY <1>5, <2>3 DEF Command, Require, Advance, Raise, Machine
  <2>5. QED
    BY <2>2, <2>4
<1>6. CASE Baseline
  <2>1. step' \in DOMAIN Script /\ mode' \in Modes
    BY <1>6, <1>0, NextStep DEF Baseline, At, Require, Disk, Phase, Record, SaveState
  <2>2. disks' \in [Disks -> Copies] /\ vm' \in Machines \cup {NoVM} /\ log' \in [Phases -> Reports]
    BY <1>6, <1>0, Positions, NothingAssumption DEF Baseline, At, Require, Disk, Phase,
       Record, SaveState, TypeOK, Machine, Machines, States, Copies, Reports, Disks,
       Phases
  <2>3. TypeOK'
    BY <1>6, <2>1, <2>2 DEF Baseline, At, Require, Disk, Phase, Record, SaveState,
       TypeOK, Machines
  <2>4. Machine'
    BY <1>6, <1>0, Positions, NothingAssumption DEF Baseline, At, Require, Disk, Phase,
       Record, SaveState, Advance, Raise, TypeOK, Machine, Machines, Modes, Disks
  <2>5. QED
    BY <2>3, <2>4
<1>7. CASE Packages
  <2>1. step' \in DOMAIN Script /\ mode' \in Modes
    BY <1>7, <1>0, NextStep DEF Packages, At, Require, Disk, Phase, Record, SaveState
  <2>2. disks' \in [Disks -> Copies] /\ vm' \in Machines \cup {NoVM} /\ log' \in [Phases -> Reports]
    BY <1>7, <1>0, Positions, NothingAssumption DEF Packages, At, Require, Disk, Phase,
       Record, SaveState, TypeOK, Machine, Machines, States, Copies, Reports, Disks,
       Phases
  <2>3. TypeOK'
    BY <1>7, <2>1, <2>2 DEF Packages, At, Require, Disk, Phase, Record, SaveState,
       TypeOK, Machines
  <2>4. Machine'
    BY <1>7, <1>0, Positions, NothingAssumption DEF Packages, At, Require, Disk, Phase,
       Record, SaveState, Advance, Raise, TypeOK, Machine, Machines, Modes, Disks
  <2>5. QED
    BY <2>3, <2>4
<1>8. CASE Reboot
  <2>1. step' \in DOMAIN Script /\ mode' \in Modes
    BY <1>8, NextStep DEF Reboot, At
  <2>2. vm \in Machines
    BY <1>8, <1>0, Positions DEF Reboot, At, TypeOK, Machine
  <2>3. pending' \in BOOLEAN
    BY <1>8, <2>2 DEF Reboot, TypeOK, Machines
  <2>4. TypeOK'
    BY <1>8, <2>1, <2>3 DEF Reboot, TypeOK
  <2>5. Machine'
    BY <1>8, <1>0, Positions DEF Reboot, At, Advance, Machine
  <2>6. QED
    BY <2>4, <2>5
<1>9. CASE Restarted
  <2>1. step' \in DOMAIN Script /\ mode' \in Modes
    BY <1>9, <1>0, NextStep DEF Restarted, At, Require, Disk, Phase, Record, SaveState, Arg
  <2>2. disks' \in [Disks -> Copies] /\ vm' \in Machines \cup {NoVM} /\ log' \in [Phases -> Reports]
    BY <1>9, <1>0, Positions, NothingAssumption DEF Restarted, At, Require, Disk,
       Phase, Record, SaveState, Arg, TypeOK, Machine, Machines, States, Copies,
       Reports, Disks, Phases
  <2>3. TypeOK'
    BY <1>9, <2>1, <2>2 DEF Restarted, At, Require, Disk, Phase, Record, SaveState,
       Arg, TypeOK, Machines
  <2>4. Machine'
    BY <1>9, <1>0, Positions, NothingAssumption DEF Restarted, At, Require, Disk,
       Phase, Record, SaveState, Arg, Advance, Raise, TypeOK, Machine, Machines, Modes,
       Disks
  <2>5. QED
    BY <2>3, <2>4
<1>10. CASE Fresh
  <2>1. step' \in DOMAIN Script /\ mode' \in Modes
    BY <1>10, <1>0, NextStep DEF Fresh, At, Require, Disk, Phase, Record, SaveState
  <2>2. disks' \in [Disks -> Copies] /\ vm' \in Machines \cup {NoVM} /\ log' \in [Phases -> Reports]
    BY <1>10, <1>0, Positions, NothingAssumption DEF Fresh, At, Require, Disk, Phase,
       Record, SaveState, TypeOK, Machine, Machines, States, Copies, Reports, Disks,
       Phases
  <2>3. TypeOK'
    BY <1>10, <2>1, <2>2 DEF Fresh, At, Require, Disk, Phase, Record, SaveState,
       TypeOK, Machines
  <2>4. Machine'
    BY <1>10, <1>0, Positions, NothingAssumption DEF Fresh, At, Require, Disk, Phase,
       Record, SaveState, Advance, Raise, TypeOK, Machine, Machines, Modes, Disks
  <2>5. QED
    BY <2>3, <2>4
<1>11. CASE Compare
  <2>1. step' \in DOMAIN Script /\ mode' \in Modes
    BY <1>11, <1>0, NextStep DEF Compare, At, Require
  <2>2. disks' \in [Disks -> Copies] /\ vm' \in Machines \cup {NoVM} /\ log' \in [Phases -> Reports]
    BY <1>11, <1>0, Positions, NothingAssumption DEF Compare, At, Require, TypeOK,
       Machine, Machines, States, Copies, Reports, Disks, Phases
  <2>3. TypeOK'
    BY <1>11, <2>1, <2>2 DEF Compare, At, Require, TypeOK, Machines
  <2>4. Machine'
    BY <1>11, <1>0, Positions, NothingAssumption DEF Compare, At, Require, Advance,
       Raise, TypeOK, Machine, Machines, Modes, Disks
  <2>5. QED
    BY <2>3, <2>4
<1>12. CASE Stop
  <2>1. step' \in DOMAIN Script /\ mode' \in Modes
    BY <1>12, <1>0, NextStep DEF Stop, At, Require
  <2>2. disks' \in [Disks -> Copies] /\ vm' \in Machines \cup {NoVM} /\ log' \in [Phases -> Reports]
    BY <1>12, <1>0, Positions, NothingAssumption DEF Stop, At, Require, TypeOK,
       Machine, Machines, States, Copies, Reports, Disks, Phases
  <2>3. TypeOK'
    BY <1>12, <2>1, <2>2 DEF Stop, At, Require, TypeOK, Machines
  <2>4. Machine'
    BY <1>12, <1>0, Positions, NothingAssumption DEF Stop, At, Require, Advance, Raise,
       TypeOK, Machine, Machines, Modes, Disks
  <2>5. QED
    BY <2>3, <2>4
<1>13. CASE Validate
  <2>1. step' \in DOMAIN Script /\ mode' \in Modes
    BY <1>13, <1>0 DEF Validate, At, Require, TypeOK, Modes
  <2>2. disks' \in [Disks -> Copies] /\ vm' \in Machines \cup {NoVM} /\ log' \in [Phases -> Reports]
    BY <1>13, <1>0, Positions, NothingAssumption DEF Validate, At, Require, TypeOK,
       Machine, Machines, States, Copies, Reports, Disks, Phases
  <2>3. TypeOK'
    BY <1>13, <2>1, <2>2 DEF Validate, At, Require, TypeOK, Machines
  <2>4. Machine'
    BY <1>13, <1>0, Positions, NothingAssumption DEF Validate, At, Require, Advance,
       Raise, TypeOK, Machine, Machines, Modes, Disks
  <2>5. QED
    BY <2>3, <2>4
<1>14. CASE Except
  <2>1. step' \in DOMAIN Script /\ mode' \in Modes
    BY <1>14, <1>0 DEF Except, TypeOK, Modes
  <2>2. disks' \in [Disks -> Copies] /\ vm' \in Machines \cup {NoVM} /\ log' \in [Phases -> Reports]
    BY <1>14, <1>0, Positions, NothingAssumption DEF Except, TypeOK, Machine, Machines,
       States, Copies, Reports, Disks, Phases
  <2>3. TypeOK'
    BY <1>14, <2>1, <2>2 DEF Except, TypeOK, Machines
  <2>4. Machine'
    BY <1>14, <1>0, Positions, NothingAssumption DEF Except, Advance, Raise, TypeOK,
       Machine, Machines, Modes, Disks
  <2>5. QED
    BY <2>3, <2>4
<1>15. CASE CleanupStops
  <2>1. step' \in DOMAIN Script /\ mode' \in Modes
    BY <1>15, <1>0 DEF CleanupStops, TypeOK, Modes
  <2>2. disks' \in [Disks -> Copies] /\ vm' \in Machines \cup {NoVM} /\ log' \in [Phases -> Reports]
    BY <1>15, <1>0, Positions, NothingAssumption DEF CleanupStops, TypeOK, Machine,
       Machines, States, Copies, Reports, Disks, Phases
  <2>3. TypeOK'
    BY <1>15, <2>1, <2>2 DEF CleanupStops, TypeOK, Machines
  <2>4. Machine'
    BY <1>15, <1>0, Positions, NothingAssumption DEF CleanupStops, Advance, Raise,
       TypeOK, Machine, Machines, Modes, Disks
  <2>5. QED
    BY <2>3, <2>4
<1>16. CASE CleanupRemoves
  <2>1. step' \in DOMAIN Script /\ mode' \in Modes
    BY <1>16, <1>0 DEF CleanupRemoves, TypeOK, Modes
  <2>2. disks' \in [Disks -> Copies] /\ vm' \in Machines \cup {NoVM} /\ log' \in [Phases -> Reports]
    BY <1>16, <1>0, Positions, NothingAssumption DEF CleanupRemoves, TypeOK, Machine,
       Machines, States, Copies, Reports, Disks, Phases
  <2>3. TypeOK'
    BY <1>16, <2>1, <2>2 DEF CleanupRemoves, TypeOK, Machines
  <2>4. Machine'
    BY <1>16, <1>0, Positions, NothingAssumption DEF CleanupRemoves, Advance, Raise,
       TypeOK, Machine, Machines, Modes, Disks
  <2>5. QED
    BY <2>3, <2>4
<1>17. CASE Save
  <2>1. step' \in DOMAIN Script /\ mode' \in Modes
    BY <1>17, <1>0 DEF Save, TypeOK, Modes
  <2>2. disks' \in [Disks -> Copies] /\ vm' \in Machines \cup {NoVM} /\ log' \in [Phases -> Reports]
    BY <1>17, <1>0, Positions, NothingAssumption DEF Save, TypeOK, Machine, Machines,
       States, Copies, Reports, Disks, Phases
  <2>3. TypeOK'
    BY <1>17, <2>1, <2>2 DEF Save, TypeOK, Machines
  <2>4. Machine'
    BY <1>17, <1>0, Positions, NothingAssumption DEF Save, Advance, Raise, TypeOK,
       Machine, Machines, Modes, Disks
  <2>5. QED
    BY <2>3, <2>4
<1>18. CASE GuestReboots
  <2>1. vm \in Machines
    BY <1>18 DEF GuestReboots, TypeOK
  <2>2. disks' \in [Disks -> Copies] /\ boots' = boots + 1 /\ boots' \in Nat
    BY <1>18, <2>1, BootStep DEF GuestReboots, Machines
  <2>3. vm' \in Machines /\ vm'.id = vm.id /\ vm'.disk = vm.disk
    BY <1>18, <2>1, <2>2 DEF GuestReboots, Machines
  <2>4. TypeOK'
    BY <1>18, <2>2, <2>3 DEF GuestReboots, TypeOK
  <2>5. Machine'
    BY <1>18, <2>1, <2>3, NothingAssumption DEF GuestReboots, Machine
  <2>6. QED
    BY <2>4, <2>5
<1>19. CASE GuestCrashes
  <2>1. vm \in Machines
    BY <1>19 DEF GuestCrashes, TypeOK
  <2>2. disks' \in [Disks -> Copies] /\ boots' \in Nat /\ vm' \in Machines
        /\ vm'.id = vm.id /\ vm'.disk = vm.disk
    <3>1. CASE Boot(vm.disk) /\ vm' = [vm EXCEPT !.boot = boots + 1]
        BY <3>1, <2>1, BootStep DEF Machines
    <3>2. CASE vm' = [vm EXCEPT !.up = FALSE] /\ UNCHANGED <<disks, boots>>
        BY <3>2, <2>1 DEF Machines, TypeOK
    <3>3. QED
        BY <1>19, <3>1, <3>2 DEF GuestCrashes
  <2>3. budget' \in [reboots : 0..MaxReboots, signals : 0..MaxSignals]
    BY <1>19, BoundsAssumption DEF GuestCrashes, TypeOK
  <2>4. TypeOK'
    BY <1>19, <2>2, <2>3 DEF GuestCrashes, TypeOK
  <2>5. Machine'
    BY <1>19, <2>1, <2>2, NothingAssumption DEF GuestCrashes, Machine
  <2>6. QED
    BY <2>4, <2>5
<1>20. CASE Fault
  <2>1. step' \in DOMAIN Script /\ mode' \in Modes
    BY <1>20, <1>0 DEF Fault, Raise, At, TypeOK, Modes
  <2>2. disks' \in [Disks -> Copies] /\ vm' \in Machines \cup {NoVM} /\ log' \in [Phases -> Reports]
    BY <1>20, <1>0, Positions, NothingAssumption DEF Fault, Raise, At, TypeOK, Machine,
       Machines, States, Copies, Reports, Disks, Phases
  <2>3. TypeOK'
    BY <1>20, <2>1, <2>2 DEF Fault, Raise, At, TypeOK, Machines
  <2>4. Machine'
    BY <1>20, <1>0, Positions, NothingAssumption DEF Fault, Raise, At, Advance, Raise,
       TypeOK, Machine, Machines, Modes, Disks
  <2>5. QED
    BY <2>3, <2>4
<1>21. CASE CleanupFails
  <2>1. step' \in DOMAIN Script /\ mode' \in Modes
    BY <1>21, <1>0 DEF CleanupFails, TypeOK, Modes
  <2>2. disks' \in [Disks -> Copies] /\ vm' \in Machines \cup {NoVM} /\ log' \in [Phases -> Reports]
    BY <1>21, <1>0, Positions, NothingAssumption DEF CleanupFails, TypeOK, Machine,
       Machines, States, Copies, Reports, Disks, Phases
  <2>3. TypeOK'
    BY <1>21, <2>1, <2>2 DEF CleanupFails, TypeOK, Machines
  <2>4. Machine'
    BY <1>21, <1>0, Positions, NothingAssumption DEF CleanupFails, Advance, Raise,
       TypeOK, Machine, Machines, Modes, Disks
  <2>5. QED
    BY <2>3, <2>4
<1>22. CASE Signal
  <2>1. mode' \in Modes \ {"execute"} /\ raised' \in BOOLEAN
        /\ status' \in {"PASS", "FAIL"} /\ file' \in {"PASS", "FAIL"}
    BY <1>22 DEF Signal, TypeOK, Modes
  <2>2. budget' \in [reboots : 0..MaxReboots, signals : 0..MaxSignals]
    <3>1. budget.signals > 0 /\ budget' = [budget EXCEPT !.signals = @ - 1]
        BY <1>22 DEF Signal
    <3>2. QED
        BY <3>1, BoundsAssumption DEF TypeOK
  <2>3. TypeOK'
    BY <1>22, <2>1, <2>2 DEF Signal, TypeOK
  <2>4. Machine'
    BY <2>1 DEF Machine
  <2>5. QED
    BY <2>3, <2>4
<1>23. CASE UNCHANGED vars
    BY <1>23 DEF vars, TypeOK, Machine
<1>24. QED
    BY <1>1, <1>2, <1>3, <1>4, <1>5, <1>6, <1>7, <1>8, <1>9, <1>10, <1>11, <1>12,
       <1>13, <1>14, <1>15, <1>16, <1>17, <1>18, <1>19, <1>20, <1>21, <1>22, <1>23
       DEF Next, Runner, Execute

(***************************************************************************)
(* Boots, disks and results.                                               *)
(***************************************************************************)

(* The steps behind which nothing new is known. *)
Quiet == 1..26 \ {1, 6, 12, 17, 23, 24}
QuietStep == \/ step' = step
             \/ step \in Quiet /\ step' = step + 1

LEMMA CoreInitially == Init => Core
<1> SUFFICES ASSUME Init PROVE Core
    OBVIOUS
<1>1. vm = NoVM /\ step = 1 /\ \A d \in Disks : disks[d].state = NoState
    BY DEF Init
<1>2. Running /\ StateOfBoot /\ StateOfKeys /\ Past
    BY <1>1 DEF Running, StateOfBoot, StateOfKeys, Past
<1>3. StateOfPhase /\ Earned
    BY <1>1 DEF StateOfPhase, Earned
<1>4. QED
    BY <1>2, <1>3 DEF Core

LEMMA EarnedKeeps ==
    ASSUME Earned, QuietStep, step \in 1..26, UNCHANGED <<firmware, log>>
    PROVE  Earned'
<1>1. /\ step' > 1 <=> step > 1
      /\ step' > 6 <=> step > 6
      /\ step' > 12 <=> step > 12
      /\ step' > 17 <=> step > 17
      /\ step' > 23 <=> step > 23
      /\ step' > 24 <=> step > 24
    BY DEF QuietStep, Quiet
<1>2. QED
    BY <1>1 DEF Earned

(* A step that writes no disk, makes no boot and records nothing. *)
LEMMA QuietKeeps ==
    ASSUME Placed, Core, QuietStep, vm' \in {vm, NoVM},
           UNCHANGED <<firmware, disks, boots, log>>
    PROVE  Core'
<1> USE DEF Core
<1>1. step \in 1..26
    BY ScriptIs DEF Placed, TypeOK
<1>2. Running' /\ StateOfBoot'
    BY DEF Running, StateOfBoot
<1>3. StateOfKeys' /\ Past'
    BY DEF StateOfKeys, Past
<1>4. StateOfPhase'
    BY <1>1 DEF StateOfPhase, QuietStep, Quiet
<1>5. Earned'
    BY <1>1, EarnedKeeps
<1>6. QED
    BY <1>2, <1>3, <1>4, <1>5

(* A boot. *)
LEMMA BootKeeps ==
    ASSUME Placed, Core, QuietStep, NEW d \in Disks, Boot(d),
           vm' \in Machines, vm'.disk = d, vm'.boot = boots + 1,
           UNCHANGED <<firmware, log>>
    PROVE  Core'
<1> USE DEF Core
<1>1. step \in 1..26 /\ TypeOK /\ boots \in Nat
    BY ScriptIs DEF Placed, TypeOK
<1>2. /\ boots' = boots + 1
      /\ \A e \in Disks \ {d} : disks'[e] = disks[e]
      /\ disks'[d].state = IF firmware.persists THEN disks[d].state ELSE NoState
      /\ firmware.keys = "fixed" => disks'[d].keys = 1
      /\ firmware.keys = "each boot" => disks'[d].keys = boots + 1
    BY <1>1, BootStep
<1>3. Running' /\ StateOfBoot'
    BY <1>2 DEF Running, StateOfBoot
<1>4. \A e \in Disks : disks'[e].state # NoState => disks'[e].state = disks[e].state
    BY <1>2
<1>5. StateOfKeys'
    BY <1>4 DEF StateOfKeys
<1>6. Past'
    <2>1. ASSUME NEW e \in Disks, disks'[e].state # NoState
          PROVE  disks'[e].state.boot <= boots'
      <3>1. disks[e].state \in States /\ disks[e].state.boot <= boots
          BY <1>1, <1>4, <2>1 DEF Past, TypeOK, Copies
      <3>2. disks'[e].state.boot = disks[e].state.boot /\ disks[e].state.boot \in Nat
          BY <1>4, <2>1, <3>1 DEF States
      <3>3. disks[e].state.boot <= boots + 1
          BY <1>1, <3>1, <3>2
      <3>4. QED
          BY <1>2, <3>2, <3>3
    <2>2. QED
        BY <2>1 DEF Past
<1>7. StateOfPhase'
    BY <1>1, <1>4 DEF StateOfPhase, QuietStep, Quiet, Disks
<1>8. Earned'
    BY <1>1, EarnedKeeps
<1>9. QED
    BY <1>3, <1>5, <1>6, <1>7, <1>8

(* A new copy, made while no machine runs. *)
LEMMA CopyKeeps == Placed /\ Core /\ Copy => Core'
<1> SUFFICES ASSUME Placed, Core, Copy PROVE Core'
    OBVIOUS
<1> USE DEF Core
<1>1. step \in {2, 19} /\ Arg \in Disks /\ mode = "execute"
    BY ScriptIs, Positions DEF Copy, At, Arg, Disks, Placed, TypeOK
<1>2. vm' = NoVM /\ step' = step + 1
    BY <1>1 DEF Copy, Advance, Placed, Machine
<1>3. disks' = [disks EXCEPT ![Arg] = [keys |-> 0, state |-> NoState]]
      /\ UNCHANGED <<firmware, boots, log>>
    BY DEF Copy
<1>4. \A d \in Disks : disks'[d].state # NoState => disks'[d] = disks[d]
    BY <1>1, <1>3 DEF Placed, TypeOK
<1>5. Running' /\ StateOfBoot'
    BY <1>2 DEF Running, StateOfBoot
<1>6. StateOfKeys' /\ Past'
    BY <1>3, <1>4 DEF StateOfKeys, Past
<1>7. StateOfPhase'
    BY <1>1, <1>2, <1>3, <1>4 DEF StateOfPhase, Disks
<1>8. Earned'
    BY <1>1, <1>2, <1>3, EarnedKeeps DEF QuietStep, Quiet
<1>9. QED
    BY <1>5, <1>6, <1>7, <1>8

(* What a phase changes when it succeeds. *)
Succeeds(p, s) ==
    /\ step' = step + 1
    /\ log' = [log EXCEPT ![p] = [vm |-> vm.id, boot |-> vm.boot,
                                  disk |-> vm.disk, keys |-> disks[vm.disk].keys]]
    /\ disks' = [disks EXCEPT ![vm.disk].state = s]
    /\ UNCHANGED <<firmware, vm, boots>>

Fails == UNCHANGED <<step, firmware, vm, boots, log, disks>>

LEMMA FailsKeeps == Placed /\ Core /\ Fails => Core'
<1> SUFFICES ASSUME Placed, Core, Fails PROVE Core'
    OBVIOUS
<1>1. QuietStep
    BY DEF QuietStep, Fails
<1>2. QED
    BY <1>1, QuietKeeps DEF Fails

(* A state file that a phase may leave on the disk of vm. *)
Left(s) ==
    /\ s \in States \cup {NoState}
    /\ s # NoState => s = disks[vm.disk].state \/ s.boot = vm.boot
    /\ s # NoState /\ firmware.keys = "each boot" => s.keys = s.boot

(* A phase that runs on machine vm and leaves the state s. *)
LEMMA SucceedsKeeps ==
    ASSUME Placed, Core, NEW p \in Phases, vm \in Machines,
           NEW s, Left(s), Succeeds(p, s)
    PROVE  /\ Running' /\ StateOfBoot' /\ StateOfKeys' /\ Past'
           /\ \A q \in Phases \ {p} : log'[q] = log[q]
           /\ log'[p] = [vm |-> vm.id, boot |-> boots,
                         disk |-> vm.disk, keys |-> disks[vm.disk].keys]
           /\ disks'[vm.disk].state = s
           /\ \A d \in Disks \ {vm.disk} : disks'[d] = disks[d]
<1> USE DEF Core
<1>1. vm.disk \in Disks /\ vm.boot \in Nat /\ vm # NoVM /\ vm.boot = boots
    BY NothingAssumption DEF Machines, Running
<1>2. /\ disks'[vm.disk].state = s
      /\ disks'[vm.disk].keys = disks[vm.disk].keys
      /\ \A d \in Disks \ {vm.disk} : disks'[d] = disks[d]
    BY <1>1 DEF Placed, TypeOK, Copies, Succeeds
<1>3. Running'
    BY <1>1, <1>2 DEF Running, Succeeds
<1>4. StateOfBoot'
    BY <1>1, <1>2 DEF Succeeds, Left, StateOfBoot
<1>5. StateOfKeys'
    BY <1>1, <1>2 DEF Succeeds, Left, StateOfKeys
<1>6. Past'
  <2>1. boots \in Nat
    BY DEF Placed, TypeOK
  <2>2. s # NoState => s.boot <= boots
    <3>1. CASE s = disks[vm.disk].state
        BY <1>1, <3>1 DEF Past
    <3>2. CASE s.boot = vm.boot
        BY <1>1, <2>1, <3>2
    <3>3. QED
        BY <3>1, <3>2 DEF Left
  <2>3. QED
    BY <1>1, <1>2, <2>2 DEF Past, Succeeds
<1>7. log'[p] = [vm |-> vm.id, boot |-> boots, disk |-> vm.disk, keys |-> disks[vm.disk].keys]
      /\ \A q \in Phases \ {p} : log'[q] = log[q]
    BY <1>1 DEF Placed, TypeOK, Succeeds
<1>8. QED
    BY <1>2, <1>3, <1>4, <1>5, <1>6, <1>7

(* The phases. *)
LEMMA PhaseSteps ==
    ASSUME TypeOK, NEW p \in Phases, NEW ok \in BOOLEAN, NEW s, Phase(p, ok, s)
    PROVE  (vm.up /\ ok /\ Succeeds(p, s)) \/ Fails
BY DEF Phase, Require, Advance, Raise, Record, SaveState, Disk, Succeeds, Fails

LEMMA BaselineKeeps == Placed /\ Core /\ Baseline => Core'
<1> SUFFICES ASSUME Placed, Core, Baseline PROVE Core'
    OBVIOUS
<1> DEFINE s == [keys |-> Disk.keys, boot |-> vm.boot]
<1> USE DEF Core
<1>1. mode = "execute" /\ step = 6
    BY ScriptIs, Positions DEF Baseline, At, Placed, TypeOK
<1>2. vm \in Machines /\ vm.id = 1 /\ vm.disk = "primary"
    BY <1>1 DEF Placed, TypeOK, Machine
<1>3. s \in States /\ s.boot = vm.boot /\ s.keys = disks["primary"].keys
  <2>1. disks["primary"] \in Copies
    BY DEF Placed, TypeOK, Disks
  <2>2. QED
    BY <1>2, <2>1 DEF States, Copies, Machines, Disk
<1>4. vm # NoVM /\ vm.boot = boots
    BY <1>2, NothingAssumption DEF Running
<1>5. firmware.keys = "each boot" => disks["primary"].keys = vm.boot
    BY <1>2, <1>4 DEF Running
<1> HIDE DEF s
<1>6. Left(s)
    BY <1>3, <1>5 DEF Left
<1>7. Succeeds("baseline", s) \/ Fails
    BY PhaseSteps DEF Baseline, Placed, Phases, s
<1>8. CASE Succeeds("baseline", s)
  <2>1. /\ Running' /\ StateOfBoot' /\ StateOfKeys' /\ Past'
        /\ log'["baseline"] = [vm |-> 1, boot |-> boots, disk |-> "primary",
                               keys |-> disks["primary"].keys]
        /\ disks'["primary"].state = s
    BY <1>2, <1>8, <1>6, SucceedsKeeps DEF Phases
  <2>2. s.boot = boots /\ step' = 7 /\ firmware' = firmware
    BY <1>1, <1>3, <1>8, <1>4 DEF Succeeds
  <2>3. StateOfPhase'
    BY <2>1, <2>2 DEF StateOfPhase
  <2>4. firmware.keys = "fixed" => disks["primary"].keys = 1
    BY <1>2, NothingAssumption DEF Running
  <2>5. Earned'
    BY <1>1, <2>1, <2>2, <2>4 DEF Earned
  <2>6. QED
    BY <2>1, <2>3, <2>5
<1>9. QED
    BY <1>7, <1>8, FailsKeeps

LEMMA PackagesKeeps == Placed /\ Core /\ Packages => Core'
<1> SUFFICES ASSUME Placed, Core, Packages PROVE Core'
    OBVIOUS
<1> DEFINE s == Disk.state
<1> USE DEF Core
<1>1. mode = "execute" /\ step = 8
    BY ScriptIs, Positions DEF Packages, At, Placed, TypeOK
<1>2. vm \in Machines /\ vm.disk = "primary" /\ disks["primary"] \in Copies
    BY <1>1 DEF Placed, TypeOK, Machine, Disks
<1>3. Succeeds("packages", s) \/ Fails
    BY PhaseSteps DEF Packages, Placed, Phases
<1>4. CASE Succeeds("packages", s)
  <2>1. s \in States \cup {NoState} /\ s = disks[vm.disk].state
    BY <1>2 DEF Copies, Disk
  <2>2. Left(s)
    BY <1>2, <2>1 DEF StateOfKeys, Left, Disks
  <2>3. /\ Running' /\ StateOfBoot' /\ StateOfKeys' /\ Past'
        /\ \A q \in Phases \ {"packages"} : log'[q] = log[q]
        /\ disks'["primary"].state = disks["primary"].state
    BY <1>2, <1>4, <2>1, <2>2, SucceedsKeeps DEF Phases
  <2>4. /\ log'["baseline"] = log["baseline"] /\ log'["warm"] = log["warm"]
        /\ log'["cold"] = log["cold"] /\ log'["fresh"] = log["fresh"]
        /\ step' = 9 /\ firmware' = firmware
    BY <1>1, <1>4, <2>3 DEF Phases, Succeeds
  <2>5. StateOfPhase'
    BY <1>1, <2>3, <2>4 DEF StateOfPhase
  <2>6. Earned'
    BY <1>1, <2>4 DEF Earned
  <2>7. QED
    BY <2>3, <2>5, <2>6
<1>5. QED
    BY <1>3, <1>4, FailsKeeps

LEMMA RestartedKeeps == Placed /\ Core /\ Restarted => Core'
<1> SUFFICES ASSUME Placed, Core, Restarted PROVE Core'
    OBVIOUS
<1> DEFINE d == disks["primary"]
           s == [d.state EXCEPT !.boot = vm.boot]
<1> USE DEF Core
<1>1. /\ mode = "execute"
      /\ \/ step = 12 /\ Arg = "warm"
         \/ step = 17 /\ Arg = "cold"
    BY ScriptIs, Positions DEF Restarted, At, Arg, Placed, TypeOK
<1>2. /\ vm \in Machines /\ vm.disk = "primary"
      /\ Arg = "warm" => vm.id = 1
      /\ Arg = "cold" => vm.id = 2
    BY <1>1 DEF Placed, TypeOK, Machine
<1>3. d \in Copies /\ Disk = d /\ Arg \in Phases
    BY <1>1, <1>2 DEF Placed, TypeOK, Disks, Disk, Phases
<1>4. vm # NoVM /\ vm.boot = boots
    BY <1>2, NothingAssumption DEF Running
<1>5. \/ /\ d.state # NoState /\ d.keys = d.state.keys /\ vm.boot # d.state.boot
         /\ Succeeds(Arg, s)
      \/ Fails
    BY <1>2, <1>3, PhaseSteps DEF Restarted, Placed
<1>6. CASE /\ d.state # NoState /\ d.keys = d.state.keys /\ vm.boot # d.state.boot
           /\ Succeeds(Arg, s)
  <2>1. /\ d.state \in States /\ s \in States /\ s.boot = vm.boot /\ s.keys = d.keys
        /\ vm.boot \in Nat /\ d.state.boot \in Nat
    BY <1>2, <1>6, <1>3 DEF Copies, States, Machines
  <2>2. firmware.persists /\ firmware.keys # "each boot"
    BY <1>2, <1>6, <1>4 DEF StateOfBoot, StateOfKeys, Running, Disks
  <2>3. d.state.boot < vm.boot
    BY <1>6, <1>4, <2>1 DEF Past, Disks
  <2>4. Left(s)
    BY <2>1, <2>2 DEF Left
  <2>5. /\ Running' /\ StateOfBoot' /\ StateOfKeys' /\ Past'
        /\ \A q \in Phases \ {Arg} : log'[q] = log[q]
        /\ log'[Arg] = [vm |-> vm.id, boot |-> boots, disk |-> "primary", keys |-> d.keys]
        /\ disks'["primary"].state = s
    BY <1>2, <1>6, <1>3, <2>4, SucceedsKeeps
  <2>6. step' = step + 1 /\ firmware' = firmware
    BY <1>6 DEF Succeeds
  <2>7. CASE Arg = "warm"
    <3>1. /\ log'["warm"].vm = 1 /\ log'["warm"].boot = boots /\ step = 12
          /\ log'["baseline"] = log["baseline"]
        BY <1>1, <1>2, <2>5, <2>7 DEF Phases
    <3>2. log["baseline"].boot < boots
        BY <1>6, <1>4, <2>3, <3>1 DEF StateOfPhase
    <3>3. StateOfPhase'
        BY <1>4, <2>1, <2>5, <2>6, <3>1 DEF StateOfPhase
    <3>4. log'["baseline"].boot < log'["warm"].boot
        BY <3>1, <3>2
    <3>5. log["baseline"].vm = 1 /\ (firmware.keys = "fixed" => log["baseline"].keys = 1)
          /\ firmware.keys # "shipped"
        BY <3>1 DEF Earned
    <3>6. step' = 13 /\ log'["warm"].vm = 1 /\ log'["baseline"] = log["baseline"]
        BY <2>6, <3>1
    <3>7. ~(step' > 17) /\ ~(step' > 23) /\ ~(step' > 24)
        BY <3>6
    <3>8. Earned'
        BY <2>2, <2>6, <3>4, <3>5, <3>6, <3>7, Zenon DEF Earned
    <3>9. QED
        BY <2>5, <3>3, <3>8
  <2>8. CASE Arg = "cold"
    <3>1. /\ log'["cold"].vm = 2 /\ log'["cold"].boot = boots /\ step = 17
          /\ log'["cold"].disk = "primary"
          /\ log'["baseline"] = log["baseline"] /\ log'["warm"] = log["warm"]
        BY <1>1, <1>2, <2>5, <2>8 DEF Phases
    <3>2. log["warm"].boot < boots
        BY <1>6, <1>4, <2>3, <3>1 DEF StateOfPhase
    <3>3. StateOfPhase'
        BY <2>6, <3>1 DEF StateOfPhase
    <3>4. log'["warm"].boot < log'["cold"].boot
        BY <3>1, <3>2
    <3>5. /\ step' = 18 /\ log'["cold"].vm = 2 /\ log'["cold"].disk = "primary"
          /\ log'["baseline"] = log["baseline"] /\ log'["warm"] = log["warm"]
        BY <2>6, <3>1
    <3>6. ~(step' > 23) /\ ~(step' > 24) /\ step > 1 /\ step > 6 /\ step > 12
        BY <3>1, <3>5
    <3>7. Earned'
        BY <2>6, <3>4, <3>5, <3>6, Zenon DEF Earned
    <3>8. QED
        BY <2>5, <3>3, <3>7
  <2>9. QED
    BY <1>1, <2>7, <2>8
<1>7. QED
    BY <1>5, <1>6, FailsKeeps

LEMMA FreshKeeps == Placed /\ Core /\ Fresh => Core'
<1> SUFFICES ASSUME Placed, Core, Fresh PROVE Core'
    OBVIOUS
<1> DEFINE s == Disk.state
<1> USE DEF Core
<1>1. mode = "execute" /\ step = 23
    BY ScriptIs, Positions DEF Fresh, At, Placed, TypeOK
<1>2. vm \in Machines /\ vm # NoVM /\ vm.disk = "fresh" /\ disks["fresh"] \in Copies
    BY <1>1, NothingAssumption DEF Placed, TypeOK, Machine, Disks
<1>3. Succeeds("fresh", s) \/ Fails
    BY PhaseSteps DEF Fresh, Placed, Phases
<1>4. CASE Succeeds("fresh", s)
  <2>1. s \in States \cup {NoState} /\ s = disks[vm.disk].state
    BY <1>2 DEF Copies, Disk
  <2>2. Left(s)
    BY <1>2, <2>1 DEF StateOfKeys, Left, Disks
  <2>3. /\ Running' /\ StateOfBoot' /\ StateOfKeys' /\ Past'
        /\ \A q \in Phases \ {"fresh"} : log'[q] = log[q]
        /\ log'["fresh"] = [vm |-> vm.id, boot |-> boots, disk |-> "fresh",
                            keys |-> disks["fresh"].keys]
    BY <1>2, <1>4, <2>1, <2>2, SucceedsKeeps DEF Phases
  <2>4. /\ log'["baseline"] = log["baseline"] /\ log'["warm"] = log["warm"]
        /\ log'["cold"] = log["cold"] /\ step' = 24 /\ firmware' = firmware
    BY <1>1, <1>4, <2>3 DEF Phases, Succeeds
  <2>5. StateOfPhase'
    BY <2>4 DEF StateOfPhase
  <2>6. firmware.keys = "fixed" => disks["fresh"].keys = 1
    BY <1>2 DEF Running
  <2>7. log'["fresh"].keys = disks["fresh"].keys /\ log'["fresh"].disk = "fresh"
    BY <2>3
  <2>8. ~(step' > 24) /\ step > 1 /\ step > 6 /\ step > 12 /\ step > 17
    BY <1>1, <2>4
  <2>9. Earned'
    BY <2>4, <2>6, <2>7, <2>8, Zenon DEF Earned
  <2>10. QED
    BY <2>3, <2>5, <2>9
<1>5. QED
    BY <1>3, <1>4, FailsKeeps

(* The two steps behind which the firmware is known to be better. *)
LEMMA PreflightKeeps == Placed /\ Core /\ Preflight => Core'
<1> SUFFICES ASSUME Placed, Core, Preflight PROVE Core'
    OBVIOUS
<1> USE DEF Core
<1>1. step = 1 /\ UNCHANGED <<firmware, disks, boots, vm, log>>
    BY ScriptIs, Positions DEF Preflight, At, Placed, TypeOK, guest
<1>2. \/ firmware.keys # "shipped" /\ step' = step + 1
      \/ step' = step
    BY DEF Preflight, Require, Advance, Raise
<1>3. Running' /\ StateOfBoot' /\ StateOfKeys' /\ Past'
    BY <1>1 DEF Running, StateOfBoot, StateOfKeys, Past
<1>4. step' \in {1, 2} /\ (step' > 1 => firmware.keys # "shipped")
    BY <1>1, <1>2
<1>5. /\ ~(step' > 6) /\ ~(step' > 12) /\ ~(step' > 17) /\ ~(step' > 23) /\ ~(step' > 24)
      /\ step' \notin 7..12 /\ step' \notin 13..17
    BY <1>4
<1>6. StateOfPhase' /\ Earned'
    BY <1>1, <1>4, <1>5, Zenon DEF StateOfPhase, Earned
<1>7. QED
    BY <1>3, <1>6

LEMMA CompareKeeps == Placed /\ Core /\ Compare => Core'
<1> SUFFICES ASSUME Placed, Core, Compare PROVE Core'
    OBVIOUS
<1> USE DEF Core
<1>1. step = 24 /\ UNCHANGED <<firmware, disks, boots, vm, log>>
    BY ScriptIs, Positions DEF Compare, At, Placed, TypeOK, guest
<1>2. \/ log["baseline"].keys # log["fresh"].keys /\ step' = step + 1
      \/ step' = step
    BY DEF Compare, Require, Advance, Raise
<1>3. Running' /\ StateOfBoot' /\ StateOfKeys' /\ Past'
    BY <1>1 DEF Running, StateOfBoot, StateOfKeys, Past
<1>4. StateOfPhase'
    BY <1>1, <1>2 DEF StateOfPhase
<1>5. step > 1 /\ step > 6 /\ step > 12 /\ step > 17 /\ step > 23
    BY <1>1
<1>6. log["baseline"].keys # log["fresh"].keys => firmware.keys # "fixed"
    BY <1>5, Zenon DEF Earned
<1>7. step' > 24 => firmware.keys # "fixed"
    BY <1>1, <1>2, <1>6
<1>8. Earned'
    BY <1>1, <1>5, <1>7, Zenon DEF Earned
<1>9. QED
    BY <1>3, <1>4, <1>8

LEMMA CoreStep == Placed /\ Placed' /\ Core /\ [Next]_vars => Core'
<1> SUFFICES ASSUME Placed, Placed', Core, [Next]_vars PROVE Core'
    OBVIOUS
<1> USE DEF guest, main
<1>0. step \in 1..26
    BY ScriptIs DEF Placed, TypeOK
<1>1. CASE Preflight \/ Copy \/ Baseline \/ Packages \/ Restarted \/ Fresh \/ Compare
    BY <1>1, PreflightKeeps, CopyKeeps, BaselineKeeps, PackagesKeeps, RestartedKeeps,
       FreshKeeps, CompareKeeps
<1>2. CASE Start
  <2>1. step \in {3, 14, 20} /\ Arg \in Disks
    BY <1>0, <1>2, Positions DEF Start, At, Arg, Disks
  <2>2. QuietStep
    BY <1>2, <2>1 DEF Start, Advance, QuietStep, Quiet
  <2>3. vm' \in Machines /\ vm'.disk = Arg /\ vm'.boot = boots + 1
    BY <1>2, <2>1 DEF Start, Machines, Placed, TypeOK
  <2>4. QED
    BY <1>2, <2>1, <2>2, <2>3, BootKeeps DEF Start
<1>3. CASE GuestReboots \/ (GuestCrashes /\ boots' # boots)
  <2>1. vm \in Machines /\ boots \in Nat
    BY <1>3 DEF GuestReboots, GuestCrashes, Placed, TypeOK
  <2>2. Boot(vm.disk) /\ vm' = [vm EXCEPT !.boot = boots + 1]
    BY <1>3 DEF GuestReboots, GuestCrashes
  <2>3. vm.disk \in Disks /\ vm' \in Machines /\ vm'.disk = vm.disk /\ vm'.boot = boots + 1
    BY <2>1, <2>2 DEF Machines
  <2>4. QuietStep /\ UNCHANGED <<firmware, log>>
    BY <1>3 DEF GuestReboots, GuestCrashes, QuietStep
  <2>5. QED
    BY <2>2, <2>3, <2>4, BootKeeps
<1>4. CASE GuestCrashes /\ boots' = boots
  <2>1. /\ vm # NoVM /\ vm \in Machines /\ boots \in Nat
        /\ UNCHANGED <<firmware, step, log>>
    BY <1>4 DEF GuestCrashes, Placed, TypeOK
  <2>2. vm' = [vm EXCEPT !.up = FALSE] /\ disks' = disks
    BY <1>4, <2>1 DEF GuestCrashes, Boot
  <2>3. vm'.disk = vm.disk /\ vm'.boot = vm.boot
    BY <2>1, <2>2 DEF Machines
  <2>4. Running' /\ StateOfBoot'
    BY <1>4, <2>1, <2>2, <2>3 DEF Core, Running, StateOfBoot
  <2>5. StateOfKeys' /\ Past' /\ StateOfPhase' /\ Earned'
    BY <1>4, <2>1, <2>2 DEF Core, StateOfKeys, Past, StateOfPhase, Earned
  <2>6. QED
    BY <2>4, <2>5 DEF Core
<1>5. CASE Wait \/ Command \/ Reboot \/ Stop
  <2>1. step \in Quiet
    BY <1>0, <1>5, Positions DEF Wait, Command, Reboot, Stop, At, Quiet
  <2>2. QuietStep
    BY <1>5, <2>1 DEF Wait, Command, Reboot, Stop, Require, Advance, Raise, QuietStep
  <2>3. vm' \in {vm, NoVM} /\ UNCHANGED <<firmware, disks, boots, log>>
    BY <1>5 DEF Wait, Command, Reboot, Stop
  <2>4. QED
    BY <2>2, <2>3, QuietKeeps
<1>6. CASE Validate \/ Except \/ CleanupStops \/ CleanupRemoves \/ Save
           \/ Fault \/ CleanupFails \/ Signal
  <2>1. step' = step
    BY <1>6 DEF Validate, Except, CleanupStops, CleanupRemoves, Save, Fault, CleanupFails,
                Signal, Raise
  <2>2. vm' \in {vm, NoVM} /\ UNCHANGED <<firmware, disks, boots, log>>
    BY <1>6 DEF Validate, Except, CleanupStops, CleanupRemoves, Save, Fault,
       CleanupFails, Signal
  <2>3. QED
    BY <2>1, <2>2, QuietKeeps DEF QuietStep
<1>7. CASE UNCHANGED vars
    BY <1>7, QuietKeeps DEF vars, QuietStep
<1>8. QED
    BY <1>1, <1>2, <1>3, <1>4, <1>5, <1>6, <1>7 DEF Next, Runner, Execute

(***************************************************************************)
(* The verdict.                                                            *)
(***************************************************************************)
LEMMA CleanedStep == Placed /\ Cleaned /\ [Next]_vars => Cleaned'
<1> SUFFICES ASSUME Placed, Cleaned, [Next]_vars PROVE Cleaned'
    OBVIOUS
<1> USE DEF guest, main
<1>1. CASE Preflight \/ Copy \/ Start \/ Wait \/ Command \/ Reboot \/ Compare \/ Stop
  <2>1. mode = "execute" /\ UNCHANGED <<status, file>>
    BY <1>1 DEF Preflight, Copy, Start, Wait, Command, Reboot, Compare, Stop, At
  <2>2. QED
    BY <2>1 DEF Cleaned
<1>2. CASE Baseline \/ Packages \/ Restarted \/ Fresh
  <2>1. mode = "execute" /\ UNCHANGED <<status, file>>
    BY <1>2 DEF Baseline, Packages, Restarted, Fresh, At, Phase
  <2>2. QED
    BY <2>1 DEF Cleaned
<1>3. CASE Validate
  <2>1. mode = "execute" /\ step = 26
    BY <1>3, ScriptIs, Positions DEF Validate, At, Placed, TypeOK
  <2>2. QED
    BY <1>3, <2>1 DEF Validate, Cleaned
<1>4. CASE Fault
    BY <1>4 DEF Fault, Raise, Cleaned
<1>5. CASE Except
    BY <1>5 DEF Except, Cleaned
<1>6. CASE CleanupStops
    BY <1>6 DEF CleanupStops, Cleaned
<1>7. CASE CleanupRemoves
    BY <1>7 DEF CleanupRemoves, Cleaned
<1>8. CASE CleanupFails
    BY <1>8 DEF CleanupFails, Cleaned
<1>9. CASE Save
    BY <1>9 DEF Save, Cleaned
<1>10. CASE Signal
    BY <1>10 DEF Signal, Cleaned
<1>11. CASE GuestReboots \/ GuestCrashes
    BY <1>11 DEF GuestReboots, GuestCrashes, Cleaned
<1>12. CASE UNCHANGED vars
    BY <1>12 DEF vars, Cleaned
<1>13. QED
    BY <1>1, <1>2, <1>3, <1>4, <1>5, <1>6, <1>7, <1>8, <1>9, <1>10, <1>11, <1>12
    DEF Next, Runner, Execute

(***************************************************************************)
(* A good firmware, when nothing else fails.                               *)
(***************************************************************************)

(* The boot that answers is the one execute waits for, or its request has  *)
(* still to be followed.                                                   *)
Unhindered ==
    /\ vm # NoVM => vm.up /\ vm.boot # 0
    /\ pending => step = 10
    /\ step \in 5..9 => vm.boot = initial
    /\ step = 10 => (pending <=> vm.boot = initial)
    /\ step \in {11, 12} => vm.boot # initial
    /\ step \in 15..17 => vm.boot # log["warm"].boot

(* What the first disk has for each phase: no state, then its own keys.    *)
OldDisk ==
    LET old == disks["primary"] IN
    /\ step \in 3..6 => old.state = NoState
    /\ step = 3 => old.keys = 0
    /\ step \in 4..18 => old.keys # 0
    /\ step \in 4..6 => old.keys <= boots
    /\ step \in 7..18 => old.state # NoState /\ old.state.keys = old.keys
    /\ step \in 7..12 => old.state.boot = initial

(* And the other one: its keys are of a boot after those of the first.     *)
NewDisk ==
    LET new == disks["fresh"] IN
    /\ step \in 20..23 => new.state = NoState
    /\ step = 20 => new.keys = 0
    /\ step \in 7..20 => log["baseline"].keys <= boots
    /\ step \in 21..23 => log["baseline"].keys < new.keys
    /\ step = 24 => log["baseline"].keys # log["fresh"].keys
    /\ step > 8 => log["packages"].vm = 1

Failures == {"except", "exit 1"}

Untroubled ==
    /\ mode \notin Failures /\ raised = FALSE
    /\ mode = "execute" => Unhindered /\ OldDisk /\ NewDisk
    /\ mode # "execute" => status = "PASS"

Smooth == Good(firmware) /\ ~faulted => Untroubled

(* What is known before a step of such a run. *)
KeepsKeys == firmware.keys = "first boot"
Known ==
    /\ Placed /\ Core /\ Cleaned /\ Untroubled
    /\ KeepsKeys /\ firmware.persists = TRUE /\ step \in 1..26

LEMMA OtherModes ==
    /\ "execute" \notin Failures /\ "cleanup" \notin Failures /\ "remove" \notin Failures
    /\ "save" \notin Failures
BY Zenon DEF Failures

LEMMA KnownTypes ==
    ASSUME Known
    PROVE  /\ vm \in Machines \cup {NoVM} /\ boots \in Nat /\ initial \in Nat
           /\ disks \in [Disks -> Copies] /\ log \in [Phases -> Reports]
           /\ disks["primary"].keys \in Nat /\ disks["fresh"].keys \in Nat
           /\ \A p \in Phases : log[p].keys \in Nat /\ log[p].boot \in Nat
<1>1. /\ vm \in Machines \cup {NoVM} /\ boots \in Nat /\ initial \in Nat
      /\ disks \in [Disks -> Copies] /\ log \in [Phases -> Reports]
    BY DEF Known, Placed, TypeOK
<1>2. disks["primary"] \in Copies /\ disks["fresh"] \in Copies
    BY <1>1 DEF Disks
<1>3. \A p \in Phases : log[p] \in Reports
    BY <1>1
<1> QED
    BY <1>1, <1>2, <1>3 DEF Copies, Reports

(* A boot of a good firmware makes keys where there are none, and keeps    *)
(* everything.                                                             *)
LEMMA GoodBoot ==
    ASSUME Known, NEW d \in Disks, Boot(d)
    PROVE  /\ boots' = boots + 1
           /\ disks'[d].state = disks[d].state
           /\ disks'[d].keys = IF disks[d].keys # 0 THEN disks[d].keys ELSE boots + 1
           /\ \A e \in Disks \ {d} : disks'[e] = disks[e]
<1>1. disks \in [Disks -> Copies] /\ boots' = boots + 1
    BY KnownTypes DEF Boot
<1>2. KeysOfBoot(disks[d].keys) = IF disks[d].keys # 0 THEN disks[d].keys ELSE boots + 1
    BY Zenon DEF KeysOfBoot, Known, KeepsKeys
<1> QED
    BY <1>1, <1>2 DEF Boot, Known

LEMMA SmoothPreflight ==
    ASSUME Known, Preflight PROVE Untroubled'
<1>1. step = 1 /\ mode = "execute" /\ UNCHANGED <<disks, boots, pending, vm, initial, log, raised>>
    BY Positions DEF Preflight, At, Known, guest
<1>2. firmware.keys # "shipped"
    BY Zenon DEF Known, KeepsKeys
<1>3. step' = 2 /\ mode' = "execute"
    BY <1>1, <1>2 DEF Preflight, Require, Advance
<1> QED
    BY <1>1, <1>3, OtherModes DEF Known, Untroubled, Unhindered, OldDisk, NewDisk

LEMMA SmoothCopy ==
    ASSUME Known, Copy PROVE Untroubled'
<1>1. /\ mode = "execute" /\ mode' = "execute" /\ step' = step + 1
      /\ \/ step = 2 /\ Arg = "primary"
         \/ step = 19 /\ Arg = "fresh"
      /\ disks' = [disks EXCEPT ![Arg] = [keys |-> 0, state |-> NoState]]
      /\ UNCHANGED <<vm, boots, pending, initial, log, raised>>
    BY Positions DEF Copy, At, Arg, Advance, main, Known
<1>2. vm = NoVM
    BY <1>1 DEF Known, Placed, Machine
<1>3. CASE step = 2
  <2>1. disks'["primary"] = [keys |-> 0, state |-> NoState]
    BY <1>1, <1>3, KnownTypes DEF Disks
  <2> QED
    BY <1>1, <1>2, <1>3, <2>1, OtherModes DEF Known, Untroubled, Unhindered, OldDisk, NewDisk
<1>4. CASE step = 19
  <2>1. disks'["fresh"] = [keys |-> 0, state |-> NoState]
    BY <1>1, <1>4, KnownTypes DEF Disks
  <2> QED
    BY <1>1, <1>2, <1>4, <2>1, OtherModes DEF Known, Untroubled, Unhindered, OldDisk, NewDisk
<1> QED
    BY <1>1, <1>3, <1>4

LEMMA SmoothStart ==
    ASSUME Known, Start PROVE Untroubled'
<1>1. /\ mode = "execute" /\ mode' = "execute" /\ step' = step + 1
      /\ \/ step \in {3, 14} /\ Arg = "primary"
         \/ step = 20 /\ Arg = "fresh"
      /\ Boot(Arg) /\ pending' = FALSE
      /\ UNCHANGED <<initial, log, raised>>
    BY Positions DEF Start, At, Arg, Advance, main, Known
<1>2. vm'.up = TRUE /\ vm'.boot = boots + 1
    BY DEF Start
<1>3. /\ boots' = boots + 1 /\ boots \in Nat
      /\ disks'[Arg].state = disks[Arg].state
      /\ disks'[Arg].keys = IF disks[Arg].keys # 0 THEN disks[Arg].keys ELSE boots + 1
      /\ \A e \in Disks \ {Arg} : disks'[e] = disks[e]
    BY <1>1, GoodBoot, KnownTypes DEF Disks
<1>4. vm'.boot # 0
    BY <1>2, <1>3
<1>5. raised = FALSE
    BY DEF Known, Untroubled
<1>6. CASE step = 3
  <2>1. disks'["primary"].state = NoState /\ disks'["primary"].keys = boots + 1
    BY <1>1, <1>3, <1>6 DEF Known, Untroubled, OldDisk
  <2>2. Unhindered'
    BY <1>1, <1>2, <1>4, <1>6, <2>1 DEF Unhindered
  <2>3. OldDisk'
    BY <1>1, <1>3, <1>6, <2>1 DEF OldDisk
  <2>4. NewDisk'
    BY <1>1, <1>3, <1>6, <2>1 DEF NewDisk
  <2> QED
    BY <1>1, <1>5, <2>2, <2>3, <2>4, OtherModes DEF Untroubled
<1>7. CASE step = 14
  <2>1. disks["primary"].keys # 0 /\ disks["primary"].state # NoState
        /\ disks["primary"].state.keys = disks["primary"].keys
        /\ log["baseline"].keys <= boots /\ log["packages"].vm = 1
    BY <1>1, <1>7 DEF Known, Untroubled, OldDisk, NewDisk
  <2>2. /\ disks'["primary"].keys = disks["primary"].keys
        /\ disks'["primary"].state = disks["primary"].state
    BY <1>1, <1>3, <1>7, <2>1
  <2>3. vm'.boot # log["warm"].boot
    <3>1. log["warm"].boot <= boots
      BY <1>7, <2>1 DEF Known, Core, StateOfPhase, Past, Disks
    <3>2. log["warm"].boot \in Nat
      BY KnownTypes DEF Phases
    <3> QED
      BY <1>2, <1>3, <3>1, <3>2
  <2>4. log["baseline"].keys <= boots'
    <3>1. log["baseline"].keys \in Nat
      BY KnownTypes DEF Phases
    <3> QED
      BY <1>3, <2>1, <3>1
  <2>5. Unhindered'
    BY <1>1, <1>2, <1>4, <1>7, <2>1, <2>2, <2>3, <2>4 DEF Unhindered
  <2>6. OldDisk'
    BY <1>1, <1>3, <1>7, <2>1, <2>2, <2>3, <2>4 DEF OldDisk
  <2>7. NewDisk'
    BY <1>1, <1>3, <1>7, <2>1, <2>2, <2>3, <2>4 DEF NewDisk
  <2> QED
    BY <1>1, <1>5, <2>5, <2>6, <2>7, OtherModes DEF Untroubled
<1>8. CASE step = 20
  <2>1. /\ disks["fresh"].keys = 0 /\ disks["fresh"].state = NoState
        /\ log["baseline"].keys <= boots /\ log["packages"].vm = 1
    BY <1>1, <1>8 DEF Known, Untroubled, NewDisk
  <2>2. disks'["fresh"].keys = boots + 1 /\ disks'["fresh"].state = NoState
    BY <1>1, <1>3, <1>8, <2>1
  <2>3. log["baseline"].keys < boots + 1
    <3>1. log["baseline"].keys \in Nat
      BY KnownTypes DEF Phases
    <3> QED
      BY <1>3, <2>1, <3>1
  <2>4. Unhindered'
    BY <1>1, <1>2, <1>4, <1>8, <2>1, <2>2, <2>3 DEF Unhindered
  <2>5. OldDisk'
    BY <1>1, <1>3, <1>8, <2>1, <2>2, <2>3 DEF OldDisk
  <2>6. NewDisk'
    BY <1>1, <1>3, <1>8, <2>1, <2>2, <2>3 DEF NewDisk
  <2> QED
    BY <1>1, <1>5, <2>4, <2>5, <2>6, OtherModes DEF Untroubled
<1> QED
    BY <1>1, <1>6, <1>7, <1>8

(* A step that asks for a running machine and changes nothing of it. *)
LEMMA SmoothCommands ==
    ASSUME Known, Wait \/ Command PROVE Untroubled'
<1>1. /\ mode = "execute" /\ step \in {4, 5, 7, 10, 11, 15, 16, 21, 22}
      /\ Require(vm.up) /\ UNCHANGED <<disks, boots, pending, vm, log, raised>>
    BY Positions DEF Wait, Command, At, Known, guest, main
<1>2. vm # NoVM
    BY <1>1 DEF Known, Placed, Machine
<1>3. vm.up /\ Unhindered /\ OldDisk /\ NewDisk /\ raised = FALSE
    BY <1>1, <1>2, OtherModes DEF Known, Untroubled, Unhindered
<1>4. mode' = "execute" /\ step' = step + 1
    BY <1>1, <1>3 DEF Require, Advance
<1>5. step = 4 => initial' = vm.boot
    <2>1. Script[4].arg = "first"
      BY ScriptIs
    <2> QED
      BY <1>3, <2>1, ScriptIs DEF Wait, Command, At, Arg
<1>6. step # 4 => initial' = initial
    <2>1. step \in {5, 7, 11, 16, 22} \/ step \in {10, 15, 21}
          \/ step = 4
      BY <1>1
    <2>2. Script[10].arg # "first" /\ Script[15].arg # "first" /\ Script[21].arg # "first"
      BY ScriptIs
    <2>3. Wait => step \in {4, 10, 15, 21}
      BY Positions DEF Wait, At, Known
    <2> QED
      BY <2>2, <2>3 DEF Wait, Command, Arg
<1>7. step = 10 => vm.boot # initial
    <2> SUFFICES ASSUME step = 10 PROVE vm.boot # initial
      OBVIOUS
    <2>2. Script[10].do = "wait" /\ Script[10].arg = "warm"
      BY ScriptIs
    <2>3. Wait /\ Previous = initial
      BY <2>2 DEF Command, At, Previous, Arg
    <2> QED
      BY <1>3, <2>3 DEF Wait
<1>8. Unhindered'
    BY <1>1, <1>3, <1>4, <1>5, <1>6, <1>7 DEF Unhindered
<1>9. OldDisk' /\ NewDisk'
    BY <1>1, <1>3, <1>4, <1>6 DEF OldDisk, NewDisk
<1> QED
    BY <1>1, <1>3, <1>4, <1>8, <1>9, OtherModes DEF Untroubled

(* A phase that runs is recorded. *)
LEMMA SmoothPhase ==
    ASSUME Known, mode = "execute", vm # NoVM, NEW p \in Phases, NEW s, Phase(p, TRUE, s)
    PROVE  /\ mode' = "execute" /\ step' = step + 1 /\ vm.disk \in Disks
           /\ UNCHANGED <<firmware, vm, boots, started, pending, initial, faulted, raised>>
           /\ log'[p].keys = disks[vm.disk].keys /\ log'[p].boot = vm.boot
           /\ log'[p].vm = vm.id
           /\ \A q \in Phases \ {p} : log'[q] = log[q]
           /\ disks'[vm.disk].state = s /\ disks'[vm.disk].keys = disks[vm.disk].keys
           /\ \A d \in Disks \ {vm.disk} : disks'[d] = disks[d]
<1>1. vm.up /\ vm.disk \in Disks
    BY KnownTypes, OtherModes DEF Known, Untroubled, Unhindered, Machines
<1>2. /\ log' = [log EXCEPT ![p] = [vm |-> vm.id, boot |-> vm.boot,
                                    disk |-> vm.disk, keys |-> disks[vm.disk].keys]]
      /\ disks' = [disks EXCEPT ![vm.disk].state = s]
      /\ mode' = "execute" /\ step' = step + 1
      /\ UNCHANGED <<firmware, vm, boots, started, pending, initial, faulted, raised>>
    BY <1>1 DEF Phase, Require, Advance, Record, SaveState, Disk, main
<1>3. disks \in [Disks -> Copies] /\ log \in [Phases -> Reports]
    BY KnownTypes
<1>4. /\ log'[p] = [vm |-> vm.id, boot |-> vm.boot, disk |-> vm.disk,
                    keys |-> disks[vm.disk].keys]
      /\ \A q \in Phases \ {p} : log'[q] = log[q]
    BY <1>2, <1>3
<1>5. disks[vm.disk] \in Copies
    BY <1>1, <1>3
<1>6. /\ disks'[vm.disk].state = s /\ disks'[vm.disk].keys = disks[vm.disk].keys
      /\ \A d \in Disks \ {vm.disk} : disks'[d] = disks[d]
    BY <1>1, <1>2, <1>3, <1>5 DEF Copies
<1> QED
    BY <1>1, <1>2, <1>4, <1>6

LEMMA SmoothBaseline ==
    ASSUME Known, Baseline PROVE Untroubled'
<1>1. mode = "execute" /\ step = 6
    BY Positions DEF Baseline, At, Known
<1>2. vm # NoVM /\ vm.disk = "primary" /\ Disk = disks["primary"]
    BY <1>1 DEF Known, Placed, Machine, Disk
<1>3. Unhindered /\ OldDisk /\ NewDisk /\ raised = FALSE
    BY <1>1 DEF Known, Untroubled
<1>4. Disk.state = NoState /\ vm.boot = initial
    BY <1>1, <1>2, <1>3 DEF Unhindered, OldDisk
<1> DEFINE s == [keys |-> Disk.keys, boot |-> vm.boot]
<1>5. Phase("baseline", TRUE, s)
    BY <1>4 DEF Baseline
<1>6. s # NoState /\ s.keys = disks["primary"].keys /\ s.boot = initial
  <2>1. s \in States
    <3>1. vm \in Machines /\ disks["primary"].keys \in Nat
      BY <1>2, KnownTypes
    <3> QED
      BY <1>2, <3>1 DEF States, Machines
  <2> QED
    BY <1>2, <1>4, <2>1, NothingAssumption
<1> HIDE DEF s
<1>7. /\ mode' = "execute" /\ step' = 7
      /\ UNCHANGED <<vm, boots, pending, initial, raised>>
      /\ log'["baseline"].keys = disks["primary"].keys
      /\ disks'["primary"].state = s /\ disks'["primary"].keys = disks["primary"].keys
  <2> DEFINE p == "baseline"
  <2>1. p \in Phases
    BY DEF Phases
  <2>2. Phase(p, TRUE, s)
    BY <1>5
  <2> HIDE DEF p
  <2>3. mode = "execute" /\ vm # NoVM
    BY <1>1, <1>2
  <2>4. /\ mode' = "execute" /\ step' = step + 1
        /\ UNCHANGED <<vm, boots, pending, initial, raised>>
        /\ log'[p].keys = disks[vm.disk].keys /\ log'[p].vm = vm.id
        /\ \A q \in Phases \ {p} : log'[q] = log[q]
        /\ disks'[vm.disk].state = s /\ disks'[vm.disk].keys = disks[vm.disk].keys
    BY <2>1, <2>2, <2>3, SmoothPhase
  <2> QED
    BY <1>1, <1>2, <2>4 DEF p, Phases
<1>8. Unhindered'
    BY <1>1, <1>3, <1>4, <1>7 DEF Unhindered
<1>9. OldDisk' /\ NewDisk'
    BY <1>1, <1>3, <1>6, <1>7 DEF OldDisk, NewDisk
<1> QED
    BY <1>3, <1>7, <1>8, <1>9, OtherModes DEF Untroubled

LEMMA SmoothPackages ==
    ASSUME Known, Packages PROVE Untroubled'
<1>1. mode = "execute" /\ step = 8
    BY Positions DEF Packages, At, Known
<1>2. vm # NoVM /\ vm.disk = "primary" /\ vm.id = 1 /\ Disk = disks["primary"]
    BY <1>1 DEF Known, Placed, Machine, Disk
<1>3. Unhindered /\ OldDisk /\ NewDisk /\ raised = FALSE
    BY <1>1 DEF Known, Untroubled
<1>4. Phase("packages", TRUE, Disk.state)
  <2>1. Disk.state # NoState
    BY <1>1, <1>2, <1>3 DEF OldDisk
  <2> QED
    BY <2>1 DEF Packages
<1>5. /\ mode' = "execute" /\ step' = 9
      /\ UNCHANGED <<vm, boots, pending, initial, raised>>
      /\ log'["packages"].vm = 1 /\ log'["baseline"] = log["baseline"]
      /\ disks'["primary"].state = disks["primary"].state
      /\ disks'["primary"].keys = disks["primary"].keys
  <2> DEFINE p == "packages"
  <2>1. p \in Phases
    BY DEF Phases
  <2>2. Phase(p, TRUE, Disk.state)
    BY <1>4
  <2> HIDE DEF p
  <2>3. mode = "execute" /\ vm # NoVM
    BY <1>1, <1>2
  <2>4. /\ mode' = "execute" /\ step' = step + 1
        /\ UNCHANGED <<vm, boots, pending, initial, raised>>
        /\ log'[p].keys = disks[vm.disk].keys /\ log'[p].vm = vm.id
        /\ \A q \in Phases \ {p} : log'[q] = log[q]
        /\ disks'[vm.disk].state = Disk.state /\ disks'[vm.disk].keys = disks[vm.disk].keys
    BY <2>1, <2>2, <2>3, SmoothPhase
  <2> QED
    BY <1>1, <1>2, <2>4 DEF p, Phases
<1>6. Unhindered'
    BY <1>1, <1>3, <1>5 DEF Unhindered
<1>7. OldDisk' /\ NewDisk'
    BY <1>1, <1>3, <1>5 DEF OldDisk, NewDisk
<1> QED
    BY <1>3, <1>5, <1>6, <1>7, OtherModes DEF Untroubled

LEMMA SmoothReboot ==
    ASSUME Known, Reboot, ~faulted' PROVE Untroubled'
<1>1. mode = "execute" /\ step = 9
    BY Positions DEF Reboot, At, Known
<1>2. vm # NoVM
    BY <1>1 DEF Known, Placed, Machine
<1>3. Unhindered /\ OldDisk /\ NewDisk /\ raised = FALSE
    BY <1>1 DEF Known, Untroubled
<1>4. /\ mode' = "execute" /\ step' = 10 /\ pending'
      /\ UNCHANGED <<vm, disks, boots, initial, log, raised>>
    BY <1>1, <1>2, <1>3 DEF Reboot, Advance, Unhindered, main
<1> QED
    BY <1>1, <1>3, <1>4, OtherModes DEF Untroubled, Unhindered, OldDisk, NewDisk

LEMMA SmoothRestarted ==
    ASSUME Known, Restarted PROVE Untroubled'
<1> DEFINE old == disks["primary"]
           s == [old.state EXCEPT !.boot = vm.boot]
<1>1. /\ mode = "execute"
      /\ \/ step = 12 /\ Arg = "warm"
         \/ step = 17 /\ Arg = "cold"
    BY Positions DEF Restarted, At, Arg, Known
<1>2. vm # NoVM /\ vm.disk = "primary" /\ Disk = old
    BY <1>1 DEF Known, Placed, Machine, Disk
<1>3. Unhindered /\ OldDisk /\ NewDisk /\ raised = FALSE
    BY <1>1 DEF Known, Untroubled
<1>4. /\ old.state # NoState /\ old.state.keys = old.keys /\ old.keys # 0
      /\ step = 12 => old.state.boot = initial
    BY <1>1, <1>3 DEF OldDisk
<1>5. vm.boot # old.state.boot
  <2>1. CASE step = 12
    BY <1>3, <1>4, <2>1 DEF Unhindered
  <2>2. CASE step = 17
    <3>1. old.state.boot = log["warm"].boot
      BY <1>4, <2>2 DEF Known, Core, StateOfPhase
    <3> QED
      BY <1>3, <2>2, <3>1 DEF Unhindered
  <2> QED
    BY <1>1, <2>1, <2>2
<1>6. Phase(Arg, TRUE, s)
    BY <1>2, <1>4, <1>5 DEF Restarted
<1>7. s # NoState /\ s.keys = old.keys /\ s.boot = vm.boot
  <2>1. old.state \in States /\ vm.boot \in Nat
    <3>1. old \in Copies /\ vm \in Machines
      BY <1>2, KnownTypes DEF Disks
    <3> QED
      BY <1>4, <3>1 DEF Copies, Machines
  <2>2. s \in States
    BY <2>1 DEF States
  <2> QED
    BY <1>4, <2>1, <2>2, NothingAssumption DEF States
<1>8. /\ mode' = "execute" /\ step' = step + 1
      /\ UNCHANGED <<vm, boots, pending, initial, raised>>
      /\ log'["packages"] = log["packages"] /\ log'["baseline"] = log["baseline"]
      /\ disks'["primary"].state = s /\ disks'["primary"].keys = old.keys
  <2> HIDE DEF s
  <2> QED
    BY <1>1, <1>2, <1>6, SmoothPhase DEF Phases
<1> HIDE DEF s
<1>9. Unhindered'
    BY <1>1, <1>3, <1>8 DEF Unhindered
<1>10. OldDisk' /\ NewDisk'
    BY <1>1, <1>3, <1>4, <1>7, <1>8 DEF OldDisk, NewDisk
<1> QED
    BY <1>3, <1>8, <1>9, <1>10, OtherModes DEF Untroubled

LEMMA SmoothFresh ==
    ASSUME Known, Fresh PROVE Untroubled'
<1>1. mode = "execute" /\ step = 23
    BY Positions DEF Fresh, At, Known
<1>2. vm # NoVM /\ vm.disk = "fresh" /\ Disk = disks["fresh"]
    BY <1>1 DEF Known, Placed, Machine, Disk
<1>3. Unhindered /\ OldDisk /\ NewDisk /\ raised = FALSE
    BY <1>1 DEF Known, Untroubled
<1>4. Phase("fresh", TRUE, Disk.state)
  <2>1. Disk.state = NoState
    BY <1>1, <1>2, <1>3 DEF NewDisk
  <2> QED
    BY <2>1 DEF Fresh
<1>5. /\ mode' = "execute" /\ step' = 24
      /\ UNCHANGED <<vm, boots, pending, initial, raised>>
      /\ log'["packages"] = log["packages"] /\ log'["baseline"] = log["baseline"]
      /\ log'["fresh"].keys = disks["fresh"].keys
  <2> DEFINE p == "fresh"
  <2>1. p \in Phases
    BY DEF Phases
  <2>2. Phase(p, TRUE, Disk.state)
    BY <1>4
  <2> HIDE DEF p
  <2>3. mode = "execute" /\ vm # NoVM
    BY <1>1, <1>2
  <2>4. /\ mode' = "execute" /\ step' = step + 1
        /\ UNCHANGED <<vm, boots, pending, initial, raised>>
        /\ log'[p].keys = disks[vm.disk].keys /\ log'[p].vm = vm.id
        /\ \A q \in Phases \ {p} : log'[q] = log[q]
        /\ disks'[vm.disk].state = Disk.state /\ disks'[vm.disk].keys = disks[vm.disk].keys
    BY <2>1, <2>2, <2>3, SmoothPhase
  <2> QED
    BY <1>1, <1>2, <2>4 DEF p, Phases
<1>6. log["baseline"].keys # disks["fresh"].keys
  <2>1. log["baseline"].keys < disks["fresh"].keys
    BY <1>1, <1>3 DEF NewDisk
  <2>2. log["baseline"].keys \in Nat /\ disks["fresh"].keys \in Nat
    BY KnownTypes DEF Phases
  <2> QED
    BY <2>1, <2>2
<1> QED
    BY <1>1, <1>3, <1>5, <1>6, OtherModes DEF Untroubled, Unhindered, OldDisk, NewDisk

LEMMA SmoothEnd ==
    ASSUME Known, Compare \/ Stop \/ Validate PROVE Untroubled'
<1>1. CASE Compare
  <2>1. /\ mode = "execute" /\ step = 24
        /\ UNCHANGED <<disks, boots, pending, vm, initial, log, raised>>
    BY <1>1, Positions DEF Compare, At, Known, guest, main
  <2>2. Unhindered /\ OldDisk /\ NewDisk /\ raised = FALSE
    BY <2>1 DEF Known, Untroubled
  <2>3. mode' = "execute" /\ step' = 25
    BY <1>1, <2>1, <2>2 DEF Compare, Require, Advance, NewDisk
  <2> QED
    BY <2>1, <2>2, <2>3, OtherModes DEF Untroubled, Unhindered, OldDisk, NewDisk
<1>2. CASE Stop
  <2>1. /\ mode = "execute" /\ step \in {13, 18, 25} /\ mode' = "execute" /\ step' = step + 1
        /\ vm' = NoVM /\ pending' = FALSE
        /\ UNCHANGED <<disks, boots, initial, log, raised>>
    BY <1>2, Positions DEF Stop, At, Known, Advance, main
  <2>2. Unhindered /\ OldDisk /\ NewDisk /\ raised = FALSE
    BY <2>1 DEF Known, Untroubled
  <2> QED
    BY <2>1, <2>2, OtherModes DEF Untroubled, Unhindered, OldDisk, NewDisk
<1>3. CASE Validate
  <2>1. mode = "execute" /\ step = 26 /\ raised' = raised /\ raised = FALSE
    BY <1>3, Positions DEF Validate, At, Known, Untroubled
  <2>2. /\ log["baseline"].vm = 1 /\ log["warm"].vm = 1 /\ log["cold"].vm = 2
        /\ log["fresh"].disk = "fresh"
    <3>1. step > 6 /\ step > 12 /\ step > 17 /\ step > 23
      BY <2>1
    <3> QED
      BY <3>1, Zenon DEF Known, Core, Earned
  <2>3. log["packages"].vm = 1
    BY <2>1 DEF Known, Untroubled, NewDisk
  <2>4. \A p \in Phases : log[p] # Unused
    BY <2>2, <2>3 DEF Phases, Unused
  <2>5. status' = "PASS" /\ mode' = "cleanup"
    BY <1>3, <2>4 DEF Validate
  <2> QED
    BY <2>1, <2>5, OtherModes DEF Untroubled
<1> QED
    BY <1>1, <1>2, <1>3

LEMMA SmoothGuest ==
    ASSUME Known, GuestReboots PROVE Untroubled'
<1>1. /\ pending /\ vm # NoVM /\ pending' = FALSE /\ Boot(vm.disk)
      /\ vm' = [vm EXCEPT !.boot = boots + 1]
      /\ UNCHANGED <<step, mode, initial, log, raised, status>>
    BY DEF GuestReboots, main
<1>2. CASE mode # "execute"
    BY <1>1, <1>2 DEF Known, Untroubled
<1>3. CASE mode = "execute"
  <2>1. Unhindered /\ OldDisk /\ NewDisk /\ raised = FALSE
    BY <1>3 DEF Known, Untroubled
  <2>2. step = 10 /\ vm.boot = initial /\ vm.up
    BY <1>1, <2>1 DEF Unhindered
  <2>3. vm.disk = "primary" /\ vm.boot = boots /\ vm \in Machines /\ boots \in Nat
    <3>1. vm.disk = "primary" /\ vm \in Machines /\ boots \in Nat
      <4>1. vm # NoVM /\ step = 10
        BY <1>1, <2>2
      <4>2. vm \in Machines /\ boots \in Nat
        BY <4>1, KnownTypes
      <4>3. vm.disk = "primary"
        BY <1>3, <4>1 DEF Known, Placed, Machine
      <4> QED
        BY <4>2, <4>3
    <3>2. vm.boot = boots
      BY <1>1, Zenon DEF Known, Core, Running
    <3> QED
      BY <3>1, <3>2
  <2>4. /\ vm'.up = vm.up /\ vm'.boot = boots + 1
    BY <1>1, <2>3 DEF Machines
  <2>5. vm'.boot # initial /\ vm'.boot # 0
    BY <2>2, <2>3, <2>4
  <2>6. /\ disks'["primary"].state = disks["primary"].state
        /\ disks'["primary"].keys = disks["primary"].keys
        /\ boots' = boots + 1
    BY <1>1, <2>1, <2>2, <2>3, GoodBoot DEF Disks, OldDisk
  <2>7. log["baseline"].keys <= boots'
    <3>1. log["baseline"].keys \in Nat /\ log["baseline"].keys <= boots
      BY <2>1, <2>2, KnownTypes DEF Phases, NewDisk
    <3> QED
      BY <2>3, <2>6, <3>1
  <2>8. Unhindered'
    BY <1>1, <2>1, <2>2, <2>4, <2>5 DEF Unhindered
  <2>9. OldDisk'
    BY <1>1, <2>1, <2>2, <2>6 DEF OldDisk
  <2>10. NewDisk'
    BY <1>1, <2>1, <2>2, <2>7 DEF NewDisk
  <2> QED
    BY <1>1, <1>3, <2>1, <2>8, <2>9, <2>10, OtherModes DEF Untroubled
<1> QED
    BY <1>2, <1>3

LEMMA SmoothMain ==
    ASSUME Known, Except \/ CleanupStops \/ CleanupRemoves \/ Save \/ UNCHANGED vars
    PROVE  Untroubled'
<1>1. mode \notin Failures /\ raised = FALSE
    BY DEF Known, Untroubled
<1>2. CASE Except
    BY <1>1, <1>2, Zenon DEF Except, Failures
<1>3. CASE CleanupStops \/ CleanupRemoves
  <2>1. /\ mode \in {"cleanup", "remove"} /\ mode' \in {"remove", "save"}
        /\ UNCHANGED <<raised, status>>
    BY <1>3 DEF CleanupStops, CleanupRemoves, main
  <2>2. status = "PASS"
    BY <2>1 DEF Known, Untroubled
  <2> QED
    BY <1>1, <2>1, <2>2, OtherModes DEF Untroubled
<1>4. CASE Save
  <2>1. mode = "save" /\ UNCHANGED <<raised, status>>
    BY <1>4, Zenon DEF Save
  <2>2. status = "PASS"
    BY <2>1 DEF Known, Untroubled
  <2>3. mode' = "exit 0"
    BY <1>1, <1>4, <2>2, Zenon DEF Save
  <2>4. mode' # "execute" /\ mode' \notin Failures
    BY <2>3, Zenon DEF Failures
  <2> QED
    BY <1>1, <2>1, <2>2, <2>4 DEF Untroubled
<1>5. CASE UNCHANGED vars
    BY <1>5 DEF vars, Known, Untroubled, Unhindered, OldDisk, NewDisk
<1> QED
    BY <1>2, <1>3, <1>4, <1>5

LEMMA KnownOfGood ==
    ASSUME Placed, Core, Cleaned, Smooth, Good(firmware), ~faulted
    PROVE  Known
<1>1. step \in 1..26
    BY ScriptIs DEF Placed, TypeOK
<1>2. firmware \in Firmwares
    BY Zenon DEF Placed, TypeOK
<1>3. KeepsKeys /\ firmware.persists
    BY Zenon DEF Good, KeepsKeys
<1>4. firmware.persists \in BOOLEAN
  <2> DEFINE Keys == {"shipped", "fixed", "each boot", "first boot"}
  <2>1. firmware \in [keys : Keys, persists : BOOLEAN]
    BY <1>2, Zenon DEF Firmwares
  <2> HIDE DEF Keys
  <2> QED
    BY <2>1
<1>5. Untroubled
    BY DEF Smooth
<1> QED
    BY <1>1, <1>3, <1>4, <1>5 DEF Known

LEMMA SmoothStep == Placed /\ Core /\ Cleaned /\ Smooth /\ [Next]_vars => Smooth'
<1> SUFFICES ASSUME Placed, Core, Cleaned, Smooth, [Next]_vars, Good(firmware)', ~faulted'
             PROVE  Untroubled'
    BY DEF Smooth
<1>1. ~faulted /\ firmware' = firmware
  <2>1. faulted \in BOOLEAN
    BY DEF Placed, TypeOK
  <2>2. CASE Execute
    <3>1. firmware' = firmware /\ (faulted' = faulted \/ faulted' = TRUE)
      BY <2>2 DEF Execute, Preflight, Copy, Start, Wait, Command, Baseline, Packages, Reboot,
         Restarted, Fresh, Compare, Stop, Validate, Phase
    <3> QED
      BY <2>1, <3>1
  <2>3. CASE Except \/ CleanupStops \/ CleanupRemoves \/ Save \/ GuestReboots \/ GuestCrashes
    <3>1. firmware' = firmware /\ (faulted' = faulted \/ faulted' = TRUE)
      BY <2>3, Zenon
         DEF Except, CleanupStops, CleanupRemoves, Save, GuestReboots, GuestCrashes
    <3> QED
      BY <2>1, <3>1
  <2>4. CASE Fault \/ CleanupFails \/ Signal
    BY <2>4, Zenon DEF Fault, CleanupFails, Signal
  <2>5. CASE UNCHANGED vars
    BY <2>5 DEF vars
  <2> QED
    BY <2>2, <2>3, <2>4, <2>5 DEF Next, Runner
<1>2. Known
    BY <1>1, KnownOfGood, Zenon DEF Good
<1>3. ~(GuestCrashes \/ Fault \/ CleanupFails \/ Signal)
    BY Zenon DEF GuestCrashes, Fault, CleanupFails, Signal
<1> QED
    BY <1>2, <1>3, SmoothPreflight, SmoothCopy, SmoothStart, SmoothCommands, SmoothBaseline,
       SmoothPackages, SmoothReboot, SmoothRestarted, SmoothFresh, SmoothEnd, SmoothGuest,
       SmoothMain DEF Next, Runner, Execute

LEMMA Invariants == Spec => [](Placed /\ Core /\ Cleaned)
<1>1. Init => Placed /\ Core /\ Cleaned
    BY PlacedInitially, CoreInitially DEF Init, Cleaned
<1>2. Placed /\ Core /\ Cleaned /\ [Next]_vars => (Placed /\ Core /\ Cleaned)'
    BY PlacedStep, CoreStep, CleanedStep
<1>3. QED
    BY <1>1, <1>2, PTL DEF Spec

(* For any number of reboots and signals the state is of its type; above   *)
(* all execute never runs off its end (execute, 284-327).                  *)
THEOREM TypeCorrect == Spec => []TypeOK
<1>1. Placed /\ Core /\ Cleaned => TypeOK
    BY DEF Placed
<1>2. QED
    BY <1>1, Invariants, PTL

(* No firmware, no failure and no order of boots and signals makes the     *)
(* runner write PASS without having seen what the verdict says (main).     *)
THEOREM VerdictEarned == Spec => []VerdictIsEarned
<1>1. Placed /\ Core /\ Cleaned => VerdictIsEarned
  <2> SUFFICES ASSUME Placed, Core, Cleaned, file = "PASS" PROVE VerdictIsEarned
      BY DEF VerdictIsEarned
  <2>1. step = 26
      BY DEF Cleaned
  <2>2. step > 1 /\ step > 6 /\ step > 12 /\ step > 17 /\ step > 23 /\ step > 24
      BY <2>1
  <2>3. /\ firmware.keys \notin {"shipped", "fixed", "each boot"} /\ firmware.persists
        /\ log["baseline"].vm = 1 /\ log["warm"].vm = 1 /\ log["cold"].vm = 2
        /\ log["baseline"].boot < log["warm"].boot
        /\ log["warm"].boot < log["cold"].boot
        /\ log["cold"].disk = "primary" /\ log["fresh"].disk = "fresh"
      BY <2>2, Zenon DEF Core, Earned
  <2>4. Good(firmware)
      BY <2>3 DEF Placed, TypeOK, Firmwares, Good
  <2>5. log["warm"].vm = 1 /\ log["cold"].vm = 2
      BY <2>3, Zenon
  <2>6. log["warm"].vm < log["cold"].vm
      BY <2>5
  <2>7. vm = NoVM /\ ~work
      BY DEF Cleaned
  <2>8. QED
      BY <2>3, <2>4, <2>6, <2>7, Zenon DEF VerdictIsEarned
<1>2. QED
    BY <1>1, Invariants, PTL

LEMMA WhereItWaits ==
    ASSUME Known, At("wait")
    PROVE  /\ mode = "execute" /\ step \in {4, 10, 15, 21}
           /\ step \in {4, 21} => Previous = 0
           /\ step = 10 => Previous = initial
           /\ step = 15 => Previous = log["warm"].boot
<1>1. mode = "execute" /\ step \in {4, 10, 15, 21}
    BY Positions DEF At, Known
<1>2. /\ step = 4 => Arg = "first"
      /\ step = 10 => Arg = "warm"
      /\ step = 15 => Arg = "cold"
      /\ step = 21 => Arg = "fresh"
    BY ScriptIs DEF Arg
<1> QED
    BY <1>1, <1>2 DEF Previous

LEMMA SmoothInitially == Init => Smooth
<1> SUFFICES ASSUME Init PROVE Untroubled
  BY DEF Smooth
<1>1. /\ mode = "execute" /\ raised = FALSE /\ step = 1
      /\ vm = NoVM /\ pending = FALSE
  BY Zenon DEF Init
<1> QED
  BY <1>1, OtherModes DEF Untroubled, Unhindered, OldDisk, NewDisk

LEMMA SmoothGoesOn == Placed /\ Core /\ Cleaned /\ Smooth => GoodFirmwareGoesOn
<1> SUFFICES ASSUME Placed, Core, Cleaned, Smooth, Good(firmware), ~faulted
             PROVE  /\ mode \notin {"except", "exit 1"}
                    /\ At("wait") => vm.up /\ (pending \/ vm.boot # Previous)
  BY Zenon DEF GoodFirmwareGoesOn
<1>1. Known
  BY KnownOfGood
<1>2. mode \notin {"except", "exit 1"}
  BY <1>1, Zenon DEF Known, Untroubled, Failures
<1>3. ASSUME At("wait") PROVE vm.up /\ (pending \/ vm.boot # Previous)
  <2>1. /\ mode = "execute" /\ step \in {4, 10, 15, 21}
        /\ step \in {4, 21} => Previous = 0
        /\ step = 10 => Previous = initial
        /\ step = 15 => Previous = log["warm"].boot
    BY <1>1, <1>3, WhereItWaits
  <2>2. vm # NoVM
    BY <1>1, <2>1 DEF Known, Placed, Machine
  <2>3. Unhindered
    BY <1>1, <2>1 DEF Known, Untroubled
  <2> QED
    BY <2>1, <2>2, <2>3 DEF Unhindered
<1> QED
  BY <1>2, <1>3, Zenon

(* For any number of reboots and signals, none of which comes: execute     *)
(* refuses nothing of a good firmware, and each boot it waits for is there *)
(* or has been asked for (execute, 284-327; wait_ssh).                     *)
THEOREM GoodGoesOn == Spec => []GoodFirmwareGoesOn
<1>1. Placed /\ Core /\ Cleaned /\ Smooth /\ [Next]_vars => Smooth'
    BY SmoothStep
<1> QED
    BY <1>1, SmoothInitially, SmoothGoesOn, Invariants, PTL DEF Spec

-----------------------------------------------------------------------------
(* It works on what a successful image job left.                           *)
Succeeded ==
    /\ release # "todo" => build = "succeeded"
    /\ build = "succeeded" => outcome = "success"

(* After its validation the hashes are those of a firmware that this       *)
(* attempt has tested: who writes to the artifact later does not change    *)
(* them.                                                                   *)
Pinned ==
    release \in {"firmware", "report", "notes", "done"} =>
        Workflow!Proves(pinned["report"], pinned["firmware"], attempt)

(* What has been copied has these hashes.                                  *)
Copied ==
    /\ DOMAIN out = {"firmware", "report", "notes"}
    /\ release \in {"report", "notes", "done"} => out["firmware"] = pinned["firmware"]
    /\ release \in {"notes", "done"} => out["report"] = pinned["report"]
    /\ release = "done" => out["notes"] = pinned["firmware"]

ReleaseInv == Succeeded /\ Pinned /\ Copied

LEMMA InitRelease == Workflow!Init => ReleaseInv
BY DEF Workflow!Init, ReleaseInv, Succeeded, Pinned, Copied, Workflow!NoAssets

(* The image job leaves the release job alone, and an attempt that begins  *)
(* anew begins with nothing prepared.                                      *)
LEMMA ImageJob ==
    ASSUME ReleaseInv,
           Workflow!Assemble \/ Workflow!AuditFirmware \/ Workflow!Accept
           \/ Workflow!Finish \/ Workflow!Break \/ Workflow!Overwrite \/ Workflow!Collect
             \/ Workflow!CollectLess \/ Workflow!Judge \/ Workflow!Describe
             \/ Workflow!Sum \/ Workflow!Upload
    PROVE  ReleaseInv'
<1>1. UNCHANGED <<attempt, Workflow!prep>>
  BY DEF Workflow!Assemble, Workflow!AuditFirmware, Workflow!Accept, Workflow!Finish,
    Workflow!Break, Workflow!Overwrite, Workflow!Collect, Workflow!CollectLess,
         Workflow!Judge, Workflow!Describe, Workflow!Sum, Workflow!Upload, Workflow!prep
<1>2. build # "succeeded" /\ (build' = "succeeded" => outcome' = "success")
  BY DEF Workflow!Assemble, Workflow!AuditFirmware, Workflow!Accept, Workflow!Finish,
    Workflow!Break, Workflow!Overwrite, Workflow!Collect, Workflow!CollectLess,
         Workflow!Judge, Workflow!Describe, Workflow!Sum, Workflow!Upload, ReleaseInv,
         Succeeded
<1>3. Succeeded'
  BY <1>1, <1>2 DEF ReleaseInv, Succeeded, Workflow!prep
<1>4. Pinned' /\ Copied'
  BY <1>1 DEF ReleaseInv, Pinned, Copied, Workflow!Proves, Workflow!prep
<1>5. QED BY <1>3, <1>4 DEF ReleaseInv

LEMMA Reruns == ASSUME ReleaseInv, Workflow!RerunAll
  \/ Workflow!RerunFailed PROVE ReleaseInv'
<1>1. release' = "todo" /\ out' = Workflow!NoAssets
  BY DEF Workflow!RerunAll, Workflow!RerunFailed, Workflow!FreshRelease
<1>2. build' = "succeeded" => outcome' = "success"
  BY DEF Workflow!RerunAll, Workflow!RerunFailed, Workflow!FreshImage, Workflow!job,
    ReleaseInv, Succeeded
<1>3. QED BY <1>1, <1>2 DEF ReleaseInv, Succeeded, Pinned, Copied, Workflow!NoAssets

(* Validation accepts only what proves this attempt's firmware.            *)
LEMMA AcceptedProves ==
    ASSUME NEW art, Workflow!Valid(art)
    PROVE  Workflow!Proves(art.sums["report"], art.sums["firmware"], attempt)
BY DEF Workflow!Valid, Workflow!SimulationProves

LEMMA ReleaseStep == ASSUME ReleaseInv, [Workflow!Next]_(Workflow!vars) PROVE ReleaseInv'
<1> USE DEF Workflow!job
<1>1. CASE Workflow!Assemble \/ Workflow!AuditFirmware \/ Workflow!Accept
  \/ Workflow!Finish \/ Workflow!Break \/ Workflow!Overwrite \/ Workflow!Collect
             \/ Workflow!CollectLess \/ Workflow!Judge \/ Workflow!Describe
             \/ Workflow!Sum \/ Workflow!Upload
  BY <1>1, ImageJob
<1>2. CASE Workflow!Download
  BY <1>2 DEF Workflow!Download, ReleaseInv, Succeeded, Pinned, Copied
<1>3. CASE Workflow!Validate
  <2>1. release = "validate" /\ release' \in {"firmware", "failed"}
    BY <1>3 DEF Workflow!Validate
  <2>2. UNCHANGED <<attempt, build, outcome, out>> /\ pinned' = got.sums
    BY <1>3 DEF Workflow!Validate
  <2>3. release' = "firmware" => Workflow!Valid(got)
    BY <1>3 DEF Workflow!Validate
  <2>4. Succeeded' /\ Copied'
    BY <2>1, <2>2 DEF ReleaseInv, Succeeded, Copied
  <2>5. Workflow!Valid(got) => Workflow!Proves(got.sums["report"], got.sums["firmware"],
    attempt)
    BY AcceptedProves
  <2>6. Pinned'
    BY <2>1, <2>2, <2>3, <2>5 DEF Pinned, Workflow!Proves
  <2>7. QED BY <2>4, <2>6 DEF ReleaseInv
<1>4. CASE Workflow!CopyFile("firmware")
  BY <1>4 DEF Workflow!CopyFile, ReleaseInv, Succeeded, Pinned, Copied, Workflow!Proves
<1>5. CASE Workflow!CopyFile("report")
  BY <1>5 DEF Workflow!CopyFile, ReleaseInv, Succeeded, Pinned, Copied, Workflow!Proves
<1>6. CASE Workflow!WriteNotes
  BY <1>6 DEF Workflow!WriteNotes, ReleaseInv, Succeeded, Pinned, Copied, Workflow!Proves
<1>7. CASE Workflow!Tamper
  BY <1>7 DEF Workflow!Tamper, ReleaseInv, Succeeded, Pinned, Copied, Workflow!Proves
<1>8. CASE Workflow!RerunAll \/ Workflow!RerunFailed
  BY <1>8, Reruns
<1>9. CASE UNCHANGED Workflow!vars
  BY <1>9 DEF Workflow!vars, Workflow!prep, ReleaseInv, Succeeded, Pinned, Copied,
    Workflow!Proves
<1>10. QED
  BY <1>1, <1>2, <1>3, <1>4, <1>5, <1>6, <1>7, <1>8, <1>9 DEF Workflow!Next, Workflow!Work

(* Nothing is prepared but the firmware that QEMU accepted in this very    *)
(* attempt, with its report and its hash in the notes.                     *)
THEOREM OnlyProvenPrepared == Workflow!Spec => []PreparedIsProven
<1>1. ReleaseInv => PreparedIsProven
  BY DEF ReleaseInv, Succeeded, Pinned, Copied, PreparedIsProven,
     Workflow!PreparedIsProven, Workflow!Proves
<1>2. QED BY InitRelease, ReleaseStep, <1>1, PTL DEF Workflow!Spec

LEMMA WorkflowTyped ==
    ASSUME MaxAttempts \in Nat \ {0}, MaxFaults \in Nat, Workflow!Init
    PROVE  Workflow!TypeOK
<1>1. attempt \in 1..MaxAttempts /\ name \in 1..attempt /\ faults \in 0..MaxFaults
  BY DEF Workflow!Init
<1>2. whole = TRUE /\ errors = FALSE /\ disturbed = FALSE /\ build = "assemble"
      /\ outcome = None /\ linked = {} /\ release = "todo"
  BY DEF Workflow!Init
<1>3. QED BY <1>1, <1>2 DEF Workflow!TypeOK, Workflow!Steps

LEMMA WorkflowTypedStep ==
    ASSUME MaxAttempts \in Nat \ {0}, MaxFaults \in Nat,
           Workflow!TypeOK, [Workflow!Next]_(Workflow!vars)
    PROVE  Workflow!TypeOK'
<1>1. CASE Workflow!Judge
  <2>1. errors' \in BOOLEAN
    BY <1>1, Zenon DEF Workflow!Judge, Workflow!TypeOK
  <2>2. UNCHANGED <<attempt, name, whole, outcome, linked, Workflow!prep,
    Workflow!luck>> /\ build' = "describe"
    BY <1>1 DEF Workflow!Judge
  <2>3. QED BY <2>1, <2>2 DEF Workflow!TypeOK, Workflow!Steps, Workflow!prep,
    Workflow!luck
<1>2. CASE Workflow!Assemble \/ Workflow!AuditFirmware \/ Workflow!Accept
  \/ Workflow!Finish \/ Workflow!Collect \/ Workflow!Describe \/ Workflow!Sum
             \/ Workflow!Upload
  <2>1. CASE Workflow!Assemble
    BY <2>1 DEF Workflow!TypeOK, Workflow!Steps, Workflow!prep, Workflow!luck,
      Workflow!Assemble
  <2>2. CASE Workflow!AuditFirmware
    BY <2>2 DEF Workflow!TypeOK, Workflow!Steps, Workflow!prep, Workflow!luck,
      Workflow!AuditFirmware
  <2>3. CASE Workflow!Accept
    BY <2>3 DEF Workflow!TypeOK, Workflow!Steps, Workflow!prep, Workflow!luck,
      Workflow!Accept
  <2>4. CASE Workflow!Finish
    BY <2>4 DEF Workflow!TypeOK, Workflow!Steps, Workflow!prep, Workflow!luck,
      Workflow!Finish
  <2>5. CASE Workflow!Collect
    BY <2>5 DEF Workflow!TypeOK, Workflow!Steps, Workflow!prep, Workflow!luck,
      Workflow!Collect
  <2>6. CASE Workflow!Describe
    BY <2>6 DEF Workflow!TypeOK, Workflow!Steps, Workflow!prep, Workflow!luck,
      Workflow!Describe
  <2>7. CASE Workflow!Sum
    BY <2>7 DEF Workflow!TypeOK, Workflow!Steps, Workflow!prep, Workflow!luck,
      Workflow!Sum
  <2>8. CASE Workflow!Upload
    BY <2>8 DEF Workflow!TypeOK, Workflow!Steps, Workflow!prep, Workflow!luck,
      Workflow!Upload
  <2> QED
    BY <1>2, <2>1, <2>2, <2>3, <2>4, <2>5, <2>6, <2>7, <2>8
<1>3. CASE Workflow!Break
  BY <1>3 DEF Workflow!TypeOK, Workflow!Steps, Workflow!prep, Workflow!Fault,
    Workflow!Break
<1>4. CASE Workflow!Overwrite
  BY <1>4 DEF Workflow!TypeOK, Workflow!Steps, Workflow!prep, Workflow!Fault,
    Workflow!Overwrite
<1>5. CASE Workflow!CollectLess
  BY <1>5 DEF Workflow!TypeOK, Workflow!Steps, Workflow!prep, Workflow!Fault,
    Workflow!CollectLess
<1>6. CASE Workflow!Tamper
  BY <1>6 DEF Workflow!TypeOK, Workflow!job, Workflow!Fault, Workflow!Tamper
<1>7. CASE Workflow!Download \/ Workflow!Validate \/ Workflow!CopyFile("firmware")
  \/ Workflow!CopyFile("report") \/ Workflow!WriteNotes
  <2>1. UNCHANGED <<attempt, name, whole, Workflow!job, Workflow!luck>>
    BY <1>7 DEF Workflow!Download, Workflow!Validate, Workflow!CopyFile,
      Workflow!WriteNotes
  <2>2. release' \in {"validate", "firmware", "report", "notes", "done", "failed"}
    BY <1>7 DEF Workflow!Download, Workflow!Validate, Workflow!CopyFile,
      Workflow!WriteNotes
  <2>3. QED BY <2>1, <2>2 DEF Workflow!TypeOK, Workflow!job, Workflow!luck
<1>8. CASE Workflow!RerunAll
  <2>1. attempt' \in 1..MaxAttempts /\ name' \in 1..attempt' /\ faults' \in 0..MaxFaults
    BY <1>8 DEF Workflow!TypeOK, Workflow!RerunAll, Workflow!Again
  <2>2. whole' = TRUE /\ disturbed' = FALSE /\ release' = "todo" /\ Workflow!FreshImage
    BY <1>8 DEF Workflow!RerunAll, Workflow!Again, Workflow!FreshRelease
  <2>3. QED BY <2>1, <2>2 DEF Workflow!TypeOK, Workflow!Steps, Workflow!FreshImage
<1>9. CASE Workflow!RerunFailed
  <2>1. attempt' \in 1..MaxAttempts /\ name' \in 1..attempt' /\ faults' \in 0..MaxFaults
    BY <1>9 DEF Workflow!TypeOK, Workflow!RerunFailed, Workflow!Again
  <2>2. whole' = FALSE /\ disturbed' = FALSE /\ release' = "todo"
    BY <1>9 DEF Workflow!RerunFailed, Workflow!Again, Workflow!FreshRelease
  <2>3. Workflow!FreshImage \/ UNCHANGED Workflow!job
    BY <1>9 DEF Workflow!RerunFailed
  <2>4. QED BY <2>1, <2>2, <2>3 DEF Workflow!TypeOK, Workflow!Steps,
    Workflow!FreshImage, Workflow!job
<1>10. CASE UNCHANGED Workflow!vars
  BY <1>10 DEF Workflow!TypeOK, Workflow!vars, Workflow!job, Workflow!prep,
    Workflow!luck
<1>11. QED
  BY <1>1, <1>2, <1>3, <1>4, <1>5, <1>6, <1>7, <1>8, <1>9,
    <1>10 DEF Workflow!Next, Workflow!Work

(* The types of a workflow run with as many attempts as there may be.      *)
THEOREM WorkflowTypes ==
    ASSUME MaxAttempts \in Nat \ {0}, MaxFaults \in Nat
    PROVE  Workflow!Spec => []Workflow!TypeOK
<1>1. Workflow!Init => Workflow!TypeOK
  BY WorkflowTyped
<1>2. Workflow!TypeOK /\ [Workflow!Next]_(Workflow!vars) => Workflow!TypeOK'
  BY WorkflowTypedStep
<1>3. QED BY <1>1, <1>2, PTL DEF Workflow!Spec
-----------------------------------------------------------------------------
(* The name of the artifact is free until this attempt takes it.           *)
Stored ==
    /\ store = [n \in 1..MaxAttempts |-> store[n]]
    /\ \A n \in 1..MaxAttempts : n > attempt => store[n] = None
    /\ whole = TRUE => name = attempt
    /\ whole = TRUE /\ build \notin {"failed", "succeeded"} => store[name] = None

(* What a step of the build leaves for those after it.                     *)
Tested == [firmware |-> attempt, attempt |-> attempt, status |-> "PASS"]

Built ==
    /\ disk = [f \in Workflow!Files |-> disk[f]]
    /\ build # "assemble" => disk["firmware"] = attempt
    /\ build \notin {"assemble", "audit"} => disk["audit"] = TRUE
    /\ build \notin {"assemble", "audit", "accept"} => disk["report"] = Tested
    /\ build \notin {"assemble", "audit", "accept", "finish"} =>
           disk["exit"] = 0 /\ outcome = "success"

Described ==
    meta = [outcome |-> "success", attempt |-> attempt, errors |-> FALSE, simulation |-> "passed"]

(* What the collector makes of it, and the artifact that is uploaded.      *)
Gathered ==
    /\ build \in {"judge", "describe", "sum", "upload", "succeeded"} => linked = Workflow!Files
    /\ build \in {"sum", "upload", "succeeded"} => Described
    /\ build \in {"upload", "succeeded"} => sums = disk
    /\ build = "succeeded" => store[name] = [files |-> disk, meta |-> meta, sums |-> sums]

(* What the release job has of it.                                         *)
Fetched ==
    /\ release # "todo" => got = store[name]
    /\ release \in {"firmware", "report", "notes", "done"} => pinned = sums

Calm ==
    /\ build # "failed" /\ release # "failed" /\ errors = FALSE
    /\ Built /\ Gathered /\ Fetched

Undisturbed == whole = TRUE /\ disturbed = FALSE => Calm

(* None is no file's contents. *)
NoneIsNothing ==
    /\ None \notin Nat /\ None # TRUE
    /\ \A n \in Nat : None # [firmware |-> n, attempt |-> n, status |-> "PASS"]

WorkflowInv == Workflow!TypeOK /\ ReleaseInv /\ Stored /\ Undisturbed

LEMMA StoredStep ==
    ASSUME MaxAttempts \in Nat \ {0}, Workflow!TypeOK, Stored,
           [Workflow!Next]_(Workflow!vars)
    PROVE  Stored'
<1>1. /\ attempt \in 1..MaxAttempts /\ name \in 1..MaxAttempts
      /\ name <= attempt
    BY DEF Workflow!TypeOK
<1>2. CASE Workflow!Upload
  <2>1. UNCHANGED <<attempt, name, whole>> /\ build' \in {"failed", "succeeded"}
    BY <1>2 DEF Workflow!Upload
  <2>2. store' = store \/ \E a : store' = [store EXCEPT ![name] = a]
    BY <1>2, Zenon DEF Workflow!Upload
  <2>3. store' = [n \in 1..MaxAttempts |-> store'[n]]
    BY <1>1, <2>2 DEF Stored
  <2>4. \A n \in 1..MaxAttempts : n > attempt' => store'[n] = None
    BY <1>1, <2>1, <2>2 DEF Stored
  <2> QED
    BY <2>1, <2>3, <2>4 DEF Stored
<1>3. CASE Workflow!RerunAll
  <2>1. /\ attempt < MaxAttempts /\ attempt' = attempt + 1 /\ name' = attempt' /\ store' = store
    BY <1>3 DEF Workflow!RerunAll, Workflow!Again
  <2>2. name' \in 1..MaxAttempts /\ name' > attempt
    BY <1>1, <2>1
  <2>3. \A n \in 1..MaxAttempts : n > attempt' => n > attempt
    BY <1>1, <2>1
  <2> QED
    BY <2>1, <2>2, <2>3 DEF Stored
<1>4. CASE Workflow!RerunFailed
  <2>1. attempt' = attempt + 1 /\ store' = store /\ whole' = FALSE
    BY <1>4 DEF Workflow!RerunFailed, Workflow!Again
  <2>2. \A n \in 1..MaxAttempts : n > attempt' => n > attempt
    BY <1>1, <2>1
  <2> QED
    BY <2>1, <2>2 DEF Stored
<1>5. ASSUME ~Workflow!Upload, ~Workflow!RerunAll, ~Workflow!RerunFailed
      PROVE  Stored'
  <2>1. /\ UNCHANGED <<attempt, name, whole, store>>
        /\ build' = build \/ build \notin {"failed", "succeeded"}
    BY <1>5, Zenon DEF Workflow!Next, Workflow!Work, Workflow!vars, Workflow!job,
       Workflow!Assemble, Workflow!AuditFirmware, Workflow!Accept, Workflow!Finish,
       Workflow!Break, Workflow!Overwrite, Workflow!Collect, Workflow!CollectLess,
       Workflow!Judge, Workflow!Describe, Workflow!Sum, Workflow!Download, Workflow!Validate,
       Workflow!CopyFile, Workflow!WriteNotes, Workflow!Tamper
  <2> QED
    BY <2>1 DEF Stored
<1> QED
    BY <1>2, <1>3, <1>4, <1>5, Zenon

(* Nothing is released before the build has succeeded. *)
LEMMA StillToDo ==
    ASSUME ReleaseInv, build # "succeeded" PROVE release = "todo"
BY DEF ReleaseInv, Succeeded

LEMMA FileWritten ==
    ASSUME disk = [f \in Workflow!Files |-> disk[f]], NEW g \in Workflow!Files, NEW a,
           disk' = [disk EXCEPT ![g] = a]
    PROVE  /\ disk' = [f \in Workflow!Files |-> disk'[f]]
           /\ disk'[g] = a
           /\ \A f \in Workflow!Files \ {g} : disk'[f] = disk[f]
OBVIOUS

LEMMA CalmBuild ==
    ASSUME WorkflowInv, Calm,
           Workflow!Assemble \/ Workflow!AuditFirmware \/ Workflow!Accept \/ Workflow!Finish
    PROVE  Calm'
<1>1. /\ build \in {"assemble", "audit", "accept", "finish"}
      /\ build' \in {"audit", "accept", "finish", "collect"}
      /\ UNCHANGED <<release, errors, attempt, name, store, got, pinned, meta, sums>>
    BY DEF Workflow!Assemble, Workflow!AuditFirmware, Workflow!Accept, Workflow!Finish,
       Workflow!prep
<1>2. release = "todo"
    BY <1>1, StillToDo DEF WorkflowInv
<1>3. Gathered' /\ Fetched'
    BY <1>1, <1>2 DEF Gathered, Fetched
<1>4. disk = [f \in Workflow!Files |-> disk[f]] /\ errors = FALSE
    BY DEF Calm, Built
<1>5. ASSUME Workflow!Assemble PROVE Built'
  <2>1. build' = "audit" /\ disk' = [disk EXCEPT !["firmware"] = attempt]
    BY <1>5 DEF Workflow!Assemble
  <2>2. /\ disk' = [f \in Workflow!Files |-> disk'[f]]
        /\ disk'["firmware"] = attempt
        /\ \A f \in Workflow!Files \ {"firmware"} : disk'[f] = disk[f]
    BY <1>4, <2>1, FileWritten DEF Workflow!Files
  <2> QED
    BY <1>1, <2>1, <2>2 DEF Built
<1>6. ASSUME Workflow!AuditFirmware PROVE Built'
  <2>1. build = "audit" /\ build' = "accept" /\ disk' = [disk EXCEPT !["audit"] = TRUE]
    BY <1>6 DEF Workflow!AuditFirmware
  <2>2. /\ disk' = [f \in Workflow!Files |-> disk'[f]]
        /\ disk'["audit"] = TRUE
        /\ \A f \in Workflow!Files \ {"audit"} : disk'[f] = disk[f]
    BY <1>4, <2>1, FileWritten DEF Workflow!Files
  <2> QED
    BY <1>1, <2>1, <2>2 DEF Calm, Built, Workflow!Files
<1>7. ASSUME Workflow!Accept PROVE Built'
  <2>1. build = "accept" /\ build' = "finish" /\ disk["firmware"] = attempt
    BY <1>7 DEF Workflow!Accept, Calm, Built
  <2>2. disk' = [disk EXCEPT !["report"] = Tested]
    BY <1>7, <2>1 DEF Workflow!Accept, Tested
  <2>3. Tested' = Tested
    BY <1>1 DEF Tested
  <2>4. /\ disk' = [f \in Workflow!Files |-> disk'[f]]
        /\ disk'["report"] = Tested
        /\ \A f \in Workflow!Files \ {"report"} : disk'[f] = disk[f]
    BY <1>4, <2>2, FileWritten DEF Workflow!Files
  <2> QED
    BY <1>1, <2>1, <2>3, <2>4 DEF Calm, Built, Workflow!Files
<1>8. ASSUME Workflow!Finish PROVE Built'
  <2>1. build = "finish" /\ build' = "collect" /\ disk' = [disk EXCEPT !["exit"] = 0]
        /\ outcome' = "success"
    BY <1>8 DEF Workflow!Finish
  <2>2. Tested' = Tested
    BY <1>1 DEF Tested
  <2>3. /\ disk' = [f \in Workflow!Files |-> disk'[f]]
        /\ disk'["exit"] = 0
        /\ \A f \in Workflow!Files \ {"exit"} : disk'[f] = disk[f]
    BY <1>4, <2>1, FileWritten DEF Workflow!Files
  <2> QED
    BY <1>1, <2>1, <2>2, <2>3 DEF Calm, Built, Workflow!Files
<1>9. Built'
    BY <1>5, <1>6, <1>7, <1>8
<1> QED
    BY <1>1, <1>2, <1>3, <1>4, <1>9 DEF Calm

(* Every file is there, and passes. *)
LEMMA AllThere ==
    ASSUME NoneIsNothing, WorkflowInv, Calm,
           build \in {"collect", "judge", "describe", "sum", "upload", "succeeded"}
    PROVE  /\ \A f \in Workflow!Files : disk[f] # None
           /\ disk["firmware"] = attempt /\ disk["audit"] = TRUE /\ disk["exit"] = 0
           /\ disk["report"] = Tested /\ outcome = "success"
           /\ linked = Workflow!Files => \A f \in Workflow!Files : Workflow!Collected(f) = disk[f]
<1>1. /\ disk["firmware"] = attempt /\ disk["audit"] = TRUE /\ disk["exit"] = 0
      /\ disk["report"] = Tested /\ outcome = "success"
    BY DEF Calm, Built
<1>2. attempt \in Nat
    BY DEF WorkflowInv, Workflow!TypeOK
<1>3. Tested # None
    BY <1>2 DEF NoneIsNothing, Tested
<1>4. \A f \in Workflow!Files : disk[f] # None
  <2>1. disk["firmware"] # None /\ disk["exit"] # None
    BY <1>1, <1>2 DEF NoneIsNothing
  <2>2. disk["audit"] # None
    BY <1>1, Zenon DEF NoneIsNothing
  <2> QED
    BY <1>1, <1>3, <2>1, <2>2 DEF Workflow!Files
<1> QED
    BY <1>1, <1>4 DEF Workflow!Collected

LEMMA CalmCollect ==
    ASSUME MaxAttempts \in Nat \ {0}, NoneIsNothing, WorkflowInv, Calm, whole = TRUE,
           \/ Workflow!Collect \/ Workflow!Judge \/ Workflow!Describe
           \/ Workflow!Sum \/ Workflow!Upload
    PROVE  Calm'
<1>1. /\ build \in {"collect", "judge", "describe", "sum", "upload"}
      /\ UNCHANGED <<release, attempt, name, got, pinned, disk, outcome>>
    BY DEF Workflow!Collect, Workflow!Judge, Workflow!Describe, Workflow!Sum, Workflow!Upload,
       Workflow!prep
<1>2. release = "todo" /\ release' = "todo"
    BY <1>1, StillToDo DEF WorkflowInv
<1>3. Fetched'
    BY <1>2 DEF Fetched
<1>4. /\ \A f \in Workflow!Files : disk[f] # None
      /\ disk["firmware"] = attempt /\ disk["audit"] = TRUE /\ disk["exit"] = 0
      /\ disk["report"] = Tested /\ outcome = "success"
      /\ linked = Workflow!Files => \A f \in Workflow!Files : Workflow!Collected(f) = disk[f]
    BY <1>1, AllThere
<1>5. disk = [f \in Workflow!Files |-> disk[f]] /\ errors = FALSE
    BY DEF Calm, Built
<1>6. Built'
  <2>1. Tested' = Tested
    BY <1>1 DEF Tested
  <2> QED
    BY <1>1, <1>4, <1>5, <2>1 DEF Built
<1>7. CASE Workflow!Collect
  <2>1. build' = "judge" /\ errors' = errors /\ linked' = {f \in Workflow!Files : disk[f] # None}
    BY <1>7 DEF Workflow!Collect
  <2>2. linked' = Workflow!Files
    BY <1>4, <2>1
  <2> QED
    BY <1>2, <1>3, <1>5, <1>6, <2>1, <2>2 DEF Calm, Gathered
<1>8. CASE Workflow!Judge
  <2>1. build = "judge" /\ build' = "describe" /\ UNCHANGED <<linked, meta, sums, store>>
    BY <1>8 DEF Workflow!Judge
  <2>2. linked = Workflow!Files
    BY <2>1 DEF Calm, Gathered
  <2>3. /\ Workflow!Collected("firmware") = attempt /\ Workflow!Collected("audit") = TRUE
        /\ Workflow!Collected("report") = Tested /\ attempt # None
    BY <1>4, <2>2 DEF Workflow!Files
  <2>4. Workflow!Proves(Workflow!Collected("report"), Workflow!Collected("firmware"), attempt)
    BY <2>3 DEF Workflow!Proves, Tested
  <2>5. errors' = FALSE
    BY <1>5, <1>8, <2>3, <2>4 DEF Workflow!Judge
  <2> QED
    BY <1>2, <1>3, <1>6, <2>1, <2>2, <2>5 DEF Calm, Gathered
<1>9. CASE Workflow!Describe
  <2>1. build = "describe" /\ build' = "sum" /\ UNCHANGED <<linked, errors, sums, store>>
    BY <1>9, Zenon DEF Workflow!Describe
  <2>2. linked = Workflow!Files
    BY <2>1 DEF Calm, Gathered
  <2>3. meta' = [outcome |-> "success", attempt |-> attempt, errors |-> FALSE,
                 simulation |-> "passed"]
    BY <1>4, <1>5, <1>9, Zenon DEF Workflow!Describe
  <2>4. Described'
    BY <1>1, <2>3 DEF Described
  <2> QED
    BY <1>2, <1>3, <1>5, <1>6, <2>1, <2>2, <2>4 DEF Calm, Gathered
<1>10. CASE Workflow!Sum
  <2>1. build = "sum" /\ build' = "upload" /\ UNCHANGED <<linked, errors, meta, store>>
        /\ sums' = [f \in Workflow!Files |-> Workflow!Collected(f)]
    BY <1>10 DEF Workflow!Sum
  <2>2. linked = Workflow!Files /\ Described
    BY <2>1 DEF Calm, Gathered
  <2>3. sums' = disk
    BY <1>4, <1>5, <2>1, <2>2
  <2>4. Described'
    BY <1>1, <2>1, <2>2 DEF Described
  <2> QED
    BY <1>1, <1>2, <1>3, <1>5, <1>6, <2>1, <2>2, <2>3, <2>4 DEF Calm, Gathered
<1>11. CASE Workflow!Upload
  <2>1. build = "upload" /\ UNCHANGED <<linked, errors, meta, sums>>
    BY <1>11 DEF Workflow!Upload
  <2>2. linked = Workflow!Files /\ Described /\ sums = disk
    BY <2>1 DEF Calm, Gathered
  <2>3. [f \in Workflow!Files |-> Workflow!Collected(f)] = disk
    BY <1>4, <1>5, <2>2
  <2>4. store[name] = None
    BY <2>1 DEF WorkflowInv, Stored
  <2>5. /\ store' = [store EXCEPT ![name] = [files |-> disk, meta |-> meta, sums |-> sums]]
        /\ build' = "succeeded"
    BY <1>4, <1>5, <1>11, <2>3, <2>4 DEF Workflow!Upload
  <2>6. name \in DOMAIN store
    <3>1. name \in 1..MaxAttempts
      BY DEF WorkflowInv, Workflow!TypeOK
    <3> QED
      BY <3>1 DEF WorkflowInv, Stored
  <2>7. store'[name] = [files |-> disk, meta |-> meta, sums |-> sums]
    BY <2>5, <2>6
  <2>8. Described'
    BY <1>1, <2>1, <2>2 DEF Described
  <2> QED
    BY <1>1, <1>2, <1>3, <1>5, <1>6, <2>1, <2>2, <2>5, <2>7, <2>8 DEF Calm, Gathered
<1> QED
    BY <1>7, <1>8, <1>9, <1>10, <1>11

(* What validation asks is so. *)
LEMMA UploadedIsValid ==
    ASSUME NoneIsNothing, WorkflowInv, Calm, build = "succeeded"
    PROVE  Workflow!Valid(store[name])
<1>1. store[name] = [files |-> disk, meta |-> meta, sums |-> sums] /\ sums = disk /\ Described
    BY DEF Calm, Gathered
<1>2. /\ disk["firmware"] = attempt /\ disk["audit"] = TRUE /\ disk["exit"] = 0
      /\ disk["report"] = Tested /\ disk["firmware"] # None
    BY AllThere DEF Workflow!Files
<1> DEFINE art == store[name]
<1>3. art.files = disk /\ art.sums = disk /\ art.meta = meta
    BY <1>1
<1>4. /\ art.meta.outcome = "success" /\ art.meta.attempt = attempt
      /\ art.meta.errors = FALSE /\ art.meta.simulation = "passed"
    BY <1>1, <1>3 DEF Described
<1>5. Workflow!Proves(art.files["report"], art.sums["firmware"], attempt)
    BY <1>2, <1>3 DEF Workflow!Proves, Tested
<1> HIDE DEF art
<1>6. Workflow!SimulationProves(art)
    BY <1>4, <1>5 DEF Workflow!SimulationProves
<1>7. Workflow!Valid(art)
    BY <1>2, <1>3, <1>4, <1>6 DEF Workflow!Valid
<1> QED
    BY <1>7 DEF art

LEMMA CalmRelease ==
    ASSUME NoneIsNothing, WorkflowInv, Calm,
           \/ Workflow!Download \/ Workflow!Validate \/ Workflow!CopyFile("firmware")
           \/ Workflow!CopyFile("report") \/ Workflow!WriteNotes
    PROVE  Calm'
<1>1. UNCHANGED <<attempt, name, build, outcome, disk, linked, errors, meta, sums, store>>
    BY DEF Workflow!Download, Workflow!Validate, Workflow!CopyFile, Workflow!WriteNotes,
       Workflow!job
<1>2. Built' /\ Gathered'
  <2>1. Tested' = Tested
    BY <1>1 DEF Tested
  <2>2. Built /\ Gathered
    BY DEF Calm
  <2> QED
    BY <1>1, <2>1, <2>2 DEF Built, Gathered, Described
<1>3. build # "failed" /\ errors = FALSE /\ Fetched
    BY DEF Calm
<1>4. release # "todo" => build = "succeeded"
    BY DEF WorkflowInv, ReleaseInv, Succeeded
<1>5. ASSUME build = "succeeded"
      PROVE  /\ Workflow!Valid(store[name])
             /\ store[name].files = disk /\ store[name].sums = disk /\ sums = disk
  <2>1. Workflow!Valid(store[name])
    BY <1>5, UploadedIsValid
  <2>2. store[name] = [files |-> disk, meta |-> meta, sums |-> sums] /\ sums = disk
    BY <1>5 DEF Calm, Gathered
  <2> QED
    BY <2>1, <2>2
<1>6. CASE Workflow!Download
  <2>1. got' = store[name] /\ release' = "validate"
    BY <1>6 DEF Workflow!Download
  <2> QED
    BY <1>1, <1>2, <1>3, <2>1 DEF Calm, Fetched
<1>7. CASE Workflow!Validate
  <2>1. release = "validate" /\ got' = got /\ pinned' = got.sums
    BY <1>7 DEF Workflow!Validate
  <2>2. got = store[name]
    BY <1>3, <2>1 DEF Fetched
  <2>3. Workflow!Valid(got) /\ got.sums = sums
    BY <1>4, <1>5, <2>1, <2>2
  <2>4. release' = "firmware"
    BY <1>7, <2>3 DEF Workflow!Validate
  <2> QED
    BY <1>1, <1>2, <1>3, <2>1, <2>2, <2>3, <2>4 DEF Calm, Fetched
<1>8. CASE Workflow!CopyFile("firmware") \/ Workflow!CopyFile("report")
  <2>1. /\ release \in {"firmware", "report"} /\ UNCHANGED <<got, pinned>>
        /\ got.files[release] = pinned[release] => release' \in {"report", "notes"}
    BY <1>8 DEF Workflow!CopyFile
  <2>2. got = store[name] /\ pinned = sums
    BY <1>3, <2>1 DEF Fetched
  <2>3. got.files[release] = pinned[release]
    BY <1>4, <1>5, <2>1, <2>2
  <2> QED
    BY <1>1, <1>2, <1>3, <2>1, <2>2, <2>3 DEF Calm, Fetched
<1>9. CASE Workflow!WriteNotes
  <2>1. release = "notes" /\ release' = "done" /\ UNCHANGED <<got, pinned>>
    BY <1>9 DEF Workflow!WriteNotes
  <2> QED
    BY <1>1, <1>2, <1>3, <2>1 DEF Calm, Fetched
<1> QED
    BY <1>6, <1>7, <1>8, <1>9

LEMMA WorkflowInitially ==
    ASSUME MaxAttempts \in Nat \ {0}, MaxFaults \in Nat, Workflow!Init
    PROVE  WorkflowInv
<1>1. Workflow!TypeOK /\ ReleaseInv
    BY WorkflowTyped, InitRelease
<1>2. Stored
  <2>1. attempt = 1 /\ name = 1 /\ store = [n \in 1..MaxAttempts |-> None] /\ 1 \in 1..MaxAttempts
    BY DEF Workflow!Init
  <2> QED
    BY <2>1 DEF Stored
<1>3. Calm
  <2>1. /\ build = "assemble" /\ release = "todo" /\ errors = FALSE
        /\ disk = [f \in Workflow!Files |-> None]
    BY DEF Workflow!Init, Workflow!Nothing
  <2> QED
    BY <2>1 DEF Calm, Built, Gathered, Fetched
<1> QED
    BY <1>1, <1>2, <1>3 DEF WorkflowInv, Undisturbed

LEMMA WorkflowStep ==
    ASSUME MaxAttempts \in Nat \ {0}, MaxFaults \in Nat, NoneIsNothing,
           WorkflowInv, [Workflow!Next]_(Workflow!vars)
    PROVE  WorkflowInv'
<1>1. Workflow!TypeOK' /\ ReleaseInv' /\ Stored'
    BY WorkflowTypedStep, ReleaseStep, StoredStep DEF WorkflowInv
<1>2. ASSUME whole' = TRUE, disturbed' = FALSE PROVE Calm'
  <2>1. CASE Workflow!Work
    <3>1. UNCHANGED <<whole, disturbed>>
      BY <2>1, Zenon DEF Workflow!Work, Workflow!luck,
         Workflow!Assemble, Workflow!AuditFirmware, Workflow!Accept, Workflow!Finish,
         Workflow!Collect, Workflow!Judge, Workflow!Describe, Workflow!Sum, Workflow!Upload,
         Workflow!Download, Workflow!Validate, Workflow!CopyFile, Workflow!WriteNotes
    <3>2. Calm
      BY <1>2, <3>1 DEF WorkflowInv, Undisturbed
    <3>3. whole = TRUE
      BY <1>2, <3>1
    <3> QED
      BY <2>1, <3>2, <3>3, CalmBuild, CalmCollect, CalmRelease DEF Workflow!Work
  <2>2. CASE Workflow!Break \/ Workflow!Overwrite \/ Workflow!CollectLess \/ Workflow!Tamper
    BY <1>2, <2>2 DEF Workflow!Break, Workflow!Overwrite, Workflow!CollectLess,
       Workflow!Tamper, Workflow!Fault
  <2>3. CASE Workflow!RerunAll
    <3>1. /\ build' = "assemble" /\ release' = "todo" /\ errors' = FALSE
          /\ disk' = [f \in Workflow!Files |-> None]
      BY <2>3 DEF Workflow!RerunAll, Workflow!FreshImage, Workflow!FreshRelease,
         Workflow!Nothing
    <3> QED
      BY <3>1 DEF Calm, Built, Gathered, Fetched
  <2>4. CASE Workflow!RerunFailed
    BY <1>2, <2>4 DEF Workflow!RerunFailed
  <2>5. CASE UNCHANGED Workflow!vars
    <3>1. UNCHANGED <<attempt, name, build, outcome, disk, linked, errors, meta, sums, store,
                      release, got, pinned, whole, disturbed>>
      BY <2>5 DEF Workflow!vars, Workflow!job, Workflow!prep, Workflow!luck
    <3>2. Calm
      BY <1>2, <3>1 DEF WorkflowInv, Undisturbed
    <3> QED
      BY <3>1, <3>2 DEF Calm, Built, Gathered, Fetched, Described, Tested
  <2> QED
    BY <2>1, <2>2, <2>3, <2>4, <2>5 DEF Workflow!Next
<1> QED
    BY <1>1, <1>2 DEF WorkflowInv, Undisturbed

LEMMA CalmIsNotRefused == WorkflowInv => Workflow!FailsForReason
<1>1. Workflow!TypeOK => whole \in BOOLEAN /\ disturbed \in BOOLEAN
  BY DEF Workflow!TypeOK
<1> QED
  BY <1>1 DEF WorkflowInv, Undisturbed, Calm, Workflow!FailsForReason

(* An attempt of all jobs that meets no fault is refused by no check,      *)
(* whatever earlier attempts have left: the collector, the upload under    *)
(* the attempt's name and the validation take what the build has made      *)
(* (ci-collect-artifacts.py; ci-prepare-release.py, validate).             *)
THEOREM UndisturbedIsNotRefused ==
    ASSUME MaxAttempts \in Nat \ {0}, MaxFaults \in Nat, NoneIsNothing
    PROVE  Workflow!Spec => []Workflow!FailsForReason
<1>1. Workflow!Init => WorkflowInv
  BY WorkflowInitially
<1>2. WorkflowInv /\ [Workflow!Next]_(Workflow!vars) => WorkflowInv'
  BY WorkflowStep
<1> QED
  BY <1>1, <1>2, CalmIsNotRefused, PTL DEF Workflow!Spec

RefusalInv == Placed /\ Core /\ Cleaned /\ Smooth /\ WorkflowInv

(* No firmware and no attempt is refused without a reason, in whichever    *)
(* part of the channel the behaviour is (qemu_runner.py, execute;          *)
(* ci-collect-artifacts.py; ci-prepare-release.py, validate).              *)
THEOREM NothingIsRefused ==
    ASSUME MaxAttempts \in Nat \ {0}, MaxFaults \in Nat, NoneIsNothing
    PROVE  AcceptanceSpec => []NothingRefused
<1>1. AcceptanceInit => RefusalInv
  <2>1. AcceptanceInit => Init /\ Workflow!Init
    BY Zenon DEF AcceptanceInit, NoRun
  <2>2. Init => Placed /\ Core /\ Cleaned /\ Smooth
    BY PlacedInitially, CoreInitially, SmoothInitially DEF Init, Cleaned
  <2> QED
    BY <2>1, <2>2, WorkflowInitially DEF RefusalInv
<1>2. RefusalInv /\ [AcceptanceNext]_<<releasing, vars, releaseVars>> => RefusalInv'
  <2> SUFFICES ASSUME RefusalInv, [AcceptanceNext]_<<releasing, vars, releaseVars>>
               PROVE  RefusalInv'
    OBVIOUS
  <2>1. [Next]_vars
    BY Zenon DEF AcceptanceNext
  <2>2. [Workflow!Next]_(Workflow!vars)
    <3>1. UNCHANGED releaseVars => UNCHANGED Workflow!vars
      BY DEF releaseVars, Workflow!vars, Workflow!job, Workflow!prep, Workflow!luck
    <3>2. Workflow!Next \/ UNCHANGED releaseVars
      BY Zenon DEF AcceptanceNext
    <3> QED
      BY <3>1, <3>2
  <2>3. (Placed /\ Core /\ Cleaned /\ Smooth)'
    BY <2>1, PlacedStep, CoreStep, CleanedStep, SmoothStep DEF RefusalInv
  <2>4. WorkflowInv'
    BY <2>2, WorkflowStep DEF RefusalInv
  <2> QED
    BY <2>3, <2>4 DEF RefusalInv
<1>3. RefusalInv => NothingRefused
  BY SmoothGoesOn, CalmIsNotRefused DEF RefusalInv, NothingRefused
<1> QED
  BY <1>1, <1>2, <1>3, PTL DEF AcceptanceSpec
=============================================================================
