---------------------------- MODULE AcceptanceRun ----------------------------
(***************************************************************************)
(* testing/qemu_runner.py, which boots a firmware image in QEMU and writes *)
(* the verdict the CI believes, with the phases that it runs in the guest  *)
(* (testing/guest-acceptance.sh).                                          *)
(*                                                                         *)
(* The firmware under test is any of Firmwares; what the guest is asked    *)
(* depends on it, on the disk and on the boot that answers.  Any command   *)
(* may fail or time out, the guest may reboot on its own, QEMU may exit,   *)
(* and signals reach the runner wherever it is (SIGALRM is its deadline).  *)
(***************************************************************************)
EXTENDS Naturals, Sequences

CONSTANTS
    MaxReboots,  \* reboots of the guest nobody asked for
    MaxSignals,  \* signals and deadlines that hit the runner
    NoVM,        \* no QEMU process
    NoState      \* no state file of the phases on the disk

ASSUME BoundsAssumption == MaxReboots \in Nat /\ MaxSignals \in Nat

(* How the image makes its SSH host keys, and whether files survive. *)
Firmwares == [keys : {"shipped", "fixed", "each boot", "first boot"}, persists : BOOLEAN]
Good(f) == f.keys = "first boot" /\ f.persists

Disks == {"primary", "fresh"}
Phases == {"baseline", "packages", "warm", "cold", "fresh"}
Modes == {"execute", "except", "cleanup", "remove", "save", "exit 0", "exit 1"}

(* A QEMU process; the state file of the phases; a private copy of the     *)
(* root; the result of a phase.                                            *)
Machines == [id : Nat, disk : Disks, boot : Nat, up : BOOLEAN]
States == [keys : Nat, boot : Nat]
Copies == [keys : Nat, state : States \cup {NoState}]
Reports == [vm : Nat, boot : Nat, disk : Disks, keys : Nat]

ASSUME NothingAssumption == NoVM \notin Machines /\ NoState \notin States

(* execute, one step after the other *)
Step(do, arg) == [do |-> do, arg |-> arg]
Script ==
    << Step("preflight", ""), Step("copy", "primary"),
       Step("start", "primary"), Step("wait", "first"), Step("login", ""),
       Step("baseline", ""), Step("transfer", ""), Step("packages", ""),
       Step("reboot", ""), Step("wait", "warm"), Step("login", ""), Step("restarted", "warm"),
       Step("stop", ""),
       Step("start", "primary"), Step("wait", "cold"), Step("login", ""), Step("restarted", "cold"),
       Step("stop", ""),
       Step("copy", "fresh"),
       Step("start", "fresh"), Step("wait", "fresh"), Step("login", ""), Step("fresh", ""),
       Step("compare", ""), Step("stop", ""), Step("validate", "") >>

VARIABLES
    firmware,  \* the image under test
    disks,     \* the private copies: host keys and state file
    vm,        \* the QEMU process the runner holds
    boots,     \* boots so far, which number the boot_ids; likewise
    started,   \* QEMU processes so far
    pending,   \* the guest was asked to reboot and has not yet
    step,      \* the next step of execute
    mode,      \* where the runner is: in execute, or in which clause of main
    raised,    \* an exception is to leave main
    initial,   \* initial_boot
    log,       \* evidence: the results of the guest's phases
    status,    \* result["status"] in memory
    file,      \* "status" in result.json
    work,      \* the directory with the private copies exists
    faulted,   \* something other than the firmware failed
    budget     \* reboots and signals left

guest == <<disks, boots, pending>>
main == <<raised, status, file, work>>
vars == <<firmware, disks, vm, boots, started, pending, step, mode, raised,
          initial, log, status, file, work, faulted, budget>>

Unused == [vm |-> 0, boot |-> 0, disk |-> "primary", keys |-> 0]

Init ==
    /\ firmware \in Firmwares
    /\ disks = [d \in Disks |-> [keys |-> 0, state |-> NoState]]
    /\ vm = NoVM /\ boots = 0 /\ started = 0 /\ pending = FALSE
    /\ step = 1 /\ mode = "execute" /\ raised = FALSE
    /\ initial = 0 /\ log = [p \in Phases |-> Unused]
    /\ status = "FAIL" /\ file = "FAIL" /\ work = FALSE
    /\ faulted = FALSE
    /\ budget = [reboots |-> MaxReboots, signals |-> MaxSignals]

At(do) == mode = "execute" /\ Script[step].do = do
Arg == Script[step].arg

(* A step ends; an exception leaves execute. *)
Advance == step' = step + 1 /\ UNCHANGED mode
Raise == mode' = "except" /\ UNCHANGED step
Require(ok) == IF ok THEN Advance ELSE Raise

(***************************************************************************)
(* The guest.                                                              *)
(***************************************************************************)

(* The host keys after a boot of a disk that has old ones (0: none). *)
KeysOfBoot(old) ==
    IF firmware.keys = "first boot" /\ old # 0 THEN old
    ELSE IF firmware.keys \in {"first boot", "each boot"} THEN boots + 1
    ELSE 1

(* A boot from disk d, which loses what the firmware does not keep. *)
Boot(d) ==
    /\ boots' = boots + 1
    /\ disks' = [disks EXCEPT ![d] =
         [keys  |-> KeysOfBoot(@.keys),
          state |-> IF firmware.persists THEN @.state ELSE NoState]]

GuestReboots ==
    /\ pending /\ vm # NoVM /\ vm.up
    /\ pending' = FALSE
    /\ Boot(vm.disk)
    /\ vm' = [vm EXCEPT !.boot = boots + 1]
    /\ UNCHANGED <<firmware, started, step, mode, initial, log, faulted, budget, main>>

GuestCrashes ==
    /\ budget.reboots > 0
    /\ vm # NoVM /\ vm.up
    /\ budget' = [budget EXCEPT !.reboots = @ - 1]
    /\ faulted' = TRUE
    /\ \/ /\ Boot(vm.disk)
          /\ vm' = [vm EXCEPT !.boot = boots + 1]
       \/ /\ vm' = [vm EXCEPT !.up = FALSE]
          /\ UNCHANGED <<disks, boots>>
    /\ UNCHANGED <<firmware, started, pending, step, mode, initial, log, main>>

Disk == disks[vm.disk]
Record(p) == log' = [log EXCEPT ![p] = [vm |-> vm.id, boot |-> vm.boot,
                                        disk |-> vm.disk, keys |-> Disk.keys]]
SaveState(s) == disks' = [disks EXCEPT ![vm.disk].state = s]

(* guest(phase): the result is recorded if the phase succeeds. *)
Phase(p, ok, state) ==
    /\ Require(vm.up /\ ok)
    /\ IF vm.up /\ ok THEN Record(p) /\ SaveState(state) ELSE UNCHANGED <<log, disks>>
    /\ UNCHANGED <<firmware, vm, boots, started, pending, initial, faulted, budget, main>>

(***************************************************************************)
(* execute.                                                                *)
(***************************************************************************)
Preflight ==
    /\ At("preflight")
    /\ Require(firmware.keys # "shipped")
    /\ work' = TRUE
    /\ UNCHANGED <<firmware, guest, vm, started, initial, log, faulted, budget, raised, status, file>>

Copy ==
    /\ At("copy")
    /\ disks' = [disks EXCEPT ![Arg] = [keys |-> 0, state |-> NoState]]
    /\ Advance
    /\ UNCHANGED <<firmware, vm, boots, started, pending, initial, log, faulted, budget, main>>

Start ==
    /\ At("start")
    /\ vm = NoVM      \* required, and so it is: Stop has been there
    /\ started' = started + 1
    /\ Boot(Arg)
    /\ vm' = [id |-> started + 1, disk |-> Arg, boot |-> boots + 1, up |-> TRUE]
    /\ pending' = FALSE
    /\ Advance
    /\ UNCHANGED <<firmware, initial, log, faulted, budget, main>>

(* The boot_id that is not accepted as an answer. *)
Previous == CASE Arg = "warm" -> initial
              [] Arg = "cold" -> log["warm"].boot
              [] OTHER -> 0

(* Mutant: any boot that answers will do. *)
WaitForAny ==
    /\ At("wait")
    /\ Require(vm.up)
    /\ initial' = IF Arg = "first" THEN vm.boot ELSE initial
    /\ UNCHANGED <<firmware, guest, vm, started, log, faulted, budget, main>>

(* wait_ssh: asks until another boot answers (or the deadline: Fault). *)
Wait ==
    /\ At("wait")
    /\ vm.up => vm.boot # Previous
    /\ Require(vm.up)
    /\ initial' = IF Arg = "first" THEN vm.boot ELSE initial
    /\ UNCHANGED <<firmware, guest, vm, started, log, faulted, budget, main>>

(* login, and the transfer of the package *)
Command ==
    /\ At("login") \/ At("transfer")
    /\ Require(vm.up)
    /\ UNCHANGED <<firmware, guest, vm, started, initial, log, faulted, budget, main>>

Baseline ==
    /\ At("baseline")
    /\ Phase("baseline", Disk.state = NoState /\ vm.boot = initial,
             [keys |-> Disk.keys, boot |-> vm.boot])

Packages ==
    /\ At("packages")
    /\ Phase("packages", Disk.state # NoState, Disk.state)

(* The request is not checked: it may have been lost. *)
Reboot ==
    /\ At("reboot")
    /\ \/ pending' = vm.up /\ UNCHANGED faulted
       \/ UNCHANGED pending /\ faulted' = TRUE
    /\ Advance
    /\ UNCHANGED <<firmware, disks, boots, vm, started, initial, log, budget, main>>

(* Mutant: the host keys are not compared with those before the restart. *)
RestartedUnkeyed ==
    /\ At("restarted")
    /\ Phase(Arg, Disk.state # NoState /\ vm.boot # Disk.state.boot,
             [Disk.state EXCEPT !.boot = vm.boot])

(* The phases warm and cold: what baseline left is there, with its keys, *)
(* and this is another boot.                                              *)
Restarted ==
    /\ At("restarted")
    /\ Phase(Arg, /\ Disk.state # NoState
                  /\ Disk.keys = Disk.state.keys
                  /\ vm.boot # Disk.state.boot,
             [Disk.state EXCEPT !.boot = vm.boot])

Fresh ==
    /\ At("fresh")
    /\ Phase("fresh", Disk.state = NoState, Disk.state)

Compare ==
    /\ At("compare")
    /\ Require(log["baseline"].keys # log["fresh"].keys)
    /\ UNCHANGED <<firmware, guest, vm, started, initial, log, faulted, budget, main>>

(* stop(graceful=True): the guest powers off and QEMU ends. *)
Stop ==
    /\ At("stop")
    /\ vm' = NoVM
    /\ pending' = FALSE
    /\ Advance
    /\ UNCHANGED <<firmware, disks, boots, started, initial, log, faulted, budget, main>>

(* Mutant: the verdict is written where it is reached. *)
ValidateAndSave ==
    /\ At("validate")
    /\ status' = "PASS" /\ file' = "PASS"
    /\ mode' = "cleanup"
    /\ UNCHANGED <<firmware, guest, vm, started, step, initial, log, faulted, budget, raised, work>>

(* The final checks of the inputs and of the result: every phase has       *)
(* reported.  The candidate becomes the result, and finally runs.          *)
Validate ==
    /\ At("validate")
    /\ IF \A p \in Phases : log[p] # Unused
         THEN status' = "PASS" /\ mode' = "cleanup"
         ELSE status' = status /\ mode' = "except"
    /\ UNCHANGED <<firmware, guest, vm, started, step, initial, log, faulted, budget, raised, file, work>>

(* A command fails or a time limit passes; after a step's effect this is a *)
(* failure of the next one.  A stop that fails kills QEMU in its finally.  *)
Fault ==
    /\ mode = "execute"
    /\ faulted' = TRUE
    /\ Raise
    /\ vm' \in (IF At("stop") THEN {vm, NoVM} ELSE {vm})
    /\ UNCHANGED <<firmware, guest, started, initial, log, budget, main>>

(***************************************************************************)
(* main: except, finally, and the last save.                               *)
(***************************************************************************)
Except ==
    /\ mode = "except"
    /\ status' = "FAIL"
    /\ mode' = "cleanup"
    /\ UNCHANGED <<firmware, guest, vm, started, step, initial, log, faulted, budget, raised, file, work>>

CleanupStops ==
    /\ mode = "cleanup"
    /\ vm' = NoVM
    /\ mode' = "remove"
    /\ UNCHANGED <<firmware, guest, started, step, initial, log, faulted, budget, main>>

CleanupRemoves ==
    /\ mode = "remove"
    /\ work' = FALSE
    /\ mode' = "save"
    /\ UNCHANGED <<firmware, guest, vm, started, step, initial, log, faulted, budget, raised, status, file>>

(* QEMU cannot be stopped, or the copies cannot be removed. *)
CleanupFails ==
    /\ mode \in {"cleanup", "remove"}
    /\ status' = "FAIL" /\ faulted' = TRUE
    /\ mode' = "save"
    /\ vm' \in {vm, NoVM}
    /\ UNCHANGED <<firmware, guest, started, step, initial, log, budget, raised, file, work>>

Save ==
    /\ mode = "save"
    /\ file' = status
    /\ mode' = IF raised \/ status = "FAIL" THEN "exit 1" ELSE "exit 0"
    /\ UNCHANGED <<firmware, guest, vm, started, step, initial, log, faulted, budget, raised, status, work>>

(* The handler raises wherever the runner is: in execute and at its end    *)
(* like any failure, in except on the way to finally, in cleanup as a      *)
(* failure of cleanup, in front of cleanup and in the last save out of main. *)
Signal ==
    /\ budget.signals > 0
    /\ budget' = [budget EXCEPT !.signals = @ - 1]
    /\ faulted' = TRUE
    /\ \/ mode = "execute" /\ mode' = "except" /\ UNCHANGED <<raised, status, file>>
       \/ /\ mode = "cleanup" /\ status = "PASS" /\ ~raised
          /\ mode' = "except" /\ UNCHANGED <<raised, status, file>>
       \/ mode = "except" /\ mode' = "cleanup" /\ raised' = TRUE /\ UNCHANGED <<status, file>>
       \/ /\ mode \in {"cleanup", "remove"}
          /\ status' = "FAIL" /\ mode' = "save"
          /\ UNCHANGED <<raised, file>>
       \/ mode = "cleanup" /\ mode' = "exit 1" /\ UNCHANGED <<raised, status, file>>
       \/ mode = "save" /\ mode' = "exit 1" /\ file' \in {file, status} /\ UNCHANGED <<raised, status>>
    /\ UNCHANGED <<firmware, guest, vm, started, step, initial, log, work>>

Execute ==
    \/ Preflight \/ Copy \/ Start \/ Wait \/ Command \/ Baseline \/ Packages
    \/ Reboot \/ Restarted \/ Fresh \/ Compare \/ Stop \/ Validate

Runner == Execute \/ Except \/ CleanupStops \/ CleanupRemoves \/ Save

Next == Runner \/ GuestReboots \/ GuestCrashes \/ Fault \/ CleanupFails \/ Signal

(* The runner runs, and a guest that was asked to reboot does. *)
Spec == Init /\ [][Next]_vars /\ WF_vars(Runner) /\ WF_vars(GuestReboots)

-----------------------------------------------------------------------------
(* The types; above all execute never runs off its end. *)
TypeOK ==
    /\ firmware \in Firmwares
    /\ disks \in [Disks -> Copies]
    /\ vm \in Machines \cup {NoVM}
    /\ boots \in Nat /\ started \in Nat /\ initial \in Nat
    /\ pending \in BOOLEAN
    /\ step \in DOMAIN Script /\ mode \in Modes
    /\ log \in [Phases -> Reports]
    /\ raised \in BOOLEAN
    /\ status \in {"PASS", "FAIL"} /\ file \in {"PASS", "FAIL"}
    /\ work \in BOOLEAN /\ faulted \in BOOLEAN
    /\ budget \in [reboots : 0..MaxReboots, signals : 0..MaxSignals]

(* PASS in result.json is earned, whatever failed or rebooted on the way:  *)
(* the firmware is good, the warm phase ran in a later boot of the machine *)
(* of the baseline, the cold phase in a later boot of another machine from *)
(* the same disk, the last one on a disk of its own, and no machine and no *)
(* private copy is left behind a verdict that says so (main, 379-387; docs/*)
(* CONTAINER-TESTING.md, "What actually runs"; execute, 284-327).          *)
VerdictIsEarned ==
    file = "PASS" =>
        /\ Good(firmware)
        /\ log["baseline"].vm = log["warm"].vm /\ log["warm"].vm < log["cold"].vm
        /\ log["baseline"].boot < log["warm"].boot
        /\ log["warm"].boot < log["cold"].boot
        /\ log["cold"].disk = "primary" /\ log["fresh"].disk = "fresh"
        /\ vm = NoVM /\ ~work

(* No step refuses a good firmware when nothing else failed, and none      *)
(* waits for a boot that does not come.                                    *)
GoodFirmwareGoesOn ==
    Good(firmware) /\ ~faulted =>
        /\ mode \notin {"except", "exit 1"}
        /\ At("wait") => vm.up /\ (pending \/ vm.boot # Previous)

(* A good firmware passes unless something else failed: no order in which  *)
(* boots and answers come makes the test fail by itself.                   *)
GoodFirmwarePasses == <>(Good(firmware) => faulted \/ file = "PASS")
=============================================================================
