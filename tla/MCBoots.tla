------------------------------- MODULE MCBoots -------------------------------
(* What a board runs before, or instead of, its system: the factory's      *)
(* units, the RAM diagnostic, and the builds of what loads that.  They     *)
(* share no state, so a behaviour is one of one of them.                   *)
EXTENDS FactoryBoot

CONSTANTS Bite, Attempts, MaxLate, MaxFaults, Builds, Kernels, Initrds, Trees, Orders, MaxChanges

VARIABLES part,
    step, failed, keeper, attempt, device, late, left, shell, key, sshd, faults,
    kernel, initrd, tree, changes, fits, reports, manifest, job

diagnosticVars == <<step, failed, keeper, attempt, device, late, left, shell, key, sshd, faults>>
fitVars == <<kernel, initrd, tree, changes, fits, reports, manifest, job>>
allVars == <<part, vars, diagnosticVars, fitVars>>

Diagnostic == INSTANCE RamDiagnostic
Images == INSTANCE DiagnosticFits

ASSUME KeeperAssumption == Diagnostic!KeeperSuffices
ASSUME InputsAssumption == Images!InputsAreFiles

(* What the other parts' variables are in a behaviour of one. *)
NoFactory ==
    /\ board = <<>> /\ boot = <<>> /\ root = "rw" /\ policy = [p \in Ports |-> None]
    /\ address = [p \in Ports |-> Kernel] /\ up = {} /\ networkd = "running" /\ mac = "done"
    /\ port = 0 /\ cut = FALSE /\ blocks = 0 /\ resize = "failed" /\ losses = 0
NoDiagnostic ==
    /\ step = 1 /\ failed = TRUE /\ keeper = "none" /\ attempt = 0 /\ device = TRUE /\ late = 0
    /\ left = Bite /\ shell = "none" /\ key = FALSE /\ sshd = FALSE /\ faults = 0
NoImages ==
    /\ kernel = <<>> /\ initrd = <<>> /\ tree = <<>> /\ changes = 0
    /\ fits = <<>> /\ reports = <<>> /\ manifest = <<>> /\ job = <<>>

BootsInit ==
    \/ part = "factory" /\ Init /\ NoDiagnostic /\ NoImages
    \/ part = "diagnostic" /\ Diagnostic!Init /\ NoFactory /\ NoImages
    \/ part = "images" /\ Images!Init /\ NoFactory /\ NoDiagnostic

InFactory(action) == part = "factory" /\ action /\ UNCHANGED <<part, diagnosticVars, fitVars>>
InDiagnostic(action) == part = "diagnostic" /\ action /\ UNCHANGED <<part, vars, fitVars>>

BootsNext ==
    \/ InFactory(Next)
    \/ InDiagnostic(Diagnostic!Next)
    \/ part = "images" /\ Images!Next /\ UNCHANGED <<part, vars, diagnosticVars>>

(* The fairness of FactoryBoot and that of RamDiagnostic. *)
BootsSpec ==
    /\ BootsInit /\ [][BootsNext]_allVars
    /\ WF_allVars(InFactory(Units)) /\ WF_allVars(InFactory(StartNetworkd))
    /\ WF_allVars(InDiagnostic(Diagnostic!Pid1)) /\ WF_allVars(InDiagnostic(Diagnostic!Keeper))
    /\ WF_allVars(InDiagnostic(Diagnostic!Shell))

(* The firmware's watchdog resets the board only in the failures that      *)
(* leave nothing to feed it with (init-network-first, 50-82).              *)
NeverBites == part = "diagnostic" => Diagnostic!TypeOK /\ Diagnostic!NeverBites

(* A published manifest names FITs that are there, of one kernel and one   *)
(* initrd, and what a FIT loads overlaps nothing, whoever built into the   *)
(* same directory and whichever input changed (build-fits.py, 80-92 and    *)
(* 145-168; fit_common.py, 308-324).                                       *)
FitsAreSound ==
    part = "images" =>
        Images!TypeOK /\ Images!ManifestIsTrue /\ Images!OneExperiment /\ Images!RangesApart

(* A board gets on the network whatever fails on the way: networkd starts  *)
(* without its mac unit, and the diagnostic's sshd is started again.       *)
BoardComesUp == NetworkComesUp /\ Diagnostic!ServerReturns

-----------------------------------------------------------------------------
(* Boards as made, with names swapped, with equal or invalid addresses, or *)
(* with another partition table; boots with and without a usable netplan   *)
(* file or a policy of somebody else.                                      *)
Board(layout, order, first, second) ==
    [layout |-> layout, order |-> order, macs |-> [p \in Ports |-> IF p = 0 THEN first ELSE second]]

MCBoards == {Board(TRUE, TRUE, "m0", "m1"), Board(TRUE, FALSE, "m0", "m1"),
             Board(TRUE, TRUE, "m0", "m0"), Board(TRUE, TRUE, "m0", "zero"),
             Board(FALSE, TRUE, "m0", "m1")}
MCBoots == {[base |-> "wired", foreign |-> {}], [base |-> "unfamiliar", foreign |-> {}],
            [base |-> "wired", foreign |-> {1}]}

(* Inputs that just fit and that just do not; all the variants at the      *)
(* default addresses, single ones at the lowest, one out of RAM.           *)
File(name, size) == [name |-> name, size |-> size]
MCKernels == {File("old", 96), File("new", 95)}
MCInitrds == {File("old", 91), File("new", 92)}
MCTrees == {File("old", 3), File("new", 4)}

Order(variants, ramdisk, fdt) == [variants |-> variants, ramdisk |-> ramdisk, fdt |-> fdt]
Matrix == <<"40000000-initrd", "40080000-initrd", "40000000-no-initrd">>
MCOrders == {Order(Matrix, 96, 188), Order(<<Matrix[3]>>, 96, 128),
             Order(<<Matrix[1]>>, 32, 188), Order(<<Matrix[3]>>, 32, 2048)}
=============================================================================
