---------------------------- MODULE MCAcceptance ----------------------------
(* From the verdict to the release: the run in QEMU that writes the        *)
(* verdict; and the attempts of a workflow run, which build, have QEMU     *)
(* accept, collect and prepare.  There the QEMU run is one step, so a      *)
(* behaviour is one of the one or of the other.                            *)
EXTENDS AcceptanceRun

CONSTANTS MaxAttempts, MaxFaults, None

VARIABLES releasing, attempt, name, whole, build, outcome, disk, linked, errors, meta, sums, store,
          release, got, pinned, out, faults, disturbed

releaseVars == <<attempt, name, whole, build, outcome, disk, linked, errors, meta, sums, store,
                 release, got, pinned, out, faults, disturbed>>

Workflow == INSTANCE Provenance

(* One good firmware is enough where the run does not move. *)
NoRun == Init /\ firmware = [keys |-> "first boot", persists |-> TRUE]

AcceptanceInit ==
    /\ Workflow!Init
    /\ \/ releasing = FALSE /\ Init
       \/ releasing = TRUE /\ NoRun

AcceptanceNext ==
    \/ ~releasing /\ Next /\ UNCHANGED <<releasing, releaseVars>>
    \/ releasing /\ Workflow!Next /\ UNCHANGED <<releasing, vars>>

AcceptanceSpec ==
    /\ AcceptanceInit /\ [][AcceptanceNext]_<<releasing, vars, releaseVars>>
    /\ WF_vars(~releasing /\ Runner) /\ WF_vars(~releasing /\ GuestReboots)
    /\ WF_releaseVars(releasing /\ Workflow!Work)

(* What an attempt prepares, QEMU accepted in that attempt (Provenance).   *)
PreparedIsProven == Workflow!PreparedIsProven

(* Neither a good firmware nor an attempt that meets no fault is refused   *)
(* on the way (qemu_runner.py, execute; ci-collect-artifacts.py;           *)
(* ci-prepare-release.py, validate).                                       *)
NothingRefused == GoodFirmwareGoesOn /\ Workflow!FailsForReason

(* The way to a release is open: a good firmware passes when nothing else  *)
(* fails, and an attempt of all jobs that meets no fault prepares it,      *)
(* whatever earlier attempts have left behind.  NothingRefused is the half *)
(* of it that is safety.                                                   *)
UndisturbedPasses ==
    /\ releasing \/ GoodFirmwarePasses
    /\ ~releasing \/ Workflow!UndisturbedPrepares
=============================================================================
