----------------------------- MODULE MCFactory -----------------------------
(* How the factory firmware is made: the preparation of its root           *)
(* filesystem, step by step; and runs of the build around it.  In the      *)
(* build the preparation is one step, so a behaviour is one of the one or  *)
(* of the other.                                                           *)
EXTENDS FactoryRootfs

CONSTANTS Builds, MaxFaults, None

VARIABLES building, image, output, status, rest, open, work, loops, mounts, stuck, upset, faults

buildVars == <<image, output, status, rest, open, work, loops, mounts, stuck, upset, faults>>

Build == INSTANCE FactoryBuild WITH Runs <- Builds, disturbed <- upset

ASSUME BuildAssumption == MaxFaults \in Nat /\ Sources # {}

(* What the variables of the other one are. *)
NoPreparation ==
    /\ item = [i \in Items |-> "old"] /\ boot = Empty /\ held = TRUE
    /\ source = (CHOOSE s \in Sources : TRUE) /\ expected = source
    /\ staging = "none" /\ temp = FALSE /\ litter = FALSE
    /\ pc = "idle" /\ place = 1 /\ runs = 0 /\ disturbed = FALSE

FactoryInit ==
    /\ Build!Init
    /\ \/ building = FALSE /\ Init
       \/ building = TRUE /\ NoPreparation

FactoryNext ==
    \/ ~building /\ Next /\ UNCHANGED <<building, buildVars>>
    \/ building /\ Build!Next /\ UNCHANGED <<building, vars>>

FactorySpec ==
    /\ FactoryInit /\ [][FactoryNext]_<<building, vars, buildVars>>
    /\ WF_vars(~building /\ Step)
    /\ \A r \in Builds : WF_buildVars(building /\ Build!Work(r))

(* What is published is complete and of the one image whose hash it gives, *)
(* and only once (FactoryBuild).                                           *)
OutputIsOfOneImage == Build!OutputIsOfOneImage
PublishedOnce == Build!PublishedOnce

(* A run that is over leaves no loop device behind, and packs the root     *)
(* only when it has released it (factory_firmware.py, 864-892); devices    *)
(* and mounts are of runs that are in the block, as the types say.         *)
NothingLeftMounted ==
    TypeOK /\ Build!TypeOK /\ Build!NothingLeftMounted /\ Build!PackedAtRest

(* A run that meets no fault is refused only what it should be refused: a  *)
(* root that is not Armbian's, and an output that is there.                *)
FailedForReason == RefusedForReason /\ Build!FailsForReason

(* Neither a root that was left half prepared, nor devices and directories *)
(* of builds that were killed, stop a run that meets no fault.             *)
UndisturbedFinishes == []FailedForReason /\ RetryFinishes /\ Build!UndisturbedPublishes

MCFiles == <<"helper">>
MCLinks == <<"mask">>

(* Every mixture of items that are as Armbian left them and as they should *)
(* be, with at most one that is neither: one is enough to be refused.      *)
MCRoots == {root \in [Items -> {"old", "new", "foreign"}] :
                \A i, j \in Items : root[i] = "foreign" /\ root[j] = "foreign" => i = j}
=============================================================================
