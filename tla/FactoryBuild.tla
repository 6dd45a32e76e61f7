---------------------------- MODULE FactoryBuild ----------------------------
(***************************************************************************)
(* scripts/build-factory-firmware.py: from an audited image to the TAR for *)
(* U-Boot, with the loop mounts of factory_firmware.mounted, and the audit *)
(* of verify-factory-firmware.py that comes before the TAR is published.   *)
(* Runs with one image and one output may overlap or follow one another.   *)
(***************************************************************************)
EXTENDS Naturals, Sequences, SequencesExt

CONSTANTS
    Runs,
    MaxFaults,  \* bound: failures, kills and changes of the input together
    None

Do(step) == <<"do", step>>
Enter(mount) == <<"enter", mount>>
Leave(mount) == <<"leave", mount>>

(* build, with the audit of its result. *)
Script ==
    <<Do("absent"), Do("hash"), Do("copy"), Do("identify"),
      Enter("boot"), Enter("root"), Do("prepare"), Do("fit"), Do("evidence"), Do("verify"),
      Leave("root"), Leave("boot"), Do("fsck"),
      Enter("source"), Enter("target"), Do("cp"), Do("compare"), Leave("target"),
      Leave("source"), Do("fsck"), Do("swap"), Do("control"), Do("pack"), Do("rehash"),
      Enter("audit"), Do("audit"), Leave("audit"), Do("link"), Do("report")>>

Mounts == {"boot", "root", "source", "target", "audit"}

VARIABLES
    image,     \* the version of the input image
    output,    \* the published TAR
    status,    \* each run: "new", "running", "failing", "killed", "pass"
    rest,      \* the steps of Script that it has still to do
    open,      \* the with blocks it is in, the outermost first
    work,      \* what its scratch directory holds
    loops, mounts, \* <<run, mount>>: loop devices set up, filesystems mounted
    stuck,     \* runs whose umount or losetup -d failed
    disturbed, \* runs that met a fault
    faults     \* faults so far

machine == <<loops, mounts, stuck>>
luck == <<disturbed, faults>>
vars == <<image, output, status, rest, open, work, machine, luck>>

(* A root filesystem: the image it was copied from, the bootfs put into    *)
(* its /boot, whether the DTB there has the boot arguments, and whether    *)
(* every file, owner, link and attribute is there.                         *)
RootOf(version) == [from |-> version, boot |-> None, patched |-> FALSE, whole |-> TRUE]

Scratch == [before |-> None, root |-> None, new |-> None, fit |-> None,
            evidence |-> None, control |-> None]

Here(r, step) == status[r] = "running" /\ Head(rest[r]) = step

Disturb(rs) == faults < MaxFaults /\ faults' = faults + 1 /\ disturbed' = disturbed \cup rs

Step(r) == rest' = [rest EXCEPT ![r] = Tail(@)]

(* A check fails: the exception leaves the with blocks. *)
Raise(r) == status' = [status EXCEPT ![r] = "failing"] /\ UNCHANGED rest

Require(r, condition) == IF condition THEN Step(r) /\ UNCHANGED status ELSE Raise(r)

Put(r, field, value) == work' = [work EXCEPT ![r][field] = value]

Start(r) ==
    /\ status[r] = "new"
    /\ status' = [status EXCEPT ![r] = "running"]
    /\ UNCHANGED <<image, output, rest, open, work, machine, luck>>

(* Nothing at the output's path, before anything is done.                  *)
OutputAbsent(r) ==
    /\ Here(r, Do("absent"))
    /\ Require(r, output = None)
    /\ UNCHANGED <<image, output, open, work, machine, luck>>

HashInput(r) ==
    /\ Here(r, Do("hash"))
    /\ Put(r, "before", image) /\ Step(r)
    /\ UNCHANGED <<image, output, status, open, machine, luck>>

(* The partition's bytes, into a new scratch directory.                    *)
CopyRoot(r) ==
    /\ Here(r, Do("copy"))
    /\ Put(r, "root", RootOf(image)) /\ Step(r)
    /\ UNCHANGED <<image, output, status, open, machine, luck>>

(* prepare-factory-rootfs.py: FactoryRootfs. *)
Prepare(r) ==
    /\ Here(r, Do("prepare"))
    /\ Put(r, "root", [work[r].root EXCEPT !.boot = image]) /\ Step(r)
    /\ UNCHANGED <<image, output, status, open, machine, luck>>

(* make_fit patches the DTB in the root's /boot and takes kernel, initrd   *)
(* and DTB from there.                                                     *)
MakeFit(r) ==
    /\ Here(r, Do("fit"))
    /\ work' = [work EXCEPT ![r].root.patched = TRUE,
                            ![r].fit = [boot |-> work[r].root.boot, patched |-> TRUE]]
    /\ Step(r)
    /\ UNCHANGED <<image, output, status, open, machine, luck>>

CollectEvidence(r) ==
    /\ Here(r, Do("evidence"))
    /\ Put(r, "evidence", work[r].root) /\ Step(r)
    /\ UNCHANGED <<image, output, status, open, machine, luck>>

(* cp -a into a new filesystem. *)
CopyFiles(r) ==
    /\ Here(r, Do("cp"))
    /\ Put(r, "new", work[r].root) /\ Step(r)
    /\ UNCHANGED <<image, output, status, open, machine, luck>>

(* It loses an attribute, an owner or a link, and does not say so. *)
CopyLoses(r) ==
    /\ Here(r, Do("cp"))
    /\ Put(r, "new", [work[r].root EXCEPT !.whole = FALSE]) /\ Step(r)
    /\ Disturb({r})
    /\ UNCHANGED <<image, output, status, open, machine>>

(* filesystem_manifest of both. *)
CompareFiles(r) ==
    /\ Here(r, Do("compare"))
    /\ Require(r, work[r].new = work[r].root)
    /\ UNCHANGED <<image, output, open, work, machine, luck>>

Swap(r) ==
    /\ Here(r, Do("swap"))
    /\ Put(r, "root", work[r].new) /\ Step(r)
    /\ UNCHANGED <<image, output, status, open, machine, luck>>

(* CONTROL names the input, the evidence and the hash of each payload.     *)
WriteControl(r) ==
    /\ Here(r, Do("control"))
    /\ Put(r, "control", [source |-> work[r].before, evidence |-> work[r].evidence,
                          fit |-> work[r].fit, root |-> work[r].root])
    /\ Step(r)
    /\ UNCHANGED <<image, output, status, open, machine, luck>>

(* Mutant: not hashed again. *)
Unhashed(r) ==
    /\ Here(r, Do("rehash"))
    /\ Require(r, TRUE)
    /\ UNCHANGED <<image, output, open, work, machine, luck>>

HashAgain(r) ==
    /\ Here(r, Do("rehash"))
    /\ Require(r, image = work[r].before)
    /\ UNCHANGED <<image, output, open, work, machine, luck>>

(* verify, of the TAR's own copies: payloads and evidence as in CONTROL,   *)
(* /boot and the FIT byte for byte the same.                               *)
Sound(control) ==
    /\ control.evidence = control.root
    /\ control.fit.boot = control.root.boot /\ control.fit.patched = control.root.patched

Audit(r) ==
    /\ Here(r, Do("audit"))
    /\ Require(r, Sound(work[r].control))
    /\ UNCHANGED <<image, output, open, work, machine, luck>>

(* Mutant: os.replace. *)
Replace(r) ==
    /\ Here(r, Do("link"))
    /\ output' = work[r].control /\ Step(r)
    /\ UNCHANGED <<image, status, open, work, machine, luck>>

(* os.link *)
Publish(r) ==
    /\ Here(r, Do("link"))
    /\ Require(r, output = None)
    /\ output' = IF output = None THEN work[r].control ELSE output
    /\ UNCHANGED <<image, open, work, machine, luck>>

(* Commands and checks that change nothing modelled; e2fsck, blkid, the    *)
(* system audits and tar may fail as Fail does.                            *)
Other(r) ==
    /\ \E step \in {"identify", "verify", "fsck", "pack"} : Here(r, Do(step))
    /\ Step(r)
    /\ UNCHANGED <<image, output, status, open, work, machine, luck>>

Report(r) ==
    /\ Here(r, Do("report"))
    /\ status' = [status EXCEPT ![r] = "pass"]
    /\ UNCHANGED <<image, output, rest, open, work, machine, luck>>

-----------------------------------------------------------------------------
Inner(r) == Last(open[r])
Top(r) == <<r, Inner(r)>>

Within(r, mount) == open[r] # <<>> /\ Inner(r) = mount

(* Mutant: always the same loop device. *)
AttachFixed(r) ==
    \E mount \in Mounts :
        /\ Here(r, Enter(mount)) /\ ~Within(r, mount)
        /\ {l \in loops : l[2] = mount} = {}
        /\ loops' = loops \cup {<<r, mount>>}
        /\ open' = [open EXCEPT ![r] = Append(@, mount)]
        /\ UNCHANGED <<image, output, status, rest, work, mounts, stuck, luck>>

(* losetup --find *)
Attach(r) ==
    \E mount \in Mounts :
        /\ Here(r, Enter(mount)) /\ ~Within(r, mount)
        /\ loops' = loops \cup {<<r, mount>>}
        /\ open' = [open EXCEPT ![r] = Append(@, mount)]
        /\ UNCHANGED <<image, output, status, rest, work, mounts, stuck, luck>>

Mount(r) ==
    /\ open[r] # <<>> /\ Here(r, Enter(Inner(r)))
    /\ mounts' = mounts \cup {Top(r)}
    /\ Step(r)
    /\ UNCHANGED <<image, output, status, open, work, loops, stuck, luck>>

(* The finally of the innermost block is due. *)
Leaving(r) ==
    /\ open[r] # <<>>
    /\ status[r] = "failing" \/ Here(r, Leave(Inner(r)))

Unmount(r) ==
    /\ Leaving(r) /\ Top(r) \in mounts
    /\ mounts' = mounts \ {Top(r)}
    /\ UNCHANGED <<image, output, status, rest, open, work, loops, stuck, luck>>

(* Mutant: a failure of umount is ignored. *)
DetachAnyway(r) ==
    /\ Leaving(r)
    /\ loops' = loops \ {Top(r)}
    /\ open' = [open EXCEPT ![r] = Front(@)]
    /\ IF status[r] = "running" THEN Step(r) ELSE UNCHANGED rest
    /\ UNCHANGED <<image, output, status, work, mounts, stuck, luck>>

Detach(r) ==
    /\ Leaving(r) /\ Top(r) \notin mounts
    /\ loops' = loops \ {Top(r)}
    /\ open' = [open EXCEPT ![r] = Front(@)]
    /\ IF status[r] = "running" THEN Step(r) ELSE UNCHANGED rest
    /\ UNCHANGED <<image, output, status, work, mounts, stuck, luck>>

(* Mutant: a failure to release is logged, and the build goes on. *)
LeaveAnyway(r) ==
    /\ Leaving(r)
    /\ open' = [open EXCEPT ![r] = Front(@)]
    /\ IF status[r] = "running" THEN Step(r) ELSE UNCHANGED rest
    /\ Disturb({r})
    /\ UNCHANGED <<image, output, status, work, machine>>

(* findmnt names another device, or umount or losetup -d fails: the loop   *)
(* is kept for manual recovery, and the outer block is left.               *)
CannotLeave(r) ==
    /\ Leaving(r)
    /\ open' = [open EXCEPT ![r] = Front(@)]
    /\ status' = [status EXCEPT ![r] = "failing"]
    /\ stuck' = stuck \cup {r} /\ Disturb({r})
    /\ UNCHANGED <<image, output, rest, work, loops, mounts>>

(* Mutant: a failed command ends the process at once. *)
FailAtOnce(r) ==
    /\ status[r] = "running" /\ ~Leaving(r)
    /\ status' = [status EXCEPT ![r] = "failing"]
    /\ open' = [open EXCEPT ![r] = <<>>]
    /\ Disturb({r})
    /\ UNCHANGED <<image, output, rest, work, machine>>

(* Any command fails, and disturbs what it was doing.                      *)
Fail(r) ==
    /\ status[r] = "running" /\ ~Leaving(r)
    /\ status' = [status EXCEPT ![r] = "failing"]
    /\ Disturb({r})
    /\ UNCHANGED <<image, output, rest, open, work, machine>>

(* SIGKILL *)
Kill(r) ==
    /\ status[r] \in {"running", "failing"}
    /\ status' = [status EXCEPT ![r] = "killed"]
    /\ Disturb({r})
    /\ UNCHANGED <<image, output, rest, open, work, machine>>

(* Somebody writes to the input; nobody restores the bytes of before.      *)
ImageChanges ==
    /\ image' = image + 1
    /\ Disturb({r \in Runs : status[r] \in {"running", "failing"}})
    /\ UNCHANGED <<output, status, rest, open, work, machine>>

-----------------------------------------------------------------------------
Init ==
    /\ image = 0 /\ output = None
    /\ status = [r \in Runs |-> "new"]
    /\ rest = [r \in Runs |-> Script]
    /\ open = [r \in Runs |-> <<>>]
    /\ work = [r \in Runs |-> Scratch]
    /\ loops = {} /\ mounts = {} /\ stuck = {} /\ disturbed = {} /\ faults = 0

Work(r) ==
    \/ OutputAbsent(r) \/ HashInput(r) \/ CopyRoot(r) \/ Prepare(r) \/ MakeFit(r)
    \/ CollectEvidence(r) \/ CopyFiles(r) \/ CompareFiles(r) \/ Swap(r) \/ WriteControl(r)
    \/ HashAgain(r) \/ Audit(r) \/ Publish(r) \/ Other(r) \/ Report(r)
    \/ Attach(r) \/ Mount(r) \/ Unmount(r) \/ Detach(r)

Next ==
    \/ \E r \in Runs : Start(r) \/ Work(r) \/ CopyLoses(r) \/ CannotLeave(r) \/ Fail(r) \/ Kill(r)
    \/ ImageChanges

Spec == Init /\ [][Next]_vars /\ \A r \in Runs : WF_vars(Work(r))

-----------------------------------------------------------------------------
Versions == 0..MaxFaults
OrNone(S) == S \cup {None}
RootImages == [from : Versions, boot : OrNone(Versions), patched : BOOLEAN, whole : BOOLEAN]
Fits == [boot : Versions, patched : {TRUE}]

TypeOK ==
    /\ image \in Versions
    /\ status \in [Runs -> {"new", "running", "failing", "killed", "pass"}]
    /\ \A r \in Runs : rest[r] # <<>> /\ IsSuffix(rest[r], Script)
    /\ \A r \in Runs :
        /\ open[r] \in Seq(Mounts)
        /\ work[r].before \in OrNone(Versions)
        /\ work[r].root \in OrNone(RootImages) /\ work[r].fit \in OrNone(Fits)
        /\ work[r].control # None => work[r].control.root \in RootImages
    /\ loops \subseteq Runs \X Mounts /\ mounts \subseteq loops
    /\ stuck \subseteq disturbed /\ disturbed \subseteq Runs /\ faults \in 0..MaxFaults

(* What is published comes from one version of the image, the one whose    *)
(* hash CONTROL gives, is complete, and the kernel, initrd and DTB that    *)
(* U-Boot loads are those in its /boot (lines 186-221).                    *)
OutputIsOfOneImage ==
    output # None =>
        /\ output.root = [from |-> output.source, boot |-> output.source,
                          patched |-> TRUE, whole |-> TRUE]
        /\ output.fit.boot = output.source
        /\ output.evidence = output.root

(* Of runs with one output one publishes, and a published TAR stays: the   *)
(* check at the start cannot see the run beside it, the link can.          *)
PublishedOnce == [][output # None => output' = output]_output

(* A run that is over and was not killed leaves no loop device and no      *)
(* mount, unless one could not be released.                                *)
NothingLeftMounted ==
    \A r \in Runs :
        status[r] \in {"failing", "pass"} /\ open[r] = <<>> /\ r \notin stuck =>
            \A l \in loops : l[1] # r

(* The root is packed when nothing of this run has it mounted.             *)
PackedAtRest ==
    \A r \in Runs : (\E s \in {"swap", "control", "pack", "link"} : Here(r, Do(s))) =>
        \A l \in loops : l[1] # r

(* No check fails that the build makes of its own work, unless something   *)
(* went wrong or another run has published.                                *)
FailsForReason == \A r \in Runs : status[r] = "failing" => r \in disturbed \/ output # None

(* A run that meets no fault publishes or finds the output taken, whatever *)
(* devices and directories killed runs have left.                          *)
UndisturbedPublishes ==
    \A r \in Runs : (status[r] = "running") ~>
                        (status[r] = "pass" \/ output # None \/ r \in disturbed)
=============================================================================
