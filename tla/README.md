# Verification of the EdgePi E87N port

TLA+ models, TLC runs and TLAPS proofs for the programs of this repository: the
CI that builds, tests, prepares and publishes firmware, the builder and the
auditor of the factory firmware, and the software that runs on the board. The
repository is a Debian / Armbian port of the EdgePi E87N; its own programs are
Python and shell. The models are written from the source; `PROJECT.json`
("map") gives the lines each definition stands for.

    tlc -workers 2 -config release_channels.cfg MCReleasePublisher
    tlapm ReleasePublisherProofs.tla

## 1. The system

| Component | State it keeps | Operations | Talks to | What is hard | What makes it correct |
|---|---|---|---|---|---|
| Release publisher, `scripts/ci-publish-release.py` | none of its own: GitHub's releases, drafts, assets, tag refs | preflight, publish (create draft, upload, verify, withdraw the old release, switch the tag, publish, verify, remove the temporary tag) | GitHub through `gh`, after the CI's gates | every command may time out, fail, or take effect and look failed; reads may be stale or omit drafts; a job may be cancelled anywhere; later runs find what earlier ones left | only verified payloads are public, one release per version, nothing is withdrawn without a replacement, no history of failures wedges the channel |
| CI pipeline, `ci-build.sh`, `ci-collect-artifacts.py`, `ci-prepare-release.py`, `ci-simulation.py`, `testing/validate.py` | artefact directories, metadata, checksums | build, collect, validate, prepare | workflow jobs and attempts | artefacts of another attempt, partial collections, hard links to files still written | every byte prepared is one that was tested, in this attempt |
| QEMU acceptance, `testing/qemu_runner.py`, `run-container.sh`, `guest-acceptance.sh` | `result.json`, disks, the guest's state file | four boots, guest phases, verdict | QEMU, SSH, Docker | reboots that race SSH, signals, deadlines, cleanup that fails | PASS is written only for checks that were made, in that order, on those bytes |
| Factory root preparation, `scripts/prepare-factory-rootfs.py` | a mounted root filesystem | preflight, adapt, verify | build scripts | dies anywhere, is run again | a rerun finishes the job or refuses, "PASS" is the verified state |
| Factory firmware, `scripts/build-factory-firmware.py`, `factory_firmware.py` | scratch directory, loop mounts, the output | copy, prepare, make the FIT, compact, audit, publish | image, loop devices, other builds | a failure halfway, overlapping builds, an input that changes | the output is complete, of one image, published once; nothing stays mounted |
| Firmware audit, `scripts/factory_firmware.py`, `verify-factory-firmware.py` | none | read modules, initrd, paths, FIT, TAR | what kernel, kmod and U-Boot will read of the same bytes | two readers of one format that differ, archives in archives, links | what is accepted is what the board will load |
| Factory boot, `board-support/factory-boot/factory_boot.py` | MAC of eth0/eth1, two networkd files, ext4 geometry | `mac` before networkd, `resize` at boot | ip, resize2fs, systemd time limits | one interface of two done; killed between two writes; power loss while resizing | both policies or none; idempotent reruns |
| Display settings and backlight, `hardware.py` `display`, `__main__.py` | `/etc/e87n/display.json`, the directory lock, `bl_power`/`brightness` | load, set, apply | any number of `e87nctl` processes and the service's `ExecStartPre`; the daemon reads the file without a lock | concurrent writers, processes killed inside the lock, power loss, a directory that does not exist yet, files of older versions | no lost update, no torn file, durable acknowledgement, a panel that is off is never lit |
| Display daemon, `display.py` `run_daemon` | settings of the iteration, active page, rotation deadline, open framebuffer | read, sample, choose, draw, sleep; die and be restarted | settings file, telemetry, framebuffer, systemd | settings and sensors change between any two steps; a short rotation and a long refresh | no page without data is drawn, each page gets its time, all pages keep coming |
| Framebuffer, `display.py` `Framebuffer` | layout read when opened | open and validate, draw, close | the kernel's device; other processes that set modes | short writes, interrupted writes, gaps between rows, a mode set by someone else | no byte outside the screen, no half-drawn frame, colours in their own bits |
| Fan test, `hardware.py` `fan_test` | `cur_state` of the cooling device | read the level, write another, wait, restore | the kernel's thermal governor, other tests | overlapping tests, signals during the wait, failing writes | the governor's level is left, a report is true |
| Telemetry rates, `hardware.py` `_cpu_usage`, `_network_rates` | last samples | CPU and network rates | sysfs, procfs | counters that go back, interfaces that vanish, samples that cannot be read | a rate is that of its interval, never of a reset counter |
| RAM diagnostic, `scripts/ramdiag/assets` | RAM only: a keeper that feeds the watchdog, a host key, sshd | PID 1 mounts, checks, finds a link, supervises; the keeper; the service shell | the firmware's watchdog, sshd, the console | a device that appears late, a keeper that dies with the watchdog armed, checks that fail first, a shell that is started on what its predecessor left | nobody is reset while he reads why a check failed; sshd comes back |
| RAM diagnostic FITs, `scripts/ramdiag/build-fits.py`, `fit_common.py` | an output directory: FITs, reports, one manifest | read and hash inputs, make, audit and publish each variant, publish the manifest | other builds, inputs that are built again, U-Boot | two builds in one directory, an input that changes between variants, addresses from the command line | the manifest names what is there, of one kernel and one initrd; nothing that is loaded overlaps |
| Package scripts, doctor, auditors of other artefacts, initrd generator, launchers, evidence collector, kernel patches | none, or RAM only | | | | see "Not modelled" |

On the build side the parts form a chain: the preparation of the root is one
step of the firmware builder, whose audit precedes its output; the acceptance
run boots a built image; its verdict and the artefacts flow through collection
and preparation into the publisher. The programs on the board meet in two
places: the settings file (written by `e87nctl` under a lock, read by the
daemon without one: the rename makes the reader's view atomic) and the devices
(backlight written only by `e87nctl`, framebuffer only by the daemon, the fan
by the governor and by fan tests).

`PROJECT.json` lists the hazards of the code at their lines, each with the
properties that would notice it going wrong.

## 2. How the project is laid out

| Part | Abstract | Detailed | Proofs | Checked by |
|---|---|---|---|---|
| Publisher | `ReleaseChannel` | `ReleasePublisher` | `ReleasePublisherProofs` | `MCReleasePublisher` |
| Acceptance and CI | | `AcceptanceRun`, `Provenance` | `AcceptanceProofs` | `MCAcceptance` |
| Factory firmware | `RootPreparation` | `FactoryRootfs`, `FactoryBuild` | `FactoryProofs` | `MCFactory` |
| Firmware audit | a reference reader in each module | `ModuleAudit`, `InitrdScan`, `ImagePath`, `FdtReader`, `FirmwareTar` | `AuditsProofs` | `MCAudits` |
| Factory boot | | `FactoryBoot` | `BootsProofs` | `MCBoots` |
| RAM diagnostic | | `RamDiagnostic`, `DiagnosticFits` | `BootsProofs` | `MCBoots` |
| Settings | `ConfigRegister` | `Backlight`, `DisplayConfig` | `DisplayConfigProofs` | `MCDisplayConfig` |
| Daemon | | `DisplayDaemon` | `ScreenProofs` | `MCScreen` |
| Screen | | `Framebuffer`, `PixelFormat` | `ScreenProofs` | `MCScreen` |
| Fan and rates | | `FanTest`, `CpuUsage`, `NetworkRates` | `HardwareProofs` | `MCFanTest`, `MCHardware` |

Where two parts share no state, one MC module runs them side by side as a sum:
a behaviour is one of the one or of the other, and a variable says which
(`MCHardware`, `MCScreen`, `MCFactory`, `MCAcceptance`, `MCAudits`,
`MCBoots`). Nothing
about their interaction follows from such a run. Two of the sums are also the
border between two levels: `FactoryBuild` takes the preparation as the one
step that `FactoryRootfs` opens up, and `Provenance` takes the QEMU run as the
one step that `AcceptanceRun` opens up. `Source` and the order of the runs in
`ReleasePublisher` are what `Provenance` hands over.

## 3. Modules

In every module a definition that begins with the comment "Mutant:" is not
part of the model. It is a changed form of the definition after it, as a
plausible mistake would make it; `PROJECT.json` says which property it breaks.

### Release publisher

`ReleaseChannel` is what a user sees: the set of public releases and the set of
staged replacements. A release is withdrawn only while a replacement is staged,
and one is published only if none is public.

`ReleasePublisher` is the script. `releases` and `refs` are GitHub's state
(per run: draft or public, tag, reported target commit, whose asset, intact or
damaged, immutable), `pc` the next `gh` command. One action is one command or a
group of reads with its checks; `Fault` ends the run before or after a command
took effect. GitHub is an environment: a list may omit drafts (`Listings`,
because `view_release` says so), a target may be reported as `main`, an upload
may be damaged, a DELETE or a new ref may not be visible yet. `Source` gives
several runs, so that each finds what earlier ones left. The same module is the
image channel (`ReplaceExisting = TRUE`) and the display channel (`FALSE`).
Publishing jobs do not overlap: `publish` runs on `refs/heads/main` only and
the workflow's concurrency group serialises those runs
(`.github/workflows/build-e87n.yml`, 10-13 and 155); an attempt's replacement
identifier is new each time (192). The validation of the local asset directory
(`validate_assets`) is taken as passed.

### CI pipeline

`Provenance` is the image channel of one workflow run over its attempts. The
image job builds, audits, has QEMU accept, collects (hard links into
`output/ci/artifacts`), judges, describes, sums and uploads; the release job
downloads, validates, copies and writes the notes. A file is a number for its
bytes, a report the record of which bytes it tested, in which attempt. "Re-run
all jobs" names the artifact anew, "Re-run failed jobs" keeps the name and the
jobs that succeeded. `Break`, `CollectLess`, `Overwrite` (another process still
writes the firmware, through the link to both) and `Tamper` (somebody writes to
the downloaded artifact) are the faults. Left out: the display channel, the
archives of packages and logs, and which file names are allowed.

### QEMU acceptance run

`AcceptanceRun` is one run of `testing/qemu_runner.py`. `Script` is `execute`
as a table, `step` the place in it, `mode` the clause of `main` that runs
(execute, except, cleanup, removing the copies, the last save, exit). The guest
is a machine (`vm`) with the number of its boot, on a private disk with host
keys and the state file that the phases of `guest-acceptance.sh` leave there.
`Firmwares` are images that ship keys, have fixed ones, make them at each boot
or at the first one, and keep files or lose them: the verdict has to tell them
apart. `Fault` is a command that fails or runs out of time, `GuestCrashes` a
reboot nobody asked for or an exit of QEMU, `Signal` the handler that raises
wherever the runner is (SIGALRM is the total deadline). `Reboot` does not check
its request, as the code does not, so it may be lost. Abstracted: what the phase
`packages` does to APT (the phase succeeds or fails), the identity checks, the
growth of a copy, `E87N_KEEP_DISKS` (the copies are then moved instead of
removed), a signal between the start of QEMU and the assignment that records it
(the verdict is FAIL then; the container ends the process).

### Factory firmware

`FactoryRootfs` is `prepare-factory-rootfs.py` on a mounted root: the
preflight, the copy of the boot filesystem beside `/boot`, its comparison,
removal of the empty `/boot`, rename, then the items of `Plan` one after the
other, the atomic ones through a temporary file. An item is as Armbian left
it, as it should be, or somebody else's. Every step may fail (`finally` cleans
up) or be killed (nothing does), and the script is run again on what is there;
the source may change at any moment. `RootPreparation` is the abstract
statement: a set of things to do that only shrinks.

`FactoryBuild` is `build-factory-firmware.py` with `mounted` of
`factory_firmware.py` and the audit: `Script` is the order of `build`, with the
`with` blocks as `Enter` and `Leave`. Loop devices and mounts are sets, `open`
the blocks to leave when an exception is raised, and releasing them may fail
too. `RootOf` says of a root filesystem what the output depends on: the image
it came from, the `/boot` put into it, whether the DTB was patched and whether
every file and attribute came along. Two builds may share image and output.

### Firmware audit

Each of these modules puts the auditor of `factory_firmware.py` next to a
second reader of the same bytes, the one that will count on the board, and
asks what an accepted firmware means to it:

* `ModuleAudit`: `audit_modules` and `module_closure`, the iterative walk with
  its active stack, softdeps with their first-match rule, and kmod's indexes;
  against reachability by definition and what the kernel can load.
* `InitrdScan`: `audit_initrd_modules`, padding, archives, trailers and
  compressed frames in frames, with the limits on memory and frames; against
  what the kernel unpacks.
* `ImagePath`: `rooted`, links and `..` resolved inside the image; against path
  lookup by the target's kernel.
* `FdtReader`: `fdt`, tokens with the stack of nodes; against a loader that
  takes the first node and property of a name. The NOP token is left out.
* `FirmwareTar`: `inspect_tar` and `check_vendor_parser` against U-Boot's
  parser, and the addresses `check_fit` allows in RAM and on the eMMC.

The second readers are external and idealised: they are modelled from what the
comments and checks in the source say of them, not from the programs
themselves. libfdt, for one, stops looking for properties at a node's first
subnode and ignores a unit address that was not asked for; the loader of
`FdtReader` does neither. `OnlyZstd` takes any frame but zstd as refused, which
is more than the zstd program of Debian refuses. Which files `collect_evidence` lists and the
literal values `check_fit` expects are data, and left out.

### Factory boot

`FactoryBoot` is a board over its boots: `setup_macs` with its checks, the two
addresses, the two policies and their undoing; `resize_rootfs` with the tool
that may stop anywhere. The units' time limits kill either at any step,
networkd starts after the mac unit and may be restarted, power is
lost. `/run` is empty at each boot, the superblock is not. Boards are those the
factory made and such as have other partitions, crossed interfaces or bad
addresses; `Boots` are what netplan and others left in `/run`.

### RAM diagnostic

`RamDiagnostic` is a boot of the diagnostic: `Script` is the order of
`init-network-first`, `keeper` the loop with `stop-watchdog.py` in it, `shell`
the `services` script. A tick is a quarter of a second, the loop's pause; the
keeper rests for two. PID 1 may stay anywhere behind its first mounts as long
as it likes or fail there, and `left` counts down to the reset meanwhile: that
is what the keeper's early start is for. Processes take no time of their own.
The driver may or may not support disabling the card. `KeeperExits` closes the
device with the watchdog armed, `ShellFails` is the shell's `fail` or its end
(its sshd goes on), and nobody answers at the console. The UDP beacon is left
out: nothing depends on it.

`DiagnosticFits` is `build-fits.py`: what a build has read so far is in `job`,
the directory's files are `fits`, `reports` and `manifest`, each absent or the
bytes it stands for. The kernel is read once, the initrd hashed once and read
again for each variant, the device tree read for each variant. Addresses and
sizes are the code's, in units of 512 KiB. `Fits` is the arithmetic of
`audit_fit`; its checks of the FIT's nodes are about what mkimage made of
`Rendered`. Which device tree the manifest names is left out: it hashes the
file as it is at the end.

### Display settings and backlight

`ConfigRegister` is one register with atomic changes. `Backlight` is the
percentage-to-raw conversion of the active-low circuit. `DisplayConfig` has one
action per system call that matters: opening or creating the directory, flock,
load, the temporary file, rename, fsync of the directory, the two backlight
writes. `file` is what readers see, `survivors` what a power loss may leave.
Processes fail at every step, are killed with the lock (the kernel drops it),
and power is lost. `Contents` are files of each version in the field, so
`Validated` is exercised. Readers need no action of their own: they open the
file once, and a state's `file` is what they get. Creating and syncing the
directory is taken to be durable. Only the settings the properties tell apart
are fields (enabled, brightness, theme); the others are loaded, changed and
saved by the same statements.

### Display daemon, framebuffer and pixel format

`DisplayDaemon` has one action per step of an iteration, and `Edit`, `Sense`
and `Tick` for the world; deadlines are seconds that are left. Drawing is one
action here, and `Framebuffer` opens it up: `Open` reads and validates a mode,
`Draw` refuses a changed mode, `Write` is one `pwrite` of any length up to what
was asked. `Modes` holds what a kernel could report, also modes that must be
refused. `PixelFormat` is the check of the bitfields and the packing of a
colour, as pure operators: its behaviours enumerate the inputs.

### Fan test and rates

`FanTest`: each process reads the level, writes, waits, restores; the governor
sets levels at any moment; SIGINT raises at any line, SIGKILL ends at any line.
`CpuUsage` and `NetworkRates`: the kernel's counters move, go back, vanish or
cannot be read between two snapshots, and the module keeps the last sample.
Both carry a history variable for their property: what really passed since the
last snapshot.

## 4. Runs

| Run | What it asks | Distinct states |
|---|---|---|
| `release_channels` | three runs of either channel, every command may fail: all safety properties, that no history wedges the channel, and refinement of `ReleaseChannel` | 29 000 |
| `display_draft_omitted` | **finding**: with drafts omitted, preflight passes beside a leftover draft | violation |
| `acceptance_run` | any firmware, failures, reboots and signals anywhere: PASS is earned and written last, a good firmware passes when nothing else fails; and three attempts of a workflow: only what was built and accepted in this attempt is prepared | 100 000 |
| `factory_build` | the root is prepared, cut anywhere and prepared again: refinement of `RootPreparation`, nothing foreign replaced, a retry finishes; two builds side by side: what is published, what stays mounted | 156 000 |
| `audits` | every small tree of modules, initrd, tree of links, device tree and TAR: what the audit accepts is what the board reads | 203 000 |
| `boots` | every board, boots with and without usable files, failures, kills, power loss: addresses, policies, geometry, and that the network comes up; the RAM diagnostic with a late device, failures and kills: no reset, and sshd comes back; two builds of its FITs: manifest, inputs, addresses | 99 000 |
| `ramdiag_service_restart` | **finding**: a service shell that is started again waits at the console for ever | violation |
| `display_settings` | two processes, failures, kills, power losses, files of all versions; refinement of `ConfigRegister`; no command waits for ever | 133 000 |
| `display_lockless_apply` | **finding**: an `apply` that found no directory relights a panel that was just turned off | violation |
| `screen` | where bytes go under seven modes, whole frames; seven offsets for each of three channels, five shades each; the daemon with rotation, fixed pages, edits, sensors, crashes, and its liveness | 148 000 |
| `fan_test` | one test after the other, failures and signals: the level left, true reports; and CPU and network rates of awkward counters | 64 000 |
| `fan_interrupted` | **finding**: an interrupt during the wait skips the restore | violation |

**Bounds.** Three publisher runs: one leaves debris, one meets it, one shows
the channel works again; two commits, the first of which is built twice (a
re-run). Three attempts of a workflow and two faults: an attempt that fails, a
partial re-run of it and a whole one, with a fault in two of them or twice in
one. Two unasked reboots and two signals in an acceptance run: one before and
one after the step under test, and a second signal inside the handling of the
first. Two runs of the root preparation, the first of which is cut anywhere;
one managed file and one link besides the items that are always there, of which
at most one is foreign (one is enough to be refused), two sources, so that one
can change into the other. Two builds and one fault: every
hazard listed is about two builds, or about one and one change or failure.
Three modules show chains, diamonds and circles; an initrd has up to four parts,
among them streams in a stream, of which two may be opened, and a limit that
some exceed; paths with up to three
links, also a loop; eight tokens hold two nodes of one name with a property
each; four headers are one more than a TAR may have. Boards of three blocks and
one power loss: a resize can stop short, be cut and be finished. The watchdog bites after 7 ticks
and the keeper looks 6 times; really it is about 124 ticks (31 seconds) and 120
looks, and what counts is that the looks end before the bite. Two late ticks
and two failures stay below the looks: the attempts are never reset, so after
120 of them in one boot, failures included, the keeper gives up, and
`NeverBites` says nothing of that. Two FIT builds, two versions of each input
and one change: sizes that just fit and just do not at the default addresses,
the lowest addresses, and ones out of RAM. Two `e87nctl`
processes: every hazard listed is about two of them. Three pages of which two
come and go, rotation of two and three seconds against a refresh of two (the
deadline falls inside, at and after a sleep). A 2x2 screen has two rows and
rows of four bytes, so short writes end inside and between rows; two frames
tell an old byte from a new one. The pixel offsets are those of RGB565 and
their neighbours. Fan levels 0..3, and the requests one beyond each end; three
snapshots of counters up to 2 let one go back between two that do not. What is
proved (section 5) holds for any number. No symmetry is used in runs that
check liveness.

**Deadlock.** It is checked wherever the system always has a next step. A
publisher's runs stop after `MaxRuns`, an acceptance run, a build, a workflow
and an audit end, a board that was reset stops, and `PixelFormat` has no steps to speak of, so the cfgs of
those runs say `CHECK_DEADLOCK FALSE`.

**Fairness.** Always weak fairness of a program's own next statement, which
the scheduler executes, and none of an environment becoming kind: a run that
meets a fault is allowed to fail, and the liveness properties say so
(`faulted`, `disturbed`). Beyond that: strong fairness of acquiring the
settings lock (Linux queues flock waiters; a waiter is not passed over for
ever); weak fairness of time in the daemon, whose `PagesReturn` holds from the
moment the world stays as it is; of a guest
that was asked to reboot; of systemd starting networkd once the mac unit
is over; and of PID 1, the keeper and the service shell of the RAM diagnostic,
one by one, of which failing is no part. The other specifications state no fairness and are checked for safety
only.

## 5. Proofs

For every value of the constants, from the named assumptions in the modules:

| Module | Theorems | Argument |
|---|---|---|
| `ReleasePublisherProofs` | `TypeCorrect`, `OnlyVerifiedPublic`, `OnePublicRelease`, `WithdrawnForVerified`, `LastPassCurrent`, `ImmutableKept`, `ImplementsChannel`, `DisplayPassKept` | `Core`: what a run at work owns at each step (`Ownership`), that nothing else is public or being replaced at the steps after the deletion (`Alone`), what `seen` still says (`Deletions`). `PublicIsVerified` alone is not inductive: that the draft is still the verified one when it is published follows from `Ownership`. `Currency` and `Immutability` extend it to what the last PASS has left and to what is to be deleted. `OnceOnly` and `NothingBeside`, for a display channel that may overlook drafts: a published release is always listed, so from the preflight to the publication nothing is public, and nothing has passed |
| `AcceptanceProofs` | `TypeCorrect`, `VerdictEarned` | `Machine`: which machine runs at each step of `execute`; `Running`, `StateOf...`, `Past`: what its disk and state file say of its boot; `Earned`: what is known of the firmware behind each step; `Cleaned`: what `main` has done when the status is PASS. That the file is compared with the boot that wrote it (`StateOfPhase`) is what rules out a phase that ran in the boot before |
| | `GoodGoesOn`, `NothingIsRefused` | `Smooth`: with a good firmware and no fault, the machine that runs is up and its boot is the one that is waited for or is still asked for (`Unhindered`), and what each disk holds is what the next phase looks for (`OldDisk`, `NewDisk`). `NothingIsRefused` says it of both parts of the channel |
| | `WorkflowTypes`, `OnlyProvenPrepared` | `Pinned`: from its validation on the release job holds hashes of a firmware this attempt has tested, which later writes cannot change; `Copied`: what it has copied has these hashes |
| | `UndisturbedIsNotRefused` | `Stored`: the artifact's name is free until this attempt takes it, because a run of all jobs names it anew; `Calm`: what each step of an undisturbed attempt leaves is what the next one asks for (`Built`, `Gathered`, `Fetched`). Without `Stored` the upload could be refused |
| `FactoryProofs` | `TypeCorrect`, `BootWhole`, `ForeignKept`, `RootKept`, `ImplementsPreparation` | `Copying`: from the preflight to the rename `/boot` is empty, gone or the source, and what is renamed was compared; `NothingForeign`: from the preflight on nothing foreign is in the way. Both fail without the second preflight at the head of `adapt` |
| | `FailsWithReason` | `InOrder`: the items before a run's place are as they should be, so a root that an earlier run left half prepared is accepted; `Undisturbed`: nothing has changed under a run that was let alone. `Lucky`: of a build that nothing upsets, the image is still what it hashed and the copy what cp made, so every check it makes of its own work passes |
| | `NothingLeft`, `OneImage`, `OnePublication` | `Entered`: which blocks a run is in at each step of `Script`; `Attached`: its loop devices are theirs, so leaving them in turn releases everything. `Holds`: whatever version was read lies between the first hash and the image as it is, and a changed image never returns to earlier bytes, so an equal second hash makes all of them one version |
| `BootsProofs` | `TypeCorrect`, `PoliciesTogether`, `AddressesOwn`, `ReportedFull`, `ForeignKept`, `NeverLive`, `GrowsInside` | `Checked`: what was checked before the first change; `Written`: which policies exist at each step of a unit that was not cut; `Own`: what is set is the port's; `Sized`: the tool runs on a checked layout only |
| | `WatchdogIsFed`, `FitsSound` | `Counted`: every pause of the keeper is one of its attempts, and there are no more of these than late ticks and failures; `Fed`: since the last ping no more ticks have passed than pauses and the rest. `Sound`: what a build lists is under its name, with its report, of the one kernel and the one initrd it has read; `Grows`: nothing published is replaced |
| `DisplayConfigProofs` | `TypeCorrect`, `MutualExclusion`, `NeverTornFile`, `DurableAcknowledgement`, `ImplementsRegister`, `PanelFollowsConfig`, `OffStaysDark`, `AppliedRawRange`, `RawBrightnessMonotone` | `Core`: at most one process is inside the lock (`Exclusive`), its copy is the file's (`Fresh`), what it has saved is the file (`Saved`), and what the disk may hold (`Disk`) |
| `ScreenProofs` | `TypeCorrect`, `WritesStayVisible`, `FramesAreWhole` | `Core`: the current write lies in the current row, or in the screen if rows touch; `Filled`: every byte of the screen that the draw has passed shows the frame, as long as nobody sets a mode. Rows are kept apart by a few lemmas of nonlinear arithmetic |
| | `PixelsKeepTheirColour`, `PagesDrawnHaveData`, `PagesKeepTheirTime` | The accepted orders put the channels on digits of their own (`Weights`), so that reading a packed word back gives each of them. The daemon: what was chosen is in the sample of this iteration (`Chosen`), and the deadline is as far off as the page's seconds are from its age (`Clock`) |
| `HardwareProofs` | `TypeCorrect`, `ReportsAreTrue`, `SoleTestRestores`, `RatesShownAreTrue` | `Written`: what a process has written at each step; `Kept`: with one process, the level it will restore is an accepted one. Rates: `CpuKept`: the sample kept is the last snapshot's, or none; `Accounted`: the counter has grown by what was carried since, unless the interface was away |
| `AuditsProofs` | `ModulesLoad`, `WalksEnd`, `PayloadsApart` | `OnTheWay`: each dependency of a module on the stack is still to do, visited, or the next on the stack; `VisitedClosed`: what was visited leads to nothing else and not back. So what is visited at the end is the least closed set, which is reachability by definition. `SoftsOK`, `Reviewed`: what the other checks have established. `Chained`: the modules on the stack that are being visited need one another in turn, so a circle that is refused is one of the firmware; a sound firmware is refused by none of the checks. Each step of a walk leaves less to do (`WalksEnd`). The TAR: linear arithmetic over what `Measure` and `PayloadsFit` check |
| | `ReadAsAudited`, `AllIsCompared` | `PathInv`: what is left of a path leads from where `rooted` is to where the whole path leads, and `parts` has no link in it. `FdtInv`: each node of the block is known by its path, and `props` holds what was found there, once. `MembersInv`: nothing is written after the inspection. `ScanInv`: what the scan has gone past, opened and left to read, in order; a part is in it exactly when the frame around it was opened, and is in no more frames than were opened. With nothing left, past and opened are closed under unpacking, and so are all there is |

Conditions: of the publisher, `OnlyVerifiedPublic`, `LastPassCurrent` and
`ImplementsChannel` assume `Lookup == ReplaceExisting \/ DraftsListed`: they
hold of the image channel on any GitHub, but of the display channel only on one
whose list shows drafts. On another one they are false. The run
`display_draft_omitted` shows the first step: preflight passes beside a draft
that an earlier run left; `gh` may then pick either of the two for the upload
and again for the publication, and the one that was never verified can become
public. The other theorems of the publisher hold there too. One of them,
`DisplayPassKept`, says what a PASS is still worth: the payload that the run
verified after the publication stays public under the version's tag, at its
commit, and no later run passes. No run of this list checks it.
`PanelFollowsConfig` and `OffStaysDark` assume
`DirShipped` (`display_lockless_apply` shows why). `SoleTestRestores` assumes
that no two processes test, since nothing in the code orders them: a second
test that reads the level during the first takes it for the kernel's. The
theorems of the workflow say what they assume: that there may be an attempt, and that
`None` is the contents of no file (`NoneIsNothing`). Nothing
else is assumed but the constants' `ASSUME`s, which TLC evaluates in the runs.

The assumptions ask little more than types. Those that say more: the lists of an adaptation
name different files (`PlanAssumption`), and roots are found with each item old, new
or foreign (`RootsAssumption`); the softdeps of a module are a list
(`TreesAssumption`); a kernel reports offsets and lengths
that are numbers and shades are bytes (`ModesAssumption`, `FieldsAreReported`);
a step of a path is a name, `.` or `..` (`LinksAreSteps`), a node's name with
slashes is a sequence of names (`NamesAreSplit`), a frame holds parts of the
kinds that a file holds (`FramesHoldParts`);
a configuration is what `_validate_config` lets through, and a change
one that the parser of `e87nctl` offers (`ConfigsAreValid`,
`ThemesAssumption`, `ChangesAssumption`); the builder of FITs is asked for at
least one variant (`InputsAreFiles`; the choices of `--variant`); and
`KeeperSuffices`, the one about time: the late ticks and the failures of a boot
together stay below the keeper's 120 looks and below the watchdog's time. A
device that never appears is outside of it, and the board is reset then, as the
code means it to be.

Some invariants are proved and no longer run, because a run would say less:
the types of every module with proofs (TLC still checks `TypeOK` of modules
that are parts of a sum within another property: `DrawnPageHasData`,
`NothingLeftMounted`, `NeverBites`, `FitsAreSound`, `ModulesCanLoad`,
`NothingUnseen`),
`AtMostOnePublic` and
`WithdrawnOnlyForVerified` (both follow from `ChannelSpec` as well),
`NeverTorn`, in `FactoryBoot` `DoneMeansFull` and `ForeignStays`, and `NothingRefused`
(a refusal would end in a FAIL, which `UndisturbedPasses` would show).

Where a walk over data had to be followed (`ModulesLoad`, `AllIsCompared`, the
digits of a pixel), the induction is made in sets: the counterexamples form a
set of numbers, a nonempty one has a least element (`WFMin` with
`NatLessThanWellFounded`), and below it the claim holds. The theorems of the
library that would do it at once take an operator as a parameter. In the same
way a recursive function (`Lookup`, `Unpacked`) is first shown to exist, by
giving one that satisfies its equation.

Every safety property and every action property of the passing runs is stated
by a theorem. Only model-checked is liveness (`ReplacingSettles`,
`EveryCommandEnds`, `PagesReturn`, `UndisturbedPasses`, `UndisturbedFinishes`,
`BoardComesUp`, `SoundIsPassed`), which TLAPS cannot prove under fairness. Of
three of these the half that is safety is proved as well: that nothing undisturbed
is refused (`FailsWithReason` for builds, `NothingIsRefused` for the run in QEMU and
the workflow), and that the walks of the audit go on and refuse
nothing sound (`WalksEnd`, `ModulesLoad`); that the steps are taken is what
remains. The
runs that expect a violation show what the code does to properties that fail.

## 6. Findings

* `hardware.py:608`: `display apply` without `/etc/e87n` works on defaults and
  without a lock; a setter that creates the directory meanwhile and turns the
  panel off is overtaken, and the panel is lit although the saved settings say
  off. The package ships the directory, so this needs a removed `/etc/e87n`.
* `hardware.py:655`: the comment promises a restore when the wait is
  interrupted; the wait stands inside `finally` before the restore.
* `ci-publish-release.py:115`: preflight of the display channel looks for
  drafts in a list that may omit them.

* `assets/services:17`: a service shell that ended is started again by PID 1,
  whose comment (`init-network-first:156-157`) promises recovery; ssh-keygen
  finds the host key of its predecessor and asks at the console whether to
  overwrite it. No sshd is started until somebody answers there.

## 7. Limits

**Assumed.** Nobody puts an input image that was changed during a build back
to its earlier bytes before it is hashed again. `os.replace`, `os.link` and
`rename` are atomic. Two builds of FITs have different process identifiers,
which their temporary names are made of. What resize2fs leaves inside a filesystem it was cut on is
its own business; the model keeps the size.

**Not modelled.**

* `build-initrd.py` of the RAM diagnostic copies a list of files into an
  archive; the beacon and `receive-udp.py` send and print datagrams.
* The boot arguments of the RAM diagnostic. Reading them showed that
  `build-fits.py:209` and `fit_common.py:335` look for the word `root=` alone,
  so an argument like `root=/dev/sda1` passes both.
* `run-container.sh` around the QEMU run: it checks arguments, starts one
  container and copies its exit code. Two containers that share an output
  directory (line 37) can overwrite each other's verdict; the workflow starts
  one per job.
* A process killed between opening and renaming a temporary file of the
  settings leaves `.display-*.tmp` behind (`hardware.py:534`): the names are
  random and nothing collects them, so no property of the settings can fail.
* The telemetry snapshot apart from its rates (each reader returns a value or
  None and keeps nothing), page rendering and the offline preview (layout, one
  file), the maintainer scripts of the packages (they call deb-systemd
  helpers), the doctor and the auditors of other artefacts (they read files and
  compare them with literals), the launchers (sequences of external builders), the evidence
  collector, and the kernel patches (vendored sources).
* Of the modelled components: the identity checks before a device is opened
  are one way to fail; the local file checks of the publisher are taken as
  passed.

**What could come next.** The display channel in `Provenance`; and a refinement of
`Provenance`'s `Accept` by `AcceptanceRun`.
