---------------------------- MODULE DiagnosticFits ----------------------------
(***************************************************************************)
(* scripts/ramdiag/build-fits.py with audit_fit of fit_common.py: builds   *)
(* that share an output directory and read inputs which are built again    *)
(* meanwhile.  Each makes a FIT and a report per variant and lists them in *)
(* the directory's one manifest; it fails or is killed after any step.     *)
(*                                                                         *)
(* Addresses and sizes are in units of 512 KiB, addresses from the start   *)
(* of RAM.                                                                 *)
(***************************************************************************)
EXTENDS Naturals, Sequences, Functions

CONSTANTS
    Builds,    \* the processes
    Kernels,   \* [name, size]: versions of the kernel, with image_size
    Initrds,   \* [name, size]
    Trees,     \* [name, size]: versions of the device tree
    Orders,    \* [variants, ramdisk, fdt]: what a build may be asked for
    MaxChanges \* bound: how often an input is built again

Variants == {"40000000-initrd", "40080000-initrd", "40000000-no-initrd"}

KernelLoad(v) == IF v = "40080000-initrd" THEN 1 ELSE 0
WithInitrd(v) == v # "40000000-no-initrd"

(* What does not exist, or is not in a FIT. *)
None == [name |-> "none", size |-> 0]

(* Files have a size, and an order names variants and addresses. *)
InputsAreFiles ==
    /\ \A file \in Kernels \cup Initrds \cup Trees : file.size \in Nat
    /\ \A order \in Orders : /\ order.variants \in Seq(Variants) /\ order.variants # <<>>
                             /\ order.ramdisk \in Nat /\ order.fdt \in Nat
    /\ MaxChanges \in Nat

VARIABLES
    kernel, initrd, tree, \* the input files as they are now
    changes, \* how often they changed
    fits,    \* the .itb files, per variant
    reports, \* the .itb.json files
    manifest,\* MANIFEST.json
    job      \* per build: what it has read and made

inputVars == <<kernel, initrd, tree, changes>>
outputVars == <<fits, reports, manifest>>
vars == <<inputVars, outputVars, job>>

Steps == {"args", "payload", "hash", "copy", "audit", "fit", "report", "manifest",
          "done", "failed"}

At(b, s) == job[b].step = s

(* The variant a build is at. *)
Variant(b) == job[b].order.variants[Len(job[b].results) + 1]

Go(b, s) == job' = [job EXCEPT ![b].step = s]

-----------------------------------------------------------------------------
(* main, before the first variant. *)

(* The load addresses asked for, and an initrd if a variant needs it.      *)
AllowedLoads(order) ==
    /\ order.ramdisk >= 32 /\ order.ramdisk < order.fdt
    /\ order.fdt >= 128 /\ order.fdt < 2048

CheckArguments(b) ==
    /\ At(b, "args")
    /\ Go(b, IF AllowedLoads(job[b].order) THEN "payload" ELSE "failed")
    /\ UNCHANGED <<inputVars, outputVars>>

(* normalize_kernel *)
ReadKernel(b) ==
    /\ At(b, "payload")
    /\ job' = [job EXCEPT ![b] = [@ EXCEPT
                 !.step = IF kernel.size <= 128 THEN "hash" ELSE "failed", !.kernel = kernel]]
    /\ UNCHANGED <<inputVars, outputVars>>

(* The hash of the initrd, whose bytes are read again for every variant.   *)
HashInputs(b) ==
    /\ At(b, "hash")
    /\ job' = [job EXCEPT ![b] = [@ EXCEPT
                 !.step = IF manifest = <<>> THEN "copy" ELSE "failed", !.initrd = initrd]]
    /\ UNCHANGED <<inputVars, outputVars>>

-----------------------------------------------------------------------------
(* build_one *)

(* render_its: what goes into the FIT, and where that is loaded.           *)
Rendered(v, order, payload) ==
    [variant |-> v, kernel |-> payload, initrd |-> IF WithInitrd(v) THEN initrd ELSE None,
     tree |-> tree, ramdisk |-> order.ramdisk, fdt |-> order.fdt]

(* The device tree, patched, and the initrd are copied to a directory of   *)
(* the build, for mkimage.                                                 *)
MakeFit(b) ==
    /\ At(b, "copy")
    /\ job' = [job EXCEPT ![b] = [@ EXCEPT
                 !.step = "audit", !.fit = Rendered(Variant(b), job[b].order, job[b].kernel)]]
    /\ UNCHANGED <<inputVars, outputVars>>

(* Mutant: the kernel's end is compared with the device tree only. *)
FirstRoom(f) ==
    LET end == KernelLoad(f.variant) + f.kernel.size
    IN  /\ end < f.fdt
        /\ WithInitrd(f.variant) => f.ramdisk + f.initrd.size < f.fdt
        /\ f.fdt + f.tree.size < 192

(* The three ranges, and U-Boot's buffer above them. *)
Fits(f) ==
    LET end == KernelLoad(f.variant) + f.kernel.size
    IN  /\ IF WithInitrd(f.variant) THEN end <= f.ramdisk ELSE end < f.fdt
        /\ WithInitrd(f.variant) => f.ramdisk + f.initrd.size < f.fdt
        /\ f.fdt + f.tree.size < 192

(* Mutant: the initrd is not compared with its hash. *)
AuditRooms(f, j) == Fits(f)

(* audit_fit *)
Audit(f, j) ==
    /\ f.kernel = j.kernel
    /\ Fits(f)
    /\ WithInitrd(f.variant) => f.initrd = j.initrd

AuditFit(b) ==
    /\ At(b, "audit")
    /\ Go(b, IF Audit(job[b].fit, job[b]) THEN "fit" ELSE "failed")
    /\ UNCHANGED <<inputVars, outputVars>>

(* Mutant: a file that exists is replaced. *)
Replaceable(file) == TRUE

(* publish_no_overwrite: os.link fails if the name exists. *)
Absent(file) == file = <<>>

PublishFit(b) ==
    /\ At(b, "fit")
    /\ IF Absent(fits[Variant(b)])
       THEN fits' = [fits EXCEPT ![Variant(b)] = job[b].fit] /\ Go(b, "report")
       ELSE UNCHANGED fits /\ Go(b, "failed")
    /\ UNCHANGED <<inputVars, reports, manifest>>

(* The report has the hash of the FIT. *)
PublishReport(b) ==
    /\ At(b, "report")
    /\ IF Absent(reports[Variant(b)])
       THEN LET results == Append(job[b].results, job[b].fit)
            IN  /\ reports' = [reports EXCEPT ![Variant(b)] = job[b].fit]
                /\ job' = [job EXCEPT ![b] = [@ EXCEPT
                     !.step = IF Len(results) = Len(job[b].order.variants) THEN "manifest"
                              ELSE "copy",
                     !.results = results]]
       ELSE UNCHANGED reports /\ Go(b, "failed")
    /\ UNCHANGED <<inputVars, fits, manifest>>

(* The device tree named in it is the one there is now. *)
PublishManifest(b) ==
    /\ At(b, "manifest")
    /\ IF Absent(manifest)
       THEN /\ manifest' = [results |-> job[b].results, kernel |-> job[b].kernel,
                            initrd |-> job[b].initrd]
            /\ Go(b, "done")
       ELSE UNCHANGED manifest /\ Go(b, "failed")
    /\ UNCHANGED <<inputVars, fits, reports>>

(* A tool or a write fails, an input is refused, the process is killed.    *)
Fail(b) ==
    /\ job[b].step \notin {"done", "failed"}
    /\ Go(b, "failed")
    /\ UNCHANGED <<inputVars, outputVars>>

(* Another version of an input is put in its place. *)
Change ==
    /\ changes < MaxChanges /\ changes' = changes + 1
    /\ \/ kernel' \in Kernels \ {kernel} /\ UNCHANGED <<initrd, tree>>
       \/ initrd' \in Initrds \ {initrd} /\ UNCHANGED <<kernel, tree>>
       \/ tree' \in Trees \ {tree} /\ UNCHANGED <<kernel, initrd>>
    /\ UNCHANGED <<outputVars, job>>

Init ==
    /\ kernel \in Kernels /\ initrd \in Initrds /\ tree \in Trees /\ changes = 0
    /\ fits = [v \in Variants |-> <<>>] /\ reports = fits /\ manifest = <<>>
    /\ \E orders \in [Builds -> Orders] :
         job = [b \in Builds |-> [step |-> "args", order |-> orders[b], kernel |-> None,
                                  initrd |-> None, fit |-> <<>>, results |-> <<>>]]

Next ==
    \/ \E b \in Builds :
         \/ CheckArguments(b) \/ ReadKernel(b) \/ HashInputs(b) \/ MakeFit(b) \/ AuditFit(b)
         \/ PublishFit(b) \/ PublishReport(b) \/ PublishManifest(b) \/ Fail(b)
    \/ Change

Spec == Init /\ [][Next]_vars

-----------------------------------------------------------------------------
TypeOK ==
    /\ kernel \in Kernels /\ initrd \in Initrds /\ tree \in Trees
    /\ changes \in 0..MaxChanges
    /\ \A b \in Builds :
         /\ job[b].step \in Steps /\ job[b].order \in Orders
         /\ job[b].kernel \in Kernels \cup {None} /\ job[b].initrd \in Initrds \cup {None}
         /\ Len(job[b].results) <= Len(job[b].order.variants)

Listed == IF manifest = <<>> THEN {} ELSE Range(manifest.results)

(* The manifest lists nothing that another build has published, or has     *)
(* published since: each FIT it names is there, with the report on it.     *)
ManifestIsTrue == \A f \in Listed : fits[f.variant] = f /\ reports[f.variant] = f

(* The variants of one manifest differ only in what the experiment is      *)
(* about, although the inputs changed between them: one kernel, one initrd.*)
OneExperiment ==
    \A f \in Listed : /\ f.kernel = manifest.kernel
                      /\ WithInitrd(f.variant) => f.initrd = manifest.initrd

(* What a published FIT loads stays clear of everything else it loads and  *)
(* of the buffer it is loaded from, at any addresses that were asked for.  *)
RangesApart ==
    \A v \in Variants : ~Absent(fits[v]) =>
        LET f == fits[v]
            range == [kernel |-> KernelLoad(v)..(KernelLoad(v) + f.kernel.size - 1),
                      initrd |-> f.ramdisk..(f.ramdisk + f.initrd.size - 1),
                      tree |-> f.fdt..(f.fdt + f.tree.size - 1),
                      buffer |-> 192..2047]
        IN  \A i, j \in DOMAIN range : i # j => range[i] \cap range[j] = {}
=============================================================================
