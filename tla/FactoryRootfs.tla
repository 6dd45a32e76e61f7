---------------------------- MODULE FactoryRootfs ----------------------------
(***************************************************************************)
(* scripts/prepare-factory-rootfs.py on a loop-mounted root filesystem:    *)
(* main and adapt, which may fail or be killed at any step and are run     *)
(* again on whatever they left.                                            *)
(***************************************************************************)
EXTENDS Naturals, Sequences, SequencesExt

CONSTANTS
    Files, Links, \* the managed files and unit links, in their order
    Roots,        \* what the items of a root may be, when the script first sees it
    Sources,      \* what the source boot filesystem may hold
    MaxRuns       \* bound: how often the script is run

(* fstab, files, links, skip marker, generic resize links, APT lists: what *)
(* adapt changes besides /boot, in its order.                              *)
Plan == <<"fstab">> \o Files \o Links \o <<"skip", "wants", "lists">>
Items == {"fstab", "skip", "wants", "lists"} \cup ToSet(Files) \cup ToSet(Links)

(* Written beside its target and renamed over it; the others are one call. *)
Atomic == ToSet(Files) \cup {"fstab", "skip"}

Gone == "gone"       \* no /boot
Empty == "empty"     \* an empty /boot
Foreign == "foreign" \* something else there
Mixed == "mixed" \* a copy of a source that changed under it

ASSUME PlanAssumption ==
    /\ Files \in Seq(ToSet(Files)) /\ Links \in Seq(ToSet(Links))
    /\ ToSet(Files) \cap ToSet(Links) = {} /\ "boot" \notin Items
ASSUME RootsAssumption == Roots \subseteq [Items -> {"old", "new", "foreign"}]
ASSUME SourcesAssumption == Sources \cap {Gone, Empty, Foreign, Mixed, "none", "partial"} = {}
ASSUME BoundsAssumption == MaxRuns \in Nat

VARIABLES
    item,     \* each item: as Armbian left it, as it should be, or neither
    boot,     \* /boot of the root
    held,     \* holds: kernel packages held, no growroot; never changed here
    source,   \* what the source boot filesystem holds
    expected, \* the source as the preflight read it
    staging,  \* the copy under .e87n-boot-*: "none", "partial", or a source
    temp,     \* a temporary file of atomic_file exists
    litter,   \* an earlier process left such a copy or file
    pc, place, \* the next step, and its place in Plan
    runs, disturbed \* runs so far; the current one met a fault

rootVars == <<item, boot, held>>
vars == <<rootVars, source, expected, staging, temp, litter, pc, place, runs, disturbed>>

Steps == {"idle", "preflight", "host", "again", "stage", "copy", "compare",
          "rmdir", "rename", "items", "check", "pass", "fail"}

-----------------------------------------------------------------------------
(* Mutant: /boot has to be there. *)
ExistingBoot == boot \in {Empty, source}

(* tree(destination): nothing, or what the source has, inode for inode. *)
BootAcceptable == boot \in {Empty, Gone, source}

(* One record for /, of this UUID and ext4, and at most one for /boot. *)
FstabConvertible == item["fstab"] # "foreign"

(* The generic resize service is wanted by links of its own name only, *)
(* and the APT lists hold no links.                                    *)
LinksRemovable == item["wants"] # "foreign"
ListsRemovable == item["lists"] # "foreign"

(* Mutant: what is in the way is replaced. *)
AnyFile == TRUE

(* Managed files, unit links and the skip marker: absent or ours. *)
ManagedAcceptable == \A i \in ToSet(Files) \cup ToSet(Links) \cup {"skip"} : item[i] # "foreign"

(* preflight *)
Acceptable ==
    held /\ BootAcceptable /\ FstabConvertible /\ LinksRemovable /\ ListsRemovable
         /\ ManagedAcceptable

(* check_offline *)
Prepared == held /\ boot = source /\ \A i \in Items : item[i] = "new"

Go(step) == pc' = step

Run ==
    /\ pc \in {"idle", "pass", "fail"} /\ runs < MaxRuns
    /\ runs' = runs + 1 /\ disturbed' = FALSE
    /\ Go("preflight") /\ place' = 1
    /\ UNCHANGED <<rootVars, source, expected, staging, temp, litter>>

(* main, and adapt once more. *)
Preflight ==
    /\ pc \in {"preflight", "again"}
    /\ expected' = source
    /\ Go(IF ~Acceptable THEN "fail" ELSE IF pc = "again" THEN "stage" ELSE "host")
    /\ UNCHANGED <<rootVars, source, staging, temp, litter, place, runs, disturbed>>

(* verify_mount and verify_initrds; their refusals are among Fail's. *)
HostChecks ==
    /\ pc = "host"
    /\ Go("again")
    /\ UNCHANGED <<rootVars, source, expected, staging, temp, litter, place, runs, disturbed>>

(* Mutant: /boot is always copied. *)
StageAlways ==
    /\ pc = "stage"
    /\ Go("copy") /\ staging' = "partial"
    /\ UNCHANGED <<rootVars, source, expected, temp, litter, place, runs, disturbed>>

Stage ==
    /\ pc = "stage"
    /\ IF boot = expected THEN Go("items") /\ UNCHANGED staging
                          ELSE Go("copy") /\ staging' = "partial"
    /\ UNCHANGED <<rootVars, source, expected, temp, litter, place, runs, disturbed>>

CopyBoot ==
    /\ pc = "copy"
    /\ staging' \in {source} \cup (IF disturbed THEN {Mixed} ELSE {})
    /\ Go("compare")
    /\ UNCHANGED <<rootVars, source, expected, temp, litter, place, runs, disturbed>>

(* Mutant: the copy is not compared. *)
TrustCopy ==
    /\ pc = "compare"
    /\ Go(IF boot = Gone THEN "rename" ELSE "rmdir")
    /\ UNCHANGED <<rootVars, source, expected, staging, temp, litter, place, runs, disturbed>>

(* A copy that differs is removed again by finally. *)
CompareCopy ==
    /\ pc = "compare"
    /\ IF staging = expected
       THEN Go(IF boot = Gone THEN "rename" ELSE "rmdir") /\ UNCHANGED staging
       ELSE Go("fail") /\ staging' = "none"
    /\ UNCHANGED <<rootVars, source, expected, temp, litter, place, runs, disturbed>>

RemoveEmpty ==
    /\ pc = "rmdir"
    /\ boot' = Gone /\ Go("rename")
    /\ UNCHANGED <<item, held, source, expected, staging, temp, litter, place, runs, disturbed>>

RenameCopy ==
    /\ pc = "rename"
    /\ boot' = staging /\ staging' = "none" /\ Go("items")
    /\ UNCHANGED <<item, held, source, expected, temp, litter, place, runs, disturbed>>

(* The place after this one, or the check after the last. *)
Advance ==
    /\ place' = IF place = Len(Plan) THEN place ELSE place + 1
    /\ Go(IF place = Len(Plan) THEN "check" ELSE "items")

(* What is there already is left alone; otherwise a file is written beside *)
(* its target first.                                                       *)
WriteTemporary ==
    /\ pc = "items" /\ ~temp
    /\ Plan[place] \in Atomic /\ item[Plan[place]] # "new"
    /\ temp' = TRUE
    /\ UNCHANGED <<rootVars, source, expected, staging, litter, pc, place, runs, disturbed>>

(* os.replace, symlink_to or unlink. *)
Settle ==
    /\ pc = "items"
    /\ Plan[place] \in Atomic => temp \/ item[Plan[place]] = "new"
    /\ item' = [item EXCEPT ![Plan[place]] = "new"]
    /\ temp' = FALSE
    /\ Advance
    /\ UNCHANGED <<boot, held, source, expected, staging, litter, runs, disturbed>>

CheckOffline ==
    /\ pc = "check"
    /\ Go(IF Prepared THEN "pass" ELSE "fail")
    /\ UNCHANGED <<rootVars, source, expected, staging, temp, litter, place, runs, disturbed>>

(* A command or system call fails: the finally clauses remove the copy and *)
(* the temporary file.                                                     *)
Fail ==
    /\ pc \notin {"idle", "pass", "fail"}
    /\ Go("fail") /\ disturbed' = TRUE
    /\ staging' = "none" /\ temp' = FALSE
    /\ UNCHANGED <<rootVars, source, expected, litter, place, runs>>

(* SIGKILL: nothing is removed, and nothing of a later run looks for it.   *)
Kill ==
    /\ pc \notin {"idle", "pass", "fail"}
    /\ Go("fail") /\ disturbed' = TRUE
    /\ litter' = (litter \/ staging # "none" \/ temp)
    /\ staging' = "none" /\ temp' = FALSE
    /\ UNCHANGED <<rootVars, source, expected, place, runs>>

(* Somebody writes to the source. *)
SourceChanges ==
    /\ source' \in Sources \ {source}
    /\ disturbed' = TRUE
    /\ UNCHANGED <<rootVars, expected, staging, temp, litter, pc, place, runs>>

Init ==
    /\ item \in Roots
    /\ boot \in {Empty, Gone, Foreign} \cup Sources
    /\ held \in BOOLEAN
    /\ source \in Sources /\ expected = source
    /\ staging = "none" /\ temp = FALSE /\ litter = FALSE
    /\ pc = "idle" /\ place = 1 /\ runs = 0 /\ disturbed = FALSE

Step ==
    \/ Preflight \/ HostChecks \/ Stage \/ CopyBoot \/ CompareCopy \/ RemoveEmpty
    \/ RenameCopy \/ WriteTemporary \/ Settle \/ CheckOffline

Next == Run \/ Step \/ Fail \/ Kill \/ SourceChanges

Spec == Init /\ [][Next]_vars

FairSpec == Spec /\ WF_vars(Step)

-----------------------------------------------------------------------------
TypeOK ==
    /\ item \in [Items -> {"old", "new", "foreign"}]
    /\ boot \in {Empty, Gone, Foreign} \cup Sources
    /\ held \in BOOLEAN
    /\ source \in Sources /\ expected \in Sources
    /\ staging \in {"none", "partial", Mixed} \cup Sources
    /\ temp \in BOOLEAN /\ litter \in BOOLEAN
    /\ pc \in Steps /\ place \in 1..Len(Plan)
    /\ runs \in 0..MaxRuns /\ disturbed \in BOOLEAN

(* What the script did not make it does not touch: a conflicting file is   *)
(* found before the first change, not by one (README of factory-boot: "the *)
(* preparation is refused").                                               *)
ForeignStays ==
    [][/\ boot = Foreign => boot' = Foreign
       /\ \A i \in Items : item[i] = "foreign" => item'[i] = "foreign"]_vars

(* /boot is never a part of a copy, nor a copy of a source that changed    *)
(* while it was read: it becomes what the preflight of this run has read,  *)
(* at once (lines 228-232).                                                *)
BootIsWhole == [][boot' # boot => boot' \in {Gone, expected}]_vars

(* Both: what the preflight has seen is what the run changes.              *)
RootIsKept == ForeignStays /\ BootIsWhole

(* A run that meets no fault ends in PASS, on a root that Armbian made or  *)
(* that runs with this source have left half done, in whatever step they   *)
(* failed or were killed: also between rmdir and rename (lines 231-232).   *)
HalfDone ==
    held /\ boot \in {Empty, Gone, source} /\ \A i \in Items : item[i] # "foreign"

RetryFinishes ==
    \A r \in 1..MaxRuns :
        (runs = r /\ pc = "preflight" /\ HalfDone) ~> (pc = "pass" \/ disturbed \/ runs # r)

(* Such a run is refused by no check on its way, neither by the preflight  *)
(* nor by what it compares itself (lines 171-198, 228, 256-272).           *)
RefusedForReason == pc = "fail" /\ ~disturbed => ~HalfDone

(* Failures, kills and retries together prepare the root step by step and  *)
(* undo nothing.                                                           *)
Done(i) == IF i = "boot" THEN boot \in Sources ELSE item[i] = "new"

Preparation == INSTANCE RootPreparation WITH
    Work <- Items \cup {"boot"}, todo <- {i \in Items \cup {"boot"} : ~Done(i)}

PreparationSpec == Preparation!Spec
=============================================================================
