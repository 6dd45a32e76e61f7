----------------------------- MODULE Provenance -----------------------------
(***************************************************************************)
(* The image channel of one workflow run and its attempts: the build job   *)
(* with ci-collect-artifacts.py, the artifact between the jobs, and        *)
(* ci-prepare-release.py, which must prepare for publication nothing but   *)
(* what this attempt has built and QEMU has accepted.                      *)
(***************************************************************************)
EXTENDS Naturals, FiniteSets

CONSTANTS
    MaxAttempts, MaxFaults, \* bounds
    None

(* The files that matter: the firmware, by a number for its bytes; QEMU's  *)
(* result.json; whether the audit's log says PASS; the exit code.          *)
Files == {"firmware", "report", "audit", "exit"}
Nothing == [f \in Files |-> None]

VARIABLES
    attempt, name,    \* run_attempt; the attempt in the artifact's name
    whole,            \* all jobs run in this attempt
    build, outcome,   \* the image job's step; the outcome of its build step
    disk,             \* the build's outputs
    linked,           \* outputs with a hard link in output/ci/artifacts
    errors, meta, sums, \* collection errors, build-metadata.json, SHA256SUMS
    store,            \* the artifacts of this run, by the attempt in the name
    release,          \* the release job's step
    got, pinned,      \* the downloaded artifact; the hashes it was accepted with
    out,              \* output/release-assets, with the hash in the notes
    faults, disturbed \* faults so far; in this attempt one happened

job == <<build, outcome, disk, linked, errors, meta, sums>>
prep == <<release, got, pinned, out>>
luck == <<faults, disturbed>>
vars == <<attempt, name, whole, job, store, prep, luck>>

Steps == {"assemble", "audit", "accept", "finish", "collect", "judge", "describe", "sum",
          "upload", "failed", "succeeded"}

Fault == faults < MaxFaults /\ faults' = faults + 1 /\ disturbed' = TRUE

-----------------------------------------------------------------------------
(* The image job *)
Assemble ==
    /\ build = "assemble"
    /\ disk' = [disk EXCEPT !["firmware"] = attempt] /\ build' = "audit"
    /\ UNCHANGED <<attempt, name, whole, outcome, linked, errors, meta, sums, store, prep, luck>>

AuditFirmware ==
    /\ build = "audit"
    /\ disk' = [disk EXCEPT !["audit"] = TRUE] /\ build' = "accept"
    /\ UNCHANGED <<attempt, name, whole, outcome, linked, errors, meta, sums, store, prep, luck>>

(* run-container.sh: AcceptanceRun. *)
Accept ==
    /\ build = "accept"
    /\ disk' = [disk EXCEPT !["report"] = [firmware |-> disk["firmware"], attempt |-> attempt,
                                           status |-> "PASS"]]
    /\ build' = "finish"
    /\ UNCHANGED <<attempt, name, whole, outcome, linked, errors, meta, sums, store, prep, luck>>

Finish ==
    /\ build = "finish"
    /\ disk' = [disk EXCEPT !["exit"] = 0] /\ outcome' = "success" /\ build' = "collect"
    /\ UNCHANGED <<attempt, name, whole, linked, errors, meta, sums, store, prep, luck>>

(* A command of ci-build.sh fails, a FAIL verdict being among them.        *)
Break ==
    /\ build \in {"assemble", "audit", "accept", "finish"} /\ Fault
    /\ \E report \in {disk["report"], [firmware |-> disk["firmware"], attempt |-> attempt,
                                       status |-> "FAIL"]} :
            disk' = [disk EXCEPT !["report"] = report, !["exit"] = 1]
    /\ outcome' = "failure" /\ build' = "collect"
    /\ UNCHANGED <<attempt, name, whole, linked, errors, meta, sums, store, prep>>

(* Another process still writes the firmware: through the link to both.    *)
Overwrite ==
    /\ disk["firmware"] # None /\ build \notin {"failed", "succeeded"} /\ Fault
    /\ disk' = [disk EXCEPT !["firmware"] = MaxAttempts + faults']
    /\ UNCHANGED <<attempt, name, whole, build, outcome, linked, errors, meta, sums, store, prep>>

(* collect_tree, after whatever outcome. *)
Collect ==
    /\ build = "collect"
    /\ linked' = {f \in Files : disk[f] # None} /\ build' = "judge"
    /\ UNCHANGED <<attempt, name, whole, outcome, disk, errors, meta, sums, store, prep, luck>>

(* It cannot link or copy a file, and goes on. *)
CollectLess ==
    /\ build = "collect" /\ Fault
    /\ \E f \in Files : linked' = {g \in Files \ {f} : disk[g] # None}
    /\ errors' = TRUE /\ build' = "judge"
    /\ UNCHANGED <<attempt, name, whole, outcome, disk, meta, sums, store, prep>>

Collected(f) == IF f \in linked THEN disk[f] ELSE None

(* verify_report: what was tested, in which attempt. *)
Proves(report, firmware, of) ==
    report = [firmware |-> firmware, attempt |-> of, status |-> "PASS"]

Judge ==
    /\ build = "judge"
    /\ errors' = (errors \/ (outcome = "success" /\
                    ~(/\ Collected("firmware") # None /\ Collected("audit") = TRUE
                      /\ Proves(Collected("report"), Collected("firmware"), attempt))))
    /\ build' = "describe"
    /\ UNCHANGED <<attempt, name, whole, outcome, disk, linked, meta, sums, store, prep, luck>>

(* The metadata is written also with errors, and names them. *)
Describe ==
    /\ build = "describe"
    /\ meta' = [outcome |-> outcome, attempt |-> attempt, errors |-> errors,
                simulation |-> IF outcome = "success" /\ ~errors THEN "passed" ELSE "not proven"]
    /\ build' = "sum"
    /\ UNCHANGED <<attempt, name, whole, outcome, disk, linked, errors, sums, store, prep, luck>>

Sum ==
    /\ build = "sum"
    /\ sums' = [f \in Files |-> Collected(f)] /\ build' = "upload"
    /\ UNCHANGED <<attempt, name, whole, outcome, disk, linked, errors, meta, store, prep, luck>>

(* always(); a name that is taken is replaced or refused.                  *)
Upload ==
    /\ build = "upload"
    /\ \/ /\ store' = [store EXCEPT ![name] = [files |-> [f \in Files |-> Collected(f)],
                                                  meta |-> meta, sums |-> sums]]
          /\ build' = IF outcome = "success" /\ ~errors THEN "succeeded" ELSE "failed"
       \/ store[name] # None /\ build' = "failed" /\ UNCHANGED store
    /\ UNCHANGED <<attempt, name, whole, outcome, disk, linked, errors, meta, sums, prep, luck>>

-----------------------------------------------------------------------------
(* The release job *)
Download ==
    /\ build = "succeeded" /\ release = "todo"
    /\ got' = store[name] /\ release' = "validate"
    /\ UNCHANGED <<attempt, name, whole, job, store, pinned, out, luck>>

(* Mutant: what the collector says of the simulation is enough. *)
MetadataProves(art) == art.meta.simulation = "passed"

(* The report is verified again, against the hashes just computed. *)
SimulationProves(art) ==
    art.meta.simulation = "passed" /\ Proves(art.files["report"], art.sums["firmware"], attempt)

(* validate *)
Valid(art) ==
    /\ art.sums = art.files
    /\ art.meta.outcome = "success" /\ art.meta.attempt = attempt /\ ~art.meta.errors
    /\ art.files["exit"] = 0 /\ art.files["firmware"] # None /\ art.files["audit"] = TRUE
    /\ SimulationProves(art)

Validate ==
    /\ release = "validate"
    /\ release' = IF Valid(got) THEN "firmware" ELSE "failed"
    /\ pinned' = got.sums
    /\ UNCHANGED <<attempt, name, whole, job, store, got, out, luck>>

(* Mutant: copied without looking at the bytes. *)
CopyUnread(f) ==
    /\ release = f
    /\ release' = (IF f = "firmware" THEN "report" ELSE "notes") /\ out' = [out EXCEPT ![f] = got.files[f]]
    /\ UNCHANGED <<attempt, name, whole, job, store, got, pinned, luck>>

(* copy_file and archive: Reader hashes what is copied. *)
CopyFile(f) ==
    /\ release = f
    /\ out' = [out EXCEPT ![f] = got.files[f]]
    /\ release' = IF got.files[f] # pinned[f] THEN "failed"
                  ELSE IF f = "firmware" THEN "report" ELSE "notes"
    /\ UNCHANGED <<attempt, name, whole, job, store, got, pinned, luck>>

(* RELEASE-NOTES.md and SHA256SUMS. *)
WriteNotes ==
    /\ release = "notes"
    /\ out' = [out EXCEPT !["notes"] = pinned["firmware"]] /\ release' = "done"
    /\ UNCHANGED <<attempt, name, whole, job, store, got, pinned, luck>>

(* Somebody writes to the downloaded artifact.                             *)
Tamper ==
    /\ release \in {"validate", "firmware", "report"} /\ Fault
    /\ \E f \in {"firmware", "report"} :
            got' = [got EXCEPT !.files[f] = IF f = "firmware" THEN MaxAttempts + faults' ELSE None]
    /\ UNCHANGED <<attempt, name, whole, job, store, release, pinned, out>>

-----------------------------------------------------------------------------
NoAssets == [f \in {"firmware", "report", "notes"} |-> None]

Ended == build = "failed" \/ release \in {"failed", "done"}

FreshImage ==
    /\ build' = "assemble" /\ outcome' = None /\ disk' = Nothing /\ linked' = {}
    /\ errors' = FALSE /\ meta' = None /\ sums' = Nothing

FreshRelease == release' = "todo" /\ got' = None /\ pinned' = Nothing /\ out' = NoAssets

Again == Ended /\ attempt < MaxAttempts /\ attempt' = attempt + 1 /\ disturbed' = FALSE

(* Mutant: the artifact is named for the run only. *)
RerunUnderOneName ==
    /\ Again /\ name' = 1 /\ whole' = TRUE
    /\ FreshImage /\ FreshRelease
    /\ UNCHANGED <<store, faults>>

(* "Re-run all jobs": validate names the artifact for the new attempt. *)
RerunAll ==
    /\ Again /\ name' = attempt' /\ whole' = TRUE
    /\ FreshImage /\ FreshRelease
    /\ UNCHANGED <<store, faults>>

(* "Re-run failed jobs": the outputs of validate stay. *)
RerunFailed ==
    /\ Again /\ release # "done" /\ whole' = FALSE
    /\ IF build = "failed" THEN FreshImage ELSE UNCHANGED job
    /\ FreshRelease
    /\ UNCHANGED <<name, store, faults>>

Init ==
    /\ attempt = 1 /\ name = 1 /\ whole = TRUE
    /\ build = "assemble" /\ outcome = None /\ disk = Nothing /\ linked = {}
    /\ errors = FALSE /\ meta = None /\ sums = Nothing
    /\ store = [n \in 1..MaxAttempts |-> None]
    /\ release = "todo" /\ got = None /\ pinned = Nothing /\ out = NoAssets
    /\ faults = 0 /\ disturbed = FALSE

Work ==
    \/ Assemble \/ AuditFirmware \/ Accept \/ Finish \/ Collect \/ Judge \/ Describe \/ Sum
    \/ Upload \/ Download \/ Validate \/ CopyFile("firmware") \/ CopyFile("report") \/ WriteNotes

Next == Work \/ Break \/ Overwrite \/ CollectLess \/ Tamper \/ RerunAll \/ RerunFailed

Spec == Init /\ [][Next]_vars /\ WF_vars(Work)

-----------------------------------------------------------------------------
TypeOK ==
    /\ attempt \in 1..MaxAttempts /\ name \in 1..attempt /\ whole \in BOOLEAN
    /\ build \in Steps /\ outcome \in {None, "success", "failure"}
    /\ linked \subseteq Files /\ errors \in BOOLEAN
    /\ release \in {"todo", "validate", "firmware", "report", "notes", "done", "failed"}
    /\ faults \in 0..MaxFaults /\ disturbed \in BOOLEAN

(* Prepared for publication is the very firmware that QEMU accepted in     *)
(* this attempt, and not one that an earlier attempt built, or that was    *)
(* overwritten after its test, its collection or its validation; and the   *)
(* hash that the notes give is that of the file beside them.               *)
PreparedIsProven ==
    release = "done" =>
        /\ Proves(out["report"], out["firmware"], attempt) /\ outcome = "success"
        /\ out["notes"] = out["firmware"]

(* No check refuses what such an attempt has made itself.                  *)
FailsForReason == whole /\ ~disturbed => build # "failed" /\ release # "failed"

(* An attempt of all jobs that meets no fault is prepared, whatever        *)
(* earlier attempts have left in the run's artifacts.                      *)
UndisturbedPrepares ==
    \A n \in 1..MaxAttempts :
        (attempt = n /\ whole /\ build = "assemble") ~>
            (release = "done" \/ disturbed \/ attempt # n)
=============================================================================
