-------------------------- MODULE ReleasePublisher --------------------------
(***************************************************************************)
(* scripts/ci-publish-release.py against the state GitHub keeps: the       *)
(* releases, their drafts and assets, and the tag refs.                    *)
(*                                                                         *)
(* Build runs publish one after another (the workflow's concurrency group  *)
(* serialises them and nothing is cancelled by a newer run); each owns at  *)
(* most one release, so a release is named by the run that created it.     *)
(* The image channel replaces the release of the same version through a    *)
(* draft under a tag of its own; the display channel publishes once.       *)
(*                                                                         *)
(* One action is one gh command, or one group of reads with the checks     *)
(* made on it.  A failed check ends the run.  A command that times out,    *)
(* fails or is cancelled ends it too (Fault), before or after the command  *)
(* took effect: nothing is rolled back.                                    *)
(***************************************************************************)
EXTENDS Naturals

CONSTANTS
    MaxRuns,         \* how many runs (attempts) a behaviour may start
    Commits,         \* source commits
    Source,          \* the commit each run builds
    Main,            \* what GitHub may report instead of a target commit
    NoRef,           \* a tag without a ref
    Official,        \* the version's tag; run r's replacement tag is r
    ReplaceExisting, \* --replace-existing: TRUE for image, FALSE for display
    DraftsListed,    \* the REST release list always shows drafts
    ImmutablePolicy  \* the repository may make published releases immutable

Runs == 1..MaxRuns
Tags == Runs \cup {Official}

ASSUME RunsAssumption == MaxRuns \in Nat /\ Official \notin Runs
ASSUME SourceAssumption ==
    Source \in [Runs -> Commits] /\ NoRef \notin Commits /\ Main \notin Commits
ASSUME SwitchAssumption ==
    ReplaceExisting \in BOOLEAN /\ DraftsListed \in BOOLEAN /\ ImmutablePolicy \in BOOLEAN

VARIABLES
    releases, \* GitHub: the release each run created, if any
    refs,     \* GitHub: the commit each tag resolves to
    run,      \* the run at work, or the last one
    pc,       \* its next command; "idle" when no run is at work
    chosen,   \* release_id: the release find_created_release settled on
    seen,     \* what inspect_existing read before the deletions
    passed,   \* runs that reported PASS
    faulted   \* the current run met a fault of the environment

vars == <<releases, refs, run, pc, chosen, seen, passed, faulted>>

Steps == {"preflight", "inspect_replacement", "create", "find", "upload",
          "verify_draft", "inspect_current", "delete_release",
          "confirm_release", "delete_ref", "confirm_ref", "switch",
          "publish", "verify_public", "delete_temporary", "confirm_temporary"}

Release == [status : {"absent", "draft", "public"}, tag : Tags,
            target : Commits \cup {Main}, asset : Runs \cup {0},
            intact : BOOLEAN, immutable : BOOLEAN]

(* Mutant: one replacement tag for the version, not one per attempt. *)
SharedDraftTag(r) == IF ReplaceExisting THEN 1 ELSE Official

(* The tag the draft of run r is created under. *)
DraftTag(r) == IF ReplaceExisting THEN r ELSE Official

NoRelease(r) == [status |-> "absent", tag |-> DraftTag(r), target |-> Main,
                 asset |-> 0, intact |-> FALSE, immutable |-> FALSE]

Public == {i \in Runs : releases[i].status = "public"}
Named(t) == {i \in Runs : releases[i].status # "absent" /\ releases[i].tag = t}

(***************************************************************************)
(* Reads.  The list of releases shows every published release; a draft may *)
(* be missing from it (view_release exists for that reason).               *)
(***************************************************************************)
Listings(t) == {V \in SUBSET Named(t) :
                  Public \cap Named(t) \subseteq V /\ (DraftsListed => V = Named(t))}

AtMostOne(S) == \A i, j \in S : i = j

(* Mutant: an immutable release is accepted for replacement. *)
OneIdentity(V) == AtMostOne(V)

(* inspect_existing accepts what it read: one identity, and not immutable. *)
Identified(V) == AtMostOne(V) /\ \A i \in V : ~releases[i].immutable

(* check_release: the identity, source and state of release i. *)
CheckRelease(i, t, status) ==
    /\ releases[i].status = status
    /\ releases[i].tag = t
    /\ releases[i].target \in {Source[run], Main}

(* Mutant: names are compared, digests are not. *)
CheckAssetNames(i) == releases[i].asset = run

(* check_remote_assets with the one download of this run. *)
CheckAssets(i) == releases[i].asset = run /\ releases[i].intact

(* Mutant: any ref under the tag will do. *)
CheckTagExists(t, pending) == refs[t] # NoRef \/ pending

(* check_tag; a draft's tag may still be pending. *)
CheckTag(t, pending) == refs[t] = Source[run] \/ (pending /\ refs[t] = NoRef)

(***************************************************************************)
(* The run's control: a step goes on when its check holds, and otherwise   *)
(* raises, which ends the run with whatever it left on the remote.         *)
(***************************************************************************)
GoIf(ok, there) == pc' = IF ok THEN there ELSE "idle"

Start ==
    /\ pc = "idle" /\ run < MaxRuns
    /\ run' = run + 1
    /\ pc' = "preflight"
    /\ chosen' = 0
    /\ seen' = [ref |-> NoRef, releases |-> {}]
    /\ faulted' = FALSE
    /\ UNCHANGED <<releases, refs, passed>>

(* gh failed, timed out or was killed; the command may have taken effect. *)
Fault ==
    /\ pc # "idle"
    /\ pc' = "idle"
    /\ faulted' = TRUE
    /\ UNCHANGED <<releases, refs, run, chosen, seen, passed>>

(* preflight: the display channel refuses an existing ref or release. *)
Preflight ==
    /\ pc = "preflight"
    /\ \E V \in Listings(Official) :
         GoIf(Identified(V) /\ (ReplaceExisting \/ (V = {} /\ refs[Official] = NoRef)),
              IF ReplaceExisting THEN "inspect_replacement" ELSE "create")
    /\ UNCHANGED <<releases, refs, run, chosen, seen, passed, faulted>>

(* publish_replacement: this attempt's own tag must be unused. *)
InspectReplacement ==
    /\ pc = "inspect_replacement"
    /\ \E V \in Listings(DraftTag(run)) :
         GoIf(V = {} /\ refs[DraftTag(run)] = NoRef, "create")
    /\ UNCHANGED <<releases, refs, run, chosen, seen, passed, faulted>>

(* gh release create --draft; GitHub may normalise the target. *)
CreateDraft ==
    /\ pc = "create"
    /\ \E target \in {Source[run], Main} :
         releases' = [releases EXCEPT ![run] =
                        [@ EXCEPT !.status = "draft", !.tag = DraftTag(run),
                                  !.target = target]]
    /\ pc' = "find"
    /\ UNCHANGED <<refs, run, chosen, seen, passed, faulted>>

(* find_created_release: the listed release, else the one gh view picks;   *)
(* it must be an empty draft of this source.                               *)
FindDraft ==
    /\ pc = "find"
    /\ \E V \in Listings(DraftTag(run)), i \in Named(DraftTag(run)) :
         /\ V # {} => i \in V
         /\ chosen' = i
         /\ GoIf(AtMostOne(V) /\ CheckRelease(i, DraftTag(run), "draft")
                   /\ releases[i].asset = 0, "upload")
    /\ UNCHANGED <<releases, refs, run, seen, passed, faulted>>

(* gh release upload, to the release gh finds under the tag.  The name is  *)
(* taken once an asset is there; a damaged upload is an environment fault. *)
Upload ==
    /\ pc = "upload"
    /\ \E i \in Named(DraftTag(run)), intact \in BOOLEAN :
         \/ /\ releases[i].asset = 0
            /\ releases' = [releases EXCEPT ![i] =
                              [@ EXCEPT !.asset = run, !.intact = intact]]
            /\ pc' = "verify_draft"
            /\ faulted' = (faulted \/ ~intact)
         \/ /\ releases[i].asset # 0
            /\ pc' = "idle"
            /\ UNCHANGED <<releases, faulted>>
    /\ UNCHANGED <<refs, run, chosen, seen, passed>>

(* The end of create_verified_draft: identity, asset digest and tag. *)
VerifyDraft ==
    /\ pc = "verify_draft"
    /\ GoIf(/\ CheckRelease(chosen, DraftTag(run), "draft")
            /\ CheckAssets(chosen)
            /\ CheckTag(DraftTag(run), TRUE),
            IF ReplaceExisting THEN "inspect_current" ELSE "publish")
    /\ UNCHANGED <<releases, refs, run, chosen, seen, passed, faulted>>

(* publish_replacement re-reads the public identity before deleting it. *)
InspectCurrent ==
    /\ pc = "inspect_current"
    /\ \E V \in Listings(Official) :
         /\ seen' = [ref |-> refs[Official], releases |-> V]
         /\ GoIf(Identified(V), "delete_release")
    /\ UNCHANGED <<releases, refs, run, chosen, passed, faulted>>

(* delete_identity: DELETE the release by id, then GET must answer 404. *)
DeleteRelease ==
    /\ pc = "delete_release"
    /\ \/ /\ releases' = [i \in Runs |-> IF i \in seen.releases THEN NoRelease(i)
                                         ELSE releases[i]]
          /\ UNCHANGED faulted
       \/ /\ faulted' = TRUE   \* accepted, but without effect
          /\ UNCHANGED releases
    /\ pc' = "confirm_release"
    /\ UNCHANGED <<refs, run, chosen, seen, passed>>

(* Mutant: the deletion is not confirmed. *)
TrustDeletion ==
    /\ pc = "confirm_release"
    /\ pc' = "delete_ref"
    /\ UNCHANGED <<releases, refs, run, chosen, seen, passed, faulted>>

ConfirmReleaseGone ==
    /\ pc = "confirm_release"
    /\ GoIf(\A i \in seen.releases : releases[i].status = "absent", "delete_ref")
    /\ UNCHANGED <<releases, refs, run, chosen, seen, passed, faulted>>

(* delete_identity's second half: the official tag's ref, when one was read. *)
DeleteRef ==
    /\ pc = "delete_ref"
    /\ IF seen.ref = NoRef
       THEN pc' = "switch" /\ UNCHANGED <<refs, faulted>>
       ELSE /\ \/ refs' = [refs EXCEPT ![Official] = NoRef] /\ UNCHANGED faulted
               \/ faulted' = TRUE /\ UNCHANGED refs
            /\ pc' = "confirm_ref"
    /\ UNCHANGED <<releases, run, chosen, seen, passed>>

ConfirmRefGone ==
    /\ pc = "confirm_ref"
    /\ GoIf(refs[Official] = NoRef, "switch")
    /\ UNCHANGED <<releases, refs, run, chosen, seen, passed, faulted>>

(* GitHub publishes release i under the official tag: it creates the ref   *)
(* unless there is one, at the target commit, or, if it reports the target *)
(* as the default branch, at whatever that branch is by now.               *)
MakePublic(i, target) ==
    /\ \E immutable \in {b \in BOOLEAN : b => ImmutablePolicy} :
         releases' = [releases EXCEPT ![i] =
                        [@ EXCEPT !.status = "public", !.tag = Official,
                                  !.target = target, !.immutable = immutable]]
    /\ \E c \in IF target = Main THEN Commits ELSE {target},
          leftover \in {NoRef, Source[run]} :
         /\ refs' = [t \in Tags |->
                       IF t = Official /\ refs[t] = NoRef THEN c
                       ELSE IF t = run /\ ReplaceExisting /\ refs[t] = NoRef
                            THEN leftover
                            ELSE refs[t]]
         /\ faulted' = (faulted \/ (refs[Official] = NoRef /\ c # Source[run]))

(* gh release edit of the replacement tag: retag the draft and publish it. *)
Switch ==
    /\ pc = "switch"
    /\ \E i \in Named(DraftTag(run)), target \in {Source[run], Main} :
         MakePublic(i, target)
    /\ pc' = "verify_public"
    /\ UNCHANGED <<run, chosen, seen, passed>>

(* publish_draft: the display draft already has the official tag. *)
PublishDraft ==
    /\ pc = "publish"
    /\ \E i \in Named(Official) : MakePublic(i, releases[i].target)
    /\ pc' = "verify_public"
    /\ UNCHANGED <<run, chosen, seen, passed>>

(* The checks made on the published release; the display run ends here. *)
VerifyPublic ==
    /\ pc = "verify_public"
    /\ LET ok == /\ CheckRelease(chosen, Official, "public")
                 /\ CheckAssets(chosen)
                 /\ CheckTag(Official, FALSE)
       IN  /\ GoIf(ok, IF ReplaceExisting THEN "delete_temporary" ELSE "idle")
           /\ passed' = IF ok /\ ~ReplaceExisting THEN passed \cup {run} ELSE passed
    /\ UNCHANGED <<releases, refs, run, chosen, seen, faulted>>

(* publish_replacement removes a ref GitHub left on the temporary tag. *)
DeleteTemporaryRef ==
    /\ pc = "delete_temporary"
    /\ IF refs[run] = NoRef
       THEN pc' = "idle" /\ passed' = passed \cup {run} /\ UNCHANGED <<refs, faulted>>
       ELSE /\ \/ refs' = [refs EXCEPT ![run] = NoRef] /\ UNCHANGED faulted
               \/ faulted' = TRUE /\ UNCHANGED refs
            /\ pc' = "confirm_temporary"
            /\ UNCHANGED passed
    /\ UNCHANGED <<releases, run, chosen, seen>>

ConfirmTemporaryGone ==
    /\ pc = "confirm_temporary"
    /\ pc' = "idle"
    /\ passed' = IF refs[run] = NoRef THEN passed \cup {run} ELSE passed
    /\ UNCHANGED <<releases, refs, run, chosen, seen, faulted>>

Init ==
    /\ releases = [i \in Runs |-> NoRelease(i)]
    /\ \E c \in Commits \cup {NoRef} : \* a tag may have been pushed by hand
         refs = [t \in Tags |-> IF t = Official THEN c ELSE NoRef]
    /\ run = 0 /\ pc = "idle" /\ chosen = 0
    /\ seen = [ref |-> NoRef, releases |-> {}]
    /\ passed = {} /\ faulted = FALSE

Work ==
    \/ Preflight \/ InspectReplacement \/ CreateDraft \/ FindDraft \/ Upload
    \/ VerifyDraft \/ InspectCurrent \/ DeleteRelease \/ ConfirmReleaseGone
    \/ DeleteRef \/ ConfirmRefGone \/ Switch \/ PublishDraft \/ VerifyPublic
    \/ DeleteTemporaryRef \/ ConfirmTemporaryGone

Next == Start \/ Fault \/ Work

Spec == Init /\ [][Next]_vars

(* The job's runner executes the script's next statement. *)
FairSpec == Spec /\ WF_vars(Work)

-----------------------------------------------------------------------------
(* Type correctness of every variable of the publisher and the remote. *)
TypeOK ==
    /\ releases \in [Runs -> Release]
    /\ refs \in [Tags -> Commits \cup {NoRef}]
    /\ run \in 0..MaxRuns
    /\ pc \in Steps \cup {"idle"}
    /\ pc # "idle" => run \in Runs
    /\ chosen \in Runs \cup {0}
    /\ seen \in [ref : Commits \cup {NoRef}, releases : SUBSET Runs]
    /\ passed \in SUBSET Runs
    /\ faulted \in BOOLEAN

(* What the public can download is always the complete, undamaged payload  *)
(* of the run that created that release, under the version's tag: whatever *)
(* step of whatever run failed, no draft that was not verified (lines      *)
(* 289-300) becomes public.  The display channel has this only where the   *)
(* list shows drafts: gh may otherwise publish an earlier run's draft.     *)
PublicIsVerified ==
    \A i \in Public : /\ releases[i].tag = Official
                      /\ releases[i].asset = i
                      /\ releases[i].intact

(* "One version keeps only one current public image": the replacement is   *)
(* never published beside the release it replaces (lines 328-332).         *)
AtMostOnePublic == AtMostOne(Public)

(* After a run reported PASS, and until the next one starts, its release   *)
(* is the public one, the version's tag resolves to the commit it built,   *)
(* and its temporary tag is gone.                                          *)
LastPassIsCurrent ==
    pc = "idle" /\ run \in passed =>
        /\ Public = {run}
        /\ refs[Official] = Source[run]
        /\ ReplaceExisting => refs[run] = NoRef

(* What a PASS of the display channel is worth even on a GitHub that omits *)
(* drafts from its list: the payload that the run verified after it was    *)
(* published (306-308) stays public under the version's tag, at the commit *)
(* the run built, and no later run passes (preflight, 97-103).             *)
PassedStaysPublic ==
    ~ReplaceExisting =>
        /\ AtMostOne(passed)
        /\ \A r \in passed :
             /\ \E i \in Public : /\ releases[i].tag = Official
                                 /\ releases[i].asset = r
                                 /\ releases[i].intact
             /\ refs[Official] = Source[r]

(* A release stops being public only while the run at work holds a         *)
(* complete draft whose checksum it verified on the remote ("a failed      *)
(* build or upload leaves the current public release untouched", 325-327). *)
WithdrawalHasReplacement ==
    \/ Public \subseteq Public'
    \/ /\ releases[run].status = "draft"
       /\ releases[run].asset = run
       /\ releases[run].intact

WithdrawnOnlyForVerified == [][WithdrawalHasReplacement]_vars

(* An immutable release is never deleted: its tag could not be used again, *)
(* so the channel would be stranded (inspect_existing, line 126).          *)
ImmutableStays ==
    [][\A i \in Runs : releases[i].immutable => i \in Public']_vars

(* No history of earlier failures can wedge the image channel: a run that  *)
(* itself meets no fault of GitHub or of the runner always ends in PASS,   *)
(* unless the release it must replace is immutable.                        *)
EveryRunSettles ==
    \A r \in Runs :
        (run = r /\ pc # "idle") ~>
            (r \in passed \/ (pc = "idle" /\ (faulted \/ \E i \in Public : releases[i].immutable)))

(* docs/GITHUB-ACTIONS.md, 92:    without --replace-existing, preflight     *)
(* fails while the version has a release or a draft, so that a run never    *)
(* adds a second one under the same tag.                                    *)
PreflightRefusesLeftovers ==
    [][pc = "preflight" /\ pc' = "create" => Named(Official) = {}]_vars

(* The detailed publisher implements the channel: the candidate is staged  *)
(* from the verification of the draft until it is made public.             *)
Staged == IF pc \in {"inspect_current", "delete_release", "confirm_release",
                     "delete_ref", "confirm_ref", "switch", "publish"}
          THEN {run} ELSE {}

Channel == INSTANCE ReleaseChannel WITH public <- Public, staged <- Staged

ChannelSpec == Channel!Spec
=============================================================================
