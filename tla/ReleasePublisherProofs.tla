----------------------- MODULE ReleasePublisherProofs -----------------------
(***************************************************************************)
(* Proofs about ReleasePublisher, for any number of runs and any commits.  *)
(*                                                                         *)
(* Three theorems assume that a run cannot be led to another run's draft:  *)
(* it works under a tag of its own (the image channel), or the release     *)
(* list shows it every draft (Lookup).  The others hold on any GitHub.     *)
(***************************************************************************)
EXTENDS ReleasePublisher, TLAPS

Lookup == ReplaceExisting \/ DraftsListed

(* Where the run has its draft, and where that draft has been verified. *)
Created == {"find", "upload", "verify_draft", "inspect_current",
            "delete_release", "confirm_release", "delete_ref", "confirm_ref",
            "switch", "publish"}
Verified == {"inspect_current", "delete_release", "confirm_release",
             "delete_ref", "confirm_ref", "switch", "publish"}
Replacing == Verified \ {"publish"}

(* Releases belong to runs that started, and carry their run's own tag     *)
(* until they are public.                                                  *)
Ownership ==
    \A i \in Runs :
        /\ i > run \/ (i = run /\ pc \in {"preflight", "inspect_replacement", "create"})
             => releases[i].status = "absent"
        /\ releases[i].status = "draft" => releases[i].tag = DraftTag(i)
        /\ releases[i].status = "absent" => releases[i].asset = 0
        /\ releases[i].asset \in {0, i}

(* The run at work has the only release under its tag. *)
Alone ==
    /\ pc = "create" => Named(DraftTag(run)) = {}
    /\ pc \in Created => /\ releases[run].status = "draft"
                         /\ Named(DraftTag(run)) = {run}
    /\ pc \in Created \ {"find"} => chosen = run
    /\ pc \in Verified => releases[run].asset = run /\ releases[run].intact
    /\ pc \in Replacing => ReplaceExisting
    /\ pc = "publish" => ~ReplaceExisting

(* The deletions take away every public release, and nothing else that is  *)
(* under another tag.                                                      *)
Deletions ==
    /\ pc \in {"delete_release", "confirm_release"} =>
           Public \subseteq seen.releases /\ run \notin seen.releases
    /\ pc \in {"delete_ref", "confirm_ref", "switch"} => Public = {}

(* The part of the inductive invariant that TypeOK is not. *)
Core == Ownership /\ Alone /\ PublicIsVerified /\ AtMostOnePublic /\ Deletions

(* The display channel on any GitHub: from the preflight to the            *)
(* publication nothing is public and no run has passed, since the list     *)
(* would have shown the release.                                           *)
DisplaySteps == {"idle", "preflight", "create", "find", "upload",
                 "verify_draft", "publish", "verify_public"}

OnceOnly ==
    ~ReplaceExisting =>
        /\ pc \in DisplaySteps
        /\ pc \in {"upload", "verify_draft", "publish", "verify_public"} => chosen \in Runs
        /\ pc \notin {"idle", "preflight"} => passed = {}

NothingBeside ==
    ~ReplaceExisting =>
        /\ pc \notin {"idle", "preflight", "verify_public"} => Public = {}
        /\ \A i \in Public : releases[i].tag = Official
        /\ \A i \in Runs : releases[i].immutable => i \in Public
        /\ AtMostOnePublic

-----------------------------------------------------------------------------
USE DEF Runs, Tags

LEMMA Constants ==
    /\ MaxRuns \in Nat /\ Official \notin Runs
    /\ Source \in [Runs -> Commits] /\ NoRef \notin Commits /\ Main \notin Commits
    /\ ReplaceExisting \in BOOLEAN /\ DraftsListed \in BOOLEAN
    /\ ImmutablePolicy \in BOOLEAN
    /\ 0 \notin Runs
BY RunsAssumption, SourceAssumption, SwitchAssumption

LEMMA DraftTagType == \A r \in Runs : DraftTag(r) \in Tags
BY Constants DEF DraftTag

LEMMA NoReleaseType == \A r \in Runs : NoRelease(r) \in Release
BY Constants, DraftTagType DEF NoRelease, Release

LEMMA ReleaseEdits ==
    ASSUME NEW x \in Release, NEW t \in Tags, NEW g \in Commits \cup {Main},
           NEW b \in BOOLEAN
    PROVE  /\ [x EXCEPT !.status = "draft", !.tag = t, !.target = g] \in Release
           /\ [x EXCEPT !.status = "public", !.tag = t, !.target = g, !.immutable = b]
                  \in Release
BY DEF Release

LEMMA UploadEdit ==
    ASSUME NEW x \in Release, NEW p \in Runs \cup {0}, NEW b \in BOOLEAN
    PROVE  [x EXCEPT !.asset = p, !.intact = b] \in Release
BY DEF Release

(* Type correctness of the publisher and of the remote state. *)
THEOREM TypeCorrect == Spec => []TypeOK
<1>1. Init => TypeOK
  <2> SUFFICES ASSUME Init PROVE TypeOK
    OBVIOUS
  <2>1. releases \in [Runs -> Release]
    BY NoReleaseType DEF Init
  <2>2. refs \in [Tags -> Commits \cup {NoRef}]
    BY DEF Init
  <2>3. run \in 0..MaxRuns
    BY Constants DEF Init
  <2>4. seen \in [ref : Commits \cup {NoRef}, releases : SUBSET Runs]
    BY DEF Init
  <2> QED
    BY <2>1, <2>2, <2>3, <2>4 DEF Init, TypeOK
<1>2. TypeOK /\ [Next]_vars => TypeOK'
  <2> SUFFICES ASSUME TypeOK, [Next]_vars PROVE TypeOK'
    OBVIOUS
  <2> USE Constants DEF TypeOK, GoIf, Steps
  <2>1. CASE Start
    <3>1. seen' \in [ref : Commits \cup {NoRef}, releases : SUBSET Runs]
      BY <2>1 DEF Start
    <3>2. run' \in Runs
      BY <2>1 DEF Start
    <3>3. run' \in 0..MaxRuns
      BY <3>2
    <3>4. chosen' \in Runs \cup {0}
      BY <2>1 DEF Start
    <3> QED
      BY <2>1, <3>1, <3>2, <3>3, <3>4 DEF Start
  <2>2. CASE Fault
    BY <2>2 DEF Fault
  <2>3. CASE Preflight
    BY <2>3 DEF Preflight
  <2>4. CASE InspectReplacement
    BY <2>4 DEF InspectReplacement
  <2>5. CASE CreateDraft
    <3>1. PICK target \in {Source[run], Main} :
            releases' = [releases EXCEPT ![run] =
                           [@ EXCEPT !.status = "draft", !.tag = DraftTag(run),
                                     !.target = target]]
      BY <2>5 DEF CreateDraft
    <3>2. run \in Runs /\ target \in Commits \cup {Main}
      BY <2>5 DEF CreateDraft
    <3>3. releases' \in [Runs -> Release]
      BY <3>1, <3>2, DraftTagType, ReleaseEdits
    <3> QED
      BY <2>5, <3>3 DEF CreateDraft
  <2>6. CASE FindDraft
    BY <2>6 DEF FindDraft, Named
  <2>7. CASE Upload
    <3>1. PICK i \in Named(DraftTag(run)), intact \in BOOLEAN :
            \/ /\ releases' = [releases EXCEPT ![i] =
                                  [@ EXCEPT !.asset = run, !.intact = intact]]
               /\ pc' = "verify_draft"
               /\ faulted' = (faulted \/ ~intact)
            \/ pc' = "idle" /\ UNCHANGED <<releases, faulted>>
      BY <2>7 DEF Upload
    <3>2. i \in Runs /\ run \in Runs
      BY <2>7 DEF Upload, Named
    <3>3. releases' \in [Runs -> Release]
      <4>1. [releases[i] EXCEPT !.asset = run, !.intact = intact] \in Release
        BY <3>2, UploadEdit
      <4> QED
        BY <3>1, <3>2, <4>1
    <3>4. faulted' \in BOOLEAN
      BY <3>1
    <3> QED
      BY <2>7, <3>1, <3>3, <3>4 DEF Upload
  <2>8. CASE VerifyDraft
    BY <2>8 DEF VerifyDraft
  <2>9. CASE InspectCurrent
    BY <2>9 DEF InspectCurrent, Listings, Named
  <2>10. CASE DeleteRelease
    <3>1. releases' \in [Runs -> Release]
      BY <2>10, NoReleaseType DEF DeleteRelease
    <3>2. faulted' \in BOOLEAN
      BY <2>10 DEF DeleteRelease
    <3> QED
      BY <2>10, <3>1, <3>2 DEF DeleteRelease
  <2>11. CASE ConfirmReleaseGone
    BY <2>11 DEF ConfirmReleaseGone
  <2>12. CASE DeleteRef
    BY <2>12 DEF DeleteRef
  <2>13. CASE ConfirmRefGone
    BY <2>13 DEF ConfirmRefGone
  <2>14. ASSUME NEW i \in Runs, NEW target \in Commits \cup {Main}, run \in Runs,
                MakePublic(i, target)
         PROVE  /\ releases' \in [Runs -> Release]
                /\ refs' \in [Tags -> Commits \cup {NoRef}]
                /\ faulted' \in BOOLEAN
    <3>1. releases' \in [Runs -> Release]
      <4>1. PICK b \in BOOLEAN :
              releases' = [releases EXCEPT ![i] =
                             [@ EXCEPT !.status = "public", !.tag = Official,
                                       !.target = target, !.immutable = b]]
        BY <2>14 DEF MakePublic
      <4> QED
        BY <4>1, ReleaseEdits
    <3>2. PICK c \in Commits, leftover \in {NoRef, Source[run]} :
            /\ refs' = [t \in Tags |->
                          IF t = Official /\ refs[t] = NoRef THEN c
                          ELSE IF t = run /\ ReplaceExisting /\ refs[t] = NoRef
                               THEN leftover
                               ELSE refs[t]]
            /\ faulted' = (faulted \/ (refs[Official] = NoRef /\ c # Source[run]))
      BY <2>14 DEF MakePublic
    <3>3. leftover \in Commits \cup {NoRef}
      BY <2>14
    <3>4. refs' \in [Tags -> Commits \cup {NoRef}]
      BY <3>2, <3>3
    <3> QED
      BY <3>1, <3>2, <3>4
  <2>15. CASE Switch
    <3>1. PICK i \in Named(DraftTag(run)), target \in {Source[run], Main} :
            MakePublic(i, target)
      BY <2>15 DEF Switch
    <3>2. i \in Runs /\ run \in Runs /\ target \in Commits \cup {Main}
      BY <2>15 DEF Switch, Named
    <3> QED
      BY <2>15, <3>1, <3>2, <2>14 DEF Switch
  <2>16. CASE PublishDraft
    <3>1. PICK i \in Named(Official) : MakePublic(i, releases[i].target)
      BY <2>16 DEF PublishDraft
    <3>2. i \in Runs /\ run \in Runs /\ releases[i].target \in Commits \cup {Main}
      BY <2>16 DEF PublishDraft, Named, Release
    <3> QED
      BY <2>16, <3>1, <3>2, <2>14 DEF PublishDraft
  <2>17. CASE VerifyPublic
    BY <2>17 DEF VerifyPublic
  <2>18. CASE DeleteTemporaryRef
    BY <2>18 DEF DeleteTemporaryRef
  <2>19. CASE ConfirmTemporaryGone
    BY <2>19 DEF ConfirmTemporaryGone
  <2>20. CASE UNCHANGED vars
    BY <2>20 DEF vars
  <2> QED
    BY <2>1, <2>2, <2>3, <2>4, <2>5, <2>6, <2>7, <2>8, <2>9, <2>10, <2>11, <2>12,
       <2>13, <2>15, <2>16, <2>17, <2>18, <2>19, <2>20 DEF Next, Work
<1> QED
  BY <1>1, <1>2, PTL DEF Spec

LEMMA InitCore == Init => Core
BY Constants DEF Init, Core, Ownership, Alone, PublicIsVerified, AtMostOnePublic,
   Deletions, Public, Named, AtMostOne, NoRelease, Created, Verified, Replacing

LEMMA NextCore ==
    ASSUME Lookup, TypeOK, TypeOK', Core, [Next]_vars
    PROVE  Core'
<1> USE Constants DEF Core, Ownership, Alone, PublicIsVerified, AtMostOnePublic,
      Deletions, Public, Named, AtMostOne, Created, Verified, Replacing, DraftTag, TypeOK, Release
<1>1. CASE Start
  BY <1>1 DEF Start
<1>2. CASE Fault
  BY <1>2 DEF Fault
<1>3. CASE Preflight
  <2>1. PICK V \in Listings(Official) :
          pc' = IF Identified(V) /\ (ReplaceExisting \/ (V = {} /\ refs[Official] = NoRef))
                THEN IF ReplaceExisting THEN "inspect_replacement" ELSE "create"
                ELSE "idle"
    BY <1>3 DEF Preflight, GoIf
  <2>2. pc' = "create" => ~ReplaceExisting /\ Named(Official) = {}
    BY <2>1 DEF Listings, Lookup
  <2>3. pc' \in {"idle", "inspect_replacement", "create"}
    BY <2>1
  <2>4. UNCHANGED <<releases, run>> /\ pc = "preflight"
    BY <1>3 DEF Preflight
  <2> HIDE DEF Named
  <2>5. (pc = "create" => Named(DraftTag(run)) = {})'
    BY <2>2, <2>4 DEF Named
  <2> QED
    BY <2>3, <2>4, <2>5
<1>4. CASE InspectReplacement
  <2>1. pc' \in {"idle", "create"} /\ UNCHANGED <<releases, run>> /\ pc = "inspect_replacement"
    BY <1>4 DEF InspectReplacement, GoIf
  <2>2. pc' = "create" => Named(DraftTag(run)) = {}
    <3>1. ASSUME ReplaceExisting PROVE Named(DraftTag(run)) = {}
      BY <2>1, <3>1
    <3>2. ASSUME DraftsListed, pc' = "create" PROVE Named(DraftTag(run)) = {}
      <4> HIDE DEF DraftTag, Named
      <4> QED
        BY <1>4, <3>2 DEF InspectReplacement, GoIf, Listings
    <3> QED
      BY <3>1, <3>2 DEF Lookup
  <2> HIDE DEF Named
  <2>3. (pc = "create" => Named(DraftTag(run)) = {})'
    BY <2>1, <2>2 DEF Named
  <2> QED
    BY <2>1, <2>3
<1>5. CASE CreateDraft
  BY <1>5 DEF CreateDraft
<1>6. CASE FindDraft
  BY <1>6 DEF FindDraft, Listings, GoIf, CheckRelease
<1>7. CASE Upload
  <2>1. pc = "upload" /\ run' = run /\ chosen' = chosen /\ run \in Runs
    BY <1>7 DEF Upload
  <2>2. Named(DraftTag(run)) = {run}
    BY <2>1
  <2>3. CASE UNCHANGED releases /\ pc' = "idle"
    BY <2>1, <2>3
  <2>4. CASE \E intact \in BOOLEAN :
               /\ releases' = [releases EXCEPT ![run] =
                                 [@ EXCEPT !.asset = run, !.intact = intact]]
               /\ pc' = "verify_draft"
    <3>1. \A i \in Runs : /\ releases'[i].status = releases[i].status
                          /\ releases'[i].tag = releases[i].tag
                          /\ i # run => releases'[i] = releases[i]
      BY <2>4
    <3>2. releases'[run].asset = run
      BY <2>1, <2>4
    <3> QED
      BY <2>1, <2>4, <3>1, <3>2
  <2>5. PICK i \in Named(DraftTag(run)), intact \in BOOLEAN :
          \/ /\ releases' = [releases EXCEPT ![i] =
                               [@ EXCEPT !.asset = run, !.intact = intact]]
             /\ pc' = "verify_draft"
          \/ pc' = "idle" /\ UNCHANGED releases
    <3> HIDE DEF Named, Core, TypeOK
    <3> QED
      BY <1>7 DEF Upload
  <2>6. i = run
    BY <2>2
  <2> HIDE DEF Named, Core, TypeOK
  <2> QED
    BY <2>3, <2>4, <2>5, <2>6
<1>8. CASE VerifyDraft
  <2>1. /\ UNCHANGED <<releases, run, chosen>> /\ pc = "verify_draft"
        /\ run \in Runs /\ chosen = run
    BY <1>8 DEF VerifyDraft
  <2>2. \/ pc' = "idle"
        \/ /\ CheckAssets(run)
           /\ pc' = IF ReplaceExisting THEN "inspect_current" ELSE "publish"
    <3> HIDE DEF Core, TypeOK
    <3> QED
      BY <1>8, <2>1 DEF VerifyDraft, GoIf
  <2>3. \/ pc' = "idle"
        \/ /\ releases[run].asset = run /\ releases[run].intact
           /\ \/ pc' = "inspect_current" /\ ReplaceExisting
              \/ pc' = "publish" /\ ~ReplaceExisting
    BY <2>2 DEF CheckAssets
  <2> QED
    BY <2>1, <2>3
<1>9. CASE InspectCurrent
  BY <1>9 DEF InspectCurrent, Listings, GoIf
<1>10. CASE DeleteRelease
  BY <1>10 DEF DeleteRelease, NoRelease
<1>11. CASE ConfirmReleaseGone
  BY <1>11 DEF ConfirmReleaseGone, GoIf
<1>12. CASE DeleteRef
  BY <1>12 DEF DeleteRef
<1>13. CASE ConfirmRefGone
  BY <1>13 DEF ConfirmRefGone, GoIf
<1>14. CASE Switch
  BY <1>14 DEF Switch, MakePublic
<1>15. CASE PublishDraft
  BY <1>15 DEF PublishDraft, MakePublic
<1>16. CASE VerifyPublic
  BY <1>16 DEF VerifyPublic, GoIf
<1>17. CASE DeleteTemporaryRef
  BY <1>17 DEF DeleteTemporaryRef
<1>18. CASE ConfirmTemporaryGone
  BY <1>18 DEF ConfirmTemporaryGone
<1>19. CASE UNCHANGED vars
  BY <1>19 DEF vars
<1> QED
  BY <1>1, <1>2, <1>3, <1>4, <1>5, <1>6, <1>7, <1>8, <1>9, <1>10, <1>11, <1>12, <1>13,
     <1>14, <1>15, <1>16, <1>17, <1>18, <1>19 DEF Next, Work

LEMMA CoreInvariant == ASSUME Lookup PROVE Spec => [](TypeOK /\ Core)
<1>1. TypeOK /\ TypeOK' /\ Core /\ [Next]_vars => Core'
  BY NextCore
<1> QED
  BY <1>1, InitCore, TypeCorrect, PTL DEF Spec

LEMMA UploadKeepsPublic ==
    ASSUME TypeOK, Upload
    PROVE  /\ Public' = Public
           /\ \A j \in Runs : releases'[j].immutable = releases[j].immutable
<1>1. PICK i \in Runs, intact \in BOOLEAN :
        \/ releases' = [releases EXCEPT ![i] =
                          [@ EXCEPT !.asset = run, !.intact = intact]]
        \/ UNCHANGED releases
  BY DEF Upload, Named
<1>2. \A j \in Runs : /\ releases'[j].status = releases[j].status
                      /\ releases'[j].immutable = releases[j].immutable
  <2>1. CASE UNCHANGED releases
    BY <2>1
  <2>2. CASE releases' = [releases EXCEPT ![i] =
                            [@ EXCEPT !.asset = run, !.intact = intact]]
    <3>1. releases \in [Runs -> Release]
      BY DEF TypeOK
    <3>2. ASSUME NEW x \in Release
          PROVE  LET y == [x EXCEPT !.asset = run, !.intact = intact]
                 IN  y.status = x.status /\ y.immutable = x.immutable
      BY DEF Release
    <3> QED
      BY <2>2, <3>1, <3>2
  <2> QED
    BY <1>1, <2>1, <2>2
<1> QED
  BY <1>2 DEF Public

-----------------------------------------------------------------------------
(* The display channel where the list may omit drafts.                     *)
LEMMA NextOnceOnly ==
    ASSUME TypeOK, OnceOnly, PassedStaysPublic, ~ReplaceExisting, Next
    PROVE  OnceOnly' /\ PassedStaysPublic'
<1> USE DEF GoIf, DisplaySteps
<1>1. pc \in DisplaySteps
  BY DEF OnceOnly
<1>2. CASE UNCHANGED <<releases, refs, passed>> /\ pc' \in {"idle", "preflight"}
  BY <1>2 DEF OnceOnly, PassedStaysPublic, Public, AtMostOne
<1>3. CASE passed = {} /\ passed' = {} /\ pc' \in DisplaySteps
           /\ (pc' \in {"upload", "verify_draft", "publish", "verify_public"}
                  => chosen' \in Runs)
  BY <1>3 DEF OnceOnly, PassedStaysPublic, AtMostOne
<1>4. CASE Start \/ Fault
  BY <1>2, <1>4 DEF Start, Fault
<1>5. CASE Preflight
  <2>1. CASE pc' = "idle"
    BY <1>2, <1>5, <2>1 DEF Preflight
  <2>2. CASE pc' # "idle"
    <3>1. PICK V \in Listings(Official) : V = {}
      BY <1>5, <2>2 DEF Preflight
    <3>2. Public \cap Named(Official) = {}
      BY <3>1 DEF Listings
    <3>3. passed = {}
      BY <3>2 DEF PassedStaysPublic, Public, Named
    <3>4. pc' = "create" /\ passed' = passed
      BY <1>5, <2>2 DEF Preflight
    <3> QED
      BY <1>3, <3>3, <3>4
  <2> QED
    BY <2>1, <2>2
<1>6. CASE CreateDraft \/ FindDraft \/ Upload \/ VerifyDraft \/ PublishDraft
  <2>1. pc \notin {"idle", "preflight"}
    <3>1. CreateDraft => pc = "create"
      BY DEF CreateDraft
    <3>2. FindDraft => pc = "find"
      BY DEF FindDraft
    <3>3. Upload => pc = "upload"
      BY DEF Upload
    <3>4. VerifyDraft => pc = "verify_draft"
      BY DEF VerifyDraft
    <3>5. PublishDraft => pc = "publish"
      BY DEF PublishDraft
    <3> QED
      BY <1>6, <3>1, <3>2, <3>3, <3>4, <3>5
  <2>2. passed = {}
    BY <2>1 DEF OnceOnly
  <2>3. CASE CreateDraft
    BY <1>3, <2>2, <2>3 DEF CreateDraft
  <2>4. CASE FindDraft
    BY <1>3, <2>2, <2>4 DEF FindDraft, Named
  <2>5. CASE Upload
    <3>1. pc = "upload" /\ chosen' = chosen /\ passed' = passed
      BY <2>5 DEF Upload
    <3>2. pc' \in {"verify_draft", "idle"}
      BY <2>5 DEF Upload
    <3> QED
      BY <1>3, <2>2, <3>1, <3>2 DEF OnceOnly
  <2>6. CASE VerifyDraft
    BY <1>3, <2>2, <2>6 DEF VerifyDraft, OnceOnly
  <2>7. CASE PublishDraft
    BY <1>3, <2>2, <2>7 DEF PublishDraft, OnceOnly
  <2> QED
    BY <1>6, <2>3, <2>4, <2>5, <2>6, <2>7
<1>7. CASE VerifyPublic
  <2>1. chosen \in Runs /\ passed = {} /\ UNCHANGED <<releases, refs>> /\ pc' = "idle"
    BY <1>7 DEF VerifyPublic, OnceOnly
  <2>2. CASE passed' = {}
    BY <1>3, <2>1, <2>2
  <2>3. CASE passed' # {}
    <3>1. passed' = {run}
      BY <1>7, <2>1, <2>3 DEF VerifyPublic
    <3>2. /\ CheckRelease(chosen, Official, "public")
          /\ CheckAssets(chosen)
          /\ CheckTag(Official, FALSE)
      BY <1>7, <2>1, <2>3 DEF VerifyPublic
    <3>3. /\ chosen \in Public
          /\ releases[chosen].tag = Official
          /\ releases[chosen].asset = run
          /\ releases[chosen].intact
      BY <2>1, <3>2 DEF CheckRelease, CheckAssets, Public
    <3>4. refs[Official] = Source[run]
      BY <3>2 DEF CheckTag
    <3> QED
      BY <2>1, <3>1, <3>3, <3>4 DEF OnceOnly, PassedStaysPublic, AtMostOne, Public
  <2> QED
    BY <2>2, <2>3
<1> QED
  BY <1>1, <1>4, <1>5, <1>6, <1>7 DEF Next, Work, InspectReplacement, InspectCurrent,
     DeleteRelease, ConfirmReleaseGone, DeleteRef, ConfirmRefGone, Switch,
     DeleteTemporaryRef, ConfirmTemporaryGone

LEMMA NextNothingBeside ==
    ASSUME TypeOK, OnceOnly, NothingBeside, ~ReplaceExisting, Next
    PROVE  NothingBeside' /\ Public \subseteq Public'
<1> USE DEF GoIf, DisplaySteps
<1>1. pc \in DisplaySteps
  BY DEF OnceOnly
<1>2. CASE /\ UNCHANGED releases
           /\ \/ pc' \in {"idle", "preflight", "verify_public"}
              \/ pc \notin {"idle", "preflight", "verify_public"}
              \/ Public = {}
  BY <1>2 DEF NothingBeside, Public, AtMostOnePublic, AtMostOne
<1>3. CASE Start \/ Fault \/ VerifyPublic
  BY <1>2, <1>3 DEF Start, Fault, VerifyPublic
<1>4. CASE FindDraft \/ VerifyDraft
  BY <1>2, <1>4 DEF FindDraft, VerifyDraft
<1>5. CASE Preflight
  <2>1. CASE pc' = "idle"
    BY <1>2, <1>5, <2>1 DEF Preflight
  <2>2. CASE pc' # "idle"
    <3>1. PICK V \in Listings(Official) : V = {}
      BY <1>5, <2>2 DEF Preflight
    <3>2. Public \cap Named(Official) = {}
      BY <3>1 DEF Listings
    <3>3. Public \subseteq Named(Official)
      BY DEF NothingBeside, Public, Named
    <3> QED
      BY <1>2, <1>5, <3>2, <3>3 DEF Preflight
  <2> QED
    BY <2>1, <2>2
<1>6. CASE CreateDraft
  <2>1. Public = {} /\ \A i \in Runs : ~releases[i].immutable
    BY <1>6 DEF CreateDraft, NothingBeside
  <2>2. \A i \in Runs : /\ releases'[i].status # "public"
                        /\ releases'[i].immutable = releases[i].immutable
    BY <1>6, <2>1 DEF CreateDraft, TypeOK, Release, Public
  <2> QED
    BY <2>1, <2>2 DEF NothingBeside, Public, AtMostOnePublic, AtMostOne
<1>7. CASE Upload
  <2>1. Public = {} /\ \A i \in Runs : ~releases[i].immutable
    BY <1>7 DEF Upload, NothingBeside
  <2>2. Public' = {} /\ \A i \in Runs : ~releases'[i].immutable
    BY <1>7, <2>1, UploadKeepsPublic
  <2> QED
    BY <2>1, <2>2 DEF NothingBeside, AtMostOnePublic, AtMostOne
<1>8. CASE PublishDraft
  <2>1. Public = {} /\ \A i \in Runs : ~releases[i].immutable
    BY <1>8 DEF PublishDraft, NothingBeside
  <2>2. PICK i \in Runs : MakePublic(i, releases[i].target)
    BY <1>8 DEF PublishDraft, Named
  <2>3. /\ releases'[i].status = "public" /\ releases'[i].tag = Official
        /\ \A j \in Runs \ {i} : releases'[j] = releases[j]
    BY <2>2 DEF MakePublic, TypeOK, Release
  <2>4. Public' = {i}
    BY <2>1, <2>3 DEF Public
  <2>5. \A j \in Runs : releases'[j].immutable => j = i
    BY <2>1, <2>3
  <2>6. pc' = "verify_public"
    BY <1>8 DEF PublishDraft
  <2> QED
    BY <2>1, <2>3, <2>4, <2>5, <2>6 DEF NothingBeside, AtMostOnePublic, AtMostOne
<1> QED
  BY <1>1, <1>3, <1>4, <1>5, <1>6, <1>7, <1>8 DEF Next, Work, InspectReplacement,
     InspectCurrent, DeleteRelease, ConfirmReleaseGone, DeleteRef, ConfirmRefGone,
     Switch, DeleteTemporaryRef, ConfirmTemporaryGone

(* What holds of either channel, on any GitHub. *)
LEMMA ChannelInvariant ==
    Spec => [](TypeOK /\ OnceOnly /\ PassedStaysPublic /\ NothingBeside
                  /\ (Lookup => Core))
<1> DEFINE Inv == OnceOnly /\ PassedStaysPublic /\ NothingBeside /\ (Lookup => Core)
<1>1. Init => Inv
  <2>1. \A i \in Runs : /\ NoRelease(i).status = "absent"
                        /\ NoRelease(i).immutable = FALSE
    BY DEF NoRelease
  <2> QED
    BY <2>1, InitCore DEF Init, OnceOnly, PassedStaysPublic, NothingBeside, DisplaySteps,
       Public, AtMostOnePublic, AtMostOne
<1>2. TypeOK /\ TypeOK' /\ Inv /\ [Next]_vars => Inv'
  <2> SUFFICES ASSUME TypeOK, TypeOK', Inv, [Next]_vars PROVE Inv'
    OBVIOUS
  <2>1. Lookup => Core'
    BY NextCore
  <2>2. OnceOnly' /\ PassedStaysPublic' /\ NothingBeside'
    <3>1. CASE ReplaceExisting
      BY <3>1 DEF OnceOnly, PassedStaysPublic, NothingBeside
    <3>2. CASE ~ReplaceExisting /\ Next
      BY <3>2, NextOnceOnly, NextNothingBeside
    <3>3. CASE UNCHANGED vars
      BY <3>3 DEF vars, OnceOnly, PassedStaysPublic, NothingBeside, Public,
         AtMostOnePublic, AtMostOne
    <3> QED
      BY <3>1, <3>2, <3>3
  <2> QED
    BY <2>1, <2>2
<1> QED
  BY <1>1, <1>2, TypeCorrect, PTL DEF Spec

-----------------------------------------------------------------------------
(* Only verified payloads are ever public: of the image channel on any     *)
(* GitHub, of the display channel on one that lists drafts.  On another    *)
(* one a display run may publish the unverified draft an earlier run left. *)
THEOREM OnlyVerifiedPublic ==
    ASSUME ReplaceExisting \/ DraftsListed
    PROVE  Spec => []PublicIsVerified
<1>1. Core => PublicIsVerified
  BY DEF Core
<1>2. Lookup
  BY DEF Lookup
<1> QED
  BY <1>1, <1>2, CoreInvariant, PTL

(* On any GitHub, one that omits drafts included: once a display run has   *)
(* passed, what it verified stays public and no later run passes.          *)
THEOREM DisplayPassKept == Spec => []PassedStaysPublic
BY ChannelInvariant, PTL

(* A replacement is never public beside the release it replaces. *)
THEOREM OnePublicRelease == Spec => []AtMostOnePublic
<1>1. NothingBeside /\ (Lookup => Core) => AtMostOnePublic
  BY DEF Core, NothingBeside, Lookup
<1> QED
  BY <1>1, ChannelInvariant, PTL

LEMMA WithdrawalStep ==
    ASSUME TypeOK, Core, Next
    PROVE  WithdrawalHasReplacement
<1>1. CASE DeleteRelease
  <2>1. run \in Runs /\ pc \in Created /\ pc \in Verified
    BY <1>1 DEF DeleteRelease, TypeOK, Created, Verified
  <2> QED
    BY <2>1 DEF Core, Alone, WithdrawalHasReplacement
<1>2. ASSUME CreateDraft PROVE Public \subseteq Public'
  BY <1>2 DEF CreateDraft, Core, Ownership, TypeOK, Public
<1>3. ASSUME Upload PROVE Public \subseteq Public'
  BY <1>3, UploadKeepsPublic
<1>4. ASSUME NEW i \in Runs, NEW t, MakePublic(i, t) PROVE Public \subseteq Public'
  BY <1>4 DEF MakePublic, TypeOK, Public, Release
<1>5. ASSUME Switch \/ PublishDraft PROVE Public \subseteq Public'
  BY <1>4, <1>5 DEF Switch, PublishDraft, Named
<1>6. ASSUME UNCHANGED releases PROVE Public \subseteq Public'
  BY <1>6 DEF Public
<1>7. \/ CreateDraft \/ Upload \/ DeleteRelease \/ Switch \/ PublishDraft
      \/ UNCHANGED releases
  BY DEF Next, Work, Start, Fault, Preflight, InspectReplacement, FindDraft,
     VerifyDraft, InspectCurrent, ConfirmReleaseGone, DeleteRef, ConfirmRefGone,
     VerifyPublic, DeleteTemporaryRef, ConfirmTemporaryGone
<1>8. Public \subseteq Public' => WithdrawalHasReplacement
  BY DEF WithdrawalHasReplacement
<1> QED
  BY <1>1, <1>2, <1>3, <1>5, <1>6, <1>7, <1>8

(* The current release goes away only for a verified replacement, and the  *)
(* display channel withdraws none.                                         *)
THEOREM WithdrawnForVerified == Spec => WithdrawnOnlyForVerified
<1>1. TypeOK /\ OnceOnly /\ NothingBeside /\ (Lookup => Core) /\ [Next]_vars
        => [WithdrawalHasReplacement]_vars
  <2> SUFFICES ASSUME TypeOK, OnceOnly, NothingBeside, Lookup => Core, Next
               PROVE  WithdrawalHasReplacement
    OBVIOUS
  <2>1. CASE Lookup
    BY <2>1, WithdrawalStep
  <2>2. CASE ~ReplaceExisting
    BY <2>2, NextNothingBeside DEF WithdrawalHasReplacement
  <2> QED
    BY <2>1, <2>2 DEF Lookup
<1> QED
  BY <1>1, ChannelInvariant, PTL DEF Spec, WithdrawnOnlyForVerified

-----------------------------------------------------------------------------
(* What is public is what the last run that passed has published.          *)
Currency ==
    /\ passed \subseteq 1..run
    /\ run \in passed => pc = "idle"
    /\ pc = "verify_public" => chosen = run
    /\ pc \in {"delete_temporary", "confirm_temporary"} =>
           Public = {run} /\ refs[Official] = Source[run]
    /\ LastPassIsCurrent

(* Only what is public is immutable, and nothing of it is to be deleted.   *)
Immutability ==
    /\ \A i \in Runs : releases[i].immutable => i \in Public
    /\ pc \in {"delete_release", "confirm_release"} =>
           \A i \in seen.releases : ~releases[i].immutable

LEMMA InitCurrency == Init => Currency
BY Constants DEF Init, Currency, LastPassIsCurrent

LEMMA InitImmutability == Init => Immutability
<1>1. \A i \in Runs : NoRelease(i).immutable = FALSE
  BY DEF NoRelease
<1> QED
  BY <1>1 DEF Init, Immutability

(* A run passes only with its own release public and its tag in place.     *)
LEMMA NextCurrency ==
    ASSUME TypeOK, TypeOK', Core, Currency, [Next]_vars
    PROVE  Currency'
<1> USE Constants DEF Currency, LastPassIsCurrent, TypeOK
<1>1. ASSUME UNCHANGED <<run, passed>>, pc # "idle",
             pc' \notin {"verify_public", "delete_temporary", "confirm_temporary"}
      PROVE  Currency'
  <2>1. run \notin passed
    BY <1>1
  <2> QED
    BY <1>1, <2>1
<1>2. CASE Start
  <2>1. run' = run + 1 /\ passed' = passed /\ pc' = "preflight" /\ run \in Nat
    BY <1>2 DEF Start
  <2>2. passed' \subseteq 1..run' /\ run' \notin passed'
    BY <2>1
  <2> QED
    BY <2>1, <2>2
<1>3. CASE Fault
  BY <1>1, <1>3 DEF Fault
<1>4. CASE Preflight
  BY <1>1, <1>4 DEF Preflight, GoIf
<1>5. CASE InspectReplacement
  BY <1>1, <1>5 DEF InspectReplacement, GoIf
<1>6. CASE CreateDraft \/ FindDraft \/ Upload
  BY <1>1, <1>6 DEF CreateDraft, FindDraft, Upload, GoIf
<1>7. CASE VerifyDraft
  BY <1>1, <1>7 DEF VerifyDraft, GoIf
<1>8. CASE InspectCurrent \/ DeleteRelease \/ ConfirmReleaseGone
  BY <1>1, <1>8 DEF InspectCurrent, DeleteRelease, ConfirmReleaseGone, GoIf
<1>9. CASE DeleteRef \/ ConfirmRefGone
  BY <1>1, <1>9 DEF DeleteRef, ConfirmRefGone, GoIf
<1>10. CASE Switch \/ PublishDraft
  <2>1. /\ pc \in {"switch", "publish"} /\ pc' = "verify_public"
        /\ UNCHANGED <<run, chosen, passed>>
    BY <1>10 DEF Switch, PublishDraft
  <2>2. chosen = run
    BY <2>1 DEF Core, Alone, Created
  <2> QED
    BY <2>1, <2>2
<1>11. CASE VerifyPublic
  <2> DEFINE ok == /\ CheckRelease(chosen, Official, "public")
                   /\ CheckAssets(chosen)
                   /\ CheckTag(Official, FALSE)
  <2>1. /\ pc = "verify_public" /\ UNCHANGED <<releases, refs, run, chosen>>
        /\ pc' = IF ok THEN IF ReplaceExisting THEN "delete_temporary" ELSE "idle"
                 ELSE "idle"
        /\ passed' = IF ok /\ ~ReplaceExisting THEN passed \cup {run} ELSE passed
    BY <1>11 DEF VerifyPublic, GoIf
  <2>2. chosen = run /\ run \in Runs /\ run \notin passed
    BY <2>1
  <2>3. ok => Public = {run} /\ refs[Official] = Source[run]
    BY <2>2 DEF CheckRelease, CheckTag, Core, AtMostOnePublic, AtMostOne, Public
  <2>4. Public' = Public
    BY <2>1 DEF Public
  <2> HIDE DEF ok
  <2>5. CASE ok /\ ReplaceExisting
    BY <2>1, <2>2, <2>3, <2>4, <2>5
  <2>6. CASE ok /\ ~ReplaceExisting
    <3>1. passed' \subseteq 1..run'
      BY <2>1, <2>2, <2>6
    <3> QED
      BY <2>1, <2>3, <2>4, <2>6, <3>1
  <2>7. CASE ~ok
    BY <2>1, <2>2, <2>7
  <2> QED
    BY <2>5, <2>6, <2>7
<1>12. CASE DeleteTemporaryRef
  <2>1. /\ pc = "delete_temporary" /\ UNCHANGED <<releases, run>>
        /\ run \in Runs /\ Public' = Public
    BY <1>12 DEF DeleteTemporaryRef, Public
  <2>2. run # Official /\ refs'[Official] = refs[Official]
    BY <1>12, <2>1 DEF DeleteTemporaryRef
  <2>3. passed' \subseteq 1..run'
    BY <1>12, <2>1 DEF DeleteTemporaryRef
  <2>4. \/ refs[run] = NoRef /\ pc' = "idle" /\ UNCHANGED refs
        \/ pc' = "confirm_temporary" /\ passed' = passed
    BY <1>12 DEF DeleteTemporaryRef
  <2> QED
    BY <2>1, <2>2, <2>3, <2>4
<1>13. CASE ConfirmTemporaryGone
  <2>1. /\ pc = "confirm_temporary" /\ UNCHANGED <<releases, refs, run>>
        /\ run \in Runs /\ pc' = "idle" /\ Public' = Public
    BY <1>13 DEF ConfirmTemporaryGone, Public
  <2>2. /\ passed' \subseteq 1..run'
        /\ run \in passed' => refs[run] = NoRef
    BY <1>13, <2>1 DEF ConfirmTemporaryGone
  <2> QED
    BY <2>1, <2>2
<1>14. CASE UNCHANGED vars
  BY <1>14 DEF vars, Public
<1> QED
  BY <1>2, <1>3, <1>4, <1>5, <1>6, <1>7, <1>8, <1>9, <1>10, <1>11, <1>12, <1>13,
     <1>14 DEF Next, Work

(* While a run reports PASS, its release is what the public finds.         *)
THEOREM LastPassCurrent == ASSUME Lookup PROVE Spec => []LastPassIsCurrent
<1>1. TypeOK /\ TypeOK' /\ Core /\ Currency /\ [Next]_vars => Currency'
  BY NextCurrency
<1>2. Currency => LastPassIsCurrent
  BY DEF Currency
<1> QED
  BY <1>1, <1>2, InitCurrency, CoreInvariant, PTL DEF Spec

(* A published release keeps its flag, and no step but Switch sets one.    *)
LEMMA FlagsOfSteps ==
    ASSUME TypeOK, Core, Immutability, Next
    PROVE  /\ \A i \in Runs : releases[i].immutable => i \in Public'
           /\ \A i \in Runs : releases'[i].immutable => i \in Public'
<1> USE DEF TypeOK, Public
<1>0. \A i \in Runs : releases[i].immutable => i \in Public
  BY DEF Immutability
<1>1. CASE UNCHANGED releases
  BY <1>0, <1>1
<1>2. CASE CreateDraft
  <2>1. run \in Runs /\ releases[run].status = "absent"
    BY <1>2 DEF CreateDraft, Core, Ownership
  <2>2. \A i \in Runs : /\ releases'[i].immutable = releases[i].immutable
                        /\ i # run => releases'[i] = releases[i]
    BY <1>2, <2>1 DEF CreateDraft, Release
  <2> QED
    BY <1>0, <2>1, <2>2
<1>3. CASE Upload
  BY <1>0, <1>3, UploadKeepsPublic
<1>4. CASE DeleteRelease
  <2>1. \A i \in seen.releases : ~releases[i].immutable
    BY <1>4 DEF DeleteRelease, Immutability
  <2>2. \A i \in Runs : \/ releases'[i] = releases[i]
                        \/ i \in seen.releases /\ releases'[i] = NoRelease(i)
    BY <1>4 DEF DeleteRelease
  <2>3. \A i \in Runs : NoRelease(i).immutable = FALSE
    BY DEF NoRelease
  <2> QED
    BY <1>0, <2>1, <2>2, <2>3
<1>5. ASSUME NEW i \in Runs, NEW t, MakePublic(i, t)
      PROVE  /\ releases'[i].status = "public"
             /\ \A j \in Runs \ {i} : releases'[j] = releases[j]
  BY <1>5 DEF MakePublic, Release
<1>6. CASE Switch \/ PublishDraft
  <2>1. PICK i \in Runs : /\ releases'[i].status = "public"
                          /\ \A j \in Runs \ {i} : releases'[j] = releases[j]
    BY <1>5, <1>6 DEF Switch, PublishDraft, Named
  <2> QED
    BY <1>0, <2>1
<1> QED
  BY <1>1, <1>2, <1>3, <1>4, <1>6 DEF Next, Work, Start, Fault, Preflight,
     InspectReplacement, FindDraft, VerifyDraft, InspectCurrent,
     ConfirmReleaseGone, DeleteRef, ConfirmRefGone, VerifyPublic,
     DeleteTemporaryRef, ConfirmTemporaryGone

LEMMA NextImmutability ==
    ASSUME TypeOK, Core, Immutability, [Next]_vars
    PROVE  Immutability'
<1>1. CASE Next
  <2>1. \A i \in Runs : releases'[i].immutable => i \in Public'
    BY <1>1, FlagsOfSteps DEF Immutability
  <2>2. ASSUME pc' \in {"delete_release", "confirm_release"}
        PROVE  \A i \in seen'.releases : ~releases'[i].immutable
    <3>1. CASE InspectCurrent
      <4>1. PICK V \in Listings(Official) :
              /\ seen' = [ref |-> refs[Official], releases |-> V]
              /\ pc' = IF Identified(V) THEN "delete_release" ELSE "idle"
        BY <3>1 DEF InspectCurrent, GoIf
      <4>2. Identified(V) /\ seen'.releases = V /\ UNCHANGED releases
        BY <2>2, <3>1, <4>1 DEF InspectCurrent
      <4> QED
        BY <4>2 DEF Identified
    <3>2. CASE DeleteRelease
      <4>1. \A i \in Runs : \/ releases'[i] = releases[i]
                            \/ releases'[i] = NoRelease(i)
        BY <3>2 DEF DeleteRelease, TypeOK
      <4>2. \A i \in Runs : NoRelease(i).immutable = FALSE
        BY DEF NoRelease
      <4> QED
        BY <3>2, <4>1, <4>2 DEF DeleteRelease, TypeOK, Immutability
    <3> QED
      BY <1>1, <2>2, <3>1, <3>2 DEF Next, Work, Start, Fault, Preflight,
         InspectReplacement, CreateDraft, FindDraft, Upload, VerifyDraft,
         ConfirmReleaseGone, DeleteRef, ConfirmRefGone, Switch, PublishDraft,
         VerifyPublic, DeleteTemporaryRef, ConfirmTemporaryGone, GoIf
  <2> QED
    BY <2>1, <2>2 DEF Immutability
<1>2. CASE UNCHANGED vars
  BY <1>2 DEF vars, Immutability, Public
<1> QED
  BY <1>1, <1>2

(* No step of any run takes an immutable release out of public view.       *)
THEOREM ImmutableKept == Spec => ImmutableStays
<1> DEFINE Inv == TypeOK /\ OnceOnly /\ NothingBeside /\ (Lookup => Core)
           I == Lookup => Immutability
<1>1. Inv /\ I /\ [Next]_vars => I'
  BY NextImmutability
<1>2. Inv /\ I /\ [Next]_vars
        => [\A i \in Runs : releases[i].immutable => i \in Public']_vars
  <2> SUFFICES ASSUME Inv, I, Next
               PROVE  \A i \in Runs : releases[i].immutable => i \in Public'
    OBVIOUS
  <2>1. CASE Lookup
    BY <2>1, FlagsOfSteps
  <2>2. CASE ~ReplaceExisting
    BY <2>2, NextNothingBeside DEF NothingBeside
  <2> QED
    BY <2>1, <2>2 DEF Lookup
<1>3. Init => I
  BY InitImmutability
<1> QED
  BY <1>1, <1>2, <1>3, ChannelInvariant, PTL DEF Spec, ImmutableStays

(* What the channel sees of a step that leaves the remote releases alone. *)
LEMMA ReadStep ==
    ASSUME UNCHANGED <<releases, run>>,
           \/ pc \notin Verified /\ pc' \notin Verified
           \/ pc \in Verified
    PROVE  [Channel!Next]_(Channel!chan)
BY DEF Channel!Next, Channel!Abandon, Channel!chan, Public, Staged, Verified

(* The publisher implements the release channel. *)
THEOREM ImplementsChannel == ASSUME Lookup PROVE Spec => ChannelSpec
<1>1. Init => Channel!Init
  <2> SUFFICES ASSUME Init PROVE Channel!Init
    OBVIOUS
  <2>1. \A i \in Runs : releases[i].status = "absent"
    BY DEF Init, NoRelease
  <2>2. Staged = {}
    BY DEF Init, Staged
  <2> QED
    BY <2>1, <2>2 DEF Channel!Init, Public
<1>2. TypeOK /\ TypeOK' /\ Core /\ [Next]_vars => [Channel!Next]_(Channel!chan)
  <2> SUFFICES ASSUME TypeOK, TypeOK', Core, [Next]_vars
               PROVE  [Channel!Next]_(Channel!chan)
    OBVIOUS
  <2> USE DEF Staged, Public
  <2>1. CASE Start
    <3>1. pc' \notin Verified /\ pc \notin Verified /\ UNCHANGED releases
      BY <2>1 DEF Start, Verified
    <3> QED
      BY <3>1 DEF Verified, Channel!chan
  <2>2. CASE CreateDraft
    <3>1. run \in Runs /\ releases[run].status = "absent"
      BY <2>2 DEF CreateDraft, TypeOK, Core, Ownership
    <3>2. Public' = Public
      BY <2>2, <3>1 DEF CreateDraft, TypeOK, Release
    <3>3. Staged' = Staged
      BY <2>2 DEF CreateDraft
    <3> QED
      BY <3>2, <3>3 DEF Channel!chan
  <2>3. CASE Upload
    <3>1. Public' = Public
      BY <2>3, UploadKeepsPublic
    <3>2. Staged' = Staged
      BY <2>3 DEF Upload
    <3> QED
      BY <3>1, <3>2 DEF Channel!chan
  <2>4. CASE VerifyDraft
    <3>1. UNCHANGED <<releases, run>> /\ pc = "verify_draft" /\ run \in Runs
      BY <2>4 DEF VerifyDraft, TypeOK
    <3>2. pc' \in {"idle", "inspect_current", "publish"}
      BY <2>4 DEF VerifyDraft, GoIf
    <3>3. \A p \in Public : p < run
      <4>1. releases[run].status = "draft"
        BY <3>1 DEF Core, Alone, Created
      <4> QED
        BY <3>1, <4>1 DEF Core, Ownership, TypeOK
    <3>4. CASE pc' = "idle"
      BY <3>1, <3>4 DEF Channel!chan
    <3>5. CASE pc' # "idle"
      <4>1. Channel!Stage(run)
        BY <3>1, <3>2, <3>3, <3>5 DEF Channel!Stage
      <4> QED
        BY <3>1, <4>1 DEF Channel!Next
    <3> QED
      BY <3>4, <3>5
  <2>5. CASE DeleteRelease
    <3>1. Staged' = Staged /\ Staged # {}
      BY <2>5 DEF DeleteRelease
    <3>2. Public' = {} \/ Public' = Public
      BY <2>5 DEF DeleteRelease, NoRelease, Core, Deletions, TypeOK
    <3> QED
      BY <3>1, <3>2 DEF Channel!Next, Channel!Withdraw, Channel!chan
  <2>6. CASE Switch \/ PublishDraft
    <3>1. pc \in {"switch", "publish"} /\ pc' = "verify_public" /\ run \in Runs
          /\ run' = run
      BY <2>6 DEF Switch, PublishDraft, TypeOK
    <3>2. Named(DraftTag(run)) = {run} /\ (pc = "publish" => DraftTag(run) = Official)
      BY <3>1 DEF Core, Alone, Created, DraftTag
    <3>3. Public = {}
      <4>1. CASE pc = "switch"
        BY <4>1 DEF Core, Deletions
      <4>2. CASE pc = "publish"
        BY <4>2, <3>1, <3>2 DEF Core, Alone, Created, PublicIsVerified, Named
      <4> QED
        BY <3>1, <4>1, <4>2
    <3>4. \E t \in {releases[run].target, Source[run], Main} : MakePublic(run, t)
      BY <2>6, <3>1, <3>2 DEF Switch, PublishDraft
    <3>5. Public' = {run}
      BY <3>1, <3>3, <3>4 DEF MakePublic, TypeOK, Release
    <3> QED
      BY <3>1, <3>3, <3>5 DEF Channel!Next, Channel!Promote
  <2>7. CASE /\ UNCHANGED <<releases, run>>
             /\ \/ pc \notin Verified /\ pc' \notin Verified
                \/ pc \in Verified
    BY <2>7, ReadStep
  <2>8. CASE Fault
    <3>1. UNCHANGED <<releases, run>> /\ pc' \notin Verified
      BY <2>8 DEF Fault, Verified
    <3> QED
      BY <3>1, ReadStep
  <2>9. CASE \/ Preflight \/ InspectReplacement \/ FindDraft \/ InspectCurrent
             \/ ConfirmReleaseGone \/ DeleteRef \/ ConfirmRefGone \/ VerifyPublic
             \/ DeleteTemporaryRef \/ ConfirmTemporaryGone
    BY <2>7, <2>9 DEF Preflight, InspectReplacement, FindDraft, InspectCurrent,
       ConfirmReleaseGone, DeleteRef, ConfirmRefGone, VerifyPublic,
       DeleteTemporaryRef, ConfirmTemporaryGone, GoIf, Verified
  <2>10. CASE UNCHANGED vars
    BY <2>10 DEF vars, Channel!chan
  <2> QED
    BY <2>1, <2>2, <2>3, <2>4, <2>5, <2>6, <2>8, <2>9, <2>10 DEF Next, Work
<1> QED
  BY <1>1, <1>2, CoreInvariant, TypeCorrect, PTL DEF Spec, ChannelSpec, Channel!Spec
=============================================================================
