--------------------------- MODULE ReleaseChannel ---------------------------
(***************************************************************************)
(* What scripts/ci-publish-release.py promises about one release channel,  *)
(* with GitHub's releases, refs, drafts and API calls abstracted away.     *)
(*                                                                         *)
(* A build run first stages a candidate: its draft is complete and its     *)
(* checksum was read back.  Only then may the current public release be    *)
(* withdrawn, and only a staged candidate may become public.  There is     *)
(* never more than one public release.                                     *)
(***************************************************************************)
EXTENDS Naturals

CONSTANT Runs     \* the build runs, numbered in the order they start

VARIABLES public, \* the runs whose payload is publicly downloadable
          staged  \* the verified candidate of the run at work, if any

chan == <<public, staged>>

Init == public = {} /\ staged = {}

(* A run's draft has been verified on the remote. *)
Stage(r) ==
    /\ staged = {}
    /\ \A p \in public : p < r
    /\ staged' = {r}
    /\ UNCHANGED public

(* The current release goes away, to make room for the staged one. *)
Withdraw ==
    /\ staged # {}
    /\ public # {}
    /\ public' = {}
    /\ UNCHANGED staged

(* The staged candidate becomes the one public release. *)
Promote ==
    /\ staged # {}
    /\ public = {}
    /\ public' = staged
    /\ staged' = {}

(* The run at work stops; its draft stays behind but is no candidate. *)
Abandon ==
    /\ staged # {}
    /\ staged' = {}
    /\ UNCHANGED public

Next == (\E r \in Runs : Stage(r)) \/ Withdraw \/ Promote \/ Abandon

Spec == Init /\ [][Next]_chan
=============================================================================
