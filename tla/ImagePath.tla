------------------------------ MODULE ImagePath ------------------------------
(***************************************************************************)
(* rooted of scripts/factory_firmware.py: a path of the image is resolved  *)
(* without following a link out of the image.                              *)
(***************************************************************************)
EXTENDS Naturals, Sequences, SequencesExt

CONSTANTS
    Names,
    Images,  \* functions from the paths that are links to [absolute, parts]
    Wanted,  \* the paths asked for, sequences of names, "..", "."
    MaxHops  \* 40

Steps == Names \cup {".", ".."}

LinksAreSteps ==
    /\ Names \cap {".", ".."} = {} /\ MaxHops \in Nat /\ Wanted \subseteq Seq(Steps)
    /\ \A links \in Images : \A p \in DOMAIN links :
         links[p].absolute \in BOOLEAN /\ links[p].parts \in Seq(Steps)

VARIABLES image, wanted, pending, parts, hops, verdict

vars == <<image, wanted, pending, parts, hops, verdict>>

Resolving(part) == verdict = "none" /\ pending # <<>> /\ Head(pending) = part

Skip ==
    /\ Resolving(".")
    /\ pending' = Tail(pending)
    /\ UNCHANGED <<image, wanted, parts, hops, verdict>>

(* Mutant: .. of the root is kept. *)
UpOrStay ==
    /\ Resolving("..")
    /\ pending' = Tail(pending)
    /\ parts' = IF parts = <<>> THEN <<"..">> ELSE Front(parts)
    /\ UNCHANGED <<image, wanted, hops, verdict>>

Up ==
    /\ Resolving("..")
    /\ IF parts = <<>> THEN verdict' = "reject" /\ UNCHANGED <<pending, parts>>
                       ELSE /\ pending' = Tail(pending) /\ parts' = Front(parts)
                            /\ UNCHANGED verdict
    /\ UNCHANGED <<image, wanted, hops>>

Candidate == Append(parts, Head(pending))

(* Mutant: links are not counted. *)
Uncounted ==
    /\ \E name \in Names : Resolving(name)
    /\ Candidate \in DOMAIN image
    /\ pending' = image[Candidate].parts \o Tail(pending)
    /\ parts' = IF image[Candidate].absolute THEN <<>> ELSE parts
    /\ UNCHANGED <<image, wanted, hops, verdict>>

(* Mutant: a relative link is read from the root. *)
FollowFromRoot ==
    /\ \E name \in Names : Resolving(name)
    /\ Candidate \in DOMAIN image
    /\ IF hops = MaxHops
       THEN verdict' = "reject" /\ UNCHANGED <<pending, parts, hops>>
       ELSE /\ hops' = hops + 1
            /\ pending' = image[Candidate].parts \o Tail(pending)
            /\ parts' = <<>>
            /\ UNCHANGED verdict
    /\ UNCHANGED <<image, wanted>>

Follow ==
    /\ \E name \in Names : Resolving(name)
    /\ Candidate \in DOMAIN image
    /\ IF hops = MaxHops
       THEN verdict' = "reject" /\ UNCHANGED <<pending, parts, hops>>
       ELSE /\ hops' = hops + 1
            /\ pending' = image[Candidate].parts \o Tail(pending)
            /\ parts' = IF image[Candidate].absolute THEN <<>> ELSE parts
            /\ UNCHANGED verdict
    /\ UNCHANGED <<image, wanted>>

Enter ==
    /\ \E name \in Names : Resolving(name)
    /\ Candidate \notin DOMAIN image
    /\ parts' = Candidate /\ pending' = Tail(pending)
    /\ UNCHANGED <<image, wanted, hops, verdict>>

Finish ==
    /\ verdict = "none" /\ pending = <<>>
    /\ verdict' = "accept"
    /\ UNCHANGED <<image, wanted, pending, parts, hops>>

Init ==
    /\ image \in Images /\ wanted \in Wanted /\ pending = wanted
    /\ parts = <<>> /\ hops = 0 /\ verdict = "none"

Next == Skip \/ Up \/ Follow \/ Enter \/ Finish

Spec == Init /\ [][Next]_vars /\ WF_vars(Next)

-----------------------------------------------------------------------------
(* Whatever the image's links say, the path opened on the host is one of   *)
(* plain names below the image, and none of its components is a link that  *)
(* the host would follow out of it (line 92).                              *)
StaysInImage ==
    /\ \A i \in DOMAIN parts : parts[i] \in Names
    /\ \A i \in DOMAIN parts : SubSeq(parts, 1, i) \notin DOMAIN image
    /\ hops \in 0..MaxHops

(* The path is the one the target's kernel would open in its own root: a   *)
(* step does not change where the rest of the path leads.  Stated for what *)
(* the kernel finds with as many links as the limit allows.                *)
Lookups == [at : Seq(Names), rest : Seq(Steps), links : Nat]

AtLink(s) == Head(s.rest) \in Names /\ Append(s.at, Head(s.rest)) \in DOMAIN image

Onward(s) ==
    LET name == Head(s.rest)
        next == Append(s.at, name)
    IN IF name = "." THEN [s EXCEPT !.rest = Tail(@)]
       ELSE IF name = ".." THEN [s EXCEPT !.rest = Tail(@), !.at = Front(@)]
       ELSE IF AtLink(s) THEN [at |-> IF image[next].absolute THEN <<>> ELSE s.at,
                               rest |-> image[next].parts \o Tail(s.rest),
                               links |-> s.links - 1]
       ELSE [s EXCEPT !.rest = Tail(@), !.at = next]

Lookup[s \in Lookups] ==
    IF s.rest = <<>> THEN s.at
    ELSE IF Head(s.rest) = ".." /\ s.at = <<>> THEN <<"outside">>
    ELSE IF AtLink(s) /\ s.links = 0 THEN <<"loop">>
    ELSE Lookup[Onward(s)]

OpensTheSame ==
    verdict = "accept" => parts = Lookup[[at |-> <<>>, rest |-> wanted, links |-> MaxHops]]

(* It ends, in loops of links too: each step takes one of the links that   *)
(* are allowed, or one name of the path (lines 82-99).                     *)
LookupGoesOn ==
    verdict' = "none" =>
        \/ hops < hops' /\ hops' <= MaxHops
        \/ hops' = hops /\ Len(pending') < Len(pending)
=============================================================================
