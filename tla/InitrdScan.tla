----------------------------- MODULE InitrdScan -----------------------------
(***************************************************************************)
(* audit_initrd_modules of scripts/factory_firmware.py: what an initrd is  *)
(* unpacked to, frame by frame and entry by entry, next to what the kernel *)
(* makes of the same bytes.                                                *)
(***************************************************************************)
EXTENDS Naturals, Sequences, SequencesExt

CONSTANTS
    Parts,   \* see below; what is in a frame is made of them, too
    Initrds, \* sequences of parts, as they follow one another in the file
    Known,   \* the root's modules and PHY firmware that an initrd may hold
    Limit,   \* how many parts may be unpacked, of 256 MiB
    Frames   \* how many compressed frames, 64

(* A part: [kind |-> "pad"], a run of zeroes; [kind |-> "file", name |-> n,*)
(* same |-> are the bytes those of the root]; [kind |-> "other"], any file *)
(* that is neither; "trailer"; "junk"; [kind |-> "stream", body |-> parts],*)
(* a gzip or xz frame; "zstd", which takes all that follows along.         *)
Kinds == {"pad", "file", "other", "trailer", "junk", "stream", "zstd"}

Framed(part) == part.kind \in {"stream", "zstd"}

FramesHoldParts ==
    /\ \A part \in Parts : part.kind \in Kinds /\ (Framed(part) => part.body \in Seq(Parts))
    /\ Initrds \subseteq Seq(Parts) /\ Limit \in Nat /\ Frames \in Nat

VARIABLES
    initrd, data, \* the file; what is left to read
    consumed, frames, seen, last, \* as in the source
    verdict

vars == <<initrd, data, consumed, frames, seen, last, verdict>>

Here(kind) == verdict = "none" /\ data # <<>> /\ Head(data).kind = kind

Reject == verdict' = "reject" /\ UNCHANGED <<initrd, data, consumed, frames, seen, last>>

Pad ==
    /\ Here("pad")
    /\ data' = Tail(data)
    /\ UNCHANGED <<initrd, consumed, frames, seen, last, verdict>>

(* zstd fails on anything but frames of its own. *)
OnlyZstd(parts) == \A i \in DOMAIN parts : parts[i].kind = "zstd"

(* One frame and what follows it, or all frames at once. *)
Expanded(parts) ==
    IF parts[1].kind = "zstd" THEN FlattenSeq([i \in DOMAIN parts |-> parts[i].body])
                              ELSE parts[1].body \o Tail(parts)

(* Mutant: frames are not counted into the limit. *)
FitsEach(parts) == Len(parts) <= Limit

Fits(parts) == Len(parts) + consumed <= Limit

Decompress ==
    /\ Here("stream") \/ Here("zstd")
    /\ IF /\ frames < Frames
          /\ Here("zstd") => OnlyZstd(data)
          /\ Fits(Expanded(data))
       THEN /\ frames' = frames + 1 /\ data' = Expanded(data)
            /\ UNCHANGED <<initrd, consumed, seen, last, verdict>>
       ELSE Reject

(* Mutant: the bytes of the second one are not looked at. *)
FirstOfItsName(part) == part.name \in Known /\ (part.same \/ part.name \in seen)

Allowed(part) == part.name \in Known /\ part.name \notin seen /\ part.same

Count(part) ==
    IF consumed < Limit THEN consumed' = consumed + 1 /\ data' = Tail(data) /\ last' = part.kind
                               /\ UNCHANGED <<initrd, frames, verdict>>
                        ELSE Reject

File ==
    /\ Here("file")
    /\ IF Allowed(Head(data)) /\ consumed < Limit
       THEN seen' = seen \cup {Head(data).name} /\ Count(Head(data))
       ELSE Reject

Entry ==
    /\ Here("other") \/ Here("trailer")
    /\ Count(Head(data)) /\ UNCHANGED seen

Junk == Here("junk") /\ Reject

End ==
    /\ verdict = "none" /\ data = <<>>
    /\ verdict' = IF last = "trailer" THEN "accept" ELSE "reject"
    /\ UNCHANGED <<initrd, data, consumed, frames, seen, last>>

Init ==
    /\ initrd \in Initrds /\ data = initrd
    /\ consumed = 0 /\ frames = 0 /\ seen = {} /\ last = "none" /\ verdict = "none"

Next == Pad \/ Decompress \/ File \/ Entry \/ Junk \/ End

Spec == Init /\ [][Next]_vars /\ WF_vars(Next)

-----------------------------------------------------------------------------
TypeOK ==
    /\ \A i \in DOMAIN data : data[i].kind \in Kinds
    /\ consumed \in 0..Limit /\ frames \in 0..Frames
    /\ seen \subseteq Known /\ last \in Kinds \cup {"none"}
    /\ verdict \in {"none", "accept", "reject"}

(* What can be unpacked: the parts of the file, then the parts of the      *)
(* frames among them, and so on.  A part is known by where it stands.      *)
Standing(at, parts) == {[at |-> Append(at, i), part |-> parts[i]] : i \in DOMAIN parts}

Within(x) == IF Framed(x.part) THEN Standing(x.at, x.part.body) ELSE {}

Unpacked[depth \in Nat] ==
    IF depth = 0 THEN Standing(<<>>, initrd) ELSE UNION {Within(x) : x \in Unpacked[depth - 1]}

Everything == UNION {Unpacked[depth] : depth \in 0..Frames}
Files == {x \in Everything : x.part.kind = "file"}

(* Nothing reaches the kernel unseen: in an accepted initrd every module   *)
(* and PHY firmware, also behind a trailer, in a second archive or in a    *)
(* frame inside a frame, was compared and is there once, and no frame is   *)
(* in more frames than were opened (lines 371-446).                        *)
NothingUnseen ==
    verdict = "accept" =>
        /\ Unpacked[Frames + 1] = {}
        /\ \A x \in Files : x.part.same
        /\ seen = {x.part.name : x \in Files}
        /\ \A x, y \in Files : x.part.name = y.part.name => x = y
        /\ \E x \in Everything : x.part.kind = "trailer"

(* Never more in memory than the limit: what was read and what is left     *)
(* of the last expansion (lines 383, 392, 409, 443).                       *)
Bounded == consumed + (IF frames > 0 /\ verdict = "none" THEN Len(data) ELSE 0) <= Limit

(* The scan ends, also on frames in frames: each step opens one of those   *)
(* that are allowed, or goes past a part (lines 365-446).                  *)
ScanGoesOn ==
    verdict' = "none" =>
        \/ frames < frames' /\ frames' <= Frames
        \/ frames' = frames /\ Len(data') < Len(data)
=============================================================================
