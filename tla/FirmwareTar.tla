----------------------------- MODULE FirmwareTar -----------------------------
(***************************************************************************)
(* The firmware TAR: inspect_tar and check_vendor_parser of                *)
(* scripts/factory_firmware.py, next to the parser in U-Boot that will     *)
(* read it, and where check_fit lets the payloads go in RAM and on the     *)
(* eMMC.  Sizes on the eMMC are in sectors, in RAM in bytes.               *)
(***************************************************************************)
EXTENDS Integers, Sequences, SequencesExt, FiniteSetsExt

CONSTANTS
    Headers, \* [name, raw, plain, octal, size]: see Members
    MaxHeaders,
    Sizes \* [root, ext4, memory, ramdisk, fdt]: of payloads and filesystem

(* A header block: the name the host's tarfile gives the member (with      *)
(* prefixes and extended headers applied), the name in the block itself,   *)
(* whether it is a ustar block of type 0 without a prefix, and whether its *)
(* size is in octal.  After the headers there are blank blocks, and maybe  *)
(* other data.                                                             *)
Members == <<"kernel", "root", "CONTROL">>

SizesAreNumbers ==
    Sizes \subseteq [root : Nat, ext4 : Nat, memory : Nat, ramdisk : Nat, fdt : Nat]

VARIABLES headers, tail, sizes, verdict

vars == <<headers, tail, sizes, verdict>>

(* In sectors: the partition, 64 KiB and 512 KiB. *)
RootLimit == 15181791
EraseBlock == 128
EraseLength == 1024
Align(n, to) == ((n + to - 1) \div to) * to

LoadKernel == 1073741824  \* 0x40000000
LoaderText == 1105199104  \* 0x41e00000
LoadRamdisk == 1140850688 \* 0x44000000
LoadFdt == 1172307968     \* 0x45e00000
Upload == 1174405120      \* 0x46000000
UploadLimit == 805306368  \* 768 MiB

-----------------------------------------------------------------------------
Simple(h) == h.plain /\ h.raw = h.name

(* inspect_tar *)
Inspected ==
    /\ Len(headers) = 3 /\ \A i \in 1..3 : headers[i].name = Members[i] /\ headers[i].size > 0
    /\ \A i \in 1..3 : Simple(headers[i])
    /\ tail = "blank"

(* parse_tar_image: blocks of type 0 by the name in the block, sizes by    *)
(* strtoul, the last kernel and root before it has both.                   *)
VendorSize(h) == IF h.octal THEN h.size ELSE 0

VendorPick(name) ==
    LET both == {n \in DOMAIN headers :
                    {"kernel", "root"} \subseteq {headers[i].raw : i \in 1..n}}
        end == IF both = {} THEN 0 ELSE Min(both)
        places == {i \in 1..end : headers[i].raw = name}
    IN IF places = {} THEN <<0, 0>> ELSE <<Max(places), VendorSize(headers[Max(places)])>>

HostPick(name) ==
    LET places == {i \in DOMAIN headers : headers[i].name = name}
    IN IF places = {} THEN <<0, 0>> ELSE <<Max(places), headers[Max(places)].size>>

(* Mutant: the offsets are compared only. *)
SameOffsets == \A name \in {"kernel", "root"} : VendorPick(name)[1] = HostPick(name)[1]

(* check_vendor_parser *)
ParsersAgree == \A name \in {"kernel", "root"} : VendorPick(name) = HostPick(name)

(* Mutant: a payload may end before its filesystem does. *)
RootShorter ==
    /\ sizes.root <= sizes.ext4
    /\ Align(sizes.root, EraseBlock) + EraseLength <= RootLimit

(* The root ends where its filesystem ends, and what the vendor erases     *)
(* behind it, 512 KiB from the next multiple of 64 KiB, fits the partition.*)
RootFits ==
    /\ sizes.root = sizes.ext4
    /\ Align(sizes.root, EraseBlock) + EraseLength <= RootLimit

(* check_fit: the kernel with what it needs behind it, the initrd, the FDT. *)
PayloadsFit ==
    /\ sizes.memory <= LoaderText - LoadKernel
    /\ sizes.ramdisk < LoadFdt - LoadRamdisk /\ sizes.fdt < Upload - LoadFdt

-----------------------------------------------------------------------------
(* One header more, as long as no blank block came. *)
Write ==
    /\ verdict = "none" /\ Len(headers) < MaxHeaders
    /\ \E h \in Headers : headers' = Append(headers, h)
    /\ UNCHANGED <<tail, sizes, verdict>>

Inspect ==
    /\ verdict = "none"
    /\ verdict' = IF Inspected THEN "members" ELSE "reject"
    /\ UNCHANGED <<headers, tail, sizes>>

(* inspect_tar goes on with what the members hold. *)
Measure ==
    /\ verdict = "members"
    /\ sizes' \in Sizes
    /\ verdict' = IF (RootFits /\ PayloadsFit)' THEN "inspected" ELSE "reject"
    /\ UNCHANGED <<headers, tail>>

Compare ==
    /\ verdict = "inspected"
    /\ verdict' = IF ParsersAgree THEN "accept" ELSE "reject"
    /\ UNCHANGED <<headers, tail, sizes>>

Init ==
    /\ headers = <<>> /\ tail \in {"blank", "data"}
    /\ sizes = [root |-> 0, ext4 |-> 0, memory |-> 0, ramdisk |-> 0, fdt |-> 0]
    /\ verdict = "none"

Next == Write \/ Inspect \/ Measure \/ Compare

Spec == Init /\ [][Next]_vars

-----------------------------------------------------------------------------
(* U-Boot takes the very payloads that were audited, at their length:      *)
(* whatever headers tarfile understands and the vendor's parser does not.  *)
LoaderTakesAudited ==
    verdict = "accept" =>
        /\ VendorPick("kernel") = <<1, headers[1].size>>
        /\ VendorPick("root") = <<2, headers[2].size>>

(* No two of them overlap. *)
Apart(regions) ==
    \A a, b \in regions : a = b \/ a.end <= b.start \/ b.end <= a.start

Region(start, length) == [start |-> start, end |-> start + length]

(* In RAM the kernel, the loader, the initrd, the FDT and the TAR they are *)
(* taken from lie apart; on the eMMC what is erased and the filesystem.    *)
NothingOverlaps ==
    verdict = "accept" =>
        /\ Apart({Region(LoadKernel, sizes.memory), Region(LoaderText, 1),
                  Region(LoadRamdisk, sizes.ramdisk), Region(LoadFdt, sizes.fdt),
                  Region(Upload, UploadLimit)})
        /\ Apart({Region(0, sizes.ext4), Region(Align(sizes.root, EraseBlock), EraseLength),
                  Region(RootLimit, 1)})
=============================================================================
