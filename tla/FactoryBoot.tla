----------------------------- MODULE FactoryBoot -----------------------------
(***************************************************************************)
(* board-support/factory-boot/factory_boot.py and its two units on a       *)
(* board, boot after boot: "mac" prepares both ports' addresses and        *)
(* networkd policies before networkd starts, "resize" grows the root       *)
(* filesystem inside its partition.  systemd ends either at its time       *)
(* limit, commands fail, networkd is restarted, power is lost.             *)
(***************************************************************************)
EXTENDS Integers

CONSTANTS
    Boards,    \* [layout, order, macs]: partitions and device tree as the
               \* factory made them, ethN is GMAC N, the bytes in "factory"
    Boots,     \* [base, foreign]: netplan's file, policies of somebody else
    Invalid,   \* the factory addresses that are zero, broadcast or multicast
    MaxBlocks, \* blocks of the partition; the filesystem may claim one more
    MaxLosses  \* bound: power losses and reboots

Ports == 0..1

(* What an address or a policy may be besides an address of the factory.   *)
Kernel == "kernel"   \* a port keeps the address the kernel gave it
None == "none"       \* no policy
Foreign == "foreign" \* a policy file that is not ours

Factory == UNION {{b.macs[p] : p \in Ports} : b \in Boards}

ASSUME BoardsAssumption ==
    /\ \A b \in Boards : b.layout \in BOOLEAN /\ b.order \in BOOLEAN
    /\ \A b \in Boards : DOMAIN b.macs = Ports
    /\ {Kernel, None, Foreign} \cap Factory = {}
ASSUME BootsAssumption ==
    \A k \in Boots : k.base \in {"wired", "unfamiliar"} /\ k.foreign \subseteq Ports
ASSUME BoundsAssumption == MaxBlocks \in Nat \ {0} /\ MaxLosses \in Nat

VARIABLES
    board,    \* the board
    boot,     \* what this boot found in /run
    root,     \* how the root is mounted: "rw" or, after an error, "ro"
    policy,   \* the 05-e87n-factory-gmacN.network files in /run
    address,  \* each port's address
    up,       \* the ports that are administratively up
    networkd, \* "waiting" for the mac unit, or "running"
    mac,      \* the mac unit's next step
    port,     \* the port that step is about
    cut,      \* the unit was killed, or could not undo, in this boot
    blocks,   \* the size the ext4 superblock says; 0 is no usable ext4
    resize,   \* the resize unit's next step
    losses    \* power losses so far

macVars == <<policy, address, up, networkd, mac, port, cut>>
resizeVars == <<blocks, resize>>
vars == <<board, boot, root, macVars, resizeVars, losses>>

MacSteps == {"queued", "address", "write", "undo", "done", "failed"}
ResizeSteps == {"queued", "recheck", "tool", "verify", "done", "failed"}

-----------------------------------------------------------------------------
(* Both actions look at the machine before they touch it. *)

(* live_snapshot: what the two actions read of the machine. *)
Snapshot == [layout |-> board.layout, root |-> root]

(* Mutant: any partition table will do. *)
RootOnly(snapshot, writableRequired) == writableRequired => snapshot.root = "rw"

(* validate_live; the mac unit sees a read-only root (ProtectSystem).      *)
Live(snapshot, writableRequired) ==
    snapshot.layout /\ (writableRequired => snapshot.root = "rw")

(* ext4_geometry *)
Geometry(size) == size \in 1..MaxBlocks

(* Mutant: the two addresses may be the same. *)
EachValid(macs) == \A p \in Ports : macs[p] \notin Invalid

(* factory_macs *)
FactoryMacs(macs) == macs[0] # macs[1] /\ \A p \in Ports : macs[p] \notin Invalid

(* Mutant: interfaces that are up are taken. *)
NamedByAlias == board.order

(* validate_interfaces: both names follow the device tree, neither is up.  *)
Interfaces == board.order /\ up = {}

(* managed_network_file *)
Managed(p) == policy[p] # Foreign

(* port_networks: netplan's wired file for one port, with its address.     *)
PortNetwork(p) == board.macs[p]

(* The port an interface name stands for. *)
Port(name) == IF board.order THEN name ELSE 1 - name

-----------------------------------------------------------------------------
(* The mac unit: setup_macs. *)

(* Everything it reads before the first change. *)
MacCheck ==
    /\ mac = "queued"
    /\ mac' = IF /\ Live(Snapshot, FALSE) /\ Interfaces
                 /\ FactoryMacs(board.macs) /\ boot.base = "wired"
                 /\ \A p \in Ports : Managed(p)
              THEN "address" ELSE "failed"
    /\ port' = 0
    /\ UNCHANGED <<board, boot, root, policy, address, up, networkd, cut, resizeVars, losses>>

(* ip link set dev ethN address ... *)
SetAddress ==
    /\ mac = "address"
    /\ address' = [address EXCEPT ![Port(port)] = board.macs[port]]
    /\ mac' = IF port = 1 THEN "write" ELSE "address"
    /\ port' = IF port = 1 THEN 0 ELSE port + 1
    /\ UNCHANGED <<board, boot, root, policy, up, networkd, cut, resizeVars, losses>>

(* One policy file; the temporary name is none networkd reads.             *)
WritePolicy ==
    /\ mac = "write"
    /\ policy' = [policy EXCEPT ![port] = PortNetwork(port)]
    /\ mac' = IF port = 1 THEN "done" ELSE "write"
    /\ port' = 1
    /\ UNCHANGED <<board, boot, root, address, up, networkd, cut, resizeVars, losses>>

(* Mutant: what was written before the failure stays. *)
MacGivesUp ==
    /\ mac \in {"address", "write"}
    /\ address' \in {address, [address EXCEPT ![Port(port)] = board.macs[port]]}
    /\ mac' = "failed" /\ port' = 0
    /\ UNCHANGED <<board, boot, root, policy, up, networkd, cut, resizeVars, losses>>

(* ip fails or runs out of its three seconds, perhaps after it worked, or  *)
(* a file cannot be written: the except clause removes both policies.      *)
MacFails ==
    /\ mac \in {"address", "write"}
    /\ \/ UNCHANGED address
       \/ /\ mac = "address"
          /\ address' = [address EXCEPT ![Port(port)] = board.macs[port]]
    /\ mac' = "undo" /\ port' = 0
    /\ UNCHANGED <<board, boot, root, policy, up, networkd, cut, resizeVars, losses>>

Undo ==
    /\ mac = "undo" /\ Managed(port)
    /\ policy' = [policy EXCEPT ![port] = None]
    /\ mac' = IF port = 1 THEN "failed" ELSE "undo"
    /\ port' = 1
    /\ UNCHANGED <<board, boot, root, address, up, networkd, cut, resizeVars, losses>>

(* TimeoutStartSec, or the undoing raises itself: no clause runs any more. *)
MacCut ==
    /\ mac \in {"queued", "address", "write", "undo"}
    /\ mac' = "failed" /\ cut' = TRUE
    /\ UNCHANGED <<board, boot, root, policy, address, up, networkd, port, resizeVars, losses>>

(* Mutant: Requires= *)
StartRequiring ==
    /\ networkd = "waiting" /\ mac = "done"
    /\ networkd' = "running"
    /\ up' = Ports
    /\ address' = [p \in Ports |-> policy[p]]
    /\ UNCHANGED <<board, boot, root, policy, mac, port, cut, resizeVars, losses>>

(* networkd has Wants= and After= on the unit, and no Requires=.  It gives *)
(* each port the address of its policy and brings it up.                   *)
StartNetworkd ==
    /\ networkd = "waiting" /\ mac \in {"done", "failed"}
    /\ networkd' = "running"
    /\ up' = Ports
    /\ address' = [p \in Ports |-> IF policy[p] \in {None, Foreign} THEN address[p]
                                   ELSE policy[p]]
    /\ UNCHANGED <<board, boot, root, policy, mac, port, cut, resizeVars, losses>>

(* systemctl restart systemd-networkd: a unit that failed is wanted again, *)
(* one that succeeded stays active (RemainAfterExit); ports stay up.       *)
RestartNetworkd ==
    /\ networkd = "running"
    /\ networkd' = "waiting"
    /\ mac' = IF mac = "done" THEN "done" ELSE "queued"
    /\ UNCHANGED <<board, boot, root, policy, address, up, port, cut, resizeVars, losses>>

-----------------------------------------------------------------------------
(* The resize unit: resize_rootfs. *)

ResizeCheck ==
    /\ resize = "queued"
    /\ resize' = IF ~(Live(Snapshot, TRUE) /\ Geometry(blocks)) THEN "failed"
                 ELSE IF blocks = MaxBlocks THEN "done" ELSE "recheck"
    /\ UNCHANGED <<board, boot, root, macVars, blocks, losses>>

Recheck ==
    /\ resize = "recheck"
    /\ resize' = IF Live(Snapshot, TRUE) THEN "tool" ELSE "failed"
    /\ UNCHANGED <<board, boot, root, macVars, blocks, losses>>

(* resize2fs grows a mounted filesystem group by group. *)
Grow ==
    /\ resize = "tool" /\ root = "rw" /\ blocks < MaxBlocks
    /\ blocks' \in (blocks + 1)..MaxBlocks
    /\ UNCHANGED <<board, boot, root, macVars, resize, losses>>

(* It ends with success, wherever it got to. *)
ToolEnds ==
    /\ resize = "tool"
    /\ resize' = "verify"
    /\ UNCHANGED <<board, boot, root, macVars, blocks, losses>>

(* It fails, runs out of 90 seconds, or the unit of its 100. *)
ResizeCut ==
    /\ resize \in {"recheck", "tool", "verify"}
    /\ resize' = "failed"
    /\ UNCHANGED <<board, boot, root, macVars, blocks, losses>>

Verify ==
    /\ resize = "verify"
    /\ resize' = IF Geometry(blocks) /\ blocks = MaxBlocks THEN "done" ELSE "failed"
    /\ UNCHANGED <<board, boot, root, macVars, blocks, losses>>

-----------------------------------------------------------------------------
(* The kernel remounts the root after an error. *)
Remount ==
    /\ root = "rw" /\ root' = "ro"
    /\ UNCHANGED <<board, boot, macVars, resizeVars, losses>>

(* What a boot finds in /run, which is empty but for what others put there. *)
Found(k) == [p \in Ports |-> IF p \in k.foreign THEN Foreign ELSE None]

Reboot ==
    /\ losses < MaxLosses
    /\ losses' = losses + 1
    /\ \E k \in Boots : boot' = k /\ policy' = Found(k)
    /\ address' = [p \in Ports |-> Kernel]
    /\ up' = {} /\ networkd' = "waiting" /\ mac' = "queued" /\ port' = 0
    /\ cut' = FALSE /\ resize' = "queued" /\ root' = "rw"
    /\ UNCHANGED <<board, blocks>>

Init ==
    /\ board \in Boards /\ boot \in Boots
    /\ policy = Found(boot)
    /\ address = [p \in Ports |-> Kernel]
    /\ up = {} /\ networkd = "waiting" /\ mac = "queued" /\ port = 0
    /\ cut = FALSE /\ resize = "queued" /\ root = "rw"
    /\ blocks \in 0..(MaxBlocks + 1)
    /\ losses = 0

MacStep == MacCheck \/ SetAddress \/ WritePolicy \/ Undo
Units == MacStep \/ MacFails \/ MacCut
ResizeStep == ResizeCheck \/ Recheck \/ Grow \/ ToolEnds \/ ResizeCut \/ Verify

Next == Units \/ StartNetworkd \/ RestartNetworkd \/ ResizeStep \/ Remount \/ Reboot

Spec == Init /\ [][Next]_vars

(* The unit goes on until systemd's time limit; systemd starts networkd.   *)
FairSpec == Spec /\ WF_vars(Units) /\ WF_vars(StartNetworkd)

-----------------------------------------------------------------------------
TypeOK ==
    /\ board \in Boards /\ boot \in Boots
    /\ root \in {"rw", "ro"}
    /\ policy \in [Ports -> Factory \cup {None, Foreign}]
    /\ address \in [Ports -> Factory \cup {Kernel}]
    /\ up \in {{}, Ports}
    /\ networkd \in {"waiting", "running"}
    /\ mac \in MacSteps /\ port \in Ports /\ cut \in BOOLEAN
    /\ blocks \in 0..(MaxBlocks + 1) /\ resize \in ResizeSteps
    /\ losses \in 0..MaxLosses

Ours(p) == policy[p] \notin {None, Foreign}

(* networkd finds both policies or neither, whatever failed on the way,    *)
(* unless the unit was killed in the middle (lines 266-287).               *)
BothOrNone == networkd = "running" /\ ~cut => (Ours(0) <=> Ours(1))

(* A port never has the other port's factory address, an invalid one, or   *)
(* one that the other port has too, after any sequence of failures, cuts,  *)
(* restarts and boots, whatever the names and the factory data are.        *)
OwnAddress ==
    \A p \in Ports :
        address[p] # Kernel => /\ address[p] = board.macs[p] /\ address[p] \notin Invalid
                               /\ address[1 - p] # address[p]

(* An interface that is up gets another address from networkd only: a unit *)
(* that runs again with a restart of networkd leaves it alone (line 232).  *)
LiveAddressStays ==
    losses' = losses => \A p \in up : address'[p] # address[p] => StartNetworkd

LiveUntouched == [][LiveAddressStays]_vars

(* A policy file of somebody else is neither replaced nor removed, by the  *)
(* unit or by its undoing (line 222).                                      *)
ForeignStays ==
    [][losses' = losses => \A p \in Ports : policy[p] = Foreign => policy'[p] = Foreign]_vars

(* Success of the resize unit means a filesystem that fills the partition, *)
(* whatever resize2fs returned (line 158).                                 *)
DoneMeansFull == resize = "done" => blocks = MaxBlocks

(* The filesystem changes only on the factory's partition table, and then  *)
(* only grows, inside its partition.                                       *)
OnlyGrowsInside ==
    [][blocks' # blocks => board.layout /\ blocks' \in (blocks + 1)..MaxBlocks]_vars

(* Whatever becomes of the mac unit, networkd starts: wired DHCP falls     *)
(* back to the kernel's addresses (20-e87n-factory-mac.conf).              *)
NetworkComesUp == networkd = "waiting" ~> networkd = "running"
=============================================================================
