------------------------------ MODULE MCAudits ------------------------------
(* The checks of factory_firmware.py on what a firmware may hold: its      *)
(* kernel modules, initrd, paths, FIT and TAR.  They share no state, so a  *)
(* behaviour is one of one of them.                                        *)
EXTENDS ModuleAudit

CONSTANTS Parts, Initrds, Known, Limit, Frames, Names, Images, Wanted, MaxHops,
          FdtNames, Slashed, Keys, Values, MaxTokens, Absent, Headers, MaxHeaders, Sizes

VARIABLES part,
    initrd, data, consumed, frames, seen, last,
    image, wanted, pending, parts, hops,
    stack, nodes, props, begun, found, inside, tokens,
    headers, tail, sizes

moduleVars == <<tree, roots, walk, closures, selected, records, pc>>
scanVars == <<initrd, data, consumed, frames, seen, last>>
pathVars == <<image, wanted, pending, parts, hops>>
fdtVars == <<stack, nodes, props, begun, found, inside, tokens>>
tarVars == <<headers, tail, sizes>>
allVars == <<part, verdict, moduleVars, scanVars, pathVars, fdtVars, tarVars>>

Scan == INSTANCE InitrdScan
Resolve == INSTANCE ImagePath
Fdt == INSTANCE FdtReader WITH Names <- FdtNames
Tar == INSTANCE FirmwareTar

ASSUME FramesAssumption == Scan!FramesHoldParts
ASSUME LinksAssumption == Resolve!LinksAreSteps
ASSUME NamesAssumption == Fdt!NamesAreSplit
ASSUME SizesAssumption == Tar!SizesAreNumbers

(* What the other parts' variables are in a behaviour of one. *)
NoModules ==
    /\ tree = <<>> /\ roots = {} /\ start = 0 /\ active = <<>> /\ visited = {}
    /\ closures = <<>> /\ selected = {} /\ records = <<>> /\ pc = "lines"
NoScan == initrd = <<>> /\ data = <<>> /\ consumed = 0 /\ frames = 0 /\ seen = {} /\ last = "none"
NoPath == image = <<>> /\ wanted = <<>> /\ pending = <<>> /\ parts = <<>> /\ hops = 0
NoFdt ==
    /\ stack = <<>> /\ nodes = {} /\ props = <<>> /\ begun = <<>> /\ found = <<>>
    /\ inside = <<>> /\ tokens = 0
NoTar == headers = <<>> /\ tail = "blank" /\ sizes = <<>>

AuditInit ==
    \/ part = "modules" /\ Init /\ NoScan /\ NoPath /\ NoFdt /\ NoTar
    \/ part = "initrd" /\ Scan!Init /\ NoModules /\ NoPath /\ NoFdt /\ NoTar
    \/ part = "path" /\ Resolve!Init /\ NoModules /\ NoScan /\ NoFdt /\ NoTar
    \/ part = "fdt" /\ Fdt!Init /\ NoModules /\ NoScan /\ NoPath /\ NoTar
    \/ part = "tar" /\ Tar!Init /\ NoModules /\ NoScan /\ NoPath /\ NoFdt

AuditNext ==
    /\ UNCHANGED part
    /\ \/ part = "modules" /\ Next /\ UNCHANGED <<scanVars, pathVars, fdtVars, tarVars>>
       \/ part = "initrd" /\ Scan!Next /\ UNCHANGED <<moduleVars, pathVars, fdtVars, tarVars>>
       \/ part = "path" /\ Resolve!Next /\ UNCHANGED <<moduleVars, scanVars, fdtVars, tarVars>>
       \/ part = "fdt" /\ Fdt!Next /\ UNCHANGED <<moduleVars, scanVars, pathVars, tarVars>>
       \/ part = "tar" /\ Tar!Next /\ UNCHANGED <<moduleVars, scanVars, pathVars, fdtVars>>

AuditSpec == AuditInit /\ [][AuditNext]_allVars /\ WF_allVars(AuditNext)

(* The kernel can load what it finds in an accepted firmware: the walk     *)
(* over modules.dep finds what can be reached, each module has the softdep *)
(* that kmod will use, and every need is met; and a sound firmware is not  *)
(* refused (ModuleAudit).                                                  *)
ModulesCanLoad ==
    part = "modules" =>
        /\ TypeOK /\ ClosuresAreReach /\ FirstDeclarationCounts
        /\ AcceptedCanLoad /\ SoundIsNotRefused

(* The kernel unpacks nothing that was not compared, and the audit unpacks *)
(* no more than its limit (InitrdScan).                                    *)
NothingUnseen == part = "initrd" => Scan!TypeOK /\ Scan!NothingUnseen /\ Scan!Bounded

(* The other readers on the board find what the audit has read: a path     *)
(* leads to the same file (ImagePath), a node of the one tree has the same *)
(* properties (FdtReader), a payload has the same place (FirmwareTar).     *)
BoardReadsTheSame ==
    /\ part = "path" => Resolve!StaysInImage /\ Resolve!OpensTheSame
    /\ part = "fdt" => Fdt!OneTree /\ Fdt!LoaderReadsTheSame
    /\ part = "tar" => Tar!LoaderTakesAudited

(* Payloads that are accepted fit where they go (FirmwareTar).             *)
NothingOverlaps == part = "tar" => Tar!NothingOverlaps

(* No step of the three walks leaves as much to do as there was: over      *)
(* modules in a circle, links in a circle and frames in frames             *)
(* (ModuleAudit, ImagePath, InitrdScan).                                   *)
WalksGoOn ==
    [][/\ part = "modules" => WalkGoesOn
       /\ part = "path" => Resolve!LookupGoesOn
       /\ part = "initrd" => Scan!ScanGoesOn]_allVars

(* The audit ends also on links in a circle, and accepts a firmware that   *)
(* depmod and update-initramfs have made.                                  *)
SoundIsPassed ==
    /\ WalksGoOn
    /\ (part = "modules" /\ Sound(tree)) ~> verdict = "accept"
    /\ part = "path" ~> verdict # "none"

-----------------------------------------------------------------------------
(* Three modules, with every graph of modules.dep that has at most one     *)
(* loop of one module; the first one is required.                          *)
Lines3 == {<<a, b, c>> : a \in SUBSET {2, 3}, b \in SUBSET Modules, c \in SUBSET {1, 2}}
Reaches(dep) == <<Reach(dep, 1), Reach(dep, 2), Reach(dep, 3)>>

Tree(installed, dep, needs, inInitrd, soft, index, aliases) ==
    [installed |-> installed, lines |-> Modules, dep |-> dep, needs |-> needs,
     initrd |-> inInitrd, soft |-> soft, index |-> index, aliasIndex |-> aliases]

Soft(owners, targets) == [owners |-> owners, targets |-> targets]
Softs == {<<Soft({1}, {2}), Soft({1, 2, 9}, {1})>>, <<Soft({2, 3}, {3, 9}), Soft({3}, {1})>>,
          <<Soft({2}, {4})>>}

MCTrees ==
    {Tree(Modules, dep,
          CASE needs = "line" -> <<dep[1], dep[2] \cup {9}, dep[3]>>
            [] needs = "less" -> <<{9}, dep[2] \cap {2}, {}>>
            [] needs = "other" -> <<{}, {3}, {}>>,
          inInitrd, <<>>,
          LET r == Reaches(dep) IN IF short THEN <<r[1] \ {3}, r[2], r[3]>> ELSE r, <<>>) :
        dep \in Lines3, needs \in {"line", "less", "other"},
        inInitrd \in {{}, {2}, {2, 3}, Modules}, short \in BOOLEAN}
    \cup
    {Tree(installed, dep, dep, {2, 3}, soft, Reaches(dep), SubSeq(aliases, 1, Len(soft))) :
        installed \in {Modules, {1, 2}}, dep \in {<<{2, 3}, {3}, {}>>, <<{2}, {}, {}>>},
        soft \in Softs, aliases \in {<<{2}, {1}>>, <<{3, 9}, {1}>>, <<{4}, {}>>}}

(* Up to four parts, among them streams that hold files, streams and a     *)
(* trailer of their own.                                                   *)
File(name, same) == [kind |-> "file", name |-> name, same |-> same]
Kind(kind) == [kind |-> kind]
Holding(kind, body) == [kind |-> kind, body |-> body]
Simple == {Kind("pad"), Kind("other"), Kind("trailer"), Kind("junk"), File("m", TRUE),
           File("m", FALSE), File("x", TRUE)}
Bodies == {<<File("m", TRUE), Kind("trailer")>>, <<File("m", FALSE), Kind("trailer")>>,
           <<Kind("other"), Kind("other"), Kind("trailer")>>}
Streams == {Holding(kind, body) : kind \in {"stream", "zstd"}, body \in Bodies}
Nested == {Holding("stream", <<s>>) : s \in Streams}
MCParts == Simple \cup Streams \cup Nested
MCInitrds == UNION {[1..n -> MCParts] : n \in 0..3}
             \cup {<<Kind("trailer"), Kind("pad"), s, t>> : s, t \in Streams \cup Nested}

(* Links: merged /usr, out of the image, in a circle, by a detour.         *)
Link(absolute, to) == [absolute |-> absolute, parts |-> to]
Targets == {Link(FALSE, <<"b">>), Link(TRUE, <<"b", "a">>), Link(FALSE, <<"..", "b">>),
            Link(FALSE, <<"..", "..", "a">>), Link(FALSE, <<".", "a">>), Link(TRUE, <<>>)}
MCImages == UNION {[links -> Targets] : links \in SUBSET {<<"a">>, <<"b", "a">>, <<"b", "b">>}}
MCWanted == UNION {[1..n -> {"a", "b", "..", "."}] : n \in 1..3}

(* Blocks that tarfile and the vendor's parser see alike, and not.         *)
Header(name, raw, plain, octal, size) ==
    [name |-> name, raw |-> raw, plain |-> plain, octal |-> octal, size |-> size]
MCSlashed == {<<"images", "images">>}

MCHeaders ==
    {Header(n, n, TRUE, TRUE, 5) : n \in {"kernel", "root", "CONTROL"}}
    \cup {Header("kernel", "kernel", TRUE, FALSE, 6), Header("root", "root", TRUE, FALSE, 6),
          Header("root", "CONTROL", TRUE, TRUE, 5), Header("CONTROL", "root", FALSE, TRUE, 5),
          Header("kernel", "kernel", FALSE, TRUE, 0)}

(* Sizes at, just below and just above each limit. *)
MCSizes ==
    LET roots3 == {128, 129, 15180672, 15180673, 15180680, 15181791}
    IN {[root |-> r, ext4 |-> e, memory |-> 1, ramdisk |-> 1, fdt |-> 1] : r, e \in roots3}
       \cup {[root |-> 128, ext4 |-> 128, memory |-> m, ramdisk |-> d, fdt |-> f] :
                m \in {31457279, 31457280, 31457281}, d \in {31457279, 31457280, 31457281},
                f \in {2097151, 2097152}}
=============================================================================
