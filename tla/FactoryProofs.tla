---------------------------- MODULE FactoryProofs ----------------------------
(* What is proved of how the factory firmware is made: that a published    *)
(* TAR is of one image and stays, and that no run leaves a device behind,  *)
(* for any number of runs, failures, kills and changes of the image; and   *)
(* what preparing the root filesystem keeps true, for any list of managed  *)
(* files and links, any source and any number of runs that fail or are     *)
(* killed anywhere.                                                        *)
EXTENDS MCFactory, SequenceTheorems, TLAPS

-----------------------------------------------------------------------------
(* The runs of the build.                                                  *)

(* The rest of the script from a place on, and the place of a run in it.   *)
From(n) == SubSeq(Build!Script, n, 29)
Place(r) == 30 - Len(rest[r])

(* The blocks a run is in at a place.                                      *)
Blocks(p) ==
    IF p \in {6, 12} THEN <<"boot">>
    ELSE IF p \in 7..11 THEN <<"boot", "root">>
    ELSE IF p \in {15, 19} THEN <<"source">>
    ELSE IF p \in {16, 17, 18} THEN <<"source", "target">>
    ELSE IF p \in {26, 27} THEN <<"audit">>
    ELSE <<>>

Version == Build!Versions
RootImage == Build!RootImages
Control ==
    [source : Build!OrNone(Version), evidence : Build!OrNone(RootImage),
     fit : Build!OrNone(Build!Fits), root : RootImage]

WorkDir ==
    [before : Build!OrNone(Version), root : Build!OrNone(RootImage),
     new : Build!OrNone(RootImage), fit : Build!OrNone(Build!Fits),
     evidence : Build!OrNone(RootImage), control : Build!OrNone(Control)]

(* What the scratch directory of a run that goes on holds at a place, when *)
(* the image is now this one: every version in it was the image's after    *)
(* the first hash, so all are one when the second hash is the same.        *)
Holds(w, p, now) ==
    /\ p >= 3 => w.before \in Version /\ w.before <= now
    /\ p >= 4 => /\ w.root \in RootImage /\ w.root.whole = TRUE
                 /\ w.before <= w.root.from /\ w.root.from <= now
    /\ p >= 8 => /\ w.root.boot \in Version
                 /\ w.before <= w.root.boot /\ w.root.boot <= now
    /\ p >= 9 => /\ w.root.patched = TRUE
                 /\ w.fit = [boot |-> w.root.boot, patched |-> TRUE]
    /\ p >= 10 => w.evidence = w.root
    /\ p \in 18..21 => w.new = w.root
    /\ p >= 23 => w.control = [source |-> w.before, evidence |-> w.evidence,
                               fit |-> w.fit, root |-> w.root]
    /\ p >= 25 => w.root.from = w.before /\ w.root.boot = w.before

Alive == {"new", "running"}

(* A run that goes on is in the blocks of its place, or has just set up    *)
(* the device of the next.                                                 *)
Entered(r) ==
    status[r] \in Alive =>
        \/ open[r] = Blocks(Place(r))
        \/ \E m \in Build!Mounts : /\ Build!Script[Place(r)] = Build!Enter(m)
                                   /\ open[r] = Append(Blocks(Place(r)), m)

(* Its devices are those of the blocks it is in, unless it is killed or    *)
(* could not release one.                                                  *)
Attached(r) ==
    /\ r \notin stuck /\ status[r] # "killed" =>
         \A m \in Build!Mounts :
             <<r, m>> \in loops => \E i \in 1..Len(open[r]) : open[r][i] = m
    /\ status[r] \in Alive =>
         r \notin stuck /\ \A i \in 1..Len(open[r]) : <<r, open[r][i]>> \in loops

RunOK(r) ==
    /\ status[r] = "new" => Place(r) = 1
    /\ status[r] = "running" => Holds(work[r], Place(r), image)
    /\ Entered(r) /\ Attached(r)

BuildTyped ==
    /\ image \in Nat /\ image <= faults /\ faults \in 0..MaxFaults
    /\ stuck \subseteq upset /\ upset \subseteq Builds
    /\ loops \subseteq Builds \X Build!Mounts /\ mounts \subseteq loops
    /\ status \in [Builds -> {"new", "running", "failing", "killed", "pass"}]
    /\ rest \in [Builds -> {From(n) : n \in 1..29}]
    /\ open \in [Builds -> Seq(Build!Mounts)]
    /\ work \in [Builds -> WorkDir]

RunsOK == \A r \in Builds : RunOK(r)

BuildInv == BuildTyped /\ RunsOK /\ OutputIsOfOneImage

-----------------------------------------------------------------------------
(* The script *)

LEMMA ScriptSteps ==
    LET At(s, n) == \A i \in 1..29 : Build!Script[i] = s => i = n
    IN  /\ At(Build!Do("absent"), 1) /\ At(Build!Do("hash"), 2) /\ At(Build!Do("copy"), 3)
        /\ At(Build!Do("prepare"), 7) /\ At(Build!Do("fit"), 8) /\ At(Build!Do("evidence"), 9)
        /\ At(Build!Do("cp"), 16) /\ At(Build!Do("compare"), 17) /\ At(Build!Do("swap"), 21)
        /\ At(Build!Do("control"), 22) /\ At(Build!Do("rehash"), 24)
        /\ At(Build!Do("audit"), 26) /\ At(Build!Do("link"), 28) /\ At(Build!Do("report"), 29)
        /\ At(Build!Do("identify"), 4) /\ At(Build!Do("verify"), 10) /\ At(Build!Do("pack"), 23)
        /\ \A i \in 1..29 : Build!Script[i] = Build!Do("fsck") => i \in {13, 20}
BY DEF Build!Script, Build!Do, Build!Enter, Build!Leave

LEMMA ScriptMounts ==
    LET At(s, n) == \A i \in 1..29 : Build!Script[i] = s => i = n
    IN  /\ At(Build!Enter("boot"), 5) /\ At(Build!Leave("boot"), 12)
        /\ At(Build!Enter("root"), 6) /\ At(Build!Leave("root"), 11)
        /\ At(Build!Enter("source"), 14) /\ At(Build!Leave("source"), 19)
        /\ At(Build!Enter("target"), 15) /\ At(Build!Leave("target"), 18)
        /\ At(Build!Enter("audit"), 25) /\ At(Build!Leave("audit"), 27)
BY DEF Build!Script, Build!Do, Build!Enter, Build!Leave

LEMMA SuffixIs ==
    ASSUME NEW S, NEW N \in Nat, NEW z \in [1..N -> S], NEW n \in 1..N
    PROVE  /\ Len(SubSeq(z, n, N)) = N + 1 - n
           /\ SubSeq(z, n, N) # <<>> /\ Head(SubSeq(z, n, N)) = z[n]
           /\ Tail(SubSeq(z, n, N)) = SubSeq(z, n + 1, N)
<1>1. z \in Seq(S) /\ Len(z) = N
  OBVIOUS
<1>2. n \in Int /\ N \in Int /\ n <= N /\ \A i \in n..N : z[i] \in S
  OBVIOUS
<1>3. SubSeq(z, n, N) \in Seq(S)
  BY <1>2, SubSeqProperties
<1>4. Len(SubSeq(z, n, N)) = IF n <= N THEN N - n + 1 ELSE 0
  BY <1>2, SubSeqProperties, Zenon
<1>5. Len(SubSeq(z, n, N)) = N + 1 - n
  BY <1>2, <1>4
<1>6. SubSeq(z, n, N) # <<>>
  BY <1>2, <1>3, <1>5
<1>7. n \in 1..Len(z) /\ N \in n..Len(z)
  BY <1>1, <1>2
<1>8. Head(SubSeq(z, n, N)) = z[n] /\ Tail(SubSeq(z, n, N)) = SubSeq(z, n + 1, N)
  BY <1>1, <1>7, HeadTailOfSubSeq, Zenon
<1> QED
  BY <1>5, <1>6, <1>8

LEMMA FromHere ==
    \A n \in 1..29 :
        /\ Len(From(n)) = 30 - n
        /\ From(n) # <<>> /\ Head(From(n)) = Build!Script[n]
        /\ Tail(From(n)) = From(n + 1)
<1> DEFINE Z == Build!Script
           S == {Z[i] : i \in 1..29}
           N == 29
<1>1. Z = [i \in 1..29 |-> Z[i]]
  BY DEF Build!Script
<1> HIDE DEF Z
<1>2. Z \in [1..N -> S] /\ N \in Nat
  BY <1>1
<1> SUFFICES ASSUME NEW n \in 1..N
             PROVE  /\ Len(SubSeq(Z, n, N)) = N + 1 - n
                    /\ SubSeq(Z, n, N) # <<>> /\ Head(SubSeq(Z, n, N)) = Z[n]
                    /\ Tail(SubSeq(Z, n, N)) = SubSeq(Z, n + 1, N)
  BY DEF From, Z
<1> HIDE DEF S, N
<1> QED
  BY <1>2, SuffixIs

(* Where a run is. *)
LEMMA PlaceOf ==
    ASSUME BuildTyped, NEW r \in Builds
    PROVE  /\ Place(r) \in 1..29 /\ rest[r] = From(Place(r))
           /\ Head(rest[r]) = Build!Script[Place(r)]
           /\ Tail(rest[r]) = From(Place(r) + 1)
<1>1. PICK n \in 1..29 : rest[r] = From(n)
  BY DEF BuildTyped
<1>2. Place(r) = n
  <2>1. Len(rest[r]) = 30 - n
    BY <1>1, FromHere
  <2> QED
    BY <2>1 DEF Place
<1> QED
  BY <1>1, <1>2, FromHere

LEMMA HereAt ==
    ASSUME BuildTyped, NEW r \in Builds, NEW s, Build!Here(r, s)
    PROVE  status[r] = "running" /\ Build!Script[Place(r)] = s /\ Place(r) \in 1..29
BY PlaceOf DEF Build!Here

LEMMA Fronts ==
    ASSUME NEW a, NEW b PROVE Build!Front(<<a>>) = <<>> /\ Build!Front(<<a, b>>) = <<a>>
<1> DEFINE s == <<a, b>>
<1>1. s \in Seq({a, b}) /\ <<a>> \in Seq({a, b}) /\ Len(<<a>>) = 1 /\ Len(s) = 2
      /\ s[1] = a /\ s[2] = b /\ Len(<<a>>) = 1 /\ <<a>>[1] = a
  OBVIOUS
<1> HIDE DEF s
<1>2. 1 \in Int /\ \A i \in 1..1 : s[i] \in {a, b}
  BY <1>1
<1>3. /\ SubSeq(s, 1, 1) \in Seq({a, b}) /\ Len(SubSeq(s, 1, 1)) = 1
      /\ SubSeq(s, 1, 1)[1] = a
  BY <1>1
<1>4. SubSeq(s, 1, 1) = <<a>>
  <2> DEFINE x == SubSeq(s, 1, 1)
             y == <<a>>
  <2>1. x \in Seq({a, b}) /\ y \in Seq({a, b}) /\ Len(x) = Len(y)
        /\ \A i \in 1..Len(x) : x[i] = y[i]
    BY <1>1, <1>3
  <2> HIDE DEF x, y
  <2>2. x = y
    BY <2>1, SeqEqual
  <2> QED
    BY <2>2 DEF x, y
<1>5. Len(s) - 1 = 1
  BY <1>1
<1>6. Build!Front(s) = <<a>>
  BY <1>4, <1>5 DEF Build!Front
<1>7. Build!Front(<<a>>) = <<>>
  BY DEF Build!Front
<1> QED
  BY <1>6, <1>7 DEF s

LEMMA BlocksAreSeq == \A p : Blocks(p) \in Seq(Build!Mounts)
<1>1. /\ <<>> \in Seq(Build!Mounts) /\ <<"boot">> \in Seq(Build!Mounts)
      /\ <<"boot", "root">> \in Seq(Build!Mounts) /\ <<"source">> \in Seq(Build!Mounts)
      /\ <<"source", "target">> \in Seq(Build!Mounts) /\ <<"audit">> \in Seq(Build!Mounts)
  BY DEF Build!Mounts
<1> QED
  BY <1>1 DEF Blocks

(* What a run is in when it enters and when it leaves a block.             *)
Opens(p, m) ==
    /\ Append(Blocks(p), m) = Blocks(p + 1)
    /\ Blocks(p) # <<>> => Build!Last(Blocks(p)) # m

Closes(p, m) ==
    /\ Build!Front(Blocks(p)) = Blocks(p + 1) /\ Build!Last(Blocks(p)) = m
    /\ \A i \in 1..Len(Blocks(p + 1)) :
          i \in 1..Len(Blocks(p)) /\ Blocks(p)[i] = Blocks(p + 1)[i] /\ Blocks(p)[i] # m

LEMMA OneBlock ==
    ASSUME NEW p \in Nat, NEW m, Blocks(p) = <<>>, Blocks(p + 1) = <<m>> PROVE Opens(p, m)
BY DEF Opens

LEMMA TwoBlocks ==
    ASSUME NEW p \in Nat, NEW m, NEW n, m # n, Blocks(p) = <<n>>, Blocks(p + 1) = <<n, m>>
    PROVE  Opens(p, m)
BY DEF Opens, Build!Last

LEMMA OneLess ==
    ASSUME NEW p \in Nat, NEW m, Blocks(p) = <<m>>, Blocks(p + 1) = <<>> PROVE Closes(p, m)
<1>1. Build!Front(<<m>>) = <<>> /\ Build!Last(<<m>>) = m /\ Len(<<>>) = 0
  BY Fronts DEF Build!Last
<1> QED
  BY <1>1 DEF Closes

LEMMA TwoLess ==
    ASSUME NEW p \in Nat, NEW m, NEW n, m # n, Blocks(p) = <<n, m>>, Blocks(p + 1) = <<n>>
    PROVE  Closes(p, m)
<1>1. Build!Front(<<n, m>>) = <<n>> /\ Build!Last(<<n, m>>) = m
  BY Fronts DEF Build!Last
<1>2. \A i \in 1..Len(<<n>>) : i \in 1..Len(<<n, m>>) /\ <<n, m>>[i] = <<n>>[i] /\ <<n, m>>[i] # m
  OBVIOUS
<1> QED
  BY <1>1, <1>2 DEF Closes

LEMMA Doors ==
    ASSUME NEW p \in 1..29, NEW m \in Build!Mounts
    PROVE  /\ Build!Script[p] = Build!Enter(m) => p \in {5, 6, 14, 15, 25} /\ Opens(p, m)
           /\ Build!Script[p] = Build!Leave(m) => p \in {11, 12, 18, 19, 27} /\ Closes(p, m)
<1>1. Opens(5, "boot") /\ Opens(14, "source") /\ Opens(25, "audit")
  <2>1. /\ Blocks(5) = <<>> /\ Blocks(5 + 1) = <<"boot">>
        /\ Blocks(14) = <<>> /\ Blocks(14 + 1) = <<"source">>
        /\ Blocks(25) = <<>> /\ Blocks(25 + 1) = <<"audit">>
    BY DEF Blocks
  <2> QED
    BY <2>1, OneBlock
<1>2. Opens(6, "root") /\ Opens(15, "target")
  <2>1. /\ Blocks(6) = <<"boot">> /\ Blocks(6 + 1) = <<"boot", "root">>
        /\ Blocks(15) = <<"source">> /\ Blocks(15 + 1) = <<"source", "target">>
    BY DEF Blocks
  <2> QED
    BY <2>1, TwoBlocks
<1>3. Closes(12, "boot") /\ Closes(19, "source") /\ Closes(27, "audit")
  <2>1. /\ Blocks(12) = <<"boot">> /\ Blocks(12 + 1) = <<>>
        /\ Blocks(19) = <<"source">> /\ Blocks(19 + 1) = <<>>
        /\ Blocks(27) = <<"audit">> /\ Blocks(27 + 1) = <<>>
    BY DEF Blocks
  <2> QED
    BY <2>1, OneLess
<1>4. Closes(11, "root") /\ Closes(18, "target")
  <2>1. /\ Blocks(11) = <<"boot", "root">> /\ Blocks(11 + 1) = <<"boot">>
        /\ Blocks(18) = <<"source", "target">> /\ Blocks(18 + 1) = <<"source">>
    BY DEF Blocks
  <2> QED
    BY <2>1, TwoLess
<1> QED
  BY <1>1, <1>2, <1>3, <1>4, ScriptMounts DEF Build!Mounts

LEMMA OneDoor ==
    ASSUME NEW p \in 1..29, NEW m \in Build!Mounts, NEW n \in Build!Mounts,
           Build!Script[p] = Build!Enter(m), Build!Script[p] = Build!Enter(n)
    PROVE  m = n
BY DEF Build!Enter

-----------------------------------------------------------------------------
(* What the steps have in common *)

(* Faults are counted, and only runs are upset.                            *)
Fortune ==
    /\ faults' \in 0..MaxFaults /\ faults <= faults'
    /\ upset \subseteq upset' /\ upset' \subseteq Builds

LEMMA Fortunes ==
    ASSUME BuildTyped,
           \/ UNCHANGED Build!luck
           \/ \E rs \in SUBSET Builds : Build!Disturb(rs)
    PROVE  Fortune
BY BuildAssumption DEF BuildTyped, Fortune, Build!luck, Build!Disturb

LEMMA HoldsLater ==
    ASSUME NEW w, NEW p \in 1..29, NEW a \in Nat, NEW b \in Nat, a <= b, Holds(w, p, a)
    PROVE  Holds(w, p, b)
<1>1. \A v \in Version : v \in Nat
  BY BuildAssumption DEF Version, Build!Versions
<1>2. p >= 3 => w.before \in Version /\ w.before <= b
  BY <1>1 DEF Holds
<1>3. p >= 4 => w.root.from <= b
  BY <1>1 DEF Holds, RootImage, Build!RootImages, Version
<1>4. p >= 8 => w.root.boot <= b
  BY <1>1 DEF Holds
<1> QED
  BY <1>2, <1>3, <1>4 DEF Holds

(* A step of one run, and a change of the image, leave the others alone.   *)
LEMMA OtherRun ==
    ASSUME BuildTyped, NEW s \in Builds, RunOK(s), image' \in Nat, image <= image',
           status'[s] = status[s], rest'[s] = rest[s], open'[s] = open[s], work'[s] = work[s],
           s \in stuck' <=> s \in stuck,
           \A m \in Build!Mounts : <<s, m>> \in loops' <=> <<s, m>> \in loops
    PROVE  RunOK(s)'
<1>1. Place(s)' = Place(s) /\ Place(s) \in 1..29
  BY PlaceOf DEF Place
<1>2. status[s] = "running" => Holds(work[s], Place(s), image')
  BY <1>1, HoldsLater DEF RunOK, BuildTyped
<1>3. Entered(s)'
  BY <1>1 DEF RunOK, Entered
<1>4. Attached(s)'
  <2>1. \A i \in 1..Len(open[s]) : open[s][i] \in Build!Mounts
    BY DEF BuildTyped
  <2> QED
    BY <2>1 DEF RunOK, Attached
<1> QED
  BY <1>1, <1>2, <1>3, <1>4 DEF RunOK

(* A run ends its step, with what it has done in its scratch directory.    *)
Plain == {1, 2, 3, 4, 7, 8, 9, 10, 13, 16, 17, 20, 21, 22, 23, 24, 26, 28}

LEMMA PlainStep ==
    ASSUME BuildInv, NEW r \in Builds, NEW w \in WorkDir,
           status[r] = "running", Place(r) \in Plain,
           work' = [work EXCEPT ![r] = w], rest' = [rest EXCEPT ![r] = Tail(rest[r])],
           image' = image, status' = status, open' = open,
           loops' = loops, mounts' = mounts, stuck' = stuck, Fortune,
           Holds(w, Place(r) + 1, image), OutputIsOfOneImage'
    PROVE  BuildInv'
<1>0. PICK p \in Plain : p = Place(r)
  OBVIOUS
<1>1. BuildTyped /\ RunOK(r) /\ p \in 1..28 /\ p + 1 \in 1..29
  <2>1. p \in 1..28
    BY <1>0 DEF Plain
  <2>2. BuildTyped /\ RunOK(r)
    BY DEF BuildInv, RunsOK
  <2> QED
    BY <2>1, <2>2
<1>2. rest' = [rest EXCEPT ![r] = From(p + 1)]
  <2>1. Tail(rest[r]) = From(p + 1)
    BY <1>0, <1>1, PlaceOf
  <2> QED
    BY <2>1
<1>3. /\ rest' \in [Builds -> {From(n) : n \in 1..29}]
      /\ work' \in [Builds -> WorkDir]
  <2>1. rest \in [Builds -> {From(n) : n \in 1..29}] /\ work \in [Builds -> WorkDir]
    BY <1>1 DEF BuildTyped
  <2>2. From(p + 1) \in {From(n) : n \in 1..29}
    BY <1>1
  <2> QED
    BY <1>2, <2>1, <2>2
<1>4. BuildTyped'
  <2>1. /\ image' \in Nat /\ image' <= faults' /\ faults' \in 0..MaxFaults
        /\ stuck' \subseteq upset' /\ upset' \subseteq Builds
    BY <1>1, BuildAssumption DEF BuildTyped, Fortune
  <2> QED
    BY <1>1, <1>3, <2>1 DEF BuildTyped
<1>5. Place(r)' = p + 1
  <2>1. rest'[r] = From(p + 1)
    BY <1>1, <1>2 DEF BuildTyped
  <2>2. Len(From(p + 1)) = 30 - (p + 1)
    BY <1>1, FromHere
  <2>3. 30 - (30 - (p + 1)) = p + 1
    BY <1>1
  <2>4. Place(r)' = 30 - Len(From(p + 1))
    BY <2>1 DEF Place
  <2> QED
    BY <2>2, <2>3, <2>4
<1>6. RunOK(r)'
  <2>1. work'[r] = w
    BY <1>1 DEF BuildTyped
  <2>2. open[r] = Blocks(p)
    <3>0. p \in 1..29
      BY <1>1
    <3>1. p \notin {5, 6, 14, 15, 25}
      BY DEF Plain
    <3>2. \A m \in Build!Mounts : Build!Script[p] # Build!Enter(m)
      BY <3>0, <3>1, Doors
    <3> QED
      BY <1>0, <1>1, <3>2 DEF RunOK, Entered, Alive
  <2>3. Blocks(p + 1) = Blocks(p)
    BY DEF Blocks, Plain
  <2>4. Entered(r)'
    BY <1>5, <2>2, <2>3 DEF Entered
  <2>5. Attached(r)'
    BY <1>1 DEF RunOK, Attached
  <2> QED
    BY <1>0, <1>1, <1>5, <2>1, <2>4, <2>5 DEF RunOK
<1>7. ASSUME NEW s \in Builds, s # r PROVE RunOK(s)'
  <2>1. status'[s] = status[s] /\ rest'[s] = rest[s] /\ work'[s] = work[s]
    BY <1>1, <1>7 DEF BuildTyped
  <2>2. image' \in Nat /\ image <= image'
    BY <1>1 DEF BuildTyped
  <2> QED
    BY <1>1, <2>1, <2>2, OtherRun DEF BuildInv, RunsOK
<1> QED
  BY <1>4, <1>6, <1>7 DEF BuildInv, RunsOK

(* It fails, is killed or is done: its devices are as they were.           *)
LEMMA StopStep ==
    ASSUME BuildInv, NEW r \in Builds, NEW end \in {"failing", "killed", "pass"},
           status[r] # "killed", status' = [status EXCEPT ![r] = end],
           work' = work, rest' = rest, image' = image, open' = open, output' = output,
           loops' = loops, mounts' = mounts, stuck' = stuck, Fortune
    PROVE  BuildInv'
<1>1. BuildTyped /\ RunOK(r)
  BY DEF BuildInv, RunsOK
<1>2. status' \in [Builds -> {"new", "running", "failing", "killed", "pass"}]
  BY <1>1 DEF BuildTyped
<1>3. BuildTyped' /\ status'[r] = end
  BY <1>1, <1>2 DEF BuildTyped, Fortune
<1>4. RunOK(r)'
  BY <1>1, <1>3 DEF RunOK, Entered, Attached, Alive
<1>5. ASSUME NEW s \in Builds, s # r PROVE RunOK(s)'
  <2>1. status'[s] = status[s] /\ image' \in Nat /\ image <= image'
    BY <1>1, <1>5 DEF BuildTyped
  <2> QED
    BY <1>1, <2>1, OtherRun DEF BuildInv, RunsOK
<1>6. OutputIsOfOneImage'
  BY DEF BuildInv, OutputIsOfOneImage, Build!OutputIsOfOneImage
<1> QED
  BY <1>3, <1>4, <1>5, <1>6 DEF BuildInv, RunsOK

-----------------------------------------------------------------------------
(* The steps of the script *)

(* A step that changes nothing but the directory, or is refused.           *)
LEMMA DoOrRefuse ==
    ASSUME BuildInv, NEW r \in Builds, NEW s, Build!Here(r, s), NEW p \in Plain, Place(r) = p,
           NEW w \in WorkDir, Holds(w, p + 1, image),
           \/ work' = [work EXCEPT ![r] = w] /\ Build!Step(r) /\ status' = status
              /\ OutputIsOfOneImage'
           \/ work' = work /\ Build!Raise(r) /\ output' = output,
           image' = image, open' = open, loops' = loops, mounts' = mounts, stuck' = stuck, Fortune
    PROVE  BuildInv'
<1>1. BuildTyped /\ status[r] = "running"
  BY DEF BuildInv, Build!Here
<1>2. CASE work' = [work EXCEPT ![r] = w] /\ Build!Step(r) /\ status' = status
           /\ OutputIsOfOneImage'
  BY <1>1, <1>2, PlainStep DEF Build!Step
<1>3. CASE work' = work /\ Build!Raise(r) /\ output' = output
  BY <1>1, <1>3, StopStep DEF Build!Raise
<1> QED
  BY <1>2, <1>3

LEMMA Unwritten ==
    ASSUME BuildInv, output' = output PROVE OutputIsOfOneImage'
BY DEF BuildInv, OutputIsOfOneImage, Build!OutputIsOfOneImage

(* The steps that only look. *)
LEMMA LookSteps ==
    ASSUME BuildInv, NEW r \in Builds,
           \/ Build!OutputAbsent(r) \/ Build!CompareFiles(r)
           \/ Build!HashAgain(r) \/ Build!Audit(r) \/ Build!Other(r)
    PROVE  BuildInv'
<1> DEFINE w == work[r]
<1>1. BuildTyped /\ w \in WorkDir /\ work = [work EXCEPT ![r] = w]
  BY DEF BuildInv, BuildTyped
<1>2. status[r] = "running" => Holds(w, Place(r), image)
  BY DEF BuildInv, RunsOK, RunOK
<1>3. output' = output => OutputIsOfOneImage'
  BY Unwritten
<1>4. UNCHANGED Build!luck => Fortune
  BY <1>1, Fortunes
<1> HIDE DEF w
<1> USE DEF Build!Require, Build!machine
<1>5. CASE Build!OutputAbsent(r)
  <2>1. Build!Here(r, Build!Do("absent")) /\ Place(r) = 1 /\ 1 \in Plain
    BY <1>1, <1>5, HereAt, ScriptSteps DEF Build!OutputAbsent, Plain
  <2>2. Holds(w, 1 + 1, image)
    BY DEF Holds
  <2> QED
    BY <1>1, <1>3, <1>4, <1>5, <2>1, <2>2, DoOrRefuse DEF Build!OutputAbsent
<1>6. CASE Build!CompareFiles(r)
  <2>1. Build!Here(r, Build!Do("compare")) /\ Place(r) = 17 /\ 17 \in Plain
    BY <1>1, <1>6, HereAt, ScriptSteps DEF Build!CompareFiles, Plain
  <2>2. CASE w.new = w.root
    <3>1. Holds(w, 17 + 1, image)
      BY <1>2, <2>1, <2>2 DEF Holds, Build!Here
    <3> QED
      BY <1>1, <1>3, <1>4, <1>6, <2>1, <3>1, DoOrRefuse DEF Build!CompareFiles
  <2>3. CASE w.new # w.root
    BY <1>1, <1>4, <1>6, <2>1, <2>3, StopStep DEF Build!CompareFiles, Build!Raise, Build!Here, w
  <2> QED
    BY <2>2, <2>3
<1>7. CASE Build!HashAgain(r)
  <2>1. Build!Here(r, Build!Do("rehash")) /\ Place(r) = 24 /\ 24 \in Plain
    BY <1>1, <1>7, HereAt, ScriptSteps DEF Build!HashAgain, Plain
  <2>2. CASE image = w.before
    <3>1. /\ w.before \in Nat /\ w.root.from \in Nat /\ w.root.boot \in Nat
          /\ w.before <= w.root.from /\ w.root.from <= image
          /\ w.before <= w.root.boot /\ w.root.boot <= image
      BY <1>2, <2>1, BuildAssumption DEF Holds, Build!Here, RootImage, Build!RootImages, Version,
         Build!Versions
    <3>2. w.root.from = w.before /\ w.root.boot = w.before
      BY <2>2, <3>1
    <3>3. Holds(w, 24 + 1, image)
      BY <1>2, <2>1, <3>2 DEF Holds, Build!Here
    <3> QED
      BY <1>1, <1>3, <1>4, <1>7, <2>1, <3>3, DoOrRefuse DEF Build!HashAgain
  <2>3. CASE image # w.before
    BY <1>1, <1>4, <1>7, <2>1, <2>3, StopStep DEF Build!HashAgain, Build!Raise, Build!Here, w
  <2> QED
    BY <2>2, <2>3
<1>8. CASE Build!Audit(r)
  <2>1. Build!Here(r, Build!Do("audit")) /\ Place(r) = 26 /\ 26 \in Plain
    BY <1>1, <1>8, HereAt, ScriptSteps DEF Build!Audit, Plain
  <2>2. Holds(w, 26 + 1, image)
    BY <1>2, <2>1 DEF Holds, Build!Here
  <2> QED
    BY <1>1, <1>3, <1>4, <1>8, <2>1, <2>2, DoOrRefuse DEF Build!Audit
<1>9. CASE Build!Other(r)
  <2>1. PICK s \in {"identify", "verify", "fsck", "pack"} : Build!Here(r, Build!Do(s))
    BY <1>9 DEF Build!Other
  <2>2. PICK p \in {4, 10, 13, 20, 23} : Place(r) = p
    BY <1>1, <2>1, HereAt, ScriptSteps
  <2>3. p \in Plain /\ Holds(w, p, image)
    BY <1>2, <2>1, <2>2 DEF Plain, Build!Here
  <2>4. Holds(w, p + 1, image)
    BY <2>2, <2>3 DEF Holds
  <2>5. /\ Build!Step(r) /\ work' = work /\ status' = status /\ output' = output
        /\ image' = image /\ open' = open /\ UNCHANGED Build!luck
        /\ loops' = loops /\ mounts' = mounts /\ stuck' = stuck
    BY <1>9 DEF Build!Other
  <2> QED
    BY <1>1, <1>3, <1>4, <2>1, <2>2, <2>3, <2>4, <2>5, DoOrRefuse
<1> QED
  BY <1>5, <1>6, <1>7, <1>8, <1>9

(* What a step puts into the directory. *)
LEMMA PutStep ==
    ASSUME BuildInv, NEW r \in Builds, NEW s, Build!Here(r, s), NEW p \in Plain, Place(r) = p,
           NEW w \in WorkDir, Holds(w, p + 1, image), work' = [work EXCEPT ![r] = w],
           Build!Step(r), UNCHANGED <<image, output, status, open, loops, mounts, stuck>>, Fortune
    PROVE  BuildInv'
BY Unwritten, DoOrRefuse

LEMMA Patched ==
    ASSUME NEW root \in RootImage
    PROVE  /\ \A v \in Version : [root EXCEPT !.boot = v] \in RootImage
           /\ [root EXCEPT !.patched = TRUE] \in RootImage
           /\ [root EXCEPT !.whole = FALSE] \in RootImage
BY DEF RootImage, Build!RootImages, Build!OrNone, Version

LEMMA PutSteps ==
    ASSUME BuildInv, NEW r \in Builds,
           \/ Build!HashInput(r) \/ Build!CopyRoot(r) \/ Build!Prepare(r) \/ Build!MakeFit(r)
           \/ Build!CollectEvidence(r) \/ Build!CopyFiles(r) \/ Build!CopyLoses(r)
           \/ Build!Swap(r) \/ Build!WriteControl(r)
    PROVE  BuildInv'
<1> DEFINE w == work[r]
<1>1. BuildTyped /\ w \in WorkDir
  BY DEF BuildInv, BuildTyped
<1>2. status[r] = "running" => Holds(w, Place(r), image)
  BY DEF BuildInv, RunsOK, RunOK
<1>3. UNCHANGED Build!luck \/ Build!Disturb({r}) => Fortune
  BY <1>1, Fortunes
<1>4. image \in Version /\ image \in Nat
  BY <1>1, BuildAssumption DEF BuildTyped, Version, Build!Versions
<1> HIDE DEF w
<1> USE DEF Build!Put, Build!machine
<1>5. CASE Build!HashInput(r)
  <2> DEFINE new == [w EXCEPT !.before = image]
  <2>1. Build!Here(r, Build!Do("hash")) /\ Place(r) = 2 /\ 2 \in Plain
    BY <1>1, <1>5, HereAt, ScriptSteps DEF Build!HashInput, Plain
  <2>2. new \in WorkDir /\ new.before = image
    BY <1>1, <1>4 DEF WorkDir, Build!OrNone
  <2>3. work' = [work EXCEPT ![r] = new]
    BY <1>5 DEF Build!HashInput, w
  <2> HIDE DEF new
  <2>4. Holds(new, 2 + 1, image)
    BY <1>4, <2>2 DEF Holds
  <2> QED
    BY <1>3, <1>5, <2>1, <2>2, <2>3, <2>4, PutStep DEF Build!HashInput
<1>6. CASE Build!CopyRoot(r)
  <2> DEFINE new == [w EXCEPT !.root = Build!RootOf(image)]
  <2>1. Build!Here(r, Build!Do("copy")) /\ Place(r) = 3 /\ 3 \in Plain
    BY <1>1, <1>6, HereAt, ScriptSteps DEF Build!CopyRoot, Plain
  <2>2. Build!RootOf(image) \in RootImage
    BY <1>4 DEF Build!RootOf, RootImage, Build!RootImages, Build!OrNone, Version
  <2>3. new \in WorkDir /\ new.before = w.before /\ new.root = Build!RootOf(image)
    BY <1>1, <2>2 DEF WorkDir, Build!OrNone
  <2>4. work' = [work EXCEPT ![r] = new]
    BY <1>6 DEF Build!CopyRoot, w
  <2> HIDE DEF new
  <2>5. Build!RootOf(image).whole = TRUE /\ Build!RootOf(image).from = image
    BY DEF Build!RootOf
  <2>6. Holds(new, 3 + 1, image)
    BY <1>2, <1>4, <2>1, <2>2, <2>3, <2>5 DEF Holds, Build!Here
  <2> QED
    BY <1>3, <1>6, <2>1, <2>3, <2>4, <2>6, PutStep DEF Build!CopyRoot
<1>7. CASE Build!Prepare(r)
  <2> DEFINE root == [w.root EXCEPT !.boot = image]
             new == [w EXCEPT !.root = root]
  <2>1. Build!Here(r, Build!Do("prepare")) /\ Place(r) = 7 /\ 7 \in Plain
    BY <1>1, <1>7, HereAt, ScriptSteps DEF Build!Prepare, Plain
  <2>2. Holds(w, 7, image) /\ w.root \in RootImage
    BY <1>2, <2>1 DEF Holds, Build!Here
  <2>3. /\ root \in RootImage /\ root.boot = image
        /\ root.from = w.root.from /\ root.whole = w.root.whole
    BY <1>4, <2>2, Patched DEF RootImage, Build!RootImages
  <2>4. work' = [work EXCEPT ![r] = new]
    BY <1>7 DEF Build!Prepare, w
  <2> HIDE DEF root
  <2>5. new \in WorkDir /\ new.before = w.before /\ new.root = root
    BY <1>1, <2>3 DEF WorkDir, Build!OrNone
  <2> HIDE DEF new
  <2>6. Holds(new, 7 + 1, image)
    BY <1>4, <2>2, <2>3, <2>5 DEF Holds
  <2> QED
    BY <1>3, <1>7, <2>1, <2>4, <2>5, <2>6, PutStep DEF Build!Prepare
<1>8. CASE Build!MakeFit(r)
  <2> DEFINE root == [w.root EXCEPT !.patched = TRUE]
             fit == [boot |-> w.root.boot, patched |-> TRUE]
             new == [w EXCEPT !.root = root, !.fit = fit]
  <2>1. Build!Here(r, Build!Do("fit")) /\ Place(r) = 8 /\ 8 \in Plain
    BY <1>1, <1>8, HereAt, ScriptSteps DEF Build!MakeFit, Plain
  <2>2. Holds(w, 8, image) /\ w.root \in RootImage /\ w.root.boot \in Version
    BY <1>2, <2>1 DEF Holds, Build!Here
  <2>3. /\ root \in RootImage /\ root.boot = w.root.boot
        /\ root.from = w.root.from /\ root.whole = w.root.whole /\ root.patched = TRUE
    BY <2>2, Patched DEF RootImage, Build!RootImages
  <2>4. fit \in Build!Fits
    BY <2>2 DEF Build!Fits, Version
  <2>5. work' = [work EXCEPT ![r] = new]
    BY <1>1, <1>8, <2>2 DEF Build!MakeFit, w, BuildTyped, WorkDir
  <2> HIDE DEF root
  <2>6. new \in WorkDir /\ new.before = w.before /\ new.root = root /\ new.fit = fit
    BY <1>1, <2>3, <2>4 DEF WorkDir, Build!OrNone
  <2>7. fit = [boot |-> root.boot, patched |-> TRUE]
    BY <2>3
  <2> HIDE DEF new, fit
  <2>10. w.root.whole = TRUE
    BY <2>2 DEF Holds
  <2>11. new.fit = [boot |-> new.root.boot, patched |-> TRUE]
    BY <2>6, <2>7
  <2>8. /\ new.root \in RootImage /\ new.root.from = w.root.from /\ new.root.whole = TRUE
        /\ new.root.boot = w.root.boot /\ new.root.patched = TRUE /\ new.before = w.before
        /\ new.fit = [boot |-> new.root.boot, patched |-> TRUE]
    BY <2>3, <2>6, <2>10, <2>11
  <2>9. Holds(new, 8 + 1, image)
    BY <2>2, <2>8 DEF Holds
  <2> QED
    BY <1>3, <1>8, <2>1, <2>5, <2>6, <2>9, PutStep DEF Build!MakeFit
<1>9. CASE Build!CollectEvidence(r)
  <2> DEFINE new == [w EXCEPT !.evidence = w.root]
  <2>1. Build!Here(r, Build!Do("evidence")) /\ Place(r) = 9 /\ 9 \in Plain
    BY <1>1, <1>9, HereAt, ScriptSteps DEF Build!CollectEvidence, Plain
  <2>2. Holds(w, 9, image) /\ w.root \in RootImage
    BY <1>2, <2>1 DEF Holds, Build!Here
  <2>3. /\ new \in WorkDir /\ new.before = w.before /\ new.root = w.root /\ new.fit = w.fit
        /\ new.evidence = w.root
    BY <1>1, <2>2 DEF WorkDir, Build!OrNone
  <2>4. work' = [work EXCEPT ![r] = new]
    BY <1>9 DEF Build!CollectEvidence, w
  <2> HIDE DEF new
  <2>5. Holds(new, 9 + 1, image)
    BY <2>2, <2>3 DEF Holds
  <2> QED
    BY <1>3, <1>9, <2>1, <2>3, <2>4, <2>5, PutStep DEF Build!CollectEvidence
<1>10. CASE Build!CopyFiles(r) \/ Build!CopyLoses(r)
  <2>1. Build!Here(r, Build!Do("cp")) /\ Place(r) = 16 /\ 16 \in Plain
    BY <1>1, <1>10, HereAt, ScriptSteps DEF Build!CopyFiles, Build!CopyLoses, Plain
  <2>2. Holds(w, 16, image) /\ w.root \in RootImage
    BY <1>2, <2>1 DEF Holds, Build!Here
  <2>3. PICK root \in {w.root, [w.root EXCEPT !.whole = FALSE]} :
           work' = [work EXCEPT ![r] = [w EXCEPT !.new = root]]
    BY <1>10 DEF Build!CopyFiles, Build!CopyLoses, w
  <2> DEFINE new == [w EXCEPT !.new = root]
  <2>4. root \in RootImage
    BY <2>2, <2>3, Patched
  <2>5. /\ new \in WorkDir /\ new.before = w.before /\ new.root = w.root /\ new.fit = w.fit
        /\ new.evidence = w.evidence
    BY <1>1, <2>4 DEF WorkDir, Build!OrNone
  <2> HIDE DEF new
  <2>6. Holds(new, 16 + 1, image)
    BY <2>2, <2>5 DEF Holds
  <2>7. /\ Build!Step(r) /\ UNCHANGED <<image, output, status, open, loops, mounts, stuck>>
        /\ Fortune
    BY <1>3, <1>10 DEF Build!CopyFiles, Build!CopyLoses
  <2> QED
    BY <2>1, <2>3, <2>5, <2>6, <2>7, PutStep DEF new
<1>11. CASE Build!Swap(r)
  <2> DEFINE new == [w EXCEPT !.root = w.new]
  <2>1. Build!Here(r, Build!Do("swap")) /\ Place(r) = 21 /\ 21 \in Plain
    BY <1>1, <1>11, HereAt, ScriptSteps DEF Build!Swap, Plain
  <2>2. Holds(w, 21, image) /\ w.new = w.root
    BY <1>2, <2>1 DEF Holds, Build!Here
  <2>3. new = w
    BY <1>1, <2>2 DEF WorkDir
  <2>4. work' = [work EXCEPT ![r] = new]
    BY <1>11 DEF Build!Swap, w
  <2> HIDE DEF new
  <2>5. Holds(w, 21 + 1, image)
    BY <2>2 DEF Holds
  <2> QED
    BY <1>1, <1>3, <1>11, <2>1, <2>3, <2>4, <2>5, PutStep DEF Build!Swap
<1>12. CASE Build!WriteControl(r)
  <2> DEFINE control == [source |-> w.before, evidence |-> w.evidence,
                         fit |-> w.fit, root |-> w.root]
             new == [w EXCEPT !.control = control]
  <2>1. Build!Here(r, Build!Do("control")) /\ Place(r) = 22 /\ 22 \in Plain
    BY <1>1, <1>12, HereAt, ScriptSteps DEF Build!WriteControl, Plain
  <2>2. Holds(w, 22, image) /\ w.root \in RootImage
    BY <1>2, <2>1 DEF Holds, Build!Here
  <2>3. control \in Control
    BY <1>1, <2>2 DEF Control, WorkDir
  <2>4. work' = [work EXCEPT ![r] = new]
    BY <1>12 DEF Build!WriteControl, w
  <2>5. new \in WorkDir /\ new.before = w.before /\ new.root = w.root /\ new.fit = w.fit
        /\ new.evidence = w.evidence /\ new.control = control
    BY <1>1, <2>3 DEF WorkDir, Build!OrNone
  <2> HIDE DEF new
  <2>6. Holds(new, 22 + 1, image)
    BY <2>2, <2>5 DEF Holds
  <2> QED
    BY <1>3, <1>12, <2>1, <2>4, <2>5, <2>6, PutStep DEF Build!WriteControl
<1> QED
  BY <1>5, <1>6, <1>7, <1>8, <1>9, <1>10, <1>11, <1>12

(* What is published was audited, and its versions are one.                *)
LEMMA PublishStep ==
    ASSUME BuildInv, NEW r \in Builds, Build!Publish(r) PROVE BuildInv'
<1> DEFINE w == work[r]
<1>1. BuildTyped /\ w \in WorkDir /\ work = [work EXCEPT ![r] = w]
  BY DEF BuildInv, BuildTyped
<1>2. Build!Here(r, Build!Do("link")) /\ Place(r) = 28 /\ 28 \in Plain /\ status[r] = "running"
  BY <1>1, HereAt, ScriptSteps DEF Build!Publish, Plain, Build!Here
<1>3. Holds(w, 28, image)
  BY <1>2 DEF BuildInv, RunsOK, RunOK
<1>4. Fortune
  BY <1>1, Fortunes DEF Build!Publish
<1> HIDE DEF w
<1>5. Holds(w, 28 + 1, image)
  BY <1>3 DEF Holds
<1>6. CASE output # None
  BY <1>1, <1>2, <1>4, <1>5, <1>6, StopStep DEF Build!Publish, Build!Require, Build!Raise,
     Build!machine
<1>7. CASE output = None
  <2>1. output' = w.control
    BY <1>7 DEF Build!Publish, w
  <2>2. /\ w.root \in RootImage /\ w.root.from = w.before /\ w.root.boot = w.before
        /\ w.root.patched = TRUE /\ w.root.whole = TRUE
        /\ w.fit = [boot |-> w.root.boot, patched |-> TRUE] /\ w.evidence = w.root
        /\ w.control = [source |-> w.before, evidence |-> w.evidence,
                        fit |-> w.fit, root |-> w.root]
    BY <1>3 DEF Holds
  <2>3. w.root = [from |-> w.before, boot |-> w.before, patched |-> TRUE, whole |-> TRUE]
    BY <2>2 DEF RootImage, Build!RootImages
  <2>4. /\ output'.root = w.root /\ output'.source = w.before
        /\ output'.fit = w.fit /\ output'.evidence = w.evidence
    BY <2>1, <2>2
  <2>5. output'.fit.boot = w.before
    BY <2>2, <2>4
  <2>6. OutputIsOfOneImage'
    BY <2>2, <2>3, <2>4, <2>5 DEF OutputIsOfOneImage, Build!OutputIsOfOneImage
  <2> QED
    BY <1>1, <1>2, <1>4, <1>5, <1>7, <2>6, DoOrRefuse DEF Build!Publish, Build!Require,
       Build!machine
<1> QED
  BY <1>6, <1>7

LEMMA EndSteps ==
    ASSUME BuildInv, NEW r \in Builds, Build!Report(r) \/ Build!Fail(r) \/ Build!Kill(r)
    PROVE  BuildInv'
<1>1. BuildTyped
  BY DEF BuildInv
<1>2. Fortune
  BY <1>1, Fortunes DEF Build!Report, Build!Fail, Build!Kill
<1>3. status[r] # "killed"
  BY DEF Build!Report, Build!Fail, Build!Kill, Build!Here
<1> QED
  BY <1>2, <1>3, StopStep DEF Build!Report, Build!Fail, Build!Kill, Build!machine

-----------------------------------------------------------------------------
(* The steps that change no directory *)

LEMMA StartStep == ASSUME BuildInv, NEW r \in Builds, Build!Start(r) PROVE BuildInv'
<1>1. /\ BuildTyped /\ RunOK(r) /\ status[r] = "new"
      /\ status' = [status EXCEPT ![r] = "running"]
      /\ UNCHANGED <<image, output, rest, open, work, loops, mounts, stuck, upset, faults>>
  BY DEF BuildInv, RunsOK, Build!Start, Build!machine, Build!luck
<1>2. status' \in [Builds -> {"new", "running", "failing", "killed", "pass"}]
  BY <1>1 DEF BuildTyped
<1>3. BuildTyped' /\ status'[r] = "running"
  BY <1>1, <1>2 DEF BuildTyped
<1>4. Place(r)' = 1 /\ Place(r) = 1
  BY <1>1 DEF RunOK, Place
<1>5. RunOK(r)'
  <2>1. Holds(work[r], 1, image)'
    BY DEF Holds
  <2> QED
    BY <1>1, <1>3, <1>4, <2>1 DEF RunOK, Entered, Attached, Alive
<1>6. ASSUME NEW s \in Builds, s # r PROVE RunOK(s)'
  <2>1. status'[s] = status[s] /\ image' \in Nat /\ image <= image'
    BY <1>1, <1>6 DEF BuildTyped
  <2> QED
    BY <1>1, <2>1, OtherRun DEF BuildInv, RunsOK
<1> QED
  BY <1>1, <1>3, <1>5, <1>6, Unwritten DEF BuildInv, RunsOK

LEMMA ChangeStep == ASSUME BuildInv, Build!ImageChanges PROVE BuildInv'
<1>1. /\ BuildTyped /\ image' = image + 1
      /\ UNCHANGED <<output, status, rest, open, work, loops, mounts, stuck>>
  BY DEF BuildInv, Build!ImageChanges, Build!machine
<1>2. Build!Disturb({r \in Builds : status[r] \in {"running", "failing"}})
  BY DEF Build!ImageChanges
<1>3. Fortune /\ faults' = faults + 1
  BY <1>1, <1>2, Fortunes DEF Build!Disturb
<1>4. image' \in Nat /\ image <= image' /\ image' <= faults'
  BY <1>1, <1>3, BuildAssumption DEF BuildTyped
<1>5. BuildTyped'
  BY <1>1, <1>3, <1>4 DEF BuildTyped, Fortune
<1>6. RunsOK'
  BY <1>1, <1>4, OtherRun DEF BuildInv, RunsOK
<1> QED
  BY <1>1, <1>5, <1>6, Unwritten DEF BuildInv

-----------------------------------------------------------------------------
(* The blocks *)

(* A step of a run that changes its devices or its blocks.                 *)
LEMMA BlockStep ==
    ASSUME BuildInv, NEW r \in Builds,
           BuildTyped', RunOK(r)', image' = image, output' = output, work' = work,
           \A s \in Builds \ {r} :
              /\ status'[s] = status[s] /\ rest'[s] = rest[s] /\ open'[s] = open[s]
              /\ s \in stuck' <=> s \in stuck
              /\ \A m \in Build!Mounts : <<s, m>> \in loops' <=> <<s, m>> \in loops
    PROVE  BuildInv'
<1>1. ASSUME NEW s \in Builds, s # r PROVE RunOK(s)'
  <2>1. image' \in Nat /\ image <= image' /\ BuildTyped /\ RunOK(s)
    BY DEF BuildInv, BuildTyped, RunsOK
  <2> QED
    BY <1>1, <2>1, OtherRun
<1> QED
  BY <1>1, Unwritten DEF BuildInv, RunsOK

LEMMA AttachStep == ASSUME BuildInv, NEW r \in Builds, Build!Attach(r) PROVE BuildInv'
<1>1. PICK m \in Build!Mounts :
         /\ Build!Here(r, Build!Enter(m)) /\ ~Build!Within(r, m)
         /\ loops' = loops \cup {<<r, m>>}
         /\ open' = [open EXCEPT ![r] = Append(@, m)]
         /\ UNCHANGED <<image, output, status, rest, work, mounts, stuck, upset, faults>>
  BY DEF Build!Attach, Build!luck
<1>2. BuildTyped /\ RunOK(r)
  BY DEF BuildInv, RunsOK
<1>3. /\ status[r] = "running" /\ Build!Script[Place(r)] = Build!Enter(m)
      /\ Place(r) \in 1..29 /\ Place(r)' = Place(r)
  BY <1>1, <1>2, HereAt DEF Place
<1>4. open[r] = Blocks(Place(r))
  <2>1. \A n \in Build!Mounts :
           Build!Script[Place(r)] = Build!Enter(n) => n = m
    BY <1>3, OneDoor
  <2>2. open[r] # Append(Blocks(Place(r)), m)
    <3> SUFFICES ASSUME open[r] = Append(Blocks(Place(r)), m) PROVE FALSE
      OBVIOUS
    <3>1. Blocks(Place(r)) \in Seq(Build!Mounts)
      BY BlocksAreSeq
    <3>2. open[r] # <<>> /\ Build!Last(open[r]) = m
      BY <3>1 DEF Build!Last
    <3> QED
      BY <1>1, <3>2 DEF Build!Within, Build!Inner
  <2> QED
    BY <1>2, <1>3, <2>1, <2>2 DEF RunOK, Entered, Alive
<1>5. open[r] \in Seq(Build!Mounts) /\ open'[r] = Append(open[r], m)
  BY <1>1, <1>2 DEF BuildTyped
<1>6. BuildTyped'
  <2>1. /\ loops' \subseteq Builds \X Build!Mounts /\ mounts' \subseteq loops'
        /\ open' \in [Builds -> Seq(Build!Mounts)]
    BY <1>1, <1>2, <1>5 DEF BuildTyped
  <2> QED
    BY <1>1, <1>2, <2>1 DEF BuildTyped
<1>7. Attached(r)'
  <2>1. /\ Len(open'[r]) = Len(open[r]) + 1 /\ Len(open[r]) \in Nat
        /\ open'[r][Len(open[r]) + 1] = m
        /\ \A i \in 1..Len(open[r]) : open'[r][i] = open[r][i]
    BY <1>5
  <2>2. /\ r \notin stuck
        /\ \A n \in Build!Mounts : <<r, n>> \in loops =>
              \E i \in 1..Len(open[r]) : open[r][i] = n
        /\ \A i \in 1..Len(open[r]) : <<r, open[r][i]>> \in loops
    BY <1>2, <1>3 DEF RunOK, Attached, Alive
  <2>3. \A n \in Build!Mounts : <<r, n>> \in loops' =>
              \E i \in 1..Len(open'[r]) : open'[r][i] = n
    <3> SUFFICES ASSUME NEW n \in Build!Mounts, <<r, n>> \in loops'
                 PROVE  \E i \in 1..Len(open'[r]) : open'[r][i] = n
      OBVIOUS
    <3>1. CASE n = m
      BY <2>1, <3>1
    <3>2. CASE n # m
      <4>1. PICK i \in 1..Len(open[r]) : open[r][i] = n
        BY <1>1, <2>2, <3>2
      <4> QED
        BY <2>1, <4>1
    <3> QED
      BY <3>1, <3>2
  <2>4. \A i \in 1..Len(open'[r]) : <<r, open'[r][i]>> \in loops'
    <3> SUFFICES ASSUME NEW i \in 1..Len(open'[r]) PROVE <<r, open'[r][i]>> \in loops'
      OBVIOUS
    <3>1. i = Len(open[r]) + 1 \/ i \in 1..Len(open[r])
      BY <2>1
    <3> QED
      BY <1>1, <2>1, <2>2, <3>1
  <2> QED
    BY <1>1, <2>2, <2>3, <2>4 DEF Attached
<1>8. RunOK(r)'
  <2>1. Entered(r)'
    BY <1>1, <1>3, <1>4, <1>5 DEF Entered
  <2> QED
    BY <1>1, <1>2, <1>3, <1>7, <2>1 DEF RunOK
<1> QED
  BY <1>1, <1>2, <1>6, <1>8, BlockStep DEF BuildTyped

LEMMA MountStep == ASSUME BuildInv, NEW r \in Builds, Build!Mount(r) PROVE BuildInv'
<1> DEFINE p == Place(r)
           m == Build!Inner(r)
<1>1. BuildTyped /\ RunOK(r)
  BY DEF BuildInv, RunsOK
<1>2. /\ open[r] # <<>> /\ Build!Here(r, Build!Enter(m))
      /\ mounts' = mounts \cup {<<r, m>>} /\ rest' = [rest EXCEPT ![r] = Tail(rest[r])]
      /\ UNCHANGED <<image, output, status, open, work, loops, stuck, upset, faults>>
  BY DEF Build!Mount, Build!Top, Build!Step, Build!luck
<1>3. /\ open[r] \in Seq(Build!Mounts) /\ Len(open[r]) \in Nat /\ Len(open[r]) # 0
      /\ m = open[r][Len(open[r])]
  BY <1>1, <1>2 DEF BuildTyped, Build!Inner, Build!Last
<1>4. m \in Build!Mounts
  BY <1>3
<1>5. <<r, m>> \in loops /\ status[r] = "running"
  BY <1>1, <1>2, <1>3 DEF RunOK, Attached, Alive, Build!Here
<1>6. /\ Build!Script[p] = Build!Enter(m) /\ p \in 1..29 /\ Holds(work[r], p, image)
      /\ rest[r] = From(p) /\ Tail(rest[r]) = From(p + 1)
  BY <1>1, <1>2, <1>5, HereAt, PlaceOf DEF RunOK
<1> HIDE DEF p
<1>7. p \in {5, 6, 14, 15, 25} /\ Opens(p, m)
  BY <1>4, <1>6, Doors
<1>8. open[r] = Blocks(p + 1)
  <2>1. open[r] = Blocks(p) \/ open[r] = Append(Blocks(p), m)
    <3>1. \A n \in Build!Mounts : Build!Script[p] = Build!Enter(n) => n = m
      BY <1>4, <1>6, OneDoor
    <3> QED
      BY <1>1, <1>5, <3>1 DEF RunOK, Entered, Alive, p
  <2>2. Build!Last(open[r]) = m
    BY DEF Build!Inner
  <2> HIDE DEF m
  <2> QED
    BY <1>2, <1>7, <2>1, <2>2 DEF Opens
<1> HIDE DEF m
<1>9. p + 1 \in 1..29 /\ rest' = [rest EXCEPT ![r] = From(p + 1)]
  <2>1. p + 1 \in 1..29
    BY <1>7
  <2>2. rest' = [rest EXCEPT ![r] = From(p + 1)]
    BY <1>2, <1>6
  <2> QED
    BY <2>1, <2>2
<1>10. BuildTyped'
  <2>1. mounts' \subseteq loops
    BY <1>1, <1>2, <1>5 DEF BuildTyped
  <2>2. rest' \in [Builds -> {From(n) : n \in 1..29}]
    BY <1>1, <1>9 DEF BuildTyped
  <2> QED
    BY <1>1, <1>2, <2>1, <2>2 DEF BuildTyped
<1>11. Place(r)' = p + 1
  <2>1. rest'[r] = From(p + 1) /\ Len(From(p + 1)) = 30 - (p + 1)
    BY <1>1, <1>9, FromHere DEF BuildTyped
  <2>2. 30 - (30 - (p + 1)) = p + 1
    BY <1>7
  <2> QED
    BY <2>1, <2>2 DEF Place
<1>12. RunOK(r)'
  <2>1. Holds(work[r], p + 1, image)
    BY <1>6, <1>7 DEF Holds
  <2>2. Entered(r)'
    BY <1>2, <1>8, <1>11 DEF Entered
  <2>3. Attached(r)'
    BY <1>1, <1>2 DEF RunOK, Attached
  <2> QED
    BY <1>2, <1>5, <1>11, <2>1, <2>2, <2>3 DEF RunOK
<1>13. \A s \in Builds \ {r} : rest'[s] = rest[s]
  BY <1>1, <1>2 DEF BuildTyped
<1> QED
  BY <1>2, <1>10, <1>12, <1>13, BlockStep

LEMMA UnmountStep == ASSUME BuildInv, NEW r \in Builds, Build!Unmount(r) PROVE BuildInv'
<1>1. /\ mounts' \subseteq mounts
      /\ UNCHANGED <<image, output, status, rest, open, work, loops, stuck, upset, faults>>
  BY DEF Build!Unmount, Build!luck
<1>2. BuildTyped /\ RunOK(r)
  BY DEF BuildInv, RunsOK
<1>3. BuildTyped'
  BY <1>1, <1>2 DEF BuildTyped
<1>4. Place(r)' = Place(r)
  BY <1>1 DEF Place
<1>5. RunOK(r)'
  BY <1>1, <1>2, <1>4 DEF RunOK, Entered, Attached
<1> QED
  BY <1>1, <1>3, <1>5, BlockStep

LEMMA AllButLast ==
    ASSUME NEW S, NEW s \in Seq(S), Len(s) \in Nat \ {0}
    PROVE  /\ SubSeq(s, 1, Len(s) - 1) \in Seq(S)
           /\ Len(SubSeq(s, 1, Len(s) - 1)) = Len(s) - 1
           /\ \A i \in 1..(Len(s) - 1) : SubSeq(s, 1, Len(s) - 1)[i] = s[i]
<1> DEFINE n == Len(s) - 1
           m == 1
           t == SubSeq(s, m, n)
<1>1. n \in Nat /\ n \in Int /\ m \in Int /\ \A i \in m..n : s[i] \in S
  OBVIOUS
<1> HIDE DEF m, n
<1>2. t \in Seq(S)
  BY <1>1, SubSeqProperties, Zenon
<1>3. Len(t) = IF m <= n THEN n - m + 1 ELSE 0
  BY <1>1, SubSeqProperties, Zenon
<1>4. \A i \in 1 .. n - m + 1 : t[i] = s[m + i - 1]
  BY <1>1, SubSeqProperties
<1>5. Len(t) = n
  BY <1>1, <1>3 DEF m
<1>6. \A i \in 1..n : t[i] = s[i]
  <2> SUFFICES ASSUME NEW i \in 1..n PROVE t[i] = s[i]
    OBVIOUS
  <2> HIDE DEF t
  <2>1. i \in 1 .. n - m + 1 /\ m + i - 1 = i
    BY <1>1 DEF m
  <2>2. t[i] = s[m + i - 1]
    BY <1>4, <2>1
  <2> QED
    BY <2>1, <2>2
<1> QED
  BY <1>2, <1>5, <1>6 DEF m, n

(* A block is left: what remains of the blocks.                            *)
LEMMA Outside ==
    ASSUME BuildTyped, NEW r \in Builds, open[r] # <<>>
    PROVE  /\ Build!Front(open[r]) \in Seq(Build!Mounts)
           /\ Len(Build!Front(open[r])) = Len(open[r]) - 1
           /\ Build!Inner(r) \in Build!Mounts /\ Build!Inner(r) = open[r][Len(open[r])]
           /\ \A i \in 1..(Len(open[r]) - 1) : Build!Front(open[r])[i] = open[r][i]
           /\ Len(open[r]) \in Nat \ {0}
<1> DEFINE s == open[r]
<1>1. s \in Seq(Build!Mounts) /\ s # <<>>
  BY DEF BuildTyped
<1> HIDE DEF s
<1>2. Len(s) \in Nat \ {0} /\ s[Len(s)] \in Build!Mounts
  BY <1>1
<1>3. /\ SubSeq(s, 1, Len(s) - 1) \in Seq(Build!Mounts)
      /\ Len(SubSeq(s, 1, Len(s) - 1)) = Len(s) - 1
      /\ \A i \in 1..(Len(s) - 1) : SubSeq(s, 1, Len(s) - 1)[i] = s[i]
  BY <1>1, <1>2, AllButLast
<1> QED
  BY <1>2, <1>3 DEF s, Build!Front, Build!Last, Build!Inner

LEMMA DetachStep == ASSUME BuildInv, NEW r \in Builds, Build!Detach(r) PROVE BuildInv'
<1> DEFINE p == Place(r)
           m == Build!Inner(r)
           front == Build!Front(open[r])
<1>1. BuildTyped /\ RunOK(r) /\ p \in 1..29
  BY PlaceOf DEF BuildInv, RunsOK
<1>2. /\ open[r] # <<>> /\ (status[r] = "failing" \/ Build!Here(r, Build!Leave(m)))
      /\ <<r, m>> \notin mounts /\ loops' = loops \ {<<r, m>>}
      /\ open' = [open EXCEPT ![r] = front]
      /\ IF status[r] = "running" THEN Build!Step(r) ELSE UNCHANGED rest
      /\ UNCHANGED <<image, output, status, work, mounts, stuck, upset, faults>>
  BY DEF Build!Detach, Build!Leaving, Build!Top, Build!luck
<1>3. /\ front \in Seq(Build!Mounts) /\ Len(front) = Len(open[r]) - 1 /\ Len(open[r]) \in Nat \ {0}
      /\ m \in Build!Mounts /\ m = open[r][Len(open[r])]
      /\ \A i \in 1..(Len(open[r]) - 1) : front[i] = open[r][i]
  BY <1>1, <1>2, Outside
<1>4. status[r] = "running" =>
         /\ Build!Script[p] = Build!Leave(m) /\ p \in {11, 12, 18, 19, 27} /\ Closes(p, m)
         /\ rest' = [rest EXCEPT ![r] = From(p + 1)]
  <2> SUFFICES ASSUME status[r] = "running"
               PROVE  /\ Build!Script[p] = Build!Leave(m) /\ p \in {11, 12, 18, 19, 27}
                      /\ Closes(p, m) /\ rest' = [rest EXCEPT ![r] = From(p + 1)]
    OBVIOUS
  <2>1. Build!Here(r, Build!Leave(m)) /\ rest' = [rest EXCEPT ![r] = Tail(@)]
    BY <1>2 DEF Build!Step
  <2>2. Build!Script[p] = Build!Leave(m) /\ p \in 1..29
    BY <1>1, <2>1, HereAt
  <2>3. Tail(rest[r]) = From(p + 1)
    BY <1>1, PlaceOf
  <2>4. p \in {11, 12, 18, 19, 27} /\ Closes(p, m)
    BY <1>3, <2>2, Doors
  <2> QED
    BY <2>1, <2>2, <2>3, <2>4
<1>5. status[r] = "running" => open[r] = Blocks(p)
  <2>1. \A n \in Build!Mounts : Build!Enter(n) # Build!Leave(m)
    BY DEF Build!Enter, Build!Leave
  <2> QED
    BY <1>1, <1>4, <2>1 DEF RunOK, Entered, Alive
<1>6. front = open'[r]
  BY <1>1, <1>2 DEF BuildTyped
<1> HIDE DEF p, m, front
<1>7. status[r] \in {"failing", "running"}
  BY <1>2 DEF Build!Here
<1>8. BuildTyped'
  <2>1. loops' \subseteq Builds \X Build!Mounts /\ mounts' \subseteq loops'
    BY <1>1, <1>2 DEF BuildTyped
  <2>2. open' \in [Builds -> Seq(Build!Mounts)]
    BY <1>1, <1>2, <1>3 DEF BuildTyped
  <2>3. rest' \in [Builds -> {From(n) : n \in 1..29}]
    <3>1. CASE status[r] = "running"
      <4>1. p + 1 \in 1..29
        BY <1>4, <3>1
      <4>2. From(p + 1) \in {From(n) : n \in 1..29}
        BY <4>1
      <4>3. rest \in [Builds -> {From(n) : n \in 1..29}]
        BY <1>1 DEF BuildTyped
      <4> QED
        BY <1>4, <3>1, <4>2, <4>3
    <3>2. CASE status[r] # "running"
      BY <1>1, <1>2, <3>2 DEF BuildTyped
    <3> QED
      BY <3>1, <3>2
  <2> QED
    BY <1>1, <1>2, <2>1, <2>2, <2>3 DEF BuildTyped
<1>9. r \notin stuck => \A n \in Build!Mounts : <<r, n>> \in loops' =>
                             \E i \in 1..Len(open'[r]) : open'[r][i] = n
  <2> SUFFICES ASSUME r \notin stuck, NEW n \in Build!Mounts, <<r, n>> \in loops'
               PROVE  \E i \in 1..Len(front) : front[i] = n
    BY <1>6
  <2>1. <<r, n>> \in loops /\ n # m
    BY <1>2
  <2>2. PICK i \in 1..Len(open[r]) : open[r][i] = n
    BY <1>1, <1>7, <2>1 DEF RunOK, Attached
  <2>3. i # Len(open[r])
    BY <1>3, <2>1, <2>2
  <2>4. i \in 1..(Len(open[r]) - 1)
    BY <1>3, <2>3
  <2> QED
    BY <1>3, <2>2, <2>4
<1>10. CASE status[r] = "running"
  <2>1. Place(r)' = p + 1
    <3>1. p + 1 \in 1..29 /\ 30 - (30 - (p + 1)) = p + 1
      BY <1>4, <1>10
    <3>2. rest'[r] = From(p + 1) /\ Len(From(p + 1)) = 30 - (p + 1)
      BY <1>1, <1>4, <1>10, <3>1, FromHere DEF BuildTyped
    <3> QED
      BY <3>1, <3>2 DEF Place
  <2>2. open'[r] = Blocks(p + 1)
    BY <1>4, <1>5, <1>6, <1>10 DEF Closes, front
  <2>3. Holds(work[r], p + 1, image)
    <3>1. Holds(work[r], p, image)
      BY <1>1, <1>10 DEF RunOK, p
    <3> QED
      BY <1>4, <1>10, <3>1 DEF Holds
  <2>4. r \notin stuck /\ \A i \in 1..Len(open'[r]) : <<r, open'[r][i]>> \in loops'
    <3>1. r \notin stuck /\ \A i \in 1..Len(Blocks(p)) : <<r, Blocks(p)[i]>> \in loops
      BY <1>1, <1>5, <1>10 DEF RunOK, Attached, Alive
    <3>2. \A i \in 1..Len(Blocks(p + 1)) :
             i \in 1..Len(Blocks(p)) /\ Blocks(p)[i] = Blocks(p + 1)[i] /\ Blocks(p)[i] # m
      BY <1>4, <1>10 DEF Closes
    <3> QED
      BY <1>2, <2>2, <3>1, <3>2
  <2>5. Attached(r)' /\ Entered(r)'
    BY <1>2, <1>9, <2>1, <2>2, <2>4 DEF Attached, Entered
  <2>6. RunOK(r)'
    BY <1>2, <1>10, <2>1, <2>3, <2>5 DEF RunOK
  <2>7. \A s \in Builds \ {r} : rest'[s] = rest[s] /\ open'[s] = open[s]
    BY <1>1, <1>2, <1>4, <1>10 DEF BuildTyped
  <2> QED
    BY <1>2, <1>8, <2>6, <2>7, BlockStep
<1>11. CASE status[r] = "failing"
  <2>1. RunOK(r)'
    BY <1>2, <1>9, <1>11 DEF RunOK, Entered, Attached, Alive
  <2>2. \A s \in Builds \ {r} : rest'[s] = rest[s] /\ open'[s] = open[s]
    BY <1>1, <1>2, <1>11 DEF BuildTyped
  <2> QED
    BY <1>2, <1>8, <2>1, <2>2, BlockStep
<1> QED
  BY <1>7, <1>10, <1>11

LEMMA CannotLeaveStep == ASSUME BuildInv, NEW r \in Builds, Build!CannotLeave(r) PROVE BuildInv'
<1> DEFINE front == Build!Front(open[r])
<1>1. BuildTyped /\ RunOK(r)
  BY DEF BuildInv, RunsOK
<1>2. /\ open[r] # <<>> /\ open' = [open EXCEPT ![r] = front]
      /\ status' = [status EXCEPT ![r] = "failing"]
      /\ stuck' = stuck \cup {r} /\ Build!Disturb({r})
      /\ UNCHANGED <<image, output, rest, work, loops, mounts>>
  BY DEF Build!CannotLeave, Build!Leaving
<1>3. front \in Seq(Build!Mounts)
  BY <1>1, <1>2, Outside
<1> HIDE DEF front
<1>4. Fortune /\ r \in upset'
  BY <1>1, <1>2, Fortunes DEF Build!Disturb
<1>5. BuildTyped'
  <2>1. /\ image' \in Nat /\ image' <= faults' /\ faults' \in 0..MaxFaults
        /\ stuck' \subseteq upset' /\ upset' \subseteq Builds
    BY <1>1, <1>2, <1>4, BuildAssumption DEF BuildTyped, Fortune
  <2>2. /\ open' \in [Builds -> Seq(Build!Mounts)]
        /\ status' \in [Builds -> {"new", "running", "failing", "killed", "pass"}]
    BY <1>1, <1>2, <1>3 DEF BuildTyped
  <2> QED
    BY <1>1, <1>2, <2>1, <2>2 DEF BuildTyped
<1>6. status'[r] = "failing" /\ r \in stuck'
  BY <1>1, <1>2 DEF BuildTyped
<1>7. RunOK(r)'
  BY <1>6 DEF RunOK, Entered, Attached, Alive
<1>8. \A s \in Builds \ {r} : /\ status'[s] = status[s] /\ open'[s] = open[s]
                              /\ s \in stuck' <=> s \in stuck
  BY <1>1, <1>2 DEF BuildTyped
<1> QED
  BY <1>2, <1>5, <1>7, <1>8, BlockStep

-----------------------------------------------------------------------------
(* The invariant, and what follows from it *)

LEMMA AtStart == ASSUME NEW q, Len(q) = 29 PROVE 30 - Len(q) = 1
OBVIOUS

LEMMA BuildStarts == Build!Init => BuildInv
<1> SUFFICES ASSUME Build!Init PROVE BuildInv
  OBVIOUS
<1> USE BuildAssumption DEF Build!Init
<1>1. rest = [r \in Builds |-> From(1)] /\ 1 \in 1..29
  <2>1. From(1) = Build!Script
    <3> DEFINE Z == Build!Script
               S == {Z[i] : i \in 1..29}
               N == 29
    <3>1. Z = [i \in 1..29 |-> Z[i]]
      BY DEF Build!Script
    <3> HIDE DEF Z
    <3>2. Z \in [1..N -> S] /\ N \in Nat
      BY <3>1
    <3> SUFFICES SubSeq(Z, 1, N) = Z
      BY DEF From, Z
    <3> HIDE DEF S, N
    <3>3. Z \in Seq(S) /\ Len(Z) = N
      BY <3>2
    <3> QED
      BY <3>3, SubSeqFull
  <2> QED
    BY <2>1
<1>2. Build!Scratch \in WorkDir
  BY DEF Build!Scratch, WorkDir, Build!OrNone
<1>3. BuildTyped
  BY <1>1, <1>2 DEF BuildTyped
<1>4. ASSUME NEW r \in Builds PROVE RunOK(r)
  <2>1. Place(r) = 1
    <3>1. Len(rest[r]) = 29
      <4>1. rest[r] = From(1)
        BY <1>1
      <4>2. Len(From(1)) = 30 - 1
        BY <1>1, FromHere, Zenon
      <4> QED
        BY <4>1, <4>2
    <3>2. 30 - Len(rest[r]) = 1
      BY <3>1, AtStart, Zenon
    <3> QED
      BY <3>2, Zenon DEF Place
  <2>2. Blocks(1) = <<>>
    BY DEF Blocks
  <2>3. Entered(r)
    BY <2>1, <2>2 DEF Entered
  <2>4. Attached(r)
    BY DEF Attached
  <2> QED
    BY <2>1, <2>3, <2>4 DEF RunOK
<1>5. OutputIsOfOneImage
  BY DEF OutputIsOfOneImage, Build!OutputIsOfOneImage
<1> QED
  BY <1>3, <1>4, <1>5 DEF BuildInv, RunsOK

LEMMA BuildSteps == ASSUME BuildInv, Build!Next PROVE BuildInv'
<1>1. ASSUME NEW r \in Builds, Build!Work(r) PROVE BuildInv'
  BY <1>1, LookSteps, PutSteps, PublishStep, EndSteps, AttachStep, MountStep, UnmountStep,
     DetachStep DEF Build!Work
<1> QED
  BY <1>1, StartStep, PutSteps, CannotLeaveStep, EndSteps, ChangeStep DEF Build!Next

LEMMA BuildStays == ASSUME BuildInv, UNCHANGED buildVars PROVE BuildInv'
BY DEF buildVars, BuildInv, BuildTyped, RunsOK, RunOK, Entered, Attached, Place,
       OutputIsOfOneImage, Build!OutputIsOfOneImage

(* The rest of a run's steps is an end of the script.                      *)
LEMMA FromIsSuffix ==
    ASSUME NEW n \in 1..29 PROVE From(n) # <<>> /\ Build!IsSuffix(From(n), Build!Script)
<1> DEFINE Z == Build!Script
           S == {Z[i] : i \in 1..29}
           N == 29
<1>1. Len(Z) = N /\ Z = [i \in 1..N |-> Z[i]]
  BY DEF Build!Script
<1> HIDE DEF Z
<1>2. Z \in [1..N -> S] /\ N \in Nat /\ n \in 1..N
  BY <1>1
<1> HIDE DEF S, N
<1> DEFINE s == SubSeq(Z, n, N)
           a == Build!Reverse(s)
           b == Build!Reverse(Z)
           len == N + 1 - n
<1>3. Len(s) = len /\ s # <<>>
  BY <1>2, SuffixIs
<1>4. \A i \in 1..len : s[i] = Z[n + i - 1]
  BY <1>1, <1>2
<1> HIDE DEF s
<1>5. len \in Nat /\ len <= N
  BY <1>2
<1>6. a = [i \in 1..len |-> Z[N - i + 1]]
  <2>1. \A i \in 1..len : len - i + 1 \in 1..len /\ n + (len - i + 1) - 1 = N - i + 1
    BY <1>2
  <2>2. \A i \in 1..len : s[len - i + 1] = Z[N - i + 1]
    BY <1>4, <2>1
  <2> HIDE DEF len
  <2> QED
    BY <1>3, <2>2 DEF Build!Reverse
<1>7. b = [i \in 1..N |-> Z[N - i + 1]]
  BY <1>1 DEF Build!Reverse
<1> HIDE DEF a, b, len
<1>8. \A i \in 1..N : Z[N - i + 1] \in S
  BY <1>2
<1>9. a \in Seq(S) /\ Len(a) = len /\ b \in Seq(S) /\ Len(b) = N
  BY <1>2, <1>5, <1>6, <1>7, <1>8
<1>10. \A i \in 1..len : a[i] = b[i]
  BY <1>2, <1>5, <1>6, <1>7
<1>11. SubSeq(a, 1, len) = SubSeq(b, 1, len)
  <2> DEFINE x == SubSeq(a, 1, len)
             y == SubSeq(b, 1, len)
  <2>1. /\ x \in Seq(S) /\ Len(x) = len /\ \A i \in 1..len : x[i] = a[i]
    BY <1>5, <1>9
  <2>2. /\ y \in Seq(S) /\ Len(y) = len /\ \A i \in 1..len : y[i] = b[i]
    BY <1>5, <1>9
  <2> HIDE DEF x, y
  <2>3. x = y
    BY <1>10, <2>1, <2>2, SeqEqual
  <2> QED
    BY <2>3 DEF x, y
<1>12. Build!IsSuffix(s, Z)
  BY <1>5, <1>9, <1>11 DEF Build!IsSuffix, Build!IsPrefix, a, b
<1> QED
  BY <1>3, <1>12 DEF s, Z, N, From

LEMMA BuildTypes == BuildInv => Build!TypeOK
<1> SUFFICES ASSUME BuildInv PROVE Build!TypeOK
  OBVIOUS
<1>1. BuildTyped
  BY DEF BuildInv
<1>2. image \in Build!Versions
  BY <1>1, BuildAssumption DEF BuildTyped, Build!Versions
<1>3. ASSUME NEW r \in Builds
      PROVE  rest[r] # <<>> /\ Build!IsSuffix(rest[r], Build!Script)
  <2>1. PICK n \in 1..29 : rest[r] = From(n)
    BY <1>1 DEF BuildTyped
  <2> QED
    BY <2>1, FromIsSuffix
<1>4. ASSUME NEW r \in Builds
      PROVE  /\ open[r] \in Seq(Build!Mounts)
             /\ work[r].before \in Build!OrNone(Build!Versions)
             /\ work[r].root \in Build!OrNone(Build!RootImages)
             /\ work[r].fit \in Build!OrNone(Build!Fits)
             /\ work[r].control # None => work[r].control.root \in Build!RootImages
  <2>1. work[r] \in WorkDir /\ open[r] \in Seq(Build!Mounts)
    BY <1>1 DEF BuildTyped
  <2>2. work[r].control # None => work[r].control \in Control
    BY <2>1 DEF WorkDir, Build!OrNone
  <2> QED
    BY <2>1, <2>2 DEF WorkDir, Version, RootImage, Control
<1> QED
  BY <1>1, <1>2, <1>3, <1>4 DEF BuildTyped, Build!TypeOK

LEMMA BuildRests == BuildInv => Build!NothingLeftMounted /\ Build!PackedAtRest
<1> SUFFICES ASSUME BuildInv, NEW r \in Builds
             PROVE  /\ status[r] \in {"failing", "pass"} /\ open[r] = <<>> /\ r \notin stuck =>
                         \A l \in loops : l[1] # r
                    /\ (\E s \in {"swap", "control", "pack", "link"} :
                           Build!Here(r, Build!Do(s))) => \A l \in loops : l[1] # r
  BY DEF Build!NothingLeftMounted, Build!PackedAtRest
<1>1. BuildTyped /\ RunOK(r)
  BY DEF BuildInv, RunsOK
<1>2. open[r] = <<>> /\ r \notin stuck /\ status[r] # "killed" => \A l \in loops : l[1] # r
  <2> SUFFICES ASSUME open[r] = <<>>, r \notin stuck, status[r] # "killed",
                      NEW l \in loops, l[1] = r PROVE FALSE
    OBVIOUS
  <2>0. PICK a \in Builds, m \in Build!Mounts : l = <<a, m>>
    BY <1>1 DEF BuildTyped
  <2>1. l[2] \in Build!Mounts /\ <<r, l[2]>> \in loops
    BY <2>0
  <2>2. PICK i \in 1..Len(<<>>) : TRUE
    BY <1>1, <2>1 DEF RunOK, Attached
  <2> QED
    BY <2>2
<1>3. ASSUME NEW s \in {"swap", "control", "pack", "link"}, Build!Here(r, Build!Do(s))
      PROVE  open[r] = <<>> /\ r \notin stuck /\ status[r] # "killed"
  <2>1. Place(r) \in {21, 22, 23, 28} /\ status[r] = "running"
    BY <1>1, <1>3, HereAt, ScriptSteps
  <2>2. Blocks(Place(r)) = <<>> /\ Place(r) \in 1..29
    BY <2>1 DEF Blocks
  <2>3. ASSUME NEW m \in Build!Mounts PROVE Build!Script[Place(r)] # Build!Enter(m)
    <3> DEFINE q == Place(r)
    <3>1. q \in 1..29 /\ q \notin {5, 6, 14, 15, 25}
      BY <2>1, <2>2
    <3> HIDE DEF q
    <3>2. Build!Script[q] # Build!Enter(m)
      BY <3>1, Doors
    <3> QED
      BY <3>2 DEF q
  <2>4. status[r] \in Alive /\ status[r] # "killed" /\ Entered(r) /\ Attached(r)
    BY <1>1, <2>1 DEF RunOK, Alive
  <2>5. open[r] = <<>>
    BY <2>2, <2>3, <2>4 DEF Entered
  <2> QED
    BY <2>4, <2>5 DEF Attached
<1> QED
  BY <1>2, <1>3

-----------------------------------------------------------------------------
(* What a run finds that nothing upsets: the image as it was when it was   *)
(* first hashed, the copy that cp made as it made it; and it fails only    *)
(* when the output is there.                                               *)
Lucky(r) ==
    r \notin upset =>
        /\ status[r] = "running" /\ Place(r) >= 3 => work[r].before = image
        /\ status[r] = "running" /\ Place(r) = 17 => work[r].new = work[r].root
        /\ status[r] = "failing" => output # None

LuckInv == \A r \in Builds : Lucky(r)

LEMMA LuckStarts == Build!Init => LuckInv
<1> SUFFICES ASSUME Build!Init, NEW r \in Builds PROVE Lucky(r)
  BY DEF LuckInv
<1> QED
  BY DEF Lucky, Build!Init

LEMMA OutputStays == Build!Next => (output # None => output' = output)
<1> SUFFICES ASSUME Build!Next, output # None PROVE output' = output
  OBVIOUS
<1>1. ASSUME NEW r \in Builds,
             \/ Build!Start(r) \/ Build!CopyLoses(r) \/ Build!CannotLeave(r)
             \/ Build!Fail(r) \/ Build!Kill(r)
      PROVE  output' = output
  BY <1>1 DEF Build!Start, Build!CopyLoses, Build!CannotLeave, Build!Fail, Build!Kill
<1>2. ASSUME NEW r \in Builds,
             \/ Build!OutputAbsent(r) \/ Build!HashInput(r) \/ Build!CopyRoot(r)
             \/ Build!Prepare(r) \/ Build!MakeFit(r) \/ Build!CollectEvidence(r)
             \/ Build!CopyFiles(r) \/ Build!CompareFiles(r) \/ Build!Swap(r)
      PROVE  output' = output
  BY <1>2 DEF Build!OutputAbsent, Build!HashInput, Build!CopyRoot, Build!Prepare,
     Build!MakeFit, Build!CollectEvidence, Build!CopyFiles, Build!CompareFiles, Build!Swap
<1>3. ASSUME NEW r \in Builds,
             \/ Build!WriteControl(r) \/ Build!HashAgain(r) \/ Build!Audit(r)
             \/ Build!Publish(r) \/ Build!Other(r) \/ Build!Report(r)
      PROVE  output' = output
  BY <1>3 DEF Build!WriteControl, Build!HashAgain, Build!Audit, Build!Publish, Build!Other,
     Build!Report
<1>4. ASSUME NEW r \in Builds,
             Build!Attach(r) \/ Build!Mount(r) \/ Build!Unmount(r) \/ Build!Detach(r)
      PROVE  output' = output
  BY <1>4 DEF Build!Attach, Build!Mount, Build!Unmount, Build!Detach
<1>5. Build!ImageChanges => output' = output
  BY DEF Build!ImageChanges
<1> QED
  BY <1>1, <1>2, <1>3, <1>4, <1>5 DEF Build!Next, Build!Work

(* What a step leaves of a run's luck that it does not move. *)
LEMMA LuckKept ==
    ASSUME NEW s \in Builds, Lucky(s), s \in upset' \/ (image' = image /\ s \notin upset),
           status'[s] = status[s], rest'[s] = rest[s], work'[s] = work[s],
           output # None => output' = output
    PROVE  Lucky(s)'
<1>1. Place(s)' = Place(s)
  BY DEF Place
<1> QED
  BY <1>1 DEF Lucky

(* What it leaves of the luck of one that goes on. *)
LEMMA LuckMoves ==
    ASSUME BuildTyped, NEW r \in Builds, Lucky(r), status[r] = "running", Place(r) \notin {16, 29},
           Place(r) = 2 => work'[r].before = image,
           Place(r) # 2 => work'[r].before = work[r].before,
           Build!Step(r), image' = image, upset' = upset, status'[r] = "running"
    PROVE  Lucky(r)'
<1>1. Place(r) \in 1..28 /\ Tail(rest[r]) = From(Place(r) + 1)
  BY PlaceOf
<1>2. rest'[r] = From(Place(r) + 1)
  BY <1>1 DEF Build!Step, BuildTyped
<1>3. Place(r)' = Place(r) + 1
  <2>1. PICK p \in 1..28 : p = Place(r)
    BY <1>1
  <2>2. p + 1 \in 1..29
    OBVIOUS
  <2>3. Len(From(p + 1)) = 30 - (p + 1)
    BY <2>2, FromHere
  <2>4. 30 - (30 - (p + 1)) = p + 1
    OBVIOUS
  <2> QED
    BY <1>2, <2>1, <2>3, <2>4 DEF Place
<1> QED
  BY <1>1, <1>3 DEF Lucky

LEMMA LuckUpset ==
    ASSUME NEW r \in Builds, r \in upset' \/ status'[r] \notin {"running", "failing"}
    PROVE  Lucky(r)'
BY DEF Lucky

(* A step of a run leaves the others alone. *)
Alone(r) ==
    /\ image' = image /\ upset \subseteq upset' /\ upset' \subseteq upset \cup {r}
    /\ \A s \in Builds \ {r} :
         status'[s] = status[s] /\ rest'[s] = rest[s] /\ work'[s] = work[s]

LEMMA AloneWhenPut ==
    ASSUME BuildTyped, NEW r \in Builds,
           \/ Build!HashInput(r) \/ Build!CopyRoot(r) \/ Build!Prepare(r) \/ Build!MakeFit(r)
           \/ Build!CollectEvidence(r) \/ Build!CopyFiles(r) \/ Build!Swap(r)
           \/ Build!WriteControl(r)
    PROVE  Alone(r)
<1> USE DEF BuildTyped, Alone, Build!Put, Build!Step, Build!luck
<1>1. CASE Build!HashInput(r) \/ Build!CopyRoot(r) \/ Build!Prepare(r)
  BY <1>1 DEF Build!HashInput, Build!CopyRoot, Build!Prepare
<1>2. CASE Build!MakeFit(r)
  BY <1>2 DEF Build!MakeFit
<1>3. CASE Build!CollectEvidence(r) \/ Build!CopyFiles(r)
  BY <1>3 DEF Build!CollectEvidence, Build!CopyFiles
<1>4. CASE Build!Swap(r) \/ Build!WriteControl(r)
  BY <1>4 DEF Build!Swap, Build!WriteControl
<1> QED
  BY <1>1, <1>2, <1>3, <1>4

LEMMA AloneWhenNot ==
    ASSUME BuildTyped, NEW r \in Builds,
           \/ Build!OutputAbsent(r) \/ Build!CompareFiles(r) \/ Build!HashAgain(r)
           \/ Build!Audit(r) \/ Build!Publish(r) \/ Build!Other(r) \/ Build!Report(r)
           \/ Build!Attach(r) \/ Build!Mount(r) \/ Build!Unmount(r) \/ Build!Detach(r)
           \/ Build!Start(r) \/ Build!CopyLoses(r) \/ Build!CannotLeave(r) \/ Build!Fail(r)
           \/ Build!Kill(r)
    PROVE  Alone(r)
<1> USE DEF BuildTyped, Alone, Build!Step, Build!luck
<1>1. CASE Build!OutputAbsent(r) \/ Build!CompareFiles(r) \/ Build!HashAgain(r)
  BY <1>1 DEF Build!OutputAbsent, Build!CompareFiles, Build!HashAgain, Build!Require, Build!Raise
<1>2. CASE Build!Audit(r) \/ Build!Publish(r)
  BY <1>2 DEF Build!Audit, Build!Publish, Build!Require, Build!Raise
<1>3. CASE Build!Other(r) \/ Build!Report(r) \/ Build!Start(r)
  BY <1>3 DEF Build!Other, Build!Report, Build!Start
<1>4. CASE Build!Attach(r) \/ Build!Mount(r) \/ Build!Unmount(r)
  BY <1>4 DEF Build!Attach, Build!Mount, Build!Unmount
<1>5. CASE Build!Detach(r)
  BY <1>5 DEF Build!Detach
<1>6. CASE Build!CopyLoses(r)
  BY <1>6 DEF Build!CopyLoses, Build!Disturb, Build!Put
<1>7. CASE Build!CannotLeave(r) \/ Build!Fail(r) \/ Build!Kill(r)
  BY <1>7 DEF Build!CannotLeave, Build!Fail, Build!Kill, Build!Disturb
<1> QED
  BY <1>1, <1>2, <1>3, <1>4, <1>5, <1>6, <1>7

(* What a step does to the luck of the run itself. *)
LEMMA LuckOfPut ==
    ASSUME BuildInv, LuckInv, NEW r \in Builds,
           \/ Build!CopyRoot(r) \/ Build!Prepare(r) \/ Build!MakeFit(r)
           \/ Build!CollectEvidence(r) \/ Build!Swap(r) \/ Build!WriteControl(r)
    PROVE  Lucky(r)'
<1>1. BuildTyped /\ Lucky(r)
  BY DEF BuildInv, LuckInv
<1>2. PICK s \in {"copy", "prepare", "fit", "evidence", "swap", "control"} :
         Build!Here(r, Build!Do(s))
  BY DEF Build!CopyRoot, Build!Prepare, Build!MakeFit, Build!CollectEvidence, Build!Swap,
     Build!WriteControl
<1>3. Place(r) \in {3, 7, 8, 9, 21, 22} /\ status[r] = "running"
  BY <1>1, <1>2, HereAt, ScriptSteps
<1>4. work'[r].before = work[r].before
  <2>0. work \in [Builds -> WorkDir]
    BY <1>1 DEF BuildTyped
  <2> USE <2>0 DEF Build!Put, WorkDir
  <2>1. CASE Build!CopyRoot(r) \/ Build!Prepare(r)
    BY <2>1 DEF Build!CopyRoot, Build!Prepare
  <2>2. CASE Build!MakeFit(r)
    BY <2>2 DEF Build!MakeFit
  <2>3. CASE Build!CollectEvidence(r) \/ Build!Swap(r) \/ Build!WriteControl(r)
    BY <2>3 DEF Build!CollectEvidence, Build!Swap, Build!WriteControl
  <2> QED
    BY <2>1, <2>2, <2>3
<1>5. Build!Step(r) /\ image' = image /\ upset' = upset /\ status'[r] = "running"
  BY <1>3 DEF Build!CopyRoot, Build!Prepare, Build!MakeFit, Build!CollectEvidence, Build!Swap,
     Build!WriteControl, Build!luck
<1> QED
  BY <1>1, <1>3, <1>4, <1>5, LuckMoves

LEMMA LuckOfCopies ==
    ASSUME BuildInv, LuckInv, NEW r \in Builds, Build!HashInput(r) \/ Build!CopyFiles(r)
    PROVE  Lucky(r)'
<1>1. BuildTyped /\ Lucky(r)
  BY DEF BuildInv, LuckInv
<1>0. work \in [Builds -> WorkDir] /\ rest \in [Builds -> {From(n) : n \in 1..29}]
  BY <1>1 DEF BuildTyped
<1>2. CASE Build!HashInput(r)
  <2>1. Place(r) = 2 /\ status[r] = "running"
    BY <1>1, <1>2, HereAt, ScriptSteps DEF Build!HashInput
  <2>2. work'[r].before = image
    BY <1>0, <1>2 DEF Build!HashInput, Build!Put, WorkDir
  <2> QED
    BY <1>1, <1>2, <2>1, <2>2, LuckMoves DEF Build!HashInput, Build!luck
<1>3. CASE Build!CopyFiles(r)
  <2>1. Place(r) = 16 /\ status[r] = "running"
    BY <1>1, <1>3, HereAt, ScriptSteps DEF Build!CopyFiles
  <2>2. work'[r].new = work'[r].root /\ work'[r].before = work[r].before
    BY <1>0, <1>3 DEF Build!CopyFiles, Build!Put, WorkDir
  <2>3. Tail(rest[r]) = From(17)
    <3>1. Tail(rest[r]) = From(Place(r) + 1)
      BY <1>1, PlaceOf
    <3>2. 16 + 1 = 17
      OBVIOUS
    <3> QED
      BY <2>1, <3>1, <3>2
  <2>4. rest'[r] = From(17)
    BY <1>0, <1>3, <2>3 DEF Build!CopyFiles, Build!Step
  <2>5. Len(From(17)) = 30 - 17
    <3>1. 17 \in 1..29
      OBVIOUS
    <3> QED
      BY <3>1, FromHere
  <2>6. Place(r)' = 17
    <3>1. 30 - (30 - 17) = 17
      OBVIOUS
    <3> QED
      BY <2>4, <2>5, <3>1 DEF Place
  <2>7. image' = image /\ upset' = upset /\ status' = status
    BY <1>3 DEF Build!CopyFiles, Build!luck
  <2> QED
    BY <1>1, <2>1, <2>2, <2>6, <2>7 DEF Lucky
<1> QED
  BY <1>2, <1>3

(* A check of the build's own work does not fail. *)
LEMMA LuckOfChecks ==
    ASSUME BuildInv, LuckInv, NEW r \in Builds,
           \/ Build!OutputAbsent(r) \/ Build!CompareFiles(r) \/ Build!HashAgain(r)
           \/ Build!Audit(r) \/ Build!Publish(r) \/ Build!Other(r)
    PROVE  Lucky(r)'
<1>1. BuildTyped /\ Lucky(r)
  BY DEF BuildInv, LuckInv
<1>2. status[r] = "running" => Holds(work[r], Place(r), image)
  BY DEF BuildInv, RunsOK, RunOK
<1>3. status[r] = "running" /\ work' = work /\ image' = image /\ upset' = upset
  BY DEF Build!OutputAbsent, Build!CompareFiles, Build!HashAgain, Build!Audit, Build!Publish,
     Build!Other, Build!Here, Build!luck
<1>4. Place(r) \in {1, 17, 24, 26, 28, 4, 10, 13, 20, 23}
  <2>1. PICK s \in {"absent", "compare", "rehash", "audit", "link", "identify", "verify", "fsck",
                  "pack"} : Build!Here(r, Build!Do(s))
    BY DEF Build!OutputAbsent, Build!CompareFiles, Build!HashAgain, Build!Audit, Build!Publish,
       Build!Other
  <2> QED
    BY <1>1, <2>1, HereAt, ScriptSteps
<1>5. ASSUME Build!Step(r), status' = status PROVE Lucky(r)'
  BY <1>1, <1>3, <1>4, <1>5, LuckMoves
<1>6. ASSUME Build!Raise(r), r \in upset \/ (output # None /\ output' = output)
      PROVE  Lucky(r)'
  <2>1. status'[r] = "failing"
    BY <1>1, <1>6 DEF Build!Raise, BuildTyped
  <2> QED
    BY <1>3, <1>6, <2>1 DEF Lucky
<1>7. CASE Build!OutputAbsent(r)
  BY <1>5, <1>6, <1>7 DEF Build!OutputAbsent, Build!Require
<1>8. CASE Build!CompareFiles(r)
  <2>1. Place(r) = 17
    BY <1>1, <1>8, HereAt, ScriptSteps DEF Build!CompareFiles
  <2>2. r \in upset \/ work[r].new = work[r].root
    BY <1>1, <1>3, <2>1 DEF Lucky
  <2> QED
    BY <1>5, <1>6, <1>8, <2>2 DEF Build!CompareFiles, Build!Require
<1>9. CASE Build!HashAgain(r)
  <2>1. Place(r) = 24
    BY <1>1, <1>9, HereAt, ScriptSteps DEF Build!HashAgain
  <2>2. r \in upset \/ image = work[r].before
    BY <1>1, <1>3, <2>1 DEF Lucky
  <2> QED
    BY <1>5, <1>6, <1>9, <2>2 DEF Build!HashAgain, Build!Require
<1>10. CASE Build!Audit(r)
  <2>1. Place(r) = 26
    BY <1>1, <1>10, HereAt, ScriptSteps DEF Build!Audit
  <2>2. /\ work[r].root.patched = TRUE /\ work[r].evidence = work[r].root
        /\ work[r].fit = [boot |-> work[r].root.boot, patched |-> TRUE]
        /\ work[r].control = [source |-> work[r].before, evidence |-> work[r].evidence,
                              fit |-> work[r].fit, root |-> work[r].root]
    BY <1>2, <1>3, <2>1 DEF Holds
  <2> DEFINE c == work[r].control
  <2>3. /\ c.evidence = c.root /\ c.fit.boot = c.root.boot
        /\ c.fit.patched = TRUE /\ c.root.patched = TRUE
    <3>1. /\ c.evidence = work[r].evidence /\ c.fit = work[r].fit
          /\ c.root = work[r].root
      BY <2>2
    <3>2. work[r].fit.boot = work[r].root.boot /\ work[r].fit.patched = TRUE
      BY <2>2
    <3> QED
      BY <2>2, <3>1, <3>2
  <2> HIDE DEF c
  <2>4. c.fit.patched = c.root.patched
    BY <2>3
  <2>5. Build!Sound(c)
    BY <2>3, <2>4 DEF Build!Sound
  <2> QED
    BY <1>5, <1>10, <2>5 DEF Build!Audit, Build!Require, c
<1>11. CASE Build!Publish(r)
  BY <1>5, <1>6, <1>11 DEF Build!Publish, Build!Require
<1>12. CASE Build!Other(r)
  BY <1>5, <1>12 DEF Build!Other
<1> QED
  BY <1>7, <1>8, <1>9, <1>10, <1>11, <1>12

LEMMA LuckOfBlocks ==
    ASSUME BuildInv, LuckInv, NEW r \in Builds,
           Build!Attach(r) \/ Build!Mount(r) \/ Build!Unmount(r) \/ Build!Detach(r)
    PROVE  Lucky(r)'
<1>1. BuildTyped /\ Lucky(r)
  BY DEF BuildInv, LuckInv
<1>2. work' = work /\ image' = image /\ upset' = upset /\ status' = status /\ output' = output
  BY DEF Build!Attach, Build!Mount, Build!Unmount, Build!Detach, Build!luck
<1>3. ASSUME UNCHANGED rest PROVE Lucky(r)'
  BY <1>1, <1>2, <1>3, LuckKept
<1>4. ASSUME Build!Step(r), NEW m \in Build!Mounts,
             Build!Here(r, Build!Enter(m)) \/ Build!Here(r, Build!Leave(m))
      PROVE  Lucky(r)'
  <2>1. Place(r) \in {5, 6, 14, 15, 25, 11, 12, 18, 19, 27} /\ status[r] = "running"
    <3>1. m \in {"boot", "root", "source", "target", "audit"}
      BY DEF Build!Mounts
    <3> QED
      BY <1>1, <1>4, <3>1, HereAt, ScriptMounts
  <2> QED
    BY <1>1, <1>2, <1>4, <2>1, LuckMoves
<1>5. open[r] # <<>> => Build!Inner(r) \in Build!Mounts
  <2>1. open[r] \in Seq(Build!Mounts)
    BY <1>1 DEF BuildTyped
  <2> QED
    BY <2>1 DEF Build!Inner, Build!Last
<1>6. CASE Build!Attach(r) \/ Build!Unmount(r)
  BY <1>3, <1>6 DEF Build!Attach, Build!Unmount
<1>7. CASE Build!Mount(r)
  BY <1>4, <1>5, <1>7 DEF Build!Mount
<1>8. CASE Build!Detach(r)
  <2>1. CASE status[r] = "running"
    <3>1. open[r] # <<>> /\ Build!Here(r, Build!Leave(Build!Inner(r))) /\ Build!Step(r)
      BY <1>8, <2>1 DEF Build!Detach, Build!Leaving
    <3> QED
      BY <1>4, <1>5, <3>1
  <2>2. CASE status[r] # "running"
    BY <1>3, <1>8, <2>2 DEF Build!Detach
  <2> QED
    BY <2>1, <2>2
<1> QED
  BY <1>6, <1>7, <1>8

LEMMA LuckOfEnds ==
    ASSUME BuildInv, LuckInv, NEW r \in Builds,
           \/ Build!Start(r) \/ Build!Report(r) \/ Build!CopyLoses(r) \/ Build!CannotLeave(r)
           \/ Build!Fail(r) \/ Build!Kill(r)
    PROVE  Lucky(r)'
<1>1. RunOK(r) /\ status \in [Builds -> {"new", "running", "failing", "killed", "pass"}]
  BY DEF BuildInv, RunsOK, BuildTyped
<1>2. CASE Build!Start(r)
  <2>1. Place(r)' = 1 /\ status'[r] = "running"
    BY <1>1, <1>2 DEF Build!Start, RunOK, Place
  <2> QED
    BY <2>1 DEF Lucky
<1>3. CASE Build!Report(r) \/ Build!Kill(r)
  <2>1. status'[r] \in {"pass", "killed"}
    BY <1>1, <1>3 DEF Build!Report, Build!Kill
  <2> QED
    BY <2>1, LuckUpset
<1>4. CASE Build!CopyLoses(r) \/ Build!CannotLeave(r) \/ Build!Fail(r)
  BY <1>4, LuckUpset DEF Build!CopyLoses, Build!CannotLeave, Build!Fail, Build!Disturb
<1> QED
  BY <1>2, <1>3, <1>4

LEMMA LuckStep == ASSUME BuildInv, LuckInv, [Build!Next]_buildVars PROVE LuckInv'
<1>1. ASSUME NEW r \in Builds, Alone(r), Lucky(r)', output # None => output' = output
      PROVE  LuckInv'
  <2> SUFFICES ASSUME NEW s \in Builds, s # r PROVE Lucky(s)'
    BY <1>1 DEF LuckInv
  <2> QED
    BY <1>1, LuckKept DEF LuckInv, Alone
<1>2. ASSUME NEW r \in Builds,
             \/ Build!Start(r) \/ Build!Work(r) \/ Build!CopyLoses(r) \/ Build!CannotLeave(r)
             \/ Build!Fail(r) \/ Build!Kill(r)
      PROVE  Alone(r) /\ Lucky(r)'
  BY <1>2, AloneWhenPut, AloneWhenNot, LuckOfPut, LuckOfCopies, LuckOfChecks, LuckOfBlocks,
     LuckOfEnds DEF BuildInv, Build!Work
<1>3. CASE Build!ImageChanges
  <2> SUFFICES ASSUME NEW s \in Builds PROVE Lucky(s)'
    BY DEF LuckInv
  <2>1. UNCHANGED <<status, rest, work, output>>
    BY <1>3 DEF Build!ImageChanges
  <2>2. CASE status[s] \in {"running", "failing"}
    BY <1>3, <2>2, LuckUpset DEF Build!ImageChanges, Build!Disturb
  <2>3. CASE status[s] \notin {"running", "failing"}
    BY <2>1, <2>3, LuckUpset
  <2> QED
    BY <2>2, <2>3
<1>4. CASE UNCHANGED buildVars
  BY <1>4 DEF buildVars, LuckInv, Lucky, Place
<1>5. CASE Build!Next
  <2>1. output # None => output' = output
    BY <1>5, OutputStays
  <2> QED
    BY <1>1, <1>2, <1>3, <1>5, <2>1 DEF Build!Next
<1> QED
  BY <1>4, <1>5

-----------------------------------------------------------------------------
(* From the preflight in adapt to the rename, /boot is what it may become  *)
(* a copy over, and the copy that is renamed is the source of the          *)
(* preflight.                                                              *)
Copying ==
    /\ pc = "stage" => boot \in {Empty, Gone, expected}
    /\ pc \in {"copy", "compare", "rmdir"} => boot \in {Empty, Gone}
    /\ pc = "rename" => boot = Gone
    /\ pc \in {"rmdir", "rename"} => staging = expected

(* From there to the end nothing is in the way of what is written.         *)
NothingForeign ==
    pc \in {"stage", "copy", "compare", "rmdir", "rename", "items", "check"} =>
        \A i \in Items : item[i] # "foreign"

Inv == TypeOK /\ Copying /\ NothingForeign

USE PlanAssumption, SourcesAssumption, BoundsAssumption

(* The plan is a sequence of items. *)
LEMMA PlanIsSeq ==
    Plan \in Seq(Items) /\ Len(Plan) \in Nat \ {0} /\ 1 \in 1..Len(Plan)
<1>1. Files \in Seq(Items) /\ Links \in Seq(Items)
  BY DEF Items
<1>2. <<"fstab">> \in Seq(Items) /\ <<"skip", "wants", "lists">> \in Seq(Items)
  BY DEF Items
<1> DEFINE Head3 == <<"fstab">> \o Files
<1>3. Head3 \in Seq(Items) /\ Len(Head3) = 1 + Len(Files) /\ Len(Files) \in Nat
  BY <1>1, <1>2
<1> HIDE DEF Head3
<1>4. Head3 \o Links \in Seq(Items) /\ Len(Head3 \o Links) = Len(Head3) + Len(Links)
      /\ Len(Links) \in Nat
  BY <1>1, <1>3
<1>5. (Head3 \o Links) \o <<"skip", "wants", "lists">> \in Seq(Items)
      /\ Len((Head3 \o Links) \o <<"skip", "wants", "lists">>) = Len(Head3 \o Links) + 3
  BY <1>2, <1>4
<1>6. QED BY <1>3, <1>4, <1>5 DEF Plan, Head3

LEMMA PlaceIsItem == \A i \in 1..Len(Plan) : Plan[i] \in Items
BY PlanIsSeq

(* What the preflight accepts has nothing foreign in it. *)
LEMMA AcceptableIsOurs ==
    ASSUME Acceptable
    PROVE  boot \in {Empty, Gone, source} /\ \A i \in Items : item[i] # "foreign"
BY DEF Acceptable, BootAcceptable, FstabConvertible, LinksRemovable, ListsRemovable,
       ManagedAcceptable, Items

LEMMA InitInv == Init => Inv
<1> SUFFICES ASSUME Init PROVE Inv
  OBVIOUS
<1>1. place = 1 /\ place \in 1..Len(Plan)
  BY PlanIsSeq DEF Init
<1>2. runs \in 0..MaxRuns
  BY DEF Init
<1>3. pc = "idle" /\ pc \in Steps
  BY DEF Init, Steps
<1>4. TypeOK
  BY <1>1, <1>2, <1>3, RootsAssumption DEF Init, TypeOK
<1>5. QED BY <1>3, <1>4 DEF Inv, Copying, NothingForeign

LEMMA StepInv == ASSUME Inv, [Next]_vars PROVE Inv'
<1> USE DEF Inv, Go
<1>0. Len(Plan) \in Nat \ {0} /\ 1 \in 1..Len(Plan)
  BY PlanIsSeq
<1>1. CASE Run
  <2>1. place' \in 1..Len(Plan)
    BY <1>0, <1>1 DEF Run
  <2>2. runs' \in 0..MaxRuns
    BY <1>1 DEF Run, TypeOK
  <2>3. TypeOK'
    BY <1>1, <2>1, <2>2 DEF Run, TypeOK, Steps, rootVars
  <2>4. QED BY <1>1, <2>3 DEF Run, Copying, NothingForeign
<1>2. CASE Preflight
  <2>1. TypeOK'
    BY <1>2 DEF Preflight, TypeOK, Steps, rootVars
  <2>2. CASE ~Acceptable
    BY <1>2, <2>1, <2>2 DEF Preflight, Copying, NothingForeign, rootVars
  <2>3. CASE Acceptable
    BY <1>2, <2>1, <2>3, AcceptableIsOurs DEF Preflight, Copying, NothingForeign, rootVars
  <2>4. QED BY <2>2, <2>3
<1>3. CASE HostChecks
  BY <1>3 DEF HostChecks, TypeOK, Copying, NothingForeign, Steps, rootVars
<1>4. CASE Stage
  BY <1>4 DEF Stage, TypeOK, Copying, NothingForeign, Steps, rootVars
<1>5. CASE CopyBoot
  BY <1>5 DEF CopyBoot, TypeOK, Copying, NothingForeign, Steps, rootVars
<1>6. CASE CompareCopy
  BY <1>6 DEF CompareCopy, TypeOK, Copying, NothingForeign, Steps, rootVars
<1>7. CASE RemoveEmpty
  BY <1>7 DEF RemoveEmpty, TypeOK, Copying, NothingForeign, Steps
<1>8. CASE RenameCopy
  BY <1>8 DEF RenameCopy, TypeOK, Copying, NothingForeign, Steps
<1>9. CASE WriteTemporary
  BY <1>9 DEF WriteTemporary, TypeOK, Copying, NothingForeign, rootVars
<1>10. CASE Settle
  <2>1. place' \in 1..Len(Plan) /\ pc' \in {"check", "items"}
    BY <1>0, <1>10 DEF Settle, Advance, TypeOK
  <2>2. item' \in [Items -> {"old", "new", "foreign"}]
        /\ \A i \in Items : item'[i] \in {item[i], "new"}
    BY <1>10, PlaceIsItem DEF Settle, TypeOK
  <2>3. pc = "items" /\ UNCHANGED <<boot, held, source, expected, staging, litter, runs, disturbed>>
        /\ temp' = FALSE
    BY <1>10 DEF Settle
  <2>4. QED BY <2>1, <2>2, <2>3 DEF TypeOK, Copying, NothingForeign, Steps
<1>11. CASE CheckOffline
  BY <1>11 DEF CheckOffline, TypeOK, Copying, NothingForeign, Steps, rootVars
<1>12. CASE Fail
  BY <1>12 DEF Fail, TypeOK, Copying, NothingForeign, Steps, rootVars
<1>13. CASE Kill
  BY <1>13 DEF Kill, TypeOK, Copying, NothingForeign, Steps, rootVars
<1>14. CASE SourceChanges
  BY <1>14 DEF SourceChanges, TypeOK, Copying, NothingForeign, rootVars
<1>15. CASE UNCHANGED vars
  BY <1>15 DEF vars, rootVars, TypeOK, Copying, NothingForeign
<1>16. QED
  BY <1>1, <1>2, <1>3, <1>4, <1>5, <1>6, <1>7, <1>8, <1>9, <1>10, <1>11, <1>12, <1>13,
     <1>14, <1>15 DEF Next, Step

(* Types, for any files, links, sources and number of runs. *)
THEOREM TypeCorrect == Spec => []TypeOK
<1>1. Inv => TypeOK
  BY DEF Inv
<1>2. QED BY InitInv, StepInv, <1>1, PTL DEF Spec

(* What a run has passed stays so for it: what was accepted is held, the   *)
(* items before its place are as they should be.                           *)
Accepted == {"host", "again", "stage", "copy", "compare", "rmdir", "rename", "items", "check"}

InOrder ==
    /\ pc \in Accepted => held
    /\ pc \in {"preflight", "host", "again", "stage", "copy", "compare", "rmdir", "rename"} =>
         place = 1
    /\ pc = "items" => \A p \in 1..(place - 1) : item[Plan[p]] = "new"
    /\ pc = "check" => \A p \in 1..Len(Plan) : item[Plan[p]] = "new"

(* When nothing disturbs it the source is what it has read, and /boot is   *)
(* to be and then is the source.                                           *)
Undisturbed ==
    ~disturbed =>
        /\ pc \in Accepted => expected = source
        /\ pc = "compare" => staging = source
        /\ pc \in {"items", "check"} => boot = source
        /\ RefusedForReason

OrderInv == InOrder /\ Undisturbed

LEMMA Joined ==
    ASSUME NEW S, NEW s \in Seq(S), NEW t \in Seq(S)
    PROVE  /\ s \o t \in Seq(S) /\ Len(s \o t) = Len(s) + Len(t)
           /\ \A i \in 1..Len(s) : (s \o t)[i] = s[i]
           /\ \A i \in 1..Len(t) : (s \o t)[Len(s) + i] = t[i]
OBVIOUS

(* An element of either is one of both joined.                             *)
Has(s, x) == \E i \in 1..Len(s) : s[i] = x

LEMMA JoinedHas ==
    ASSUME NEW S, NEW s \in Seq(S), NEW t \in Seq(S), NEW x, Has(s, x) \/ Has(t, x)
    PROVE  Has(s \o t, x)
<1> USE DEF Has
<1>1. /\ Len(s) \in Nat /\ Len(t) \in Nat /\ Len(s \o t) = Len(s) + Len(t)
      /\ \A i \in 1..Len(s) : (s \o t)[i] = s[i]
      /\ \A i \in 1..Len(t) : (s \o t)[Len(s) + i] = t[i]
  BY Joined
<1> DEFINE u == s \o t
<1> HIDE DEF u
<1>2. CASE \E i \in 1..Len(s) : s[i] = x
  <2>1. PICK i \in 1..Len(s) : s[i] = x
    BY <1>2
  <2>2. i \in 1..Len(u) /\ u[i] = x
    BY <1>1, <2>1 DEF u
  <2> QED
    BY <2>2 DEF u
<1>3. CASE \E i \in 1..Len(t) : t[i] = x
  <2>1. PICK i \in 1..Len(t) : t[i] = x
    BY <1>3
  <2>2. Len(s) + i \in 1..Len(u) /\ u[Len(s) + i] = x
    BY <1>1, <2>1 DEF u
  <2> QED
    BY <2>2 DEF u
<1> QED
  BY <1>2, <1>3

LEMMA PlanCovers == \A i \in Items : \E p \in 1..Len(Plan) : Plan[p] = i
<1> DEFINE First == <<"fstab">>
           Rest3 == <<"skip", "wants", "lists">>
<1>1. /\ Files \in Seq(Items) /\ Links \in Seq(Items)
      /\ First \in Seq(Items) /\ Rest3 \in Seq(Items)
  BY DEF Items
<1>2. Has(First, "fstab") /\ Has(Rest3, "skip") /\ Has(Rest3, "wants") /\ Has(Rest3, "lists")
  <2>1. /\ 1 \in 1..Len(First) /\ First[1] = "fstab"
        /\ 1 \in 1..Len(Rest3) /\ 2 \in 1..Len(Rest3) /\ 3 \in 1..Len(Rest3)
        /\ Rest3[1] = "skip" /\ Rest3[2] = "wants" /\ Rest3[3] = "lists"
    OBVIOUS
  <2> HIDE DEF First, Rest3
  <2> QED
    BY <2>1 DEF Has
<1>3. \A x \in ToSet(Files) : Has(Files, x)
  BY <1>1 DEF ToSet, Has
<1>4. \A x \in ToSet(Links) : Has(Links, x)
  BY <1>1 DEF ToSet, Has
<1>5. Plan = ((First \o Files) \o Links) \o Rest3
  BY DEF Plan
<1> HIDE DEF First, Rest3
<1>6. \A s, t \in Seq(Items) :
         s \o t \in Seq(Items) /\ \A x : Has(s, x) \/ Has(t, x) => Has(s \o t, x)
  <2> SUFFICES ASSUME NEW s \in Seq(Items), NEW t \in Seq(Items)
               PROVE  s \o t \in Seq(Items) /\ \A x : Has(s, x) \/ Has(t, x) => Has(s \o t, x)
    OBVIOUS
  <2>1. s \o t \in Seq(Items)
    BY Joined
  <2>2. ASSUME NEW x, Has(s, x) \/ Has(t, x) PROVE Has(s \o t, x)
    BY <2>2, JoinedHas
  <2> QED
    BY <2>1, <2>2
<1> DEFINE A == First \o Files
           B == A \o Links
<1>7. A \in Seq(Items) /\ B \in Seq(Items) /\ Plan = B \o Rest3
  BY <1>1, <1>5, <1>6
<1>8. \A x : Has(First, x) \/ Has(Files, x) => Has(A, x)
  BY <1>1, <1>6
<1>9. \A x : Has(A, x) \/ Has(Links, x) => Has(B, x)
  BY <1>1, <1>6, <1>7
<1> HIDE DEF A, B
<1>10. \A x : Has(B, x) \/ Has(Rest3, x) => Has(Plan, x)
  BY <1>1, <1>6, <1>7
<1>11. \A x \in Items : Has(Plan, x)
  BY <1>2, <1>3, <1>4, <1>8, <1>9, <1>10 DEF Items
<1> QED
  BY <1>11 DEF Has

LEMMA HalfDoneAccepted == HalfDone => Acceptable
<1>1. ToSet(Files) \cup ToSet(Links) \cup {"skip", "fstab", "wants", "lists"} \subseteq Items
  BY DEF Items
<1> QED
  BY <1>1 DEF HalfDone, Acceptable, BootAcceptable, FstabConvertible, LinksRemovable,
     ListsRemovable, ManagedAcceptable

LEMMA OrderStarts == Init => OrderInv
BY DEF Init, OrderInv, InOrder, Undisturbed, Accepted, RefusedForReason

LEMMA OrderStep == ASSUME Inv, OrderInv, [Next]_vars PROVE OrderInv'
<1> USE DEF Go
<1>1. CASE Run
  BY <1>1 DEF Run, OrderInv, InOrder, Undisturbed, Accepted, RefusedForReason
<1>2. CASE Preflight
  <2>1. /\ pc \in {"preflight", "again"} /\ expected' = source /\ source' = source
        /\ boot' = boot /\ held' = held /\ item' = item /\ place' = place
        /\ disturbed' = disturbed /\ place = 1
    BY <1>2 DEF Preflight, rootVars, OrderInv, InOrder
  <2>2. CASE ~Acceptable
    <3>1. pc' = "fail" /\ ~HalfDone
      BY <1>2, <2>2, HalfDoneAccepted DEF Preflight
    <3>2. ~HalfDone'
      BY <2>1, <3>1 DEF HalfDone
    <3> QED
      BY <3>1, <3>2 DEF OrderInv, InOrder, Undisturbed, Accepted, RefusedForReason
  <2>3. CASE Acceptable
    <3>1. pc' \in {"host", "stage"} /\ held
      BY <1>2, <2>3 DEF Preflight, Acceptable
    <3> QED
      BY <2>1, <3>1 DEF OrderInv, InOrder, Undisturbed, Accepted, RefusedForReason
  <2> QED
    BY <2>2, <2>3
<1>3. CASE HostChecks
  BY <1>3 DEF HostChecks, rootVars, OrderInv, InOrder, Undisturbed, Accepted, RefusedForReason
<1>4. CASE Stage
  <2>1. /\ pc = "stage" /\ place = 1 /\ held /\ place' = place /\ UNCHANGED <<item, boot, held>>
        /\ source' = source /\ expected' = expected /\ disturbed' = disturbed
        /\ pc' = "copy" \/ (pc' = "items" /\ boot = expected)
    BY <1>4 DEF Stage, rootVars, OrderInv, InOrder, Accepted
  <2>2. ~disturbed => expected = source
    BY <2>1 DEF OrderInv, Undisturbed, Accepted
  <2>3. \A p \in 1..(place - 1) : FALSE
    BY <2>1
  <2> QED
    BY <2>1, <2>2, <2>3 DEF OrderInv, InOrder, Undisturbed, Accepted, RefusedForReason
<1>5. CASE CopyBoot
  BY <1>5 DEF CopyBoot, rootVars, OrderInv, InOrder, Undisturbed, Accepted, RefusedForReason
<1>6. CASE CompareCopy
  BY <1>6 DEF CompareCopy, rootVars, OrderInv, InOrder, Undisturbed, Accepted, RefusedForReason
<1>7. CASE RemoveEmpty
  BY <1>7 DEF RemoveEmpty, OrderInv, InOrder, Undisturbed, Accepted, RefusedForReason
<1>8. CASE RenameCopy
  <2>1. /\ pc = "rename" /\ place = 1 /\ held /\ place' = place /\ UNCHANGED <<item, held>>
        /\ source' = source /\ expected' = expected /\ disturbed' = disturbed
        /\ pc' = "items" /\ boot' = staging /\ staging = expected
    BY <1>8 DEF RenameCopy, OrderInv, InOrder, Accepted, Inv, Copying
  <2>2. ~disturbed => expected = source
    BY <2>1 DEF OrderInv, Undisturbed, Accepted
  <2>3. \A p \in 1..(place - 1) : FALSE
    BY <2>1
  <2> QED
    BY <2>1, <2>2, <2>3 DEF OrderInv, InOrder, Undisturbed, Accepted, RefusedForReason
<1>9. CASE WriteTemporary
  BY <1>9 DEF WriteTemporary, rootVars, OrderInv, InOrder, Undisturbed, Accepted, RefusedForReason
<1>10. CASE Settle
  <2> DEFINE n == Len(Plan)
             i == Plan[place]
  <2>1. n \in Nat \ {0} /\ place \in 1..n /\ item \in [Items -> {"old", "new", "foreign"}]
    BY PlanIsSeq DEF Inv, TypeOK
  <2>2. \A p \in 1..n : Plan[p] \in Items
    BY PlaceIsItem
  <2>3. /\ pc = "items" /\ item' = [item EXCEPT ![i] = "new"]
        /\ UNCHANGED <<boot, held, source, expected, disturbed>>
        /\ \/ place = n /\ place' = place /\ pc' = "check"
           \/ place # n /\ place' = place + 1 /\ pc' = "items"
    BY <1>10, <2>1 DEF Settle, Advance
  <2> HIDE DEF n
  <2>4. \A p \in 1..(place - 1) : item[Plan[p]] = "new"
    BY <2>3 DEF OrderInv, InOrder
  <2>5. ASSUME NEW p \in 1..place PROVE item'[Plan[p]] = "new"
    <3>1. /\ p \in 1..n /\ place \in 1..n
          /\ p = place \/ p \in 1..(place - 1)
      BY <2>1
    <3>2. Plan[p] \in Items /\ i \in Items
      BY <2>1, <2>2
    <3> QED
      BY <2>1, <2>3, <2>4, <3>1, <3>2
  <2>6. InOrder'
    <3>1. CASE place = n /\ place' = place /\ pc' = "check"
      BY <2>3, <2>5, <3>1 DEF n, OrderInv, InOrder, Accepted
    <3>2. CASE place # n /\ place' = place + 1 /\ pc' = "items"
      <4>1. place' - 1 = place
        BY <2>1, <3>2
      <4> QED
        BY <2>3, <2>5, <3>2, <4>1 DEF OrderInv, InOrder, Accepted
    <3> QED
      BY <2>3, <3>1, <3>2
  <2>7. Undisturbed'
    BY <2>3 DEF OrderInv, Undisturbed, Accepted, RefusedForReason
  <2> QED
    BY <2>6, <2>7 DEF OrderInv
<1>11. CASE CheckOffline
  <2>1. /\ pc = "check" /\ held /\ disturbed' = disturbed
        /\ ~disturbed => boot = source
        /\ pc' = IF Prepared THEN "pass" ELSE "fail"
    BY <1>11 DEF CheckOffline, OrderInv, InOrder, Undisturbed, Accepted
  <2>2. \A i \in Items : item[i] = "new"
    BY <2>1, PlanCovers DEF OrderInv, InOrder
  <2>3. ~disturbed => pc' = "pass"
    BY <2>1, <2>2 DEF Prepared
  <2> QED
    BY <2>1, <2>3 DEF OrderInv, InOrder, Undisturbed, Accepted, RefusedForReason
<1>12. CASE Fail \/ Kill
  BY <1>12 DEF Fail, Kill, OrderInv, InOrder, Undisturbed, Accepted
<1>13. CASE SourceChanges
  BY <1>13 DEF SourceChanges, rootVars, OrderInv, InOrder, Undisturbed, Accepted
<1>14. CASE UNCHANGED vars
  <2>1. /\ UNCHANGED <<item, boot, held, source, expected, staging, pc, place, disturbed>>
    BY <1>14 DEF vars, rootVars
  <2> QED
    BY <2>1 DEF OrderInv, InOrder, Undisturbed, Accepted, RefusedForReason, HalfDone
<1> QED
  BY <1>1, <1>2, <1>3, <1>4, <1>5, <1>6, <1>7, <1>8, <1>9, <1>10, <1>11, <1>12, <1>13,
     <1>14 DEF Next, Step

(* What changes /boot or an item, and how. *)
LEMMA Changes ==
    ASSUME Inv, [Next]_vars
    PROVE  \/ boot' = boot /\ item' = item
           \/ pc \in {"rmdir", "rename"} /\ boot' \in {Gone, expected} /\ item' = item
           \/ /\ pc = "items" /\ boot' = boot
              /\ item' = [item EXCEPT ![Plan[place]] = "new"]
<1>1. CASE RemoveEmpty
  BY <1>1 DEF RemoveEmpty
<1>2. CASE RenameCopy
  BY <1>2 DEF RenameCopy, Inv, Copying
<1>3. CASE Settle
  BY <1>3 DEF Settle
<1>4. CASE Run \/ Preflight \/ HostChecks \/ Stage \/ CopyBoot \/ CompareCopy \/ WriteTemporary
           \/ CheckOffline \/ Fail \/ Kill \/ SourceChanges \/ UNCHANGED vars
  BY <1>4 DEF Run, Preflight, HostChecks, Stage, CopyBoot, CompareCopy, WriteTemporary,
              CheckOffline, Fail, Kill, SourceChanges, vars, rootVars
<1>5. QED BY <1>1, <1>2, <1>3, <1>4 DEF Next, Step

(* /boot is replaced at once, by the source as the preflight of this run   *)
(* has read it, whatever writes to the source and wherever runs are cut.   *)
THEOREM BootWhole == Spec => BootIsWhole
<1>1. ASSUME Inv, [Next]_vars PROVE [boot' # boot => boot' \in {Gone, expected}]_vars
  BY <1>1, Changes
<1>2. QED BY InitInv, StepInv, <1>1, PTL DEF Spec, BootIsWhole

(* Nothing of somebody else is ever replaced. *)
THEOREM ForeignKept == Spec => ForeignStays
<1>1. ASSUME Inv, [Next]_vars
      PROVE  /\ boot = Foreign => boot' = Foreign
             /\ \A i \in Items : item[i] = "foreign" => item'[i] = "foreign"
  <2>1. CASE boot' = boot /\ item' = item
    BY <2>1
  <2>2. CASE pc \in {"rmdir", "rename"} /\ item' = item
    BY <1>1, <2>2 DEF Inv, Copying, Foreign, Empty, Gone
  <2>3. CASE pc = "items" /\ boot' = boot
    BY <1>1, <2>3 DEF Inv, NothingForeign
  <2>4. QED BY <1>1, <2>1, <2>2, <2>3, Changes
<1>2. QED BY InitInv, StepInv, <1>1, PTL DEF Spec, ForeignStays

(* What the preflight has seen is what the run changes. *)
THEOREM RootKept == Spec => RootIsKept
BY BootWhole, ForeignKept DEF RootIsKept

(* Runs that fail, are killed and are tried again together implement a     *)
(* preparation that does one thing after another and undoes none.          *)
THEOREM ImplementsPreparation == Spec => PreparationSpec
<1> DEFINE All == Items \cup {"boot"}
           Todo == {i \in All : ~Done(i)}
<1>1. Init => Preparation!Init
  BY DEF Preparation!Init
<1>2. ASSUME Inv, [Next]_vars PROVE [Preparation!Do]_Todo
  <2>1. CASE boot' = boot /\ item' = item
    BY <2>1 DEF Done
  <2>2. CASE pc \in {"rmdir", "rename"} /\ boot' \in {Gone, expected} /\ item' = item
    <3>1. boot \notin Sources /\ expected \in Sources /\ Gone \notin Sources
      BY <1>2, <2>2 DEF Inv, Copying, TypeOK
    <3>2. CASE boot' \notin Sources
      <4>1. Todo' = Todo
        BY <2>2, <3>1, <3>2 DEF Done
      <4>2. QED BY <4>1
    <3>3. CASE boot' \in Sources
      <4>1. "boot" \in Todo
        BY <3>1 DEF Done
      <4>2. Todo' = Todo \ {"boot"}
        BY <2>2, <3>1, <3>3 DEF Done
      <4>3. QED BY <4>1, <4>2 DEF Preparation!Do
    <3>4. QED BY <3>2, <3>3
  <2>3. CASE pc = "items" /\ boot' = boot /\ item' = [item EXCEPT ![Plan[place]] = "new"]
    <3>1. Plan[place] \in Items /\ Plan[place] # "boot" /\ item \in [Items -> {"old", "new", "foreign"}]
      BY <1>2, PlaceIsItem DEF Inv, TypeOK
    <3>2. \A i \in Items : i # "boot"
      OBVIOUS
    <3>3. Todo' = Todo \ {Plan[place]}
      BY <2>3, <3>1, <3>2 DEF Done
    <3>4. CASE Plan[place] \in Todo
      BY <3>3, <3>4 DEF Preparation!Do
    <3>5. CASE Plan[place] \notin Todo
      <4>1. Todo' = Todo
        BY <3>3, <3>5
      <4>2. QED BY <4>1
    <3>6. QED BY <3>4, <3>5
  <2>4. QED BY <1>2, <2>1, <2>2, <2>3, Changes
<1>3. QED BY InitInv, StepInv, <1>1, <1>2, PTL DEF Spec, PreparationSpec, Preparation!Spec
-----------------------------------------------------------------------------
(* What is checked of the one and of the other together: the preparation   *)
(* leaves the build alone, and the build the preparation.                  *)

allVars == <<building, vars, buildVars>>

FactoryInv == Inv /\ BuildInv

LEMMA Before == NoPreparation => Inv
<1> SUFFICES ASSUME NoPreparation PROVE Inv
  OBVIOUS
<1>1. source \in Sources /\ expected = source
  BY BuildAssumption DEF NoPreparation
<1>2. place \in 1..Len(Plan) /\ runs \in 0..MaxRuns /\ pc = "idle" /\ pc \in Steps
  BY PlanIsSeq DEF NoPreparation, Steps
<1>3. TypeOK
  BY <1>1, <1>2 DEF NoPreparation, TypeOK
<1> QED
  BY <1>2, <1>3 DEF Inv, Copying, NothingForeign

LEMMA FactoryStarts == FactoryInit => FactoryInv
BY Before, InitInv, BuildStarts DEF FactoryInit, FactoryInv

LEMMA FactorySteps == FactoryInv /\ [FactoryNext]_allVars => FactoryInv'
<1> SUFFICES ASSUME FactoryInv, [FactoryNext]_allVars PROVE FactoryInv'
  OBVIOUS
<1>1. CASE [Next]_vars /\ UNCHANGED buildVars
  BY <1>1, StepInv, BuildStays DEF FactoryInv
<1>2. CASE Build!Next /\ UNCHANGED vars
  BY <1>2, StepInv, BuildSteps DEF FactoryInv
<1> QED
  BY <1>1, <1>2 DEF FactoryNext, allVars

(* A run that is over and was not killed leaves no loop device behind that *)
(* could be released, and the root is packed only when every device is     *)
(* released, whichever command fails or meets another run of the build     *)
(* (factory_firmware.mounted).                                             *)
THEOREM NothingLeft == FactorySpec => []NothingLeftMounted
<1>1. FactoryInv => NothingLeftMounted
  BY BuildTypes, BuildRests DEF FactoryInv, Inv, NothingLeftMounted
<1> QED
  BY FactoryStarts, FactorySteps, <1>1, PTL DEF FactorySpec, allVars

(* The published TAR holds the root, the boot partition and the FIT of one *)
(* version of the image, the one whose hash it gives, complete and with    *)
(* the boot arguments, although the image may change while it is read:     *)
(* the build hashes it before and after (build-factory-firmware.py).       *)
THEOREM OneImage == FactorySpec => []OutputIsOfOneImage
<1>1. FactoryInv => OutputIsOfOneImage
  BY DEF FactoryInv, BuildInv
<1> QED
  BY FactoryStarts, FactorySteps, <1>1, PTL DEF FactorySpec, allVars

(* Of all runs with one output one publishes, and nothing replaces what it *)
(* published (os.link does not overwrite).                                 *)
THEOREM OnePublication == FactorySpec => PublishedOnce
<1>1. [FactoryNext]_allVars => [output # None => output' = output]_output
  BY OutputStays DEF FactoryNext, allVars, buildVars
<1> QED
  BY <1>1, PTL DEF FactorySpec, PublishedOnce, Build!PublishedOnce, allVars

LEMMA OrderBefore == NoPreparation => OrderInv
BY DEF NoPreparation, OrderInv, InOrder, Undisturbed, Accepted, RefusedForReason

(* Neither the preparation nor a run of the build that nothing disturbs is *)
(* refused for what it or an earlier run has done: a root half prepared is *)
(* prepared further, and every check the build makes of its own work       *)
(* passes; what refuses it is a root that is not Armbian's, or the output  *)
(* of another run.                                                         *)
THEOREM FailsWithReason == FactorySpec => []FailedForReason
<1> DEFINE All == FactoryInv /\ OrderInv /\ LuckInv
<1>1. FactoryInit => All
  BY FactoryStarts, OrderBefore, OrderStarts, LuckStarts DEF FactoryInit
<1>2. All /\ [FactoryNext]_allVars => All'
  <2> SUFFICES ASSUME FactoryInv, OrderInv, LuckInv, [FactoryNext]_allVars
               PROVE  FactoryInv' /\ OrderInv' /\ LuckInv'
    OBVIOUS
  <2>1. [Next]_vars /\ [Build!Next]_buildVars
    BY DEF FactoryNext, allVars
  <2>2. Inv /\ BuildInv
    BY DEF FactoryInv
  <2> QED
    BY <2>1, <2>2, FactorySteps, OrderStep, LuckStep
<1>3. All => FailedForReason
  <2> SUFFICES ASSUME FactoryInv, OrderInv, LuckInv PROVE FailedForReason
    OBVIOUS
  <2>1. RefusedForReason
    BY DEF OrderInv, Undisturbed, RefusedForReason
  <2>2. Build!FailsForReason
    BY DEF LuckInv, Lucky, Build!FailsForReason
  <2> QED
    BY <2>1, <2>2 DEF FailedForReason
<1> HIDE DEF All
<1> QED
  BY <1>1, <1>2, <1>3, PTL DEF FactorySpec, allVars
=============================================================================
