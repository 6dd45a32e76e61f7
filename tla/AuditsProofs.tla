---------------------------- MODULE AuditsProofs ----------------------------
(* What is proved of the checks of factory_firmware.py, for any firmware:  *)
(* the kernel can load the modules of an accepted one, its payloads do not *)
(* overlap, the other readers on the board find in its image, device tree  *)
(* and TAR what the audit has found, and nothing in its initrd is unseen.  *)
EXTENDS MCAudits, SequenceTheorems, FiniteSetTheorems, WellFoundedInduction, TLAPS

-----------------------------------------------------------------------------
(* The audit of the modules.                                               *)

FrameOf == [module : Modules, todo : SUBSET Modules]

ModuleTyped ==
    /\ tree \in Trees /\ tree.installed \subseteq Modules
    /\ roots \subseteq tree.installed /\ start \in Modules \cup {0}
    /\ active \in Seq(FrameOf) /\ visited \subseteq Modules
    /\ closures \in [Modules -> SUBSET Modules]
    /\ records \in Seq(SUBSET (Modules \cup Builtins)) /\ Len(records) <= Len(tree.soft)
    /\ pc \in {"lines", "soft", "walk", "done"} /\ verdict \in {"none", "accept", "reject"}

(* A module that does not depend on itself, also not by a detour.          *)
NoCircle(m) == \A d \in tree.dep[m] : m \notin Reach(tree.dep, d)

(* The recursion: its frames are the modules on the way from the start to  *)
(* where it is, each dependency of theirs is still to do, visited, or the  *)
(* next on the way.                                                        *)
OnTheWay ==
    /\ active # <<>> => active[1].module = start
    /\ \A i \in 1..Len(active) :
         /\ active[i].todo \subseteq tree.dep[active[i].module]
         /\ active[i].module \in Reach(tree.dep, start) \ visited
         /\ \A d \in tree.dep[active[i].module] \ active[i].todo :
              d \in visited \/ (i < Len(active) /\ d = active[i + 1].module)
    /\ \A i, j \in 1..Len(active) : active[i].module = active[j].module => i = j

(* What was visited leads to nothing else, and not back.                   *)
VisitedClosed ==
    visited \subseteq Reach(tree.dep, start)
    /\ \A v \in visited : tree.dep[v] \subseteq visited /\ NoCircle(v)

Correct(m) == closures[m] = Reach(tree.dep, m) /\ NoCircle(m)

ClosuresOK == \A m \in Modules : closures[m] # None => Correct(m)

(* Each module has been walked, is to be, or is where the walk began.      *)
Accounted ==
    /\ pc \in {"lines", "soft"} => roots = tree.installed
    /\ pc = "walk" =>
         /\ Required \subseteq tree.installed
         /\ \A m \in tree.installed \ roots : closures[m] # None \/ (active # <<>> /\ m = start)

(* A softdep is in force for what it is the first to match.                *)
Installed == tree.installed \cup Builtins

SoftsOK ==
    /\ \A i \in 1..Len(records) :
         /\ tree.soft[i].owners \cap Installed \subseteq selected
         /\ \A m \in records[i] : /\ m \in tree.soft[i].owners /\ m \in Installed
                                  /\ \A j \in 1..(i - 1) : m \notin tree.soft[j].owners
    /\ \A m \in selected : \E i \in 1..Len(records) : m \in records[i]

(* What was found in order before the verdict, and with it.                *)
Reviewed ==
    /\ verdict # "none" => pc = "done"
    /\ pc \in {"soft", "walk"} \/ verdict = "accept" => LinesCover(tree) /\ NeedsInLines(tree)
    /\ verdict = "accept" =>
         /\ InitrdClosed(tree) /\ Required \subseteq tree.installed
         /\ \A m \in tree.installed : NoCircle(m)
         /\ \A m \in Required : tree.index[m] = Reach(tree.dep, m)

ModuleInv ==
    /\ ModuleTyped /\ OnTheWay /\ VisitedClosed /\ ClosuresOK /\ Accounted /\ SoftsOK
    /\ Reviewed
-----------------------------------------------------------------------------
(* Numbers, sequences and what can be reached *)

LEMMA LeastIsOneOfThem ==
    ASSUME NEW S \in SUBSET Nat, S # {} PROVE Min(S) \in S /\ \A m \in S : Min(S) <= m
<1> DEFINE Less == {pair \in Nat \X Nat : pair[1] < pair[2]}
<1>1. IsWellFoundedOn(Less, Nat)
  BY NatLessThanWellFounded DEF OpToRel
<1>2. \A m, n \in Nat : m < n => <<m, n>> \in Less
  OBVIOUS
<1> HIDE DEF Less
<1>3. PICK n \in S : \A m \in S : ~(<<m, n>> \in Less)
  BY <1>1, WFMin
<1>4. \A m \in S : m \in Nat /\ n \in Nat /\ ~(m < n)
  BY <1>2, <1>3
<1>5. \A m \in S : n <= m
  BY <1>4
<1> QED
  BY <1>5 DEF Min

LEMMA TopOf ==
    ASSUME NEW S, NEW s \in Seq(S), s # <<>>
    PROVE  /\ Len(s) \in Nat \ {0} /\ Last(s) = s[Len(s)] /\ Last(s) \in S
           /\ Front(s) \in Seq(S) /\ Len(Front(s)) = Len(s) - 1
           /\ \A i \in 1..(Len(s) - 1) : Front(s)[i] = s[i]
<1> DEFINE n == Len(s) - 1
           m == 1
           t == SubSeq(s, m, n)
<1>1. /\ Len(s) \in Nat \ {0} /\ s[Len(s)] \in S
      /\ n \in Nat /\ n \in Int /\ m \in Int /\ \A i \in m..n : s[i] \in S
  OBVIOUS
<1> HIDE DEF m, n
<1>2. t \in Seq(S)
  BY <1>1, SubSeqProperties, Zenon
<1>3. Len(t) = IF m <= n THEN n - m + 1 ELSE 0
  BY <1>1, SubSeqProperties, Zenon
<1>4. \A i \in 1 .. n - m + 1 : t[i] = s[m + i - 1]
  BY <1>1, SubSeqProperties
<1>5. Len(t) = n
  BY <1>1, <1>3 DEF m
<1>6. \A i \in 1..n : t[i] = s[i]
  <2> SUFFICES ASSUME NEW i \in 1..n PROVE t[i] = s[i]
    OBVIOUS
  <2> HIDE DEF t
  <2>1. i \in 1 .. n - m + 1 /\ m + i - 1 = i
    BY <1>1 DEF m
  <2>2. t[i] = s[m + i - 1]
    BY <1>4, <2>1
  <2> QED
    BY <2>1, <2>2
<1> QED
  BY <1>1, <1>2, <1>5, <1>6 DEF m, n, Last, Front

(* The last element of a sequence is another. *)
LEMMA Replaced ==
    ASSUME NEW S, NEW s \in Seq(S), s # <<>>, NEW e \in S
    PROVE  LET t == Append(Front(s), e)
           IN  /\ t \in Seq(S) /\ Len(t) = Len(s) /\ t[Len(s)] = e
               /\ \A i \in 1..(Len(s) - 1) : t[i] = s[i]
<1> DEFINE f == Front(s)
<1>1. /\ Len(s) \in Nat \ {0} /\ f \in Seq(S) /\ Len(f) = Len(s) - 1
      /\ \A i \in 1..(Len(s) - 1) : f[i] = s[i]
  BY TopOf
<1> HIDE DEF f
<1>2. /\ Append(f, e) \in Seq(S) /\ Len(Append(f, e)) = Len(s) /\ Append(f, e)[Len(s)] = e
      /\ \A i \in 1..(Len(s) - 1) : Append(f, e)[i] = f[i]
  BY <1>1
<1> QED
  BY <1>1, <1>2 DEF f

LEMMA TreeOf ==
    ASSUME NEW t \in Trees
    PROVE  /\ t.installed \subseteq Modules /\ t.initrd \subseteq Modules
           /\ t.dep \in [Modules -> SUBSET Modules] /\ t.index \in [Modules -> SUBSET Modules]
           /\ t.needs \in [Modules -> SUBSET (Modules \cup Builtins)]
           /\ Len(t.soft) \in Nat /\ DOMAIN t.soft = 1..Len(t.soft)
BY TreesAssumption

(* Reach is the least set with the module that is closed. *)
LEMMA Reached ==
    ASSUME NEW edges \in [Modules -> SUBSET Modules], NEW m \in Modules
    PROVE  /\ m \in Reach(edges, m) /\ Reach(edges, m) \subseteq Modules
           /\ \A x \in Reach(edges, m) : edges[x] \subseteq Reach(edges, m)
BY DEF Reach

LEMMA ReachLeast ==
    ASSUME NEW edges, NEW m, NEW S \in SUBSET Modules, m \in S,
           \A x \in S : edges[x] \cap Modules \subseteq S
    PROVE  Reach(edges, m) \subseteq S
BY DEF Reach

-----------------------------------------------------------------------------
(* The invariant is kept *)

LEMMA ModuleStarts == Init => ModuleInv
<1> SUFFICES ASSUME Init PROVE ModuleInv
  OBVIOUS
<1>1. tree \in Trees /\ tree.installed \subseteq Modules /\ Len(tree.soft) \in Nat
  BY TreeOf DEF Init
<1>2. ModuleTyped
  BY <1>1 DEF Init, ModuleTyped, None
<1>3. OnTheWay /\ VisitedClosed
  BY DEF Init, OnTheWay, VisitedClosed
<1>4. ClosuresOK /\ Accounted /\ SoftsOK /\ Reviewed
  BY DEF Init, ClosuresOK, Accounted, SoftsOK, Reviewed
<1> QED
  BY <1>2, <1>3, <1>4 DEF ModuleInv

(* A step that leaves the walk and the softdeps as they are.               *)
LEMMA WalkKept ==
    ASSUME ModuleInv, tree' = tree, roots' = roots, start' = start, active' = active,
           visited' = visited, closures' = closures
    PROVE  OnTheWay' /\ VisitedClosed' /\ ClosuresOK'
<1>1. OnTheWay'
  BY DEF ModuleInv, OnTheWay
<1>2. VisitedClosed'
  BY DEF ModuleInv, VisitedClosed, NoCircle
<1>3. ClosuresOK'
  BY DEF ModuleInv, ClosuresOK, Correct, NoCircle
<1> QED
  BY <1>1, <1>2, <1>3

LEMMA SoftsKept ==
    ASSUME ModuleInv, tree' = tree, selected' = selected, records' = records
    PROVE  SoftsOK'
BY DEF ModuleInv, SoftsOK, Installed

LEMMA ReviewKept ==
    ASSUME ModuleInv, tree' = tree, verdict' = verdict, pc' = pc PROVE Reviewed'
BY DEF ModuleInv, Reviewed, NoCircle, LinesCover, NeedsInLines, InitrdClosed

(* A firmware that is rejected has still to be none of the accepted.       *)
LEMMA Rejected ==
    ASSUME ModuleInv, tree' = tree, Reject PROVE Accounted' /\ Reviewed'
BY DEF Reject, Accounted, Reviewed

LEMMA LinesStep == ASSUME ModuleInv, Lines PROVE ModuleInv'
<1>1. /\ tree' = tree /\ roots' = roots /\ start' = start /\ active' = active
      /\ visited' = visited /\ closures' = closures /\ selected' = selected
      /\ records' = records
  BY DEF Lines, walk
<1>2. OnTheWay' /\ VisitedClosed' /\ ClosuresOK' /\ SoftsOK'
  BY <1>1, WalkKept, SoftsKept
<1>3. pc' \in {"soft", "done"} /\ verdict' \in {verdict, "reject"}
  BY DEF Lines, Reject
<1>4. ModuleTyped'
  BY <1>1, <1>3 DEF ModuleInv, ModuleTyped
<1>5. Accounted' /\ Reviewed'
  <2>1. CASE Reject
    BY <1>1, <2>1, Rejected
  <2>2. CASE LinesCover(tree) /\ NeedsInLines(tree) /\ pc' = "soft" /\ verdict' = verdict
    <3>1. verdict = "none"
      BY DEF Lines, ModuleInv, Reviewed, ModuleTyped
    <3>2. roots = tree.installed
      BY DEF Lines, ModuleInv, Accounted
    <3> QED
      BY <1>1, <2>2, <3>1, <3>2 DEF Accounted, Reviewed, LinesCover, NeedsInLines
  <2> QED
    BY <2>1, <2>2 DEF Lines
<1> QED
  BY <1>2, <1>4, <1>5 DEF ModuleInv

LEMMA SelectedStep == ASSUME ModuleInv, Selected PROVE ModuleInv'
<1>1. /\ tree' = tree /\ roots' = roots /\ start' = start /\ active' = active
      /\ visited' = visited /\ closures' = closures /\ selected' = selected
      /\ records' = records
  BY DEF Selected, walk
<1>2. OnTheWay' /\ VisitedClosed' /\ ClosuresOK' /\ SoftsOK'
  BY <1>1, WalkKept, SoftsKept
<1>3. pc' \in {"walk", "done"} /\ verdict' \in {verdict, "reject"}
  BY DEF Selected, Reject
<1>4. ModuleTyped'
  BY <1>1, <1>3 DEF ModuleInv, ModuleTyped
<1>5. Accounted' /\ Reviewed'
  <2>1. CASE Reject
    BY <1>1, <2>1, Rejected
  <2>2. CASE Required \subseteq tree.installed /\ pc' = "walk" /\ verdict' = verdict
    <3>1. verdict = "none" /\ LinesCover(tree) /\ NeedsInLines(tree)
      BY DEF Selected, ModuleInv, Reviewed, ModuleTyped
    <3>2. roots = tree.installed
      BY DEF Selected, ModuleInv, Accounted
    <3> QED
      BY <1>1, <2>2, <3>1, <3>2 DEF Accounted, Reviewed, LinesCover, NeedsInLines
  <2> QED
    BY <2>1, <2>2 DEF Selected
<1> QED
  BY <1>2, <1>4, <1>5 DEF ModuleInv

LEMMA SelectStep == ASSUME ModuleInv, Select PROVE ModuleInv'
<1> DEFINE i == Len(records) + 1
           S == SUBSET (Modules \cup Builtins)
           owners == (tree.soft[i].owners \cap Installed) \ selected
<1>1. /\ tree' = tree /\ roots' = roots /\ start' = start /\ active' = active
      /\ visited' = visited /\ closures' = closures
      /\ selected' = selected \cup owners /\ records' = Append(records, owners)
      /\ pc = "soft" /\ i <= Len(tree.soft)
  BY DEF Select, walk, Installed
<1>2. OnTheWay' /\ VisitedClosed' /\ ClosuresOK'
  BY <1>1, WalkKept
<1>3. /\ records \in Seq(S) /\ Len(records) \in Nat
      /\ tree.installed \subseteq Modules
  BY DEF ModuleInv, ModuleTyped
<1>4. owners \in S
  BY <1>3 DEF Installed
<1> HIDE DEF S
<1>5. /\ records' \in Seq(S) /\ Len(records') = i
      /\ records'[i] = owners /\ \A j \in 1..Len(records) : records'[j] = records[j]
  BY <1>1, <1>3, <1>4
<1>6. pc' \in {"soft", "done"} /\ verdict' \in {verdict, "reject"}
  BY <1>1 DEF Select, Reject
<1>7. ModuleTyped'
  BY <1>1, <1>5, <1>6 DEF ModuleInv, ModuleTyped, S
<1>8. SoftsOK'
  <2> HIDE DEF owners
  <2>1. Installed' = Installed
    BY <1>1 DEF Installed
  <2>2. \A j \in 1..Len(records') : tree.soft[j].owners \cap Installed \subseteq selected'
    <3> SUFFICES ASSUME NEW j \in 1..Len(records')
                 PROVE  tree.soft[j].owners \cap Installed \subseteq selected'
      OBVIOUS
    <3>1. CASE j = i
      BY <1>1, <3>1 DEF owners
    <3>2. CASE j # i
      <4>1. j \in 1..Len(records)
        BY <1>3, <1>5, <3>2
      <4> QED
        BY <1>1, <4>1 DEF ModuleInv, SoftsOK
    <3> QED
      BY <3>1, <3>2
  <2>3. ASSUME NEW j \in 1..Len(records'), NEW m \in records'[j]
        PROVE  /\ m \in tree.soft[j].owners /\ m \in Installed
               /\ \A k \in 1..(j - 1) : m \notin tree.soft[k].owners
    <3>1. CASE j = i
      <4>1. m \in owners /\ m \in Installed /\ m \in tree.soft[i].owners /\ m \notin selected
        BY <1>5, <2>3, <3>1 DEF owners
      <4>2. \A k \in 1..Len(records) : m \notin tree.soft[k].owners
        BY <4>1 DEF ModuleInv, SoftsOK
      <4>3. i - 1 = Len(records)
        BY <1>3
      <4> QED
        BY <3>1, <4>1, <4>2, <4>3
    <3>2. CASE j # i
      <4>1. j \in 1..Len(records)
        BY <1>3, <1>5, <3>2
      <4>2. m \in records[j]
        BY <1>5, <2>3, <4>1
      <4> QED
        BY <4>1, <4>2 DEF ModuleInv, SoftsOK
    <3> QED
      BY <3>1, <3>2
  <2>4. ASSUME NEW m \in selected' PROVE \E j \in 1..Len(records') : m \in records'[j]
    <3>1. CASE m \in owners
      <4>1. i \in 1..Len(records')
        BY <1>3, <1>5
      <4> QED
        BY <1>5, <3>1, <4>1
    <3>2. CASE m \in selected
      <4>1. PICK j \in 1..Len(records) : m \in records[j]
        BY <3>2 DEF ModuleInv, SoftsOK
      <4>2. j \in 1..Len(records')
        BY <1>3, <1>5, <4>1
      <4> QED
        BY <1>5, <4>1, <4>2
    <3> QED
      BY <1>1, <3>1, <3>2
  <2> QED
    BY <1>1, <2>1, <2>2, <2>3, <2>4 DEF SoftsOK
<1>9. Accounted' /\ Reviewed'
  <2>1. CASE Reject
    BY <1>1, <2>1, Rejected
  <2>2. CASE pc' = pc /\ verdict' = verdict
    BY <1>1, <2>2, ReviewKept DEF ModuleInv, Accounted
  <2> QED
    BY <2>1, <2>2 DEF Select
<1> QED
  BY <1>2, <1>7, <1>8, <1>9 DEF ModuleInv

LEMMA BeginStep == ASSUME ModuleInv, Begin PROVE ModuleInv'
<1> DEFINE m == Min(roots)
           frame == [module |-> m, todo |-> tree.dep[m]]
<1>1. /\ tree' = tree /\ closures' = closures /\ selected' = selected /\ records' = records
      /\ pc' = pc /\ verdict' = verdict /\ pc = "walk" /\ roots # {}
      /\ start' = m /\ roots' = roots \ {m} /\ active' = <<frame>> /\ visited' = {}
      /\ active = <<>>
  BY DEF Begin, Frame
<1>2. /\ tree \in Trees /\ roots \subseteq tree.installed /\ tree.installed \subseteq Modules
      /\ Modules \subseteq Nat /\ tree.dep \in [Modules -> SUBSET Modules]
  BY ModulesAssumption, TreeOf DEF ModuleInv, ModuleTyped
<1>3. m \in roots /\ m \in Modules
  BY <1>1, <1>2, LeastIsOneOfThem
<1> HIDE DEF m
<1>4. frame \in FrameOf
  BY <1>2, <1>3 DEF FrameOf
<1>5. ModuleTyped'
  <2>1. active' \in Seq(FrameOf)
    <3> HIDE DEF frame
    <3> QED
      BY <1>1, <1>4
  <2> QED
    BY <1>1, <1>3, <2>1 DEF ModuleInv, ModuleTyped
<1>6. OnTheWay'
  <2>1. Len(active') = 1 /\ active'[1] = frame /\ active'[1].module = m
        /\ active'[1].todo = tree.dep[m]
    BY <1>1
  <2>2. m \in Reach(tree.dep, m)
    BY <1>2, <1>3, Reached
  <2>3. \A i \in 1..Len(active') : i = 1
    BY <2>1
  <2> HIDE DEF frame
  <2> QED
    BY <1>1, <2>1, <2>2, <2>3 DEF OnTheWay
<1>7. VisitedClosed'
  BY <1>1 DEF VisitedClosed
<1>8. ClosuresOK'
  BY <1>1 DEF ModuleInv, ClosuresOK, Correct, NoCircle
<1>9. Accounted'
  BY <1>1, <1>3 DEF ModuleInv, Accounted
<1> QED
  BY <1>1, <1>5, <1>6, <1>7, <1>8, <1>9, SoftsKept, ReviewKept DEF ModuleInv

(* A frame of the walk and what is known of it.                            *)
LEMMA FramesOf ==
    ASSUME ModuleInv, active # <<>>
    PROVE  LET n == Len(active)
           IN  /\ n \in Nat \ {0} /\ Last(active) = active[n] /\ active[n] \in FrameOf
               /\ tree.dep \in [Modules -> SUBSET Modules] /\ Modules \subseteq Nat
               /\ start \in Modules /\ active \in Seq(FrameOf)
               /\ active[n].module \in Reach(tree.dep, start) \ visited
               /\ active[n].todo \subseteq tree.dep[active[n].module]
<1> DEFINE n == Len(active)
<1>1. active \in Seq(FrameOf) /\ tree \in Trees
  BY DEF ModuleInv, ModuleTyped
<1>2. n \in Nat \ {0} /\ Last(active) = active[n] /\ active[n] \in FrameOf
  BY <1>1, TopOf
<1>3. active[1] \in FrameOf /\ active[1].module = start
  BY <1>1, <1>2 DEF ModuleInv, OnTheWay
<1>4. start \in Modules
  BY <1>3 DEF FrameOf
<1>5. tree.dep \in [Modules -> SUBSET Modules] /\ Modules \subseteq Nat
  BY <1>1, TreeOf, ModulesAssumption
<1> HIDE DEF n
<1>6. n \in 1..Len(active)
  BY <1>2 DEF n
<1>7. /\ active[n].module \in Reach(tree.dep, start) \ visited
      /\ active[n].todo \subseteq tree.dep[active[n].module]
  BY <1>6 DEF ModuleInv, OnTheWay
<1> QED
  BY <1>1, <1>2, <1>4, <1>5, <1>7 DEF n

LEMMA VisitStep == ASSUME ModuleInv, Visit PROVE ModuleInv'
<1> DEFINE n == Len(active)
           top == active[n]
           m == Min(top.todo)
           less == [top EXCEPT !.todo = top.todo \ {m}]
           rest == Append(Front(active), less)
<1>1. /\ tree' = tree /\ roots' = roots /\ start' = start /\ visited' = visited
      /\ closures' = closures /\ selected' = selected /\ records' = records
      /\ pc = "walk" /\ active # <<>> /\ Last(active).todo # {}
  BY DEF Visit
<1>2. /\ n \in Nat \ {0} /\ Last(active) = top /\ top \in FrameOf
      /\ tree.dep \in [Modules -> SUBSET Modules] /\ Modules \subseteq Nat
      /\ start \in Modules /\ active \in Seq(FrameOf)
      /\ top.module \in Reach(tree.dep, start) \ visited
      /\ top.todo \subseteq tree.dep[top.module]
  BY <1>1, FramesOf
<1>3. \/ Reject /\ active' = active
      \/ m \in visited /\ active' = rest /\ pc' = pc /\ verdict' = verdict
      \/ /\ ~Cycle(m) /\ m \notin visited /\ active' = Append(rest, Frame(m))
         /\ pc' = pc /\ verdict' = verdict
  BY <1>2 DEF Visit
<1>4. m \in top.todo /\ m \in Modules /\ top.module \in Modules /\ top.todo \subseteq Modules
  <2>1. top.todo \subseteq Modules /\ top.module \in Modules
    BY <1>2 DEF FrameOf
  <2> QED
    BY <1>1, <1>2, <2>1, LeastIsOneOfThem
<1> HIDE DEF m
<1>5. less \in FrameOf /\ less.module = top.module /\ less.todo = top.todo \ {m}
  BY <1>2, <1>4 DEF FrameOf
<1> HIDE DEF less, n, top
<1>6. /\ rest \in Seq(FrameOf) /\ Len(rest) = n /\ rest[n] = less
      /\ \A i \in 1..(n - 1) : rest[i] = active[i]
  BY <1>1, <1>2, <1>5, Replaced DEF n
<1> HIDE DEF rest
<1>7. \A i \in 1..n : rest[i].module = active[i].module
  BY <1>2, <1>5, <1>6 DEF top
<1>8. VisitedClosed' /\ ClosuresOK' /\ SoftsOK'
  <2>1. VisitedClosed'
    BY <1>1 DEF ModuleInv, VisitedClosed, NoCircle
  <2>2. ClosuresOK'
    BY <1>1 DEF ModuleInv, ClosuresOK, Correct, NoCircle
  <2> QED
    BY <1>1, <2>1, <2>2, SoftsKept
<1>9. CASE Reject /\ active' = active
  <2>1. pc' = "done" /\ verdict' = "reject"
    BY <1>9 DEF Reject
  <2>2. ModuleTyped'
    BY <1>1, <1>9, <2>1 DEF ModuleInv, ModuleTyped
  <2> QED
    BY <1>1, <1>8, <1>9, <2>2, WalkKept, Rejected DEF ModuleInv
<1>10. ASSUME pc' = pc, verdict' = verdict, active' \in Seq(FrameOf), active' # <<>>, OnTheWay'
       PROVE  ModuleInv'
  <2>1. ModuleTyped'
    BY <1>1, <1>10 DEF ModuleInv, ModuleTyped
  <2>2. Accounted'
    BY <1>1, <1>10 DEF ModuleInv, Accounted
  <2> QED
    BY <1>1, <1>8, <1>10, <2>1, <2>2, ReviewKept DEF ModuleInv
<1>11. CASE m \in visited /\ active' = rest /\ pc' = pc /\ verdict' = verdict
  <2>1. active' # <<>> /\ Len(active') = n
    BY <1>2, <1>6, <1>11
  <2>2. active'[1].module = start'
    BY <1>1, <1>2, <1>7, <1>11 DEF ModuleInv, OnTheWay
  <2>3. ASSUME NEW i \in 1..n
        PROVE  /\ active'[i].todo \subseteq tree.dep[active'[i].module]
               /\ active'[i].module \in Reach(tree.dep, start) \ visited
               /\ \A d \in tree.dep[active'[i].module] \ active'[i].todo :
                     d \in visited \/ (i < n /\ d = active'[i + 1].module)
    <3>1. /\ active[i].todo \subseteq tree.dep[active[i].module]
          /\ active[i].module \in Reach(tree.dep, start) \ visited
          /\ \A d \in tree.dep[active[i].module] \ active[i].todo :
                d \in visited \/ (i < n /\ d = active[i + 1].module)
      BY <2>3 DEF ModuleInv, OnTheWay, n
    <3>2. CASE i = n
      BY <1>5, <1>6, <1>7, <1>11, <3>1, <3>2 DEF top
    <3>3. CASE i # n
      <4>1. i \in 1..(n - 1) /\ i + 1 \in 1..n
        BY <1>2, <3>3
      <4>2. active'[i] = active[i] /\ active'[i + 1].module = active[i + 1].module
        BY <1>6, <1>7, <1>11, <4>1
      <4> QED
        BY <3>1, <4>2
    <3> QED
      BY <3>2, <3>3
  <2>4. \A i, j \in 1..n : active'[i].module = active'[j].module => i = j
    BY <1>7, <1>11 DEF ModuleInv, OnTheWay, n
  <2>5. OnTheWay'
    BY <1>1, <2>1, <2>2, <2>3, <2>4 DEF OnTheWay
  <2> QED
    BY <1>6, <1>10, <1>11, <2>1, <2>5
<1>12. CASE /\ ~Cycle(m) /\ m \notin visited /\ active' = Append(rest, Frame(m))
            /\ pc' = pc /\ verdict' = verdict
  <2> DEFINE frame == Frame(m)
  <2>1. frame \in FrameOf /\ frame.module = m /\ frame.todo = tree.dep[m]
    BY <1>2, <1>4 DEF Frame, FrameOf
  <2> HIDE DEF frame
  <2>2. /\ active' \in Seq(FrameOf) /\ Len(active') = n + 1 /\ active'[n + 1] = frame
        /\ \A i \in 1..n : active'[i] = rest[i]
    BY <1>2, <1>6, <1>12, <2>1 DEF frame
  <2>3. m \in Reach(tree.dep, start) /\ m \in tree.dep[top.module]
    BY <1>2, <1>4, Reached
  <2>4. \A i \in 1..n : active[i].module # m
    BY <1>2, <1>12 DEF Cycle, Path, n
  <2>5. active'[1].module = start'
    BY <1>1, <1>2, <1>7, <2>2 DEF ModuleInv, OnTheWay
  <2>6. ASSUME NEW i \in 1..(n + 1)
        PROVE  /\ active'[i].todo \subseteq tree.dep[active'[i].module]
               /\ active'[i].module \in Reach(tree.dep, start) \ visited
               /\ \A d \in tree.dep[active'[i].module] \ active'[i].todo :
                     d \in visited \/ (i < n + 1 /\ d = active'[i + 1].module)
    <3>1. CASE i = n + 1
      BY <1>12, <2>1, <2>2, <2>3, <3>1
    <3>2. CASE i # n + 1
      <4>0. i \in 1..n
        BY <1>2, <3>2
      <4>1. /\ active[i].todo \subseteq tree.dep[active[i].module]
            /\ active[i].module \in Reach(tree.dep, start) \ visited
            /\ \A d \in tree.dep[active[i].module] \ active[i].todo :
                  d \in visited \/ (i < n /\ d = active[i + 1].module)
        BY <4>0 DEF ModuleInv, OnTheWay, n
      <4>2. CASE i = n
        <5>1. active'[i] = less /\ active'[i + 1].module = m /\ i < n + 1
          BY <1>2, <1>6, <2>1, <2>2, <4>0, <4>2
        <5> QED
          BY <1>5, <4>1, <4>2, <5>1 DEF top
      <4>3. CASE i # n
        <5>1. i \in 1..(n - 1) /\ i + 1 \in 1..n /\ i < n + 1
          BY <1>2, <4>0, <4>3
        <5>2. active'[i] = active[i] /\ active'[i + 1].module = active[i + 1].module
          BY <1>6, <1>7, <2>2, <4>0, <5>1
        <5> QED
          BY <4>1, <5>1, <5>2
      <4> QED
        BY <4>2, <4>3
    <3> QED
      BY <3>1, <3>2
  <2>7. ASSUME NEW i \in 1..(n + 1), NEW j \in 1..(n + 1),
               active'[i].module = active'[j].module
        PROVE  i = j
    <3>1. \A k \in 1..(n + 1) : k = n + 1 \/ k \in 1..n
      BY <1>2
    <3>2. \A k \in 1..n : active'[k].module = active[k].module
      BY <1>7, <2>2
    <3>3. active'[n + 1].module = m
      BY <2>1, <2>2
    <3>4. \A k, l \in 1..n : active[k].module = active[l].module => k = l
      BY DEF ModuleInv, OnTheWay, n
    <3> QED
      BY <2>4, <2>7, <3>1, <3>2, <3>3, <3>4
  <2>8. active' # <<>>
    BY <1>2, <2>2
  <2>9. OnTheWay'
    BY <1>1, <2>2, <2>5, <2>6, <2>7 DEF OnTheWay
  <2> QED
    BY <1>10, <1>12, <2>2, <2>8, <2>9
<1> QED
  BY <1>3, <1>9, <1>11, <1>12

LEMMA ReturnStep == ASSUME ModuleInv, Return PROVE ModuleInv'
<1> DEFINE n == Len(active)
           m == active[n].module
           done == visited \cup {m}
<1>1. /\ tree' = tree /\ roots' = roots /\ start' = start /\ selected' = selected
      /\ records' = records /\ pc' = pc /\ verdict' = verdict
      /\ pc = "walk" /\ active # <<>> /\ Last(active).todo = {} /\ active' = Front(active)
      /\ visited' = visited \cup {Last(active).module}
      /\ closures' = IF n = 1 THEN [closures EXCEPT ![start] = visited \cup {Last(active).module}]
                              ELSE closures
  BY DEF Return
<1>2. /\ n \in Nat \ {0} /\ Last(active) = active[n] /\ active[n] \in FrameOf
      /\ tree.dep \in [Modules -> SUBSET Modules] /\ start \in Modules
      /\ active \in Seq(FrameOf) /\ m \in Reach(tree.dep, start) \ visited
  BY <1>1, FramesOf
<1>3. m \in Modules
  BY <1>2 DEF FrameOf
<1>4. /\ Front(active) \in Seq(FrameOf) /\ Len(Front(active)) = n - 1
      /\ \A i \in 1..(n - 1) : Front(active)[i] = active[i]
  BY <1>1, <1>2, TopOf
<1>5. \A i \in 1..n :
         /\ active[i].todo \subseteq tree.dep[active[i].module]
         /\ active[i].module \in Reach(tree.dep, start) \ visited
         /\ \A d \in tree.dep[active[i].module] \ active[i].todo :
              d \in visited \/ (i < n /\ d = active[i + 1].module)
  BY DEF ModuleInv, OnTheWay
<1>6. \A i, j \in 1..n : active[i].module = active[j].module => i = j
  BY DEF ModuleInv, OnTheWay
<1>7. active[1].module = start
  BY <1>1 DEF ModuleInv, OnTheWay
<1>8. visited' = done /\ active[n].todo = {}
  BY <1>1, <1>2
<1>9. /\ closures \in [Modules -> SUBSET Modules] /\ visited \subseteq Modules
      /\ visited \subseteq Reach(tree.dep, start)
      /\ \A v \in visited : tree.dep[v] \subseteq visited
  BY DEF ModuleInv, ModuleTyped, VisitedClosed
<1> HIDE DEF n
<1>10. tree.dep[m] \subseteq visited
  <2>1. n \in 1..n /\ ~(n < n)
    BY <1>2
  <2> QED
    BY <1>5, <1>8, <2>1
<1> HIDE DEF m
<1>11. NoCircle(m)
  <2> SUFFICES ASSUME NEW d \in tree.dep[m] PROVE m \notin Reach(tree.dep, d)
    BY DEF NoCircle
  <2>1. d \in visited
    BY <1>10
  <2>2. Reach(tree.dep, d) \subseteq visited
    <3>1. \A x \in visited : tree.dep[x] \cap Modules \subseteq visited
      BY <1>9
    <3> QED
      BY <1>9, <2>1, <3>1, ReachLeast
  <2> QED
    BY <1>2, <2>2
<1>12. VisitedClosed'
  <2>1. \A v \in visited : NoCircle(v)
    BY DEF ModuleInv, VisitedClosed
  <2>2. done \subseteq Reach(tree.dep, start)
    BY <1>2, <1>9
  <2>3. \A v \in done : tree.dep[v] \subseteq done /\ NoCircle(v)
    BY <1>9, <1>10, <1>11, <2>1
  <2> HIDE DEF done
  <2> QED
    BY <1>1, <1>8, <2>2, <2>3 DEF VisitedClosed, NoCircle
<1>13. OnTheWay'
  <2>1. active' # <<>> => 1 \in 1..(n - 1) /\ active'[1].module = start'
    <3> SUFFICES ASSUME active' # <<>> PROVE 1 \in 1..(n - 1) /\ active'[1].module = start'
      OBVIOUS
    <3>1. n - 1 # 0
      BY <1>1, <1>4
    <3>2. 1 \in 1..(n - 1)
      BY <1>2, <3>1
    <3> QED
      BY <1>1, <1>4, <1>7, <3>2
  <2>2. ASSUME NEW i \in 1..(n - 1)
        PROVE  /\ active[i].todo \subseteq tree.dep[active[i].module]
               /\ active[i].module \in Reach(tree.dep, start) \ done
               /\ \A d \in tree.dep[active[i].module] \ active[i].todo :
                    d \in done \/ (i < n - 1 /\ d = Front(active)[i + 1].module)
    <3>1. i \in 1..n /\ i # n /\ n \in 1..n
      BY <1>2
    <3>2. active[i].module # m
      BY <1>6, <3>1 DEF m
    <3>3. CASE i = n - 1
      <4>1. i + 1 = n
        BY <1>2, <3>3
      <4> QED
        BY <1>5, <3>1, <3>2, <4>1 DEF m
    <3>4. CASE i # n - 1
      <4>1. i < n - 1 /\ i + 1 \in 1..(n - 1)
        BY <1>2, <3>4
      <4>2. Front(active)[i + 1] = active[i + 1]
        BY <1>4, <4>1
      <4> QED
        BY <1>5, <3>1, <3>2, <4>1, <4>2
    <3> QED
      BY <3>3, <3>4
  <2>3. \A i, j \in 1..(n - 1) : active[i].module = active[j].module => i = j
    <3>1. \A i \in 1..(n - 1) : i \in 1..n
      BY <1>2
    <3> QED
      BY <1>6, <3>1
  <2>4. Len(active') = n - 1 /\ \A i \in 1..(n - 1) : active'[i] = active[i]
    BY <1>1, <1>4
  <2> HIDE DEF done
  <2> QED
    BY <1>1, <1>8, <2>1, <2>2, <2>3, <2>4 DEF OnTheWay
<1>14. CASE n = 1
  <2>1. m = start
    BY <1>7, <1>14 DEF m
  <2>2. Reach(tree.dep, start) = done
    <3>1. \A x \in done : tree.dep[x] \cap Modules \subseteq done
      BY <1>9, <1>10
    <3>2. start \in done /\ done \in SUBSET Modules
      BY <1>3, <1>9, <2>1
    <3>3. Reach(tree.dep, start) \subseteq done
      <4> HIDE DEF done
      <4> QED
        BY <3>1, <3>2, ReachLeast
    <3> QED
      BY <1>2, <1>9, <3>3
  <2>3. closures' = [closures EXCEPT ![start] = done]
    BY <1>1, <1>2, <1>14 DEF m
  <2>4. done \subseteq Modules /\ done # None
    BY <1>3, <1>9 DEF None
  <2> HIDE DEF done
  <2>5. ClosuresOK'
    <3> SUFFICES ASSUME NEW x \in Modules, closures'[x] # None
                 PROVE  closures'[x] = Reach(tree.dep, x) /\ NoCircle(x)
      BY <1>1 DEF ClosuresOK, Correct, NoCircle
    <3>1. CASE x = start
      BY <1>9, <1>11, <2>1, <2>2, <2>3, <3>1
    <3>2. CASE x # start
      BY <1>9, <2>3, <3>2 DEF ModuleInv, ClosuresOK, Correct
    <3> QED
      BY <3>1, <3>2
  <2>6. ModuleTyped'
    BY <1>1, <1>2, <1>4, <1>8, <1>9, <2>3, <2>4 DEF ModuleInv, ModuleTyped
  <2>7. Accounted'
    BY <1>1, <1>2, <1>9, <2>3, <2>4 DEF ModuleInv, Accounted, ModuleTyped
  <2> QED
    BY <1>1, <1>12, <1>13, <2>5, <2>6, <2>7, SoftsKept, ReviewKept DEF ModuleInv
<1>15. CASE n # 1
  <2>1. closures' = closures
    BY <1>1, <1>15
  <2>2. ClosuresOK'
    BY <1>1, <2>1 DEF ModuleInv, ClosuresOK, Correct, NoCircle
  <2>3. visited' \subseteq Modules
    BY <1>3, <1>8, <1>9
  <2>4. ModuleTyped'
    BY <1>1, <1>4, <2>1, <2>3 DEF ModuleInv, ModuleTyped
  <2>5. active' # <<>>
    <3>1. Len(active') # 0
      BY <1>1, <1>2, <1>4, <1>15
    <3> QED
      BY <3>1
  <2>6. Accounted'
    BY <1>1, <2>1, <2>5 DEF ModuleInv, Accounted
  <2> QED
    BY <1>1, <1>12, <1>13, <2>2, <2>4, <2>6, SoftsKept, ReviewKept DEF ModuleInv
<1> QED
  BY <1>14, <1>15

LEMMA WalkedStep == ASSUME ModuleInv, Walked PROVE ModuleInv'
<1>1. /\ tree' = tree /\ roots' = roots /\ start' = start /\ active' = active
      /\ visited' = visited /\ closures' = closures /\ selected' = selected
      /\ records' = records /\ pc = "walk" /\ active = <<>> /\ roots = {} /\ pc' = "done"
      /\ verdict' \in {"accept", "reject"}
      /\ verdict' = "accept" => InitrdClosed(tree) /\ IndexAgrees(tree)
  BY DEF Walked, walk
<1>2. OnTheWay' /\ VisitedClosed' /\ ClosuresOK' /\ SoftsOK'
  BY <1>1, WalkKept, SoftsKept
<1>3. ModuleTyped'
  BY <1>1 DEF ModuleInv, ModuleTyped
<1>4. Accounted'
  BY <1>1 DEF Accounted
<1>5. \A m \in tree.installed : Correct(m)
  BY <1>1 DEF ModuleInv, ModuleTyped, Accounted, ClosuresOK
<1>6. /\ LinesCover(tree) /\ NeedsInLines(tree) /\ Required \subseteq tree.installed
  BY <1>1 DEF ModuleInv, Reviewed, Accounted
<1>7. verdict' = "accept" => \A m \in Required : tree.index[m] = Reach(tree.dep, m)
  BY <1>1, <1>5, <1>6 DEF IndexAgrees, Correct
<1>8. Reviewed'
  BY <1>1, <1>5, <1>6, <1>7 DEF Reviewed, Correct, NoCircle, LinesCover, NeedsInLines,
     InitrdClosed
<1> QED
  BY <1>2, <1>3, <1>4, <1>8 DEF ModuleInv

LEMMA ModuleSteps == ASSUME ModuleInv, Next PROVE ModuleInv'
BY LinesStep, SelectStep, SelectedStep, BeginStep, VisitStep, ReturnStep, WalkedStep DEF Next

LEMMA ModuleStays == ASSUME ModuleInv, UNCHANGED <<moduleVars, verdict>> PROVE ModuleInv'
<1>1. /\ tree' = tree /\ roots' = roots /\ start' = start /\ active' = active
      /\ visited' = visited /\ closures' = closures /\ selected' = selected
      /\ records' = records /\ pc' = pc /\ verdict' = verdict
  BY DEF moduleVars, walk
<1>2. ModuleTyped' /\ Accounted'
  BY <1>1 DEF ModuleInv, ModuleTyped, Accounted
<1> QED
  BY <1>1, <1>2, WalkKept, SoftsKept, ReviewKept DEF ModuleInv

-----------------------------------------------------------------------------
(* What follows from the invariant *)

LEMMA ModuleTypes == ModuleInv => TypeOK
<1> SUFFICES ASSUME ModuleInv PROVE TypeOK
  OBVIOUS
<1>1. ModuleTyped /\ DOMAIN active = 1..Len(active)
  BY DEF ModuleInv, ModuleTyped
<1>2. \A i \in DOMAIN active : active[i].todo \subseteq tree.dep[active[i].module]
  BY <1>1 DEF ModuleInv, OnTheWay
<1>3. IsInjective([i \in DOMAIN active |-> active[i].module])
  BY <1>1 DEF ModuleInv, OnTheWay, IsInjective
<1>4. roots \subseteq Modules
  BY <1>1 DEF ModuleTyped
<1> QED
  BY <1>1, <1>2, <1>3, <1>4 DEF ModuleTyped, TypeOK

LEMMA ModuleClosures == ModuleInv => ClosuresAreReach
<1> SUFFICES ASSUME ModuleInv PROVE ClosuresAreReach
  OBVIOUS
<1>1. pc = "walk" /\ active = <<>> /\ roots = {} => \A m \in tree.installed : NoCircle(m)
  BY DEF ModuleInv, ModuleTyped, Accounted, ClosuresOK, Correct
<1> QED
  BY <1>1 DEF ModuleInv, ClosuresOK, Correct, ClosuresAreReach, Acyclic, NoCircle

LEMMA ModuleSofts == ModuleInv => FirstDeclarationCounts
<1> SUFFICES ASSUME ModuleInv, NEW m \in selected
             PROVE  {i \in DOMAIN records : m \in records[i]} =
                        {Min({i \in DOMAIN records : m \in tree.soft[i].owners})}
  BY DEF FirstDeclarationCounts
<1> DEFINE Matching == {i \in DOMAIN records : m \in tree.soft[i].owners}
<1>1. DOMAIN records = 1..Len(records) /\ Len(records) \in Nat
  BY DEF ModuleInv, ModuleTyped
<1>2. PICK k \in 1..Len(records) : m \in records[k]
  BY DEF ModuleInv, SoftsOK
<1>3. \A i \in 1..Len(records) :
         m \in records[i] => i \in Matching /\ \A j \in 1..(i - 1) : j \notin Matching
  BY <1>1 DEF ModuleInv, SoftsOK
<1>4. Matching \in SUBSET Nat /\ Matching \subseteq 1..Len(records)
  BY <1>1
<1> HIDE DEF Matching
<1>5. Min(Matching) \in Matching /\ \A j \in Matching : Min(Matching) <= j
  BY <1>2, <1>3, <1>4, LeastIsOneOfThem
<1>6. ASSUME NEW i \in 1..Len(records), m \in records[i] PROVE i = Min(Matching)
  <2>1. Min(Matching) <= i /\ Min(Matching) \in 1..Len(records) /\ i \in Nat
    BY <1>1, <1>3, <1>4, <1>5, <1>6
  <2>2. Min(Matching) \notin 1..(i - 1)
    BY <1>3, <1>5, <1>6
  <2> QED
    BY <1>1, <2>1, <2>2
<1>7. Min(Matching) = k
  BY <1>2, <1>6
<1> QED
  BY <1>1, <1>2, <1>6, <1>7 DEF Matching

LEMMA ModuleLoads == ModuleInv => AcceptedCanLoad
<1> SUFFICES ASSUME ModuleInv, verdict = "accept"
             PROVE  /\ \A m \in tree.initrd : Reach(Needed(tree), m) \subseteq tree.initrd
                    /\ \A m \in Required : Reach(Needed(tree), m) \subseteq tree.index[m]
                    /\ \A m \in tree.installed : \A d \in Needed(tree)[m] :
                         m \notin Reach(Needed(tree), d)
  BY DEF AcceptedCanLoad
<1> DEFINE needed == Needed(tree)
           dep == tree.dep
           installed == tree.installed
<1>1. /\ LinesCover(tree) /\ NeedsInLines(tree) /\ InitrdClosed(tree)
      /\ Required \subseteq installed /\ \A m \in installed : NoCircle(m)
      /\ \A m \in Required : tree.index[m] = Reach(dep, m)
  BY DEF ModuleInv, Reviewed
<1>2. tree \in Trees /\ installed \subseteq Modules
  BY DEF ModuleInv, ModuleTyped
<1>3. /\ dep \in [Modules -> SUBSET Modules] /\ tree.initrd \subseteq installed
      /\ \A m \in installed : dep[m] \subseteq installed /\ tree.needs[m] \subseteq Builtins \cup dep[m]
      /\ \A m \in tree.initrd : dep[m] \subseteq tree.initrd
  BY <1>1, <1>2, TreeOf DEF LinesCover, NeedsInLines, InitrdClosed
<1>4. \A m \in installed : needed[m] \subseteq dep[m]
  BY <1>2, <1>3 DEF Needed
<1> HIDE DEF needed, dep, installed
<1>5. ASSUME NEW m \in tree.initrd PROVE Reach(needed, m) \subseteq tree.initrd
  <2>1. \A x \in tree.initrd : needed[x] \cap Modules \subseteq tree.initrd
    BY <1>3, <1>4
  <2>2. tree.initrd \in SUBSET Modules
    BY <1>2, <1>3
  <2> QED
    BY <2>1, <2>2, ReachLeast
<1>6. ASSUME NEW m \in installed PROVE Reach(needed, m) \subseteq Reach(dep, m)
  <2> DEFINE S == Reach(dep, m) \cap installed
  <2>1. /\ m \in Reach(dep, m) /\ Reach(dep, m) \subseteq Modules
        /\ \A x \in Reach(dep, m) : dep[x] \subseteq Reach(dep, m)
    BY <1>2, <1>3, Reached
  <2>2. S \in SUBSET Modules /\ m \in S
    BY <2>1
  <2>3. \A x \in S : needed[x] \cap Modules \subseteq S
    BY <1>3, <1>4, <2>1
  <2> HIDE DEF S
  <2>4. Reach(needed, m) \subseteq S
    BY <2>2, <2>3, ReachLeast
  <2> QED
    BY <2>4 DEF S
<1>7. \A m \in Required : Reach(needed, m) \subseteq tree.index[m]
  BY <1>1, <1>6
<1>8. ASSUME NEW m \in installed, NEW d \in needed[m] PROVE m \notin Reach(needed, d)
  <2>1. d \in dep[m] /\ d \in installed
    BY <1>3, <1>4
  <2>2. m \notin Reach(dep, d)
    BY <1>1, <2>1 DEF NoCircle, dep
  <2> QED
    BY <1>6, <2>1, <2>2
<1> QED
  BY <1>5, <1>7, <1>8 DEF needed, installed

(* A module on the way leads to each that follows it, and a sound firmware *)
(* is not refused.                                                         *)
Chained ==
    /\ active # <<>> => start \in tree.installed
    /\ \A i, j \in 1..Len(active) :
         i <= j => active[j].module \in Reach(tree.dep, active[i].module)
    /\ SoundIsNotRefused

LEMMA SoundStays == ASSUME tree' = tree PROVE Sound(tree)' <=> Sound(tree)
OBVIOUS

(* What Sound says, in the terms of the checks.                            *)
LEMMA SoundPasses ==
    ASSUME NEW t \in Trees, Sound(t)
    PROVE  /\ LinesCover(t) /\ NeedsInLines(t) /\ InitrdClosed(t) /\ Required \subseteq t.installed
           /\ \A i \in DOMAIN t.soft : ~Dangling(t, i) /\ t.aliasIndex[i] = t.soft[i].targets
           /\ \A m \in t.installed : t.index[m] = Reach(t.dep, m)
           /\ \A m \in t.installed : \A d \in t.dep[m] : m \notin Reach(t.dep, d)
<1>1. /\ t.lines = t.installed /\ Required \subseteq t.installed
      /\ \A m \in t.installed : t.dep[m] = Reach(Needed(t), m) \ {m} /\ m \notin t.needs[m]
      /\ \A m \in t.installed : t.dep[m] \subseteq t.installed
      /\ \A m \in t.initrd : Reach(Needed(t), m) \subseteq t.initrd
      /\ t.initrd \subseteq t.installed
  BY DEF Sound
<1>2. /\ \A i \in DOMAIN t.soft : ~Dangling(t, i) /\ t.aliasIndex[i] = t.soft[i].targets
      /\ \A m \in t.installed : t.index[m] = Reach(t.dep, m)
      /\ \A m \in t.installed : \A d \in t.dep[m] : m \notin Reach(t.dep, d)
  BY DEF Sound, Acyclic
<1>3. LinesCover(t)
  BY <1>1 DEF LinesCover
<1>4. NeedsInLines(t)
  <2> SUFFICES ASSUME NEW m \in t.installed, NEW x \in t.needs[m], x \notin Builtins
               PROVE  x \in t.dep[m] \cap t.installed
    BY DEF NeedsInLines
  <2> DEFINE needed == Needed(t)
  <2>1. m \in Modules /\ t.needs \in [Modules -> SUBSET (Modules \cup Builtins)]
    BY TreeOf
  <2>2. x \in needed[m] /\ needed \in [Modules -> SUBSET Modules]
    BY <2>1 DEF Needed
  <2> HIDE DEF needed
  <2>3. x \in Reach(needed, m)
    BY <2>1, <2>2, Reached
  <2>4. x # m
    BY <1>1
  <2> QED
    BY <1>1, <2>3, <2>4 DEF needed
<1>5. InitrdClosed(t)
  <2> SUFFICES ASSUME NEW m \in t.initrd PROVE t.dep[m] \subseteq t.initrd
    BY <1>1 DEF InitrdClosed
  <2> QED
    BY <1>1
<1> QED
  BY <1>1, <1>2, <1>3, <1>4, <1>5

(* What a step of the walk does to the modules on the way.                 *)
LEMMA VisitFrames ==
    ASSUME ModuleInv, Visit
    PROVE  LET n == Len(active)
           IN  \/ /\ active' = active /\ verdict' = "reject" /\ pc' = "done"
                  /\ \E i \in 1..n : active[i].module \in tree.dep[active[n].module]
               \/ /\ active' \in Seq(FrameOf) /\ Len(active') = n
                  /\ \A i \in 1..n : active'[i].module = active[i].module
                  /\ StrictlyWithin(active'[n].todo, active[n].todo)
                  /\ verdict' = verdict /\ pc' = pc
               \/ /\ active' \in Seq(FrameOf) /\ Len(active') = n + 1
                  /\ \A i \in 1..n : active'[i].module = active[i].module
                  /\ active'[n + 1].module \in tree.dep[active[n].module]
                  /\ active'[n + 1].module \notin visited \cup Path
                  /\ verdict' = verdict /\ pc' = pc
<1> DEFINE n == Len(active)
           top == active[n]
           m == Min(top.todo)
           less == [top EXCEPT !.todo = top.todo \ {m}]
           rest == Append(Front(active), less)
<1>1. active # <<>> /\ Last(active).todo # {}
  BY DEF Visit
<1>2. /\ n \in Nat \ {0} /\ Last(active) = top /\ top \in FrameOf
      /\ tree.dep \in [Modules -> SUBSET Modules] /\ Modules \subseteq Nat
      /\ active \in Seq(FrameOf) /\ top.todo \subseteq tree.dep[top.module]
  BY <1>1, FramesOf
<1>3. \/ Cycle(m) /\ Reject /\ active' = active
      \/ m \in visited /\ active' = rest /\ pc' = pc /\ verdict' = verdict
      \/ /\ ~Cycle(m) /\ m \notin visited /\ active' = Append(rest, Frame(m))
         /\ pc' = pc /\ verdict' = verdict
  BY <1>2 DEF Visit
<1>4. m \in top.todo /\ m \in Modules /\ m \in tree.dep[top.module]
  <2>1. top.todo \subseteq Modules
    BY <1>2 DEF FrameOf
  <2>2. m \in top.todo
    BY <1>1, <1>2, <2>1, LeastIsOneOfThem
  <2> HIDE DEF m
  <2> QED
    BY <1>2, <2>1, <2>2
<1> HIDE DEF m
<1>5. less \in FrameOf /\ less.module = top.module /\ less.todo = top.todo \ {m}
  BY <1>2, <1>4 DEF FrameOf
<1> HIDE DEF less, n, top
<1>6. /\ rest \in Seq(FrameOf) /\ Len(rest) = n /\ rest[n] = less
      /\ \A i \in 1..(n - 1) : rest[i] = active[i]
  BY <1>1, <1>2, <1>5, Replaced DEF n
<1> HIDE DEF rest
<1>7. \A i \in 1..n : rest[i].module = active[i].module
  BY <1>2, <1>5, <1>6 DEF top
<1>8. CASE Cycle(m) /\ Reject /\ active' = active
  <2>1. PICK i \in 1..n : m = active[i].module
    BY <1>2, <1>8 DEF Cycle, Path, n
  <2> QED
    BY <1>4, <1>8, <2>1 DEF Reject, n, top
<1>9. CASE m \in visited /\ active' = rest /\ pc' = pc /\ verdict' = verdict
  <2>1. StrictlyWithin(less.todo, top.todo)
    BY <1>4, <1>5 DEF StrictlyWithin
  <2> QED
    BY <1>6, <1>7, <1>9, <2>1 DEF n, top
<1>10. CASE /\ ~Cycle(m) /\ m \notin visited /\ active' = Append(rest, Frame(m))
            /\ pc' = pc /\ verdict' = verdict
  <2> DEFINE frame == Frame(m)
  <2>1. frame \in FrameOf /\ frame.module = m
    BY <1>2, <1>4 DEF Frame, FrameOf
  <2> HIDE DEF frame
  <2>2. /\ active' \in Seq(FrameOf) /\ Len(active') = n + 1 /\ active'[n + 1] = frame
        /\ \A i \in 1..n : active'[i] = rest[i]
    BY <1>2, <1>6, <1>10, <2>1 DEF frame
  <2>3. m \notin visited \cup Path
    BY <1>10 DEF Cycle
  <2> QED
    BY <1>4, <1>7, <1>10, <2>1, <2>2, <2>3 DEF n, top
<1> QED
  BY <1>3, <1>8, <1>9, <1>10

LEMMA ChainStarts == Init => Chained
BY DEF Init, Chained, SoundIsNotRefused

LEMMA ChainKept ==
    ASSUME Chained, tree' = tree, start' = start, active' = active, SoundIsNotRefused'
    PROVE  Chained'
BY DEF Chained

LEMMA Unrefused ==
    ASSUME Chained, tree' = tree, verdict' = verdict PROVE SoundIsNotRefused'
BY SoundStays DEF Chained, SoundIsNotRefused

LEMMA LinesChain == ASSUME ModuleInv, Chained, Lines PROVE Chained'
<1>1. tree' = tree /\ start' = start /\ active' = active /\ tree \in Trees
  BY DEF Lines, walk, ModuleInv, ModuleTyped
<1>2. CASE verdict' = verdict
  BY <1>1, <1>2, Unrefused, ChainKept
<1>3. CASE ~(LinesCover(tree) /\ NeedsInLines(tree))
  <2>1. ~Sound(tree)
    BY <1>1, <1>3, SoundPasses
  <2>2. SoundIsNotRefused'
    BY <1>1, <2>1, SoundStays DEF SoundIsNotRefused
  <2> QED
    BY <1>1, <2>2, ChainKept
<1> QED
  BY <1>2, <1>3 DEF Lines

LEMMA SelectChain == ASSUME ModuleInv, Chained, Select PROVE Chained'
<1> DEFINE i == Len(records) + 1
<1>1. /\ tree' = tree /\ start' = start /\ active' = active /\ tree \in Trees
      /\ i <= Len(tree.soft) /\ Len(records) \in Nat
      /\ Dangling(tree, i) \/ verdict' = verdict
  BY DEF Select, walk, ModuleInv, ModuleTyped
<1>2. i \in DOMAIN tree.soft
  BY <1>1, TreeOf
<1> HIDE DEF i
<1>3. CASE verdict' = verdict
  BY <1>1, <1>3, Unrefused, ChainKept
<1>4. CASE Dangling(tree, i)
  <2>1. ~Sound(tree)
    BY <1>1, <1>2, <1>4, SoundPasses
  <2>2. SoundIsNotRefused'
    BY <1>1, <2>1, SoundStays DEF SoundIsNotRefused
  <2> QED
    BY <1>1, <2>2, ChainKept
<1> QED
  BY <1>1, <1>3, <1>4

LEMMA SelectedChain == ASSUME ModuleInv, Chained, Selected PROVE Chained'
<1>1. tree' = tree /\ start' = start /\ active' = active /\ tree \in Trees
  BY DEF Selected, walk, ModuleInv, ModuleTyped
<1>2. CASE verdict' = verdict
  BY <1>1, <1>2, Unrefused, ChainKept
<1>3. CASE ~(Required \subseteq tree.installed)
  <2>1. ~Sound(tree)
    BY <1>1, <1>3, SoundPasses
  <2>2. SoundIsNotRefused'
    BY <1>1, <2>1, SoundStays DEF SoundIsNotRefused
  <2> QED
    BY <1>1, <2>2, ChainKept
<1> QED
  BY <1>2, <1>3 DEF Selected

LEMMA BeginChain == ASSUME ModuleInv, Chained, Begin PROVE Chained'
<1> DEFINE m == Min(roots)
           frame == [module |-> m, todo |-> tree.dep[m]]
<1>1. /\ tree' = tree /\ verdict' = verdict /\ roots # {} /\ start' = m /\ active' = <<frame>>
  BY DEF Begin, Frame
<1>2. /\ tree \in Trees /\ roots \subseteq tree.installed /\ tree.installed \subseteq Modules
      /\ Modules \subseteq Nat /\ tree.dep \in [Modules -> SUBSET Modules]
  BY ModulesAssumption, TreeOf DEF ModuleInv, ModuleTyped
<1>3. m \in tree.installed /\ m \in Modules
  BY <1>1, <1>2, LeastIsOneOfThem
<1> HIDE DEF m
<1>4. m \in Reach(tree.dep, m)
  BY <1>2, <1>3, Reached
<1>5. Len(active') = 1 /\ active'[1].module = m
  BY <1>1
<1>6. \A i \in 1..Len(active') : i = 1
  BY <1>5
<1>7. SoundIsNotRefused'
  BY <1>1, Unrefused
<1> HIDE DEF frame
<1> QED
  BY <1>1, <1>3, <1>4, <1>5, <1>6, <1>7 DEF Chained

LEMMA VisitChain == ASSUME ModuleInv, Chained, Visit PROVE Chained'
<1> DEFINE n == Len(active)
           dep == tree.dep
<1>1. tree' = tree /\ start' = start /\ active # <<>> /\ tree \in Trees
  BY DEF Visit, ModuleInv, ModuleTyped
<1>2. /\ n \in Nat \ {0} /\ active[n] \in FrameOf /\ dep \in [Modules -> SUBSET Modules]
      /\ start \in Modules /\ active[n].module \in Reach(dep, start)
      /\ active \in Seq(FrameOf)
  BY <1>1, FramesOf
<1>3. start \in tree.installed
  BY <1>1 DEF Chained
<1>4. \A i, j \in 1..n : i <= j => active[j].module \in Reach(dep, active[i].module)
  BY DEF Chained
<1>5. \A i \in 1..n : active[i].module \in Modules
  <2>1. \A i \in 1..n : active[i] \in FrameOf
    BY <1>2
  <2> QED
    BY <2>1 DEF FrameOf
<1>6. \/ /\ active' = active
         /\ \E i \in 1..n : active[i].module \in dep[active[n].module]
      \/ /\ Len(active') = n /\ verdict' = verdict
         /\ \A i \in 1..n : active'[i].module = active[i].module
      \/ /\ Len(active') = n + 1 /\ active' \in Seq(FrameOf)
         /\ \A i \in 1..n : active'[i].module = active[i].module
         /\ active'[n + 1].module \in dep[active[n].module] /\ verdict' = verdict
  BY VisitFrames
<1> HIDE DEF n, dep
<1>7. CASE /\ active' = active
           /\ \E i \in 1..n : active[i].module \in dep[active[n].module]
  <2>1. PICK i \in 1..n : active[i].module \in dep[active[n].module]
    BY <1>7
  <2>2. active[n].module \in Reach(dep, active[i].module)
    BY <1>2, <1>4
  <2>3. ASSUME Sound(tree) PROVE FALSE
    <3>1. \A m \in tree.installed : dep[m] \subseteq tree.installed
      BY <2>3 DEF Sound, dep
    <3>2. tree.installed \in SUBSET Modules
      BY <1>1, TreeOf
    <3>3. Reach(dep, start) \subseteq tree.installed
      BY <1>3, <3>1, <3>2, ReachLeast
    <3>4. active[n].module \in tree.installed
      BY <1>2, <3>3
    <3>5. \A m \in tree.installed : \A d \in dep[m] : m \notin Reach(dep, d)
      BY <1>1, <2>3, SoundPasses DEF dep
    <3> QED
      BY <2>1, <2>2, <3>4, <3>5
  <2>4. SoundIsNotRefused'
    BY <1>1, <2>3, SoundStays DEF SoundIsNotRefused
  <2> QED
    BY <1>1, <1>7, <2>4, ChainKept
<1>8. CASE /\ Len(active') = n /\ verdict' = verdict
           /\ \A i \in 1..n : active'[i].module = active[i].module
  <2>1. SoundIsNotRefused'
    BY <1>1, <1>8, Unrefused
  <2> QED
    BY <1>1, <1>3, <1>4, <1>8, <2>1 DEF Chained, dep
<1>9. CASE /\ Len(active') = n + 1 /\ active' \in Seq(FrameOf)
           /\ \A i \in 1..n : active'[i].module = active[i].module
           /\ active'[n + 1].module \in dep[active[n].module] /\ verdict' = verdict
  <2>1. SoundIsNotRefused'
    BY <1>1, <1>9, Unrefused
  <2>2. ASSUME NEW i \in 1..(n + 1), NEW j \in 1..(n + 1), i <= j
        PROVE  active'[j].module \in Reach(dep, active'[i].module)
    <3>1. CASE j \in 1..n
      <4>1. i \in 1..n
        BY <1>2, <2>2, <3>1
      <4> QED
        BY <1>4, <1>9, <2>2, <3>1, <4>1
    <3>2. CASE i = n + 1
      <4>1. j = n + 1
        BY <1>2, <2>2, <3>2
      <4>2. active'[n + 1].module \in Modules
        BY <1>2, <1>5, <1>9
      <4>3. active'[n + 1].module \in Reach(dep, active'[n + 1].module)
        BY <1>2, <4>2, Reached
      <4> QED
        BY <3>2, <4>1, <4>3
    <3>3. CASE i # n + 1 /\ j \notin 1..n
      <4>1. i \in 1..n /\ j = n + 1 /\ i <= n /\ n \in 1..n
        BY <1>2, <2>2, <3>3
      <4>2. active[n].module \in Reach(dep, active[i].module) /\ active[i].module \in Modules
        BY <1>4, <1>5, <4>1
      <4>3. dep[active[n].module] \subseteq Reach(dep, active[i].module)
        BY <1>2, <4>2, Reached
      <4> QED
        BY <1>9, <4>1, <4>3
    <3> QED
      BY <3>1, <3>2, <3>3
  <2> QED
    BY <1>1, <1>3, <1>9, <2>1, <2>2 DEF Chained, dep
<1> QED
  BY <1>6, <1>7, <1>8, <1>9

LEMMA ReturnChain == ASSUME ModuleInv, Chained, Return PROVE Chained'
<1> DEFINE n == Len(active)
<1>1. /\ tree' = tree /\ start' = start /\ verdict' = verdict /\ active # <<>>
      /\ active' = Front(active) /\ active \in Seq(FrameOf)
  BY DEF Return, ModuleInv, ModuleTyped
<1>2. /\ n \in Nat \ {0} /\ Len(active') = n - 1
      /\ \A i \in 1..(n - 1) : active'[i] = active[i]
  BY <1>1, TopOf
<1>3. start \in tree.installed
  BY <1>1 DEF Chained
<1>4. \A i, j \in 1..n : i <= j => active[j].module \in Reach(tree.dep, active[i].module)
  BY DEF Chained
<1> HIDE DEF n
<1>5. \A i, j \in 1..(n - 1) :
         i <= j => active'[j].module \in Reach(tree.dep, active'[i].module)
  <2>1. \A i \in 1..(n - 1) : i \in 1..n
    BY <1>2
  <2> QED
    BY <1>2, <1>4, <2>1
<1>6. SoundIsNotRefused'
  BY <1>1, Unrefused
<1> QED
  BY <1>1, <1>2, <1>3, <1>5, <1>6 DEF Chained

LEMMA WalkedChain == ASSUME ModuleInv, Chained, Walked PROVE Chained'
<1>1. /\ tree' = tree /\ start' = start /\ active' = active /\ tree \in Trees
      /\ pc = "walk" /\ active = <<>> /\ roots = {}
      /\ InitrdClosed(tree) /\ IndexAgrees(tree) => verdict' = "accept"
  BY DEF Walked, walk, ModuleInv, ModuleTyped
<1>2. ASSUME Sound(tree) PROVE verdict' = "accept"
  <2>1. /\ InitrdClosed(tree) /\ Required \subseteq tree.installed
        /\ \A i \in DOMAIN tree.soft : tree.aliasIndex[i] = tree.soft[i].targets
        /\ \A m \in tree.installed : tree.index[m] = Reach(tree.dep, m)
    BY <1>1, <1>2, SoundPasses
  <2>2. \A m \in tree.installed : closures[m] = Reach(tree.dep, m)
    BY <1>1 DEF ModuleInv, ModuleTyped, Accounted, ClosuresOK, Correct
  <2>3. IndexAgrees(tree)
    BY <2>1, <2>2 DEF IndexAgrees
  <2> QED
    BY <1>1, <2>1, <2>3
<1>3. SoundIsNotRefused'
  BY <1>1, <1>2, SoundStays DEF SoundIsNotRefused
<1> QED
  BY <1>1, <1>3, ChainKept

LEMMA ChainSteps == ASSUME ModuleInv, Chained, Next PROVE Chained'
BY LinesChain, SelectChain, SelectedChain, BeginChain, VisitChain, ReturnChain, WalkedChain
   DEF Next

LEMMA ChainStays == ASSUME Chained, UNCHANGED <<moduleVars, verdict>> PROVE Chained'
<1>1. tree' = tree /\ start' = start /\ active' = active /\ verdict' = verdict
  BY DEF moduleVars, walk
<1> QED
  BY <1>1, Unrefused, ChainKept

LEMMA ModulesHold == AuditSpec => [](part = "modules" => ModuleInv /\ Chained)
<1> DEFINE I == part = "modules" => ModuleInv /\ Chained
<1>1. AuditInit => I
  BY ModuleStarts, ChainStarts DEF AuditInit
<1>2. I /\ [AuditNext]_allVars => I'
  <2> SUFFICES ASSUME I, [AuditNext]_allVars, part' = "modules" PROVE ModuleInv' /\ Chained'
    OBVIOUS
  <2>1. /\ part = "modules" /\ ModuleInv /\ Chained
        /\ Next \/ UNCHANGED <<moduleVars, verdict>>
    BY DEF AuditNext, allVars
  <2> QED
    BY <2>1, ModuleSteps, ModuleStays, ChainSteps, ChainStays
<1> QED
  BY <1>1, <1>2, PTL DEF AuditSpec

(* The kernel can load what it finds in an accepted firmware: whatever     *)
(* modules there are and however they depend on one another, the walk over *)
(* modules.dep finds what can be reached and refuses every circle, and     *)
(* with the other checks all that a module needs is there; and a firmware  *)
(* that depmod and update-initramfs have made is refused by none of the    *)
(* checks (audit_modules, module_closure, verify_module_indexes).          *)
THEOREM ModulesLoad == AuditSpec => []ModulesCanLoad
<1>1. (part = "modules" => ModuleInv /\ Chained) => ModulesCanLoad
  BY ModuleTypes, ModuleClosures, ModuleSofts, ModuleLoads DEF ModulesCanLoad, Chained
<1> QED
  BY <1>1, ModulesHold, PTL

-----------------------------------------------------------------------------
(* The payloads of an accepted firmware.                                   *)

Payloads == [root : Nat, ext4 : Nat, memory : Nat, ramdisk : Nat, fdt : Nat]

TarInv ==
    sizes \in Payloads
    /\ (verdict \in {"inspected", "accept"} => Tar!RootFits /\ Tar!PayloadsFit)

LEMMA TarStarts == Tar!Init => TarInv
BY DEF Tar!Init, TarInv, Payloads

LEMMA TarSteps == ASSUME TarInv, Tar!Next PROVE TarInv'
<1>1. CASE Tar!Write \/ Tar!Inspect \/ Tar!Compare
  <2>1. sizes' = sizes
    BY <1>1 DEF Tar!Write, Tar!Inspect, Tar!Compare
  <2>2. verdict' \in {"inspected", "accept"} => verdict \in {"inspected", "accept"}
    BY <1>1 DEF Tar!Write, Tar!Inspect, Tar!Compare
  <2> QED
    BY <2>1, <2>2 DEF TarInv, Tar!RootFits, Tar!PayloadsFit
<1>2. CASE Tar!Measure
  <2>1. sizes' \in Payloads
    BY <1>2, SizesAssumption DEF Tar!Measure, Tar!SizesAreNumbers, Payloads
  <2>2. verdict' \in {"inspected", "accept"} => Tar!RootFits' /\ Tar!PayloadsFit'
    BY <1>2 DEF Tar!Measure
  <2> QED
    BY <2>1, <2>2 DEF TarInv
<1> QED
  BY <1>1, <1>2 DEF Tar!Next

(* The next multiple is not before the number.                             *)
LEMMA AlignedAfter == ASSUME NEW n \in Nat PROVE Tar!Align(n, 128) \in Nat /\ n <= Tar!Align(n, 128)
BY DEF Tar!Align

(* Regions in a row, each behind the one before.                           *)
LEMMA FiveApart ==
    ASSUME NEW a \in Nat, NEW b \in Nat, NEW c \in Nat, NEW d \in Nat, NEW e \in Nat,
           NEW u \in Nat, NEW v \in Nat, NEW w \in Nat, NEW x \in Nat, NEW y \in Nat,
           a + u <= b, b + v <= c, c + w <= d, d + x <= e
    PROVE  Tar!Apart({Tar!Region(a, u), Tar!Region(b, v), Tar!Region(c, w), Tar!Region(d, x),
                      Tar!Region(e, y)})
<1>1. /\ a + u <= b /\ a + u <= c /\ a + u <= d /\ a + u <= e
      /\ b + v <= c /\ b + v <= d /\ b + v <= e
      /\ c + w <= d /\ c + w <= e /\ d + x <= e
  OBVIOUS
<1> QED
  BY <1>1 DEF Tar!Apart, Tar!Region

LEMMA ThreeApart ==
    ASSUME NEW a \in Nat, NEW b \in Nat, NEW c \in Nat, NEW u \in Nat, NEW v \in Nat,
           NEW w \in Nat, a + u <= b, b + v <= c
    PROVE  Tar!Apart({Tar!Region(a, u), Tar!Region(b, v), Tar!Region(c, w)})
<1>1. a + u <= b /\ a + u <= c /\ b + v <= c
  OBVIOUS
<1> QED
  BY <1>1 DEF Tar!Apart, Tar!Region

LEMMA TarFits == TarInv => Tar!NothingOverlaps
<1> SUFFICES ASSUME TarInv, verdict = "accept" PROVE Tar!NothingOverlaps
  BY DEF Tar!NothingOverlaps
<1>1. /\ sizes.root \in Nat /\ sizes.ext4 \in Nat /\ sizes.memory \in Nat
      /\ sizes.ramdisk \in Nat /\ sizes.fdt \in Nat
      /\ Tar!RootFits /\ Tar!PayloadsFit
  BY DEF TarInv, Payloads
<1>2. Tar!Apart({Tar!Region(Tar!LoadKernel, sizes.memory), Tar!Region(Tar!LoaderText, 1),
                 Tar!Region(Tar!LoadRamdisk, sizes.ramdisk), Tar!Region(Tar!LoadFdt, sizes.fdt),
                 Tar!Region(Tar!Upload, Tar!UploadLimit)})
  <2>1. /\ Tar!LoadKernel \in Nat /\ Tar!LoaderText \in Nat /\ Tar!LoadRamdisk \in Nat
        /\ Tar!LoadFdt \in Nat /\ Tar!Upload \in Nat /\ Tar!UploadLimit \in Nat /\ 1 \in Nat
    BY DEF Tar!LoadKernel, Tar!LoaderText, Tar!LoadRamdisk, Tar!LoadFdt, Tar!Upload,
       Tar!UploadLimit
  <2>2. Tar!LoaderText + 1 <= Tar!LoadRamdisk
    BY DEF Tar!LoaderText, Tar!LoadRamdisk
  <2>3. Tar!LoadKernel + sizes.memory <= Tar!LoaderText
    BY <1>1, <2>1 DEF Tar!PayloadsFit
  <2>4. Tar!LoadRamdisk + sizes.ramdisk <= Tar!LoadFdt /\ Tar!LoadFdt + sizes.fdt <= Tar!Upload
    BY <1>1, <2>1 DEF Tar!PayloadsFit
  <2> QED
    BY <1>1, <2>1, <2>2, <2>3, <2>4, FiveApart
<1>3. Tar!Apart({Tar!Region(0, sizes.ext4),
                 Tar!Region(Tar!Align(sizes.root, Tar!EraseBlock), Tar!EraseLength),
                 Tar!Region(Tar!RootLimit, 1)})
  <2> DEFINE end == Tar!Align(sizes.root, Tar!EraseBlock)
  <2>1. end \in Nat /\ sizes.root <= end
    BY <1>1, AlignedAfter DEF Tar!EraseBlock
  <2>2. sizes.root = sizes.ext4 /\ end + Tar!EraseLength <= Tar!RootLimit
    BY <1>1 DEF Tar!RootFits
  <2> HIDE DEF end
  <2>3. /\ Tar!EraseLength \in Nat /\ Tar!RootLimit \in Nat /\ 0 \in Nat /\ 1 \in Nat
        /\ 0 + sizes.ext4 <= end
    BY <1>1, <2>1, <2>2 DEF Tar!EraseLength, Tar!RootLimit
  <2>4. Tar!Apart({Tar!Region(0, sizes.ext4), Tar!Region(end, Tar!EraseLength),
                   Tar!Region(Tar!RootLimit, 1)})
    BY <1>1, <2>1, <2>2, <2>3, ThreeApart
  <2> QED
    BY <2>4 DEF end
<1> QED
  BY <1>2, <1>3 DEF Tar!NothingOverlaps

(* In RAM the kernel, the loader, the initrd, the FDT and the TAR lie      *)
(* apart, and on the eMMC the filesystem and what is erased, for every     *)
(* size that check_fit and inspect_tar accept.                             *)
THEOREM PayloadsApart == AuditSpec => []NothingOverlaps
<1> DEFINE I == part = "tar" => TarInv
<1>1. AuditInit => I
  BY TarStarts DEF AuditInit
<1>2. I /\ [AuditNext]_allVars => I'
  <2> SUFFICES ASSUME I, [AuditNext]_allVars, part' = "tar" PROVE TarInv'
    OBVIOUS
  <2>1. CASE UNCHANGED allVars
    BY <2>1 DEF allVars, tarVars, TarInv, Tar!RootFits, Tar!PayloadsFit
  <2>2. CASE AuditNext
    BY <2>2, TarSteps DEF AuditNext
  <2> QED
    BY <2>1, <2>2
<1>3. I => NothingOverlaps
  BY TarFits DEF NothingOverlaps
<1> QED
  BY <1>1, <1>2, <1>3, PTL DEF AuditSpec
-----------------------------------------------------------------------------
(* Paths *)

(* A function may be defined by steps: where a step stops it has a value,  *)
(* elsewhere that of the next step, whether or not the steps come to an    *)
(* end.                                                                    *)
FollowsSteps(f, D, V, Stop, value, onward) ==
    f \in [D -> V] /\ \A d \in D : f[d] = IF d \in Stop THEN value[d] ELSE f[onward[d]]

LEMMA DefinedBySteps ==
    ASSUME NEW D, NEW V, V # {}, NEW Stop \in SUBSET D, NEW value \in [Stop -> V],
           NEW onward \in [D \ Stop -> D]
    PROVE  \E f : FollowsSteps(f, D, V, Stop, value, onward)
<1> DEFINE Closed(d) == {S \in SUBSET D : d \in S /\ \A x \in S \ Stop : onward[x] \in S}
           Ends(d) == {e \in Stop : \A S \in Closed(d) : e \in S}
           End(d) == CHOOSE e : e \in Ends(d)
           f == [d \in D |-> IF Ends(d) = {} THEN CHOOSE v : v \in V ELSE value[End(d)]]
<1>1. ASSUME NEW d \in Stop PROVE Ends(d) = {d}
  <2>1. {d} \in Closed(d)
    OBVIOUS
  <2>2. \A S \in Closed(d) : d \in S
    OBVIOUS
  <2> QED
    BY <2>1, <2>2
<1>2. ASSUME NEW d \in D \ Stop PROVE Ends(d) = Ends(onward[d])
  <2>1. \A S \in Closed(d) : S \in Closed(onward[d])
    OBVIOUS
  <2>2. ASSUME NEW S \in Closed(onward[d]) PROVE S \cup {d} \in Closed(d)
    OBVIOUS
  <2> HIDE DEF Closed
  <2>3. \A e \in Stop : e # d
    OBVIOUS
  <2> QED
    BY <2>1, <2>2, <2>3
<1> HIDE DEF Closed, Ends
<1>3. ASSUME NEW d \in Stop PROVE f[d] = value[d]
  <2>1. (CHOOSE e : e \in {d}) = d
    OBVIOUS
  <2> QED
    BY <1>1, <2>1
<1>4. ASSUME NEW d \in D \ Stop PROVE f[d] = f[onward[d]]
  BY <1>2
<1>5. f \in [D -> V]
  <2>1. ASSUME NEW d \in D, Ends(d) # {} PROVE End(d) \in Stop
    BY <2>1 DEF Ends
  <2> HIDE DEF End
  <2> QED
    BY <2>1
<1> HIDE DEF f
<1>6. FollowsSteps(f, D, V, Stop, value, onward)
  BY <1>3, <1>4, <1>5 DEF FollowsSteps
<1> QED
  BY <1>6

(* The lookup stops where nothing is left, and where it fails.             *)
Stopped(s) ==
    \/ s.rest = <<>>
    \/ Head(s.rest) = ".." /\ s.at = <<>>
    \/ Resolve!AtLink(s) /\ s.links = 0

LEMMA HeadAndTail ==
    ASSUME NEW S, NEW s \in Seq(S), s # <<>>
    PROVE  Head(s) \in S /\ Tail(s) \in Seq(S)
OBVIOUS

LEMMA OnwardIsLookup ==
    ASSUME image \in Images, NEW s \in Resolve!Lookups, ~Stopped(s)
    PROVE  Resolve!Onward(s) \in Resolve!Lookups
<1> DEFINE name == Head(s.rest)
           next == Append(s.at, name)
<1>1. /\ s.at \in Seq(Names) /\ s.rest \in Seq(Resolve!Steps) /\ s.links \in Nat
      /\ s.rest # <<>>
  BY DEF Resolve!Lookups, Stopped
<1>2. name \in Names \cup {".", ".."} /\ Tail(s.rest) \in Seq(Resolve!Steps)
  BY <1>1, HeadAndTail DEF Resolve!Steps
<1>3. CASE name = "."
  BY <1>1, <1>2, <1>3 DEF Resolve!Onward, Resolve!Lookups
<1>4. CASE name = ".."
  <2>1. Resolve!Front(s.at) \in Seq(Names)
    BY <1>1, <1>4, TopOf DEF Stopped, Front, Resolve!Front
  <2> QED
    BY <1>1, <1>2, <1>4, <2>1 DEF Resolve!Onward, Resolve!Lookups
<1>5. CASE name \in Names /\ next \in DOMAIN image
  <2>1. /\ image[next].absolute \in BOOLEAN /\ image[next].parts \in Seq(Resolve!Steps)
        /\ name # "." /\ name # ".."
    BY <1>5, LinksAssumption DEF Resolve!LinksAreSteps
  <2>2. Resolve!AtLink(s)
    BY <1>5 DEF Resolve!AtLink
  <2>3. s.links - 1 \in Nat
    BY <1>1, <2>2 DEF Stopped
  <2>4. image[next].parts \o Tail(s.rest) \in Seq(Resolve!Steps)
    BY <1>2, <2>1, ConcatProperties
  <2>5. (IF image[next].absolute THEN <<>> ELSE s.at) \in Seq(Names)
    BY <1>1, <2>1
  <2>6. Resolve!Onward(s) = [at |-> IF image[next].absolute THEN <<>> ELSE s.at,
                             rest |-> image[next].parts \o Tail(s.rest),
                             links |-> s.links - 1]
    BY <2>1, <2>2 DEF Resolve!Onward
  <2> QED
    BY <2>3, <2>4, <2>5, <2>6 DEF Resolve!Lookups
<1>6. CASE name \in Names /\ next \notin DOMAIN image
  <2>1. name # "." /\ name # ".." /\ ~Resolve!AtLink(s)
    BY <1>6, LinksAssumption DEF Resolve!LinksAreSteps, Resolve!AtLink
  <2>2. next \in Seq(Names)
    BY <1>1, <1>6
  <2> QED
    BY <1>1, <1>2, <2>1, <2>2 DEF Resolve!Onward, Resolve!Lookups
<1> QED
  BY <1>2, <1>3, <1>4, <1>5, <1>6

LEMMA LookupSteps ==
    ASSUME image \in Images, NEW s \in Resolve!Lookups
    PROVE  /\ s.rest = <<>> => Resolve!Lookup[s] = s.at
           /\ ~Stopped(s) => Resolve!Lookup[s] = Resolve!Lookup[Resolve!Onward(s)]
<1> DEFINE D == Resolve!Lookups
           Stop == {d \in D : Stopped(d)}
           value == [d \in Stop |-> IF d.rest = <<>> THEN d.at
                                    ELSE IF Head(d.rest) = ".." /\ d.at = <<>> THEN <<"outside">>
                                    ELSE <<"loop">>]
           onward == [d \in D \ Stop |-> Resolve!Onward(d)]
           V == Seq(Names \cup {"outside", "loop"})
           Body(f, d) == IF d.rest = <<>> THEN d.at
                         ELSE IF Head(d.rest) = ".." /\ d.at = <<>> THEN <<"outside">>
                         ELSE IF Resolve!AtLink(d) /\ d.links = 0 THEN <<"loop">>
                         ELSE f[Resolve!Onward(d)]
<1>1. onward \in [D \ Stop -> D]
  BY OnwardIsLookup
<1>2. PICK f : FollowsSteps(f, D, V, Stop, value, onward)
  <2>1. Stop \in SUBSET D
    OBVIOUS
  <2>2. value \in [Stop -> V]
    <3>1. \A d \in D : d.at \in Seq(Names)
      BY DEF Resolve!Lookups
    <3>2. \A d \in D : d.at \in V
      BY <3>1
    <3>3. <<"outside">> \in V /\ <<"loop">> \in V
      OBVIOUS
    <3> HIDE DEF D, V
    <3> QED
      BY <3>2, <3>3
  <2>3. V # {}
    <3>1. <<>> \in V
      OBVIOUS
    <3> QED
      BY <3>1
  <2> HIDE DEF D, V, value, onward, Stop
  <2> QED
    BY <1>1, <2>1, <2>2, <2>3, DefinedBySteps
<1>3. \A d \in D : (IF d \in Stop THEN value[d] ELSE f[onward[d]]) = Body(f, d)
  BY DEF Stopped
<1>4. f = [d \in D |-> Body(f, d)]
  <2> HIDE DEF D, V, Stop, value, onward, Body
  <2> QED
    BY <1>2, <1>3 DEF FollowsSteps
<1>5. Resolve!Lookup = CHOOSE g : g = [d \in D |-> Body(g, d)]
  BY DEF Resolve!Lookup
<1>6. Resolve!Lookup = [d \in D |-> Body(Resolve!Lookup, d)]
  <2> HIDE DEF D, Body
  <2> QED
    BY <1>4, <1>5
<1>7. Resolve!Lookup[s] = Body(Resolve!Lookup, s)
  <2> HIDE DEF Body
  <2> QED
    BY <1>6
<1> QED
  BY <1>7 DEF Stopped

(* Where the path that is left leads is where the whole path leads, and    *)
(* nothing of what is behind is a link.                                    *)
Here(at, rest, links) == [at |-> at, rest |-> rest, links |-> links]

PathTyped ==
    /\ image \in Images /\ wanted \in Seq(Resolve!Steps)
    /\ pending \in Seq(Resolve!Steps) /\ parts \in Seq(Names) /\ hops \in 0..MaxHops

PathInv ==
    /\ PathTyped
    /\ \A i \in 1..Len(parts) : SubSeq(parts, 1, i) \notin DOMAIN image
    /\ verdict = "accept" => pending = <<>>
    /\ Resolve!Lookup[Here(parts, pending, MaxHops - hops)]
          = Resolve!Lookup[Here(<<>>, wanted, MaxHops)]

LEMMA LookupStays == ASSUME image' = image PROVE Resolve!Lookup' = Resolve!Lookup
BY DEF Resolve!Lookup, Resolve!AtLink, Resolve!Onward

LEMMA PathStarts == Resolve!Init => PathInv
<1> SUFFICES ASSUME Resolve!Init PROVE PathInv
  OBVIOUS
<1>1. PathTyped
  BY LinksAssumption DEF Resolve!Init, Resolve!LinksAreSteps, PathTyped
<1>2. MaxHops - hops = MaxHops /\ parts = <<>> /\ pending = wanted /\ verdict = "none"
  BY LinksAssumption DEF Resolve!Init, Resolve!LinksAreSteps
<1> QED
  BY <1>1, <1>2 DEF PathInv

(* A beginning of a sequence that has one element more, or one less.       *)
LEMMA Beginnings ==
    ASSUME NEW S, NEW s \in Seq(S), NEW e \in S
    PROVE  /\ \A i \in 1..Len(s) : SubSeq(Append(s, e), 1, i) = SubSeq(s, 1, i)
           /\ SubSeq(Append(s, e), 1, Len(s) + 1) = Append(s, e)
           /\ s # <<>> => \A i \in 1..(Len(s) - 1) : SubSeq(Front(s), 1, i) = SubSeq(s, 1, i)
<1> DEFINE t == Append(s, e)
<1>1. /\ t \in Seq(S) /\ Len(t) = Len(s) + 1 /\ Len(s) \in Nat
      /\ \A i \in 1..Len(s) : t[i] = s[i]
  OBVIOUS
<1> HIDE DEF t
<1>2. ASSUME NEW i \in 1..Len(s) PROVE SubSeq(t, 1, i) = SubSeq(s, 1, i)
  BY <1>1, <1>2
<1>3. SubSeq(t, 1, Len(t)) = t
  BY <1>1
<1>4. ASSUME s # <<>>, NEW i \in 1..(Len(s) - 1) PROVE SubSeq(Front(s), 1, i) = SubSeq(s, 1, i)
  <2> DEFINE f == Front(s)
  <2>1. /\ f \in Seq(S) /\ Len(f) = Len(s) - 1 /\ \A n \in 1..(Len(s) - 1) : f[n] = s[n]
    BY <1>4, TopOf
  <2> HIDE DEF f
  <2>2. SubSeq(f, 1, i) = SubSeq(s, 1, i)
    BY <1>1, <1>4, <2>1
  <2> QED
    BY <2>2 DEF f
<1> QED
  BY <1>1, <1>2, <1>3, <1>4 DEF t

(* A step of the resolution is one of the lookup.                          *)
LEMMA PathGoesOn ==
    ASSUME PathInv, PathTyped', image' = image, wanted' = wanted,
           ~Stopped(Here(parts, pending, MaxHops - hops)),
           Resolve!Onward(Here(parts, pending, MaxHops - hops))
              = Here(parts', pending', MaxHops - hops')
    PROVE  Resolve!Lookup'[Here(parts', pending', MaxHops - hops')]
              = Resolve!Lookup'[Here(<<>>, wanted', MaxHops)]
<1>1. Here(parts, pending, MaxHops - hops) \in Resolve!Lookups /\ image \in Images
  BY LinksAssumption DEF PathInv, PathTyped, Resolve!Lookups, Here, Resolve!LinksAreSteps
<1>2. Resolve!Lookup[Here(parts, pending, MaxHops - hops)]
         = Resolve!Lookup[Here(parts', pending', MaxHops - hops')]
  BY <1>1, LookupSteps
<1> QED
  BY <1>2, LookupStays DEF PathInv

LEMMA PathSteps == ASSUME PathInv, Resolve!Next PROVE PathInv'
<1> DEFINE s == Here(parts, pending, MaxHops - hops)
           name == Head(pending)
           next == Append(parts, name)
<1>1. /\ image \in Images /\ wanted \in Seq(Resolve!Steps) /\ pending \in Seq(Resolve!Steps)
      /\ parts \in Seq(Names) /\ hops \in 0..MaxHops /\ MaxHops \in Nat
      /\ \A i \in 1..Len(parts) : SubSeq(parts, 1, i) \notin DOMAIN image
      /\ "." \notin Names /\ ".." \notin Names
  BY LinksAssumption DEF PathInv, PathTyped, Resolve!LinksAreSteps
<1>2. image' = image /\ wanted' = wanted
  BY DEF Resolve!Next, Resolve!Skip, Resolve!Up, Resolve!Follow, Resolve!Enter, Resolve!Finish
<1>3. s.at = parts /\ s.rest = pending /\ s.links = MaxHops - hops
  BY DEF Here
<1>4. pending # <<>> => name \in Resolve!Steps /\ Tail(pending) \in Seq(Resolve!Steps)
  BY <1>1, HeadAndTail
<1>5. CASE parts' = parts /\ pending' = pending /\ hops' = hops
           /\ (verdict' = "accept" => pending = <<>>)
  <2>1. PathTyped'
    BY <1>1, <1>2, <1>5 DEF PathTyped
  <2>2. Resolve!Lookup'[Here(parts', pending', MaxHops - hops')]
            = Resolve!Lookup'[Here(<<>>, wanted', MaxHops)]
    BY <1>2, <1>5, LookupStays DEF PathInv
  <2> QED
    BY <1>1, <1>2, <1>5, <2>1, <2>2 DEF PathInv
<1>6. CASE Resolve!Skip
  <2>1. /\ pending # <<>> /\ name = "." /\ pending' = Tail(pending) /\ parts' = parts
        /\ hops' = hops /\ verdict' = "none"
    BY <1>6 DEF Resolve!Skip, Resolve!Resolving
  <2>2. PathTyped'
    BY <1>1, <1>2, <1>4, <2>1 DEF PathTyped
  <2>3. Resolve!Onward(s) = Here(parts', pending', MaxHops - hops') /\ ~Stopped(s)
    BY <1>1, <1>3, <2>1 DEF Resolve!Onward, Here, Stopped, Resolve!AtLink
  <2> QED
    BY <1>1, <1>2, <2>1, <2>2, <2>3, PathGoesOn DEF PathInv
<1>7. CASE Resolve!Up /\ parts # <<>>
  <2>1. /\ pending # <<>> /\ name = ".." /\ pending' = Tail(pending) /\ parts' = Front(parts)
        /\ hops' = hops /\ verdict' = "none"
    BY <1>7 DEF Resolve!Up, Resolve!Resolving, Resolve!Front, Front
  <2>2. parts' \in Seq(Names) /\ Len(parts') = Len(parts) - 1
    BY <1>1, <1>7, <2>1, TopOf
  <2>3. PathTyped'
    BY <1>1, <1>2, <1>4, <2>1, <2>2 DEF PathTyped
  <2>4. Resolve!Onward(s) = Here(parts', pending', MaxHops - hops')
    <3>1. parts' = Resolve!Front(parts)
      BY <2>1 DEF Front, Resolve!Front
    <3> QED
      BY <1>1, <1>3, <2>1, <3>1 DEF Resolve!Onward, Here
  <2>5. ~Stopped(s)
    BY <1>1, <1>3, <1>7, <2>1 DEF Stopped, Resolve!AtLink
  <2>6. \A i \in 1..Len(parts') : SubSeq(parts', 1, i) \notin DOMAIN image
    <3>1. \A i \in 1..(Len(parts) - 1) : SubSeq(Front(parts), 1, i) = SubSeq(parts, 1, i)
      BY <1>1, <1>7, Beginnings
    <3>2. \A i \in 1..(Len(parts) - 1) : i \in 1..Len(parts)
      BY <1>1
    <3> QED
      BY <1>1, <2>1, <2>2, <3>1, <3>2
  <2> QED
    BY <1>1, <1>2, <2>1, <2>3, <2>4, <2>5, <2>6, PathGoesOn DEF PathInv
<1>8. CASE Resolve!Follow /\ hops # MaxHops
  <2>1. /\ pending # <<>> /\ name \in Names /\ next \in DOMAIN image /\ hops' = hops + 1
        /\ pending' = image[next].parts \o Tail(pending)
        /\ parts' = (IF image[next].absolute THEN <<>> ELSE parts) /\ verdict' = "none"
    BY <1>8 DEF Resolve!Follow, Resolve!Resolving, Resolve!Candidate
  <2>2. image[next].parts \in Seq(Resolve!Steps) /\ image[next].absolute \in BOOLEAN
    BY <1>1, <2>1, LinksAssumption DEF Resolve!LinksAreSteps
  <2>3. /\ pending' \in Seq(Resolve!Steps) /\ parts' \in Seq(Names)
        /\ hops' \in 0..MaxHops /\ MaxHops - hops' = (MaxHops - hops) - 1
    BY <1>1, <1>4, <1>8, <2>1, <2>2, ConcatProperties
  <2>4. PathTyped'
    BY <1>1, <1>2, <2>3 DEF PathTyped
  <2>5. Resolve!AtLink(s) /\ name # "." /\ name # ".."
    BY <1>1, <1>3, <2>1 DEF Resolve!AtLink
  <2>6. Resolve!Onward(s) = Here(parts', pending', MaxHops - hops')
    BY <1>3, <2>1, <2>3, <2>5 DEF Resolve!Onward, Here
  <2>7. ~Stopped(s)
    BY <1>1, <1>3, <1>8, <2>1, <2>5 DEF Stopped
  <2>8. \A i \in 1..Len(parts') : SubSeq(parts', 1, i) \notin DOMAIN image
    BY <1>1, <2>1
  <2> QED
    BY <1>1, <1>2, <2>1, <2>4, <2>6, <2>7, <2>8, PathGoesOn DEF PathInv
<1>9. CASE Resolve!Enter
  <2>1. /\ pending # <<>> /\ name \in Names /\ next \notin DOMAIN image /\ hops' = hops
        /\ pending' = Tail(pending) /\ parts' = next /\ verdict' = "none"
    BY <1>9 DEF Resolve!Enter, Resolve!Resolving, Resolve!Candidate
  <2>2. parts' \in Seq(Names) /\ Len(parts') = Len(parts) + 1
    BY <1>1, <2>1
  <2>3. PathTyped'
    BY <1>1, <1>2, <1>4, <2>1, <2>2 DEF PathTyped
  <2>4. ~Resolve!AtLink(s) /\ name # "." /\ name # ".."
    BY <1>1, <1>3, <2>1 DEF Resolve!AtLink
  <2>5. Resolve!Onward(s) = Here(parts', pending', MaxHops - hops')
    BY <1>3, <2>1, <2>4 DEF Resolve!Onward, Here
  <2>6. ~Stopped(s)
    BY <1>3, <2>1, <2>4 DEF Stopped
  <2>7. ASSUME NEW i \in 1..Len(parts') PROVE SubSeq(parts', 1, i) \notin DOMAIN image
    <3>1. /\ \A n \in 1..Len(parts) : SubSeq(next, 1, n) = SubSeq(parts, 1, n)
          /\ SubSeq(next, 1, Len(parts) + 1) = next
      <4>1. parts \in Seq(Names) /\ name \in Names
        BY <1>1, <2>1
      <4> HIDE DEF name
      <4> QED
        BY <4>1, Beginnings
    <3>2. CASE i = Len(parts')
      BY <2>1, <2>2, <3>1, <3>2
    <3>3. CASE i # Len(parts')
      <4>1. i \in 1..Len(parts)
        BY <1>1, <2>2, <3>3
      <4>2. SubSeq(parts, 1, i) \notin DOMAIN image
        BY <1>1, <4>1
      <4> QED
        BY <2>1, <3>1, <4>1, <4>2
    <3> QED
      BY <3>2, <3>3
  <2> QED
    BY <1>1, <1>2, <2>1, <2>3, <2>5, <2>6, <2>7, PathGoesOn DEF PathInv
<1>10. CASE Resolve!Finish \/ (Resolve!Up /\ parts = <<>>) \/ (Resolve!Follow /\ hops = MaxHops)
  BY <1>5, <1>10 DEF Resolve!Finish, Resolve!Up, Resolve!Follow
<1> QED
  BY <1>6, <1>7, <1>8, <1>9, <1>10 DEF Resolve!Next

LEMMA PathReadsTheSame == PathInv => Resolve!StaysInImage /\ Resolve!OpensTheSame
<1> SUFFICES ASSUME PathInv PROVE Resolve!StaysInImage /\ Resolve!OpensTheSame
  OBVIOUS
<1>1. /\ image \in Images /\ parts \in Seq(Names) /\ pending \in Seq(Resolve!Steps)
      /\ hops \in 0..MaxHops /\ MaxHops \in Nat
  BY LinksAssumption DEF PathInv, PathTyped, Resolve!LinksAreSteps
<1>2. Resolve!StaysInImage
  BY <1>1 DEF PathInv, Resolve!StaysInImage
<1>3. Resolve!OpensTheSame
  <2> SUFFICES ASSUME verdict = "accept"
               PROVE  parts = Resolve!Lookup[Here(<<>>, wanted, MaxHops)]
    BY DEF Resolve!OpensTheSame, Here
  <2>1. pending = <<>>
    BY DEF PathInv
  <2>2. Here(parts, pending, MaxHops - hops) \in Resolve!Lookups
    BY <1>1 DEF Resolve!Lookups, Here
  <2>3. Resolve!Lookup[Here(parts, pending, MaxHops - hops)] = parts
    BY <1>1, <2>1, <2>2, LookupSteps DEF Here
  <2> QED
    BY <2>3 DEF PathInv
<1> QED
  BY <1>2, <1>3

-----------------------------------------------------------------------------
(* Flattened sequences *)

(* Induction over the places of a sequence, in sets.                       *)
LEMMA AllPlaces ==
    ASSUME NEW n \in Nat, NEW S \in SUBSET Nat, n >= 1 => 1 \in S,
           \A i \in S : i + 1 <= n => i + 1 \in S
    PROVE  1..n \subseteq S
<1> SUFFICES ASSUME NEW k \in 1..n, k \notin S PROVE FALSE
  OBVIOUS
<1> DEFINE Missed == {i \in 1..n : i \notin S}
<1>1. Missed \in SUBSET Nat /\ Missed # {}
  OBVIOUS
<1>2. PICK m \in Missed : \A i \in Missed : m <= i
  <2> HIDE DEF Missed
  <2> QED
    BY <1>1, LeastIsOneOfThem
<1>3. m # 1
  BY <1>2
<1>4. m - 1 \in 1..n /\ m - 1 \in S
  BY <1>2, <1>3
<1> QED
  BY <1>2, <1>4

(* What the flattening of s is after each of its sequences.                *)
Flattens(g, s) == g = [i \in 1..Len(s) |-> IF i = 1 THEN s[i] ELSE g[i - 1] \o s[i]]

LEMMA FlatteningExists ==
    ASSUME NEW S, NEW s \in Seq(Seq(S)), s # <<>> PROVE \E g : Flattens(g, s)
<1> DEFINE N == Len(s)
           Good(g, n) == g \in [1..n -> Seq(S)] /\
                         \A i \in 1..n : g[i] = IF i = 1 THEN s[i] ELSE g[i - 1] \o s[i]
           Fine == {n \in 1..N : \E g : Good(g, n)}
<1>1. N \in Nat /\ N >= 1 /\ \A i \in 1..N : s[i] \in Seq(S)
  OBVIOUS
<1> HIDE DEF N
<1>2. 1 \in Fine
  <2>1. Good([i \in 1..1 |-> s[1]], 1)
    BY <1>1
  <2> HIDE DEF Good
  <2> QED
    BY <1>1, <2>1
<1>3. ASSUME NEW n \in Fine, n + 1 <= N PROVE n + 1 \in Fine
  <2>1. PICK g : Good(g, n)
    OBVIOUS
  <2> DEFINE h == [i \in 1..(n + 1) |-> IF i = n + 1 THEN g[n] \o s[n + 1] ELSE g[i]]
  <2>2. n \in 1..N /\ n + 1 \in 1..N /\ n \in Nat
    BY <1>1, <1>3
  <2>3. g[n] \o s[n + 1] \in Seq(S)
    BY <1>1, <2>1, <2>2, ConcatProperties
  <2>4. h \in [1..(n + 1) -> Seq(S)]
    BY <2>1, <2>2, <2>3
  <2>5. ASSUME NEW i \in 1..(n + 1) PROVE h[i] = IF i = 1 THEN s[i] ELSE h[i - 1] \o s[i]
    <3>1. CASE i = n + 1
      <4>1. n \in 1..(n + 1) /\ n + 1 \in 1..(n + 1) /\ n # n + 1 /\ n + 1 # 1 /\ (n + 1) - 1 = n
        BY <2>2
      <4>2. h[n + 1] = g[n] \o s[n + 1] /\ h[n] = g[n]
        BY <4>1
      <4> HIDE DEF h
      <4> QED
        BY <3>1, <4>1, <4>2
    <3>2. CASE i # n + 1
      <4>1. i \in 1..n /\ (i # 1 => i - 1 \in 1..n)
        BY <2>2, <3>2
      <4>2. h[i] = g[i] /\ (i # 1 => h[i - 1] = g[i - 1])
        BY <2>2, <4>1
      <4> HIDE DEF h
      <4> QED
        BY <2>1, <4>1, <4>2
    <3> QED
      BY <3>1, <3>2
  <2>6. Good(h, n + 1)
    BY <2>4, <2>5
  <2> HIDE DEF Good, h
  <2> QED
    BY <2>2, <2>6
<1>4. \E g : Good(g, N)
  <2> HIDE DEF Good
  <2>1. Fine \in SUBSET Nat
    OBVIOUS
  <2>2. N >= 1 => 1 \in Fine
    BY <1>2
  <2> HIDE DEF Fine
  <2>3. 1..N \subseteq Fine
    BY <1>1, <1>3, <2>1, <2>2, AllPlaces
  <2>4. N \in Fine
    BY <1>1, <2>3
  <2> QED
    BY <2>4 DEF Fine
<1>5. PICK g : Good(g, N)
  BY <1>4
<1>6. Flattens(g, s)
  BY <1>5 DEF Flattens, N
<1> QED
  BY <1>6

LEMMA FlattenedOf ==
    ASSUME NEW S, NEW s \in Seq(Seq(S)), s # <<>>
    PROVE  \E g : Flattens(g, s) /\ FlattenSeq(s) = g[Len(s)]
<1>1. PICK g : Flattens(g, s)
  BY FlatteningExists
<1> DEFINE f == CHOOSE h : h = [i \in 1..Len(s) |-> IF i = 1 THEN s[i] ELSE h[i - 1] \o s[i]]
<1>2. Flattens(f, s)
  BY <1>1 DEF Flattens
<1>3. FlattenSeq(s) = f[Len(s)]
  BY DEF FlattenSeq
<1> HIDE DEF f
<1> QED
  BY <1>2, <1>3

(* A sequence of single elements.                                          *)
LEMMA FlattenedSingles ==
    ASSUME NEW S, NEW s \in Seq(Seq(S)), \A i \in 1..Len(s) : Len(s[i]) = 1
    PROVE  FlattenSeq(s) = [i \in 1..Len(s) |-> s[i][1]]
<1> DEFINE N == Len(s)
<1>1. CASE s = <<>>
  BY <1>1 DEF FlattenSeq
<1>2. CASE s # <<>>
  <2>1. PICK g : Flattens(g, s) /\ FlattenSeq(s) = g[Len(s)]
    BY <1>2, FlattenedOf
  <2> DEFINE Front1(n) == [i \in 1..n |-> s[i][1]]
             Fine == {n \in 1..N : g[n] = Front1(n)}
  <2>2. N \in Nat /\ N >= 1 /\ \A i \in 1..N : s[i] \in Seq(S) /\ Len(s[i]) = 1 /\ s[i] = <<s[i][1]>>
    BY <1>2
  <2>3. \A i \in 1..N : g[i] = IF i = 1 THEN s[i] ELSE g[i - 1] \o s[i]
    BY <2>1 DEF Flattens
  <2> HIDE DEF N
  <2>4. 1 \in Fine
    BY <2>2, <2>3
  <2>5. ASSUME NEW n \in Fine, n + 1 <= N PROVE n + 1 \in Fine
    <3>1. n \in 1..N /\ n + 1 \in 1..N /\ n \in Nat
      BY <2>2, <2>5
    <3>2. g[n + 1] = Front1(n) \o <<s[n + 1][1]>>
      <4>1. g[n + 1] = IF n + 1 = 1 THEN s[n + 1] ELSE g[(n + 1) - 1] \o s[n + 1]
        BY <2>3, <3>1
      <4>2. n + 1 # 1 /\ (n + 1) - 1 = n /\ g[n] = Front1(n)
        BY <2>5, <3>1
      <4>3. s[n + 1] = <<s[n + 1][1]>>
        BY <2>2, <3>1
      <4> HIDE DEF Front1
      <4> QED
        BY <4>1, <4>2, <4>3
    <3>3. Front1(n) \o <<s[n + 1][1]>> = Front1(n + 1)
      <4>1. \A i \in 1..N : s[i][1] \in S
        BY <2>2
      <4>2. Front1(n) \in Seq(S) /\ Front1(n + 1) \in Seq(S)
        <5>1. n \in Nat /\ n + 1 \in Nat /\ 1..n \subseteq 1..N /\ 1..(n + 1) \subseteq 1..N
          BY <2>2, <3>1
        <5>2. ASSUME NEW k \in Nat, 1..k \subseteq 1..N PROVE Front1(k) \in Seq(S)
          <6>1. \A i \in 1..k : s[i][1] \in S
            BY <4>1, <5>2
          <6> QED
            BY <6>1
        <5> QED
          BY <5>1, <5>2
      <4>3. Len(Front1(n)) = n /\ Len(Front1(n + 1)) = n + 1 /\ Len(<<s[n + 1][1]>>) = 1
        BY <3>1
      <4> QED
        BY <3>1, <4>1, <4>2, <4>3, SeqEqual
    <3> QED
      BY <3>1, <3>2, <3>3
  <2>6. N \in Fine
    <3>1. Fine \in SUBSET Nat /\ (N >= 1 => 1 \in Fine)
      BY <2>4
    <3> HIDE DEF Fine
    <3>2. 1..N \subseteq Fine
      BY <2>2, <2>5, <3>1, AllPlaces
    <3> QED
      BY <2>2, <3>2
  <2> QED
    BY <2>1, <2>6 DEF N
<1> QED
  BY <1>1, <1>2

LEMMA SameFlattening == \A s : Fdt!FlattenSeq(s) = FlattenSeq(s) /\ Scan!FlattenSeq(s) = FlattenSeq(s)
BY DEF FlattenSeq, Fdt!FlattenSeq, Scan!FlattenSeq
-----------------------------------------------------------------------------
(* Device trees *)

(* The names of one component, which the audit lets pass, and the path of  *)
(* what is below the root.                                                 *)
Single == {<<n>> : n \in FdtNames \cup {Fdt!Nameless}}

Below(names) == [k \in 1..(Len(names) - 1) |-> names[k + 1][1]]

(* The open nodes are the stack; each node begins at the root, is there    *)
(* once, and has a path of its own.                                        *)
NodesTyped ==
    /\ stack \in Seq(Single) /\ begun \in Seq(Seq(Single)) /\ inside \in Seq(Nat)
    /\ Len(inside) = Len(stack)

OpenAreBegun ==
    \A i \in 1..Len(stack) :
        inside[i] \in 1..Len(begun) /\ begun[inside[i]] = SubSeq(stack, 1, i)

AtRoot(names) == names # <<>> /\ names[1] = <<Fdt!Nameless>> /\ Below(names) # <<Fdt!Nameless>>

FromTheRoot == \A i \in 1..Len(begun) : AtRoot(begun[i])

BegunOnce == \A i, j \in 1..Len(begun) : begun[i] = begun[j] => i = j

NodesAreBegun == nodes = {Below(begun[i]) : i \in 1..Len(begun)}

NodesOK == NodesTyped /\ OpenAreBegun /\ FromTheRoot /\ BegunOnce /\ NodesAreBegun

Entry(f) == <<Below(begun[f.node]), f.key>>

(* What was read is in props, and once in the block.                       *)
FoundTyped ==
    /\ found \in Seq([node : Nat, key : Keys, value : Values])
    /\ \A k \in 1..Len(found) : found[k].node \in 1..Len(begun)

PropsAreFound ==
    /\ DOMAIN props = {Entry(found[k]) : k \in 1..Len(found)}
    /\ \A k \in 1..Len(found) : props[Entry(found[k])] = found[k].value

FoundOnce ==
    \A j, k \in 1..Len(found) :
        found[j].node = found[k].node /\ found[j].key = found[k].key => j = k

PropsOK == FoundTyped /\ PropsAreFound /\ FoundOnce

FdtInv ==
    verdict # "reject" =>
        /\ NodesOK /\ PropsOK
        /\ verdict = "accept" => stack = <<>> /\ <<>> \in nodes

LEMMA FdtStarts == Fdt!Init => FdtInv
<1> SUFFICES ASSUME Fdt!Init PROVE NodesOK /\ PropsOK /\ verdict = "none"
  BY DEF FdtInv
<1>1. stack = <<>> /\ begun = <<>> /\ inside = <<>> /\ nodes = {} /\ props = <<>> /\ found = <<>>
  BY DEF Fdt!Init
<1> QED
  BY <1>1 DEF Fdt!Init, NodesOK, NodesTyped, OpenAreBegun, FromTheRoot, BegunOnce, NodesAreBegun, PropsOK, FoundTyped, PropsAreFound,
             FoundOnce

LEMMA SingleIs ==
    ASSUME NEW x \in Single
    PROVE  x[1] \in FdtNames \cup {Fdt!Nameless} /\ x = <<x[1]>> /\ Len(x) = 1 /\ x \in Seq(FdtNames \cup {Fdt!Nameless})
<1>1. PICK n \in FdtNames \cup {Fdt!Nameless} : x = <<n>>
  BY DEF Single
<1>2. x[1] = n /\ Len(x) = 1
  BY <1>1
<1>3. <<n>> \in Seq(FdtNames \cup {Fdt!Nameless})
  OBVIOUS
<1> QED
  BY <1>1, <1>2, <1>3

LEMMA OnlyOne ==
    ASSUME NEW S, NEW s \in Seq(S), Len(s) = 1 PROVE s[1] \in S /\ s = <<s[1]>>
<1>1. s[1] \in S
  OBVIOUS
<1>2. <<s[1]>> \in Seq(S) /\ Len(<<s[1]>>) = 1 /\ <<s[1]>>[1] = s[1]
  BY <1>1
<1>3. \A i \in 1..Len(s) : s[i] = <<s[1]>>[i]
  BY <1>2
<1> QED
  BY <1>1, <1>2, <1>3, SeqEqual

LEMMA Appended ==
    ASSUME NEW S, NEW s \in Seq(S), NEW e \in S
    PROVE  /\ Append(s, e) \in Seq(S) /\ Len(Append(s, e)) = Len(s) + 1
           /\ Append(s, e)[Len(s) + 1] = e /\ \A i \in 1..Len(s) : Append(s, e)[i] = s[i]
OBVIOUS

(* The path that the audit computes is the one below, but for the root's.  *)
LEMMA PathIs ==
    ASSUME NEW names \in Seq(Single), names # <<>>
    PROVE  /\ Fdt!FlattenSeq(Tail(names)) = Below(names)
           /\ Fdt!PathOf(names) = IF Below(names) = <<Fdt!Nameless>> THEN <<>> ELSE Below(names)
<1> DEFINE S == FdtNames \cup {Fdt!Nameless}
           t == Tail(names)
<1>1. t \in Seq(Single) /\ Len(t) = Len(names) - 1 /\ \A k \in 1..Len(t) : t[k] = names[k + 1]
  OBVIOUS
<1>2. \A x \in Single : x \in Seq(S) /\ Len(x) = 1
  BY SingleIs
<1>3. t \in Seq(Seq(S)) /\ \A k \in 1..Len(t) : Len(t[k]) = 1
  <2> HIDE DEF t, S
  <2> QED
    BY <1>1, <1>2
<1>4. FlattenSeq(t) = [k \in 1..Len(t) |-> t[k][1]]
  <2> HIDE DEF t, S
  <2> QED
    BY <1>3, FlattenedSingles
<1>5. [k \in 1..Len(t) |-> t[k][1]] = Below(names)
  <2> HIDE DEF t
  <2> QED
    BY <1>1 DEF Below
<1>6. Fdt!FlattenSeq(t) = Below(names)
  BY <1>4, <1>5, SameFlattening
<1> QED
  BY <1>6 DEF Fdt!PathOf, Fdt!Root

(* A node is known by its path.                                            *)
LEMMA BelowIsUnique ==
    ASSUME NEW a \in Seq(Single), NEW b \in Seq(Single), a # <<>>, b # <<>>,
           a[1] = b[1], Below(a) = Below(b)
    PROVE  a = b
<1>1. Len(a) \in Nat \ {0} /\ Len(b) \in Nat \ {0}
  OBVIOUS
<1>2. Len(a) = Len(b)
  <2>1. DOMAIN Below(a) = 1..(Len(a) - 1) /\ DOMAIN Below(b) = 1..(Len(b) - 1)
    BY DEF Below
  <2>2. 1..(Len(a) - 1) = 1..(Len(b) - 1)
    BY <2>1
  <2> QED
    BY <1>1, <2>2
<1>3. ASSUME NEW k \in 1..Len(a) PROVE a[k] = b[k]
  <2>1. CASE k = 1
    BY <2>1
  <2>2. CASE k # 1
    <3>1. k - 1 \in 1..(Len(a) - 1) /\ (k - 1) + 1 = k
      BY <1>1, <2>2
    <3>2. Below(a)[k - 1] = a[k][1] /\ Below(b)[k - 1] = b[k][1]
      BY <1>2, <3>1 DEF Below
    <3>3. a[k] \in Single /\ b[k] \in Single
      BY <1>2
    <3> QED
      BY <3>2, <3>3, SingleIs
  <2> QED
    BY <2>1, <2>2
<1> QED
  BY <1>2, <1>3, SeqEqual

LEMMA RootIsSingle == Fdt!Root \in Single
BY DEF Fdt!Root, Single

(* What is open is the node that was begun last and has not ended.         *)
LEMMA OpenNode ==
    ASSUME NodesOK, stack # <<>>
    PROVE  /\ inside # <<>> /\ Len(stack) \in Nat \ {0}
           /\ Fdt!Last(inside) = inside[Len(stack)] /\ Fdt!Last(inside) \in 1..Len(begun)
           /\ begun[Fdt!Last(inside)] = stack /\ AtRoot(stack)
           /\ Fdt!PathOf(stack) = Below(stack)
<1>1. /\ stack \in Seq(Single) /\ inside \in Seq(Nat) /\ Len(inside) = Len(stack)
      /\ Len(stack) \in Nat \ {0}
  BY DEF NodesOK, NodesTyped
<1>2. SubSeq(stack, 1, Len(stack)) = stack
  BY <1>1
<1>3. inside[Len(stack)] \in 1..Len(begun) /\ begun[inside[Len(stack)]] = stack
  BY <1>1, <1>2 DEF NodesOK, OpenAreBegun
<1>4. Fdt!Last(inside) = inside[Len(stack)]
  BY <1>1 DEF Fdt!Last
<1>5. AtRoot(stack)
  BY <1>3 DEF NodesOK, FromTheRoot
<1>6. Fdt!PathOf(stack) = Below(stack)
  BY <1>1, <1>5, PathIs DEF AtRoot
<1> QED
  BY <1>1, <1>3, <1>4, <1>5, <1>6

LEMMA BeginNodeStep ==
    ASSUME NodesOK, PropsOK, NEW name \in Fdt!NodeNames, Fdt!NodeAllowed(name),
           stack' = Append(stack, name), nodes' = nodes \cup {Fdt!PathOf(Append(stack, name))},
           props' = props, found' = found,
           begun' = Append(begun, IF inside = <<>> THEN <<name>> ELSE Append(begun[Fdt!Last(inside)], name)),
           inside' = Append(inside, Len(begun) + 1)
    PROVE  NodesOK' /\ PropsOK'
<1> DEFINE new == Append(stack, name)
<1>1. /\ stack \in Seq(Single) /\ begun \in Seq(Seq(Single)) /\ inside \in Seq(Nat)
      /\ Len(inside) = Len(stack) /\ Len(begun) \in Nat /\ Len(stack) \in Nat
  BY DEF NodesOK, NodesTyped
<1>2. name \in Single
  <2>1. Len(name) = 1
    BY DEF Fdt!NodeAllowed
  <2>2. CASE name \in Slashed
    <3>1. name \in Seq(FdtNames)
      BY <2>2, NamesAssumption DEF Fdt!NamesAreSplit
    <3>2. name[1] \in FdtNames /\ name = <<name[1]>>
      BY <2>1, <3>1, OnlyOne
    <3> QED
      BY <3>2 DEF Single
  <2> QED
    BY <2>2, RootIsSingle DEF Fdt!NodeNames, Single
<1>3. new \in Seq(Single) /\ new # <<>> /\ Len(new) = Len(stack) + 1
  BY <1>1, <1>2
<1>4. begun' = Append(begun, new)
  <2>1. CASE stack = <<>>
    BY <1>1, <2>1
  <2>2. CASE stack # <<>>
    BY <2>2, OpenNode
  <2> QED
    BY <2>1, <2>2
<1>5. new[1] = <<Fdt!Nameless>>
  <2>1. CASE stack = <<>>
    BY <1>1, <2>1 DEF Fdt!NodeAllowed, Fdt!Root
  <2>2. CASE stack # <<>>
    <3>1. stack[1] = <<Fdt!Nameless>> /\ Len(stack) # 0
      BY <1>1, <2>2, OpenNode DEF AtRoot
    <3> QED
      BY <1>1, <1>2, <3>1
  <2> QED
    BY <2>1, <2>2
<1>6. Fdt!PathOf(new) \notin nodes
  BY DEF Fdt!NodeAllowed
<1>7. Below(new) # <<Fdt!Nameless>>
  <2> SUFFICES ASSUME Below(new) = <<Fdt!Nameless>> PROVE FALSE
    OBVIOUS
  <2>1. Fdt!PathOf(new) = <<>>
    BY <1>3, PathIs
  <2>2. Len(stack) # 0
    <3>1. DOMAIN Below(new) = 1..Len(stack)
      BY <1>1, <1>3 DEF Below
    <3>2. DOMAIN Below(new) = 1..1
      OBVIOUS
    <3> QED
      BY <1>1, <3>1, <3>2
  <2>3. 1 \in 1..Len(stack)
    BY <1>1, <2>2
  <2>4. inside[1] \in 1..Len(begun) /\ begun[inside[1]] = SubSeq(stack, 1, 1)
    BY <2>3 DEF NodesOK, OpenAreBegun
  <2>5. Below(SubSeq(stack, 1, 1)) = <<>>
    <3>1. Len(SubSeq(stack, 1, 1)) = 1
      BY <1>1, <2>3
    <3> QED
      BY <3>1 DEF Below
  <2>6. <<>> \in nodes
    BY <2>4, <2>5 DEF NodesOK, NodesAreBegun
  <2> QED
    BY <1>6, <2>1, <2>6
<1>8. Fdt!PathOf(new) = Below(new)
  BY <1>3, <1>7, PathIs
<1> HIDE DEF new
<1>9. /\ begun' \in Seq(Seq(Single)) /\ Len(begun') = Len(begun) + 1
      /\ begun'[Len(begun) + 1] = new /\ \A i \in 1..Len(begun) : begun'[i] = begun[i]
  <2> DEFINE T == Seq(Single)
  <2>1. begun \in Seq(T) /\ new \in T
    BY <1>1, <1>3
  <2> HIDE DEF T
  <2>2. /\ Append(begun, new) \in Seq(T) /\ Len(Append(begun, new)) = Len(begun) + 1
        /\ Append(begun, new)[Len(begun) + 1] = new
        /\ \A i \in 1..Len(begun) : Append(begun, new)[i] = begun[i]
    BY <2>1, Appended
  <2> QED
    BY <1>4, <2>2 DEF T
<1>10. /\ inside' \in Seq(Nat) /\ Len(inside') = Len(stack) + 1 /\ Len(stack') = Len(stack) + 1
       /\ inside'[Len(stack) + 1] = Len(begun) + 1 /\ stack' = new
       /\ \A i \in 1..Len(stack) : inside'[i] = inside[i]
  BY <1>1, <1>3 DEF new
<1>11. ASSUME NEW i \in 1..Len(stack')
       PROVE  inside'[i] \in 1..Len(begun') /\ begun'[inside'[i]] = SubSeq(stack', 1, i)
  <2>1. CASE i = Len(stack) + 1
    <3>1. SubSeq(stack', 1, i) = new
      BY <1>1, <1>2, <1>10, <2>1, Beginnings DEF new
    <3>2. inside'[i] = Len(begun) + 1
      BY <1>10, <2>1
    <3>3. Len(begun) + 1 \in 1..Len(begun')
      BY <1>1, <1>9
    <3> QED
      BY <1>9, <1>10, <3>1, <3>2, <3>3
  <2>2. CASE i # Len(stack) + 1
    <3>1. i \in 1..Len(stack)
      BY <1>1, <1>10, <2>2
    <3>2. SubSeq(stack', 1, i) = SubSeq(stack, 1, i)
      BY <1>1, <1>2, <1>10, <3>1, Beginnings DEF new
    <3>3. inside[i] \in 1..Len(begun) /\ begun[inside[i]] = SubSeq(stack, 1, i)
      BY <3>1 DEF NodesOK, OpenAreBegun
    <3>4. inside'[i] = inside[i]
      BY <1>10, <3>1
    <3>5. begun'[inside[i]] = begun[inside[i]] /\ inside[i] \in 1..Len(begun')
      <4> DEFINE place == inside[i]
      <4>1. place \in 1..Len(begun)
        BY <3>3
      <4> HIDE DEF place
      <4>2. begun'[place] = begun[place] /\ place \in 1..Len(begun')
        BY <1>1, <1>9, <4>1
      <4> QED
        BY <4>2 DEF place
    <3> QED
      BY <3>2, <3>3, <3>4, <3>5
  <2> QED
    BY <2>1, <2>2
<1>12. ASSUME NEW k \in 1..Len(begun')
       PROVE  \/ k \in 1..Len(begun) /\ begun'[k] = begun[k]
              \/ k = Len(begun) + 1 /\ begun'[k] = new
  <2>1. k \in 1..Len(begun) \/ k = Len(begun) + 1
    BY <1>1, <1>9
  <2> QED
    BY <1>9, <2>1
<1>13. \A i \in 1..Len(begun) : begun[i] # new
  <2> SUFFICES ASSUME NEW i \in 1..Len(begun), begun[i] = new PROVE FALSE
    OBVIOUS
  <2>1. Below(new) \in nodes
    BY DEF NodesOK, NodesAreBegun
  <2> QED
    BY <1>6, <1>8, <2>1
<1>14. FromTheRoot'
  <2>1. AtRoot(new)
    BY <1>3, <1>5, <1>7 DEF AtRoot
  <2>2. \A i \in 1..Len(begun) : AtRoot(begun[i])
    BY DEF NodesOK, FromTheRoot
  <2>3. \A i \in 1..Len(begun') : AtRoot(begun'[i])
    BY <1>12, <2>1, <2>2
  <2> QED
    BY <2>3 DEF FromTheRoot, AtRoot, Below
<1>15. BegunOnce'
  <2> SUFFICES ASSUME NEW i \in 1..Len(begun'), NEW j \in 1..Len(begun'), begun'[i] = begun'[j]
               PROVE  i = j
    BY DEF BegunOnce
  <2>1. \A k, l \in 1..Len(begun) : begun[k] = begun[l] => k = l
    BY DEF NodesOK, BegunOnce
  <2>2. \/ i \in 1..Len(begun) /\ begun'[i] = begun[i]
        \/ i = Len(begun) + 1 /\ begun'[i] = new
    BY <1>12
  <2>3. \/ j \in 1..Len(begun) /\ begun'[j] = begun[j]
        \/ j = Len(begun) + 1 /\ begun'[j] = new
    BY <1>12
  <2> QED
    BY <1>13, <2>1, <2>2, <2>3
<1>16. NodesAreBegun'
  <2>1. nodes' = {Below(begun[i]) : i \in 1..Len(begun)} \cup {Below(new)}
    BY <1>8 DEF NodesOK, NodesAreBegun, new
  <2>2. nodes' = {Below(begun'[i]) : i \in 1..Len(begun')}
    <3>1. \A i \in 1..Len(begun) : i \in 1..Len(begun') /\ begun'[i] = begun[i]
      BY <1>1, <1>9
    <3>2. Len(begun) + 1 \in 1..Len(begun')
      BY <1>1, <1>9
    <3> QED
      BY <1>9, <1>12, <2>1, <3>1, <3>2
  <2> QED
    BY <2>2 DEF NodesAreBegun, Below
<1>18. NodesOK'
  <2>1. NodesTyped'
    BY <1>3, <1>9, <1>10 DEF NodesTyped
  <2>2. OpenAreBegun'
    BY <1>11 DEF OpenAreBegun
  <2> QED
    BY <1>14, <1>15, <1>16, <2>1, <2>2 DEF NodesOK
<1>17. PropsOK'
  <2>1. \A k \in 1..Len(found) : /\ found[k].node \in 1..Len(begun')
                                 /\ Below(begun'[found[k].node]) = Below(begun[found[k].node])
    <3> TAKE k \in 1..Len(found)
    <3> DEFINE place == found[k].node
    <3>1. place \in 1..Len(begun)
      BY DEF PropsOK, FoundTyped
    <3> HIDE DEF place
    <3>2. begun'[place] = begun[place] /\ place \in 1..Len(begun')
      BY <1>1, <1>9, <3>1
    <3> QED
      BY <3>2 DEF place
  <2>2. \A k \in 1..Len(found) : <<Below(begun'[found[k].node]), found[k].key>> = Entry(found[k])
    BY <2>1 DEF Entry
  <2>3. DOMAIN props' = {<<Below(begun'[found'[k].node]), found'[k].key>> : k \in 1..Len(found')}
    <3>1. DOMAIN props = {Entry(found[k]) : k \in 1..Len(found)}
      BY DEF PropsOK, PropsAreFound
    <3> QED
      BY <2>2, <3>1
  <2>4. \A k \in 1..Len(found') :
            props'[<<Below(begun'[found'[k].node]), found'[k].key>>] = found'[k].value
    BY <2>2 DEF PropsOK, PropsAreFound
  <2>5. FoundTyped'
    BY <2>1 DEF PropsOK, FoundTyped
  <2>6. PropsAreFound'
    <3>1. DOMAIN props' = {Entry(found[k])' : k \in 1..Len(found')}
      BY <2>3 DEF Entry, Below
    <3>2. \A k \in 1..Len(found') : props'[Entry(found[k])'] = found'[k].value
      BY <2>4 DEF Entry, Below
    <3> QED
      BY <3>1, <3>2 DEF PropsAreFound
  <2>7. FoundOnce'
    BY DEF PropsOK, FoundOnce
  <2> QED
    BY <2>5, <2>6, <2>7 DEF PropsOK
<1> QED
  BY <1>17, <1>18

LEMMA NodesStay ==
    ASSUME NodesOK, begun' = begun, nodes' = nodes
    PROVE  FromTheRoot' /\ BegunOnce' /\ NodesAreBegun'
<1>1. FromTheRoot'
  BY DEF NodesOK, FromTheRoot, AtRoot, Below
<1>2. BegunOnce'
  BY DEF NodesOK, BegunOnce
<1>3. nodes' = {Below(begun'[i]) : i \in 1..Len(begun')}
  BY DEF NodesOK, NodesAreBegun
<1> QED
  BY <1>1, <1>2, <1>3 DEF NodesAreBegun, Below

LEMMA OpenStay ==
    ASSUME NodesOK, begun' = begun, nodes' = nodes, stack' = stack, inside' = inside
    PROVE  NodesOK'
<1>1. NodesTyped'
  BY DEF NodesOK, NodesTyped
<1>2. OpenAreBegun'
  BY DEF NodesOK, OpenAreBegun
<1> QED
  BY <1>1, <1>2, NodesStay DEF NodesOK

LEMMA PropsStay ==
    ASSUME PropsOK, begun' = begun, found' = found, props' = props
    PROVE  PropsOK'
<1>1. FoundTyped'
  BY DEF PropsOK, FoundTyped
<1>2. FoundOnce'
  BY DEF PropsOK, FoundOnce
<1>3. \A k \in 1..Len(found) : Entry(found'[k]) = Entry(found[k])'
  BY DEF Entry, Below
<1>4. DOMAIN props' = {Entry(found[k])' : k \in 1..Len(found')}
  <2>1. DOMAIN props' = {Entry(found'[k]) : k \in 1..Len(found')}
    BY DEF PropsOK, PropsAreFound
  <2> QED
    BY <1>3, <2>1
<1>5. \A k \in 1..Len(found') : props'[Entry(found[k])'] = found'[k].value
  <2>1. \A k \in 1..Len(found') : props'[Entry(found'[k])] = found'[k].value
    BY DEF PropsOK, PropsAreFound
  <2> QED
    BY <1>3, <2>1
<1>6. PropsAreFound'
  BY <1>4, <1>5 DEF PropsAreFound
<1> QED
  BY <1>1, <1>2, <1>6 DEF PropsOK

LEMMA EndNodeStep ==
    ASSUME NodesOK, PropsOK, stack # <<>>,
           stack' = Fdt!Front(stack), inside' = Fdt!Front(inside), nodes' = nodes,
           props' = props, begun' = begun, found' = found
    PROVE  NodesOK' /\ PropsOK'
<1>1. /\ stack \in Seq(Single) /\ inside \in Seq(Nat) /\ begun \in Seq(Seq(Single))
      /\ Len(inside) = Len(stack) /\ Len(stack) \in Nat \ {0} /\ inside # <<>>
  BY DEF NodesOK, NodesTyped
<1>2. stack' = Front(stack) /\ inside' = Front(inside)
  BY DEF Fdt!Front, Front
<1>3. /\ stack' \in Seq(Single) /\ inside' \in Seq(Nat)
      /\ Len(stack') = Len(stack) - 1 /\ Len(inside') = Len(stack) - 1
      /\ \A i \in 1..(Len(stack) - 1) : inside'[i] = inside[i]
  <2>1. /\ Front(stack) \in Seq(Single) /\ Len(Front(stack)) = Len(stack) - 1
    BY <1>1, TopOf
  <2>2. /\ Front(inside) \in Seq(Nat) /\ Len(Front(inside)) = Len(stack) - 1
        /\ \A i \in 1..(Len(stack) - 1) : Front(inside)[i] = inside[i]
    BY <1>1, TopOf
  <2> QED
    BY <1>2, <2>1, <2>2
<1>4. \A i \in 1..(Len(stack) - 1) : SubSeq(stack', 1, i) = SubSeq(stack, 1, i)
  <2>1. stack # <<>>
    OBVIOUS
  <2>2. \A i \in 1..(Len(stack) - 1) : SubSeq(Front(stack), 1, i) = SubSeq(stack, 1, i)
    BY <1>1, <2>1, RootIsSingle, Beginnings
  <2> QED
    BY <1>2, <2>2
<1>5. NodesTyped'
  BY <1>1, <1>3 DEF NodesTyped
<1>6. OpenAreBegun'
  <2>1. \A i \in 1..(Len(stack) - 1) : i \in 1..Len(stack)
    BY <1>1
  <2>2. \A i \in 1..(Len(stack) - 1) :
            inside[i] \in 1..Len(begun) /\ begun[inside[i]] = SubSeq(stack, 1, i)
    BY <2>1 DEF NodesOK, OpenAreBegun
  <2>3. \A i \in 1..Len(stack') :
            inside'[i] \in 1..Len(begun) /\ begun[inside'[i]] = SubSeq(stack', 1, i)
    BY <1>3, <1>4, <2>2
  <2> QED
    BY <2>3 DEF OpenAreBegun
<1>7. FromTheRoot' /\ BegunOnce' /\ NodesAreBegun'
  BY NodesStay
<1>8. PropsOK'
  BY PropsStay
<1> QED
  BY <1>5, <1>6, <1>7, <1>8 DEF NodesOK

LEMMA PropertyStep ==
    ASSUME NodesOK, PropsOK, stack # <<>>, NEW key \in Keys, NEW value \in Values,
           <<Fdt!PathOf(stack), key>> \notin DOMAIN props,
           props' = [p \in DOMAIN props \cup {<<Fdt!PathOf(stack), key>>} |->
                        IF p = <<Fdt!PathOf(stack), key>> THEN value ELSE props[p]],
           found' = Append(found, [node |-> Fdt!Last(inside), key |-> key, value |-> value]),
           stack' = stack, inside' = inside, nodes' = nodes, begun' = begun
    PROVE  NodesOK' /\ PropsOK'
<1>1. NodesOK'
  BY OpenStay
<1> DEFINE f == [node |-> Fdt!Last(inside), key |-> key, value |-> value]
           e == <<Fdt!PathOf(stack), key>>
           F == [node : Nat, key : Keys, value : Values]
<1>2. f.node \in 1..Len(begun) /\ f.key = key /\ f.value = value /\ begun[f.node] = stack
  BY OpenNode
<1>3. f \in F
  BY <1>2
<1>4. Entry(f) = e
  BY <1>2, OpenNode DEF Entry
<1>5. found \in Seq(F) /\ \A k \in 1..Len(found) : found[k].node \in 1..Len(begun)
  BY DEF PropsOK, FoundTyped
<1>6. DOMAIN props' = DOMAIN props \cup {e} /\ props'[e] = value /\ \A p \in DOMAIN props : props'[p] = props[p]
  OBVIOUS
<1>7. e \notin DOMAIN props /\ found' = Append(found, f)
  OBVIOUS
<1>8. DOMAIN props = {Entry(found[k]) : k \in 1..Len(found)}
      /\ \A k \in 1..Len(found) : props[Entry(found[k])] = found[k].value
  BY DEF PropsOK, PropsAreFound
<1> HIDE DEF f, e, F
<1>9. /\ found' \in Seq(F) /\ Len(found') = Len(found) + 1 /\ found'[Len(found) + 1] = f
      /\ Len(found) \in Nat /\ \A k \in 1..Len(found) : found'[k] = found[k]
  BY <1>3, <1>5, <1>7, Appended
<1>10. ASSUME NEW k \in 1..Len(found')
       PROVE  \/ k \in 1..Len(found) /\ found'[k] = found[k]
              \/ k = Len(found) + 1 /\ found'[k] = f
  <2>1. k \in 1..Len(found) \/ k = Len(found) + 1
    BY <1>9
  <2> QED
    BY <1>9, <2>1
<1>11. \A k \in 1..Len(found) : k \in 1..Len(found')
  BY <1>9
<1>12. Len(found) + 1 \in 1..Len(found')
  BY <1>9
<1>13. FoundTyped'
  <2>1. \A k \in 1..Len(found') : found'[k].node \in 1..Len(begun')
    BY <1>2, <1>5, <1>10
  <2> QED
    BY <1>9, <2>1 DEF FoundTyped, F
<1>14. PropsAreFound'
  <2>1. DOMAIN props' = {Entry(found'[k]) : k \in 1..Len(found')}
    <3>1. \A p \in DOMAIN props' : \E k \in 1..Len(found') : p = Entry(found'[k])
      <4> SUFFICES ASSUME NEW p \in DOMAIN props' PROVE \E k \in 1..Len(found') : p = Entry(found'[k])
        OBVIOUS
      <4>1. CASE p = e
        BY <1>4, <1>9, <1>12, <4>1
      <4>2. CASE p # e
        <5>1. PICK k \in 1..Len(found) : p = Entry(found[k])
          BY <1>6, <1>8, <4>2
        <5> QED
          BY <1>9, <1>11, <5>1
      <4> QED
        BY <4>1, <4>2
    <3>2. \A k \in 1..Len(found') : Entry(found'[k]) \in DOMAIN props'
      <4> SUFFICES ASSUME NEW k \in 1..Len(found') PROVE Entry(found'[k]) \in DOMAIN props'
        OBVIOUS
      <4>1. CASE k \in 1..Len(found) /\ found'[k] = found[k]
        BY <1>6, <1>8, <4>1
      <4>2. CASE k = Len(found) + 1 /\ found'[k] = f
        BY <1>4, <1>6, <4>2
      <4> QED
        BY <1>10, <4>1, <4>2
    <3> DEFINE D == DOMAIN props'
               E(k) == Entry(found'[k])
    <3>3. \A p \in D : \E k \in 1..Len(found') : p = E(k)
      BY <3>1
    <3>4. \A k \in 1..Len(found') : E(k) \in D
      BY <3>2
    <3> HIDE DEF D, E
    <3>5. D = {E(k) : k \in 1..Len(found')}
      BY <3>3, <3>4
    <3> QED
      BY <3>5 DEF D, E
  <2>2. \A k \in 1..Len(found') : props'[Entry(found'[k])] = found'[k].value
    <3> SUFFICES ASSUME NEW k \in 1..Len(found') PROVE props'[Entry(found'[k])] = found'[k].value
      OBVIOUS
    <3>1. CASE k \in 1..Len(found) /\ found'[k] = found[k]
      BY <1>6, <1>8, <3>1
    <3>2. CASE k = Len(found) + 1 /\ found'[k] = f
      BY <1>2, <1>4, <1>6, <3>2
    <3> QED
      BY <1>10, <3>1, <3>2
  <2>3. \A k \in 1..Len(found') : Entry(found'[k]) = Entry(found[k])'
    BY DEF Entry, Below
  <2>4. DOMAIN props' = {Entry(found[k])' : k \in 1..Len(found')}
    BY <2>1, <2>3
  <2>5. \A k \in 1..Len(found') : props'[Entry(found[k])'] = found'[k].value
    BY <2>2, <2>3
  <2> QED
    BY <2>4, <2>5 DEF PropsAreFound
<1>15. \A k \in 1..Len(found) : ~(found[k].node = f.node /\ found[k].key = f.key)
  <2> SUFFICES ASSUME NEW k \in 1..Len(found), found[k].node = f.node, found[k].key = f.key
               PROVE  FALSE
    OBVIOUS
  <2>1. Entry(found[k]) = Entry(f)
    BY DEF Entry
  <2> QED
    BY <1>4, <1>7, <1>8, <2>1
<1>16. FoundOnce'
  <2> SUFFICES ASSUME NEW j \in 1..Len(found'), NEW k \in 1..Len(found'),
                      found'[j].node = found'[k].node, found'[j].key = found'[k].key
               PROVE  j = k
    BY DEF FoundOnce
  <2>1. \A a, b \in 1..Len(found) :
            found[a].node = found[b].node /\ found[a].key = found[b].key => a = b
    BY DEF PropsOK, FoundOnce
  <2>2. \/ j \in 1..Len(found) /\ found'[j] = found[j]
        \/ j = Len(found) + 1 /\ found'[j] = f
    BY <1>10
  <2>3. \/ k \in 1..Len(found) /\ found'[k] = found[k]
        \/ k = Len(found) + 1 /\ found'[k] = f
    BY <1>10
  <2> QED
    BY <1>15, <2>1, <2>2, <2>3
<1> QED
  BY <1>1, <1>13, <1>14, <1>16 DEF PropsOK

LEMMA FdtSteps == ASSUME FdtInv, Fdt!Next PROVE FdtInv'
<1> SUFFICES ASSUME verdict' # "reject"
             PROVE  NodesOK' /\ PropsOK' /\ (verdict' = "accept" => stack' = <<>> /\ <<>> \in nodes')
  BY DEF FdtInv
<1>1. verdict = "none"
  BY DEF Fdt!Next, Fdt!BeginNode, Fdt!EndNode, Fdt!Property, Fdt!Finish, Fdt!Bad, Fdt!Reading
<1>2. NodesOK /\ PropsOK
  BY <1>1 DEF FdtInv
<1>3. CASE Fdt!BeginNode
  <2>1. PICK name \in Fdt!NodeNames :
            /\ Fdt!NodeAllowed(name)
            /\ stack' = Append(stack, name) /\ nodes' = nodes \cup {Fdt!PathOf(Append(stack, name))}
            /\ props' = props /\ found' = found /\ verdict' = verdict
            /\ begun' = Append(begun, IF inside = <<>> THEN <<name>>
                                      ELSE Append(begun[Fdt!Last(inside)], name))
            /\ inside' = Append(inside, Len(begun) + 1)
    BY <1>3 DEF Fdt!BeginNode, Fdt!Reject
  <2> QED
    BY <1>1, <1>2, <2>1, BeginNodeStep
<1>4. CASE Fdt!EndNode
  <2>1. /\ stack # <<>> /\ stack' = Fdt!Front(stack) /\ inside' = Fdt!Front(inside) /\ nodes' = nodes
        /\ props' = props /\ begun' = begun /\ found' = found /\ verdict' = verdict
    BY <1>4 DEF Fdt!EndNode, Fdt!Reject
  <2> QED
    BY <1>1, <1>2, <2>1, EndNodeStep
<1>5. CASE Fdt!Property
  <2>1. PICK key \in Keys, value \in Values :
            /\ stack # <<>> /\ <<Fdt!PathOf(stack), key>> \notin DOMAIN props
            /\ props' = [p \in DOMAIN props \cup {<<Fdt!PathOf(stack), key>>} |->
                            IF p = <<Fdt!PathOf(stack), key>> THEN value ELSE props[p]]
            /\ found' = Append(found, [node |-> Fdt!Last(inside), key |-> key, value |-> value])
            /\ stack' = stack /\ inside' = inside /\ nodes' = nodes /\ begun' = begun
            /\ verdict' = verdict
    BY <1>5 DEF Fdt!Property, Fdt!Reject
  <2> QED
    BY <1>1, <1>2, <2>1, PropertyStep
<1>6. CASE Fdt!Finish
  <2>1. /\ stack = <<>> /\ <<>> \in nodes /\ stack' = stack /\ nodes' = nodes /\ props' = props
        /\ begun' = begun /\ found' = found /\ inside' = inside
    BY <1>6 DEF Fdt!Finish, Fdt!Reject
  <2>2. NodesOK'
    BY <1>2, <2>1, OpenStay
  <2>3. PropsOK'
    BY <1>2, <2>1, PropsStay
  <2> QED
    BY <2>1, <2>2, <2>3
<1> QED
  BY <1>3, <1>4, <1>5, <1>6 DEF Fdt!Next, Fdt!Bad, Fdt!Reject

(* The loader comes to the node whose path the audit knows.                *)
LEMMA NodeOfPath ==
    ASSUME NodesOK, NEW i \in 1..Len(begun), NEW path, path = Below(begun[i])
    PROVE  Fdt!FirstNode(path) = i
<1> DEFINE names == begun[i]
<1>1. /\ begun \in Seq(Seq(Single)) /\ names \in Seq(Single) /\ Len(names) \in Nat \ {0}
      /\ names[1] = <<Fdt!Nameless>>
  BY DEF NodesOK, NodesTyped, FromTheRoot, AtRoot
<1> HIDE DEF names
<1>2. DOMAIN path = 1..(Len(names) - 1) /\ \A k \in 1..(Len(names) - 1) : path[k] = names[k + 1][1]
  BY DEF Below, names
<1> DEFINE rest == [k \in DOMAIN path |-> <<path[k]>>]
<1>3. rest \in Seq(Single) /\ Len(rest) = Len(names) - 1 /\ \A k \in 1..(Len(names) - 1) : rest[k] = names[k + 1]
  <2>1. ASSUME NEW k \in 1..(Len(names) - 1) PROVE <<path[k]>> = names[k + 1] /\ names[k + 1] \in Single
    <3>1. k + 1 \in 1..Len(names)
      BY <1>1
    <3>2. names[k + 1] \in Single
      BY <1>1, <3>1
    <3> QED
      BY <1>2, <3>2, SingleIs
  <2>2. rest = [k \in 1..(Len(names) - 1) |-> names[k + 1]]
    BY <1>2, <2>1
  <2> HIDE DEF rest
  <2> QED
    BY <1>1, <2>1, <2>2
<1> HIDE DEF rest
<1>4. Fdt!Chain(path) = names
  <2>1. Fdt!Chain(path) = <<Fdt!Root>> \o rest
    BY DEF Fdt!Chain, rest
  <2>2. <<Fdt!Root>> \in Seq(Single) /\ Len(<<Fdt!Root>>) = 1 /\ <<Fdt!Root>>[1] = Fdt!Root
    BY RootIsSingle
  <2> DEFINE r == <<Fdt!Root>>
  <2> HIDE DEF r
  <2>3. /\ r \o rest \in Seq(Single) /\ Len(r \o rest) = Len(names)
        /\ \A k \in 1..Len(names) : (r \o rest)[k] = IF k = 1 THEN r[1] ELSE rest[k - 1]
    BY <1>1, <1>3, <2>2 DEF r
  <2>4. ASSUME NEW k \in 1..Len(names) PROVE (r \o rest)[k] = names[k]
    <3>1. CASE k = 1
      BY <1>1, <2>2, <2>3, <3>1 DEF r, Fdt!Root
    <3>2. CASE k # 1
      <4>1. k - 1 \in 1..(Len(names) - 1) /\ (k - 1) + 1 = k
        BY <1>1, <3>2
      <4> QED
        BY <1>3, <2>3, <3>2, <4>1
    <3> QED
      BY <3>1, <3>2
  <2>5. r \o rest = names
    BY <1>1, <2>3, <2>4, SeqEqual
  <2> QED
    BY <2>1, <2>5 DEF r
<1>5. {k \in DOMAIN begun : begun[k] = Fdt!Chain(path)} = {i}
  <2>1. DOMAIN begun = 1..Len(begun)
    BY <1>1
  <2>2. \A j, k \in 1..Len(begun) : begun[j] = begun[k] => j = k
    BY DEF NodesOK, BegunOnce
  <2> QED
    BY <1>4, <2>1, <2>2 DEF names
<1>6. Fdt!Min({i}) = i
  BY DEF Fdt!Min
<1> QED
  BY <1>5, <1>6 DEF Fdt!FirstNode

LEMMA PropertiesReadTheSame ==
    ASSUME NodesOK, PropsOK, NEW i \in 1..Len(begun), NEW key \in Keys
    PROVE  Fdt!LoaderReads(Below(begun[i]), key) = Fdt!AuditReads(Below(begun[i]), key)
<1> DEFINE path == Below(begun[i])
           places == {k \in DOMAIN found : found[k].node = Fdt!FirstNode(path) /\ found[k].key = key}
<1>1. Fdt!FirstNode(path) = i
  BY NodeOfPath
<1>2. DOMAIN found = 1..Len(found) /\ begun \in Seq(Seq(Single))
  BY DEF PropsOK, FoundTyped, NodesOK, NodesTyped
<1>3. places = {k \in 1..Len(found) : found[k].node = i /\ found[k].key = key}
  BY <1>1, <1>2
<1>4. /\ Fdt!LoaderReads(path, key) = IF places = {} THEN Absent ELSE found[Fdt!Min(places)].value
      /\ Fdt!AuditReads(path, key) = IF <<path, key>> \in DOMAIN props THEN props[<<path, key>>] ELSE Absent
  BY DEF Fdt!LoaderReads, Fdt!AuditReads
<1> HIDE DEF places
<1>5. DOMAIN props = {Entry(found[k]) : k \in 1..Len(found)}
      /\ \A k \in 1..Len(found) : props[Entry(found[k])] = found[k].value /\ found[k].node \in 1..Len(begun)
  BY DEF PropsOK, PropsAreFound, FoundTyped
<1>6. CASE places = {}
  <2>1. ASSUME <<path, key>> \in DOMAIN props PROVE FALSE
    <3>1. PICK k \in 1..Len(found) : <<path, key>> = Entry(found[k])
      BY <1>5, <2>1
    <3> DEFINE j == found[k].node
    <3>2. Below(begun[j]) = path /\ found[k].key = key /\ j \in 1..Len(begun)
      BY <1>5, <3>1 DEF Entry
    <3> HIDE DEF j, path
    <3>3. \A n \in 1..Len(begun) : /\ begun[n] \in Seq(Single) /\ begun[n] # <<>>
                                   /\ begun[n][1] = <<Fdt!Nameless>>
      BY <1>2 DEF NodesOK, FromTheRoot, AtRoot
    <3>4. begun[j] = begun[i]
      <4> DEFINE a == begun[j]
                 b == begun[i]
      <4>1. /\ a \in Seq(Single) /\ b \in Seq(Single) /\ a # <<>> /\ b # <<>>
            /\ a[1] = b[1] /\ Below(a) = Below(b)
        <5>1. a \in Seq(Single) /\ a # <<>> /\ a[1] = <<Fdt!Nameless>>
          BY <3>2, <3>3
        <5>2. b \in Seq(Single) /\ b # <<>> /\ b[1] = <<Fdt!Nameless>>
          BY <3>3
        <5>3. Below(a) = Below(b)
          BY <3>2 DEF path
        <5> HIDE DEF a, b
        <5> QED
          BY <5>1, <5>2, <5>3
      <4> HIDE DEF a, b
      <4>2. a = b
        BY <4>1, BelowIsUnique
      <4> QED
        BY <4>2 DEF a, b
    <3>5. j = i
      BY <3>2, <3>4 DEF NodesOK, BegunOnce
    <3> QED
      BY <1>3, <1>6, <3>2, <3>5 DEF j
  <2> QED
    BY <1>4, <1>6, <2>1
<1>7. CASE places # {}
  <2>1. PICK k \in places : TRUE
    BY <1>7
  <2>2. k \in 1..Len(found) /\ found[k].node = i /\ found[k].key = key
    BY <1>3, <2>1
  <2>3. \A a, b \in 1..Len(found) :
            found[a].node = found[b].node /\ found[a].key = found[b].key => a = b
    BY DEF PropsOK, FoundOnce
  <2>4. places = {k}
    BY <1>3, <2>2, <2>3
  <2>5. Fdt!Min(places) = k
    BY <2>2, <2>4 DEF Fdt!Min
  <2>6. Entry(found[k]) = <<path, key>>
    BY <2>2 DEF Entry
  <2>7. <<path, key>> \in DOMAIN props /\ props[<<path, key>>] = found[k].value
    BY <1>5, <2>2, <2>6
  <2> QED
    BY <1>4, <1>7, <2>5, <2>7
<1> QED
  BY <1>6, <1>7

LEMMA FdtReadsTheSame == FdtInv => Fdt!OneTree /\ Fdt!LoaderReadsTheSame
<1> SUFFICES ASSUME FdtInv, verdict = "accept" PROVE Fdt!OneTree /\ Fdt!LoaderReadsTheSame
  BY DEF Fdt!OneTree, Fdt!LoaderReadsTheSame
<1>1. NodesOK /\ PropsOK /\ stack = <<>> /\ <<>> \in nodes
  BY DEF FdtInv
<1>2. /\ begun \in Seq(Seq(Single)) /\ DOMAIN begun = 1..Len(begun) /\ inside = <<>>
      /\ nodes = {Below(begun[i]) : i \in 1..Len(begun)}
  BY <1>1 DEF NodesOK, NodesTyped, NodesAreBegun
<1>3. \A i \in 1..Len(begun) : /\ begun[i] \in Seq(Single) /\ Len(begun[i]) \in Nat \ {0}
                               /\ begun[i] # <<>> /\ begun[i][1] = Fdt!Root
  BY <1>1, <1>2 DEF NodesOK, FromTheRoot, AtRoot, Fdt!Root
<1>4. PICK top \in 1..Len(begun) : Below(begun[top]) = <<>>
  BY <1>1, <1>2
<1>5. {i \in DOMAIN begun : Len(begun[i]) = 1} = {top}
  <2>1. ASSUME NEW i \in 1..Len(begun) PROVE Len(begun[i]) = 1 <=> Below(begun[i]) = <<>>
    <3>1. DOMAIN Below(begun[i]) = 1..(Len(begun[i]) - 1)
      BY DEF Below
    <3>2. Below(begun[i]) = <<>> => Len(begun[i]) = 1
      <4> SUFFICES ASSUME Below(begun[i]) = <<>> PROVE Len(begun[i]) = 1
        OBVIOUS
      <4> DEFINE n == Len(begun[i])
      <4>1. 1..(n - 1) = {}
        BY <3>1
      <4>2. n \in Nat \ {0}
        BY <1>3
      <4> HIDE DEF n
      <4>3. n = 1
        <5>1. n # 1 => 1 \in 1..(n - 1)
          BY <4>2
        <5> QED
          BY <4>1, <5>1
      <4> QED
        BY <4>3 DEF n
    <3>3. Len(begun[i]) = 1 => Below(begun[i]) = <<>>
      BY DEF Below
    <3> QED
      BY <3>2, <3>3
  <2>2. ASSUME NEW i \in 1..Len(begun), Below(begun[i]) = <<>> PROVE i = top
    <3>1. begun[i] = begun[top]
      BY <1>3, <1>4, <2>2, BelowIsUnique
    <3> QED
      BY <1>1, <3>1 DEF NodesOK, BegunOnce
  <2> QED
    BY <1>2, <1>4, <2>1, <2>2
<1>6. Fdt!Cardinality({top}) = 1
  BY FS_Singleton DEF Fdt!Cardinality, Cardinality
<1>7. Fdt!OneTree
  BY <1>2, <1>3, <1>5, <1>6 DEF Fdt!OneTree
<1>8. ASSUME NEW path \in Fdt!Paths PROVE \E i \in 1..Len(begun) : path = Below(begun[i])
  <2>1. ASSUME NEW i \in 1..Len(begun) PROVE Fdt!FlattenSeq(Tail(begun[i])) = Below(begun[i])
    BY <1>3, PathIs
  <2> QED
    BY <1>2, <2>1 DEF Fdt!Paths
<1>9. ASSUME NEW path \in Fdt!Paths, NEW key \in Keys
      PROVE  Fdt!LoaderReads(path, key) = Fdt!AuditReads(path, key)
  <2>1. PICK i \in 1..Len(begun) : path = Below(begun[i])
    BY <1>8
  <2> QED
    BY <1>1, <2>1, PropertiesReadTheSame
<1> QED
  BY <1>7, <1>9 DEF Fdt!LoaderReadsTheSame

-----------------------------------------------------------------------------
(* The members of the TAR *)

(* What Inspect and Compare have found stays so: nothing is written after. *)
MembersInv ==
    /\ headers \in Seq(Headers)
    /\ verdict \in {"members", "inspected", "accept"} => Tar!Inspected
    /\ verdict = "accept" => Tar!ParsersAgree

LEMMA MembersStart == Tar!Init => MembersInv
BY DEF Tar!Init, MembersInv

LEMMA ParsersKeep ==
    ASSUME headers' = headers, tail' = tail PROVE Tar!ParsersAgree' <=> Tar!ParsersAgree
BY DEF Tar!ParsersAgree, Tar!VendorPick, Tar!HostPick, Tar!VendorSize

LEMMA MembersStep == ASSUME MembersInv, Tar!Next PROVE MembersInv'
<1>1. CASE Tar!Write
  BY <1>1 DEF Tar!Write, MembersInv
<1>2. CASE Tar!Inspect
  BY <1>2 DEF Tar!Inspect, MembersInv, Tar!Inspected
<1>3. CASE Tar!Measure
  BY <1>3 DEF Tar!Measure, MembersInv, Tar!Inspected
<1>4. CASE Tar!Compare
  <2>1. /\ headers' = headers /\ tail' = tail /\ verdict = "inspected"
        /\ verdict' = IF Tar!ParsersAgree THEN "accept" ELSE "reject"
    BY <1>4 DEF Tar!Compare
  <2>2. Tar!Inspected /\ headers \in Seq(Headers)
    BY <2>1 DEF MembersInv
  <2>3. Tar!Inspected'
    BY <2>1, <2>2 DEF Tar!Inspected
  <2>4. Tar!ParsersAgree' <=> Tar!ParsersAgree
    BY <2>1, ParsersKeep
  <2> QED
    BY <2>1, <2>2, <2>3, <2>4 DEF MembersInv
<1> QED
  BY <1>1, <1>2, <1>3, <1>4 DEF Tar!Next

LEMMA HostTakes ==
    ASSUME headers \in Seq(Headers), Tar!Inspected
    PROVE  /\ Tar!HostPick("kernel") = <<1, headers[1].size>>
           /\ Tar!HostPick("root") = <<2, headers[2].size>>
<1>1. /\ DOMAIN headers = 1..3 /\ headers[1].name = "kernel" /\ headers[2].name = "root"
      /\ headers[3].name = "CONTROL"
  BY DEF Tar!Inspected, Tar!Members
<1>2. /\ {i \in DOMAIN headers : headers[i].name = "kernel"} = {1}
      /\ {i \in DOMAIN headers : headers[i].name = "root"} = {2}
  <2>1. DOMAIN headers = {1, 2, 3}
    BY <1>1
  <2> QED
    BY <1>1, <2>1
<1>3. Tar!Max({1}) = 1 /\ Tar!Max({2}) = 2
  BY DEF Tar!Max
<1> QED
  BY <1>2, <1>3 DEF Tar!HostPick

LEMMA LoaderTakes == MembersInv => Tar!LoaderTakesAudited
<1> SUFFICES ASSUME MembersInv, verdict = "accept"
             PROVE  /\ Tar!VendorPick("kernel") = <<1, headers[1].size>>
                    /\ Tar!VendorPick("root") = <<2, headers[2].size>>
  BY DEF Tar!LoaderTakesAudited
<1>1. /\ Tar!VendorPick("kernel") = Tar!HostPick("kernel")
      /\ Tar!VendorPick("root") = Tar!HostPick("root")
  BY DEF MembersInv, Tar!ParsersAgree
<1> QED
  BY <1>1, HostTakes DEF MembersInv

(* Nothing changes where another part of the audits goes on.               *)
LEMMA PathRests ==
    ASSUME PathInv, image' = image, wanted' = wanted, pending' = pending, parts' = parts,
           hops' = hops, verdict' = verdict
    PROVE  PathInv'
<1>1. PathTyped'
  BY DEF PathInv, PathTyped
<1>2. Resolve!Lookup'[Here(parts', pending', MaxHops - hops')] = Resolve!Lookup'[Here(<<>>, wanted', MaxHops)]
  BY LookupStays DEF PathInv
<1> QED
  BY <1>1, <1>2 DEF PathInv

LEMMA FdtRests ==
    ASSUME FdtInv, stack' = stack, nodes' = nodes, props' = props, begun' = begun,
           found' = found, inside' = inside, verdict' = verdict
    PROVE  FdtInv'
<1> SUFFICES ASSUME verdict # "reject"
             PROVE  NodesOK' /\ PropsOK' /\ (verdict' = "accept" => stack' = <<>> /\ <<>> \in nodes')
  BY DEF FdtInv
<1>1. NodesOK' /\ PropsOK'
  BY OpenStay, PropsStay DEF FdtInv
<1> QED
  BY <1>1 DEF FdtInv

LEMMA MembersRest ==
    ASSUME MembersInv, headers' = headers, tail' = tail, verdict' = verdict PROVE MembersInv'
<1>1. Tar!Inspected' <=> Tar!Inspected
  BY DEF Tar!Inspected
<1>2. Tar!ParsersAgree' <=> Tar!ParsersAgree
  BY ParsersKeep
<1> QED
  BY <1>1, <1>2 DEF MembersInv

ReadersOK ==
    /\ part = "path" => PathInv
    /\ part = "fdt" => FdtInv
    /\ part = "tar" => MembersInv

LEMMA ReadersHold == AuditSpec => []ReadersOK
<1>1. AuditInit => ReadersOK
  BY PathStarts, FdtStarts, MembersStart DEF AuditInit, ReadersOK
<1>2. ReadersOK /\ [AuditNext]_allVars => ReadersOK'
  <2> SUFFICES ASSUME ReadersOK, [AuditNext]_allVars PROVE ReadersOK'
    OBVIOUS
  <2>1. CASE AuditNext
    BY <2>1, PathSteps, FdtSteps, MembersStep DEF AuditNext, ReadersOK
  <2>2. CASE UNCHANGED allVars
    <3>1. /\ part' = part /\ verdict' = verdict
          /\ image' = image /\ wanted' = wanted /\ pending' = pending /\ parts' = parts /\ hops' = hops
          /\ stack' = stack /\ nodes' = nodes /\ props' = props /\ begun' = begun /\ found' = found
          /\ inside' = inside /\ headers' = headers /\ tail' = tail
      BY <2>2 DEF allVars, pathVars, fdtVars, tarVars
    <3> QED
      BY <3>1, PathRests, FdtRests, MembersRest DEF ReadersOK
  <2> QED
    BY <2>1, <2>2
<1> QED
  BY <1>1, <1>2, PTL DEF AuditSpec

(* A path leads the audit and the booted system to the same file, and      *)
(* never out of the image; a node has for the loader the properties that   *)
(* the audit has read; the loader takes the payloads that were audited,    *)
(* for all images, blocks and headers.                                     *)
THEOREM ReadAsAudited == AuditSpec => []BoardReadsTheSame
<1>1. ReadersOK => BoardReadsTheSame
  BY PathReadsTheSame, FdtReadsTheSame, LoaderTakes DEF BoardReadsTheSame, ReadersOK
<1> QED
  BY <1>1, ReadersHold, PTL
-----------------------------------------------------------------------------
(* What an initrd holds *)

(* Everything that is in the file and in its frames: the least set that    *)
(* holds the parts of the file and what is within each of its elements.    *)
Items == [at : Seq(Nat) \ {<<>>}, part : Parts]

Holds(file, S) == Scan!Standing(<<>>, file) \subseteq S /\ \A x \in S : Scan!Within(x) \subseteq S

Ever(file) == {x \in Items : \A S \in SUBSET Items : Holds(file, S) => x \in S}

Item(at, parts_, i) == [at |-> Append(at, i), part |-> parts_[i]]

LEMMA ItemIs ==
    ASSUME NEW at, NEW parts_, NEW i
    PROVE  Item(at, parts_, i).at = Append(at, i) /\ Item(at, parts_, i).part = parts_[i]
BY DEF Item

LEMMA AppendIs ==
    ASSUME NEW at \in Seq(Nat), NEW i \in Nat
    PROVE  Append(at, i) \in Seq(Nat) \ {<<>>} /\ Len(Append(at, i)) = Len(at) + 1
<1>1. Append(at, i) \in Seq(Nat) /\ Len(Append(at, i)) = Len(at) + 1 /\ Len(at) \in Nat
  OBVIOUS
<1>2. Append(at, i) # <<>>
  OBVIOUS
<1> QED
  BY <1>1, <1>2

LEMMA SamePlace ==
    ASSUME NEW q \in [of : Nat, at : Nat], NEW r \in [of : Nat, at : Nat], q.of = r.of, q.at = r.at
    PROVE  q = r
  OBVIOUS

LEMMA SameParent ==
    ASSUME NEW a \in Seq(Nat), NEW b \in Seq(Nat), NEW i \in Nat, NEW j \in Nat,
           Append(a, i) = Append(b, j)
    PROVE  a = b /\ i = j
<1>1. Len(a) = Len(b) /\ Len(a) \in Nat
  <2>1. Len(Append(a, i)) = Len(a) + 1 /\ Len(Append(b, j)) = Len(b) + 1
    BY AppendIs
  <2>2. Len(a) \in Nat /\ Len(b) \in Nat
    OBVIOUS
  <2> QED
    BY <2>1, <2>2
<1>2. i = j
  <2>1. Append(a, i)[Len(a) + 1] = i /\ Append(b, j)[Len(b) + 1] = j
    OBVIOUS
  <2> QED
    BY <1>1, <2>1
<1> DEFINE N == Nat
<1>3. ASSUME NEW k \in 1..Len(a) PROVE a[k] = b[k]
  <2>1. a \in Seq(N) /\ b \in Seq(N) /\ i \in N /\ j \in N /\ k \in 1..Len(b)
    BY <1>1
  <2> HIDE DEF N
  <2>2. Append(a, i)[k] = a[k]
    BY <2>1, Appended
  <2>3. Append(b, j)[k] = b[k]
    BY <2>1, Appended
  <2> QED
    BY <2>2, <2>3
<1> QED
  BY <1>1, <1>2, <1>3, SeqEqual

LEMMA StandingAre ==
    ASSUME NEW at \in Seq(Nat), NEW body \in Seq(Parts)
    PROVE  /\ Scan!Standing(at, body) = {Item(at, body, i) : i \in 1..Len(body)}
           /\ \A i \in 1..Len(body) : /\ Item(at, body, i) \in Items
                                      /\ Len(Item(at, body, i).at) = Len(at) + 1
<1>1. DOMAIN body = 1..Len(body) /\ \A i \in 1..Len(body) : body[i] \in Parts /\ i \in Nat
  OBVIOUS
<1>2. Scan!Standing(at, body) = {Item(at, body, i) : i \in 1..Len(body)}
  BY <1>1 DEF Scan!Standing, Item
<1>3. ASSUME NEW i \in 1..Len(body)
      PROVE  Item(at, body, i) \in Items /\ Len(Item(at, body, i).at) = Len(at) + 1
  <2>1. Append(at, i) \in Seq(Nat) \ {<<>>} /\ Len(Append(at, i)) = Len(at) + 1 /\ body[i] \in Parts
    BY <1>1, AppendIs
  <2> QED
    BY <2>1 DEF Item, Items
<1> QED
  BY <1>2, <1>3

LEMMA WithinAre ==
    ASSUME NEW x \in Items
    PROVE  /\ ~Scan!Framed(x.part) => Scan!Within(x) = {}
           /\ Scan!Framed(x.part) =>
                /\ x.at \in Seq(Nat) /\ x.part.body \in Seq(Parts)
                /\ Scan!Within(x) = {Item(x.at, x.part.body, i) : i \in 1..Len(x.part.body)}
           /\ \A y \in Scan!Within(x) : y \in Items /\ Len(y.at) = Len(x.at) + 1
<1>1. x.at \in Seq(Nat) /\ x.part \in Parts
  BY DEF Items
<1>2. Scan!Framed(x.part) => x.part.body \in Seq(Parts)
  BY <1>1, FramesAssumption DEF Scan!FramesHoldParts
<1>3. ~Scan!Framed(x.part) => Scan!Within(x) = {}
  BY DEF Scan!Within
<1>4. Scan!Framed(x.part) => Scan!Within(x) = Scan!Standing(x.at, x.part.body)
  BY DEF Scan!Within
<1>5. CASE Scan!Framed(x.part)
  BY <1>1, <1>2, <1>4, <1>5, StandingAre
<1>6. CASE ~Scan!Framed(x.part)
  BY <1>3, <1>6
<1> QED
  BY <1>5, <1>6

LEMMA TopAre ==
    ASSUME NEW file \in Seq(Parts)
    PROVE  /\ Scan!Standing(<<>>, file) = {Item(<<>>, file, i) : i \in 1..Len(file)}
           /\ \A y \in Scan!Standing(<<>>, file) : y \in Items /\ Len(y.at) = 1
<1> DEFINE at == <<>>
<1>1. at \in Seq(Nat) /\ Len(at) = 0
  OBVIOUS
<1> HIDE DEF at
<1>2. Scan!Standing(at, file) = {Item(at, file, i) : i \in 1..Len(file)}
  BY <1>1, StandingAre
<1>3. \A i \in 1..Len(file) : Item(at, file, i) \in Items /\ Len(Item(at, file, i).at) = 0 + 1
  BY <1>1, StandingAre
<1>4. \A y \in Scan!Standing(at, file) : y \in Items /\ Len(y.at) = 1
  BY <1>2, <1>3
<1> QED
  BY <1>2, <1>4 DEF at

LEMMA ItemsHold == ASSUME NEW file \in Seq(Parts) PROVE Holds(file, Items)
<1>1. Scan!Standing(<<>>, file) \subseteq Items
  BY TopAre
<1>2. \A x \in Items : Scan!Within(x) \subseteq Items
  BY WithinAre
<1> QED
  BY <1>1, <1>2 DEF Holds

LEMMA EverLeast == ASSUME NEW file, NEW S \in SUBSET Items, Holds(file, S) PROVE Ever(file) \subseteq S
BY DEF Ever

LEMMA EverHolds ==
    ASSUME NEW file \in Seq(Parts) PROVE Ever(file) \subseteq Items /\ Holds(file, Ever(file))
<1>1. Ever(file) \subseteq Items
  BY DEF Ever
<1>2. ASSUME NEW x \in Scan!Standing(<<>>, file) PROVE x \in Ever(file)
  <2>1. \A S \in SUBSET Items : Holds(file, S) => x \in S
    BY DEF Holds
  <2>2. x \in Items
    BY TopAre
  <2> QED
    BY <2>1, <2>2 DEF Ever
<1>3. ASSUME NEW x \in Ever(file), NEW y \in Scan!Within(x) PROVE y \in Ever(file)
  <2>1. \A S \in SUBSET Items : Holds(file, S) => x \in S
    BY DEF Ever
  <2>2. \A S \in SUBSET Items : Holds(file, S) => y \in S
    BY <2>1 DEF Holds
  <2>3. y \in Items
    BY <1>1, WithinAre
  <2> QED
    BY <2>2, <2>3 DEF Ever
<1>4. Holds(file, Ever(file))
  BY <1>2, <1>3 DEF Holds
<1> QED
  BY <1>1, <1>4

LEMMA EverFrom ==
    ASSUME NEW file \in Seq(Parts), NEW x \in Ever(file)
    PROVE  x \in Scan!Standing(<<>>, file) \/ \E y \in Ever(file) : x \in Scan!Within(y)
<1> SUFFICES ASSUME x \notin Scan!Standing(<<>>, file), \A y \in Ever(file) : x \notin Scan!Within(y)
             PROVE  FALSE
  OBVIOUS
<1> DEFINE S == Ever(file) \ {x}
<1>1. Scan!Standing(<<>>, file) \subseteq Ever(file)
      /\ \A y \in Ever(file) : Scan!Within(y) \subseteq Ever(file)
  BY EverHolds DEF Holds
<1>2. Holds(file, S)
  BY <1>1 DEF Holds
<1>3. S \in SUBSET Items
  BY EverHolds
<1> HIDE DEF S
<1>4. Ever(file) \subseteq S
  BY <1>2, <1>3, EverLeast
<1> QED
  BY <1>4 DEF S

(* A part is known by where it stands.                                     *)
LEMMA EverKnown ==
    ASSUME NEW file \in Seq(Parts), NEW x \in Ever(file), NEW y \in Ever(file), x.at = y.at
    PROVE  x = y
<1> DEFINE S == {z \in Ever(file) : \A w \in Ever(file) : w.at = z.at => w = z}
<1>1. Ever(file) \subseteq Items /\ Holds(file, Ever(file))
  BY EverHolds
<1>2. \A z \in Ever(file) : Len(z.at) \in Nat \ {0} /\ z.at \in Seq(Nat)
  <2> SUFFICES ASSUME NEW z \in Items PROVE Len(z.at) \in Nat \ {0} /\ z.at \in Seq(Nat)
    BY <1>1
  <2>1. z.at \in Seq(Nat) /\ z.at # <<>>
    BY DEF Items
  <2> QED
    BY <2>1
<1>3. \A v \in Ever(file) : Len(v.at) = 1 => v \in Scan!Standing(<<>>, file)
  <2> SUFFICES ASSUME NEW v \in Ever(file), Len(v.at) = 1, v \notin Scan!Standing(<<>>, file) PROVE FALSE
    OBVIOUS
  <2>1. PICK u \in Ever(file) : v \in Scan!Within(u)
    BY EverFrom
  <2>2. u \in Items
    BY <1>1
  <2>3. Len(v.at) = Len(u.at) + 1
    BY <2>1, <2>2, WithinAre
  <2>4. Len(u.at) \in Nat \ {0}
    BY <1>2
  <2>5. Len(u.at) + 1 = 1
    BY <2>3
  <2> HIDE DEF S
  <2> QED
    BY <2>4, <2>5
<1>4. Scan!Standing(<<>>, file) \subseteq S
  <2>0. Scan!Standing(<<>>, file) \subseteq Ever(file)
    BY <1>1 DEF Holds
  <2> SUFFICES ASSUME NEW z \in Scan!Standing(<<>>, file), NEW w \in Ever(file), w.at = z.at
               PROVE  w = z
    BY <2>0
  <2>1. z \in Ever(file) /\ Len(z.at) = 1
    BY <2>0, TopAre
  <2>2. w \in Scan!Standing(<<>>, file)
    BY <1>3, <2>1
  <2>3. PICK i \in 1..Len(file) : z = Item(<<>>, file, i)
    BY TopAre
  <2>4. PICK j \in 1..Len(file) : w = Item(<<>>, file, j)
    BY <2>2, TopAre
  <2>5. Append(<<>>, i) = Append(<<>>, j) /\ <<>> \in Seq(Nat)
    BY <2>3, <2>4 DEF Item
  <2>6. i = j
    BY <2>5, SameParent
  <2> QED
    BY <2>1, <2>3, <2>4, <2>6
<1>5. ASSUME NEW z \in S, NEW v \in Scan!Within(z) PROVE v \in S
  <2>1. z \in Ever(file) /\ z \in Items /\ v \in Ever(file) /\ Len(v.at) = Len(z.at) + 1
    BY <1>1, WithinAre DEF Holds
  <2>2. ASSUME NEW w \in Ever(file), w.at = v.at PROVE w = v
    <3>1. w \notin Scan!Standing(<<>>, file)
      <4>1. Len(w.at) = Len(z.at) + 1 /\ Len(z.at) \in Nat \ {0}
        BY <1>2, <2>1, <2>2
      <4>2. Len(w.at) # 1
        BY <4>1
      <4> QED
        BY <4>2, TopAre
    <3>2. PICK u \in Ever(file) : w \in Scan!Within(u)
      BY <3>1, EverFrom
    <3>3. u \in Items /\ u.at \in Seq(Nat) /\ z.at \in Seq(Nat)
      BY <1>1, <1>2, <2>1
    <3>4. PICK i \in 1..Len(z.part.body) : v = Item(z.at, z.part.body, i)
      BY <2>1, WithinAre
    <3>5. PICK j \in 1..Len(u.part.body) : w = Item(u.at, u.part.body, j)
      <4> HIDE DEF S
      <4>1. Scan!Within(u) # {}
        BY <3>2
      <4>2. Scan!Within(u) = {Item(u.at, u.part.body, k) : k \in 1..Len(u.part.body)}
        BY <3>3, <4>1, WithinAre
      <4> QED
        BY <3>2, <4>2
    <3>6. Append(z.at, i) = Append(u.at, j)
      BY <2>2, <3>4, <3>5 DEF Item
    <3>7. z.at = u.at /\ i = j
      <4>1. i \in Nat /\ j \in Nat
        OBVIOUS
      <4> DEFINE a == z.at
                 b == u.at
      <4>2. a \in Seq(Nat) /\ b \in Seq(Nat) /\ Append(a, i) = Append(b, j)
        BY <3>3, <3>6
      <4> HIDE DEF S, a, b
      <4>3. a = b /\ i = j
        BY <4>1, <4>2, SameParent
      <4> QED
        BY <4>3 DEF a, b
    <3>8. u = z
      BY <3>2, <3>7
    <3> QED
      BY <3>4, <3>5, <3>7, <3>8
  <2> QED
    BY <2>1, <2>2
<1>6. Holds(file, S)
  BY <1>4, <1>5 DEF Holds
<1>7. S \in SUBSET Items
  BY <1>1
<1> HIDE DEF S
<1>8. Ever(file) \subseteq S
  BY <1>6, <1>7, EverLeast
<1> QED
  BY <1>8 DEF S

LEMMA OneParent ==
    ASSUME NEW file \in Seq(Parts), NEW x \in Ever(file), NEW y \in Ever(file),
           NEW z, z \in Scan!Within(x), z \in Scan!Within(y)
    PROVE  x = y
<1>1. x \in Items /\ y \in Items /\ x.at \in Seq(Nat) /\ y.at \in Seq(Nat)
  BY EverHolds DEF Items
<1>2. PICK i \in 1..Len(x.part.body) : z = Item(x.at, x.part.body, i)
  BY <1>1, WithinAre
<1>3. PICK j \in 1..Len(y.part.body) : z = Item(y.at, y.part.body, j)
  BY <1>1, WithinAre
<1>4. Append(x.at, i) = Append(y.at, j)
  <2>1. z.at = Append(x.at, i)
    BY <1>2, ItemIs
  <2>2. z.at = Append(y.at, j)
    BY <1>3, ItemIs
  <2> QED
    BY <2>1, <2>2
<1>5. x.at = y.at
  <2>1. i \in Nat /\ j \in Nat
    OBVIOUS
  <2> QED
    BY <1>1, <1>4, <2>1, SameParent
<1> QED
  BY <1>5, EverKnown

(* The parts in so many frames are those that stand at so long a place.    *)
Level(file, depth) == {x \in Ever(file) : Len(x.at) = depth + 1}

LEMMA LevelsFollow ==
    ASSUME NEW file \in Seq(Parts), NEW depth \in Nat
    PROVE  Level(file, depth) = IF depth = 0 THEN Scan!Standing(<<>>, file)
                                ELSE UNION {Scan!Within(x) : x \in Level(file, depth - 1)}
<1>1. Ever(file) \subseteq Items /\ Scan!Standing(<<>>, file) \subseteq Ever(file)
      /\ \A y \in Ever(file) : Scan!Within(y) \subseteq Ever(file)
  BY EverHolds DEF Holds
<1>2. \A x \in Ever(file) : Len(x.at) \in Nat \ {0}
  <2> SUFFICES ASSUME NEW z \in Items PROVE Len(z.at) \in Nat \ {0}
    BY <1>1
  <2>1. z.at \in Seq(Nat) /\ z.at # <<>>
    BY DEF Items
  <2> QED
    BY <2>1
<1>3. \A y \in Scan!Standing(<<>>, file) : Len(y.at) = 1
  BY TopAre
<1>4. \A y \in Ever(file) : \A x \in Scan!Within(y) : Len(x.at) = Len(y.at) + 1
  BY <1>1, WithinAre
<1>5. CASE depth = 0
  <2>1. ASSUME NEW x \in Level(file, 0) PROVE x \in Scan!Standing(<<>>, file)
    <3>1. x \in Ever(file) /\ Len(x.at) = 1
      BY DEF Level
    <3>2. ASSUME NEW y \in Ever(file), x \in Scan!Within(y) PROVE FALSE
      <4>1. Len(x.at) = Len(y.at) + 1
        BY <1>4, <3>2
      <4>2. Len(y.at) \in Nat \ {0}
        BY <1>2
      <4>3. Len(y.at) + 1 # 1
        BY <4>2
      <4> QED
        BY <3>1, <4>1, <4>3
    <3> QED
      BY <3>1, <3>2, EverFrom
  <2>2. ASSUME NEW x \in Scan!Standing(<<>>, file) PROVE x \in Level(file, 0)
    BY <1>1, <1>3 DEF Level
  <2>3. Level(file, 0) = Scan!Standing(<<>>, file)
    BY <2>1, <2>2
  <2> QED
    BY <1>5, <2>3
<1>6. CASE depth # 0
  <2>1. ASSUME NEW x \in Level(file, depth)
        PROVE  \E y \in Level(file, depth - 1) : x \in Scan!Within(y)
    <3>1. x \in Ever(file) /\ Len(x.at) = depth + 1
      BY DEF Level
    <3>2. x \notin Scan!Standing(<<>>, file)
      <4>1. Len(x.at) # 1
        BY <1>6, <3>1
      <4> QED
        BY <1>3, <4>1
    <3>3. PICK y \in Ever(file) : x \in Scan!Within(y)
      BY <3>1, <3>2, EverFrom
    <3>4. Len(x.at) = Len(y.at) + 1 /\ Len(y.at) \in Nat
      BY <1>2, <1>4, <3>3
    <3>5. Len(y.at) = (depth - 1) + 1
      BY <3>1, <3>4
    <3> QED
      BY <3>3, <3>5 DEF Level
  <2>2. ASSUME NEW y \in Level(file, depth - 1), NEW x \in Scan!Within(y)
        PROVE  x \in Level(file, depth)
    <3>1. y \in Ever(file) /\ Len(y.at) = (depth - 1) + 1
      BY DEF Level
    <3>2. x \in Ever(file) /\ Len(x.at) = Len(y.at) + 1
      BY <1>1, <1>4, <3>1
    <3>3. Len(x.at) = depth + 1
      BY <3>1, <3>2
    <3> QED
      BY <3>2, <3>3 DEF Level
  <2> DEFINE W == {Scan!Within(x) : x \in Level(file, depth - 1)}
  <2>3. \A x : x \in UNION W <=> \E y \in Level(file, depth - 1) : x \in Scan!Within(y)
    OBVIOUS
  <2> HIDE DEF W
  <2>4. Level(file, depth) = UNION W
    BY <2>1, <2>2, <2>3
  <2> QED
    BY <1>6, <2>4 DEF W
<1> QED
  BY <1>5, <1>6

LEMMA UnpackedIs ==
    ASSUME initrd \in Seq(Parts) PROVE \A depth \in Nat : Scan!Unpacked[depth] = Level(initrd, depth)
<1> DEFINE Next2(f, depth) == IF depth = 0 THEN Scan!Standing(<<>>, initrd)
                              ELSE UNION {Scan!Within(x) : x \in f[depth - 1]}
           u == Scan!Unpacked
           g == [depth \in Nat |-> Level(initrd, depth)]
<1>1. g = [depth \in Nat |-> Next2(g, depth)]
  <2>1. ASSUME NEW depth \in Nat PROVE Level(initrd, depth) = Next2(g, depth)
    <3>1. CASE depth = 0
      BY <3>1, LevelsFollow
    <3>2. CASE depth # 0
      <4>1. depth - 1 \in Nat
        BY <3>2
      <4>2. g[depth - 1] = Level(initrd, depth - 1)
        BY <4>1
      <4> HIDE DEF g
      <4> QED
        BY <3>2, <4>2, LevelsFollow
    <3> QED
      BY <3>1, <3>2
  <2> HIDE DEF Next2
  <2>2. [depth \in Nat |-> Level(initrd, depth)] = [depth \in Nat |-> Next2(g, depth)]
    BY <2>1
  <2> QED
    BY <2>2
<1>2. u = [depth \in Nat |-> Next2(u, depth)]
  <2>1. u = CHOOSE f : f = [depth \in Nat |-> Next2(f, depth)]
    BY DEF Scan!Unpacked
  <2> HIDE DEF u, g, Next2
  <2> QED
    BY <1>1, <2>1
<1> HIDE DEF u, g
<1>3. \A depth \in Nat : u[depth] = Next2(u, depth)
  <2> HIDE DEF Next2
  <2>1. \A depth \in Nat : [d \in Nat |-> Next2(u, d)][depth] = Next2(u, depth)
    OBVIOUS
  <2> QED
    BY <1>2, <2>1
<1> DEFINE Other == {depth \in Nat : u[depth] # Level(initrd, depth)}
<1>4. Other = {}
  <2> SUFFICES ASSUME Other # {} PROVE FALSE
    OBVIOUS
  <2>1. Other \in SUBSET Nat
    OBVIOUS
  <2>2. PICK least \in Other : \A d \in Other : least <= d
    <3> HIDE DEF Other
    <3> QED
      BY <2>1, LeastIsOneOfThem
  <2>3. least \in Nat /\ u[least] # Level(initrd, least)
    OBVIOUS
  <2>4. CASE least = 0
    BY <1>3, <2>3, <2>4, LevelsFollow
  <2>5. CASE least # 0
    <3>1. least - 1 \in Nat /\ ~(least <= least - 1)
      BY <2>3, <2>5
    <3>2. u[least - 1] = Level(initrd, least - 1)
      BY <2>2, <3>1
    <3> HIDE DEF Other
    <3>3. u[least] = UNION {Scan!Within(x) : x \in Level(initrd, least - 1)}
      BY <1>3, <2>3, <2>5, <3>2
    <3> QED
      BY <2>3, <2>5, <3>3, LevelsFollow
  <2> QED
    BY <2>4, <2>5
<1> QED
  BY <1>4 DEF u

LEMMA EverythingIs ==
    ASSUME initrd \in Seq(Parts)
    PROVE  /\ Scan!Everything = {x \in Ever(initrd) : Len(x.at) <= Frames + 1}
           /\ Scan!Unpacked[Frames + 1] = {x \in Ever(initrd) : Len(x.at) = Frames + 2}
<1>1. Frames \in Nat
  BY FramesAssumption DEF Scan!FramesHoldParts
<1>2. \A depth \in 0..Frames : Scan!Unpacked[depth] = Level(initrd, depth)
  BY <1>1, UnpackedIs
<1>3. \A x \in Ever(initrd) : Len(x.at) \in Nat \ {0}
  <2> SUFFICES ASSUME NEW z \in Items PROVE Len(z.at) \in Nat \ {0}
    BY EverHolds
  <2>1. z.at \in Seq(Nat) /\ z.at # <<>>
    BY DEF Items
  <2> QED
    BY <2>1
<1>4. ASSUME NEW x PROVE x \in Scan!Everything <=> x \in Ever(initrd) /\ Len(x.at) <= Frames + 1
  <2>1. x \in Scan!Everything <=> \E depth \in 0..Frames : x \in Level(initrd, depth)
    BY <1>2 DEF Scan!Everything
  <2>2. ASSUME NEW depth \in 0..Frames, x \in Level(initrd, depth)
        PROVE  x \in Ever(initrd) /\ Len(x.at) <= Frames + 1
    <3>1. x \in Ever(initrd) /\ Len(x.at) = depth + 1
      BY <2>2 DEF Level
    <3> QED
      BY <1>1, <3>1
  <2>3. ASSUME x \in Ever(initrd), Len(x.at) <= Frames + 1
        PROVE  \E depth \in 0..Frames : x \in Level(initrd, depth)
    <3>1. Len(x.at) \in Nat \ {0}
      BY <1>3, <2>3
    <3>2. Len(x.at) - 1 \in 0..Frames /\ Len(x.at) = (Len(x.at) - 1) + 1
      BY <1>1, <2>3, <3>1
    <3>3. x \in Level(initrd, Len(x.at) - 1)
      BY <2>3, <3>2 DEF Level
    <3> QED
      BY <3>2, <3>3
  <2> QED
    BY <2>1, <2>2, <2>3
<1>5. Scan!Unpacked[Frames + 1] = Level(initrd, Frames + 1) /\ (Frames + 1) + 1 = Frames + 2
  BY <1>1, UnpackedIs
<1> QED
  BY <1>4, <1>5 DEF Level

(* Where each element of a flattened sequence of sequences comes from.     *)
Sources(p, flat, s) ==
    /\ p \in [1..Len(flat) -> [of : Nat, at : Nat]]
    /\ \A k \in 1..Len(flat) : /\ p[k].of \in 1..Len(s) /\ p[k].at \in 1..Len(s[p[k].of])
                               /\ flat[k] = s[p[k].of][p[k].at]
    /\ \A k, l \in 1..Len(flat) : p[k] = p[l] => k = l
    /\ \A i \in 1..Len(s) : \A j \in 1..Len(s[i]) : \E k \in 1..Len(flat) : p[k] = [of |-> i, at |-> j]

SourcesUpTo(p, flat, s, n) ==
    /\ p \in [1..Len(flat) -> [of : Nat, at : Nat]]
    /\ \A k \in 1..Len(flat) : /\ p[k].of \in 1..n /\ p[k].at \in 1..Len(s[p[k].of])
                               /\ flat[k] = s[p[k].of][p[k].at]
    /\ \A k, l \in 1..Len(flat) : p[k] = p[l] => k = l
    /\ \A i \in 1..n : \A j \in 1..Len(s[i]) : \E k \in 1..Len(flat) : p[k] = [of |-> i, at |-> j]

LEMMA SourcesOfFirst ==
    ASSUME NEW S, NEW s \in Seq(Seq(S)), s # <<>>
    PROVE  \E p : SourcesUpTo(p, s[1], s, 1)
<1> DEFINE p == [k \in 1..Len(s[1]) |-> [of |-> 1, at |-> k]]
<1>1. s[1] \in Seq(S) /\ Len(s[1]) \in Nat
  OBVIOUS
<1>2. \A k \in 1..Len(s[1]) : k \in Nat /\ p[k] = [of |-> 1, at |-> k]
  BY <1>1
<1>3. p \in [1..Len(s[1]) -> [of : Nat, at : Nat]]
  BY <1>2
<1> HIDE DEF p
<1>4. ASSUME NEW k \in 1..Len(s[1])
      PROVE  p[k].of = 1 /\ p[k].at = k /\ p[k].of \in 1..1 /\ p[k].at \in 1..Len(s[p[k].of])
             /\ s[1][k] = s[p[k].of][p[k].at]
  <2>1. p[k] = [of |-> 1, at |-> k]
    BY <1>2
  <2>2. p[k].of = 1 /\ p[k].at = k
    BY <2>1
  <2>3. 1 \in 1..1
    OBVIOUS
  <2> QED
    BY <2>2, <2>3
<1>5. \A k, l \in 1..Len(s[1]) : p[k] = p[l] => k = l
  <2> SUFFICES ASSUME NEW k \in 1..Len(s[1]), NEW l \in 1..Len(s[1]), p[k] = p[l] PROVE k = l
    OBVIOUS
  <2> QED
    BY <1>4
<1>6. \A i \in 1..1 : \A j \in 1..Len(s[i]) : \E k \in 1..Len(s[1]) : p[k] = [of |-> i, at |-> j]
  <2>1. ASSUME NEW i \in 1..1, NEW j \in 1..Len(s[i])
        PROVE  \E k \in 1..Len(s[1]) : p[k] = [of |-> i, at |-> j]
    <3>1. i = 1
      OBVIOUS
    <3> QED
      BY <1>2, <3>1
  <2> QED
    BY <2>1
<1>7. SourcesUpTo(p, s[1], s, 1)
  BY <1>3, <1>4, <1>5, <1>6 DEF SourcesUpTo
<1> QED
  BY <1>7

LEMMA SourcesOfMore ==
    ASSUME NEW S, NEW s \in Seq(Seq(S)), NEW n \in Nat, n >= 1, n + 1 \in 1..Len(s),
           NEW flat \in Seq(S), NEW p, SourcesUpTo(p, flat, s, n)
    PROVE  \E q : SourcesUpTo(q, flat \o s[n + 1], s, n + 1)
<1> DEFINE L == Len(flat)
           M == Len(s[n + 1])
           more == flat \o s[n + 1]
           q == [k \in 1..(L + M) |-> IF k <= L THEN p[k] ELSE [of |-> n + 1, at |-> k - L]]
<1>1. L \in Nat /\ M \in Nat /\ s[n + 1] \in Seq(S)
  OBVIOUS
<1>2. /\ Len(more) = L + M /\ \A k \in 1..L : more[k] = flat[k]
      /\ \A k \in 1..(L + M) : k > L => more[k] = s[n + 1][k - L]
  BY <1>1, ConcatProperties
<1>3. /\ p \in [1..L -> [of : Nat, at : Nat]]
      /\ \A k \in 1..L : /\ p[k].of \in 1..n /\ p[k].at \in 1..Len(s[p[k].of])
                         /\ flat[k] = s[p[k].of][p[k].at]
      /\ \A k, l \in 1..L : p[k] = p[l] => k = l
      /\ \A i \in 1..n : \A j \in 1..Len(s[i]) : \E k \in 1..L : p[k] = [of |-> i, at |-> j]
  BY DEF SourcesUpTo
<1> HIDE DEF L, M, more
<1>4. /\ DOMAIN q = 1..(L + M)
      /\ \A k \in 1..L : k \in 1..(L + M) /\ q[k] = p[k]
      /\ \A k \in 1..(L + M) : k > L => q[k] = [of |-> n + 1, at |-> k - L] /\ k - L \in 1..M
  BY <1>1
<1>5. \A k \in 1..(L + M) : k \in 1..L \/ k > L
  BY <1>1
<1>6. q \in [1..(L + M) -> [of : Nat, at : Nat]]
  <2>1. ASSUME NEW k \in 1..(L + M) PROVE q[k] \in [of : Nat, at : Nat]
    <3>1. CASE k \in 1..L
      BY <1>3, <1>4, <3>1
    <3>2. CASE k > L
      <4>1. q[k] = [of |-> n + 1, at |-> k - L] /\ k - L \in Nat /\ n + 1 \in Nat
        BY <1>1, <1>4, <3>2
      <4> HIDE DEF q
      <4> QED
        BY <4>1
    <3> QED
      BY <1>5, <3>1, <3>2
  <2>2. q = [k \in 1..(L + M) |-> q[k]]
    OBVIOUS
  <2> HIDE DEF q
  <2> QED
    BY <2>1, <2>2
<1> HIDE DEF q
<1>7. ASSUME NEW k \in 1..(L + M)
      PROVE  /\ q[k].of \in 1..(n + 1) /\ q[k].at \in 1..Len(s[q[k].of])
             /\ more[k] = s[q[k].of][q[k].at]
  <2>1. CASE k \in 1..L
    <3>1. q[k] = p[k] /\ more[k] = flat[k]
      BY <1>2, <1>4, <2>1
    <3>2. /\ p[k].of \in 1..n /\ p[k].at \in 1..Len(s[p[k].of])
          /\ flat[k] = s[p[k].of][p[k].at]
      BY <1>3, <2>1
    <3>3. p[k].of \in 1..(n + 1)
      BY <3>2
    <3> QED
      BY <3>1, <3>2, <3>3
  <2>2. CASE k > L
    <3>1. q[k].of = n + 1 /\ q[k].at = k - L /\ k - L \in 1..M /\ more[k] = s[n + 1][k - L]
      BY <1>2, <1>4, <2>2
    <3> QED
      BY <3>1 DEF M
  <2> QED
    BY <1>5, <2>1, <2>2
<1>8. ASSUME NEW k \in 1..(L + M), NEW l \in 1..(L + M), q[k] = q[l] PROVE k = l
  <2>1. CASE k \in 1..L /\ l \in 1..L
    BY <1>3, <1>4, <1>8, <2>1
  <2>2. CASE k > L /\ l > L
    <3>1. k - L = l - L
      BY <1>4, <1>8, <2>2
    <3> QED
      BY <1>1, <3>1
  <2>3. CASE k \in 1..L /\ l > L
    <3>1. p[k].of \in 1..n /\ p[k] = q[k]
      BY <1>3, <1>4, <2>3
    <3>2. q[l].of = n + 1
      BY <1>4, <2>3
    <3>3. n + 1 \in 1..n
      BY <1>8, <3>1, <3>2
    <3> QED
      BY <3>3
  <2>4. CASE k > L /\ l \in 1..L
    <3>1. p[l].of \in 1..n /\ p[l] = q[l]
      BY <1>3, <1>4, <2>4
    <3>2. q[k].of = n + 1
      BY <1>4, <2>4
    <3>3. n + 1 \in 1..n
      BY <1>8, <3>1, <3>2
    <3> QED
      BY <3>3
  <2> QED
    BY <1>5, <2>1, <2>2, <2>3, <2>4
<1>9. ASSUME NEW i \in 1..(n + 1), NEW j \in 1..Len(s[i])
      PROVE  \E k \in 1..(L + M) : q[k] = [of |-> i, at |-> j]
  <2>1. CASE i \in 1..n
    BY <1>3, <1>4, <2>1
  <2>2. CASE i = n + 1
    <3>1. j \in 1..M
      BY <2>2 DEF M
    <3>2. L + j \in 1..(L + M) /\ L + j > L /\ (L + j) - L = j
      BY <1>1, <3>1
    <3>3. q[L + j] = [of |-> n + 1, at |-> j]
      BY <1>4, <3>2
    <3> QED
      BY <2>2, <3>2, <3>3
  <2> QED
    BY <2>1, <2>2
<1>10. SourcesUpTo(q, more, s, n + 1)
  BY <1>2, <1>6, <1>7, <1>8, <1>9 DEF SourcesUpTo
<1> QED
  BY <1>10 DEF more

LEMMA FlattenedFrom ==
    ASSUME NEW S, NEW s \in Seq(Seq(S)), s # <<>>
    PROVE  FlattenSeq(s) \in Seq(S) /\ \E p : Sources(p, FlattenSeq(s), s)
<1>1. PICK g : Flattens(g, s) /\ FlattenSeq(s) = g[Len(s)]
  BY FlattenedOf
<1> DEFINE N == Len(s)
           Fine == {n \in 1..N : g[n] \in Seq(S) /\ \E p : SourcesUpTo(p, g[n], s, n)}
<1>2. N \in Nat /\ N >= 1 /\ \A n \in 1..N : s[n] \in Seq(S)
  OBVIOUS
<1>3. \A n \in 1..N : g[n] = IF n = 1 THEN s[n] ELSE g[n - 1] \o s[n]
  BY <1>1 DEF Flattens
<1>4. 1 \in Fine
  <2>1. g[1] = s[1] /\ 1 \in 1..N
    BY <1>2, <1>3
  <2> QED
    BY <1>2, <2>1, SourcesOfFirst
<1>5. ASSUME NEW n \in Fine, n + 1 <= N PROVE n + 1 \in Fine
  <2>1. n \in 1..N /\ g[n] \in Seq(S) /\ \E p : SourcesUpTo(p, g[n], s, n)
    OBVIOUS
  <2>2. PICK p : SourcesUpTo(p, g[n], s, n)
    BY <2>1
  <2>3. n \in Nat /\ n >= 1 /\ n + 1 \in 1..N /\ (n + 1) - 1 = n /\ n + 1 # 1
    BY <1>2, <1>5, <2>1
  <2>4. g[n + 1] = g[n] \o s[n + 1]
    BY <1>3, <2>3
  <2>5. g[n + 1] \in Seq(S)
    BY <1>2, <2>1, <2>3, <2>4, ConcatProperties
  <2> DEFINE flat == g[n]
  <2>6. flat \in Seq(S) /\ SourcesUpTo(p, flat, s, n)
    BY <2>1, <2>2
  <2> HIDE DEF flat
  <2>7. \E q : SourcesUpTo(q, flat \o s[n + 1], s, n + 1)
    BY <2>3, <2>6, SourcesOfMore
  <2>8. \E q : SourcesUpTo(q, g[n + 1], s, n + 1)
    BY <2>4, <2>7 DEF flat
  <2> QED
    BY <2>3, <2>5, <2>8
<1>6. Fine \in SUBSET Nat
  OBVIOUS
<1> HIDE DEF N
<1>7. N \in Fine
  <2> HIDE DEF Fine
  <2>1. N >= 1 => 1 \in Fine
    BY <1>4
  <2>2. \A n \in Fine : n + 1 <= N => n + 1 \in Fine
    BY <1>5
  <2>3. 1..N \subseteq Fine
    BY <1>2, <1>6, <2>1, <2>2, AllPlaces
  <2> QED
    BY <1>2, <2>3
<1>8. g[N] \in Seq(S) /\ \E p : SourcesUpTo(p, g[N], s, N)
  BY <1>7
<1>9. \A p : SourcesUpTo(p, g[N], s, N) => Sources(p, g[N], s)
  BY DEF SourcesUpTo, Sources, N
<1>10. FlattenSeq(s) = g[N]
  BY <1>1 DEF N
<1> QED
  BY <1>8, <1>9, <1>10

-----------------------------------------------------------------------------
(* The scan of an initrd *)

(* Where the scan is: what it has gone past, the frames it has opened, and *)
(* what is left to read, in this order.  A part is left to read, behind or *)
(* opened once the frame that it is in was opened, and not before; and it  *)
(* is in no more frames than were opened.                                  *)
Left(rest) == {rest[i] : i \in 1..Len(rest)}
Met(past, opened, rest) == past \cup opened \cup Left(rest)

ScanTyped(file, past, opened, rest) ==
    past \subseteq Ever(file) /\ opened \subseteq Ever(file) /\ rest \in Seq(Ever(file))

Aligned(rest, d) == Len(rest) = Len(d) /\ \A i \in 1..Len(rest) : rest[i].part = d[i]

LeftOnce(past, opened, rest) ==
    /\ \A i, j \in 1..Len(rest) : rest[i] = rest[j] => i = j
    /\ \A i \in 1..Len(rest) : rest[i] \notin past /\ rest[i] \notin opened

FramesApart(past, opened) ==
    (\A x \in past : ~Scan!Framed(x.part)) /\ \A x \in opened : Scan!Framed(x.part)

MetOnceOpened(file, past, opened, rest) ==
    /\ Scan!Standing(<<>>, file) \subseteq Met(past, opened, rest)
    /\ \A x \in opened : Scan!Within(x) \subseteq Met(past, opened, rest)
    /\ \A x \in Ever(file) : \A y \in Met(past, opened, rest) : y \in Scan!Within(x) => x \in opened

NotDeeper(past, opened, rest, depth) == \A x \in Met(past, opened, rest) : Len(x.at) <= depth + 1

Scanned(file, past, opened, rest, d, depth) ==
    /\ ScanTyped(file, past, opened, rest) /\ Aligned(rest, d) /\ LeftOnce(past, opened, rest)
    /\ FramesApart(past, opened) /\ MetOnceOpened(file, past, opened, rest)
    /\ NotDeeper(past, opened, rest, depth)

(* At first the parts of the file are left to read.                        *)
LEMMA ScannedFirst ==
    ASSUME NEW file \in Seq(Parts) PROVE \E rest : Scanned(file, {}, {}, rest, file, 0)
<1> DEFINE rest == [i \in 1..Len(file) |-> Item(<<>>, file, i)]
<1>1. /\ Scan!Standing(<<>>, file) = {Item(<<>>, file, i) : i \in 1..Len(file)}
      /\ \A y \in Scan!Standing(<<>>, file) : y \in Items /\ Len(y.at) = 1
      /\ Scan!Standing(<<>>, file) \subseteq Ever(file)
  BY TopAre, EverHolds DEF Holds
<1>2. Len(file) \in Nat /\ \A i \in 1..Len(file) : Item(<<>>, file, i) \in Ever(file)
  BY <1>1
<1>3. /\ rest \in Seq(Ever(file)) /\ Len(rest) = Len(file)
      /\ \A i \in 1..Len(file) : rest[i] = Item(<<>>, file, i)
  BY <1>2
<1> HIDE DEF rest
<1>4. Left(rest) = Scan!Standing(<<>>, file) /\ Met({}, {}, rest) = Scan!Standing(<<>>, file)
  <2>1. Left(rest) = {Item(<<>>, file, i) : i \in 1..Len(file)}
    BY <1>3 DEF Left
  <2> QED
    BY <1>1, <2>1 DEF Met
<1>5. Aligned(rest, file)
  <2> DEFINE at == <<>>
  <2>1. \A i \in 1..Len(file) : rest[i] = Item(at, file, i)
    BY <1>3
  <2> HIDE DEF at
  <2> QED
    BY <1>3, <2>1, ItemIs DEF Aligned
<1>6. LeftOnce({}, {}, rest)
  <2>1. ASSUME NEW i \in 1..Len(rest), NEW j \in 1..Len(rest), rest[i] = rest[j] PROVE i = j
    <3> DEFINE at == <<>>
    <3>0. Item(at, file, i) = Item(at, file, j)
      BY <1>3, <2>1
    <3>1. Append(at, i) = Append(at, j)
      <4> HIDE DEF at
      <4>1. Item(at, file, i).at = Append(at, i) /\ Item(at, file, j).at = Append(at, j)
        BY ItemIs
      <4> QED
        BY <3>0, <4>1
    <3>2. i \in Nat /\ j \in Nat /\ at \in Seq(Nat)
      OBVIOUS
    <3> HIDE DEF at
    <3> QED
      BY <3>1, <3>2, SameParent
  <2> QED
    BY <2>1 DEF LeftOnce
<1>7. MetOnceOpened(file, {}, {}, rest)
  <2>1. ASSUME NEW x \in Ever(file), NEW y \in Scan!Standing(<<>>, file), y \in Scan!Within(x) PROVE FALSE
    <3>1. x \in Items
      BY EverHolds
    <3>2. Len(y.at) = Len(x.at) + 1 /\ Len(y.at) = 1
      BY <1>1, <2>1, <3>1, WithinAre
    <3>3. x.at \in Seq(Nat) /\ x.at # <<>>
      BY <3>1 DEF Items
    <3>4. Len(x.at) \in Nat /\ Len(x.at) # 0
      BY <3>3
    <3>5. Len(x.at) + 1 # 1
      BY <3>4
    <3> QED
      BY <3>2, <3>5
  <2> QED
    BY <1>4, <2>1 DEF MetOnceOpened
<1>8. NotDeeper({}, {}, rest, 0)
  <2>1. \A x \in Met({}, {}, rest) : Len(x.at) = 1
    BY <1>1, <1>4
  <2>2. 1 <= 0 + 1
    OBVIOUS
  <2> QED
    BY <2>1, <2>2 DEF NotDeeper
<1>9. ScanTyped(file, {}, {}, rest) /\ FramesApart({}, {})
  BY <1>3 DEF ScanTyped, FramesApart
<1> QED
  BY <1>5, <1>6, <1>7, <1>8, <1>9 DEF Scanned

(* The scan goes past the first of them, which is no frame.                *)
LEMMA ScannedPast ==
    ASSUME NEW file, NEW past, NEW opened, NEW rest, NEW d, NEW depth,
           Scanned(file, past, opened, rest, d, depth), d \in Seq(Parts), d # <<>>,
           ~Scan!Framed(Head(d))
    PROVE  /\ Scanned(file, past \cup {rest[1]}, opened, Tail(rest), Tail(d), depth)
           /\ rest[1].part = Head(d) /\ rest[1] \notin past
<1>1. /\ rest \in Seq(Ever(file)) /\ Len(rest) = Len(d) /\ Len(rest) \in Nat \ {0}
      /\ \A i \in 1..Len(rest) : rest[i].part = d[i]
  BY DEF Scanned, ScanTyped, Aligned
<1> DEFINE x == rest[1]
           after == Tail(rest)
           past2 == past \cup {x}
<1>2. x \in Ever(file) /\ x.part = Head(d) /\ 1 \in 1..Len(rest)
  BY <1>1
<1>3. /\ after \in Seq(Ever(file)) /\ Len(after) = Len(rest) - 1 /\ Len(Tail(d)) = Len(d) - 1
      /\ \A i \in 1..Len(after) : /\ i + 1 \in 1..Len(rest) /\ after[i] = rest[i + 1]
                                  /\ Tail(d)[i] = d[i + 1]
  BY <1>1
<1>4. x \notin past /\ x \notin opened /\ \A i \in 1..Len(rest) : i # 1 => rest[i] # x
  BY <1>2 DEF Scanned, LeftOnce
<1>5. \A i, j \in 1..Len(rest) : rest[i] = rest[j] => i = j
  BY DEF Scanned, LeftOnce
<1>6. \A i \in 1..Len(rest) : rest[i] \notin past /\ rest[i] \notin opened
  BY DEF Scanned, LeftOnce
<1>7. Left(after) \cup {x} = Left(rest)
  <2>1. ASSUME NEW i \in 1..Len(rest) PROVE rest[i] = x \/ \E j \in 1..Len(after) : rest[i] = after[j]
    <3>1. CASE i = 1
      BY <3>1
    <3>2. CASE i # 1
      <4>1. i - 1 \in 1..Len(after) /\ (i - 1) + 1 = i
        BY <1>1, <1>3, <3>2
      <4> QED
        BY <1>3, <4>1
    <3> QED
      BY <3>1, <3>2
  <2> HIDE DEF x, after
  <2>2. \A y \in Left(rest) : y = x \/ y \in Left(after)
    BY <2>1 DEF Left
  <2>3. x \in Left(rest)
    BY <1>2 DEF Left, x
  <2>4. \A y \in Left(after) : y \in Left(rest)
    BY <1>3 DEF Left
  <2> QED
    BY <2>2, <2>3, <2>4
<1> HIDE DEF x, after
<1>8. Met(past2, opened, after) = Met(past, opened, rest)
  BY <1>7 DEF Met
<1> HIDE DEF past2
<1>9. ScanTyped(file, past2, opened, after)
  BY <1>2, <1>3 DEF Scanned, ScanTyped, past2
<1>10. Aligned(after, Tail(d))
  BY <1>1, <1>3 DEF Aligned
<1>11. LeftOnce(past2, opened, after)
  <2>1. ASSUME NEW i \in 1..Len(after), NEW j \in 1..Len(after), after[i] = after[j] PROVE i = j
    <3>1. i + 1 \in 1..Len(rest) /\ j + 1 \in 1..Len(rest) /\ rest[i + 1] = rest[j + 1]
      BY <1>3, <2>1
    <3>2. i + 1 = j + 1 /\ i \in Int /\ j \in Int
      BY <1>5, <3>1
    <3> QED
      BY <3>2
  <2>2. ASSUME NEW i \in 1..Len(after) PROVE after[i] \notin past2 /\ after[i] \notin opened
    <3>1. i + 1 # 1
      OBVIOUS
    <3> QED
      BY <1>3, <1>4, <1>6, <3>1 DEF past2
  <2> QED
    BY <2>1, <2>2 DEF LeftOnce
<1>12. FramesApart(past2, opened)
  BY <1>2 DEF Scanned, FramesApart, past2
<1>13. MetOnceOpened(file, past2, opened, after) /\ NotDeeper(past2, opened, after, depth)
  BY <1>8 DEF Scanned, MetOnceOpened, NotDeeper
<1>14. Scanned(file, past2, opened, after, Tail(d), depth)
  BY <1>9, <1>10, <1>11, <1>12, <1>13 DEF Scanned
<1> QED
  BY <1>2, <1>4, <1>14 DEF x, after, past2

(* Frames are opened: what is within them comes in their place.            *)
LEMMA ScannedOpen ==
    ASSUME NEW file \in Seq(Parts), NEW past, NEW opened, NEW rest, NEW d, NEW depth \in Nat,
           Scanned(file, past, opened, rest, d, depth),
           NEW frames_ \in SUBSET Left(rest), \A x \in frames_ : Scan!Framed(x.part),
           NEW after \in Seq(Ever(file)), NEW e, Aligned(after, e),
           \A i, j \in 1..Len(after) : after[i] = after[j] => i = j,
           Left(after) = (Left(rest) \ frames_) \cup UNION {Scan!Within(x) : x \in frames_}
    PROVE  Scanned(file, past, opened \cup frames_, after, e, depth + 1)
<1> DEFINE inner == UNION {Scan!Within(x) : x \in frames_}
           opened2 == opened \cup frames_
<1>1. /\ past \subseteq Ever(file) /\ opened \subseteq Ever(file) /\ rest \in Seq(Ever(file))
      /\ Left(rest) \subseteq Ever(file)
  BY DEF Scanned, ScanTyped, Left
<1>2. \A y \in inner : \E x \in frames_ : y \in Scan!Within(x)
  OBVIOUS
<1>3. \A x \in frames_ : Scan!Within(x) \subseteq inner
  OBVIOUS
<1> HIDE DEF inner
<1>4. ASSUME NEW x \in frames_ PROVE x \in Left(rest) /\ x \notin opened /\ x \notin past
  BY DEF Scanned, LeftOnce, Left
<1>5. \A y \in inner : y \notin Met(past, opened, rest)
  <2> SUFFICES ASSUME NEW y \in inner, y \in Met(past, opened, rest) PROVE FALSE
    OBVIOUS
  <2>1. PICK x \in frames_ : y \in Scan!Within(x)
    BY <1>2
  <2>2. x \in Ever(file)
    BY <1>1
  <2>3. x \in opened
    BY <2>1, <2>2 DEF Scanned, MetOnceOpened
  <2> QED
    BY <1>4, <2>3
<1>6. Left(after) = (Left(rest) \ frames_) \cup inner
  BY DEF inner
<1>7. Met(past, opened2, after) = Met(past, opened, rest) \cup inner
  BY <1>6 DEF Met
<1> HIDE DEF opened2
<1>8. ScanTyped(file, past, opened2, after)
  BY <1>1 DEF ScanTyped, opened2
<1>9. LeftOnce(past, opened2, after)
  <2>1. ASSUME NEW y \in Left(after) PROVE y \notin past /\ y \notin opened2
    <3>1. CASE y \in inner
      BY <1>5, <3>1 DEF Met, opened2
    <3>2. CASE y \in Left(rest) \ frames_
      BY <3>2 DEF Scanned, LeftOnce, Left, opened2
    <3> QED
      BY <1>6, <3>1, <3>2
  <2>2. \A i \in 1..Len(after) : after[i] \in Left(after)
    BY DEF Left
  <2> QED
    BY <2>1, <2>2 DEF LeftOnce
<1>10. FramesApart(past, opened2)
  BY DEF Scanned, FramesApart, opened2
<1>11. MetOnceOpened(file, past, opened2, after)
  <2>1. Scan!Standing(<<>>, file) \subseteq Met(past, opened2, after)
    BY <1>7 DEF Scanned, MetOnceOpened
  <2>2. ASSUME NEW x \in opened2 PROVE Scan!Within(x) \subseteq Met(past, opened2, after)
    BY <1>3, <1>7 DEF Scanned, MetOnceOpened, opened2
  <2>3. ASSUME NEW x \in Ever(file), NEW y \in Met(past, opened2, after), y \in Scan!Within(x)
        PROVE  x \in opened2
    <3>1. CASE y \in Met(past, opened, rest)
      BY <2>3, <3>1 DEF Scanned, MetOnceOpened, opened2
    <3>2. CASE y \in inner
      <4>1. PICK z \in frames_ : y \in Scan!Within(z)
        BY <1>2, <3>2
      <4>2. z \in Ever(file)
        BY <1>1
      <4>3. x = z
        BY <2>3, <4>1, <4>2, OneParent
      <4> QED
        BY <4>3 DEF opened2
    <3> QED
      BY <1>7, <3>1, <3>2
  <2> QED
    BY <2>1, <2>2, <2>3 DEF MetOnceOpened
<1>12. NotDeeper(past, opened2, after, depth + 1)
  <2>1. ASSUME NEW y \in Met(past, opened2, after) PROVE Len(y.at) <= (depth + 1) + 1
    <3>1. CASE y \in Met(past, opened, rest)
      <4>1. y \in Ever(file) /\ Len(y.at) <= depth + 1
        BY <1>1, <3>1 DEF Scanned, NotDeeper, Met
      <4>2. y.at \in Seq(Nat)
        BY <4>1, EverHolds DEF Items
      <4>3. Len(y.at) \in Nat
        BY <4>2
      <4> QED
        BY <4>1, <4>3
    <3>2. CASE y \in inner
      <4>1. PICK x \in frames_ : y \in Scan!Within(x)
        BY <1>2, <3>2
      <4>2. x \in Met(past, opened, rest) /\ x \in Ever(file)
        BY <1>1 DEF Met
      <4>3. Len(x.at) <= depth + 1
        BY <4>2 DEF Scanned, NotDeeper
      <4>4. x \in Items /\ x.at \in Seq(Nat)
        BY <4>2, EverHolds DEF Items
      <4>5. Len(y.at) = Len(x.at) + 1 /\ Len(x.at) \in Nat
        BY <4>1, <4>4, WithinAre
      <4> QED
        BY <4>3, <4>5
    <3> QED
      BY <1>7, <3>1, <3>2
  <2> QED
    BY <2>1 DEF NotDeeper
<1>13. Scanned(file, past, opened2, after, e, depth + 1)
  BY <1>8, <1>9, <1>10, <1>11, <1>12 DEF Scanned
<1> QED
  BY <1>13 DEF opened2

LEMMA IsSequence ==
    ASSUME NEW S, NEW n \in Nat, NEW f \in [1..n -> S] PROVE f \in Seq(S) /\ Len(f) = n
OBVIOUS

(* What is within a frame, for a frame that is there.                      *)
LEMMA FrameHolds ==
    ASSUME NEW file \in Seq(Parts), NEW x \in Ever(file), Scan!Framed(x.part)
    PROVE  /\ x.at \in Seq(Nat) /\ x.part.body \in Seq(Parts)
           /\ Scan!Within(x) = {Item(x.at, x.part.body, i) : i \in 1..Len(x.part.body)}
           /\ Scan!Within(x) \subseteq Ever(file)
<1>1. x \in Items /\ Scan!Within(x) \subseteq Ever(file)
  BY EverHolds DEF Holds
<1> QED
  BY <1>1, WithinAre

(* A gzip or xz frame: what is within it, and then what follows it.        *)
LEMMA StreamOpens ==
    ASSUME NEW file \in Seq(Parts), NEW past, NEW opened, NEW rest, NEW d \in Seq(Parts),
           NEW depth \in Nat, Scanned(file, past, opened, rest, d, depth), d # <<>>,
           Scan!Framed(Head(d))
    PROVE  \E after : Scanned(file, past, opened \cup {rest[1]}, after,
                              d[1].body \o Tail(d), depth + 1)
<1>1. /\ rest \in Seq(Ever(file)) /\ Len(rest) = Len(d) /\ Len(d) \in Nat \ {0}
      /\ \A i \in 1..Len(rest) : rest[i].part = d[i]
      /\ \A i, j \in 1..Len(rest) : rest[i] = rest[j] => i = j
      /\ \A i \in 1..Len(rest) : rest[i] \notin opened
  BY DEF Scanned, ScanTyped, Aligned, LeftOnce
<1> DEFINE x == rest[1]
           body == d[1].body
           B == Len(body)
           T == Len(d) - 1
           e == body \o Tail(d)
           after == [k \in 1..(B + T) |-> IF k <= B THEN Item(x.at, body, k) ELSE rest[k - B + 1]]
<1>2. x \in Ever(file) /\ x.part = d[1] /\ Scan!Framed(x.part) /\ x \in Left(rest)
  <2>1. 1 \in 1..Len(rest) /\ Head(d) = d[1]
    BY <1>1
  <2> QED
    BY <1>1, <2>1 DEF Left
<1>3. /\ x.at \in Seq(Nat) /\ body \in Seq(Parts)
      /\ Scan!Within(x) = {Item(x.at, body, i) : i \in 1..B} /\ Scan!Within(x) \subseteq Ever(file)
  BY <1>2, FrameHolds
<1>4. B \in Nat /\ T \in Nat
  BY <1>1, <1>3
<1>5. /\ Len(e) = B + T /\ \A k \in 1..B : e[k] = body[k]
      /\ \A k \in 1..(B + T) : k > B => e[k] = d[k - B + 1]
  <2>1. Tail(d) \in Seq(Parts) /\ Len(Tail(d)) = T /\ \A i \in 1..T : Tail(d)[i] = d[i + 1]
    BY <1>1
  <2> DEFINE t == Tail(d)
  <2> HIDE DEF t, T, B, body
  <2>2. Len(body \o t) = Len(body) + Len(t) /\ \A k \in 1..Len(body) : (body \o t)[k] = body[k]
    BY <1>3, <2>1, ConcatProperties DEF t
  <2>3. ASSUME NEW k \in 1..(B + T), k > B PROVE (body \o t)[k] = d[k - B + 1]
    <3>1. k - B \in 1..T
      BY <1>4, <2>3
    <3>2. (body \o t)[k] = t[k - B]
      BY <1>3, <1>4, <2>1, <2>3, ConcatProperties DEF t, B
    <3> QED
      BY <2>1, <3>1, <3>2 DEF t
  <2> QED
    BY <2>1, <2>2, <2>3 DEF t, B
<1> HIDE DEF x, body, B, T, e
<1>6. \A i \in 1..B : Item(x.at, body, i) \in Ever(file)
  BY <1>3
<1>7. \A k \in 1..(B + T) : \/ k \in 1..B
                            \/ k > B /\ ~(k <= B) /\ k - B + 1 \in 1..Len(rest) /\ k - B + 1 # 1
  BY <1>1, <1>4 DEF T
<1>8. /\ \A k \in 1..B : k \in 1..(B + T) /\ after[k] = Item(x.at, body, k)
      /\ \A k \in 1..(B + T) : k > B => after[k] = rest[k - B + 1]
  BY <1>4
<1>9. after \in Seq(Ever(file)) /\ Len(after) = B + T
  <2>1. \A k \in 1..(B + T) : after[k] \in Ever(file)
    <3> TAKE k \in 1..(B + T)
    <3>1. CASE k \in 1..B
      BY <1>6, <1>8, <3>1
    <3>2. CASE k > B /\ k - B + 1 \in 1..Len(rest)
      <4>1. after[k] = rest[k - B + 1]
        BY <1>8, <3>2
      <4> HIDE DEF after
      <4> QED
        BY <1>1, <3>2, <4>1
    <3> QED
      BY <1>7, <3>1, <3>2
  <2>2. after = [k \in 1..(B + T) |-> after[k]] /\ B + T \in Nat
    BY <1>4
  <2> HIDE DEF after
  <2>3. after \in [1..(B + T) -> Ever(file)]
    BY <2>1, <2>2
  <2> DEFINE S == Ever(file)
             n == B + T
  <2> HIDE DEF S, n
  <2>4. after \in [1..n -> S] /\ n \in Nat
    BY <2>2, <2>3 DEF S, n
  <2>5. after \in Seq(S) /\ Len(after) = n
    BY <2>4, IsSequence
  <2> QED
    BY <2>5 DEF S, n
<1> HIDE DEF after
<1>10. Aligned(after, e)
  <2>1. ASSUME NEW k \in 1..(B + T) PROVE after[k].part = e[k]
    <3>1. CASE k \in 1..B
      BY <1>5, <1>8, <3>1, ItemIs
    <3>2. CASE k > B /\ k - B + 1 \in 1..Len(rest)
      BY <1>1, <1>5, <1>8, <3>2
    <3> QED
      BY <1>7, <3>1, <3>2
  <2> QED
    BY <1>5, <1>9, <2>1 DEF Aligned
<1>11. \A i \in 1..Len(rest) : rest[i] \notin Scan!Within(x)
  <2> SUFFICES ASSUME NEW i \in 1..Len(rest), rest[i] \in Scan!Within(x) PROVE FALSE
    OBVIOUS
  <2>1. rest[i] \in Met(past, opened, rest)
    BY DEF Met, Left
  <2>2. x \in opened
    BY <1>2, <2>1 DEF Scanned, MetOnceOpened
  <2>3. 1 \in 1..Len(rest)
    BY <1>1
  <2> QED
    BY <1>1, <2>2, <2>3 DEF x
<1>12. \A k \in 1..B : after[k] \in Scan!Within(x)
  BY <1>3, <1>8
<1>13. ASSUME NEW k \in 1..Len(after), NEW l \in 1..Len(after), after[k] = after[l] PROVE k = l
  <2>1. k \in 1..(B + T) /\ l \in 1..(B + T)
    BY <1>9
  <2>2. CASE k \in 1..B /\ l \in 1..B
    <3>1. Append(x.at, k) = Append(x.at, l)
      <4>1. Item(x.at, body, k) = Item(x.at, body, l)
        BY <1>8, <1>13, <2>2
      <4> QED
        BY <4>1, ItemIs
    <3>2. k \in Nat /\ l \in Nat
      BY <2>2
    <3> QED
      BY <1>3, <3>1, <3>2, SameParent
  <2>3. CASE k > B /\ l > B
    <3>1. k - B + 1 \in 1..Len(rest) /\ l - B + 1 \in 1..Len(rest)
      BY <1>4, <1>7, <2>1, <2>3
    <3>2. rest[k - B + 1] = rest[l - B + 1]
      BY <1>8, <1>13, <2>1, <2>3
    <3>3. k - B + 1 = l - B + 1
      BY <1>1, <3>1, <3>2
    <3> QED
      BY <1>4, <2>1, <3>3
  <2>4. CASE k \in 1..B /\ l > B
    <3>1. after[l] = rest[l - B + 1] /\ l - B + 1 \in 1..Len(rest)
      BY <1>4, <1>7, <1>8, <2>1, <2>4
    <3> QED
      BY <1>11, <1>12, <1>13, <2>4, <3>1
  <2>5. CASE k > B /\ l \in 1..B
    <3>1. after[k] = rest[k - B + 1] /\ k - B + 1 \in 1..Len(rest)
      BY <1>4, <1>7, <1>8, <2>1, <2>5
    <3> QED
      BY <1>11, <1>12, <1>13, <2>5, <3>1
  <2> QED
    BY <1>7, <2>1, <2>2, <2>3, <2>4, <2>5
<1>14. Left(after) = (Left(rest) \ {x}) \cup Scan!Within(x)
  <2>1. ASSUME NEW k \in 1..Len(after) PROVE after[k] \in (Left(rest) \ {x}) \cup Scan!Within(x)
    <3>1. k \in 1..(B + T)
      BY <1>9
    <3>2. CASE k \in 1..B
      BY <1>12, <3>2
    <3>3. CASE k > B /\ k - B + 1 \in 1..Len(rest) /\ k - B + 1 # 1
      <4>1. after[k] = rest[k - B + 1] /\ 1 \in 1..Len(rest)
        BY <1>1, <1>8, <3>1, <3>3
      <4>2. rest[k - B + 1] # x
        BY <1>1, <3>3, <4>1 DEF x
      <4> QED
        BY <3>3, <4>1, <4>2 DEF Left
    <3> QED
      BY <1>7, <3>1, <3>2, <3>3
  <2>2. ASSUME NEW i \in 1..Len(rest), rest[i] # x PROVE \E k \in 1..Len(after) : after[k] = rest[i]
    <3>1. i # 1
      BY <2>2 DEF x
    <3>2. i - 1 + B \in 1..(B + T) /\ i - 1 + B > B /\ (i - 1 + B) - B + 1 = i
      BY <1>1, <1>4, <3>1 DEF T
    <3>3. after[i - 1 + B] = rest[i]
      BY <1>8, <3>2
    <3> QED
      BY <1>9, <3>2, <3>3
  <2>3. ASSUME NEW y \in Scan!Within(x) PROVE \E k \in 1..Len(after) : after[k] = y
    <3>1. PICK k \in 1..B : y = Item(x.at, body, k)
      BY <1>3
    <3> QED
      BY <1>8, <1>9, <3>1
  <2> QED
    BY <2>1, <2>2, <2>3 DEF Left
<1>15. UNION {Scan!Within(y) : y \in {x}} = Scan!Within(x)
  OBVIOUS
<1> DEFINE fs == {x}
<1>16. /\ fs \in SUBSET Left(rest) /\ \A y \in fs : Scan!Framed(y.part)
       /\ Left(after) = (Left(rest) \ fs) \cup UNION {Scan!Within(y) : y \in fs}
  BY <1>2, <1>14, <1>15
<1> HIDE DEF fs
<1>17. Scanned(file, past, opened \cup fs, after, e, depth + 1)
  BY <1>9, <1>10, <1>13, <1>16, ScannedOpen
<1> QED
  BY <1>17 DEF fs, x, e, body

(* All zstd frames at once.                                                *)
LEMMA ZstdOpens ==
    ASSUME NEW file \in Seq(Parts), NEW past, NEW opened, NEW rest, NEW d \in Seq(Parts),
           NEW depth \in Nat, Scanned(file, past, opened, rest, d, depth), d # <<>>,
           \A i \in DOMAIN d : Scan!Framed(d[i])
    PROVE  /\ FlattenSeq([i \in DOMAIN d |-> d[i].body]) \in Seq(Parts)
           /\ \E after : Scanned(file, past, opened \cup Left(rest), after,
                                 FlattenSeq([i \in DOMAIN d |-> d[i].body]), depth + 1)
<1>1. /\ rest \in Seq(Ever(file)) /\ Len(rest) = Len(d) /\ Len(d) \in Nat \ {0}
      /\ \A i \in 1..Len(rest) : rest[i].part = d[i]
      /\ \A i, j \in 1..Len(rest) : rest[i] = rest[j] => i = j
      /\ DOMAIN d = 1..Len(d)
  BY DEF Scanned, ScanTyped, Aligned, LeftOnce
<1> DEFINE s == [i \in DOMAIN d |-> d[i].body]
           flat == FlattenSeq(s)
<1>2. ASSUME NEW i \in 1..Len(rest)
      PROVE  /\ rest[i] \in Ever(file) /\ Scan!Framed(rest[i].part)
             /\ rest[i].at \in Seq(Nat) /\ s[i] = rest[i].part.body /\ s[i] \in Seq(Parts)
             /\ Scan!Within(rest[i]) = {Item(rest[i].at, s[i], j) : j \in 1..Len(s[i])}
             /\ Scan!Within(rest[i]) \subseteq Ever(file)
  <2>1. rest[i] \in Ever(file) /\ Scan!Framed(rest[i].part) /\ s[i] = rest[i].part.body
    <3>1. i \in DOMAIN d /\ rest[i] \in Ever(file) /\ rest[i].part = d[i]
      BY <1>1
    <3>2. Scan!Framed(d[i]) /\ s[i] = d[i].body
      BY <3>1
    <3> QED
      BY <3>1, <3>2
  <2> DEFINE x == rest[i]
             body == s[i]
  <2>2. x \in Ever(file) /\ Scan!Framed(x.part) /\ body = x.part.body
    BY <2>1
  <2> HIDE DEF s, x, body
  <2>3. /\ x.at \in Seq(Nat) /\ x.part.body \in Seq(Parts)
        /\ Scan!Within(x) = {Item(x.at, x.part.body, j) : j \in 1..Len(x.part.body)}
        /\ Scan!Within(x) \subseteq Ever(file)
    BY <2>2, FrameHolds
  <2>4. /\ x.at \in Seq(Nat) /\ body \in Seq(Parts)
        /\ Scan!Within(x) = {Item(x.at, body, j) : j \in 1..Len(body)}
        /\ Scan!Within(x) \subseteq Ever(file)
    BY <2>2, <2>3
  <2> QED
    BY <2>2, <2>4 DEF x, body
<1>3. s \in Seq(Seq(Parts)) /\ Len(s) = Len(rest) /\ s # <<>>
  <2>1. \A i \in 1..Len(d) : d[i].body \in Seq(Parts)
    BY <1>1, <1>2
  <2>2. s \in [1..Len(d) -> Seq(Parts)]
    BY <1>1, <2>1
  <2> DEFINE T == Seq(Parts)
  <2> HIDE DEF s, T
  <2>3. s \in [1..Len(d) -> T]
    BY <2>2 DEF T
  <2>4. s \in Seq(T) /\ Len(s) = Len(d)
    BY <1>1, <2>3, IsSequence
  <2>5. s # <<>>
    BY <1>1, <2>4
  <2> QED
    BY <1>1, <2>4, <2>5 DEF T
<1> HIDE DEF s
<1>4. flat \in Seq(Parts) /\ \E p : Sources(p, flat, s)
  BY <1>3, FlattenedFrom
<1>5. PICK p : Sources(p, flat, s)
  BY <1>4
<1> HIDE DEF flat
<1>6. /\ Len(flat) \in Nat /\ p \in [1..Len(flat) -> [of : Nat, at : Nat]]
      /\ \A k \in 1..Len(flat) : /\ p[k].of \in 1..Len(rest) /\ p[k].at \in 1..Len(s[p[k].of])
                                 /\ flat[k] = s[p[k].of][p[k].at]
      /\ \A k, l \in 1..Len(flat) : p[k] = p[l] => k = l
      /\ \A i \in 1..Len(rest) : \A j \in 1..Len(s[i]) :
            \E k \in 1..Len(flat) : p[k] = [of |-> i, at |-> j]
  BY <1>3, <1>4, <1>5 DEF Sources
<1> DEFINE Of(k) == rest[p[k].of]
           ItemOf(k) == Item(Of(k).at, s[p[k].of], p[k].at)
           after == [k \in 1..Len(flat) |-> ItemOf(k)]
<1>7. ASSUME NEW k \in 1..Len(flat)
      PROVE  /\ Of(k) \in Ever(file) /\ Of(k).at \in Seq(Nat) /\ p[k].at \in Nat /\ p[k].of \in 1..Len(rest)
             /\ ItemOf(k) \in Scan!Within(Of(k)) /\ ItemOf(k) \in Ever(file)
             /\ ItemOf(k).at = Append(Of(k).at, p[k].at) /\ ItemOf(k).part = flat[k]
  <2> DEFINE i == p[k].of
             j == p[k].at
  <2>1. i \in 1..Len(rest) /\ j \in 1..Len(s[i]) /\ j \in Nat /\ flat[k] = s[i][j]
    BY <1>6
  <2> HIDE DEF i, j
  <2>2. /\ rest[i] \in Ever(file) /\ rest[i].at \in Seq(Nat)
        /\ Item(rest[i].at, s[i], j) \in Scan!Within(rest[i])
        /\ Scan!Within(rest[i]) \subseteq Ever(file)
    BY <1>2, <2>1
  <2>3. /\ Item(rest[i].at, s[i], j).at = Append(rest[i].at, j)
        /\ Item(rest[i].at, s[i], j).part = s[i][j]
    <3> DEFINE a == rest[i].at
               b == s[i]
    <3> HIDE DEF a, b
    <3>1. Item(a, b, j).at = Append(a, j) /\ Item(a, b, j).part = b[j]
      BY ONLY ItemIs
    <3> QED
      BY <3>1 DEF a, b
  <2> QED
    BY <2>1, <2>2, <2>3 DEF i, j
<1> HIDE DEF Of, ItemOf
<1>8. after \in Seq(Ever(file)) /\ Len(after) = Len(flat) /\ \A k \in 1..Len(flat) : after[k] = ItemOf(k)
  <2>1. after \in [1..Len(flat) -> Ever(file)]
    BY <1>7
  <2>2. \A k \in 1..Len(flat) : after[k] = ItemOf(k)
    OBVIOUS
  <2> HIDE DEF after
  <2> DEFINE T == Ever(file)
             n == Len(flat)
  <2> HIDE DEF T, n
  <2>3. after \in [1..n -> T] /\ n \in Nat
    BY <1>6, <2>1 DEF T, n
  <2>4. after \in Seq(T) /\ Len(after) = n
    BY <2>3, IsSequence
  <2> QED
    BY <2>2, <2>4 DEF T, n
<1> HIDE DEF after
<1>9. Aligned(after, flat)
  BY <1>7, <1>8 DEF Aligned
<1>10. ASSUME NEW k \in 1..Len(after), NEW l \in 1..Len(after), after[k] = after[l] PROVE k = l
  <2>1. k \in 1..Len(flat) /\ l \in 1..Len(flat) /\ ItemOf(k) = ItemOf(l)
    BY <1>8, <1>10
  <2>2. Append(Of(k).at, p[k].at) = Append(Of(l).at, p[l].at)
    BY <1>7, <2>1
  <2>3. Of(k).at = Of(l).at /\ p[k].at = p[l].at
    <3> DEFINE a == Of(k).at
               b == Of(l).at
               i == p[k].at
               j == p[l].at
    <3>1. a \in Seq(Nat) /\ b \in Seq(Nat) /\ i \in Nat /\ j \in Nat /\ Append(a, i) = Append(b, j)
      BY <1>7, <2>1, <2>2
    <3> HIDE DEF a, b, i, j
    <3>2. a = b /\ i = j
      BY <3>1, SameParent
    <3> QED
      BY <3>2 DEF a, b, i, j
  <2>4. Of(k) = Of(l)
    BY <1>7, <2>1, <2>3, EverKnown
  <2>5. p[k].of = p[l].of
    BY <1>1, <1>7, <2>1, <2>4 DEF Of
  <2>6. p[k] = p[l]
    <3>1. p[k] \in [of : Nat, at : Nat] /\ p[l] \in [of : Nat, at : Nat]
      BY <1>6, <2>1
    <3> DEFINE q == p[k]
               r == p[l]
    <3>2. q \in [of : Nat, at : Nat] /\ r \in [of : Nat, at : Nat] /\ q.of = r.of /\ q.at = r.at
      BY <2>3, <2>5, <3>1
    <3> HIDE DEF q, r
    <3>3. q = r
      BY <3>2, SamePlace
    <3> QED
      BY <3>3 DEF q, r
  <2> QED
    BY <1>6, <2>1, <2>6
<1>11. Left(after) = UNION {Scan!Within(x) : x \in Left(rest)}
  <2>1. ASSUME NEW k \in 1..Len(after) PROVE \E x \in Left(rest) : after[k] \in Scan!Within(x)
    <3>1. k \in 1..Len(flat) /\ after[k] = ItemOf(k)
      BY <1>8
    <3>2. ItemOf(k) \in Scan!Within(Of(k)) /\ p[k].of \in 1..Len(rest)
      BY <1>7, <3>1
    <3>3. Of(k) \in Left(rest)
      BY <3>2 DEF Left, Of
    <3> QED
      BY <3>1, <3>2, <3>3
  <2>2. ASSUME NEW x \in Left(rest), NEW y \in Scan!Within(x)
        PROVE  \E k \in 1..Len(after) : after[k] = y
    <3>1. PICK i \in 1..Len(rest) : x = rest[i]
      BY DEF Left
    <3>2. PICK j \in 1..Len(s[i]) : y = Item(rest[i].at, s[i], j)
      BY <1>2, <3>1
    <3>3. PICK k \in 1..Len(flat) : p[k] = [of |-> i, at |-> j]
      BY <1>6
    <3>4. p[k].of = i /\ p[k].at = j
      BY <3>3
    <3>5. ItemOf(k) = y
      BY <3>2, <3>4 DEF ItemOf, Of
    <3> QED
      BY <1>8, <3>5
  <2> DEFINE W == {Scan!Within(x) : x \in Left(rest)}
  <2>3. \A y : y \in UNION W <=> \E x \in Left(rest) : y \in Scan!Within(x)
    OBVIOUS
  <2> HIDE DEF W
  <2>4. \A y : y \in Left(after) <=> y \in UNION W
    <3>1. ASSUME NEW y \in Left(after) PROVE \E x \in Left(rest) : y \in Scan!Within(x)
      <4>1. PICK k \in 1..Len(after) : y = after[k]
        BY DEF Left
      <4> QED
        BY <2>1, <4>1
    <3>2. ASSUME NEW x \in Left(rest), NEW y \in Scan!Within(x) PROVE y \in Left(after)
      <4>1. PICK k \in 1..Len(after) : after[k] = y
        BY <2>2
      <4> QED
        BY <4>1 DEF Left
    <3> QED
      BY <2>3, <3>1, <3>2
  <2>5. Left(after) = UNION W
    BY <2>4
  <2> QED
    BY <2>5 DEF W
<1> DEFINE fs == Left(rest)
<1>12. /\ fs \in SUBSET Left(rest) /\ \A y \in fs : Scan!Framed(y.part)
       /\ Left(after) = (Left(rest) \ fs) \cup UNION {Scan!Within(y) : y \in fs}
  <2>1. \A y \in Left(rest) : Scan!Framed(y.part)
    BY <1>2 DEF Left
  <2> QED
    BY <1>11, <2>1
<1> HIDE DEF fs
<1>13. Scanned(file, past, opened \cup fs, after, flat, depth + 1)
  BY <1>8, <1>9, <1>10, <1>12, ScannedOpen
<1> QED
  BY <1>4, <1>13 DEF fs, flat, s

(* The files gone past were compared, each name once; a trailer was the    *)
(* last if last says so.                                                   *)
FilesOf(past) == {x \in past : x.part.kind = "file"}

Compared(past, names, kind) ==
    /\ names = {x.part.name : x \in FilesOf(past)}
    /\ \A x \in FilesOf(past) : x.part.same
    /\ \A x, y \in FilesOf(past) : x.part.name = y.part.name => x = y
    /\ kind = "trailer" => \E x \in past : x.part.kind = "trailer"

ScanOK ==
    /\ initrd \in Seq(Parts) /\ data \in Seq(Parts)
    /\ consumed \in 0..Limit /\ frames \in 0..Frames /\ seen \subseteq Known
    /\ last \in Scan!Kinds \cup {"none"} /\ verdict \in {"none", "accept", "reject"}
    /\ Scan!Bounded
    /\ verdict = "accept" => data = <<>> /\ last = "trailer"

ScanAt(past, opened, rest) ==
    Scanned(initrd, past, opened, rest, data, frames) /\ Compared(past, seen, last)

ScanInv == ScanOK /\ \E past, opened, rest : ScanAt(past, opened, rest)

LEMMA ScanStarts == Scan!Init => ScanInv
<1> SUFFICES ASSUME Scan!Init PROVE ScanInv
  OBVIOUS
<1>1. /\ initrd \in Seq(Parts) /\ data = initrd /\ consumed = 0 /\ frames = 0 /\ seen = {}
      /\ last = "none" /\ verdict = "none" /\ Limit \in Nat /\ Frames \in Nat
  BY FramesAssumption DEF Scan!Init, Scan!FramesHoldParts
<1>2. ScanOK
  <2>1. Scan!Bounded
    BY <1>1 DEF Scan!Bounded
  <2> QED
    BY <1>1, <2>1 DEF ScanOK
<1>3. PICK rest : Scanned(initrd, {}, {}, rest, initrd, 0)
  BY <1>1, ScannedFirst
<1>4. Compared({}, {}, "none")
  BY DEF Compared, FilesOf
<1>5. ScanAt({}, {}, rest)
  BY <1>1, <1>3, <1>4 DEF ScanAt
<1> QED
  BY <1>2, <1>5 DEF ScanInv

LEMMA ScanRests ==
    ASSUME ScanInv, initrd' = initrd, data' = data, consumed' = consumed, frames' = frames,
           seen' = seen, last' = last, verdict' = verdict \/ verdict' = "reject"
    PROVE  ScanInv'
<1>1. PICK past, opened, rest : ScanAt(past, opened, rest)
  BY DEF ScanInv
<1>2. ScanAt(past, opened, rest)'
  BY <1>1 DEF ScanAt
<1>3. ScanOK'
  BY DEF ScanInv, ScanOK, Scan!Bounded
<1> QED
  BY <1>2, <1>3 DEF ScanInv

(* What the kinds say of a part.                                           *)
LEMMA FirstOfData ==
    ASSUME data \in Seq(Parts), data # <<>>
    PROVE  /\ Head(data) \in Parts /\ Head(data) = data[1] /\ Tail(data) \in Seq(Parts)
           /\ Len(Tail(data)) = Len(data) - 1 /\ Len(data) \in Nat \ {0}
           /\ Head(data).kind \in Scan!Kinds
           /\ Scan!Framed(Head(data)) <=> Head(data).kind \in {"stream", "zstd"}
<1>1. /\ Head(data) \in Parts /\ Head(data) = data[1] /\ Tail(data) \in Seq(Parts)
      /\ Len(Tail(data)) = Len(data) - 1 /\ Len(data) \in Nat \ {0}
  OBVIOUS
<1> QED
  BY <1>1, FramesAssumption DEF Scan!FramesHoldParts, Scan!Framed

(* The scan goes past a part that is no frame.                             *)
LEMMA PastStep ==
    ASSUME ScanInv, verdict = "none", data # <<>>, ~Scan!Framed(Head(data)),
           initrd' = initrd, data' = Tail(data), frames' = frames, verdict' = verdict,
           \/ /\ Head(data).kind = "pad" /\ seen' = seen /\ last' = last /\ consumed' = consumed
           \/ /\ Head(data).kind \in {"other", "trailer"} /\ seen' = seen /\ last' = Head(data).kind
              /\ consumed < Limit /\ consumed' = consumed + 1
           \/ /\ Head(data).kind = "file" /\ Scan!Allowed(Head(data)) /\ last' = "file"
              /\ seen' = seen \cup {Head(data).name} /\ consumed < Limit /\ consumed' = consumed + 1
    PROVE  ScanInv'
<1>1. PICK past, opened, rest : ScanAt(past, opened, rest)
  BY DEF ScanInv
<1>2. /\ initrd \in Seq(Parts) /\ data \in Seq(Parts) /\ consumed \in 0..Limit
      /\ frames \in 0..Frames /\ seen \subseteq Known /\ last \in Scan!Kinds \cup {"none"}
      /\ Scan!Bounded /\ Limit \in Nat /\ Frames \in Nat
  BY FramesAssumption DEF ScanInv, ScanOK, Scan!FramesHoldParts
<1>3. /\ Tail(data) \in Seq(Parts) /\ Len(Tail(data)) = Len(data) - 1 /\ Len(data) \in Nat \ {0}
  BY <1>2, FirstOfData
<1> DEFINE x == rest[1]
           past2 == past \cup {x}
<1>4. /\ Scanned(initrd, past2, opened, Tail(rest), Tail(data), frames)
      /\ x.part = Head(data) /\ x \notin past
  BY <1>1, <1>2, ScannedPast DEF ScanAt
<1> HIDE DEF x
<1>5. /\ seen = {y.part.name : y \in FilesOf(past)}
      /\ \A y \in FilesOf(past) : y.part.same
      /\ \A y, z \in FilesOf(past) : y.part.name = z.part.name => y = z
      /\ last = "trailer" => \E y \in past : y.part.kind = "trailer"
  BY <1>1 DEF ScanAt, Compared
<1>6. Compared(past2, seen', last')
  <2>1. CASE Head(data).kind # "file"
    <3>1. FilesOf(past2) = FilesOf(past)
      BY <1>4, <2>1 DEF FilesOf
    <3>2. seen' = seen
      BY <2>1
    <3>3. last' = "trailer" => \E y \in past2 : y.part.kind = "trailer"
      BY <1>4, <1>5, <2>1
    <3> HIDE DEF past2
    <3> QED
      BY <1>5, <3>1, <3>2, <3>3 DEF Compared
  <2>2. CASE Head(data).kind = "file"
    <3>1. FilesOf(past2) = FilesOf(past) \cup {x}
      BY <1>4, <2>2 DEF FilesOf
    <3>2. /\ x.part.name \notin seen /\ x.part.same /\ seen' = seen \cup {x.part.name}
          /\ last' = "file"
      BY <1>4, <2>2 DEF Scan!Allowed
    <3> HIDE DEF past2
    <3>3. \A y \in FilesOf(past) : y.part.name # x.part.name
      BY <1>5, <3>2
    <3>4. seen' = {y.part.name : y \in FilesOf(past2)}
      BY <1>5, <3>1, <3>2
    <3>5. \A y \in FilesOf(past2) : y.part.same
      BY <1>5, <3>1, <3>2
    <3>6. \A y, z \in FilesOf(past2) : y.part.name = z.part.name => y = z
      BY <1>5, <3>1, <3>3
    <3> QED
      BY <3>2, <3>4, <3>5, <3>6 DEF Compared
  <2> QED
    BY <2>1, <2>2
<1> HIDE DEF past2
<1>7. ScanAt(past2, opened, Tail(rest))'
  BY <1>4, <1>6 DEF ScanAt
<1>8. Scan!Bounded'
  <2>1. consumed' \in Nat /\ consumed' <= Limit /\ consumed' + (Len(data) - 1) <= consumed + Len(data)
    BY <1>2, <1>3
  <2>2. frames > 0 => consumed + Len(data) <= Limit
    BY <1>2 DEF Scan!Bounded
  <2>3. frames > 0 => consumed' + Len(data') <= Limit
    BY <1>2, <1>3, <2>1, <2>2
  <2> QED
    BY <2>1, <2>3 DEF Scan!Bounded
<1>9. ScanOK'
  <2>1. consumed' \in 0..Limit
    BY <1>2
  <2>2. seen' \subseteq Known
    BY <1>2 DEF Scan!Allowed
  <2>3. last' \in Scan!Kinds \cup {"none"}
    BY <1>2 DEF Scan!Kinds
  <2> QED
    BY <1>2, <1>3, <1>8, <2>1, <2>2, <2>3 DEF ScanOK
<1> QED
  BY <1>7, <1>9 DEF ScanInv

(* The scan opens a frame, or all of them.                                 *)
LEMMA OpenStep ==
    ASSUME ScanInv, verdict = "none", data # <<>>, Scan!Framed(Head(data)), frames < Frames,
           Head(data).kind = "zstd" => Scan!OnlyZstd(data), Scan!Fits(Scan!Expanded(data)),
           frames' = frames + 1, data' = Scan!Expanded(data),
           initrd' = initrd, consumed' = consumed, seen' = seen, last' = last, verdict' = verdict
    PROVE  ScanInv'
<1>1. PICK past, opened, rest : ScanAt(past, opened, rest)
  BY DEF ScanInv
<1>2. /\ initrd \in Seq(Parts) /\ data \in Seq(Parts) /\ consumed \in 0..Limit
      /\ frames \in 0..Frames /\ seen \subseteq Known /\ last \in Scan!Kinds \cup {"none"}
      /\ Limit \in Nat /\ Frames \in Nat /\ frames \in Nat
  BY FramesAssumption DEF ScanInv, ScanOK, Scan!FramesHoldParts
<1>3. Head(data) \in Parts /\ Head(data) = data[1] /\ Tail(data) \in Seq(Parts)
  BY <1>2, FirstOfData
<1>4. Scanned(initrd, past, opened, rest, data, frames)
  BY <1>1 DEF ScanAt
<1>5. data' \in Seq(Parts) /\ \E more, after : Scanned(initrd, past, more, after, data', frames + 1)
  <2>1. CASE Head(data).kind # "zstd"
    <3>1. Scan!Expanded(data) = data[1].body \o Tail(data)
      BY <1>3, <2>1 DEF Scan!Expanded
    <3>2. data[1].body \in Seq(Parts)
      BY <1>3, FramesAssumption DEF Scan!FramesHoldParts
    <3>3. data[1].body \o Tail(data) \in Seq(Parts)
      BY <1>3, <3>2, ConcatProperties
    <3>4. \E after : Scanned(initrd, past, opened \cup {rest[1]}, after,
                             data[1].body \o Tail(data), frames + 1)
      BY <1>2, <1>4, StreamOpens
    <3> QED
      BY <3>1, <3>3, <3>4
  <2>2. CASE Head(data).kind = "zstd"
    <3>1. Scan!Expanded(data) = FlattenSeq([i \in DOMAIN data |-> data[i].body])
      BY <1>3, <2>2, SameFlattening DEF Scan!Expanded
    <3>2. \A i \in DOMAIN data : Scan!Framed(data[i])
      BY <2>2 DEF Scan!OnlyZstd, Scan!Framed
    <3>3. /\ FlattenSeq([i \in DOMAIN data |-> data[i].body]) \in Seq(Parts)
          /\ \E after : Scanned(initrd, past, opened \cup Left(rest), after,
                                FlattenSeq([i \in DOMAIN data |-> data[i].body]), frames + 1)
      BY <1>2, <1>4, <3>2, ZstdOpens
    <3> QED
      BY <3>1, <3>3
  <2> QED
    BY <2>1, <2>2
<1>6. PICK more, after : Scanned(initrd, past, more, after, data', frames + 1)
  BY <1>5
<1>7. ScanAt(past, more, after)'
  BY <1>1, <1>6 DEF ScanAt
<1>8. Scan!Bounded'
  <2>1. Len(data') + consumed <= Limit /\ Len(data') \in Nat
    BY <1>5 DEF Scan!Fits
  <2> QED
    BY <1>2, <2>1 DEF Scan!Bounded
<1>9. ScanOK'
  <2>1. frames' \in 0..Frames
    BY <1>2
  <2> QED
    BY <1>2, <1>5, <1>8, <2>1 DEF ScanOK
<1> QED
  BY <1>7, <1>9 DEF ScanInv

LEMMA ScanSteps == ASSUME ScanInv, Scan!Next PROVE ScanInv'
<1>0. data \in Seq(Parts)
  BY DEF ScanInv, ScanOK
<1>1. CASE Scan!Pad
  <2>1. /\ verdict = "none" /\ data # <<>> /\ Head(data).kind = "pad" /\ data' = Tail(data)
        /\ initrd' = initrd /\ consumed' = consumed /\ frames' = frames /\ seen' = seen
        /\ last' = last /\ verdict' = verdict
    BY <1>1 DEF Scan!Pad, Scan!Here
  <2>2. ~Scan!Framed(Head(data))
    BY <2>1 DEF Scan!Framed
  <2> QED
    BY <2>1, <2>2, PastStep
<1>2. CASE Scan!Decompress
  <2>1. /\ verdict = "none" /\ data # <<>> /\ Head(data).kind \in {"stream", "zstd"}
    BY <1>2 DEF Scan!Decompress, Scan!Here
  <2>2. Scan!Framed(Head(data))
    BY <2>1 DEF Scan!Framed
  <2>3. CASE Scan!Reject
    BY <2>3, ScanRests DEF Scan!Reject
  <2>4. CASE ~Scan!Reject
    <3>1. /\ frames < Frames
          /\ Head(data).kind = "zstd" => Scan!OnlyZstd(data)
          /\ Scan!Fits(Scan!Expanded(data)) /\ frames' = frames + 1 /\ data' = Scan!Expanded(data)
          /\ initrd' = initrd /\ consumed' = consumed /\ seen' = seen /\ last' = last
          /\ verdict' = verdict
      BY <1>2, <2>1, <2>4 DEF Scan!Decompress, Scan!Here
    <3> QED
      BY <2>1, <2>2, <3>1, OpenStep
  <2> QED
    BY <2>3, <2>4
<1>3. CASE Scan!File
  <2>1. verdict = "none" /\ data # <<>> /\ Head(data).kind = "file"
    BY <1>3 DEF Scan!File, Scan!Here
  <2>2. ~Scan!Framed(Head(data))
    BY <2>1 DEF Scan!Framed
  <2>3. CASE Scan!Reject
    BY <2>3, ScanRests DEF Scan!Reject
  <2>4. CASE ~Scan!Reject
    <3>1. /\ Scan!Allowed(Head(data)) /\ seen' = seen \cup {Head(data).name} /\ consumed < Limit
          /\ consumed' = consumed + 1 /\ data' = Tail(data) /\ last' = "file"
          /\ initrd' = initrd /\ frames' = frames /\ verdict' = verdict
      BY <1>3, <2>1, <2>4 DEF Scan!File, Scan!Count
    <3> QED
      BY <2>1, <2>2, <3>1, PastStep
  <2> QED
    BY <2>3, <2>4
<1>4. CASE Scan!Entry
  <2>1. /\ verdict = "none" /\ data # <<>> /\ Head(data).kind \in {"other", "trailer"}
        /\ Scan!Count(Head(data)) /\ seen' = seen
    BY <1>4 DEF Scan!Entry, Scan!Here
  <2>2. ~Scan!Framed(Head(data))
    BY <2>1 DEF Scan!Framed
  <2>3. CASE Scan!Reject
    BY <2>3, ScanRests DEF Scan!Reject
  <2>4. CASE ~Scan!Reject
    <3>1. /\ consumed < Limit /\ consumed' = consumed + 1 /\ data' = Tail(data)
          /\ last' = Head(data).kind /\ initrd' = initrd /\ frames' = frames /\ verdict' = verdict
      BY <2>1, <2>4 DEF Scan!Count
    <3> QED
      BY <2>1, <2>2, <3>1, PastStep
  <2> QED
    BY <2>3, <2>4
<1>5. CASE Scan!Junk
  BY <1>5, ScanRests DEF Scan!Junk, Scan!Reject
<1>6. CASE Scan!End
  <2>1. /\ data = <<>> /\ verdict' = IF last = "trailer" THEN "accept" ELSE "reject"
        /\ initrd' = initrd /\ data' = data /\ consumed' = consumed /\ frames' = frames
        /\ seen' = seen /\ last' = last
    BY <1>6 DEF Scan!End
  <2>2. PICK past, opened, rest : ScanAt(past, opened, rest)
    BY DEF ScanInv
  <2>3. ScanAt(past, opened, rest)'
    BY <2>1, <2>2 DEF ScanAt
  <2>4. Scan!Bounded'
    BY <2>1, FramesAssumption DEF ScanInv, ScanOK, Scan!Bounded, Scan!FramesHoldParts
  <2>5. ScanOK'
    BY <2>1, <2>4 DEF ScanInv, ScanOK
  <2> QED
    BY <2>3, <2>5 DEF ScanInv
<1> QED
  BY <1>1, <1>2, <1>3, <1>4, <1>5, <1>6 DEF Scan!Next

LEMMA ScanSeesAll == ScanInv => Scan!TypeOK /\ Scan!NothingUnseen /\ Scan!Bounded
<1> SUFFICES ASSUME ScanInv PROVE Scan!TypeOK /\ Scan!NothingUnseen /\ Scan!Bounded
  OBVIOUS
<1>1. ScanOK /\ Frames \in Nat
  BY FramesAssumption DEF ScanInv, Scan!FramesHoldParts
<1>2. Scan!TypeOK
  <2>1. \A i \in DOMAIN data : data[i].kind \in Scan!Kinds
    <3>1. \A i \in DOMAIN data : data[i] \in Parts
      BY <1>1 DEF ScanOK
    <3> QED
      BY <3>1, FramesAssumption DEF Scan!FramesHoldParts
  <2> QED
    BY <1>1, <2>1 DEF ScanOK, Scan!TypeOK
<1>3. ASSUME verdict = "accept"
      PROVE  /\ Scan!Unpacked[Frames + 1] = {}
             /\ \A x \in Scan!Files : x.part.same
             /\ seen = {x.part.name : x \in Scan!Files}
             /\ \A x, y \in Scan!Files : x.part.name = y.part.name => x = y
             /\ \E x \in Scan!Everything : x.part.kind = "trailer"
  <2>1. data = <<>> /\ last = "trailer" /\ initrd \in Seq(Parts) /\ frames \in Nat /\ frames <= Frames
    BY <1>1, <1>3 DEF ScanOK
  <2>2. PICK past, opened, rest : ScanAt(past, opened, rest)
    BY DEF ScanInv
  <2>3. /\ past \subseteq Ever(initrd) /\ opened \subseteq Ever(initrd) /\ Len(rest) = Len(data)
        /\ \A x \in past : ~Scan!Framed(x.part)
        /\ \A x \in opened : Scan!Framed(x.part)
        /\ Scan!Standing(<<>>, initrd) \subseteq Met(past, opened, rest)
        /\ \A x \in opened : Scan!Within(x) \subseteq Met(past, opened, rest)
        /\ \A x \in Met(past, opened, rest) : Len(x.at) <= frames + 1
    BY <2>2 DEF ScanAt, Scanned, ScanTyped, Aligned, FramesApart, MetOnceOpened, NotDeeper
  <2>4. Met(past, opened, rest) = past \cup opened
    <3>1. Len(rest) = 0
      BY <2>1, <2>3
    <3>2. Left(rest) = {}
      BY <3>1 DEF Left
    <3> QED
      BY <3>2 DEF Met
  <2>5. past \cup opened = Ever(initrd)
    <3>1. Ever(initrd) \subseteq Items
      BY <2>1, EverHolds
    <3>2. \A x \in past : Scan!Within(x) = {}
      BY <2>3, <3>1, WithinAre
    <3> DEFINE S == past \cup opened
    <3>3. Holds(initrd, S)
      BY <2>3, <2>4, <3>2 DEF Holds
    <3>4. S \in SUBSET Items
      BY <2>3, <3>1
    <3> HIDE DEF S
    <3>5. Ever(initrd) \subseteq S
      BY <3>3, <3>4, EverLeast
    <3> QED
      BY <2>3, <3>5 DEF S
  <2>6. ASSUME NEW x \in Ever(initrd) PROVE Len(x.at) \in Nat /\ Len(x.at) <= Frames + 1
    <3>1. x \in Items
      BY <2>1, EverHolds
    <3>2. x.at \in Seq(Nat)
      BY <3>1 DEF Items
    <3>3. Len(x.at) \in Nat /\ Len(x.at) <= frames + 1
      BY <2>3, <2>4, <2>5, <3>2
    <3> QED
      BY <1>1, <2>1, <3>3
  <2>7. Scan!Everything = past \cup opened
    BY <2>1, <2>5, <2>6, EverythingIs
  <2>8. Scan!Unpacked[Frames + 1] = {}
    <3>1. \A x \in Ever(initrd) : Len(x.at) # Frames + 2
      BY <1>1, <2>6
    <3> QED
      BY <2>1, <3>1, EverythingIs
  <2>9. Scan!Files = FilesOf(past)
    <3>1. \A x \in opened : x.part.kind # "file"
      BY <2>3 DEF Scan!Framed
    <3> QED
      BY <2>7, <3>1 DEF Scan!Files, FilesOf
  <2>10. Compared(past, seen, "trailer")
    BY <2>1, <2>2 DEF ScanAt
  <2> QED
    BY <2>7, <2>8, <2>9, <2>10 DEF Compared
<1>4. Scan!NothingUnseen
  BY <1>3 DEF Scan!NothingUnseen
<1> QED
  BY <1>1, <1>2, <1>4 DEF ScanOK

LEMMA ScansHold == AuditSpec => [](part = "initrd" => ScanInv)
<1> DEFINE I == part = "initrd" => ScanInv
<1>1. AuditInit => I
  BY ScanStarts DEF AuditInit
<1>2. I /\ [AuditNext]_allVars => I'
  <2> SUFFICES ASSUME I, [AuditNext]_allVars, part' = "initrd" PROVE ScanInv'
    OBVIOUS
  <2>1. CASE AuditNext
    BY <2>1, ScanSteps DEF AuditNext
  <2>2. CASE UNCHANGED allVars
    <3>1. /\ part' = part /\ verdict' = verdict /\ initrd' = initrd /\ data' = data
          /\ consumed' = consumed /\ frames' = frames /\ seen' = seen /\ last' = last
      BY <2>2 DEF allVars, scanVars
    <3> QED
      BY <3>1, ScanRests
  <2> QED
    BY <2>1, <2>2
<1> QED
  BY <1>1, <1>2, PTL DEF AuditSpec

(* Nothing reaches the kernel unseen: in an accepted initrd each module    *)
(* and each PHY firmware, at any depth of frames in frames, was compared   *)
(* with the root's and is there once, no frame is left that was not        *)
(* opened, and the audit never unpacks more than its limit.                *)
THEOREM AllIsCompared == AuditSpec => []NothingUnseen
<1>1. (part = "initrd" => ScanInv) => NothingUnseen
  BY ScanSeesAll DEF NothingUnseen
<1> QED
  BY <1>1, ScansHold, PTL

-----------------------------------------------------------------------------
(* The walks go on.                                                        *)

LEMMA OnPath ==
    ASSUME NEW frames_ \in Seq(FrameOf)
    PROVE  {frames_[i].module : i \in DOMAIN frames_}
             = {frames_[i].module : i \in 1..Len(frames_)}
OBVIOUS

LEMMA BeginGoesOn == ASSUME ModuleInv, Begin PROVE StrictlyWithin(roots', roots)
<1> DEFINE m == Min(roots)
<1>1. roots # {} /\ roots' = roots \ {m} /\ roots \in SUBSET Nat
  BY ModulesAssumption DEF Begin, ModuleInv, ModuleTyped
<1>2. m \in roots
  BY <1>1, LeastIsOneOfThem
<1> HIDE DEF m
<1> QED
  BY <1>1, <1>2 DEF StrictlyWithin

LEMMA VisitGoesOn ==
    ASSUME ModuleInv, Visit, pc' = "walk"
    PROVE  /\ roots' = roots
           /\ \/ StrictlyWithin(Unfound', Unfound)
              \/ /\ Unfound' = Unfound /\ Len(active') = Len(active)
                 /\ StrictlyWithin(Last(active').todo, Last(active).todo)
<1> DEFINE n == Len(active)
<1>1. roots' = roots /\ visited' = visited /\ active # <<>>
  BY DEF Visit
<1>2. /\ n \in Nat \ {0} /\ Last(active) = active[n] /\ active \in Seq(FrameOf)
      /\ tree.dep \in [Modules -> SUBSET Modules] /\ active[n] \in FrameOf
  BY <1>1, FramesOf
<1>3. Path = {active[i].module : i \in 1..n}
  BY <1>2, OnPath DEF Path
<1>4. \/ /\ active' \in Seq(FrameOf) /\ Len(active') = n
         /\ \A i \in 1..n : active'[i].module = active[i].module
         /\ StrictlyWithin(active'[n].todo, active[n].todo)
      \/ /\ active' \in Seq(FrameOf) /\ Len(active') = n + 1
         /\ \A i \in 1..n : active'[i].module = active[i].module
         /\ active'[n + 1].module \in tree.dep[active[n].module]
         /\ active'[n + 1].module \notin visited \cup Path
  BY VisitFrames
<1>5. active' \in Seq(FrameOf) => Path' = {active'[i].module : i \in 1..Len(active')}
  <2> SUFFICES ASSUME active' \in Seq(FrameOf)
               PROVE  {active'[i].module : i \in DOMAIN active'}
                        = {active'[i].module : i \in 1..Len(active')}
    BY DEF Path
  <2> QED
    BY OnPath
<1> HIDE DEF n
<1>6. CASE /\ active' \in Seq(FrameOf) /\ Len(active') = n
           /\ \A i \in 1..n : active'[i].module = active[i].module
           /\ StrictlyWithin(active'[n].todo, active[n].todo)
  <2>1. Path' = Path
    BY <1>3, <1>5, <1>6
  <2>2. Unfound' = Unfound
    BY <1>1, <2>1 DEF Unfound
  <2>3. Last(active') = active'[n]
    BY <1>6 DEF Last
  <2> QED
    BY <1>1, <1>2, <1>6, <2>2, <2>3 DEF n
<1>7. CASE /\ active' \in Seq(FrameOf) /\ Len(active') = n + 1
           /\ \A i \in 1..n : active'[i].module = active[i].module
           /\ active'[n + 1].module \in tree.dep[active[n].module]
           /\ active'[n + 1].module \notin visited \cup Path
  <2>1. \A i \in 1..(n + 1) : i \in 1..n \/ i = n + 1
    BY <1>2
  <2>2. 1..n \subseteq 1..(n + 1) /\ n + 1 \in 1..(n + 1)
    BY <1>2
  <2>3. Path \subseteq Path'
    BY <1>3, <1>5, <1>7, <2>2
  <2>4. active'[n + 1].module \in Path'
    BY <1>5, <1>7, <2>2
  <2>5. active'[n + 1].module \in Modules
    BY <1>2, <1>7 DEF FrameOf
  <2>6. active'[n + 1].module \in Unfound \ Unfound' /\ Unfound' \subseteq Unfound
    BY <1>1, <1>7, <2>3, <2>4, <2>5 DEF Unfound
  <2> QED
    BY <1>1, <2>6 DEF StrictlyWithin
<1> QED
  BY <1>4, <1>6, <1>7

LEMMA ReturnGoesOn ==
    ASSUME ModuleInv, Return
    PROVE  roots' = roots /\ Unfound' = Unfound /\ Len(active') < Len(active)
<1> DEFINE n == Len(active)
<1>1. /\ roots' = roots /\ active # <<>> /\ active' = Front(active)
      /\ visited' = visited \cup {Last(active).module}
  BY DEF Return
<1>2. n \in Nat \ {0} /\ Last(active) = active[n] /\ active \in Seq(FrameOf)
  BY <1>1, FramesOf
<1>3. /\ active' \in Seq(FrameOf) /\ Len(active') = n - 1
      /\ \A i \in 1..(n - 1) : active'[i] = active[i]
  BY <1>1, <1>2, TopOf
<1>4. Path = {active[i].module : i \in 1..n}
  BY <1>2, OnPath DEF Path
<1>5. Path' = {active'[i].module : i \in 1..(n - 1)}
  <2> HIDE DEF n
  <2> SUFFICES {active'[i].module : i \in DOMAIN active'}
                 = {active'[i].module : i \in 1..(n - 1)}
    BY DEF Path
  <2> QED
    BY <1>3, OnPath
<1> HIDE DEF n
<1>6. Path = Path' \cup {active[n].module}
  <2>1. \A i \in 1..n : i \in 1..(n - 1) \/ i = n
    BY <1>2
  <2>2. 1..(n - 1) \subseteq 1..n /\ n \in 1..n
    BY <1>2
  <2>3. Path \subseteq Path' \cup {active[n].module}
    BY <1>3, <1>4, <1>5, <2>1
  <2>4. Path' \subseteq Path /\ active[n].module \in Path
    BY <1>3, <1>4, <1>5, <2>2
  <2> QED
    BY <2>3, <2>4
<1>7. visited' \cup Path' = visited \cup Path
  BY <1>1, <1>2, <1>6
<1>8. Unfound' = Unfound
  BY <1>7 DEF Unfound
<1> QED
  BY <1>1, <1>2, <1>3, <1>8 DEF n

LEMMA WalkStepGoesOn == ASSUME ModuleInv, Next PROVE WalkGoesOn
<1> SUFFICES ASSUME pc = "walk", pc' = "walk"
             PROVE  \/ StrictlyWithin(roots', roots)
                    \/ /\ roots' = roots
                       /\ \/ StrictlyWithin(Unfound', Unfound)
                          \/ Unfound' = Unfound /\ Len(active') < Len(active)
                          \/ /\ Unfound' = Unfound /\ Len(active') = Len(active)
                             /\ StrictlyWithin(Last(active').todo, Last(active).todo)
  BY DEF WalkGoesOn
<1>1. Begin \/ Visit \/ Return
  BY DEF Next, Lines, Select, Selected, Walked
<1> QED
  BY <1>1, BeginGoesOn, VisitGoesOn, ReturnGoesOn

LEMMA LookupStepGoesOn == ASSUME PathInv, Resolve!Next PROVE Resolve!LookupGoesOn
<1> SUFFICES ASSUME verdict' = "none"
             PROVE  \/ hops < hops' /\ hops' <= MaxHops
                    \/ hops' = hops /\ Len(pending') < Len(pending)
  BY DEF Resolve!LookupGoesOn
<1>1. pending \in Seq(Resolve!Steps) /\ hops \in 0..MaxHops /\ MaxHops \in Nat
  BY LinksAssumption DEF PathInv, PathTyped, Resolve!LinksAreSteps
<1>2. CASE pending # <<>> /\ pending' = Tail(pending) /\ hops' = hops
  BY <1>1, <1>2
<1>3. CASE hops # MaxHops /\ hops' = hops + 1
  BY <1>1, <1>3
<1> QED
  BY <1>2, <1>3 DEF Resolve!Next, Resolve!Skip, Resolve!Up, Resolve!Follow, Resolve!Enter,
     Resolve!Finish, Resolve!Resolving

LEMMA ScanStepGoesOn == ASSUME ScanInv, Scan!Next PROVE Scan!ScanGoesOn
<1> SUFFICES ASSUME verdict' = "none"
             PROVE  \/ frames < frames' /\ frames' <= Frames
                    \/ frames' = frames /\ Len(data') < Len(data)
  BY DEF Scan!ScanGoesOn
<1>1. data \in Seq(Parts) /\ frames \in 0..Frames /\ Frames \in Nat
  BY FramesAssumption DEF ScanInv, ScanOK, Scan!FramesHoldParts
<1>2. CASE data # <<>> /\ data' = Tail(data) /\ frames' = frames
  BY <1>1, <1>2, FirstOfData
<1>3. CASE frames < Frames /\ frames' = frames + 1
  BY <1>1, <1>3
<1>4. CASE Scan!Decompress
  BY <1>3, <1>4 DEF Scan!Decompress, Scan!Reject
<1>5. CASE Scan!Pad \/ Scan!File \/ Scan!Entry
  BY <1>2, <1>5 DEF Scan!Pad, Scan!File, Scan!Entry, Scan!Count, Scan!Reject, Scan!Here
<1> QED
  BY <1>4, <1>5 DEF Scan!Next, Scan!Junk, Scan!End, Scan!Reject

(* The audit does not go round, whatever the firmware holds: each step of  *)
(* the walk over modules.dep, of the resolving of a path and of the scan   *)
(* of an initrd leaves less to do than there was, in an order that has no  *)
(* endless descent, so that with the steps that are taken it ends          *)
(* (module_closure, rooted, audit_initrd_modules).                         *)
THEOREM WalksEnd == AuditSpec => WalksGoOn
<1> DEFINE I == /\ part = "modules" => ModuleInv /\ Chained
                /\ part = "initrd" => ScanInv
                /\ ReadersOK
           A == /\ part = "modules" => WalkGoesOn
                /\ part = "path" => Resolve!LookupGoesOn
                /\ part = "initrd" => Scan!ScanGoesOn
<1>1. I /\ [AuditNext]_allVars => [A]_allVars
  <2> SUFFICES ASSUME I, AuditNext PROVE A
    OBVIOUS
  <2>1. CASE part = "modules"
    BY <2>1, WalkStepGoesOn DEF AuditNext
  <2>2. CASE part = "path"
    BY <2>2, LookupStepGoesOn DEF AuditNext, ReadersOK
  <2>3. CASE part = "initrd"
    BY <2>3, ScanStepGoesOn DEF AuditNext
  <2> QED
    BY <2>1, <2>2, <2>3
<1>2. AuditSpec => []I
  BY ModulesHold, ScansHold, ReadersHold, PTL
<1> QED
  BY <1>1, <1>2, PTL DEF AuditSpec, WalksGoOn
=============================================================================
