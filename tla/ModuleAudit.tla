---------------------------- MODULE ModuleAudit -----------------------------
(***************************************************************************)
(* The audit of kernel modules in scripts/factory_firmware.py, for a root  *)
(* filesystem and the initrd in the FIT: audit_modules, with the walk of   *)
(* module_closure, then the initrd, the softdeps and kmod's own indexes.   *)
(***************************************************************************)
EXTENDS Naturals, Sequences, SequencesExt, FiniteSetsExt

CONSTANTS
    Modules,  \* numbers, in the order sorted gives their paths
    Builtins,
    Required, \* the PHY driver and its library
    Trees     \* the root filesystems audited

(* installed: modules with an ELF of this release;                         *)
(* lines: those with a line in modules.dep; dep: what the line names;      *)
(* needs: depends= of the module itself;                                   *)
(* initrd: modules in the initrd, each the same bytes as in the root;      *)
(* soft: the softdep declarations, in order: owners the pattern matches,   *)
(*   and what the requested alias stands for;                              *)
(* index: what kmod finds in modules.dep.bin; aliasIndex: for each         *)
(*   declaration, in modules.alias.bin.                                    *)
ASSUME ModulesAssumption == Modules \subseteq Nat /\ Required \subseteq Modules
ASSUME TreesAssumption ==
    \A t \in Trees :
        /\ t.installed \subseteq Modules /\ t.lines \subseteq Modules
        /\ t.initrd \subseteq Modules
        /\ t.dep \in [Modules -> SUBSET Modules] /\ t.index \in [Modules -> SUBSET Modules]
        /\ t.needs \in [Modules -> SUBSET (Modules \cup Builtins)]
        /\ Len(t.soft) \in Nat /\ DOMAIN t.soft = 1..Len(t.soft)
        /\ Len(t.aliasIndex) = Len(t.soft)

VARIABLES
    tree,
    roots,    \* modules whose closure has not been walked yet
    start,    \* the one that is being walked
    active,   \* the recursion: modules, each with dependencies to visit
    visited,
    closures, \* the result of each walk
    selected, records, \* softdeps: owners with a declaration; for each, whom
                       \* it is in force for
    pc, verdict

walk == <<start, active, visited>>
vars == <<tree, roots, walk, closures, selected, records, pc, verdict>>

None == {}

-----------------------------------------------------------------------------
(* modules.dep has a line for each installed module, and names no other.   *)
LinesCover(t) ==
    t.lines = t.installed /\ \A m \in t.lines : t.dep[m] \subseteq t.installed

(* Mutant: needs is compared with what is installed. *)
NeedsInstalled(t) == \A m \in t.installed : t.needs[m] \subseteq Builtins \cup t.installed

(* What a module says it needs is built in, or in its line. *)
NeedsInLines(t) ==
    \A m \in t.installed : t.needs[m] \subseteq Builtins \cup (t.dep[m] \cap t.installed)

(* audit_initrd_listing, audit_initrd_modules *)
InitrdClosed(t) == t.initrd \subseteq t.installed /\ \A m \in t.initrd : t.dep[m] \subseteq t.initrd

(* A dangling alias: its target is not there. *)
Dangling(t, i) == ~(t.soft[i].targets \subseteq t.installed \cup Builtins)

Reject == pc' = "done" /\ verdict' = "reject"

Lines ==
    /\ pc = "lines"
    /\ IF LinesCover(tree) /\ NeedsInLines(tree) THEN pc' = "soft" /\ UNCHANGED verdict ELSE Reject
    /\ UNCHANGED <<tree, roots, walk, closures, selected, records>>

(* Mutant: each declaration is in force for all it matches. *)
SelectAll ==
    LET i == Len(records) + 1 IN
    /\ pc = "soft" /\ i <= Len(tree.soft)
    /\ records' = Append(records, tree.soft[i].owners \cap (tree.installed \cup Builtins))
    /\ selected' = selected \cup tree.soft[i].owners
    /\ IF Dangling(tree, i) THEN Reject ELSE UNCHANGED <<pc, verdict>>
    /\ UNCHANGED <<tree, roots, walk, closures>>

(* audit_softdeps: one declaration. *)
Select ==
    LET i == Len(records) + 1
        owners == (tree.soft[i].owners \cap (tree.installed \cup Builtins)) \ selected IN
    /\ pc = "soft" /\ i <= Len(tree.soft)
    /\ records' = Append(records, owners)
    /\ selected' = selected \cup owners
    /\ IF Dangling(tree, i) THEN Reject ELSE UNCHANGED <<pc, verdict>>
    /\ UNCHANGED <<tree, roots, walk, closures>>

Selected ==
    /\ pc = "soft" /\ Len(records) = Len(tree.soft)
    /\ IF Required \subseteq tree.installed THEN pc' = "walk" /\ UNCHANGED verdict ELSE Reject
    /\ UNCHANGED <<tree, roots, walk, closures, selected, records>>

-----------------------------------------------------------------------------
Path == {active[i].module : i \in DOMAIN active}

Frame(m) == [module |-> m, todo |-> tree.dep[m]]

Begin ==
    /\ pc = "walk" /\ active = <<>> /\ roots # {}
    /\ start' = Min(roots) /\ roots' = roots \ {Min(roots)}
    /\ active' = <<Frame(Min(roots))>> /\ visited' = {}
    /\ UNCHANGED <<tree, closures, selected, records, pc, verdict>>

(* Mutant: a module that was seen before makes a cycle. *)
CycleOrVisited(m) == m \in Path \cup visited

Cycle(m) == m \in Path

(* visit(dependency) *)
Visit ==
    LET top == Last(active)
        m == Min(top.todo)
        rest == Append(Front(active), [top EXCEPT !.todo = @ \ {m}]) IN
    /\ pc = "walk" /\ active # <<>> /\ top.todo # {}
    /\ \/ Cycle(m) /\ Reject /\ UNCHANGED active
       \/ ~Cycle(m) /\ m \in visited /\ active' = rest /\ UNCHANGED <<pc, verdict>>
       \/ ~Cycle(m) /\ m \notin visited /\ active' = Append(rest, Frame(m))
            /\ UNCHANGED <<pc, verdict>>
    /\ UNCHANGED <<tree, roots, start, visited, closures, selected, records>>

(* Mutant: only the modules on the way are kept. *)
ReturnPath ==
    LET m == Last(active).module IN
    /\ pc = "walk" /\ active # <<>> /\ Last(active).todo = {}
    /\ active' = Front(active) /\ visited' = visited \cup {m}
    /\ closures' = IF Len(active) = 1 THEN [closures EXCEPT ![start] = tree.dep[m] \cup {m}]
                                      ELSE closures
    /\ UNCHANGED <<tree, roots, start, selected, records, pc, verdict>>

Return ==
    LET m == Last(active).module IN
    /\ pc = "walk" /\ active # <<>> /\ Last(active).todo = {}
    /\ active' = Front(active) /\ visited' = visited \cup {m}
    /\ closures' = IF Len(active) = 1 THEN [closures EXCEPT ![start] = visited \cup {m}]
                                      ELSE closures
    /\ UNCHANGED <<tree, roots, start, selected, records, pc, verdict>>

(* verify_module_indexes: kmod is asked for the required modules only, in  *)
(* a view without modules.softdep, and for every softdep request.          *)
IndexAgrees(t) ==
    /\ \A m \in Required : t.index[m] = closures[m]
    /\ \A i \in DOMAIN t.soft : t.aliasIndex[i] = t.soft[i].targets

Walked ==
    /\ pc = "walk" /\ active = <<>> /\ roots = {}
    /\ pc' = "done"
    /\ verdict' = IF InitrdClosed(tree) /\ IndexAgrees(tree) THEN "accept" ELSE "reject"
    /\ UNCHANGED <<tree, roots, walk, closures, selected, records>>

Init ==
    /\ tree \in Trees
    /\ roots = tree.installed /\ start = 0 /\ active = <<>> /\ visited = {}
    /\ closures = [m \in Modules |-> None]
    /\ selected = {} /\ records = <<>>
    /\ pc = "lines" /\ verdict = "none"

Next == Lines \/ Select \/ Selected \/ Begin \/ Visit \/ Return \/ Walked

Spec == Init /\ [][Next]_vars /\ WF_vars(Next)

-----------------------------------------------------------------------------
TypeOK ==
    /\ roots \subseteq Modules /\ start \in Modules \cup {0}
    /\ \A i \in DOMAIN active : active[i].todo \subseteq tree.dep[active[i].module]
    /\ IsInjective([i \in DOMAIN active |-> active[i].module])
    /\ visited \subseteq Modules /\ closures \in [Modules -> SUBSET Modules]
    /\ Len(records) <= Len(tree.soft)
    /\ pc \in {"lines", "soft", "walk", "done"} /\ verdict \in {"none", "accept", "reject"}

(* What can be reached from m, by definition: the least set that has m and *)
(* is closed under edges.                                                  *)
Reach(edges, m) ==
    LET Closed(S) == m \in S /\ \A x \in S : edges[x] \cap Modules \subseteq S
    IN {x \in Modules : \A S \in SUBSET Modules : Closed(S) => x \in S}

(* What a module needs and is not in the kernel itself. *)
Needed(t) == [m \in Modules |-> t.needs[m] \ Builtins]

Acyclic(t) == \A m \in t.installed : \A d \in t.dep[m] : m \notin Reach(t.dep, d)

(* Every closure that was walked is what can be reached: diamonds are      *)
(* neither lost nor taken for cycles (module_closure, 554-566).            *)
ClosuresAreReach ==
    /\ \A m \in Modules : closures[m] # None => closures[m] = Reach(tree.dep, m)
    /\ pc = "walk" /\ active = <<>> /\ roots = {} => Acyclic(tree)

(* In an accepted firmware the kernel can load every module of the initrd  *)
(* and modprobe the PHY: all that a module needs, and that those need, is  *)
(* there and in kmod's answer, and not in a circle.                        *)
AcceptedCanLoad ==
    verdict = "accept" =>
        /\ \A m \in tree.initrd : Reach(Needed(tree), m) \subseteq tree.initrd
        /\ \A m \in Required : Reach(Needed(tree), m) \subseteq tree.index[m]
        /\ \A m \in tree.installed : \A d \in Needed(tree)[m] : m \notin Reach(Needed(tree), d)

(* Of the declarations that match a module the first is in force for it,   *)
(* as in kmod.                                                             *)
FirstDeclarationCounts ==
    \A m \in selected :
        {i \in DOMAIN records : m \in records[i]} =
            {Min({i \in DOMAIN records : m \in tree.soft[i].owners})}

(* A firmware that depmod and update-initramfs have made is accepted, with *)
(* softdeps in a circle, on modules that are not there, or declared twice. *)
Sound(t) ==
    /\ t.lines = t.installed /\ Required \subseteq t.installed
    /\ Acyclic(t)
    /\ \A m \in t.installed :
         /\ m \notin t.needs[m]
         /\ t.dep[m] = Reach(Needed(t), m) \ {m} /\ t.index[m] = Reach(t.dep, m)
    /\ \A m \in t.installed : t.dep[m] \subseteq t.installed
    /\ \A m \in t.initrd : Reach(Needed(t), m) \subseteq t.initrd
    /\ t.initrd \subseteq t.installed
    /\ \A i \in DOMAIN t.soft : ~Dangling(t, i) /\ t.aliasIndex[i] = t.soft[i].targets

SoundIsAccepted == Sound(tree) ~> verdict = "accept"

(* No check refuses it, at no point of the walk (lines 310-336, 554-614).  *)
SoundIsNotRefused == Sound(tree) => verdict # "reject"

(* And the walk does not go round: each step finds a module for the first  *)
(* time, or leaves one with nothing found, or does one dependency, or      *)
(* takes the next root (lines 555-566).                                    *)
Unfound == Modules \ (visited \cup Path)

StrictlyWithin(S, T) == S \subseteq T /\ S # T

WalkGoesOn ==
    pc = "walk" /\ pc' = "walk" =>
        \/ StrictlyWithin(roots', roots)
        \/ /\ roots' = roots
           /\ \/ StrictlyWithin(Unfound', Unfound)
              \/ Unfound' = Unfound /\ Len(active') < Len(active)
              \/ /\ Unfound' = Unfound /\ Len(active') = Len(active)
                 /\ StrictlyWithin(Last(active').todo, Last(active).todo)
=============================================================================
