------------------------ MODULE DisplayConfigProofs ------------------------
(***************************************************************************)
(* Proofs about DisplayConfig, for any number of processes, any changes    *)
(* and any contents of the file: the inductive invariant is Core.  It says *)
(* what the lock protects: the process between its load and its apply      *)
(* works with a configuration that is one change away from the file.       *)
(***************************************************************************)
EXTENDS DisplayConfig, TLAPS

(* Who is inside the critical section holds the lock. *)
Exclusive(p) ==
    /\ pc[p] \in Locked => lock = p
    /\ pc[p] = "apply" /\ (change[p] # None \/ DirShipped) => lock = p
    /\ lock = p => pc[p] \in Locked \cup {"apply"}

(* A setter works with the file's configuration and its own change. *)
Fresh(p) ==
    pc[p] \in {"write", "sync", "replace"} =>
        /\ change[p] \in Changes
        /\ Loaded(file) # Invalid
        /\ config[p] = Updated(Loaded(file), change[p])

(* What is renamed is on the disk, and what is applied was saved. *)
Saved(p) ==
    /\ pc[p] \in {"replace", "syncdir"} => synced[p]
    /\ pc[p] = "syncdir" => file = config[p]
    /\ pc[p] = "apply" /\ lock = p => Loaded(file) = config[p]
    /\ pc[p] = "apply" /\ change[p] # None => survivors = {file}

Disk == Torn \notin survivors /\ file \in survivors /\ (DirShipped => dir)

Core ==
    /\ TypeOK
    /\ Disk
    /\ \A p \in Procs : Exclusive(p) /\ Fresh(p) /\ Saved(p)

USE ProcsAssumption, DirAssumption

(* A valid configuration is loaded as it was saved: the rewriting of old   *)
(* files (_validate_config) leaves it alone.                               *)
LEMMA LoadedConfig ==
    ASSUME NEW c \in Config
    PROVE  Loaded(c) = c /\ c # Invalid
<1>1. c \notin {Absent, Torn, Invalid}
  BY ContentsAssumption
<1>2. "theme" \in DOMAIN c /\ c.theme \notin DOMAIN LegacyTheme
  BY ThemesAssumption DEF Config
<1> QED
  BY <1>1, <1>2 DEF Loaded, Validated

(* The defaults are a valid configuration. *)
LEMMA DefaultType == DefaultConfig \in Config
BY ThemesAssumption DEF DefaultConfig, Config

(* Whatever the file holds, loading it gives a configuration or an error. *)
LEMMA LoadedType ==
    ASSUME NEW c \in Content
    PROVE  Loaded(c) \in Config \cup {Invalid}
<1>1. CASE c \in Config
  BY <1>1, LoadedConfig
<1>2. CASE c \in Contents
  BY <1>2, ContentsAssumption
<1>3. CASE c = Absent
  BY <1>3, DefaultType DEF Loaded
<1>4. CASE c \in {Torn, Invalid}
  BY <1>4, ContentsAssumption DEF Loaded, Validated
<1> QED
  BY <1>1, <1>2, <1>3, <1>4 DEF Content

(* The raw value of every valid configuration is one the device accepts,   *)
(* and a configuration that is off is dark: raw zero never means off       *)
(* (_apply_config, 593-594).                                               *)
THEOREM AppliedRawRange ==
    ASSUME NEW c \in Config
    PROVE  /\ AppliedRaw(c) \in 0..MaxRaw
           /\ ~c.enabled => AppliedRaw(c) = Dark
<1>1. c.enabled \in BOOLEAN /\ c.brightness_percent \in 0..100
  BY DEF Config
<1>2. \A n \in 0..100 : RawBrightness(n) \in 0..MaxRaw
  BY DEF RawBrightness, MaxRaw
<1>3. RawBrightness(0) = Dark
  BY DEF RawBrightness, MaxRaw, Dark
<1> QED
  BY <1>1, <1>2, <1>3 DEF AppliedRaw

(* More percent is never darker, and no two steps of _raw_brightness skip  *)
(* more than one raw level.                                                *)
THEOREM RawBrightnessMonotone ==
    \A n \in 0..99 : /\ RawBrightness(n + 1) <= RawBrightness(n)
                     /\ RawBrightness(n) <= RawBrightness(n + 1) + 1
BY DEF RawBrightness, MaxRaw

-----------------------------------------------------------------------------
LEMMA InitCore == Init => Core
<1> SUFFICES ASSUME Init PROVE Core
  OBVIOUS
<1>1. Absent \in Content /\ Contents \subseteq Content
  BY DEF Content
<1>2. Torn \notin Contents \cup {Absent}
  BY ContentsAssumption
<1>3. Dark \in 0..MaxRaw
  BY DEF Dark, MaxRaw
<1>4. TypeOK
  BY <1>1, <1>3, DefaultType DEF Init, TypeOK, Steps
<1>5. Disk
  BY <1>2 DEF Init, Disk
<1>6. \A p \in Procs : Exclusive(p) /\ Fresh(p) /\ Saved(p)
  BY DEF Init, Exclusive, Fresh, Saved, Locked
<1> QED
  BY <1>4, <1>5, <1>6 DEF Core

(* The end of a command keeps the types of what belongs to it. *)
LEMMA LeaveType ==
    ASSUME TypeOK, NEW p \in Procs, Leave(p)
    PROVE  /\ lock' \in Procs \cup {None}
           /\ pc' \in [Procs -> Steps]
           /\ change' \in [Procs -> Changes \cup {None}]
           /\ config' \in [Procs -> Config]
           /\ synced' \in [Procs -> BOOLEAN]
BY DefaultType DEF Leave, Forget, Goto, TypeOK, Steps

(* The end of a command disturbs nobody else: the others keep the lock if  *)
(* they have it.                                                           *)
LEMMA LeaveCore ==
    ASSUME Core, NEW p \in Procs, Leave(p), UNCHANGED <<file, survivors>>
    PROVE  \A q \in Procs : (Exclusive(q) /\ Fresh(q) /\ Saved(q))'
<1> SUFFICES ASSUME NEW q \in Procs PROVE (Exclusive(q) /\ Fresh(q) /\ Saved(q))'
  OBVIOUS
<1> USE DEF Leave, Forget, Goto, Locked
<1>t. TypeOK /\ Exclusive(q) /\ Fresh(q) /\ Saved(q)
  BY DEF Core
<1>1. CASE q = p
  <2>1. pc'[q] = "idle" /\ lock' # q
    BY <1>1, <1>t DEF TypeOK
  <2> QED
    BY <2>1 DEF Exclusive, Fresh, Saved
<1>2. CASE q # p
  <2>1. pc'[q] = pc[q] /\ change'[q] = change[q] /\ config'[q] = config[q]
        /\ synced'[q] = synced[q] /\ (lock' = q <=> lock = q)
    BY <1>2, <1>t DEF TypeOK
  <2>2. Loaded(file)' = Loaded(file)
    BY DEF Loaded, Validated
  <2> QED
    BY <1>t, <2>1, <2>2 DEF Exclusive, Fresh, Saved
<1> QED
  BY <1>1, <1>2

LEMMA BeginCore ==
    ASSUME Core, NEW p \in Procs, Begin(p)
    PROVE  Core'
<1>t. TypeOK
  BY DEF Core
<1>1. TypeOK'
  BY <1>t DEF TypeOK, Begin, Goto, Steps
<1>2. Disk'
  BY DEF Core, Disk, Begin
<1>l. Loaded(file)' = Loaded(file)
  BY DEF Loaded, Validated, Begin
<1>3. ASSUME NEW q \in Procs PROVE (Exclusive(q) /\ Fresh(q) /\ Saved(q))'
  <2>1. CASE q = p
    <3>1. pc'[q] = "open" /\ lock' # q
      BY <1>t, <2>1 DEF Core, Exclusive, Locked, TypeOK, Begin, Goto
    <3> QED
      BY <3>1 DEF Exclusive, Fresh, Saved, Locked
  <2>2. CASE q # p
    <3>1. pc'[q] = pc[q] /\ change'[q] = change[q] /\ UNCHANGED <<file, survivors, lock, config, synced>>
      BY <1>t, <2>2 DEF TypeOK, Begin, Goto
    <3> QED
      BY <3>1, <1>l DEF Core, Exclusive, Fresh, Saved
  <2> QED
    BY <2>1, <2>2
<1> QED
  BY <1>1, <1>2, <1>3 DEF Core

LEMMA LockCore ==
    ASSUME Core, NEW p \in Procs, Lock(p)
    PROVE  Core'
<1>t. TypeOK
  BY DEF Core
<1>1. TypeOK'
  BY <1>t DEF TypeOK, Lock, Goto, Steps
<1>2. Disk'
  BY DEF Core, Disk, Lock
<1>l. Loaded(file)' = Loaded(file)
  BY DEF Loaded, Validated, Lock
<1>3. ASSUME NEW q \in Procs PROVE (Exclusive(q) /\ Fresh(q) /\ Saved(q))'
  <2>1. CASE q = p
    <3>1. pc'[q] # pc[q] /\ change'[q] = change[q]
      BY <1>t, <2>1 DEF TypeOK, Lock, Goto
    <3> QED
      BY <1>t, <1>l, <2>1, <3>1 DEF Core, TypeOK, Lock, Goto, Exclusive, Fresh, Saved,
         Locked
  <2>2. CASE q # p
    <3>1. pc'[q] = pc[q] /\ change'[q] = change[q] /\ synced'[q] = synced[q] /\ config'[q] = config[q]
      BY <1>t, <2>2 DEF TypeOK, Lock, Goto
    <3> QED
      BY <1>l, <2>2, <3>1 DEF Core, Exclusive, Fresh, Saved, Locked, Lock
  <2> QED
    BY <2>1, <2>2
<1> QED
  BY <1>1, <1>2, <1>3 DEF Core

LEMMA WriteTemporaryCore ==
    ASSUME Core, NEW p \in Procs, WriteTemporary(p)
    PROVE  Core'
<1>t. TypeOK
  BY DEF Core
<1>1. TypeOK'
  BY <1>t DEF TypeOK, WriteTemporary, Goto, Steps
<1>2. Disk'
  BY DEF Core, Disk, WriteTemporary
<1>l. Loaded(file)' = Loaded(file)
  BY DEF Loaded, Validated, WriteTemporary
<1>3. ASSUME NEW q \in Procs PROVE (Exclusive(q) /\ Fresh(q) /\ Saved(q))'
  <2>1. CASE q = p
    <3>1. pc'[q] # pc[q] /\ change'[q] = change[q]
      BY <1>t, <2>1 DEF TypeOK, WriteTemporary, Goto
    <3> QED
      BY <1>t, <1>l, <2>1, <3>1 DEF Core, TypeOK, WriteTemporary, Goto, Exclusive,
         Fresh, Saved, Locked
  <2>2. CASE q # p
    <3>1. pc'[q] = pc[q] /\ change'[q] = change[q] /\ synced'[q] = synced[q] /\ config'[q] = config[q]
      BY <1>t, <2>2 DEF TypeOK, WriteTemporary, Goto
    <3> QED
      BY <1>l, <2>2, <3>1 DEF Core, Exclusive, Fresh, Saved, Locked, WriteTemporary
  <2> QED
    BY <2>1, <2>2
<1> QED
  BY <1>1, <1>2, <1>3 DEF Core

LEMMA SyncTemporaryCore ==
    ASSUME Core, NEW p \in Procs, SyncTemporary(p)
    PROVE  Core'
<1>t. TypeOK
  BY DEF Core
<1>1. TypeOK'
  BY <1>t DEF TypeOK, SyncTemporary, Goto, Steps
<1>2. Disk'
  BY DEF Core, Disk, SyncTemporary
<1>l. Loaded(file)' = Loaded(file)
  BY DEF Loaded, Validated, SyncTemporary
<1>3. ASSUME NEW q \in Procs PROVE (Exclusive(q) /\ Fresh(q) /\ Saved(q))'
  <2>1. CASE q = p
    <3>1. pc'[q] # pc[q] /\ change'[q] = change[q]
      BY <1>t, <2>1 DEF TypeOK, SyncTemporary, Goto
    <3> QED
      BY <1>t, <1>l, <2>1, <3>1 DEF Core, TypeOK, SyncTemporary, Goto, Exclusive,
         Fresh, Saved, Locked
  <2>2. CASE q # p
    <3>1. pc'[q] = pc[q] /\ change'[q] = change[q] /\ synced'[q] = synced[q] /\ config'[q] = config[q]
      BY <1>t, <2>2 DEF TypeOK, SyncTemporary, Goto
    <3> QED
      BY <1>l, <2>2, <3>1 DEF Core, Exclusive, Fresh, Saved, Locked, SyncTemporary
  <2> QED
    BY <2>1, <2>2
<1> QED
  BY <1>1, <1>2, <1>3 DEF Core

(* Only "apply" without the directory goes on without the lock, and it has  *)
(* nothing to save.                                                        *)
LEMMA OpenCore ==
    ASSUME Core, NEW p \in Procs, Open(p)
    PROVE  Core'
<1>t. TypeOK
  BY DEF Core
<1>1. TypeOK'
  BY <1>t, DefaultType DEF TypeOK, Open, Goto, Steps
<1>2. Disk'
  BY DEF Core, Disk, Open
<1>l. Loaded(file)' = Loaded(file)
  BY DEF Loaded, Validated, Open
<1>3. ASSUME NEW q \in Procs PROVE (Exclusive(q) /\ Fresh(q) /\ Saved(q))'
  <2>1. CASE q = p
    <3>1. \/ pc'[q] = "lock" /\ lock' # q
          \/ pc'[q] = "apply" /\ change'[q] = None /\ ~DirShipped /\ lock' # q
      <4>1. lock # p
        BY DEF Core, Exclusive, Open, Locked
      <4>2. pc'[q] \in {"lock", "apply"} /\ change'[q] = change[q] /\ lock' = lock
        BY <1>t, <2>1 DEF TypeOK, Open, Goto
      <4>3. pc'[q] = "apply" => change[q] = None /\ ~dir
        BY <1>t, <2>1 DEF TypeOK, Open, Goto
      <4>4. ~dir => ~DirShipped
        BY DEF Core, Disk
      <4> QED
        BY <2>1, <4>1, <4>2, <4>3, <4>4
    <3> QED
      BY <3>1 DEF Exclusive, Fresh, Saved, Locked
  <2>2. CASE q # p
    <3>1. pc'[q] = pc[q] /\ change'[q] = change[q] /\ synced'[q] = synced[q] /\ config'[q] = config[q]
      BY <1>t, <2>2 DEF TypeOK, Open, Goto
    <3> QED
      BY <1>l, <2>2, <3>1 DEF Core, Exclusive, Fresh, Saved, Locked, Open
  <2> QED
    BY <2>1, <2>2
<1> QED
  BY <1>1, <1>2, <1>3 DEF Core

(* Load: the file's configuration, with the change, is what is worked on.  *)
LEMMA LoadCore ==
    ASSUME Core, NEW p \in Procs, Load(p)
    PROVE  Core'
<1>t. TypeOK /\ pc[p] = "load" /\ lock = p
  BY DEF Core, Exclusive, Load, Locked
<1>u. UNCHANGED <<dir, file, survivors, light, behind>>
  BY DEF Load
<1>l. Loaded(file)' = Loaded(file)
  BY <1>u DEF Loaded, Validated
<1>1. CASE Leave(p)
  <2>1. TypeOK'
    BY <1>t, <1>u, <1>1, LeaveType DEF TypeOK
  <2>2. \A q \in Procs : (Exclusive(q) /\ Fresh(q) /\ Saved(q))'
    BY <1>u, <1>1, LeaveCore
  <2> QED
    BY <1>u, <2>1, <2>2 DEF Core, Disk
<1>2. CASE /\ Loaded(file) # Invalid
           /\ config' = [config EXCEPT ![p] = IF change[p] = None THEN Loaded(file)
                                              ELSE Updated(Loaded(file), change[p])]
           /\ Goto(p, IF change[p] = None THEN "apply" ELSE "write")
           /\ UNCHANGED <<lock, change, synced>>
  <2>0. Loaded(file) \in Config
    BY <1>t, <1>2, LoadedType DEF TypeOK
  <2>1. config'[p] \in Config /\ config' \in [Procs -> Config]
    <3>1. change[p] # None => change[p] \in Changes
      BY <1>t DEF TypeOK
    <3>2. change[p] # None => Updated(Loaded(file), change[p]) \in Config
      BY <2>0, <3>1, ChangesAssumption
    <3> QED
      BY <1>t, <1>2, <2>0, <3>2 DEF TypeOK
  <2>2. TypeOK'
    BY <1>t, <1>u, <1>2, <2>1 DEF TypeOK, Goto, Steps
  <2>3. ASSUME NEW q \in Procs PROVE (Exclusive(q) /\ Fresh(q) /\ Saved(q))'
    <3>1. CASE q = p
      <4>1. CASE change[p] = None
        <5>1. pc'[p] = "apply" /\ config'[p] = Loaded(file) /\ change'[p] = None /\ lock' = p
          BY <1>t, <1>2, <4>1 DEF TypeOK, Goto
        <5> QED
          BY <1>l, <3>1, <5>1 DEF Exclusive, Fresh, Saved, Locked
      <4>2. CASE change[p] # None
        <5>1. /\ pc'[p] = "write" /\ config'[p] = Updated(Loaded(file), change[p])
              /\ change'[p] = change[p] /\ lock' = p /\ change[p] \in Changes
          BY <1>t, <1>2, <4>2 DEF TypeOK, Goto
        <5> QED
          BY <1>2, <1>l, <3>1, <5>1 DEF Exclusive, Fresh, Saved, Locked
      <4> QED
        BY <4>1, <4>2
    <3>2. CASE q # p
      <4>1. pc'[q] = pc[q] /\ change'[q] = change[q] /\ synced'[q] = synced[q]
            /\ config'[q] = config[q] /\ lock' = lock
        BY <1>t, <1>2, <3>2 DEF TypeOK, Goto
      <4> QED
        BY <1>l, <1>u, <4>1 DEF Core, Exclusive, Fresh, Saved
    <3> QED
      BY <3>1, <3>2
  <2> QED
    BY <1>u, <2>2, <2>3 DEF Core, Disk
<1> QED
  BY <1>1, <1>2 DEF Load

(* While p is inside the critical section with the lock, nobody else works *)
(* with the file.                                                          *)
LEMMA OthersOutside ==
    ASSUME Core, NEW p \in Procs, pc[p] \in Locked, NEW q \in Procs, q # p
    PROVE  /\ lock = p
           /\ pc[q] \notin Locked
           /\ pc[q] = "apply" => lock # q /\ change[q] = None
BY DEF Core, Exclusive

LEMMA ReplaceCore ==
    ASSUME Core, NEW p \in Procs, Replace(p)
    PROVE  Core'
<1>t. TypeOK /\ pc[p] = "replace" /\ lock = p /\ synced[p] /\ change[p] \in Changes
  BY DEF Core, Exclusive, Fresh, Saved, Replace, Locked
<1>c. config[p] \in Config /\ Torn # config[p]
  BY <1>t, ContentsAssumption DEF TypeOK
<1>1. file' \in Content /\ survivors' \in SUBSET Content
  BY <1>t, <1>c DEF TypeOK, Replace, Content
<1>2. TypeOK'
  BY <1>t, <1>1 DEF TypeOK, Replace, Goto, Steps
<1>3. Disk'
  BY <1>t, <1>c DEF Core, Disk, Replace
<1>4. ASSUME NEW q \in Procs PROVE (Exclusive(q) /\ Fresh(q) /\ Saved(q))'
  <2>1. CASE q = p
    <3>1. pc'[q] = "syncdir" /\ lock' = q /\ synced'[q] /\ file' = config'[q]
      BY <1>t, <2>1 DEF TypeOK, Replace, Goto
    <3> QED
      BY <3>1 DEF Exclusive, Fresh, Saved, Locked
  <2>2. CASE q # p
    <3>1. pc'[q] = pc[q] /\ change'[q] = change[q] /\ lock' = lock
      BY <1>t, <2>2 DEF TypeOK, Replace, Goto
    <3>2. pc[q] \notin Locked /\ lock # q /\ (pc[q] = "apply" => change[q] = None)
      BY <1>t, <2>2, OthersOutside DEF Locked
    <3>3. Exclusive(q)
      BY DEF Core
    <3> QED
      BY <3>1, <3>2, <3>3 DEF Exclusive, Fresh, Saved, Locked
  <2> QED
    BY <2>1, <2>2
<1> QED
  BY <1>2, <1>3, <1>4 DEF Core

LEMMA SyncDirectoryCore ==
    ASSUME Core, NEW p \in Procs, SyncDirectory(p)
    PROVE  Core' /\ survivors' = {file'}
<1>t. TypeOK /\ pc[p] = "syncdir" /\ lock = p /\ synced[p] /\ file = config[p]
  BY DEF Core, Exclusive, Saved, SyncDirectory, Locked
<1>s. survivors' = {file} /\ file' = file
  BY <1>t DEF SyncDirectory
<1>1. TypeOK'
  BY <1>t, <1>s DEF TypeOK, SyncDirectory, Goto, Steps
<1>2. Disk'
  BY <1>s DEF Core, Disk, SyncDirectory
<1>3. ASSUME NEW q \in Procs PROVE (Exclusive(q) /\ Fresh(q) /\ Saved(q))'
  <2>1. CASE q = p
    <3>1. pc'[q] = "apply" /\ lock' = q /\ config'[q] = config[p] /\ config[p] \in Config
      BY <1>t, <2>1 DEF TypeOK, SyncDirectory, Goto
    <3>2. Loaded(file)' = config'[q]
      BY <1>t, <1>s, <3>1, LoadedConfig
    <3> QED
      BY <1>s, <3>1, <3>2 DEF Exclusive, Fresh, Saved, Locked
  <2>2. CASE q # p
    <3>1. pc'[q] = pc[q] /\ change'[q] = change[q] /\ lock' = lock
      BY <1>t, <2>2 DEF TypeOK, SyncDirectory, Goto
    <3>2. pc[q] \notin Locked /\ lock # q /\ (pc[q] = "apply" => change[q] = None)
      BY <1>t, <2>2, OthersOutside DEF Locked
    <3>3. Exclusive(q)
      BY DEF Core
    <3> QED
      BY <3>1, <3>2, <3>3 DEF Exclusive, Fresh, Saved, Locked
  <2> QED
    BY <2>1, <2>2
<1> QED
  BY <1>s, <1>1, <1>2, <1>3 DEF Core

LEMMA ApplyCore ==
    ASSUME Core, NEW p \in Procs, Apply(p)
    PROVE  Core'
<1>t. TypeOK
  BY DEF Core
<1>1. AppliedRaw(config[p]) \in 0..MaxRaw
  BY <1>t, AppliedRawRange DEF TypeOK
<1>2. TypeOK'
  BY <1>t, <1>1, LeaveType DEF TypeOK, Apply
<1>3. \A q \in Procs : (Exclusive(q) /\ Fresh(q) /\ Saved(q))'
  BY LeaveCore DEF Apply
<1> QED
  BY <1>2, <1>3 DEF Core, Disk, Apply

LEMMA FailCore ==
    ASSUME Core, NEW p \in Procs, Fail(p)
    PROVE  Core'
<1>1. TypeOK'
  BY LeaveType DEF Core, TypeOK, Fail
<1>2. \A q \in Procs : (Exclusive(q) /\ Fresh(q) /\ Saved(q))'
  BY LeaveCore DEF Fail
<1> QED
  BY <1>1, <1>2 DEF Core, Disk, Fail

LEMMA PowerLossCore ==
    ASSUME Core, PowerLoss
    PROVE  Core'
<1>1. Dark \in 0..MaxRaw
  BY DEF Dark, MaxRaw
<1>2. TypeOK'
  BY <1>1, DefaultType DEF Core, TypeOK, PowerLoss, Steps
<1>3. Disk'
  BY DEF Core, Disk, PowerLoss
<1>4. \A q \in Procs : (Exclusive(q) /\ Fresh(q) /\ Saved(q))'
  BY DEF PowerLoss, Exclusive, Fresh, Saved, Locked
<1> QED
  BY <1>2, <1>3, <1>4 DEF Core

(* Nothing happens: the invariant speaks of the variables only.            *)
LEMMA StutterCore ==
    ASSUME Core, UNCHANGED vars
    PROVE  Core'
<1>1. Loaded(file)' = Loaded(file)
  BY DEF vars, Loaded, Validated
<1>2. TypeOK' /\ Disk'
  BY DEF Core, TypeOK, Disk, vars, Content
<1>3. ASSUME NEW q \in Procs PROVE (Exclusive(q) /\ Fresh(q) /\ Saved(q))'
  BY <1>1 DEF Core, Exclusive, Fresh, Saved, vars
<1> QED
  BY <1>2, <1>3 DEF Core

LEMMA NextCore == Core /\ [Next]_vars => Core'
<1> SUFFICES ASSUME Core, [Next]_vars PROVE Core'
  OBVIOUS
<1>1. ASSUME NEW p \in Procs, Work(p) PROVE Core'
  BY <1>1, OpenCore, LockCore, LoadCore, WriteTemporaryCore, SyncTemporaryCore,
     ReplaceCore, SyncDirectoryCore, ApplyCore DEF Work
<1> QED
  BY <1>1, BeginCore, FailCore, PowerLossCore, StutterCore DEF Next

LEMMA CoreInvariant == Spec => []Core
<1>1. Init => Core
  BY InitCore
<1>2. Core /\ [Next]_vars => Core'
  BY NextCore
<1> QED
  BY <1>1, <1>2, PTL DEF Spec

-----------------------------------------------------------------------------
(* Every variable keeps its type: in particular no process ever holds, and *)
(* no file ever contains, a configuration that would not validate, except  *)
(* the contents the system was installed with.                             *)
THEOREM TypeCorrect == Spec => []TypeOK
BY CoreInvariant, PTL DEF Core

(* The lock, whoever fails inside: two processes are never both between    *)
(* their load and the end of their apply.                                  *)
THEOREM MutualExclusion ==
    Spec => [](\A p, q \in Procs : pc[p] \in Locked /\ pc[q] \in Locked => p = q)
<1>1. Core => \A p, q \in Procs : pc[p] \in Locked /\ pc[q] \in Locked => p = q
  BY DEF Core, Exclusive
<1> QED
  BY <1>1, CoreInvariant, PTL

(* No reader, and nobody after a power loss, finds a partial file: the     *)
(* data is on the disk before the rename (526-530).                        *)
THEOREM NeverTornFile == Spec => []NeverTorn
<1>1. Core => NeverTorn
  BY DEF Core, Disk, NeverTorn
<1> QED
  BY <1>1, CoreInvariant, PTL

(* A setter that ends with success has left its change on the disk.        *)
THEOREM DurableAcknowledgement == Spec => AcknowledgedIsDurable
<1>1. ASSUME Core, [Next]_vars PROVE AcknowledgementIsDurable
  <2> SUFFICES ASSUME NEW p \in Procs, Apply(p), change[p] # None
               PROVE  survivors' = {file'}
    BY DEF AcknowledgementIsDurable
  <2> QED
    BY <1>1 DEF Core, Saved, Apply
<1>2. Core /\ [Next]_vars => AcknowledgementIsDurable
  BY <1>1
<1> QED
  BY <1>2, CoreInvariant, PTL DEF AcknowledgedIsDurable, Spec

(* The settings are one register, however many setters run and fail: every *)
(* step changes the loaded configuration by one change to its newest       *)
(* value, or not at all.                                                   *)
THEOREM ImplementsRegister == Spec => RegisterSpec
<1>1. Init => Register!Init
  <2> SUFFICES ASSUME Init PROVE Register!Init
    OBVIOUS
  <2>1. file \in Contents \cup {Absent} /\ survivors = {file}
    BY DEF Init
  <2> QED
    BY <2>1 DEF Register!Init
<1>2. ASSUME Core, [Next]_vars PROVE [Register!Next]_(Register!reg)
  <2>1. CASE UNCHANGED <<file, survivors>>
    <3>1. Loaded(file)' = Loaded(file)
      BY <2>1 DEF Loaded, Validated
    <3>2. {Loaded(c) : c \in survivors}' = {Loaded(c) : c \in survivors}
      BY <2>1 DEF Loaded, Validated
    <3> QED
      BY <3>1, <3>2 DEF Register!reg
  <2>2. ASSUME NEW p \in Procs, Replace(p) PROVE Register!Next
    <3>1. /\ synced[p] /\ change[p] \in Changes /\ Loaded(file) # Invalid
          /\ config[p] = Updated(Loaded(file), change[p]) /\ config[p] \in Config
      BY <1>2, <2>2 DEF Core, TypeOK, Fresh, Saved, Replace
    <3>2. file' = config[p] /\ survivors' = survivors \cup {file'}
      BY <2>2, <3>1 DEF Replace
    <3>3. Loaded(file') = Updated(Loaded(file), change[p])
      BY <3>1, <3>2, LoadedConfig
    <3>4. {Loaded(c) : c \in survivors'} = {Loaded(c) : c \in survivors} \cup {Loaded(file')}
      BY <3>2
    <3>5. Register!Set(change[p])
      BY <3>1, <3>3, <3>4 DEF Register!Set
    <3> QED
      BY <3>1, <3>5 DEF Register!Next
  <2>3. ASSUME NEW p \in Procs, SyncDirectory(p) PROVE Register!Next
    <3>1. survivors' = {file} /\ file' = file
      BY <1>2, <2>3, SyncDirectoryCore DEF SyncDirectory
    <3>2. Loaded(file') = Loaded(file) /\ {Loaded(c) : c \in survivors'} = {Loaded(file)}
      BY <3>1
    <3> QED
      BY <3>2 DEF Register!Next, Register!Commit
  <2>4. CASE PowerLoss
    <3>1. file' \in survivors /\ survivors' = {file'}
      BY <2>4 DEF PowerLoss
    <3>2. Loaded(file') \in {Loaded(c) : c \in survivors}
          /\ {Loaded(c) : c \in survivors'} = {Loaded(file')}
      BY <3>1
    <3> QED
      BY <3>2 DEF Register!Next, Register!PowerLoss
  <2>5. ASSUME NEW p \in Procs,
               Begin(p) \/ Fail(p) \/ Open(p) \/ Lock(p) \/ Load(p)
                 \/ WriteTemporary(p) \/ SyncTemporary(p) \/ Apply(p)
        PROVE  UNCHANGED <<file, survivors>>
    BY <2>5 DEF Begin, Fail, Open, Lock, Load, WriteTemporary, SyncTemporary, Apply
  <2>6. UNCHANGED vars => UNCHANGED <<file, survivors>>
    BY DEF vars
  <2> QED
    BY <1>2, <2>1, <2>2, <2>3, <2>4, <2>5, <2>6 DEF Next, Work
<1>3. Core /\ [Next]_vars => [Register!Next]_(Register!reg)
  BY <1>2
<1> QED
  BY <1>1, <1>3, CoreInvariant, PTL DEF Spec, RegisterSpec, Register!Spec

-----------------------------------------------------------------------------
(* From here on the package has created the directory, so that every       *)
(* command takes the lock.                                                 *)
LEMMA AppliedIsSaved ==
    ASSUME DirShipped, Core, NEW p \in Procs, Apply(p)
    PROVE  /\ Loaded(file) # Invalid
           /\ light' = AppliedRaw(Loaded(file))
           /\ UNCHANGED file
<1>1. pc[p] = "apply" /\ lock = p /\ Loaded(file) = config[p] /\ config[p] \in Config
  BY DEF Core, TypeOK, Exclusive, Saved, Apply
<1> QED
  BY <1>1, LoadedConfig DEF Apply

(* Every step but an apply, a rename and a power loss leaves the panel and *)
(* what is read alone.                                                     *)
LEMMA QuietSteps ==
    ASSUME [Next]_vars
    PROVE  \/ UNCHANGED <<file, light, behind>>
           \/ PowerLoss
           \/ \E p \in Procs : Apply(p) \/ Replace(p)
BY DEF Next, Work, Begin, Fail, Open, Lock, Load, WriteTemporary, SyncTemporary,
       SyncDirectory, vars

(* The panel shows what is saved, unless the last change was cut short.    *)
THEOREM PanelFollowsConfig ==
    ASSUME DirShipped
    PROVE  Spec => []BacklightFollowsConfig
<1>1. Init => BacklightFollowsConfig
  BY DEF Init, BacklightFollowsConfig
<1>2. ASSUME Core, BacklightFollowsConfig, [Next]_vars PROVE BacklightFollowsConfig'
  <2>1. CASE UNCHANGED <<file, light, behind>>
    <3>1. Loaded(file)' = Loaded(file)
      BY <2>1 DEF Loaded, Validated
    <3> QED
      BY <1>2, <2>1, <3>1 DEF BacklightFollowsConfig
  <2>2. ASSUME NEW p \in Procs, Apply(p) PROVE BacklightFollowsConfig'
    BY <1>2, <2>2, AppliedIsSaved DEF BacklightFollowsConfig
  <2>3. PowerLoss \/ (\E p \in Procs : Replace(p)) => BacklightFollowsConfig'
    BY DEF PowerLoss, Replace, BacklightFollowsConfig
  <2> QED
    BY <1>2, <2>1, <2>2, <2>3, QuietSteps
<1>3. Core /\ BacklightFollowsConfig /\ [Next]_vars => BacklightFollowsConfig'
  BY <1>2
<1> QED
  BY <1>1, <1>3, CoreInvariant, PTL DEF Spec

(* No command lights a panel whose saved configuration is off.             *)
THEOREM OffStaysDark ==
    ASSUME DirShipped
    PROVE  Spec => NeverLitWhileOff
<1>1. ASSUME Core, [Next]_vars PROVE LitOnlyWhenOn
  <2> SUFFICES ASSUME light' < light PROVE Loaded(file) # Invalid /\ Loaded(file).enabled
    BY DEF LitOnlyWhenOn
  <2>0. light \in 0..MaxRaw /\ light' # light
    BY <1>1 DEF Core, TypeOK, MaxRaw
  <2>1. ~PowerLoss
    BY <2>0 DEF PowerLoss, Dark, MaxRaw
  <2>2. \A p \in Procs : ~Replace(p)
    BY <2>0 DEF Replace
  <2>3. PICK p \in Procs : Apply(p)
    BY <1>1, <2>0, <2>1, <2>2, QuietSteps
  <2>4. Loaded(file) # Invalid /\ light' = AppliedRaw(Loaded(file))
    BY <1>1, <2>3, AppliedIsSaved
  <2>5. Loaded(file) \in Config
    BY <1>1, <2>4, LoadedType DEF Core, TypeOK
  <2>6. light' # Dark
    BY <2>0 DEF Dark, MaxRaw
  <2> QED
    BY <2>4, <2>5, <2>6, AppliedRawRange
<1>2. Core /\ [Next]_vars => LitOnlyWhenOn
  BY <1>1
<1> QED
  BY <1>2, CoreInvariant, PTL DEF NeverLitWhileOff, Spec
=============================================================================
