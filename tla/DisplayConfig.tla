---------------------------- MODULE DisplayConfig ----------------------------
(***************************************************************************)
(* The display settings of board-support/e87n/hardware.py: the file        *)
(* /etc/e87n/display.json and the backlight, changed by any number of      *)
(* e87nctl invocations at the same time (and by the service's              *)
(* ExecStartPre, "display apply").                                         *)
(*                                                                         *)
(* Writers hold flock(LOCK_EX) on the directory for load, save and apply.  *)
(* The file is written beside its target, synced, renamed over it and the  *)
(* directory synced.  Readers open it without the lock.  A process may     *)
(* fail or be killed at every step, and power may be lost.                 *)
(***************************************************************************)
EXTENDS Backlight

CONSTANTS
    Procs,      \* the processes that run e87nctl
    Themes, LegacyTheme, \* theme names; old names with their replacement
    Changes,    \* the settings asked for: [key |-> ..., value |-> ...]
    Contents,   \* what display.json may hold when the system is installed
    DirShipped, \* the package created /etc/e87n before any command ran
    Absent,     \* no display.json
    Torn,       \* a display.json whose data did not reach the disk
    Invalid,    \* a display.json that does not pass validation
    None        \* no process, or no change ("display apply")

Config == [enabled : BOOLEAN, brightness_percent : 0..100, theme : Themes]

DefaultConfig == [enabled |-> TRUE, brightness_percent |-> 20, theme |-> "dark"]

(* _validate_config on the JSON object of the file: 1.1.x wrote no theme,  *)
(* 1.2.x wrote names that were replaced; other contents are refused.       *)
Validated(content) ==
    IF content \in {Torn, Invalid} THEN Invalid
    ELSE IF "theme" \notin DOMAIN content
    THEN [enabled |-> content.enabled, brightness_percent |-> content.brightness_percent,
          theme |-> DefaultConfig.theme]
    ELSE IF content.theme \in DOMAIN LegacyTheme
    THEN [content EXCEPT !.theme = LegacyTheme[content.theme]]
    ELSE content

(* _load_config_at *)
Loaded(content) == IF content = Absent THEN DefaultConfig ELSE Validated(content)

(* config.update(changes) *)
Updated(config, change) == [config EXCEPT ![change.key] = change.value]

ASSUME ProcsAssumption == None \notin Procs /\ None \notin Changes
ASSUME DirAssumption == DirShipped \in BOOLEAN
(* The parser of e87nctl only asks for valid changes, replaced themes are no *)
(* longer themes, and the rest of _validate_config refuses other contents.   *)
ASSUME ThemesAssumption ==
    /\ DefaultConfig.theme \in Themes
    /\ \A t \in DOMAIN LegacyTheme : LegacyTheme[t] \in Themes /\ t \notin Themes
ASSUME ChangesAssumption == \A c \in Config, u \in Changes : Updated(c, u) \in Config
ASSUME ContentsAssumption ==
    /\ Absent # Torn /\ {Absent, Torn, Invalid} \cap Config = {} /\ Torn # Invalid
    /\ Absent # Invalid /\ Torn \notin Contents
    /\ \A c \in Contents : Loaded(c) \in Config \cup {Invalid}

VARIABLES
    dir,       \* /etc/e87n exists
    file,      \* what a reader of display.json finds
    survivors, \* what it may find after a power loss
    lock,      \* the process that holds the flock, or None
    light,     \* the raw backlight value
    pc,        \* each process's next step
    change,    \* what each process was asked to change; None to apply only
    config,    \* the configuration each process works with
    synced,    \* whether each process's temporary file is on the disk
    behind     \* a saved change may not have reached the backlight yet

vars == <<dir, file, survivors, lock, light, pc, change, config, synced, behind>>

Steps == {"idle", "open", "lock", "load", "write", "sync", "replace",
          "syncdir", "apply"}

(* The steps of a process that holds the lock. *)
Locked == {"load", "write", "sync", "replace", "syncdir"}

Goto(p, step) == pc' = [pc EXCEPT ![p] = step]

Forget(p) ==
    /\ change' = [change EXCEPT ![p] = None]
    /\ config' = [config EXCEPT ![p] = DefaultConfig]
    /\ synced' = [synced EXCEPT ![p] = FALSE]

(* Mutant: the lock is a file of its own, which a failed command leaves. *)
LeaveLocked(p) ==
    /\ Goto(p, "idle")
    /\ lock' = IF lock = p /\ pc[p] = "apply" THEN None ELSE lock
    /\ Forget(p)

(* The descriptor is closed: the command ended, and so did its lock. *)
Leave(p) ==
    /\ Goto(p, "idle")
    /\ lock' = IF lock = p THEN None ELSE lock
    /\ Forget(p)

Begin(p) ==
    /\ pc[p] = "idle"
    /\ \E c \in Changes \cup {None} : change' = [change EXCEPT ![p] = c]
    /\ Goto(p, "open")
    /\ UNCHANGED <<dir, file, survivors, lock, light, config, synced, behind>>

(* display() opens the directory: a setter creates it; apply alone works   *)
(* with the defaults, and without a lock, when it is not there.            *)
Open(p) ==
    /\ pc[p] = "open"
    /\ IF change[p] = None /\ ~dir
       THEN /\ config' = [config EXCEPT ![p] = DefaultConfig]
            /\ Goto(p, "apply")
            /\ UNCHANGED dir
       ELSE /\ dir' = TRUE
            /\ Goto(p, "lock")
            /\ UNCHANGED config
    /\ UNCHANGED <<file, survivors, lock, light, change, synced, behind>>

(* Mutant: no lock is taken. *)
NoLock(p) ==
    /\ pc[p] = "lock"
    /\ Goto(p, "load")
    /\ UNCHANGED <<dir, file, survivors, lock, light, change, config, synced, behind>>

Lock(p) ==
    /\ pc[p] = "lock" /\ lock = None
    /\ lock' = p
    /\ Goto(p, "load")
    /\ UNCHANGED <<dir, file, survivors, light, change, config, synced, behind>>

(* Load, and for a setter update: a file that does not validate ends it. *)
Load(p) ==
    /\ pc[p] = "load"
    /\ IF Loaded(file) = Invalid
       THEN Leave(p)
       ELSE /\ config' = [config EXCEPT ![p] = IF change[p] = None THEN Loaded(file)
                                               ELSE Updated(Loaded(file), change[p])]
            /\ Goto(p, IF change[p] = None THEN "apply" ELSE "write")
            /\ UNCHANGED <<lock, change, synced>>
    /\ UNCHANGED <<dir, file, survivors, light, behind>>

(* _save_config_at: the temporary file has a name of its own. *)
WriteTemporary(p) ==
    /\ pc[p] = "write"
    /\ Goto(p, "sync")
    /\ UNCHANGED <<dir, file, survivors, lock, light, change, config, synced, behind>>

SyncTemporary(p) ==
    /\ pc[p] = "sync"
    /\ synced' = [synced EXCEPT ![p] = TRUE]
    /\ Goto(p, "replace")
    /\ UNCHANGED <<dir, file, survivors, lock, light, change, config, behind>>

(* os.replace: readers see it at once; after a power loss the old name may *)
(* be back, and data that was not synced may be missing.                   *)
Replace(p) ==
    /\ pc[p] = "replace"
    /\ file' = config[p]
    /\ survivors' = survivors \cup {IF synced[p] THEN config[p] ELSE Torn}
    /\ behind' = TRUE
    /\ Goto(p, "syncdir")
    /\ UNCHANGED <<dir, lock, light, change, config, synced>>

(* Mutant: the rename is not synced. *)
SkipDirectory(p) ==
    /\ pc[p] = "syncdir"
    /\ Goto(p, "apply")
    /\ UNCHANGED <<dir, file, survivors, lock, light, change, config, synced, behind>>

SyncDirectory(p) ==
    /\ pc[p] = "syncdir"
    /\ survivors' = {IF synced[p] THEN file ELSE Torn}
    /\ Goto(p, "apply")
    /\ UNCHANGED <<dir, file, lock, light, change, config, synced, behind>>

(* _apply_config; the command ends with it. *)
Apply(p) ==
    /\ pc[p] = "apply"
    /\ light' = AppliedRaw(config[p])
    /\ behind' = FALSE
    /\ Leave(p)
    /\ UNCHANGED <<dir, file, survivors>>

(* An OSError at any step, or SIGKILL: what was done stays done. *)
Fail(p) ==
    /\ pc[p] # "idle"
    /\ Leave(p)
    /\ UNCHANGED <<dir, file, survivors, light, behind>>

(* Power is lost and comes back: the backlight starts dark (its default). *)
PowerLoss ==
    /\ file' \in survivors
    /\ survivors' = {file'}
    /\ lock' = None
    /\ light' = Dark
    /\ pc' = [p \in Procs |-> "idle"]
    /\ change' = [p \in Procs |-> None]
    /\ config' = [p \in Procs |-> DefaultConfig]
    /\ synced' = [p \in Procs |-> FALSE]
    /\ behind' = TRUE
    /\ UNCHANGED dir

Init ==
    /\ dir = DirShipped
    /\ file \in IF DirShipped THEN Contents ELSE {Absent}
    /\ survivors = {file}
    /\ lock = None
    /\ light = Dark
    /\ pc = [p \in Procs |-> "idle"]
    /\ change = [p \in Procs |-> None]
    /\ config = [p \in Procs |-> DefaultConfig]
    /\ synced = [p \in Procs |-> FALSE]
    /\ behind = TRUE

Work(p) ==
    \/ Open(p) \/ Lock(p) \/ Load(p) \/ WriteTemporary(p) \/ SyncTemporary(p)
    \/ Replace(p) \/ SyncDirectory(p) \/ Apply(p)

Next == PowerLoss \/ \E p \in Procs : Begin(p) \/ Work(p) \/ Fail(p)

Spec == Init /\ [][Next]_vars

(* A started command is scheduled, and the kernel's lock queue serves every *)
(* waiter; nobody has to start a command.                                   *)
FairSpec == Spec /\ \A p \in Procs : WF_vars(Work(p)) /\ SF_vars(Lock(p))

-----------------------------------------------------------------------------
Content == Config \cup Contents \cup {Absent, Torn, Invalid}

(* The types; above all a valid settings file never turns into an invalid one. *)
TypeOK ==
    /\ dir \in BOOLEAN
    /\ file \in Content
    /\ survivors \in SUBSET Content
    /\ lock \in Procs \cup {None}
    /\ light \in 0..MaxRaw
    /\ pc \in [Procs -> Steps]
    /\ change \in [Procs -> Changes \cup {None}]
    /\ config \in [Procs -> Config]
    /\ synced \in [Procs -> BOOLEAN]
    /\ behind \in BOOLEAN

(* A reader, which takes no lock (load_display_config), never finds a      *)
(* partial file, and neither does anybody after a power loss: the data is  *)
(* synced before the rename (lines 526-530).                               *)
NeverTorn == file # Torn /\ Torn \notin survivors

(* The panel shows what is saved, unless the last change was cut short or  *)
(* is still between its save and its apply.                                *)
BacklightFollowsConfig ==
    ~behind => Loaded(file) # Invalid /\ light = AppliedRaw(Loaded(file))

(* "Changing settings while the display is off never lights it" (docs/     *)
(* display-fan.md, 45): no step makes a dark panel brighter unless the     *)
(* saved configuration is enabled.                                         *)
LitOnlyWhenOn == light' < light => Loaded(file) # Invalid /\ Loaded(file).enabled

NeverLitWhileOff == [][LitOnlyWhenOn]_vars

(* A setter that reports success left its change where a power loss cannot *)
(* take it away.                                                           *)
AcknowledgementIsDurable ==
    \A p \in Procs : Apply(p) /\ change[p] # None => survivors' = {file'}

AcknowledgedIsDurable == [][AcknowledgementIsDurable]_vars

(* No command waits for the lock for ever, whoever fails while holding it. *)
EveryCommandEnds == \A p \in Procs : pc[p] # "idle" ~> pc[p] = "idle"

(* The settings are one register: no setter overwrites another one's       *)
(* change with a stale copy, and replacing a file of an older version is   *)
(* no change of what it says.                                              *)
Register == INSTANCE ConfigRegister WITH
    Updates <- Changes, Unusable <- Invalid,
    Initials <- {Loaded(c) : c \in Contents \cup {Absent}},
    value <- Loaded(file), kept <- {Loaded(c) : c \in survivors}

RegisterSpec == Register!Spec
=============================================================================
