---------------------------- MODULE DisplayDaemon ----------------------------
(***************************************************************************)
(* board-support/e87n/display.py, run_daemon: the loop that reads the      *)
(* settings, samples the telemetry, chooses a page, draws it and sleeps;   *)
(* and the service that starts it again when it fails.                     *)
(*                                                                         *)
(* The administrator changes the settings and sensors come and go at any   *)
(* moment, also between two steps of an iteration.  A second may pass at   *)
(* any moment too; deadlines are kept as the seconds that are left.        *)
(***************************************************************************)
EXTENDS Integers, Sequences, SequencesExt

CONSTANTS
    Screens,    \* page names
    Overview,   \* the page that always has data
    Configs,    \* settings that validate
    Invalid,    \* a display.json that does not
    MaxSeconds  \* the longest rotation_seconds

(* What a change of resets the rotation: not "enabled", not "refresh". *)
Identity(c) == [screen |-> c.screen, rotation |-> c.rotation,
                seconds |-> c.seconds, pages |-> c.pages]

(* What validation leaves of the settings. *)
ConfigsAreValid ==
    /\ Overview \in Screens /\ MaxSeconds \in Nat
    /\ Invalid \notin Configs \cup {Identity(c) : c \in Configs}
    /\ \A c \in Configs :
         /\ c.enabled \in BOOLEAN /\ c.rotation \in BOOLEAN
         /\ c.screen \in Screens
         /\ c.refresh \in Nat \ {0} /\ c.seconds \in 1..MaxSeconds
         /\ c.pages \in Seq(Screens) /\ c.pages # <<>> /\ IsInjective(c.pages)

VARIABLES
    saved,     \* the settings in display.json
    live,      \* pages the telemetry has data for
    pc,        \* the daemon's next step; "dead" until the service starts it
    config,    \* the settings of this iteration
    sample,    \* the pages this iteration's snapshot has data for
    open,      \* the framebuffer is open
    identity,  \* the page settings of the last iteration, or Invalid
    active,    \* the page chosen last
    left,      \* seconds until the rotation deadline
    nap,       \* seconds until the sleep ends
    frame,     \* the page on the panel
    age        \* for the properties: seconds since active was chosen

vars == <<saved, live, pc, config, sample, open, identity, active, left, nap, frame, age>>

Steps == {"load", "sample", "choose", "draw", "sleep", "dead"}

Lesser(m, n) == IF m < n THEN m ELSE n

Requested(c) == IF c.rotation THEN c.pages ELSE <<c.screen>>

(* Mutant: a page without data is a page too. *)
AnyPage(c, present) == DOMAIN Requested(c)

(* Where among the requested pages those with data are. *)
Available(c, present) == {i \in DOMAIN Requested(c) : Requested(c)[i] \in present}

(* _daemon_pages and _available_pages, as a set ... *)
DaemonPages(c, present) ==
    IF Available(c, present) = {} THEN {Overview}
    ELSE {Requested(c)[i] : i \in Available(c, present)}

(* ... and the first of the pages at some positions: pages[0]. *)
FirstOf(c, positions) ==
    IF positions = {} THEN Overview ELSE Requested(c)[Min(positions)]

FirstPage(c, present) == FirstOf(c, Available(c, present))

(* Mutant: rotation starts over at every turn. *)
FromTheStart(c, present, page) == FirstPage(c, present)

(* pages[(pages.index(page) + 1) % len(pages)] *)
Following(c, present, page) ==
    LET later == {i \in Available(c, present) : \E j \in 1..i - 1 : Requested(c)[j] = page}
    IN  FirstOf(c, IF later = {} THEN Available(c, present) ELSE later)

(***************************************************************************)
(* One iteration.                                                          *)
(***************************************************************************)
Die ==
    /\ pc' = "dead"
    /\ open' = FALSE
    /\ UNCHANGED <<saved, live, config, sample, identity, active, left, nap, frame, age>>

(* Mutant: settings are not validated. *)
LoadUnchecked ==
    /\ pc = "load"
    /\ config' = saved
    /\ pc' = "sample"
    /\ UNCHANGED <<saved, live, sample, open, identity, active, left, nap, frame, age>>

(* load_display_config: settings that do not validate end the daemon. *)
Load ==
    /\ pc = "load"
    /\ \/ saved = Invalid /\ Die
       \/ /\ saved # Invalid
          /\ config' = saved
          /\ pc' = "sample"
          /\ UNCHANGED <<saved, live, sample, open, identity, active, left, nap, frame, age>>

(* The framebuffer is opened once and the telemetry is read, unless the    *)
(* display is disabled: then no page is filtered.                          *)
Sample ==
    /\ pc = "sample"
    /\ open' = (open \/ config.enabled)
    /\ sample' = IF config.enabled THEN live ELSE Screens
    /\ pc' = "choose"
    /\ UNCHANGED <<saved, live, config, identity, active, left, nap, frame, age>>

Pages == DaemonPages(config, sample)

(* Choosing page; a page that is shown for a rotation gets all of it. *)
Choose(page) ==
    /\ pc = "choose"
    /\ active' = page
    /\ pc' = "draw"
    /\ UNCHANGED <<saved, live, config, sample, open, nap, frame>>

(* Mutant: the deadline is not moved. *)
KeepDeadline == UNCHANGED left /\ age' = 0

ResetDeadline == left' = config.seconds /\ age' = 0

KeepPage ==
    /\ Choose(active)
    /\ UNCHANGED <<identity, left, age>>

NewSettings ==
    /\ identity # Identity(config)
    /\ Choose(IF config.rotation /\ config.screen \in Pages THEN config.screen
              ELSE FirstPage(config, sample))
    /\ ResetDeadline
    /\ identity' = Identity(config)

PageLost ==
    /\ identity = Identity(config) /\ config.rotation
    /\ active \notin Pages
    /\ Choose(FirstPage(config, sample))
    /\ ResetDeadline
    /\ UNCHANGED identity

TurnPage ==
    /\ identity = Identity(config) /\ config.rotation
    /\ active \in Pages /\ left = 0
    /\ Choose(Following(config, sample, active))
    /\ ResetDeadline
    /\ UNCHANGED identity

StayOnPage ==
    /\ identity = Identity(config) /\ config.rotation
    /\ active \in Pages /\ left > 0
    /\ KeepPage

(* Mutant: a fixed page is chosen when the settings change, and stays. *)
FixedOnce ==
    /\ identity = Identity(config) /\ ~config.rotation
    /\ KeepPage

FixedPage ==
    /\ identity = Identity(config) /\ ~config.rotation
    /\ Choose(FirstPage(config, sample))
    /\ age' = IF active' = active THEN age ELSE 0
    /\ UNCHANGED <<identity, left>>

(* framebuffer.draw, and the length of the sleep. *)
Draw ==
    /\ pc = "draw"
    /\ frame' = IF config.enabled THEN active ELSE frame
    /\ nap' = IF config.rotation THEN Lesser(config.refresh, left) ELSE config.refresh
    /\ pc' = "sleep"
    /\ UNCHANGED <<saved, live, config, sample, open, identity, active, left, age>>

Wake ==
    /\ pc = "sleep" /\ nap = 0
    /\ pc' = "load"
    /\ UNCHANGED <<saved, live, config, sample, open, identity, active, left, nap, frame, age>>

(* The device cannot be opened, has another mode, or a write fails. *)
DeviceError ==
    /\ pc \in {"sample", "draw"} /\ config.enabled
    /\ Die

(* systemd starts the service again, forever, and every start runs         *)
(* "e87nctl display apply" first, which refuses invalid settings.          *)
Restart ==
    /\ pc = "dead" /\ saved # Invalid
    /\ pc' = "load"
    /\ identity' = Invalid
    /\ UNCHANGED <<saved, live, config, sample, open, active, left, nap, frame, age>>

(***************************************************************************)
(* The world around it.                                                    *)
(***************************************************************************)
Edit ==
    /\ saved' \in (Configs \cup {Invalid}) \ {saved}
    /\ UNCHANGED <<live, pc, config, sample, open, identity, active, left, nap, frame, age>>

Sense ==
    /\ live' \in {S \in SUBSET Screens : Overview \in S} \ {live}
    /\ UNCHANGED <<saved, pc, config, sample, open, identity, active, left, nap, frame, age>>

Tick ==
    /\ left' = IF left = 0 THEN 0 ELSE left - 1
    /\ nap' = IF nap = 0 THEN 0 ELSE nap - 1
    /\ age' = IF age = MaxSeconds THEN age ELSE age + 1
    /\ UNCHANGED <<saved, live, pc, config, sample, open, identity, active, frame>>

Init ==
    /\ saved \in Configs
    /\ live \in {S \in SUBSET Screens : Overview \in S}
    /\ pc = "load" /\ config = saved /\ sample = Screens /\ open = FALSE
    /\ identity = Invalid /\ active = Overview /\ left = 0 /\ nap = 0
    /\ frame = Overview /\ age = 0

Iterate ==
    \/ Load \/ Sample \/ NewSettings \/ PageLost \/ TurnPage \/ StayOnPage
    \/ FixedPage \/ Draw \/ Wake \/ Restart

Next == Iterate \/ DeviceError \/ Edit \/ Sense \/ Tick

(* The process is scheduled, the service is restarted and time passes. *)
Spec == Init /\ [][Next]_vars /\ WF_vars(Iterate) /\ WF_vars(Tick)

-----------------------------------------------------------------------------
(* The types; above all the page chosen and drawn is always a known one. *)
TypeOK ==
    /\ saved \in Configs \cup {Invalid}
    /\ live \in SUBSET Screens /\ sample \in SUBSET Screens
    /\ pc \in Steps
    /\ config \in Configs
    /\ open \in BOOLEAN
    /\ identity \in {Identity(c) : c \in Configs} \cup {Invalid}
    /\ active \in Screens /\ frame \in Screens
    /\ left \in 0..MaxSeconds /\ age \in 0..MaxSeconds
    /\ nap \in Nat

(* A page without data is never drawn, whatever was chosen before the      *)
(* sensors, the settings or "enabled" changed (_available_pages).          *)
DrawnPageHasData == pc = "draw" /\ config.enabled => active \in sample /\ open

(* Rotation gives a page all its seconds: it is left early only because    *)
(* its data went away or the settings changed (DISPLAY-USER-GUIDE.md, 157).*)
PageKeepsItsTime ==
    [][active' # active /\ identity' = identity /\ config.rotation
         => age >= config.seconds \/ active \notin Pages]_vars

(* From some moment on the settings and the sensors stay and the daemon    *)
(* does not fail.                                                          *)
Settled == <>[][saved' = saved /\ live' = live /\ pc' # "dead"]_vars

On == saved # Invalid /\ saved.enabled

(* Once they stay, every page of the rotation that has data is shown again *)
(* and again.                                                              *)
EveryPageTurns ==
    Settled => \A p \in Screens :
        []<>(On /\ saved.rotation /\ p \in DaemonPages(saved, live) => frame = p)

(* A fixed page without data falls back to the overview and comes back     *)
(* with its data (packaging/e87n-display/README.Debian, 45-47).            *)
FixedPageReturns ==
    Settled => <>[](On /\ ~saved.rotation =>
                      frame = IF saved.screen \in live THEN saved.screen ELSE Overview)

(* No sequence of edits, lost sensors, errors and restarts leaves the      *)
(* daemon showing one page only, or another page than the fixed one.       *)
PagesReturn == EveryPageTurns /\ FixedPageReturns
=============================================================================
