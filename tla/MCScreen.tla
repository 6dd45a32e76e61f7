------------------------------ MODULE MCScreen ------------------------------
(* The parts of display.py: a screen of two by two pixels, in modes with   *)
(* and without a gap between rows, with offsets, and in four modes that    *)
(* must be refused; the packing of its pixels; and the daemon that chooses *)
(* the pages.  They share no state, so a behaviour is one of one of them.  *)
EXTENDS Framebuffer

CONSTANTS Offsets, Shades, Screens, Overview, Configs, Invalid, MaxSeconds

VARIABLES part,
    fields, colour, word,
    saved, live, daemonPc, config, sample, open, identity, active, left, nap, frame, age

Pixel == INSTANCE PixelFormat
Daemon == INSTANCE DisplayDaemon WITH pc <- daemonPc

pixelVars == <<fields, colour, word>>
daemonVars == <<saved, live, daemonPc, config, sample, open, identity, active, left, nap,
                frame, age>>
allVars == <<part, vars, pixelVars, daemonVars>>

ASSUME ConfigsAssumption == Daemon!ConfigsAreValid
ASSUME FieldsAssumption == Pixel!FieldsAreReported

(* What the other parts' variables are in a behaviour of one. *)
NoScreen == Init /\ mode = (CHOOSE m \in Modes : TRUE)
NoPixel == fields = [ch \in Pixel!Channels |-> 0] /\ colour = fields /\ word = -1
NoDaemon ==
    /\ saved = Invalid /\ live = {} /\ daemonPc = "dead" /\ config = <<>> /\ sample = {}
    /\ open = FALSE /\ identity = Invalid /\ active = Overview /\ left = 0 /\ nap = 0
    /\ frame = Overview /\ age = 0

ScreenInit ==
    \/ part = "screen" /\ Init /\ NoPixel /\ NoDaemon
    \/ part = "pixels" /\ Pixel!Init /\ NoScreen /\ NoDaemon
    \/ part = "daemon" /\ Daemon!Init /\ NoScreen /\ NoPixel

InDaemon(action) == part = "daemon" /\ action /\ UNCHANGED <<part, vars, pixelVars>>

ScreenNext ==
    \/ part = "screen" /\ Next /\ UNCHANGED <<part, pixelVars, daemonVars>>
    \/ part = "pixels" /\ Pixel!Next /\ UNCHANGED <<part, vars, daemonVars>>
    \/ InDaemon(Daemon!Next)

(* The fairness of DisplayDaemon. *)
ScreenSpec ==
    /\ ScreenInit /\ [][ScreenNext]_allVars
    /\ WF_allVars(InDaemon(Daemon!Iterate)) /\ WF_allVars(InDaemon(Daemon!Tick))

(* Every pixel packed has each channel in its own bits, whatever bitfields *)
(* the kernel reports: others than the six orders of RGB565 are refused    *)
(* (display.py, 139-152 and 170-180).                                      *)
PixelIsFaithful == part = "pixels" => Pixel!PixelIsFaithful /\ Pixel!OnlyTilingsArePacked

(* A page without data is never drawn, and no page that does not exist,    *)
(* whatever was edited, lost or broken between two steps of the daemon     *)
(* (_available_pages, and run_daemon's choice).                            *)
DrawnPageHasData == part = "daemon" => Daemon!TypeOK /\ Daemon!DrawnPageHasData

(* A page that rotates in keeps its seconds (run_daemon, 1186-1188).       *)
PageKeepsItsTime == Daemon!PageKeepsItsTime

(* Once the settings and the sensors stay, every page of the rotation is   *)
(* shown again and again, and a fixed page comes back with its data.       *)
PagesReturn == Daemon!PagesReturn

-----------------------------------------------------------------------------
MCModes ==
    {[stride |-> 4, x |-> 0, y |-> 0, xvirtual |-> 2, yvirtual |-> 2, memory |-> 8],
     [stride |-> 4, x |-> 0, y |-> 1, xvirtual |-> 2, yvirtual |-> 3, memory |-> 14],
     [stride |-> 8, x |-> 1, y |-> 1, xvirtual |-> 3, yvirtual |-> 3, memory |-> 24],
     [stride |-> 6, x |-> 2, y |-> 0, xvirtual |-> 3, yvirtual |-> 2, memory |-> 12],
     [stride |-> 4, x |-> 0, y |-> 1, xvirtual |-> 2, yvirtual |-> 2, memory |-> 8],
     [stride |-> 6, x |-> 0, y |-> 0, xvirtual |-> 3, yvirtual |-> 3, memory |-> 12],
     [stride |-> 4, x |-> 0, y |-> 0, xvirtual |-> 2, yvirtual |-> 2, memory |-> 25]}

(* Three pages, two of which come and go: a rotation over all of them, one *)
(* without the overview, the rotation switched off with the display, and a *)
(* fixed page.                                                             *)
MCRotation == [enabled |-> TRUE, screen |-> "fan", refresh |-> 2, rotation |-> TRUE,
               seconds |-> 3, pages |-> <<"overview", "cpu", "fan">>]
MCConfigs == {MCRotation,
              [MCRotation EXCEPT !.enabled = FALSE],
              [MCRotation EXCEPT !.pages = <<"cpu", "fan">>, !.seconds = 2],
              [MCRotation EXCEPT !.rotation = FALSE]}
=============================================================================
