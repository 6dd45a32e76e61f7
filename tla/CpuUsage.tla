------------------------------ MODULE CpuUsage ------------------------------
(***************************************************************************)
(* _cpu_usage of board-support/e87n/hardware.py: the difference of two     *)
(* samples of jiffies that may go back or be unreadable once.              *)
(***************************************************************************)
EXTENDS Integers

CONSTANTS MaxCount, MaxSamples, \* bounds: jiffies, snapshots
          None

(* Of the eight fields the code adds up. *)
Fields == {"busy", "idle", "iowait"}

VARIABLES
    cpu,      \* the kernel's jiffies
    previous, \* _previous_cpu
    usage,    \* the result: [part, of]
    seen,     \* for the property: the jiffies at the last snapshot
    samples

vars == <<cpu, previous, usage, seen, samples>>

Total(jiffies) == jiffies["busy"] + jiffies["idle"] + jiffies["iowait"]
Delta(now, before) == [f \in Fields |-> now[f] - before[f]]

(* Time passes.  A field may go back: iowait does, and all that a CPU      *)
(* taken offline has counted.                                              *)
Count ==
    /\ cpu' \in [Fields -> 0..MaxCount]
    /\ UNCHANGED <<previous, usage, seen, samples>>

Share(delta) == [part |-> Total(delta) - delta["idle"] - delta["iowait"], of |-> Total(delta)]

(* None if a field goes back or nothing moves. *)
Usage(now) ==
    IF \/ previous = None \/ now = None
       \/ \E f \in Fields : Delta(now, previous)[f] < 0
       \/ Total(Delta(now, previous)) = 0
    THEN None
    ELSE Share(Delta(now, previous))

(* Mutant: the sample before one that failed is kept. *)
KeepGood(now) == IF now = None THEN previous ELSE now

(* The previous sample is dropped before the file is looked at. *)
Keep(now) == now

(* One snapshot; /proc/stat may be unreadable or not understood.           *)
Sample ==
    /\ samples < MaxSamples /\ samples' = samples + 1
    /\ \E now \in {cpu, None} : usage' = Usage(now) /\ previous' = Keep(now)
    /\ seen' = cpu
    /\ UNCHANGED cpu

Init ==
    /\ cpu = [f \in Fields |-> 0]
    /\ previous = None /\ usage = None /\ seen = cpu /\ samples = 0

Next == Count \/ Sample

Spec == Init /\ [][Next]_vars

-----------------------------------------------------------------------------
(* A usage shown is between 0 and 1, and that of the time since the last   *)
(* snapshot: not of a longer time because a sample could not be read.      *)
UsageIsOfThisInterval ==
    [][samples' # samples /\ usage' # None =>
        /\ usage'.part \in 0..usage'.of /\ usage'.of > 0
        /\ usage' = Share(Delta(cpu, seen))]_vars
=============================================================================
