---------------------------- MODULE NetworkRates ----------------------------
(***************************************************************************)
(* _network_rates of board-support/e87n/hardware.py: bytes per second from *)
(* two samples of the counters of interfaces that come, go and start to    *)
(* count again.                                                            *)
(***************************************************************************)
EXTENDS Integers

CONSTANTS
    Interfaces,
    MaxCount, MaxSamples, \* bounds: bytes, snapshots
    MaxElapsed, \* the longest interval that counts, 120 seconds
    None

VARIABLES
    counter,   \* bytes of each interface, None for one that is not there
    clock,     \* time.monotonic since the last snapshot
    previous,  \* _previous_network
    rates,     \* the result: [bytes, elapsed] by interface
    carried,   \* for the property: bytes carried since the last snapshot,
    restarted, \* and interfaces that counted from 0 again since
    samples

vars == <<counter, clock, previous, rates, carried, restarted, samples>>

Tick ==
    /\ clock <= MaxElapsed
    /\ clock' = clock + 1
    /\ UNCHANGED <<counter, previous, rates, carried, restarted, samples>>

Carry(i) ==
    /\ counter[i] # None /\ counter[i] < MaxCount /\ carried[i] < 2 * MaxCount
    /\ counter' = [counter EXCEPT ![i] = @ + 1]
    /\ carried' = [carried EXCEPT ![i] = @ + 1]
    /\ UNCHANGED <<clock, previous, rates, restarted, samples>>

(* It is taken away or made again. *)
Plug(i) ==
    /\ counter' = [counter EXCEPT ![i] = IF @ = None THEN 0 ELSE None]
    /\ restarted' = restarted \cup {i}
    /\ UNCHANGED <<clock, previous, rates, carried, samples>>

Keep(seen) == seen

(* Mutant: a counter that started again is subtracted as it is. *)
RateOfAny(value, old) ==
    IF old = None \/ value = None \/ clock \notin 1..MaxElapsed THEN None
    ELSE [bytes |-> value - old, elapsed |-> clock]

Rate(value, old) ==
    IF old = None \/ value = None \/ clock \notin 1..MaxElapsed \/ value < old THEN None
    ELSE [bytes |-> value - old, elapsed |-> clock]

(* One snapshot; the files of some interfaces may be unreadable.           *)
Sample ==
    /\ samples < MaxSamples /\ samples' = samples + 1
    /\ \E read \in SUBSET Interfaces :
        LET seen == [i \in Interfaces |-> IF i \in read THEN counter[i] ELSE None] IN
        /\ rates' = [i \in Interfaces |-> Rate(seen[i], previous[i])]
        /\ previous' = Keep(seen)
    /\ clock' = 0 /\ carried' = [i \in Interfaces |-> 0] /\ restarted' = {}
    /\ UNCHANGED counter

Init ==
    /\ counter = [i \in Interfaces |-> 0] /\ clock = 0
    /\ previous = [i \in Interfaces |-> None] /\ rates = previous
    /\ carried = counter /\ restarted = {} /\ samples = 0

Next == Tick \/ (\E i \in Interfaces : Carry(i) \/ Plug(i)) \/ Sample

Spec == Init /\ [][Next]_vars

-----------------------------------------------------------------------------
(* A rate shown is never more than what the interface has carried since    *)
(* the last snapshot, and just that if it was there all the time.          *)
RateIsCarried ==
    [][samples' # samples =>
        \A i \in Interfaces : rates'[i] # None =>
            /\ rates'[i].bytes \in 0..carried[i]
            /\ i \notin restarted => rates'[i].bytes = carried[i]]_vars
=============================================================================
