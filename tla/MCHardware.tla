----------------------------- MODULE MCHardware -----------------------------
(* The parts of hardware.py that share no state: one process that tests    *)
(* the fan, with the signals that reach it, or the snapshots that show     *)
(* CPU usage, or those that show network rates.                            *)
EXTENDS FanTest

CONSTANTS Interfaces, MaxCount, MaxSamples, MaxElapsed, None

VARIABLES part,
    cpu, previousCpu, usage, seen, cpuSamples,
    counter, clock, previousNet, rates, carried, restarted, netSamples

cpuVars == <<cpu, previousCpu, usage, seen, cpuSamples>>
netVars == <<counter, clock, previousNet, rates, carried, restarted, netSamples>>

Usage == INSTANCE CpuUsage WITH previous <- previousCpu, samples <- cpuSamples
Rates == INSTANCE NetworkRates WITH previous <- previousNet, samples <- netSamples

HardwareInit == part \in {"fan", "cpu", "net"} /\ Init /\ Usage!Init /\ Rates!Init

HardwareNext ==
    \/ part = "fan" /\ Next /\ UNCHANGED <<part, cpuVars, netVars>>
    \/ part = "cpu" /\ Usage!Next /\ UNCHANGED <<part, vars, netVars>>
    \/ part = "net" /\ Rates!Next /\ UNCHANGED <<part, vars, cpuVars>>

HardwareSpec == HardwareInit /\ [][HardwareNext]_<<part, vars, cpuVars, netVars>>

(* The rates shown are those of the time since the last snapshot, whatever *)
(* the counters did and whichever sample could not be read: usage between  *)
(* 0 and 1, no more bytes than were carried (hardware.py, 263-320).        *)
RatesAreTrue == Usage!UsageIsOfThisInterval /\ Rates!RateIsCarried

OneTester == {"shell"}
AllSignals == {"INT", "KILL"}
=============================================================================
