------------------------------- MODULE FanTest -------------------------------
(***************************************************************************)
(* board-support/e87n/hardware.py, fan_test: a cooling level is tried for  *)
(* some seconds and the level found before is put back, while the thermal  *)
(* governor of the kernel keeps setting levels of its own.                 *)
(*                                                                         *)
(* Every command "e87nctl fan test" is a process of its own; nothing       *)
(* orders two of them.  A process can be interrupted (SIGINT, an exception *)
(* at whatever line runs) or killed.                                       *)
(***************************************************************************)
EXTENDS Integers, Sequences

CONSTANTS
    Testers,   \* processes that run a test
    MaxLevel,  \* max_state of the cooling device
    Signals    \* what may hit a process: a subset of {"INT", "KILL"}

ASSUME MaxLevelAssumption == MaxLevel \in Nat
ASSUME SignalsAssumption == Signals \subseteq {"INT", "KILL"}

VARIABLES
    level,     \* cur_state of the cooling device
    chosen,    \* for the properties: the level found when testing began and
               \* the levels the governor has set since
    pc,        \* the next step of each process, or how it ended
    request,   \* the level asked for
    previous,  \* the level found
    failing,   \* the first write raised, and finally is running
    wrote,     \* for the properties: what the process has written
    cut        \* for the properties: since testing began, a process ended
               \* without a write that puts a level back

vars == <<level, chosen, pc, request, previous, failing, wrote, cut>>

Levels == 0..MaxLevel
Requests == -1..(MaxLevel + 1)
Ended == {"off", "refused", "returned", "failed", "interrupted", "killed"}
Running == {"read", "write", "wait", "restore"}

Init ==
    /\ level \in Levels
    /\ chosen = {level}
    /\ pc = [t \in Testers |-> "off"]
    /\ request = [t \in Testers |-> 0]
    /\ previous = [t \in Testers |-> 0]
    /\ failing = [t \in Testers |-> FALSE]
    /\ wrote = [t \in Testers |-> <<>>]
    /\ cut = FALSE

Goto(t, step) == pc' = [pc EXCEPT ![t] = step]

(* The governor moves the fan whenever the temperature asks for it. *)
Govern(l) ==
    /\ l # level
    /\ level' = l
    /\ chosen' = chosen \cup {l}
    /\ UNCHANGED <<pc, request, previous, failing, wrote, cut>>

(* A new process; its arguments, its authority and the cooling device are  *)
(* checked, and a test that cannot be made is refused.                     *)
Call(t, state) ==
    /\ pc[t] \in Ended
    /\ request' = [request EXCEPT ![t] = state]
    /\ previous' = [previous EXCEPT ![t] = 0]
    /\ failing' = [failing EXCEPT ![t] = FALSE]
    /\ wrote' = [wrote EXCEPT ![t] = <<>>]
    /\ \/ Goto(t, "refused")
       \/ state \in Levels /\ Goto(t, "read")
    /\ IF \A u \in Testers : pc[u] \in Ended
          THEN chosen' = {level} /\ cut' = FALSE
          ELSE UNCHANGED <<chosen, cut>>
    /\ UNCHANGED level

(* Mutant: the level is not read; the lowest one is put back. *)
ReadNothing(t) ==
    /\ pc[t] = "read"
    /\ Goto(t, "write")
    /\ UNCHANGED <<level, chosen, request, previous, failing, wrote, cut>>

(* The level to put back is read; then cur_state is opened, or cannot be. *)
Read(t) ==
    /\ pc[t] = "read"
    /\ previous' = [previous EXCEPT ![t] = level]
    /\ Goto(t, "write") \/ Goto(t, "failed")
    /\ UNCHANGED <<level, chosen, request, failing, wrote, cut>>

Put(t, l) ==
    /\ level' = l
    /\ wrote' = [wrote EXCEPT ![t] = Append(@, l)]
    /\ UNCHANGED <<chosen, request, previous>>

(* An attribute that cannot be written raises, and finally runs all the same. *)
Write(t) ==
    /\ pc[t] = "write"
    /\ Goto(t, "wait")
    /\ UNCHANGED cut
    /\ \/ Put(t, request[t]) /\ UNCHANGED failing
       \/ /\ failing' = [failing EXCEPT ![t] = TRUE]
          /\ UNCHANGED <<level, chosen, request, previous, wrote>>

(* time.sleep(seconds), which is bounded *)
Wait(t) ==
    /\ pc[t] = "wait"
    /\ Goto(t, "restore")
    /\ UNCHANGED <<level, chosen, request, previous, failing, wrote, cut>>

(* Mutant: a failed write is forgotten once the level is back. *)
RestoreQuietly(t) ==
    /\ pc[t] = "restore"
    /\ Put(t, previous[t]) /\ Goto(t, "returned")
    /\ UNCHANGED <<failing, cut>>

(* The level is put back; the snapshot that follows only reads. *)
Restore(t) ==
    /\ pc[t] = "restore"
    /\ \/ /\ Put(t, previous[t])
          /\ Goto(t, IF failing[t] THEN "failed" ELSE "returned")
          /\ UNCHANGED cut
       \/ /\ Goto(t, "failed")
          /\ cut' = TRUE
          /\ UNCHANGED <<level, chosen, request, previous, wrote>>
    /\ UNCHANGED failing

(* A process that ends here has written the one level and not the other. *)
Leave(t, end) ==
    /\ pc[t] \in Running
    /\ Goto(t, end)
    /\ cut' = (cut \/ pc[t] \in {"wait", "restore"})
    /\ UNCHANGED <<level, chosen, request, previous, failing, wrote>>

(* KeyboardInterrupt: in front of the write, if the try has been entered,  *)
(* finally still waits and restores; within finally nothing does.          *)
Interrupt(t) ==
    /\ "INT" \in Signals
    /\ \/ Leave(t, "interrupted")
       \/ /\ pc[t] = "write"
          /\ Goto(t, "wait")
          /\ failing' = [failing EXCEPT ![t] = TRUE]
          /\ UNCHANGED <<level, chosen, request, previous, wrote, cut>>

Kill(t) ==
    /\ "KILL" \in Signals
    /\ Leave(t, "killed")

Next ==
    \/ \E l \in Levels : Govern(l)
    \/ \E t \in Testers :
         \/ \E state \in Requests : Call(t, state)
         \/ Read(t) \/ Write(t) \/ Wait(t) \/ Restore(t)
         \/ Interrupt(t) \/ Kill(t)

Spec == Init /\ [][Next]_vars

(***************************************************************************)
(* Properties.                                                             *)
(***************************************************************************)

(* The types of the state, of the level the device is given above all. *)
TypeOK ==
    /\ level \in Levels
    /\ chosen \subseteq Levels
    /\ pc \in [Testers -> Ended \cup Running]
    /\ request \in [Testers -> Requests]
    /\ previous \in [Testers -> Levels]
    /\ failing \in [Testers -> BOOLEAN]
    /\ wrote \in [Testers -> Seq(Levels)]
    /\ cut \in BOOLEAN

(* "Apply one cooling level briefly, then restore the kernel-controlled    *)
(* level": once nobody tests, and no test was cut short, the fan runs at   *)
(* the level found when testing began or at one the governor has set       *)
(* since, whatever updates, refused and failed tests came in between       *)
(* (fan_test, hardware.py:625).                                            *)
KernelLevelLeft ==
    (~cut /\ \A t \in Testers : pc[t] \in Ended) => level \in chosen

(* A call that returns its report ("tested_state", "restored_state") has   *)
(* made exactly the two writes it reports, in their order.                 *)
ReportIsTrue ==
    \A t \in Testers : pc[t] = "returned" => wrote[t] = <<request[t], previous[t]>>

(* "Restore even if the bounded wait is interrupted": a call that ended    *)
(* with an interrupt after it had written the level to try has put the     *)
(* other one back (hardware.py:655).                                       *)
InterruptedWaitRestores ==
    \A t \in Testers :
        pc[t] = "interrupted" /\ ~failing[t] /\ wrote[t] # <<>>
            => wrote[t] = <<request[t], previous[t]>>

=============================================================================
