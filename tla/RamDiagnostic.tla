---------------------------- MODULE RamDiagnostic ----------------------------
(***************************************************************************)
(* The RAM diagnostic on the board, scripts/ramdiag/assets: PID 1          *)
(* (init-network-first), the watchdog keeper it starts, and the shell      *)
(* ("services") that makes the host key and keeps sshd running.            *)
(*                                                                         *)
(* A tick is a quarter of a second.  Programs take no time, but PID 1 may  *)
(* stay anywhere behind its first mounts as long as it likes; the watchdog,*)
(* armed by the firmware, resets the board Bite ticks after its last ping. *)
(***************************************************************************)
EXTENDS Naturals, Sequences

CONSTANTS
    Bite,     \* ticks of the watchdog
    Attempts, \* looks for the device, and starts of the keeper, in one boot
    MaxLate,  \* bound: ticks until the watchdog's device exists
    MaxFaults \* bound: processes that fail or are killed

VARIABLES
    step,    \* where PID 1 is in Script
    failed,  \* PID 1 sleeps in fail for ever
    keeper,  \* the next step of watchdog_loop and of stop-watchdog.py in it
    attempt, \* of watchdog_loop
    device,  \* /dev/watchdog0 or /dev/watchdog exists
    late,    \* ticks it did not
    left,    \* ticks until the reset; 0 is the reset
    shell,   \* the next step of "services"
    key,     \* the host key exists
    sshd,    \* a server runs
    faults   \* faults so far

initVars == <<step, failed>>
dogVars == <<keeper, attempt, device, late, left>>
shellVars == <<shell, key, sshd>>
vars == <<initVars, dogVars, shellVars, faults>>

(* The device is not so late, and not so much fails, that the looks or the *)
(* watchdog's time run out.  On the board these are 120 looks and 31 s.    *)
KeeperSuffices ==
    /\ MaxLate \in Nat /\ MaxFaults \in Nat
    /\ Attempts \in Nat /\ Attempts > MaxLate + MaxFaults + 1
    /\ Bite \in Nat /\ Bite > MaxLate + MaxFaults + 1 /\ Bite > MaxFaults + 2

(* The watchdog does not count. *)
Disabled == Bite + 1

Up == left # 0

(* Mutant: the keeper is started when the checks have passed, as it was.   *)
LateScript == <<"runtime", "terminals", "checks", "network", "keeper", "services", "supervise">>

(* The order of init-network-first; "runtime" is what the keeper needs.    *)
Script == <<"runtime", "keeper", "terminals", "checks", "network", "services", "supervise">>

Here(s) == Up /\ ~failed /\ Script[step] = s

Fault == faults < MaxFaults /\ faults' = faults + 1

-----------------------------------------------------------------------------
(* PID 1 *)

(* Mounts, the check that the eMMC is off, the search for a link. *)
SetUp ==
    /\ \E s \in {"runtime", "terminals", "checks", "network"} : Here(s)
    /\ step' = step + 1
    /\ UNCHANGED <<failed, dogVars, shellVars, faults>>

StartKeeper ==
    /\ Here("keeper")
    /\ keeper' = "look" /\ step' = step + 1
    /\ UNCHANGED <<failed, attempt, device, late, left, shellVars, faults>>

StartServices ==
    /\ Here("services")
    /\ shell' = "start" /\ step' = step + 1
    /\ UNCHANGED <<failed, dogVars, key, sshd, faults>>

Supervise ==
    /\ Here("supervise") /\ shell = "gone"
    /\ shell' = "start"
    /\ UNCHANGED <<initVars, dogVars, key, sshd, faults>>

(* fail: a mount, a check, no link, an MMC device. *)
Fail ==
    /\ \E s \in {"runtime", "terminals", "checks", "network", "supervise"} : Here(s)
    /\ failed' = TRUE
    /\ UNCHANGED <<step, dogVars, shellVars, faults>>

Pid1 == SetUp \/ StartKeeper \/ StartServices \/ Supervise

-----------------------------------------------------------------------------
(* The watchdog's keeper *)

(* Another round of the loop after a quarter of a second, or no more.      *)
NextAttempt ==
    /\ attempt' = attempt + 1
    /\ keeper' = IF attempt + 1 < Attempts THEN "pause" ELSE "over"

(* Is there a device? *)
Look ==
    /\ Up /\ keeper = "look"
    /\ IF device THEN keeper' = "open" /\ UNCHANGED attempt ELSE NextAttempt
    /\ UNCHANGED <<initVars, device, late, left, shellVars, faults>>

(* Opening the device pings it. *)
Open ==
    /\ Up /\ keeper = "open"
    /\ left' = Bite /\ keeper' = "disable"
    /\ UNCHANGED <<initVars, attempt, device, late, shellVars, faults>>

(* The driver disables the card, or it does not support that. *)
Disable ==
    /\ Up /\ keeper = "disable"
    /\ \/ left' = Disabled /\ keeper' = "off"
       \/ keeper' = "ping" /\ UNCHANGED left
    /\ UNCHANGED <<initVars, attempt, device, late, shellVars, faults>>

Ping ==
    /\ Up /\ keeper = "ping"
    /\ left' = Bite /\ keeper' = "rest"
    /\ UNCHANGED <<initVars, attempt, device, late, shellVars, faults>>

(* Mutant: the keeper is started once. *)
ExitIsFinal ==
    /\ Up /\ keeper \in {"open", "disable", "ping", "rest", "doze"} /\ Fault
    /\ keeper' = "over"
    /\ UNCHANGED <<initVars, attempt, device, late, left, shellVars>>

(* The device cannot be opened, both ways to ping it fail, or the process  *)
(* is killed: it is closed without the magic character and stays armed.    *)
KeeperExits ==
    /\ Up /\ keeper \in {"open", "disable", "ping", "rest", "doze"} /\ Fault
    /\ NextAttempt
    /\ UNCHANGED <<initVars, device, late, left, shellVars>>

Keeper == Look \/ Open \/ Disable \/ Ping

-----------------------------------------------------------------------------
(* The shell of the services *)

Prepare ==
    /\ Up /\ shell = "start"
    /\ shell' = "key"
    /\ UNCHANGED <<initVars, dogVars, key, sshd, faults>>

(* Before it overwrites a key, ssh-keygen asks at the console.             *)
MakeKey ==
    /\ Up /\ shell = "key"
    /\ shell' = IF key THEN "asks" ELSE "serve"
    /\ key' = TRUE
    /\ UNCHANGED <<initVars, dogVars, sshd, faults>>

Serve ==
    /\ Up /\ shell = "serve"
    /\ sshd' = TRUE /\ shell' = "wait"
    /\ UNCHANGED <<initVars, dogVars, key, faults>>

(* Mutant: it ends with its server. *)
LeaveServing ==
    /\ Up /\ shell = "wait" /\ ~sshd
    /\ shell' = "gone"
    /\ UNCHANGED <<initVars, dogVars, key, sshd, faults>>

ServeAgain ==
    /\ Up /\ shell = "wait" /\ ~sshd
    /\ shell' = "serve"
    /\ UNCHANGED <<initVars, dogVars, key, sshd, faults>>

Shell == Prepare \/ MakeKey \/ Serve \/ ServeAgain

SshdExits ==
    /\ Up /\ sshd /\ Fault
    /\ sshd' = FALSE
    /\ UNCHANGED <<initVars, dogVars, shell, key>>

(* Its fail, which sleeps for ever, or its end; its server goes on.        *)
ShellFails ==
    /\ Up /\ shell \in {"start", "key", "serve", "wait"} /\ Fault
    /\ shell' \in {"failed", "gone"}
    /\ UNCHANGED <<initVars, dogVars, key, sshd>>

-----------------------------------------------------------------------------
Appear ==
    /\ Up /\ ~device
    /\ device' = TRUE
    /\ UNCHANGED <<initVars, keeper, attempt, late, left, shellVars, faults>>

(* What takes no time is done. *)
Idle ==
    /\ keeper \notin {"look", "open", "disable", "ping"}
    /\ ~(Here("runtime") \/ Here("keeper"))

(* The loop pauses for a tick, the keeper rests for two. *)
Later(k) ==
    CASE k = "pause" -> "look"
      [] k = "rest"  -> "doze"
      [] k = "doze"  -> "ping"
      [] OTHER       -> k

Tick ==
    /\ Up /\ Idle
    /\ device \/ late < MaxLate
    /\ late' = IF device THEN late ELSE late + 1
    /\ left' = IF left = Disabled THEN left ELSE left - 1
    /\ keeper' = Later(keeper)
    /\ UNCHANGED <<initVars, attempt, device, shellVars, faults>>

Init ==
    /\ step = 1 /\ failed = FALSE
    /\ keeper = "none" /\ attempt = 0 /\ device \in BOOLEAN /\ late = 0 /\ left = Bite
    /\ shell = "none" /\ key = FALSE /\ sshd = FALSE /\ faults = 0

Next ==
    \/ Pid1 \/ Fail \/ Keeper \/ KeeperExits \/ Shell \/ SshdExits \/ ShellFails
    \/ Appear \/ Tick

(* Every process that can go on is scheduled; no failure is certain.       *)
FairSpec ==
    Init /\ [][Next]_vars /\ WF_vars(Pid1) /\ WF_vars(Keeper) /\ WF_vars(Shell)

-----------------------------------------------------------------------------
TypeOK ==
    /\ step \in DOMAIN Script /\ failed \in BOOLEAN
    /\ keeper \in {"none", "look", "open", "disable", "ping", "rest", "doze",
                  "pause", "off", "over"}
    /\ attempt \in 0..Attempts
    /\ device \in BOOLEAN /\ late \in 0..MaxLate /\ left \in 0..Disabled
    /\ shell \in {"none", "start", "key", "serve", "wait", "asks", "failed", "gone"}
    /\ key \in BOOLEAN /\ sshd \in BOOLEAN
    /\ faults \in 0..MaxFaults

(* The watchdog resets the board only when PID 1 could not mount what the  *)
(* keeper needs: not while a check has failed and somebody reads why, not  *)
(* because its device came late, a ping failed or the keeper was killed    *)
(* (init-network-first, 54-58 and 70-72).                                  *)
NeverBites == left = 0 => failed /\ Script[step] = "runtime"

(* The shell can start a server without an answer from the console. *)
Serving == shell \in {"serve", "wait"} \/ (shell \in {"start", "key"} /\ ~key)

(* PID 1 gets to the services unless a check fails; and when nothing fails *)
(* any more, an sshd that has exited is started again (services, 21-28).   *)
ServerReturns ==
    /\ <>(step = Len(Script) \/ failed \/ ~Up)
    /\ (faults = MaxFaults /\ Serving /\ ~sshd) ~> (sshd \/ ~Up)

(* A service shell that exits is recovered (init-network-first, 155-158).  *)
ServicesRecover ==
    shell = "gone" ~> (sshd \/ shell = "failed" \/ failed \/ ~Up)
=============================================================================
