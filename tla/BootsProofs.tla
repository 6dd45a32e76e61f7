----------------------------- MODULE BootsProofs -----------------------------
(* What is proved of what a board boots: that the RAM diagnostic feeds its *)
(* watchdog, that the images it is loaded from are what their manifest     *)
(* says, and what factory_boot.py and its units keep true on every board,  *)
(* for any number of boots, restarts, failures, builds and time limits.    *)
EXTENDS MCBoots, Sequences, TLAPS

-----------------------------------------------------------------------------
(* The RAM diagnostic: what is left of the watchdog's time.                *)
Paused == IF keeper = "pause" THEN 1 ELSE 0

(* The attempt that the device ended, or that will go on after the pause.  *)
Awaited == IF device \/ keeper = "pause" THEN 1 ELSE 0

(* Every pause of a tick is an attempt: one of them for each tick without  *)
(* a device and for each failure, and one more when the device appears.    *)
Counted ==
    keeper # "none" =>
        /\ step > 2
        /\ ~device => keeper \in {"look", "pause"}
        /\ attempt <= late + faults + Awaited
        /\ keeper = "pause" => attempt >= 1

(* Since the last ping, or since the board was started, no more ticks have *)
(* passed than there were pauses, and two for the rest after a ping.       *)
Fed ==
    /\ keeper = "none" => /\ step <= 2 /\ attempt = 0
                          /\ left = Bite \/ (failed /\ step = 1)
    /\ step = 2 => ~failed
    /\ keeper # "over"
    /\ keeper \in {"look", "open", "pause"} =>
           \/ left + attempt >= Bite + Paused
           \/ device /\ left + faults + 2 >= Bite + Paused
    /\ keeper \in {"disable", "rest"} => left = Bite
    /\ keeper = "doze" => left = Bite - 1
    /\ keeper = "ping" => left + 2 >= Bite
    /\ keeper = "off" => left = Bite + 1

DogInv == Diagnostic!TypeOK /\ Counted /\ Fed

LEMMA Keepers ==
    /\ MaxLate \in Nat /\ MaxFaults \in Nat
    /\ Attempts \in Nat /\ Attempts > MaxLate + MaxFaults + 1
    /\ Bite \in Nat /\ Bite > MaxLate + MaxFaults + 1 /\ Bite > MaxFaults + 2
BY KeeperAssumption DEF Diagnostic!KeeperSuffices

(* Bounds on sums, which the provers find for such names only.             *)
LEMMA BoundGrows ==
    ASSUME NEW a \in Nat, NEW l \in Nat, NEW f \in Nat, NEW g \in Nat, NEW x \in Nat,
           NEW y \in Nat, f <= g, x <= y, a <= l + f + x
    PROVE  a <= l + g + y
OBVIOUS

LEMMA RestGrows ==
    ASSUME NEW b \in Nat, NEW l \in Nat, NEW f \in Nat, NEW g \in Nat, NEW x \in Nat,
           f <= g, l + f + 2 >= b + x
    PROVE  l + g + 2 >= b + x
OBVIOUS

LEMMA OneMore ==
    ASSUME NEW b \in Nat, NEW l \in Nat, NEW n \in Nat
    PROVE  /\ l + n >= b + 0 => l + (n + 1) >= b + 1
           /\ l + n + 2 >= b + 0 => l + (n + 1) + 2 >= b + 1
OBVIOUS

LEMMA AttemptsLeft ==
    ASSUME NEW n \in Nat, NEW l \in 0..MaxLate, NEW f \in 0..MaxFaults,
           n <= l + f \/ (n <= l + f + 1 /\ f < MaxFaults)
    PROVE  n + 1 < Attempts
BY Keepers

LEMMA DogScript ==
    /\ DOMAIN Diagnostic!Script = 1..7
    /\ Diagnostic!Script[1] = "runtime" /\ Diagnostic!Script[2] = "keeper"
    /\ \A s \in 3..7 : Diagnostic!Script[s] \notin {"runtime", "keeper"}
    /\ Diagnostic!Script[7] = "supervise"
    /\ \A s \in 1..6 : Diagnostic!Script[s] # "supervise"
BY DEF Diagnostic!Script

LEMMA DogInit == Diagnostic!Init => DogInv
<1> SUFFICES ASSUME Diagnostic!Init PROVE DogInv
  OBVIOUS
<1> USE Keepers, DogScript DEF Diagnostic!Init
<1>0. Bite \in 0..(Bite + 1) /\ 1 \in DOMAIN Diagnostic!Script
  OBVIOUS
<1>1. 0 \in 0..Attempts /\ 0 \in 0..MaxLate /\ 0 \in 0..MaxFaults
  OBVIOUS
<1>2. Diagnostic!TypeOK
  BY <1>0, <1>1, Zenon DEF Diagnostic!TypeOK, Diagnostic!Disabled
<1>3. Counted /\ Fed
  BY DEF Counted, Fed
<1> QED
  BY <1>2, <1>3 DEF DogInv

(* The board was not reset, and the attempts of the keeper do not run out. *)
LEMMA DogHolds ==
    ASSUME DogInv
    PROVE  /\ keeper \notin {"none"} => attempt <= MaxLate + MaxFaults + 1
           /\ Diagnostic!NeverBites
<1> USE Keepers, DogScript DEF DogInv, Diagnostic!TypeOK, Diagnostic!Disabled
<1>0. Awaited \in {0, 1}
  BY DEF Awaited
<1>1. keeper # "none" => attempt <= MaxLate + MaxFaults + 1
  BY <1>0 DEF Counted
<1>2. keeper # "none" => left > 0
  <2>1. CASE keeper \in {"look", "open", "pause"}
    BY <1>1, <2>1 DEF Fed, Paused, Counted, Awaited
  <2>2. CASE keeper \in {"disable", "ping", "rest", "doze", "off"}
    BY <2>2 DEF Fed
  <2> QED
    BY <2>1, <2>2 DEF Fed
<1>3. keeper = "none" /\ left = 0 => failed /\ step = 1
  BY DEF Fed
<1> QED
  BY <1>1, <1>2, <1>3 DEF Diagnostic!NeverBites

(* PID 1, the shell and the device take no time from the keeper.           *)
LEMMA DogOthers ==
    ASSUME DogInv, keeper' = keeper, attempt' = attempt, late' = late, left' = left,
           faults' \in {faults, faults + 1}, faults' \in 0..MaxFaults,
           device' \in BOOLEAN, device => device',
           \/ step' = step /\ failed' = failed
           \/ step' = step + 1 /\ failed' = failed /\ step # 2 /\ ~failed /\ step' \in 1..7
           \/ failed' = TRUE /\ step' = step /\ step # 2,
           Diagnostic!TypeOK'
    PROVE  DogInv'
<1>1. /\ step \in Nat /\ faults \in Nat /\ attempt \in Nat /\ late \in Nat /\ left \in Nat
      /\ Counted /\ Fed
  BY Keepers, DogScript DEF DogInv, Diagnostic!TypeOK, Diagnostic!Disabled
<1>2. /\ keeper' = keeper /\ attempt' = attempt /\ late' = late /\ left' = left
      /\ faults' \in Nat /\ faults <= faults'
  BY <1>1
<1>3. /\ step' \in Nat /\ step' >= step
      /\ step' = step \/ step' = step + 1
      /\ step' # step => step # 2 /\ ~failed /\ ~failed'
      /\ step = 2 /\ failed' => failed
      /\ failed => failed'
  BY <1>1
<1>4. Awaited \in Nat /\ Awaited' \in Nat /\ Awaited <= Awaited'
  BY <1>2 DEF Awaited
<1>5. Paused' = Paused /\ Paused \in Nat
  BY <1>2 DEF Paused
<1>6. Counted'
  <2> SUFFICES ASSUME keeper # "none" PROVE Counted'
    BY <1>2 DEF Counted
  <2>1. /\ step > 2 /\ attempt <= late + faults + Awaited
        /\ ~device => keeper \in {"look", "pause"}
        /\ keeper = "pause" => attempt >= 1
    BY <1>1 DEF Counted
  <2>2. attempt <= late + faults' + Awaited'
    BY <1>1, <1>2, <1>4, <2>1, BoundGrows
  <2>3. step' > 2
    BY <1>1, <1>3, <2>1
  <2> QED
    BY <1>2, <2>1, <2>2, <2>3 DEF Counted
<1>7. /\ keeper' = "none" => /\ step' <= 2 /\ attempt' = 0
                             /\ left' = Bite \/ (failed' /\ step' = 1)
      /\ step' = 2 => ~failed'
  <2>1. /\ keeper = "none" => step <= 2 /\ attempt = 0
        /\ keeper = "none" => left = Bite \/ (failed /\ step = 1)
        /\ step = 2 => ~failed
    BY <1>1 DEF Fed
  <2>2. CASE step' = step + 1
    BY <1>1, <1>2, <1>3, <2>1, <2>2
  <2>3. CASE step' = step
    BY <1>1, <1>2, <1>3, <2>1, <2>3
  <2> QED
    BY <1>3, <2>2, <2>3
<1>8. keeper' \in {"look", "open", "pause"} =>
           \/ left' + attempt' >= Bite + Paused'
           \/ device' /\ left' + faults' + 2 >= Bite + Paused'
  <2>1. keeper \in {"look", "open", "pause"} =>
             \/ left + attempt >= Bite + Paused
             \/ device /\ left + faults + 2 >= Bite + Paused
    BY <1>1 DEF Fed
  <2>2. left + faults + 2 >= Bite + Paused => left + faults' + 2 >= Bite + Paused
    BY <1>1, <1>2, <1>5, Keepers, RestGrows
  <2> QED
    BY <1>2, <1>5, <2>1, <2>2, Zenon
<1>9. Fed'
  BY <1>1, <1>2, <1>7, <1>8 DEF Fed
<1> QED
  BY <1>6, <1>9 DEF DogInv

LEMMA DogPid1 ==
    ASSUME DogInv, Diagnostic!Pid1 \/ Diagnostic!Fail
    PROVE  DogInv'
<1> USE DogScript DEF Diagnostic!TypeOK, DogInv
<1>1. CASE Diagnostic!SetUp
  <2>1. /\ step' = step + 1 /\ step \in 1..6 /\ step # 2 /\ ~failed
        /\ UNCHANGED <<failed, keeper, attempt, device, late, left, shell, key, sshd, faults>>
    BY <1>1 DEF Diagnostic!SetUp, Diagnostic!Here, Diagnostic!dogVars, Diagnostic!shellVars
  <2>2. Diagnostic!TypeOK'
    BY <2>1
  <2> QED
    BY <2>1, <2>2, DogOthers
<1>2. CASE Diagnostic!StartKeeper
  <2>1. /\ step = 2 /\ step' = 3 /\ ~failed /\ keeper' = "look"
        /\ UNCHANGED <<failed, attempt, device, late, left, shell, key, sshd, faults>>
    BY <1>2 DEF Diagnostic!StartKeeper, Diagnostic!Here, Diagnostic!shellVars
  <2>2. keeper = "none" /\ attempt = 0 /\ left = Bite
    BY <2>1 DEF Counted, Fed
  <2> QED
    BY <2>1, <2>2, Keepers DEF Counted, Awaited, Fed, Paused
<1>3. CASE Diagnostic!StartServices
  <2>1. /\ step' = step + 1 /\ step = 6 /\ ~failed /\ shell' = "start"
        /\ UNCHANGED <<failed, keeper, attempt, device, late, left, key, sshd, faults>>
    BY <1>3 DEF Diagnostic!StartServices, Diagnostic!Here, Diagnostic!dogVars,
       Diagnostic!Script
  <2>2. Diagnostic!TypeOK' /\ step # 2 /\ step' \in 1..7
    BY <2>1
  <2> QED
    BY <2>1, <2>2, DogOthers
<1>4. CASE Diagnostic!Supervise
  <2>1. /\ shell' = "start"
        /\ UNCHANGED <<step, failed, keeper, attempt, device, late, left, key, sshd, faults>>
    BY <1>4 DEF Diagnostic!Supervise, Diagnostic!dogVars, Diagnostic!initVars
  <2>2. Diagnostic!TypeOK'
    BY <2>1
  <2> QED
    BY <2>1, <2>2, DogOthers
<1>5. CASE Diagnostic!Fail
  <2>1. /\ failed' = TRUE /\ step # 2
        /\ UNCHANGED <<step, keeper, attempt, device, late, left, shell, key, sshd, faults>>
    BY <1>5 DEF Diagnostic!Fail, Diagnostic!Here, Diagnostic!dogVars, Diagnostic!shellVars
  <2>2. Diagnostic!TypeOK'
    BY <2>1
  <2> QED
    BY <2>1, <2>2, DogOthers
<1> QED
  BY <1>1, <1>2, <1>3, <1>4, <1>5 DEF Diagnostic!Pid1

(* The keeper looks, opens, disables and pings in no time.                 *)
LEMMA DogKeeper ==
    ASSUME DogInv, Diagnostic!Keeper \/ Diagnostic!KeeperExits
    PROVE  DogInv'
<1> USE Keepers DEF Diagnostic!TypeOK, DogInv, Diagnostic!Disabled, Diagnostic!initVars,
      Diagnostic!shellVars
<1>1. CASE Diagnostic!Look
  <2>1. CASE device
    BY <1>1, <2>1 DEF Diagnostic!Look, Counted, Awaited, Fed, Paused
  <2>2. CASE ~device
    <3>1. attempt <= late + faults /\ step > 2
      <4>1. Awaited = 0 /\ keeper = "look"
        BY <1>1, <2>2 DEF Diagnostic!Look, Awaited
      <4> QED
        BY <4>1 DEF Counted
    <3>2. attempt' = attempt + 1 /\ attempt' \in 0..Attempts /\ keeper' = "pause"
      BY <1>1, <2>2, <3>1, AttemptsLeft DEF Diagnostic!Look, Diagnostic!NextAttempt
    <3>3. UNCHANGED <<step, failed, device, late, left, shell, key, sshd, faults>>
      BY <1>1 DEF Diagnostic!Look
    <3>4. Paused = 0 /\ Paused' = 1 /\ Awaited' = 1 /\ keeper = "look"
      BY <1>1, <3>2 DEF Diagnostic!Look, Paused, Awaited
    <3>5. left + attempt' >= Bite + 1
      BY <2>2, <3>2, <3>4, OneMore DEF Fed
    <3>6. Counted'
      BY <3>1, <3>2, <3>3, <3>4 DEF Counted
    <3>7. Fed'
      BY <3>1, <3>2, <3>3, <3>4, <3>5 DEF Fed
    <3>8. Diagnostic!TypeOK'
      BY <3>2, <3>3
    <3> QED
      BY <3>6, <3>7, <3>8
  <2> QED
    BY <2>1, <2>2
<1>2. CASE Diagnostic!Open
  BY <1>2 DEF Diagnostic!Open, Counted, Awaited, Fed, Paused
<1>3. CASE Diagnostic!Disable
  BY <1>3 DEF Diagnostic!Disable, Counted, Awaited, Fed, Paused
<1>4. CASE Diagnostic!Ping
  BY <1>4 DEF Diagnostic!Ping, Counted, Awaited, Fed, Paused
<1>5. CASE Diagnostic!KeeperExits
  <2>1. /\ device /\ step > 2 /\ attempt <= late + faults + 1
        /\ faults < MaxFaults /\ faults' = faults + 1
    <3>1. keeper \notin {"none", "look", "pause"} /\ Awaited \in {0, 1}
      BY <1>5 DEF Diagnostic!KeeperExits, Awaited
    <3>2. device /\ step > 2 /\ attempt <= late + faults + Awaited
      BY <3>1 DEF Counted
    <3> QED
      BY <1>5, <3>1, <3>2 DEF Diagnostic!KeeperExits, Diagnostic!Fault
  <2>2. attempt' = attempt + 1 /\ attempt' \in 0..Attempts /\ keeper' = "pause"
    BY <1>5, <2>1, AttemptsLeft DEF Diagnostic!KeeperExits, Diagnostic!NextAttempt
  <2>3. UNCHANGED <<step, failed, device, late, left, shell, key, sshd>>
    BY <1>5 DEF Diagnostic!KeeperExits
  <2>4. Paused = 0 /\ Paused' = 1 /\ Awaited' = 1
    BY <1>5, <2>1, <2>2, <2>3 DEF Diagnostic!KeeperExits, Paused, Awaited
  <2>5. \/ left + attempt' >= Bite + 1
        \/ left + faults' + 2 >= Bite + 1
    <3>1. CASE keeper = "open"
      BY <2>1, <2>2, <2>4, <3>1, OneMore DEF Fed
    <3>2. CASE keeper \in {"disable", "ping", "rest", "doze"}
      BY <2>1, <2>2, <3>2, OneMore DEF Fed
    <3> QED
      BY <1>5, <3>1, <3>2 DEF Diagnostic!KeeperExits
  <2>6. Counted'
    BY <2>1, <2>2, <2>3, <2>4 DEF Counted
  <2>7. Fed'
    BY <2>1, <2>2, <2>3, <2>4, <2>5 DEF Fed
  <2>8. Diagnostic!TypeOK'
    BY <2>1, <2>2, <2>3
  <2> QED
    BY <2>6, <2>7, <2>8
<1> QED
  BY <1>1, <1>2, <1>3, <1>4, <1>5 DEF Diagnostic!Keeper

LEMMA DogShell ==
    ASSUME DogInv,
           Diagnostic!Shell \/ Diagnostic!SshdExits \/ Diagnostic!ShellFails \/ Diagnostic!Appear
    PROVE  DogInv'
<1> USE DEF Diagnostic!TypeOK, DogInv
<1>1. CASE Diagnostic!Shell
  <2>1. /\ shell' \in {"key", "asks", "serve", "wait"} /\ key' \in BOOLEAN /\ sshd' \in BOOLEAN
        /\ UNCHANGED <<step, failed, keeper, attempt, device, late, left, faults>>
    BY <1>1 DEF Diagnostic!Shell, Diagnostic!Prepare, Diagnostic!MakeKey, Diagnostic!Serve,
       Diagnostic!ServeAgain, Diagnostic!dogVars, Diagnostic!initVars
  <2>2. Diagnostic!TypeOK'
    BY <2>1
  <2> QED
    BY <2>1, <2>2, DogOthers
<1>2. CASE Diagnostic!SshdExits
  <2>1. /\ sshd' = FALSE /\ faults < MaxFaults /\ faults' = faults + 1
        /\ UNCHANGED <<step, failed, keeper, attempt, device, late, left, shell, key>>
    BY <1>2 DEF Diagnostic!SshdExits, Diagnostic!Fault, Diagnostic!dogVars, Diagnostic!initVars
  <2>2. faults' \in 0..MaxFaults
    BY <2>1, Keepers
  <2>3. Diagnostic!TypeOK'
    BY <2>1, <2>2
  <2> QED
    BY <2>1, <2>2, <2>3, DogOthers
<1>3. CASE Diagnostic!ShellFails
  <2>1. /\ shell' \in {"failed", "gone"} /\ faults < MaxFaults /\ faults' = faults + 1
        /\ UNCHANGED <<step, failed, keeper, attempt, device, late, left, key, sshd>>
    BY <1>3 DEF Diagnostic!ShellFails, Diagnostic!Fault, Diagnostic!dogVars, Diagnostic!initVars
  <2>2. faults' \in 0..MaxFaults
    BY <2>1, Keepers
  <2>3. Diagnostic!TypeOK'
    BY <2>1, <2>2
  <2> QED
    BY <2>1, <2>2, <2>3, DogOthers
<1>4. CASE Diagnostic!Appear
  <2>1. /\ device' = TRUE
        /\ UNCHANGED <<step, failed, keeper, attempt, late, left, shell, key, sshd, faults>>
    BY <1>4 DEF Diagnostic!Appear, Diagnostic!shellVars, Diagnostic!initVars
  <2>2. Diagnostic!TypeOK'
    BY <2>1
  <2> QED
    BY <2>1, <2>2, DogOthers
<1> QED
  BY <1>1, <1>2, <1>4, <1>3

(* Time passes only in a pause or a rest of the keeper, when the card is   *)
(* off, or when PID 1 has failed before it could start a keeper.           *)
LEMMA DogTick == ASSUME DogInv, Diagnostic!Tick PROVE DogInv'
<1> USE Keepers, DogScript DEF Diagnostic!TypeOK, DogInv, Diagnostic!Disabled
<1>1. /\ left # 0 /\ keeper \notin {"look", "open", "disable", "ping"}
      /\ left' = IF left = Bite + 1 THEN left ELSE left - 1
      /\ keeper' = Diagnostic!Later(keeper)
      /\ late' = IF device THEN late ELSE late + 1
      /\ device \/ late < MaxLate
      /\ UNCHANGED <<step, failed, attempt, device, shell, key, sshd, faults>>
  BY DEF Diagnostic!Tick, Diagnostic!Up, Diagnostic!Idle, Diagnostic!initVars,
     Diagnostic!shellVars
<1>2. keeper = "none" => failed /\ step = 1
  <2>1. ~Diagnostic!Here("runtime") /\ ~Diagnostic!Here("keeper")
    BY DEF Diagnostic!Tick, Diagnostic!Idle
  <2>2. step \in {1, 2} => failed
    BY <1>1, <2>1 DEF Diagnostic!Here, Diagnostic!Up
  <2> QED
    BY <2>2 DEF Fed
<1>3. late' \in 0..MaxLate /\ left' \in 0..(Bite + 1)
  BY <1>1
<1>4. CASE keeper = "none"
  <2>1. keeper' = "none"
    BY <1>1, <1>4 DEF Diagnostic!Later
  <2> QED
    BY <1>1, <1>2, <1>3, <1>4, <2>1 DEF Counted, Awaited, Fed, Paused
<1>5. CASE keeper = "pause"
  <2>1. keeper' = "look"
    BY <1>1, <1>5 DEF Diagnostic!Later
  <2>2. left # Bite + 1 => left' = left - 1
    BY <1>1
  <2> QED
    BY <1>1, <1>3, <1>5, <2>1, <2>2 DEF Counted, Awaited, Fed, Paused
<1>6. CASE keeper \in {"rest", "doze"}
  <2>1. keeper' = IF keeper = "rest" THEN "doze" ELSE "ping"
    BY <1>1, <1>6 DEF Diagnostic!Later
  <2> QED
    BY <1>1, <1>3, <1>6, <2>1 DEF Counted, Awaited, Fed, Paused
<1>7. CASE keeper = "off"
  <2>1. keeper' = "off" /\ left' = left
    BY <1>1, <1>7 DEF Diagnostic!Later, Fed
  <2> QED
    BY <1>1, <1>3, <1>7, <2>1 DEF Counted, Awaited, Fed, Paused
<1> QED
  BY <1>1, <1>4, <1>5, <1>6, <1>7 DEF Fed

(* Neither a late device nor a failed ping or check lets the watchdog      *)
(* reset the board, only a PID 1 that has not got as far as its keeper.    *)
THEOREM WatchdogIsFed == BootsSpec => []NeverBites
<1> DEFINE I == part = "diagnostic" => DogInv
<1>1. BootsInit => I
  BY DogInit DEF BootsInit
<1>2. I /\ [BootsNext]_allVars => I'
  <2> SUFFICES ASSUME I, [BootsNext]_allVars, part' = "diagnostic" PROVE DogInv'
    OBVIOUS
  <2>1. CASE UNCHANGED allVars
    BY <2>1 DEF allVars, diagnosticVars, DogInv, Diagnostic!TypeOK, Counted, Awaited, Fed, Paused
  <2>2. CASE InDiagnostic(Diagnostic!Next)
    BY <2>2, DogPid1, DogKeeper, DogShell, DogTick DEF InDiagnostic, Diagnostic!Next
  <2> QED
    BY <2>1, <2>2 DEF BootsNext, InFactory
<1>3. I => NeverBites
  BY DogHolds DEF NeverBites, DogInv
<1> QED
  BY <1>1, <1>2, <1>3, PTL DEF BootsSpec

-----------------------------------------------------------------------------
(* The builds of the diagnostic's images.                                  *)

Image ==
    [variant : Images!Variants, kernel : Kernels \cup {Images!None},
     initrd : Initrds \cup {Images!None}, tree : Trees, ramdisk : Nat, fdt : Nat]

Missing == {<<>>}

Job ==
    [step : Images!Steps, order : Orders, kernel : Kernels \cup {Images!None},
     initrd : Initrds \cup {Images!None}, fit : Missing \cup Image, results : Seq(Image)]

Manifest ==
    [results : Seq(Image), kernel : Kernels \cup {Images!None},
     initrd : Initrds \cup {Images!None}]

(* A FIT is under its name with its report on it, and of these inputs.     *)
Published(f, fs, rs) == fs[f.variant] = f /\ rs[f.variant] = f
MadeOf(f, j) == f.kernel = j.kernel /\ (Images!WithInitrd(f.variant) => f.initrd = j.initrd)

(* The FITs that are listed by a build, or a manifest.                     *)
Results(j, fs, rs) ==
    \A i \in 1..Len(j.results) : Published(j.results[i], fs, rs) /\ MadeOf(j.results[i], j)

(* What a build has at its step: a variant to make, a FIT of that variant, *)
(* one that passed the audit, one that was published.                      *)
Progress(j, fs) ==
    /\ j.step \in {"args", "payload", "hash"} => j.results = <<>>
    /\ j.step \in {"copy", "audit", "fit", "report"} => Len(j.results) < Len(j.order.variants)
    /\ j.step \in {"audit", "fit", "report"} =>
         /\ j.fit \in Image
         /\ j.fit.variant = j.order.variants[Len(j.results) + 1]
         /\ ~Images!WithInitrd(j.fit.variant) => j.fit.initrd = Images!None
    /\ j.step \in {"fit", "report"} => Images!Audit(j.fit, j)
    /\ j.step = "report" => fs[j.fit.variant] = j.fit

Sound(j, fs, rs) ==
    /\ Len(j.results) <= Len(j.order.variants)
    /\ Results(j, fs, rs) /\ Progress(j, fs)

(* What is published fits, and is under its variant's name.                *)
Fitting(fs) ==
    \A v \in Images!Variants : fs[v] # <<>> =>
        /\ fs[v].variant = v
        /\ Images!Fits(fs[v])
        /\ ~Images!WithInitrd(v) => fs[v].initrd = Images!None

InputsTyped == kernel \in Kernels /\ initrd \in Initrds /\ tree \in Trees /\ changes \in 0..MaxChanges

OutputsTyped ==
    /\ fits \in [Images!Variants -> Missing \cup Image]
    /\ reports \in [Images!Variants -> Missing \cup Image]
    /\ manifest \in Missing \cup Manifest

JobsSound == \A b \in Builds : Sound(job[b], fits, reports)

FitInv ==
    /\ InputsTyped /\ OutputsTyped /\ job \in [Builds -> Job]
    /\ JobsSound /\ Fitting(fits)
    /\ manifest # <<>> => Results(manifest, fits, reports)

(* Nothing that was published is replaced.                                 *)
Grows(fs, new) == \A v \in Images!Variants : fs[v] # <<>> => new[v] = fs[v]

LEMMA ImageIsThere == <<>> \notin Image /\ <<>> \notin Manifest
<1>1. \A f \in Image : DOMAIN f = {"variant", "kernel", "initrd", "tree", "ramdisk", "fdt"}
  BY DEF Image
<1>2. \A m \in Manifest : DOMAIN m = {"results", "kernel", "initrd"}
  BY DEF Manifest
<1>3. DOMAIN << >> = {}
  OBVIOUS
<1> QED
  BY <1>1, <1>2, <1>3

LEMMA FitInit == Images!Init => FitInv
<1> SUFFICES ASSUME Images!Init PROVE FitInv
  OBVIOUS
<1> USE InputsAssumption DEF Images!Init, Images!InputsAreFiles
<1>1. InputsTyped
  BY DEF InputsTyped
<1>2. OutputsTyped /\ Fitting(fits) /\ manifest = <<>>
  BY DEF OutputsTyped, Fitting, Missing
<1>3. PICK orders \in [Builds -> Orders] :
         job = [b \in Builds |-> [step |-> "args", order |-> orders[b], kernel |-> Images!None,
                                  initrd |-> Images!None, fit |-> <<>>, results |-> <<>>]]
  OBVIOUS
<1>4. job \in [Builds -> Job]
  <2>1. "args" \in Images!Steps /\ <<>> \in Missing
    BY DEF Images!Steps, Missing
  <2> QED
    BY <1>3, <2>1 DEF Job
<1>5. JobsSound
  <2> SUFFICES ASSUME NEW b \in Builds PROVE Sound(job[b], fits, reports)
    BY DEF JobsSound
  <2>1. job[b].step = "args" /\ job[b].results = <<>> /\ job[b].order \in Orders
    BY <1>3
  <2> QED
    BY <2>1 DEF Sound, Results, Progress
<1> QED
  BY <1>1, <1>2, <1>4, <1>5 DEF FitInv

(* Results stay published when files are only added.                       *)
LEMMA ResultsStay ==
    ASSUME NEW j, j.results \in Seq(Image), NEW fs, NEW rs, NEW newFs, NEW newRs,
           Results(j, fs, rs), Grows(fs, newFs), Grows(rs, newRs)
    PROVE  Results(j, newFs, newRs)
<1> SUFFICES ASSUME NEW i \in 1..Len(j.results)
             PROVE  Published(j.results[i], newFs, newRs) /\ MadeOf(j.results[i], j)
  BY DEF Results
<1>1. j.results[i] \in Image /\ Published(j.results[i], fs, rs) /\ MadeOf(j.results[i], j)
  BY DEF Results
<1>2. j.results[i] # <<>> /\ j.results[i].variant \in Images!Variants
  BY <1>1, ImageIsThere DEF Image
<1> QED
  BY <1>1, <1>2 DEF Published, Grows

(* A step of a build leaves the others what they have.                     *)
LEMMA OneBuild ==
    ASSUME FitInv, NEW b \in Builds, NEW j \in Job, job' = [job EXCEPT ![b] = j],
           Grows(fits, fits'), Grows(reports, reports'), Sound(j, fits', reports')
    PROVE  job' \in [Builds -> Job] /\ JobsSound'
<1>1. job \in [Builds -> Job] /\ JobsSound
  BY DEF FitInv
<1>2. job' \in [Builds -> Job]
  BY <1>1
<1>3. ASSUME NEW c \in Builds PROVE Sound(job'[c], fits', reports')
  <2>1. CASE c = b
    BY <1>1, <2>1
  <2>2. CASE c # b
    <3>1. job'[c] = job[c] /\ job[c] \in Job
      BY <1>1, <2>2
    <3>2. Sound(job[c], fits, reports)
      BY <1>1 DEF JobsSound
    <3>3. job[c].results \in Seq(Image)
      BY <3>1 DEF Job
    <3>4. Results(job[c], fits', reports')
      BY <3>2, <3>3, ResultsStay DEF Sound
    <3>5. Progress(job[c], fits')
      <4>1. job[c].fit \in Image =>
              job[c].fit # <<>> /\ job[c].fit.variant \in Images!Variants
        BY ImageIsThere DEF Image
      <4> QED
        BY <3>2, <4>1 DEF Sound, Progress, Grows
    <3> QED
      BY <3>1, <3>2, <3>4, <3>5 DEF Sound
  <2> QED
    BY <2>1, <2>2
<1> QED
  BY <1>2, <1>3 DEF JobsSound

(* A step that publishes nothing.                                          *)
LEMMA QuietStep ==
    ASSUME FitInv, NEW b \in Builds, NEW j \in Job, job' = [job EXCEPT ![b] = j],
           UNCHANGED Images!inputVars, UNCHANGED Images!outputVars,
           Sound(j, fits, reports)
    PROVE  FitInv'
<1> USE DEF Images!inputVars, Images!outputVars
<1>1. Grows(fits, fits') /\ Grows(reports, reports') /\ Sound(j, fits', reports')
  BY DEF Grows
<1>2. job' \in [Builds -> Job] /\ JobsSound'
  BY <1>1, OneBuild
<1>3. InputsTyped' /\ OutputsTyped' /\ Fitting(fits') /\ (manifest # <<>> => Results(manifest, fits, reports))
  BY DEF FitInv, InputsTyped, OutputsTyped
<1> QED
  BY <1>2, <1>3 DEF FitInv

(* A build's step alone changes no result.                                 *)
LEMMA AtStep ==
    ASSUME FitInv, NEW b \in Builds, NEW s \in Images!Steps,
           s \notin {"args", "payload", "hash", "copy", "audit", "fit", "report"}
    PROVE  LET j == [job[b] EXCEPT !.step = s]
           IN  j \in Job /\ Sound(j, fits, reports)
<1> DEFINE j == [job[b] EXCEPT !.step = s]
<1>1. job[b] \in Job /\ Sound(job[b], fits, reports)
  BY DEF FitInv, JobsSound
<1>2. j \in Job
  BY <1>1 DEF Job
<1>3. /\ j.step = s /\ j.order = job[b].order /\ j.results = job[b].results
      /\ j.kernel = job[b].kernel /\ j.initrd = job[b].initrd
  BY <1>1 DEF Job
<1> HIDE DEF j
<1>4. Sound(j, fits, reports)
  BY <1>1, <1>3 DEF Sound, Results, MadeOf, Progress
<1> QED
  BY <1>2, <1>4 DEF j

LEMMA FitFail ==
    ASSUME FitInv, NEW b \in Builds, Images!Go(b, "failed"),
           UNCHANGED Images!inputVars, UNCHANGED Images!outputVars
    PROVE  FitInv'
BY AtStep, QuietStep DEF Images!Go, Images!Steps

LEMMA FitArguments ==
    ASSUME FitInv, NEW b \in Builds, Images!CheckArguments(b) PROVE FitInv'
<1>1. CASE ~Images!AllowedLoads(job[b].order)
  BY <1>1, FitFail DEF Images!CheckArguments
<1>2. CASE Images!AllowedLoads(job[b].order)
  <2> DEFINE j == [job[b] EXCEPT !.step = "payload"]
  <2>1. job[b] \in Job /\ Sound(job[b], fits, reports) /\ job[b].step = "args"
    BY DEF FitInv, JobsSound, Images!CheckArguments, Images!At
  <2>2. j \in Job /\ j.step = "payload" /\ j.order = job[b].order /\ j.results = job[b].results
    BY <2>1 DEF Job, Images!Steps
  <2>3. job' = [job EXCEPT ![b] = j]
    BY <1>2 DEF Images!CheckArguments, Images!Go
  <2> HIDE DEF j
  <2>4. Sound(j, fits, reports)
    BY <2>1, <2>2 DEF Sound, Progress, Results
  <2> QED
    BY <2>2, <2>3, <2>4, QuietStep DEF Images!CheckArguments
<1> QED
  BY <1>1, <1>2

(* Before the first variant, a build has no result the payload or the hash *)
(* could belie.                                                            *)
LEMMA FitReads ==
    ASSUME FitInv, NEW b \in Builds, Images!ReadKernel(b) \/ Images!HashInputs(b) PROVE FitInv'
<1>1. job[b] \in Job /\ Sound(job[b], fits, reports)
  BY DEF FitInv, JobsSound
<1>2. kernel \in Kernels /\ initrd \in Initrds
  BY DEF FitInv, InputsTyped
<1>3. job[b].results = <<>>
  BY <1>1 DEF Sound, Progress, Images!ReadKernel, Images!HashInputs, Images!At
<1>4. job[b].order.variants # <<>> /\ job[b].order.variants \in Seq(Images!Variants)
  BY <1>1, InputsAssumption DEF Job, Images!InputsAreFiles
<1>5. PICK s \in {"hash", "copy", "failed"}, k \in Kernels \cup {Images!None},
           i \in Initrds \cup {Images!None} :
        job' = [job EXCEPT ![b] = [job[b] EXCEPT !.step = s, !.kernel = k, !.initrd = i]]
  <2>1. CASE Images!ReadKernel(b)
    <3> DEFINE s == IF kernel.size <= 128 THEN "hash" ELSE "failed"
    <3>1. job' = [job EXCEPT ![b] = [job[b] EXCEPT !.step = s, !.kernel = kernel]]
      BY <2>1 DEF Images!ReadKernel
    <3>2. [job[b] EXCEPT !.step = s, !.kernel = kernel]
            = [job[b] EXCEPT !.step = s, !.kernel = kernel, !.initrd = job[b].initrd]
      BY <1>1 DEF Job
    <3>3. s \in {"hash", "copy", "failed"} /\ job[b].initrd \in Initrds \cup {Images!None}
      BY <1>1 DEF Job
    <3> HIDE DEF s
    <3> QED
      BY <1>2, <3>1, <3>2, <3>3
  <2>2. CASE Images!HashInputs(b)
    <3> DEFINE s == IF manifest = <<>> THEN "copy" ELSE "failed"
    <3>1. job' = [job EXCEPT ![b] = [job[b] EXCEPT !.step = s, !.initrd = initrd]]
      BY <2>2 DEF Images!HashInputs
    <3>2. [job[b] EXCEPT !.step = s, !.initrd = initrd]
            = [job[b] EXCEPT !.step = s, !.kernel = job[b].kernel, !.initrd = initrd]
      BY <1>1 DEF Job
    <3>3. s \in {"hash", "copy", "failed"} /\ job[b].kernel \in Kernels \cup {Images!None}
      BY <1>1 DEF Job
    <3> HIDE DEF s
    <3> QED
      BY <1>2, <3>1, <3>2, <3>3
  <2> QED
    BY <2>1, <2>2
<1> DEFINE j == [job[b] EXCEPT !.step = s, !.kernel = k, !.initrd = i]
<1>6. j \in Job /\ j.step = s /\ j.order = job[b].order /\ j.results = <<>>
  BY <1>1, <1>3 DEF Job, Images!Steps
<1>7. job' = [job EXCEPT ![b] = j]
  BY <1>5
<1> HIDE DEF j
<1>8. Sound(j, fits, reports)
  <2>1. Len(j.results) = 0 /\ Len(j.order.variants) > 0
    BY <1>4, <1>6
  <2> QED
    BY <1>6, <2>1 DEF Sound, Progress, Results
<1> QED
  BY <1>6, <1>7, <1>8, QuietStep DEF Images!ReadKernel, Images!HashInputs

LEMMA FitMake == ASSUME FitInv, NEW b \in Builds, Images!MakeFit(b) PROVE FitInv'
<1>1. job[b] \in Job /\ Sound(job[b], fits, reports) /\ job[b].step = "copy"
  BY DEF FitInv, JobsSound, Images!MakeFit, Images!At
<1>2. Len(job[b].results) < Len(job[b].order.variants) /\ Len(job[b].results) \in Nat
  BY <1>1 DEF Sound, Progress, Job
<1>3. job[b].order \in Orders
  BY <1>1 DEF Job
<1>4. /\ job[b].order.variants \in Seq(Images!Variants)
      /\ job[b].order.ramdisk \in Nat /\ job[b].order.fdt \in Nat
  BY <1>3, InputsAssumption DEF Images!InputsAreFiles
<1> DEFINE f == Images!Rendered(Images!Variant(b), job[b].order, job[b].kernel)
           v == Images!Variant(b)
           j == [job[b] EXCEPT !.step = "audit", !.fit = f]
<1>5. v \in Images!Variants /\ v = job[b].order.variants[Len(job[b].results) + 1]
  <2> DEFINE vs == job[b].order.variants
             n == Len(job[b].results)
  <2>1. vs \in Seq(Images!Variants) /\ n \in Nat /\ n < Len(vs)
    BY <1>2, <1>4
  <2>2. v = vs[n + 1]
    BY DEF Images!Variant
  <2> HIDE DEF vs, n, v
  <2>3. vs[n + 1] \in Images!Variants
    BY <2>1
  <2> QED
    BY <2>2, <2>3 DEF vs, n
<1>6. f \in Image /\ f.variant = v /\ (~Images!WithInitrd(v) => f.initrd = Images!None)
  <2>1. initrd \in Initrds /\ tree \in Trees /\ job[b].kernel \in Kernels \cup {Images!None}
    BY <1>1 DEF FitInv, InputsTyped, Job
  <2> HIDE DEF v
  <2> QED
    BY <1>4, <1>5, <2>1 DEF v, Images!Rendered, Image
<1>7. job' = [job EXCEPT ![b] = j]
  BY DEF Images!MakeFit
<1> HIDE DEF f, v
<1>8. /\ j \in Job /\ j.step = "audit" /\ j.order = job[b].order /\ j.results = job[b].results
      /\ j.kernel = job[b].kernel /\ j.initrd = job[b].initrd /\ j.fit = f
  BY <1>1, <1>6 DEF Job, Images!Steps
<1> HIDE DEF j
<1>9. Sound(j, fits, reports)
  BY <1>1, <1>2, <1>5, <1>6, <1>8 DEF Sound, Progress, Results, MadeOf
<1> QED
  BY <1>7, <1>8, <1>9, QuietStep DEF Images!MakeFit

LEMMA FitAudit == ASSUME FitInv, NEW b \in Builds, Images!AuditFit(b) PROVE FitInv'
<1>1. CASE ~Images!Audit(job[b].fit, job[b])
  BY <1>1, FitFail DEF Images!AuditFit
<1>2. CASE Images!Audit(job[b].fit, job[b])
  <2> DEFINE j == [job[b] EXCEPT !.step = "fit"]
  <2>1. job[b] \in Job /\ Sound(job[b], fits, reports) /\ job[b].step = "audit"
    BY DEF FitInv, JobsSound, Images!AuditFit, Images!At
  <2>2. /\ j \in Job /\ j.step = "fit" /\ j.order = job[b].order
        /\ j.results = job[b].results /\ j.kernel = job[b].kernel
        /\ j.initrd = job[b].initrd /\ j.fit = job[b].fit
    BY <2>1 DEF Job, Images!Steps
  <2>3. job' = [job EXCEPT ![b] = j]
    BY <1>2 DEF Images!AuditFit, Images!Go
  <2> HIDE DEF j
  <2>4. Images!Audit(j.fit, j)
    BY <1>2, <2>2 DEF Images!Audit
  <2>5. Sound(j, fits, reports)
    BY <2>1, <2>2, <2>4 DEF Sound, Progress, Results, MadeOf
  <2> QED
    BY <2>2, <2>3, <2>5, QuietStep DEF Images!AuditFit
<1> QED
  BY <1>1, <1>2

(* A FIT is published under its variant's name, where there was none.      *)
LEMMA FitPublish == ASSUME FitInv, NEW b \in Builds, Images!PublishFit(b) PROVE FitInv'
<1> DEFINE v == Images!Variant(b)
           f == job[b].fit
           j == [job[b] EXCEPT !.step = "report"]
<1>1. job[b] \in Job /\ Sound(job[b], fits, reports) /\ job[b].step = "fit"
  BY DEF FitInv, JobsSound, Images!PublishFit, Images!At
<1>2. /\ f \in Image /\ f.variant = v /\ Images!Audit(f, job[b])
      /\ ~Images!WithInitrd(v) => f.initrd = Images!None
  BY <1>1 DEF Sound, Progress, Images!Variant
<1>3. /\ v = job[b].order.variants[Len(job[b].results) + 1]
      /\ Len(job[b].results) < Len(job[b].order.variants)
      /\ Len(job[b].results) <= Len(job[b].order.variants)
  BY <1>1 DEF Sound, Progress, Images!Variant
<1>4. v \in Images!Variants
  <2> HIDE DEF v, f
  <2> QED
    BY <1>2 DEF Image
<1>5. CASE ~Images!Absent(fits[v])
  BY <1>5, FitFail DEF Images!PublishFit, Images!inputVars, Images!outputVars
<1>6. CASE Images!Absent(fits[v])
  <2>1. /\ fits' = [fits EXCEPT ![v] = f] /\ job' = [job EXCEPT ![b] = j]
        /\ UNCHANGED <<kernel, initrd, tree, changes, reports, manifest>>
    BY <1>6 DEF Images!PublishFit, Images!Go, Images!inputVars
  <2>2. /\ j \in Job /\ j.step = "report" /\ j.order = job[b].order
        /\ j.results = job[b].results /\ j.kernel = job[b].kernel
        /\ j.initrd = job[b].initrd /\ j.fit = f
    BY <1>1 DEF Job, Images!Steps
  <2> HIDE DEF v, f, j
  <2>3. InputsTyped /\ OutputsTyped /\ Fitting(fits)
        /\ (manifest # <<>> => Results(manifest, fits, reports))
    BY DEF FitInv
  <2>4. fits[v] = <<>> /\ fits \in [Images!Variants -> Missing \cup Image]
    BY <1>6, <2>3 DEF Images!Absent, OutputsTyped
  <2>5. Grows(fits, fits') /\ Grows(reports, reports') /\ fits'[v] = f
    BY <1>4, <2>1, <2>4 DEF Grows
  <2>6. InputsTyped' /\ OutputsTyped'
    BY <1>2, <1>4, <2>1, <2>3 DEF InputsTyped, OutputsTyped
  <2>7. Fitting(fits')
    <3> SUFFICES ASSUME NEW w \in Images!Variants, fits'[w] # <<>>
                 PROVE  /\ fits'[w].variant = w /\ Images!Fits(fits'[w])
                        /\ ~Images!WithInitrd(w) => fits'[w].initrd = Images!None
      BY DEF Fitting
    <3>1. CASE w = v
      BY <1>2, <2>5, <3>1 DEF Images!Audit
    <3>2. CASE w # v
      <4>1. fits'[w] = fits[w]
        BY <2>1, <2>4, <3>2
      <4> QED
        BY <2>3, <4>1 DEF Fitting
    <3> QED
      BY <3>1, <3>2
  <2>8. Sound(j, fits', reports')
    <3>1. j.results \in Seq(Image) /\ Results(j, fits, reports)
      BY <1>1, <2>2 DEF Sound, Results, MadeOf, Job
    <3>2. Results(j, fits', reports')
      BY <2>5, <3>1, ResultsStay
    <3>3. Images!Audit(j.fit, j)
      BY <1>2, <2>2 DEF Images!Audit
    <3> QED
      BY <1>2, <1>3, <2>2, <2>5, <3>2, <3>3 DEF Sound, Progress
  <2>9. manifest' # <<>> => Results(manifest', fits', reports')
    <3> SUFFICES ASSUME manifest # <<>> PROVE Results(manifest, fits', reports')
      BY <2>1
    <3>1. manifest \in Manifest
      BY <2>3 DEF OutputsTyped, Missing
    <3> QED
      BY <2>3, <2>5, <3>1, ResultsStay DEF Manifest
  <2> QED
    BY <2>1, <2>2, <2>5, <2>6, <2>7, <2>8, <2>9, OneBuild DEF FitInv
<1> QED
  BY <1>5, <1>6

(* With its report, the FIT is a result of the build.                      *)
LEMMA FitReport == ASSUME FitInv, NEW b \in Builds, Images!PublishReport(b) PROVE FitInv'
<1> DEFINE v == Images!Variant(b)
           f == job[b].fit
           rs == Append(job[b].results, f)
           s == IF Len(rs) = Len(job[b].order.variants) THEN "manifest" ELSE "copy"
           j == [job[b] EXCEPT !.step = s, !.results = rs]
<1>1. job[b] \in Job /\ Sound(job[b], fits, reports) /\ job[b].step = "report"
  BY DEF FitInv, JobsSound, Images!PublishReport, Images!At
<1>2. /\ f \in Image /\ f.variant = v /\ Images!Audit(f, job[b]) /\ fits[v] = f
      /\ Len(job[b].results) < Len(job[b].order.variants)
  BY <1>1 DEF Sound, Progress, Images!Variant
<1>3. v \in Images!Variants
  <2> HIDE DEF v, f
  <2> QED
    BY <1>2 DEF Image
<1>4. CASE ~Images!Absent(reports[v])
  BY <1>4, FitFail DEF Images!PublishReport, Images!inputVars, Images!outputVars
<1>5. CASE Images!Absent(reports[v])
  <2>1. /\ reports' = [reports EXCEPT ![v] = f] /\ job' = [job EXCEPT ![b] = j]
        /\ UNCHANGED <<kernel, initrd, tree, changes, fits, manifest>>
    BY <1>5 DEF Images!PublishReport, Images!inputVars
  <2>2. job[b].results \in Seq(Image) /\ job[b].order.variants \in Seq(Images!Variants)
    BY <1>1, InputsAssumption DEF Job, Images!InputsAreFiles
  <2>3. rs \in Seq(Image) /\ Len(rs) = Len(job[b].results) + 1 /\ rs[Len(rs)] = f
    BY <1>2, <2>2
  <2>4. \A i \in 1..Len(rs) : i # Len(rs) => i \in 1..Len(job[b].results) /\ rs[i] = job[b].results[i]
    BY <1>2, <2>2
  <2>5. s \in {"manifest", "copy"} /\ (s = "copy" => Len(rs) < Len(job[b].order.variants))
        /\ Len(rs) <= Len(job[b].order.variants)
    <3> HIDE DEF rs
    <3> QED
      BY <1>2, <2>2, <2>3
  <2> HIDE DEF v, f, rs, s
  <2>6. /\ j \in Job /\ j.step = s /\ j.order = job[b].order
        /\ j.results = rs /\ j.kernel = job[b].kernel /\ j.initrd = job[b].initrd
    BY <1>1, <2>3, <2>5 DEF Job, Images!Steps
  <2> HIDE DEF j
  <2>7. InputsTyped /\ OutputsTyped /\ Fitting(fits)
        /\ (manifest # <<>> => Results(manifest, fits, reports))
    BY DEF FitInv
  <2>8. reports[v] = <<>> /\ reports \in [Images!Variants -> Missing \cup Image]
    BY <1>5, <2>7 DEF Images!Absent, OutputsTyped
  <2>9. Grows(fits, fits') /\ Grows(reports, reports') /\ reports'[v] = f
    BY <1>3, <2>1, <2>8 DEF Grows
  <2>10. InputsTyped' /\ OutputsTyped' /\ Fitting(fits')
    BY <1>2, <1>3, <2>1, <2>7 DEF InputsTyped, OutputsTyped
  <2>11. Results(j, fits', reports')
    <3>1. Results(job[b], fits', reports')
      BY <1>1, <2>2, <2>9, ResultsStay DEF Sound
    <3> SUFFICES ASSUME NEW i \in 1..Len(rs)
                 PROVE  Published(rs[i], fits', reports') /\ MadeOf(rs[i], j)
      BY <2>6 DEF Results
    <3>2. CASE i = Len(rs)
      BY <1>2, <2>1, <2>3, <2>6, <2>9, <3>2 DEF Published, MadeOf, Images!Audit
    <3>3. CASE i # Len(rs)
      BY <2>4, <2>6, <3>1, <3>3 DEF Results, MadeOf
    <3> QED
      BY <3>2, <3>3
  <2>12. Sound(j, fits', reports')
    BY <2>5, <2>6, <2>11 DEF Sound, Progress
  <2>13. manifest' # <<>> => Results(manifest', fits', reports')
    <3> SUFFICES ASSUME manifest # <<>> PROVE Results(manifest, fits', reports')
      BY <2>1
    <3>1. manifest \in Manifest
      BY <2>7 DEF OutputsTyped, Missing
    <3> QED
      BY <2>7, <2>9, <3>1, ResultsStay DEF Manifest
  <2> QED
    BY <2>1, <2>6, <2>9, <2>10, <2>12, <2>13, OneBuild DEF FitInv
<1> QED
  BY <1>4, <1>5

LEMMA FitManifest == ASSUME FitInv, NEW b \in Builds, Images!PublishManifest(b) PROVE FitInv'
<1>1. CASE ~Images!Absent(manifest)
  BY <1>1, FitFail DEF Images!PublishManifest, Images!inputVars, Images!outputVars
<1>2. CASE Images!Absent(manifest)
  <2> DEFINE j == [job[b] EXCEPT !.step = "done"]
             m == [results |-> job[b].results, kernel |-> job[b].kernel,
                   initrd |-> job[b].initrd]
  <2>1. /\ manifest' = m /\ job' = [job EXCEPT ![b] = j]
        /\ UNCHANGED <<kernel, initrd, tree, changes, fits, reports>>
    BY <1>2 DEF Images!PublishManifest, Images!Go, Images!inputVars
  <2>2. j \in Job /\ Sound(j, fits, reports)
    BY AtStep DEF Images!Steps
  <2>3. Grows(fits, fits') /\ Grows(reports, reports')
    BY <2>1 DEF Grows
  <2>4. job[b] \in Job /\ Results(job[b], fits, reports)
    BY DEF FitInv, JobsSound, Sound
  <2>5. m \in Manifest /\ Results(m, fits, reports)
    BY <2>4 DEF Job, Manifest, Results, MadeOf
  <2> HIDE DEF j, m
  <2>6. job' \in [Builds -> Job] /\ JobsSound'
    BY <2>1, <2>2, <2>3, OneBuild
  <2>7. InputsTyped' /\ OutputsTyped' /\ Fitting(fits') /\ Results(manifest', fits', reports')
    BY <2>1, <2>5 DEF FitInv, InputsTyped, OutputsTyped
  <2> QED
    BY <2>6, <2>7 DEF FitInv
<1> QED
  BY <1>1, <1>2

LEMMA FitChange == ASSUME FitInv, Images!Change PROVE FitInv'
<1>1. UNCHANGED <<fits, reports, manifest, job>>
  BY DEF Images!Change, Images!outputVars
<1>2. InputsTyped'
  BY InputsAssumption DEF Images!Change, Images!InputsAreFiles, FitInv, InputsTyped
<1> QED
  BY <1>1, <1>2 DEF FitInv, OutputsTyped, JobsSound

(* Ranges that follow each other, or of which the first is empty.          *)
Span(a, n) == a..(a + n - 1)

LEMMA Apart ==
    /\ \A a, n, b, m \in Nat : a + n <= b \/ n = 0 => Span(a, n) \cap Span(b, m) = {}
    /\ Span(192, 1856) = 192..2047
BY DEF Span

(* What is under a name is an image of files that do exist.                *)
LEMMA FitRanges == FitInv => Images!RangesApart
<1> SUFFICES ASSUME FitInv, NEW v \in Images!Variants, ~Images!Absent(fits[v])
             PROVE  LET f == fits[v]
                        range == [kernel |-> Images!KernelLoad(v)
                                               ..(Images!KernelLoad(v) + f.kernel.size - 1),
                                  initrd |-> f.ramdisk..(f.ramdisk + f.initrd.size - 1),
                                  tree |-> f.fdt..(f.fdt + f.tree.size - 1),
                                  buffer |-> 192..2047]
                    IN  \A i, j \in DOMAIN range : i # j => range[i] \cap range[j] = {}
  BY DEF Images!RangesApart
<1> DEFINE f == fits[v]
           load == Images!KernelLoad(v)
<1>1. f \in Image /\ f.variant = v /\ Images!Fits(f)
      /\ (~Images!WithInitrd(v) => f.initrd = Images!None)
  BY DEF FitInv, OutputsTyped, Missing, Fitting, Images!Absent
<1>2. load \in Nat
  BY DEF Images!KernelLoad
<1> HIDE DEF f, load
<1>3. f.kernel.size \in Nat /\ f.initrd.size \in Nat /\ f.tree.size \in Nat
      /\ f.ramdisk \in Nat /\ f.fdt \in Nat
  <2>1. Images!None.size = 0
    BY DEF Images!None
  <2>2. \A file \in Kernels \cup Initrds \cup Trees : file.size \in Nat
    BY InputsAssumption DEF Images!InputsAreFiles
  <2> QED
    BY <1>1, <2>1, <2>2 DEF Image
<1>4. /\ IF Images!WithInitrd(v) THEN load + f.kernel.size <= f.ramdisk
         ELSE load + f.kernel.size < f.fdt
      /\ Images!WithInitrd(v) => f.ramdisk + f.initrd.size < f.fdt
      /\ f.fdt + f.tree.size < 192
  BY <1>1 DEF Images!Fits, load
<1>5. ~Images!WithInitrd(v) => f.initrd.size = 0
  BY <1>1 DEF Images!None
<1> DEFINE K == Span(load, f.kernel.size)
           I == Span(f.ramdisk, f.initrd.size)
           T == Span(f.fdt, f.tree.size)
           B == Span(192, 1856)
<1>6. /\ load + f.kernel.size <= f.fdt /\ load + f.kernel.size <= 192
      /\ load + f.kernel.size <= f.ramdisk \/ f.initrd.size = 0
      /\ f.ramdisk + f.initrd.size <= f.fdt \/ f.initrd.size = 0
      /\ f.ramdisk + f.initrd.size <= 192 \/ f.initrd.size = 0
      /\ f.fdt + f.tree.size <= 192
  BY <1>2, <1>3, <1>4, <1>5
<1>7. K \cap T = {}
  BY <1>2, <1>3, <1>6, Apart
<1>8. K \cap B = {}
  BY <1>2, <1>3, <1>6, Apart
<1>9. T \cap B = {}
  BY <1>3, <1>6, Apart
<1>10. I \cap T = {}
  BY <1>3, <1>6, Apart
<1>11. I \cap B = {}
  BY <1>3, <1>6, Apart
<1>12. K \cap I = {}
  <2>1. CASE f.initrd.size = 0
    BY <1>2, <1>3, <2>1, Apart
  <2>2. CASE f.initrd.size # 0
    BY <1>2, <1>3, <1>6, <2>2, Apart
  <2> QED
    BY <2>1, <2>2
<1>13. B = 192..2047
  BY Apart
<1> HIDE DEF K, I, T, B
<1>14. LET range == [kernel |-> K, initrd |-> I, tree |-> T, buffer |-> B]
       IN  \A i, j \in DOMAIN range : i # j => range[i] \cap range[j] = {}
  BY <1>7, <1>12, <1>10, <1>11, <1>8, <1>9
<1> QED
  BY <1>13, <1>14 DEF K, I, T, f, load, Span

LEMMA FitHolds ==
    FitInv => Images!TypeOK /\ Images!ManifestIsTrue /\ Images!OneExperiment /\ Images!RangesApart
<1> SUFFICES ASSUME FitInv PROVE Images!TypeOK /\ Images!ManifestIsTrue /\ Images!OneExperiment
  BY FitRanges
<1>1. Images!TypeOK
  BY DEF FitInv, InputsTyped, Job, JobsSound, Sound, Images!TypeOK
<1>2. \A f \in Images!Listed : Published(f, fits, reports) /\ MadeOf(f, manifest)
  <2> SUFFICES ASSUME NEW f \in Images!Listed
               PROVE  Published(f, fits, reports) /\ MadeOf(f, manifest)
    OBVIOUS
  <2>1. manifest # <<>> /\ f \in Images!Range(manifest.results)
    BY DEF Images!Listed
  <2>2. manifest \in Manifest /\ Results(manifest, fits, reports)
    BY <2>1 DEF FitInv, OutputsTyped, Missing
  <2>3. DOMAIN manifest.results = 1..Len(manifest.results)
    BY <2>2 DEF Manifest
  <2>4. PICK i \in 1..Len(manifest.results) : f = manifest.results[i]
    BY <2>1, <2>3 DEF Images!Range
  <2> QED
    BY <2>2, <2>4 DEF Results
<1> QED
  BY <1>1, <1>2 DEF Published, MadeOf, Images!ManifestIsTrue, Images!OneExperiment

(* However many builds of build-fits.py share a directory and whatever     *)
(* happens to their inputs: the FITs that the manifest lists are there,    *)
(* with their reports, of the one kernel and the one initrd it names, and  *)
(* what a published FIT loads overlaps neither itself nor U-Boot's buffer. *)
THEOREM FitsSound == BootsSpec => []FitsAreSound
<1> DEFINE I == part = "images" => FitInv
<1>1. BootsInit => I
  BY FitInit DEF BootsInit
<1>2. I /\ [BootsNext]_allVars => I'
  <2> SUFFICES ASSUME I, [BootsNext]_allVars, part' = "images" PROVE FitInv'
    OBVIOUS
  <2>1. CASE UNCHANGED allVars
    BY <2>1 DEF allVars, fitVars, FitInv, InputsTyped, OutputsTyped, JobsSound
  <2>2. CASE part = "images" /\ Images!Next
    <3>1. CASE Images!Change
      BY <2>2, <3>1, FitChange
    <3>2. ASSUME NEW b \in Builds, Images!Fail(b) PROVE FitInv'
      BY <2>2, <3>2, FitFail DEF Images!Fail
    <3> QED
      BY <2>2, <3>1, <3>2, FitArguments, FitReads, FitMake, FitAudit, FitPublish, FitReport,
         FitManifest DEF Images!Next
  <2> QED
    BY <2>1, <2>2 DEF BootsNext, InFactory, InDiagnostic
<1>3. I => FitsAreSound
  BY FitHolds DEF FitsAreSound
<1> QED
  BY <1>1, <1>2, <1>3, PTL DEF BootsSpec

-----------------------------------------------------------------------------
(* The units of the factory.                                               *)

(* What the checks before the first change established still holds.       *)
Checked ==
    /\ mac \in {"address", "write", "undo"} => up = {} /\ \A p \in Ports : policy[p] # Foreign
    /\ mac \in {"address", "write", "undo", "done"} =>
         board.layout /\ board.order /\ FactoryMacs(board.macs)

(* A policy of ours and an address that was set are the port's own.        *)
Own ==
    /\ \A p \in Ports : Ours(p) => policy[p] = board.macs[p] /\ FactoryMacs(board.macs)
    /\ \A p \in Ports : address[p] # Kernel =>
                            address[p] = board.macs[p] /\ FactoryMacs(board.macs)

(* Which policies exist at each step of a unit that was not cut.           *)
Written ==
    ~cut =>
      /\ mac \in {"queued", "address", "failed"} => ~Ours(0) /\ ~Ours(1)
      /\ mac = "write" => (Ours(0) <=> port = 1) /\ ~Ours(1)
      /\ mac = "undo" => (port = 1 => ~Ours(0)) /\ ~Ours(1)
      /\ mac = "done" => Ours(0) /\ Ours(1)

Ordered == networkd = "running" => mac \in {"done", "failed"}

(* The resize unit works on a checked layout only. *)
Sized ==
    /\ resize \in {"recheck", "tool", "verify"} => board.layout /\ blocks \in 1..MaxBlocks
    /\ resize = "done" => blocks = MaxBlocks

Inv == TypeOK /\ Checked /\ Own /\ Written /\ Ordered /\ Sized

USE BoardsAssumption, BootsAssumption, BoundsAssumption

LEMMA PortsAreTwo == Ports = {0, 1}
BY DEF Ports

(* A board's addresses are factory addresses, never one of the markers.    *)
LEMMA MacsAreFactory ==
    ASSUME TypeOK
    PROVE  \A p \in Ports : board.macs[p] \in Factory /\ board.macs[p] \notin {Kernel, None, Foreign}
<1>1. \A p \in Ports : board.macs[p] \in Factory
  BY DEF TypeOK, Factory
<1>2. QED BY <1>1

LEMMA InitInv == Init => Inv
<1> SUFFICES ASSUME Init PROVE Inv
  OBVIOUS
<1>1. TypeOK
  <2>1. policy \in [Ports -> Factory \cup {None, Foreign}]
    BY DEF Init, Found
  <2>2. address \in [Ports -> Factory \cup {Kernel}]
    BY DEF Init
  <2>3. losses \in 0..MaxLosses /\ port \in Ports
    BY DEF Init, Ports
  <2>4. QED BY <2>1, <2>2, <2>3 DEF Init, TypeOK, MacSteps, ResizeSteps
<1>2. \A p \in Ports : ~Ours(p)
  BY DEF Init, Found, Ours, Ports
<1>3. Checked /\ Own /\ Written /\ Ordered /\ Sized
  BY <1>2, PortsAreTwo DEF Init, Checked, Own, Written, Ordered, Sized
<1>4. QED BY <1>1, <1>3 DEF Inv

(* One lemma per group of steps. *)
LEMMA MacInv == ASSUME Inv, Units PROVE Inv'
<1> USE DEF Inv
<1>0. /\ \A p \in Ports : board.macs[p] \in Factory /\ board.macs[p] \notin {Kernel, None, Foreign}
      /\ Ports = {0, 1}
  BY MacsAreFactory, PortsAreTwo
<1>1. CASE MacCheck
  <2>1. TypeOK'
    BY <1>1, <1>0 DEF MacCheck, TypeOK, resizeVars, MacSteps
  <2>2. mac' \in {"address", "failed"} /\ UNCHANGED <<board, policy, address, up, networkd, cut, resizeVars>>
    BY <1>1 DEF MacCheck
  <2>3. mac' = "address" => board.layout /\ board.order /\ FactoryMacs(board.macs) /\ up = {}
                            /\ \A p \in Ports : policy[p] # Foreign
    BY <1>1 DEF MacCheck, Live, Snapshot, Interfaces, Managed
  <2>4. mac = "queued" /\ networkd' # "running"
    BY <1>1, <2>2 DEF MacCheck, Ordered, TypeOK
  <2>5. Checked' /\ Own'
    BY <2>2, <2>3 DEF Checked, Own, Ours
  <2>6. Written' /\ Ordered' /\ Sized'
    BY <2>2, <2>4 DEF Written, Ordered, Sized, Ours, resizeVars
  <2>7. QED BY <2>1, <2>5, <2>6
<1>2. CASE SetAddress
  <2>1. /\ mac = "address" /\ mac' \in {"address", "write"} /\ port' \in Ports
        /\ mac' = "write" => port' = 0
        /\ UNCHANGED <<board, boot, root, policy, up, networkd, cut, resizeVars, losses>>
    BY <1>2, <1>0 DEF SetAddress, TypeOK
  <2>2. board.order /\ Port(port) = port
    BY <2>1 DEF Checked, Port
  <2>3. address' = [address EXCEPT ![port] = board.macs[port]]
    BY <1>2, <2>2 DEF SetAddress
  <2>4. TypeOK'
    BY <2>1, <2>3, <1>0 DEF TypeOK, resizeVars, MacSteps
  <2>5. Checked' /\ Ordered' /\ Sized'
    BY <2>1 DEF Checked, Ordered, Sized, resizeVars
  <2>6. FactoryMacs(board.macs)
    BY <2>1 DEF Checked
  <2>7. Own'
    BY <2>1, <2>3, <2>6, <1>0 DEF Own, Ours, TypeOK
  <2>8. Written'
    BY <2>1, <1>0 DEF Written, Ours
  <2>9. QED BY <2>4, <2>5, <2>7, <2>8
<1>3. CASE WritePolicy
  <2>1. /\ mac = "write" /\ port' = 1
        /\ mac' = IF port = 1 THEN "done" ELSE "write"
        /\ policy' = [policy EXCEPT ![port] = board.macs[port]]
        /\ UNCHANGED <<board, boot, root, address, up, networkd, cut, resizeVars, losses>>
    BY <1>3 DEF WritePolicy, PortNetwork
  <2>2. TypeOK'
    BY <2>1, <1>0 DEF TypeOK, resizeVars, MacSteps
  <2>3. board.layout /\ board.order /\ FactoryMacs(board.macs) /\ up = {}
        /\ \A p \in Ports : policy[p] # Foreign
    BY <2>1 DEF Checked
  <2>4. \A p \in Ports : policy'[p] = IF p = port THEN board.macs[p] ELSE policy[p]
    BY <2>1 DEF TypeOK
  <2>5. Checked'
    BY <2>1, <2>3, <2>4, <1>0 DEF Checked
  <2>6. Ordered' /\ Sized'
    BY <2>1 DEF Ordered, Sized, resizeVars
  <2>7. Own'
    BY <2>1, <2>3, <2>4, <1>0 DEF Own, Ours, TypeOK
  <2>8. Written'
    BY <2>1, <2>4, <1>0 DEF Written, Ours, TypeOK
  <2>9. QED BY <2>2, <2>5, <2>6, <2>7, <2>8
<1>4. CASE MacFails
  <2>1. /\ mac \in {"address", "write"} /\ mac' = "undo" /\ port' = 0
        /\ UNCHANGED <<board, boot, root, policy, up, networkd, cut, resizeVars, losses>>
        /\ address' \in {address, [address EXCEPT ![Port(port)] = board.macs[port]]}
    BY <1>4 DEF MacFails
  <2>2. board.order /\ Port(port) = port /\ FactoryMacs(board.macs)
    BY <2>1 DEF Checked, Port
  <2>3. TypeOK'
    BY <2>1, <2>2, <1>0 DEF TypeOK, resizeVars, MacSteps
  <2>4. Checked' /\ Ordered' /\ Sized'
    BY <2>1 DEF Checked, Ordered, Sized, resizeVars
  <2>5. Own'
    BY <2>1, <2>2, <1>0 DEF Own, Ours, TypeOK
  <2>6. Written'
    BY <2>1, <1>0 DEF Written, Ours
  <2>7. QED BY <2>3, <2>4, <2>5, <2>6
<1>5. CASE Undo
  <2>1. /\ mac = "undo" /\ port' = 1
        /\ mac' = IF port = 1 THEN "failed" ELSE "undo"
        /\ policy' = [policy EXCEPT ![port] = None]
        /\ UNCHANGED <<board, boot, root, address, up, networkd, cut, resizeVars, losses>>
    BY <1>5 DEF Undo
  <2>2. TypeOK'
    BY <2>1, <1>0 DEF TypeOK, resizeVars, MacSteps
  <2>3. \A p \in Ports : policy'[p] = IF p = port THEN None ELSE policy[p]
    BY <2>1 DEF TypeOK
  <2>4. None # Foreign
    BY DEF None, Foreign
  <2>5. Checked'
    BY <2>1, <2>3, <2>4 DEF Checked
  <2>6. Ordered' /\ Sized'
    BY <2>1 DEF Ordered, Sized, resizeVars
  <2>7. Own'
    BY <2>1, <2>3, <1>0 DEF Own, Ours
  <2>8. Written'
    BY <2>1, <2>3, <1>0 DEF Written, Ours, TypeOK
  <2>9. QED BY <2>2, <2>5, <2>6, <2>7, <2>8
<1>6. CASE MacCut
  <2>1. /\ mac' = "failed" /\ cut' = TRUE
        /\ UNCHANGED <<board, boot, root, policy, address, up, networkd, port, resizeVars, losses>>
    BY <1>6 DEF MacCut
  <2>2. TypeOK'
    BY <2>1 DEF TypeOK, resizeVars, MacSteps
  <2>3. Checked' /\ Own' /\ Written' /\ Ordered' /\ Sized'
    BY <2>1 DEF Checked, Own, Written, Ordered, Sized, Ours, resizeVars
  <2>4. QED BY <2>2, <2>3
<1>7. QED BY <1>1, <1>2, <1>3, <1>4, <1>5, <1>6 DEF Units, MacStep

LEMMA NetworkdInv == ASSUME Inv, StartNetworkd \/ RestartNetworkd PROVE Inv'
<1> USE DEF Inv
<1>0. /\ \A p \in Ports : board.macs[p] \in Factory /\ board.macs[p] \notin {Kernel, None, Foreign}
      /\ Ports = {0, 1}
  BY MacsAreFactory, PortsAreTwo
<1>1. CASE StartNetworkd
  <2>1. /\ mac \in {"done", "failed"} /\ networkd' = "running" /\ up' = Ports
        /\ address' = [p \in Ports |-> IF Ours(p) THEN policy[p] ELSE address[p]]
        /\ UNCHANGED <<board, boot, root, policy, mac, port, cut, resizeVars, losses>>
    BY <1>1 DEF StartNetworkd, Ours
  <2>2. TypeOK'
    BY <2>1 DEF TypeOK, resizeVars, Ours
  <2>3. Own'
    BY <2>1, <1>0 DEF Own, Ours
  <2>4. Checked' /\ Written' /\ Ordered' /\ Sized'
    BY <2>1 DEF Checked, Written, Ordered, Sized, Ours, resizeVars
  <2>5. QED BY <2>2, <2>3, <2>4
<1>2. CASE RestartNetworkd
  <2>1. /\ networkd = "running" /\ networkd' = "waiting"
        /\ mac' = IF mac = "done" THEN "done" ELSE "queued"
        /\ UNCHANGED <<board, boot, root, policy, address, up, port, cut, resizeVars, losses>>
    BY <1>2 DEF RestartNetworkd
  <2>2. mac \in {"done", "failed"}
    BY <2>1 DEF Ordered
  <2>3. TypeOK'
    BY <2>1 DEF TypeOK, resizeVars, MacSteps
  <2>4. Checked' /\ Own' /\ Written' /\ Ordered' /\ Sized'
    BY <2>1, <2>2 DEF Checked, Own, Written, Ordered, Sized, Ours, resizeVars
  <2>5. QED BY <2>3, <2>4
<1>3. QED BY <1>1, <1>2

LEMMA ResizeInv == ASSUME Inv, ResizeStep PROVE Inv'
<1> USE DEF Inv
<1>1. UNCHANGED <<board, boot, root, macVars, losses>>
  BY DEF ResizeStep, ResizeCheck, Recheck, Grow, ToolEnds, ResizeCut, Verify
<1>2. blocks' \in 0..(MaxBlocks + 1) /\ resize' \in ResizeSteps /\ Sized'
  <2>1. CASE ResizeCheck
    BY <2>1, <1>1 DEF ResizeCheck, ResizeSteps, Sized, TypeOK, Live, Snapshot, Geometry
  <2>2. CASE Recheck \/ ToolEnds \/ ResizeCut
    BY <2>2, <1>1 DEF Recheck, ToolEnds, ResizeCut, ResizeSteps, Sized, TypeOK
  <2>3. CASE Grow
    BY <2>3, <1>1 DEF Grow, ResizeSteps, Sized, TypeOK
  <2>4. CASE Verify
    BY <2>4, <1>1 DEF Verify, ResizeSteps, Sized, TypeOK
  <2>5. QED BY <2>1, <2>2, <2>3, <2>4 DEF ResizeStep
<1>3. TypeOK'
  BY <1>1, <1>2 DEF TypeOK, macVars
<1>4. Checked' /\ Own' /\ Written' /\ Ordered'
  BY <1>1 DEF Checked, Own, Written, Ordered, Ours, macVars
<1>5. QED BY <1>2, <1>3, <1>4

LEMMA RebootInv == ASSUME Inv, Reboot PROVE Inv'
<1> USE DEF Inv
<1>1. PICK k \in Boots : boot' = k /\ policy' = Found(k)
  BY DEF Reboot
<1>2. /\ \A p \in Ports : ~Ours(p)' /\ policy'[p] \in {None, Foreign}
      /\ policy' \in [Ports -> {None, Foreign}]
  BY <1>1 DEF Found, Ours
<1>3. TypeOK'
  <2>1. (policy \in [Ports -> Factory \cup {None, Foreign}])'
    BY <1>2
  <2>2. (address \in [Ports -> Factory \cup {Kernel}])'
    BY DEF Reboot
  <2>3. losses' \in 0..MaxLosses /\ port' \in Ports
    BY DEF Reboot, TypeOK, Ports
  <2>4. QED BY <2>1, <2>2, <2>3, <1>1 DEF Reboot, TypeOK, MacSteps, ResizeSteps
<1>4. Checked' /\ Own' /\ Written' /\ Ordered' /\ Sized'
  BY <1>2, PortsAreTwo DEF Reboot, Checked, Own, Written, Ordered, Sized, Kernel
<1>5. QED BY <1>3, <1>4

LEMMA NextInv == Inv /\ [Next]_vars => Inv'
<1> SUFFICES ASSUME Inv, [Next]_vars PROVE Inv'
  OBVIOUS
<1>1. CASE Units
  BY <1>1, MacInv
<1>2. CASE StartNetworkd \/ RestartNetworkd
  BY <1>2, NetworkdInv
<1>3. CASE ResizeStep
  BY <1>3, ResizeInv
<1>4. CASE Remount
  BY <1>4 DEF Remount, Inv, TypeOK, Checked, Own, Written, Ordered, Sized, Ours,
     macVars, resizeVars
<1>5. CASE Reboot
  BY <1>5, RebootInv
<1>6. CASE UNCHANGED vars
  BY <1>6 DEF vars, Inv, TypeOK, Checked, Own, Written, Ordered, Sized, Ours, macVars,
     resizeVars
<1>7. QED BY <1>1, <1>2, <1>3, <1>4, <1>5, <1>6 DEF Next

THEOREM Invariance == Spec => []Inv
BY InitInv, NextInv, PTL DEF Spec

(* The types hold. *)
THEOREM TypeCorrect == Spec => []TypeOK
BY Invariance, PTL DEF Inv

(* Both policies or neither, in a boot in which the unit was not cut.      *)
THEOREM PoliciesTogether == Spec => []BothOrNone
<1>1. Inv => BothOrNone
  BY DEF Inv, BothOrNone, Written, Ordered
<1>2. QED BY <1>1, Invariance, PTL

(* No port ever has another address than the kernel's or its own.          *)
THEOREM AddressesOwn == Spec => []OwnAddress
<1>1. Inv => OwnAddress
  BY MacsAreFactory, PortsAreTwo DEF Inv, OwnAddress, Own, FactoryMacs
<1>2. QED BY <1>1, Invariance, PTL

(* The resize unit reports success only of a full partition.               *)
THEOREM ReportedFull == Spec => []DoneMeansFull
<1>1. Inv => DoneMeansFull
  BY DEF Inv, DoneMeansFull, Sized
<1>2. QED BY <1>1, Invariance, PTL

(* An address in use is not changed under networkd.                        *)
THEOREM NeverLive == Spec => LiveUntouched
<1>1. Inv /\ [Next]_vars => [LiveAddressStays]_vars
  <2> SUFFICES ASSUME Inv, [Next]_vars PROVE [LiveAddressStays]_vars
    OBVIOUS
  <2>1. CASE SetAddress \/ MacFails
    BY <2>1 DEF SetAddress, MacFails, Inv, Checked, LiveAddressStays
  <2>2. CASE Reboot
    BY <2>2 DEF Reboot, LiveAddressStays, Inv, TypeOK, BoundsAssumption
  <2>3. CASE StartNetworkd
    BY <2>3 DEF LiveAddressStays
  <2>4. CASE address' = address
    BY <2>4 DEF LiveAddressStays
  <2>5. QED
    BY <2>1, <2>2, <2>3, <2>4 DEF Next, vars, macVars, Units, MacStep, MacCheck,
       WritePolicy, Undo,
       MacCut, RestartNetworkd, ResizeStep, ResizeCheck, Recheck, Grow, ToolEnds, ResizeCut, Verify,
       Remount
<1>2. QED BY <1>1, Invariance, PTL DEF Spec, LiveUntouched

(* Policies of somebody else outlive the unit, its undoing and its cuts.   *)
THEOREM ForeignKept == Spec => ForeignStays
<1>1. Inv /\ [Next]_vars =>
        [losses' = losses => \A p \in Ports : policy[p] = Foreign => policy'[p] = Foreign]_vars
  <2> SUFFICES ASSUME Inv, [Next]_vars, losses' = losses, NEW p \in Ports, policy[p] = Foreign
               PROVE  policy'[p] = Foreign
    OBVIOUS
  <2>1. CASE WritePolicy
    BY <2>1 DEF WritePolicy, Inv, Checked
  <2>2. CASE Undo
    BY <2>2 DEF Undo, Inv, Checked
  <2>3. CASE Reboot
    BY <2>3 DEF Reboot, Inv, TypeOK, BoundsAssumption
  <2>4. CASE policy' = policy
    BY <2>4
  <2>5. QED
    BY <2>1, <2>2, <2>3, <2>4 DEF Next, vars, macVars, Units, MacStep, MacCheck,
       SetAddress, MacFails,
       MacCut, StartNetworkd, RestartNetworkd, ResizeStep, ResizeCheck, Recheck, Grow, ToolEnds,
       ResizeCut, Verify, Remount
<1>2. QED BY <1>1, Invariance, PTL DEF Spec, ForeignStays

(* The filesystem only grows, inside its partition, on the factory layout. *)
THEOREM GrowsInside == Spec => OnlyGrowsInside
<1>1. Inv /\ [Next]_vars =>
        [blocks' # blocks => board.layout /\ blocks' \in (blocks + 1)..MaxBlocks]_vars
  <2> SUFFICES ASSUME Inv, [Next]_vars
               PROVE  [blocks' # blocks => board.layout /\ blocks' \in (blocks + 1)..MaxBlocks]_vars
    OBVIOUS
  <2>1. CASE Grow
    BY <2>1 DEF Grow, Inv, Sized
  <2>2. CASE blocks' = blocks
    BY <2>2
  <2>3. QED
    BY <2>1, <2>2 DEF Next, vars, resizeVars, Units, MacStep, MacCheck, SetAddress,
       WritePolicy, Undo,
       MacFails, MacCut, StartNetworkd, RestartNetworkd, ResizeStep, ResizeCheck, Recheck, ToolEnds,
       ResizeCut, Verify, Remount, Reboot
<1>2. QED BY <1>1, Invariance, PTL DEF Spec, OnlyGrowsInside
=============================================================================
