---------------------------- MODULE HardwareProofs ---------------------------
(***************************************************************************)
(* What is proved of hardware.py: what holds of fan tests for any number   *)
(* of processes, that a test that has the fan for itself leaves it as it   *)
(* was, and that the rates shown are true for any counters and snapshots.  *)
(***************************************************************************)
EXTENDS MCHardware, SequenceTheorems, TLAPS

(* A sequence of two elements is the pair of them. *)
LEMMA Pair ==
    ASSUME NEW S, NEW s \in Seq(S), NEW a \in S, NEW b \in S,
           Len(s) = 2, s[1] = a, s[2] = b
    PROVE  s = <<a, b>>
<1>1. <<a, b>> \in Seq(S) /\ Len(<<a, b>>) = 2
    OBVIOUS
<1>2. QED
    BY <1>1, SeqEqual

(* What the two writes append. *)
LEMMA Appended ==
    ASSUME NEW S, NEW s \in Seq(S), NEW e \in S
    PROVE  /\ Append(s, e) \in Seq(S)
           /\ Len(Append(s, e)) = Len(s) + 1
           /\ Append(s, e)[Len(s) + 1] = e
           /\ \A i \in 1..Len(s) : Append(s, e)[i] = s[i]
OBVIOUS

(* What a process has written at each of its steps. *)
Written(t) ==
    /\ pc[t] \in {"read", "write"} => Len(wrote[t]) = 0 /\ ~failing[t]
    /\ pc[t] \in {"wait", "restore"} /\ ~failing[t]
           => Len(wrote[t]) = 1 /\ wrote[t][1] = request[t]
    /\ pc[t] \in Running => request[t] \in Levels
    /\ pc[t] = "returned"
           => Len(wrote[t]) = 2 /\ wrote[t][1] = request[t] /\ wrote[t][2] = previous[t]
    /\ pc[t] = "returned" => request[t] \in Levels

WrittenInv == TypeOK /\ \A t \in Testers : Written(t)

USE DEF Ended, Running

LEMMA LowestLevel == 0 \in Levels /\ 0 \in Requests
BY MaxLevelAssumption DEF Levels, Requests

LEMMA WrittenInitially == Init => WrittenInv
<1> SUFFICES ASSUME Init PROVE WrittenInv
    OBVIOUS
<1>1. wrote \in [Testers -> Seq(Levels)]
    BY EmptySeq DEF Init
<1>2. TypeOK
    BY <1>1, LowestLevel DEF Init, TypeOK
<1>4. \A t \in Testers : pc[t] = "off" /\ wrote[t] = <<>>
    BY DEF Init
<1>5. \A t \in Testers : Written(t)
    BY <1>4 DEF Written
<1>6. QED
    BY <1>2, <1>5 DEF WrittenInv

(* The first write is the level asked for, the second the one found. *)
LEMMA PutStep ==
    ASSUME TypeOK, NEW t \in Testers, NEW l \in Levels, Put(t, l)
    PROVE  /\ wrote' \in [Testers -> Seq(Levels)]
           /\ Len(wrote'[t]) = Len(wrote[t]) + 1
           /\ wrote'[t][Len(wrote[t]) + 1] = l
           /\ \A i \in 1..Len(wrote[t]) : wrote'[t][i] = wrote[t][i]
           /\ \A u \in Testers \ {t} : wrote'[u] = wrote[u]
           /\ level' = l /\ UNCHANGED <<chosen, request, previous>>
<1>1. wrote[t] \in Seq(Levels) /\ wrote' = [wrote EXCEPT ![t] = Append(wrote[t], l)]
    BY DEF TypeOK, Put
<1>2. wrote'[t] = Append(wrote[t], l) /\ \A u \in Testers \ {t} : wrote'[u] = wrote[u]
    BY <1>1 DEF TypeOK
<1>3. Append(wrote[t], l) \in Seq(Levels)
    BY <1>1, Appended
<1>4. wrote' \in [Testers -> Seq(Levels)]
    BY <1>1, <1>3 DEF TypeOK
<1>5. level' = l /\ UNCHANGED <<chosen, request, previous>>
    BY DEF Put
<1>6. QED
    BY <1>1, <1>2, <1>4, <1>5, Appended

(* The step of one process: types first, then what it has written. *)
LEMMA WrittenStep == WrittenInv /\ [Next]_vars => WrittenInv'
<1> SUFFICES ASSUME WrittenInv, [Next]_vars PROVE WrittenInv'
    OBVIOUS
<1> USE DEF WrittenInv, TypeOK, Written
<1>1. CASE UNCHANGED vars
    BY <1>1 DEF vars
<1>2. ASSUME NEW l \in Levels, Govern(l) PROVE WrittenInv'
    BY <1>2 DEF Govern
<1>3. ASSUME NEW t \in Testers, NEW state \in Requests, Call(t, state) PROVE WrittenInv'
    <2>1. wrote' = [wrote EXCEPT ![t] = <<>>] /\ <<>> \in Seq(Levels) /\ Len(<<>>) = 0
        BY <1>3, EmptySeq DEF Call
    <2>2. wrote' \in [Testers -> Seq(Levels)] /\ Len(wrote'[t]) = 0
        BY <2>1
    <2>3. TypeOK'
        <3>1. pc' \in [Testers -> Ended \cup Running]
            BY <1>3 DEF Call, Goto
        <3>2. request' \in [Testers -> Requests] /\ previous' \in [Testers -> Levels]
            BY <1>3, LowestLevel DEF Call
        <3>3. failing' \in [Testers -> BOOLEAN] /\ level' \in Levels
            BY <1>3 DEF Call
        <3>4. chosen' \subseteq Levels /\ cut' \in BOOLEAN
            BY <1>3 DEF Call
        <3>5. QED
            BY <2>2, <3>1, <3>2, <3>3, <3>4
    <2>4. Written(t)'
        <3>1. pc'[t] \in {"refused", "read"} /\ request'[t] = state /\ ~failing'[t]
            BY <1>3 DEF Call, Goto
        <3>2. pc'[t] = "read" => state \in Levels
            BY <1>3 DEF Call, Goto
        <3>3. QED
            BY <2>2, <3>1, <3>2
    <2>5. ASSUME NEW u \in Testers, u # t PROVE Written(u)'
        <3>1. /\ pc'[u] = pc[u] /\ failing'[u] = failing[u] /\ wrote'[u] = wrote[u]
              /\ request'[u] = request[u] /\ previous'[u] = previous[u]
            BY <1>3, <2>1, <2>5 DEF Call, Goto
        <3>2. QED
            BY <3>1
    <2>6. QED
        BY <2>3, <2>4, <2>5
<1>4. ASSUME NEW t \in Testers, Read(t) PROVE WrittenInv'
    BY <1>4 DEF Read, Goto
<1>5. ASSUME NEW t \in Testers, Write(t) PROVE WrittenInv'
    <2>0. request[t] \in Levels
        BY <1>5 DEF Write
    <2>1. CASE Put(t, request[t]) /\ UNCHANGED failing
        <3>1. TypeOK'
            BY <1>5, <2>0, <2>1, PutStep DEF Write, Goto
        <3>2. ASSUME NEW u \in Testers, u # t PROVE Written(u)'
            <4>1. /\ pc'[u] = pc[u] /\ failing'[u] = failing[u] /\ wrote'[u] = wrote[u]
                  /\ request'[u] = request[u] /\ previous'[u] = previous[u]
                BY <1>5, <2>1, <3>2, PutStep DEF Write, Goto
            <4>2. QED
                BY <4>1
        <3>3. Written(t)'
            <4>1. /\ Len(wrote'[t]) = Len(wrote[t]) + 1
                  /\ wrote'[t][Len(wrote[t]) + 1] = request[t]
                  /\ \A i \in 1..Len(wrote[t]) : wrote'[t][i] = wrote[t][i]
                  /\ request'[t] = request[t] /\ previous'[t] = previous[t]
                BY <2>0, <2>1, PutStep
            <4>2. pc[t] = "write" /\ pc'[t] = "wait"
                BY <1>5 DEF Write, Goto
            <4>3. Len(wrote[t]) = 0 /\ request[t] \in Levels
                BY <4>2
            <4>4. Len(wrote'[t]) = 1 /\ wrote'[t][1] = request'[t]
                BY <4>1, <4>3
            <4>5. QED
                BY <4>1, <4>2, <4>3, <4>4
        <3>4. QED
            BY <3>1, <3>2, <3>3
    <2>2. CASE UNCHANGED <<level, chosen, request, previous, wrote>> /\ failing'[t]
        BY <1>5, <2>2 DEF Write, Put, Goto
    <2>3. QED
        BY <1>5, <2>1, <2>2 DEF Write
<1>6. ASSUME NEW t \in Testers, Wait(t) PROVE WrittenInv'
    BY <1>6 DEF Wait, Goto
<1>7. ASSUME NEW t \in Testers, Restore(t) PROVE WrittenInv'
    <2>1. CASE /\ Put(t, previous[t]) /\ UNCHANGED cut
               /\ Goto(t, IF failing[t] THEN "failed" ELSE "returned")
        <3>1. TypeOK'
            BY <1>7, <2>1, PutStep DEF Restore, Goto
        <3>2. ASSUME NEW u \in Testers, u # t PROVE Written(u)'
            <4>1. /\ pc'[u] = pc[u] /\ failing'[u] = failing[u] /\ wrote'[u] = wrote[u]
                  /\ request'[u] = request[u] /\ previous'[u] = previous[u]
                BY <1>7, <2>1, <3>2, PutStep DEF Restore, Goto
            <4>2. QED
                BY <4>1
        <3>3. Written(t)'
            <4>1. /\ Len(wrote'[t]) = Len(wrote[t]) + 1
                  /\ wrote'[t][Len(wrote[t]) + 1] = previous[t]
                  /\ \A i \in 1..Len(wrote[t]) : wrote'[t][i] = wrote[t][i]
                  /\ request'[t] = request[t] /\ previous'[t] = previous[t]
                BY <2>1, PutStep
            <4>2. /\ pc[t] = "restore" /\ failing'[t] = failing[t]
                  /\ pc'[t] = IF failing[t] THEN "failed" ELSE "returned"
                BY <1>7, <2>1 DEF Restore, Goto
            <4>3. CASE failing[t]
                BY <4>2, <4>3
            <4>4. CASE ~failing[t]
                <5>1. Len(wrote[t]) = 1 /\ wrote[t][1] = request[t] /\ request[t] \in Levels
                    BY <4>2, <4>4
                <5>2. Len(wrote'[t]) = 2 /\ wrote'[t][2] = previous'[t]
                    BY <4>1, <5>1
                <5>3. wrote'[t][1] = request'[t]
                    BY <4>1, <5>1
                <5>4. QED
                    BY <4>1, <4>2, <4>4, <5>1, <5>2, <5>3
            <4>5. QED
                BY <4>3, <4>4
        <3>4. QED
            BY <3>1, <3>2, <3>3
    <2>2. CASE Goto(t, "failed") /\ UNCHANGED <<level, chosen, request, previous, wrote>>
        BY <1>7, <2>2 DEF Restore, Goto
    <2>3. QED
        BY <1>7, <2>1, <2>2 DEF Restore
<1>8. ASSUME NEW t \in Testers, Interrupt(t) PROVE WrittenInv'
    <2>1. CASE Leave(t, "interrupted")
        BY <2>1 DEF Leave, Goto
    <2>2. CASE /\ pc[t] = "write" /\ Goto(t, "wait") /\ failing' = [failing EXCEPT ![t] = TRUE]
               /\ UNCHANGED <<level, chosen, request, previous, wrote, cut>>
        BY <2>2 DEF Goto
    <2> QED
        BY <1>8, <2>1, <2>2 DEF Interrupt
<1>9. ASSUME NEW t \in Testers, Kill(t) PROVE WrittenInv'
    BY <1>9 DEF Kill, Leave, Goto
<1>10. QED
    BY <1>1, <1>2, <1>3, <1>4, <1>5, <1>6, <1>7, <1>8, <1>9 DEF Next

LEMMA WrittenAlways == Spec => []WrittenInv
BY WrittenInitially, WrittenStep, PTL DEF Spec

(* Types, and no test ever sets a level the device does not have: the      *)
(* guards of fan_test in front of its writes (hardware.py:642).            *)
THEOREM TypeCorrect == Spec => []TypeOK
<1>1. WrittenInv => TypeOK
    BY DEF WrittenInv
<1>2. QED
    BY <1>1, WrittenAlways, PTL

(* However many tests overlap, a report is returned only after both writes *)
(* it reports (hardware.py:663-664).                                       *)
THEOREM ReportsAreTrue == Spec => []ReportIsTrue
<1>1. WrittenInv => ReportIsTrue
    BY Pair DEF WrittenInv, Written, ReportIsTrue, TypeOK
<1>2. QED
    BY <1>1, WrittenAlways, PTL

(***************************************************************************)
(* With a single process at a time, the level it will put back was there   *)
(* when testing began or is the governor's.                                *)
(***************************************************************************)
Sole == \A t, u \in Testers : t = u

Kept(t) ==
    ~cut => /\ pc[t] \in Ended \cup {"read", "write"} => level \in chosen
            /\ pc[t] \in {"write", "wait", "restore"} => previous[t] \in chosen

KeptInv == TypeOK /\ (level \in chosen \/ \E t \in Testers : pc[t] \notin Ended \/ cut)
                  /\ \A t \in Testers : Kept(t)

LEMMA KeptInitially == Init => KeptInv
BY WrittenInitially DEF Init, WrittenInv, KeptInv, Kept

(* Only the one process writes, so every other step keeps its level. *)
LEMMA KeptStep ==
    ASSUME Sole, KeptInv, TypeOK', [Next]_vars
    PROVE  KeptInv'
<1> USE DEF KeptInv, TypeOK, Kept, Sole
<1>1. CASE UNCHANGED vars
    BY <1>1 DEF vars
<1>2. ASSUME NEW l \in Levels, Govern(l) PROVE KeptInv'
    BY <1>2 DEF Govern
<1>3. ASSUME NEW t \in Testers, NEW state \in Requests, Call(t, state) PROVE KeptInv'
    BY <1>3 DEF Call, Goto
<1>4. ASSUME NEW t \in Testers, Read(t) PROVE KeptInv'
    BY <1>4 DEF Read, Goto
<1>5. ASSUME NEW t \in Testers, Write(t) PROVE KeptInv'
    BY <1>5 DEF Write, Put, Goto
<1>6. ASSUME NEW t \in Testers, Wait(t) PROVE KeptInv'
    BY <1>6 DEF Wait, Goto
<1>7. ASSUME NEW t \in Testers, Restore(t) PROVE KeptInv'
    BY <1>7 DEF Restore, Put, Goto
<1>8. ASSUME NEW t \in Testers, Interrupt(t) PROVE KeptInv'
    BY <1>8 DEF Interrupt, Leave, Goto
<1>9. ASSUME NEW t \in Testers, Kill(t) PROVE KeptInv'
    BY <1>9 DEF Kill, Leave, Goto
<1>10. QED
    BY <1>1, <1>2, <1>3, <1>4, <1>5, <1>6, <1>7, <1>8, <1>9 DEF Next

(* A test that has the fan for itself leaves the level it found or one the *)
(* governor has set since, whatever failed in between (hardware.py:625).   *)
THEOREM SoleTestRestores == ASSUME Sole PROVE Spec => []KernelLevelLeft
<1>1. Init => KeptInv
    BY KeptInitially
<1>2. KeptInv /\ TypeOK' /\ [Next]_vars => KeptInv'
    BY KeptStep
<1>3. KeptInv => KernelLevelLeft
    BY DEF KeptInv, Kept, KernelLevelLeft
<1>4. QED
    BY <1>1, <1>2, <1>3, TypeCorrect, PTL DEF Spec

-----------------------------------------------------------------------------
(* The rates that the snapshots show (CpuUsage, NetworkRates).             *)

(* The sample that was kept is the one of the last snapshot, or none.      *)
CpuKept ==
    /\ cpu \in [Usage!Fields -> Nat] /\ seen \in [Usage!Fields -> Nat]
    /\ previousCpu \in {seen, None}

Reading == Nat \cup {None}

(* What an interface has carried since the sample that was kept: all of it *)
(* if it was there all the time, at least what it counts if it was not.    *)
Accounted(i) ==
    /\ carried[i] \in Nat
    /\ i \in restarted /\ counter[i] # None => counter[i] <= carried[i]
    /\ i \notin restarted /\ previousNet[i] # None =>
         counter[i] = previousNet[i] + carried[i]

NetTyped ==
    /\ counter \in [Interfaces -> Reading] /\ previousNet \in [Interfaces -> Reading]
    /\ carried \in [Interfaces -> Nat]

NetKept == NetTyped /\ \A i \in Interfaces : Accounted(i)

HardwareInv == CpuKept /\ NetKept

LEMMA HardwareStarts == HardwareInit => HardwareInv
BY DEF HardwareInit, HardwareInv, CpuKept, NetKept, NetTyped, Reading, Accounted, Usage!Init,
       Rates!Init

LEMMA CpuSteps == ASSUME CpuKept, Usage!Next PROVE CpuKept'
<1>1. CASE Usage!Count
  <2>1. cpu' \in [Usage!Fields -> Nat]
    BY <1>1 DEF Usage!Count
  <2> QED
    BY <1>1, <2>1 DEF Usage!Count, CpuKept
<1>2. CASE Usage!Sample
  BY <1>2 DEF Usage!Sample, Usage!Keep, CpuKept
<1> QED
  BY <1>1, <1>2 DEF Usage!Next

LEMMA NetSteps == ASSUME NetKept, Rates!Next PROVE NetKept'
<1> USE DEF NetKept, NetTyped
<1>1. CASE Rates!Tick
  <2>1. /\ counter' = counter /\ previousNet' = previousNet /\ carried' = carried
        /\ restarted' = restarted
    BY <1>1 DEF Rates!Tick
  <2>2. \A i \in Interfaces : Accounted(i)'
    BY <2>1 DEF Accounted
  <2> QED
    BY <2>1, <2>2
<1>2. ASSUME NEW i \in Interfaces, Rates!Carry(i) PROVE NetKept'
  <2>1. counter[i] \in Nat /\ carried[i] \in Nat /\ counter[i] # None
    BY <1>2 DEF Rates!Carry, Reading
  <2>2. /\ counter' = [counter EXCEPT ![i] = counter[i] + 1]
        /\ carried' = [carried EXCEPT ![i] = carried[i] + 1]
        /\ previousNet' = previousNet /\ restarted' = restarted
    BY <1>2 DEF Rates!Carry
  <2>3. NetTyped'
    BY <2>1, <2>2 DEF Reading
  <2>4. Accounted(i)'
    <3>1. counter'[i] = counter[i] + 1 /\ carried'[i] = carried[i] + 1
      BY <2>2
    <3>2. i \in restarted => counter'[i] <= carried'[i]
      BY <2>1, <3>1 DEF Accounted
    <3>3. i \notin restarted /\ previousNet[i] # None =>
             counter'[i] = previousNet[i] + carried'[i]
      BY <2>1, <3>1 DEF Accounted, Reading
    <3> QED
      BY <2>1, <2>2, <2>3, <3>1, <3>2, <3>3 DEF Accounted
  <2>5. \A j \in Interfaces \ {i} : Accounted(j)'
    BY <2>2 DEF Accounted
  <2> QED
    BY <2>3, <2>4, <2>5
<1>3. ASSUME NEW i \in Interfaces, Rates!Plug(i) PROVE NetKept'
  <2>1. PICK c \in {0, None} : counter' = [counter EXCEPT ![i] = c]
    BY <1>3 DEF Rates!Plug
  <2>2. /\ carried' = carried /\ previousNet' = previousNet /\ restarted' = restarted \cup {i}
    BY <1>3 DEF Rates!Plug
  <2>3. NetTyped'
    BY <2>1, <2>2 DEF Reading
  <2>4. Accounted(i)'
    BY <2>1, <2>2 DEF Accounted
  <2>5. \A j \in Interfaces \ {i} : Accounted(j)'
    BY <2>1, <2>2 DEF Accounted
  <2> QED
    BY <2>3, <2>4, <2>5
<1>4. CASE Rates!Sample
  <2>1. PICK read \in SUBSET Interfaces :
           previousNet' = [i \in Interfaces |-> IF i \in read THEN counter[i] ELSE None]
    BY <1>4 DEF Rates!Sample, Rates!Keep
  <2>2. carried' = [i \in Interfaces |-> 0] /\ restarted' = {} /\ counter' = counter
    BY <1>4 DEF Rates!Sample
  <2>3. NetTyped'
    BY <2>1, <2>2 DEF Reading
  <2>4. \A i \in Interfaces : Accounted(i)'
    BY <2>1, <2>2 DEF Accounted, Reading
  <2> QED
    BY <2>3, <2>4
<1> QED
  BY <1>1, <1>2, <1>3, <1>4 DEF Rates!Next

LEMMA HardwareSteps ==
    HardwareInv /\ [HardwareNext]_<<part, vars, cpuVars, netVars>> => HardwareInv'
<1> SUFFICES ASSUME HardwareInv, [HardwareNext]_<<part, vars, cpuVars, netVars>>
             PROVE  HardwareInv'
  OBVIOUS
<1>1. UNCHANGED cpuVars => CpuKept'
  BY DEF cpuVars, HardwareInv, CpuKept
<1>2. UNCHANGED netVars => NetKept'
  BY DEF netVars, HardwareInv, NetKept, NetTyped, Accounted
<1> QED
  BY <1>1, <1>2, CpuSteps, NetSteps DEF HardwareInv, HardwareNext

LEMMA UsageTrue ==
    CpuKept /\ Usage!Sample /\ usage' # None =>
        /\ usage'.part \in 0..usage'.of /\ usage'.of > 0
        /\ usage' = Usage!Share(Usage!Delta(cpu, seen))
<1> SUFFICES ASSUME CpuKept, Usage!Sample, usage' # None
             PROVE  /\ usage'.part \in 0..usage'.of /\ usage'.of > 0
                    /\ usage' = Usage!Share(Usage!Delta(cpu, seen))
  OBVIOUS
<1> DEFINE d == Usage!Delta(cpu, seen)
<1>1. PICK now \in {cpu, None} : usage' = Usage!Usage(now)
  BY DEF Usage!Sample
<1>2. previousCpu = seen /\ now = cpu
  BY <1>1 DEF CpuKept, Usage!Usage
<1>3. /\ \A f \in Usage!Fields : ~(d[f] < 0)
      /\ Usage!Total(d) # 0 /\ usage' = Usage!Share(d)
  BY <1>1, <1>2 DEF Usage!Usage
<1>4. /\ d["busy"] \in Int /\ d["idle"] \in Int /\ d["iowait"] \in Int
  BY DEF CpuKept, Usage!Fields, Usage!Delta
<1>5. ~(d["busy"] < 0) /\ ~(d["idle"] < 0) /\ ~(d["iowait"] < 0)
  BY <1>3 DEF Usage!Fields
<1> HIDE DEF d
<1>6. /\ usage'.of = d["busy"] + d["idle"] + d["iowait"]
      /\ usage'.part = d["busy"] + d["idle"] + d["iowait"] - d["idle"] - d["iowait"]
  BY <1>3, <1>4 DEF Usage!Share, Usage!Total
<1>7. d["busy"] + d["idle"] + d["iowait"] # 0
  BY <1>3 DEF Usage!Total
<1>8. usage'.part \in 0..usage'.of /\ usage'.of > 0
  BY <1>4, <1>5, <1>6, <1>7
<1> QED
  BY <1>3, <1>8 DEF d

LEMMA RatesTrue ==
    ASSUME NetKept, Rates!Sample, NEW i \in Interfaces, rates'[i] # None
    PROVE  /\ rates'[i].bytes \in 0..carried[i]
           /\ i \notin restarted => rates'[i].bytes = carried[i]
<1>1. PICK read \in SUBSET Interfaces :
         rates' = [j \in Interfaces |->
                      Rates!Rate([k \in Interfaces |-> IF k \in read THEN counter[k] ELSE None][j],
                                 previousNet[j])]
  BY DEF Rates!Sample
<1>2. /\ counter[i] # None /\ previousNet[i] # None /\ ~(counter[i] < previousNet[i])
      /\ rates'[i] = [bytes |-> counter[i] - previousNet[i], elapsed |-> clock]
  BY <1>1 DEF Rates!Rate
<1>3. counter[i] \in Nat /\ previousNet[i] \in Nat /\ carried[i] \in Nat
  BY <1>2 DEF NetKept, NetTyped, Reading
<1>4. rates'[i].bytes = counter[i] - previousNet[i]
  BY <1>2
<1>5. CASE i \in restarted
  <2>1. counter[i] <= carried[i]
    BY <1>2, <1>5 DEF NetKept, Accounted
  <2> QED
    BY <1>2, <1>3, <1>4, <1>5, <2>1
<1>6. CASE i \notin restarted
  <2>1. counter[i] = previousNet[i] + carried[i]
    BY <1>2, <1>6 DEF NetKept, Accounted
  <2> QED
    BY <1>2, <1>3, <1>4, <2>1
<1> QED
  BY <1>5, <1>6

(* A usage shown is between 0 and 1 and of the time since the last         *)
(* snapshot, and a network rate of no more bytes than were carried since   *)
(* and of all of them if the interface was there all the time: however     *)
(* the counters go back, and whichever sample could not be read            *)
(* (_cpu_usage and _network_rates).                                        *)
THEOREM RatesShownAreTrue == HardwareSpec => RatesAreTrue
<1>1. HardwareInv /\ [HardwareNext]_<<part, vars, cpuVars, netVars>> =>
          [cpuSamples' # cpuSamples /\ usage' # None =>
             /\ usage'.part \in 0..usage'.of /\ usage'.of > 0
             /\ usage' = Usage!Share(Usage!Delta(cpu, seen))]_Usage!vars
  <2> SUFFICES ASSUME HardwareInv, [HardwareNext]_<<part, vars, cpuVars, netVars>>,
                      cpuSamples' # cpuSamples, usage' # None
               PROVE  /\ usage'.part \in 0..usage'.of /\ usage'.of > 0
                      /\ usage' = Usage!Share(Usage!Delta(cpu, seen))
    OBVIOUS
  <2>1. Usage!Sample
    BY DEF HardwareNext, cpuVars, Usage!Next, Usage!Count
  <2> QED
    BY <2>1, UsageTrue DEF HardwareInv
<1>2. HardwareInv /\ [HardwareNext]_<<part, vars, cpuVars, netVars>> =>
          [netSamples' # netSamples =>
             \A i \in Interfaces : rates'[i] # None =>
                /\ rates'[i].bytes \in 0..carried[i]
                /\ i \notin restarted => rates'[i].bytes = carried[i]]_Rates!vars
  <2> SUFFICES ASSUME HardwareInv, [HardwareNext]_<<part, vars, cpuVars, netVars>>,
                      netSamples' # netSamples, NEW i \in Interfaces, rates'[i] # None
               PROVE  /\ rates'[i].bytes \in 0..carried[i]
                      /\ i \notin restarted => rates'[i].bytes = carried[i]
    OBVIOUS
  <2>1. Rates!Sample
    BY DEF HardwareNext, netVars, Rates!Next, Rates!Tick, Rates!Carry, Rates!Plug
  <2> QED
    BY <2>1, RatesTrue DEF HardwareInv
<1> QED
  BY HardwareStarts, HardwareSteps, <1>1, <1>2, PTL
  DEF HardwareSpec, RatesAreTrue, Usage!UsageIsOfThisInterval, Rates!RateIsCarried
=============================================================================
