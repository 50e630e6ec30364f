--------------------------- MODULE Bridge_proofs ----------------------------
(***************************************************************************)
(* The plugin loses no bridge process, proved for any number of restarts,  *)
(* processes and failures.  The strengthening says who is inside rt.mu: a  *)
(* goroutine that kills or launches holds the lock, the process being      *)
(* launched belongs to it, and a restart launches only when the bridge it  *)
(* replaces is dead.                                                       *)
(***************************************************************************)
EXTENDS Bridge, TLAPS

Inside == {"kill", "spawn", "handshake", "attach"}

LockHeld == \A t \in Writers : pc[t] \in Inside => mu = t

LaunchOwned ==
  /\ cmd # NoProc => \E t \in Writers : pc[t] \in {"handshake", "attach"}
  /\ \A t \in Writers : pc[t] \in {"handshake", "attach"} => cmd \in Procs

KilledFirst == \A r \in Restarters : pc[r] = "spawn" => current \notin Live

MainPlaces == pc["main"] \in {"run", "lock", "kill", "exit", "gone"}

IInv == TypeOK /\ MainPlaces /\ LockHeld /\ LaunchOwned /\ KilledFirst /\ NoStrayBridge

Launchers == {"watchdog"} \cup Restarters

LEMMA ThreadFacts ==
  /\ Nobody \notin Writers /\ "events" \notin Writers
  /\ "main" \notin Launchers /\ "watchdog" \notin Restarters
  /\ Launchers \subseteq Writers /\ Writers \subseteq Threads
  /\ "watchdog" \in Writers /\ "main" \in Writers /\ "events" \in Threads
BY ThreadsAssumption DEF Writers, Threads, Launchers, Nobody

\* A goroutine inside the lock is there alone.
LEMMA Alone ==
  ASSUME LockHeld, NEW t \in Writers, pc[t] \in Inside, NEW u \in Writers, u # t
  PROVE  pc[u] \notin Inside
BY DEF LockHeld

LEMMA GotoType ==
  ASSUME TypeOK, NEW t \in Threads, NEW l, Goto(t, l)
  PROVE  pc'[t] = l /\ \A u \in Threads : u # t => pc'[u] = pc[u]
BY DEF TypeOK, Goto

LEMMA InitInv == Init => IInv
<1> SUFFICES ASSUME Init PROVE IInv
  OBVIOUS
<1>1. TypeOK
  BY BoundsAssumption DEF Init, TypeOK
<1>2. \A t \in Writers : pc[t] \notin Inside
  BY ThreadFacts DEF Init, Inside
<1>3. QED
  BY <1>1, <1>2, ThreadFacts DEF Init, IInv, MainPlaces, LockHeld, LaunchOwned, KilledFirst, NoStrayBridge, Inside, Live

-----------------------------------------------------------------------------
(* One lemma for each way to move with respect to the lock.                *)

\* Steps that neither enter nor leave it, and start no process.
LEMMA OutsideInv ==
  ASSUME IInv, UNCHANGED <<mu, cmd, current, astray>>, TypeOK', MainPlaces',
         Live' \subseteq Live,
         \A t \in Writers : pc'[t] \in Inside => pc'[t] = pc[t],
         \A t \in Writers : pc[t] \in {"handshake", "attach"} => pc'[t] = pc[t]
  PROVE  IInv'
<1>1. LockHeld'
  BY DEF IInv, LockHeld
<1>2. LaunchOwned'
  BY DEF IInv, LaunchOwned, Inside
<1>3. KilledFirst'
  BY ThreadFacts DEF IInv, KilledFirst, Inside, Launchers
<1>4. NoStrayBridge'
  BY DEF IInv, NoStrayBridge
<1>5. QED
  BY <1>1, <1>2, <1>3, <1>4 DEF IInv

\* The way in.
LEMMA LockInv ==
  ASSUME IInv, NEW t \in Writers, Lock(t), TypeOK', t = "main" => MainPlaces'
  PROVE  IInv'
<1>0. \A u \in Writers : pc[u] \notin Inside
  BY ThreadFacts DEF IInv, LockHeld, Lock
<1>1. /\ t \in Threads /\ mu' = t
      /\ pc'[t] = (IF t = "watchdog" THEN "spawn" ELSE "kill")
      /\ \A u \in Threads : u # t => pc'[u] = pc[u]
  BY ThreadFacts, GotoType DEF IInv, Lock
<1>2. cmd = NoProc /\ cmd' = NoProc
  BY <1>0 DEF IInv, LaunchOwned, Inside, Lock
<1>3. LockHeld' /\ KilledFirst' /\ LaunchOwned'
  BY <1>0, <1>1, <1>2, ThreadFacts DEF LockHeld, KilledFirst, LaunchOwned, Inside, Launchers
<1>4. MainPlaces'
  BY <1>1, ThreadFacts DEF IInv, MainPlaces
<1>5. NoStrayBridge'
  BY DEF IInv, NoStrayBridge, Lock, Live
<1>6. QED
  BY <1>3, <1>4, <1>5 DEF IInv

\* The kill of a restart.
LEMMA KillInv ==
  ASSUME IInv, NEW r \in Restarters, Kill(r), TypeOK'
  PROVE  IInv'
<1>0. r \in Writers /\ r \in Threads /\ r # "main"
  BY ThreadFacts DEF Launchers
<1>1. /\ pc[r] = "kill" /\ pc'[r] = "spawn"
      /\ \A u \in Threads : u # r => pc'[u] = pc[u]
  BY <1>0, GotoType DEF IInv, Kill, At
<1>2. \A u \in Writers : u # r => pc[u] \notin Inside
  BY <1>0, <1>1, Alone DEF IInv, Inside
<1>3. UNCHANGED <<mu, cmd, current, astray>> /\ current \notin Live' /\ Live' \subseteq Live
  BY DEF Kill, rt, Live, IInv, TypeOK
<1>4. LockHeld'
  BY <1>0, <1>1, <1>3, ThreadFacts DEF IInv, LockHeld, Inside
<1>5. LaunchOwned'
  BY <1>0, <1>1, <1>2, <1>3, ThreadFacts DEF IInv, LaunchOwned, Inside
<1>6. KilledFirst' /\ MainPlaces'
  BY <1>0, <1>1, <1>3, ThreadFacts DEF KilledFirst, MainPlaces, IInv
<1>7. NoStrayBridge'
  BY <1>3 DEF IInv, NoStrayBridge
<1>8. QED
  BY <1>4, <1>5, <1>6, <1>7 DEF IInv

\* The start of a launch.
LEMMA SpawnInv ==
  ASSUME IInv, NEW t \in Launchers, Spawn(t), TypeOK'
  PROVE  IInv'
<1>0. t \in Writers /\ t \in Threads /\ t # "main"
  BY ThreadFacts
<1>1. /\ pc[t] = "spawn" /\ pc'[t] = "handshake"
      /\ \A u \in Threads : u # t => pc'[u] = pc[u]
  BY <1>0, GotoType DEF IInv, Spawn, At
<1>2. \A u \in Writers : u # t => pc[u] \notin Inside
  BY <1>0, <1>1, Alone DEF IInv, Inside
<1>3. cmd = NoProc
  BY <1>1, <1>2 DEF IInv, LaunchOwned, Inside
<1>4. PICK p \in Procs \ (Live \cup {current, asked}) :
        /\ proc' = [proc EXCEPT ![p] = "running"] /\ cmd' = p
        /\ astray' = (astray \ {p}) \cup
                       IF t = "watchdog" /\ current \in Live THEN {current} ELSE {}
  BY DEF Spawn
<1>5. UNCHANGED <<mu, current>> /\ Live' = Live \cup {p}
  BY <1>4 DEF Spawn, rt, Live, IInv, TypeOK
<1>6. LockHeld' /\ LaunchOwned' /\ MainPlaces'
  BY <1>0, <1>1, <1>2, <1>4, <1>5, ThreadFacts
  DEF IInv, LockHeld, LaunchOwned, MainPlaces, Inside
<1>7. KilledFirst'
  BY <1>0, <1>1, <1>2, ThreadFacts DEF KilledFirst, Inside, Launchers
<1>8. NoStrayBridge'
  <2>1. t # "watchdog" => current \notin Live
    BY <1>1 DEF IInv, KilledFirst, Launchers
  <2>2. Live \subseteq {current} \cup astray
    BY <1>3, ProcsAssumption DEF IInv, NoStrayBridge, Live
  <2>3. current \notin Live' \ astray'
    BY <1>4, <1>5, <2>1
  <2>4. QED
    BY <1>4, <1>5, <2>2, <2>3 DEF NoStrayBridge
<1>9. QED
  BY <1>6, <1>7, <1>8 DEF IInv

LEMMA HandshakeInv ==
  ASSUME IInv, NEW t \in Launchers, Handshake(t), TypeOK'
  PROVE  IInv'
<1>0. t \in Writers /\ t \in Threads /\ t # "main"
  BY ThreadFacts
<1>1. /\ pc[t] = "handshake" /\ pc'[t] = "attach"
      /\ \A u \in Threads : u # t => pc'[u] = pc[u]
  BY <1>0, GotoType DEF IInv, Handshake, At
<1>2. UNCHANGED <<mu, cmd, current, astray>> /\ Live' = Live
  BY DEF Handshake, Live
<1>3. LockHeld' /\ LaunchOwned' /\ KilledFirst' /\ MainPlaces'
  BY <1>0, <1>1, <1>2, ThreadFacts
  DEF IInv, LockHeld, LaunchOwned, KilledFirst, MainPlaces, Inside, Launchers
<1>4. NoStrayBridge'
  BY <1>2 DEF IInv, NoStrayBridge
<1>5. QED
  BY <1>3, <1>4 DEF IInv

\* The end of a launch, whatever its outcome.
LEMMA ReleaseInv ==
  ASSUME IInv, NEW t \in Launchers, pc[t] \in {"handshake", "attach"}, Release(t),
         TypeOK', Live' \subseteq {current'} \cup astray'
  PROVE  IInv'
<1>0. t \in Writers /\ t \in Threads /\ t # "main"
  BY ThreadFacts
<1>1. pc'[t] = "idle" /\ cmd' = NoProc /\ \A u \in Threads : u # t => pc'[u] = pc[u]
  BY <1>0, GotoType DEF IInv, Release
<1>2. \A u \in Writers : pc'[u] \notin Inside
  BY <1>0, <1>1, Alone, ThreadFacts DEF IInv, Inside
<1>3. LockHeld' /\ LaunchOwned' /\ KilledFirst' /\ MainPlaces'
  BY <1>0, <1>1, <1>2, ThreadFacts
  DEF IInv, LockHeld, LaunchOwned, KilledFirst, MainPlaces, Inside, Launchers
<1>4. QED
  BY <1>1, <1>3 DEF IInv, NoStrayBridge

-----------------------------------------------------------------------------
LEMMA TypeStep == TypeOK /\ LaunchOwned /\ [Next]_vars => TypeOK'
<1> SUFFICES ASSUME TypeOK, LaunchOwned, [Next]_vars PROVE TypeOK'
  OBVIOUS
<1> USE DEF TypeOK, Goto, At, Fault, Release, rt
<1>0. /\ {"watchdog", "events", "main"} \subseteq Threads
      /\ Launchers \subseteq Writers /\ Writers \subseteq Threads
  BY ThreadFacts
<1>1. CASE WatchdogCheck \/ WatchdogSleep \/ Disconnect
  BY <1>0, <1>1 DEF WatchdogCheck, WatchdogSleep, Disconnect
<1>2. ASSUME NEW t \in Writers, Lock(t) PROVE TypeOK'
  BY <1>0, <1>2 DEF Lock
<1>3. ASSUME NEW r \in Restarters, Kill(r) PROVE TypeOK'
  BY <1>0, <1>3 DEF Kill, Launchers
<1>4. ASSUME NEW t \in Launchers, Launch(t) PROVE TypeOK'
  <2>1. CASE Spawn(t)
    BY <1>0, <2>1 DEF Spawn, Live
  <2>2. CASE HandshakeFails(t) \/ HandshakeLost(t)
    BY <1>0, <2>2, BoundsAssumption DEF HandshakeFails, HandshakeLost
  <2>3. CASE Handshake(t)
    <3>1. cmd \in Procs
      BY <1>0, <2>3 DEF Handshake, LaunchOwned
    <3>2. QED
      BY <1>0, <2>3, <3>1 DEF Handshake
  <2>4. CASE Dispense(t) \/ DispenseFails(t)
    BY <1>0, <2>4, BoundsAssumption DEF Dispense, DispenseFails, Live
  <2>5. QED
    BY <1>4, <2>1, <2>2, <2>3, <2>4 DEF Launch
<1>5. CASE OnPropertyInspectorConnected \/ SensorsAnswer
  BY <1>0, <1>5, BoundsAssumption DEF OnPropertyInspectorConnected, SensorsAnswer
<1>6. ASSUME NEW r \in Restarters, SensorsFail(r) PROVE TypeOK'
  BY <1>0, <1>6 DEF SensorsFail, Launchers
<1>7. CASE Shutdown \/ Exit
  BY <1>0, <1>7, BoundsAssumption DEF Shutdown, Exit
<1>8. ASSUME NEW p \in Procs, Crash(p) \/ Hang(p) PROVE TypeOK'
  BY <1>8, BoundsAssumption DEF Crash, Hang
<1>9. CASE UNCHANGED vars
  BY <1>9 DEF vars
<1>10. QED
  BY <1>0, <1>1, <1>2, <1>3, <1>4, <1>5, <1>6, <1>7, <1>8, <1>9, ThreadFacts
  DEF Next, Watchdog, Restarter, Events, Main, Launchers

\* A step of one goroutine that stays outside the lock before and after.
LEMMA OutsideGoto ==
  ASSUME IInv, NEW t \in Threads, NEW l, l \notin Inside, Goto(t, l), TypeOK',
         pc[t] \notin {"handshake", "attach"},
         t = "main" => l \in {"lock", "exit", "gone"},
         UNCHANGED <<mu, cmd, current, astray>>, Live' \subseteq Live
  PROVE  IInv'
<1>1. pc'[t] = l /\ \A u \in Threads : u # t => pc'[u] = pc[u]
  BY GotoType DEF IInv
<1>2. MainPlaces'
  BY <1>1, ThreadFacts DEF IInv, MainPlaces
<1>3. \A u \in Writers : pc'[u] \in Inside => pc'[u] = pc[u]
  BY <1>1, ThreadFacts
<1>4. \A u \in Writers : pc[u] \in {"handshake", "attach"} => pc'[u] = pc[u]
  BY <1>1, ThreadFacts
<1>5. QED
  BY <1>2, <1>3, <1>4, OutsideInv

LEMMA InvStep == IInv /\ TypeOK' /\ [Next]_vars => IInv'
<1> SUFFICES ASSUME IInv, TypeOK', [Next]_vars PROVE IInv'
  OBVIOUS
<1>0. /\ TypeOK /\ MainPlaces
      /\ {"watchdog", "events", "main"} \subseteq Threads
      /\ Launchers \subseteq Writers /\ Writers \subseteq Threads
      /\ Restarters \subseteq Launchers /\ "watchdog" \in Launchers
  BY ThreadFacts DEF IInv, Launchers
<1>1. CASE WatchdogCheck \/ WatchdogSleep \/ Disconnect
  <2>1. CASE WatchdogCheck
    <3>1. ASSUME NEW l \in {"lock", "idle"}, Goto("watchdog", l) PROVE IInv'
      BY <1>0, <2>1, <3>1, OutsideGoto DEF WatchdogCheck, At, rt, Live, Inside
    <3>2. QED
      BY <2>1, <3>1 DEF WatchdogCheck
  <2>2. CASE WatchdogSleep
    BY <1>0, <2>2, OutsideGoto DEF WatchdogSleep, At, rt, Live, Inside
  <2>3. CASE Disconnect
    BY <1>0, <2>3, OutsideGoto DEF Disconnect, At, rt, Live, Inside
  <2>4. QED
    BY <1>1, <2>1, <2>2, <2>3
<1>2. ASSUME NEW t \in Writers, Lock(t) PROVE IInv'
  <2>1. t = "main" => pc'["main"] = "kill"
    BY <1>0, <1>2, GotoType DEF Lock
  <2>2. QED
    BY <1>2, <2>1, LockInv DEF MainPlaces
<1>3. ASSUME NEW r \in Restarters, Kill(r) PROVE IInv'
  BY <1>3, KillInv
<1>4. ASSUME NEW t \in Launchers, Launch(t) PROVE IInv'
  <2>0. cmd \in Procs \/ pc[t] \notin {"handshake", "attach"}
    BY <1>0 DEF IInv, LaunchOwned
  <2>1. CASE Spawn(t)
    BY <2>1, SpawnInv
  <2>2. CASE HandshakeFails(t) \/ HandshakeLost(t)
    <3>1. pc[t] = "handshake" /\ Release(t) /\ UNCHANGED <<current, astray>>
          /\ proc' = [proc EXCEPT ![cmd] = "dead"]
      BY <2>2 DEF HandshakeFails, HandshakeLost, At
    <3>2. Live' \subseteq Live \ {cmd}
      BY <1>0, <2>0, <3>1 DEF Live, TypeOK
    <3>3. QED
      BY <3>1, <3>2, ReleaseInv DEF IInv, NoStrayBridge
  <2>3. CASE Handshake(t)
    BY <2>3, HandshakeInv
  <2>4. CASE Dispense(t)
    <3>1. pc[t] = "attach" /\ Release(t) /\ current' = cmd /\ astray' = astray /\ Live' = Live
      BY <2>4 DEF Dispense, At, Live
    <3>2. cmd # NoProc
      BY <2>0, <3>1, ProcsAssumption
    <3>3. QED
      BY <3>1, <3>2, ReleaseInv DEF IInv, NoStrayBridge
  <2>5. CASE DispenseFails(t)
    <3>1. pc[t] = "attach" /\ Release(t) /\ current' = current /\ Live' = Live
          /\ astray' = astray \cup ({cmd} \cap Live)
      BY <2>5 DEF DispenseFails, At, Live
    <3>2. QED
      BY <3>1, ReleaseInv DEF IInv, NoStrayBridge
  <2>6. QED
    BY <1>4, <2>1, <2>2, <2>3, <2>4, <2>5 DEF Launch
<1>5. CASE OnPropertyInspectorConnected \/ SensorsAnswer
  <2>1. CASE OnPropertyInspectorConnected
    BY <1>0, <2>1, ThreadFacts, OutsideGoto DEF OnPropertyInspectorConnected, At, rt, Live, Inside
  <2>2. CASE SensorsAnswer
    BY <1>0, <2>2, ThreadFacts, OutsideGoto DEF SensorsAnswer, At, rt, Live, Inside
  <2>3. QED
    BY <1>5, <2>1, <2>2
<1>6. ASSUME NEW r \in Restarters, SensorsFail(r) PROVE IInv'
  <2>1. /\ UNCHANGED <<mu, cmd, current, astray>> /\ Live' = Live
        /\ pc[r] = "idle" /\ pc["events"] = "asking"
        /\ pc' = [pc EXCEPT !["events"] = "idle", ![r] = "lock"]
    BY <1>6 DEF SensorsFail, rt, Live, At
  <2>2. \A u \in Writers : pc'[u] = IF u = r THEN "lock" ELSE pc[u]
    BY <1>0, <2>1, ThreadFacts DEF TypeOK
  <2>3. MainPlaces'
    BY <1>0, <2>2, ThreadFacts DEF MainPlaces
  <2>4. \A u \in Writers : pc'[u] \in Inside => pc'[u] = pc[u]
    BY <2>2 DEF Inside
  <2>5. \A u \in Writers : pc[u] \in {"handshake", "attach"} => pc'[u] = pc[u]
    BY <2>1, <2>2
  <2>6. QED
    BY <2>1, <2>3, <2>4, <2>5, OutsideInv
<1>7. CASE Shutdown
  <2>1. pc["main"] = "kill" /\ Goto("main", "exit") /\ mu' = Nobody
        /\ UNCHANGED <<cmd, current, astray>> /\ Live' \subseteq Live
    BY <1>0, <1>7 DEF Shutdown, At, Live, TypeOK
  <2>2. /\ pc'["main"] = "exit" /\ \A u \in Threads : u # "main" => pc'[u] = pc[u]
    BY <1>0, <2>1, GotoType
  <2>3. \A u \in Writers : pc'[u] \notin Inside
    BY <1>0, <2>1, <2>2, Alone, ThreadFacts DEF IInv, Inside
  <2>4. cmd = NoProc
    BY <1>0, <2>1, Alone, ThreadFacts DEF IInv, LaunchOwned, Inside
  <2>5. LockHeld' /\ LaunchOwned' /\ KilledFirst' /\ MainPlaces'
    BY <1>0, <2>1, <2>2, <2>3, <2>4
    DEF LockHeld, LaunchOwned, KilledFirst, MainPlaces, Inside, Launchers
  <2>6. NoStrayBridge'
    BY <2>1 DEF IInv, NoStrayBridge
  <2>7. QED
    BY <2>5, <2>6 DEF IInv
<1>8. CASE Exit
  <2>1. Live' \subseteq Live
    BY <1>0, <1>8 DEF Exit, Live, TypeOK
  <2>2. pc["main"] \notin {"handshake", "attach"}
    BY <1>0 DEF MainPlaces
  <2>3. QED
    <3>1. /\ Goto("main", "gone") /\ UNCHANGED <<mu, cmd, current, astray>>
          /\ "gone" \notin Inside /\ "main" \in Threads
      BY <1>0, <1>8 DEF Exit, rt, Inside
    <3>2. QED
      BY <2>1, <2>2, <3>1, OutsideGoto
<1>9. ASSUME NEW p \in Procs, Crash(p) \/ Hang(p) PROVE IInv'
  <2>1. UNCHANGED <<mu, cmd, current, astray, pc>> /\ Live' \subseteq Live
    BY <1>0, <1>9 DEF Crash, Hang, Live, rt, TypeOK
  <2>2. QED
    BY <1>0, <2>1, OutsideInv DEF MainPlaces
<1>10. CASE UNCHANGED vars
  <2>1. UNCHANGED <<mu, cmd, current, astray, pc>> /\ Live' = Live
    BY <1>10 DEF vars, rt, Live
  <2>2. QED
    BY <1>0, <2>1, OutsideInv DEF MainPlaces
<1>11. QED
  BY <1>0, <1>1, <1>2, <1>3, <1>4, <1>5, <1>6, <1>7, <1>8, <1>9, <1>10, ThreadFacts
  DEF Next, Watchdog, Restarter, Events, Main

-----------------------------------------------------------------------------
LEMMA Inductive == Spec => []IInv
<1>1. IInv /\ [Next]_vars => IInv'
  BY TypeStep, InvStep DEF IInv
<1>2. QED
  BY <1>1, InitInv, PTL DEF Spec

\* Every variable keeps its type, for any number of processes and restarts.
THEOREM TypeCorrect == Spec => []TypeOK
<1>1. IInv => TypeOK
  BY DEF IInv
<1>2. QED
  BY <1>1, Inductive, PTL

\* The plugin lets go of a live bridge only in the two places named by astray,
\* for any number of processes, restarts, failures and interleavings.
THEOREM NoBridgeIsLost == Spec => []NoStrayBridge
<1>1. IInv => NoStrayBridge
  BY DEF IInv
<1>2. QED
  BY <1>1, Inductive, PTL
=============================================================================
