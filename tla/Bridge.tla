------------------------------- MODULE Bridge -------------------------------
(***************************************************************************)
(* The life of the sensor bridge process as the plugin manages it          *)
(* (plugin.go): the watchdog goroutine that starts it and restarts it when *)
(* it exits, the restartBridge goroutines that a Property Inspector's      *)
(* connection spawns when the bridge does not answer, the crash or hang of *)
(* the bridge itself, and the plugin's shutdown.                           *)
(*                                                                         *)
(* rt.mu is a readers-writer lock.  A reader's section is one step that    *)
(* needs the lock free; a writer holds it through kill and launch.  rt.c   *)
(* and rt.hw are always written together and are one variable, current.    *)
(***************************************************************************)
EXTENDS Naturals, FiniteSets

CONSTANTS
  Procs,          \* identities of bridge processes, used again once dead
  Restarters,     \* identities of restartBridge goroutines, used again
  NoProc,         \* nil
  MaxRequests,    \* bound on Property Inspector connections
  MaxFaults       \* bound on crashes, hangs and failed launches

ASSUME ProcsAssumption == NoProc \notin Procs
ASSUME ThreadsAssumption == Restarters \cap {"watchdog", "events", "main", "nobody"} = {}
ASSUME BoundsAssumption == MaxRequests \in Nat /\ MaxFaults \in Nat

Writers == {"watchdog", "main"} \cup Restarters
Threads == Writers \cup {"events"}
Nobody  == "nobody"

VARIABLES
  proc,           \* each bridge process: dead, running or hung
  job,            \* processes in a job object, which die with the plugin
  current,        \* rt.c and rt.hw: the bridge the plugin talks to
  peg,            \* rt.peg: the process of the last job object
  mu,             \* the writer that holds rt.mu
  pc,             \* where each goroutine is
  cmd,            \* the process that the holder of rt.mu is launching
  asked,          \* the bridge that sensorsWithTimeout is waiting for
  requests, faults,
  astray          \* history: live bridges the code has let go of without a kill

rt   == <<current, peg, mu>>
vars == <<proc, job, rt, pc, cmd, asked, requests, faults, astray>>

Live  == {p \in Procs : proc[p] # "dead"}
Gone  == pc["main"] = "gone"
Exited(p) == p # NoProc /\ proc[p] = "dead"

TypeOK ==
  /\ proc \in [Procs -> {"dead", "running", "hung"}]
  /\ job \subseteq Procs
  /\ current \in Procs \cup {NoProc} /\ peg \in Procs \cup {NoProc}
  /\ cmd \in Procs \cup {NoProc} /\ asked \in Procs \cup {NoProc}
  /\ mu \in Writers \cup {Nobody}
  /\ pc \in [Threads -> {"idle", "check", "lock", "kill", "spawn", "handshake",
                         "attach", "asking", "run", "exit", "gone"}]
  /\ requests \in 0..MaxRequests /\ faults \in 0..MaxFaults
  /\ astray \subseteq Procs

Init ==
  /\ proc = [p \in Procs |-> "dead"]
  /\ job = {} /\ astray = {}
  /\ current = NoProc /\ peg = NoProc /\ cmd = NoProc /\ asked = NoProc
  /\ mu = Nobody
  /\ pc = [t \in Threads |-> IF t = "watchdog" THEN "check"
                             ELSE IF t = "main" THEN "run" ELSE "idle"]
  /\ requests = 0 /\ faults = 0

-----------------------------------------------------------------------------
Goto(t, l) == pc' = [pc EXCEPT ![t] = l]

At(t, l) == ~Gone /\ pc[t] = l

Fault == faults < MaxFaults /\ faults' = faults + 1

\* The watchdog looks at the bridge under the read lock and lets go of it.
WatchdogCheck ==
  /\ At("watchdog", "check") /\ mu = Nobody
  /\ Goto("watchdog", IF current = NoProc \/ Exited(current) THEN "lock" ELSE "idle")
  /\ UNCHANGED <<proc, job, rt, cmd, asked, requests, faults, astray>>

\* time.Sleep(1 * time.Second)
WatchdogSleep ==
  /\ At("watchdog", "idle")
  /\ Goto("watchdog", "check")
  /\ UNCHANGED <<proc, job, rt, cmd, asked, requests, faults, astray>>

\* rt.mu.Lock() of startBridgeClient, restartBridge and RunForever's defer.
Lock(t) ==
  /\ At(t, "lock") /\ mu = Nobody
  /\ mu' = t
  /\ Goto(t, IF t = "watchdog" THEN "spawn" ELSE "kill")
  /\ UNCHANGED <<proc, job, current, peg, cmd, asked, requests, faults, astray>>

\* Faults, for the sensitivity checks only: a restart that leaves the old bridge
\* alone, and one that kills without the test for nil.
RestartKillsNil(t) ==
  /\ t \in Restarters /\ At(t, "kill")
  /\ proc' = [p \in Procs \cup {current} |-> IF p = current THEN "dead" ELSE proc[p]]
  /\ Goto(t, "spawn")
  /\ UNCHANGED <<job, rt, cmd, asked, requests, faults, astray>>

RestartWithoutKill(t) ==
  /\ t \in Restarters /\ At(t, "kill")
  /\ Goto(t, "spawn")
  /\ UNCHANGED <<proc, job, rt, cmd, asked, requests, faults, astray>>

\* rt.c.Kill() of restartBridge
Kill(t) ==
  /\ t \in Restarters /\ At(t, "kill")
  /\ proc' = [p \in Procs |-> IF p = current THEN "dead" ELSE proc[p]]
  /\ Goto(t, "spawn")
  /\ UNCHANGED <<job, rt, cmd, asked, requests, faults, astray>>

(* startBridgeClientLocked: exec, go-plugin's handshake, the job object and *)
(* Dispense.                                                               *)

Spawn(t) ==
  /\ At(t, "spawn")
  /\ \E p \in Procs \ (Live \cup {current, asked}) :
       /\ proc' = [proc EXCEPT ![p] = "running"]
       /\ cmd' = p
       /\ job' = job \ {p}
       /\ astray' = (astray \ {p}) \cup
                      IF t = "watchdog" /\ current \in Live THEN {current} ELSE {}
  /\ Goto(t, "handshake")
  /\ UNCHANGED <<rt, asked, requests, faults>>

\* Where a launch that is over, well or badly, leaves the goroutine.
Release(t) == mu' = Nobody /\ cmd' = NoProc /\ Goto(t, "idle")

\* client.Client() fails and go-plugin kills the process it started.
HandshakeFails(t) ==
  /\ At(t, "handshake") /\ Fault
  /\ proc' = [proc EXCEPT ![cmd] = "dead"]
  /\ Release(t)
  /\ UNCHANGED <<job, current, peg, asked, requests, astray>>

\* Fault: an error return without the deferred unlock.
HandshakeKeepsLock(t) ==
  /\ At(t, "handshake") /\ proc[cmd] # "running"
  /\ proc' = [proc EXCEPT ![cmd] = "dead"]
  /\ cmd' = NoProc /\ Goto(t, "idle")
  /\ UNCHANGED <<job, rt, asked, requests, faults, astray>>

\* The same when the process died, or hangs until go-plugin's start timeout.
HandshakeLost(t) ==
  /\ At(t, "handshake") /\ proc[cmd] # "running"
  /\ proc' = [proc EXCEPT ![cmd] = "dead"]
  /\ Release(t)
  /\ UNCHANGED <<job, current, peg, asked, requests, faults, astray>>

Handshake(t) ==
  /\ At(t, "handshake") /\ proc[cmd] = "running"
  /\ Goto(t, "attach")
  /\ \/ job' = job \cup {cmd} /\ peg' = cmd
     \/ UNCHANGED <<job, peg>>
  /\ UNCHANGED <<proc, current, mu, cmd, asked, requests, faults, astray>>

\* Fault: a launch that forgets to publish its client.
DispenseForgets(t) ==
  /\ At(t, "attach")
  /\ Release(t)
  /\ UNCHANGED <<proc, job, current, peg, asked, requests, faults, astray>>

Dispense(t) ==
  /\ At(t, "attach")
  /\ current' = cmd
  /\ Release(t)
  /\ UNCHANGED <<proc, job, peg, asked, requests, faults, astray>>

\* Dispense fails: the error return leaves the new process running.
DispenseFails(t) ==
  /\ At(t, "attach") /\ Fault
  /\ astray' = astray \cup ({cmd} \cap Live)
  /\ Release(t)
  /\ UNCHANGED <<proc, job, current, peg, asked, requests>>

-----------------------------------------------------------------------------
(* The event goroutine: a Property Inspector asks for the sensors.         *)

\* sensorsWithTimeout reads rt.hw under the read lock and calls the bridge.
OnPropertyInspectorConnected ==
  /\ At("events", "idle") /\ mu = Nobody /\ requests < MaxRequests
  /\ requests' = requests + 1
  /\ asked' = current
  /\ Goto("events", "asking")
  /\ UNCHANGED <<proc, job, rt, cmd, faults, astray>>

SensorsAnswer ==
  /\ At("events", "asking") /\ asked # NoProc /\ proc[asked] = "running"
  /\ asked' = NoProc
  /\ Goto("events", "idle")
  /\ UNCHANGED <<proc, job, rt, cmd, requests, faults, astray>>

\* No bridge yet, an error, or two seconds without an answer: go restartBridge.
SensorsFail(r) ==
  /\ At("events", "asking") /\ pc[r] = "idle"
  /\ asked' = NoProc
  /\ pc' = [pc EXCEPT !["events"] = "idle", ![r] = "lock"]
  /\ UNCHANGED <<proc, job, rt, cmd, requests, faults, astray>>

-----------------------------------------------------------------------------
(* The end of the plugin.                                                  *)

\* ListenAndWait returns: RunForever's defer locks rt.mu.
Disconnect ==
  /\ At("main", "run")
  /\ Goto("main", "lock")
  /\ UNCHANGED <<proc, job, rt, cmd, asked, requests, faults, astray>>

\* rt.c.Kill() and rt.peg.dispose(), which kills the last job object.
Shutdown ==
  /\ At("main", "kill")
  /\ proc' = [p \in Procs |-> IF p \in {current, peg} THEN "dead" ELSE proc[p]]
  /\ mu' = Nobody
  /\ Goto("main", "exit")
  /\ UNCHANGED <<job, current, peg, cmd, asked, requests, faults, astray>>

\* The process ends, by itself or killed from outside, every goroutine with
\* it, and the system closes its job objects.
Exit ==
  /\ ~Gone
  /\ IF pc["main"] = "exit" THEN UNCHANGED faults ELSE Fault
  /\ proc' = [p \in Procs |-> IF p \in job THEN "dead" ELSE proc[p]]
  /\ Goto("main", "gone")
  /\ UNCHANGED <<job, rt, cmd, asked, requests, astray>>

-----------------------------------------------------------------------------
(* The bridge process.                                                     *)

Crash(p) ==
  /\ ~Gone /\ proc[p] # "dead" /\ Fault
  /\ proc' = [proc EXCEPT ![p] = "dead"]
  /\ UNCHANGED <<job, rt, pc, cmd, asked, requests, astray>>

Hang(p) ==
  /\ ~Gone /\ proc[p] = "running" /\ Fault
  /\ proc' = [proc EXCEPT ![p] = "hung"]
  /\ UNCHANGED <<job, rt, pc, cmd, asked, requests, astray>>

Launch(t) ==
  Spawn(t) \/ HandshakeFails(t) \/ HandshakeLost(t) \/ Handshake(t)
  \/ Dispense(t) \/ DispenseFails(t)

Watchdog     == WatchdogCheck \/ WatchdogSleep \/ Lock("watchdog") \/ Launch("watchdog")
Restarter(r) == Lock(r) \/ Kill(r) \/ Launch(r)
Events       == SensorsAnswer \/ \E r \in Restarters : SensorsFail(r)
Main         == Lock("main") \/ Shutdown \/ (pc["main"] = "exit" /\ Exit)

Next ==
  \/ Watchdog
  \/ \E r \in Restarters : Restarter(r)
  \/ OnPropertyInspectorConnected \/ Events
  \/ Disconnect \/ Main \/ Exit
  \/ \E p \in Procs : Crash(p) \/ Hang(p)

Spec == Init /\ [][Next]_vars

\* The Go scheduler runs every goroutine and sync.RWMutex starves no writer;
\* that a Property Inspector connects, that Stream Deck hangs up and that a
\* process fails is up to the environment.
FairSpec ==
  /\ Spec
  /\ WF_vars(Watchdog) /\ WF_vars(Events) /\ WF_vars(Main)
  /\ \A r \in Restarters : WF_vars(Restarter(r))

-----------------------------------------------------------------------------
(* Properties.                                                             *)

\* Whoever holds the lock and whatever fails, a bridge process that runs is the
\* one the plugin talks to or the one being launched; the code lets go of a live
\* one only where the watchdog starts a bridge on an outdated look and where
\* Dispense fails.
NoStrayBridge ==
  /\ Live \subseteq {current, cmd} \cup astray
  /\ cmd # NoProc => current \notin Live \ astray

\* A plugin without a bridge, at its start or after a crash, a failed restart or
\* a failed launch, gets one.
BridgeComesBack ==
  (current = NoProc \/ Exited(current)) ~> (current \in Live \/ pc["main"] # "run")

\* A bridge that hangs never exits, so the watchdog does not see it; a Property
\* Inspector that asks it and gets no answer has it killed.
HungBridgeReplaced ==
  \A p \in Procs :
    (asked = p /\ current = p /\ proc[p] = "hung") ~> (proc[p] = "dead" \/ pc["main"] # "run")

\* A plugin told to stop does stop, even in the middle of a launch or a restart.
ShutdownCompletes == (pc["main"] = "lock") ~> Gone
=============================================================================
