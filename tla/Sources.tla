------------------------------- MODULE Sources -------------------------------
(***************************************************************************)
(* From HWiNFO to the key.  HWiNFO keeps a shared memory for the local     *)
(* machine and one for each remote machine.  The bridge process copies all *)
(* of them once per Period (hwinfo.go StreamSources, service.go recvBatch) *)
(* and answers over gRPC.  The plugin caches the answers about poll times  *)
(* (plugin.go getCachedPollTime, getCachedSources), and its ticker and its *)
(* event handlers decide by them what a tile shows.                        *)
(*                                                                         *)
(* Sources do not depend on each other and neither do the two caches, so   *)
(* the model follows one machine, local or remote, to one tile.  Time is   *)
(* real: it passes when nothing is left to do at the instant, or when all  *)
(* that is left waits for a bridge that hangs.  A poll time is its age;    *)
(* HWiNFO's are in whole seconds, so that of a machine which is polled may *)
(* have an age already, and two polls may have the same.                   *)
(***************************************************************************)
EXTENDS Integers

CONSTANTS
  Period,         \* of the bridge's reads, one second
  Intervals,      \* of the ticker, one of which the user has chosen
  Grain,          \* the age that the poll time of a live machine may have
  Stale,          \* the age a poll time may have, five seconds
  Backoff,        \* how long a tile in error state is skipped, five seconds
  MaxChanges,     \* bound on changes of HWiNFO
  MaxFaults,      \* bound on crashes and hangs of the bridge
  None            \* no data, no answer

ASSUME TimesAssumption ==
  /\ {Period, Stale, Backoff} \cup Intervals \subseteq Nat \ {0}
  /\ Grain \in 0..Stale
ASSUME BoundsAssumption == MaxChanges \in Nat /\ MaxFaults \in Nat

Threads == {"ticker", "events"}
Old     == Stale + 1
Ages    == 0..Old

ASSUME NoneAssumption == None \notin Int \cup [age : Ages, live : BOOLEAN]

VARIABLES
  remote,         \* whether the machine is a remote one
  hwinfo,         \* its shared memory: status, and age of the last poll
  bridge,         \* none (never started), down, up or hung
  readIn,         \* time until the bridge's producer reads
  batch,          \* what it has read, and whether it is handing it over
  service,        \* the machine in Service.sources
  cache,          \* rt.cachedPollTime or rt.cachedSources, and its age
  interval,       \* tm.updateInterval
  clock,          \* the time.Ticker: when it fires, whether it has fired
  thread,         \* the ticker and the event goroutine
  rest,           \* time since the tile's lastRun
  last,           \* age of p.lastPollTime
  shown,          \* age of the reading on the tile, None if unavailable

  (* History and bounds.                                                   *)
  since,          \* time since the machine or the bridge changed
  changes, faults

process  == <<bridge, readIn, batch, service>>
settings == <<interval, clock>>
tile     == <<rest, last, shown>>
bounds   == <<changes, faults>>
vars     == <<remote, hwinfo, process, cache, settings, thread, tile, since, bounds>>

\* What the bridge knows of the machine: the age of its poll time, its signature.
Data == [age : Ages, live : BOOLEAN] \cup {None}

\* "Keep cache short enough so each ticker cycle fetches fresh PollTime": half an
\* interval, rounded up to whole instants.  Intervals are at least 250 ms, for
\* which no other clamp is reached.
pollTimeCacheTTLForInterval(i) == (i + 1) \div 2

ttl == pollTimeCacheTTLForInterval(interval)  \* p.pollTimeCacheTTL

\* A change of the machine is on the tile after a read of the bridge, a tick and,
\* if an event handler has filled the cache just before, its time to live.
Lag == Period + interval + ttl
Settling == Lag + Stale + Backoff

\* Type invariant; a thread that waits for a reading has a poll time to record.
TypeOK ==
  /\ remote \in BOOLEAN
  /\ hwinfo \in [status : {"live", "frozen", "dead", "gone"}, age : Ages]
  /\ bridge \in {"none", "down", "up", "hung"} /\ readIn \in 0..Period
  /\ batch \in [full : BOOLEAN, data : Data] /\ service \in Data
  /\ cache \in [value : Data, age : 0 .. ttl - 1 \cup {None}]
  /\ interval \in Intervals /\ clock \in [in : 1..interval, fired : BOOLEAN]
  /\ thread \in [Threads ->
       [pc : {"idle", "look", "call", "store", "reading"},
        forced : BOOLEAN, answer : Data, poll : Ages \cup {None}]]
  /\ \A t \in Threads : thread[t].pc = "reading" => thread[t].poll # None
  /\ rest \in 0..Backoff /\ last \in Ages \cup {None} /\ shown \in Ages \cup {None}
  /\ since \in 0..Settling
  /\ changes \in 0..MaxChanges /\ faults \in 0..MaxFaults

Idle == [pc |-> "idle", forced |-> FALSE, answer |-> None, poll |-> None]

At(t, pc)  == thread[t].pc = pc
Step(t, s) == thread' = [thread EXCEPT ![t] = s]
To(t, pc)  == Step(t, [thread[t] EXCEPT !.pc = pc])

NoBatch == [full |-> FALSE, data |-> None]

Init ==
  /\ remote \in BOOLEAN
  /\ hwinfo \in [status : {"live"}, age : 0..Grain] \cup [status : {"gone"}, age : {Old}]
  /\ bridge = "none" /\ readIn = 0 /\ batch = NoBatch /\ service = None
  /\ cache = [value |-> None, age |-> None]
  /\ interval \in Intervals /\ clock = [in |-> interval, fired |-> FALSE]
  /\ thread = [t \in Threads |-> Idle]
  /\ rest = Backoff /\ last = None /\ shown = None
  /\ since = 0 /\ changes = 0 /\ faults = 0

-----------------------------------------------------------------------------
(* The bridge process.                                                     *)

\* ReadAllSources, for the machine: a mapping that is gone has no data.
Read ==
  /\ bridge = "up" /\ readIn = 0 /\ ~batch.full
  /\ batch' = [full |-> TRUE,
               data |-> IF hwinfo.status = "gone" THEN None
                        ELSE [age |-> hwinfo.age, live |-> hwinfo.status # "dead"]]
  /\ readIn' = Period
  /\ UNCHANGED <<remote, hwinfo, bridge, service, cache, settings, thread, tile, since, bounds>>

\* The batch is received; keep: an entry survives a batch without data.
recvBatch(keep) ==
  /\ bridge = "up" /\ batch.full
  /\ service' = IF batch.data = None /\ keep THEN service ELSE batch.data
  /\ batch' = NoBatch
  /\ UNCHANGED <<remote, hwinfo, bridge, readIn, cache, settings, thread, tile, since, bounds>>

\* Fault: every source survives a failed read.
RecvKeepsAll == recvBatch(TRUE)

\* The local entry survives a failed read, a remote one is dropped.
Recv == recvBatch(~remote)

\* The bridge becomes b, and has not read anything.
Becomes(b, n) ==
  /\ bridge' = b /\ readIn' = 0 /\ batch' = NoBatch /\ service' = None
  /\ since' = 0 /\ faults' = faults + n
  /\ UNCHANGED <<remote, hwinfo, cache, settings, thread, tile, changes>>

Calling(t) == thread[t].pc \in {"call", "reading"}

\* The watchdog launches a bridge; calls to a dead one fail sooner.
Launch ==
  /\ bridge \in {"none", "down"} /\ ~\E t \in Threads : Calling(t)
  /\ Becomes("up", 0)

Crash == bridge = "up" /\ faults < MaxFaults /\ Becomes("down", 1)

Hang ==
  /\ bridge = "up" /\ faults < MaxFaults
  /\ bridge' = "hung" /\ faults' = faults + 1 /\ since' = 0
  /\ UNCHANGED <<remote, hwinfo, readIn, batch, service, cache, settings, thread, tile, changes>>

\* restartBridge, when a Property Inspector gets no answer.
Restart == bridge = "hung" /\ Becomes("down", 0)

-----------------------------------------------------------------------------
(* updateTiles on thread t.                                                *)

Shows(age, poll) == shown' = age /\ last' = poll

\* The poll time gates the update: without one, or with a stale one, the tile is
\* unavailable, and with that of the last frame there is nothing to do.
GateFor(t, poll, stale) ==
  \/ /\ stale
     /\ Shows(None, None) /\ Step(t, Idle)
  \/ /\ ~stale /\ ~thread[t].forced /\ poll = last
     /\ UNCHANGED <<shown, last>> /\ Step(t, Idle)
  \/ /\ ~stale /\ (thread[t].forced \/ poll # last)
     /\ UNCHANGED <<shown, last>>
     /\ Step(t, [Idle EXCEPT !.pc = "reading", !.poll = poll])

\* Fault: no poll time counts as a recent one.
GateTrustsZero(t, poll) == GateFor(t, poll, poll \notin 0..Stale \cup {None})

Gate(t, poll) == GateFor(t, poll, poll \notin 0..Stale)

\* A remote machine must be among the sources and have a live signature; of the
\* local one only the poll time counts.
pollTimeForUID(d) ==
  IF d = None \/ (remote /\ ~d.live) THEN None ELSE d.age

Hit == cache.age # None

Look(t) ==
  /\ At(t, "look")
  /\ \/ bridge = "none" /\ Gate(t, None)
     \/ bridge # "none" /\ Hit /\ Gate(t, pollTimeForUID(cache.value))
     \/ bridge # "none" /\ ~Hit /\ To(t, "call") /\ UNCHANGED <<shown, last>>
  /\ UNCHANGED <<remote, hwinfo, process, cache, settings, rest, since, bounds>>

\* PollTime, or Sources, is answered or fails.
Call(t) ==
  /\ At(t, "call") /\ bridge # "hung"
  /\ Step(t, [thread[t] EXCEPT !.pc = "store",
                               !.answer = IF bridge = "up" THEN service ELSE None])
  /\ UNCHANGED <<remote, hwinfo, process, cache, settings, tile, since, bounds>>

\* Fault: a failure leaves the tile as it is.
StoreGivesUp(t) ==
  /\ At(t, "store")
  /\ cache' = [value |-> thread[t].answer, age |-> 0]
  /\ IF thread[t].answer = None THEN UNCHANGED <<shown, last>> /\ Step(t, Idle)
     ELSE Gate(t, pollTimeForUID(thread[t].answer))
  /\ UNCHANGED <<remote, hwinfo, process, interval, clock, rest, since, bounds>>

\* A failure is stored too, as no poll time or no sources.
Store(t) ==
  /\ At(t, "store")
  /\ cache' = [value |-> thread[t].answer, age |-> 0]
  /\ Gate(t, pollTimeForUID(thread[t].answer))
  /\ UNCHANGED <<remote, hwinfo, process, settings, rest, since, bounds>>

\* getReading, without a timeout, and the frame.
Reading(t) ==
  /\ At(t, "reading") /\ bridge # "hung"
  /\ IF bridge = "up" /\ service # None THEN Shows(service.age, thread[t].poll)
     ELSE Shows(None, None)
  /\ Step(t, Idle)
  /\ UNCHANGED <<remote, hwinfo, process, cache, settings, rest, since, bounds>>

updateTiles(t) == Look(t) \/ Call(t) \/ Store(t) \/ Reading(t)

-----------------------------------------------------------------------------
(* The ticker.                                                             *)

\* The ticker fires; a tile in error state is skipped for a while, after which its
\* time of rest is as.
Fires(as) ==
  /\ At("ticker", "idle") /\ clock.fired
  /\ clock' = [clock EXCEPT !.fired = FALSE]
  /\ IF shown = None /\ rest < Backoff THEN rest' = as /\ UNCHANGED thread
     ELSE rest' = 0 /\ Step("ticker", [Idle EXCEPT !.pc = "look"])
  /\ UNCHANGED <<remote, hwinfo, process, cache, interval, last, shown, since, bounds>>

\* Fault: a skipped tile counts as run.
FireRestarts == Fires(0)

Fire == Fires(rest)

-----------------------------------------------------------------------------
\* On the event goroutine a handler has marked the tile dirty, or changed its settings.
refreshAction ==
  /\ At("events", "idle")
  /\ Step("events", [Idle EXCEPT !.pc = "look", !.forced = TRUE])
  /\ UNCHANGED <<remote, hwinfo, process, cache, settings, tile, since, bounds>>

-----------------------------------------------------------------------------
(* HWiNFO and time.                                                        *)

\* The ages that a poll time may have where it was a: a live machine's is the time of
\* a later poll, in the same second or not, or still that of the last one.
PollAges(status, a) == IF status = "live" THEN {b \in 0..Grain : b <= a} ELSE {a}

\* A machine is polled while it is live; its memory may stop changing, be marked
\* DEAD, or go away.
Change(status) ==
  /\ status # hwinfo.status /\ changes < MaxChanges
  /\ status \in {"frozen", "dead"} => hwinfo.status = "live"
  /\ \E a \in PollAges(status, hwinfo.age) : hwinfo' = [status |-> status, age |-> a]
  /\ since' = 0 /\ changes' = changes + 1
  /\ UNCHANGED <<remote, process, cache, settings, thread, tile, faults>>

Waits(t) == Calling(t) /\ bridge = "hung"

\* Nothing is left to do at this instant.
Settled ==
  /\ At("events", "idle") \/ Waits("events")
  /\ Waits("ticker") \/ (At("ticker", "idle") /\ ~clock.fired)
  /\ bridge = "up" => readIn > 0 /\ ~batch.full

Older(a)     == IF a = None THEN None ELSE IF a < Old THEN a + 1 ELSE Old
OlderData(d) == IF d = None THEN None ELSE [d EXCEPT !.age = Older(@)]

\* Time passes.  A cache whose time to live is over is as good as none.
Tick ==
  /\ Settled
  /\ \E a \in PollAges(hwinfo.status, Older(hwinfo.age)) : hwinfo' = [hwinfo EXCEPT !.age = a]
  /\ readIn' = IF bridge = "up" THEN readIn - 1 ELSE readIn
  /\ batch' = [batch EXCEPT !.data = OlderData(@)] /\ service' = OlderData(service)
  /\ cache' = IF cache.age \in 0 .. ttl - 2
              THEN [value |-> OlderData(cache.value), age |-> cache.age + 1]
              ELSE [value |-> None, age |-> None]
  /\ clock' = IF clock.in = 1 THEN [in |-> interval, fired |-> TRUE]
              ELSE [clock EXCEPT !.in = @ - 1]
  /\ thread' = [t \in Threads |-> [thread[t] EXCEPT !.poll = Older(@)]]
  /\ rest' = IF rest < Backoff THEN rest + 1 ELSE Backoff
  /\ last' = Older(last) /\ shown' = Older(shown)
  /\ since' = IF since < Settling THEN since + 1 ELSE since
  /\ UNCHANGED <<remote, bridge, interval, bounds>>

Next ==
  \/ Read \/ Recv \/ Launch \/ Crash \/ Hang \/ Restart
  \/ \E t \in Threads : updateTiles(t)
  \/ Fire \/ refreshAction
  \/ \E s \in {"live", "frozen", "dead", "gone"} : Change(s)
  \/ Tick

Spec == Init /\ [][Next]_vars

-----------------------------------------------------------------------------
(* Properties.                                                             *)

\* README: "A tile whose remote source disconnects shows an unavailable state
\* instead of freezing on its last value": long before its data are stale, unless
\* the bridge hangs.
NoticesLoss ==
  /\ remote /\ since >= Lag
  /\ bridge = "down" \/ (bridge = "up" /\ hwinfo.status \in {"dead", "gone"})
  => shown = None

\* No tile freezes on the last value of a machine that is no longer polled, whether
\* HWiNFO stopped, left its memory as it was or was closed.
NoFreeze ==
  since >= Lag + Stale /\ bridge # "hung" /\ hwinfo.status # "live" => shown = None

\* README: "... and recovers automatically when the machine reconnects": a machine
\* that is polled is on its tile with a recent reading, whatever the caches have
\* kept of its absence.
KeepsUp ==
  since >= Lag + Backoff /\ bridge = "up" /\ hwinfo.status = "live"
    => shown # None /\ shown <= Lag + Grain
=============================================================================
