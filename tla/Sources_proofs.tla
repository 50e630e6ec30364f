--------------------------- MODULE Sources_proofs ---------------------------
(***************************************************************************)
(* Proofs about Sources: from HWiNFO to the key, for every period, rate,   *)
(* limit of staleness and time of rest, and any number of changes and      *)
(* faults.                                                                 *)
(***************************************************************************)
EXTENDS Sources, TLAPS

-----------------------------------------------------------------------------
(* Times and ages.                                                         *)

LEMMA Times ==
  /\ Period \in Nat \ {0} /\ Stale \in Nat \ {0} /\ Backoff \in Nat \ {0}
  /\ Grain \in Nat /\ Grain <= Stale
  /\ \A i \in Intervals : /\ i \in Nat \ {0}
                          /\ pollTimeCacheTTLForInterval(i) \in 1..i
<1>1. \A i \in Nat \ {0} : (i + 1) \div 2 \in 1..i
  OBVIOUS
<1>2. QED
  BY <1>1, TimesAssumption DEF pollTimeCacheTTLForInterval

\* The limits that a state's interval sets.
LEMMA Limits ==
  ASSUME interval \in Intervals
  PROVE  /\ Period \in Nat \ {0} /\ Stale \in Nat \ {0} /\ Backoff \in Nat \ {0}
         /\ interval \in Nat \ {0} /\ ttl \in 1..interval
         /\ Lag = Period + interval + ttl /\ Settling = Lag + Stale + Backoff
         /\ Lag \in Nat /\ Settling \in Nat /\ Old = Stale + 1
BY Times DEF ttl, Lag, Settling, Old

\* What a copy of the shared memory is.
LEMMA AgeSets ==
  /\ Ages \subseteq Nat /\ 0 \in Ages /\ Old \in Ages /\ \A a \in Ages : a >= 0 /\ a <= Old
  /\ None \notin Int /\ None \notin Ages
  /\ None \in Data /\ [age : Ages, live : BOOLEAN] \subseteq Data
  /\ \A d \in Data : d # None => d.age \in Ages /\ d.live \in BOOLEAN
  /\ None \notin [age : Ages, live : BOOLEAN]
<1>1. Ages \subseteq Nat /\ 0 \in Ages /\ Old \in Ages /\ \A a \in Ages : a >= 0 /\ a <= Old
  BY Times DEF Ages, Old
<1>2. None \notin Int /\ None \notin [age : Ages, live : BOOLEAN]
  BY NoneAssumption
<1>3. None \notin Ages
  BY <1>2 DEF Ages
<1>4. QED
  BY <1>1, <1>2, <1>3 DEF Data

LEMMA PollAgesAre ==
  ASSUME NEW status, NEW a \in Ages, NEW b \in PollAges(status, a)
  PROVE  /\ b \in Ages /\ b <= a
         /\ status = "live" => b <= Grain
         /\ status # "live" => b = a
BY Times DEF PollAges, Ages, Old

LEMMA OlderAge ==
  /\ Older(None) = None /\ Older(Old) = Old
  /\ \A a \in Ages : /\ Older(a) \in Ages /\ Older(a) # None
                     /\ a <= Older(a) /\ Older(a) <= a + 1
                     /\ a + 1 <= Older(a) \/ Older(a) = Old
                     /\ \A b \in Ages : a <= b => Older(a) <= Older(b)
BY AgeSets DEF Older, Ages

LEMMA OlderOf ==
  /\ OlderData(None) = None
  /\ \A d \in Data : /\ OlderData(d) \in Data
                     /\ OlderData(d) = None <=> d = None
                     /\ d # None => /\ OlderData(d).age = Older(d.age)
                                    /\ OlderData(d).live = d.live
<1>1. OlderData(None) = None
  BY DEF OlderData
<1>2. ASSUME NEW d \in [age : Ages, live : BOOLEAN], d # None
      PROVE  /\ OlderData(d) \in [age : Ages, live : BOOLEAN]
             /\ OlderData(d).age = Older(d.age) /\ OlderData(d).live = d.live
  <2>1. OlderData(d) = [d EXCEPT !.age = Older(d.age)] /\ Older(d.age) \in Ages
    BY <1>2, OlderAge DEF OlderData
  <2>2. QED
    BY <2>1
<1>3. QED
  BY <1>1, <1>2, AgeSets DEF Data

-----------------------------------------------------------------------------
(* Types, and what belongs together.                                       *)

ThreadType ==
  [pc : {"idle", "look", "call", "store", "reading"},
   forced : BOOLEAN, answer : Data, poll : Ages \cup {None}]

Shaped ==
  /\ bridge \in {"none", "down"} => service = None /\ ~batch.full
  /\ batch.full => readIn = Period
  /\ hwinfo.status = "live" => hwinfo.age <= Grain
  /\ last # None <=> shown # None

Base == TypeOK /\ Shaped

LEMMA ThreadTypes ==
  ASSUME TypeOK
  PROVE  /\ thread \in [Threads -> ThreadType]
         /\ \A t \in Threads :
              /\ thread[t].pc \in {"idle", "look", "call", "store", "reading"}
              /\ thread[t].forced \in BOOLEAN /\ thread[t].answer \in Data
              /\ thread[t].poll \in Ages \cup {None}
BY DEF TypeOK, ThreadType

LEMMA IdleType ==
  /\ Idle \in ThreadType /\ Idle.pc = "idle" /\ Idle.answer = None /\ Idle.poll = None
BY AgeSets DEF Idle, ThreadType

\* What a step leaves of the other thread.
LEMMA StepFacts ==
  ASSUME TypeOK, NEW t \in Threads, NEW s \in ThreadType, Step(t, s)
  PROVE  /\ thread' \in [Threads -> ThreadType] /\ thread'[t] = s
         /\ \A u \in Threads \ {t} : thread'[u] = thread[u]
BY ThreadTypes DEF Step

LEMMA PollAge ==
  ASSUME remote \in BOOLEAN, NEW d \in Data
  PROVE  /\ pollTimeForUID(d) \in Ages \cup {None}
         /\ pollTimeForUID(d) # None =>
              d # None /\ pollTimeForUID(d) = d.age /\ (remote => d.live)
         /\ d # None /\ d.live => pollTimeForUID(d) = d.age
BY AgeSets DEF pollTimeForUID

\* The three ways through the gate.
Gates(t, poll) ==
  /\ poll \in Ages \cup {None}
  /\ thread' \in [Threads -> ThreadType]
  /\ \A u \in Threads \ {t} : thread'[u] = thread[u]
  /\ thread'[t].answer = None
  /\ \/ /\ thread'[t].pc = "idle" /\ thread'[t].poll = None
        /\ poll \notin 0..Stale /\ shown' = None /\ last' = None
     \/ /\ thread'[t].pc = "idle" /\ thread'[t].poll = None
        /\ poll \in 0..Stale /\ poll = last /\ UNCHANGED <<shown, last>>
     \/ /\ thread'[t].pc = "reading" /\ thread'[t].poll = poll
        /\ poll \in 0..Stale /\ UNCHANGED <<shown, last>>

LEMMA GateFacts ==
  ASSUME Base, NEW t \in Threads, NEW poll \in Ages \cup {None}, Gate(t, poll)
  PROVE  Gates(t, poll)
<1> DEFINE s == [Idle EXCEPT !.pc = "reading", !.poll = poll]
<1>1. s \in ThreadType /\ s.pc = "reading" /\ s.answer = None /\ s.poll = poll
  BY IdleType DEF Idle, ThreadType
<1>2. \/ poll \notin 0..Stale /\ shown' = None /\ last' = None /\ Step(t, Idle)
      \/ poll \in 0..Stale /\ poll = last /\ UNCHANGED <<shown, last>> /\ Step(t, Idle)
      \/ poll \in 0..Stale /\ UNCHANGED <<shown, last>> /\ Step(t, s)
  BY DEF Gate, GateFor, Shows
<1> HIDE DEF s
<1>3. QED
  BY <1>1, <1>2, IdleType, StepFacts DEF Base, Gates

\* What updateTiles leaves alone but for the cache.
Works(t) ==
  /\ thread[t].pc # "idle"
  /\ UNCHANGED <<remote, hwinfo, bridge, readIn, batch, service, interval, clock, rest, since,
                 changes, faults>>

LEMMA GatesBase ==
  ASSUME Base, NEW t \in Threads, NEW poll, Works(t), Gates(t, poll),
         cache' \in [value : Data, age : 0 .. ttl - 1 \cup {None}]
  PROVE  Base'
<1>1. \A u \in Threads : thread'[u].pc = "reading" => thread'[u].poll # None
  BY AgeSets, Times DEF Base, TypeOK, Gates
<1>2. TypeOK'
  BY <1>1 DEF Base, TypeOK, Works, Gates, ThreadType, ttl, Lag, Settling
<1>3. Shaped'
  BY DEF Base, Shaped, Works, Gates
<1>4. QED
  BY <1>2, <1>3 DEF Base

-----------------------------------------------------------------------------
(* What the steps do.                                                      *)

LEMMA ReadFacts ==
  ASSUME Base, Read
  PROVE  /\ Base' /\ bridge = "up" /\ readIn = 0 /\ readIn' = Period
         /\ ~batch.full /\ batch'.full /\ batch'.data \in Data
         /\ hwinfo.status = "gone" => batch'.data = None
         /\ hwinfo.status # "gone" => batch'.data # None /\ batch'.data.age = hwinfo.age
         /\ hwinfo.status # "gone" => (batch'.data.live <=> hwinfo.status # "dead")
         /\ UNCHANGED <<remote, hwinfo, bridge, service, cache, interval, clock, thread, rest,
                        last, shown, since>>
<1> DEFINE live == hwinfo.status # "dead"
           d == IF hwinfo.status = "gone" THEN None ELSE [age |-> hwinfo.age, live |-> live]
<1>1. /\ bridge = "up" /\ readIn = 0 /\ ~batch.full
      /\ batch' = [full |-> TRUE, data |-> d] /\ readIn' = Period
      /\ UNCHANGED <<remote, hwinfo, bridge, service, cache, interval, clock, thread, rest, last,
                     shown, since, changes, faults>>
  BY DEF Read, settings, tile, bounds
<1>2. live \in BOOLEAN
  OBVIOUS
<1>3. hwinfo.age \in Ages
  BY DEF Base, TypeOK
<1> HIDE DEF live
<1>4. [age |-> hwinfo.age, live |-> live] \in [age : Ages, live : BOOLEAN]
  BY <1>2, <1>3
<1>5. d \in Data
  BY <1>4, AgeSets
<1>6. /\ hwinfo.status = "gone" => d = None
      /\ hwinfo.status # "gone" => d # None /\ d.age = hwinfo.age /\ (d.live <=> live)
  BY <1>4, AgeSets
<1> HIDE DEF d
<1>7. batch' \in [full : BOOLEAN, data : Data] /\ batch'.full /\ batch'.data = d
  BY <1>1, <1>5
<1>8. TypeOK'
  BY <1>1, <1>7, Times DEF Base, TypeOK, ttl, Lag, Settling
<1>9. Shaped'
  BY <1>1 DEF Base, Shaped
<1>10. /\ hwinfo.status = "gone" => batch'.data = None
       /\ hwinfo.status # "gone" => batch'.data # None /\ batch'.data.age = hwinfo.age
       /\ hwinfo.status # "gone" => (batch'.data.live <=> hwinfo.status # "dead")
  BY <1>6, <1>7 DEF live
<1>11. QED
  BY <1>1, <1>5, <1>7, <1>8, <1>9, <1>10 DEF Base

LEMMA RecvFacts ==
  ASSUME Base, Recv
  PROVE  /\ Base' /\ bridge = "up" /\ batch.full /\ readIn = Period
         /\ service' = IF batch.data = None /\ ~remote THEN service ELSE batch.data
         /\ ~batch'.full /\ batch'.data = None
         /\ UNCHANGED <<remote, hwinfo, bridge, readIn, cache, interval, clock, thread, rest,
                        last, shown, since>>
<1>1. /\ bridge = "up" /\ batch.full
      /\ service' = IF batch.data = None /\ ~remote THEN service ELSE batch.data
      /\ batch' = NoBatch
      /\ UNCHANGED <<remote, hwinfo, bridge, readIn, cache, interval, clock, thread, rest, last,
                     shown, since, changes, faults>>
  BY DEF Recv, recvBatch, settings, tile, bounds
<1>2. batch' \in [full : BOOLEAN, data : Data] /\ ~batch'.full /\ batch'.data = None
  BY <1>1, AgeSets DEF NoBatch
<1>3. service' \in Data
  BY <1>1 DEF Base, TypeOK
<1>4. TypeOK'
  BY <1>1, <1>2, <1>3 DEF Base, TypeOK, ttl, Lag, Settling
<1>5. Shaped'
  BY <1>1, <1>2 DEF Base, Shaped
<1>6. QED
  BY <1>1, <1>2, <1>4, <1>5 DEF Base, Shaped

\* Something happens to the bridge.
LEMMA BridgeFacts ==
  ASSUME Base, Launch \/ Crash \/ Hang \/ Restart
  PROVE  /\ Base' /\ since' = 0
         /\ \/ service' = None /\ ~batch'.full /\ batch'.data = None
            \/ UNCHANGED <<service, batch>>
         /\ UNCHANGED <<remote, hwinfo, cache, interval, clock, thread, rest, last, shown>>
<1>1. /\ bridge' \in {"down", "up", "hung"} /\ since' = 0
      /\ faults' \in 0..MaxFaults
      /\ \/ service' = None /\ batch' = NoBatch /\ readIn' = 0
         \/ bridge' = "hung" /\ UNCHANGED <<service, batch, readIn>>
      /\ UNCHANGED <<remote, hwinfo, cache, interval, clock, thread, rest, last, shown, changes>>
  BY BoundsAssumption
     DEF Launch, Crash, Hang, Restart, Becomes, settings, tile, Base, TypeOK
<1>2. NoBatch \in [full : BOOLEAN, data : Data] /\ ~NoBatch.full /\ NoBatch.data = None
  BY AgeSets DEF NoBatch
<1>3. TypeOK'
  <2>1. 0 \in 0..Period /\ 0 \in 0..Settling /\ None \in Data
    BY Limits, AgeSets DEF Base, TypeOK
  <2>2. QED
    BY <1>1, <1>2, <2>1 DEF Base, TypeOK, ttl, Lag, Settling
<1>4. Shaped'
  BY <1>1, <1>2 DEF Base, Shaped
<1>5. QED
  BY <1>1, <1>2, <1>3, <1>4 DEF Base

\* Something happens to the machine.
LEMMA ChangeFacts ==
  ASSUME Base, NEW s \in {"live", "frozen", "dead", "gone"}, Change(s)
  PROVE  /\ Base' /\ since' = 0 /\ hwinfo'.status = s
         /\ hwinfo'.age <= hwinfo.age
         /\ UNCHANGED <<remote, bridge, readIn, batch, service, cache, interval, clock, thread,
                        rest, last, shown>>
<1>0. PICK a \in PollAges(s, hwinfo.age) : hwinfo' = [status |-> s, age |-> a]
  BY DEF Change
<1>1. /\ since' = 0 /\ changes' \in 0..MaxChanges
      /\ UNCHANGED <<remote, bridge, readIn, batch, service, cache, interval, clock, thread, rest,
                     last, shown, faults>>
  BY BoundsAssumption DEF Change, process, settings, tile, Base, TypeOK
<1>2. a \in Ages /\ a <= hwinfo.age /\ (s = "live" => a <= Grain)
  BY PollAgesAre DEF Base, TypeOK
<1>3. 0 \in 0..Settling
  BY Limits DEF Base, TypeOK
<1>4. TypeOK'
  BY <1>0, <1>1, <1>2, <1>3 DEF Base, TypeOK, ttl, Lag, Settling
<1>5. Shaped'
  BY <1>0, <1>1, <1>2 DEF Base, Shaped
<1>6. QED
  BY <1>0, <1>1, <1>2, <1>4, <1>5 DEF Base

LEMMA LookFacts ==
  ASSUME Base, NEW t \in Threads, Look(t)
  PROVE  /\ Base' /\ Works(t) /\ cache' = cache
         /\ \/ bridge = "none" /\ Gates(t, None)
            \/ cache.age # None /\ Gates(t, pollTimeForUID(cache.value))
            \/ /\ \A u \in Threads : /\ thread'[u].pc = IF u = t THEN "call" ELSE thread[u].pc
                                     /\ thread'[u].answer = thread[u].answer
                                     /\ thread'[u].poll = thread[u].poll
               /\ thread[t].pc = "look" /\ UNCHANGED <<shown, last>>
<1> DEFINE s == [thread[t] EXCEPT !.pc = "call"]
<1>1. /\ thread[t].pc = "look" /\ Works(t)
      /\ UNCHANGED cache
      /\ \/ bridge = "none" /\ Gate(t, None)
         \/ cache.age # None /\ Gate(t, pollTimeForUID(cache.value))
         \/ Step(t, s) /\ UNCHANGED <<shown, last>>
  BY DEF Look, At, Hit, To, Works, process, settings, bounds
<1>2. CASE bridge = "none" /\ Gate(t, None)
  BY <1>1, <1>2, GateFacts, GatesBase DEF Base, TypeOK
<1>3. CASE cache.age # None /\ Gate(t, pollTimeForUID(cache.value))
  <2>1. pollTimeForUID(cache.value) \in Ages \cup {None}
    BY PollAge DEF Base, TypeOK
  <2>2. Gates(t, pollTimeForUID(cache.value))
    BY <1>3, <2>1, GateFacts
  <2>3. QED
    BY <1>1, <1>3, <2>2, GatesBase DEF Base, TypeOK
<1>4. CASE Step(t, s) /\ UNCHANGED <<shown, last>>
  <2>1. /\ s \in ThreadType /\ s.pc = "call"
        /\ s.answer = thread[t].answer /\ s.poll = thread[t].poll
    BY ThreadTypes DEF Base, ThreadType
  <2> HIDE DEF s
  <2>2. /\ thread' \in [Threads -> ThreadType] /\ thread'[t] = s
        /\ \A u \in Threads \ {t} : thread'[u] = thread[u]
    BY <1>4, <2>1, StepFacts DEF Base
  <2>3. TypeOK'
    BY <1>1, <1>4, <2>1, <2>2 DEF Base, TypeOK, Works, ThreadType, ttl, Lag, Settling
  <2>4. Shaped'
    BY <1>1, <1>4 DEF Base, Shaped, Works
  <2>5. QED
    BY <1>1, <1>4, <2>1, <2>2, <2>3, <2>4 DEF Base
<1>5. QED
  BY <1>1, <1>2, <1>3, <1>4

LEMMA CallFacts ==
  ASSUME Base, NEW t \in Threads, Call(t)
  PROVE  /\ Base' /\ Works(t) /\ UNCHANGED <<cache, last, shown>>
         /\ thread[t].pc = "call" /\ thread'[t].pc = "store" /\ bridge # "hung"
         /\ thread'[t].answer = IF bridge = "up" THEN service ELSE None
         /\ thread'[t].poll = thread[t].poll
         /\ \A u \in Threads \ {t} : thread'[u] = thread[u]
<1> DEFINE a == IF bridge = "up" THEN service ELSE None
           s == [thread[t] EXCEPT !.pc = "store", !.answer = a]
<1>1. /\ thread[t].pc = "call" /\ bridge # "hung" /\ Step(t, s)
      /\ Works(t) /\ UNCHANGED <<cache, last, shown>>
  BY DEF Call, At, Works, process, settings, tile, bounds
<1>2. a \in Data
  BY AgeSets DEF Base, TypeOK
<1> HIDE DEF a
<1>3. s \in ThreadType /\ s.pc = "store" /\ s.answer = a /\ s.poll = thread[t].poll
  BY <1>2, ThreadTypes DEF Base, ThreadType
<1> HIDE DEF s
<1>4. /\ thread' \in [Threads -> ThreadType] /\ thread'[t] = s
      /\ \A u \in Threads \ {t} : thread'[u] = thread[u]
  BY <1>1, <1>3, StepFacts DEF Base
<1>5. TypeOK'
  BY <1>1, <1>3, <1>4 DEF Base, TypeOK, Works, ThreadType, ttl, Lag, Settling
<1>6. Shaped'
  BY <1>1 DEF Base, Shaped, Works
<1>7. QED
  BY <1>1, <1>3, <1>4, <1>5, <1>6 DEF Base, a

LEMMA StoreFacts ==
  ASSUME Base, NEW t \in Threads, Store(t)
  PROVE  /\ Base' /\ Works(t) /\ thread[t].pc = "store"
         /\ cache'.value = thread[t].answer /\ cache'.age = 0
         /\ Gates(t, pollTimeForUID(thread[t].answer))
<1>1. /\ thread[t].pc = "store" /\ Works(t)
      /\ cache' = [value |-> thread[t].answer, age |-> 0]
      /\ Gate(t, pollTimeForUID(thread[t].answer))
  BY DEF Store, At, Works, process, settings, bounds
<1>2. thread[t].answer \in Data /\ remote \in BOOLEAN /\ interval \in Intervals
  BY ThreadTypes DEF Base, TypeOK
<1>3. pollTimeForUID(thread[t].answer) \in Ages \cup {None}
  BY <1>2, PollAge
<1>4. Gates(t, pollTimeForUID(thread[t].answer))
  BY <1>1, <1>3, GateFacts
<1>5. cache' \in [value : Data, age : 0 .. ttl - 1 \cup {None}]
  BY <1>1, <1>2, Limits
<1>6. QED
  BY <1>1, <1>4, <1>5, GatesBase

LEMMA ReadingFacts ==
  ASSUME Base, NEW t \in Threads, Reading(t)
  PROVE  /\ Base' /\ Works(t) /\ cache' = cache
         /\ thread[t].pc = "reading" /\ bridge # "hung"
         /\ \/ /\ bridge = "up" /\ service # None /\ service.age \in Ages
               /\ shown' = service.age /\ last' = thread[t].poll
            \/ /\ bridge # "up" \/ service = None
               /\ shown' = None /\ last' = None
         /\ thread'[t].pc = "idle" /\ thread'[t].answer = None /\ thread'[t].poll = None
         /\ \A u \in Threads \ {t} : thread'[u] = thread[u]
<1>1. /\ thread[t].pc = "reading" /\ bridge # "hung" /\ Step(t, Idle)
      /\ Works(t) /\ UNCHANGED cache
      /\ \/ bridge = "up" /\ service # None /\ shown' = service.age /\ last' = thread[t].poll
         \/ (bridge # "up" \/ service = None) /\ shown' = None /\ last' = None
  BY DEF Reading, At, Shows, Works, process, settings, bounds
<1>2. /\ thread' \in [Threads -> ThreadType] /\ thread'[t] = Idle
      /\ \A u \in Threads \ {t} : thread'[u] = thread[u]
  BY <1>1, IdleType, StepFacts DEF Base
<1>3. service # None => service.age \in Ages
  BY AgeSets DEF Base, TypeOK
<1>4. thread[t].poll \in Ages /\ thread[t].poll # None
  BY <1>1, ThreadTypes DEF Base, TypeOK
<1>5. TypeOK'
  <2>1. \A u \in Threads : thread'[u].pc = "reading" => thread'[u].poll # None
    BY <1>2, IdleType DEF Base, TypeOK
  <2>2. shown' \in Ages \cup {None} /\ last' \in Ages \cup {None}
    BY <1>1, <1>3, <1>4
  <2>3. QED
    BY <1>1, <1>2, <2>1, <2>2 DEF Base, TypeOK, Works, ThreadType, ttl, Lag, Settling
<1>6. Shaped'
  <2>1. shown' # None <=> last' # None
    BY <1>1, <1>3, <1>4, AgeSets
  <2>2. QED
    BY <1>1, <2>1 DEF Base, Shaped, Works
<1>7. QED
  BY <1>1, <1>2, <1>3, <1>5, <1>6, IdleType DEF Base

LEMMA FireFacts ==
  ASSUME Base, Fire
  PROVE  /\ Base' /\ thread["ticker"].pc = "idle" /\ clock.fired
         /\ ~clock'.fired /\ clock'.in = clock.in
         /\ \/ shown = None /\ rest < Backoff /\ UNCHANGED <<rest, thread>>
            \/ /\ shown # None \/ rest >= Backoff
               /\ rest' = 0 /\ thread'["ticker"].pc = "look"
               /\ thread'["ticker"].answer = None /\ thread'["ticker"].poll = None
               /\ thread'["events"] = thread["events"]
         /\ UNCHANGED <<remote, hwinfo, bridge, readIn, batch, service, cache, interval, last,
                        shown, since>>
<1> DEFINE s == [Idle EXCEPT !.pc = "look"]
<1>1. /\ thread["ticker"].pc = "idle" /\ clock.fired
      /\ clock' = [clock EXCEPT !.fired = FALSE]
      /\ \/ shown = None /\ rest < Backoff /\ UNCHANGED <<rest, thread>>
         \/ (shown # None \/ ~(rest < Backoff)) /\ rest' = 0 /\ Step("ticker", s)
      /\ UNCHANGED <<remote, hwinfo, bridge, readIn, batch, service, cache, interval, last, shown,
                     since, changes, faults>>
  BY DEF Fire, Fires, At, process, bounds
<1>2. s \in ThreadType /\ s.pc = "look" /\ s.answer = None /\ s.poll = None
  BY IdleType DEF Idle, ThreadType
<1> HIDE DEF s
<1>3. "ticker" \in Threads /\ "events" \in Threads /\ \A t \in Threads : t \in {"ticker", "events"}
  BY DEF Threads
<1>4. \/ shown = None /\ rest < Backoff /\ UNCHANGED <<rest, thread>>
      \/ /\ shown # None \/ ~(rest < Backoff)
         /\ rest' = 0 /\ thread' \in [Threads -> ThreadType] /\ thread'["ticker"] = s
         /\ thread'["events"] = thread["events"]
  BY <1>1, <1>2, <1>3, StepFacts DEF Base
<1>5. rest \in 0..Backoff /\ Backoff \in Nat /\ 0 \in 0..Backoff
  BY Times DEF Base, TypeOK
<1>6. clock' \in [in : 1..interval, fired : BOOLEAN] /\ clock'.in = clock.in /\ ~clock'.fired
  BY <1>1 DEF Base, TypeOK
<1>7. /\ thread' \in [Threads -> ThreadType] /\ rest' \in 0..Backoff
      /\ \A t \in Threads : thread'[t].pc = "reading" => thread'[t].poll # None
  BY <1>2, <1>3, <1>4, <1>5, ThreadTypes DEF Base, TypeOK
<1>8. TypeOK'
  BY <1>1, <1>6, <1>7 DEF Base, TypeOK, ThreadType, ttl, Lag, Settling
<1>9. Shaped'
  BY <1>1 DEF Base, Shaped
<1>10. QED
  BY <1>1, <1>2, <1>4, <1>5, <1>6, <1>8, <1>9 DEF Base

LEMMA RefreshFacts ==
  ASSUME Base, refreshAction
  PROVE  /\ Base' /\ thread["events"].pc = "idle" /\ thread'["events"].pc = "look"
         /\ thread'["events"].answer = None /\ thread'["events"].poll = None
         /\ thread'["ticker"] = thread["ticker"]
         /\ UNCHANGED <<remote, hwinfo, bridge, readIn, batch, service, cache, interval, clock,
                        rest, last, shown, since>>
<1> DEFINE s == [Idle EXCEPT !.pc = "look", !.forced = TRUE]
<1>1. /\ thread["events"].pc = "idle" /\ Step("events", s)
      /\ UNCHANGED <<remote, hwinfo, bridge, readIn, batch, service, cache, interval, clock, rest,
                     last, shown, since, changes, faults>>
  BY DEF refreshAction, At, process, settings, tile, bounds
<1>2. s \in ThreadType /\ s.pc = "look" /\ s.answer = None /\ s.poll = None
  BY IdleType DEF Idle, ThreadType
<1> HIDE DEF s
<1>3. "ticker" \in Threads /\ "events" \in Threads /\ \A t \in Threads : t \in {"ticker", "events"}
  BY DEF Threads
<1>4. /\ thread' \in [Threads -> ThreadType] /\ thread'["events"] = s
      /\ thread'["ticker"] = thread["ticker"]
  BY <1>1, <1>2, <1>3, StepFacts DEF Base
<1>5. TypeOK'
  BY <1>1, <1>2, <1>3, <1>4 DEF Base, TypeOK, ThreadType, ttl, Lag, Settling
<1>6. Shaped'
  BY <1>1 DEF Base, Shaped
<1>7. QED
  BY <1>1, <1>2, <1>4, <1>5, <1>6 DEF Base

\* Everything ages, and a bridge that answers has nobody waiting for it.
LEMMA TickFacts ==
  ASSUME Base, Tick
  PROVE  /\ Base' /\ \A t \in Threads : thread[t].pc # "store"
         /\ bridge # "hung" =>
              (\A t \in Threads : thread[t].pc = "idle") /\ ~clock.fired
         /\ bridge = "up" => ~batch.full /\ readIn > 0 /\ readIn' = readIn - 1
         /\ hwinfo'.status = hwinfo.status /\ hwinfo'.age <= Older(hwinfo.age)
         /\ hwinfo.status # "live" => hwinfo'.age = Older(hwinfo.age)
         /\ batch'.full = batch.full /\ batch'.data = OlderData(batch.data)
         /\ service' = OlderData(service)
         /\ \/ cache'.age = None /\ cache'.value = None
            \/ /\ cache.age \in 0 .. ttl - 2
               /\ cache'.age = cache.age + 1 /\ cache'.value = OlderData(cache.value)
         /\ \/ clock.in = 1 /\ clock'.fired /\ clock'.in = interval
            \/ clock.in > 1 /\ clock'.fired = clock.fired /\ clock'.in = clock.in - 1
         /\ \A t \in Threads : /\ thread'[t].pc = thread[t].pc
                               /\ thread'[t].answer = thread[t].answer
                               /\ thread'[t].poll = Older(thread[t].poll)
         /\ rest' = IF rest < Backoff THEN rest + 1 ELSE Backoff
         /\ last' = Older(last) /\ shown' = Older(shown)
         /\ since' = IF since < Settling THEN since + 1 ELSE since
         /\ UNCHANGED <<remote, bridge, interval>>
<1>1. interval \in Intervals
  BY DEF Base, TypeOK
<1>2. /\ \A t \in Threads : thread[t].pc # "store"
      /\ bridge # "hung" => (\A t \in Threads : thread[t].pc = "idle") /\ ~clock.fired
      /\ bridge = "up" => ~batch.full /\ readIn > 0
  BY DEF Tick, Settled, Waits, Calling, At, Threads
<1>3. hwinfo' \in [status : {"live", "frozen", "dead", "gone"}, age : Ages]
      /\ hwinfo'.status = hwinfo.status /\ hwinfo'.age <= Older(hwinfo.age)
      /\ (hwinfo.status = "live" => hwinfo'.age <= Grain)
      /\ (hwinfo.status # "live" => hwinfo'.age = Older(hwinfo.age))
  <2>1. PICK a \in PollAges(hwinfo.status, Older(hwinfo.age)) : hwinfo' = [hwinfo EXCEPT !.age = a]
    BY DEF Tick
  <2>2. /\ hwinfo \in [status : {"live", "frozen", "dead", "gone"}, age : Ages]
        /\ Older(hwinfo.age) \in Ages
    BY OlderAge DEF Base, TypeOK
  <2>3. /\ a \in Ages /\ a <= Older(hwinfo.age) /\ (hwinfo.status = "live" => a <= Grain)
        /\ hwinfo.status # "live" => a = Older(hwinfo.age)
    BY <2>1, <2>2, PollAgesAre
  <2>4. QED
    BY <2>1, <2>2, <2>3
<1>4. readIn' = IF bridge = "up" THEN readIn - 1 ELSE readIn
  BY DEF Tick
<1>5. /\ batch' \in [full : BOOLEAN, data : Data]
      /\ batch'.full = batch.full /\ batch'.data = OlderData(batch.data)
  <2>1. batch' = [batch EXCEPT !.data = OlderData(batch.data)]
    BY DEF Tick
  <2>2. QED
    BY <2>1, OlderOf DEF Base, TypeOK
<1>6. service' = OlderData(service) /\ service' \in Data
  BY OlderOf DEF Tick, Base, TypeOK
<1>7. /\ cache' \in [value : Data, age : 0 .. ttl - 1 \cup {None}]
      /\ \/ cache'.age = None /\ cache'.value = None
         \/ /\ cache.age \in 0 .. ttl - 2
            /\ cache'.age = cache.age + 1 /\ cache'.value = OlderData(cache.value)
  <2>1. cache' = IF cache.age \in 0 .. ttl - 2
                 THEN [value |-> OlderData(cache.value), age |-> cache.age + 1]
                 ELSE [value |-> None, age |-> None]
    BY DEF Tick
  <2>2. OlderData(cache.value) \in Data /\ None \in Data
    BY OlderOf, AgeSets DEF Base, TypeOK
  <2>3. cache.age \in 0 .. ttl - 2 => cache.age + 1 \in 0 .. ttl - 1
    BY <1>1, Limits
  <2>4. QED
    BY <2>1, <2>2, <2>3
<1>8. /\ clock' \in [in : 1..interval, fired : BOOLEAN]
      /\ \/ clock.in = 1 /\ clock'.fired /\ clock'.in = interval
         \/ clock.in > 1 /\ clock'.fired = clock.fired /\ clock'.in = clock.in - 1
  <2>1. clock' = IF clock.in = 1 THEN [in |-> interval, fired |-> TRUE]
                 ELSE [clock EXCEPT !.in = clock.in - 1]
    BY DEF Tick
  <2>2. clock.in \in 1..interval /\ interval \in Nat \ {0}
    BY <1>1, Limits DEF Base, TypeOK
  <2>3. CASE clock.in = 1
    <3>1. clock' = [in |-> interval, fired |-> TRUE]
      BY <2>1, <2>3
    <3>2. QED
      BY <2>2, <2>3, <3>1
  <2>4. CASE clock.in # 1
    <3>1. clock' = [clock EXCEPT !.in = clock.in - 1] /\ clock.in - 1 \in 1..interval
      BY <2>1, <2>2, <2>4
    <3>2. QED
      BY <2>2, <2>4, <3>1 DEF Base, TypeOK
  <2>5. QED
    BY <2>3, <2>4
<1>9. /\ thread' \in [Threads -> ThreadType]
      /\ \A t \in Threads : /\ thread'[t].pc = thread[t].pc
                            /\ thread'[t].answer = thread[t].answer
                            /\ thread'[t].poll = Older(thread[t].poll)
  <2>1. thread' = [t \in Threads |-> [thread[t] EXCEPT !.poll = Older(thread[t].poll)]]
    BY DEF Tick
  <2>2. ASSUME NEW t \in Threads
        PROVE  /\ thread'[t] \in ThreadType
               /\ thread'[t].pc = thread[t].pc /\ thread'[t].answer = thread[t].answer
               /\ thread'[t].poll = Older(thread[t].poll)
    <3>1. thread[t] \in ThreadType /\ Older(thread[t].poll) \in Ages \cup {None}
      BY ThreadTypes, OlderAge DEF Base
    <3>2. thread'[t] = [thread[t] EXCEPT !.poll = Older(thread[t].poll)]
      BY <2>1
    <3>3. QED
      BY <3>1, <3>2 DEF ThreadType
  <2>3. QED
    BY <2>1, <2>2
<1>10. /\ rest' = IF rest < Backoff THEN rest + 1 ELSE Backoff
       /\ last' = Older(last) /\ shown' = Older(shown)
       /\ since' = IF since < Settling THEN since + 1 ELSE since
       /\ UNCHANGED <<remote, bridge, interval, changes, faults>>
  BY DEF Tick, bounds
<1>11. rest' \in 0..Backoff /\ since' \in 0..Settling
  BY <1>1, <1>10, Limits DEF Base, TypeOK
<1>12. /\ last' \in Ages \cup {None} /\ shown' \in Ages \cup {None}
       /\ (last' # None <=> last # None) /\ (shown' # None <=> shown # None)
  BY <1>10, OlderAge, AgeSets DEF Base, TypeOK
<1>13. readIn' \in 0..Period
  BY <1>2, <1>4, Times DEF Base, TypeOK
<1>14. \A t \in Threads : thread'[t].pc = "reading" => thread'[t].poll # None
  BY <1>9, ThreadTypes, OlderAge DEF Base, TypeOK
<1>15. TypeOK'
  <2>1. /\ remote' \in BOOLEAN /\ bridge' \in {"none", "down", "up", "hung"}
        /\ interval' = interval /\ interval \in Intervals /\ ttl' = ttl /\ Settling' = Settling
        /\ changes' \in 0..MaxChanges /\ faults' \in 0..MaxFaults
    BY <1>10 DEF Base, TypeOK, ttl, Lag, Settling
  <2>2. thread' \in [Threads -> [pc : {"idle", "look", "call", "store", "reading"},
                                 forced : BOOLEAN, answer : Data, poll : Ages \cup {None}]]
    BY <1>9 DEF ThreadType
  <2>3. QED
    BY <1>3, <1>5, <1>6, <1>7, <1>8, <1>11, <1>12, <1>13, <1>14, <2>1, <2>2 DEF TypeOK
<1>16. Shaped'
  <2>1. bridge # "up" => readIn' = readIn
    BY <1>4
  <2>2. QED
    BY <1>2, <1>3, <1>5, <1>6, <1>10, <1>12, <2>1, OlderOf DEF Base, Shaped
<1>17. QED
  BY <1>2, <1>3, <1>4, <1>5, <1>6, <1>7, <1>8, <1>9, <1>10, <1>15, <1>16 DEF Base

\* The steps of a state that satisfies Base, other than the passing of time.
LEMMA Kinds ==
  ASSUME Next
  PROVE  \/ Read \/ Recv \/ Launch \/ Crash \/ Hang \/ Restart
         \/ \E t \in Threads : Look(t) \/ Call(t) \/ Store(t) \/ Reading(t)
         \/ Fire \/ refreshAction
         \/ \E s \in {"live", "frozen", "dead", "gone"} : Change(s)
         \/ Tick
BY DEF Next, updateTiles

-----------------------------------------------------------------------------
(* Type correctness.                                                       *)

LEMMA InitBase == Init => Base
<1> SUFFICES ASSUME Init PROVE Base
  OBVIOUS
<1>1. interval \in Intervals
  BY DEF Init
<1>2. /\ hwinfo \in [status : {"live", "frozen", "dead", "gone"}, age : Ages]
      /\ hwinfo.status = "live" => hwinfo.age <= Grain
  <2>1. 0..Grain \subseteq Ages /\ Old \in Ages /\ \A a \in 0..Grain : a <= Grain
    BY Times, AgeSets DEF Ages, Old
  <2>2. QED
    BY <2>1 DEF Init
<1>3. batch \in [full : BOOLEAN, data : Data] /\ ~batch.full
  BY AgeSets DEF Init, NoBatch
<1>4. clock \in [in : 1..interval, fired : BOOLEAN] /\ rest \in 0..Backoff
  BY <1>1, Limits DEF Init
<1>5. cache \in [value : Data, age : 0 .. ttl - 1 \cup {None}]
  BY AgeSets DEF Init
<1>6. /\ thread \in [Threads -> ThreadType]
      /\ \A t \in Threads : thread[t].pc = "reading" => thread[t].poll # None
  BY IdleType DEF Init
<1>7. 0 \in 0..Settling /\ 0 \in 0..Period /\ 0 \in 0..MaxChanges /\ 0 \in 0..MaxFaults
  BY <1>1, Limits, BoundsAssumption
<1>8. TypeOK
  BY <1>1, <1>2, <1>3, <1>4, <1>5, <1>6, <1>7, AgeSets DEF Init, TypeOK, ThreadType
<1>9. Shaped
  BY <1>2, <1>3 DEF Init, Shaped
<1>10. QED
  BY <1>8, <1>9 DEF Base

LEMMA NextBase == Base /\ [Next]_vars => Base'
<1> SUFFICES ASSUME Base, [Next]_vars PROVE Base'
  OBVIOUS
<1>1. CASE Next
  BY <1>1, Kinds, ReadFacts, RecvFacts, BridgeFacts, ChangeFacts, LookFacts, CallFacts, StoreFacts,
     ReadingFacts, FireFacts, RefreshFacts, TickFacts
<1>2. CASE UNCHANGED vars
  <2>1. TypeOK' /\ Shaped'
    BY <1>2 DEF Base, TypeOK, Shaped, ttl, Lag, Settling, vars, process, settings, tile, bounds
  <2>2. QED
    BY <2>1 DEF Base
<1>3. QED
  BY <1>1, <1>2

\* The bridge, the caches, the threads and the tile keep their types for every
\* rate and every limit: TypeOK holds in every reachable state.
THEOREM TypeCorrect == Spec => []TypeOK
<1>1. Base => TypeOK
  BY DEF Base
<1>2. QED
  BY <1>1, InitBase, NextBase, PTL DEF Spec

-----------------------------------------------------------------------------
(* NoFreeze: while the machine is not polled, what is known of it is as    *)
(* old as the change, so that no gate opens once that is stale, and the    *)
(* next tick makes the tile unavailable.                                   *)

Busy == thread["ticker"].pc # "idle" \/ clock.fired

\* A tick that notices what is older than limit comes in time.
Within(x, limit) ==
  /\ Busy => x <= limit + interval
  /\ ~Busy => x + clock.in <= limit + interval

AgedData(d) == d # None => d.age >= since \/ d.age = Old

Aged ==
  hwinfo.status # "live" =>
    /\ hwinfo.age >= since \/ hwinfo.age = Old
    /\ AgedData(batch.data) /\ AgedData(service) /\ AgedData(cache.value)
    /\ \A t \in Threads : thread[t].pc = "store" => AgedData(thread[t].answer)

Unpolled == bridge # "hung" /\ hwinfo.status # "live"

FreezeThread == Unpolled => \A t \in Threads : thread[t].pc = "reading" => since <= Stale

FreezeShown == Unpolled /\ shown # None => Within(since, Stale)

FreezeInv == Base /\ Aged /\ FreezeThread /\ FreezeShown

\* The numbers that the arguments are about.
LEMMA Numbers ==
  ASSUME Base
  PROVE  /\ since \in Nat /\ rest \in 0..Backoff /\ readIn \in 0..Period
         /\ interval \in Nat \ {0} /\ ttl \in 1..interval /\ clock.in \in 1..interval
         /\ Period \in Nat \ {0} /\ Stale \in Nat \ {0} /\ Backoff \in Nat \ {0}
         /\ Grain \in Nat
         /\ shown \in Ages \cup {None} /\ last \in Ages \cup {None}
         /\ cache.age \in 0 .. ttl - 1 \cup {None} /\ clock.fired \in BOOLEAN
         /\ bridge \in {"none", "down", "up", "hung"}
         /\ "ticker" \in Threads /\ "events" \in Threads
BY Limits, Times DEF Base, TypeOK, Threads

LEMMA Copies ==
  ASSUME Base
  PROVE  /\ batch.data \in Data /\ service \in Data /\ cache.value \in Data
         /\ remote \in BOOLEAN /\ hwinfo.age \in Ages
         /\ hwinfo.status \in {"live", "frozen", "dead", "gone"}
BY DEF Base, TypeOK

\* A change starts everything anew.
LEMMA FreezeReset ==
  ASSUME Base', since' = 0
  PROVE  FreezeInv'
<1>1. /\ interval' \in Nat /\ clock'.in \in Nat /\ clock'.in <= interval' /\ Stale \in Nat
  <2>1. interval' \in Intervals /\ clock'.in \in 1..interval'
    BY DEF Base, TypeOK
  <2>2. QED
    BY <2>1, Times
<1>2. Aged'
  <2>1. \A d \in Data : d # None => d.age >= 0
    BY AgeSets
  <2>2. hwinfo'.age >= 0
    BY AgeSets DEF Base, TypeOK
  <2>3. /\ batch'.data \in Data /\ service' \in Data /\ cache'.value \in Data
        /\ \A t \in Threads : thread'[t].answer \in Data
    BY DEF Base, TypeOK
  <2>4. QED
    BY <2>1, <2>2, <2>3 DEF Aged, AgedData
<1>3. 0 <= Stale /\ 0 <= Stale + interval' /\ 0 + clock'.in <= Stale + interval'
  <2>1. \A i, c, n \in Nat : c <= i => 0 <= n /\ 0 <= n + i /\ 0 + c <= n + i
    OBVIOUS
  <2>2. QED
    BY <1>1, <2>1
<1>4. FreezeThread' /\ FreezeShown'
  BY <1>3 DEF FreezeThread, FreezeShown, Within
<1>5. QED
  BY <1>2, <1>4 DEF FreezeInv

LEMMA InitFreeze == Init => FreezeInv
<1> SUFFICES ASSUME Init PROVE FreezeInv
  OBVIOUS
<1>1. Base /\ since = 0
  BY InitBase DEF Init
<1>2. Aged
  <2>1. /\ batch.data = None /\ service = None /\ cache.value = None
        /\ \A t \in Threads : thread[t].answer = None
    BY IdleType DEF Init, NoBatch
  <2>2. hwinfo.age >= 0
    BY <1>1, Copies, AgeSets
  <2>3. QED
    BY <1>1, <2>1, <2>2 DEF Aged, AgedData
<1>3. FreezeThread /\ FreezeShown
  BY <1>1, Numbers DEF FreezeThread, FreezeShown, Within
<1>4. QED
  BY <1>1, <1>2, <1>3 DEF FreezeInv

\* An unpolled machine passes the gate only while it is not stale.
LEMMA FreezeGate ==
  ASSUME FreezeInv, NEW t \in Threads, NEW poll, Works(t), Gates(t, poll),
         Unpolled /\ poll \in 0..Stale => since <= Stale
  PROVE  FreezeThread' /\ FreezeShown'
<1>1. /\ \A u \in Threads \ {t} : thread'[u] = thread[u]
      /\ \/ thread'[t].pc = "idle" /\ shown' = None
         \/ thread'[t].pc = "idle" /\ poll \in 0..Stale /\ shown' = shown
         \/ thread'[t].pc = "reading" /\ poll \in 0..Stale /\ shown' = shown
  BY DEF Gates
<1>2. Unpolled' <=> Unpolled
  BY DEF Works, Unpolled
<1>3. FreezeThread'
  BY <1>1, <1>2 DEF FreezeInv, FreezeThread, Works
<1>4. FreezeShown'
  BY <1>1, <1>2, Numbers DEF FreezeInv, FreezeShown, Within, Busy, Works
<1>5. QED
  BY <1>3, <1>4

\* What is known of an unpolled machine, if it is not stale, is from before.
LEMMA FreezePoll ==
  ASSUME FreezeInv, NEW d \in Data, AgedData(d), pollTimeForUID(d) \in 0..Stale
  PROVE  since <= Stale
<1>1. d # None /\ pollTimeForUID(d) = d.age
  BY PollAge, Copies, AgeSets, Numbers DEF FreezeInv, Ages
<1>2. QED
  BY <1>1, Numbers DEF FreezeInv, AgedData, Old

LEMMA NextFreeze == FreezeInv /\ [Next]_vars => FreezeInv'
<1> SUFFICES ASSUME FreezeInv, [Next]_vars PROVE FreezeInv'
  OBVIOUS
<1>0. Base /\ Base'
  BY NextBase DEF FreezeInv
<1>1. CASE Read
  <2>1. Aged'
    BY <1>0, <1>1, ReadFacts DEF FreezeInv, Aged, AgedData
  <2>2. FreezeThread' /\ FreezeShown'
    BY <1>0, <1>1, ReadFacts DEF FreezeInv, FreezeThread, FreezeShown, Unpolled, Within, Busy
  <2>3. QED
    BY <1>0, <2>1, <2>2 DEF FreezeInv
<1>2. CASE Recv
  <2>1. Aged'
    BY <1>0, <1>2, RecvFacts DEF FreezeInv, Aged, AgedData
  <2>2. FreezeThread' /\ FreezeShown'
    BY <1>0, <1>2, RecvFacts DEF FreezeInv, FreezeThread, FreezeShown, Unpolled, Within, Busy
  <2>3. QED
    BY <1>0, <2>1, <2>2 DEF FreezeInv
<1>3. CASE Launch \/ Crash \/ Hang \/ Restart
  BY <1>0, <1>3, BridgeFacts, FreezeReset
<1>4. ASSUME NEW s \in {"live", "frozen", "dead", "gone"}, Change(s) PROVE FreezeInv'
  BY <1>0, <1>4, ChangeFacts, FreezeReset
<1>5. ASSUME NEW t \in Threads, Look(t) PROVE FreezeInv'
  <2>1. Works(t) /\ cache' = cache
    BY <1>0, <1>5, LookFacts
  <2>2. CASE Gates(t, None)
    <3>1. FreezeThread' /\ FreezeShown'
      BY <2>1, <2>2, AgeSets, FreezeGate, <1>0, Numbers
    <3>2. \A u \in Threads : thread'[u] = thread[u] \/ thread'[u].pc # "store"
      BY <2>2 DEF Gates
    <3>3. Aged'
      BY <2>1, <3>2 DEF FreezeInv, Aged, AgedData, Works
    <3>4. QED
      BY <1>0, <3>1, <3>3 DEF FreezeInv
  <2>3. CASE Gates(t, pollTimeForUID(cache.value))
    <3>1. Unpolled /\ pollTimeForUID(cache.value) \in 0..Stale => since <= Stale
      BY <1>0, FreezePoll, Copies DEF FreezeInv, Aged, Unpolled
    <3>2. FreezeThread' /\ FreezeShown'
      BY <2>1, <2>3, <3>1, FreezeGate
    <3>3. \A u \in Threads : thread'[u] = thread[u] \/ thread'[u].pc # "store"
      BY <2>3 DEF Gates
    <3>4. Aged'
      BY <2>1, <3>3 DEF FreezeInv, Aged, AgedData, Works
    <3>5. QED
      BY <1>0, <3>2, <3>4 DEF FreezeInv
  <2>4. CASE /\ \A u \in Threads : /\ thread'[u].pc = IF u = t THEN "call" ELSE thread[u].pc
                                   /\ thread'[u].answer = thread[u].answer
             /\ thread[t].pc = "look" /\ UNCHANGED <<shown, last>>
    <3>1. Aged'
      BY <2>1, <2>4 DEF FreezeInv, Aged, AgedData, Works
    <3>2. FreezeThread' /\ FreezeShown'
      BY <1>0, <2>1, <2>4, Numbers
         DEF FreezeInv, FreezeThread, FreezeShown, Unpolled, Within, Busy, Works
    <3>3. QED
      BY <1>0, <3>1, <3>2 DEF FreezeInv
  <2>5. QED
    BY <1>0, <1>5, <2>2, <2>3, <2>4, LookFacts
<1>6. ASSUME NEW t \in Threads, Call(t) PROVE FreezeInv'
  <2>1. Aged'
    BY <1>0, <1>6, CallFacts DEF FreezeInv, Aged, AgedData, Works
  <2>2. FreezeThread' /\ FreezeShown'
    BY <1>0, <1>6, CallFacts, Numbers
       DEF FreezeInv, FreezeThread, FreezeShown, Unpolled, Within, Busy, Works
  <2>3. QED
    BY <1>0, <2>1, <2>2 DEF FreezeInv
<1>7. ASSUME NEW t \in Threads, Store(t) PROVE FreezeInv'
  <2>1. /\ Works(t) /\ thread[t].pc = "store" /\ cache'.value = thread[t].answer
        /\ Gates(t, pollTimeForUID(thread[t].answer))
    BY <1>0, <1>7, StoreFacts
  <2>2. thread[t].answer \in Data
    BY <1>0, ThreadTypes DEF Base
  <2>3. Unpolled /\ pollTimeForUID(thread[t].answer) \in 0..Stale => since <= Stale
    BY <2>1, <2>2, FreezePoll DEF FreezeInv, Aged, Unpolled
  <2>4. FreezeThread' /\ FreezeShown'
    BY <2>1, <2>3, FreezeGate
  <2>5. \A u \in Threads : thread'[u] = thread[u] \/ thread'[u].pc # "store"
    BY <2>1 DEF Gates
  <2>6. Aged'
    BY <2>1, <2>5 DEF FreezeInv, Aged, AgedData, Works
  <2>7. QED
    BY <1>0, <2>4, <2>6 DEF FreezeInv
<1>8. ASSUME NEW t \in Threads, Reading(t) PROVE FreezeInv'
  <2>1. Aged'
    BY <1>0, <1>8, ReadingFacts DEF FreezeInv, Aged, AgedData, Works
  <2>2. FreezeThread'
    BY <1>0, <1>8, ReadingFacts DEF FreezeInv, FreezeThread, Unpolled, Works
  <2>3. Unpolled => since <= Stale
    BY <1>0, <1>8, ReadingFacts DEF FreezeInv, FreezeThread
  <2>4. FreezeShown'
    BY <1>0, <1>8, <2>3, ReadingFacts, Numbers
       DEF FreezeShown, Unpolled, Within, Works
  <2>5. QED
    BY <1>0, <2>1, <2>2, <2>4 DEF FreezeInv
<1>9. CASE Fire
  <2>1. \A u \in Threads : thread'[u] = thread[u] \/ (thread'[u].pc = "look" /\ thread'[u].answer = None)
    BY <1>0, <1>9, FireFacts DEF Threads
  <2>2. Aged' /\ FreezeThread'
    BY <1>0, <1>9, <2>1, FireFacts DEF FreezeInv, Aged, AgedData, FreezeThread, Unpolled
  <2>3. FreezeShown'
    BY <1>0, <1>9, FireFacts, Numbers
       DEF FreezeInv, FreezeShown, Unpolled, Within, Busy
  <2>4. QED
    BY <1>0, <2>2, <2>3 DEF FreezeInv
<1>10. CASE refreshAction
  <2>1. \A u \in Threads : thread'[u] = thread[u] \/ (thread'[u].pc = "look" /\ thread'[u].answer = None)
    BY <1>0, <1>10, RefreshFacts DEF Threads
  <2>2. Aged' /\ FreezeThread'
    BY <1>0, <1>10, <2>1, RefreshFacts DEF FreezeInv, Aged, AgedData, FreezeThread, Unpolled
  <2>3. FreezeShown'
    BY <1>0, <1>10, RefreshFacts DEF FreezeInv, FreezeShown, Unpolled, Within, Busy
  <2>4. QED
    BY <1>0, <2>2, <2>3 DEF FreezeInv
<1>11. CASE Tick
  <2>1. since' <= since + 1 /\ since' \in Nat
    BY <1>0, <1>11, TickFacts, Numbers
  <2>2. /\ \A a \in Ages : a >= since \/ a = Old => Older(a) >= since' \/ Older(a) = Old
        /\ \A d \in Data : AgedData(d) => (OlderData(d) # None => \/ OlderData(d).age >= since'
                                                                  \/ OlderData(d).age = Old)
    <3>1. \A a \in Ages : a >= since \/ a = Old => Older(a) >= since' \/ Older(a) = Old
      <4>1. ASSUME NEW a \in Ages, a >= since \/ a = Old PROVE Older(a) >= since' \/ Older(a) = Old
        <5>1. a \in Nat /\ Older(a) \in Nat /\ (a + 1 <= Older(a) \/ Older(a) = Old)
          BY OlderAge, AgeSets
        <5>2. a = Old => Older(a) = Old
          BY OlderAge
        <5>3. QED
          BY <1>0, <2>1, <4>1, <5>1, <5>2, Numbers
      <4>2. QED
        BY <4>1
    <3>2. QED
      BY <3>1, OlderOf, AgeSets DEF AgedData
  <2>3. Aged'
    <3>1. SUFFICES ASSUME hwinfo'.status # "live" PROVE Aged'
      BY DEF Aged
    <3>2. hwinfo.status # "live" /\ hwinfo'.age = Older(hwinfo.age)
      BY <1>0, <1>11, <3>1, TickFacts
    <3>3. /\ hwinfo.age >= since \/ hwinfo.age = Old
          /\ AgedData(batch.data) /\ AgedData(service) /\ AgedData(cache.value)
      BY <3>2 DEF FreezeInv, Aged
    <3>4. hwinfo'.age >= since' \/ hwinfo'.age = Old
      BY <1>0, <2>2, <3>2, <3>3, Copies
    <3>5. AgedData(batch.data)' /\ AgedData(service)'
      BY <1>0, <1>11, <2>2, <3>3, Copies, TickFacts DEF AgedData
    <3>6. AgedData(cache.value)'
      BY <1>0, <1>11, <2>2, <3>3, Copies, TickFacts DEF AgedData
    <3>7. \A t \in Threads : thread'[t].pc # "store"
      BY <1>0, <1>11, TickFacts
    <3>8. QED
      BY <3>4, <3>5, <3>6, <3>7 DEF Aged
  <2>4. FreezeThread'
    BY <1>0, <1>11, TickFacts DEF FreezeThread, Unpolled
  <2>5. FreezeShown'
    <3>1. SUFFICES ASSUME Unpolled', shown' # None PROVE Within(since, Stale)'
      BY DEF FreezeShown
    <3>2. Unpolled /\ shown # None
      BY <1>0, <1>11, <3>1, TickFacts, OlderAge DEF Unpolled
    <3>3. ~Busy /\ since + clock.in <= Stale + interval
      BY <1>0, <1>11, <3>2, TickFacts, Numbers DEF FreezeInv, FreezeShown, Within, Busy, Unpolled
    <3>4. QED
      BY <1>0, <1>11, <2>1, <3>3, TickFacts, Numbers DEF Within, Busy
  <2>6. QED
    BY <1>0, <2>3, <2>4, <2>5 DEF FreezeInv
<1>12. CASE UNCHANGED vars
  BY <1>0, <1>12
     DEF FreezeInv, Aged, AgedData, FreezeThread, FreezeShown, Unpolled, Within, Busy, vars, process,
         settings, tile
<1>13. QED
  BY <1>1, <1>2, <1>3, <1>4, <1>5, <1>6, <1>7, <1>8, <1>9, <1>10, <1>11, <1>12, Kinds

LEMMA FreezeImplies == FreezeInv => NoFreeze
<1> SUFFICES ASSUME FreezeInv, since >= Lag + Stale, bridge # "hung", hwinfo.status # "live",
                    shown # None
             PROVE  FALSE
  BY DEF NoFreeze
<1>1. Within(since, Stale)
  BY DEF FreezeInv, FreezeShown, Unpolled
<1>2. Base /\ interval \in Intervals
  BY DEF FreezeInv, Base, TypeOK
<1>3. QED
  BY <1>1, <1>2, Numbers, Limits DEF Within

\* No tile keeps the last value of a machine that HWiNFO has stopped polling, that
\* was marked dead or whose memory is gone, for longer than a read, a tick, the
\* time to live of the cache and the age a poll time may have.
THEOREM NeverFreezes == Spec => []NoFreeze
BY InitFreeze, NextFreeze, FreezeImplies, PTL DEF Spec

-----------------------------------------------------------------------------
(* NoticesLoss: a read after the loss finds no live data, what was asked   *)
(* before it is in the cache for less than its time to live, and the next  *)
(* tick makes the tile unavailable.                                        *)

\* The oldest loss that a cache may hide.
Seen == Period + ttl - 1

Absent(d) == d = None \/ ~d.live

Lost == remote /\ (bridge = "down" \/ (bridge = "up" /\ hwinfo.status \in {"dead", "gone"}))

LostData ==
  Lost =>
    /\ since > Period => Absent(service)
    /\ bridge = "up" /\ since + readIn > Period =>
         (batch.full => Absent(batch.data)) /\ (~batch.full => Absent(service))
    /\ cache.age # None /\ since > cache.age + Period => Absent(cache.value)
    /\ \A t \in Threads :
         thread[t].pc = "store" /\ since > Period => Absent(thread[t].answer)

LostThread == Lost => \A t \in Threads : thread[t].pc = "reading" => since <= Seen

LostShown == Lost /\ shown # None => Within(since, Seen)

LostInv == Base /\ LostData /\ LostThread /\ LostShown

LEMMA LostReset ==
  ASSUME Base', since' = 0
  PROVE  LostInv'
<1>1. /\ interval' \in Nat /\ clock'.in \in Nat /\ clock'.in <= interval' /\ Seen' \in Nat
      /\ readIn' \in Nat /\ readIn' <= Period /\ Period \in Nat
      /\ cache'.age # None => cache'.age \in Nat
  <2>1. /\ interval' \in Intervals /\ clock'.in \in 1..interval' /\ readIn' \in 0..Period
        /\ cache'.age \in 0 .. ttl' - 1 \cup {None}
        /\ ttl' = pollTimeCacheTTLForInterval(interval') /\ Seen' = Period + ttl' - 1
    BY DEF Base, TypeOK, ttl, Seen
  <2>2. ttl' \in Nat \ {0} /\ Period \in Nat \ {0} /\ interval' \in Nat
    BY <2>1, Times
  <2> HIDE DEF ttl, Seen
  <2>3. QED
    BY <2>1, <2>2
<1>2. \A i, c, n, r, p \in Nat :
        /\ c <= i => 0 <= n /\ 0 <= n + i /\ 0 + c <= n + i
        /\ r <= p => ~(0 + r > p) /\ ~(0 > c + p) /\ ~(0 > p)
  OBVIOUS
<1>3. LostData'
  BY <1>1, <1>2 DEF LostData
<1>4. LostThread' /\ LostShown'
  BY <1>1, <1>2 DEF LostThread, LostShown, Within
<1>5. QED
  BY <1>3, <1>4 DEF LostInv

LEMMA InitLost == Init => LostInv
<1> SUFFICES ASSUME Init PROVE LostInv
  OBVIOUS
<1>1. Base /\ bridge = "none"
  BY InitBase DEF Init
<1>2. ~Lost
  BY <1>1 DEF Lost
<1>3. QED
  BY <1>1, <1>2 DEF LostInv, LostData, LostThread, LostShown

\* A lost machine passes the gate only by what was read before.
LEMMA LostGate ==
  ASSUME LostInv, NEW t \in Threads, NEW poll, Works(t), Gates(t, poll),
         Lost /\ poll \in 0..Stale => since <= Seen
  PROVE  LostThread' /\ LostShown'
<1>1. /\ \A u \in Threads \ {t} : thread'[u] = thread[u]
      /\ \/ thread'[t].pc = "idle" /\ shown' = None
         \/ thread'[t].pc = "idle" /\ poll \in 0..Stale /\ shown' = shown
         \/ thread'[t].pc = "reading" /\ poll \in 0..Stale /\ shown' = shown
  BY DEF Gates
<1>2. (Lost' <=> Lost) /\ Seen' = Seen /\ since' = since
  BY DEF Works, Lost, Seen, ttl
<1>3. LostThread'
  BY <1>1, <1>2 DEF LostInv, LostThread
<1>4. Base /\ Seen \in Nat
  BY Numbers DEF LostInv, Seen
<1>5. LostShown'
  BY <1>1, <1>2, <1>4, Numbers DEF LostInv, LostShown, Within, Busy, Works
<1>6. QED
  BY <1>3, <1>5

LEMMA NextLost == LostInv /\ [Next]_vars => LostInv'
<1> SUFFICES ASSUME LostInv, [Next]_vars PROVE LostInv'
  OBVIOUS
<1>0. /\ Base /\ Base' /\ Seen \in Nat /\ Period <= Seen
      /\ \A a \in 0 .. ttl - 1 : Period + a <= Seen
  BY NextBase, Numbers DEF LostInv, Seen
<1>1. CASE Read
  <2>1. /\ (Lost' <=> Lost) /\ Seen' = Seen
        /\ UNCHANGED <<service, cache, interval, clock, thread, shown, since>>
    BY <1>0, <1>1, ReadFacts DEF Lost, Seen, ttl
  <2>2. Lost => batch'.full /\ Absent(batch'.data)
    BY <1>0, <1>1, ReadFacts DEF Lost, Absent
  <2>3. LostData'
    BY <1>0, <2>1, <2>2 DEF LostInv, LostData, Absent
  <2>4. LostThread' /\ LostShown'
    BY <2>1 DEF LostInv, LostThread, LostShown, Within, Busy
  <2>5. QED
    BY <1>0, <2>3, <2>4 DEF LostInv
<1>2. CASE Recv
  <2>1. /\ (Lost' <=> Lost) /\ Seen' = Seen /\ ~batch'.full
        /\ UNCHANGED <<readIn, cache, interval, clock, thread, shown, since>>
    BY <1>0, <1>2, RecvFacts DEF Lost, Seen, ttl
  <2>2. Lost /\ since > 0 => Absent(service')
    BY <1>0, <1>2, RecvFacts, Numbers DEF LostInv, LostData, Lost, Absent
  <2>3. LostData'
    BY <1>0, <1>2, <2>1, <2>2, RecvFacts, Numbers DEF LostInv, LostData, Absent
  <2>4. LostThread' /\ LostShown'
    BY <2>1 DEF LostInv, LostThread, LostShown, Within, Busy
  <2>5. QED
    BY <1>0, <2>3, <2>4 DEF LostInv
<1>3. CASE Launch \/ Crash \/ Hang \/ Restart
  BY <1>0, <1>3, BridgeFacts, LostReset
<1>4. ASSUME NEW s \in {"live", "frozen", "dead", "gone"}, Change(s) PROVE LostInv'
  BY <1>0, <1>4, ChangeFacts, LostReset
<1>5. ASSUME NEW t \in Threads, Look(t) PROVE LostInv'
  <2>1. /\ Works(t) /\ cache' = cache /\ (Lost' <=> Lost)
        /\ UNCHANGED <<service, since, readIn, batch, bridge>>
    BY <1>0, <1>5, LookFacts DEF Works, Lost
  <2>2. ASSUME \A u \in Threads : thread'[u] = thread[u] \/ thread'[u].pc # "store"
        PROVE  LostData'
    BY <2>1, <2>2 DEF LostInv, LostData, Absent
  <2>3. CASE Gates(t, None)
    <3>1. LostThread' /\ LostShown'
      BY <2>1, <2>3, AgeSets, LostGate, <1>0, Numbers
    <3>2. LostData'
      BY <2>2, <2>3 DEF Gates
    <3>3. QED
      BY <1>0, <3>1, <3>2 DEF LostInv
  <2>4. CASE cache.age # None /\ Gates(t, pollTimeForUID(cache.value))
    <3>1. Lost /\ pollTimeForUID(cache.value) \in 0..Stale => since <= Seen
      <4>1. SUFFICES ASSUME Lost, pollTimeForUID(cache.value) \in 0..Stale PROVE since <= Seen
        OBVIOUS
      <4>2. ~Absent(cache.value)
        BY <1>0, <4>1, PollAge, Copies, AgeSets, Numbers DEF Lost, Absent
      <4>3. ~(since > cache.age + Period)
        BY <2>4, <4>1, <4>2 DEF LostInv, LostData
      <4>4. QED
        BY <1>0, <2>4, <4>3, Numbers DEF Seen
    <3>2. LostThread' /\ LostShown'
      BY <2>1, <2>4, <3>1, LostGate
    <3>3. LostData'
      BY <2>2, <2>4 DEF Gates
    <3>4. QED
      BY <1>0, <3>2, <3>3 DEF LostInv
  <2>5. CASE /\ \A u \in Threads : /\ thread'[u].pc = IF u = t THEN "call" ELSE thread[u].pc
                                   /\ thread'[u].answer = thread[u].answer
             /\ thread[t].pc = "look" /\ UNCHANGED <<shown, last>>
    <3>1. LostData'
      BY <2>1, <2>5 DEF LostInv, LostData, Absent
    <3>2. LostThread' /\ LostShown'
      BY <1>0, <2>1, <2>5, Numbers
         DEF LostInv, LostThread, LostShown, Within, Busy, Works, Seen, ttl
    <3>3. QED
      BY <1>0, <3>1, <3>2 DEF LostInv
  <2>6. QED
    BY <1>0, <1>5, <2>3, <2>4, <2>5, LookFacts
<1>6. ASSUME NEW t \in Threads, Call(t) PROVE LostInv'
  <2>1. /\ Works(t) /\ (Lost' <=> Lost) /\ Seen' = Seen
        /\ UNCHANGED <<service, since, readIn, batch, bridge, cache, shown>>
    BY <1>0, <1>6, CallFacts DEF Works, Lost, Seen, ttl
  <2>2. Lost /\ since > Period => Absent(thread'[t].answer)
    BY <1>0, <1>6, CallFacts DEF LostInv, LostData, Absent
  <2>3. LostData'
    <3>1. \A u \in Threads \ {t} : thread'[u] = thread[u]
      BY <1>0, <1>6, CallFacts
    <3>2. QED
      BY <2>1, <2>2, <3>1 DEF LostInv, LostData, Absent
  <2>4. LostThread' /\ LostShown'
    BY <1>0, <1>6, <2>1, CallFacts, Numbers
       DEF LostInv, LostThread, LostShown, Within, Busy, Works
  <2>5. QED
    BY <1>0, <2>3, <2>4 DEF LostInv
<1>7. ASSUME NEW t \in Threads, Store(t) PROVE LostInv'
  <2>1. /\ Works(t) /\ thread[t].pc = "store"
        /\ cache'.value = thread[t].answer /\ cache'.age = 0
        /\ Gates(t, pollTimeForUID(thread[t].answer))
        /\ thread[t].answer \in Data /\ (Lost' <=> Lost)
        /\ UNCHANGED <<service, since, readIn, batch, bridge>>
    BY <1>0, <1>7, StoreFacts, ThreadTypes DEF Base, Works, Lost
  <2>2. Lost /\ pollTimeForUID(thread[t].answer) \in 0..Stale => since <= Seen
    <3>1. SUFFICES ASSUME Lost, pollTimeForUID(thread[t].answer) \in 0..Stale PROVE since <= Seen
      OBVIOUS
    <3>2. ~Absent(thread[t].answer)
      BY <1>0, <2>1, <3>1, PollAge, Copies, AgeSets, Numbers DEF Lost, Absent
    <3>3. ~(since > Period)
      BY <2>1, <3>1, <3>2 DEF LostInv, LostData
    <3>4. QED
      BY <1>0, <3>3, Numbers
  <2>3. LostThread' /\ LostShown'
    BY <2>1, <2>2, LostGate
  <2>4. LostData'
    <3>1. \A u \in Threads : thread'[u] = thread[u] \/ thread'[u].pc # "store"
      BY <2>1 DEF Gates
    <3>2. cache'.age + Period = Period
      BY <1>0, <2>1, Numbers
    <3>3. QED
      BY <2>1, <3>1, <3>2 DEF LostInv, LostData, Absent
  <2>5. QED
    BY <1>0, <2>3, <2>4 DEF LostInv
<1>8. ASSUME NEW t \in Threads, Reading(t) PROVE LostInv'
  <2>1. /\ Works(t) /\ cache' = cache /\ (Lost' <=> Lost) /\ Seen' = Seen
        /\ UNCHANGED <<service, since, readIn, batch, bridge>>
        /\ thread'[t].pc = "idle" /\ \A u \in Threads \ {t} : thread'[u] = thread[u]
    BY <1>0, <1>8, ReadingFacts DEF Works, Lost, Seen, ttl
  <2>2. LostData'
    BY <2>1 DEF LostInv, LostData, Absent
  <2>3. LostThread'
    BY <2>1 DEF LostInv, LostThread
  <2>4. Lost => since <= Seen
    BY <1>0, <1>8, ReadingFacts DEF LostInv, LostThread
  <2>5. LostShown'
    BY <1>0, <2>1, <2>4, Numbers DEF LostShown, Within, Works
  <2>6. QED
    BY <1>0, <2>2, <2>3, <2>5 DEF LostInv
<1>9. CASE Fire
  <2>1. /\ \A u \in Threads : thread'[u] = thread[u] \/ thread'[u].pc = "look"
        /\ (Lost' <=> Lost) /\ Seen' = Seen
        /\ UNCHANGED <<service, since, readIn, batch, bridge, cache, shown>>
    BY <1>0, <1>9, FireFacts DEF Threads, Lost, Seen, ttl
  <2>2. LostData' /\ LostThread'
    BY <2>1 DEF LostInv, LostData, Absent, LostThread
  <2>3. LostShown'
    BY <1>0, <1>9, <2>1, FireFacts, Numbers DEF LostInv, LostShown, Within, Busy
  <2>4. QED
    BY <1>0, <2>2, <2>3 DEF LostInv
<1>10. CASE refreshAction
  <2>1. /\ \A u \in Threads : thread'[u] = thread[u] \/ thread'[u].pc = "look"
        /\ (Lost' <=> Lost) /\ Seen' = Seen
        /\ UNCHANGED <<service, since, readIn, batch, bridge, cache, shown>>
    BY <1>0, <1>10, RefreshFacts DEF Threads, Lost, Seen, ttl
  <2>2. LostData' /\ LostThread'
    BY <2>1 DEF LostInv, LostData, Absent, LostThread
  <2>3. LostShown'
    BY <1>0, <1>10, <2>1, RefreshFacts DEF LostInv, LostShown, Within, Busy
  <2>4. QED
    BY <1>0, <2>2, <2>3 DEF LostInv
<1>11. CASE Tick
  <2>1. since' <= since + 1 /\ since' \in Nat /\ (Lost' <=> Lost) /\ Seen' = Seen
    BY <1>0, <1>11, TickFacts, Numbers DEF Lost, Seen, ttl
  <2>2. \A d \in Data : Absent(d) => Absent(OlderData(d))
    BY OlderOf DEF Absent
  <2>3. LostData'
    <3>1. SUFFICES ASSUME Lost PROVE LostData'
      BY <2>1 DEF LostData
    <3>2. bridge = "up" /\ since' + readIn' > Period => Absent(service')
      BY <1>0, <1>11, <2>1, <2>2, <3>1, TickFacts, Numbers, Copies DEF LostInv, LostData
    <3>3. since' > Period => Absent(service')
      <4>1. CASE bridge = "up"
        <5>1. readIn' \in Nat
          BY <1>0, <1>11, <4>1, TickFacts, Numbers
        <5>2. QED
          BY <1>0, <2>1, <3>2, <4>1, <5>1, Numbers
      <4>2. CASE bridge = "down"
        BY <1>0, <1>11, <4>2, TickFacts, OlderOf DEF Base, Shaped, Absent
      <4>3. QED
        BY <3>1, <4>1, <4>2 DEF Lost
    <3>4. cache'.age # None /\ since' > cache'.age + Period => Absent(cache'.value)
      BY <1>0, <1>11, <2>1, <2>2, <3>1, TickFacts, Numbers, Copies, AgeSets
         DEF LostInv, LostData
    <3>5. /\ \A t \in Threads : thread'[t].pc # "store"
          /\ bridge' = bridge /\ (bridge = "up" => ~batch'.full)
      BY <1>0, <1>11, TickFacts
    <3>6. QED
      BY <3>2, <3>3, <3>4, <3>5 DEF LostData, Absent
  <2>4. LostThread'
    BY <1>0, <1>11, <2>1, TickFacts DEF LostThread, Lost
  <2>5. LostShown'
    <3>1. SUFFICES ASSUME Lost', shown' # None PROVE Within(since, Seen)'
      BY DEF LostShown
    <3>2. Lost /\ shown # None /\ bridge # "hung"
      BY <1>0, <1>11, <2>1, <3>1, TickFacts, OlderAge DEF Lost
    <3>3. ~Busy /\ since + clock.in <= Seen + interval
      BY <1>0, <1>11, <3>2, TickFacts, Numbers DEF LostInv, LostShown, Within, Busy
    <3>4. QED
      BY <1>0, <1>11, <2>1, <3>3, TickFacts, Numbers DEF Within, Busy
  <2>6. QED
    BY <1>0, <2>3, <2>4, <2>5 DEF LostInv
<1>12. CASE UNCHANGED vars
  <2>1. /\ (Lost' <=> Lost) /\ Seen' = Seen
        /\ UNCHANGED <<service, since, readIn, batch, bridge, cache, shown, thread, clock, interval>>
    BY <1>12 DEF vars, process, settings, tile, Lost, Seen, ttl
  <2>2. QED
    BY <1>0, <2>1 DEF LostInv, LostData, Absent, LostThread, LostShown, Within, Busy
<1>13. QED
  BY <1>1, <1>2, <1>3, <1>4, <1>5, <1>6, <1>7, <1>8, <1>9, <1>10, <1>11, <1>12, Kinds

LEMMA LostImplies == LostInv => NoticesLoss
<1> SUFFICES ASSUME LostInv, since >= Lag, Lost, shown # None PROVE FALSE
  BY DEF NoticesLoss, Lost
<1>1. Within(since, Seen)
  BY DEF LostInv, LostShown
<1>2. Base /\ interval \in Intervals
  BY DEF LostInv, Base, TypeOK
<1>3. QED
  BY <1>1, <1>2, Numbers, Limits DEF Within, Seen

\* A tile of a remote source shows that it has disconnected, whether HWiNFO was
\* closed, the machine was marked dead or the bridge died, a read, a tick and the
\* time to live of the cache after it at the latest.
THEOREM LossIsNoticed == Spec => []NoticesLoss
BY InitLost, NextLost, LostImplies, PTL DEF Spec

-----------------------------------------------------------------------------
(* KeepsUp, first part: what is known of the machine grows older on its    *)
(* way.  What the plugin has been told is no newer than what the service   *)
(* has, nor that than what the bridge has read, nor that than the memory.  *)

\* Data that are no newer than an age, and what the plugin holds of them.
NoNewer(a, d)       == d # None => a <= d.age
Held(a, value, th)  ==
  /\ NoNewer(a, value)
  /\ \A t \in Threads : /\ th[t].pc = "store" => NoNewer(a, th[t].answer)
                        /\ th[t].pc = "reading" => a <= th[t].poll

Newest ==
  /\ NoNewer(hwinfo.age, batch.data) /\ NoNewer(hwinfo.age, service)
  /\ Held(hwinfo.age, cache.value, thread)
  /\ batch.data # None =>
       NoNewer(batch.data.age, service) /\ Held(batch.data.age, cache.value, thread)
  /\ service # None => Held(service.age, cache.value, thread)
  /\ last # None => shown <= last

NewestInv == Base /\ Newest

LEMMA InitNewest == Init => NewestInv
<1> SUFFICES ASSUME Init PROVE NewestInv
  OBVIOUS
<1>1. Base
  BY InitBase
<1>2. /\ batch.data = None /\ service = None /\ cache.value = None /\ last = None
      /\ \A t \in Threads : thread[t].pc = "idle"
  BY IdleType DEF Init, NoBatch
<1>3. QED
  BY <1>1, <1>2 DEF NewestInv, Newest, NoNewer, Held

\* A poll time that passes the gate is the age of something held.
LEMMA HeldGate ==
  ASSUME Base, NEW a, NEW t \in Threads, NEW d \in Data,
         Gates(t, pollTimeForUID(d)), NoNewer(a, d)
  PROVE  thread'[t].pc = "reading" => a <= thread'[t].poll
<1>1. pollTimeForUID(d) \in 0..Stale => d # None /\ pollTimeForUID(d) = d.age
  BY PollAge, Copies, AgeSets, Numbers
<1>2. thread'[t].pc = "reading" =>
        thread'[t].poll = pollTimeForUID(d) /\ pollTimeForUID(d) \in 0..Stale
  BY DEF Gates
<1>3. QED
  BY <1>1, <1>2 DEF NoNewer

\* Everything that is held grows older together.
LEMMA HeldTick ==
  ASSUME Base, Tick, NEW a \in Ages, Held(a, cache.value, thread), NEW b \in Ages, b <= Older(a)
  PROVE  Held(b, cache'.value, thread')
<1>1. \A c \in Ages : a <= c => b <= Older(c)
  <2>1. ASSUME NEW c \in Ages, a <= c PROVE b <= Older(c)
    <3>1. Older(a) <= Older(c) /\ Older(a) \in Nat /\ Older(c) \in Nat /\ b \in Nat
      BY <2>1, OlderAge, AgeSets
    <3>2. QED
      BY <3>1
  <2>2. QED
    BY <2>1
<1>2. NoNewer(b, cache'.value)
  <2>1. CASE cache'.value = None
    BY <2>1 DEF NoNewer
  <2>2. CASE cache'.value = OlderData(cache.value)
    <3>1. cache.value \in Data /\ NoNewer(a, cache.value)
      BY Copies DEF Held
    <3>2. cache.value # None =>
            cache.value.age \in Ages /\ OlderData(cache.value).age = Older(cache.value.age)
      BY <3>1, OlderOf, AgeSets
    <3>3. OlderData(cache.value) # None => cache.value # None
      BY OlderOf
    <3>4. QED
      BY <1>1, <2>2, <3>1, <3>2, <3>3 DEF NoNewer
  <2>3. QED
    BY <2>1, <2>2, TickFacts
<1>3. \A t \in Threads : thread'[t].pc # "store"
  BY TickFacts
<1>4. ASSUME NEW t \in Threads, thread'[t].pc = "reading" PROVE b <= thread'[t].poll
  <2>1. thread[t].pc = "reading" /\ thread'[t].poll = Older(thread[t].poll)
    BY <1>4, TickFacts
  <2>2. thread[t].poll \in Ages /\ a <= thread[t].poll
    BY <2>1, ThreadTypes DEF Held, Base, TypeOK
  <2>3. QED
    BY <1>1, <2>1, <2>2
<1>5. QED
  BY <1>2, <1>3, <1>4 DEF Held

LEMMA NextNewest == NewestInv /\ [Next]_vars => NewestInv'
<1> SUFFICES ASSUME NewestInv, [Next]_vars PROVE NewestInv'
  OBVIOUS
<1>0. Base /\ Base' /\ Newest
  BY NextBase DEF NewestInv
<1>1. CASE Read
  <2>1. /\ UNCHANGED <<hwinfo, service, cache, thread, last, shown>>
        /\ batch'.data # None => batch'.data.age = hwinfo.age
        /\ hwinfo.age \in Nat
    BY <1>0, <1>1, ReadFacts, Copies, AgeSets
  <2>2. QED
    BY <1>0, <2>1 DEF NewestInv, Newest, NoNewer
<1>2. CASE Recv
  <2>1. /\ UNCHANGED <<hwinfo, cache, thread, last, shown>>
        /\ batch'.data = None /\ service' \in {service, batch.data}
    BY <1>0, <1>2, RecvFacts
  <2>2. QED
    BY <1>0, <2>1 DEF NewestInv, Newest, NoNewer
<1>3. CASE Launch \/ Crash \/ Hang \/ Restart
  <2>1. /\ UNCHANGED <<hwinfo, cache, thread, last, shown>>
        /\ (service' = None /\ batch'.data = None) \/ UNCHANGED <<service, batch>>
    BY <1>0, <1>3, BridgeFacts
  <2>2. QED
    BY <1>0, <2>1 DEF NewestInv, Newest, NoNewer
<1>4. ASSUME NEW s \in {"live", "frozen", "dead", "gone"}, Change(s) PROVE NewestInv'
  <2>1. /\ UNCHANGED <<batch, service, cache, thread, last, shown>>
        /\ hwinfo'.age <= hwinfo.age /\ hwinfo.age \in Ages /\ hwinfo'.age \in Ages
    BY <1>0, <1>4, ChangeFacts, Copies DEF Base, TypeOK
  <2>2. \A x \in Ages : hwinfo.age <= x => hwinfo'.age <= x
    <3>1. \A a, b, x \in Nat : b <= a /\ a <= x => b <= x
      OBVIOUS
    <3>2. QED
      BY <2>1, <3>1, AgeSets
  <2>3. \A d \in Data : NoNewer(hwinfo.age, d) => NoNewer(hwinfo'.age, d)
    BY <2>2, AgeSets DEF NoNewer
  <2>4. Held(hwinfo'.age, cache.value, thread)
    <3>1. /\ cache.value \in Data
          /\ \A t \in Threads : /\ thread[t].answer \in Data
                                /\ thread[t].pc = "reading" => thread[t].poll \in Ages
      BY <1>0, Copies, ThreadTypes DEF Base, TypeOK
    <3>2. QED
      BY <1>0, <2>2, <2>3, <3>1 DEF Held, Newest
  <2>5. QED
    BY <1>0, <2>1, <2>3, <2>4, Copies DEF NewestInv, Newest
<1>5. ASSUME NEW t \in Threads, Look(t) \/ Store(t) PROVE NewestInv'
  <2>1. /\ UNCHANGED <<hwinfo, batch, service>>
        /\ \/ shown' = None /\ last' = None
           \/ shown' = shown /\ last' = last
    BY <1>0, <1>5, LookFacts, StoreFacts DEF Works, Gates
  <2>2. ASSUME NEW a, Held(a, cache.value, thread) PROVE Held(a, cache'.value, thread')
    <3>1. CASE Look(t) /\ Gates(t, None)
      <4>1. /\ cache' = cache /\ thread'[t].pc = "idle"
            /\ \A u \in Threads \ {t} : thread'[u] = thread[u]
        BY <1>0, <3>1, LookFacts, AgeSets, Numbers DEF Gates
      <4>2. QED
        BY <2>2, <4>1 DEF Held
    <3>2. CASE Look(t) /\ Gates(t, pollTimeForUID(cache.value))
      <4>1. /\ cache' = cache /\ thread'[t].pc # "store"
            /\ \A u \in Threads \ {t} : thread'[u] = thread[u]
        BY <1>0, <3>2, LookFacts DEF Gates
      <4>2. thread'[t].pc = "reading" => a <= thread'[t].poll
        BY <1>0, <2>2, <3>2, HeldGate, Copies DEF Held
      <4>3. QED
        BY <2>2, <4>1, <4>2 DEF Held
    <3>3. CASE /\ Look(t)
               /\ \A u \in Threads : /\ thread'[u].pc = IF u = t THEN "call" ELSE thread[u].pc
                                     /\ thread'[u].answer = thread[u].answer
                                     /\ thread'[u].poll = thread[u].poll
      <4>1. cache' = cache
        BY <1>0, <3>3, LookFacts
      <4>2. QED
        BY <2>2, <3>3, <4>1 DEF Held
    <3>4. CASE Store(t)
      <4>1. /\ thread[t].pc = "store" /\ cache'.value = thread[t].answer
            /\ Gates(t, pollTimeForUID(thread[t].answer)) /\ thread'[t].pc # "store"
            /\ \A u \in Threads \ {t} : thread'[u] = thread[u]
        BY <1>0, <3>4, StoreFacts DEF Gates
      <4>2. NoNewer(a, thread[t].answer) /\ thread[t].answer \in Data
        BY <1>0, <2>2, <4>1, ThreadTypes DEF Held, Base
      <4>3. thread'[t].pc = "reading" => a <= thread'[t].poll
        BY <1>0, <4>1, <4>2, HeldGate
      <4>4. QED
        BY <2>2, <4>1, <4>2, <4>3 DEF Held
    <3>5. QED
      BY <1>0, <1>5, <3>1, <3>2, <3>3, <3>4, LookFacts
  <2>3. QED
    BY <1>0, <2>1, <2>2 DEF NewestInv, Newest
<1>6. ASSUME NEW t \in Threads, Call(t) PROVE NewestInv'
  <2>1. /\ UNCHANGED <<hwinfo, batch, service, cache, shown, last>>
        /\ thread'[t].pc = "store" /\ thread'[t].answer \in {service, None}
        /\ \A u \in Threads \ {t} : thread'[u] = thread[u]
    BY <1>0, <1>6, CallFacts DEF Works
  <2>2. ASSUME NEW a, Held(a, cache.value, thread), NoNewer(a, service)
        PROVE  Held(a, cache'.value, thread')
    <3>1. NoNewer(a, thread'[t].answer) /\ thread'[t].pc # "reading"
      BY <2>1, <2>2 DEF NoNewer
    <3>2. NoNewer(a, cache'.value)
      BY <2>1, <2>2 DEF Held
    <3>3. \A u \in Threads \ {t} : /\ thread'[u].pc = "store" => NoNewer(a, thread'[u].answer)
                                   /\ thread'[u].pc = "reading" => a <= thread'[u].poll
      BY <2>1, <2>2 DEF Held
    <3>4. QED
      BY <3>1, <3>2, <3>3 DEF Held
  <2>3. service # None => NoNewer(service.age, service)
    <3>1. service # None => service.age \in Nat
      BY <1>0, Copies, AgeSets
    <3>2. QED
      BY <3>1 DEF NoNewer
  <2>4. QED
    BY <1>0, <2>1, <2>2, <2>3 DEF NewestInv, Newest
<1>7. ASSUME NEW t \in Threads, Reading(t) PROVE NewestInv'
  <2>1. /\ UNCHANGED <<hwinfo, batch, service, cache>>
        /\ thread'[t].pc = "idle" /\ \A u \in Threads \ {t} : thread'[u] = thread[u]
    BY <1>0, <1>7, ReadingFacts DEF Works
  <2>2. \A a : Held(a, cache.value, thread) => Held(a, cache'.value, thread')
    BY <2>1 DEF Held
  <2>3. last' # None => shown' <= last'
    BY <1>0, <1>7, ReadingFacts DEF Newest, Held
  <2>4. QED
    BY <1>0, <2>1, <2>2, <2>3 DEF NewestInv, Newest
<1>8. CASE Fire \/ refreshAction
  <2>1. /\ UNCHANGED <<hwinfo, batch, service, cache, shown, last>>
        /\ \A u \in Threads : thread'[u] = thread[u] \/ thread'[u].pc = "look"
    BY <1>0, <1>8, FireFacts, RefreshFacts DEF Threads
  <2>2. \A a : Held(a, cache.value, thread) => Held(a, cache'.value, thread')
    BY <2>1 DEF Held
  <2>3. QED
    BY <1>0, <2>1, <2>2 DEF NewestInv, Newest
<1>9. CASE Tick
  <2>1. /\ hwinfo'.age \in Ages /\ hwinfo'.age <= Older(hwinfo.age)
        /\ batch'.data = OlderData(batch.data) /\ service' = OlderData(service)
        /\ last' = Older(last) /\ shown' = Older(shown)
    BY <1>0, <1>9, TickFacts DEF Base, TypeOK
  <2>2. ASSUME NEW a \in Ages, NEW b \in Ages, b <= Older(a), NEW d \in Data, NoNewer(a, d)
        PROVE  NoNewer(b, OlderData(d))
    <3>1. SUFFICES ASSUME d # None PROVE b <= OlderData(d).age
      BY OlderOf DEF NoNewer
    <3>2. /\ OlderData(d).age = Older(d.age) /\ d.age \in Ages /\ a <= d.age
      BY <2>2, <3>1, OlderOf, AgeSets DEF NoNewer
    <3>3. Older(a) <= Older(d.age) /\ Older(a) \in Nat /\ Older(d.age) \in Nat /\ b \in Nat
      BY <3>2, OlderAge, AgeSets
    <3>4. QED
      BY <2>2, <3>2, <3>3
  <2>3. \A a, b \in Ages : Held(a, cache.value, thread) /\ b <= Older(a)
                             => Held(b, cache'.value, thread')
    BY <1>0, <1>9, HeldTick
  <2>4. \A d \in Data : OlderData(d) # None => /\ d # None /\ d.age \in Ages
                                              /\ OlderData(d).age \in Ages
                                              /\ OlderData(d).age <= Older(d.age)
    BY OlderOf, AgeSets, OlderAge
  <2>5. hwinfo.age \in Ages /\ batch.data \in Data /\ service \in Data
    BY <1>0, Copies
  <2>6. /\ NoNewer(hwinfo'.age, batch'.data) /\ NoNewer(hwinfo'.age, service')
        /\ Held(hwinfo'.age, cache'.value, thread')
    BY <1>0, <2>1, <2>2, <2>3, <2>5 DEF Newest
  <2>7. batch'.data # None =>
          NoNewer(batch'.data.age, service') /\ Held(batch'.data.age, cache'.value, thread')
    BY <1>0, <2>1, <2>2, <2>3, <2>4, <2>5 DEF Newest
  <2>8. service' # None => Held(service'.age, cache'.value, thread')
    BY <1>0, <2>1, <2>3, <2>4, <2>5 DEF Newest
  <2>9. last' # None => shown' <= last'
    <3>1. SUFFICES ASSUME last # None PROVE Older(shown) <= Older(last)
      BY <2>1, OlderAge
    <3>2. last \in Ages /\ shown \in Ages /\ shown <= last
      BY <1>0, <3>1, Numbers DEF Newest, Base, Shaped
    <3>3. QED
      BY <3>2, OlderAge
  <2>10. QED
    BY <1>0, <2>6, <2>7, <2>8, <2>9 DEF NewestInv, Newest
<1>10. CASE UNCHANGED vars
  BY <1>0, <1>10 DEF NewestInv, Newest, vars, process, tile
<1>11. QED
  BY <1>1, <1>2, <1>3, <1>4, <1>5, <1>6, <1>7, <1>8, <1>9, <1>10, Kinds

-----------------------------------------------------------------------------
(* KeepsUp, second part: a read of a polled machine is recent, and what    *)
(* was asked after it is too.                                              *)

Present(d) == d # None /\ d.live

Kept == bridge = "up" /\ hwinfo.status = "live"

LiveData ==
  Kept =>
    /\ since > Period => Present(service) /\ service.age <= Period + Grain
    /\ since + readIn > Period =>
         /\ batch.full => Present(batch.data) /\ batch.data.age <= Grain
         /\ ~batch.full => Present(service) /\ service.age + readIn <= Period + Grain
    /\ cache.age # None /\ since > cache.age + Period =>
         Present(cache.value) /\ cache.value.age <= Period + cache.age + Grain
    /\ \A t \in Threads :
         thread[t].pc = "store" /\ since > Period =>
           Present(thread[t].answer) /\ thread[t].answer.age <= Period + Grain

LiveInv == Base /\ LiveData

LEMMA LiveReset ==
  ASSUME Base', since' = 0
  PROVE  LiveInv'
<1>1. /\ readIn' \in Nat /\ readIn' <= Period /\ Period \in Nat
      /\ cache'.age # None => cache'.age \in Nat
  <2>1. /\ interval' \in Intervals /\ readIn' \in 0..Period
        /\ cache'.age \in 0 .. ttl' - 1 \cup {None}
        /\ ttl' = pollTimeCacheTTLForInterval(interval')
    BY DEF Base, TypeOK, ttl
  <2>2. ttl' \in Nat \ {0} /\ Period \in Nat \ {0}
    BY <2>1, Times
  <2> HIDE DEF ttl
  <2>3. QED
    BY <2>1, <2>2
<1>2. \A c, r, p \in Nat : r <= p => ~(0 + r > p) /\ ~(0 > c + p) /\ ~(0 > p)
  OBVIOUS
<1>3. LiveData'
  BY <1>1, <1>2 DEF LiveData
<1>4. QED
  BY <1>3 DEF LiveInv

LEMMA InitLive == Init => LiveInv
<1> SUFFICES ASSUME Init PROVE LiveInv
  OBVIOUS
<1>1. Base /\ ~Kept
  BY InitBase DEF Init, Kept
<1>2. QED
  BY <1>1 DEF LiveInv, LiveData

LEMMA NextLive == LiveInv /\ [Next]_vars => LiveInv'
<1> SUFFICES ASSUME LiveInv, [Next]_vars PROVE LiveInv'
  OBVIOUS
<1>0. Base /\ Base' /\ LiveData
  BY NextBase DEF LiveInv
<1>1. CASE Read
  <2>1. /\ (Kept' <=> Kept)
        /\ UNCHANGED <<service, cache, thread, since>>
    BY <1>0, <1>1, ReadFacts DEF Kept
  <2>2. Kept => batch'.full /\ Present(batch'.data) /\ batch'.data.age <= Grain
    BY <1>0, <1>1, ReadFacts DEF Kept, Present, Base, Shaped
  <2>3. LiveData'
    BY <1>0, <2>1, <2>2 DEF LiveData, Present
  <2>4. QED
    BY <1>0, <2>3 DEF LiveInv
<1>2. CASE Recv
  <2>1. /\ (Kept' <=> Kept) /\ ~batch'.full
        /\ UNCHANGED <<readIn, cache, thread, since>>
    BY <1>0, <1>2, RecvFacts DEF Kept
  <2>2. Kept /\ since > 0 =>
          Present(service') /\ service'.age <= Grain /\ service'.age \in Nat
    <3>1. Kept /\ since > 0 => Present(batch.data) /\ batch.data.age <= Grain
      BY <1>0, <1>2, RecvFacts, Numbers DEF LiveData, Kept
    <3>2. Present(batch.data) => service' = batch.data /\ batch.data.age \in Nat
      BY <1>0, <1>2, RecvFacts, Copies, AgeSets DEF Present
    <3>3. QED
      BY <3>1, <3>2
  <2>3. since > Period => since > 0
    BY <1>0, Numbers
  <2>4. since + readIn > Period => since > 0
    BY <1>0, Numbers
  <2>5. \A a \in Nat : a <= Grain => a <= Period + Grain /\ a + readIn <= Period + Grain
    BY <1>0, Numbers
  <2>6. LiveData'
    BY <1>0, <2>1, <2>2, <2>3, <2>4, <2>5 DEF LiveData, Present
  <2>7. QED
    BY <1>0, <2>6 DEF LiveInv
<1>3. CASE Launch \/ Crash \/ Hang \/ Restart
  BY <1>0, <1>3, BridgeFacts, LiveReset
<1>4. ASSUME NEW s \in {"live", "frozen", "dead", "gone"}, Change(s) PROVE LiveInv'
  BY <1>0, <1>4, ChangeFacts, LiveReset
<1>5. ASSUME NEW t \in Threads, Look(t) \/ Reading(t) PROVE LiveInv'
  <2>1. /\ (Kept' <=> Kept) /\ UNCHANGED <<batch, service, readIn, cache, since>>
        /\ \A u \in Threads : thread'[u].pc = "store" =>
             thread[u].pc = "store" /\ thread'[u].answer = thread[u].answer
    <3>1. CASE Look(t)
      <4>1. /\ (Kept' <=> Kept) /\ UNCHANGED <<batch, service, readIn, cache, since>>
        BY <1>0, <3>1, LookFacts DEF Works, Kept
      <4>2. \A u \in Threads : thread'[u].pc = "store" =>
              thread[u].pc = "store" /\ thread'[u].answer = thread[u].answer
        BY <1>0, <3>1, LookFacts DEF Gates
      <4>3. QED
        BY <4>1, <4>2
    <3>2. CASE Reading(t)
      BY <1>0, <3>2, ReadingFacts DEF Works, Kept
    <3>3. QED
      BY <1>5, <3>1, <3>2
  <2>2. LiveData'
    BY <1>0, <2>1 DEF LiveData, Present
  <2>3. QED
    BY <1>0, <2>2 DEF LiveInv
<1>6. ASSUME NEW t \in Threads, Call(t) PROVE LiveInv'
  <2>1. /\ (Kept' <=> Kept) /\ UNCHANGED <<batch, service, readIn, cache, since>>
        /\ Kept => thread'[t].answer = service
        /\ \A u \in Threads \ {t} : thread'[u] = thread[u]
    BY <1>0, <1>6, CallFacts DEF Works, Kept
  <2>2. LiveData'
    BY <1>0, <2>1 DEF LiveData, Present
  <2>3. QED
    BY <1>0, <2>2 DEF LiveInv
<1>7. ASSUME NEW t \in Threads, Store(t) PROVE LiveInv'
  <2>1. /\ (Kept' <=> Kept) /\ UNCHANGED <<batch, service, readIn, since>>
        /\ thread[t].pc = "store" /\ cache'.value = thread[t].answer /\ cache'.age = 0
        /\ \A u \in Threads : thread'[u] = thread[u] \/ thread'[u].pc # "store"
    BY <1>0, <1>7, StoreFacts DEF Works, Kept, Gates
  <2>2. cache'.age + Period = Period /\ Period + cache'.age + Grain = Period + Grain
    BY <1>0, <2>1, Numbers
  <2>3. LiveData'
    BY <1>0, <2>1, <2>2 DEF LiveData, Present
  <2>4. QED
    BY <1>0, <2>3 DEF LiveInv
<1>8. CASE Fire \/ refreshAction
  <2>1. /\ (Kept' <=> Kept) /\ UNCHANGED <<batch, service, readIn, cache, since>>
        /\ \A u \in Threads : thread'[u] = thread[u] \/ thread'[u].pc = "look"
    BY <1>0, <1>8, FireFacts, RefreshFacts DEF Threads, Kept
  <2>2. LiveData'
    BY <1>0, <2>1 DEF LiveData, Present
  <2>3. QED
    BY <1>0, <2>2 DEF LiveInv
<1>9. CASE Tick
  <2>1. SUFFICES ASSUME Kept PROVE LiveData'
    BY <1>0, <1>9, TickFacts DEF LiveInv, LiveData, Kept
  <2>2. /\ since' <= since + 1 /\ since' \in Nat
        /\ bridge = "up" /\ ~batch.full /\ ~batch'.full /\ readIn > 0 /\ readIn' = readIn - 1
        /\ service' = OlderData(service)
        /\ \A t \in Threads : thread'[t].pc # "store"
    BY <1>0, <1>9, <2>1, TickFacts, Numbers DEF Kept
  <2>3. \A d \in Data : Present(d) =>
          /\ Present(OlderData(d)) /\ d.age \in Nat
          /\ OlderData(d).age \in Nat /\ OlderData(d).age <= d.age + 1
    BY OlderOf, OlderAge, AgeSets DEF Present
  <2>4. since' + readIn' > Period => Present(service') /\ service'.age + readIn' <= Period + Grain
    <3>1. SUFFICES ASSUME since' + readIn' > Period
                   PROVE  Present(service') /\ service'.age + readIn' <= Period + Grain
      OBVIOUS
    <3>2. since + readIn > Period
      BY <1>0, <2>2, <3>1, Numbers
    <3>3. Present(service) /\ service.age + readIn <= Period + Grain
      BY <1>0, <2>1, <2>2, <3>2 DEF LiveData
    <3>4. service \in Data
      BY <1>0, Copies
    <3>5. /\ Present(OlderData(service)) /\ service.age \in Nat
          /\ OlderData(service).age \in Nat /\ OlderData(service).age <= service.age + 1
      BY <2>3, <3>3, <3>4
    <3>6. QED
      BY <1>0, <2>2, <3>3, <3>5, Numbers
  <2>5. since' > Period => Present(service') /\ service'.age <= Period + Grain
    <3>1. SUFFICES ASSUME since' > Period PROVE Present(service') /\ service'.age <= Period + Grain
      OBVIOUS
    <3>2. since' + readIn' > Period
      BY <1>0, <2>2, <3>1, Numbers
    <3>3. Present(service') /\ service'.age + readIn' <= Period + Grain
      BY <2>4, <3>2
    <3>4. service'.age \in Nat
      BY <1>0, <3>3, AgeSets DEF Base, TypeOK, Present
    <3>5. QED
      BY <1>0, <2>2, <3>3, <3>4, Numbers
  <2>6. cache'.age # None /\ since' > cache'.age + Period =>
          Present(cache'.value) /\ cache'.value.age <= Period + cache'.age + Grain
    <3>1. SUFFICES ASSUME cache'.age # None, since' > cache'.age + Period
                   PROVE  Present(cache'.value) /\ cache'.value.age <= Period + cache'.age + Grain
      OBVIOUS
    <3>2. /\ cache.age \in Nat /\ cache'.age = cache.age + 1 /\ cache.age # None
          /\ cache'.value = OlderData(cache.value)
      BY <1>0, <1>9, <3>1, TickFacts, AgeSets, Numbers
    <3>3. since > cache.age + Period
      BY <1>0, <2>2, <3>1, <3>2, Numbers
    <3>4. Present(cache.value) /\ cache.value.age <= Period + cache.age + Grain
      BY <1>0, <2>1, <3>2, <3>3 DEF LiveData
    <3>5. cache.value \in Data
      BY <1>0, Copies
    <3>6. /\ Present(OlderData(cache.value)) /\ cache.value.age \in Nat
          /\ OlderData(cache.value).age \in Nat /\ OlderData(cache.value).age <= cache.value.age + 1
      BY <2>3, <3>4, <3>5
    <3>7. QED
      BY <1>0, <3>2, <3>4, <3>6, Numbers
  <2>7. QED
    BY <2>2, <2>4, <2>5, <2>6 DEF LiveData
<1>10. CASE UNCHANGED vars
  BY <1>0, <1>10 DEF LiveInv, LiveData, Present, Kept, vars, process
<1>11. QED
  BY <1>1, <1>2, <1>3, <1>4, <1>5, <1>6, <1>7, <1>8, <1>9, <1>10, Kinds

-----------------------------------------------------------------------------
(* KeepsUp, last part: a tile that is unavailable tries again after its    *)
(* time of rest, and one that is not is drawn anew by the next tick, or    *)
(* has shown the last poll time already.                                   *)

\* What a cache has kept for its time to live still counts as recent, however old the
\* poll times of a live machine may be.  The rate of ten seconds does not satisfy
\* this: half of it and a read are longer than five seconds.
Prompt ==
  \A i \in Intervals : Period + pollTimeCacheTTLForInterval(i) - 1 + Grain <= Stale

LiveNone ==
  Kept /\ shown = None =>
    \/ rest < Backoff /\ since <= rest + Seen
    \/ (rest = Backoff \/ thread["ticker"].pc # "idle") /\ Within(since, Seen + Backoff)

LiveShown ==
  Kept /\ shown # None => Within(since, Seen) \/ Within(shown, Seen + Grain)

KeepInv == NewestInv /\ LiveInv /\ LiveNone /\ LiveShown

\* Seen, as a number.
LEMMA SeenNumber ==
  ASSUME Base
  PROVE  /\ Seen \in Nat /\ Period <= Seen
         /\ \A a \in 0 .. ttl - 1 : Period + a <= Seen
BY Numbers DEF Seen

\* What was a moment ago is within any limit.
LEMMA WithinLimit ==
  ASSUME Base, NEW x \in Nat, NEW limit \in Nat, x <= limit
  PROVE  Within(x, limit)
BY Numbers DEF Within

LEMMA KeepReset ==
  ASSUME NewestInv', LiveInv', since' = 0
  PROVE  KeepInv'
<1>1. /\ interval' \in Nat /\ clock'.in \in Nat /\ clock'.in <= interval'
      /\ Backoff \in Nat /\ rest' \in Nat /\ (rest' < Backoff \/ rest' = Backoff)
      /\ Seen' \in Nat
  <2>1. /\ interval' \in Intervals /\ clock'.in \in 1..interval' /\ rest' \in 0..Backoff
        /\ ttl' = pollTimeCacheTTLForInterval(interval') /\ Seen' = Period + ttl' - 1
    BY DEF NewestInv, Base, TypeOK, ttl, Seen
  <2>2. ttl' \in Nat \ {0} /\ Period \in Nat \ {0} /\ interval' \in Nat /\ Backoff \in Nat
    BY <2>1, Times
  <2> HIDE DEF ttl, Seen
  <2>3. QED
    BY <2>1, <2>2
<1>2. \A i, c, n \in Nat : c <= i => 0 <= n /\ 0 <= n + i /\ 0 + c <= n + i
  OBVIOUS
<1>3. Seen' + Backoff \in Nat /\ 0 <= rest' + Seen'
  <2>1. \A n, b, r \in Nat : n + b \in Nat /\ 0 <= r + n
    OBVIOUS
  <2>2. QED
    BY <1>1, <2>1
<1>4. Within(since, Seen)' /\ Within(since, Seen + Backoff)'
  BY <1>1, <1>2, <1>3 DEF Within
<1>5. LiveNone' /\ LiveShown'
  BY <1>1, <1>3, <1>4 DEF LiveNone, LiveShown
<1>6. QED
  BY <1>5 DEF KeepInv

LEMMA InitKeep == Init => KeepInv
<1> SUFFICES ASSUME Init PROVE KeepInv
  OBVIOUS
<1>1. NewestInv /\ LiveInv /\ ~Kept
  BY InitNewest, InitLive DEF Init, Kept
<1>2. QED
  BY <1>1 DEF KeepInv, LiveNone, LiveShown

\* A polled machine passes the gate once a read and the time to live are over, and
\* with a recent poll time.
LEMMA KeepGate ==
  ASSUME KeepInv, Base', NEW t \in Threads, NEW poll, Works(t), Gates(t, poll),
         Kept /\ since > Seen => poll \in 0..Stale /\ poll <= Seen + Grain
  PROVE  LiveNone' /\ LiveShown'
<1>1. /\ Base /\ (Kept' <=> Kept) /\ Seen' = Seen /\ Seen \in Nat /\ since' = since
      /\ since \in Nat /\ Backoff \in Nat /\ rest' = rest /\ rest \in 0..Backoff
      /\ UNCHANGED <<interval, clock>>
  BY SeenNumber, Numbers DEF KeepInv, LiveInv, Works, Kept, Seen, ttl
<1>2. /\ \A u \in Threads \ {t} : thread'[u] = thread[u]
      /\ thread[t].pc # "idle"
  BY DEF Gates, Works
<1>3. CASE poll \notin 0..Stale /\ shown' = None
  <2>1. Kept => since <= Seen
    BY <1>1, <1>3
  <2>2. Kept => since <= rest + Seen /\ since <= Seen + Backoff
    BY <1>1, <2>1
  <2>3. Kept => Within(since, Seen + Backoff)'
    BY <1>1, <2>2, Numbers DEF Within
  <2>4. LiveNone'
    BY <1>1, <2>2, <2>3 DEF LiveNone
  <2>5. QED
    BY <1>3, <2>4 DEF LiveShown
<1>4. CASE poll \in 0..Stale /\ poll = last /\ UNCHANGED <<shown, last>>
  <2>1. /\ shown # None /\ shown <= poll /\ shown \in Nat /\ poll \in Nat
    <3>1. last # None
      BY <1>4, AgeSets, Numbers
    <3>2. shown # None /\ shown <= last
      BY <1>1, <3>1 DEF KeepInv, NewestInv, Newest, Base, Shaped
    <3>3. shown \in Nat
      BY <1>1, <3>2, Numbers, AgeSets
    <3>4. poll \in Nat /\ poll = last
      BY <1>1, <1>4, Numbers
    <3>5. QED
      BY <3>2, <3>3, <3>4
  <2>2. Kept => since <= Seen \/ shown <= Seen + Grain
    BY <1>1, <2>1, Numbers
  <2>3. Kept => Within(since, Seen)' \/ Within(shown, Seen + Grain)'
    BY <1>1, <1>4, <2>1, <2>2, Numbers DEF Within
  <2>4. QED
    BY <1>1, <1>4, <2>1, <2>3 DEF LiveNone, LiveShown
<1>5. CASE thread'[t].pc = "reading" /\ UNCHANGED <<shown, last>>
  <2>1. (Busy' <=> Busy) /\ (thread["ticker"].pc # "idle" => thread'["ticker"].pc # "idle")
    BY <1>1, <1>2, <1>5, Numbers DEF Busy
  <2>2. QED
    BY <1>1, <1>5, <2>1 DEF KeepInv, LiveNone, LiveShown, Within
<1>6. QED
  BY <1>3, <1>4, <1>5 DEF Gates

LEMMA NextKeep ==
  ASSUME Prompt
  PROVE  KeepInv /\ [Next]_vars => KeepInv'
<1> SUFFICES ASSUME KeepInv, [Next]_vars PROVE KeepInv'
  OBVIOUS
<1>0. /\ Base /\ Base' /\ NewestInv' /\ LiveInv' /\ LiveData
      /\ Seen \in Nat /\ Period <= Seen /\ Seen + Grain <= Stale
      /\ \A a \in 0 .. ttl - 1 : Period + a <= Seen
  <2>1. Base /\ LiveData /\ NewestInv' /\ LiveInv'
    BY NextNewest, NextLive DEF KeepInv, LiveInv
  <2>2. Seen + Grain <= Stale
    BY <2>1 DEF Prompt, Seen, ttl, Base, TypeOK
  <2>3. QED
    BY <2>1, <2>2, SeenNumber DEF LiveInv
<1>1. CASE Read \/ Recv \/ refreshAction
  <2>1. /\ (Kept' <=> Kept) /\ Seen' = Seen /\ thread'["ticker"] = thread["ticker"]
        /\ UNCHANGED <<interval, clock, since, rest, shown>>
    BY <1>0, <1>1, ReadFacts, RecvFacts, RefreshFacts DEF Kept, Seen, ttl
  <2>2. LiveNone' /\ LiveShown'
    BY <2>1 DEF KeepInv, LiveNone, LiveShown, Within, Busy
  <2>3. QED
    BY <1>0, <2>2 DEF KeepInv
<1>2. CASE Launch \/ Crash \/ Hang \/ Restart
  BY <1>0, <1>2, BridgeFacts, KeepReset
<1>3. ASSUME NEW s \in {"live", "frozen", "dead", "gone"}, Change(s) PROVE KeepInv'
  BY <1>0, <1>3, ChangeFacts, KeepReset
<1>4. ASSUME NEW t \in Threads, Look(t) PROVE KeepInv'
  <2>1. Works(t)
    BY <1>0, <1>4, LookFacts
  <2>2. CASE bridge = "none" /\ Gates(t, None)
    <3>1. ~Kept'
      BY <2>1, <2>2 DEF Works, Kept
    <3>2. QED
      BY <1>0, <3>1 DEF KeepInv, LiveNone, LiveShown
  <2>3. CASE cache.age # None /\ Gates(t, pollTimeForUID(cache.value))
    <3>1. Kept /\ since > Seen =>
            pollTimeForUID(cache.value) \in 0..Stale /\ pollTimeForUID(cache.value) <= Seen + Grain
      <4>1. SUFFICES ASSUME Kept, since > Seen
                     PROVE  /\ pollTimeForUID(cache.value) \in 0..Stale
                            /\ pollTimeForUID(cache.value) <= Seen + Grain
        OBVIOUS
      <4>2. cache.age \in 0 .. ttl - 1 /\ cache.age \in Nat /\ Period + cache.age <= Seen
        BY <1>0, <2>3, Numbers
      <4>3. since > cache.age + Period
        BY <1>0, <4>1, <4>2, Numbers
      <4>4. Present(cache.value) /\ cache.value.age <= Period + cache.age + Grain
        BY <1>0, <2>3, <4>1, <4>3 DEF LiveData
      <4>5. pollTimeForUID(cache.value) = cache.value.age /\ cache.value.age \in Nat
        BY <1>0, <4>4, Copies, PollAge, AgeSets DEF Present
      <4>6. QED
        BY <1>0, <4>2, <4>4, <4>5, Numbers
    <3>2. LiveNone' /\ LiveShown'
      BY <1>0, <2>1, <2>3, <3>1, KeepGate
    <3>3. QED
      BY <1>0, <3>2 DEF KeepInv
  <2>4. CASE /\ \A u \in Threads : thread'[u].pc = IF u = t THEN "call" ELSE thread[u].pc
             /\ thread[t].pc = "look" /\ UNCHANGED <<shown, last>>
    <3>1. /\ (Kept' <=> Kept) /\ Seen' = Seen /\ (Busy' <=> Busy)
          /\ UNCHANGED <<interval, clock, since, rest, shown>>
          /\ thread["ticker"].pc # "idle" => thread'["ticker"].pc # "idle"
      BY <1>0, <2>1, <2>4, Numbers DEF Kept, Seen, ttl, Works, Busy
    <3>2. LiveNone' /\ LiveShown'
      BY <3>1 DEF KeepInv, LiveNone, LiveShown, Within
    <3>3. QED
      BY <1>0, <3>2 DEF KeepInv
  <2>5. QED
    BY <1>0, <1>4, <2>2, <2>3, <2>4, LookFacts
<1>5. ASSUME NEW t \in Threads, Call(t) PROVE KeepInv'
  <2>1. /\ (Kept' <=> Kept) /\ Seen' = Seen /\ (Busy' <=> Busy)
        /\ UNCHANGED <<interval, clock, since, rest, shown>>
        /\ thread["ticker"].pc # "idle" => thread'["ticker"].pc # "idle"
    BY <1>0, <1>5, CallFacts, Numbers DEF Kept, Seen, ttl, Works, Busy
  <2>2. LiveNone' /\ LiveShown'
    BY <2>1 DEF KeepInv, LiveNone, LiveShown, Within
  <2>3. QED
    BY <1>0, <2>2 DEF KeepInv
<1>6. ASSUME NEW t \in Threads, Store(t) PROVE KeepInv'
  <2>1. /\ Works(t) /\ thread[t].pc = "store" /\ Gates(t, pollTimeForUID(thread[t].answer))
        /\ thread[t].answer \in Data
    BY <1>0, <1>6, StoreFacts, ThreadTypes DEF Base
  <2>2. Kept /\ since > Seen =>
          /\ pollTimeForUID(thread[t].answer) \in 0..Stale
          /\ pollTimeForUID(thread[t].answer) <= Seen + Grain
    <3>1. SUFFICES ASSUME Kept, since > Seen
                   PROVE  /\ pollTimeForUID(thread[t].answer) \in 0..Stale
                          /\ pollTimeForUID(thread[t].answer) <= Seen + Grain
      OBVIOUS
    <3>2. since > Period
      BY <1>0, <3>1, Numbers
    <3>3. Present(thread[t].answer) /\ thread[t].answer.age <= Period + Grain
      BY <1>0, <2>1, <3>1, <3>2 DEF LiveData
    <3>4. /\ pollTimeForUID(thread[t].answer) = thread[t].answer.age
          /\ thread[t].answer.age \in Nat
      BY <1>0, <2>1, <3>3, Copies, PollAge, AgeSets DEF Present
    <3>5. QED
      BY <1>0, <3>3, <3>4, Numbers
  <2>3. LiveNone' /\ LiveShown'
    BY <1>0, <2>1, <2>2, KeepGate
  <2>4. QED
    BY <1>0, <2>3 DEF KeepInv
<1>7. ASSUME NEW t \in Threads, Reading(t) PROVE KeepInv'
  <2>1. /\ (Kept' <=> Kept) /\ Seen' = Seen
        /\ UNCHANGED <<interval, clock, since, rest, service, bridge>>
    BY <1>0, <1>7, ReadingFacts DEF Works, Kept, Seen, ttl
  <2>2. since \in Nat /\ Period \in Nat /\ Seen \in Nat /\ Backoff \in Nat /\ rest \in Nat
        /\ (rest < Backoff \/ rest = Backoff) /\ Seen + Backoff \in Nat
    BY <1>0, Numbers
  <2>3. Kept /\ since <= Seen => Within(since, Seen)' /\ Within(since, Seen + Backoff)'
    BY <1>0, <2>1, <2>2, Numbers DEF Within
  <2>4. CASE shown' = None
    <3>1. Kept => service = None
      BY <1>0, <1>7, <2>4, ReadingFacts, AgeSets DEF Kept
    <3>2. Kept => since <= Seen
      BY <1>0, <2>2, <3>1 DEF LiveData, Present
    <3>3. LiveNone'
      BY <2>1, <2>2, <2>3, <3>2 DEF LiveNone
    <3>4. LiveShown'
      BY <2>4 DEF LiveShown
    <3>5. QED
      BY <1>0, <3>3, <3>4 DEF KeepInv
  <2>5. CASE shown' # None
    <3>1. shown' = service.age /\ service.age \in Nat
      BY <1>0, <1>7, <2>5, ReadingFacts, AgeSets
    <3>2. Kept /\ ~(since <= Seen) => shown' <= Seen + Grain
      <4>1. Kept /\ since > Period => service.age <= Period + Grain
        BY <1>0 DEF LiveData
      <4>2. QED
        BY <1>0, <2>2, <3>1, <4>1, Numbers
    <3>3. Kept /\ ~(since <= Seen) => Within(shown, Seen + Grain)'
      BY <1>0, <2>1, <3>1, <3>2, Numbers DEF Within
    <3>4. LiveShown'
      BY <2>1, <2>3, <3>3 DEF LiveShown
    <3>5. LiveNone'
      BY <2>5 DEF LiveNone
    <3>6. QED
      BY <1>0, <3>4, <3>5 DEF KeepInv
  <2>6. QED
    BY <2>4, <2>5
<1>8. CASE Fire
  <2>1. /\ (Kept' <=> Kept) /\ Seen' = Seen /\ Busy
        /\ UNCHANGED <<interval, since, shown>> /\ clock'.in = clock.in
        /\ thread["ticker"].pc = "idle"
    BY <1>0, <1>8, FireFacts DEF Kept, Seen, ttl, Busy
  <2>2. CASE shown = None /\ rest < Backoff /\ UNCHANGED <<rest, thread>>
    <3>1. rest # Backoff
      BY <1>0, <2>2, Numbers
    <3>2. LiveNone'
      BY <2>1, <2>2, <3>1 DEF KeepInv, LiveNone
    <3>3. LiveShown'
      BY <2>1, <2>2 DEF LiveShown
    <3>4. QED
      BY <1>0, <3>2, <3>3 DEF KeepInv
  <2>3. CASE (shown # None \/ rest >= Backoff) /\ thread'["ticker"].pc = "look"
    <3>1. Busy'
      BY <2>3 DEF Busy
    <3>2. ~(rest < Backoff) \/ shown # None
      BY <1>0, <2>3, Numbers
    <3>3. LiveNone'
      BY <2>1, <2>3, <3>1, <3>2 DEF KeepInv, LiveNone, Within
    <3>4. LiveShown'
      BY <2>1, <3>1 DEF KeepInv, LiveShown, Within
    <3>5. QED
      BY <1>0, <3>3, <3>4 DEF KeepInv
  <2>4. QED
    BY <1>0, <1>8, <2>2, <2>3, FireFacts
<1>9. CASE Tick
  <2>1. /\ (Kept' <=> Kept) /\ Seen' = Seen /\ interval' = interval
        /\ since' <= since + 1 /\ since' \in Nat /\ since \in Nat
        /\ Backoff \in Nat \ {0} /\ interval \in Nat \ {0}
        /\ rest \in 0..Backoff /\ rest' = IF rest < Backoff THEN rest + 1 ELSE Backoff
    BY <1>0, <1>9, TickFacts, Numbers DEF Kept, Seen, ttl
  <2>2. Kept => /\ ~Busy /\ thread["ticker"].pc = "idle" /\ thread'["ticker"].pc = "idle"
    BY <1>0, <1>9, TickFacts, Numbers DEF Kept, Busy
  <2>3. /\ clock.in \in 1..interval
        /\ \/ clock.in = 1 /\ clock'.fired /\ clock'.in = interval
           \/ clock.in > 1 /\ clock'.fired = clock.fired /\ clock'.in = clock.in - 1
    BY <1>0, <1>9, TickFacts, Numbers
  <2>4. ASSUME Kept, NEW x \in Nat, NEW y \in Nat, NEW limit \in Nat, y <= x + 1,
               x + clock.in <= limit + interval
        PROVE  /\ Busy' => y <= limit + interval
               /\ ~Busy' => y + clock'.in <= limit + interval
    BY <2>1, <2>2, <2>3, <2>4 DEF Busy
  <2>5. LiveNone'
    <3>1. SUFFICES ASSUME Kept, shown' = None PROVE LiveNone'
      BY <2>1 DEF LiveNone
    <3>2. shown = None
      BY <1>0, <1>9, <3>1, TickFacts, OlderAge, Numbers
    <3>3. CASE rest < Backoff /\ since <= rest + Seen
      <4>1. CASE rest' < Backoff
        BY <1>0, <2>1, <3>3, <4>1 DEF LiveNone
      <4>2. CASE rest' = Backoff
        <5>1. since' <= Seen + Backoff /\ Seen + Backoff \in Nat
          BY <1>0, <2>1, <3>3, <4>2
        <5>2. clock'.in \in Nat /\ clock'.in <= interval
          BY <2>1, <2>3
        <5>3. /\ since' <= (Seen + Backoff) + interval
              /\ since' + clock'.in <= (Seen + Backoff) + interval
          BY <2>1, <5>1, <5>2
        <5>4. Within(since, Seen + Backoff)'
          BY <2>1, <5>3 DEF Within
        <5>5. QED
          BY <4>2, <5>4 DEF LiveNone
      <4>3. QED
        BY <2>1, <3>3, <4>1, <4>2
    <3>4. CASE rest = Backoff /\ Within(since, Seen + Backoff)
      <4>1. since + clock.in <= (Seen + Backoff) + interval /\ Seen + Backoff \in Nat
        BY <1>0, <2>1, <2>2, <3>1, <3>4 DEF Within
      <4>2. Within(since, Seen + Backoff)'
        BY <2>1, <2>4, <3>1, <4>1 DEF Within
      <4>3. rest' = Backoff
        BY <2>1, <3>4
      <4>4. QED
        BY <4>2, <4>3 DEF LiveNone
    <3>5. QED
      BY <2>2, <3>1, <3>2, <3>3, <3>4 DEF KeepInv, LiveNone
  <2>6. LiveShown'
    <3>1. SUFFICES ASSUME Kept, shown' # None
                   PROVE  Within(since, Seen)' \/ Within(shown, Seen + Grain)'
      BY <2>1 DEF LiveShown
    <3>2. /\ shown # None /\ shown \in Nat /\ shown' \in Nat /\ shown' <= shown + 1
      BY <1>0, <1>9, <3>1, TickFacts, OlderAge, Numbers, AgeSets
    <3>3. Within(since, Seen) \/ Within(shown, Seen + Grain)
      BY <3>1, <3>2 DEF KeepInv, LiveShown
    <3>4. since + clock.in <= Seen + interval \/ shown + clock.in <= (Seen + Grain) + interval
      BY <2>2, <3>1, <3>3 DEF Within
    <3>5. Seen + Grain \in Nat /\ Grain' = Grain
      BY <1>0, Numbers
    <3>6. CASE since + clock.in <= Seen + interval
      BY <1>0, <2>1, <2>4, <3>1, <3>6 DEF Within
    <3>7. CASE shown + clock.in <= (Seen + Grain) + interval
      <4>1. /\ Busy' => shown' <= (Seen + Grain) + interval
            /\ ~Busy' => shown' + clock'.in <= (Seen + Grain) + interval
        BY <2>4, <3>1, <3>2, <3>5, <3>7
      <4>2. QED
        BY <2>1, <3>5, <4>1 DEF Within
    <3>8. QED
      BY <3>4, <3>6, <3>7
  <2>7. QED
    BY <1>0, <2>5, <2>6 DEF KeepInv
<1>10. CASE UNCHANGED vars
  <2>1. /\ (Kept' <=> Kept) /\ Seen' = Seen
        /\ UNCHANGED <<interval, clock, since, rest, shown, thread>>
    BY <1>10 DEF Kept, Seen, ttl, vars, process, settings, tile
  <2>2. LiveNone' /\ LiveShown'
    BY <2>1 DEF KeepInv, LiveNone, LiveShown, Within, Busy
  <2>3. QED
    BY <1>0, <2>2 DEF KeepInv
<1>11. QED
  BY <1>1, <1>2, <1>3, <1>4, <1>5, <1>6, <1>7, <1>8, <1>9, <1>10, Kinds

LEMMA KeepImplies == KeepInv => KeepsUp
<1> SUFFICES ASSUME KeepInv, since >= Lag + Backoff, Kept
             PROVE  shown # None /\ shown <= Lag + Grain
  BY DEF KeepsUp, Kept
<1>1. Base /\ interval \in Intervals /\ Lag = Seen + 1 + interval /\ Seen \in Nat
  BY SeenNumber, Limits DEF KeepInv, LiveInv, Base, TypeOK, Seen
<1>2. ~Within(since, Seen) /\ ~Within(since, Seen + Backoff) /\ ~(since <= rest + Seen)
  BY <1>1, Numbers DEF Within
<1>3. shown # None
  BY <1>2 DEF KeepInv, LiveNone
<1>4. Within(shown, Seen + Grain)
  BY <1>2, <1>3 DEF KeepInv, LiveShown
<1>5. shown \in Nat
  BY <1>1, <1>3, Numbers, AgeSets
<1>6. QED
  BY <1>1, <1>3, <1>4, <1>5, Numbers DEF Within

\* A machine that is polled is on its tile again, with a recent reading, when a
\* read, a tick, the time to live of the cache and the time of rest of a tile in
\* error state have passed, provided that what the cache may keep still counts as
\* recent.
THEOREM KeepsUpWhenPrompt ==
  ASSUME Prompt
  PROVE  Spec => []KeepsUp
<1>1. KeepInv /\ [Next]_vars => KeepInv'
  BY NextKeep
<1>2. QED
  BY <1>1, InitKeep, KeepImplies, PTL DEF Spec
=============================================================================
