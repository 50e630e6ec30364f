------------------------ MODULE ThresholdState_proofs -----------------------
(***************************************************************************)
(* Theorems of ThresholdState and their proofs.                            *)
(***************************************************************************)
EXTENDS ThresholdState, TLAPS

-----------------------------------------------------------------------------
(* What the operators of Thresholds return and preserve.                   *)

LEMMA DurationType ==
  ASSUME NEW ms \in Int
  PROVE  thresholdDurationMs(ms) \in Nat
BY DEF thresholdDurationMs

LEMMA NoValueType == NoValue \in Int
BY DEF NoValue

LEMMA ZeroStateType == ZeroState \in StateType
<1>1. NoTime \in Nat
  BY DEF NoTime
<1>2. QED
  BY <1>1, NoValueType DEF ZeroState, StateType

LEMMA SnapshotType ==
  ASSUME NEW w \in StateType
  PROVE  resetThresholdSnapshot(w) \in StateType
BY NoValueType DEF resetThresholdSnapshot, StateType

LEMMA DeactivatedType ==
  ASSUME NEW w \in StateType, NEW t \in ThresholdType, NEW n \in Nat
  PROVE  Deactivated(t, w, n) \in StateType
<1>1. thresholdDurationMs(t.cooldownMs) \in Nat
  BY DurationType DEF ThresholdType
<1>2. (IF thresholdDurationMs(t.cooldownMs) > 0
       THEN n + thresholdDurationMs(t.cooldownMs) ELSE NoTime) \in Nat
  BY <1>1 DEF NoTime
<1>3. QED
  BY <1>2, SnapshotType DEF Deactivated, StateType, NoTime

LEMMA ActivatedType ==
  ASSUME NEW w \in StateType, NEW t
  PROVE  Activated(t, w) \in StateType
BY NoValueType DEF Activated, StateType, NoTime

LEMMA DwelledType ==
  ASSUME NEW w \in StateType, NEW t, NEW n \in Nat
  PROVE  Dwelled(t, w, n) \in StateType
BY ActivatedType DEF Dwelled, StateType

LEMMA EvaluateType ==
  ASSUME NEW v, NEW t \in ThresholdType, NEW s \in StateType, NEW n \in Nat
  PROVE  evaluateThresholdState(v, t, s, n) \in StateType
<1> DEFINE u == [s EXCEPT !.suppressedUntilClear = @ /\ ~thresholdClearConditionMet(v, t)]
<1>1. u \in StateType
  BY DEF StateType
<1> HIDE DEF u
<1>3. /\ [u EXCEPT !.pendingSince = NoTime] \in StateType
      /\ [u EXCEPT !.cooldownUntil = NoTime] \in StateType
      /\ [u EXCEPT !.cooldownUntil = NoTime, !.pendingSince = NoTime] \in StateType
  BY <1>1 DEF StateType, NoTime
<1>4. /\ Deactivated(t, u, n) \in StateType
      /\ Dwelled(t, [u EXCEPT !.cooldownUntil = NoTime], n) \in StateType
  BY <1>1, <1>3, DeactivatedType, DwelledType
<1>5. QED
  BY <1>1, <1>3, <1>4, ZeroStateType DEF evaluateThresholdState, u

LEMMA ClearStickyType ==
  ASSUME NEW w \in StateType
  PROVE  clearStickyThresholdState(w) \in StateType
BY SnapshotType DEF clearStickyThresholdState, StateType, NoTime

LEMMA DisplayedType ==
  ASSUME NEW w \in StateType, NEW v \in Int, NEW t
  PROVE  Displayed(v, t, w) \in StateType
BY DEF Displayed, StateType

LEMMA UpdatedType ==
  ASSUME TypeOK, NEW t \in Configs, NEW s \in StateType
  PROVE  Updated(t, s) \in StateType
<1>1. t \in ThresholdType /\ now \in Nat
  BY ConfigsAssumption DEF TypeOK
<1>2. CASE reading = Unavailable
  BY <1>2 DEF Updated
<1>3. CASE reading # Unavailable
  <2> DEFINE e == evaluateThresholdState(reading, t, s, now)
  <2>1. reading \in Int
    BY <1>3, ValuesAssumption DEF TypeOK
  <2>2. e \in StateType
    BY <1>1, EvaluateType
  <2>3. Displayed(reading, t, e) \in StateType
    BY <2>1, <2>2, DisplayedType
  <2>4. QED
    BY <1>3, <2>2, <2>3 DEF Updated
<1>4. QED
  BY <1>2, <1>3

LEMMA RecordType ==
  ASSUME TypeOK, NEW t \in Configs, NEW s, NEW m \in Nat, NEW q \in Nat,
         Record(t, s, m, q)
  PROVE  /\ matchedSince' \in Nat /\ quietUntil' \in Nat
         /\ seen' \subseteq Values
<1>1. now \in Nat /\ seen \subseteq Values /\ NoTime \in Nat
  BY DEF TypeOK, NoTime
<1>2. thresholdDurationMs(t.cooldownMs) \in Nat
  BY ConfigsAssumption, DurationType DEF ThresholdType
<1>3. CASE reading = Unavailable
  BY <1>1, <1>3 DEF Record
<1>4. CASE reading # Unavailable
  <2>1. reading \in Values
    BY <1>4 DEF TypeOK
  <2>2. now + thresholdDurationMs(t.cooldownMs) \in Nat
    BY <1>1, <1>2
  <2>4. matchedSince' \in Nat /\ quietUntil' \in Nat
    BY <1>1, <1>4, <2>2 DEF Record
  <2>5. seen' \subseteq Values
    BY <1>1, <1>4, <2>1 DEF Record
  <2>6. QED
    BY <2>4, <2>5
<1>5. QED
  BY <1>3, <1>4

LEMMA ForgetType ==
  Forget => /\ state' \in StateType
            /\ matchedSince' \in Nat /\ quietUntil' \in Nat
            /\ seen' \subseteq Values
<1>1. Forget => matchedSince' \in Nat /\ quietUntil' \in Nat
  BY DEF Forget, NoTime
<1>2. Forget => state' \in StateType /\ seen' \subseteq Values
  BY ZeroStateType DEF Forget
<1>3. QED
  BY <1>1, <1>2

-----------------------------------------------------------------------------
(* Type correctness.                                                       *)

\* Every variable keeps its type, for every set of settings and readings.
THEOREM TypeCorrect == Spec => []TypeOK
<1>1. Init => TypeOK
  <2>1. Init => now \in Nat \ {0} /\ matchedSince \in Nat /\ quietUntil \in Nat
    BY DEF Init, NoTime
  <2>2. Init => seen \subseteq Values
    BY DEF Init
  <2>3. QED
    BY <2>1, <2>2, ZeroStateType DEF Init, TypeOK
<1>2. TypeOK /\ [Next]_vars => TypeOK'
  <2> SUFFICES ASSUME TypeOK, [Next]_vars PROVE TypeOK'
    OBVIOUS
  <2>0. state \in StateType /\ ZeroState \in StateType /\ NoTime \in Nat /\ now \in Nat
    BY ZeroStateType DEF TypeOK, NoTime
  <2>a. 1 - era \in {0, 1}
    BY DEF TypeOK
  <2>1. CASE Tick
    BY <2>1 DEF Tick, history, TypeOK
  <2>2. ASSUME NEW v \in Values \cup {Unavailable}, Publish(v) PROVE TypeOK'
    BY <2>2 DEF Publish, TypeOK, history
  <2>3. CASE updateTiles
    BY <2>0, <2>3, UpdatedType, RecordType DEF updateTiles, TypeOK
  <2>4. CASE OnKeyDown
    <3>1. clearStickyThresholdState(state) \in StateType
      BY <2>0, ClearStickyType
    <3>2. QED
      BY <2>0, <2>4, <3>1, UpdatedType, RecordType DEF OnKeyDown, TypeOK
  <2>5. ASSUME NEW t \in Configs, handleThresholdUpdate(t) PROVE TypeOK'
    <3>1. /\ now \in Nat \ {0} /\ now' = now /\ reading' = reading /\ threshold' = t
          /\ scope' = scope
      BY <2>5 DEF handleThresholdUpdate, TypeOK
    <3>2. state' \in StateType /\ era' \in {0, 1}
      BY <2>0, <2>a, <2>5, UpdatedType DEF handleThresholdUpdate
    <3>3. matchedSince' \in Nat /\ quietUntil' \in Nat /\ seen' \subseteq Values
      BY <2>0, <2>5, RecordType DEF handleThresholdUpdate
    <3>4. QED
      BY <3>1, <3>2, <3>3 DEF TypeOK
  <2>6. ASSUME NEW t \in Configs, handleThresholdUpdateFails(t) PROVE TypeOK'
    BY <2>6, <2>a, ForgetType DEF handleThresholdUpdateFails, Forget, TypeOK
  <2>7. ASSUME NEW t \in Configs, handleGlobalThresholdUpdate(t) PROVE TypeOK'
    BY <2>7 DEF handleGlobalThresholdUpdate, history, TypeOK
  <2>8. CASE OnWillAppear
    BY <2>8, <2>a, ForgetType DEF OnWillAppear, Forget, TypeOK
  <2>9. CASE UNCHANGED vars
    BY <2>9 DEF vars, history, TypeOK
  <2>10. QED
    BY <2>1, <2>2, <2>3, <2>4, <2>5, <2>6, <2>7, <2>8, <2>9 DEF Next
<1>3. QED
  BY <1>1, <1>2, PTL DEF Spec

-----------------------------------------------------------------------------
(* The phases of an alert.                                                 *)

LEMMA CoherentDeactivated ==
  ASSUME NEW t, NEW s \in StateType, NEW n, Coherent(s), s.active
  PROVE  Coherent(Deactivated(t, s, n))
BY DEF Coherent, Deactivated, resetThresholdSnapshot, StateType

LEMMA CoherentDwelled ==
  ASSUME NEW t, NEW s \in StateType, NEW n, Coherent(s),
         ~s.active, ~s.suppressedUntilClear, s.cooldownUntil = NoTime
  PROVE  Coherent(Dwelled(t, s, n))
<1>1. Coherent([s EXCEPT !.pendingSince = n])
  BY DEF Coherent, StateType
<1>2. Coherent(Activated(t, s))
  BY DEF Coherent, Activated, StateType
<1>3. QED
  BY <1>1, <1>2 DEF Dwelled

LEMMA CoherentEvaluate ==
  ASSUME NEW v, NEW t, NEW s \in StateType, NEW n, Coherent(s)
  PROVE  Coherent(evaluateThresholdState(v, t, s, n))
<1> DEFINE clear == thresholdClearConditionMet(v, t)
           u == [s EXCEPT !.suppressedUntilClear = @ /\ ~clear]
           w == [u EXCEPT !.cooldownUntil = NoTime]
<1>1. u \in StateType /\ Coherent(u)
  BY DEF Coherent, StateType
<1> HIDE DEF u
<1>2. Coherent(ZeroState)
  BY DEF Coherent, ZeroState
<1>3. Coherent([u EXCEPT !.pendingSince = NoTime])
  BY <1>1 DEF Coherent, StateType
<1>4. Coherent([u EXCEPT !.cooldownUntil = NoTime, !.pendingSince = NoTime])
  BY <1>1 DEF Coherent, StateType
<1>5. u.active => Coherent(Deactivated(t, u, n))
  BY <1>1, CoherentDeactivated
<1>6. w \in StateType /\ Coherent(w)
  BY <1>1 DEF Coherent, StateType, NoTime
<1>7. ~u.suppressedUntilClear /\ ~u.active => Coherent(Dwelled(t, w, n))
  <2>1. w.cooldownUntil = NoTime /\ w.active = u.active
        /\ w.suppressedUntilClear = u.suppressedUntilClear
    BY <1>1 DEF StateType
  <2>2. QED
    BY <1>6, <2>1, CoherentDwelled
<1>8. QED
  BY <1>1, <1>2, <1>3, <1>4, <1>5, <1>7 DEF evaluateThresholdState, u

LEMMA CoherentClearSticky ==
  ASSUME NEW s \in StateType, Coherent(s)
  PROVE  Coherent(clearStickyThresholdState(s))
BY DEF Coherent, clearStickyThresholdState, resetThresholdSnapshot, StateType

LEMMA CoherentUpdated ==
  ASSUME NEW t, NEW s \in StateType, Coherent(s)
  PROVE  Coherent(Updated(t, s))
<1> DEFINE e == evaluateThresholdState(reading, t, s, now)
<1>1. Coherent(e)
  BY CoherentEvaluate
<1>2. Coherent(Displayed(reading, t, e))
  BY <1>1 DEF Coherent, Displayed
<1>3. QED
  BY <1>1, <1>2 DEF Updated

\* No alert is ever latched without being active, timed while it alerts, or
\* both suppressed and shown, for every set of settings and readings, and
\* whether the threshold is the tile's or the library's.
THEOREM PhasesExclude == Spec => []OnePhase
<1>1. Coherent(ZeroState)
  BY DEF Coherent, ZeroState
<1>2. Init => OnePhase
  BY <1>1 DEF Init, OnePhase
<1>3. TypeOK /\ OnePhase /\ [Next]_vars => OnePhase'
  <2> SUFFICES ASSUME TypeOK, Coherent(state), [Next]_vars PROVE Coherent(state')
    BY DEF OnePhase
  <2>0. state \in StateType /\ ZeroState \in StateType
    BY ZeroStateType DEF TypeOK
  <2>1. CASE UNCHANGED state
    BY <2>1
  <2>2. CASE updateTiles
    BY <2>0, <2>2, CoherentUpdated DEF updateTiles
  <2>3. CASE OnKeyDown
    BY <2>0, <2>3, ClearStickyType, CoherentClearSticky, CoherentUpdated DEF OnKeyDown
  <2>4. ASSUME NEW t, handleThresholdUpdate(t) PROVE Coherent(state')
    BY <1>1, <2>0, <2>4, CoherentUpdated DEF handleThresholdUpdate
  <2>5. CASE Forget
    BY <1>1, <2>5 DEF Forget
  <2>6. QED
    BY <2>1, <2>2, <2>3, <2>4, <2>5
    DEF Next, Tick, Publish, handleThresholdUpdateFails, handleGlobalThresholdUpdate,
        OnWillAppear, vars, history
<1>4. QED
  BY <1>2, <1>3, TypeCorrect, PTL DEF Spec

-----------------------------------------------------------------------------
(* What one evaluation does to the flags and timers of a coherent state.   *)

Off(t) == ~t.enabled \/ t.operator = NoOperator

\* The state is as s in everything but its snapshot.
SameFlags(e, s) ==
  /\ e.active = s.active /\ e.latched = s.latched
  /\ e.suppressedUntilClear = s.suppressedUntilClear
  /\ e.pendingSince = s.pendingSince /\ e.cooldownUntil = s.cooldownUntil

\* e neither alerts nor is suppressed; p and c are its timers.
IdleWith(e, p, c) ==
  /\ ~e.active /\ ~e.latched /\ ~e.suppressedUntilClear
  /\ e.pendingSince = p /\ e.cooldownUntil = c

RaisedBy(t, e) ==
  /\ e.active /\ e.latched = t.sticky /\ ~e.suppressedUntilClear
  /\ e.pendingSince = NoTime /\ e.cooldownUntil = NoTime

LEMMA EvaluateAlerting ==
  ASSUME NEW v, NEW t \in ThresholdType, NEW s \in StateType, NEW n \in Nat,
         Coherent(s), ~Off(t)
  PROVE  LET e == evaluateThresholdState(v, t, s, n)
             clear == thresholdClearConditionMet(v, t)
             cooldown == thresholdDurationMs(t.cooldownMs)
         IN  /\ s.latched => SameFlags(e, s)
             /\ s.active /\ ~clear => SameFlags(e, s)
             /\ s.active /\ ~s.latched /\ clear =>
                  IdleWith(e, NoTime, IF cooldown > 0 THEN n + cooldown ELSE NoTime)
             /\ s.suppressedUntilClear /\ ~clear => SameFlags(e, s)
<1> DEFINE clear == thresholdClearConditionMet(v, t)
           u == [s EXCEPT !.suppressedUntilClear = @ /\ ~clear]
<1>1. /\ u \in StateType
      /\ u.active = s.active /\ u.latched = s.latched
      /\ u.pendingSince = s.pendingSince /\ u.cooldownUntil = s.cooldownUntil
      /\ u.suppressedUntilClear <=> s.suppressedUntilClear /\ ~clear
  BY DEF StateType
<1>2. u.suppressedUntilClear \in BOOLEAN /\ s.suppressedUntilClear \in BOOLEAN
  BY <1>1 DEF StateType
<1> HIDE DEF u
<1>3. CASE s.active
  <2>1. ~u.suppressedUntilClear /\ ~s.suppressedUntilClear
    BY <1>1, <1>3 DEF Coherent
  <2>2. s.latched \/ ~clear => evaluateThresholdState(v, t, s, n) = u
    BY <1>1, <1>3, <2>1 DEF evaluateThresholdState, Off, u
  <2>3. ~s.latched /\ clear => evaluateThresholdState(v, t, s, n) = Deactivated(t, u, n)
    BY <1>1, <1>3, <2>1 DEF evaluateThresholdState, Off, u
  <2>4. SameFlags(u, s)
    BY <1>1, <1>2, <2>1 DEF SameFlags
  <2>5. IdleWith(Deactivated(t, u, n), NoTime,
                 IF thresholdDurationMs(t.cooldownMs) > 0
                 THEN n + thresholdDurationMs(t.cooldownMs) ELSE NoTime)
    BY <1>1, <2>1 DEF IdleWith, Deactivated, resetThresholdSnapshot, StateType
  <2>6. QED
    BY <1>3, <2>1, <2>2, <2>3, <2>4, <2>5
<1>4. CASE ~s.active /\ s.suppressedUntilClear /\ ~clear
  <2>1. evaluateThresholdState(v, t, s, n) = [u EXCEPT !.pendingSince = NoTime]
    BY <1>1, <1>4 DEF evaluateThresholdState, Off, u
  <2>2. SameFlags([u EXCEPT !.pendingSince = NoTime], s)
    BY <1>1, <1>2, <1>4 DEF SameFlags, Coherent, StateType
  <2>3. QED
    BY <1>4, <2>1, <2>2 DEF Coherent
<1>5. QED
  BY <1>3, <1>4 DEF Coherent

LEMMA EvaluateIdle ==
  ASSUME NEW v, NEW t \in ThresholdType, NEW s \in StateType, NEW n \in Nat,
         Coherent(s), ~Off(t), ~s.active,
         s.suppressedUntilClear => thresholdClearConditionMet(v, t)
  PROVE  LET e == evaluateThresholdState(v, t, s, n)
             dwell == thresholdDurationMs(t.dwellMs)
             matches == evaluateThreshold(v, t)
         IN  IF n < s.cooldownUntil THEN IdleWith(e, NoTime, s.cooldownUntil)
             ELSE IF ~matches THEN IdleWith(e, NoTime, NoTime)
             ELSE IF dwell > 0 /\ s.pendingSince = NoTime THEN IdleWith(e, n, NoTime)
             ELSE IF dwell > 0 /\ n - s.pendingSince < dwell
             THEN IdleWith(e, s.pendingSince, NoTime)
             ELSE RaisedBy(t, e)
<1> DEFINE clear == thresholdClearConditionMet(v, t)
           u == [s EXCEPT !.suppressedUntilClear = @ /\ ~clear]
           w == [u EXCEPT !.cooldownUntil = NoTime]
<1>1. /\ u \in StateType
      /\ ~u.active /\ ~u.latched /\ ~u.suppressedUntilClear
      /\ u.pendingSince = s.pendingSince /\ u.cooldownUntil = s.cooldownUntil
  BY DEF StateType, Coherent
<1> HIDE DEF u
<1>2. /\ ~w.active /\ ~w.latched /\ ~w.suppressedUntilClear
      /\ w.pendingSince = s.pendingSince /\ w.cooldownUntil = NoTime
      /\ w \in StateType
  BY <1>1 DEF StateType, NoTime
<1>3. /\ IdleWith([u EXCEPT !.pendingSince = NoTime], NoTime, s.cooldownUntil)
      /\ IdleWith([u EXCEPT !.cooldownUntil = NoTime, !.pendingSince = NoTime], NoTime, NoTime)
  BY <1>1 DEF IdleWith, StateType
<1> HIDE DEF w
<1>4. /\ IdleWith([w EXCEPT !.pendingSince = n], n, NoTime)
      /\ IdleWith(w, s.pendingSince, NoTime)
  BY <1>2 DEF IdleWith, StateType
<1>5. RaisedBy(t, Activated(t, w))
  BY <1>2 DEF RaisedBy, Activated, StateType, ThresholdType
<1>6. evaluateThresholdState(v, t, s, n) =
        IF n < s.cooldownUntil THEN [u EXCEPT !.pendingSince = NoTime]
        ELSE IF evaluateThreshold(v, t) THEN Dwelled(t, w, n)
        ELSE [u EXCEPT !.cooldownUntil = NoTime, !.pendingSince = NoTime]
  BY <1>1 DEF evaluateThresholdState, Off, u, w
<1>7. QED
  BY <1>2, <1>3, <1>4, <1>5, <1>6 DEF Dwelled

LEMMA DisplayedFlags ==
  ASSUME NEW v, NEW t, NEW s \in StateType
  PROVE  SameFlags(Displayed(v, t, s), s)
BY DEF SameFlags, Displayed, StateType

-----------------------------------------------------------------------------
(* An update seen from outside: the flags and timers it leaves.            *)

LEMMA UpdatedFlags ==
  ASSUME NEW t \in Configs, NEW s \in StateType, now \in Nat, reading # Unavailable
  PROVE  SameFlags(Updated(t, s), evaluateThresholdState(reading, t, s, now))
<1> DEFINE e == evaluateThresholdState(reading, t, s, now)
<1>1. e \in StateType
  BY EvaluateType, ConfigsAssumption
<1>2. SameFlags(e, e) /\ SameFlags(Displayed(reading, t, e), e)
  BY <1>1, DisplayedFlags DEF SameFlags
<1>3. QED
  BY <1>2 DEF Updated

LEMMA UpdatedOff ==
  ASSUME NEW t \in Configs, NEW s, reading # Unavailable, Off(t)
  PROVE  Updated(t, s) = ZeroState
<1>1. evaluateThresholdState(reading, t, s, now) = ZeroState
  BY DEF evaluateThresholdState, Off
<1>2. ~Alerting(ZeroState)
  BY DEF Alerting, ZeroState
<1>3. QED
  BY <1>1, <1>2 DEF Updated

\* The history that goes with it.
LEMMA RecordedHistory ==
  ASSUME NEW t, NEW s, NEW m, NEW q, Record(t, s, m, q), reading # Unavailable
  PROVE  LET e == Updated(t, s)
             matching == evaluateThreshold(reading, t) /\ ~e.suppressedUntilClear
             ended == s.active /\ ~e.active
         IN  /\ Off(t) => matchedSince' = NoTime /\ quietUntil' = NoTime
             /\ ~Off(t) /\ (~matching \/ ended) => matchedSince' = NoTime
             /\ ~Off(t) /\ matching /\ ~ended =>
                  matchedSince' = IF m = NoTime THEN now ELSE m
             /\ ~Off(t) /\ ended => quietUntil' = now + thresholdDurationMs(t.cooldownMs)
             /\ ~Off(t) /\ ~ended => quietUntil' = q
BY DEF Record, Off

LEMMA TimedUpdated ==
  ASSUME TypeOK, NEW t \in Configs, NEW s \in StateType,
         NEW m \in Nat, NEW q \in Nat,
         Coherent(s), Timed(s, m, q), Record(t, s, m, q)
  PROVE  Timed(Updated(t, s), matchedSince', quietUntil')
<1> DEFINE e == Updated(t, s)
           x == evaluateThresholdState(reading, t, s, now)
           clear == thresholdClearConditionMet(reading, t)
           dwell == thresholdDurationMs(t.dwellMs)
           cooldown == thresholdDurationMs(t.cooldownMs)
<1>0. /\ t \in ThresholdType /\ now \in Nat /\ now # NoTime
      /\ dwell \in Nat /\ cooldown \in Nat
      /\ s.pendingSince \in Nat /\ s.cooldownUntil \in Nat
      /\ e \in StateType
  BY ConfigsAssumption, DurationType, UpdatedType DEF TypeOK, ThresholdType, StateType, NoTime
<1>1. CASE reading = Unavailable
  BY <1>1 DEF Updated, Record, Timed
<1>2. CASE reading # Unavailable /\ Off(t)
  <2>1. e = ZeroState /\ matchedSince' = NoTime /\ quietUntil' = NoTime
    BY <1>2, UpdatedOff, RecordedHistory
  <2>2. QED
    BY <1>0, <2>1 DEF Timed, ZeroState, NoTime
<1>3. CASE reading # Unavailable /\ ~Off(t)
  <2>0. SameFlags(e, x)
    BY <1>0, <1>3, UpdatedFlags
  <2>1. CASE s.active /\ (s.latched \/ ~clear)
    <3>1. SameFlags(x, s)
      BY <1>0, <1>3, <2>1, EvaluateAlerting
    <3>2. e.active /\ ~e.suppressedUntilClear /\ s.cooldownUntil = NoTime
          /\ e.pendingSince = NoTime /\ e.cooldownUntil = NoTime
      BY <2>0, <2>1, <3>1 DEF SameFlags, Coherent
    <3>3. quietUntil' = q /\ matchedSince' \in {NoTime, now, m}
      BY <1>3, <2>1, <3>2, RecordedHistory
    <3>4. QED
      BY <1>0, <3>2, <3>3 DEF Timed, NoTime
  <2>2. CASE s.active /\ ~s.latched /\ clear
    <3>1. IdleWith(x, NoTime, IF cooldown > 0 THEN now + cooldown ELSE NoTime)
      BY <1>0, <1>3, <2>2, EvaluateAlerting
    <3>2. IdleWith(e, NoTime, IF cooldown > 0 THEN now + cooldown ELSE NoTime)
      BY <2>0, <3>1 DEF SameFlags, IdleWith
    <3>3. quietUntil' = now + cooldown /\ matchedSince' = NoTime
      BY <1>3, <2>2, <3>2, RecordedHistory DEF IdleWith
    <3>4. QED
      BY <1>0, <3>2, <3>3 DEF Timed, IdleWith, NoTime
  <2>3. CASE s.suppressedUntilClear /\ ~clear
    <3>1. SameFlags(x, s)
      BY <1>0, <1>3, <2>3, EvaluateAlerting
    <3>2. e.suppressedUntilClear /\ e.pendingSince = NoTime /\ e.cooldownUntil = NoTime
          /\ ~s.active /\ s.cooldownUntil = NoTime
      BY <2>0, <2>3, <3>1 DEF SameFlags, Coherent
    <3>3. quietUntil' = q /\ matchedSince' = NoTime
      BY <1>3, <3>2, RecordedHistory
    <3>4. QED
      BY <1>0, <3>2, <3>3 DEF Timed, NoTime
  <2>4. CASE ~s.active /\ (s.suppressedUntilClear => clear)
    <3>1. IF now < s.cooldownUntil THEN IdleWith(x, NoTime, s.cooldownUntil)
          ELSE IF ~evaluateThreshold(reading, t) THEN IdleWith(x, NoTime, NoTime)
          ELSE IF dwell > 0 /\ s.pendingSince = NoTime THEN IdleWith(x, now, NoTime)
          ELSE IF dwell > 0 /\ now - s.pendingSince < dwell
          THEN IdleWith(x, s.pendingSince, NoTime)
          ELSE RaisedBy(t, x)
      BY <1>0, <1>3, <2>4, EvaluateIdle
    <3>2. ~e.suppressedUntilClear /\ quietUntil' = q
          /\ matchedSince' = IF ~evaluateThreshold(reading, t) THEN NoTime
                             ELSE IF m = NoTime THEN now ELSE m
      <4>1. ~e.suppressedUntilClear
        BY <1>0, <2>0, <3>1 DEF SameFlags, IdleWith, RaisedBy
      <4>2. QED
        BY <1>3, <2>4, <4>1, RecordedHistory
    <3>3. CASE now < s.cooldownUntil
      <4>1. IdleWith(e, NoTime, s.cooldownUntil)
        BY <2>0, <3>1, <3>3 DEF SameFlags, IdleWith
      <4>2. q = s.cooldownUntil
        BY <1>0, <3>3 DEF Timed, NoTime
      <4>3. QED
        BY <1>0, <3>2, <3>3, <4>1, <4>2 DEF Timed, IdleWith, NoTime
    <3>4. CASE ~(now < s.cooldownUntil)
      <4>0. q <= now
        BY <1>0, <3>4 DEF Timed
      <4>1. CASE ~evaluateThreshold(reading, t)
        <5>1. IdleWith(e, NoTime, NoTime)
          BY <2>0, <3>1, <3>4, <4>1 DEF SameFlags, IdleWith
        <5>2. QED
          BY <1>0, <3>2, <4>0, <4>1, <5>1 DEF Timed, IdleWith, NoTime
      <4>2. CASE evaluateThreshold(reading, t) /\ dwell > 0 /\ s.pendingSince = NoTime
        <5>1. IdleWith(e, now, NoTime)
          BY <2>0, <3>1, <3>4, <4>2 DEF SameFlags, IdleWith
        <5>2. m # NoTime => m < q
          BY <1>0, <2>4, <4>2 DEF Timed
        <5>3. QED
          BY <1>0, <3>2, <4>0, <4>2, <5>1, <5>2 DEF Timed, IdleWith, NoTime
      <4>3. CASE /\ evaluateThreshold(reading, t) /\ dwell > 0
                 /\ s.pendingSince # NoTime /\ now - s.pendingSince < dwell
        <5>1. IdleWith(e, s.pendingSince, NoTime)
          BY <2>0, <3>1, <3>4, <4>3 DEF SameFlags, IdleWith
        <5>2. matchedSince' = m /\ m # NoTime
          BY <3>2, <4>3 DEF Timed
        <5>3. QED
          BY <1>0, <2>4, <3>2, <4>0, <4>3, <5>1, <5>2 DEF Timed, IdleWith, NoTime
      <4>4. CASE /\ evaluateThreshold(reading, t)
                 /\ dwell > 0 => s.pendingSince # NoTime /\ ~(now - s.pendingSince < dwell)
        <5>1. RaisedBy(t, x)
          BY <3>1, <3>4, <4>4
        <5>2. RaisedBy(t, e)
          BY <2>0, <5>1 DEF SameFlags, RaisedBy
        <5>3. QED
          BY <1>0, <3>2, <4>0, <4>4, <5>2 DEF Timed, RaisedBy, NoTime
      <4>5. QED
        BY <4>1, <4>2, <4>3, <4>4
    <3>5. QED
      BY <1>0, <3>3, <3>4
  <2>5. QED
    BY <2>1, <2>2, <2>3, <2>4
<1>4. QED
  BY <1>1, <1>2, <1>3

LEMMA ZeroTimed ==
  ASSUME now \in Nat
  PROVE  Coherent(ZeroState) /\ Timed(ZeroState, NoTime, NoTime)
BY DEF Coherent, Timed, ZeroState, NoTime

LEMMA ClearStickyTimed ==
  ASSUME NEW s \in StateType, NEW m \in Nat, NEW q \in Nat, now \in Nat,
         Coherent(s), s.latched, Timed(s, m, q)
  PROVE  Timed(clearStickyThresholdState(s), NoTime, q)
<1>1. q <= now
  BY DEF Timed, Coherent, NoTime
<1>2. LET e == clearStickyThresholdState(s)
      IN  e.suppressedUntilClear /\ ~e.active
          /\ e.pendingSince = NoTime /\ e.cooldownUntil = NoTime
  BY DEF clearStickyThresholdState, resetThresholdSnapshot, StateType
<1>3. QED
  BY <1>1, <1>2 DEF Timed, NoTime

\* The dwell and cooldown timers of a threshold, the tile's or the library's,
\* agree with the history of its readings, for every set of settings, readings
\* and interleavings.
THEOREM TimersTellTheTruth == Spec => []TimersMatchHistory
<1> DEFINE Inv == TypeOK /\ OnePhase
<1>1. Init => TimersMatchHistory
  BY ZeroTimed DEF Init, TimersMatchHistory
<1>2. Inv /\ Inv' /\ TimersMatchHistory /\ [Next]_vars => TimersMatchHistory'
  <2> SUFFICES ASSUME TypeOK, TypeOK', Coherent(state), [Next]_vars,
                      Timed(state, matchedSince, quietUntil)
               PROVE  Timed(state, matchedSince, quietUntil)'
    BY DEF TimersMatchHistory, OnePhase
  <2>0. /\ now \in Nat /\ NoTime \in Nat /\ state \in StateType
        /\ matchedSince \in Nat /\ quietUntil \in Nat
        /\ ZeroState \in StateType
    BY ZeroStateType DEF TypeOK, NoTime
  <2>1. CASE Tick
    BY <2>0, <2>1 DEF Tick, history, Timed, StateType
  <2>2. ASSUME NEW v, Publish(v) PROVE Timed(state, matchedSince, quietUntil)'
    BY <2>2 DEF Publish, history, Timed
  <2>3. CASE updateTiles
    <3>1. Timed(Updated(threshold, state), matchedSince', quietUntil')
      BY <2>0, <2>3, TimedUpdated DEF updateTiles, TypeOK
    <3>2. QED
      BY <2>3, <3>1 DEF updateTiles, Timed
  <2>4. CASE OnKeyDown
    <3> DEFINE s == clearStickyThresholdState(state)
    <3>1. s \in StateType /\ Coherent(s) /\ Timed(s, NoTime, quietUntil)
      BY <2>0, <2>4, ClearStickyType, CoherentClearSticky, ClearStickyTimed DEF OnKeyDown
    <3>2. state' = Updated(threshold, s) /\ now' = now
          /\ Record(threshold, s, NoTime, quietUntil)
      BY <2>4 DEF OnKeyDown
    <3> HIDE DEF s
    <3>3. Timed(Updated(threshold, s), matchedSince', quietUntil')
      BY <2>0, <3>1, <3>2, TimedUpdated DEF TypeOK
    <3>4. QED
      BY <3>2, <3>3 DEF Timed
  <2>5. ASSUME NEW t \in Configs, handleThresholdUpdate(t)
        PROVE  Timed(state, matchedSince, quietUntil)'
    <3>1. Timed(Updated(t, ZeroState), matchedSince', quietUntil')
      BY <2>0, <2>5, ZeroTimed, TimedUpdated DEF handleThresholdUpdate
    <3>2. QED
      BY <2>5, <3>1 DEF handleThresholdUpdate, Timed
  <2>6. CASE Forget /\ now' = now
    BY <2>0, <2>6, ZeroTimed DEF Forget, Timed
  <2>7. ASSUME NEW t \in Configs, handleGlobalThresholdUpdate(t)
        PROVE  Timed(state, matchedSince, quietUntil)'
    BY <2>7 DEF handleGlobalThresholdUpdate, history, Timed
  <2>8. CASE UNCHANGED vars
    BY <2>8 DEF vars, history, Timed
  <2>9. QED
    BY <2>1, <2>2, <2>3, <2>4, <2>5, <2>6, <2>7, <2>8
    DEF Next, handleThresholdUpdateFails, OnWillAppear
<1>3. QED
  BY <1>1, <1>2, TypeCorrect, PhasesExclude, PTL DEF Spec

-----------------------------------------------------------------------------
(* The engine implements the abstract alert.                               *)

LEMMA PhaseFlags ==
  ASSUME NEW s \in StateType, Coherent(s)
  PROVE  /\ PhaseOf(s) = "acked"   <=> s.suppressedUntilClear
         /\ PhaseOf(s) = "latched" <=> s.latched
         /\ PhaseOf(s) = "on"      <=> s.active /\ ~s.latched
         /\ PhaseOf(s) = "off"     <=> ~s.active /\ ~s.suppressedUntilClear
         /\ PhaseOf(s) \in {"off", "on", "latched", "acked"}
BY DEF PhaseOf, Coherent

\* The abstract alert reads settings and readings with the same operators.
LEMMA SameOperators ==
  /\ Alert!NoTime = NoTime
  /\ \A v, t : /\ Alert!evaluateThreshold(v, t) = evaluateThreshold(v, t)
               /\ Alert!thresholdClearConditionMet(v, t) = thresholdClearConditionMet(v, t)
  /\ \A d : Alert!thresholdDurationMs(d) = thresholdDurationMs(d)
<1>1. /\ Alert!NoTime = NoTime
      /\ \A d : Alert!thresholdDurationMs(d) = thresholdDurationMs(d)
  BY DEF NoTime, Alert!NoTime, thresholdDurationMs, Alert!thresholdDurationMs
<1>2. \A v, t : Alert!evaluateThreshold(v, t) = evaluateThreshold(v, t)
  BY DEF evaluateThreshold, Rounded, Truncate,
         Alert!evaluateThreshold, Alert!Rounded, Alert!Truncate
<1>3. \A v, t : Alert!thresholdClearConditionMet(v, t) = thresholdClearConditionMet(v, t)
  BY <1>2 DEF thresholdClearConditionMet, Abs, Operators,
              Alert!thresholdClearConditionMet, Alert!Abs, Alert!Operators
<1>4. QED
  BY <1>1, <1>2, <1>3

LEMMA UpdateIsObserve ==
  ASSUME TypeOK, NEW t \in Configs, NEW s \in StateType,
         NEW m \in Nat, NEW q \in Nat,
         Coherent(s), Timed(s, m, q), Record(t, s, m, q),
         state' = Updated(t, s)
  PROVE  Alert!Observe(PhaseOf(s), m, q, t)
<1> DEFINE e == Updated(t, s)
           x == evaluateThresholdState(reading, t, s, now)
           clear == thresholdClearConditionMet(reading, t)
           matches == evaluateThreshold(reading, t)
           dwell == thresholdDurationMs(t.dwellMs)
           cooldown == thresholdDurationMs(t.cooldownMs)
           run == IF ~matches THEN NoTime ELSE IF m = NoTime THEN now ELSE m
<1>0. /\ t \in ThresholdType /\ now \in Nat /\ now # NoTime
      /\ dwell \in Nat /\ cooldown \in Nat
      /\ s.pendingSince \in Nat /\ s.cooldownUntil \in Nat
      /\ e \in StateType /\ Coherent(e)
      /\ t.sticky \in BOOLEAN
  BY ConfigsAssumption, DurationType, UpdatedType, CoherentUpdated
  DEF TypeOK, ThresholdType, StateType, NoTime
<1>p. /\ PhaseOf(state)' = "acked"   <=> e.suppressedUntilClear
      /\ PhaseOf(state)' = "latched" <=> e.latched
      /\ PhaseOf(state)' = "on"      <=> e.active /\ ~e.latched
      /\ PhaseOf(state)' = "off"     <=> ~e.active /\ ~e.suppressedUntilClear
  <2>1. PhaseOf(state)' = PhaseOf(e)
    BY DEF PhaseOf
  <2>2. QED
    BY <1>0, <2>1, PhaseFlags
<1>1. CASE reading = Unavailable
  BY <1>1 DEF Updated, Record, Alert!Observe, Alert!alert, PhaseOf
<1>2. CASE reading # Unavailable /\ Off(t)
  <2>1. e = ZeroState /\ matchedSince' = NoTime /\ quietUntil' = NoTime
    BY <1>2, UpdatedOff, RecordedHistory
  <2>2. PhaseOf(state)' = "off"
    BY <1>p, <2>1 DEF ZeroState
  <2>3. QED
    BY <1>2, <2>1, <2>2 DEF Alert!Observe, Alert!alert, Off, NoTime, NoOperator,
                            Alert!NoTime, Alert!NoOperator
<1>3. CASE reading # Unavailable /\ ~Off(t)
  <2>0. SameFlags(e, x)
    BY <1>0, <1>3, UpdatedFlags
  <2>l. SUFFICES Alert!Look(PhaseOf(s), m, q, t)
    BY <1>3 DEF Alert!Observe, Off, NoOperator, Alert!NoOperator
  <2>1. CASE s.active /\ (s.latched \/ ~clear)
    <3>1. SameFlags(x, s)
      BY <1>0, <1>3, <2>1, EvaluateAlerting
    <3>2. e.active /\ ~e.suppressedUntilClear /\ (e.latched <=> s.latched)
      BY <2>0, <2>1, <3>1 DEF SameFlags, Coherent
    <3>3. PhaseOf(s) = (IF s.latched THEN "latched" ELSE "on")
          /\ PhaseOf(state)' = PhaseOf(s)
      BY <1>p, <2>1, <3>2, PhaseFlags DEF PhaseOf
    <3>4. quietUntil' = q /\ matchedSince' = run
      BY <1>3, <3>2, RecordedHistory
    <3>5. QED
      BY <1>0, <2>1, <3>3, <3>4, SameOperators DEF Alert!Look, Alert!Run, Alert!Stay
  <2>2. CASE s.active /\ ~s.latched /\ clear
    <3>1. IdleWith(x, NoTime, IF cooldown > 0 THEN now + cooldown ELSE NoTime)
      BY <1>0, <1>3, <2>2, EvaluateAlerting
    <3>2. ~e.active /\ ~e.suppressedUntilClear
      BY <2>0, <3>1 DEF SameFlags, IdleWith
    <3>3. PhaseOf(s) = "on" /\ PhaseOf(state)' = "off"
      BY <1>p, <2>2, <3>2, PhaseFlags
    <3>4. quietUntil' = now + cooldown /\ matchedSince' = NoTime
      BY <1>3, <2>2, <3>2, RecordedHistory
    <3>5. QED
      BY <1>0, <2>2, <3>3, <3>4, SameOperators DEF Alert!Look, Alert!Run, Alert!Stay
  <2>3. CASE s.suppressedUntilClear /\ ~clear
    <3>1. SameFlags(x, s)
      BY <1>0, <1>3, <2>3, EvaluateAlerting
    <3>2. e.suppressedUntilClear /\ ~e.active /\ ~s.active
      BY <2>0, <2>3, <3>1 DEF SameFlags, Coherent
    <3>3. PhaseOf(s) = "acked" /\ PhaseOf(state)' = "acked"
      BY <1>p, <2>3, <3>2, PhaseFlags
    <3>4. quietUntil' = q /\ matchedSince' = NoTime
      BY <1>3, <3>2, RecordedHistory
    <3>5. QED
      BY <1>0, <2>3, <3>3, <3>4, SameOperators DEF Alert!Look, Alert!Run, Alert!Stay
  <2>4. CASE ~s.active /\ (s.suppressedUntilClear => clear)
    <3>1. IF now < s.cooldownUntil THEN IdleWith(x, NoTime, s.cooldownUntil)
          ELSE IF ~evaluateThreshold(reading, t) THEN IdleWith(x, NoTime, NoTime)
          ELSE IF dwell > 0 /\ s.pendingSince = NoTime THEN IdleWith(x, now, NoTime)
          ELSE IF dwell > 0 /\ now - s.pendingSince < dwell
          THEN IdleWith(x, s.pendingSince, NoTime)
          ELSE RaisedBy(t, x)
      BY <1>0, <1>3, <2>4, EvaluateIdle
    <3>2. ~e.suppressedUntilClear
      BY <1>0, <2>0, <3>1 DEF SameFlags, IdleWith, RaisedBy
    <3>3. quietUntil' = q /\ matchedSince' = run
      BY <1>3, <2>4, <3>2, RecordedHistory
    <3>4. PhaseOf(s) \in {"off", "acked"} /\ (PhaseOf(s) = "acked" => clear)
      BY <2>4, PhaseFlags DEF Coherent
    <3>5. PhaseOf(state)' # "acked"
      BY <1>p, <3>2
    <3>6. SUFFICES Alert!Idle(q, t)
      BY <3>3, <3>4, <3>5, SameOperators DEF Alert!Look, Alert!Run
    <3>7. CASE RaisedBy(t, x)
      <4>1. RaisedBy(t, e)
        BY <2>0, <3>7 DEF SameFlags, RaisedBy
      <4>2. PhaseOf(state)' = IF t.sticky THEN "latched" ELSE "on"
        BY <1>0, <1>p, <4>1 DEF RaisedBy
      <4>3. /\ ~(now < s.cooldownUntil) /\ matches
            /\ dwell > 0 => s.pendingSince # NoTime /\ now - s.pendingSince >= dwell
        BY <1>0, <3>1, <3>7 DEF IdleWith, RaisedBy
      <4>4. now >= q /\ now - run >= dwell
        BY <1>0, <4>3 DEF Timed, NoTime
      <4>5. QED
        BY <3>3, <4>2, <4>3, <4>4, SameOperators DEF Alert!Idle, Alert!Served
    <3>8. CASE ~RaisedBy(t, x)
      <4>1. ~x.active /\ ~x.latched
        BY <1>0, <3>1, <3>8 DEF IdleWith
      <4>2. PhaseOf(state)' = "off"
        BY <1>p, <2>0, <3>2, <4>1 DEF SameFlags
      <4>3. /\ matches
            /\ ~(now < s.cooldownUntil)
            => dwell > 0 /\ (s.pendingSince = NoTime \/ now - s.pendingSince < dwell)
        BY <1>0, <3>1, <3>8
      <4>4. ~(matches /\ now - run >= dwell /\ run >= q)
        BY <1>0, <2>4, <4>3 DEF Timed, NoTime
      <4>5. QED
        BY <3>3, <4>2, <4>4, SameOperators DEF Alert!Idle, Alert!Served
    <3>9. QED
      BY <3>7, <3>8
  <2>5. QED
    BY <2>1, <2>2, <2>3, <2>4
<1>4. QED
  BY <1>1, <1>2, <1>3

\* The engine keeps every promise of the abstract alert, for a tile's own
\* threshold and for the library's, and for every set of settings and readings.
THEOREM Refinement == Spec => ImplementsAlarm
<1> DEFINE Inv == TypeOK /\ OnePhase /\ TimersMatchHistory
<1>1. Init => Alert!Init
  BY DEF Init, Alert!Init, PhaseOf, ZeroState, NoTime, Alert!NoTime
<1>2. Inv /\ [Next]_vars => [Alert!Next]_(Alert!alarmVars)
  <2> SUFFICES ASSUME TypeOK, Coherent(state), Timed(state, matchedSince, quietUntil),
                      [Next]_vars
               PROVE  Alert!Next \/ UNCHANGED Alert!alarmVars
    BY DEF OnePhase, TimersMatchHistory
  <2>0. /\ now \in Nat /\ NoTime \in Nat /\ state \in StateType /\ threshold \in Configs
        /\ matchedSince \in Nat /\ quietUntil \in Nat
        /\ ZeroState \in StateType /\ PhaseOf(ZeroState) = "off"
    BY ZeroStateType DEF TypeOK, NoTime, PhaseOf, ZeroState
  <2>1. CASE Tick
    BY <2>0, <2>1 DEF Tick, history, PhaseOf, Alert!Next, Alert!Time, Alert!alert
  <2>2. ASSUME NEW v \in Values \cup {Unavailable}, Publish(v) PROVE Alert!Next
    BY <2>2 DEF Publish, history, PhaseOf, Alert!Next, Alert!Publish, Alert!alert
  <2>3. CASE updateTiles
    <3>1. Alert!Observe(PhaseOf(state), matchedSince, quietUntil, threshold)
      BY <2>0, <2>3, UpdateIsObserve DEF updateTiles
    <3>2. QED
      BY <2>3, <3>1 DEF updateTiles, Alert!Next, Alert!Watch
  <2>4. CASE OnKeyDown
    <3> DEFINE s == clearStickyThresholdState(state)
    <3>1. s \in StateType /\ Coherent(s) /\ Timed(s, NoTime, quietUntil)
      BY <2>0, <2>4, ClearStickyType, CoherentClearSticky, ClearStickyTimed DEF OnKeyDown
    <3>2. PhaseOf(s) = "acked" /\ PhaseOf(state) = "latched"
      BY <2>0, <2>4, PhaseFlags
      DEF OnKeyDown, PhaseOf, clearStickyThresholdState, resetThresholdSnapshot, StateType
    <3>3. state' = Updated(threshold, s) /\ UNCHANGED <<now, reading, threshold, era>>
          /\ Record(threshold, s, NoTime, quietUntil)
      BY <2>4 DEF OnKeyDown
    <3> HIDE DEF s
    <3>4. Alert!Observe("acked", NoTime, quietUntil, threshold)
      BY <2>0, <3>1, <3>2, <3>3, UpdateIsObserve
    <3>5. QED
      BY <3>2, <3>3, <3>4 DEF Alert!Next, Alert!Acknowledge, NoTime, Alert!NoTime
  <2>5. ASSUME NEW t \in Configs, handleThresholdUpdate(t) PROVE Alert!Next
    <3>1. Alert!Observe("off", NoTime, NoTime, t)
      BY <2>0, <2>5, ZeroTimed, UpdateIsObserve DEF handleThresholdUpdate
    <3>2. QED
      BY <2>5, <3>1
      DEF handleThresholdUpdate, Alert!Next, Alert!Configure, NoTime, Alert!NoTime
  <2>6. CASE Forget /\ UNCHANGED <<now, reading>> /\ threshold' \in Configs
    <3>1. PhaseOf(state)' = "off"
      BY <2>0, <2>6 DEF Forget, PhaseOf
    <3>2. QED
      BY <2>6, <3>1
      DEF Forget, Alert!Next, Alert!Configure, Alert!alert, NoTime, Alert!NoTime
  <2>7. CASE OnWillAppear
    <3>1. PhaseOf(state)' = "off"
      BY <2>0, <2>7 DEF OnWillAppear, Forget, PhaseOf
    <3>2. QED
      BY <2>7, <3>1
      DEF OnWillAppear, Forget, Alert!Next, Alert!Restart, Alert!alert, NoTime, Alert!NoTime
  <2>8. ASSUME NEW t \in Configs, handleGlobalThresholdUpdate(t) PROVE Alert!Next
    BY <2>8
    DEF handleGlobalThresholdUpdate, history, PhaseOf, Alert!Next, Alert!Adjust, Alert!alert
  <2>9. CASE UNCHANGED vars
    BY <2>9 DEF vars, history, PhaseOf, Alert!alarmVars, Alert!alert
  <2>10. QED
    BY <2>1, <2>2, <2>3, <2>4, <2>5, <2>6, <2>7, <2>8, <2>9
    DEF Next, handleThresholdUpdateFails
<1>3. QED
  BY <1>1, <1>2, TypeCorrect, PhasesExclude, TimersTellTheTruth, PTL
  DEF Spec, ImplementsAlarm, Alert!Spec

-----------------------------------------------------------------------------
(* The snapshot of a sticky alert.                                         *)

\* Of the values in w, read since s latched, its snapshot is the furthest
\* beyond threshold t.
Worst(s, t, w) ==
  s.latched =>
    /\ t.sticky /\ ~s.snapshotPending /\ s.latchedValue \in w
    /\ \A v \in w : ~stickySnapshotShouldUpdate(t, v, s.latchedValue)

LEMMA ShouldUpdateOrder ==
  ASSUME NEW t \in ThresholdType, NEW u \in Int, NEW v \in Int, NEW w \in Int
  PROVE  /\ ~stickySnapshotShouldUpdate(t, v, v)
         /\ stickySnapshotShouldUpdate(t, v, w) /\ ~stickySnapshotShouldUpdate(t, u, w)
              => ~stickySnapshotShouldUpdate(t, u, v)
BY DEF stickySnapshotShouldUpdate, ThresholdType, Abs

LEMMA EvaluateLatched ==
  ASSUME NEW v, NEW t \in ThresholdType, NEW s \in StateType, NEW n \in Nat, Coherent(s)
  PROVE  LET x == evaluateThresholdState(v, t, s, n)
         IN  x.latched =>
               \/ /\ s.latched /\ x.latchedValue = s.latchedValue
                  /\ x.snapshotPending = s.snapshotPending
               \/ ~s.latched /\ x.snapshotPending /\ t.sticky
<1> DEFINE clear == thresholdClearConditionMet(v, t)
           u == [s EXCEPT !.suppressedUntilClear = @ /\ ~clear]
           w == [u EXCEPT !.cooldownUntil = NoTime]
<1>1. /\ u \in StateType /\ u.latched = s.latched /\ u.active = s.active
      /\ u.latchedValue = s.latchedValue /\ u.snapshotPending = s.snapshotPending
  BY DEF StateType
<1>2. /\ w \in StateType /\ w.latched = s.latched
      /\ w.latchedValue = s.latchedValue /\ w.snapshotPending = s.snapshotPending
  BY <1>1 DEF StateType, NoTime
<1> HIDE DEF u
<1>3. ~ZeroState.latched /\ ~Deactivated(t, u, n).latched
  BY <1>1 DEF ZeroState, Deactivated, resetThresholdSnapshot, StateType
<1>4. /\ [u EXCEPT !.pendingSince = NoTime].latched = s.latched
      /\ [u EXCEPT !.pendingSince = NoTime].latchedValue = s.latchedValue
      /\ [u EXCEPT !.pendingSince = NoTime].snapshotPending = s.snapshotPending
      /\ [u EXCEPT !.cooldownUntil = NoTime, !.pendingSince = NoTime].latched = s.latched
  BY <1>1 DEF StateType
<1> HIDE DEF w
<1>5. ~s.latched /\ Dwelled(t, w, n).latched
        => Dwelled(t, w, n).snapshotPending /\ t.sticky
  BY <1>2 DEF Dwelled, Activated, StateType
<1>6. s.latched => u.active
  BY <1>1 DEF Coherent
<1>7. QED
  BY <1>1, <1>3, <1>4, <1>5, <1>6 DEF evaluateThresholdState, u, w

LEMMA WorstUpdated ==
  ASSUME TypeOK, NEW t \in Configs, NEW s \in StateType, NEW m, NEW q,
         Coherent(s), Worst(s, t, seen), Record(t, s, m, q)
  PROVE  Worst(Updated(t, s), t, seen')
<1> DEFINE e == Updated(t, s)
           x == evaluateThresholdState(reading, t, s, now)
<1>1. CASE reading = Unavailable
  BY <1>1 DEF Updated, Record, Worst
<1>2. CASE reading # Unavailable /\ e.latched
  <2>0. /\ t \in ThresholdType /\ reading \in Int /\ seen \subseteq Int
        /\ x \in StateType /\ Coherent(x) /\ s.latchedValue \in Int
    BY <1>2, EvaluateType, CoherentEvaluate, ConfigsAssumption, ValuesAssumption
    DEF TypeOK, StateType
  <2>1. x.latched
    <3>1. SameFlags(e, x)
      BY <1>2, UpdatedFlags DEF TypeOK
    <3>2. QED
      BY <1>2, <3>1 DEF SameFlags
  <2>2. e = Displayed(reading, t, x)
    BY <1>2, <2>0, <2>1 DEF Updated, Alerting, Coherent
  <2>3. seen' = (IF s.latched THEN seen ELSE {}) \cup {reading}
    BY <1>2 DEF Record
  <2>4. \/ /\ s.latched /\ x.latchedValue = s.latchedValue
           /\ x.snapshotPending = s.snapshotPending
        \/ ~s.latched /\ x.snapshotPending /\ t.sticky
    BY <2>0, <2>1, EvaluateLatched DEF TypeOK
  <2> HIDE DEF x, e
  <2>5. CASE ~s.latched
    <3>1. t.sticky /\ ~e.snapshotPending /\ e.latchedValue = reading
      BY <2>0, <2>1, <2>2, <2>4, <2>5 DEF Displayed, StateType
    <3>2. QED
      BY <2>0, <2>3, <2>5, <3>1, ShouldUpdateOrder DEF Worst, e
  <2>6. CASE s.latched
    <3>0. /\ t.sticky /\ ~s.snapshotPending /\ s.latchedValue \in seen
          /\ \A v \in seen : ~stickySnapshotShouldUpdate(t, v, s.latchedValue)
      BY <2>6 DEF Worst
    <3>1. CASE stickySnapshotShouldUpdate(t, reading, s.latchedValue)
      <4>1. ~e.snapshotPending /\ e.latchedValue = reading
        BY <2>0, <2>1, <2>2, <2>4, <2>6, <3>0, <3>1 DEF Displayed, StateType
      <4>2. \A v \in seen : ~stickySnapshotShouldUpdate(t, v, reading)
        BY <2>0, <3>0, <3>1, ShouldUpdateOrder
      <4>3. ~stickySnapshotShouldUpdate(t, reading, reading)
        BY <2>0, ShouldUpdateOrder
      <4>4. QED
        BY <2>3, <2>6, <3>0, <4>1, <4>2, <4>3 DEF Worst, e
    <3>2. CASE ~stickySnapshotShouldUpdate(t, reading, s.latchedValue)
      <4>1. ~e.snapshotPending /\ e.latchedValue = s.latchedValue
        BY <2>0, <2>1, <2>2, <2>4, <2>6, <3>0, <3>2 DEF Displayed
      <4>2. QED
        BY <2>3, <2>6, <3>0, <3>2, <4>1 DEF Worst, e
    <3>3. QED
      BY <3>1, <3>2
  <2>7. QED
    BY <2>5, <2>6
<1>3. QED
  BY <1>1, <1>2 DEF Worst

\* The value that s froze when it latched, if it did, was read since.
Frozen(s, w) == s.latched => ~s.snapshotPending /\ s.latchedValue \in w

LEMMA FrozenUpdated ==
  ASSUME TypeOK, NEW t \in Configs, NEW s \in StateType, NEW m, NEW q,
         Coherent(s), Frozen(s, seen), Record(t, s, m, q)
  PROVE  Frozen(Updated(t, s), seen')
<1> DEFINE e == Updated(t, s)
           x == evaluateThresholdState(reading, t, s, now)
<1>1. CASE reading = Unavailable
  BY <1>1 DEF Updated, Record, Frozen
<1>2. CASE reading # Unavailable /\ e.latched
  <2>0. /\ t \in ThresholdType /\ reading \in Int
        /\ x \in StateType /\ Coherent(x)
    BY <1>2, EvaluateType, CoherentEvaluate, ConfigsAssumption, ValuesAssumption DEF TypeOK
  <2>1. x.latched
    <3>1. SameFlags(e, x)
      BY <1>2, UpdatedFlags DEF TypeOK
    <3>2. QED
      BY <1>2, <3>1 DEF SameFlags
  <2>2. e = Displayed(reading, t, x)
    BY <1>2, <2>0, <2>1 DEF Updated, Alerting, Coherent
  <2>3. seen' = (IF s.latched THEN seen ELSE {}) \cup {reading}
    BY <1>2 DEF Record
  <2>4. \/ /\ s.latched /\ x.latchedValue = s.latchedValue
           /\ x.snapshotPending = s.snapshotPending
        \/ ~s.latched /\ x.snapshotPending /\ t.sticky
    BY <2>0, <2>1, EvaluateLatched DEF TypeOK
  <2>5. \/ e.latchedValue = reading /\ ~e.snapshotPending
        \/ /\ ~(t.sticky /\ x.snapshotPending)
           /\ e.latchedValue = x.latchedValue /\ e.snapshotPending = x.snapshotPending
    BY <2>0, <2>1, <2>2 DEF Displayed, StateType
  <2> HIDE DEF x, e
  <2>6. QED
    BY <2>3, <2>4, <2>5 DEF Frozen, e
<1>3. QED
  BY <1>1, <1>2 DEF Frozen

\* What both invariants of a snapshot say.
SnapshotInv ==
  /\ Frozen(state, seen)
  /\ scope = "tile" => Worst(state, threshold, seen)

LEMMA SnapshotInvariant == Spec => []SnapshotInv
<1> DEFINE Inv == TypeOK /\ OnePhase
<1>0. /\ \A w : Frozen(ZeroState, w)
      /\ \A t, w : Worst(ZeroState, t, w)
  BY DEF Worst, Frozen, ZeroState
<1>1. Init => SnapshotInv
  BY <1>0 DEF Init, SnapshotInv
<1>2. Inv /\ SnapshotInv /\ [Next]_vars => SnapshotInv'
  <2> SUFFICES ASSUME TypeOK, Coherent(state), [Next]_vars, Frozen(state, seen),
                      scope = "tile" => Worst(state, threshold, seen)
               PROVE  /\ Frozen(state', seen')
                      /\ scope' = "tile" => Worst(state', threshold', seen')
    BY DEF OnePhase, Worst, Frozen, SnapshotInv
  <2>0. state \in StateType /\ threshold \in Configs /\ ZeroState \in StateType
    BY ZeroStateType DEF TypeOK
  <2>1. CASE UNCHANGED <<scope, state, threshold, seen>>
    BY <2>1
  <2>2. CASE updateTiles
    BY <2>0, <2>2, WorstUpdated, FrozenUpdated DEF updateTiles
  <2>3. CASE OnKeyDown
    <3> DEFINE s == clearStickyThresholdState(state)
    <3>1. s \in StateType /\ Coherent(s) /\ ~s.latched
      BY <2>0, <2>3, ClearStickyType, CoherentClearSticky
      DEF OnKeyDown, clearStickyThresholdState, resetThresholdSnapshot, StateType
    <3>2. /\ state' = Updated(threshold, s) /\ threshold' = threshold
          /\ Record(threshold, s, NoTime, quietUntil)
      BY <2>3 DEF OnKeyDown
    <3> HIDE DEF s
    <3>3. Frozen(s, seen) /\ Worst(s, threshold, seen)
      BY <3>1 DEF Worst, Frozen
    <3>4. QED
      BY <2>0, <3>1, <3>2, <3>3, WorstUpdated, FrozenUpdated
  <2>4. ASSUME NEW t \in Configs, handleThresholdUpdate(t)
        PROVE  Frozen(state', seen') /\ Worst(state', threshold', seen')
    <3>1. Coherent(ZeroState) /\ Worst(ZeroState, t, seen) /\ Frozen(ZeroState, seen)
      BY <1>0 DEF Coherent, ZeroState
    <3>2. QED
      BY <2>0, <2>4, <3>1, WorstUpdated, FrozenUpdated DEF handleThresholdUpdate
  <2>5. CASE Forget
    BY <1>0, <2>5 DEF Forget
  <2>6. ASSUME NEW t \in Configs, handleGlobalThresholdUpdate(t)
        PROVE  Frozen(state', seen') /\ scope' # "tile"
    BY <2>6 DEF handleGlobalThresholdUpdate, history
  <2>7. QED
    BY <2>1, <2>2, <2>3, <2>4, <2>5, <2>6
    DEF Next, Tick, Publish, handleThresholdUpdateFails, OnWillAppear, vars, history
<1>3. QED
  BY <1>1, <1>2, TypeCorrect, PhasesExclude, PTL DEF Spec

\* A latched tile shows a value it has read since the alert latched, and if the
\* threshold is its own none of the readings since was worse, for every set of
\* settings and readings.
THEOREM SnapshotTellsTheWorst == Spec => []SnapshotIsWorst
<1>1. TypeOK /\ SnapshotInv => SnapshotIsWorst
  <2> SUFFICES ASSUME TypeOK, SnapshotInv, state.latched
               PROVE  SnapshotIsWorst
    BY DEF SnapshotIsWorst
  <2>1. /\ seen \subseteq Int /\ state.latchedValue \in Int /\ threshold.value \in Int
    BY ConfigsAssumption, ValuesAssumption DEF TypeOK, StateType, ThresholdType
  <2>2. state.latchedValue \in seen
    BY DEF SnapshotInv, Frozen
  <2>3. ASSUME scope = "tile", NEW v \in seen
        PROVE  ~stickySnapshotShouldUpdate(threshold, v, state.latchedValue)
    BY <2>3 DEF SnapshotInv, Worst
  <2>4. QED
    BY <2>1, <2>2, <2>3 DEF SnapshotIsWorst, stickySnapshotShouldUpdate, Abs
<1>2. QED
  BY <1>1, SnapshotInvariant, TypeCorrect, PTL DEF Spec

-----------------------------------------------------------------------------
(* The end of an alert.                                                    *)

\* The clear boundary lies beyond the readings that match, but for "==" with a
\* hysteresis.
LEMMA ClearExcludesMatch ==
  ASSUME NEW v \in Int, NEW t \in ThresholdType, t.operator # NoOperator,
         ~(t.operator = "==" /\ t.hysteresis > 0),
         thresholdClearConditionMet(v, t)
  PROVE  ~evaluateThreshold(v, t)
<1>0. t.value \in Int /\ t.hysteresis \in Int /\ t.operator \in Operators
  BY DEF ThresholdType
<1>1. CASE t.operator = "=="
  BY <1>0, <1>1 DEF thresholdClearConditionMet, Operators
<1>2. CASE t.operator # "=="
  BY <1>0, <1>2 DEF thresholdClearConditionMet, evaluateThreshold, Operators
<1>3. QED
  BY <1>1, <1>2

\* An update that ends an alert finds the reading beyond the clear boundary.
LEMMA EndsWhenClear ==
  ASSUME TypeOK, OnePhase, updateTiles, state.active, ~state'.active, threshold.enabled,
         threshold.operator # NoOperator
  PROVE  thresholdClearConditionMet(reading, threshold)
<1> DEFINE x == evaluateThresholdState(reading, threshold, state, now)
<1>0. /\ threshold \in Configs /\ threshold \in ThresholdType /\ state \in StateType
      /\ now \in Nat /\ Coherent(state) /\ reading # Unavailable
      /\ state' = Updated(threshold, state)
  BY ConfigsAssumption DEF TypeOK, OnePhase, updateTiles
<1>1. SameFlags(state', x)
  BY <1>0, UpdatedFlags
<1>2. ~thresholdClearConditionMet(reading, threshold) => SameFlags(x, state)
  BY <1>0, EvaluateAlerting DEF Off
<1>3. QED
  BY <1>1, <1>2 DEF SameFlags

\* Hysteresis works for every operator but "==", whatever its value, and for
\* "==" without one: no update ends an alert on a reading that would raise it.
THEOREM NoFlicker == Spec => EndsOnlyWhenConditionEnds
<1> DEFINE Exception == threshold.operator = "==" /\ threshold.hysteresis > 0
<1>1. TypeOK /\ OnePhase /\ [Next]_vars => [~Exception => ~Flickers]_vars
  <2> SUFFICES ASSUME TypeOK, OnePhase, ~Exception, Flickers
               PROVE  FALSE
    OBVIOUS
  <2>1. threshold \in ThresholdType /\ reading \in Int
    BY ConfigsAssumption, ValuesAssumption DEF TypeOK, Flickers, updateTiles
  <2>2. threshold.operator # NoOperator
    BY DEF Flickers, evaluateThreshold, NoOperator
  <2>3. thresholdClearConditionMet(reading, threshold)
    BY <2>2, EndsWhenClear DEF Flickers
  <2>4. QED
    BY <2>1, <2>2, <2>3, ClearExcludesMatch DEF Flickers
<1>2. QED
  BY <1>1, TypeCorrect, PhasesExclude, PTL DEF Spec, EndsOnlyWhenConditionEnds

\* An alert that is not sticky is over at the first update beyond the clear
\* boundary, unless it latched before the library made it ordinary.
THEOREM OrdinaryAlertsEnd == Spec => OrdinaryAlertEnds
<1> DEFINE Clears == /\ updateTiles /\ Alerting(state) /\ ~threshold.sticky
                     /\ scope = "tile" \/ ~state.latched
                     /\ thresholdClearConditionMet(reading, threshold)
<1>1. TypeOK /\ OnePhase /\ SnapshotInv /\ [Next]_vars => [Clears => ~Alerting(state')]_vars
  <2> SUFFICES ASSUME TypeOK, OnePhase, SnapshotInv, Clears
               PROVE  ~Alerting(state')
    OBVIOUS
  <2> DEFINE x == evaluateThresholdState(reading, threshold, state, now)
  <2>0. /\ threshold \in Configs /\ threshold \in ThresholdType /\ state \in StateType
        /\ now \in Nat /\ Coherent(state) /\ reading # Unavailable
        /\ state' = Updated(threshold, state)
    BY ConfigsAssumption DEF TypeOK, OnePhase, updateTiles
  <2>1. ~state.latched /\ state.active
    BY DEF SnapshotInv, Worst, Alerting
  <2>2. CASE Off(threshold)
    BY <2>0, <2>2, UpdatedOff DEF Alerting, ZeroState
  <2>3. CASE ~Off(threshold)
    <3>1. ~x.active /\ ~x.latched
      BY <2>0, <2>1, <2>3, EvaluateAlerting DEF IdleWith
    <3>2. QED
      BY <2>0, <3>1, UpdatedFlags DEF Alerting, SameFlags
  <2>4. QED
    BY <2>2, <2>3
<1>2. QED
  BY <1>1, TypeCorrect, PhasesExclude, SnapshotInvariant, PTL DEF Spec, OrdinaryAlertEnds
=============================================================================
