--------------------------- MODULE ThresholdState ---------------------------
(***************************************************************************)
(* The life of one threshold on one reading tile: thresholdRuntimeState    *)
(* driven by the ticker (updateTiles), by the tile's key, by edits of the  *)
(* threshold in the Property Inspector and by the tile being hidden and    *)
(* shown.  The threshold is the only one of its tile and the tile has no   *)
(* snooze presets; module TileAlerts has the list and the snooze.          *)
(*                                                                         *)
(* A threshold belongs to its tile or to the global library (scope): a     *)
(* tile's handler forgets the runtime state on an edit, the library's      *)
(* handler keeps it.                                                       *)
(***************************************************************************)
EXTENDS Thresholds

CONSTANTS
  Configs,        \* the threshold settings a user may choose
  Values,         \* the readings HWiNFO may publish
  Unavailable,    \* no reading: HWiNFO or the bridge is gone
  MaxTime         \* bound on the clock

ASSUME ConfigsAssumption  == Configs \subseteq ThresholdType
ASSUME ValuesAssumption   == Values \subseteq Int /\ Unavailable \notin Int
ASSUME MaxTimeAssumption  == MaxTime \in Nat

VARIABLES
  scope,          \* whose threshold it is: "tile" or "global"
  now,            \* time.Now()
  reading,        \* the value the next updateTiles reads, or Unavailable
  threshold,      \* the settings: a Threshold of the tile or of the library
  state,          \* the thresholdRuntimeState

  (* History: what the observer of the tile has seen.                      *)
  matchedSince,   \* start of the current run of matching evaluations, each by
                  \* the settings of its time, of an alert that is not
                  \* suppressed and did not just end
  quietUntil,     \* end of the cooldown of the last alert that ended by itself
  seen,           \* the values evaluated since the alert latched
  era             \* changes when the runtime state is dropped

history == <<matchedSince, quietUntil, seen, era>>
vars    == <<scope, now, reading, threshold, state, history>>

TypeOK ==
  /\ scope \in {"tile", "global"}
  /\ now \in Nat \ {0}
  /\ reading \in Values \cup {Unavailable}
  /\ threshold \in Configs
  /\ state \in StateType
  /\ matchedSince \in Nat /\ quietUntil \in Nat
  /\ seen \subseteq Values /\ era \in {0, 1}

Init ==
  /\ scope \in {"tile", "global"}
  /\ now = 1 /\ reading = Unavailable /\ threshold \in Configs
  /\ state = ZeroState
  /\ matchedSince = NoTime /\ quietUntil = NoTime /\ seen = {} /\ era = 0

-----------------------------------------------------------------------------
(* The environment.                                                        *)

Tick ==
  /\ now < MaxTime
  /\ now' = now + 1
  /\ UNCHANGED <<scope, reading, threshold, state, history>>

\* HWiNFO publishes a value, or goes away, or comes back.
Publish(v) ==
  /\ reading' = v
  /\ UNCHANGED <<scope, now, threshold, state, history>>

-----------------------------------------------------------------------------
(* The plugin.                                                             *)

\* What updateTiles leaves of runtime state s of threshold t: nothing changes
\* without a reading, otherwise the threshold is evaluated and, if it alerts,
\* its snapshot is brought up to date.
Updated(t, s) ==
  IF reading = Unavailable THEN s
  ELSE LET e == evaluateThresholdState(reading, t, s, now)
       IN  IF Alerting(e) THEN Displayed(reading, t, e) ELSE e

\* The history of the same update, from history <<m, q>>.
Record(t, s, m, q) ==
  LET e        == Updated(t, s)
      off      == ~t.enabled \/ t.operator = NoOperator
      matching == ~off /\ evaluateThreshold(reading, t) /\ ~e.suppressedUntilClear
      ended    == ~off /\ s.active /\ ~e.active
  IN  IF reading = Unavailable
      THEN matchedSince' = m /\ quietUntil' = q
           /\ seen' = IF s.latched THEN seen ELSE {}
      ELSE /\ matchedSince' = IF ~matching \/ ended THEN NoTime
                              ELSE IF m = NoTime THEN now ELSE m
           /\ quietUntil' = IF off THEN NoTime
                            ELSE IF ended THEN now + thresholdDurationMs(t.cooldownMs)
                            ELSE q
           /\ seen' = IF e.latched
                      THEN (IF s.latched THEN seen ELSE {}) \cup {reading} ELSE {}

Forget ==
  /\ state' = ZeroState
  /\ matchedSince' = NoTime /\ quietUntil' = NoTime /\ seen' = {}
  /\ era' = 1 - era

\* The ticker's updateTiles, or a refresh on the event goroutine.
updateTiles ==
  /\ reading # Unavailable
  /\ state' = Updated(threshold, state)
  /\ Record(threshold, state, matchedSince, quietUntil)
  /\ UNCHANGED <<scope, now, reading, threshold, era>>

\* The tile's key while the sticky alert is shown; ends with refreshAction.
OnKeyDown ==
  /\ state.latched
  /\ LET s == clearStickyThresholdState(state) IN
       /\ state' = Updated(threshold, s)
       /\ Record(threshold, s, NoTime, quietUntil)
  /\ UNCHANGED <<scope, now, reading, threshold, era>>

\* Fault, for the sensitivity checks only: an edit keeps the runtime state.
UpdateKeepsState(t) ==
  /\ scope = "tile"
  /\ threshold' = t
  /\ state' = Updated(t, state)
  /\ Record(t, ZeroState, NoTime, NoTime)
  /\ era' = 1 - era
  /\ UNCHANGED <<scope, now, reading>>

\* An edit of a tile's threshold forgets the runtime state and refreshes.
handleThresholdUpdate(t) ==
  /\ scope = "tile"
  /\ threshold' = t
  /\ state' = Updated(t, ZeroState)
  /\ Record(t, ZeroState, NoTime, NoTime)
  /\ era' = 1 - era
  /\ UNCHANGED <<scope, now, reading>>

\* The same edit when writing the settings fails: the handler returns before
\* the refresh, but the stored threshold it points into has changed.
handleThresholdUpdateFails(t) ==
  /\ scope = "tile"
  /\ threshold' = t
  /\ Forget
  /\ UNCHANGED <<scope, now, reading>>

\* An edit of a library threshold keeps it and leaves the refresh to the
\* ticker.
handleGlobalThresholdUpdate(t) ==
  /\ scope = "global"
  /\ threshold' = t
  /\ UNCHANGED <<scope, now, reading, state, history>>

\* The tile is hidden or shown: the runtime state of its context is dropped.
OnWillAppear ==
  /\ Forget
  /\ UNCHANGED <<scope, now, reading, threshold>>

Next ==
  \/ Tick
  \/ \E v \in Values \cup {Unavailable} : Publish(v)
  \/ updateTiles
  \/ OnKeyDown
  \/ \E t \in Configs : handleThresholdUpdate(t)
  \/ \E t \in Configs : handleThresholdUpdateFails(t)
  \/ \E t \in Configs : handleGlobalThresholdUpdate(t)
  \/ OnWillAppear

Spec == Init /\ [][Next]_vars
-----------------------------------------------------------------------------
(* Properties.                                                             *)

Coherent(s) ==
  /\ s.latched => s.active
  /\ s.active => ~s.suppressedUntilClear
  /\ s.active \/ s.suppressedUntilClear =>
       s.pendingSince = NoTime /\ s.cooldownUntil = NoTime
  /\ s.cooldownUntil # NoTime => s.pendingSince = NoTime
  /\ s.snapshotPending => s.latched

\* The flags and timers of the runtime state never contradict each other: a
\* latched or suppressed alert runs no timer, suppression excludes an alert,
\* and a snapshot is awaited by a latched alert only.  evaluateThresholdState
\* tests the fields in an order that is right only because of this.
OnePhase == Coherent(state)

Timed(s, m, q) ==
  /\ m <= now
  /\ s.cooldownUntil # NoTime => s.cooldownUntil = q
  /\ q > now => s.cooldownUntil = q
  /\ s.pendingSince # NoTime => m # NoTime /\ m <= s.pendingSince /\ s.pendingSince <= now
  /\ s.suppressedUntilClear => m = NoTime
  /\ ~s.active /\ m # NoTime /\ m >= q => s.pendingSince = m

\* The timers tell the truth about what was observed: a pending dwell began
\* inside the current run of matches, at its start unless a cooldown held it
\* back, and a cooldown is running exactly as long as the last alert asked for,
\* however edits, key presses, outages and hidden tiles come in between.
TimersMatchHistory == Timed(state, matchedSince, quietUntil)

\* The value frozen on a latched tile is one that was read while the alert was
\* latched, and under a tile's own threshold none of the readings since was
\* further beyond it.  (An edit of a library threshold may turn its operator
\* round under a value that is frozen already.)
SnapshotIsWorst ==
  state.latched =>
    /\ state.latchedValue \in seen
    /\ scope = "tile" =>
         \A v \in seen :
           /\ threshold.operator \in {">", ">="} => v <= state.latchedValue
           /\ threshold.operator \in {"<", "<="} => v >= state.latchedValue
           /\ threshold.operator = "==" =>
                Abs(v - threshold.value) <= Abs(state.latchedValue - threshold.value)

\* An update that ends an alert on a reading that would raise it again.
Flickers ==
  /\ updateTiles /\ state.active /\ ~state'.active
  /\ threshold.enabled /\ evaluateThreshold(reading, threshold)

\* No update ends an alert on a reading that would raise it again, unless it is
\* that of an "==" threshold with a hysteresis: its clear boundary is a distance
\* from the value, its match is equality after rounding.
EndsOnlyWhenConditionEnds ==
  [][~(threshold.operator = "==" /\ threshold.hysteresis > 0) => ~Flickers]_vars

\* README: "the reading must clear the threshold by this amount before the
\* alert deactivates, preventing rapid on/off flicker", of every operator.
HysteresisPreventsFlicker == [][~Flickers]_vars

\* README: "Sticky alerts: ... stays active until cleared manually"; an alert
\* that is not sticky, as its settings now are, ends at the clear boundary.
\* (An edit of a library threshold leaves a latched alert latched.)
OrdinaryAlertEnds ==
  [][updateTiles /\ Alerting(state)
     /\ ~threshold.sticky /\ (scope = "tile" \/ ~state.latched)
     /\ thresholdClearConditionMet(reading, threshold)
       => ~Alerting(state')]_vars

PhaseOf(s) ==
  IF s.suppressedUntilClear THEN "acked"
  ELSE IF s.latched THEN "latched"
  ELSE IF s.active THEN "on" ELSE "off"

Alert == INSTANCE Alarm WITH phase <- PhaseOf(state)

\* The engine keeps the promises of the README's "Threshold alerts" section:
\* every step of the runtime state is a step of the abstract alert.
ImplementsAlarm == Alert!Spec
=============================================================================
