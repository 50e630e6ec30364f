----------------------------- MODULE Thresholds -----------------------------
(***************************************************************************)
(* The pure part of the threshold engine (threshold_state.go, handlers.go):*)
(* how one reading moves the runtime state of one threshold.  There are no *)
(* variables here; ThresholdState drives one threshold with these          *)
(* operators and TileAlerts a tile's whole list.                           *)
(*                                                                         *)
(* Numbers.  The Go code compares float64 values.  Here a value is an      *)
(* integer count of 1/Scale, so Scale stands for 1.0 and Scale \div 2 for  *)
(* the 0.5 of int(value+0.5).  Instants are positive integers and NoTime   *)
(* is Go's zero time.Time.                                                 *)
(***************************************************************************)
EXTENDS Integers

CONSTANT Scale          \* how many model units make 1.0

ASSUME ScaleAssumption == Scale \in Nat \ {0} /\ Scale % 2 = 0

NoTime == 0

\* The zero LatchedValue of a state without a snapshot.
NoValue == 0

Operators == {">", ">=", "<", "<=", "=="}
NoOperator == ""

\* The fields of a Threshold that the engine reads (types.go); names, texts
\* and colours are left out.
ThresholdType ==
  [enabled : BOOLEAN, operator : Operators \cup {NoOperator}, value : Int,
   hysteresis : Int, dwellMs : Int, cooldownMs : Int, sticky : BOOLEAN]

\* thresholdRuntimeState.  The four Latched* fields are written together and
\* stand for one snapshot, identified by its value.
StateType ==
  [pendingSince : Nat, cooldownUntil : Nat, active : BOOLEAN, latched : BOOLEAN,
   suppressedUntilClear : BOOLEAN, snapshotPending : BOOLEAN, latchedValue : Int]

ZeroState ==
  [pendingSince |-> NoTime, cooldownUntil |-> NoTime, active |-> FALSE,
   latched |-> FALSE, suppressedUntilClear |-> FALSE,
   snapshotPending |-> FALSE, latchedValue |-> NoValue]

-----------------------------------------------------------------------------
Abs(n) == IF n < 0 THEN -n ELSE n

\* Go's int(x) of a float: truncation toward zero.
Truncate(n) == IF n >= 0 THEN n \div Scale ELSE -((-n) \div Scale)

Rounded(n) == Truncate(n + Scale \div 2)

thresholdDurationMs(ms) == IF ms <= 0 THEN 0 ELSE ms

evaluateThreshold(v, t) ==
  \/ t.operator = ">"  /\ v > t.value
  \/ t.operator = "<"  /\ v < t.value
  \/ t.operator = ">=" /\ v >= t.value
  \/ t.operator = "<=" /\ v <= t.value
  \/ t.operator = "==" /\ Rounded(v) = Rounded(t.value)

\* Fault, for the sensitivity checks only: the hysteresis on the wrong side of
\* the threshold.
ClearFlipped(v, t) ==
  \/ t.operator \in {">", ">="} /\ v < t.value + t.hysteresis
  \/ t.operator \in {"<", "<="} /\ v > t.value - t.hysteresis
  \/ t.operator = "==" /\ ~evaluateThreshold(v, t)

\* The boundary a value must cross before an alert, or the suppression that
\* follows a manual clear, is lifted.
thresholdClearConditionMet(v, t) ==
  LET h == IF t.hysteresis < 0 THEN 0 ELSE t.hysteresis IN
  \/ t.operator = ">"  /\ v <= t.value - h
  \/ t.operator = ">=" /\ v < t.value - h
  \/ t.operator = "<"  /\ v >= t.value + h
  \/ t.operator = "<=" /\ v > t.value + h
  \/ t.operator = "==" /\ h <= 0 /\ ~evaluateThreshold(v, t)
  \/ t.operator = "==" /\ h > 0  /\ Abs(v - t.value) > h
  \/ t.operator \notin Operators

resetThresholdSnapshot(s) ==
  [s EXCEPT !.snapshotPending = FALSE, !.latchedValue = NoValue]

-----------------------------------------------------------------------------
(* evaluateThresholdState, one operator per outcome.                       *)

\* Faults: a cooldown that is not clamped, an alert that latches whatever its
\* settings, and one that asks for a snapshot without latching.
DeactivatedUnclamped(t, s, now) ==
  [resetThresholdSnapshot(s) EXCEPT
     !.pendingSince = NoTime, !.active = FALSE, !.cooldownUntil = now + 2 * t.cooldownMs]

ActivatedLatches(t, s) ==
  [s EXCEPT !.pendingSince = NoTime, !.active = TRUE, !.latched = TRUE, !.snapshotPending = TRUE]

ActivatedSnapshots(t, s) ==
  [s EXCEPT !.pendingSince = NoTime, !.active = TRUE, !.latched = t.sticky,
            !.snapshotPending = TRUE]

Deactivated(t, s, now) ==
  LET cooldown == thresholdDurationMs(t.cooldownMs) IN
  [resetThresholdSnapshot(s) EXCEPT
     !.pendingSince = NoTime, !.active = FALSE, !.latched = FALSE,
     !.cooldownUntil = IF cooldown > 0 THEN now + cooldown ELSE NoTime]

Activated(t, s) ==
  LET on == [s EXCEPT !.pendingSince = NoTime, !.active = TRUE] IN
  IF t.sticky
  THEN [on EXCEPT !.latched = TRUE, !.snapshotPending = TRUE, !.latchedValue = NoValue]
  ELSE on

\* The dwell timer of an idle threshold whose cooldown is over and whose
\* condition holds: start it, let it run, or raise the alert.
Dwelled(t, s, now) ==
  LET dwell == thresholdDurationMs(t.dwellMs) IN
  IF dwell > 0 /\ s.pendingSince = NoTime THEN [s EXCEPT !.pendingSince = now]
  ELSE IF dwell > 0 /\ now - s.pendingSince < dwell THEN s
  ELSE Activated(t, s)

evaluateThresholdState(v, t, s0, now) ==
  LET clear == thresholdClearConditionMet(v, t)
      s     == [s0 EXCEPT !.suppressedUntilClear = @ /\ ~clear]
  IN  IF ~t.enabled \/ t.operator = NoOperator THEN ZeroState
      ELSE IF s.suppressedUntilClear THEN [s EXCEPT !.pendingSince = NoTime]
      ELSE IF s.latched THEN s
      ELSE IF s.active THEN IF clear THEN Deactivated(t, s, now) ELSE s
      ELSE IF now < s.cooldownUntil THEN [s EXCEPT !.pendingSince = NoTime]
      ELSE IF evaluateThreshold(v, t)
           THEN Dwelled(t, [s EXCEPT !.cooldownUntil = NoTime], now)
      ELSE [s EXCEPT !.cooldownUntil = NoTime, !.pendingSince = NoTime]

\* The boolean that evaluateThresholdState returns, read off the state it
\* leaves: a suppressed threshold reports nothing, a latched one always does.
Alerting(s) == ~s.suppressedUntilClear /\ (s.latched \/ s.active)

\* Fault: a key press that does not silence the alert until the reading is back
\* to normal.
ClearStickyOnlyUnlatches(s) == IF s.latched THEN ZeroState ELSE s

clearStickyThresholdState(s) ==
  IF s.latched
  THEN [resetThresholdSnapshot(s) EXCEPT
          !.pendingSince = NoTime, !.cooldownUntil = NoTime, !.active = FALSE,
          !.latched = FALSE, !.suppressedUntilClear = TRUE]
  ELSE s

-----------------------------------------------------------------------------
(* The value a sticky alert freezes on the tile.                           *)

stickySnapshotShouldUpdate(t, v, snapshot) ==
  \/ t.operator \in {">", ">="} /\ v > snapshot
  \/ t.operator \in {"<", "<="} /\ v < snapshot
  \/ t.operator = "==" /\ Abs(v - t.value) > Abs(snapshot - t.value)

\* Fault: the snapshot is taken once and never brought up to date.
DisplayedOnce(v, t, s) ==
  IF t.sticky /\ s.latched /\ s.snapshotPending
  THEN [s EXCEPT !.latchedValue = v, !.snapshotPending = FALSE]
  ELSE s

\* resolveThresholdDisplay's effect on the state of the displayed threshold.
Displayed(v, t, s) ==
  IF t.sticky /\ s.latched
     /\ (s.snapshotPending \/ stickySnapshotShouldUpdate(t, v, s.latchedValue))
  THEN [s EXCEPT !.latchedValue = v, !.snapshotPending = FALSE]
  ELSE s

\* resolveThresholdDisplay's result: what the tile shows for live value v.
ShownValue(v, t, s) == IF t.sticky /\ s.latched THEN s.latchedValue ELSE v
=============================================================================
