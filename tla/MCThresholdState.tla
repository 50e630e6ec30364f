-------------------------- MODULE MCThresholdState --------------------------
(* Small instances of ThresholdState.  Scale 2 makes a model unit 0.5, so   *)
(* that 1..5 are the readings 0.5, 1.0, ..., 2.5.                           *)
EXTENDS ThresholdState

Plain == [enabled |-> TRUE, operator |-> ">=", value |-> 3, hysteresis |-> 0,
          dwellMs |-> 0, cooldownMs |-> 0, sticky |-> FALSE]

\* Every timer and flag the engine knows, on the rising operators.
Rising ==
  { Plain,
    [Plain EXCEPT !.hysteresis = 1, !.dwellMs = 2, !.cooldownMs = 2],
    [Plain EXCEPT !.operator = ">", !.hysteresis = 1, !.dwellMs = 1, !.sticky = TRUE],
    [Plain EXCEPT !.enabled = FALSE] }

\* The falling operators, odd settings (negative hysteresis, dwell and
\* cooldown, no operator), and "==" without hysteresis.
Falling ==
  { [Plain EXCEPT !.operator = "<=", !.hysteresis = 1, !.dwellMs = -1, !.cooldownMs = -3],
    [Plain EXCEPT !.operator = "<", !.dwellMs = 1, !.cooldownMs = 2, !.sticky = TRUE],
    [Plain EXCEPT !.operator = "==", !.hysteresis = -1, !.sticky = TRUE],
    [Plain EXCEPT !.operator = NoOperator] }

AllConfigs == Rising \cup Falling

\* "== 1.0" with a hysteresis of 0.25, in quarters (Scale 4).
Equal ==
  { [Plain EXCEPT !.operator = "==", !.value = 4, !.hysteresis = 1, !.cooldownMs = 1] }

Readings == {1, 2, 3, 4, 5}
=============================================================================
