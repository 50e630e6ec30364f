---------------------------- MODULE MCTileAlerts ----------------------------
(* Small instances of TileAlerts: two thresholds of the tile and one of the *)
(* library.  Scale 2 makes a model unit 0.5; a reading of 4 matches all.    *)
EXTENDS TileAlerts, TLC

CONSTANTS warm, hot, shared

Plain == [enabled |-> TRUE, operator |-> ">=", value |-> 3, hysteresis |-> 0,
          dwellMs |-> 0, cooldownMs |-> 0, sticky |-> FALSE]
Sticky == [Plain EXCEPT !.operator = ">", !.sticky = TRUE]

AllIds     == {warm, hot, shared}
Library    == <<shared>>

AllVariants ==
  warm :> {Plain} @@ hot :> {Sticky, [Plain EXCEPT !.enabled = FALSE]}
  @@ shared :> {[Sticky EXCEPT !.dwellMs = 1, !.hysteresis = 1]}

Readings    == {2, 3, 4}
SomePresets == {<<>>, <<1, 0>>}
=============================================================================
