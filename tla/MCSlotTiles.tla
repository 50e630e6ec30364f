---------------------------- MODULE MCSlotTiles -----------------------------
(* A small instance of SlotTiles.  Scale 12 keeps every mean and percentage *)
(* of these values exact.  The user has one of the two tiles: they share    *)
(* nothing but the readings, the library and the ticker.  One reading is    *)
(* below or at all limits, the other at that of warn; either may be gone.   *)
EXTENDS SlotTiles

Limit(v, sticky) ==
  [enabled |-> TRUE, operator |-> ">=", value |-> v, hysteresis |-> 0,
   dwellMs |-> 0, cooldownMs |-> 0, sticky |-> sticky]

MCLevels == [cpu |-> {0, 24}, gpu |-> {12}]

MCConfig == [warn    |-> Limit(12, FALSE),
             crit    |-> Limit(24, TRUE),
             library |-> Limit(24, FALSE)]

MCCompositeSlots ==
  <<[reading |-> "cpu", valid |-> TRUE, list |-> <<"warn", "crit">>,
     enabled |-> {"warn", "crit"}, suppressed |-> FALSE, current |-> None],
    [reading |-> "gpu", valid |-> TRUE, list |-> <<>>, enabled |-> {},
     suppressed |-> FALSE, current |-> None]>>

MCDerivedSlots == <<[reading |-> "cpu", valid |-> TRUE], [reading |-> "gpu", valid |-> TRUE],
                    [reading |-> "gpu", valid |-> TRUE]>>

MCTileSets == {{"composite"}, {"derived"}}
MCDerived == {{"derived"}}
=============================================================================
