------------------------------- MODULE Alarm --------------------------------
(***************************************************************************)
(* What a threshold alert promises its user (README.md, "Threshold         *)
(* alerts"), said in terms of the observed readings only and without the   *)
(* bookkeeping of threshold_state.go: an alert is raised after the reading *)
(* has matched for the dwell time and not before the cooldown of the last  *)
(* one is over, an ordinary alert ends when the reading crosses the clear  *)
(* boundary, a sticky alert ends when its user acknowledges it, and an     *)
(* acknowledged alert is silent until the reading has been back to normal. *)
(*                                                                         *)
(* Module ThresholdState, the code's state machine, implements this one.   *)
(***************************************************************************)
EXTENDS Thresholds

CONSTANTS
  Configs,        \* the threshold settings a user may choose
  Values,         \* the readings HWiNFO may publish
  Unavailable     \* no reading

VARIABLES
  now,            \* the clock
  reading,        \* what HWiNFO publishes
  threshold,      \* the settings of the threshold
  phase,          \* what the alert is doing
  matchedSince,   \* start of the current run of matching observations
  quietUntil,     \* end of the last alert's cooldown
  era             \* changes when the alert starts from nothing

alert     == <<phase, matchedSince, quietUntil>>
alarmVars == <<now, reading, threshold, alert, era>>

Phases == {"off", "on", "latched", "acked"}

Init ==
  /\ now = 1 /\ reading = Unavailable /\ threshold \in Configs
  /\ phase = "off" /\ matchedSince = NoTime /\ quietUntil = NoTime
  /\ era = 0

Time    == now' > now /\ UNCHANGED <<reading, threshold, alert, era>>
Publish == reading' \in Values \cup {Unavailable} /\ UNCHANGED <<now, threshold, alert, era>>

-----------------------------------------------------------------------------
(* One observation, from phase p, a run of matches that began at m and a   *)
(* cooldown that ends at q, of a threshold t.                              *)

Served(m, t) == /\ evaluateThreshold(reading, t)
                /\ now - m >= thresholdDurationMs(t.dwellMs)

\* A run of matches, from phase p on: an acknowledged alert has none and the
\* observation that ends an alert starts none.
Run(p, m, t) ==
  IF \/ ~evaluateThreshold(reading, t)
     \/ phase' = "acked"
     \/ p = "on" /\ phase' = "off"
  THEN NoTime
  ELSE IF m = NoTime THEN now ELSE m

\* An idle alert may be raised when the run has served the dwell time and the
\* cooldown is over, and it must be when the whole run lies after the cooldown.
Idle(q, t) ==
  /\ \/ /\ Served(matchedSince', t) /\ now >= q
        /\ phase' = IF t.sticky THEN "latched" ELSE "on"
     \/ /\ ~(Served(matchedSince', t) /\ matchedSince' >= q)
        /\ phase' = "off"
  /\ quietUntil' = q

Stay(p, q) == phase' = p /\ quietUntil' = q

Look(p, m, q, t) ==
  LET clears == thresholdClearConditionMet(reading, t) IN
  /\ matchedSince' = Run(p, m, t)
  /\ \/ p = "off" /\ Idle(q, t)
     \/ p = "on" /\ ~clears /\ Stay(p, q)
     \/ p = "on" /\ clears /\ Stay("off", now + thresholdDurationMs(t.cooldownMs))
     \/ p = "latched" /\ Stay(p, q)
     \/ p = "acked" /\ ~clears /\ Stay(p, q)
     \/ p = "acked" /\ clears /\ Idle(q, t)

Observe(p, m, q, t) ==
  IF reading = Unavailable THEN alert' = <<p, m, q>>
  ELSE IF ~t.enabled \/ t.operator = NoOperator THEN alert' = <<"off", NoTime, NoTime>>
  ELSE Look(p, m, q, t)

-----------------------------------------------------------------------------
Watch ==
  /\ Observe(phase, matchedSince, quietUntil, threshold)
  /\ UNCHANGED <<now, reading, threshold, era>>

\* The user's key press; the tile looks at the reading again at once.
Acknowledge ==
  /\ phase = "latched"
  /\ Observe("acked", NoTime, quietUntil, threshold)
  /\ UNCHANGED <<now, reading, threshold, era>>

\* New settings start from nothing; as a rule the tile looks at once.
Configure ==
  /\ threshold' \in Configs
  /\ \/ Observe("off", NoTime, NoTime, threshold')
     \/ alert' = <<"off", NoTime, NoTime>>
  /\ era' = 1 - era
  /\ UNCHANGED <<now, reading>>

\* New settings of a library threshold, which its tiles look at in time.
Adjust ==
  /\ threshold' \in Configs
  /\ UNCHANGED <<now, reading, alert, era>>

\* A tile that is hidden and shown again starts from nothing.
Restart ==
  /\ alert' = <<"off", NoTime, NoTime>>
  /\ era' = 1 - era
  /\ UNCHANGED <<now, reading, threshold>>

Next == Time \/ Publish \/ Watch \/ Acknowledge \/ Configure \/ Adjust \/ Restart

Spec == Init /\ [][Next]_alarmVars
=============================================================================
