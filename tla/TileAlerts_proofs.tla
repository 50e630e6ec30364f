-------------------------- MODULE TileAlerts_proofs --------------------------
(***************************************************************************)
(* Theorems of TileAlerts and their proofs.                                *)
(***************************************************************************)
EXTENDS TileAlerts, SequenceTheorems, WellFoundedInduction, TLAPS

-----------------------------------------------------------------------------
(* Sequences and their places.                                             *)

LEMMA LeastNatural ==
  ASSUME NEW T \in SUBSET Nat, T # {}
  PROVE  \E m \in T : \A k \in T : m <= k
<1>1. IsWellFoundedOn(OpToRel(<, Nat), Nat)
  BY NatLessThanWellFounded
<1>2. PICK m \in T : \A k \in T : <<k, m>> \notin OpToRel(<, Nat)
  BY <1>1, WFMin
<1>3. \A k \in T : <<k, m>> \in OpToRel(<, Nat) <=> k < m
  BY DEF OpToRel
<1>4. \A k \in T : ~(k < m)
  BY <1>2, <1>3, Zenon
<1>5. QED
  BY <1>4

LEMMA LastPlace ==
  ASSUME NEW n \in Nat, NEW I \in SUBSET (1..n), I # {}
  PROVE  Max(I) \in I /\ \A i \in I : i <= Max(I)
<1> DEFINE T == {n - i : i \in I}
<1>1. T \in SUBSET Nat /\ T # {}
  OBVIOUS
<1>2. PICK m \in T : \A k \in T : m <= k
  BY <1>1, LeastNatural
<1>3. PICK i \in I : m = n - i
  OBVIOUS
<1>4. \A j \in I : n - j \in T /\ j \in Int
  OBVIOUS
<1> HIDE DEF T
<1>5. \A j \in I : i >= j
  BY <1>2, <1>3, <1>4
<1>6. Max(I) \in I /\ \A j \in I : Max(I) >= j
  BY <1>5, Zenon DEF Max
<1>7. QED
  BY <1>6

-----------------------------------------------------------------------------
(* What the operators of Thresholds return and preserve.                   *)

LEMMA DurationType ==
  ASSUME NEW ms \in Int
  PROVE  thresholdDurationMs(ms) \in Nat
BY DEF thresholdDurationMs

LEMMA ZeroStateType == ZeroState \in StateType
<1>1. NoTime \in Nat /\ NoValue \in Int
  BY DEF NoTime, NoValue
<1>2. QED
  BY <1>1 DEF ZeroState, StateType

LEMMA SnapshotType ==
  ASSUME NEW s \in StateType
  PROVE  resetThresholdSnapshot(s) \in StateType
<1>1. NoValue \in Int
  BY DEF NoValue
<1>2. QED
  BY <1>1 DEF resetThresholdSnapshot, StateType

LEMMA DeactivatedType ==
  ASSUME NEW s \in StateType, NEW t \in ThresholdType, NEW n \in Nat
  PROVE  Deactivated(t, s, n) \in StateType
<1>1. (IF thresholdDurationMs(t.cooldownMs) > 0
       THEN n + thresholdDurationMs(t.cooldownMs) ELSE NoTime) \in Nat
  BY DurationType DEF ThresholdType, NoTime
<1>2. QED
  BY <1>1, SnapshotType DEF Deactivated, StateType, NoTime

LEMMA ActivatedType ==
  ASSUME NEW s \in StateType, NEW t
  PROVE  Activated(t, s) \in StateType
<1>1. NoTime \in Nat /\ NoValue \in Int
  BY DEF NoTime, NoValue
<1>2. QED
  BY <1>1 DEF Activated, StateType

LEMMA DwelledType ==
  ASSUME NEW s \in StateType, NEW t, NEW n \in Nat
  PROVE  Dwelled(t, s, n) \in StateType
BY ActivatedType DEF Dwelled, StateType

LEMMA EvaluatedType ==
  ASSUME NEW v, NEW t \in ThresholdType, NEW s \in StateType, NEW n \in Nat
  PROVE  evaluateThresholdState(v, t, s, n) \in StateType
<1> DEFINE u == [s EXCEPT !.suppressedUntilClear = @ /\ ~thresholdClearConditionMet(v, t)]
<1>1. u \in StateType
  BY DEF StateType
<1> HIDE DEF u
<1>2. /\ [u EXCEPT !.pendingSince = NoTime] \in StateType
      /\ [u EXCEPT !.cooldownUntil = NoTime] \in StateType
      /\ [u EXCEPT !.cooldownUntil = NoTime, !.pendingSince = NoTime] \in StateType
  BY <1>1 DEF StateType, NoTime
<1>3. /\ Deactivated(t, u, n) \in StateType
      /\ Dwelled(t, [u EXCEPT !.cooldownUntil = NoTime], n) \in StateType
  BY <1>1, <1>2, DeactivatedType, DwelledType
<1>4. QED
  BY <1>1, <1>2, <1>3, ZeroStateType DEF evaluateThresholdState, u

LEMMA ClearedType ==
  ASSUME NEW s \in StateType
  PROVE  clearStickyThresholdState(s) \in StateType
BY SnapshotType DEF clearStickyThresholdState, StateType, NoTime

\* Displaying an alert changes its snapshot and nothing else.
LEMMA DisplayedAlike ==
  ASSUME NEW s \in StateType, NEW v \in Int, NEW t
  PROVE  /\ Displayed(v, t, s) \in StateType
         /\ Alerting(Displayed(v, t, s)) <=> Alerting(s)
         /\ Displayed(v, t, s).latched = s.latched
BY DEF Displayed, StateType, Alerting

\* A threshold that is enabled and compares stays latched however it is
\* evaluated, and one that is latched by its evaluation is enabled and compares.
LEMMA EvaluatedLatched ==
  ASSUME NEW v, NEW t \in ThresholdType, NEW s \in StateType, NEW n \in Nat
  PROVE  LET e == evaluateThresholdState(v, t, s, n)
         IN  /\ e.latched => t.enabled /\ t.operator # NoOperator
             /\ s.latched /\ t.enabled /\ t.operator # NoOperator => e.latched
<1> DEFINE u == [s EXCEPT !.suppressedUntilClear = @ /\ ~thresholdClearConditionMet(v, t)]
           e == evaluateThresholdState(v, t, s, n)
<1>1. u \in StateType /\ u.latched = s.latched
  BY DEF StateType
<1>2. CASE ~t.enabled \/ t.operator = NoOperator
  <2>1. e = ZeroState
    BY <1>2 DEF evaluateThresholdState
  <2>2. QED
    BY <1>2, <2>1 DEF ZeroState
<1>3. CASE t.enabled /\ t.operator # NoOperator
  <2>1. CASE u.suppressedUntilClear
    <3>1. e = [u EXCEPT !.pendingSince = NoTime]
      BY <1>3, <2>1 DEF evaluateThresholdState
    <3>2. QED
      BY <1>1, <1>3, <3>1 DEF StateType
  <2>2. CASE ~u.suppressedUntilClear /\ u.latched
    <3>1. e = u
      BY <1>3, <2>2 DEF evaluateThresholdState
    <3>2. QED
      BY <1>1, <1>3, <2>2, <3>1
  <2>3. CASE ~u.suppressedUntilClear /\ ~u.latched
    BY <1>1, <1>3, <2>3
  <2>4. QED
    BY <2>1, <2>2, <2>3
<1>4. QED
  BY <1>2, <1>3
-----------------------------------------------------------------------------
(* A tile's thresholds and the last match.                                 *)

LEMMA OrderType ==
  ASSUME TypeOK
  PROVE  /\ Order \in Seq(Ids) /\ Len(Order) \in Nat /\ DOMAIN Order = 1 .. Len(Order)
         /\ Thresholds \subseteq Ids
         /\ \A id \in Thresholds : \E i \in DOMAIN Order : Order[i] = id
<1>1. list \in Seq(Ids) /\ Globals \in Seq(Ids)
  BY LibraryAssumption, SeqMonotonic DEF TypeOK, Own
<1>2. Order \in Seq(Ids) /\ Len(Order) = Len(list) + Len(Globals)
      /\ \A i \in 1 .. Len(list) + Len(Globals) :
           Order[i] = IF i <= Len(list) THEN list[i] ELSE Globals[i - Len(list)]
  BY <1>1, ConcatProperties DEF Order
<1>3. /\ Len(Order) \in Nat /\ DOMAIN Order = 1 .. Len(Order)
      /\ Len(list) \in Nat /\ DOMAIN list = 1 .. Len(list)
      /\ Len(Globals) \in Nat /\ DOMAIN Globals = 1 .. Len(Globals)
  BY <1>1, <1>2, LenProperties
<1>4. \A i \in DOMAIN list : list[i] \in Ids /\ i \in DOMAIN Order /\ Order[i] = list[i]
  BY <1>1, <1>2, <1>3, ElementOfSeq
<1>5. \A i \in DOMAIN Globals : /\ Globals[i] \in Ids
                                /\ i + Len(list) \in DOMAIN Order
                                /\ Order[i + Len(list)] = Globals[i]
  BY <1>1, <1>2, <1>3, ElementOfSeq
<1>6. QED
  BY <1>2, <1>3, <1>4, <1>5, Zenon DEF Thresholds, resolveThresholdsForEval, ToSet

LEMMA WinnerIsLast ==
  ASSUME TypeOK, NEW states
  PROVE  LastMatch(states, Winner(states)) /\ Winner(states) \in Ids \cup {None}
<1> DEFINE I == {i \in 1 .. Len(Order) : Matches(states, Order[i])}
<1>1. CASE I = {}
  <2>1. Winner(states) = None
    BY <1>1, OrderType DEF Winner, SelectLastInSeq
  <2>2. \A i \in DOMAIN Order : ~Matches(states, Order[i])
    BY <1>1, OrderType
  <2>3. \A id \in Thresholds : ~Alerting(states[id])
    BY <2>2, OrderType, Zenon DEF Matches
  <2>4. QED
    BY <2>1, <2>3 DEF LastMatch
<1>2. CASE I # {}
  <2>1. PICK m \in I : m = Max(I) /\ \A i \in I : i <= m
    BY <1>2, OrderType, LastPlace
  <2>2. m \in 1 .. Len(Order) /\ m # 0 /\ Matches(states, Order[m])
    OBVIOUS
  <2>3. Winner(states) = Order[m]
    BY <1>2, <2>1, <2>2 DEF Winner, SelectLastInSeq
  <2>4. \A j \in m + 1 .. Len(Order) : j \in 1 .. Len(Order) /\ ~(j <= m)
    BY <2>2, OrderType
  <2>5. \A j \in m + 1 .. Len(Order) : ~Matches(states, Order[j])
    BY <2>1, <2>4
  <2>6. Order[m] \in Ids
    BY <2>2, OrderType, ElementOfSeq
  <2>7. QED
    BY <2>2, <2>3, <2>5, <2>6, OrderType, Zenon DEF LastMatch
<1>3. QED
  BY <1>1, <1>2

\* The last match depends on which thresholds alert and on nothing else.
LEMMA LastMatchAlike ==
  ASSUME TypeOK, NEW p, NEW q, NEW id, LastMatch(p, id),
         \A i \in Ids : Alerting(p[i]) <=> Alerting(q[i])
  PROVE  LastMatch(q, id)
<1>1. \A i \in Ids : Matches(p, i) <=> Matches(q, i)
  BY DEF Matches
<1>2. \A i \in DOMAIN Order : Order[i] \in Ids
  BY OrderType, ElementOfSeq
<1>3. CASE id = None /\ \A i \in Thresholds : ~Alerting(p[i])
  BY <1>3, OrderType DEF LastMatch
<1>4. CASE \E i \in DOMAIN Order :
             /\ id = Order[i] /\ Matches(p, id)
             /\ \A j \in i + 1 .. Len(Order) : ~Matches(p, Order[j])
  <2>1. PICK i \in DOMAIN Order :
             /\ id = Order[i] /\ Matches(p, id)
             /\ \A j \in i + 1 .. Len(Order) : ~Matches(p, Order[j])
    BY <1>4
  <2>2. Matches(q, id)
    BY <1>1, <1>2, <2>1
  <2>3. \A j \in i + 1 .. Len(Order) : j \in DOMAIN Order
    BY <2>1, OrderType
  <2>4. \A j \in i + 1 .. Len(Order) : ~Matches(q, Order[j])
    BY <1>1, <1>2, <2>1, <2>3
  <2>5. QED
    BY <2>1, <2>2, <2>4 DEF LastMatch
<1>5. QED
  BY <1>3, <1>4 DEF LastMatch
-----------------------------------------------------------------------------
(* An update of the tile.                                                  *)

ColorsRight(t) == t.painted = IF t.snooze = None THEN t.current ELSE None

Compares(c) == c.enabled /\ c.operator # NoOperator

\* What holds of a tile between two steps: unless it is marked it shows its last
\* match and snoozes nothing else, and its colours are the alert's unless something
\* was lost; a latched threshold is one that can be latched.
TileInv(t, cfg) ==
  /\ ~t.dirty /\ ~t.fresh /\ ~t.spent => /\ LastMatch(t.states, t.current)
                                         /\ t.current = None => t.snooze = None
  /\ ~t.dirty /\ ~t.lost => ColorsRight(t)
  /\ \A id \in Ids : t.states[id].latched => Compares(cfg[id])

LEMMA EvaluatedStates ==
  ASSUME TypeOK, NEW t \in TileType, NEW cfg \in [Ids -> ThresholdType]
  PROVE  LET e == evaluateThresholds(t.states, cfg)
         IN  /\ e \in [Ids -> StateType]
             /\ \A id \in Ids : e[id].latched => Compares(cfg[id])
             /\ \A id \in Thresholds : t.states[id].latched /\ Compares(cfg[id]) => e[id].latched
<1> DEFINE e == evaluateThresholds(t.states, cfg)
<1>1. now \in Nat /\ t.states \in [Ids -> StateType] /\ Thresholds \subseteq Ids
  BY OrderType DEF TypeOK, TileType
<1>2. ASSUME NEW id \in Ids, id \in Thresholds
      PROVE  /\ e[id] \in StateType
             /\ e[id].latched => Compares(cfg[id])
             /\ t.states[id].latched /\ Compares(cfg[id]) => e[id].latched
  <2>1. e[id] = evaluateThresholdState(reading, cfg[id], t.states[id], now)
    BY <1>2 DEF evaluateThresholds
  <2>2. cfg[id] \in ThresholdType /\ t.states[id] \in StateType
    BY <1>1
  <2>3. QED
    BY <1>1, <2>1, <2>2, EvaluatedType, EvaluatedLatched DEF Compares
<1>3. ASSUME NEW id \in Ids, id \notin Thresholds
      PROVE  e[id] \in StateType /\ ~e[id].latched
  <2>1. e[id] = ZeroState
    BY <1>3 DEF evaluateThresholds
  <2>2. QED
    BY <2>1, ZeroStateType DEF ZeroState
<1>4. e = [id \in Ids |-> e[id]]
  BY DEF evaluateThresholds
<1> HIDE DEF e
<1>5. e \in [Ids -> StateType]
  BY <1>2, <1>3, <1>4
<1>6. QED
  BY <1>1, <1>2, <1>3, <1>5 DEF e

LEMMA RenderedInv ==
  ASSUME TypeOK, reading # Unavailable,
         NEW t \in TileType, NEW cfg \in [Ids -> ThresholdType], TileInv(t, cfg)
  PROVE  /\ Rendered(t, cfg) \in TileType
         /\ TileInv(Rendered(t, cfg), cfg)
         /\ \A id \in Thresholds : t.states[id].latched => Rendered(t, cfg).states[id].latched
<1> DEFINE e       == evaluateThresholds(t.states, cfg)
           active  == Winner(e)
           snooze  == SnoozeAfter(t, active)
           repaint == Repaint(t, snooze, active)
           states  == [id \in Ids |-> IF id = active THEN Displayed(reading, cfg[id], e[id])
                                      ELSE e[id]]
           r       == Rendered(t, cfg)
<1>1. /\ r.states = states /\ r.snooze = snooze /\ r.fresh = FALSE
      /\ r.current = IF repaint THEN active ELSE t.current
      /\ r.painted = IF ~repaint THEN t.painted ELSE IF snooze = None THEN active ELSE None
  BY DEF Rendered
<1>2. (r.dirty <=> snooze # t.snooze) /\ (r.lost <=> t.lost /\ ~repaint)
  BY Zenon DEF Rendered
<1>3. e \in [Ids -> StateType]
  BY EvaluatedStates
<1>4. reading \in Int
  BY ValuesAssumption DEF TypeOK
<1>5. active \in Ids \cup {None} /\ LastMatch(e, active)
  BY WinnerIsLast
<1>6. snooze \in {None} \cup [duration : Nat, until : Nat]
  BY DEF SnoozeAfter, TileType
<1>7. \A id \in Ids : /\ states[id] \in StateType
                      /\ Alerting(e[id]) <=> Alerting(states[id])
                      /\ states[id].latched = e[id].latched
  BY <1>3, <1>4, DisplayedAlike
<1>8. active = None => snooze = None
  BY DEF SnoozeAfter
<1>9. repaint <=> t.dirty \/ snooze # t.snooze \/ active # t.current
  BY Zenon DEF Repaint
<1>10. /\ \A id \in Ids : e[id].latched => Compares(cfg[id])
       /\ \A id \in Thresholds : t.states[id].latched /\ Compares(cfg[id]) => e[id].latched
  BY EvaluatedStates
<1>11. r = [states |-> r.states, snooze |-> r.snooze, dirty |-> r.dirty, fresh |-> r.fresh,
            current |-> r.current, painted |-> r.painted, lost |-> r.lost,
            spent |-> r.spent]
  BY DEF Rendered
<1>12. r.dirty \in BOOLEAN /\ r.lost \in BOOLEAN /\ r.spent \in BOOLEAN
  BY DEF Rendered
<1>13. states \in [Ids -> StateType]
  BY <1>7
<1> HIDE DEF e, active, snooze, repaint, states, r
<1>14. r.current = active
  BY <1>1, <1>9
<1>15. r \in TileType
  <2>1. /\ r.states \in [Ids -> StateType] /\ r.fresh \in BOOLEAN
        /\ r.snooze \in {None} \cup [duration : Nat, until : Nat]
        /\ r.current \in Ids \cup {None} /\ r.painted \in Ids \cup {None}
    BY <1>1, <1>5, <1>6, <1>13, <1>14 DEF TileType
  <2>2. QED
    BY <1>11, <1>12, <2>1 DEF TileType
<1>16. LastMatch(r.states, r.current)
  BY <1>1, <1>5, <1>7, <1>14, LastMatchAlike
<1>17. r.current = None => r.snooze = None
  BY <1>1, <1>8, <1>14
<1>18. ~r.dirty /\ ~r.lost => ColorsRight(r)
  <2>1. CASE repaint
    BY <1>1, <1>14, <2>1 DEF ColorsRight
  <2>2. CASE ~repaint
    BY <1>1, <1>2, <1>9, <1>14, <2>2 DEF ColorsRight, TileInv
  <2>3. QED
    BY <2>1, <2>2
<1>19. \A id \in Ids : r.states[id].latched => Compares(cfg[id])
  BY <1>1, <1>7, <1>10
<1>20. \A id \in Thresholds : t.states[id].latched => r.states[id].latched
  BY <1>1, <1>7, <1>10, OrderType DEF TileInv
<1>21. QED
  BY <1>15, <1>16, <1>17, <1>18, <1>19, <1>20 DEF TileInv, r

LEMMA UpdatedInv ==
  ASSUME TypeOK, NEW t \in TileType, NEW cfg \in [Ids -> ThresholdType], TileInv(t, cfg)
  PROVE  /\ Updated(t, cfg) \in TileType
         /\ TileInv(Updated(t, cfg), cfg)
         /\ \A id \in Thresholds : t.states[id].latched => Updated(t, cfg).states[id].latched
<1>1. CASE reading = Unavailable
  <2> DEFINE u == showUnavailable(t)
  <2>1. Updated(t, cfg) = u
    BY <1>1 DEF Updated
  <2>2. u \in TileType /\ u.fresh = TRUE /\ u.dirty = FALSE /\ (u.lost <=> t.lost \/ t.dirty)
    BY DEF showUnavailable, TileType
  <2>3. /\ u.states = t.states /\ u.snooze = t.snooze /\ u.current = t.current
        /\ u.painted = t.painted
    BY DEF showUnavailable, TileType
  <2> HIDE DEF u
  <2>4. TileInv(u, cfg)
    BY <2>2, <2>3 DEF TileInv, ColorsRight
  <2>5. QED
    BY <2>1, <2>2, <2>3, <2>4
<1>2. CASE reading # Unavailable /\ (t.dirty \/ t.fresh) /\ divides
  <2>1. Updated(t, cfg) = Rendered(t, cfg)
    BY <1>2 DEF Updated
  <2>2. QED
    BY <1>2, <2>1, RenderedInv
<1>3. CASE reading # Unavailable /\ (t.dirty \/ t.fresh) /\ ~divides
  <2> DEFINE u == Undivided(t)
  <2>1. Updated(t, cfg) = u
    BY <1>3 DEF Updated
  <2>2. /\ u \in TileType /\ u.fresh = t.fresh /\ u.dirty = FALSE
        /\ (u.lost <=> t.lost \/ t.dirty) /\ (u.spent <=> t.spent \/ t.dirty)
    BY DEF Undivided, TileType
  <2>3. /\ u.states = t.states /\ u.snooze = t.snooze /\ u.current = t.current
        /\ u.painted = t.painted
    BY DEF Undivided, TileType
  <2> HIDE DEF u
  <2>4. TileInv(u, cfg)
    BY <2>2, <2>3 DEF TileInv, ColorsRight
  <2>5. QED
    BY <2>1, <2>2, <2>3, <2>4
<1>4. CASE reading # Unavailable /\ ~t.dirty /\ ~t.fresh
  <2>1. Updated(t, cfg) = t
    BY <1>4 DEF Updated
  <2>2. QED
    BY <2>1
<1>5. QED
  BY <1>1, <1>2, <1>3, <1>4

\* An update leaves a snooze as it is or ends it.
LEMMA UpdatedSnooze ==
  ASSUME NEW t \in TileType, NEW cfg
  PROVE  Updated(t, cfg).snooze \in {t.snooze, None}
<1>1. Rendered(t, cfg).snooze \in {t.snooze, None}
  BY DEF Rendered, SnoozeAfter
<1>2. showUnavailable(t).snooze = t.snooze /\ Undivided(t).snooze = t.snooze
  BY DEF showUnavailable, Undivided, TileType
<1>3. QED
  BY <1>1, <1>2 DEF Updated
-----------------------------------------------------------------------------
(* Lists of ids without repetition.                                        *)

LEMMA SameElements ==
  ASSUME NEW s, NEW t,
         \A j \in DOMAIN s : \E k \in DOMAIN t : t[k] = s[j],
         \A j \in DOMAIN t : \E k \in DOMAIN s : s[k] = t[j]
  PROVE  ToSet(t) = ToSet(s)
<1>1. ASSUME NEW x \in ToSet(t) PROVE x \in ToSet(s)
  <2>1. PICK j \in DOMAIN t : x = t[j]
    BY DEF ToSet
  <2>2. PICK k \in DOMAIN s : s[k] = t[j]
    OBVIOUS
  <2>3. QED
    BY <2>1, <2>2 DEF ToSet
<1>2. ASSUME NEW x \in ToSet(s) PROVE x \in ToSet(t)
  <2>1. PICK j \in DOMAIN s : x = s[j]
    BY DEF ToSet
  <2>2. PICK k \in DOMAIN t : t[k] = s[j]
    OBVIOUS
  <2>3. QED
    BY <2>1, <2>2 DEF ToSet
<1>3. QED
  BY <1>1, <1>2

LEMMA AppendDistinct ==
  ASSUME NEW S, NEW s \in Seq(S), IsInjective(s), NEW x \in S, x \notin ToSet(s)
  PROVE  Append(s, x) \in Seq(S) /\ IsInjective(Append(s, x))
<1>1. /\ Append(s, x) \in Seq(S) /\ Len(Append(s, x)) = Len(s) + 1
      /\ \A i \in 1 .. Len(s) : Append(s, x)[i] = s[i]
      /\ Append(s, x)[Len(s) + 1] = x
  BY AppendProperties
<1>2. /\ Len(s) \in Nat /\ DOMAIN s = 1 .. Len(s)
      /\ DOMAIN Append(s, x) = 1 .. Len(s) + 1
  BY <1>1, LenProperties
<1>3. \A i \in 1 .. Len(s) : s[i] # x
  BY <1>2 DEF ToSet
<1>4. QED
  BY <1>1, <1>2, <1>3 DEF IsInjective

LEMMA SwapDistinct ==
  ASSUME NEW S, NEW s \in Seq(S), IsInjective(s), NEW i \in 2 .. Len(s)
  PROVE  LET t == [s EXCEPT ![i - 1] = s[i], ![i] = s[i - 1]]
         IN  t \in Seq(S) /\ IsInjective(t) /\ ToSet(t) = ToSet(s)
<1> DEFINE t == [s EXCEPT ![i - 1] = s[i], ![i] = s[i - 1]]
<1>1. Len(s) \in Nat /\ DOMAIN s = 1 .. Len(s) /\ s \in [1 .. Len(s) -> S]
  BY LenProperties
<1>2. i \in 1 .. Len(s) /\ i - 1 \in 1 .. Len(s) /\ i # i - 1
  BY <1>1
<1>3. t \in [1 .. Len(s) -> S]
  BY <1>1, <1>2
<1>4. t[i] = s[i - 1] /\ t[i - 1] = s[i]
      /\ \A j \in 1 .. Len(s) : j # i /\ j # i - 1 => t[j] = s[j]
  BY <1>1, <1>2
<1>5. DOMAIN t = 1 .. Len(s)
  BY <1>1
<1>6. t \in Seq(S)
  BY <1>1, <1>3, SeqDef
<1> HIDE DEF t
<1>7. IsInjective(t)
  BY <1>1, <1>2, <1>4, <1>5 DEF IsInjective
<1>8. /\ \A j \in DOMAIN s : \E k \in DOMAIN t : t[k] = s[j]
      /\ \A j \in DOMAIN t : \E k \in DOMAIN s : s[k] = t[j]
  BY <1>1, <1>2, <1>4, <1>5
<1>9. ToSet(t) = ToSet(s)
  BY <1>8, SameElements
<1>10. QED
  BY <1>6, <1>7, <1>9 DEF t

LEMMA RemoveDistinct ==
  ASSUME NEW S, NEW s \in Seq(S), IsInjective(s), NEW i \in DOMAIN s
  PROVE  /\ RemoveAt(s, i) \in Seq(S) /\ IsInjective(RemoveAt(s, i))
         /\ ToSet(RemoveAt(s, i)) = ToSet(s) \ {s[i]}
<1> DEFINE p == SubSeq(s, 1, i - 1)
           q == SubSeq(s, i + 1, Len(s))
           r == RemoveAt(s, i)
<1>1. /\ Len(s) \in Nat /\ DOMAIN s = 1 .. Len(s) /\ i \in 1 .. Len(s)
      /\ \A j \in 1 .. Len(s) : s[j] \in S
  BY LenProperties, ElementOfSeq
<1>2. p \in Seq(S) /\ Len(p) = i - 1 /\ \A j \in 1 .. i - 1 : p[j] = s[j]
  <2>1. 1 \in Int /\ i - 1 \in Int /\ \A j \in 1 .. i - 1 : s[j] \in S
    BY <1>1
  <2>2. /\ p \in Seq(S) /\ Len(p) = IF 1 <= i - 1 THEN (i - 1) - 1 + 1 ELSE 0
        /\ \A j \in 1 .. (i - 1) - 1 + 1 : p[j] = s[1 + j - 1]
    BY <2>1, SubSeqProperties
  <2>3. QED
    BY <1>1, <2>2
<1>3. q \in Seq(S) /\ Len(q) = Len(s) - i /\ \A j \in 1 .. Len(s) - i : q[j] = s[i + j]
  <2>1. i + 1 \in Int /\ Len(s) \in Int /\ \A j \in i + 1 .. Len(s) : s[j] \in S
    BY <1>1
  <2>2. /\ q \in Seq(S) /\ Len(q) = IF i + 1 <= Len(s) THEN Len(s) - (i + 1) + 1 ELSE 0
        /\ \A j \in 1 .. Len(s) - (i + 1) + 1 : q[j] = s[(i + 1) + j - 1]
    BY <2>1, SubSeqProperties
  <2>3. QED
    BY <1>1, <2>2
<1>4. r = p \o q
  BY DEF RemoveAt
<1> HIDE DEF p, q, r
<1>5. /\ r \in Seq(S) /\ Len(r) = Len(s) - 1
      /\ \A j \in 1 .. Len(s) - 1 : r[j] = IF j < i THEN s[j] ELSE s[j + 1]
  <2>1. /\ r \in Seq(S) /\ Len(r) = Len(p) + Len(q)
        /\ \A j \in 1 .. Len(p) + Len(q) : r[j] = IF j <= Len(p) THEN p[j] ELSE q[j - Len(p)]
    BY <1>2, <1>3, <1>4, ConcatProperties
  <2>2. Len(p) + Len(q) = Len(s) - 1 /\ Len(p) = i - 1
    BY <1>1, <1>2, <1>3
  <2>3. ASSUME NEW j \in 1 .. Len(s) - 1
        PROVE  r[j] = IF j < i THEN s[j] ELSE s[j + 1]
    <3>1. CASE j < i
      <4>1. j \in 1 .. i - 1 /\ j <= Len(p)
        BY <1>1, <2>2, <3>1
      <4>2. QED
        BY <1>2, <2>1, <2>2, <3>1, <4>1
    <3>2. CASE ~(j < i)
      <4>1. /\ j - Len(p) \in 1 .. Len(s) - i /\ ~(j <= Len(p))
            /\ i + (j - Len(p)) = j + 1
        BY <1>1, <2>2, <3>2
      <4>2. r[j] = q[j - Len(p)]
        BY <2>1, <2>2, <4>1
      <4>3. q[j - Len(p)] = s[i + (j - Len(p))]
        BY <1>3, <4>1
      <4>4. QED
        BY <3>2, <4>1, <4>2, <4>3
    <3>3. QED
      BY <3>1, <3>2
  <2>4. QED
    BY <2>1, <2>2, <2>3
<1>6. DOMAIN r = 1 .. Len(s) - 1
  BY <1>5, LenProperties
<1>7. IsInjective(r)
  <2> SUFFICES ASSUME NEW j \in DOMAIN r, NEW k \in DOMAIN r, r[j] = r[k]
               PROVE  j = k
    BY DEF IsInjective
  <2> DEFINE at(m) == IF m < i THEN m ELSE m + 1
  <2>1. /\ at(j) \in DOMAIN s /\ r[j] = s[at(j)]
        /\ at(k) \in DOMAIN s /\ r[k] = s[at(k)]
    BY <1>1, <1>5, <1>6
  <2>2. at(j) = at(k)
    BY <2>1, Zenon DEF IsInjective
  <2>3. QED
    BY <1>1, <1>6, <2>2
<1>8. ToSet(r) = ToSet(s) \ {s[i]}
  <2>1. ASSUME NEW j \in DOMAIN r
        PROVE  \E k \in DOMAIN s : k # i /\ s[k] = r[j]
    <3>1. CASE j < i
      BY <1>1, <1>5, <1>6, <3>1
    <3>2. CASE ~(j < i)
      <4>1. j + 1 \in DOMAIN s /\ j + 1 # i /\ s[j + 1] = r[j]
        BY <1>1, <1>5, <1>6, <3>2
      <4>2. QED
        BY <4>1
    <3>3. QED
      BY <3>1, <3>2
  <2>2. ASSUME NEW k \in DOMAIN s, k # i
        PROVE  \E j \in DOMAIN r : s[k] = r[j]
    <3>1. CASE k < i
      BY <1>1, <1>5, <1>6, <3>1
    <3>2. CASE ~(k < i)
      <4>1. k - 1 \in DOMAIN r /\ r[k - 1] = s[k]
        BY <1>1, <1>5, <1>6, <2>2, <3>2
      <4>2. QED
        BY <4>1
    <3>3. QED
      BY <3>1, <3>2
  <2>3. \A k \in DOMAIN s : k # i => s[k] # s[i]
    BY DEF IsInjective
  <2>4. ASSUME NEW x \in ToSet(r) PROVE x \in ToSet(s) \ {s[i]}
    <3>1. PICK j \in DOMAIN r : x = r[j]
      BY DEF ToSet
    <3>2. PICK k \in DOMAIN s : k # i /\ s[k] = r[j]
      BY <2>1
    <3>3. QED
      BY <2>3, <3>1, <3>2 DEF ToSet
  <2>5. ASSUME NEW x \in ToSet(s) \ {s[i]} PROVE x \in ToSet(r)
    <3>1. PICK k \in DOMAIN s : x = s[k]
      BY DEF ToSet
    <3>2. PICK j \in DOMAIN r : s[k] = r[j]
      BY <2>2, <3>1
    <3>3. QED
      BY <3>1, <3>2 DEF ToSet
  <2>6. QED
    BY <2>4, <2>5
<1>9. QED
  BY <1>5, <1>7, <1>8 DEF r
-----------------------------------------------------------------------------
(* The inductive invariant.                                                *)

Unlatched(t) == \A id \in Ids : ~t.states[id].latched

\* The duration of a snooze is among the presets.
Offered(snooze, ps) == snooze # None => snooze.duration \in ToSet(ps)

Inv ==
  /\ TypeOK /\ Offered(tile.snooze, presets)
  /\ IF visible THEN TileInv(tile, config) ELSE Unlatched(tile)

\* A tile that is marked is only asked that what is latched can be.
LEMMA MarkedInv ==
  ASSUME NEW t, NEW cfg, t.dirty, \A id \in Ids : t.states[id].latched => Compares(cfg[id])
  PROVE  TileInv(t, cfg)
BY DEF TileInv

\* The lists of thresholds stay as they are, and so does what the last match is.
LEMMA SameListInv ==
  ASSUME list' = list, suppressed' = suppressed, TileInv(tile', config')
  PROVE  TileInv(tile, config)'
BY DEF TileInv, ColorsRight, Compares, LastMatch, Matches, Thresholds, Order,
       resolveThresholdsForEval

LEMMA NewTileType ==
  /\ NewTile \in TileType /\ NewTile.dirty = FALSE /\ NewTile.snooze = None
  /\ \A id \in Ids : NewTile.states[id] = ZeroState
BY ZeroStateType DEF NewTile, TileType

LEMMA ZeroUnlatched == ~ZeroState.latched
BY DEF ZeroState

LEMMA InitInv == Init => Inv
<1> SUFFICES ASSUME Init PROVE Inv
  OBVIOUS
<1>1. list \in Seq(Own) /\ IsInjective(list)
  <2>1. CASE list = <<>>
    BY <2>1, EmptySeq, LenProperties DEF IsInjective
  <2>2. ASSUME NEW id \in Own, list = <<id>> PROVE list \in Seq(Own) /\ IsInjective(list)
    <3>1. list \in Seq(Own) /\ DOMAIN list = {1}
      BY <2>2
    <3>2. QED
      BY <3>1 DEF IsInjective
  <2>3. QED
    BY <2>1, <2>2 DEF Init
<1>2. config \in [Ids -> ThresholdType] /\ \A id \in Ids : config[id] \in Variants[id]
  BY VariantsAssumption DEF Init
<1>3. tile \in TileType /\ Unlatched(tile)
  BY NewTileType, ZeroUnlatched DEF Init, Unlatched
<1>4. /\ now \in Nat \ {0} /\ published \in Values \cup {Unavailable}
      /\ reading \in {published, Unavailable} /\ suppressed \subseteq ToSet(Globals)
      /\ presets \in Presets /\ divides \in BOOLEAN /\ visible = FALSE
  BY DEF Init
<1>5. Offered(tile.snooze, presets)
  BY NewTileType DEF Init, Offered
<1>6. QED
  BY <1>1, <1>2, <1>3, <1>4, <1>5 DEF Inv, TypeOK

LEMMA ChosenFromSet ==
  ASSUME NEW S, S # {}
  PROVE  (CHOOSE x \in S : TRUE) \in S
OBVIOUS

\* What a snooze may be after the key, or after its deadline.
LEMMA SnoozeTypes ==
  ASSUME TypeOK, NEW t \in TileType
  PROVE  /\ currentThresholdSnooze(t) \in TileType
         /\ currentThresholdSnooze(t).states = t.states
         /\ currentThresholdSnooze(t).snooze \in {t.snooze, None}
         /\ presets # <<>> => /\ nextThresholdSnoozeDuration(t.snooze)
                                   \in {None} \cup [duration : Nat, until : Nat]
                              /\ Offered(nextThresholdSnoozeDuration(t.snooze), presets)
<1>1. /\ currentThresholdSnooze(t) \in TileType /\ currentThresholdSnooze(t).states = t.states
      /\ currentThresholdSnooze(t).snooze \in {t.snooze, None}
  BY DEF currentThresholdSnooze, TileType
<1>2. \A d \in Nat : SnoozeFor(d) \in [duration : Nat, until : Nat] /\ SnoozeFor(d).duration = d
  <2>1. now \in Nat /\ NoTime \in Nat
    BY DEF TypeOK, NoTime
  <2>2. QED
    BY <2>1 DEF SnoozeFor
<1>3. ASSUME presets # <<>>
      PROVE  /\ nextThresholdSnoozeDuration(t.snooze)
                  \in {None} \cup [duration : Nat, until : Nat]
             /\ Offered(nextThresholdSnoozeDuration(t.snooze), presets)
  <2> DEFINE at == {i \in DOMAIN presets : t.snooze # None /\ presets[i] = t.snooze.duration}
             i  == CHOOSE i \in at : TRUE
  <2>1. presets \in Seq(Nat)
    BY PresetsAssumption DEF TypeOK
  <2>2. Len(presets) \in Nat \ {0} /\ DOMAIN presets = 1 .. Len(presets)
    BY <1>3, <2>1, EmptySeq, LenProperties
  <2>3. \A j \in 1 .. Len(presets) : presets[j] \in Nat /\ presets[j] \in ToSet(presets)
    BY <2>1, <2>2, ElementOfSeq DEF ToSet
  <2>4. CASE at = {}
    <3>1. nextThresholdSnoozeDuration(t.snooze) = SnoozeFor(presets[1])
      BY <2>4 DEF nextThresholdSnoozeDuration
    <3>2. QED
      BY <1>2, <2>2, <2>3, <3>1 DEF Offered
  <2>5. CASE at # {}
    <3>1. nextThresholdSnoozeDuration(t.snooze) =
            IF i = Len(presets) THEN None ELSE SnoozeFor(presets[i + 1])
      BY <2>5 DEF nextThresholdSnoozeDuration
    <3>2. at \subseteq DOMAIN presets
      OBVIOUS
    <3> HIDE DEF at
    <3>3. i \in at
      BY <2>5, ChosenFromSet, Zenon
    <3> HIDE DEF i
    <3>4. i \in 1 .. Len(presets)
      BY <2>2, <3>2, <3>3
    <3>5. \A j \in 1 .. Len(presets) : j # Len(presets) => j + 1 \in 1 .. Len(presets)
      <4>1. \A n \in Nat : \A j \in 1 .. n : j # n => j + 1 \in 1 .. n
        OBVIOUS
      <4>2. QED
        BY <2>2, <4>1
    <3>6. QED
      BY <1>2, <2>3, <3>1, <3>4, <3>5 DEF Offered
  <2>6. QED
    BY <2>4, <2>5
<1>4. QED
  BY <1>1, <1>3
-----------------------------------------------------------------------------
(* Every step keeps it.                                                    *)

\* An update of the tile, after whatever the handler did to it and to the settings.
LEMMA UpdateStep ==
  ASSUME Inv, visible, visible', NEW t \in TileType, TileInv(t, config'),
         Offered(t.snooze, presets'),
         tile' = Updated(t, config'),
         config' \in [Ids -> ThresholdType], \A id \in Ids : config'[id] \in Variants[id],
         presets' \in Presets, UNCHANGED <<now, HWiNFO, list, suppressed, divides>>
  PROVE  Inv'
<1>1. tile' \in TileType /\ TileInv(tile', config')
  BY UpdatedInv DEF Inv
<1>2. TileInv(tile, config)'
  BY <1>1, SameListInv
<1>3. TypeOK'
  BY <1>1 DEF Inv, TypeOK, HWiNFO, Own, TileType, ThresholdType
<1>4. Offered(tile'.snooze, presets')
  BY UpdatedSnooze DEF Offered
<1>5. QED
  BY <1>2, <1>3, <1>4 DEF Inv

\* The handlers that leave the work to the ticker mark the tile.
LEMMA MarkStep ==
  ASSUME Inv, visible, visible', tile' \in TileType, tile'.dirty,
         \A id \in Ids : tile'.states[id].latched => tile.states[id].latched,
         tile'.snooze = tile.snooze, UNCHANGED <<now, HWiNFO, config, presets, divides>>,
         list' \in Seq(Own), IsInjective(list'), suppressed' \subseteq ToSet(Globals)
  PROVE  Inv'
<1>1. \A id \in Ids : tile'.states[id].latched => Compares(config'[id])
  BY DEF Inv, TileInv
<1>2. TileInv(tile, config)'
  BY <1>1 DEF TileInv, Compares
<1>3. TypeOK'
  BY DEF Inv, TypeOK, HWiNFO, Own, TileType, ThresholdType
<1>4. QED
  BY <1>2, <1>3 DEF Inv, Offered

LEMMA TimeStep ==
  ASSUME Inv,
         \/ Tick
         \/ \E v \in Values : Publish(v)
         \/ Outage
         \/ Restore
         \/ UNCHANGED vars
  PROVE  Inv'
<1>1. /\ UNCHANGED <<list, config, suppressed, presets, divides, visible>>
      /\ now' \in Nat \ {0} /\ published' \in Values \cup {Unavailable}
      /\ reading' \in {published', Unavailable}
  BY DEF Inv, TypeOK, Tick, Publish, Outage, Restore, vars, Settings, HWiNFO
<1>2. tile' = tile \/ tile' = [tile EXCEPT !.fresh = TRUE]
  BY DEF Tick, Publish, Outage, Restore, vars
<1>3. tile \in TileType
  BY DEF Inv, TypeOK
<1>4. /\ tile' \in TileType /\ tile'.states = tile.states /\ tile'.snooze = tile.snooze
      /\ tile'.current = tile.current /\ tile'.painted = tile.painted
      /\ tile'.dirty = tile.dirty /\ tile'.lost = tile.lost /\ tile'.spent = tile.spent
      /\ tile'.fresh = FALSE => tile.fresh = FALSE
  BY <1>2, <1>3 DEF TileType
<1>5. TypeOK'
  BY <1>1, <1>4 DEF Inv, TypeOK, Own, TileType, ThresholdType
<1>6. Offered(tile'.snooze, presets')
  BY <1>1, <1>4 DEF Inv, Offered
<1>7. CASE visible
  <2>1. TileInv(tile', config')
    BY <1>1, <1>3, <1>4, <1>7 DEF Inv, TileInv, ColorsRight, TileType
  <2>2. TileInv(tile, config)'
    BY <1>1, <2>1, SameListInv
  <2>3. QED
    BY <1>1, <1>5, <1>7, <1>6, <2>2 DEF Inv
<1>8. CASE ~visible
  BY <1>1, <1>4, <1>5, <1>8, <1>8 DEF Inv, Unlatched
<1>9. QED
  BY <1>7, <1>8

LEMMA RefreshStep == ASSUME Inv, updateTiles PROVE Inv'
<1>1. tile \in TileType /\ TileInv(tile, config') /\ Offered(tile.snooze, presets')
  BY DEF Inv, TypeOK, updateTiles, Settings
<1>2. QED
  BY <1>1, UpdateStep DEF Inv, TypeOK, updateTiles, Settings

LEMMA SnoozeKeyStep == ASSUME Inv, OnKeyDownSnooze PROVE Inv'
<1> DEFINE u == currentThresholdSnooze(tile)
           t == [u EXCEPT !.snooze = nextThresholdSnoozeDuration(u.snooze), !.dirty = TRUE]
<1>1. u \in TileType /\ u.states = tile.states
  BY SnoozeTypes DEF Inv, TypeOK
<1>2. /\ nextThresholdSnoozeDuration(u.snooze) \in {None} \cup [duration : Nat, until : Nat]
      /\ Offered(nextThresholdSnoozeDuration(u.snooze), presets)
  BY <1>1, SnoozeTypes DEF Inv, OnKeyDownSnooze
<1>3. /\ tile' = Updated(t, config')
      /\ UNCHANGED <<now, HWiNFO, list, config, suppressed, presets, divides, visible>>
  BY DEF OnKeyDownSnooze, Settings
<1> HIDE DEF u
<1>4. t \in TileType /\ t.dirty /\ t.states = tile.states /\ Offered(t.snooze, presets)
  BY <1>1, <1>2 DEF TileType
<1> HIDE DEF t
<1>5. TileInv(t, config')
  BY <1>3, <1>4, MarkedInv DEF Inv, TileInv, OnKeyDownSnooze
<1>6. Offered(t.snooze, presets')
  BY <1>3, <1>4 DEF Offered
<1>7. QED
  BY <1>3, <1>4, <1>5, <1>6, UpdateStep DEF Inv, TypeOK, OnKeyDownSnooze

LEMMA ClearKeyStep == ASSUME Inv, OnKeyDownClear PROVE Inv'
<1> DEFINE z == clearStickyThresholdState(tile.states[tile.current])
           t == [tile EXCEPT !.states[tile.current] = z, !.dirty = TRUE, !.current = None]
<1>1. tile \in TileType /\ tile.current \in Ids /\ tile.states[tile.current] \in StateType
  BY DEF Inv, TypeOK, TileType, OnKeyDownClear
<1>2. z \in StateType /\ ~z.latched
  <2>1. z \in StateType
    BY <1>1, ClearedType
  <2>2. ~z.latched
    BY <1>1 DEF OnKeyDownClear, clearStickyThresholdState, resetThresholdSnapshot, StateType
  <2>3. QED
    BY <2>1, <2>2
<1>3. /\ tile' = Updated(t, config')
      /\ UNCHANGED <<now, HWiNFO, list, config, suppressed, presets, divides, visible>>
  BY DEF OnKeyDownClear, Settings
<1> HIDE DEF z
<1>4. /\ t \in TileType /\ t.dirty /\ t.snooze = tile.snooze
      /\ \A id \in Ids : t.states[id] = IF id = tile.current THEN z ELSE tile.states[id]
  BY <1>1, <1>2 DEF TileType
<1> HIDE DEF t
<1>5. TileInv(t, config')
  BY <1>2, <1>3, <1>4, MarkedInv DEF Inv, TileInv, OnKeyDownClear
<1>6. Offered(t.snooze, presets')
  BY <1>3, <1>4 DEF Inv, Offered
<1>7. QED
  BY <1>3, <1>4, <1>5, <1>6, UpdateStep DEF Inv, TypeOK, OnKeyDownClear

LEMMA SnoozeDurationsStep ==
  ASSUME Inv, NEW ps \in Presets, handleSnoozeDurations(ps)
  PROVE  Inv'
<1> DEFINE u == currentThresholdSnooze(tile)
           t == [u EXCEPT !.snooze = None, !.dirty = TRUE]
<1>1. u \in TileType /\ u.states = tile.states /\ (u = tile \/ u.dirty)
  <2>1. u \in TileType /\ u.states = tile.states
    BY SnoozeTypes DEF Inv, TypeOK
  <2>2. u = tile \/ u.dirty
    BY DEF currentThresholdSnooze, Inv, TypeOK, TileType
  <2>3. QED
    BY <2>1, <2>2
<1>2. /\ tile' = Updated(t, config') \/ (tile' = u /\ Offered(u.snooze, presets'))
      /\ visible /\ presets' \in Presets
      /\ UNCHANGED <<now, HWiNFO, list, config, suppressed, divides, visible>>
  BY DEF handleSnoozeDurations, Offered
<1> HIDE DEF u
<1>3. t \in TileType /\ t.dirty /\ t.states = tile.states /\ t.snooze = None
  BY <1>1 DEF TileType
<1> HIDE DEF t
<1>4. CASE tile' = Updated(t, config')
  <2>1. TileInv(t, config') /\ Offered(t.snooze, presets')
    BY <1>2, <1>3, MarkedInv DEF Inv, TileInv, Offered
  <2>2. QED
    BY <1>2, <1>3, <1>4, <2>1, UpdateStep DEF Inv, TypeOK
<1>5. CASE tile' = u /\ Offered(u.snooze, presets')
  <2>1. TileInv(u, config')
    BY <1>1, <1>2, MarkedInv DEF Inv, TileInv
  <2>2. TileInv(tile, config)'
    BY <1>2, <1>5, <2>1, SameListInv
  <2>3. TypeOK'
    BY <1>1, <1>2, <1>5 DEF Inv, TypeOK, HWiNFO, Own, TileType, ThresholdType
  <2>4. QED
    BY <1>2, <1>5, <2>2, <2>3 DEF Inv, Offered
<1>6. QED
  BY <1>2, <1>4, <1>5

LEMMA AddStep == ASSUME Inv, NEW id, handleAddThreshold(id) PROVE Inv'
<1>1. list \in Seq(Own) /\ IsInjective(list) /\ id \in Own /\ id \notin ToSet(list)
  BY DEF Inv, TypeOK, handleAddThreshold
<1>2. list' \in Seq(Own) /\ IsInjective(list')
  BY <1>1, AppendDistinct DEF handleAddThreshold
<1>3. /\ tile' \in TileType /\ tile'.dirty /\ tile'.states = tile.states
      /\ tile'.snooze = tile.snooze
  BY DEF Inv, TypeOK, TileType, handleAddThreshold
<1>4. QED
  BY <1>2, <1>3, MarkStep DEF Inv, TypeOK, handleAddThreshold

LEMMA RemoveStep ==
  ASSUME Inv, NEW id \in Ids, handleRemoveThreshold(id)
  PROVE  Inv'
<1>1. PICK i \in DOMAIN list : list' = RemoveAt(list, i)
  BY DEF handleRemoveThreshold
<1>2. list' \in Seq(Own) /\ IsInjective(list')
  BY <1>1, RemoveDistinct DEF Inv, TypeOK
<1>3. tile \in TileType /\ ZeroState \in StateType
  BY ZeroStateType DEF Inv, TypeOK
<1>4. /\ tile' \in TileType /\ tile'.dirty /\ tile'.snooze = tile.snooze
      /\ \A other \in Ids : tile'.states[other] =
                              IF other = id THEN ZeroState ELSE tile.states[other]
  BY <1>3 DEF TileType, handleRemoveThreshold
<1>5. QED
  BY <1>2, <1>4, ZeroUnlatched, MarkStep DEF Inv, TypeOK, handleRemoveThreshold

LEMMA ReorderStep ==
  ASSUME Inv, NEW i \in DOMAIN list, handleReorderThreshold(i)
  PROVE  Inv'
<1>1. list' \in Seq(Own) /\ IsInjective(list')
  BY SwapDistinct DEF Inv, TypeOK, handleReorderThreshold
<1>2. /\ tile' \in TileType /\ tile'.dirty /\ tile'.states = tile.states
      /\ tile'.snooze = tile.snooze
  BY DEF Inv, TypeOK, TileType, handleReorderThreshold
<1>3. QED
  BY <1>1, <1>2, MarkStep DEF Inv, TypeOK, handleReorderThreshold

LEMMA ThresholdUpdateStep ==
  ASSUME Inv, NEW id \in Ids, NEW c \in Variants[id], handleThresholdUpdate(id, c)
  PROVE  Inv'
<1> DEFINE t == [tile EXCEPT !.states[id] = ZeroState, !.dirty = TRUE]
<1>1. tile' = Updated(t, config') /\ config' = [config EXCEPT ![id] = c]
      /\ visible /\ visible' = visible
      /\ UNCHANGED <<now, HWiNFO, list, suppressed, presets, divides>>
  BY DEF handleThresholdUpdate
<1>2. /\ config' \in [Ids -> ThresholdType]
      /\ \A other \in Ids : config'[other] = IF other = id THEN c ELSE config[other]
  BY <1>1, VariantsAssumption DEF Inv, TypeOK
<1>3. \A other \in Ids : config'[other] \in Variants[other]
  BY <1>2 DEF Inv, TypeOK
<1>4. tile \in TileType /\ ZeroState \in StateType
  BY ZeroStateType DEF Inv, TypeOK
<1>5. /\ t \in TileType /\ t.dirty /\ t.snooze = tile.snooze
      /\ \A other \in Ids : t.states[other] =
                              IF other = id THEN ZeroState ELSE tile.states[other]
  BY <1>4 DEF TileType
<1> HIDE DEF t
<1>6. \A other \in Ids : t.states[other].latched => Compares(config'[other])
  BY <1>1, <1>2, <1>5, ZeroUnlatched DEF Inv, TileInv
<1>7. TileInv(t, config')
  BY <1>5, <1>6, MarkedInv
<1>8. Offered(t.snooze, presets')
  BY <1>1, <1>5 DEF Inv, Offered
<1>9. QED
  BY <1>1, <1>2, <1>3, <1>5, <1>7, <1>8, UpdateStep DEF Inv, TypeOK

LEMMA ThresholdLookStep == ASSUME Inv, NEW id \in Ids, handleThresholdLook(id) PROVE Inv'
<1> DEFINE t == [tile EXCEPT !.dirty = TRUE, !.painted = id]
<1>1. /\ tile' = [tile EXCEPT !.dirty = TRUE] \/ tile' = Updated(t, config')
      /\ visible /\ tile \in TileType
      /\ UNCHANGED <<now, HWiNFO, list, config, suppressed, presets, divides, visible>>
  BY DEF Inv, TypeOK, Settings, handleThresholdLook
<1>2. CASE tile' = [tile EXCEPT !.dirty = TRUE]
  <2>1. /\ tile' \in TileType /\ tile'.dirty /\ tile'.states = tile.states
        /\ tile'.snooze = tile.snooze
    BY <1>1, <1>2 DEF TileType
  <2>2. QED
    BY <1>1, <2>1, MarkStep DEF Inv, TypeOK
<1>3. CASE tile' = Updated(t, config')
  <2>1. t \in TileType /\ t.dirty /\ t.states = tile.states /\ t.snooze = tile.snooze
    BY <1>1 DEF TileType
  <2> HIDE DEF t
  <2>2. TileInv(t, config') /\ Offered(t.snooze, presets')
    BY <1>1, <2>1, MarkedInv DEF Inv, TileInv
  <2>3. QED
    BY <1>1, <1>3, <2>1, <2>2, UpdateStep DEF Inv, TypeOK
<1>4. QED
  BY <1>1, <1>2, <1>3

\* A divisor that is edited changes nothing of the tile.
LEMMA DivisorStep == ASSUME Inv, NEW number \in BOOLEAN, handleDivisor(number) PROVE Inv'
<1>1. /\ UNCHANGED <<now, HWiNFO, list, config, suppressed, presets, visible, tile>>
      /\ divides' \in BOOLEAN /\ visible
  BY DEF handleDivisor
<1>2. TypeOK'
  BY <1>1 DEF Inv, TypeOK, HWiNFO, Own, TileType, ThresholdType
<1>3. TileInv(tile, config)'
  BY <1>1, SameListInv DEF Inv
<1>4. QED
  BY <1>1, <1>2, <1>3 DEF Inv, Offered

LEMMA ColorStep == ASSUME Inv, handleColorChange PROVE Inv'
<1>1. tile \in TileType /\ UNCHANGED <<now, HWiNFO, Settings>> /\ visible
      /\ tile' = [tile EXCEPT !.painted = None, !.lost = @ \/ tile.painted # None]
  BY DEF Inv, TypeOK, handleColorChange
<1>2. /\ tile' \in TileType /\ tile'.painted = None
      /\ tile'.states = tile.states /\ tile'.snooze = tile.snooze
      /\ tile'.current = tile.current /\ tile'.dirty = tile.dirty
      /\ tile'.fresh = tile.fresh /\ tile'.spent = tile.spent
  BY <1>1 DEF TileType
<1>3. ~tile'.lost => ~tile.lost /\ tile.painted = None
  BY <1>1 DEF TileType
<1>4. TileInv(tile', config')
  BY <1>1, <1>2, <1>3 DEF Inv, TileInv, ColorsRight, Settings
<1>5. TileInv(tile, config)'
  BY <1>1, <1>4, SameListInv DEF Settings
<1>6. TypeOK'
  BY <1>1, <1>2 DEF Inv, TypeOK, HWiNFO, Settings, Own, TileType, ThresholdType
<1>7. QED
  BY <1>1, <1>2, <1>5, <1>6 DEF Inv, Offered, Settings

LEMMA SuppressStep ==
  ASSUME Inv, NEW id, handleSuppressGlobal(id) \/ handleUnsuppressGlobal(id)
  PROVE  Inv'
<1>1. /\ tile' \in TileType /\ tile'.dirty /\ tile'.states = tile.states
      /\ tile'.snooze = tile.snooze
  BY DEF Inv, TypeOK, TileType, handleSuppressGlobal, handleUnsuppressGlobal
<1>2. suppressed' \subseteq ToSet(Globals)
  BY DEF Inv, TypeOK, handleSuppressGlobal, handleUnsuppressGlobal
<1>3. QED
  BY <1>1, <1>2, MarkStep DEF Inv, TypeOK, handleSuppressGlobal, handleUnsuppressGlobal

LEMMA AppearanceStep ==
  ASSUME Inv, OnWillAppear \/ OnWillDisappear
  PROVE  Inv'
<1>1. UNCHANGED <<now, HWiNFO, list, config, suppressed, presets, divides>> /\ visible' \in BOOLEAN
  BY DEF OnWillAppear, OnWillDisappear
<1>2. /\ tile' \in TileType /\ \A id \in Ids : tile'.states[id] = ZeroState
      /\ visible' => tile'.dirty
      /\ tile'.snooze = None
  <2>1. tile.fresh \in BOOLEAN
    BY DEF Inv, TypeOK, TileType
  <2>2. QED
    BY <2>1, NewTileType DEF OnWillAppear, OnWillDisappear, TileType
<1>3. TypeOK'
  BY <1>1, <1>2 DEF Inv, TypeOK, HWiNFO, Own, TileType, ThresholdType
<1>4. visible' => TileInv(tile, config)'
  BY <1>2, ZeroUnlatched DEF TileInv
<1>5. Unlatched(tile)'
  BY <1>2, ZeroUnlatched DEF Unlatched
<1>6. QED
  BY <1>2, <1>3, <1>4, <1>5 DEF Inv, Offered

LEMMA NextInv == ASSUME Inv, [Next]_vars PROVE Inv'
<1>1. CASE PropertyInspector
  BY <1>1, SnoozeDurationsStep, AddStep, RemoveStep, ReorderStep, ThresholdUpdateStep,
     ThresholdLookStep, ColorStep, DivisorStep, SuppressStep DEF PropertyInspector
<1>2. CASE OnKeyDown
  BY <1>2, SnoozeKeyStep, ClearKeyStep DEF OnKeyDown
<1>3. QED
  BY <1>1, <1>2, TimeStep, RefreshStep, AppearanceStep DEF Next

LEMMA Invariance == Spec => []Inv
<1>1. Init => Inv
  BY InitInv
<1>2. Inv /\ [Next]_vars => Inv'
  BY NextInv
<1>3. QED
  BY <1>1, <1>2, PTL DEF Spec

\* The variables of TileAlerts keep their types: in particular every handler leaves
\* the list of a tile's thresholds without repetition (handlers.go).
THEOREM TypeCorrect == Spec => []TypeOK
<1>1. Inv => TypeOK
  BY DEF Inv
<1>2. QED
  BY <1>1, Invariance, PTL

\* "The last match wins" for every list of thresholds, library and edit: a tile that
\* is up to date shows the last of its alerting thresholds (plugin.go updateTiles).
THEOREM LastMatchShown == Spec => []LastMatchWins
<1>1. Inv => LastMatchWins
  BY DEF Inv, TileInv, LastMatchWins, UpToDate
<1>2. QED
  BY <1>1, Invariance, PTL

\* Unless an outage or an edit of the colours has got in between, the graph of a tile
\* that is up to date has the colours of the alert it shows (plugin.go updateTiles).
THEOREM ColorsShown == Spec => []ColorsFollowAlert
<1>1. Inv => ColorsFollowAlert
  BY DEF Inv, TileInv, ColorsRight, ColorsFollowAlert, UpToDate
<1>2. QED
  BY <1>1, Invariance, PTL

\* A tile that is up to date and shows no alert is not snoozed, and no tile is snoozed
\* for a duration that is not among its presets (plugin.go updateTiles, handlers.go).
THEOREM NextAlertIsHeard == Spec => []SnoozeEnds
<1>1. Inv => SnoozeEnds
  BY DEF Inv, TileInv, Offered, SnoozeEnds, UpToDate
<1>2. QED
  BY <1>1, Invariance, PTL
-----------------------------------------------------------------------------
(* Sticky alerts.                                                          *)

\* An update lets go of a latched threshold only when it is no longer evaluated.
LEMMA UpdateLetsGo ==
  ASSUME TypeOK, NEW t \in TileType, TileInv(t, config), NEW id \in Ids,
         t.states[id].latched, ~Updated(t, config).states[id].latched
  PROVE  id \notin ToSet(list) \cup ToSet(Globals) \/ id \in suppressed
<1>1. id \notin Thresholds
  BY UpdatedInv DEF TypeOK
<1>2. QED
  BY <1>1 DEF Thresholds, resolveThresholdsForEval

LetsGo(id) ==
  \/ tile.current = id /\ OnKeyDownClear
  \/ id \notin ToSet(list) \cup ToSet(Globals) \/ id \notin ToSet(list') \cup ToSet(Globals)
  \/ id \in suppressed
  \/ \E c \in Variants[id] : handleThresholdUpdate(id, c)
  \/ OnWillDisappear

\* Of an update: the handler has left the threshold latched, and its settings alone.
LEMMA UpdateExcused ==
  ASSUME Inv, NEW t \in TileType, TileInv(t, config), NEW id \in Ids,
         t.states[id].latched, tile' = Updated(t, config), ~Latched(id)'
  PROVE  LetsGo(id)
BY UpdateLetsGo, Zenon DEF Inv, Latched, LetsGo

LEMMA KeyLetsGo ==
  ASSUME Inv, NEW id \in Ids, Latched(id), ~Latched(id)', OnKeyDown
  PROVE  LetsGo(id)
<1>0. tile \in TileType /\ visible /\ TileInv(tile, config)
  BY DEF Inv, TypeOK, OnKeyDown, OnKeyDownSnooze, OnKeyDownClear
<1>1. CASE OnKeyDownSnooze
  <2> DEFINE u == currentThresholdSnooze(tile)
             t == [u EXCEPT !.snooze = nextThresholdSnoozeDuration(u.snooze), !.dirty = TRUE]
  <2>1. u \in TileType /\ u.states = tile.states
    BY <1>0, SnoozeTypes DEF Inv
  <2>2. nextThresholdSnoozeDuration(u.snooze) \in {None} \cup [duration : Nat, until : Nat]
    BY <1>1, <2>1, SnoozeTypes DEF Inv, OnKeyDownSnooze
  <2>3. tile' = Updated(t, config)
    BY <1>1 DEF OnKeyDownSnooze
  <2> HIDE DEF u
  <2>4. t \in TileType /\ t.dirty /\ t.states = tile.states
    BY <2>1, <2>2 DEF TileType
  <2> HIDE DEF t
  <2>5. TileInv(t, config)
    BY <1>0, <2>4, MarkedInv DEF TileInv
  <2>6. QED
    BY <2>3, <2>4, <2>5, UpdateExcused DEF Latched
<1>2. CASE OnKeyDownClear /\ tile.current # id
  <2> DEFINE z == clearStickyThresholdState(tile.states[tile.current])
             t == [tile EXCEPT !.states[tile.current] = z, !.dirty = TRUE, !.current = None]
  <2>1. tile.current \in Ids /\ tile.states[tile.current] \in StateType
    BY <1>0, <1>2 DEF TileType, OnKeyDownClear
  <2>2. z \in StateType /\ ~z.latched
    <3>1. z \in StateType
      BY <2>1, ClearedType
    <3>2. ~z.latched
      BY <1>2, <2>1 DEF OnKeyDownClear, clearStickyThresholdState,
                        resetThresholdSnapshot, StateType
    <3>3. QED
      BY <3>1, <3>2
  <2>3. tile' = Updated(t, config)
    BY <1>2 DEF OnKeyDownClear
  <2> HIDE DEF z
  <2>4. /\ t \in TileType /\ t.dirty
        /\ \A x \in Ids : t.states[x] = IF x = tile.current THEN z ELSE tile.states[x]
    BY <1>0, <2>1, <2>2 DEF TileType
  <2> HIDE DEF t
  <2>5. TileInv(t, config)
    BY <1>0, <2>2, <2>4, MarkedInv DEF TileInv
  <2>6. t.states[id].latched
    BY <1>2, <2>4 DEF Latched
  <2>7. QED
    BY <2>3, <2>4, <2>5, <2>6, UpdateExcused
<1>3. CASE OnKeyDownClear /\ tile.current = id
  BY <1>3 DEF LetsGo
<1>4. QED
  BY <1>1, <1>2, <1>3 DEF OnKeyDown

LEMMA InspectorLetsGo ==
  ASSUME Inv, NEW id \in Ids, Latched(id), ~Latched(id)', PropertyInspector
  PROVE  LetsGo(id)
<1>0. tile \in TileType
  BY DEF Inv, TypeOK
<1>1. ASSUME NEW ps \in Presets, handleSnoozeDurations(ps)
      PROVE  LetsGo(id)
  <2> DEFINE u == currentThresholdSnooze(tile)
             t == [u EXCEPT !.snooze = None, !.dirty = TRUE]
  <2>1. u \in TileType /\ u.states = tile.states
    BY <1>0, SnoozeTypes DEF Inv
  <2>2. tile' = Updated(t, config) \/ tile' = u
    BY <1>1 DEF handleSnoozeDurations
  <2> HIDE DEF u
  <2>3. t \in TileType /\ t.dirty /\ t.states = tile.states
    BY <2>1 DEF TileType
  <2> HIDE DEF t
  <2>4. TileInv(t, config)
    BY <1>1, <2>3, MarkedInv DEF Inv, TileInv, handleSnoozeDurations
  <2>5. tile' # u
    BY <2>1 DEF Latched
  <2>6. QED
    BY <2>2, <2>3, <2>4, <2>5, UpdateExcused DEF Latched
<1>2. ASSUME NEW x \in Ids, handleRemoveThreshold(x)
      PROVE  LetsGo(id)
  <2>1. tile'.states[id] = IF id = x THEN ZeroState ELSE tile.states[id]
    BY <1>0, <1>2 DEF TileType, handleRemoveThreshold
  <2>2. id = x
    BY <2>1 DEF Latched
  <2>3. PICK i \in DOMAIN list : list[i] = id /\ list' = RemoveAt(list, i)
    BY <1>2, <2>2 DEF handleRemoveThreshold
  <2>4. list \in Seq(Own) /\ IsInjective(list)
    BY DEF Inv, TypeOK
  <2>5. ToSet(list') = ToSet(list) \ {id}
    BY <2>3, <2>4, RemoveDistinct
  <2>6. id \notin ToSet(Globals)
    BY <2>3, <2>4, ElementOfSeq, LenProperties DEF Own
  <2>7. QED
    BY <2>5, <2>6 DEF LetsGo
<1>3. ASSUME NEW x \in Ids, NEW c \in Variants[x], handleThresholdUpdate(x, c)
      PROVE  LetsGo(id)
  <2>1. CASE x = id
    BY <1>3, <2>1, Zenon DEF LetsGo
  <2>2. CASE x # id
    <3> DEFINE t == [tile EXCEPT !.states[x] = ZeroState, !.dirty = TRUE]
    <3>1. /\ tile' = Updated(t, config') /\ config' = [config EXCEPT ![x] = c]
          /\ visible
      BY <1>3 DEF handleThresholdUpdate
    <3>2. /\ config' \in [Ids -> ThresholdType]
          /\ \A other \in Ids : config'[other] = IF other = x THEN c ELSE config[other]
      BY <3>1, VariantsAssumption DEF Inv, TypeOK
    <3>3. /\ t \in TileType /\ t.dirty
          /\ \A other \in Ids : t.states[other] =
                                  IF other = x THEN ZeroState ELSE tile.states[other]
      BY <1>0, ZeroStateType DEF TileType
    <3> HIDE DEF t
    <3>4. TileInv(t, config')
      BY <3>1, <3>2, <3>3, ZeroUnlatched, MarkedInv DEF Inv, TileInv
    <3>5. t.states[id].latched
      BY <2>2, <3>3 DEF Latched
    <3>6. id \notin Thresholds
      BY <3>1, <3>2, <3>3, <3>4, <3>5, UpdatedInv DEF Inv, Latched
    <3>7. QED
      BY <3>6 DEF LetsGo, Thresholds, resolveThresholdsForEval
  <2>3. QED
    BY <2>1, <2>2
<1>4. ASSUME tile'.states = tile.states PROVE FALSE
  BY <1>4 DEF Latched
<1>5. ASSUME \/ handleColorChange \/ \E number \in BOOLEAN : handleDivisor(number) PROVE FALSE
  BY <1>0, <1>4, <1>5 DEF TileType, handleColorChange, handleDivisor
<1>6. ASSUME NEW x \in Ids, handleAddThreshold(x) \/ handleSuppressGlobal(x)
                            \/ handleUnsuppressGlobal(x)
      PROVE  FALSE
  BY <1>0, <1>4, <1>6 DEF TileType, handleAddThreshold, handleSuppressGlobal,
                          handleUnsuppressGlobal
<1>7. ASSUME NEW x \in Ids, handleThresholdLook(x) PROVE LetsGo(id)
  <2> DEFINE t == [tile EXCEPT !.dirty = TRUE, !.painted = x]
  <2>1. tile' = [tile EXCEPT !.dirty = TRUE] \/ tile' = Updated(t, config)
    BY <1>7 DEF handleThresholdLook
  <2>2. t \in TileType /\ t.dirty /\ t.states = tile.states
    BY <1>0 DEF TileType
  <2> HIDE DEF t
  <2>3. TileInv(t, config)
    BY <1>7, <2>2, MarkedInv DEF Inv, TileInv, handleThresholdLook
  <2>4. tile' # [tile EXCEPT !.dirty = TRUE]
    BY <1>0, <1>4 DEF TileType
  <2>5. QED
    BY <2>1, <2>2, <2>3, <2>4, UpdateExcused DEF Latched
<1>8. ASSUME NEW i \in DOMAIN list, handleReorderThreshold(i) PROVE FALSE
  BY <1>0, <1>4, <1>8 DEF TileType, handleReorderThreshold
<1>9. QED
  BY <1>1, <1>2, <1>3, <1>5, <1>6, <1>7, <1>8 DEF PropertyInspector

LEMMA LatchedLetsGo ==
  ASSUME Inv, NEW id \in Ids, Latched(id), ~Latched(id)', [Next]_vars
  PROVE  LetsGo(id)
<1>0. tile \in TileType /\ visible
  BY DEF Inv, TypeOK, Unlatched, Latched
<1>1. ASSUME tile'.states = tile.states PROVE FALSE
  BY <1>1 DEF Latched
<1>2. CASE \/ Tick \/ (\E v \in Values : Publish(v)) \/ Outage \/ Restore \/ UNCHANGED vars
  BY <1>0, <1>1, <1>2 DEF TileType, Tick, Publish, Outage, Restore, vars
<1>3. CASE updateTiles
  BY <1>0, <1>3, UpdateExcused DEF Inv, Latched, updateTiles
<1>4. CASE OnWillAppear
  BY <1>0, <1>4 DEF OnWillAppear
<1>5. CASE OnWillDisappear
  BY <1>5 DEF LetsGo
<1>6. QED
  BY <1>2, <1>3, <1>4, <1>5, KeyLetsGo, InspectorLetsGo DEF Next

\* A sticky alert stays active until it is cleared: no step of the tile, of its key
\* or of the Property Inspector unlatches a threshold but those that are meant to
\* (threshold_state.go, delegate.go OnKeyDown).
THEOREM StickyStays == Spec => StickyStaysUntilCleared
<1>1. ASSUME Inv, [Next]_vars
      PROVE  \A id \in Ids : Latched(id) /\ ~Latched(id)' => LetsGo(id)
  BY <1>1, LatchedLetsGo
<1>2. Inv /\ [Next]_vars =>
        [\A id \in Ids : Latched(id) /\ ~Latched(id)' =>
           \/ tile.current = id /\ OnKeyDownClear
           \/ id \notin ToSet(list) \cup ToSet(Globals) \/ id \notin ToSet(list') \cup ToSet(Globals)
           \/ id \in suppressed
           \/ \E c \in Variants[id] : handleThresholdUpdate(id, c)
           \/ OnWillDisappear]_vars
  BY <1>1, Zenon DEF LetsGo
<1>3. QED
  BY <1>2, Invariance, PTL DEF Spec, StickyStaysUntilCleared
=============================================================================
