-------------------------- MODULE SlotTiles_proofs ---------------------------
(***************************************************************************)
(* Theorems of SlotTiles and their proofs.                                 *)
(***************************************************************************)
EXTENDS SlotTiles, SequenceTheorems, WellFoundedInduction, TLAPS

-----------------------------------------------------------------------------
(* Sequences and their places.                                             *)

LEMMA LeastNatural ==
  ASSUME NEW T \in SUBSET Nat, T # {}
  PROVE  \E m \in T : \A k \in T : m <= k
<1>1. IsWellFoundedOn(OpToRel(<, Nat), Nat)
  BY NatLessThanWellFounded
<1>2. PICK m \in T : \A k \in T : <<k, m>> \notin OpToRel(<, Nat)
  BY <1>1, WFMin
<1>3. \A k \in T : <<k, m>> \in OpToRel(<, Nat) <=> k < m
  BY DEF OpToRel
<1>4. \A k \in T : ~(k < m)
  BY <1>2, <1>3, Zenon
<1>5. QED
  BY <1>4

LEMMA LastPlace ==
  ASSUME NEW n \in Nat, NEW I \in SUBSET (1..n), I # {}
  PROVE  Max(I) \in I /\ \A i \in I : i <= Max(I)
<1> DEFINE T == {n - i : i \in I}
<1>1. T \in SUBSET Nat /\ T # {}
  OBVIOUS
<1>2. PICK m \in T : \A k \in T : m <= k
  BY <1>1, LeastNatural
<1>3. PICK i \in I : m = n - i
  OBVIOUS
<1>4. \A j \in I : n - j \in T /\ j \in Int
  OBVIOUS
<1> HIDE DEF T
<1>5. \A j \in I : i >= j
  BY <1>2, <1>3, <1>4
<1>6. Max(I) \in I /\ \A j \in I : Max(I) >= j
  BY <1>5, Zenon DEF Max
<1>7. QED
  BY <1>6

LEMMA AppendDistinct ==
  ASSUME NEW S, NEW s \in Seq(S), IsInjective(s), NEW x \in S, x \notin ToSet(s)
  PROVE  Append(s, x) \in Seq(S) /\ IsInjective(Append(s, x))
<1>1. /\ Append(s, x) \in Seq(S) /\ Len(Append(s, x)) = Len(s) + 1
      /\ \A i \in 1 .. Len(s) : Append(s, x)[i] = s[i]
      /\ Append(s, x)[Len(s) + 1] = x
  BY AppendProperties
<1>2. /\ Len(s) \in Nat /\ DOMAIN s = 1 .. Len(s)
      /\ DOMAIN Append(s, x) = 1 .. Len(s) + 1
  BY <1>1, LenProperties
<1>3. \A i \in 1 .. Len(s) : s[i] # x
  BY <1>2 DEF ToSet
<1>4. QED
  BY <1>1, <1>2, <1>3 DEF IsInjective

LEMMA SwapDistinct ==
  ASSUME NEW S, NEW s \in Seq(S), IsInjective(s), NEW i \in 1 .. Len(s) - 1
  PROVE  LET t == [s EXCEPT ![i] = s[i + 1], ![i + 1] = s[i]]
         IN  t \in Seq(S) /\ IsInjective(t)
<1> DEFINE t == [s EXCEPT ![i] = s[i + 1], ![i + 1] = s[i]]
<1>1. Len(s) \in Nat /\ DOMAIN s = 1 .. Len(s) /\ s \in [1 .. Len(s) -> S]
  BY LenProperties
<1>2. i \in 1 .. Len(s) /\ i + 1 \in 1 .. Len(s) /\ i # i + 1
  BY <1>1
<1>3. t \in [1 .. Len(s) -> S]
  BY <1>1, <1>2
<1>4. t[i] = s[i + 1] /\ t[i + 1] = s[i]
      /\ \A j \in 1 .. Len(s) : j # i /\ j # i + 1 => t[j] = s[j]
  BY <1>1, <1>2
<1>5. DOMAIN t = 1 .. Len(s)
  BY <1>1
<1>6. t \in Seq(S)
  BY <1>1, <1>3, SeqDef
<1> HIDE DEF t
<1>7. IsInjective(t)
  BY <1>1, <1>2, <1>4, <1>5 DEF IsInjective
<1>8. QED
  BY <1>6, <1>7 DEF t

LEMMA RemoveDistinct ==
  ASSUME NEW S, NEW s \in Seq(S), IsInjective(s), NEW i \in DOMAIN s
  PROVE  RemoveAt(s, i) \in Seq(S) /\ IsInjective(RemoveAt(s, i))
<1> DEFINE p == SubSeq(s, 1, i - 1)
           q == SubSeq(s, i + 1, Len(s))
           r == RemoveAt(s, i)
<1>1. /\ Len(s) \in Nat /\ DOMAIN s = 1 .. Len(s) /\ i \in 1 .. Len(s)
      /\ \A j \in 1 .. Len(s) : s[j] \in S
  BY LenProperties, ElementOfSeq
<1>2. p \in Seq(S) /\ Len(p) = i - 1 /\ \A j \in 1 .. i - 1 : p[j] = s[j]
  <2>1. 1 \in Int /\ i - 1 \in Int /\ \A j \in 1 .. i - 1 : s[j] \in S
    BY <1>1
  <2>2. /\ p \in Seq(S) /\ Len(p) = IF 1 <= i - 1 THEN (i - 1) - 1 + 1 ELSE 0
        /\ \A j \in 1 .. (i - 1) - 1 + 1 : p[j] = s[1 + j - 1]
    BY <2>1, SubSeqProperties
  <2>3. QED
    BY <1>1, <2>2
<1>3. q \in Seq(S) /\ Len(q) = Len(s) - i /\ \A j \in 1 .. Len(s) - i : q[j] = s[i + j]
  <2>1. i + 1 \in Int /\ Len(s) \in Int /\ \A j \in i + 1 .. Len(s) : s[j] \in S
    BY <1>1
  <2>2. /\ q \in Seq(S) /\ Len(q) = IF i + 1 <= Len(s) THEN Len(s) - (i + 1) + 1 ELSE 0
        /\ \A j \in 1 .. Len(s) - (i + 1) + 1 : q[j] = s[(i + 1) + j - 1]
    BY <2>1, SubSeqProperties
  <2>3. /\ Len(s) - (i + 1) + 1 = Len(s) - i
        /\ ~(i + 1 <= Len(s)) => Len(s) - i = 0
        /\ \A j \in 1 .. Len(s) - i : (i + 1) + j - 1 = i + j
    BY <1>1
  <2> HIDE DEF q
  <2>4. QED
    BY <2>2, <2>3
<1>4. r = p \o q
  BY DEF RemoveAt
<1> HIDE DEF p, q, r
<1>5. /\ r \in Seq(S) /\ Len(r) = Len(s) - 1
      /\ \A j \in 1 .. Len(s) - 1 : r[j] = IF j < i THEN s[j] ELSE s[j + 1]
  <2>1. /\ r \in Seq(S) /\ Len(r) = Len(p) + Len(q)
        /\ \A j \in 1 .. Len(p) + Len(q) : r[j] = IF j <= Len(p) THEN p[j] ELSE q[j - Len(p)]
    BY <1>2, <1>3, <1>4, ConcatProperties
  <2>2. Len(p) + Len(q) = Len(s) - 1 /\ Len(p) = i - 1
    BY <1>1, <1>2, <1>3
  <2>3. ASSUME NEW j \in 1 .. Len(s) - 1
        PROVE  r[j] = IF j < i THEN s[j] ELSE s[j + 1]
    <3>1. CASE j < i
      <4>1. j \in 1 .. i - 1 /\ j <= Len(p)
        BY <1>1, <2>2, <3>1
      <4>2. QED
        BY <1>2, <2>1, <2>2, <3>1, <4>1
    <3>2. CASE ~(j < i)
      <4>1. /\ j - Len(p) \in 1 .. Len(s) - i /\ ~(j <= Len(p))
            /\ i + (j - Len(p)) = j + 1
        BY <1>1, <2>2, <3>2
      <4>2. r[j] = q[j - Len(p)]
        BY <2>1, <2>2, <4>1
      <4>3. q[j - Len(p)] = s[i + (j - Len(p))]
        BY <1>3, <4>1
      <4>4. QED
        BY <3>2, <4>1, <4>2, <4>3
    <3>3. QED
      BY <3>1, <3>2
  <2>4. QED
    BY <2>1, <2>2, <2>3
<1>6. DOMAIN r = 1 .. Len(s) - 1
  BY <1>5, LenProperties
<1>7. IsInjective(r)
  <2> SUFFICES ASSUME NEW j \in DOMAIN r, NEW k \in DOMAIN r, r[j] = r[k]
               PROVE  j = k
    BY DEF IsInjective
  <2> DEFINE at(m) == IF m < i THEN m ELSE m + 1
  <2>1. /\ at(j) \in DOMAIN s /\ r[j] = s[at(j)]
        /\ at(k) \in DOMAIN s /\ r[k] = s[at(k)]
    BY <1>1, <1>5, <1>6
  <2>2. at(j) = at(k)
    BY <2>1, Zenon DEF IsInjective
  <2>3. QED
    BY <1>1, <1>6, <2>2
<1>8. QED
  BY <1>5, <1>7 DEF r

-----------------------------------------------------------------------------
(* What the operators of Thresholds return.                                *)

LEMMA DurationType ==
  ASSUME NEW ms \in Int
  PROVE  thresholdDurationMs(ms) \in Nat
BY DEF thresholdDurationMs

LEMMA ZeroStateType == ZeroState \in StateType
<1>1. NoTime \in Nat /\ NoValue \in Int
  BY DEF NoTime, NoValue
<1>2. QED
  BY <1>1 DEF ZeroState, StateType

LEMMA SnapshotType ==
  ASSUME NEW s \in StateType
  PROVE  resetThresholdSnapshot(s) \in StateType
<1>1. NoValue \in Int
  BY DEF NoValue
<1>2. QED
  BY <1>1 DEF resetThresholdSnapshot, StateType

LEMMA DeactivatedType ==
  ASSUME NEW s \in StateType, NEW t \in ThresholdType, NEW n \in Nat
  PROVE  Deactivated(t, s, n) \in StateType
<1>1. (IF thresholdDurationMs(t.cooldownMs) > 0
       THEN n + thresholdDurationMs(t.cooldownMs) ELSE NoTime) \in Nat
  BY DurationType DEF ThresholdType, NoTime
<1>2. QED
  BY <1>1, SnapshotType DEF Deactivated, StateType, NoTime

LEMMA ActivatedType ==
  ASSUME NEW s \in StateType, NEW t
  PROVE  Activated(t, s) \in StateType
<1>1. NoTime \in Nat /\ NoValue \in Int
  BY DEF NoTime, NoValue
<1>2. QED
  BY <1>1 DEF Activated, StateType

LEMMA DwelledType ==
  ASSUME NEW s \in StateType, NEW t, NEW n \in Nat
  PROVE  Dwelled(t, s, n) \in StateType
BY ActivatedType DEF Dwelled, StateType

LEMMA EvaluatedType ==
  ASSUME NEW v, NEW t \in ThresholdType, NEW s \in StateType, NEW n \in Nat
  PROVE  evaluateThresholdState(v, t, s, n) \in StateType
<1> DEFINE u == [s EXCEPT !.suppressedUntilClear = @ /\ ~thresholdClearConditionMet(v, t)]
<1>1. u \in StateType
  BY DEF StateType
<1> HIDE DEF u
<1>2. /\ [u EXCEPT !.pendingSince = NoTime] \in StateType
      /\ [u EXCEPT !.cooldownUntil = NoTime] \in StateType
      /\ [u EXCEPT !.cooldownUntil = NoTime, !.pendingSince = NoTime] \in StateType
  BY <1>1 DEF StateType, NoTime
<1>3. /\ Deactivated(t, u, n) \in StateType
      /\ Dwelled(t, [u EXCEPT !.cooldownUntil = NoTime], n) \in StateType
  BY <1>1, <1>2, DeactivatedType, DwelledType
<1>4. QED
  BY <1>1, <1>2, <1>3, ZeroStateType DEF evaluateThresholdState, u

-----------------------------------------------------------------------------
(* What the operators of the tiles return.                                 *)

LEMMA SlotFacts ==
  /\ Len(CompositeSlots) \in Nat \ {0} /\ Slots = 1 .. Len(CompositeSlots)
  /\ Len(DerivedSlots) \in Nat \ {0} /\ DSlots = 1 .. Len(DerivedSlots)
  /\ CompositeSlots \in [Slots -> SlotType] /\ DerivedSlots \in [DSlots -> DerivedSlotType]
<1>1. /\ CompositeSlots \in Seq(SlotType) /\ DerivedSlots \in Seq(DerivedSlotType)
      /\ CompositeSlots # <<>> /\ DerivedSlots # <<>>
  BY SlotsAssumption
<1>2. /\ Len(CompositeSlots) \in Nat /\ Len(DerivedSlots) \in Nat
      /\ DOMAIN CompositeSlots = 1 .. Len(CompositeSlots)
      /\ DOMAIN DerivedSlots = 1 .. Len(DerivedSlots)
      /\ CompositeSlots \in [1 .. Len(CompositeSlots) -> SlotType]
      /\ DerivedSlots \in [1 .. Len(DerivedSlots) -> DerivedSlotType]
  BY <1>1, LenProperties
<1>3. Len(CompositeSlots) # 0 /\ Len(DerivedSlots) # 0
  BY <1>1, EmptySeq
<1>4. QED
  BY <1>2, <1>3 DEF Slots, DSlots

LEMMA OwnIds == Own \subseteq Ids /\ Library \in Ids /\ None \notin Ids
BY ConfigAssumption DEF Own

\* The thresholds that are evaluated: those of the list, and perhaps the library's.
LEMMA ResolvedType ==
  ASSUME NEW S \in SUBSET Ids, Library \in S, NEW list \in Seq(S), NEW b
  PROVE  LET r == resolveThresholdsForEval(list, b)
         IN  /\ r \in Seq(S) /\ Len(r) \in Nat /\ ToSet(r) \subseteq S
             /\ \A i \in 1 .. Len(r) : r[i] \in S
<1> DEFINE r == resolveThresholdsForEval(list, b)
           tail == IF library /\ ~b THEN <<Library>> ELSE <<>>
<1>1. tail \in Seq(S)
  BY EmptySeq
<1>2. r \in Seq(S)
  BY <1>1, ConcatProperties DEF resolveThresholdsForEval
<1>3. Len(r) \in Nat /\ DOMAIN r = 1 .. Len(r) /\ \A i \in 1 .. Len(r) : r[i] \in S
  BY <1>2, LenProperties, ElementOfSeq
<1>4. ToSet(r) \subseteq S
  BY <1>3, Zenon DEF ToSet
<1>5. QED
  BY <1>2, <1>3, <1>4

\* The winner is one of the thresholds that are evaluated, or none.
LEMMA WinnerType ==
  ASSUME NEW S \in SUBSET Ids, Library \in S, NEW s, s.list \in Seq(S), NEW st
  PROVE  Winner(s, st) \in S \cup {None}
<1> DEFINE r == resolveThresholdsForEval(s.list, s.suppressed)
           I == {i \in 1 .. Len(r) : Alerting(st[r[i]])}
           last == SelectLastInSeq(r, LAMBDA id : Alerting(st[id]))
<1>1. Len(r) \in Nat /\ \A i \in 1 .. Len(r) : r[i] \in S
  BY ResolvedType
<1>2. Winner(s, st) = IF last = 0 THEN None ELSE r[last]
  BY DEF Winner
<1>3. last = IF I # {} THEN Max(I) ELSE 0
  BY DEF SelectLastInSeq
<1> HIDE DEF r, last
<1>4. CASE I = {}
  BY <1>2, <1>3, <1>4
<1>5. CASE I # {}
  <2>1. Max(I) \in I
    BY <1>1, <1>5, LastPlace
  <2>2. QED
    BY <1>1, <1>2, <1>3, <2>1
<1>6. QED
  BY <1>4, <1>5

LEMMA EvaluatedStates ==
  ASSUME NEW S \in SUBSET Ids, Library \in S, NEW s, s.list \in Seq(S), NEW v,
         NEW old \in [Ids -> StateType]
  PROVE  evaluateThresholds(s, v, old) \in [Ids -> StateType]
<1>1. ASSUME NEW id \in Ids
      PROVE  evaluateThresholdState(v, Setting(s, id), old[id], 1) \in StateType
  <2>1. Config[id] \in ThresholdType
    BY ConfigAssumption
  <2>2. Setting(s, id) \in ThresholdType
    BY <2>1 DEF Setting, ThresholdType
  <2>3. QED
    BY <2>2, EvaluatedType
<1>2. QED
  BY <1>1, ZeroStateType DEF evaluateThresholds

LEMMA ValueType ==
  ASSUME TypeOK, NEW s, s.reading \in Readings \cup {None}
  PROVE  /\ ValueOf(s) \in Int \cup {None}
         /\ Available(s) => ValueOf(s) = value[s.reading]
BY DEF TypeOK, ValueOf, Available

LEMMA DerivedAlertType ==
  ASSUME NEW d, NEW st
  PROVE  DerivedAlert(d, st) \in {None, Library}
<1> DEFINE s == DerivedThresholds(d)
<1>1. s.list \in Seq({Library})
  BY EmptySeq DEF DerivedThresholds
<1>2. {Library} \in SUBSET Ids
  BY OwnIds
<1>3. Winner(s, [id \in Ids |-> st]) \in {Library} \cup {None}
  BY <1>1, <1>2, WinnerType
<1>4. QED
  BY <1>3 DEF DerivedAlert

LEMMA DerivedStateType ==
  ASSUME TypeOK, NEW d, NEW result
  PROVE  DerivedEvaluated(d, result) \in StateType
<1> DEFINE old == [id \in Ids |-> states.derived]
<1>1. DerivedThresholds(d).list \in Seq({Library}) /\ {Library} \in SUBSET Ids
  BY EmptySeq, OwnIds DEF DerivedThresholds
<1>2. old \in [Ids -> StateType]
  BY DEF TypeOK
<1>3. QED
  BY <1>1, <1>2, EvaluatedStates, OwnIds DEF DerivedEvaluated

-----------------------------------------------------------------------------
(* Types.                                                                  *)

LEMMA CompositeOf ==
  ASSUME NEW slots \in [Slots -> SlotType]
  PROVE  Composite(slots) \in CompositeType
<1>1. [i \in Slots |-> None] \in [Slots -> Ids \cup {None}]
      /\ [i \in Slots |-> slots[i].current # None] \in [Slots -> BOOLEAN]
  OBVIOUS
<1>2. ("composite" \in tiles) \in BOOLEAN
  OBVIOUS
<1> HIDE DEF SlotType
<1>3. QED
  BY <1>1, <1>2 DEF Composite, CompositeType

LEMMA DerivedOf ==
  ASSUME NEW s \in DerivedSettings
  PROVE  Derived(s) \in DerivedType
<1>1. LostIf(s.current # None) \in SUBSET Colors
  BY DEF LostIf
<1>2. s.current \in {None, Library}
  BY DEF DerivedSettings
<1> HIDE DEF DerivedSlotType
<1>3. QED
  BY <1>1, <1>2 DEF Derived, DerivedType, DerivedSettings

\* A pass p is in place.
PlaceOf(p) ==
  /\ p.at \in CompositeStages =>
       /\ p.orphan \in {None} \cup CompositeType
       /\ IF p.at = "render" THEN p.i = Len(CompositeSlots) + 1 ELSE p.i \in Slots
       /\ Len(p.values) = IF p.at \in {"paint", "store"} THEN p.i ELSE p.i - 1
       /\ Len(p.alerts) = Len(p.values)
  /\ p.at \in DerivedStages =>
       /\ p.orphan \in {None} \cup DerivedType
       /\ IF p.at = "gather" THEN p.i \in DSlots ELSE p.i = Len(DerivedSlots) + 1
       /\ Len(p.values) = p.i - 1
       /\ p.at \notin {"gather", "finish"} =>
            Len(p.alerts) = 1 /\ p.alerts[1] \in {None, Library}

LEMMA Places == (InPlace <=> PlaceOf(pass)) /\ (InPlace' <=> PlaceOf(pass'))
BY DEF InPlace, PlaceOf

\* TypeOK, with the pass in its place.
Parts ==
  /\ tiles \in TileSets /\ value \in [Readings -> Int \cup {None}] /\ library \in BOOLEAN
  /\ composite \in CompositeType /\ derived \in DerivedType
  /\ states \in [composite : [Slots -> [Ids -> StateType]], derived : StateType]
  /\ stored \in [composite : [Slots -> SlotType], derived : DerivedSettings]
  /\ pass \in PassType /\ PlaceOf(pass)
  /\ handling \in {None} \cup HandlingType

LEMMA TypeParts == (TypeOK <=> Parts) /\ (TypeOK' <=> Parts')
BY Places, Zenon DEF TypeOK, Parts

\* A pass that is elsewhere, or starts, is in place.
LEMMA IdleType ==
  /\ Idle \in PassType /\ PlaceOf(Idle) /\ Derive \in PassType /\ PlaceOf(Derive)
  /\ \A b \in BOOLEAN : LET p == [Idle EXCEPT !.at = "slot", !.force = b]
                       IN  p \in PassType /\ PlaceOf(p)
  /\ LET p == [Idle EXCEPT !.at = "gather"] IN p \in PassType /\ PlaceOf(p)
<1>1. /\ <<>> \in Seq(Int \cup {None}) /\ <<>> \in Seq(Ids \cup {None}) /\ Len(<<>>) = 0
      /\ 1 \in Slots /\ 1 \in DSlots
  BY SlotFacts, EmptySeq
<1> HIDE DEF CompositeType, DerivedType
<1>2. /\ Idle \in PassType
      /\ Idle.at = "idle" /\ Idle.i = 1 /\ Idle.orphan = None
      /\ Idle.values = <<>> /\ Idle.alerts = <<>>
  BY <1>1 DEF Idle, PassType
<1>3. ASSUME NEW at \in {"idle", "derived", "slot", "gather"}, NEW b \in BOOLEAN
      PROVE  LET p == [Idle EXCEPT !.at = at, !.force = b]
                 q == [Idle EXCEPT !.at = at]
             IN  p \in PassType /\ PlaceOf(p) /\ q \in PassType /\ PlaceOf(q)
  <2> HIDE DEF Idle
  <2>1. /\ [Idle EXCEPT !.at = at, !.force = b] \in PassType
        /\ [Idle EXCEPT !.at = at] \in PassType
    BY <1>2 DEF PassType, CompositeStages, DerivedStages
  <2>2. /\ PlaceOf([Idle EXCEPT !.at = at, !.force = b])
        /\ PlaceOf([Idle EXCEPT !.at = at])
    BY <1>1, <1>2 DEF PassType, PlaceOf, CompositeStages, DerivedStages
  <2>3. QED
    BY <2>1, <2>2
<1>4. PlaceOf(Idle)
  BY <1>2 DEF PlaceOf, CompositeStages, DerivedStages
<1>5. QED
  BY <1>2, <1>3, <1>4 DEF Derive

\* A change of what a pass knows of edits leaves it in place.
LEMMA TouchedType ==
  ASSUME NEW p \in PassType, PlaceOf(p), NEW b \in BOOLEAN, NEW c \in BOOLEAN
  PROVE  /\ [p EXCEPT !.clean = b] \in PassType /\ PlaceOf([p EXCEPT !.clean = b])
         /\ [p EXCEPT !.poll = c] \in PassType /\ PlaceOf([p EXCEPT !.poll = c])
<1> HIDE DEF CompositeType, DerivedType
<1>1. QED
  BY DEF PassType, PlaceOf

LEMMA InitialTypes == Init => TypeOK
<1> SUFFICES ASSUME Init PROVE TypeOK
  OBVIOUS
<1>1. value \in [Readings -> Int \cup {None}]
  <2>1. \A r \in Readings : (CHOOSE v \in Levels[r] : TRUE) \in Int
    BY LevelsAssumption
  <2>2. QED
    BY <2>1 DEF Init
<1>2. stored \in [composite : [Slots -> SlotType], derived : DerivedSettings]
  BY SlotFacts DEF Init, DerivedSettings, Formulas
<1>3. composite \in CompositeType /\ derived \in DerivedType
  BY <1>2, CompositeOf, DerivedOf DEF Init
<1>4. states \in [composite : [Slots -> [Ids -> StateType]], derived : StateType]
  BY ZeroStateType DEF Init
<1>5. QED
  BY <1>1, <1>2, <1>3, <1>4, IdleType, TypeParts DEF Init, Parts

\* What a pass holds is a tile.
LEMMA HeldTypes ==
  ASSUME Parts
  PROVE  /\ pass.at \in CompositeStages => Holding(composite) \in CompositeType
         /\ pass.at \in DerivedStages => Holding(derived) \in DerivedType
<1> HIDE DEF CompositeType, DerivedType, CompositeStages, DerivedStages
<1>1. QED
  BY DEF Parts, PlaceOf, Holding

LEMMA SlotOf ==
  ASSUME NEW c \in CompositeType, NEW i \in Slots
  PROVE  /\ c.slots[i] \in SlotType
         /\ c.slots[i].reading \in Readings \cup {None} /\ c.slots[i].valid \in BOOLEAN
         /\ c.slots[i].list \in Seq(Own) /\ c.slots[i].list \in Seq(Ids)
         /\ IsInjective(c.slots[i].list)
         /\ c.slots[i].enabled \in SUBSET Own /\ c.slots[i].suppressed \in BOOLEAN
         /\ c.slots[i].current \in Ids \cup {None}
<1>1. c.slots[i] \in SlotType
  <2> HIDE DEF SlotType
  <2>1. QED
    BY DEF CompositeType
<1>2. /\ c.slots[i].reading \in Readings \cup {None} /\ c.slots[i].valid \in BOOLEAN
      /\ c.slots[i].list \in {s \in Seq(Own) : IsInjective(s)}
      /\ c.slots[i].enabled \in SUBSET Own /\ c.slots[i].suppressed \in BOOLEAN
      /\ c.slots[i].current \in Ids \cup {None}
  BY <1>1 DEF SlotType
<1>3. Seq(Own) \subseteq Seq(Ids)
  BY OwnIds, SeqMonotonic
<1>4. QED
  BY <1>1, <1>2, <1>3

\* A pass that has evaluated a slot, painted it or gathered its value is in place.
LEMMA EvaluatedPass ==
  ASSUME NEW p \in PassType, PlaceOf(p), p.at = "slot",
         NEW v \in Int \cup {None}, NEW a \in Ids \cup {None}
  PROVE  LET next == [p EXCEPT !.at = IF p.i = Len(CompositeSlots) THEN "render" ELSE "slot",
                               !.i = @ + 1, !.values = Append(@, v), !.alerts = Append(@, a)]
             paint == [p EXCEPT !.at = "paint", !.values = Append(@, v),
                                !.alerts = Append(@, a)]
         IN  /\ next \in PassType /\ PlaceOf(next)
             /\ paint \in PassType /\ PlaceOf(paint)
<1>1. /\ p.i \in Slots /\ Len(p.values) = p.i - 1 /\ Len(p.alerts) = p.i - 1
      /\ p.orphan \in {None} \cup CompositeType
      /\ p.values \in Seq(Int \cup {None}) /\ p.alerts \in Seq(Ids \cup {None})
  <2> HIDE DEF CompositeType, DerivedType
  <2>1. QED
    BY DEF PlaceOf, PassType, CompositeStages
<1>2. /\ Append(p.values, v) \in Seq(Int \cup {None}) /\ Len(Append(p.values, v)) = p.i
      /\ Append(p.alerts, a) \in Seq(Ids \cup {None}) /\ Len(Append(p.alerts, a)) = p.i
  BY <1>1, SlotFacts, AppendProperties
<1>3. /\ p.i \in Nat \ {0} /\ p.i + 1 \in Nat \ {0} /\ (p.i + 1) - 1 = p.i
      /\ IF p.i = Len(CompositeSlots) THEN p.i + 1 = Len(CompositeSlots) + 1
         ELSE p.i + 1 \in Slots
  BY <1>1, SlotFacts
<1> HIDE DEF CompositeType, DerivedType
<1>4. QED
  BY <1>1, <1>2, <1>3 DEF PlaceOf, PassType, CompositeStages, DerivedStages

LEMMA NextPlace ==
  ASSUME NEW n \in Nat, NEW i \in 1 .. n
  PROVE  /\ i \in Nat \ {0} /\ i + 1 \in Nat \ {0} /\ (i + 1) - 1 = i
         /\ IF i = n THEN i + 1 = n + 1 ELSE i + 1 \in 1 .. n
OBVIOUS

LEMMA PaintedPass ==
  ASSUME NEW p \in PassType, PlaceOf(p), p.at = "store"
  PROVE  LET next == [p EXCEPT !.at = IF p.i = Len(CompositeSlots) THEN "render" ELSE "slot",
                               !.i = @ + 1]
         IN  next \in PassType /\ PlaceOf(next)
<1>1. /\ p.i \in Slots /\ Len(p.values) = p.i /\ Len(p.alerts) = p.i
      /\ p.orphan \in {None} \cup CompositeType
  <2> HIDE DEF CompositeType, DerivedType
  <2>1. QED
    BY DEF PlaceOf, PassType, CompositeStages
<1>2. /\ p.i \in Nat \ {0} /\ p.i + 1 \in Nat \ {0} /\ (p.i + 1) - 1 = p.i
      /\ IF p.i = Len(CompositeSlots) THEN p.i + 1 = Len(CompositeSlots) + 1
         ELSE p.i + 1 \in Slots
  BY <1>1, SlotFacts, NextPlace
<1> HIDE DEF CompositeType, DerivedType
<1>3. CASE p.i = Len(CompositeSlots)
  <2> DEFINE q == [p EXCEPT !.at = "render", !.i = @ + 1]
  <2>1. q \in PassType /\ q.at = "render" /\ q.i = p.i + 1 /\ q.values = p.values
        /\ q.alerts = p.alerts /\ q.orphan = p.orphan
    BY <1>2 DEF PassType, CompositeStages
  <2> HIDE DEF q
  <2>2. PlaceOf(q)
    BY <1>1, <1>2, <1>3, <2>1 DEF PlaceOf, CompositeStages, DerivedStages
  <2>3. QED
    BY <1>3, <2>1, <2>2 DEF q
<1>4. CASE p.i # Len(CompositeSlots)
  BY <1>1, <1>2, <1>4 DEF PlaceOf, PassType, CompositeStages, DerivedStages
<1>5. QED
  BY <1>3, <1>4

LEMMA StoringPass ==
  ASSUME NEW p \in PassType, PlaceOf(p), p.at = "paint"
  PROVE  [p EXCEPT !.at = "store"] \in PassType /\ PlaceOf([p EXCEPT !.at = "store"])
<1> HIDE DEF CompositeType, DerivedType
<1>1. QED
  BY DEF PlaceOf, PassType, CompositeStages, DerivedStages

LEMMA GatheredPass ==
  ASSUME NEW p \in PassType, PlaceOf(p), p.at = "gather", NEW v \in Int \cup {None}
  PROVE  LET next == [p EXCEPT !.at = IF p.i = Len(DerivedSlots) THEN "finish" ELSE "gather",
                               !.i = @ + 1, !.values = Append(@, v)]
         IN  next \in PassType /\ PlaceOf(next)
<1>1. /\ p.i \in DSlots /\ Len(p.values) = p.i - 1 /\ p.orphan \in {None} \cup DerivedType
      /\ p.values \in Seq(Int \cup {None})
  <2> HIDE DEF CompositeType, DerivedType
  <2>1. QED
    BY DEF PlaceOf, PassType, DerivedStages
<1>2. Append(p.values, v) \in Seq(Int \cup {None}) /\ Len(Append(p.values, v)) = p.i
  BY <1>1, SlotFacts, AppendProperties
<1>3. /\ p.i \in Nat \ {0} /\ p.i + 1 \in Nat \ {0} /\ (p.i + 1) - 1 = p.i
      /\ IF p.i = Len(DerivedSlots) THEN p.i + 1 = Len(DerivedSlots) + 1
         ELSE p.i + 1 \in DSlots
  BY <1>1, SlotFacts, NextPlace
<1> HIDE DEF CompositeType, DerivedType
<1>4. CASE p.i = Len(DerivedSlots)
  <2> DEFINE q == [p EXCEPT !.at = "finish", !.i = @ + 1, !.values = Append(@, v)]
  <2>1. q \in PassType /\ q.at = "finish" /\ q.i = p.i + 1
        /\ q.values = Append(p.values, v) /\ q.orphan = p.orphan
    BY <1>2, <1>3 DEF PassType, DerivedStages
  <2> HIDE DEF q
  <2>2. PlaceOf(q)
    BY <1>1, <1>2, <1>3, <1>4, <2>1 DEF PlaceOf, CompositeStages, DerivedStages
  <2>3. QED
    BY <1>4, <2>1, <2>2 DEF q
<1>5. CASE p.i # Len(DerivedSlots)
  BY <1>1, <1>2, <1>3, <1>5 DEF PlaceOf, PassType, CompositeStages, DerivedStages
<1>6. QED
  BY <1>4, <1>5

-----------------------------------------------------------------------------
(* Every step keeps the types.                                             *)

LEMMA PublishTypes ==
  ASSUME TypeOK, NEW r \in Readings, NEW v \in Levels[r] \cup {None}, Publish(r, v)
  PROVE  TypeOK'
<1>1. Parts
  BY TypeParts
<1>2. value' \in [Readings -> Int \cup {None}]
  BY <1>1, LevelsAssumption DEF Parts, Publish
<1>3. composite' \in CompositeType /\ derived' \in DerivedType
  <2> HIDE DEF SlotType, DerivedSlotType
  <2>1. QED
    BY <1>1 DEF Parts, Publish, CompositeType, DerivedType
<1>4. pass' \in PassType /\ PlaceOf(pass')
  BY <1>1, TouchedType DEF Parts, Publish
<1>5. Parts'
  BY <1>1, <1>2, <1>3, <1>4 DEF Parts, Publish
<1>6. QED
  BY <1>5, TypeParts

LEMMA BeginTypes ==
  ASSUME TypeOK, BeginComposite \/ BeginDerived
  PROVE  TypeOK'
<1>1. Parts
  BY TypeParts
<1>2. composite' \in CompositeType
  <2> HIDE DEF SlotType
  <2>1. QED
    BY <1>1 DEF Parts, BeginComposite, BeginDerived, CompositeType
<1>3. pass' \in PassType /\ PlaceOf(pass')
  <2>1. composite.dirty \in BOOLEAN
    BY <1>1 DEF Parts, CompositeType
  <2>2. QED
    BY <2>1, IdleType DEF BeginComposite, BeginDerived
<1>4. Parts'
  BY <1>1, <1>2, <1>3 DEF Parts, BeginComposite, BeginDerived, environment
<1>5. QED
  BY <1>4, TypeParts

LEMMA EvaluateTypes ==
  ASSUME TypeOK, EvaluateSlot
  PROVE  TypeOK'
<1> DEFINE s  == Holding(composite).slots[pass.i]
           st == evaluateThresholds(s, value[s.reading], states.composite[pass.i])
<1>1. Parts
  BY TypeParts
<1>2. pass.at = "slot" /\ pass.i \in Slots /\ pass \in PassType /\ PlaceOf(pass)
  <2> HIDE DEF CompositeType, DerivedType, PassType
  <2>1. QED
    BY <1>1 DEF EvaluateSlot, Parts, PlaceOf, CompositeStages
<1>3. s.list \in Seq(Ids) /\ s.reading \in Readings \cup {None}
  BY <1>1, <1>2, HeldTypes, SlotOf DEF CompositeStages
<1>4. Available(s) => value[s.reading] \in Int
  BY <1>1, <1>3 DEF Available, Parts
<1>5. st \in [Ids -> StateType] /\ Winner(s, st) \in Ids \cup {None}
  <2>1. states.composite[pass.i] \in [Ids -> StateType]
    BY <1>1, <1>2 DEF Parts
  <2>2. QED
    BY <1>3, <2>1, OwnIds, EvaluatedStates, WinnerType
<1> HIDE DEF s, st
<1>6. CASE ~Available(s)
  <2>1. pass' = NextSlot(None, None) /\ UNCHANGED states
    BY <1>6 DEF EvaluateSlot, s
  <2>2. pass' \in PassType /\ PlaceOf(pass')
    BY <1>2, <2>1, EvaluatedPass DEF NextSlot
  <2>3. Parts'
    BY <1>1, <2>1, <2>2 DEF Parts, EvaluateSlot, environment
  <2>4. QED
    BY <2>3, TypeParts
<1>7. CASE Available(s)
  <2>1. /\ states' = [states EXCEPT !.composite[pass.i] = st]
        /\ pass' = [pass EXCEPT !.at = "paint", !.values = Append(@, value[s.reading]),
                                !.alerts = Append(@, Winner(s, st))]
    BY <1>7 DEF EvaluateSlot, s, st
  <2>2. pass' \in PassType /\ PlaceOf(pass')
    BY <1>2, <1>4, <1>5, <1>7, <2>1, EvaluatedPass
  <2>3. states' \in [composite : [Slots -> [Ids -> StateType]], derived : StateType]
    BY <1>1, <1>2, <1>5, <2>1 DEF Parts
  <2>4. Parts'
    BY <1>1, <2>2, <2>3 DEF Parts, EvaluateSlot, environment
  <2>5. QED
    BY <2>4, TypeParts
<1>8. QED
  BY <1>6, <1>7

\* The alert of the pass is the last of those it has found.
LEMMA LastAlert ==
  ASSUME Parts, pass.at \in {"paint", "store"}
  PROVE  /\ pass.i \in Slots /\ Len(pass.alerts) = pass.i
         /\ Last(pass.alerts) = pass.alerts[pass.i] /\ Last(pass.alerts) \in Ids \cup {None}
<1>1. pass.i \in Slots /\ Len(pass.alerts) = pass.i /\ pass \in PassType
  <2> HIDE DEF CompositeType, DerivedType, PassType
  <2>1. QED
    BY DEF Parts, PlaceOf, CompositeStages
<1>2. pass.alerts \in Seq(Ids \cup {None})
  BY <1>1 DEF PassType
<1>3. pass.i \in 1 .. Len(pass.alerts)
  BY <1>1, SlotFacts
<1>4. QED
  BY <1>1, <1>2, <1>3, ElementOfSeq DEF Last

LEMMA PaintTypes ==
  ASSUME TypeOK, PaintSlot
  PROVE  TypeOK'
<1> DEFINE i       == pass.i
           alert   == Last(pass.alerts)
           repaint == Repaints(composite.slots[i], alert)
           other   == alert # composite.slots[i].current
           up      == alert # None
<1>1. Parts /\ pass.at = "paint"
  BY TypeParts DEF PaintSlot
<1>2. i \in Slots /\ alert \in Ids \cup {None}
  BY <1>1, LastAlert
<1>3. pass' \in PassType /\ PlaceOf(pass')
  BY <1>1, StoringPass DEF Parts, PaintSlot
<1>4. composite' \in CompositeType
  <2>1. repaint \in BOOLEAN /\ other \in BOOLEAN /\ up \in BOOLEAN
    <3>1. pass.force \in BOOLEAN
      BY <1>1 DEF Parts, PassType
    <3>2. QED
      BY <3>1, Zenon DEF Repaints
  <2>2. composite' = IF pass.orphan # None THEN composite
           ELSE [composite EXCEPT
                  !.painted[i] = IF repaint THEN alert ELSE @,
                  !.lost[i] = up /\ ~repaint /\ (@ \/ other)]
    BY DEF PaintSlot
  <2> HIDE DEF i, alert, repaint, other, up, SlotType
  <2>3. QED
    BY <1>1, <1>2, <2>1, <2>2 DEF Parts, CompositeType
<1>5. Parts'
  BY <1>1, <1>3, <1>4 DEF Parts, PaintSlot, environment
<1>6. QED
  BY <1>5, TypeParts

LEMMA StoreTypes ==
  ASSUME TypeOK, StoreAlert
  PROVE  TypeOK'
<1> DEFINE i     == pass.i
           alert == Last(pass.alerts)
           mine  == pass.orphan = None
           up    == alert # None
<1>1. Parts /\ pass.at = "store"
  BY TypeParts DEF StoreAlert
<1>2. i \in Slots /\ alert \in Ids \cup {None}
  BY <1>1, LastAlert
<1>3. pass' \in PassType /\ PlaceOf(pass')
  BY <1>1, PaintedPass DEF Parts, StoreAlert
<1>4. composite' \in CompositeType
  <2>1. [composite.slots[i] EXCEPT !.current = alert] \in SlotType
    <3>1. composite.slots[i] \in SlotType
      BY <1>1, <1>2, SlotOf DEF Parts
    <3>2. QED
      BY <1>2, <3>1 DEF SlotType
  <2>2. composite' = IF ~composite.shown THEN composite
           ELSE [composite EXCEPT
                  !.slots[i].current = alert,
                  !.lost[i] = IF mine THEN @ ELSE up]
    BY DEF StoreAlert
  <2>3. up \in BOOLEAN
    OBVIOUS
  <2> HIDE DEF i, alert, mine, up, SlotType
  <2>4. QED
    BY <1>1, <1>2, <2>1, <2>2, <2>3 DEF Parts, CompositeType
<1>5. Parts'
  BY <1>1, <1>3, <1>4 DEF Parts, StoreAlert, environment
<1>6. QED
  BY <1>5, TypeParts

LEMMA RenderTypes ==
  ASSUME TypeOK, RenderComposite
  PROVE  TypeOK'
<1>1. Parts
  BY TypeParts
<1>2. composite' \in CompositeType
  <2>1. pass.poll \in BOOLEAN /\ pass.clean \in BOOLEAN
    BY <1>1 DEF Parts, PassType
  <2>2. \/ UNCHANGED composite
        \/ composite' = [composite EXCEPT !.fresh = ~pass.poll, !.edited = @ /\ ~pass.clean]
    BY Zenon DEF RenderComposite
  <2> HIDE DEF SlotType
  <2>3. QED
    BY <1>1, <2>1, <2>2 DEF Parts, CompositeType
<1>3. Parts'
  BY <1>1, <1>2, IdleType DEF Parts, RenderComposite, environment
<1>4. QED
  BY <1>3, TypeParts

LEMMA GatherTypes ==
  ASSUME TypeOK, GatherSlot
  PROVE  TypeOK'
<1>1. Parts
  BY TypeParts
<1>2. pass.at = "gather" /\ pass.i \in DSlots /\ pass \in PassType /\ PlaceOf(pass)
  <2> HIDE DEF CompositeType, DerivedType, PassType
  <2>1. QED
    BY <1>1 DEF GatherSlot, Parts, PlaceOf, DerivedStages
<1>3. ValueOf(Holding(derived).slots[pass.i]) \in Int \cup {None}
  <2>1. Holding(derived).slots[pass.i] \in DerivedSlotType
    BY <1>1, <1>2, HeldTypes DEF DerivedStages, DerivedType
  <2>2. Holding(derived).slots[pass.i].reading \in Readings \cup {None}
    BY <2>1 DEF DerivedSlotType
  <2>3. QED
    BY <2>2, ValueType
<1>4. pass' \in PassType /\ PlaceOf(pass')
  BY <1>2, <1>3, GatheredPass DEF GatherSlot
<1>5. Parts'
  BY <1>1, <1>4 DEF Parts, GatherSlot, environment
<1>6. QED
  BY <1>5, TypeParts

LEMMA TooFewTypes ==
  ASSUME TypeOK, TooFew
  PROVE  TypeOK'
<1>1. Parts
  BY TypeParts
<1>2. derived' \in DerivedType
  <2>1. (pass.poll /\ pass.clean /\ pass.orphan = None) \in BOOLEAN
    BY <1>1 DEF Parts, PassType
  <2>2. QED
    BY <1>1, <2>1 DEF Parts, TooFew, DerivedType
<1>3. Parts'
  BY <1>1, <1>2, IdleType DEF Parts, TooFew, environment
<1>4. QED
  BY <1>3, TypeParts

\* A pass that has evaluated its result is in place, and stays there while it paints,
\* stores and draws.
LEMMA FinishedPass ==
  ASSUME NEW p \in PassType, PlaceOf(p), p.at = "finish",
         NEW f \in Formulas, NEW a \in {None, Library}
  PROVE  LET next == [p EXCEPT !.at = "repaint", !.formula = f, !.alerts = <<a>>]
         IN  next \in PassType /\ PlaceOf(next)
<1>1. /\ p.i = Len(DerivedSlots) + 1 /\ Len(p.values) = p.i - 1
      /\ p.orphan \in {None} \cup DerivedType
  <2> HIDE DEF CompositeType, DerivedType
  <2>1. QED
    BY DEF PlaceOf, DerivedStages
<1>2. <<a>> \in Seq(Ids \cup {None}) /\ Len(<<a>>) = 1 /\ <<a>>[1] = a
  BY OwnIds
<1> DEFINE q == [p EXCEPT !.at = "repaint", !.formula = f, !.alerts = <<a>>]
<1> HIDE DEF CompositeType, DerivedType, Formulas
<1>3. /\ q \in PassType /\ q.at = "repaint" /\ q.i = p.i
      /\ q.values = p.values /\ q.alerts = <<a>> /\ q.orphan = p.orphan
  BY <1>2 DEF PassType, DerivedStages
<1> HIDE DEF q
<1>4. PlaceOf(q)
  BY <1>1, <1>2, <1>3 DEF PlaceOf, CompositeStages, DerivedStages
<1>5. QED
  BY <1>3, <1>4 DEF q

LEMMA LaterPass ==
  ASSUME NEW p \in PassType, PlaceOf(p), p.at \in {"repaint", "keep"},
         NEW at \in {"keep", "draw"}, NEW tile \in {None} \cup DerivedType
  PROVE  LET next == [p EXCEPT !.at = at]
             held == [p EXCEPT !.at = at, !.orphan = tile]
         IN  /\ next \in PassType /\ PlaceOf(next)
             /\ held \in PassType /\ PlaceOf(held)
<1> HIDE DEF CompositeType, DerivedType
<1>1. QED
  BY DEF PlaceOf, PassType, CompositeStages, DerivedStages

\* The alert of a pass that has evaluated its result.
LEMMA HeadAlert ==
  ASSUME Parts, pass.at \in {"repaint", "keep", "draw"}
  PROVE  /\ Head(pass.alerts) = pass.alerts[1] /\ Head(pass.alerts) \in {None, Library}
         /\ pass \in PassType /\ PlaceOf(pass)
         /\ pass.at \in DerivedStages
<1> HIDE DEF CompositeType, DerivedType, PassType
<1>1. QED
  BY DEF Parts, PlaceOf, DerivedStages

LEMMA PaintedType ==
  ASSUME NEW d \in DerivedType, NEW alert \in {None, Library}
  PROVE  /\ Painted(d, alert) \in DerivedType
         /\ [Painted(d, alert) EXCEPT !.lost = {}] \in DerivedType
<1> HIDE DEF DerivedSlotType
<1>1. QED
  BY DEF Painted, DerivedType

LEMMA FinishTypes ==
  ASSUME TypeOK, FinishDerived
  PROVE  TypeOK'
<1> DEFINE held   == Holding(derived)
           result == computeDerived(held.formula, Present(pass.values))
           st     == DerivedEvaluated(held, result)
           alert  == DerivedAlert(held, st)
<1>1. Parts /\ pass.at = "finish" /\ Len(Present(pass.values)) >= 2
  BY TypeParts DEF FinishDerived
<1>2. held \in DerivedType
  BY <1>1, HeldTypes DEF DerivedStages
<1>3. st \in StateType /\ alert \in {None, Library}
  BY DerivedStateType, DerivedAlertType
<1>4. held.formula \in Formulas
  BY <1>2 DEF DerivedType
<1>5. pass' = [pass EXCEPT !.at = "repaint", !.formula = held.formula, !.alerts = <<alert>>]
      /\ states' = [states EXCEPT !.derived = st]
  BY Zenon DEF FinishDerived
<1>6. pass' \in PassType /\ PlaceOf(pass')
  <2> HIDE DEF held, result, st, alert
  <2>1. QED
    BY <1>1, <1>3, <1>4, <1>5, FinishedPass DEF Parts
<1>7. states' \in [composite : [Slots -> [Ids -> StateType]], derived : StateType]
  <2> HIDE DEF held, result, st, alert
  <2>1. QED
    BY <1>1, <1>3, <1>5 DEF Parts
<1>8. Parts'
  BY <1>1, <1>6, <1>7 DEF Parts, FinishDerived, environment
<1>9. QED
  BY <1>8, TypeParts

LEMMA RepaintTypes ==
  ASSUME TypeOK, RepaintDerived
  PROVE  TypeOK'
<1> DEFINE alert   == Head(pass.alerts)
           repaint == derived.dirty \/ alert # Holding(derived).current
           mine    == pass.orphan = None
           drawn   == IF repaint /\ mine THEN [Painted(derived, alert) EXCEPT !.lost = {}]
                      ELSE derived
<1>1. Parts /\ pass.at = "repaint"
  BY TypeParts DEF RepaintDerived
<1>2. alert \in {None, Library} /\ pass \in PassType /\ PlaceOf(pass) /\ pass.at \in DerivedStages
  BY <1>1, HeadAlert
<1>3. drawn \in DerivedType
  <2> HIDE DEF DerivedType, repaint, mine, alert
  <2>1. QED
    BY <1>1, <1>2, PaintedType DEF Parts
<1>4. derived' \in DerivedType
  <2>1. derived' = [drawn EXCEPT !.dirty = FALSE]
    BY Zenon DEF RepaintDerived
  <2> HIDE DEF drawn, DerivedSlotType
  <2>2. QED
    BY <1>3, <2>1 DEF DerivedType
<1>5. pass' \in PassType /\ PlaceOf(pass')
  <2> DEFINE tile == IF repaint /\ ~mine THEN Painted(pass.orphan, alert) ELSE pass.orphan
             at   == IF repaint THEN "keep" ELSE "draw"
  <2>1. pass.orphan \in {None} \cup DerivedType
    <3> HIDE DEF CompositeType, DerivedType
    <3>1. QED
      BY <1>2 DEF PlaceOf
  <2>2. tile \in {None} \cup DerivedType
    <3> HIDE DEF DerivedType, repaint, alert
    <3>1. QED
      BY <1>2, <2>1, PaintedType
  <2>3. pass' = [pass EXCEPT !.at = at, !.orphan = tile]
    BY Zenon DEF RepaintDerived
  <2>4. at \in {"keep", "draw"}
    OBVIOUS
  <2> HIDE DEF tile, at
  <2>5. QED
    BY <1>1, <1>2, <2>2, <2>3, <2>4, LaterPass
<1>6. Parts'
  BY <1>1, <1>4, <1>5 DEF Parts, RepaintDerived, environment
<1>7. QED
  BY <1>6, TypeParts

LEMMA StoreDerivedTypes ==
  ASSUME TypeOK, StoreDerivedAlert
  PROVE  TypeOK'
<1> DEFINE alert == Head(pass.alerts)
           mine  == pass.orphan = None
           gone  == LostIf(alert # None)
<1>1. Parts /\ pass.at = "keep"
  BY TypeParts DEF StoreDerivedAlert
<1>2. alert \in {None, Library} /\ pass \in PassType /\ PlaceOf(pass)
  BY <1>1, HeadAlert
<1>3. gone \in SUBSET Colors
  BY DEF LostIf
<1>4. derived' = IF ~derived.shown THEN derived
                 ELSE [derived EXCEPT !.current = alert, !.lost = IF mine THEN @ ELSE gone]
  BY DEF StoreDerivedAlert
<1>5. derived' \in DerivedType
  <2> HIDE DEF alert, mine, gone, DerivedSlotType, Colors
  <2>1. QED
    BY <1>1, <1>2, <1>3, <1>4 DEF Parts, DerivedType
<1>6. pass' \in PassType /\ PlaceOf(pass')
  BY <1>1, <1>2, LaterPass DEF StoreDerivedAlert
<1>7. Parts'
  BY <1>1, <1>5, <1>6 DEF Parts, StoreDerivedAlert, environment
<1>8. QED
  BY <1>7, TypeParts

LEMMA DrawTypes ==
  ASSUME TypeOK, DrawDerived
  PROVE  TypeOK'
<1>1. Parts /\ pass.at = "draw"
  BY TypeParts DEF DrawDerived
<1>2. derived' \in {derived, StorePoll(derived)}
  <2> HIDE DEF DerivedType
  <2>1. QED
    BY Zenon DEF DrawDerived
<1>3. derived' \in DerivedType
  <2>1. pass.poll \in BOOLEAN /\ pass.clean \in BOOLEAN
    BY <1>1 DEF Parts, PassType
  <2> HIDE DEF DerivedSlotType
  <2>2. QED
    BY <1>1, <1>2, <2>1 DEF Parts, StorePoll, DerivedType
<1>4. Parts'
  BY <1>1, <1>3, IdleType DEF Parts, DrawDerived, environment
<1>5. QED
  BY <1>4, TypeParts

\* An edit leaves slot settings of their type.
LEMMA EditSlotTypes ==
  ASSUME TypeOK, NEW i \in Slots, NEW s \in SlotType, NEW p \in Ids \cup {None},
         NEW mark \in BOOLEAN, EditSlot(i, s, p, mark),
         states' \in [composite : [Slots -> [Ids -> StateType]], derived : StateType],
         handling' \in {None} \cup HandlingType
  PROVE  TypeOK'
<1>1. Parts
  BY TypeParts
<1>2. composite' \in CompositeType
  <2> DEFINE bare == p # composite.painted[i]
  <2>1. bare \in BOOLEAN
    OBVIOUS
  <2>2. composite' = [composite EXCEPT
          !.slots[i] = s, !.edited = TRUE, !.dirty = @ \/ mark, !.painted[i] = p,
          !.lost[i] = @ \/ bare]
    BY DEF EditSlot
  <2> HIDE DEF bare, SlotType
  <2>3. QED
    BY <1>1, <2>1, <2>2 DEF Parts, CompositeType
<1>3. stored' \in [composite : [Slots -> SlotType], derived : DerivedSettings]
  <2>1. composite'.slots \in [Slots -> SlotType]
    BY <1>2 DEF CompositeType
  <2> HIDE DEF SlotType, DerivedSettings
  <2>2. QED
    BY <1>1, <2>1 DEF Parts, EditSlot
<1>4. pass' \in PassType /\ PlaceOf(pass')
  <2>1. (pass.clean /\ pass.at \notin CompositeStages) \in BOOLEAN
    BY <1>1 DEF Parts, PassType
  <2>2. QED
    BY <1>1, <2>1, TouchedType DEF Parts, EditSlot, Touched
<1>5. Parts'
  BY <1>1, <1>2, <1>3, <1>4 DEF Parts, EditSlot, environment
<1>6. QED
  BY <1>5, TypeParts

LEMMA EditedSlot ==
  ASSUME NEW s \in SlotType
  PROVE  /\ [s EXCEPT !.reading = None, !.valid = FALSE] \in SlotType
         /\ \A r \in Readings : [s EXCEPT !.reading = r, !.valid = TRUE] \in SlotType
         /\ \A r \in Readings : [s EXCEPT !.reading = r] \in SlotType
         /\ \A l \in Seq(Own), e \in SUBSET Own :
              IsInjective(l) => [s EXCEPT !.list = l, !.enabled = e] \in SlotType
         /\ \A l \in Seq(Own) : IsInjective(l) => [s EXCEPT !.list = l] \in SlotType
         /\ \A l \in Seq(Own), c \in Ids \cup {None} :
              IsInjective(l) => [s EXCEPT !.list = l, !.current = c] \in SlotType
         /\ \A e \in SUBSET Own : [s EXCEPT !.enabled = e] \in SlotType
         /\ [s EXCEPT !.suppressed = ~@] \in SlotType
<1>1. /\ [s EXCEPT !.reading = None, !.valid = FALSE] \in SlotType
      /\ \A r \in Readings : [s EXCEPT !.reading = r, !.valid = TRUE] \in SlotType
      /\ \A r \in Readings : [s EXCEPT !.reading = r] \in SlotType
  BY DEF SlotType
<1>2. /\ \A e \in SUBSET Own : [s EXCEPT !.enabled = e] \in SlotType
      /\ [s EXCEPT !.suppressed = ~@] \in SlotType
  BY DEF SlotType
<1>3. ASSUME NEW l \in {q \in Seq(Own) : IsInjective(q)}
      PROVE  /\ \A e \in SUBSET Own : [s EXCEPT !.list = l, !.enabled = e] \in SlotType
             /\ [s EXCEPT !.list = l] \in SlotType
             /\ \A c \in Ids \cup {None} : [s EXCEPT !.list = l, !.current = c] \in SlotType
  BY DEF SlotType
<1>4. QED
  BY <1>1, <1>2, <1>3

\* The type of a slot, of its graph and of its list, to start an edit from.
LEMMA SlotNow ==
  ASSUME Parts, NEW i \in Slots
  PROVE  /\ composite.slots[i] \in SlotType
         /\ composite.painted[i] \in Ids \cup {None} /\ None \in Ids \cup {None}
         /\ composite.slots[i].list \in Seq(Own) /\ IsInjective(composite.slots[i].list)
         /\ composite.slots[i].enabled \in SUBSET Own
         /\ composite.slots[i].current \in Ids \cup {None}
<1>1. composite \in CompositeType
  BY DEF Parts
<1>2. composite.painted[i] \in Ids \cup {None}
  BY <1>1 DEF CompositeType
<1>3. QED
  BY <1>1, <1>2, SlotOf

LEMMA RestOfTypes ==
  ASSUME TypeOK
  PROVE  /\ states \in [composite : [Slots -> [Ids -> StateType]], derived : StateType]
         /\ handling \in {None} \cup HandlingType
         /\ Parts
BY TypeParts DEF Parts

LEMMA SensorTypes ==
  ASSUME TypeOK, NEW i \in Slots,
         handleCompositeSlotSensorSelect(i) \/ handleCompositeSlotField(i)
         \/ handleCompositeSlotSuppressGlobal(i)
  PROVE  TypeOK'
<1> HIDE DEF SlotType
<1>1. Parts
  BY TypeParts
<1>2. /\ states' \in [composite : [Slots -> [Ids -> StateType]], derived : StateType]
      /\ handling' \in {None} \cup HandlingType
  BY RestOfTypes DEF handleCompositeSlotSensorSelect, handleCompositeSlotField,
                     handleCompositeSlotSuppressGlobal
<1>3. CASE handleCompositeSlotSensorSelect(i)
  BY <1>1, <1>2, <1>3, SlotNow, EditedSlot, EditSlotTypes DEF handleCompositeSlotSensorSelect
<1>4. CASE handleCompositeSlotField(i)
  BY <1>1, <1>2, <1>4, SlotNow, EditSlotTypes DEF handleCompositeSlotField
<1>5. CASE handleCompositeSlotSuppressGlobal(i)
  BY <1>1, <1>2, <1>5, SlotNow, EditedSlot, EditSlotTypes DEF handleCompositeSlotSuppressGlobal
<1>6. QED
  BY <1>3, <1>4, <1>5

\* A change of the composite tile marks a pass over it.
LEMMA TouchedPass ==
  ASSUME Parts, NEW stages, pass' = Touched(stages)
  PROVE  pass' \in PassType /\ PlaceOf(pass')
<1>1. (pass.clean /\ pass.at \notin stages) \in BOOLEAN
  BY DEF Parts, PassType
<1>2. QED
  BY <1>1, TouchedType DEF Parts, Touched

\* What is left of a handler, and of which slot.
LEMMA HandlingParts ==
  ASSUME Parts, handling # None
  PROVE  /\ handling[1] \in {"reset", "ask", "rebuild"} => handling[2] \in Slots
         /\ handling[1] = "reset" => handling[3] \in Own
         /\ handling[1] \in {"ask", "rebuild", "ask derived"} => handling[3] \in Readings
         /\ handling[1] = "ask derived" => handling[2] \in DSlots
         /\ handling[1] = "ask" => [handling EXCEPT ![1] = "rebuild"] \in HandlingType
<1>1. handling \in HandlingType
  BY DEF Parts
<1>2. CASE handling \in {"reset"} \X Slots \X Own
  BY <1>2
<1>3. CASE handling \in {"ask", "rebuild"} \X Slots \X Readings
  <2>1. PICK k \in {"ask", "rebuild"}, i \in Slots, r \in Readings : handling = <<k, i, r>>
    BY <1>3
  <2>2. [handling EXCEPT ![1] = "rebuild"] = <<"rebuild", i, r>>
    BY <2>1
  <2>3. [handling EXCEPT ![1] = "rebuild"] \in {"ask", "rebuild"} \X Slots \X Readings
    BY <2>2
  <2>4. [handling EXCEPT ![1] = "rebuild"] \in HandlingType
    BY <2>3 DEF HandlingType
  <2>5. QED
    BY <2>1, <2>4
<1>4. CASE handling \in {"ask derived"} \X DSlots \X Readings
  BY <1>4
<1>5. QED
  BY <1>1, <1>2, <1>3, <1>4 DEF HandlingType

LEMMA ReadingTypes ==
  ASSUME TypeOK, NEW i \in Slots, NEW r \in Readings, handleCompositeSlotReadingSelect(i, r)
  PROVE  TypeOK'
<1> DEFINE s == composite.slots[i]
<1>1. Parts
  BY TypeParts
<1>2. composite' \in CompositeType
  <2>1. [s EXCEPT !.reading = r] \in SlotType
    BY <1>1, SlotNow, EditedSlot
  <2> HIDE DEF SlotType
  <2>2. QED
    BY <1>1, <2>1 DEF Parts, CompositeType, handleCompositeSlotReadingSelect
<1>3. pass' \in PassType /\ PlaceOf(pass')
  BY <1>1, TouchedPass DEF handleCompositeSlotReadingSelect
<1>4. handling' \in HandlingType
  BY DEF handleCompositeSlotReadingSelect, HandlingType
<1>5. Parts'
  BY <1>1, <1>2, <1>3, <1>4 DEF Parts, environment, handleCompositeSlotReadingSelect
<1>6. QED
  BY <1>5, TypeParts

LEMMA AnswerTypes ==
  ASSUME TypeOK, AnswerComposite
  PROVE  TypeOK'
<1> DEFINE i == handling[2]
<1>1. Parts
  BY TypeParts
<1>2. i \in Slots /\ [handling EXCEPT ![1] = "rebuild"] \in HandlingType
  BY <1>1, HandlingParts DEF AnswerComposite
<1>3. CASE /\ composite' = [composite EXCEPT !.slots[i].valid = TRUE, !.edited = TRUE]
           /\ pass' = Touched(CompositeStages) /\ handling' = [handling EXCEPT ![1] = "rebuild"]
  <2>1. composite' \in CompositeType
    <3>1. [composite.slots[i] EXCEPT !.valid = TRUE] \in SlotType
      <4>1. composite.slots[i] \in SlotType
        BY <1>1, <1>2, SlotNow
      <4>2. QED
        BY <4>1 DEF SlotType
    <3> HIDE DEF SlotType, i
    <3>2. QED
      BY <1>1, <1>2, <1>3, <3>1 DEF Parts, CompositeType
  <2>2. pass' \in PassType /\ PlaceOf(pass')
    BY <1>1, <1>3, TouchedPass
  <2>3. Parts'
    BY <1>1, <1>2, <1>3, <2>1, <2>2 DEF Parts, environment, AnswerComposite
  <2>4. QED
    BY <2>3, TypeParts
<1>4. CASE handling' = None /\ UNCHANGED <<composite, pass>>
  <2>1. Parts'
    BY <1>1, <1>4 DEF Parts, environment, AnswerComposite
  <2>2. QED
    BY <2>1, TypeParts
<1>5. QED
  BY <1>3, <1>4 DEF AnswerComposite

LEMMA RebuildTypes ==
  ASSUME TypeOK, rebuildCompositeGraph
  PROVE  TypeOK'
<1> DEFINE i == handling[2]
           bare == composite.painted[i] # None
<1>1. Parts
  BY TypeParts
<1>2. i \in Slots
  BY <1>1, HandlingParts DEF rebuildCompositeGraph
<1>3. composite' \in CompositeType
  <2>1. composite' = [composite EXCEPT !.painted[i] = None, !.edited = TRUE,
                                       !.lost[i] = @ \/ bare]
    BY DEF rebuildCompositeGraph
  <2>2. bare \in BOOLEAN
    OBVIOUS
  <2> HIDE DEF SlotType, i, bare
  <2>3. QED
    BY <1>1, <1>2, <2>1, <2>2 DEF Parts, CompositeType
<1>4. stored' \in [composite : [Slots -> SlotType], derived : DerivedSettings]
  <2>1. composite'.slots \in [Slots -> SlotType]
    BY <1>3 DEF CompositeType
  <2> HIDE DEF SlotType, DerivedSettings
  <2>2. QED
    BY <1>1, <2>1 DEF Parts, rebuildCompositeGraph
<1>5. pass' \in PassType /\ PlaceOf(pass')
  BY <1>1, TouchedPass DEF rebuildCompositeGraph
<1>6. Parts'
  BY <1>1, <1>3, <1>4, <1>5 DEF Parts, environment, rebuildCompositeGraph
<1>7. QED
  BY <1>6, TypeParts

LEMMA ThresholdTypes ==
  ASSUME TypeOK, NEW i \in Slots, NEW id \in Own,
         handleCompositeAddThreshold(i, id) \/ handleCompositeRemoveThreshold(i, id)
         \/ handleCompositeThresholdUpdate(i, id)
  PROVE  TypeOK'
<1> DEFINE s == composite.slots[i]
<1>1. Parts /\ id \in Ids
  BY TypeParts, OwnIds
<1>2. /\ s \in SlotType /\ s.list \in Seq(Own) /\ IsInjective(s.list)
      /\ s.enabled \in SUBSET Own /\ s.current \in Ids \cup {None}
      /\ composite.painted[i] \in Ids \cup {None}
  BY <1>1, SlotNow
<1>3. CASE handleCompositeAddThreshold(i, id)
  <2> DEFINE t == [s EXCEPT !.list = Append(@, id), !.enabled = @ \cup {id}]
  <2>1. t \in SlotType
    <3>1. id \notin ToSet(s.list) /\ s.enabled \cup {id} \in SUBSET Own
      BY <1>2, <1>3 DEF handleCompositeAddThreshold
    <3>2. Append(s.list, id) \in Seq(Own) /\ IsInjective(Append(s.list, id))
      BY <1>2, <3>1, AppendDistinct
    <3>3. QED
      BY <1>2, <3>1, <3>2, EditedSlot
  <2>2. EditSlot(i, t, composite.painted[i], TRUE) /\ UNCHANGED <<states, handling>>
    BY <1>3 DEF handleCompositeAddThreshold
  <2> HIDE DEF t, SlotType
  <2>3. QED
    BY <1>2, <2>1, <2>2, RestOfTypes, EditSlotTypes
<1>4. CASE handleCompositeRemoveThreshold(i, id)
  <2> DEFINE shownNow == s.current = id
             c == IF shownNow THEN None ELSE s.current
             p == IF shownNow THEN None ELSE composite.painted[i]
  <2>1. PICK k \in DOMAIN s.list :
          EditSlot(i, [s EXCEPT !.list = RemoveAt(@, k), !.current = IF shownNow THEN None ELSE @],
                   p, FALSE)
    BY <1>4, Zenon DEF handleCompositeRemoveThreshold
  <2>2. c \in Ids \cup {None} /\ p \in Ids \cup {None}
    BY <1>2
  <2>3. [s EXCEPT !.list = RemoveAt(@, k), !.current = c] \in SlotType
    <3>1. RemoveAt(s.list, k) \in Seq(Own) /\ IsInjective(RemoveAt(s.list, k))
      BY <1>2, RemoveDistinct
    <3>2. QED
      BY <1>2, <2>2, <3>1, EditedSlot
  <2>4. states' \in [composite : [Slots -> [Ids -> StateType]], derived : StateType]
    BY <1>1, <1>4, ZeroStateType DEF handleCompositeRemoveThreshold, Parts
  <2>5. handling' \in {None} \cup HandlingType
    BY <1>4, RestOfTypes DEF handleCompositeRemoveThreshold
  <2> HIDE DEF p, SlotType
  <2>6. EditSlot(i, [s EXCEPT !.list = RemoveAt(@, k), !.current = c], p, FALSE)
    BY <2>1
  <2>7. QED
    BY <2>2, <2>3, <2>4, <2>5, <2>6, EditSlotTypes
<1>5. CASE handleCompositeThresholdUpdate(i, id)
  <2> DEFINE e == IF id \in s.enabled THEN s.enabled \ {id} ELSE s.enabled \cup {id}
             t == [s EXCEPT !.enabled = IF id \in @ THEN @ \ {id} ELSE @ \cup {id}]
  <2>1. t \in SlotType
    <3>1. e \in SUBSET Own
      BY <1>2
    <3>2. [s EXCEPT !.enabled = e] \in SlotType
      BY <1>2, <3>1, EditedSlot
    <3>3. QED
      BY <3>2
  <2>2. EditSlot(i, t, composite.painted[i], TRUE) /\ UNCHANGED states
        /\ handling' = <<"reset", i, id>>
    BY <1>5 DEF handleCompositeThresholdUpdate
  <2>3. handling' \in {None} \cup HandlingType
    BY <2>2 DEF HandlingType
  <2> HIDE DEF t, SlotType
  <2>4. QED
    BY <1>2, <2>1, <2>2, <2>3, RestOfTypes, EditSlotTypes
<1>6. QED
  BY <1>3, <1>4, <1>5

LEMMA ReorderTypes ==
  ASSUME TypeOK, NEW i \in Slots, NEW k, handleCompositeReorderThreshold(i, k)
  PROVE  TypeOK'
<1> DEFINE s == composite.slots[i]
           l == [s.list EXCEPT ![k] = s.list[k + 1], ![k + 1] = s.list[k]]
<1>1. /\ s \in SlotType /\ s.list \in Seq(Own) /\ IsInjective(s.list)
      /\ composite.painted[i] \in Ids \cup {None}
  BY SlotNow, TypeParts
<1>2. /\ k \in 1 .. Len(s.list) - 1
      /\ EditSlot(i, [s EXCEPT !.list = l], composite.painted[i], TRUE)
      /\ UNCHANGED <<states, handling>>
  BY DEF handleCompositeReorderThreshold
<1>3. l \in Seq(Own) /\ IsInjective(l)
  BY <1>1, <1>2, SwapDistinct
<1> HIDE DEF l, SlotType
<1>4. QED
  BY <1>1, <1>2, <1>3, EditedSlot, RestOfTypes, EditSlotTypes

LEMMA ResetTypes ==
  ASSUME TypeOK, resetThresholdRuntimeState
  PROVE  TypeOK'
<1>1. Parts
  BY TypeParts
<1>2. handling[2] \in Slots /\ handling[3] \in Ids
  BY <1>1, OwnIds, HandlingParts DEF resetThresholdRuntimeState
<1>3. states' \in [composite : [Slots -> [Ids -> StateType]], derived : StateType]
  BY <1>1, <1>2, ZeroStateType DEF Parts, resetThresholdRuntimeState
<1>4. composite' \in CompositeType
  <2> HIDE DEF SlotType
  <2>1. QED
    BY <1>1 DEF Parts, resetThresholdRuntimeState, CompositeType
<1>5. pass' \in PassType /\ PlaceOf(pass')
  <2>1. (pass.clean /\ pass.at \notin CompositeStages) \in BOOLEAN
    BY <1>1 DEF Parts, PassType
  <2>2. QED
    BY <1>1, <2>1, TouchedType DEF Parts, resetThresholdRuntimeState, Touched
<1>6. Parts'
  BY <1>1, <1>3, <1>4, <1>5 DEF Parts, resetThresholdRuntimeState, environment
<1>7. QED
  BY <1>6, TypeParts

LEMMA ChangeDerivedTypes ==
  ASSUME TypeOK, NEW d \in DerivedType, ChangeDerived(d), SaveDerived \/ UNCHANGED stored,
         pass' \in PassType, PlaceOf(pass'), handling' \in {None} \cup HandlingType
  PROVE  TypeOK'
<1>1. Parts
  BY TypeParts
<1>2. derived' \in DerivedType
  <2> HIDE DEF DerivedSlotType
  <2>1. QED
    BY DEF ChangeDerived, DerivedType
<1>3. stored' \in [composite : [Slots -> SlotType], derived : DerivedSettings]
  <2>1. SavedDerived(derived') \in DerivedSettings
    BY <1>2 DEF SavedDerived, DerivedSettings, DerivedType
  <2> HIDE DEF SlotType, DerivedSettings
  <2>2. QED
    BY <1>1, <2>1 DEF Parts, SaveDerived
<1>4. Parts'
  BY <1>1, <1>2, <1>3 DEF Parts, ChangeDerived, environment
<1>5. QED
  BY <1>4, TypeParts

LEMMA EditDerivedTypes ==
  ASSUME TypeOK, NEW d \in DerivedType, EditDerived(d), SaveDerived \/ UNCHANGED stored
  PROVE  TypeOK'
<1>1. Parts
  BY TypeParts
<1>2. /\ ChangeDerived(d) /\ pass' = Touched(DerivedStages)
      /\ handling' \in {None} \cup HandlingType
  BY <1>1 DEF EditDerived, Parts
<1>3. pass' \in PassType /\ PlaceOf(pass')
  BY <1>1, <1>2, TouchedPass
<1>4. QED
  BY <1>2, <1>3, ChangeDerivedTypes

\* A pass that keeps a hidden tile, or a graph, is in place.
LEMMA OrphanedType ==
  ASSUME Parts, NEW stages, NEW holding, NEW tile,
         (holding \subseteq CompositeStages /\ tile \in CompositeType)
         \/ (holding \subseteq DerivedStages /\ tile \in DerivedType)
  PROVE  /\ Orphaned(stages, holding, tile) \in PassType
         /\ PlaceOf(Orphaned(stages, holding, tile))
<1> DEFINE busy == pass.at \in holding
           mine == pass.orphan = None
           b == pass.clean /\ pass.at \notin stages
<1>1. b \in BOOLEAN /\ pass \in PassType /\ PlaceOf(pass)
  BY DEF Parts, PassType
<1>2. CompositeStages \cap DerivedStages = {}
  BY DEF CompositeStages, DerivedStages
<1>3. CASE busy /\ mine
  <2>1. Orphaned(stages, holding, tile) = [pass EXCEPT !.clean = b, !.orphan = tile]
    BY <1>3, Zenon DEF Orphaned
  <2>2. tile \in CompositeType \/ tile \in DerivedType
    OBVIOUS
  <2>3. /\ pass.at \in CompositeStages => tile \in CompositeType
        /\ pass.at \in DerivedStages => tile \in DerivedType
    BY <1>2, <1>3
  <2> HIDE DEF CompositeType, DerivedType, b, CompositeStages, DerivedStages
  <2>4. QED
    BY <1>1, <2>1, <2>2, <2>3 DEF PassType, PlaceOf
<1>4. CASE ~(busy /\ mine)
  <2>1. Orphaned(stages, holding, tile) = [pass EXCEPT !.clean = b, !.orphan = @]
    BY <1>4, Zenon DEF Orphaned
  <2> HIDE DEF CompositeType, DerivedType, b, CompositeStages, DerivedStages
  <2>2. QED
    BY <1>1, <2>1 DEF PassType, PlaceOf
<1>5. QED
  BY <1>3, <1>4

LEMMA DerivedHandlerTypes ==
  ASSUME TypeOK, DerivedHandlers
  PROVE  TypeOK'
<1>1. derived \in DerivedType /\ derived.slots \in [DSlots -> DerivedSlotType]
      /\ derived.lost \in SUBSET Colors /\ derived.current \in {None, Library}
      /\ Parts
  BY TypeParts DEF Parts, DerivedType
<1>2. ASSUME NEW slots \in [DSlots -> DerivedSlotType]
      PROVE  [derived EXCEPT !.slots = slots] \in DerivedType
  <2> HIDE DEF DerivedSlotType
  <2>1. QED
    BY <1>1 DEF DerivedType
<1>3. ASSUME NEW S, handleDerivedSlotSensorSelect(S)
      PROVE  TypeOK'
  <2>1. [i \in DSlots |-> IF i \in S THEN [reading |-> None, valid |-> FALSE]
                          ELSE derived.slots[i]] \in [DSlots -> DerivedSlotType]
    BY <1>1 DEF DerivedSlotType
  <2>2. QED
    BY <1>2, <1>3, <2>1, EditDerivedTypes DEF handleDerivedSlotSensorSelect
<1>4. ASSUME NEW i \in DSlots, NEW r \in Readings,
             handleDerivedSlotReadingSelect(i, r) \/ handleDerivedSlotApplyFavorite(i, r)
      PROVE  TypeOK'
  <2>1. /\ [reading |-> r, valid |-> TRUE] \in DerivedSlotType
        /\ [derived.slots[i] EXCEPT !.reading = r] \in DerivedSlotType
    BY <1>1 DEF DerivedSlotType
  <2>2. /\ [derived EXCEPT !.slots[i] = [reading |-> r, valid |-> TRUE]] \in DerivedType
        /\ [derived EXCEPT !.slots[i].reading = r] \in DerivedType
    <3> HIDE DEF DerivedSlotType
    <3>1. QED
      BY <1>1, <2>1 DEF DerivedType
  <2>3. CASE handleDerivedSlotReadingSelect(i, r)
    <3>1. /\ ChangeDerived([derived EXCEPT !.slots[i].reading = r]) /\ UNCHANGED stored
          /\ pass' = Touched(DerivedStages) /\ handling' = <<"ask derived", i, r>>
      BY <2>3 DEF handleDerivedSlotReadingSelect
    <3>2. pass' \in PassType /\ PlaceOf(pass') /\ handling' \in HandlingType
      BY <1>1, <3>1, TouchedPass DEF HandlingType
    <3>3. QED
      BY <2>2, <3>1, <3>2, ChangeDerivedTypes
  <2>4. QED
    BY <1>4, <2>2, <2>3, EditDerivedTypes DEF handleDerivedSlotApplyFavorite
<1>5. ASSUME NEW f \in Formulas, handleDerivedGlobalField(f)
      PROVE  TypeOK'
  <2>1. [derived EXCEPT !.formula = f] \in DerivedType
    BY <1>1 DEF DerivedType
  <2>2. QED
    BY <1>5, <2>1, EditDerivedTypes DEF handleDerivedGlobalField
<1>6. CASE handleDerivedLoadPreset
  <2>1. "delta" \in Formulas /\ DerivedSlots \in [DSlots -> DerivedSlotType]
    BY SlotFacts DEF Formulas
  <2>2. [derived EXCEPT !.formula = "delta", !.slots = DerivedSlots] \in DerivedType
    <3> HIDE DEF DerivedSlotType, Formulas
    <3>1. QED
      BY <1>1, <2>1 DEF DerivedType
  <2>3. QED
    BY <1>6, <2>2, EditDerivedTypes DEF handleDerivedLoadPreset
<1>7. CASE handleDerivedTitleParametersDidChange
  <2>1. [derived EXCEPT !.fresh = TRUE] \in DerivedType
    BY <1>1 DEF DerivedType
  <2>2. QED
    BY <1>7, <2>1, EditDerivedTypes DEF handleDerivedTitleParametersDidChange
<1>8. CASE rebuildDerivedGraph
  <2> DEFINE d == [derived EXCEPT !.painted = None, !.text = None,
                             !.lost = IF derived.current = None THEN @ ELSE Colors]
  <2>1. d \in DerivedType
    <3> HIDE DEF DerivedSlotType, Colors
    <3>1. QED
      BY <1>1 DEF DerivedType
  <2>2. ChangeDerived(d) /\ SaveDerived /\ UNCHANGED handling
        /\ pass' = Orphaned(DerivedStages, Fetched, derived)
    BY <1>8 DEF rebuildDerivedGraph
  <2>3. pass' \in PassType /\ PlaceOf(pass')
    <3>1. Fetched \subseteq DerivedStages
      BY DEF Fetched, DerivedStages
    <3> HIDE DEF DerivedType
    <3>2. QED
      BY <1>1, <2>2, <3>1, OrphanedType
  <2>4. handling' \in {None} \cup HandlingType
    BY <1>1, <2>2 DEF Parts
  <2> HIDE DEF d
  <2>5. QED
    BY <2>1, <2>2, <2>3, <2>4, ChangeDerivedTypes
<1>11. CASE handleDerivedValueTextColor
  <2> DEFINE l == derived.lost \cup IF derived.text = None THEN {} ELSE {"text"}
             d == [derived EXCEPT !.text = None,
                                  !.lost = @ \cup IF derived.text = None THEN {} ELSE {"text"}]
  <2>1. l \in SUBSET Colors
    BY <1>1 DEF Colors
  <2>2. [derived EXCEPT !.text = None, !.lost = l] \in DerivedType
    <3> HIDE DEF DerivedSlotType, l, Colors
    <3>1. QED
      BY <1>1, <2>1 DEF DerivedType
  <2>3. d = [derived EXCEPT !.text = None, !.lost = l]
    OBVIOUS
  <2>4. EditDerived(d) /\ SaveDerived
    BY <1>11 DEF handleDerivedValueTextColor
  <2> HIDE DEF d, l
  <2>5. QED
    BY <2>2, <2>3, <2>4, EditDerivedTypes
<1>9. CASE handleDerivedSuppressGlobal
  <2>1. [derived EXCEPT !.suppressed = ~@, !.dirty = TRUE] \in DerivedType
    BY <1>1 DEF DerivedType
  <2>2. QED
    BY <1>9, <2>1, EditDerivedTypes DEF handleDerivedSuppressGlobal
<1>10. QED
  BY <1>3, <1>4, <1>5, <1>6, <1>7, <1>8, <1>9, <1>11 DEF DerivedHandlers

LEMMA AnswerDerivedTypes ==
  ASSUME TypeOK, AnswerDerived
  PROVE  TypeOK'
<1> DEFINE i == handling[2]
           d == [derived EXCEPT !.slots[i].valid = TRUE]
<1>1. Parts /\ derived \in DerivedType
  BY TypeParts DEF Parts
<1>2. i \in DSlots
  BY <1>1, HandlingParts DEF AnswerDerived
<1>3. CASE ChangeDerived(d) /\ SaveDerived /\ pass' = Touched(DerivedStages)
  <2>1. [derived.slots[i] EXCEPT !.valid = TRUE] \in DerivedSlotType
    BY <1>1, <1>2 DEF DerivedType, DerivedSlotType
  <2>2. d \in DerivedType
    <3> HIDE DEF DerivedSlotType, i
    <3>1. QED
      BY <1>1, <1>2, <2>1 DEF DerivedType
  <2>3. pass' \in PassType /\ PlaceOf(pass')
    BY <1>1, <1>3, TouchedPass
  <2>4. handling' \in {None} \cup HandlingType
    BY DEF AnswerDerived
  <2> HIDE DEF d
  <2>5. QED
    BY <1>3, <2>2, <2>3, <2>4, ChangeDerivedTypes
<1>4. CASE UNCHANGED <<environment, library, composite, derived, states, stored, frames, pass>>
  <2>1. Parts'
    BY <1>1, <1>4 DEF Parts, environment, AnswerDerived
  <2>2. QED
    BY <2>1, TypeParts
<1>5. QED
  BY <1>3, <1>4 DEF AnswerDerived

LEMMA LibraryTypes ==
  ASSUME TypeOK, markGlobalThresholdDirty
  PROVE  TypeOK'
<1>1. Parts
  BY TypeParts
<1>2. composite' \in CompositeType /\ derived' \in DerivedType
  <2> HIDE DEF SlotType, DerivedSlotType
  <2>1. QED
    BY <1>1 DEF Parts, markGlobalThresholdDirty, CompositeType, DerivedType
<1>3. pass' \in PassType /\ PlaceOf(pass')
  <2>1. (pass.clean /\ pass.at \notin CompositeStages \cup DerivedStages) \in BOOLEAN
    BY <1>1 DEF Parts, PassType
  <2>2. QED
    BY <1>1, <2>1, TouchedType DEF Parts, markGlobalThresholdDirty, Touched
<1>4. Parts'
  BY <1>1, <1>2, <1>3 DEF Parts, markGlobalThresholdDirty, environment
<1>5. QED
  BY <1>4, TypeParts

LEMMA DisappearTypes ==
  ASSUME TypeOK, OnWillDisappearComposite \/ OnWillDisappearDerived
  PROVE  TypeOK'
<1>1. Parts
  BY TypeParts
<1>2. composite' \in CompositeType /\ derived' \in DerivedType
  <2> HIDE DEF SlotType, DerivedSlotType
  <2>1. QED
    BY <1>1 DEF Parts, OnWillDisappearComposite, OnWillDisappearDerived,
                CompositeType, DerivedType
<1>3. pass' \in PassType /\ PlaceOf(pass')
  <2>1. CompositeStages # DerivedStages
    BY DEF CompositeStages, DerivedStages
  <2> HIDE DEF CompositeType, DerivedType
  <2>2. CASE OnWillDisappearComposite
    BY <1>1, <2>1, <2>2, OrphanedType DEF Parts, OnWillDisappearComposite
  <2>3. CASE OnWillDisappearDerived
    BY <1>1, <2>1, <2>3, OrphanedType DEF Parts, OnWillDisappearDerived
  <2>4. QED
    BY <2>2, <2>3
<1>4. states' \in [composite : [Slots -> [Ids -> StateType]], derived : StateType]
  BY <1>1, ZeroStateType DEF Parts, OnWillDisappearComposite, OnWillDisappearDerived
<1>5. Parts'
  BY <1>1, <1>2, <1>3, <1>4 DEF Parts, OnWillDisappearComposite, OnWillDisappearDerived,
                                environment
<1>6. QED
  BY <1>5, TypeParts

LEMMA AppearTypes ==
  ASSUME TypeOK, OnWillAppearComposite \/ OnWillAppearDerived
  PROVE  TypeOK'
<1>1. Parts
  BY TypeParts
<1>2. /\ Composite(stored.composite) \in CompositeType
      /\ Derived(stored.derived) \in DerivedType
  BY <1>1, CompositeOf, DerivedOf DEF Parts
<1>3. composite' \in CompositeType /\ derived' \in DerivedType
  <2>1. composite.dirty \in BOOLEAN /\ derived.dirty \in BOOLEAN
    BY <1>1 DEF Parts, CompositeType, DerivedType
  <2> HIDE DEF SlotType, DerivedSlotType
  <2>2. QED
    BY <1>1, <1>2, <2>1 DEF Parts, OnWillAppearComposite, OnWillAppearDerived,
                CompositeType, DerivedType
<1>4. Parts'
  BY <1>1, <1>3 DEF Parts, OnWillAppearComposite, OnWillAppearDerived, environment
<1>5. QED
  BY <1>4, TypeParts

LEMMA TypesKept == TypeOK /\ [Next]_vars => TypeOK'
<1> SUFFICES ASSUME TypeOK, [Next]_vars PROVE TypeOK'
  OBVIOUS
<1>1. ASSUME NEW r \in Readings, NEW v \in (Levels[r] \cup {None}) \ {value[r]}, Publish(r, v)
      PROVE  TypeOK'
  BY <1>1, PublishTypes
<1>2. CASE Ticker
  BY <1>2, BeginTypes, EvaluateTypes, PaintTypes, StoreTypes, RenderTypes, GatherTypes,
     TooFewTypes, FinishTypes, RepaintTypes, StoreDerivedTypes, DrawTypes DEF Ticker
<1>3. CASE CompositeHandlers
  BY <1>3, SensorTypes, ReadingTypes, ThresholdTypes, ReorderTypes DEF CompositeHandlers
<1>4. CASE DerivedHandlers
  BY <1>4, DerivedHandlerTypes
<1>5. CASE Handling \/ markGlobalThresholdDirty
  BY <1>5, AnswerTypes, RebuildTypes, ResetTypes, AnswerDerivedTypes, LibraryTypes DEF Handling
<1>6. CASE \/ OnWillDisappearComposite \/ OnWillDisappearDerived
           \/ OnWillAppearComposite \/ OnWillAppearDerived
  BY <1>6, DisappearTypes, AppearTypes
<1>7. CASE UNCHANGED vars
  BY <1>7 DEF vars, TypeOK, InPlace
<1>8. QED
  BY <1>1, <1>2, <1>3, <1>4, <1>5, <1>6, <1>7 DEF Next

\* A pass keeps its place and a tile its settings through any edit, hide and return,
\* whatever the slots and the lists (composite.go, derived.go).
THEOREM TypeCorrect == Spec => []TypeOK
BY InitialTypes, TypesKept, PTL DEF Spec

-----------------------------------------------------------------------------
(* The composite tile: an invariant that does not mention the variables,   *)
(* so that a step can be followed from one value of them to the next.      *)

AvailableIn(v, s) == s.valid /\ s.reading # None /\ v[s.reading] # None

ValueIn(v, s) == IF AvailableIn(v, s) THEN v[s.reading] ELSE None

WinnerIn(lib, ids, suppressed, st) ==
  LET list == ids \o IF lib /\ ~suppressed THEN <<Library>> ELSE <<>>
      last == SelectLastInSeq(list, LAMBDA id : Alerting(st[id]))
  IN  IF last = 0 THEN None ELSE list[last]

LEMMA Reads ==
  ASSUME NEW s, NEW st
  PROVE  /\ Available(s) <=> AvailableIn(value, s)
         /\ ValueOf(s) = ValueIn(value, s)
         /\ Winner(s, st) = WinnerIn(library, s.list, s.suppressed, st)
<1>1. Available(s) <=> AvailableIn(value, s)
  BY DEF Available, AvailableIn
<1>2. ValueOf(s) = ValueIn(value, s)
  BY <1>1 DEF ValueOf, ValueIn
<1>3. Winner(s, st) = WinnerIn(library, s.list, s.suppressed, st)
  BY Zenon DEF Winner, WinnerIn, resolveThresholdsForEval
<1>4. QED
  BY <1>1, <1>2, <1>3

\* The alert of slot i: the one that a pass p has just painted and is about to store,
\* or the stored one.
Expected(i, c, p) ==
  IF p.at = "store" /\ p.i = i /\ p.orphan = None THEN p.alerts[i] ELSE c.slots[i].current

\* A tile that is marked was edited, and the graph of a slot has the colours of its
\* alert unless they were lost.
CompositeMarks(c, p) ==
  c.shown =>
    /\ c.dirty => c.edited
    /\ \A i \in Slots : \/ c.painted[i] = Expected(i, c, p)
                        \/ Expected(i, c, p) # None /\ c.lost[i]

\* What a pass p of the composite tile knows of the tile c in the maps: it is not
\* settled; if the pass is clean it is the one the pass began with; the graphs of
\* one shown after that was hidden are not painted by the pass.  A pass that lost no
\* tile has the one shown.
CompositePass(c, p) ==
  p.at \in CompositeStages =>
    /\ c.shown => /\ c.fresh \/ c.edited
                  /\ ~p.clean => c.edited
                  /\ p.orphan # None => \A i \in Slots : c.painted[i] = None
    /\ p.clean => c.shown /\ p.orphan = None /\ ~c.dirty
    /\ p.orphan = None => c.shown

\* Slot i has been drawn for what it shows now.
Drawn(i, c, alerts, st, lib) ==
  LET alert == WinnerIn(lib, c.slots[i].list, c.slots[i].suppressed, st[i]) IN
  /\ alerts[i] = alert /\ c.slots[i].current = alert
  /\ c.painted[i] = alert \/ (alert # None /\ c.lost[i])

\* A clean pass over the last poll has the values and alerts of the slots it has
\* left behind, and the value and the alert of the slot it is about to paint or to store.
CompositeDone(c, p, st, v, lib) ==
  p.at \in CompositeStages /\ p.clean /\ p.poll =>
    /\ \A i \in Slots : i < p.i =>
         /\ p.values[i] = ValueIn(v, c.slots[i])
         /\ AvailableIn(v, c.slots[i]) => Drawn(i, c, p.alerts, st, lib)
    /\ p.at \in {"paint", "store"} =>
         LET s == c.slots[p.i] IN
         /\ p.values[p.i] = ValueIn(v, s)
         /\ p.alerts[p.i] = WinnerIn(lib, s.list, s.suppressed, st[p.i])

\* What SlotsAreCurrent and SlotColorsFollowAlert say of the frame of a tile.
CompositeFrame(c, frame, st, v, lib) ==
  Settled(c) =>
    \A i \in Slots :
      LET s     == c.slots[i]
          alert == WinnerIn(lib, s.list, s.suppressed, st[i])
      IN  /\ frame.text[i] = ValueIn(v, s)
          /\ AvailableIn(v, s) =>
               /\ frame.color[i] = alert /\ s.current = alert
               /\ frame.graph[i] = alert \/ (alert # None /\ c.lost[i])

CompositeGood(c, p, frame, st, v, lib) ==
  /\ CompositeMarks(c, p) /\ CompositePass(c, p) /\ CompositeDone(c, p, st, v, lib)
  /\ CompositeFrame(c, frame, st, v, lib)

CompositeInv == /\ DOMAIN frames = {"composite", "derived"}
                /\ CompositeGood(composite, pass, frames.composite, states.composite,
                                 value, library)

LEMMA CompositeShown == CompositeInv => SlotsAreCurrent /\ SlotColorsFollowAlert
<1> SUFFICES ASSUME CompositeInv, Settled(composite)
             PROVE  SlotsAreCurrent /\ SlotColorsFollowAlert
  BY DEF SlotsAreCurrent, SlotColorsFollowAlert
<1>1. ASSUME NEW i \in Slots
      PROVE  LET s     == composite.slots[i]
                 alert == Winner(s, states.composite[i])
             IN  /\ frames.composite.text[i] = ValueOf(s)
                 /\ Available(s) =>
                      /\ frames.composite.color[i] = alert /\ s.current = alert
                      /\ \/ frames.composite.graph[i] = alert
                         \/ alert # None /\ composite.lost[i]
  BY Reads DEF CompositeInv, CompositeGood, CompositeFrame
<1>2. QED
  BY <1>1 DEF SlotsAreCurrent, SlotColorsFollowAlert

\* A change of the tile that begins an edit or hides it leaves nothing of a pass to
\* keep.
LEMMA CompositeEdited ==
  ASSUME NEW d, NEW q, NEW frame, NEW st, NEW v, NEW lib,
         CompositeMarks(d, q), d.edited \/ ~d.shown,
         q.at \in CompositeStages => /\ ~q.clean
                                     /\ q.orphan = None => d.shown
                                     /\ d.shown /\ q.orphan # None =>
                                          \A i \in Slots : d.painted[i] = None
  PROVE  CompositeGood(d, q, frame, st, v, lib)
<1>1. ~Settled(d)
  BY DEF Settled
<1>2. CompositePass(d, q)
  BY DEF CompositePass
<1>3. QED
  BY <1>1, <1>2 DEF CompositeGood, CompositeDone, CompositeFrame

\* Nothing that the invariant speaks of has changed.
LEMMA CompositeSame ==
  ASSUME CompositeInv, composite' = composite, value' = value, library' = library,
         states'.composite = states.composite, frames'.composite = frames.composite,
         DOMAIN frames' = DOMAIN frames,
         \/ pass.at # "store" /\ pass'.at \notin CompositeStages
         \/ /\ pass'.at = pass.at /\ pass'.i = pass.i /\ pass'.clean = pass.clean
            /\ pass'.poll = pass.poll /\ pass'.orphan = pass.orphan
            /\ pass'.values = pass.values /\ pass'.alerts = pass.alerts
  PROVE  CompositeInv'
<1>0. CompositeMarks(composite', pass')
  <2>1. pass'.at \notin CompositeStages => pass'.at # "store"
    BY DEF CompositeStages
  <2>2. \A i \in Slots : Expected(i, composite', pass') = Expected(i, composite, pass)
    BY <2>1 DEF Expected
  <2>3. QED
    BY <2>2 DEF CompositeInv, CompositeGood, CompositeMarks
<1>1. /\ CompositeMarks(composite', pass')
      /\ CompositeFrame(composite', frames'.composite, states'.composite, value', library')
  BY <1>0, Zenon DEF CompositeInv, CompositeGood
<1>2. CompositePass(composite', pass')
  BY DEF CompositeInv, CompositeGood, CompositePass
<1>3. CompositeDone(composite', pass', states'.composite, value', library')
  BY DEF CompositeInv, CompositeGood, CompositeDone
<1>4. QED
  BY <1>1, <1>2, <1>3 DEF CompositeInv, CompositeGood

LEMMA CompositeInitially ==
  ASSUME Init
  PROVE  CompositeInv
<1>1. composite = Composite(CompositeSlots) /\ pass = Idle
      /\ frames = [composite |-> None, derived |-> None]
  BY DEF Init
<1>2. /\ composite.edited /\ ~composite.dirty
      /\ \A i \in Slots : /\ composite.painted[i] = None
                          /\ composite.lost[i] <=> composite.slots[i].current # None
  BY <1>1 DEF Composite
<1>3. CompositeMarks(composite, pass)
  BY <1>1, <1>2 DEF CompositeMarks, Expected, Idle
<1>4. pass.at \notin CompositeStages
  BY <1>1 DEF Idle, CompositeStages
<1>5. DOMAIN frames = {"composite", "derived"}
  BY <1>1
<1>6. QED
  BY <1>2, <1>3, <1>4, <1>5, CompositeEdited DEF CompositeInv

LEMMA CompositePublished ==
  ASSUME TypeOK, CompositeInv, NEW r, NEW v, Publish(r, v)
  PROVE  CompositeInv'
<1>1. /\ composite \in CompositeType /\ pass \in PassType
      /\ composite' = [composite EXCEPT !.fresh = TRUE]
      /\ pass' = [pass EXCEPT !.poll = pass.at = "idle"]
      /\ UNCHANGED <<library, states, frames>>
  BY DEF TypeOK, Publish
<1>2. /\ composite'.fresh /\ composite'.shown = composite.shown
      /\ composite'.dirty = composite.dirty /\ composite'.edited = composite.edited
      /\ composite'.slots = composite.slots /\ composite'.painted = composite.painted
      /\ composite'.lost = composite.lost
  BY <1>1 DEF CompositeType
<1>3. /\ pass'.at = pass.at /\ pass'.clean = pass.clean /\ pass'.orphan = pass.orphan
      /\ pass'.i = pass.i /\ pass'.alerts = pass.alerts
      /\ pass.at \in CompositeStages => ~pass'.poll
  BY <1>1 DEF PassType, CompositeStages
<1>4. CompositeMarks(composite', pass')
  <2>1. \A i \in Slots : Expected(i, composite', pass') = Expected(i, composite, pass)
    BY <1>2, <1>3 DEF Expected
  <2>2. QED
    BY <1>2, <2>1 DEF CompositeInv, CompositeGood, CompositeMarks
<1>5. CompositePass(composite', pass')
  BY <1>2, <1>3 DEF CompositeInv, CompositeGood, CompositePass
<1>6. CompositeDone(composite', pass', states'.composite, value', library')
  BY <1>3 DEF CompositeDone
<1>7. CompositeFrame(composite', frames'.composite, states'.composite, value', library')
  BY <1>2 DEF CompositeFrame, Settled
<1>8. QED
  BY <1>1, <1>4, <1>5, <1>6, <1>7 DEF CompositeInv, CompositeGood

LEMMA CompositeBegun ==
  ASSUME TypeOK, CompositeInv, BeginComposite
  PROVE  CompositeInv'
<1>1. /\ composite \in CompositeType
      /\ composite' = [composite EXCEPT !.dirty = @ /\ ~composite.shown]
      /\ \/ composite.shown /\ (composite.dirty \/ composite.fresh)
            /\ pass' = [Idle EXCEPT !.at = "slot", !.force = composite.dirty]
         \/ pass' = Derive
      /\ UNCHANGED <<library, states, frames, value>>
  BY DEF TypeOK, BeginComposite, environment
<1>2. /\ composite'.fresh = composite.fresh /\ composite'.shown = composite.shown
      /\ composite'.edited = composite.edited /\ composite'.slots = composite.slots
      /\ composite'.painted = composite.painted /\ composite'.lost = composite.lost
      /\ composite'.dirty => composite.dirty /\ ~composite.shown
  BY <1>1 DEF CompositeType
<1>3. CompositeMarks(composite', pass')
  <2>1. pass.at = "idle" /\ pass'.at \in {"derived", "slot"}
    BY <1>1 DEF BeginComposite, Derive, Idle
  <2>2. \A i \in Slots : /\ Expected(i, composite', pass') = composite.slots[i].current
                         /\ Expected(i, composite, pass) = composite.slots[i].current
    BY <1>2, <2>1 DEF Expected
  <2>3. QED
    BY <1>2, <2>2 DEF CompositeInv, CompositeGood, CompositeMarks
<1>4. CompositeFrame(composite', frames'.composite, states'.composite, value', library')
  BY <1>1, <1>2 DEF CompositeInv, CompositeGood, CompositeFrame, Settled
<1>5. CASE pass' = Derive
  <2>1. pass'.at \notin CompositeStages
    BY <1>5 DEF Derive, Idle, CompositeStages
  <2>2. QED
    BY <1>1, <1>3, <1>4, <2>1 DEF CompositeInv, CompositeGood, CompositePass, CompositeDone
<1>6. CASE /\ composite.shown /\ (composite.dirty \/ composite.fresh)
           /\ pass' = [Idle EXCEPT !.at = "slot", !.force = composite.dirty]
  <2>1. pass'.at = "slot" /\ pass'.i = 1 /\ pass'.clean /\ pass'.orphan = None
    BY <1>6 DEF Idle
  <2>2. composite.fresh \/ composite.edited
    BY <1>6 DEF CompositeInv, CompositeGood, CompositeMarks
  <2>3. CompositePass(composite', pass')
    BY <1>2, <1>6, <2>1, <2>2 DEF CompositePass
  <2>4. \A i \in Slots : ~(i < pass'.i)
    BY <2>1, SlotFacts
  <2>5. CompositeDone(composite', pass', states'.composite, value', library')
    BY <2>1, <2>4 DEF CompositeDone
  <2>6. QED
    BY <1>1, <1>3, <1>4, <2>3, <2>5 DEF CompositeInv, CompositeGood
<1>7. QED
  BY <1>1, <1>5, <1>6

LEMMA CompositeRendered ==
  ASSUME TypeOK, CompositeInv, RenderComposite
  PROVE  CompositeInv'
<1>1. /\ composite \in CompositeType /\ pass \in PassType
      /\ pass.at = "render" /\ pass' = Derive
      /\ UNCHANGED <<library, states, value>>
      /\ \/ UNCHANGED <<composite, frames>>
         \/ /\ composite.shown
            /\ frames' = [frames EXCEPT !.composite = renderCompositeTile]
            /\ composite' = [composite EXCEPT !.fresh = ~pass.poll,
                                              !.edited = @ /\ ~pass.clean]
  BY DEF TypeOK, RenderComposite, environment
<1>2. pass'.at \notin CompositeStages
  BY <1>1 DEF Derive, Idle, CompositeStages
<1>3. CASE UNCHANGED <<composite, frames>>
  BY <1>1, <1>2, <1>3, CompositeSame
<1>4. CASE /\ composite.shown
           /\ frames' = [frames EXCEPT !.composite = renderCompositeTile]
           /\ composite' = [composite EXCEPT !.fresh = ~pass.poll, !.edited = @ /\ ~pass.clean]
  <2>1. /\ composite'.fresh = ~pass.poll /\ composite'.shown = composite.shown
        /\ composite'.edited <=> composite.edited /\ ~pass.clean
        /\ composite'.dirty = composite.dirty /\ composite'.slots = composite.slots
        /\ composite'.painted = composite.painted /\ composite'.lost = composite.lost
    BY <1>1, <1>4 DEF CompositeType
  <2>2. /\ frames'.composite = renderCompositeTile
        /\ DOMAIN frames' = {"composite", "derived"}
    BY <1>4 DEF CompositeInv
  <2>3. pass.at \in CompositeStages /\ (~pass.clean => composite.edited)
        /\ (pass.clean => ~composite.dirty)
    BY <1>1, <1>4 DEF CompositeInv, CompositeGood, CompositePass, CompositeStages
  <2>4. CompositeMarks(composite', pass')
    <3>1. pass'.at # "store"
      BY <1>1 DEF Derive, Idle
    <3>2. \A i \in Slots : /\ Expected(i, composite', pass') = composite.slots[i].current
                           /\ Expected(i, composite, pass) = composite.slots[i].current
      BY <1>1, <2>1, <3>1 DEF Expected
    <3>3. QED
      BY <2>1, <2>3, <3>2 DEF CompositeInv, CompositeGood, CompositeMarks
  <2>5. CompositeFrame(composite', frames'.composite, states'.composite, value', library')
    <3> SUFFICES ASSUME Settled(composite'), NEW i \in Slots
                 PROVE  LET s     == composite'.slots[i]
                            alert == WinnerIn(library', s.list, s.suppressed, states'.composite[i])
                            frame == frames'.composite
                        IN  /\ frame.text[i] = ValueIn(value', s)
                            /\ AvailableIn(value', s) =>
                                 /\ frame.color[i] = alert /\ s.current = alert
                                 /\ \/ frame.graph[i] = alert
                                    \/ alert # None /\ composite'.lost[i]
      BY DEF CompositeFrame
    <3>1. pass.poll /\ pass.clean
      BY <2>1, <2>3 DEF Settled
    <3>2. i < pass.i
      <4>1. pass.i = Len(CompositeSlots) + 1
        BY <1>1 DEF TypeOK, InPlace, CompositeStages
      <4>2. QED
        BY <4>1, SlotFacts
    <3>3. /\ pass.values[i] = ValueIn(value, composite.slots[i])
          /\ AvailableIn(value, composite.slots[i]) =>
               Drawn(i, composite, pass.alerts, states.composite, library)
      BY <2>3, <3>1, <3>2 DEF CompositeInv, CompositeGood, CompositeDone
    <3>4. /\ frames'.composite.text[i] = pass.values[i]
          /\ frames'.composite.color[i] = pass.alerts[i]
          /\ frames'.composite.graph = composite.painted
      BY <2>2 DEF renderCompositeTile
    <3>5. QED
      BY <1>1, <2>1, <3>3, <3>4 DEF Drawn
  <2>6. QED
    BY <1>2, <2>2, <2>4, <2>5 DEF CompositeInv, CompositeGood, CompositePass, CompositeDone
<1>5. QED
  BY <1>1, <1>3, <1>4

\* While the ticker is between two slots the tile is not settled.
LEMMA CompositeBusy ==
  ASSUME CompositeInv, pass.at \in CompositeStages
  PROVE  /\ ~Settled(composite)
         /\ composite.shown /\ ~pass.clean => composite.edited
         /\ pass.clean => composite.shown /\ pass.orphan = None /\ ~composite.dirty
         /\ pass.orphan = None => composite.shown
BY DEF CompositeInv, CompositeGood, CompositePass, Settled

LEMMA CompositeEvaluated ==
  ASSUME TypeOK, CompositeInv, EvaluateSlot
  PROVE  CompositeInv'
<1> DEFINE i  == pass.i
           s  == Holding(composite).slots[i]
           st == evaluateThresholds(s, value[s.reading], states.composite[i])
           a  == IF Available(s) THEN Winner(s, st) ELSE None
<1>1. /\ composite \in CompositeType /\ pass \in PassType /\ pass.at = "slot"
      /\ UNCHANGED <<library, value, composite, frames>>
      /\ pass.at \in CompositeStages
  BY DEF TypeOK, EvaluateSlot, environment, CompositeStages
<1>2. /\ i \in Slots /\ Len(pass.values) = i - 1 /\ Len(pass.alerts) = i - 1
      /\ pass.values \in Seq(Int \cup {None}) /\ pass.alerts \in Seq(Ids \cup {None})
  <2>1. Len(pass.values) = i - 1 /\ Len(pass.alerts) = i - 1 /\ i \in Slots
    BY <1>1 DEF TypeOK, InPlace
  <2>2. QED
    BY <1>1, <2>1 DEF PassType
<1>3. i \in Nat /\ Slots \subseteq Nat \ {0}
  BY <1>2, SlotFacts
<1>4. /\ pass'.clean = pass.clean /\ pass'.poll = pass.poll /\ pass'.orphan = pass.orphan
      /\ pass'.values = Append(pass.values, ValueOf(s)) /\ pass'.alerts = Append(pass.alerts, a)
      /\ IF Available(s) THEN pass'.at = "paint" /\ pass'.i = i
         ELSE pass'.at \in {"render", "slot"} /\ pass'.i = i + 1
  <2>1. CASE Available(s)
    <3>1. ValueOf(s) = value[s.reading] /\ a = Winner(s, st)
      BY <2>1 DEF ValueOf
    <3>2. pass' = [pass EXCEPT !.at = "paint", !.values = Append(@, value[s.reading]),
                               !.alerts = Append(@, Winner(s, st))]
      BY <2>1 DEF EvaluateSlot
    <3> HIDE DEF s, st, a
    <3>3. QED
      BY <1>1, <2>1, <3>1, <3>2 DEF PassType
  <2>2. CASE ~Available(s)
    <3>1. ValueOf(s) = None /\ a = None
      BY <2>2 DEF ValueOf
    <3>2. pass' = NextSlot(None, None)
      BY <2>2 DEF EvaluateSlot
    <3> HIDE DEF s, st, a
    <3>3. QED
      BY <1>1, <2>2, <3>1, <3>2 DEF PassType, NextSlot
  <2>3. QED
    BY <2>1, <2>2
<1>5. /\ Available(s) => states' = [states EXCEPT !.composite[i] = st]
      /\ ~Available(s) => UNCHANGED states
  BY DEF EvaluateSlot
<1>6. \A j \in Slots : j < i => /\ pass'.values[j] = pass.values[j]
                                /\ pass'.alerts[j] = pass.alerts[j]
                                /\ states'.composite[j] = states.composite[j]
  <2>1. ValueOf(s) \in Int \cup {None} /\ a \in Ids \cup {None}
    <3>1. s.reading \in Readings \cup {None} /\ s.list \in Seq(Ids)
      BY <1>1, <1>2, TypeParts, HeldTypes, SlotOf
    <3>2. QED
      BY <3>1, OwnIds, ValueType, WinnerType
  <2> HIDE DEF i, s, st, a
  <2>2. \A j \in Slots : j < i => j \in 1 .. i - 1
    BY <1>3
  <2>3. \A j \in 1 .. i - 1 : /\ Append(pass.values, ValueOf(s))[j] = pass.values[j]
                              /\ Append(pass.alerts, a)[j] = pass.alerts[j]
    BY <1>2, <2>1, AppendProperties
  <2>4. \A j \in Slots : j < i => states'.composite[j] = states.composite[j]
    BY <1>3, <1>5 DEF TypeOK
  <2>5. QED
    BY <1>4, <2>2, <2>3, <2>4
<1>7. pass'.values[i] = ValueOf(s) /\ pass'.alerts[i] = a
  <2>1. ValueOf(s) \in Int \cup {None} /\ a \in Ids \cup {None}
    <3>1. s.reading \in Readings \cup {None} /\ s.list \in Seq(Ids)
      BY <1>1, <1>2, TypeParts, HeldTypes, SlotOf
    <3>2. QED
      BY <3>1, OwnIds, ValueType, WinnerType
  <2> HIDE DEF i, s, st, a
  <2>2. /\ Append(pass.values, ValueOf(s))[Len(pass.values) + 1] = ValueOf(s)
        /\ Append(pass.alerts, a)[Len(pass.alerts) + 1] = a
    BY <1>2, <2>1, AppendProperties
  <2>3. Len(pass.values) + 1 = i /\ Len(pass.alerts) + 1 = i
    BY <1>2, <1>3
  <2>4. QED
    BY <1>4, <2>2, <2>3
<1>8. CompositeMarks(composite', pass') /\ DOMAIN frames' = {"composite", "derived"}
  <2>1. pass'.at # "store"
    BY <1>4
  <2>2. \A j \in Slots : Expected(j, composite', pass') = Expected(j, composite, pass)
    BY <1>1, <2>1 DEF Expected
  <2>3. QED
    BY <1>1, <2>2 DEF CompositeInv, CompositeGood, CompositeMarks
<1>9. CompositePass(composite', pass')
  BY <1>1, <1>4 DEF CompositeInv, CompositeGood, CompositePass
<1>10. CompositeFrame(composite', frames'.composite, states'.composite, value', library')
  BY <1>1, CompositeBusy DEF CompositeFrame
<1>11. ASSUME pass.clean, pass.poll
       PROVE  CompositeDone(composite', pass', states'.composite, value', library')
  <2>1. s = composite.slots[i]
    BY <1>1, <1>11, CompositeBusy DEF Holding
  <2>2. CompositeDone(composite, pass, states.composite, value, library)
    BY DEF CompositeInv, CompositeGood
  <2>3. ASSUME NEW j \in Slots, j < i
        PROVE  /\ pass'.values[j] = ValueIn(value, composite.slots[j])
               /\ AvailableIn(value, composite.slots[j]) =>
                    Drawn(j, composite, pass'.alerts, states'.composite, library)
    <3>1. /\ pass'.values[j] = pass.values[j] /\ pass'.alerts[j] = pass.alerts[j]
          /\ states'.composite[j] = states.composite[j]
      BY <1>6, <2>3
    <3> HIDE DEF i, s, st, a
    <3>2. /\ pass.values[j] = ValueIn(value, composite.slots[j])
          /\ AvailableIn(value, composite.slots[j]) =>
               Drawn(j, composite, pass.alerts, states.composite, library)
      BY <1>1, <1>11, <2>2, <2>3 DEF CompositeDone, i
    <3>3. QED
      BY <3>1, <3>2 DEF Drawn
  <2>4. ValueOf(s) = ValueIn(value, s) /\ (Available(s) <=> AvailableIn(value, s))
    BY Reads
  <2>5. CASE ~Available(s)
    <3>1. pass'.at \notin {"paint", "store"} /\ pass'.i = i + 1
      BY <1>4, <2>5
    <3>2. \A j \in Slots : j < pass'.i => j < i \/ j = i
      BY <1>3, <3>1
    <3> HIDE DEF i, s, st, a
    <3>3. QED
      BY <1>1, <1>7, <2>1, <2>3, <2>4, <2>5, <3>1, <3>2 DEF CompositeDone
  <2>6. CASE Available(s)
    <3>1. pass'.at = "paint" /\ pass'.i = i
      BY <1>4, <2>6
    <3>2. states'.composite[i] = st
      BY <1>2, <1>5, <2>6 DEF TypeOK
    <3>3. a = WinnerIn(library, s.list, s.suppressed, st)
      BY <2>6, Reads
    <3> HIDE DEF i, s, st, a
    <3>4. QED
      BY <1>1, <1>7, <2>1, <2>3, <2>4, <3>1, <3>2, <3>3 DEF CompositeDone
  <2>7. QED
    BY <2>5, <2>6
<1>12. CompositeDone(composite', pass', states'.composite, value', library')
  <2>1. CASE pass.clean /\ pass.poll
    BY <1>11, <2>1
  <2>2. CASE ~(pass.clean /\ pass.poll)
    BY <1>4, <2>2 DEF CompositeDone
  <2>3. QED
    BY <2>1, <2>2
<1>13. QED
  BY <1>8, <1>9, <1>10, <1>12 DEF CompositeInv, CompositeGood

LEMMA CompositePainted ==
  ASSUME TypeOK, CompositeInv, PaintSlot
  PROVE  CompositeInv'
<1> DEFINE i       == pass.i
           alert   == pass.alerts[i]
           current == composite.slots[i].current
           repaint == Repaints(composite.slots[i], alert)
<1>1. /\ composite \in CompositeType /\ pass \in PassType /\ pass.at = "paint"
      /\ UNCHANGED <<library, value, states, frames>>
      /\ pass.at \in CompositeStages
  BY DEF TypeOK, PaintSlot, environment, CompositeStages
<1>2. i \in Slots /\ Last(pass.alerts) = alert
  BY <1>1, TypeParts, LastAlert
<1>3. /\ pass'.clean = pass.clean /\ pass'.poll = pass.poll /\ pass'.orphan = pass.orphan
      /\ pass'.values = pass.values /\ pass'.alerts = pass.alerts
      /\ pass'.at = "store" /\ pass'.i = i /\ pass'.at \in CompositeStages
  BY <1>1 DEF PaintSlot, PassType, CompositeStages
<1>4. /\ composite'.shown = composite.shown /\ composite'.fresh = composite.fresh
      /\ composite'.edited = composite.edited /\ composite'.dirty = composite.dirty
      /\ composite'.slots = composite.slots
      /\ pass.orphan # None => UNCHANGED composite
      /\ \A j \in Slots \ {i} : /\ composite'.painted[j] = composite.painted[j]
                                /\ composite'.lost[j] = composite.lost[j]
      /\ pass.orphan = None =>
           /\ composite'.painted[i] = IF repaint THEN alert ELSE composite.painted[i]
           /\ composite'.lost[i] <=> /\ alert # None /\ ~repaint
                                     /\ (composite.lost[i] \/ alert # current)
  <2>1. CASE pass.orphan # None
    BY <2>1 DEF PaintSlot
  <2>2. CASE pass.orphan = None
    <3>1. composite' = [composite EXCEPT
            !.painted[i] = IF repaint THEN alert ELSE @,
            !.lost[i] = alert # None /\ ~repaint /\ (@ \/ alert # current)]
      BY <1>2, <2>2 DEF PaintSlot
    <3> HIDE DEF i, alert, current, repaint
    <3>2. QED
      BY <1>1, <1>2, <2>2, <3>1 DEF CompositeType
  <2>3. QED
    BY <2>1, <2>2
<1>5. /\ composite.shown =>
           \A j \in Slots : \/ composite.painted[j] = composite.slots[j].current
                            \/ composite.slots[j].current # None /\ composite.lost[j]
      /\ composite.shown /\ composite.dirty => composite.edited
  BY <1>1 DEF CompositeInv, CompositeGood, CompositeMarks, Expected
<1>6. ~repaint => ((alert # None) <=> (current # None))
  BY DEF Repaints
<1>7. CompositeMarks(composite', pass')
  <2>1. \A j \in Slots : Expected(j, composite', pass')
                         = IF j = i /\ pass.orphan = None THEN alert
                           ELSE composite.slots[j].current
    BY <1>2, <1>3, <1>4 DEF Expected
  <2>2. ASSUME NEW j \in Slots, composite.shown
        PROVE  \/ composite'.painted[j] = Expected(j, composite', pass')
               \/ Expected(j, composite', pass') # None /\ composite'.lost[j]
    <3> HIDE DEF i, alert, current, repaint
    <3>1. CASE j # i \/ pass.orphan # None
      BY <1>4, <1>5, <2>1, <2>2, <3>1
    <3>2. CASE j = i /\ pass.orphan = None
      BY <1>4, <1>5, <1>6, <2>1, <2>2, <3>2 DEF current
    <3>3. QED
      BY <3>1, <3>2
  <2>3. QED
    BY <1>4, <1>5, <2>2 DEF CompositeMarks
<1>8. CompositePass(composite', pass')
  <2>1. pass.orphan # None => composite'.painted = composite.painted
    BY <1>4
  <2>2. QED
    BY <1>1, <1>3, <1>4, <2>1 DEF CompositeInv, CompositeGood, CompositePass
<1>9. CompositeFrame(composite', frames'.composite, states'.composite, value', library')
  BY <1>1, <1>4, CompositeBusy DEF CompositeFrame, Settled
<1>10. CompositeDone(composite', pass', states'.composite, value', library')
  <2> SUFFICES ASSUME pass.clean, pass.poll
               PROVE  CompositeDone(composite', pass', states'.composite, value', library')
    BY <1>3 DEF CompositeDone
  <2>1. CompositeDone(composite, pass, states.composite, value, library)
    BY DEF CompositeInv, CompositeGood
  <2>2. ASSUME NEW j \in Slots, j < i
        PROVE  /\ pass'.values[j] = ValueIn(value', composite'.slots[j])
               /\ AvailableIn(value', composite'.slots[j]) =>
                    Drawn(j, composite', pass'.alerts, states'.composite, library')
    <3>1. j # i
      BY <1>2, <2>2, SlotFacts
    <3>2. /\ pass.values[j] = ValueIn(value, composite.slots[j])
          /\ AvailableIn(value, composite.slots[j]) =>
               Drawn(j, composite, pass.alerts, states.composite, library)
      BY <1>1, <2>1, <2>2 DEF CompositeDone
    <3> HIDE DEF i, alert, current, repaint
    <3>3. QED
      BY <1>1, <1>3, <1>4, <3>1, <3>2 DEF Drawn
  <2>3. /\ pass'.values[i] = ValueIn(value', composite'.slots[i])
        /\ pass'.alerts[i] = WinnerIn(library', composite'.slots[i].list,
                                      composite'.slots[i].suppressed, states'.composite[i])
    <3>1. /\ pass.values[i] = ValueIn(value, composite.slots[i])
          /\ pass.alerts[i] = WinnerIn(library, composite.slots[i].list,
                                       composite.slots[i].suppressed, states.composite[i])
      BY <1>1, <2>1 DEF CompositeDone
    <3>2. QED
      BY <1>1, <1>3, <1>4, <3>1
  <2> HIDE DEF i, alert, current, repaint
  <2>4. QED
    BY <1>3, <2>2, <2>3 DEF CompositeDone
<1>11. QED
  BY <1>1, <1>7, <1>8, <1>9, <1>10 DEF CompositeInv, CompositeGood

LEMMA CompositeStored ==
  ASSUME TypeOK, CompositeInv, StoreAlert
  PROVE  CompositeInv'
<1> DEFINE i     == pass.i
           alert == pass.alerts[i]
<1>1. /\ composite \in CompositeType /\ pass \in PassType /\ pass.at = "store"
      /\ UNCHANGED <<library, value, states, frames>>
      /\ pass.at \in CompositeStages
  BY DEF TypeOK, StoreAlert, environment, CompositeStages
<1>2. i \in Slots /\ Last(pass.alerts) = alert /\ i \in Nat /\ Slots \subseteq Nat \ {0}
  BY <1>1, TypeParts, LastAlert, SlotFacts
<1>3. /\ pass'.clean = pass.clean /\ pass'.poll = pass.poll /\ pass'.orphan = pass.orphan
      /\ pass'.values = pass.values /\ pass'.alerts = pass.alerts
      /\ pass'.at \in {"render", "slot"} /\ pass'.i = i + 1
  BY <1>1 DEF StoreAlert, PassType
<1>4. CASE ~composite.shown
  <2>1. composite' = composite
    BY <1>4 DEF StoreAlert
  <2>2. ~pass.clean /\ pass.orphan # None
    BY <1>1, <1>4, CompositeBusy
  <2>3. CompositeMarks(composite', pass') /\ DOMAIN frames' = {"composite", "derived"}
    BY <1>1, <1>4, <2>1 DEF CompositeInv, CompositeMarks
  <2>4. QED
    BY <1>3, <1>4, <2>1, <2>2, <2>3, CompositeEdited DEF CompositeInv
<1>5. CASE composite.shown
  <2>1. composite' = [composite EXCEPT
                       !.slots[i].current = alert,
                       !.lost[i] = IF pass.orphan = None THEN @ ELSE alert # None]
    BY <1>2, <1>5 DEF StoreAlert
  <2>2. /\ composite'.shown = composite.shown /\ composite'.fresh = composite.fresh
        /\ composite'.edited = composite.edited /\ composite'.dirty = composite.dirty
        /\ composite'.painted = composite.painted
        /\ \A j \in Slots : j # i => /\ composite'.slots[j] = composite.slots[j]
                                     /\ composite'.lost[j] = composite.lost[j]
        /\ composite'.slots[i] = [composite.slots[i] EXCEPT !.current = alert]
        /\ composite'.lost[i] <=> IF pass.orphan = None THEN composite.lost[i]
                                  ELSE alert # None
    <3> HIDE DEF i, alert, SlotType
    <3>1. QED
      BY <1>1, <1>2, <2>1 DEF CompositeType
  <2>3. /\ composite'.slots[i].current = alert
        /\ composite'.slots[i].reading = composite.slots[i].reading
        /\ composite'.slots[i].valid = composite.slots[i].valid
        /\ composite'.slots[i].list = composite.slots[i].list
        /\ composite'.slots[i].suppressed = composite.slots[i].suppressed
    <3>1. composite.slots[i] \in SlotType
      BY <1>1, <1>2, SlotOf
    <3> HIDE DEF i, alert
    <3>2. QED
      BY <2>2, <3>1 DEF SlotType
  <2>4. /\ \A j \in Slots \ {i} :
             \/ composite.painted[j] = composite.slots[j].current
             \/ composite.slots[j].current # None /\ composite.lost[j]
        /\ pass.orphan = None => composite.painted[i] = alert \/ (alert # None /\ composite.lost[i])
        /\ composite.dirty => composite.edited
    <3>1. CompositeMarks(composite, pass)
      BY DEF CompositeInv, CompositeGood
    <3>2. \A j \in Slots \ {i} : Expected(j, composite, pass) = composite.slots[j].current
      BY DEF Expected
    <3>3. pass.orphan = None => Expected(i, composite, pass) = alert
      BY <1>1 DEF Expected
    <3> HIDE DEF i, alert
    <3>4. QED
      BY <1>2, <1>5, <3>1, <3>2, <3>3 DEF CompositeMarks
  <2>5. pass.orphan # None => \A j \in Slots : composite.painted[j] = None
    BY <1>1, <1>5 DEF CompositeInv, CompositeGood, CompositePass
  <2>6. \/ composite'.painted[i] = alert
        \/ alert # None /\ composite'.lost[i]
    <3> HIDE DEF i, alert
    <3>1. QED
      BY <1>2, <2>2, <2>4, <2>5
  <2>7. CompositeMarks(composite', pass')
    <3>1. \A j \in Slots : Expected(j, composite', pass') = composite'.slots[j].current
      BY <1>3 DEF Expected
    <3>2. ASSUME NEW j \in Slots
          PROVE  \/ composite'.painted[j] = composite'.slots[j].current
                 \/ composite'.slots[j].current # None /\ composite'.lost[j]
      <4> HIDE DEF i, alert
      <4>1. CASE j = i
        BY <2>3, <2>6, <4>1
      <4>2. CASE j # i
        BY <2>2, <2>4, <4>2
      <4>3. QED
        BY <4>1, <4>2
    <3>3. QED
      BY <2>2, <2>4, <3>1, <3>2 DEF CompositeMarks
  <2>8. CompositePass(composite', pass')
    BY <1>1, <1>3, <2>2 DEF CompositeInv, CompositeGood, CompositePass
  <2>9. CompositeFrame(composite', frames'.composite, states'.composite, value', library')
    BY <1>1, <2>2, CompositeBusy DEF CompositeFrame, Settled
  <2>10. CompositeDone(composite', pass', states'.composite, value', library')
    <3> SUFFICES ASSUME pass.clean, pass.poll
                 PROVE  CompositeDone(composite', pass', states'.composite, value', library')
      BY <1>3 DEF CompositeDone
    <3>1. CompositeDone(composite, pass, states.composite, value, library)
      BY DEF CompositeInv, CompositeGood
    <3>2. \A j \in Slots : j < pass'.i => j < i \/ j = i
      BY <1>2, <1>3
    <3>3. ASSUME NEW j \in Slots, j < i
          PROVE  /\ pass'.values[j] = ValueIn(value', composite'.slots[j])
                 /\ AvailableIn(value', composite'.slots[j]) =>
                      Drawn(j, composite', pass'.alerts, states'.composite, library')
      <4>1. j # i
        BY <1>2, <3>3
      <4>2. /\ pass.values[j] = ValueIn(value, composite.slots[j])
            /\ AvailableIn(value, composite.slots[j]) =>
                 Drawn(j, composite, pass.alerts, states.composite, library)
        BY <1>1, <3>1, <3>3 DEF CompositeDone
      <4> HIDE DEF i
      <4>3. QED
        BY <1>1, <1>3, <2>2, <4>1, <4>2 DEF Drawn
    <3>4. /\ pass'.values[i] = ValueIn(value', composite'.slots[i])
          /\ Drawn(i, composite', pass'.alerts, states'.composite, library')
      <4>1. /\ pass.values[i] = ValueIn(value, composite.slots[i])
            /\ alert = WinnerIn(library, composite.slots[i].list,
                                composite.slots[i].suppressed, states.composite[i])
        BY <1>1, <3>1 DEF CompositeDone
      <4>2. ValueIn(value', composite'.slots[i]) = ValueIn(value, composite.slots[i])
        BY <1>1, <2>3 DEF ValueIn, AvailableIn
      <4>3. pass'.alerts[i] = alert
        BY <1>3
      <4> HIDE DEF i, alert
      <4>4. QED
        BY <1>1, <1>3, <2>3, <2>6, <4>1, <4>2, <4>3 DEF Drawn
    <3> HIDE DEF i, alert
    <3>5. QED
      BY <1>3, <3>2, <3>3, <3>4 DEF CompositeDone
  <2>11. QED
    BY <1>1, <2>7, <2>8, <2>9, <2>10 DEF CompositeInv, CompositeGood
<1>6. QED
  BY <1>4, <1>5

\* A change of the tile that leaves the graph of a slot alone, or takes its colours
\* from it and says so, and that leaves its alert or takes it along.
LEMMA CompositeTouched ==
  ASSUME CompositeInv, composite'.shown = composite.shown, composite'.edited,
         DOMAIN frames' = DOMAIN frames,
         pass'.at = pass.at, pass'.i = pass.i, pass'.orphan = pass.orphan,
         pass'.alerts = pass.alerts, pass'.at \in CompositeStages => ~pass'.clean,
         \A i \in Slots :
           /\ composite'.painted[i] \in {composite.painted[i], None}
           /\ composite.lost[i] \/ composite'.painted[i] # composite.painted[i]
              => composite'.lost[i]
           /\ \/ composite'.slots[i].current = composite.slots[i].current
              \/ composite'.slots[i].current = None /\ composite'.painted[i] = None
  PROVE  CompositeInv'
<1>1. CompositeMarks(composite', pass')
  <2>1. ASSUME NEW i \in Slots, composite.shown
        PROVE  \/ composite'.painted[i] = Expected(i, composite', pass')
               \/ Expected(i, composite', pass') # None /\ composite'.lost[i]
    <3>1. \/ composite.painted[i] = Expected(i, composite, pass)
          \/ Expected(i, composite, pass) # None /\ composite.lost[i]
      BY <2>1 DEF CompositeInv, CompositeGood, CompositeMarks
    <3>2. \/ Expected(i, composite', pass') = Expected(i, composite, pass)
          \/ Expected(i, composite', pass') = None /\ composite'.painted[i] = None
      BY DEF Expected
    <3>3. QED
      BY <3>1, <3>2
  <2>2. QED
    BY <2>1 DEF CompositeMarks
<1>2. pass'.at \in CompositeStages =>
        /\ pass'.orphan = None => composite'.shown
        /\ composite'.shown /\ pass'.orphan # None =>
             \A i \in Slots : composite'.painted[i] = None
  <2> SUFFICES ASSUME pass.at \in CompositeStages
               PROVE  /\ pass.orphan = None => composite.shown
                      /\ composite.shown /\ pass.orphan # None =>
                           \A i \in Slots : composite'.painted[i] = None
    OBVIOUS
  <2>1. CompositePass(composite, pass)
    BY DEF CompositeInv, CompositeGood
  <2>2. QED
    BY <2>1 DEF CompositePass
<1>3. CompositeGood(composite', pass', frames'.composite, states'.composite, value', library')
  BY <1>1, <1>2, CompositeEdited
<1>4. QED
  BY <1>3 DEF CompositeInv

\* What an edit means to a pass.
LEMMA TouchedPlace ==
  ASSUME pass \in PassType, NEW stages, pass' = Touched(stages)
  PROVE  /\ pass'.at = pass.at /\ pass'.i = pass.i /\ pass'.orphan = pass.orphan
         /\ pass'.alerts = pass.alerts /\ pass'.values = pass.values
         /\ pass'.poll = pass.poll /\ pass'.formula = pass.formula
         /\ pass'.at \in stages => ~pass'.clean
         /\ pass'.at \notin stages => pass'.clean = pass.clean
BY DEF Touched, PassType

LEMMA SlotEdited ==
  ASSUME TypeOK, CompositeInv, NEW i \in Slots, NEW s \in SlotType, NEW p \in Ids \cup {None},
         NEW mark \in BOOLEAN, EditSlot(i, s, p, mark),
         p \in {composite.painted[i], None},
         s.current = composite.slots[i].current \/ (s.current = None /\ p = None)
  PROVE  CompositeInv'
<1>1. /\ composite \in CompositeType /\ pass \in PassType
      /\ pass' = Touched(CompositeStages) /\ UNCHANGED frames
      /\ composite' = [composite EXCEPT
           !.slots[i] = s, !.edited = TRUE, !.dirty = @ \/ mark, !.painted[i] = p,
           !.lost[i] = @ \/ p # composite.painted[i]]
  BY DEF TypeOK, EditSlot
<1>2. /\ composite'.shown = composite.shown /\ composite'.edited
      /\ \A j \in Slots : j # i => /\ composite'.slots[j] = composite.slots[j]
                                   /\ composite'.painted[j] = composite.painted[j]
                                   /\ composite'.lost[j] = composite.lost[j]
      /\ composite'.slots[i] = s /\ composite'.painted[i] = p
      /\ composite'.lost[i] <=> composite.lost[i] \/ p # composite.painted[i]
  <2> HIDE DEF SlotType
  <2>1. QED
    BY <1>1 DEF CompositeType
<1>3. \A j \in Slots :
        /\ composite'.painted[j] \in {composite.painted[j], None}
        /\ composite.lost[j] \/ composite'.painted[j] # composite.painted[j]
           => composite'.lost[j]
        /\ \/ composite'.slots[j].current = composite.slots[j].current
           \/ composite'.slots[j].current = None /\ composite'.painted[j] = None
  BY <1>2
<1>4. QED
  BY <1>1, <1>2, <1>3, TouchedPlace, CompositeTouched

\* A slot's reading is set, or found, or its graph is built anew.
LEMMA CompositeAnswered ==
  ASSUME TypeOK, CompositeInv,
         \/ \E i \in Slots, r \in Readings : handleCompositeSlotReadingSelect(i, r)
         \/ AnswerComposite \/ rebuildCompositeGraph
  PROVE  CompositeInv'
<1>1. composite \in CompositeType /\ pass \in PassType /\ DOMAIN frames = {"composite", "derived"}
  BY DEF TypeOK, CompositeInv
<1>2. ASSUME NEW i \in Slots, NEW s, s.current = composite.slots[i].current,
             composite' = [composite EXCEPT !.slots[i] = s, !.edited = TRUE],
             pass' = Touched(CompositeStages), UNCHANGED frames
      PROVE  CompositeInv'
  <2>1. /\ composite'.edited /\ composite'.shown = composite.shown
        /\ composite'.painted = composite.painted /\ composite'.lost = composite.lost
        /\ \A j \in Slots : composite'.slots[j].current = composite.slots[j].current
    <3> HIDE DEF SlotType
    <3>1. QED
      BY <1>1, <1>2 DEF CompositeType
  <2>2. QED
    BY <1>1, <1>2, <2>1, TouchedPlace, CompositeTouched
<1>3. ASSUME NEW i \in Slots, NEW r \in Readings, handleCompositeSlotReadingSelect(i, r)
      PROVE  CompositeInv'
  <2> DEFINE s == [composite.slots[i] EXCEPT !.reading = r]
  <2>1. s.current = composite.slots[i].current
    BY <1>1, SlotOf DEF SlotType
  <2>2. /\ composite' = [composite EXCEPT !.slots[i] = s, !.edited = TRUE]
        /\ pass' = Touched(CompositeStages) /\ UNCHANGED frames
    BY <1>3 DEF handleCompositeSlotReadingSelect
  <2> HIDE DEF s
  <2>3. QED
    BY <1>2, <2>1, <2>2
<1>4. CASE AnswerComposite
  <2>1. handling[2] \in Slots
    BY <1>4, TypeParts, HandlingParts DEF AnswerComposite
  <2> DEFINE i == handling[2]
             s == [composite.slots[i] EXCEPT !.valid = TRUE]
  <2>2. CASE UNCHANGED <<composite, pass>>
    BY <1>4, <2>2, CompositeSame DEF AnswerComposite, environment
  <2>3. CASE ~UNCHANGED <<composite, pass>>
    <3>1. s.current = composite.slots[i].current
      BY <1>1, <2>1, SlotOf DEF SlotType
    <3>2. /\ composite' = [composite EXCEPT !.slots[i] = s, !.edited = TRUE]
          /\ pass' = Touched(CompositeStages) /\ UNCHANGED frames
      BY <1>4, <2>3 DEF AnswerComposite
    <3> HIDE DEF s
    <3>3. QED
      BY <1>2, <2>1, <3>1, <3>2
  <2>4. QED
    BY <2>2, <2>3
<1>5. CASE rebuildCompositeGraph
  <2>1. handling[2] \in Slots
    BY <1>5, TypeParts, HandlingParts DEF rebuildCompositeGraph
  <2>2. /\ composite' = [composite EXCEPT !.painted[handling[2]] = None, !.edited = TRUE,
             !.lost[handling[2]] = @ \/ composite.painted[handling[2]] # None]
        /\ pass' = Touched(CompositeStages) /\ UNCHANGED frames
    BY <1>5 DEF rebuildCompositeGraph
  <2>3. /\ composite'.edited /\ composite'.shown = composite.shown
        /\ composite'.slots = composite.slots
        /\ composite'.painted[handling[2]] = None
        /\ composite'.lost[handling[2]] <=>
             composite.lost[handling[2]] \/ composite.painted[handling[2]] # None
        /\ \A j \in Slots \ {handling[2]} :
             /\ composite'.painted[j] = composite.painted[j]
             /\ composite'.lost[j] = composite.lost[j]
    <3> HIDE DEF SlotType
    <3>1. QED
      BY <1>1, <2>1, <2>2 DEF CompositeType
  <2>4. \A j \in Slots :
          /\ composite'.painted[j] \in {composite.painted[j], None}
          /\ composite.lost[j] \/ composite'.painted[j] # composite.painted[j]
             => composite'.lost[j]
    BY <2>3
  <2>5. QED
    BY <1>1, <2>2, <2>3, <2>4, TouchedPlace, CompositeTouched
<1>6. QED
  BY <1>3, <1>4, <1>5

LEMMA CompositeHandled ==
  ASSUME TypeOK, CompositeInv, CompositeHandlers
  PROVE  CompositeInv'
<1> HIDE DEF SlotType
<1>1. PICK i \in Slots :
        \/ handleCompositeSlotSensorSelect(i) \/ handleCompositeSlotField(i)
        \/ handleCompositeSlotSuppressGlobal(i)
        \/ \E r \in Readings : handleCompositeSlotReadingSelect(i, r)
        \/ \E id \in Own : \/ handleCompositeAddThreshold(i, id)
                           \/ handleCompositeRemoveThreshold(i, id)
                           \/ handleCompositeThresholdUpdate(i, id)
        \/ \E k \in 1..Cardinality(Own) : handleCompositeReorderThreshold(i, k)
  BY Zenon DEF CompositeHandlers
<1> DEFINE s == composite.slots[i]
           p == composite.painted[i]
<1>2. /\ s \in SlotType /\ p \in Ids \cup {None} /\ None \in Ids \cup {None}
      /\ s.list \in Seq(Own) /\ IsInjective(s.list) /\ s.enabled \in SUBSET Own
      /\ s.current \in Ids \cup {None}
      /\ composite \in CompositeType /\ pass \in PassType
  BY TypeParts, SlotNow DEF TypeOK
<1>3. \A t \in SlotType, q \in {p, None}, mark \in BOOLEAN :
        /\ EditSlot(i, t, q, mark)
        /\ t.current = s.current \/ (t.current = None /\ q = None)
        => CompositeInv'
  BY <1>2, SlotEdited
<1>4. CASE handleCompositeSlotSensorSelect(i)
  <2>1. [s EXCEPT !.reading = None, !.valid = FALSE].current = s.current
    BY <1>2 DEF SlotType
  <2>2. QED
    BY <1>2, <1>3, <1>4, <2>1, EditedSlot DEF handleCompositeSlotSensorSelect
<1>5. CASE handleCompositeSlotField(i)
  BY <1>2, <1>3, <1>5 DEF handleCompositeSlotField
<1>6. CASE handleCompositeSlotSuppressGlobal(i)
  <2>1. [s EXCEPT !.suppressed = ~@].current = s.current
    BY <1>2 DEF SlotType
  <2>2. QED
    BY <1>2, <1>3, <1>6, <2>1, EditedSlot DEF handleCompositeSlotSuppressGlobal
<1>7. ASSUME NEW r \in Readings, handleCompositeSlotReadingSelect(i, r)
      PROVE  CompositeInv'
  BY <1>7, CompositeAnswered
<1>8. ASSUME NEW id \in Own, handleCompositeAddThreshold(i, id)
      PROVE  CompositeInv'
  <2> DEFINE t == [s EXCEPT !.list = Append(@, id), !.enabled = @ \cup {id}]
  <2>1. /\ id \notin ToSet(s.list) /\ s.enabled \cup {id} \in SUBSET Own
        /\ EditSlot(i, t, p, TRUE)
    BY <1>2, <1>8 DEF handleCompositeAddThreshold
  <2>2. Append(s.list, id) \in Seq(Own) /\ IsInjective(Append(s.list, id))
    BY <1>2, <2>1, AppendDistinct
  <2>3. t \in SlotType
    BY <1>2, <2>1, <2>2, EditedSlot
  <2>4. t.current = s.current
    BY <1>2 DEF SlotType
  <2> HIDE DEF t
  <2>5. QED
    BY <1>3, <2>1, <2>3, <2>4
<1>9. ASSUME NEW id \in Own, handleCompositeRemoveThreshold(i, id)
      PROVE  CompositeInv'
  <2> DEFINE shownNow == s.current = id
             c == IF shownNow THEN None ELSE s.current
             q == IF shownNow THEN None ELSE p
  <2>1. PICK k \in DOMAIN s.list :
          EditSlot(i, [s EXCEPT !.list = RemoveAt(@, k), !.current = IF shownNow THEN None ELSE @],
                   q, FALSE)
    BY <1>9, Zenon DEF handleCompositeRemoveThreshold
  <2>2. c \in Ids \cup {None} /\ q \in {p, None} /\ (c = s.current \/ (c = None /\ q = None))
    BY <1>2
  <2>3. RemoveAt(s.list, k) \in Seq(Own) /\ IsInjective(RemoveAt(s.list, k))
    BY <1>2, RemoveDistinct
  <2> DEFINE t == [s EXCEPT !.list = RemoveAt(@, k), !.current = c]
  <2>4. t \in SlotType
    BY <1>2, <2>2, <2>3, EditedSlot
  <2>5. t.current = c
    BY <1>2 DEF SlotType
  <2> HIDE DEF q
  <2>6. EditSlot(i, t, q, FALSE)
    BY <2>1
  <2> HIDE DEF t, c
  <2>7. QED
    BY <1>3, <2>2, <2>4, <2>5, <2>6
<1>10. ASSUME NEW id \in Own, handleCompositeThresholdUpdate(i, id)
       PROVE  CompositeInv'
  <2> DEFINE e == IF id \in s.enabled THEN s.enabled \ {id} ELSE s.enabled \cup {id}
             t == [s EXCEPT !.enabled = IF id \in @ THEN @ \ {id} ELSE @ \cup {id}]
  <2>1. EditSlot(i, t, p, TRUE)
    BY <1>10 DEF handleCompositeThresholdUpdate
  <2>2. e \in SUBSET Own /\ t = [s EXCEPT !.enabled = e]
    BY <1>2
  <2>3. t \in SlotType /\ t.current = s.current
    <3> HIDE DEF e
    <3>1. [s EXCEPT !.enabled = e] \in SlotType
      BY <1>2, <2>2, EditedSlot
    <3>2. [s EXCEPT !.enabled = e].current = s.current
      BY <1>2 DEF SlotType
    <3> HIDE DEF t
    <3>3. QED
      BY <2>2, <3>1, <3>2
  <2> HIDE DEF t
  <2>4. QED
    BY <1>3, <2>1, <2>3
<1>11. ASSUME NEW k, handleCompositeReorderThreshold(i, k)
       PROVE  CompositeInv'
  <2> DEFINE l == [s.list EXCEPT ![k] = s.list[k + 1], ![k + 1] = s.list[k]]
  <2>1. k \in 1 .. Len(s.list) - 1 /\ EditSlot(i, [s EXCEPT !.list = l], p, TRUE)
    BY <1>11 DEF handleCompositeReorderThreshold
  <2>2. l \in Seq(Own) /\ IsInjective(l)
    BY <1>2, <2>1, SwapDistinct
  <2> HIDE DEF l
  <2>3. [s EXCEPT !.list = l] \in SlotType
    BY <1>2, <2>2, EditedSlot
  <2>4. [s EXCEPT !.list = l].current = s.current
    BY <1>2 DEF SlotType
  <2>5. QED
    BY <1>3, <2>1, <2>3, <2>4
<1>12. QED
  BY <1>1, <1>4, <1>5, <1>6, <1>7, <1>8, <1>9, <1>10, <1>11

LEMMA CompositeOther ==
  ASSUME TypeOK, CompositeInv,
         \/ resetThresholdRuntimeState \/ markGlobalThresholdDirty
         \/ OnWillDisappearComposite \/ OnWillAppearComposite
  PROVE  CompositeInv'
<1> HIDE DEF SlotType
<1>1. composite \in CompositeType /\ pass \in PassType
  BY DEF TypeOK
<1>2. CASE resetThresholdRuntimeState \/ markGlobalThresholdDirty
  <2>1. /\ composite'.edited /\ composite'.shown = composite.shown
        /\ composite'.painted = composite.painted /\ composite'.lost = composite.lost
        /\ composite'.slots = composite.slots
    BY <1>1, <1>2 DEF resetThresholdRuntimeState, markGlobalThresholdDirty, CompositeType
  <2>2. /\ \/ pass' = Touched(CompositeStages)
           \/ pass' = Touched(CompositeStages \cup DerivedStages)
        /\ UNCHANGED frames
    BY <1>2 DEF resetThresholdRuntimeState, markGlobalThresholdDirty
  <2>3. /\ pass'.at = pass.at /\ pass'.i = pass.i /\ pass'.orphan = pass.orphan
        /\ pass'.alerts = pass.alerts /\ (pass'.at \in CompositeStages => ~pass'.clean)
    <3>1. CASE pass' = Touched(CompositeStages)
      BY <1>1, <3>1, TouchedPlace
    <3>2. CASE pass' = Touched(CompositeStages \cup DerivedStages)
      BY <1>1, <3>2, TouchedPlace
    <3>3. QED
      BY <2>2, <3>1, <3>2
  <2>4. QED
    BY <2>1, <2>2, <2>3, CompositeTouched
<1>3. CASE OnWillDisappearComposite
  <2>1. ~composite'.shown /\ UNCHANGED frames
    BY <1>1, <1>3 DEF OnWillDisappearComposite, CompositeType
  <2>2. pass'.at \in CompositeStages => ~pass'.clean /\ pass'.orphan # None
    <3>1. composite # None
      BY <1>1, NoneAssumption
    <3>2. QED
      BY <1>1, <1>3, <3>1 DEF OnWillDisappearComposite, Orphaned, PassType
  <2>3. CompositeGood(composite', pass', frames'.composite, states'.composite, value', library')
    BY <2>1, <2>2, CompositeEdited DEF CompositeMarks
  <2>4. QED
    BY <2>1, <2>3 DEF CompositeInv
<1>4. CASE OnWillAppearComposite
  <2>1. /\ composite'.edited
        /\ \A i \in Slots : /\ composite'.painted[i] = None
                            /\ composite'.lost[i] <=> composite'.slots[i].current # None
        /\ UNCHANGED <<frames, pass>> /\ ~composite.shown
    BY <1>4 DEF OnWillAppearComposite, Composite
  <2>2. pass'.at \in CompositeStages => ~pass'.clean /\ pass'.orphan # None
    BY <2>1 DEF CompositeInv, CompositeGood, CompositePass
  <2>3. \A i \in Slots : Expected(i, composite', pass') = composite'.slots[i].current
    BY <2>2 DEF Expected, CompositeStages
  <2>4. CompositeMarks(composite', pass')
    BY <2>1, <2>3 DEF CompositeMarks
  <2>5. CompositeGood(composite', pass', frames'.composite, states'.composite, value', library')
    BY <2>1, <2>2, <2>4, CompositeEdited
  <2>6. QED
    BY <2>1, <2>5 DEF CompositeInv
<1>5. QED
  BY <1>2, <1>3, <1>4

\* What letting go of a tile or a graph means to a pass.
LEMMA OrphanedPlace ==
  ASSUME pass \in PassType, NEW stages, NEW holding, NEW tile,
         pass' = Orphaned(stages, holding, tile)
  PROVE  /\ pass'.at = pass.at /\ pass'.i = pass.i /\ pass'.alerts = pass.alerts
         /\ pass'.values = pass.values /\ pass'.poll = pass.poll
         /\ pass'.formula = pass.formula
         /\ pass'.at \in stages => ~pass'.clean
         /\ pass'.at \notin stages => pass'.clean = pass.clean
         /\ pass'.orphan = IF pass.at \in holding /\ pass.orphan = None THEN tile
                           ELSE pass.orphan
BY DEF Orphaned, PassType

\* A handler of the derived tile.
LEMMA DerivedHandlersEdit ==
  ASSUME DerivedHandlers
  PROVE  /\ \/ pass' = Touched(DerivedStages)
            \/ pass' = Orphaned(DerivedStages, Fetched, derived)
         /\ UNCHANGED <<environment, library, composite, states, frames>>
<1>1. ASSUME NEW d, ChangeDerived(d)
      PROVE  UNCHANGED <<environment, library, composite, states, frames>>
  BY <1>1 DEF ChangeDerived
<1>2. ASSUME NEW d, EditDerived(d)
      PROVE  /\ pass' = Touched(DerivedStages)
             /\ UNCHANGED <<environment, library, composite, states, frames>>
  BY <1>1, <1>2 DEF EditDerived
<1>3. CASE rebuildDerivedGraph
  BY <1>1, <1>3 DEF rebuildDerivedGraph
<1>4. ASSUME NEW i, NEW r, handleDerivedSlotReadingSelect(i, r)
      PROVE  /\ pass' = Touched(DerivedStages)
             /\ UNCHANGED <<environment, library, composite, states, frames>>
  BY <1>1, <1>4 DEF handleDerivedSlotReadingSelect
<1>5. \/ \E d : EditDerived(d)
      \/ \E i, r : handleDerivedSlotReadingSelect(i, r)
      \/ rebuildDerivedGraph
  BY Zenon DEF DerivedHandlers, handleDerivedSlotSensorSelect, handleDerivedValueTextColor,
     handleDerivedSlotApplyFavorite, handleDerivedGlobalField, handleDerivedLoadPreset,
     handleDerivedTitleParametersDidChange, handleDerivedSuppressGlobal
<1>6. QED
  BY <1>2, <1>3, <1>4, <1>5

\* What happens to the derived tile leaves the composite tile, and a pass over it,
\* alone.
LEMMA CompositeLeftAlone ==
  ASSUME TypeOK, CompositeInv,
         \/ BeginDerived \/ GatherSlot \/ TooFew \/ FinishDerived \/ RepaintDerived
         \/ StoreDerivedAlert \/ DrawDerived \/ DerivedHandlers \/ AnswerDerived
         \/ OnWillDisappearDerived \/ OnWillAppearDerived \/ UNCHANGED vars
  PROVE  CompositeInv'
<1>1. /\ pass \in PassType /\ DOMAIN frames = {"composite", "derived"}
      /\ states \in [composite : [Slots -> [Ids -> StateType]], derived : StateType]
  BY DEF TypeOK, CompositeInv
<1>2. CASE \/ BeginDerived \/ GatherSlot \/ TooFew \/ FinishDerived \/ RepaintDerived
           \/ StoreDerivedAlert \/ DrawDerived
  <2>1. UNCHANGED <<composite, value, library>>
    BY <1>2 DEF BeginDerived, GatherSlot, TooFew, FinishDerived, RepaintDerived,
                StoreDerivedAlert, DrawDerived, environment
  <2>2. pass.at \in {"derived", "gather", "finish", "repaint", "keep", "draw"}
    BY <1>2 DEF BeginDerived, GatherSlot, TooFew, FinishDerived, RepaintDerived,
                StoreDerivedAlert, DrawDerived
  <2>3. pass'.at \in {"idle", "gather", "finish", "repaint", "keep", "draw"}
    <3>1. CASE BeginDerived \/ TooFew \/ DrawDerived
      BY <3>1 DEF BeginDerived, TooFew, DrawDerived, Idle
    <3>2. CASE GatherSlot \/ FinishDerived \/ RepaintDerived \/ StoreDerivedAlert
      BY <1>1, <3>2 DEF GatherSlot, FinishDerived, RepaintDerived, StoreDerivedAlert, PassType
    <3>3. QED
      BY <1>2, <3>1, <3>2
  <2>4. states'.composite = states.composite
    <3>1. UNCHANGED states \/ \E st : states' = [states EXCEPT !.derived = st]
      BY <1>2, Zenon DEF BeginDerived, GatherSlot, TooFew, FinishDerived, RepaintDerived,
                         StoreDerivedAlert, DrawDerived
    <3>2. QED
      BY <1>1, <3>1
  <2>5. frames'.composite = frames.composite /\ DOMAIN frames' = DOMAIN frames
    <3>1. UNCHANGED frames \/ \E f : frames' = [frames EXCEPT !.derived = f]
      BY <1>2, Zenon DEF BeginDerived, GatherSlot, TooFew, FinishDerived, RepaintDerived,
                         StoreDerivedAlert, DrawDerived
    <3>2. QED
      BY <1>1, <3>1
  <2>6. pass.at # "store" /\ pass'.at \notin CompositeStages
    BY <2>2, <2>3 DEF CompositeStages
  <2>7. QED
    BY <2>1, <2>4, <2>5, <2>6, CompositeSame
<1>3. CASE DerivedHandlers \/ AnswerDerived \/ OnWillDisappearDerived
  <2>1. UNCHANGED <<composite, value, library, states, frames>>
    BY <1>3, DerivedHandlersEdit DEF OnWillDisappearDerived, AnswerDerived, ChangeDerived,
                                     environment
  <2>2. CompositeStages \cap DerivedStages = {} /\ Fetched \subseteq DerivedStages
    BY DEF CompositeStages, DerivedStages, Fetched
  <2>3. \/ pass'.at \notin CompositeStages /\ pass.at # "store"
        \/ /\ pass'.at = pass.at /\ pass'.i = pass.i /\ pass'.poll = pass.poll
           /\ pass'.values = pass.values /\ pass'.alerts = pass.alerts
           /\ pass'.clean = pass.clean /\ pass'.orphan = pass.orphan
    <3> HIDE DEF DerivedStages
    <3>1. \/ UNCHANGED pass \/ pass' = Touched(DerivedStages)
          \/ pass' = Orphaned(DerivedStages, Fetched, derived)
          \/ pass' = Orphaned(DerivedStages, DerivedStages, derived)
      BY <1>3, DerivedHandlersEdit DEF OnWillDisappearDerived, AnswerDerived
    <3>2. CASE pass.at \in DerivedStages
      <4>1. pass'.at = pass.at
        BY <1>1, <3>1, TouchedPlace, OrphanedPlace
      <4>2. QED
        BY <2>2, <3>2, <4>1 DEF DerivedStages, CompositeStages
    <3>3. CASE pass.at \notin DerivedStages
      <4>1. CASE UNCHANGED pass
        BY <4>1
      <4>2. CASE pass' = Touched(DerivedStages)
        <5>1. pass'.at = pass.at
          BY <1>1, <4>2, TouchedPlace
        <5>2. QED
          BY <1>1, <3>3, <4>2, <5>1, TouchedPlace
      <4>3. CASE pass' = Orphaned(DerivedStages, Fetched, derived)
        <5>1. pass'.at = pass.at
          BY <1>1, <4>3, OrphanedPlace
        <5>2. QED
          BY <1>1, <2>2, <3>3, <4>3, <5>1, OrphanedPlace
      <4>4. CASE pass' = Orphaned(DerivedStages, DerivedStages, derived)
        <5>1. pass'.at = pass.at
          BY <1>1, <4>4, OrphanedPlace
        <5>2. QED
          BY <1>1, <2>2, <3>3, <4>4, <5>1, OrphanedPlace
      <4>5. QED
        BY <3>1, <4>1, <4>2, <4>3, <4>4
    <3>4. QED
      BY <3>2, <3>3
  <2>4. QED
    BY <2>1, <2>3, CompositeSame
<1>4. CASE OnWillAppearDerived \/ UNCHANGED vars
  <2>1. UNCHANGED <<composite, value, library, states, frames, pass>>
    BY <1>4 DEF OnWillAppearDerived, environment, vars
  <2>2. QED
    BY <2>1, CompositeSame
<1>5. QED
  BY <1>2, <1>3, <1>4

LEMMA CompositeKept ==
  ASSUME TypeOK, CompositeInv, [Next]_vars
  PROVE  CompositeInv'
<1>1. ASSUME NEW r \in Readings, NEW v \in (Levels[r] \cup {None}) \ {value[r]}, Publish(r, v)
      PROVE  CompositeInv'
  BY <1>1, CompositePublished
<1>2. CASE Ticker
  BY <1>2, CompositeBegun, CompositeEvaluated, CompositePainted, CompositeStored,
     CompositeRendered, CompositeLeftAlone DEF Ticker
<1>3. CASE CompositeHandlers
  BY <1>3, CompositeHandled
<1>4. CASE DerivedHandlers \/ OnWillDisappearDerived \/ OnWillAppearDerived \/ UNCHANGED vars
  BY <1>4, CompositeLeftAlone
<1>5. CASE Handling
  BY <1>5, CompositeAnswered, CompositeOther, CompositeLeftAlone DEF Handling
<1>6. CASE \/ markGlobalThresholdDirty \/ OnWillDisappearComposite \/ OnWillAppearComposite
  BY <1>6, CompositeOther
<1>7. QED
  BY <1>1, <1>2, <1>3, <1>4, <1>5, <1>6 DEF Next

LEMMA CompositeInvariance == Spec => [](TypeOK /\ CompositeInv)
<1>1. Init => TypeOK /\ CompositeInv
  BY InitialTypes, CompositeInitially
<1>2. TypeOK /\ CompositeInv /\ [Next]_vars => (TypeOK /\ CompositeInv)'
  BY TypesKept, CompositeKept
<1>3. QED
  BY <1>1, <1>2, PTL DEF Spec

\* Whatever is edited, hidden and shown between two slots of a pass, and whichever
\* images are lost: a composite tile that has been drawn from the last poll and under
\* the settings it has shows every slot's value of now (composite.go
\* updateCompositeTile).
THEOREM NoSlotFreezes == Spec => []SlotsAreCurrent
<1>1. CompositeInv => SlotsAreCurrent
  BY CompositeShown
<1>2. QED
  BY <1>1, CompositeInvariance, PTL

\* ... and every slot's alert in its own colours (composite.go updateCompositeTile,
\* handleCompositeRemoveThreshold).
THEOREM SlotColorsShown == Spec => []SlotColorsFollowAlert
<1>1. CompositeInv => SlotColorsFollowAlert
  BY CompositeShown
<1>2. QED
  BY <1>1, CompositeInvariance, PTL

-----------------------------------------------------------------------------
(* The derived tile, in the same way.                                      *)

AlertIn(lib, suppressed, st) == WinnerIn(lib, <<>>, suppressed, [id \in Ids |-> st])

LEMMA DerivedReads ==
  ASSUME NEW d, NEW st
  PROVE  DerivedAlert(d, st) = AlertIn(library, d.suppressed, st)
<1>1. DerivedThresholds(d).list = <<>> /\ DerivedThresholds(d).suppressed = d.suppressed
  BY DEF DerivedThresholds
<1>2. QED
  BY <1>1, Reads DEF DerivedAlert, AlertIn

\* Tile d has the colours of alert a, in its graph and in its text, unless they were
\* lost.
Coloured(d, a) ==
  /\ d.painted = a \/ (a # None /\ "graph" \in d.lost)
  /\ d.text = a \/ (a # None /\ "text" \in d.lost)

\* The tile's alert: the one that a pass p has just painted and is about to store, or
\* the stored one.
DerivedExpected(d, p) ==
  IF p.at = "keep" /\ p.orphan = None THEN p.alerts[1] ELSE d.current

DerivedMarks(d, p) == d.shown => Coloured(d, DerivedExpected(d, p))

\* What a pass p of the derived tile knows of the tile d in the maps.
DerivedPass(d, p) ==
  p.at \in DerivedStages =>
    /\ d.shown => /\ d.fresh \/ d.edited
                  /\ ~p.clean => d.edited
                  /\ p.orphan # None => d.painted = None /\ d.text = None
    /\ p.clean => p.orphan = None
    /\ p.orphan = None => d.shown

\* A clean pass over the last poll has the values of the slots it has left behind,
\* then enough of them, the formula and the alert, which is stored before the drawing.
DerivedDone(d, p, st, v, lib) ==
  p.at \in DerivedStages /\ p.clean /\ p.poll =>
    /\ \A i \in DSlots : i < p.i => p.values[i] = ValueIn(v, d.slots[i])
    /\ p.at \notin {"gather", "finish"} =>
         /\ Len(Present(p.values)) >= 2 /\ p.formula = d.formula
         /\ p.alerts[1] = AlertIn(lib, d.suppressed, st)
    /\ p.at = "draw" => p.alerts[1] = d.current

\* What DerivedIsCurrent says of the frame of a tile.
DerivedFrame(d, frame, st, v, lib) ==
  Settled(d) =>
    LET values == Present([i \in DSlots |-> ValueIn(v, d.slots[i])])
        alert  == AlertIn(lib, d.suppressed, st)
    IN  /\ Len(values) >= 2
        /\ frame.result = computeDerived(d.formula, values)
        /\ frame.color = alert \/ (alert # None /\ "graph" \in d.lost)
        /\ frame.text = alert \/ (alert # None /\ "text" \in d.lost)

DerivedGood(d, p, frame, st, v, lib) ==
  /\ DerivedMarks(d, p) /\ DerivedPass(d, p) /\ DerivedDone(d, p, st, v, lib)
  /\ DerivedFrame(d, frame, st, v, lib)

DerivedInv == /\ DOMAIN frames = {"composite", "derived"}
              /\ DerivedGood(derived, pass, frames.derived, states.derived, value, library)

LEMMA DerivedShown == DerivedInv => DerivedIsCurrent
<1> SUFFICES ASSUME DerivedInv, Settled(derived)
             PROVE  DerivedIsCurrent
  BY DEF DerivedIsCurrent
<1>1. \A i \in DSlots : ValueOf(derived.slots[i]) = ValueIn(value, derived.slots[i])
  BY Reads
<1>2. [i \in DSlots |-> ValueOf(derived.slots[i])]
        = [i \in DSlots |-> ValueIn(value, derived.slots[i])]
  BY <1>1, Zenon
<1>3. DerivedAlert(derived, states.derived)
        = AlertIn(library, derived.suppressed, states.derived)
  BY DerivedReads
<1>4. LET values == Present([i \in DSlots |-> ValueIn(value, derived.slots[i])])
          alert  == AlertIn(library, derived.suppressed, states.derived)
          frame  == frames.derived
      IN  /\ Len(values) >= 2
          /\ frame.result = computeDerived(derived.formula, values)
          /\ frame.color = alert \/ (alert # None /\ "graph" \in derived.lost)
          /\ frame.text = alert \/ (alert # None /\ "text" \in derived.lost)
  BY DEF DerivedInv, DerivedGood, DerivedFrame
<1>5. QED
  BY <1>2, <1>3, <1>4, Zenon DEF DerivedIsCurrent

LEMMA DerivedEdited ==
  ASSUME NEW d, NEW q, NEW frame, NEW st, NEW v, NEW lib,
         DerivedMarks(d, q), d.edited \/ ~d.shown,
         q.at \in DerivedStages => /\ ~q.clean
                                   /\ q.orphan = None => d.shown
                                   /\ d.shown /\ q.orphan # None =>
                                        d.painted = None /\ d.text = None
  PROVE  DerivedGood(d, q, frame, st, v, lib)
<1>1. ~Settled(d)
  BY DEF Settled
<1>2. DerivedPass(d, q)
  BY DEF DerivedPass
<1>3. QED
  BY <1>1, <1>2 DEF DerivedGood, DerivedDone, DerivedFrame

LEMMA DerivedSame ==
  ASSUME DerivedInv, derived' = derived, value' = value, library' = library,
         states'.derived = states.derived, frames'.derived = frames.derived,
         DOMAIN frames' = DOMAIN frames,
         \/ pass.at # "keep" /\ pass'.at \notin DerivedStages
         \/ /\ pass'.at = pass.at /\ pass'.i = pass.i /\ pass'.clean = pass.clean
            /\ pass'.poll = pass.poll /\ pass'.orphan = pass.orphan
            /\ pass'.values = pass.values /\ pass'.alerts = pass.alerts
            /\ pass'.formula = pass.formula
  PROVE  DerivedInv'
<1>1. DerivedMarks(derived', pass')
  <2>1. pass'.at \notin DerivedStages => pass'.at # "keep"
    BY DEF DerivedStages
  <2>2. DerivedExpected(derived', pass') = DerivedExpected(derived, pass)
    BY <2>1 DEF DerivedExpected
  <2>3. QED
    BY <2>2 DEF DerivedInv, DerivedGood, DerivedMarks
<1>2. DerivedFrame(derived', frames'.derived, states'.derived, value', library')
  BY Zenon DEF DerivedInv, DerivedGood
<1>3. DerivedPass(derived', pass')
  BY DEF DerivedInv, DerivedGood, DerivedPass
<1>4. DerivedDone(derived', pass', states'.derived, value', library')
  BY DEF DerivedInv, DerivedGood, DerivedDone
<1>5. QED
  BY <1>1, <1>2, <1>3, <1>4 DEF DerivedInv, DerivedGood

LEMMA DerivedInitially ==
  ASSUME Init
  PROVE  DerivedInv
<1>1. derived = Derived(stored.derived) /\ pass = Idle
      /\ frames = [composite |-> None, derived |-> None]
  BY DEF Init
<1>2. /\ derived.edited /\ derived.painted = None /\ derived.text = None
      /\ derived.current # None => derived.lost = Colors
  BY <1>1 DEF Derived, LostIf
<1>3. DerivedMarks(derived, pass)
  BY <1>1, <1>2 DEF DerivedMarks, DerivedExpected, Coloured, Colors, Idle
<1>4. pass.at \notin DerivedStages
  BY <1>1 DEF Idle, DerivedStages
<1>5. DOMAIN frames = {"composite", "derived"}
  BY <1>1
<1>6. QED
  BY <1>2, <1>3, <1>4, <1>5, DerivedEdited DEF DerivedInv

LEMMA DerivedPublished ==
  ASSUME TypeOK, DerivedInv, NEW r, NEW v, Publish(r, v)
  PROVE  DerivedInv'
<1>1. /\ derived \in DerivedType /\ pass \in PassType
      /\ derived' = [derived EXCEPT !.fresh = TRUE, !.looked = FALSE]
      /\ pass' = [pass EXCEPT !.poll = pass.at = "idle"]
      /\ UNCHANGED <<library, states, frames>>
  BY DEF TypeOK, Publish
<1>2. /\ derived'.fresh /\ derived'.shown = derived.shown
      /\ derived'.edited = derived.edited /\ derived'.current = derived.current
      /\ derived'.painted = derived.painted /\ derived'.text = derived.text
      /\ derived'.lost = derived.lost
  BY <1>1 DEF DerivedType
<1>3. /\ pass'.at = pass.at /\ pass'.clean = pass.clean /\ pass'.orphan = pass.orphan
      /\ pass'.alerts = pass.alerts
      /\ pass.at \in DerivedStages => ~pass'.poll
  BY <1>1 DEF PassType, DerivedStages
<1>4. DerivedMarks(derived', pass') /\ DerivedPass(derived', pass')
  <2>1. DerivedExpected(derived', pass') = DerivedExpected(derived, pass)
    BY <1>2, <1>3 DEF DerivedExpected
  <2>2. QED
    BY <1>2, <1>3, <2>1 DEF DerivedInv, DerivedGood, DerivedMarks, Coloured, DerivedPass
<1>5. DerivedDone(derived', pass', states'.derived, value', library')
  BY <1>3 DEF DerivedDone
<1>6. DerivedFrame(derived', frames'.derived, states'.derived, value', library')
  BY <1>2 DEF DerivedFrame, Settled
<1>7. QED
  BY <1>1, <1>4, <1>5, <1>6 DEF DerivedInv, DerivedGood

LEMMA DerivedBegun ==
  ASSUME TypeOK, DerivedInv, BeginDerived
  PROVE  DerivedInv'
<1>1. UNCHANGED <<derived, value, library, states, frames>> /\ pass.at = "derived"
  BY DEF BeginDerived, environment
<1>2. CASE pass' = Idle
  <2>1. pass'.at \notin DerivedStages
    BY <1>2 DEF Idle, DerivedStages
  <2>2. QED
    BY <1>1, <2>1, DerivedSame
<1>3. CASE derived.shown /\ derived.fresh /\ pass' = [Idle EXCEPT !.at = "gather"]
  <2>1. pass'.at = "gather" /\ pass'.i = 1 /\ pass'.clean /\ pass'.orphan = None
    BY <1>3 DEF Idle
  <2>2. DerivedPass(derived', pass')
    BY <1>1, <1>3, <2>1 DEF DerivedPass
  <2>3. \A i \in DSlots : ~(i < pass'.i)
    BY <2>1, SlotFacts
  <2>4. DerivedDone(derived', pass', states'.derived, value', library')
    BY <2>1, <2>3 DEF DerivedDone
  <2>5. DerivedExpected(derived', pass') = DerivedExpected(derived, pass)
    BY <1>1, <2>1 DEF DerivedExpected
  <2>6. QED
    BY <1>1, <2>2, <2>4, <2>5 DEF DerivedInv, DerivedGood, DerivedMarks
<1>4. QED
  BY <1>2, <1>3 DEF BeginDerived

\* While the ticker is at the derived tile it is not settled.
LEMMA DerivedBusy ==
  ASSUME DerivedInv, pass.at \in DerivedStages
  PROVE  /\ ~Settled(derived)
         /\ derived.shown /\ ~pass.clean => derived.edited
         /\ derived.shown /\ pass.orphan # None => derived.painted = None /\ derived.text = None
         /\ pass.clean => derived.shown /\ pass.orphan = None
         /\ pass.orphan = None => derived.shown
BY DEF DerivedInv, DerivedGood, DerivedPass, Settled

LEMMA DerivedGathered ==
  ASSUME TypeOK, DerivedInv, GatherSlot
  PROVE  DerivedInv'
<1> DEFINE i == pass.i
           s == Holding(derived).slots[i]
<1>1. /\ derived \in DerivedType /\ pass \in PassType /\ pass.at = "gather"
      /\ UNCHANGED <<library, value, derived, frames, states>>
      /\ pass.at \in DerivedStages
  BY DEF TypeOK, GatherSlot, environment, DerivedStages
<1>2. /\ i \in DSlots /\ Len(pass.values) = i - 1
      /\ pass.values \in Seq(Int \cup {None})
  <2>1. Len(pass.values) = i - 1 /\ i \in DSlots
    BY <1>1 DEF TypeOK, InPlace
  <2>2. QED
    BY <1>1, <2>1 DEF PassType
<1>3. i \in Nat /\ DSlots \subseteq Nat \ {0}
  BY <1>2, SlotFacts
<1>4. /\ pass'.clean = pass.clean /\ pass'.poll = pass.poll /\ pass'.orphan = pass.orphan
      /\ pass'.values = Append(pass.values, ValueOf(s)) /\ pass'.i = i + 1
      /\ pass'.at \in {"gather", "finish"} /\ pass'.at \in DerivedStages
  <2>1. pass' = [pass EXCEPT !.at = IF pass.i = Len(DerivedSlots) THEN "finish" ELSE "gather",
                             !.i = @ + 1, !.values = Append(@, ValueOf(s))]
    BY DEF GatherSlot
  <2> HIDE DEF s
  <2>2. QED
    BY <1>1, <2>1 DEF PassType, DerivedStages
<1>5. ValueOf(s) \in Int \cup {None}
  <2>1. s \in DerivedSlotType
    BY <1>1, <1>2, TypeParts, HeldTypes DEF DerivedType
  <2>2. s.reading \in Readings \cup {None}
    BY <2>1 DEF DerivedSlotType
  <2>3. QED
    BY <2>2, ValueType
<1>6. /\ \A j \in DSlots : j < i => pass'.values[j] = pass.values[j]
      /\ pass'.values[i] = ValueOf(s)
  <2> HIDE DEF i, s
  <2>1. \A j \in DSlots : j < i => j \in 1 .. i - 1
    BY <1>3
  <2>2. \A j \in 1 .. i - 1 : Append(pass.values, ValueOf(s))[j] = pass.values[j]
    BY <1>2, <1>5, AppendProperties
  <2>3. Append(pass.values, ValueOf(s))[Len(pass.values) + 1] = ValueOf(s)
    BY <1>2, <1>5, AppendProperties
  <2>4. Len(pass.values) + 1 = i
    BY <1>2, <1>3
  <2>5. QED
    BY <1>4, <2>1, <2>2, <2>3, <2>4
<1>7. DerivedMarks(derived', pass') /\ DOMAIN frames' = {"composite", "derived"}
  <2>1. DerivedExpected(derived', pass') = DerivedExpected(derived, pass)
    BY <1>1, <1>4 DEF DerivedExpected
  <2>2. QED
    BY <1>1, <2>1 DEF DerivedInv, DerivedGood, DerivedMarks
<1>8. DerivedPass(derived', pass')
  BY <1>1, <1>4 DEF DerivedInv, DerivedGood, DerivedPass
<1>9. DerivedFrame(derived', frames'.derived, states'.derived, value', library')
  BY <1>1, DerivedBusy DEF DerivedFrame
<1>10. DerivedDone(derived', pass', states'.derived, value', library')
  <2> SUFFICES ASSUME pass.clean, pass.poll, NEW j \in DSlots, j < i + 1
               PROVE  pass'.values[j] = ValueIn(value, derived.slots[j])
    BY <1>1, <1>4 DEF DerivedDone
  <2>1. CASE j = i
    <3>1. s = derived.slots[i]
      BY <1>1, DerivedBusy DEF Holding
    <3>2. ValueOf(s) = ValueIn(value, s)
      BY Reads
    <3>3. QED
      BY <1>6, <2>1, <3>1, <3>2
  <2>2. CASE j < i
    <3>1. pass.values[j] = ValueIn(value, derived.slots[j])
      BY <1>1, <2>2 DEF DerivedInv, DerivedGood, DerivedDone
    <3>2. QED
      BY <1>6, <2>2, <3>1
  <2>3. j = i \/ j < i
    BY <1>3
  <2>4. QED
    BY <2>1, <2>2, <2>3
<1>11. QED
  BY <1>7, <1>8, <1>9, <1>10 DEF DerivedInv, DerivedGood

LEMMA DerivedFinished ==
  ASSUME TypeOK, DerivedInv, FinishDerived
  PROVE  DerivedInv'
<1> DEFINE held   == Holding(derived)
           result == computeDerived(held.formula, Present(pass.values))
           st     == DerivedEvaluated(held, result)
           alert  == DerivedAlert(held, st)
<1>1. /\ pass \in PassType /\ pass.at = "finish" /\ pass.at \in DerivedStages
      /\ Len(Present(pass.values)) >= 2
      /\ UNCHANGED <<library, value, derived, frames>>
  BY DEF TypeOK, FinishDerived, environment, DerivedStages
<1>2. /\ states' = [states EXCEPT !.derived = st]
      /\ pass' = [pass EXCEPT !.at = "repaint", !.formula = held.formula, !.alerts = <<alert>>]
  BY Zenon DEF FinishDerived
<1>3. states'.derived = st
  <2> HIDE DEF st
  <2>1. QED
    BY <1>2 DEF TypeOK
<1>4. /\ pass'.at = "repaint" /\ pass'.i = pass.i /\ pass'.clean = pass.clean
      /\ pass'.poll = pass.poll /\ pass'.orphan = pass.orphan
      /\ pass'.values = pass.values /\ pass'.formula = held.formula /\ pass'.alerts[1] = alert
  <2> HIDE DEF held, alert
  <2>1. QED
    BY <1>1, <1>2 DEF PassType
<1>5. DerivedMarks(derived', pass')
  <2>1. DerivedExpected(derived', pass') = DerivedExpected(derived, pass)
    BY <1>1, <1>4 DEF DerivedExpected
  <2>2. QED
    BY <1>1, <2>1 DEF DerivedInv, DerivedGood, DerivedMarks
<1>6. DerivedPass(derived', pass')
  BY <1>1, <1>4 DEF DerivedInv, DerivedGood, DerivedPass
<1>7. DerivedDone(derived', pass', states'.derived, value', library')
  <2> SUFFICES ASSUME pass.clean, pass.poll
               PROVE  DerivedDone(derived', pass', states'.derived, value', library')
    BY <1>4 DEF DerivedDone
  <2>1. held = derived
    BY <1>1, DerivedBusy DEF Holding
  <2>2. \A i \in DSlots : i < pass.i => pass.values[i] = ValueIn(value, derived.slots[i])
    BY <1>1 DEF DerivedInv, DerivedGood, DerivedDone
  <2>3. alert = AlertIn(library, derived.suppressed, st)
    BY <2>1, DerivedReads
  <2> HIDE DEF held, st, alert
  <2>4. QED
    BY <1>1, <1>3, <1>4, <2>1, <2>2, <2>3 DEF DerivedDone
<1>8. DerivedFrame(derived', frames'.derived, states'.derived, value', library')
  BY <1>1, DerivedBusy DEF DerivedFrame
<1>9. QED
  BY <1>1, <1>5, <1>6, <1>7, <1>8 DEF DerivedInv, DerivedGood

\* The pass keeps what it has computed while it paints and stores.
LEMMA DerivedOnward ==
  ASSUME DerivedInv, UNCHANGED <<library, value, states, frames>>,
         pass.at \in {"repaint", "keep"}, pass'.at \in {"keep", "draw"},
         pass'.i = pass.i, pass'.clean = pass.clean, pass'.poll = pass.poll,
         pass'.values = pass.values, pass'.formula = pass.formula, pass'.alerts = pass.alerts,
         pass'.orphan = None <=> pass.orphan = None,
         derived'.shown = derived.shown, derived'.fresh = derived.fresh,
         derived'.edited = derived.edited, derived'.slots = derived.slots,
         derived'.formula = derived.formula, derived'.suppressed = derived.suppressed,
         pass.orphan # None => derived'.painted = derived.painted /\ derived'.text = derived.text,
         derived.shown => Coloured(derived', DerivedExpected(derived', pass')),
         pass'.at = "draw" /\ pass.orphan = None => derived'.current = pass.alerts[1]
  PROVE  DerivedInv'
<1>1. /\ pass.at \in DerivedStages /\ pass'.at \in DerivedStages
      /\ pass.at \notin {"gather", "finish"} /\ pass'.at \notin {"gather", "finish"}
  BY DEF DerivedStages
<1>2. DerivedMarks(derived', pass')
  BY DEF DerivedMarks
<1>3. DerivedPass(derived', pass')
  BY <1>1 DEF DerivedInv, DerivedGood, DerivedPass
<1>4. DerivedFrame(derived', frames'.derived, states'.derived, value', library')
  <2>1. ~Settled(derived')
    BY <1>1, DerivedBusy DEF Settled
  <2>2. QED
    BY <2>1 DEF DerivedFrame
<1>5. DerivedDone(derived', pass', states'.derived, value', library')
  <2> SUFFICES ASSUME pass.clean, pass.poll
               PROVE  DerivedDone(derived', pass', states'.derived, value', library')
    BY DEF DerivedDone
  <2>1. pass.orphan = None
    BY <1>1, DerivedBusy
  <2>2. /\ \A i \in DSlots : i < pass.i => pass.values[i] = ValueIn(value, derived.slots[i])
        /\ Len(Present(pass.values)) >= 2 /\ pass.formula = derived.formula
        /\ pass.alerts[1] = AlertIn(library, derived.suppressed, states.derived)
    BY <1>1 DEF DerivedInv, DerivedGood, DerivedDone
  <2>3. QED
    BY <2>1, <2>2 DEF DerivedDone
<1>6. QED
  BY <1>2, <1>3, <1>4, <1>5 DEF DerivedInv, DerivedGood

LEMMA DerivedRepainted ==
  ASSUME TypeOK, DerivedInv, RepaintDerived
  PROVE  DerivedInv'
<1> DEFINE alert   == Head(pass.alerts)
           repaint == derived.dirty \/ alert # Holding(derived).current
           mine    == pass.orphan = None
           drawn   == IF repaint /\ mine THEN [Painted(derived, alert) EXCEPT !.lost = {}]
                      ELSE derived
           tile    == IF repaint /\ ~mine THEN Painted(pass.orphan, alert) ELSE pass.orphan
           at      == IF repaint THEN "keep" ELSE "draw"
<1>1. /\ Parts /\ pass.at = "repaint" /\ derived \in DerivedType
      /\ UNCHANGED <<library, value, states, frames>>
  BY TypeParts DEF Parts, RepaintDerived, environment
<1>2. /\ alert = pass.alerts[1] /\ alert \in {None, Library}
      /\ pass \in PassType /\ PlaceOf(pass) /\ pass.at \in DerivedStages
  BY <1>1, HeadAlert
<1>3. /\ pass' = [pass EXCEPT !.at = at, !.orphan = tile]
      /\ derived' = [drawn EXCEPT !.dirty = FALSE]
  BY Zenon DEF RepaintDerived
<1>4. /\ pass'.at = at /\ pass'.orphan = tile
      /\ pass'.i = pass.i /\ pass'.clean = pass.clean /\ pass'.poll = pass.poll
      /\ pass'.values = pass.values /\ pass'.formula = pass.formula /\ pass'.alerts = pass.alerts
  <2> HIDE DEF at, tile
  <2>1. QED
    BY <1>2, <1>3 DEF PassType
<1>5. tile = None <=> pass.orphan = None
  <2>1. pass.orphan \in {None} \cup DerivedType
    <3> HIDE DEF CompositeType, DerivedType
    <3>1. QED
      BY <1>2 DEF PlaceOf
  <2>2. ~mine => Painted(pass.orphan, alert) \in DerivedType
    <3> HIDE DEF DerivedType, alert
    <3>1. QED
      BY <1>2, <2>1, PaintedType
  <2> HIDE DEF DerivedType, alert, repaint
  <2>3. QED
    BY <2>2, NoneAssumption
<1>6. /\ derived'.shown = derived.shown /\ derived'.fresh = derived.fresh
      /\ derived'.edited = derived.edited /\ derived'.slots = derived.slots
      /\ derived'.formula = derived.formula /\ derived'.suppressed = derived.suppressed
      /\ derived'.current = derived.current
      /\ IF repaint /\ mine THEN derived'.painted = alert /\ derived'.text = alert
         ELSE /\ derived'.painted = derived.painted /\ derived'.text = derived.text
              /\ derived'.lost = derived.lost
  <2>1. CASE repaint /\ mine
    <3>1. derived' = [derived EXCEPT !.painted = alert, !.text = alert, !.lost = {},
                                     !.dirty = FALSE]
      <4>1. drawn = [derived EXCEPT !.painted = alert, !.text = alert, !.lost = {}]
        BY <2>1 DEF Painted
      <4> HIDE DEF drawn, alert
      <4>2. QED
        BY <1>3, <4>1
    <3> HIDE DEF alert, repaint, drawn
    <3>2. QED
      BY <1>1, <2>1, <3>1 DEF DerivedType
  <2>2. CASE ~(repaint /\ mine)
    <3>1. derived' = [derived EXCEPT !.dirty = FALSE]
      BY <1>3, <2>2
    <3> HIDE DEF alert, repaint, drawn
    <3>2. QED
      BY <1>1, <2>2, <3>1 DEF DerivedType
  <2>3. QED
    BY <2>1, <2>2
<1>7. derived.shown => Coloured(derived, derived.current)
  BY <1>1 DEF DerivedInv, DerivedGood, DerivedMarks, DerivedExpected
<1>8. derived.shown => Coloured(derived', DerivedExpected(derived', pass'))
  <2>1. DerivedExpected(derived', pass') = IF repaint /\ mine THEN alert ELSE derived.current
    <3> HIDE DEF alert, repaint, drawn, tile
    <3>1. QED
      BY <1>2, <1>4, <1>5, <1>6 DEF DerivedExpected
  <2> HIDE DEF alert, repaint, drawn, mine
  <2>2. QED
    BY <1>6, <1>7, <2>1 DEF Coloured
<1>9. at = "draw" /\ mine => derived.current = alert
  BY DEF Holding
<1> HIDE DEF alert, repaint, drawn, tile
<1>10. pass'.at \in {"keep", "draw"} /\ (pass'.orphan = None <=> pass.orphan = None)
  BY <1>4, <1>5
<1>11. pass'.at = "draw" /\ pass.orphan = None => derived'.current = pass.alerts[1]
  BY <1>2, <1>4, <1>6, <1>9
<1>12. QED
  BY <1>1, <1>4, <1>6, <1>8, <1>10, <1>11, DerivedOnward

LEMMA DerivedStored ==
  ASSUME TypeOK, DerivedInv, StoreDerivedAlert
  PROVE  DerivedInv'
<1> DEFINE alert == Head(pass.alerts)
<1>1. /\ Parts /\ pass.at = "keep" /\ derived \in DerivedType
      /\ UNCHANGED <<library, value, states, frames>>
  BY TypeParts DEF Parts, StoreDerivedAlert, environment
<1>2. /\ alert = pass.alerts[1] /\ alert \in {None, Library}
      /\ pass \in PassType /\ PlaceOf(pass) /\ pass.at \in DerivedStages
  BY <1>1, HeadAlert
<1>3. /\ pass'.at = "draw" /\ pass'.orphan = pass.orphan
      /\ pass'.i = pass.i /\ pass'.clean = pass.clean /\ pass'.poll = pass.poll
      /\ pass'.values = pass.values /\ pass'.formula = pass.formula /\ pass'.alerts = pass.alerts
  BY <1>2 DEF StoreDerivedAlert, PassType
<1>4. CASE ~derived.shown
  <2>1. UNCHANGED derived
    BY <1>4 DEF StoreDerivedAlert
  <2>2. pass.orphan # None
    BY <1>2, <1>4, DerivedBusy
  <2>3. QED
    BY <1>1, <1>3, <1>4, <2>1, <2>2, DerivedOnward
<1>5. CASE derived.shown
  <2> DEFINE l == IF pass.orphan = None THEN derived.lost ELSE LostIf(alert # None)
  <2>1. derived' = [derived EXCEPT !.current = alert, !.lost = l]
    BY <1>5 DEF StoreDerivedAlert
  <2>2. /\ derived'.shown = derived.shown /\ derived'.fresh = derived.fresh
        /\ derived'.edited = derived.edited /\ derived'.slots = derived.slots
        /\ derived'.formula = derived.formula /\ derived'.suppressed = derived.suppressed
        /\ derived'.painted = derived.painted /\ derived'.text = derived.text
        /\ derived'.current = alert /\ derived'.lost = l
    <3> HIDE DEF alert, l
    <3>1. QED
      BY <1>1, <2>1 DEF DerivedType
  <2>3. DerivedExpected(derived', pass') = alert
    BY <1>3, <2>2 DEF DerivedExpected
  <2>4. Coloured(derived', alert)
    <3>1. CASE pass.orphan = None
      <4>1. Coloured(derived, alert)
        BY <1>1, <1>2, <1>5, <3>1 DEF DerivedInv, DerivedGood, DerivedMarks, DerivedExpected
      <4> HIDE DEF alert
      <4>2. QED
        BY <2>2, <3>1, <4>1 DEF Coloured
    <3>2. CASE pass.orphan # None
      <4>1. derived.painted = None /\ derived.text = None
        BY <1>2, <1>5, <3>2, DerivedBusy
      <4> HIDE DEF alert
      <4>2. QED
        BY <2>2, <3>2, <4>1 DEF Coloured, LostIf, Colors
    <3>3. QED
      BY <3>1, <3>2
  <2> HIDE DEF alert, l
  <2>5. QED
    BY <1>1, <1>2, <1>3, <2>2, <2>3, <2>4, DerivedOnward
<1>6. QED
  BY <1>4, <1>5

LEMMA DerivedDrawn ==
  ASSUME TypeOK, DerivedInv, DrawDerived
  PROVE  DerivedInv'
<1> DEFINE graph  == Holding(derived)
           result == computeDerived(pass.formula, Present(pass.values))
           shape  == [result |-> result, color |-> graph.painted, text |-> graph.text]
<1>1. /\ derived \in DerivedType /\ pass \in PassType /\ pass.at = "draw"
      /\ pass.at \in DerivedStages /\ pass' = Idle
      /\ UNCHANGED <<library, value, states>>
  BY DEF TypeOK, DrawDerived, environment, DerivedStages
<1>2. \/ UNCHANGED <<derived, frames>>
      \/ /\ frames' = [frames EXCEPT !.derived = shape]
         /\ derived' = IF derived.shown THEN StorePoll(derived) ELSE derived
  BY Zenon DEF DrawDerived
<1>3. pass'.at \notin DerivedStages /\ pass'.at # "keep"
  BY <1>1 DEF Idle, DerivedStages
<1>4. CASE UNCHANGED <<derived, frames>>
  BY <1>1, <1>3, <1>4, DerivedSame
<1>5. CASE /\ frames' = [frames EXCEPT !.derived = shape]
           /\ derived' = IF derived.shown THEN StorePoll(derived) ELSE derived
  <2>1. /\ derived'.shown = derived.shown /\ derived'.slots = derived.slots
        /\ derived'.formula = derived.formula /\ derived'.suppressed = derived.suppressed
        /\ derived'.current = derived.current /\ derived'.painted = derived.painted
        /\ derived'.text = derived.text /\ derived'.lost = derived.lost
        /\ derived.shown => /\ derived'.fresh = ~pass.poll
                            /\ derived'.edited <=> derived.edited /\ ~pass.clean
    BY <1>1, <1>5 DEF StorePoll, DerivedType
  <2>2. DOMAIN frames' = {"composite", "derived"} /\ frames'.derived = shape
    <3> HIDE DEF shape
    <3>1. QED
      BY <1>5 DEF DerivedInv
  <2>3. Coloured(derived, derived.current) \/ ~derived.shown
    BY <1>1 DEF DerivedInv, DerivedGood, DerivedMarks, DerivedExpected
  <2>4. DerivedMarks(derived', pass')
    <3>1. DerivedExpected(derived', pass') = derived.current
      BY <1>3, <2>1 DEF DerivedExpected
    <3>2. QED
      BY <2>1, <2>3, <3>1 DEF DerivedMarks, Coloured
  <2>5. ASSUME Settled(derived')
        PROVE  LET values == Present([i \in DSlots |-> ValueIn(value, derived.slots[i])])
                   a      == AlertIn(library, derived.suppressed, states.derived)
               IN  /\ Len(values) >= 2
                   /\ result = computeDerived(derived.formula, values)
                   /\ graph.painted = a \/ (a # None /\ "graph" \in derived.lost)
                   /\ graph.text = a \/ (a # None /\ "text" \in derived.lost)
    <3>1. derived.shown /\ pass.poll /\ pass.clean /\ pass.orphan = None
      BY <1>1, <2>1, <2>5, DerivedBusy DEF Settled
    <3>2. graph = derived
      BY <3>1 DEF Holding
    <3>3. /\ \A i \in DSlots : i < pass.i => pass.values[i] = ValueIn(value, derived.slots[i])
          /\ Len(Present(pass.values)) >= 2 /\ pass.formula = derived.formula
          /\ derived.current = AlertIn(library, derived.suppressed, states.derived)
      BY <1>1, <3>1 DEF DerivedInv, DerivedGood, DerivedDone
    <3>4. pass.values = [i \in DSlots |-> ValueIn(value, derived.slots[i])]
      <4>1. pass.i = Len(DerivedSlots) + 1 /\ Len(pass.values) = Len(DerivedSlots)
        <5>1. pass.i = Len(DerivedSlots) + 1 /\ Len(pass.values) = pass.i - 1
          BY <1>1 DEF TypeOK, InPlace
        <5>2. QED
          BY <5>1, SlotFacts
      <4>2. \A i \in DSlots : pass.values[i] = ValueIn(value, derived.slots[i])
        <5>1. \A i \in DSlots : i < pass.i
          BY <4>1, SlotFacts
        <5>2. QED
          BY <3>3, <5>1
      <4>3. pass.values \in [DSlots -> Int \cup {None}]
        <5>1. pass.values \in Seq(Int \cup {None})
          BY <1>1 DEF PassType
        <5>2. pass.values \in [1 .. Len(pass.values) -> Int \cup {None}]
          BY <5>1, LenProperties
        <5>3. QED
          BY <4>1, <5>2, SlotFacts
      <4>4. QED
        BY <4>2, <4>3
    <3>5. Coloured(derived, derived.current)
      BY <2>3, <3>1
    <3>6. result = computeDerived(derived.formula,
                     Present([i \in DSlots |-> ValueIn(value, derived.slots[i])]))
      BY <3>3, <3>4, Zenon
    <3>7. Len(Present([i \in DSlots |-> ValueIn(value, derived.slots[i])])) >= 2
      BY <3>3, <3>4
    <3> HIDE DEF result, graph
    <3>8. QED
      BY <3>2, <3>3, <3>5, <3>6, <3>7, Zenon DEF Coloured
  <2>6. DerivedFrame(derived', frames'.derived, states'.derived, value', library')
    <3>1. /\ frames'.derived.result = result /\ frames'.derived.color = graph.painted
          /\ frames'.derived.text = graph.text
      <4> HIDE DEF result, graph
      <4>1. QED
        BY <2>2
    <3> HIDE DEF result, graph
    <3>2. QED
      BY <1>1, <2>1, <2>5, <3>1 DEF DerivedFrame
  <2>7. QED
    BY <1>3, <2>2, <2>4, <2>6 DEF DerivedInv, DerivedGood, DerivedPass, DerivedDone
<1>6. QED
  BY <1>2, <1>4, <1>5

LEMMA DerivedTooFew ==
  ASSUME TypeOK, DerivedInv, TooFew
  PROVE  DerivedInv'
<1>1. /\ derived \in DerivedType /\ pass' = Idle /\ pass.at \in DerivedStages
      /\ pass.at = "finish"
      /\ \E b : derived' = [derived EXCEPT !.looked = b]
      /\ UNCHANGED <<value, library, states, frames>>
  BY DEF TypeOK, TooFew, environment, DerivedStages
<1>2. /\ derived'.shown = derived.shown /\ derived'.fresh = derived.fresh
      /\ derived'.edited = derived.edited /\ derived'.current = derived.current
      /\ derived'.painted = derived.painted /\ derived'.text = derived.text
      /\ derived'.lost = derived.lost
  BY <1>1 DEF DerivedType
<1>3. ~Settled(derived')
  BY <1>1, <1>2, DerivedBusy DEF Settled
<1>4. pass'.at \notin DerivedStages /\ pass'.at # "keep"
  BY <1>1 DEF Idle, DerivedStages
<1>5. DerivedMarks(derived', pass')
  <2>1. DerivedExpected(derived', pass') = DerivedExpected(derived, pass)
    BY <1>1, <1>2, <1>4 DEF DerivedExpected
  <2>2. QED
    BY <1>2, <2>1 DEF DerivedInv, DerivedGood, DerivedMarks, Coloured
<1>6. QED
  BY <1>1, <1>3, <1>4, <1>5 DEF DerivedInv, DerivedGood, DerivedPass, DerivedDone, DerivedFrame

\* An edit leaves the graph in the colours of the alert, and the text too or says
\* that it does not.
LEMMA DerivedTouched ==
  ASSUME TypeOK, DerivedInv, NEW d \in DerivedType, ChangeDerived(d),
         pass' = Touched(DerivedStages),
         d.shown = derived.shown, d.current = derived.current, d.painted = derived.painted,
         d.text \in {derived.text, None}, derived.lost \subseteq d.lost,
         d.text = derived.text \/ "text" \in d.lost
  PROVE  DerivedInv'
<1>1. /\ derived' = [d EXCEPT !.edited = TRUE, !.looked = FALSE]
      /\ UNCHANGED frames /\ pass \in PassType
  BY DEF ChangeDerived, TypeOK
<1>2. /\ derived'.shown = d.shown /\ derived'.edited /\ derived'.current = d.current
      /\ derived'.painted = d.painted /\ derived'.text = d.text /\ derived'.lost = d.lost
  BY <1>1 DEF DerivedType
<1>3. /\ pass'.at = pass.at /\ pass'.orphan = pass.orphan /\ pass'.alerts = pass.alerts
      /\ pass'.at \in DerivedStages => ~pass'.clean
  BY <1>1, TouchedPlace
<1>4. DerivedMarks(derived', pass')
  <2>1. DerivedExpected(derived', pass') = DerivedExpected(derived, pass)
    BY <1>2, <1>3 DEF DerivedExpected
  <2>2. derived.shown => Coloured(derived, DerivedExpected(derived, pass))
    BY DEF DerivedInv, DerivedGood, DerivedMarks
  <2>3. QED
    BY <1>2, <2>1, <2>2 DEF DerivedMarks, Coloured
<1>5. pass'.at \in DerivedStages =>
        /\ pass'.orphan = None => derived'.shown
        /\ derived'.shown /\ pass'.orphan # None =>
             derived'.painted = None /\ derived'.text = None
  BY <1>2, <1>3, DerivedBusy
<1>6. DerivedGood(derived', pass', frames'.derived, states'.derived, value', library')
  BY <1>2, <1>3, <1>4, <1>5, DerivedEdited
<1>7. QED
  BY <1>1, <1>6 DEF DerivedInv

\* A graph built anew: the pass that has fetched the old one keeps it.
LEMMA DerivedRebuilt ==
  ASSUME TypeOK, DerivedInv, rebuildDerivedGraph
  PROVE  DerivedInv'
<1> DEFINE l == IF derived.current = None THEN derived.lost ELSE Colors
           d == [derived EXCEPT !.painted = None, !.text = None,
                                !.lost = IF derived.current = None THEN @ ELSE Colors]
<1>1. /\ derived \in DerivedType /\ pass \in PassType /\ derived.shown
      /\ derived' = [d EXCEPT !.edited = TRUE, !.looked = FALSE] /\ UNCHANGED frames
      /\ pass' = Orphaned(DerivedStages, Fetched, derived)
  BY DEF TypeOK, rebuildDerivedGraph, ChangeDerived
<1>2. derived' = [derived EXCEPT !.painted = None, !.text = None, !.lost = l,
                                 !.edited = TRUE, !.looked = FALSE]
  BY <1>1
<1>3. /\ derived'.shown /\ derived'.edited /\ derived'.current = derived.current
      /\ derived'.painted = None /\ derived'.text = None /\ derived'.lost = l
  <2> HIDE DEF l, d
  <2>1. QED
    BY <1>1, <1>2 DEF DerivedType
<1>4. derived # None
  BY <1>1, NoneAssumption
<1>5. /\ pass'.at = pass.at /\ pass'.alerts = pass.alerts
      /\ pass'.at \in DerivedStages => ~pass'.clean
      /\ pass'.orphan = IF pass.at \in Fetched /\ pass.orphan = None THEN derived ELSE pass.orphan
  BY <1>1, OrphanedPlace
<1>6. DerivedExpected(derived', pass') = derived.current
  BY <1>3, <1>4, <1>5 DEF DerivedExpected, Fetched
<1>7. DerivedMarks(derived', pass')
  BY <1>3, <1>6 DEF DerivedMarks, Coloured, Colors
<1>8. DerivedGood(derived', pass', frames'.derived, states'.derived, value', library')
  BY <1>3, <1>5, <1>7, DerivedEdited
<1>9. QED
  BY <1>1, <1>8 DEF DerivedInv

LEMMA DerivedHandled ==
  ASSUME TypeOK, DerivedInv, DerivedHandlers \/ AnswerDerived
  PROVE  DerivedInv'
<1>1. derived \in DerivedType /\ derived.slots \in [DSlots -> DerivedSlotType]
      /\ derived.lost \in SUBSET Colors /\ derived.current \in {None, Library}
      /\ DOMAIN frames = {"composite", "derived"} /\ Parts
  BY TypeParts DEF Parts, DerivedType, DerivedInv
<1>2. ASSUME NEW d \in DerivedType, EditDerived(d),
             d.shown = derived.shown, d.current = derived.current,
             d.painted = derived.painted, d.text = derived.text, d.lost = derived.lost
      PROVE  DerivedInv'
  BY <1>2, DerivedTouched DEF EditDerived
<1>3. ASSUME NEW slots \in [DSlots -> DerivedSlotType],
             pass' = Touched(DerivedStages), ChangeDerived([derived EXCEPT !.slots = slots])
      PROVE  DerivedInv'
  <2> DEFINE d == [derived EXCEPT !.slots = slots]
  <2>1. d \in DerivedType /\ d.shown = derived.shown /\ d.current = derived.current
        /\ d.painted = derived.painted /\ d.text = derived.text /\ d.lost = derived.lost
    <3> HIDE DEF DerivedSlotType
    <3>1. QED
      BY <1>1 DEF DerivedType
  <2> HIDE DEF d
  <2>2. QED
    BY <1>3, <2>1, DerivedTouched DEF d
<1>4. ASSUME NEW S, handleDerivedSlotSensorSelect(S)
      PROVE  DerivedInv'
  <2>1. [i \in DSlots |-> IF i \in S THEN [reading |-> None, valid |-> FALSE]
                          ELSE derived.slots[i]] \in [DSlots -> DerivedSlotType]
    BY <1>1 DEF DerivedSlotType
  <2>2. QED
    BY <1>3, <1>4, <2>1 DEF handleDerivedSlotSensorSelect, EditDerived
<1>5. ASSUME NEW i \in DSlots, NEW s \in DerivedSlotType,
             pass' = Touched(DerivedStages), ChangeDerived([derived EXCEPT !.slots[i] = s])
      PROVE  DerivedInv'
  <2>1. [derived.slots EXCEPT ![i] = s] \in [DSlots -> DerivedSlotType]
    <3> HIDE DEF DerivedSlotType
    <3>1. QED
      BY <1>1, <1>5
  <2>2. [derived EXCEPT !.slots[i] = s]
          = [derived EXCEPT !.slots = [derived.slots EXCEPT ![i] = s]]
    OBVIOUS
  <2>3. QED
    BY <1>3, <1>5, <2>1, <2>2
<1>6. ASSUME NEW i \in DSlots, NEW r \in Readings, handleDerivedSlotReadingSelect(i, r)
      PROVE  DerivedInv'
  <2>1. [derived.slots[i] EXCEPT !.reading = r] \in DerivedSlotType
    BY <1>1 DEF DerivedSlotType
  <2>2. /\ pass' = Touched(DerivedStages)
        /\ ChangeDerived([derived EXCEPT !.slots[i] = [derived.slots[i] EXCEPT !.reading = r]])
    BY <1>6 DEF handleDerivedSlotReadingSelect
  <2>3. QED
    BY <1>5, <2>1, <2>2
<1>7. ASSUME NEW i \in DSlots, NEW r \in Readings, handleDerivedSlotApplyFavorite(i, r)
      PROVE  DerivedInv'
  <2>1. [reading |-> r, valid |-> TRUE] \in DerivedSlotType
    BY DEF DerivedSlotType
  <2>2. QED
    BY <1>5, <1>7, <2>1 DEF handleDerivedSlotApplyFavorite, EditDerived
<1>8. CASE AnswerDerived
  <2>1. CASE UNCHANGED <<environment, library, composite, derived, states, stored, frames, pass>>
    BY <1>1, <2>1, DerivedSame DEF environment
  <2>2. CASE /\ ChangeDerived([derived EXCEPT !.slots[handling[2]].valid = TRUE])
             /\ pass' = Touched(DerivedStages)
    <3>1. handling[2] \in DSlots
      BY <1>1, <1>8, HandlingParts DEF AnswerDerived
    <3>2. [derived.slots[handling[2]] EXCEPT !.valid = TRUE] \in DerivedSlotType
      BY <1>1, <3>1 DEF DerivedSlotType
    <3>3. QED
      BY <1>5, <2>2, <3>1, <3>2
  <2>3. QED
    BY <1>8, <2>1, <2>2 DEF AnswerDerived
<1>9. ASSUME NEW f \in Formulas, handleDerivedGlobalField(f)
      PROVE  DerivedInv'
  <2> DEFINE d == [derived EXCEPT !.formula = f]
  <2>1. d \in DerivedType /\ d.shown = derived.shown /\ d.current = derived.current
        /\ d.painted = derived.painted /\ d.text = derived.text /\ d.lost = derived.lost
    BY <1>1 DEF DerivedType
  <2>2. EditDerived(d)
    BY <1>9 DEF handleDerivedGlobalField
  <2> HIDE DEF d
  <2>3. QED
    BY <1>2, <2>1, <2>2
<1>10. CASE handleDerivedLoadPreset
  <2> DEFINE d == [derived EXCEPT !.formula = "delta", !.slots = DerivedSlots]
  <2>1. "delta" \in Formulas /\ DerivedSlots \in [DSlots -> DerivedSlotType]
    BY SlotFacts DEF Formulas
  <2>2. d \in DerivedType /\ d.shown = derived.shown /\ d.current = derived.current
        /\ d.painted = derived.painted /\ d.text = derived.text /\ d.lost = derived.lost
    <3> HIDE DEF DerivedSlotType, Formulas
    <3>1. QED
      BY <1>1, <2>1 DEF DerivedType
  <2>3. EditDerived(d)
    BY <1>10 DEF handleDerivedLoadPreset
  <2> HIDE DEF d
  <2>4. QED
    BY <1>2, <2>2, <2>3
<1>11. CASE handleDerivedTitleParametersDidChange
  <2> DEFINE d == [derived EXCEPT !.fresh = TRUE]
  <2>1. d \in DerivedType /\ d.shown = derived.shown /\ d.current = derived.current
        /\ d.painted = derived.painted /\ d.text = derived.text /\ d.lost = derived.lost
    BY <1>1 DEF DerivedType
  <2>2. EditDerived(d)
    BY <1>11 DEF handleDerivedTitleParametersDidChange
  <2> HIDE DEF d
  <2>3. QED
    BY <1>2, <2>1, <2>2
<1>12. CASE handleDerivedSuppressGlobal
  <2> DEFINE d == [derived EXCEPT !.suppressed = ~@, !.dirty = TRUE]
  <2>1. d \in DerivedType /\ d.shown = derived.shown /\ d.current = derived.current
        /\ d.painted = derived.painted /\ d.text = derived.text /\ d.lost = derived.lost
    BY <1>1 DEF DerivedType
  <2>2. EditDerived(d)
    BY <1>12 DEF handleDerivedSuppressGlobal
  <2> HIDE DEF d
  <2>3. QED
    BY <1>2, <2>1, <2>2
<1>13. CASE handleDerivedValueTextColor
  <2> DEFINE l == derived.lost \cup IF derived.text = None THEN {} ELSE {"text"}
             d == [derived EXCEPT !.text = None, !.lost = l]
  <2>1. l \in SUBSET Colors /\ derived.lost \subseteq l /\ (derived.text = None \/ "text" \in l)
    BY <1>1 DEF Colors
  <2>2. EditDerived(d)
    BY <1>13 DEF handleDerivedValueTextColor
  <2>3. d \in DerivedType /\ d.shown = derived.shown /\ d.current = derived.current
        /\ d.painted = derived.painted /\ d.text = None /\ d.lost = l
    <3> HIDE DEF DerivedSlotType, l, Colors
    <3>1. QED
      BY <1>1, <2>1 DEF DerivedType
  <2> HIDE DEF d, l
  <2>4. QED
    BY <2>1, <2>2, <2>3, DerivedTouched DEF EditDerived
<1>14. CASE rebuildDerivedGraph
  BY <1>14, DerivedRebuilt
<1>15. QED
  BY <1>4, <1>6, <1>7, <1>8, <1>9, <1>10, <1>11, <1>12, <1>13, <1>14 DEF DerivedHandlers

LEMMA DerivedOther ==
  ASSUME TypeOK, DerivedInv,
         markGlobalThresholdDirty \/ OnWillDisappearDerived \/ OnWillAppearDerived
  PROVE  DerivedInv'
<1>1. derived \in DerivedType /\ pass \in PassType
  BY DEF TypeOK
<1>2. CASE markGlobalThresholdDirty
  <2>1. /\ derived'.edited /\ derived'.shown = derived.shown
        /\ derived'.painted = derived.painted /\ derived'.text = derived.text
        /\ derived'.lost = derived.lost
        /\ derived'.current = derived.current /\ UNCHANGED frames
    BY <1>1, <1>2 DEF markGlobalThresholdDirty, DerivedType
  <2>2. /\ pass'.at = pass.at /\ pass'.orphan = pass.orphan /\ pass'.alerts = pass.alerts
        /\ pass'.at \in DerivedStages => ~pass'.clean
    BY <1>1, <1>2 DEF markGlobalThresholdDirty, Touched, PassType
  <2>3. DerivedMarks(derived', pass')
    <3>1. DerivedExpected(derived', pass') = DerivedExpected(derived, pass)
      BY <2>1, <2>2 DEF DerivedExpected
    <3>2. QED
      BY <2>1, <3>1 DEF DerivedInv, DerivedGood, DerivedMarks, Coloured
  <2>4. pass'.at \in DerivedStages =>
          /\ pass'.orphan = None => derived'.shown
          /\ derived'.shown /\ pass'.orphan # None =>
               derived'.painted = None /\ derived'.text = None
    BY <2>1, <2>2, DerivedBusy
  <2>5. DerivedGood(derived', pass', frames'.derived, states'.derived, value', library')
    BY <2>1, <2>2, <2>3, <2>4, DerivedEdited
  <2>6. QED
    BY <2>1, <2>5 DEF DerivedInv
<1>3. CASE OnWillDisappearDerived
  <2>1. ~derived'.shown /\ UNCHANGED frames
    BY <1>1, <1>3 DEF OnWillDisappearDerived, DerivedType
  <2>2. pass'.at \in DerivedStages => ~pass'.clean /\ pass'.orphan # None
    <3>1. derived # None /\ pass' = Orphaned(DerivedStages, DerivedStages, derived)
      BY <1>1, <1>3, NoneAssumption DEF OnWillDisappearDerived
    <3> HIDE DEF DerivedStages
    <3>2. QED
      BY <1>1, <3>1, OrphanedPlace
  <2>3. DerivedGood(derived', pass', frames'.derived, states'.derived, value', library')
    BY <2>1, <2>2, DerivedEdited DEF DerivedMarks
  <2>4. QED
    BY <2>1, <2>3 DEF DerivedInv
<1>4. CASE OnWillAppearDerived
  <2>1. /\ derived'.edited /\ derived'.painted = None /\ derived'.text = None
        /\ derived'.current # None => derived'.lost = Colors
        /\ UNCHANGED <<frames, pass>> /\ ~derived.shown
    BY <1>4 DEF OnWillAppearDerived, Derived, LostIf
  <2>2. pass'.at \in DerivedStages => ~pass'.clean /\ pass'.orphan # None
    BY <2>1, DerivedBusy
  <2>3. DerivedExpected(derived', pass') = derived'.current
    BY <2>2 DEF DerivedExpected, DerivedStages
  <2>4. DerivedMarks(derived', pass')
    BY <2>1, <2>3 DEF DerivedMarks, Coloured, Colors
  <2>5. DerivedGood(derived', pass', frames'.derived, states'.derived, value', library')
    BY <2>1, <2>2, <2>4, DerivedEdited
  <2>6. QED
    BY <2>1, <2>5 DEF DerivedInv
<1>5. QED
  BY <1>2, <1>3, <1>4

\* What happens to the composite tile leaves the derived tile, and a pass over it,
\* alone.
LEMMA CompositeHandlersEdit ==
  ASSUME CompositeHandlers
  PROVE  /\ pass' = Touched(CompositeStages)
         /\ UNCHANGED <<environment, library, derived, frames>>
         /\ \/ UNCHANGED states
            \/ \E i, id : states' = [states EXCEPT !.composite[i][id] = ZeroState]
<1>1. ASSUME NEW i, NEW s, NEW p, NEW mark, EditSlot(i, s, p, mark)
      PROVE  /\ pass' = Touched(CompositeStages)
             /\ UNCHANGED <<environment, library, derived, frames>>
  BY <1>1 DEF EditSlot
<1>2. ASSUME NEW i, NEW r, handleCompositeSlotReadingSelect(i, r)
      PROVE  /\ pass' = Touched(CompositeStages)
             /\ UNCHANGED <<environment, library, derived, frames, states>>
  BY <1>2 DEF handleCompositeSlotReadingSelect
<1>3. /\ pass' = Touched(CompositeStages)
      /\ UNCHANGED <<environment, library, derived, frames>>
  BY <1>1, <1>2, Zenon DEF CompositeHandlers, handleCompositeSlotSensorSelect,
     handleCompositeSlotField, handleCompositeAddThreshold,
     handleCompositeRemoveThreshold, handleCompositeReorderThreshold,
     handleCompositeThresholdUpdate, handleCompositeSlotSuppressGlobal
<1>4. \/ UNCHANGED states
      \/ \E i, id : states' = [states EXCEPT !.composite[i][id] = ZeroState]
  BY <1>2, Zenon DEF CompositeHandlers, handleCompositeSlotSensorSelect,
     handleCompositeSlotField, handleCompositeAddThreshold,
     handleCompositeRemoveThreshold, handleCompositeReorderThreshold,
     handleCompositeThresholdUpdate, handleCompositeSlotSuppressGlobal
<1>5. QED
  BY <1>3, <1>4

LEMMA DerivedLeftAlone ==
  ASSUME TypeOK, DerivedInv,
         \/ BeginComposite \/ EvaluateSlot \/ PaintSlot \/ StoreAlert \/ RenderComposite
         \/ CompositeHandlers \/ AnswerComposite \/ rebuildCompositeGraph
         \/ resetThresholdRuntimeState \/ OnWillDisappearComposite \/ OnWillAppearComposite
         \/ UNCHANGED vars
  PROVE  DerivedInv'
<1>1. /\ pass \in PassType /\ DOMAIN frames = {"composite", "derived"}
      /\ states \in [composite : [Slots -> [Ids -> StateType]], derived : StateType]
  BY DEF TypeOK, DerivedInv
<1>2. CASE \/ BeginComposite \/ EvaluateSlot \/ PaintSlot \/ StoreAlert \/ RenderComposite
  <2>1. UNCHANGED <<derived, value, library>>
    BY <1>2 DEF BeginComposite, EvaluateSlot, PaintSlot, StoreAlert, RenderComposite, environment
  <2>2. pass.at # "keep"
    BY <1>2 DEF BeginComposite, EvaluateSlot, PaintSlot, StoreAlert, RenderComposite
  <2>3. pass'.at \in {"derived", "slot", "paint", "store", "render"}
    <3>1. CASE BeginComposite \/ RenderComposite
      BY <3>1 DEF BeginComposite, RenderComposite, Derive, Idle
    <3>2. CASE EvaluateSlot \/ PaintSlot \/ StoreAlert
      BY <1>1, <3>2 DEF EvaluateSlot, NextSlot, PaintSlot, StoreAlert, PassType
    <3>3. QED
      BY <1>2, <3>1, <3>2
  <2>4. states'.derived = states.derived
    <3>1. UNCHANGED states \/ \E i, st : states' = [states EXCEPT !.composite[i] = st]
      BY <1>2, Zenon DEF BeginComposite, EvaluateSlot, PaintSlot, StoreAlert, RenderComposite
    <3>2. QED
      BY <1>1, <3>1
  <2>5. frames'.derived = frames.derived /\ DOMAIN frames' = DOMAIN frames
    <3>1. UNCHANGED frames \/ \E f : frames' = [frames EXCEPT !.composite = f]
      BY <1>2, Zenon DEF BeginComposite, EvaluateSlot, PaintSlot, StoreAlert, RenderComposite
    <3>2. QED
      BY <1>1, <3>1
  <2>6. pass'.at \notin DerivedStages
    BY <2>3 DEF DerivedStages
  <2>7. QED
    BY <2>1, <2>2, <2>4, <2>5, <2>6, DerivedSame
<1>3. CASE \/ CompositeHandlers \/ AnswerComposite \/ rebuildCompositeGraph
           \/ resetThresholdRuntimeState \/ OnWillDisappearComposite
  <2>1. /\ UNCHANGED <<derived, value, library, frames>>
        /\ \/ UNCHANGED pass \/ pass' = Touched(CompositeStages)
           \/ pass' = Orphaned(CompositeStages, CompositeStages, composite)
    BY <1>3, CompositeHandlersEdit DEF AnswerComposite, rebuildCompositeGraph,
             resetThresholdRuntimeState, OnWillDisappearComposite, environment
  <2>2. states'.derived = states.derived
    <3>1. \/ UNCHANGED states
          \/ \E i, id : states' = [states EXCEPT !.composite[i][id] = ZeroState]
          \/ \E st : states' = [states EXCEPT !.composite = st]
      BY <1>3, CompositeHandlersEdit, Zenon DEF AnswerComposite, rebuildCompositeGraph,
               resetThresholdRuntimeState, OnWillDisappearComposite
    <3>2. QED
      BY <1>1, <3>1
  <2>3. CompositeStages \cap DerivedStages = {}
    BY DEF CompositeStages, DerivedStages
  <2>4. \/ pass.at # "keep" /\ pass'.at \notin DerivedStages
        \/ /\ pass'.at = pass.at /\ pass'.i = pass.i /\ pass'.poll = pass.poll
           /\ pass'.values = pass.values /\ pass'.alerts = pass.alerts
           /\ pass'.formula = pass.formula
           /\ pass'.clean = pass.clean /\ pass'.orphan = pass.orphan
    <3> HIDE DEF CompositeStages
    <3>1. CASE pass.at \in CompositeStages
      <4>1. pass'.at = pass.at
        BY <1>1, <2>1, TouchedPlace, OrphanedPlace
      <4>2. QED
        BY <2>3, <3>1, <4>1 DEF DerivedStages, CompositeStages
    <3>2. CASE pass.at \notin CompositeStages
      <4>1. CASE UNCHANGED pass
        BY <4>1
      <4>2. CASE pass' = Touched(CompositeStages)
        <5>1. pass'.at = pass.at
          BY <1>1, <4>2, TouchedPlace
        <5>2. QED
          BY <1>1, <3>2, <4>2, <5>1, TouchedPlace
      <4>3. CASE pass' = Orphaned(CompositeStages, CompositeStages, composite)
        <5>1. pass'.at = pass.at
          BY <1>1, <4>3, OrphanedPlace
        <5>2. QED
          BY <1>1, <3>2, <4>3, <5>1, OrphanedPlace
      <4>4. QED
        BY <2>1, <4>1, <4>2, <4>3
    <3>3. QED
      BY <3>1, <3>2
  <2>5. QED
    BY <2>1, <2>2, <2>4, DerivedSame
<1>4. CASE OnWillAppearComposite \/ UNCHANGED vars
  <2>1. UNCHANGED <<derived, value, library, states, frames, pass>>
    BY <1>4 DEF OnWillAppearComposite, environment, vars
  <2>2. QED
    BY <2>1, DerivedSame
<1>5. QED
  BY <1>2, <1>3, <1>4

LEMMA DerivedKept ==
  ASSUME TypeOK, DerivedInv, [Next]_vars
  PROVE  DerivedInv'
<1>1. ASSUME NEW r \in Readings, NEW v \in (Levels[r] \cup {None}) \ {value[r]}, Publish(r, v)
      PROVE  DerivedInv'
  BY <1>1, DerivedPublished
<1>2. CASE Ticker
  BY <1>2, DerivedBegun, DerivedGathered, DerivedTooFew, DerivedFinished,
     DerivedRepainted, DerivedStored, DerivedDrawn, DerivedLeftAlone DEF Ticker
<1>3. CASE DerivedHandlers
  BY <1>3, DerivedHandled
<1>4. CASE \/ CompositeHandlers \/ OnWillDisappearComposite \/ OnWillAppearComposite
           \/ UNCHANGED vars
  BY <1>4, DerivedLeftAlone
<1>5. CASE Handling
  BY <1>5, DerivedHandled, DerivedLeftAlone DEF Handling
<1>6. CASE markGlobalThresholdDirty \/ OnWillDisappearDerived \/ OnWillAppearDerived
  BY <1>6, DerivedOther
<1>7. QED
  BY <1>1, <1>2, <1>3, <1>4, <1>5, <1>6 DEF Next

\* A derived tile that has been drawn from the last poll and under the settings it has
\* shows its formula of the values its slots have now, in the colours of the alert
\* that they raise (derived.go updateDerivedTile).
THEOREM ResultIsCurrent == Spec => []DerivedIsCurrent
<1>1. Init => TypeOK /\ DerivedInv
  BY InitialTypes, DerivedInitially
<1>2. TypeOK /\ DerivedInv /\ [Next]_vars => (TypeOK /\ DerivedInv)'
  BY TypesKept, DerivedKept
<1>3. DerivedInv => DerivedIsCurrent
  BY DerivedShown
<1>4. QED
  BY <1>1, <1>2, <1>3, PTL DEF Spec

=============================================================================
