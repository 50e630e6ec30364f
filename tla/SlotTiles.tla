----------------------------- MODULE SlotTiles ------------------------------
(***************************************************************************)
(* The two tiles made of several readings (composite.go, derived.go): a    *)
(* composite tile draws one graph and one text per slot, each slot with    *)
(* thresholds of its own; a derived tile shows a formula over its slots    *)
(* under the library's thresholds.  The ticker updates both tiles, slot by *)
(* slot and without a lock held over the whole update, while the event     *)
(* goroutine edits their settings, hides them and shows them again.        *)
(*                                                                         *)
(* A pass of the ticker holds pointers to the settings and graphs it       *)
(* started with: edits reach them, until the tile is hidden or its graph   *)
(* built anew, and the pass keeps an object that no map knows any more     *)
(* (its orphan).  The fetch of a graph and its painting, without a lock    *)
(* between them, are one step: a graph built anew in between is one built  *)
(* anew right after, for the pass paints the graph it has.                 *)
(*                                                                         *)
(* Thresholds here have no dwell and no cooldown, so evaluation needs no   *)
(* clock (ThresholdState has them); the library is one threshold for every *)
(* reading type, and not sticky, so that a derived tile shows what it has  *)
(* computed; a slot's unit, divisor, smoothing and format are left out.    *)
(***************************************************************************)
EXTENDS Thresholds, Sequences, SequencesExt, FiniteSetsExt

CONSTANTS
  Readings,         \* readings a slot may show
  Levels,           \* the values that each of them may have
  None,             \* no value, no reading, no threshold
  Library,          \* the library's threshold
  Config,           \* the settings of every threshold, Library included
  CompositeSlots,   \* the composite tile's stored settings
  DerivedSlots,     \* the derived tile's stored slots
  TileSets,         \* the tiles a user may have, of {"composite", "derived"}
  MaxPolls,         \* bound on polls that HWiNFO publishes
  MaxEdits          \* bound on what the user does

Ids    == DOMAIN Config
Own    == Ids \ {Library}
Slots  == DOMAIN CompositeSlots
DSlots == DOMAIN DerivedSlots

\* A composite slot's settings; a derived slot has the first two fields only.
SlotType == [reading : Readings \cup {None}, valid : BOOLEAN,
             list : {s \in Seq(Own) : IsInjective(s)},
             enabled : SUBSET Own, suppressed : BOOLEAN, current : Ids \cup {None}]
DerivedSlotType == [reading : Readings \cup {None}, valid : BOOLEAN]
Formulas == {"sum", "average", "max", "min", "delta", "pct"}

ASSUME ConfigAssumption ==
  /\ Library \in Ids /\ Config \in [Ids -> ThresholdType] /\ None \notin Ids
  /\ \A id \in Ids : Config[id].dwellMs <= 0 /\ Config[id].cooldownMs <= 0
  /\ ~Config[Library].sticky
ASSUME LevelsAssumption ==
  /\ None \notin Int /\ None \notin Readings
  /\ \A r \in Readings : Levels[r] \subseteq Int /\ Levels[r] # {}
ASSUME SlotsAssumption ==
  /\ CompositeSlots \in Seq(SlotType) /\ DerivedSlots \in Seq(DerivedSlotType)
  /\ CompositeSlots # <<>> /\ DerivedSlots # <<>>
  /\ TileSets \subseteq SUBSET {"composite", "derived"}

VARIABLES
  tiles,      \* the tiles on the user's pages
  value,      \* what getReading returns; None: the source or reading is gone
  library,    \* whether the library has its threshold
  composite,  \* compositeSettings and compositeStates of the tile
  derived,    \* derivedSettings and derivedStates of the tile
  states,     \* p.thresholdStates: of every composite slot, of the derived tile
  stored,     \* the settings of both tiles that Stream Deck keeps
  frames,     \* the last images of both tiles
  pass,       \* the ticker's place in updateAuxTiles
  handling,   \* what the event goroutine has still to do of a handler, and to which slot
  polls, edits

vars == <<tiles, value, library, composite, derived, states, stored, frames, pass,
          handling, polls, edits>>

\* What an alert colours of a derived tile, and what of it is lost if b.
Colors == {"graph", "text"}

LostIf(b) == IF b THEN Colors ELSE {}

\* shown: the maps have the tile; painted: the colours of its graphs, text
\* (derived): of the labels in it; fresh: the poll time is not lastPollTime;
\* dirty: p.thresholdDirty.  History -- edited: no update began and ended since
\* the last edit; lost: colours that are not those of the alert, because the
\* graph or the label was given its normal ones during it, or the alert came in
\* place of another; looked (derived): an update with fewer than two values saw
\* this very poll.
Composite(slots) ==
  [shown |-> "composite" \in tiles, slots |-> slots, fresh |-> TRUE, dirty |-> FALSE,
   painted |-> [i \in Slots |-> None], edited |-> TRUE,
   lost |-> [i \in Slots |-> slots[i].current # None]]

Derived(s) ==
  [shown |-> "derived" \in tiles, slots |-> s.slots, formula |-> s.formula,
   suppressed |-> s.suppressed, current |-> s.current, fresh |-> TRUE, dirty |-> FALSE,
   painted |-> None, text |-> None, edited |-> TRUE, lost |-> LostIf(s.current # None),
   looked |-> FALSE]

\* What a derived tile's SetSettings saves.
SavedDerived(d) ==
  [slots |-> d.slots, formula |-> d.formula, suppressed |-> d.suppressed, current |-> d.current]

Idle == [at |-> "idle", i |-> 1, force |-> FALSE, poll |-> TRUE, clean |-> TRUE,
         values |-> <<>>, formula |-> None, alerts |-> <<>>, orphan |-> None]

CompositeStages == {"slot", "paint", "store", "render"}
DerivedStages   == {"gather", "finish", "repaint", "keep", "draw"}
\* Those in which the pass has the derived tile's graph.
Fetched         == {"keep", "draw"}

CompositeType ==
  [shown : BOOLEAN, slots : [Slots -> SlotType], fresh : BOOLEAN, dirty : BOOLEAN,
   painted : [Slots -> Ids \cup {None}], edited : BOOLEAN, lost : [Slots -> BOOLEAN]]

DerivedSettings ==
  [slots : [DSlots -> DerivedSlotType], formula : Formulas, suppressed : BOOLEAN,
   current : {None, Library}]

DerivedType ==
  [shown : BOOLEAN, slots : [DSlots -> DerivedSlotType], formula : Formulas,
   suppressed : BOOLEAN, current : {None, Library}, fresh : BOOLEAN, dirty : BOOLEAN,
   painted : {None, Library}, text : {None, Library}, edited : BOOLEAN,
   lost : SUBSET Colors, looked : BOOLEAN]

ASSUME NoneAssumption == None \notin CompositeType /\ None \notin DerivedType

PassType ==
  [at : {"idle", "derived"} \cup CompositeStages \cup DerivedStages, i : Nat \ {0},
   force : BOOLEAN, poll : BOOLEAN, clean : BOOLEAN, values : Seq(Int \cup {None}),
   formula : Formulas \cup {None}, alerts : Seq(Ids \cup {None}),
   orphan : {None} \cup CompositeType \cup DerivedType]

HandlingType ==
  ({"reset"} \X Slots \X Own) \cup ({"ask", "rebuild"} \X Slots \X Readings)
  \cup ({"ask derived"} \X DSlots \X Readings)

\* A pass has a value for every slot it has left behind, and an alert for every
\* one it has evaluated; past the formula, the alert of the derived tile.
InPlace ==
  /\ pass.at \in CompositeStages =>
       /\ pass.orphan \in {None} \cup CompositeType
       /\ IF pass.at = "render" THEN pass.i = Len(CompositeSlots) + 1 ELSE pass.i \in Slots
       /\ Len(pass.values) = IF pass.at \in {"paint", "store"} THEN pass.i ELSE pass.i - 1
       /\ Len(pass.alerts) = Len(pass.values)
  /\ pass.at \in DerivedStages =>
       /\ pass.orphan \in {None} \cup DerivedType
       /\ IF pass.at = "gather" THEN pass.i \in DSlots ELSE pass.i = Len(DerivedSlots) + 1
       /\ Len(pass.values) = pass.i - 1
       /\ pass.at \notin {"gather", "finish"} =>
            Len(pass.alerts) = 1 /\ pass.alerts[1] \in {None, Library}

TypeOK ==
  /\ tiles \in TileSets
  /\ value \in [Readings -> Int \cup {None}]
  /\ library \in BOOLEAN
  /\ composite \in CompositeType /\ derived \in DerivedType
  /\ states \in [composite : [Slots -> [Ids -> StateType]], derived : StateType]
  /\ stored \in [composite : [Slots -> SlotType], derived : DerivedSettings]
  /\ pass \in PassType /\ InPlace
  /\ handling \in {None} \cup HandlingType

Init ==
  /\ tiles \in TileSets
  /\ value = [r \in Readings |-> CHOOSE v \in Levels[r] : TRUE]
  /\ library = TRUE
  /\ stored = [composite |-> CompositeSlots,
               derived   |-> [slots |-> DerivedSlots, formula |-> "average",
                              suppressed |-> FALSE, current |-> None]]
  /\ composite = Composite(stored.composite) /\ derived = Derived(stored.derived)
  /\ states = [composite |-> [i \in Slots |-> [id \in Ids |-> ZeroState]],
               derived   |-> ZeroState]
  /\ frames = [composite |-> None, derived |-> None]
  /\ pass = Idle /\ handling = None /\ polls = 0 /\ edits = 0

-----------------------------------------------------------------------------
(* HWiNFO and the bridge.                                                  *)

environment == <<tiles, value, polls>>

\* A poll in which one reading changes, or is gone, or is back.
Publish(r, v) ==
  /\ polls < MaxPolls /\ polls' = polls + 1
  /\ value' = [value EXCEPT ![r] = v]
  /\ composite' = [composite EXCEPT !.fresh = TRUE]
  /\ derived' = [derived EXCEPT !.fresh = TRUE, !.looked = FALSE]
  /\ pass' = [pass EXCEPT !.poll = pass.at = "idle"]
  /\ UNCHANGED <<tiles, library, states, stored, frames, handling, edits>>

-----------------------------------------------------------------------------
(* Thresholds of a slot and of the derived tile.                           *)

resolveThresholdsForEval(list, suppressed) ==
  list \o IF library /\ ~suppressed THEN <<Library>> ELSE <<>>

Setting(slot, id) ==
  IF id \in Own THEN [Config[id] EXCEPT !.enabled = @ /\ id \in slot.enabled] ELSE Config[id]

\* The runtime states of slot settings s after value v, and who alerts.
evaluateThresholds(s, v, old) ==
  [id \in Ids |-> IF id \in ToSet(resolveThresholdsForEval(s.list, s.suppressed))
                  THEN evaluateThresholdState(v, Setting(s, id), old[id], 1)
                  ELSE ZeroState]

\* The last match wins.
Winner(s, st) ==
  LET list == resolveThresholdsForEval(s.list, s.suppressed)
      last == SelectLastInSeq(list, LAMBDA id : Alerting(st[id]))
  IN  IF last = 0 THEN None ELSE list[last]

\* IsValid, sourceFreshForUID and getReading of a slot.
Available(s) == s.valid /\ s.reading # None /\ value[s.reading] # None

ValueOf(s) == IF Available(s) THEN value[s.reading] ELSE None

-----------------------------------------------------------------------------
(* The ticker: updateAuxTiles is the composite tile, then the derived one. *)

Holding(tile) == IF pass.orphan = None THEN tile ELSE pass.orphan

Derive == [Idle EXCEPT !.at = "derived"]

\* updateCompositeTile: the dirty mark is consumed whatever happens next.  The
\* tile may be left alone at any time: HWiNFO is gone or its poll time older
\* than five seconds, neither poll nor mark asks for an update, or the tile's
\* own update interval is not over.
BeginComposite ==
  /\ pass.at = "idle"
  /\ composite' = [composite EXCEPT !.dirty = @ /\ ~composite.shown]
  /\ \/ /\ composite.shown /\ (composite.dirty \/ composite.fresh)
        /\ pass' = [Idle EXCEPT !.at = "slot", !.force = composite.dirty]
     \/ pass' = Derive
  /\ UNCHANGED <<environment, library, derived, states, stored, frames, handling, edits>>

NextSlot(v, alert) ==
  [pass EXCEPT !.at = IF pass.i = Len(CompositeSlots) THEN "render" ELSE "slot",
               !.i = @ + 1, !.values = Append(@, v), !.alerts = Append(@, alert)]

\* One slot of the loop: a slot without a reading shows a dash and keeps its
\* alert; otherwise its thresholds are evaluated ...
EvaluateSlot ==
  LET s  == Holding(composite).slots[pass.i]
      st == evaluateThresholds(s, value[s.reading], states.composite[pass.i])
  IN  /\ pass.at = "slot"
      /\ IF ~Available(s)
         THEN pass' = NextSlot(None, None) /\ UNCHANGED states
         ELSE /\ states' = [states EXCEPT !.composite[pass.i] = st]
              /\ pass' = [pass EXCEPT !.at = "paint", !.values = Append(@, value[s.reading]),
                                      !.alerts = Append(@, Winner(s, st))]
      /\ UNCHANGED <<environment, library, composite, derived, stored, frames, handling, edits>>

\* Fault, for the sensitivity checks only: colours are painted for an alert but
\* not when it ends.
RepaintsOnAlert(s, alert) == alert # None

\* forceUpdate || (active != nil) != (slot.CurrentThresholdID != "")
Repaints(s, alert) == pass.force \/ (alert # None) # (s.current # None)

\* ... its graph is fetched and painted, one that the map has unless the tile was
\* hidden meanwhile ...
PaintSlot ==
  LET i       == pass.i
      current == composite.slots[i].current
      alert   == Last(pass.alerts)
      repaint == Repaints(composite.slots[i], alert)
  IN  /\ pass.at = "paint" /\ pass' = [pass EXCEPT !.at = "store"]
      /\ composite' =
           IF pass.orphan # None THEN composite
           ELSE [composite EXCEPT
                  !.painted[i] = IF repaint THEN alert ELSE @,
                  !.lost[i] = alert # None /\ ~repaint /\ (@ \/ alert # current)]
      /\ UNCHANGED <<environment, library, derived, states, stored, frames, handling, edits>>

\* ... and CurrentThresholdID stored, in the settings that the map has now.
StoreAlert ==
  LET i     == pass.i
      alert == Last(pass.alerts)
  IN  /\ pass.at = "store"
      /\ pass' = [pass EXCEPT !.at = IF i = Len(CompositeSlots) THEN "render" ELSE "slot",
                              !.i = @ + 1]
      /\ composite' =
           IF ~composite.shown THEN composite
           ELSE [composite EXCEPT
                  !.slots[i].current = alert,
                  !.lost[i] = IF pass.orphan = None THEN @ ELSE alert # None]
      /\ UNCHANGED <<environment, library, derived, states, stored, frames, handling, edits>>

\* Fault: a slot that is gone keeps the text it had.
RenderKeepsText ==
  [text |-> [i \in Slots |-> IF pass.values[i] # None \/ frames.composite = None
                             THEN pass.values[i] ELSE frames.composite.text[i]],
   color |-> [i \in Slots |-> pass.alerts[i]], graph |-> composite.painted]

\* renderCompositeTile: texts and their colours from the pass, graphs from the
\* tile as it is now.
renderCompositeTile ==
  [text |-> [i \in Slots |-> pass.values[i]],
   color |-> [i \in Slots |-> pass.alerts[i]], graph |-> composite.painted]

\* The image, which may fail to be sent; only a sent one counts as this poll's.
RenderComposite ==
  /\ pass.at = "render" /\ pass' = Derive
  /\ \/ UNCHANGED <<composite, frames>>
     \/ /\ composite.shown
        /\ frames' = [frames EXCEPT !.composite = renderCompositeTile]
        /\ composite' = [composite EXCEPT !.fresh = ~pass.poll,
                                          !.edited = @ /\ ~pass.clean]
  /\ UNCHANGED <<environment, library, derived, states, stored, handling, edits>>

-----------------------------------------------------------------------------
(* updateDerivedTile.                                                      *)

Total(values) == FoldLeft(LAMBDA a, b : a + b, 0, values)

Pct(values) ==
  LET rest == Total(Tail(values))
  IN  IF rest = 0 THEN 0 ELSE (values[1] * 100 * Scale) \div rest

computeDerived(formula, values) ==
  CASE formula = "sum"     -> Total(values)
    [] formula = "average" -> Total(values) \div Len(values)
    [] formula = "max"     -> Max(ToSet(values))
    [] formula = "min"     -> Min(ToSet(values))
    [] formula = "delta"   -> Last(values) - Head(values)
    [] formula = "pct"     -> Pct(values)

\* No dirty mark is asked here: without a new poll the tile waits; without
\* HWiNFO, or during its own update interval, it waits as well.
BeginDerived ==
  /\ pass.at = "derived"
  /\ \/ /\ derived.shown /\ derived.fresh
        /\ pass' = [Idle EXCEPT !.at = "gather"]
     \/ pass' = Idle
  /\ UNCHANGED <<environment, library, composite, derived, states, stored, frames,
                 handling, edits>>

\* One slot of the loop.
GatherSlot ==
  LET s == Holding(derived).slots[pass.i] IN
  /\ pass.at = "gather"
  /\ pass' = [pass EXCEPT !.at = IF pass.i = Len(DerivedSlots) THEN "finish" ELSE "gather",
                          !.i = @ + 1, !.values = Append(@, ValueOf(s))]
  /\ UNCHANGED <<environment, library, composite, derived, states, stored, frames,
                 handling, edits>>

\* What is not available does not feed the formula.
Present(values) == SelectSeq(values, LAMBDA v : v # None)

DerivedThresholds(d) == [list |-> <<>>, suppressed |-> d.suppressed]

\* Only the library reaches a derived tile.
DerivedEvaluated(d, result) ==
  evaluateThresholds(DerivedThresholds(d), result, [id \in Ids |-> states.derived])[Library]

DerivedAlert(d, st) == Winner(DerivedThresholds(d), [id \in Ids |-> st])

\* Fault: the poll that is current at the end is taken for the one that was read.
StoresLatestPoll(d) == [d EXCEPT !.fresh = FALSE, !.edited = @ /\ ~pass.clean]

\* The poll time read at the start is stored, in the state the map has now.
StorePoll(d) == [d EXCEPT !.fresh = ~pass.poll, !.edited = @ /\ ~pass.clean]

\* With fewer than two values the update returns: nothing is drawn, evaluated
\* or stored.
TooFew ==
  /\ pass.at = "finish" /\ Len(Present(pass.values)) < 2 /\ pass' = Idle
  /\ derived' = [derived EXCEPT !.looked = pass.poll /\ pass.clean /\ pass.orphan = None]
  /\ UNCHANGED <<environment, library, composite, states, stored, frames, handling, edits>>

\* Otherwise the library is evaluated ...
FinishDerived ==
  LET held   == Holding(derived)
      result == computeDerived(held.formula, Present(pass.values))
      st     == DerivedEvaluated(held, result)
  IN  /\ pass.at = "finish" /\ Len(Present(pass.values)) >= 2
      /\ pass' = [pass EXCEPT !.at = "repaint", !.formula = held.formula,
                              !.alerts = <<DerivedAlert(held, st)>>]
      /\ states' = [states EXCEPT !.derived = st]
      /\ UNCHANGED <<environment, library, composite, derived, stored, frames, handling, edits>>

Painted(d, alert) == [d EXCEPT !.painted = alert, !.text = alert]

\* ... the graph fetched, the mark consumed, and the graph painted if another alert
\* is up or the mark was set ...
RepaintDerived ==
  LET alert   == Head(pass.alerts)
      repaint == derived.dirty \/ alert # Holding(derived).current
      mine    == pass.orphan = None
      drawn   == IF repaint /\ mine THEN [Painted(derived, alert) EXCEPT !.lost = {}]
                 ELSE derived
  IN  /\ pass.at = "repaint"
      /\ pass' = [pass EXCEPT !.at = IF repaint THEN "keep" ELSE "draw",
                              !.orphan = IF repaint /\ ~mine THEN Painted(@, alert) ELSE @]
      /\ derived' = [drawn EXCEPT !.dirty = FALSE]
      /\ UNCHANGED <<environment, library, composite, states, stored, frames, handling, edits>>

\* ... which is stored, in the settings that the map has now ...
StoreDerivedAlert ==
  LET alert == Head(pass.alerts) IN
  /\ pass.at = "keep" /\ pass' = [pass EXCEPT !.at = "draw"]
  /\ derived' = IF ~derived.shown THEN derived
                ELSE [derived EXCEPT
                       !.current = alert,
                       !.lost = IF pass.orphan = None THEN @ ELSE LostIf(alert # None)]
  /\ UNCHANGED <<environment, library, composite, states, stored, frames, handling, edits>>

\* ... and the image of the result and of the graph that was fetched is sent, or not.
DrawDerived ==
  LET graph  == Holding(derived)
      result == computeDerived(pass.formula, Present(pass.values))
  IN
  /\ pass.at = "draw" /\ pass' = Idle
  /\ \/ UNCHANGED <<derived, frames>>
     \/ /\ frames' = [frames EXCEPT !.derived = [result |-> result, color |-> graph.painted,
                                                text |-> graph.text]]
        /\ derived' = IF derived.shown THEN StorePoll(derived) ELSE derived
  /\ UNCHANGED <<environment, library, composite, states, stored, handling, edits>>

-----------------------------------------------------------------------------
(* The event goroutine: edits of the composite tile.                       *)

\* What a change between two steps of a pass means to it (history only).
Touched(stages) == [pass EXCEPT !.clean = @ /\ pass.at \notin stages]

Edit == edits < MaxEdits /\ edits' = edits + 1 /\ handling = None

\* A handler leaves slot settings s at i, a graph painted p or as it was, and a
\* dirty mark or none, and saves everything.
EditSlot(i, s, p, mark) ==
  /\ Edit /\ composite.shown
  /\ composite' = [composite EXCEPT
       !.slots[i] = s, !.edited = TRUE, !.dirty = @ \/ mark, !.painted[i] = p,
       !.lost[i] = @ \/ p # composite.painted[i]]
  /\ stored' = [stored EXCEPT !.composite = composite'.slots]
  /\ pass' = Touched(CompositeStages)
  /\ UNCHANGED <<environment, library, derived, frames>>

handleCompositeSlotSensorSelect(i) ==
  /\ EditSlot(i, [composite.slots[i] EXCEPT !.reading = None, !.valid = FALSE],
              composite.painted[i], FALSE)
  /\ UNCHANGED <<states, handling>>

\* The reading is set before it is asked for ...
handleCompositeSlotReadingSelect(i, r) ==
  /\ Edit /\ composite.shown /\ composite.slots[i].reading # r
  /\ composite' = [composite EXCEPT !.slots[i].reading = r, !.edited = TRUE]
  /\ pass' = Touched(CompositeStages) /\ handling' = <<"ask", i, r>>
  /\ UNCHANGED <<environment, library, derived, states, stored, frames>>

\* ... and if the answer is an error, which an outage makes it for any reading, the
\* handler returns with the slot changed and not saved.
AnswerComposite ==
  /\ handling # None /\ handling[1] = "ask"
  /\ \/ /\ value[handling[3]] # None
        /\ composite' = [composite EXCEPT !.slots[handling[2]].valid = TRUE, !.edited = TRUE]
        /\ pass' = Touched(CompositeStages) /\ handling' = [handling EXCEPT ![1] = "rebuild"]
     \/ handling' = None /\ UNCHANGED <<composite, pass>>
  /\ UNCHANGED <<environment, library, derived, states, stored, frames, edits>>

rebuildCompositeGraph ==
  LET i == handling[2] IN
  /\ handling # None /\ handling[1] = "rebuild" /\ handling' = None
  /\ composite' = [composite EXCEPT !.painted[i] = None, !.edited = TRUE,
                                    !.lost[i] = @ \/ composite.painted[i] # None]
  /\ stored' = [stored EXCEPT !.composite = composite'.slots]
  /\ pass' = Touched(CompositeStages)
  /\ UNCHANGED <<environment, library, derived, states, frames, edits>>

\* A colour or the fill: the graph is built anew, in the normal colours.
handleCompositeSlotField(i) ==
  EditSlot(i, composite.slots[i], None, FALSE) /\ UNCHANGED <<states, handling>>

handleCompositeAddThreshold(i, id) ==
  /\ id \notin ToSet(composite.slots[i].list)
  /\ EditSlot(i, [composite.slots[i] EXCEPT !.list = Append(@, id), !.enabled = @ \cup {id}],
              composite.painted[i], TRUE)
  /\ UNCHANGED <<states, handling>>

\* A removed alert takes its colours along; no mark that the ticker reads is left.
handleCompositeRemoveThreshold(i, id) ==
  LET shownNow == composite.slots[i].current = id IN
  /\ \E k \in DOMAIN composite.slots[i].list :
       /\ composite.slots[i].list[k] = id
       /\ EditSlot(i, [composite.slots[i] EXCEPT !.list = RemoveAt(@, k),
                                                 !.current = IF shownNow THEN None ELSE @],
                   IF shownNow THEN None ELSE composite.painted[i], FALSE)
  /\ states' = [states EXCEPT !.composite[i][id] = ZeroState]
  /\ UNCHANGED handling

\* Fault: half a swap.
ReorderOverwrites(i, k) ==
  LET list == composite.slots[i].list IN
  /\ k \in 1..(Len(list) - 1)
  /\ EditSlot(i, [composite.slots[i] EXCEPT !.list = [list EXCEPT ![k] = list[k + 1]]],
              composite.painted[i], TRUE)
  /\ UNCHANGED <<states, handling>>

\* Up or down: two neighbours change places.
handleCompositeReorderThreshold(i, k) ==
  LET list == composite.slots[i].list IN
  /\ k \in 1..(Len(list) - 1)
  /\ EditSlot(i, [composite.slots[i] EXCEPT !.list = [list EXCEPT ![k] = list[k + 1],
                                                                 ![k + 1] = list[k]]],
              composite.painted[i], TRUE)
  /\ UNCHANGED <<states, handling>>

\* The tile is marked dirty before the runtime state is reset, so the ticker may
\* spend the mark on the old state.
handleCompositeThresholdUpdate(i, id) ==
  /\ id \in ToSet(composite.slots[i].list)
  /\ EditSlot(i, [composite.slots[i] EXCEPT
                    !.enabled = IF id \in @ THEN @ \ {id} ELSE @ \cup {id}],
              composite.painted[i], TRUE)
  /\ handling' = <<"reset", i, id>> /\ UNCHANGED states

resetThresholdRuntimeState ==
  /\ handling # None /\ handling[1] = "reset" /\ handling' = None
  /\ states' = [states EXCEPT !.composite[handling[2]][handling[3]] = ZeroState]
  /\ composite' = [composite EXCEPT !.edited = TRUE]
  /\ pass' = Touched(CompositeStages)
  /\ UNCHANGED <<environment, library, derived, stored, frames, edits>>

handleCompositeSlotSuppressGlobal(i) ==
  /\ EditSlot(i, [composite.slots[i] EXCEPT !.suppressed = ~@], composite.painted[i], TRUE)
  /\ UNCHANGED <<states, handling>>

-----------------------------------------------------------------------------
(* Edits of the derived tile.  None of them asks for an update before the  *)
(* next poll but those of title and font, which forget the poll time.      *)

ChangeDerived(d) ==
  /\ derived' = [d EXCEPT !.edited = TRUE, !.looked = FALSE]
  /\ UNCHANGED <<environment, library, composite, states, frames>>

EditDerived(d) ==
  /\ Edit /\ derived.shown /\ ChangeDerived(d)
  /\ pass' = Touched(DerivedStages) /\ UNCHANGED handling

SaveDerived == stored' = [stored EXCEPT !.derived = SavedDerived(derived')]

\* One slot, or every slot, gets another sensor.
handleDerivedSlotSensorSelect(S) ==
  /\ EditDerived([derived EXCEPT !.slots = [i \in DSlots |->
       IF i \in S THEN [reading |-> None, valid |-> FALSE] ELSE derived.slots[i]]])
  /\ SaveDerived

\* The reading is set before it is asked for ...
handleDerivedSlotReadingSelect(i, r) ==
  /\ Edit /\ derived.shown /\ derived.slots[i].reading # r
  /\ ChangeDerived([derived EXCEPT !.slots[i].reading = r])
  /\ pass' = Touched(DerivedStages) /\ handling' = <<"ask derived", i, r>>
  /\ UNCHANGED stored

\* ... and the slot is valid, and saved, only if there is an answer.
AnswerDerived ==
  /\ handling # None /\ handling[1] = "ask derived" /\ handling' = None
  /\ \/ /\ value[handling[3]] # None
        /\ ChangeDerived([derived EXCEPT !.slots[handling[2]].valid = TRUE])
        /\ SaveDerived /\ pass' = Touched(DerivedStages)
     \/ UNCHANGED <<environment, library, composite, derived, states, stored, frames, pass>>
  /\ UNCHANGED edits

handleDerivedSlotApplyFavorite(i, r) ==
  /\ EditDerived([derived EXCEPT !.slots[i] = [reading |-> r, valid |-> TRUE]])
  /\ SaveDerived

handleDerivedGlobalField(f) ==
  EditDerived([derived EXCEPT !.formula = f]) /\ SaveDerived

\* A preset brings its formula and all its slots; one preset is enough.
handleDerivedLoadPreset ==
  EditDerived([derived EXCEPT !.formula = "delta", !.slots = DerivedSlots]) /\ SaveDerived

\* A title or a font size.
handleDerivedTitleParametersDidChange ==
  EditDerived([derived EXCEPT !.fresh = TRUE]) /\ SaveDerived

\* What a pass under way goes on holding, from the first time that the maps let go
\* of it: of the whole tile, or of the graph it has fetched.
Orphaned(stages, holding, tile) ==
  [pass EXCEPT !.clean = @ /\ pass.at \notin stages,
               !.orphan = IF pass.at \in holding /\ @ = None THEN tile ELSE @]

\* A graph colour: the graph is built anew, in the normal colours.
rebuildDerivedGraph ==
  /\ Edit /\ derived.shown
  /\ ChangeDerived([derived EXCEPT !.painted = None, !.text = None,
                                   !.lost = IF derived.current = None THEN @ ELSE Colors])
  /\ SaveDerived /\ pass' = Orphaned(DerivedStages, Fetched, derived) /\ UNCHANGED handling

\* The colour of the value: its label has it at once, over an alert's too.
handleDerivedValueTextColor ==
  /\ EditDerived([derived EXCEPT !.text = None,
                                 !.lost = @ \cup IF derived.text = None THEN {} ELSE {"text"}])
  /\ SaveDerived

handleDerivedSuppressGlobal ==
  /\ EditDerived([derived EXCEPT !.suppressed = ~@, !.dirty = TRUE])
  /\ SaveDerived

-----------------------------------------------------------------------------
(* Edits of the library, and tiles hidden and shown.                       *)

\* markGlobalThresholdDirty marks the tiles that the maps have.
markGlobalThresholdDirty ==
  /\ Edit /\ library' = ~library
  /\ composite' = [composite EXCEPT !.dirty = @ \/ composite.shown, !.edited = TRUE]
  /\ derived' = [derived EXCEPT !.dirty = @ \/ derived.shown, !.edited = TRUE, !.looked = FALSE]
  /\ pass' = Touched(CompositeStages \cup DerivedStages)
  /\ UNCHANGED <<environment, states, stored, frames, handling>>

\* The runtime states of a composite tile go with it, those of a derived tile stay.
OnWillDisappearComposite ==
  /\ Edit /\ composite.shown
  /\ composite' = [composite EXCEPT !.shown = FALSE]
  /\ states' = [states EXCEPT !.composite = [i \in Slots |-> [id \in Ids |-> ZeroState]]]
  /\ pass' = Orphaned(CompositeStages, CompositeStages, composite)
  /\ UNCHANGED <<environment, library, derived, stored, frames, handling>>

OnWillDisappearDerived ==
  /\ Edit /\ derived.shown
  /\ derived' = [derived EXCEPT !.shown = FALSE]
  /\ pass' = Orphaned(DerivedStages, DerivedStages, derived)
  /\ UNCHANGED <<environment, library, composite, states, stored, frames, handling>>

\* New graphs in the normal colours; CurrentThresholdID is what was saved.
OnWillAppearComposite ==
  /\ "composite" \in tiles /\ ~composite.shown /\ handling = None
  /\ composite' = [Composite(stored.composite) EXCEPT !.dirty = composite.dirty]
  /\ UNCHANGED <<environment, library, derived, states, stored, frames, pass, handling, edits>>

OnWillAppearDerived ==
  /\ "derived" \in tiles /\ ~derived.shown /\ handling = None
  /\ derived' = [Derived(stored.derived) EXCEPT !.dirty = derived.dirty]
  /\ UNCHANGED <<environment, library, composite, states, stored, frames, pass, handling, edits>>

Ticker == BeginComposite \/ EvaluateSlot \/ PaintSlot \/ StoreAlert \/ RenderComposite
          \/ BeginDerived \/ GatherSlot \/ TooFew \/ FinishDerived \/ RepaintDerived
          \/ StoreDerivedAlert \/ DrawDerived

CompositeHandlers ==
  \E i \in Slots :
    \/ handleCompositeSlotSensorSelect(i) \/ handleCompositeSlotField(i)
    \/ handleCompositeSlotSuppressGlobal(i)
    \/ \E r \in Readings : handleCompositeSlotReadingSelect(i, r)
    \/ \E id \in Own : \/ handleCompositeAddThreshold(i, id)
                       \/ handleCompositeRemoveThreshold(i, id)
                       \/ handleCompositeThresholdUpdate(i, id)
    \/ \E k \in 1..Cardinality(Own) : handleCompositeReorderThreshold(i, k)

DerivedHandlers ==
  \/ \E i \in DSlots : \/ handleDerivedSlotSensorSelect({i})
                       \/ \E r \in Readings : \/ handleDerivedSlotReadingSelect(i, r)
                                              \/ handleDerivedSlotApplyFavorite(i, r)
  \/ handleDerivedSlotSensorSelect(DSlots)
  \/ \E f \in Formulas : handleDerivedGlobalField(f)
  \/ handleDerivedLoadPreset
  \/ handleDerivedTitleParametersDidChange \/ rebuildDerivedGraph
  \/ handleDerivedValueTextColor \/ handleDerivedSuppressGlobal

\* The rest of a handler.
Handling == \/ AnswerComposite \/ rebuildCompositeGraph \/ resetThresholdRuntimeState
            \/ AnswerDerived

Next ==
  \/ \E r \in Readings : \E v \in (Levels[r] \cup {None}) \ {value[r]} : Publish(r, v)
  \/ Ticker \/ CompositeHandlers \/ DerivedHandlers \/ Handling \/ markGlobalThresholdDirty
  \/ OnWillDisappearComposite \/ OnWillDisappearDerived
  \/ OnWillAppearComposite \/ OnWillAppearDerived

Spec == Init /\ [][Next]_vars

-----------------------------------------------------------------------------
(* A tile is settled when the ticker has drawn it from the last poll and   *)
(* from start to end under the settings it has.                            *)

Settled(tile) == tile.shown /\ ~tile.fresh /\ ~tile.edited

\* The frame of a settled composite tile has, for each slot, the value its
\* reading has now, or a dash when the reading is not available: no slot
\* freezes on a last value and no image of an older poll passes for the new one
\* (updateCompositeTile).
SlotsAreCurrent ==
  Settled(composite) =>
    \A i \in Slots :
      frames.composite.text[i] = ValueOf(composite.slots[i])

\* In the frame of a settled composite tile a slot has its text in the colours
\* of the alert it has, and its graph too unless the graph was given its normal
\* colours during the alert, or while the pass was about to store it, or the alert
\* came in place of another; a slot without an alert has neither
\* (updateCompositeTile, handleCompositeRemoveThreshold, rebuildCompositeGraph).
SlotColorsFollowAlert ==
  Settled(composite) =>
    \A i \in {j \in Slots : Available(composite.slots[j])} :
      LET alert == Winner(composite.slots[i], states.composite[i])
          frame == frames.composite
      IN  /\ frame.color[i] = alert /\ composite.slots[i].current = alert
          /\ frame.graph[i] = alert \/ (alert # None /\ composite.lost[i])

\* The frame of a settled derived tile has the formula's result over the values
\* its slots have now, in the colours of the library's alert if that result
\* raises it, in the graph and in the text, unless the graph was built anew or the
\* text given a colour meanwhile (updateDerivedTile).
DerivedIsCurrent ==
  Settled(derived) =>
    LET values == Present([i \in DSlots |-> ValueOf(derived.slots[i])])
        alert  == DerivedAlert(derived, states.derived)
        frame  == frames.derived
    IN  /\ Len(values) >= 2
        /\ frame.result = computeDerived(derived.formula, values)
        /\ frame.color = alert \/ (alert # None /\ "graph" \in derived.lost)
        /\ frame.text = alert \/ (alert # None /\ "text" \in derived.lost)

\* A derived tile whose sources are gone does not go on showing its last
\* result (README.md:78): an update that found them gone left no result.
DerivedDoesNotFreeze == derived.shown /\ derived.looked => frames.derived = None
=============================================================================
