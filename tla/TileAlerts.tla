----------------------------- MODULE TileAlerts -----------------------------
(***************************************************************************)
(* The alerts of one reading tile: its ordered list of thresholds followed *)
(* by the library's, of which the last match wins, the snooze presets its  *)
(* key steps through, the colours its graph is painted with, and the dirty *)
(* mark and poll time that decide whether the ticker looks at it at all    *)
(* (plugin.go updateTiles, threshold_state.go, delegate.go, handlers.go).  *)
(*                                                                         *)
(* Handlers and ticker take turns here.  The reading that HWiNFO publishes *)
(* is Unavailable when the bridge fails, HWiNFO is gone or its data is     *)
(* more than five seconds old.                                             *)
(***************************************************************************)
EXTENDS Thresholds, Sequences, SequencesExt

CONSTANTS
  Ids,            \* threshold ids, the tile's own and the library's
  Globals,        \* the library: a sequence of ids
  Variants,        \* for each id, the settings its threshold may have
  Values,         \* the readings HWiNFO may publish
  Unavailable,    \* no reading
  Presets,        \* the snooze presets a tile may have, in order, 0 the last
  None,           \* no threshold, and no snooze
  MaxTime         \* bound on the clock

ASSUME LibraryAssumption == Globals \in Seq(Ids)
ASSUME VariantsAssumption == \A id \in Ids : Variants[id] \subseteq ThresholdType
ASSUME ValuesAssumption == Values \subseteq Int
ASSUME PresetsAssumption == Presets \subseteq Seq(Nat)

VARIABLES
  now,
  published,      \* the last value HWiNFO published
  reading,        \* what a look at HWiNFO gives: that value, or Unavailable
  list,           \* settings.Thresholds, as ids
  config,         \* the settings of every threshold
  suppressed,     \* settings.SuppressedGlobalIDs
  presets,        \* settings.SnoozeDurations
  divides,        \* settings.Divisor is a number
  visible,        \* between OnWillAppear and OnWillDisappear
  tile            \* what the plugin keeps for the tile's context

vars == <<now, published, reading, list, config, suppressed, presets, divides, visible, tile>>

Own == Ids \ ToSet(Globals)

\* states: p.thresholdStates[context], where an absent state is the zero one;
\* snooze: p.thresholdSnoozes[context]; dirty: p.thresholdDirty[context];
\* fresh: the poll time differs from p.lastPollTime[context];
\* current: settings.CurrentThresholdID; painted: the colours of the graph;
\* lost is history: an outage consumed a dirty mark, or an edit painted over the
\* colours of the alert, and nothing repainted the graph since; spent too: without a
\* divisor an update consumed a dirty mark, and none has got any further since.
NewTile == [states  |-> [id \in Ids |-> ZeroState], snooze |-> None, dirty |-> FALSE,
            fresh |-> TRUE, current |-> None, painted |-> None,
            lost |-> FALSE, spent |-> FALSE]

TileType ==
  [states : [Ids -> StateType], snooze : {None} \cup [duration : Nat, until : Nat],
   dirty : BOOLEAN, fresh : BOOLEAN, current : Ids \cup {None},
   painted : Ids \cup {None}, lost : BOOLEAN, spent : BOOLEAN]

TypeOK ==
  /\ now \in Nat \ {0}
  /\ published \in Values \cup {Unavailable} /\ reading \in {published, Unavailable}
  /\ list \in Seq(Own) /\ IsInjective(list)
  /\ config \in [Ids -> ThresholdType] /\ \A id \in Ids : config[id] \in Variants[id]
  /\ suppressed \subseteq ToSet(Globals) /\ presets \in Presets
  /\ divides \in BOOLEAN /\ visible \in BOOLEAN
  /\ tile \in TileType

-----------------------------------------------------------------------------
(* Thresholds, last match wins.                                            *)

\* The tile's own thresholds and then the library's, without those that the tile
\* suppresses: which they are, and in which order.
resolveThresholdsForEval(own, off) == ToSet(own) \cup (ToSet(Globals) \ off)

Thresholds == resolveThresholdsForEval(list, suppressed)
Order      == list \o Globals

evaluateThresholds(states, cfg) ==
  [id \in Ids |-> IF id \in Thresholds
                  THEN evaluateThresholdState(reading, cfg[id], states[id], now)
                  ELSE ZeroState]

Matches(states, id) == id \in Thresholds /\ Alerting(states[id])

Winner(states) ==
  LET at == SelectLastInSeq(Order, LAMBDA id : Matches(states, id))
  IN  IF at = 0 THEN None ELSE Order[at]

(* Snooze.                                                                 *)

Expired(snooze) == snooze # None /\ snooze.duration > 0 /\ now >= snooze.until

SnoozeFor(d) == [duration |-> d, until |-> IF d > 0 THEN now + d ELSE NoTime]

\* currentThresholdSnooze, which forgets an expired snooze and marks the tile.
currentThresholdSnooze(t) ==
  IF Expired(t.snooze) THEN [t EXCEPT !.snooze = None, !.dirty = TRUE] ELSE t

\* The preset after the current one, None after the last.
nextThresholdSnoozeDuration(snooze) ==
  LET at == {i \in DOMAIN presets : snooze # None /\ presets[i] = snooze.duration}
  IN  IF at = {} THEN SnoozeFor(presets[1])
      ELSE LET i == CHOOSE i \in at : TRUE
           IN  IF i = Len(presets) THEN None ELSE SnoozeFor(presets[i + 1])

-----------------------------------------------------------------------------
(* updateTiles on a tile t.                                                *)

\* Faults, for the sensitivity checks only: no reading keeps the poll time; a
\* snooze ends at its deadline only; only another threshold makes the tile repaint.
UnavailableKeepsPollTime(t) == [t EXCEPT !.dirty = FALSE, !.lost = @ \/ t.dirty]

SnoozeUntilDeadline(t, active) == IF Expired(t.snooze) THEN None ELSE t.snooze

RepaintOnChange(t, snooze, active) == active # t.current

\* No reading: the dirty mark has been consumed and the poll time is forgotten.
showUnavailable(t) == [t EXCEPT !.dirty = FALSE, !.fresh = TRUE, !.lost = @ \/ t.dirty]

\* A divisor that is not a number: no colours, no alert and no poll time either.
Undivided(t) == [t EXCEPT !.dirty = FALSE, !.lost = @ \/ t.dirty, !.spent = @ \/ t.dirty]

\* An expired snooze is over, and so is one without an alert.
SnoozeAfter(t, active) ==
  IF active = None \/ Expired(t.snooze) THEN None ELSE t.snooze

\* forceUpdate || newThresholdID != s.CurrentThresholdID
Repaint(t, snooze, active) ==
  t.dirty \/ snooze # t.snooze \/ active # t.current

\* The update proper, under settings cfg of the thresholds.
Rendered(t, cfg) ==
  LET evaluated == evaluateThresholds(t.states, cfg)
      active    == Winner(evaluated)
      snooze    == SnoozeAfter(t, active)
      repaint   == Repaint(t, snooze, active)
      states    == [id \in Ids |-> IF id = active
                                   THEN Displayed(reading, cfg[id], evaluated[id])
                                   ELSE evaluated[id]]
  IN  [states  |-> states, snooze |-> snooze,
       dirty   |-> snooze # t.snooze, fresh |-> FALSE,
       current |-> IF repaint THEN active ELSE t.current,
       painted |-> IF ~repaint THEN t.painted
                   ELSE IF snooze = None THEN active ELSE None,
       lost    |-> t.lost /\ ~repaint, spent |-> FALSE]

Updated(t, cfg) ==
  IF reading = Unavailable THEN showUnavailable(t)
  ELSE IF ~t.dirty /\ ~t.fresh THEN t
  ELSE IF divides THEN Rendered(t, cfg)
  ELSE Undivided(t)

HWiNFO   == <<published, reading>>
Settings == <<list, config, suppressed, presets, divides, visible>>

updateTiles ==
  /\ visible
  /\ tile' = Updated(tile, config)
  /\ UNCHANGED <<now, HWiNFO, Settings>>

-----------------------------------------------------------------------------
(* The tile's key.                                                         *)

OnKeyDownSnooze ==
  /\ visible /\ tile.current # None /\ presets # <<>>
  /\ LET t == currentThresholdSnooze(tile)
     IN  tile' = Updated([t EXCEPT !.snooze = nextThresholdSnoozeDuration(t.snooze),
                                   !.dirty = TRUE], config)
  /\ UNCHANGED <<now, HWiNFO, Settings>>

\* Fault: the key clears every sticky alert of the tile.
OnKeyDownClearsAll ==
  /\ visible /\ tile.current # None /\ presets = <<>>
  /\ tile.states[tile.current].latched
  /\ tile' = Updated([tile EXCEPT
                !.states = [id \in Ids |-> clearStickyThresholdState(tile.states[id])],
                !.dirty = TRUE, !.current = None], config)
  /\ UNCHANGED <<now, HWiNFO, Settings>>

OnKeyDownClear ==
  /\ visible /\ tile.current # None /\ presets = <<>>
  /\ tile.states[tile.current].latched
  /\ LET s == clearStickyThresholdState(tile.states[tile.current])
     IN  tile' = Updated([tile EXCEPT !.states[tile.current] = s, !.dirty = TRUE,
                                      !.current = None], config)
  /\ UNCHANGED <<now, HWiNFO, Settings>>

OnKeyDown == OnKeyDownSnooze \/ OnKeyDownClear

-----------------------------------------------------------------------------
(* The Property Inspector.  Only some handlers end with a refresh; the     *)
(* others leave the work to the ticker.                                    *)

handleSnoozeDurations(ps) ==
  /\ visible
  /\ presets' = ps
  /\ LET t       == currentThresholdSnooze(tile)
         cleared == t.snooze # None /\ t.snooze.duration \notin ToSet(ps)
     IN  tile' = IF cleared THEN Updated([t EXCEPT !.snooze = None, !.dirty = TRUE], config)
                 ELSE t
  /\ UNCHANGED <<now, HWiNFO, list, config, suppressed, divides, visible>>

handleAddThreshold(id) ==
  /\ visible /\ id \in Own \ ToSet(list)
  /\ list' = Append(list, id)
  /\ tile' = [tile EXCEPT !.dirty = TRUE]
  /\ UNCHANGED <<now, HWiNFO, config, suppressed, presets, divides, visible>>

\* The removed threshold's colours go at once when it was the one shown.
handleRemoveThreshold(id) ==
  /\ visible /\ \E i \in DOMAIN list : list[i] = id /\ list' = RemoveAt(list, i)
  /\ tile' = [tile EXCEPT !.states[id] = ZeroState, !.dirty = TRUE,
                          !.current = IF @ = id THEN None ELSE @,
                          !.painted = IF tile.current = id THEN None ELSE @]
  /\ UNCHANGED <<now, HWiNFO, config, suppressed, presets, divides, visible>>

\* Fault: a move that overwrites instead of swapping.
ReorderOverwrites(i) ==
  /\ visible /\ i \in 2..Len(list)
  /\ list' = [list EXCEPT ![i - 1] = list[i]]
  /\ tile' = [tile EXCEPT !.dirty = TRUE]
  /\ UNCHANGED <<now, HWiNFO, config, suppressed, presets, divides, visible>>

\* "up" for the threshold at i, which is "down" for the one before it.
handleReorderThreshold(i) ==
  /\ visible /\ i \in 2..Len(list)
  /\ list' = [list EXCEPT ![i - 1] = list[i], ![i] = list[i - 1]]
  /\ tile' = [tile EXCEPT !.dirty = TRUE]
  /\ UNCHANGED <<now, HWiNFO, config, suppressed, presets, divides, visible>>

handleThresholdUpdate(id, c) ==
  /\ visible /\ id \in ToSet(list)
  /\ config' = [config EXCEPT ![id] = c]
  /\ tile' = Updated([tile EXCEPT !.states[id] = ZeroState, !.dirty = TRUE], config')
  /\ UNCHANGED <<now, HWiNFO, list, suppressed, presets, divides, visible>>

\* Its text and its colours: no reset, and the colours of the alert that is shown go
\* on the graph at once, snoozed or not, before the update that repaints it.
handleThresholdLook(id) ==
  /\ visible /\ id \in ToSet(list)
  /\ \/ tile' = [tile EXCEPT !.dirty = TRUE]
     \/ /\ tile.current = id
        /\ tile' = Updated([tile EXCEPT !.dirty = TRUE, !.painted = id], config)
  /\ UNCHANGED <<now, HWiNFO, Settings>>

\* "foreground", "background", ...: one of the tile's own colours goes on the
\* graph at once, whatever the graph shows; there is no dirty mark.
handleColorChange ==
  /\ visible
  /\ tile' = [tile EXCEPT !.painted = None, !.lost = @ \/ tile.painted # None]
  /\ UNCHANGED <<now, HWiNFO, Settings>>

\* Any text is stored, and nothing looks at it before the next update.
handleDivisor(number) ==
  /\ visible
  /\ divides' = number
  /\ UNCHANGED <<now, HWiNFO, list, config, suppressed, presets, visible, tile>>

handleSuppressGlobal(id) ==
  /\ visible /\ id \in ToSet(Globals) \ suppressed
  /\ suppressed' = suppressed \cup {id}
  /\ tile' = [tile EXCEPT !.dirty = TRUE]
  /\ UNCHANGED <<now, HWiNFO, list, config, presets, divides, visible>>

handleUnsuppressGlobal(id) ==
  /\ visible /\ id \in suppressed
  /\ suppressed' = suppressed \ {id}
  /\ tile' = [tile EXCEPT !.dirty = TRUE]
  /\ UNCHANGED <<now, HWiNFO, list, config, presets, divides, visible>>

-----------------------------------------------------------------------------
OnWillDisappear ==
  /\ visible
  /\ visible' = FALSE
  /\ tile' = [NewTile EXCEPT !.fresh = tile.fresh]
  /\ UNCHANGED <<now, HWiNFO, list, config, suppressed, presets, divides>>

\* A new graph in the normal colours and an empty CurrentThresholdID.
OnWillAppear ==
  /\ ~visible
  /\ visible' = TRUE
  /\ tile' = [NewTile EXCEPT !.fresh = tile.fresh, !.dirty = TRUE]
  /\ UNCHANGED <<now, HWiNFO, list, config, suppressed, presets, divides>>

Tick ==
  /\ now < MaxTime
  /\ now' = now + 1
  /\ UNCHANGED <<HWiNFO, Settings, tile>>

\* HWiNFO publishes a value under a new poll time.
Publish(v) ==
  /\ published' = v /\ reading' = v
  /\ tile' = [tile EXCEPT !.fresh = TRUE]
  /\ UNCHANGED <<now, Settings>>

\* HWiNFO or the bridge goes away, and comes back before the next poll.
Outage ==
  /\ reading # Unavailable
  /\ reading' = Unavailable
  /\ UNCHANGED <<now, published, Settings, tile>>

Restore ==
  /\ reading # published
  /\ reading' = published
  /\ UNCHANGED <<now, published, Settings, tile>>

Init ==
  /\ now = 1 /\ published = Unavailable /\ reading = Unavailable
  /\ list \in {<<>>} \cup {<<id>> : id \in Own}
  /\ config \in {c \in [Ids -> UNION {Variants[id] : id \in Ids}] :
                   \A id \in Ids : c[id] \in Variants[id]}
  /\ suppressed = {} /\ presets \in Presets /\ divides \in BOOLEAN
  /\ visible = FALSE /\ tile = NewTile

PropertyInspector ==
  \/ \E ps \in Presets : handleSnoozeDurations(ps)
  \/ \E id \in Ids : \/ handleAddThreshold(id)
                     \/ handleRemoveThreshold(id)
                     \/ \E c \in Variants[id] : handleThresholdUpdate(id, c)
                     \/ handleThresholdLook(id)
                     \/ handleSuppressGlobal(id)
                     \/ handleUnsuppressGlobal(id)
  \/ \E i \in DOMAIN list : handleReorderThreshold(i)
  \/ handleColorChange
  \/ \E number \in BOOLEAN : handleDivisor(number)

Next ==
  \/ Tick
  \/ \E v \in Values : Publish(v)
  \/ Outage \/ Restore
  \/ updateTiles
  \/ OnKeyDown
  \/ PropertyInspector
  \/ OnWillAppear \/ OnWillDisappear

Spec == Init /\ [][Next]_vars

-----------------------------------------------------------------------------
(* Properties.                                                             *)

\* The tile has nothing left to look at: what it shows is what it will show.
UpToDate == visible /\ reading # Unavailable /\ ~tile.dirty /\ ~tile.fresh /\ ~tile.spent

LastMatch(states, id) ==
  \/ id = None /\ \A other \in Thresholds : ~Alerting(states[other])
  \/ \E i \in DOMAIN Order :
       /\ id = Order[i] /\ Matches(states, id)
       /\ \A j \in i + 1 .. Len(Order) : ~Matches(states, Order[j])

\* README: "the last match wins".  A tile that is up to date shows the last of
\* its alerting thresholds, whatever edits of the list came in between.
LastMatchWins == UpToDate => LastMatch(tile.states, tile.current)

\* The graph has the colours of the alert that is shown and not snoozed, though
\* most updates do not repaint it, unless an outage swallowed the dirty mark or
\* an edit of the tile's own colours painted over them.
ColorsFollowAlert ==
  UpToDate /\ ~tile.lost => tile.painted = IF tile.snooze = None THEN tile.current ELSE None

\* A snooze outlives neither the alerts it silences nor its preset: the next alert is
\* heard, and a duration that was taken from the list silences nothing any more.
SnoozeEnds ==
  /\ UpToDate /\ tile.current = None => tile.snooze = None
  /\ tile.snooze # None => tile.snooze.duration \in ToSet(presets)

Latched(id) == tile.states[id].latched

\* README: a sticky alert "stays active until cleared manually": being hidden
\* behind a later match, reordered, snoozed or without a reading does not end
\* it, and the key clears the alert that is shown and no other.
StickyStaysUntilCleared ==
  [][\A id \in Ids : Latched(id) /\ ~Latched(id)' =>
       \/ tile.current = id /\ OnKeyDownClear
       \/ id \notin ToSet(list) \cup ToSet(Globals) \/ id \notin ToSet(list') \cup ToSet(Globals)
       \/ id \in suppressed
       \/ \E c \in Variants[id] : handleThresholdUpdate(id, c)
       \/ OnWillDisappear]_vars
=============================================================================
