# Verification of the HWiNFO Stream Deck plugin

TLA+ models of the plugin's own logic, TLC configurations that check them on
small instances, and TLAPS proofs of what matters most for every instance. The
code is Go; paths below are relative to
`src/internal/app/hwinfostreamdeckplugin/` unless they start with `src/`.

## 1. Inventory

### Goroutines and processes

| actor | code | what it does |
|---|---|---|
| event goroutine | `spawnMessageReader`, `src/pkg/streamdeck/streamdeck.go:152` | runs every handler of `delegate.go`, `handlers.go`, `dial.go`, ... one after the other |
| ticker goroutine | `actionManager.Run`, `action_manager.go:32` | once per interval `updateTiles` for each reading tile, then composite, derived and dial tiles |
| watchdog goroutine | `RunForever`, `plugin.go:407` | starts the bridge process and restarts it when it exits |
| `go p.restartBridge` | `delegate.go:499`, `composite.go:562`, `derived.go:468`, `dial.go:1306` | kills and launches the bridge when a Property Inspector gets no answer |
| bridge process | `src/cmd/hwinfo-bridge`, `src/internal/hwinfo/plugin` | reads HWiNFO's shared memory, answers over gRPC |
| Stream Deck, Property Inspector, HWiNFO | external | events, edits, readings |

Shared state is guarded by `Plugin.mu` (maps and caches), `actionManager.mux`
(actions), `bridgeRuntime.mu` (bridge) and `StreamDeck.writeMu` (socket), each
held for one access and none across a whole handler.

### Components

| component | state | operations | hard behaviour | correct when |
|---|---|---|---|---|
| threshold engine (`threshold_state.go`) | `thresholdRuntimeState` per context and threshold | evaluate, clear sticky, reset, snapshot | timers and flags with order-dependent tests, edits in between | alerts keep the promises of `src/README.md:57-66` |
| reading tile (`plugin.go updateTiles`, `handlers.go`, `delegate.go`) | settings, graph, dirty mark, last poll time, snooze | update, key press, Property Inspector edits, appear, disappear | skipped updates, outages, expiring snoozes | shows the last match, in its colours, muted when snoozed |
| bridge manager (`plugin.go`) | `rt.c`, `rt.hw`, `rt.peg` | launch, restart, watchdog, shutdown | two launchers, failures between steps, hangs | one live bridge, it comes back, the plugin stops |
| action manager (`action_manager.go`) | actions, lastRun, interval | SetAction, RemoveAction, tick, SetInterval | ticker and handlers write the same settings | no edit lost, removed tiles stay removed, newest interval wins |
| caches (`plugin.go:216-338`) | poll time, sources, divisors | get, invalidate | check-then-act, cached errors | no answer older than its time to live |
| bridge service (`src/internal/hwinfo/plugin/service.go`) | batch per source | recvBatch, look-ups | sources come and go, failed local read | a vanished remote is unavailable, not frozen |
| dial (`dial.go`) | pages, active index, overview, graphs per page | rotate, press, touch, update, settings | state keyed by page index, bring-to-front | the active page is the one shown and touched |
| composite (`composite.go`), derived (`derived.go`) | slots, graphs, threshold contexts | update, slot and threshold edits | dirty marks and contexts per slot | slot colours follow slot alerts |
| settings codec (`settings.go`) | none | decode, migrate | legacy formats | a legacy tile keeps its alerts |
| global settings, settings tile | interval, library, favourites | update, broadcast | writers on one goroutine, readers on two | every tile sees the library as it is |
| Stream Deck client, graph, shared memory, catalogue, Property Inspector pages | - | I/O, drawing, decoding, payloads | - | only the messages they exchange are modelled, see section 6 |

`PROJECT.json` lists the hazards with their lines and properties.

## 2. Plan

In the order of the modules; all but the last are done.

1. `Thresholds`, `Alarm`, `ThresholdState`: one threshold, the abstract alert and
   the proof that the engine implements it.
2. `TileAlerts`: a tile's list of thresholds, snooze and colours.
3. `Bridge`: the bridge process and its manager.
4. `ActionManager`: the ticker's and the handlers' interleaved writes of one
   tile's settings. Safety up to a named lost update, recovery after an outage
   under fairness.
5. `Sources`: HWiNFO's memory, the bridge's batch, the plugin's caches, the
   ticker and the freshness gate composed, with the promise of
   `src/README.md:78` end to end.
6. `GlobalSettings`: what all tiles share, in all its copies, and the channel
   that passes the poll rate to the ticker.
7. `Dial`: pages, active index, touch and bring-to-front.
8. `SlotTiles`: composite and derived tiles on top of `Thresholds`.
9. Left: the pure algorithms of `settings.go` (legacy migration), of the preset
   normalisation and of the dial's scales against reference definitions.

## 3. Modules and the code

**Thresholds** has the pure operators of `threshold_state.go` and
`evaluateThreshold`: one outcome of `evaluateThresholdState` is one operator
(`Deactivated`, `Activated`, `Dwelled`), the display snapshot is `Displayed`. A
value is an integer number of `1/Scale` units, so `Scale \div 2` is the 0.5 that
`==` rounds with and truncation toward zero is Go's `int(x)`. Instants are
positive integers; `NoTime` is the zero `time.Time`. The four `Latched*` fields
are written together and are one value.

**ThresholdState** drives one threshold, the tile's own or the library's
(`scope`): `updateTiles` (ticker or refresh), `OnKeyDown`, `handleThresholdUpdate`
(with and without its `SetSettings` failing), `handleGlobalThresholdUpdate` (the
runtime state stays, with a dwell that was served under the old settings),
`OnWillAppear` (also for disappearing). `matchedSince`, `quietUntil` and
`seen` are history: they record what was observed, from the readings and the
moments alerts end and not from the engine's timers; `era` changes whenever the
runtime state is dropped, so that a step of the ticker or of the key cannot pass
for a fresh start in the refinement.

**Alarm** is the abstract specification: an alert that is off, on, latched or
acknowledged, one `Observe` relation written from the README's promises, and
`Adjust`, an edit of the library, which the alert outlives.
`ThresholdState!ImplementsAlarm` instantiates it with the phase read off the
flags.

**TileAlerts** has the list (`resolveThresholdsForEval`), the last match, the
snooze presets and expiry, the dirty mark, `fresh` (the poll time differs from
the last one rendered), `CurrentThresholdID` and the colours painted on the
graph. Handlers that end with `refreshAction` apply `Updated` in the same step;
the others leave a dirty mark. The ticker and the handlers take turns here; the
interleaving inside `updateTiles` is in `ActionManager`. An update may end on an
outage or on a divisor that is not a number (`Undivided`), with the mark consumed; a
reading that is found again by its label counts as the reading. A tile with an
`UpdateIntervalOverrideMs` is one for which the ticker's step is not taken. Smoothing,
units and texts are left out; edits of the library are in `ThresholdState`. `painted`
is the threshold whose colours the graph has in full, or `None`. `lost` and `spent` are
history: an outage or a bad divisor consumed a dirty mark, or an edit of the tile's own
colours painted over the alert's, and no repaint followed (`lost`); a bad divisor
consumed the mark, and no update has got past it since, so that a new alert may not
have been looked at either (`spent`).

**ActionManager** has one tile and two threads, with a program counter each. An
update is `Start`, `Gate`, then `Down` or `Evaluate`, `Paint`, `Save`, `Draw` and
`Settle`: one step for each stretch of `updateTiles` between two effects that the
other thread can see. A handler copies the registered settings, changes and saves
the copy, then registers it. The settings are objects on a heap because that is
where the hazards are: `SetAction` publishes pointers, `getSettings` copies the
struct and shares the thresholds' array. Colours and all other fields are
revisions, so a lost edit is an old revision. `mishaps` is history:

- `overtaken`: a thread wrote settings, painted or sent an image although the
  other thread had done so since its update or handler began. The code then
  really loses one of the two writes (the hazard at `plugin.go:736`), and nothing
  is claimed from there on. Before that, and in every interleaving of the
  ticker's reads and evaluation with handlers' writes, everything is;
- `unmarked`: an outage consumed a dirty mark; the next repaint makes up for it;
- `unsaved`: `SetSettings` failed in the last edit; the next save makes up for it.

Left out: torn reads of a settings struct that two goroutines use, the label
fallback of `plugin.go:630-643`, failing `EncodePNG` and `SetImage`, and the
update interval override. The Property Inspector sends edits for a tile that is
shown.

**Bridge** has a program counter per goroutine and `mu`, the writer that holds
`rt.mu`. A launch is `Spawn` (exec), `Handshake` (and the job object, which may
fail silently), `Dispense`, with a failing variant of each; `astray` is history:
live processes the code forgets at its two known gaps.

**Sources** follows one machine, local or remote, to one tile, end to end: what
HWiNFO's memory says (`live`, `frozen`, `dead`, `gone`), the bridge's periodic
read and the batch it hands over, `Service.sources`, the plugin's cache with its
time to live, and two threads that look at the cache, call the bridge, store the
answer, and ask for the reading. A poll time is its age: that of a machine which is
polled is anything up to `Grain`, as `dwLastUpdate` counts whole seconds and HWiNFO
has a polling period of its own. Ages grow with `Tick`, which happens when nothing is left to do at the instant: the model is of
code that takes no time and of a bridge that answers at once or hangs. One
definition, `pollTimeForUID`, stands for both caches: for a remote machine the
value is the source's entry and its signature counts, for the local one the poll
time alone. `since` is history, the time since machine or bridge last changed.

**GlobalSettings** has Stream Deck's copy of the global settings, the plugin's
(`gs`) and two ordered channels between them; the Property Inspectors write
Stream Deck's copy and send requests. The event goroutine handles one message at
a time; a change of rate goes on in steps (`SetInterval`, `Send` or `Full`,
`Drain`, `Send`, then `Finish`) that interleave with the ticker's
(`Receive`, `Apply`). The presets a Property Inspector saves are those it last read,
which may be outdated, with the new one. Failing writes, a plugin that Stream Deck restarts and a
settings tile that is hidden and shown are included; the wait for a new id, names
and fields of thresholds, colours and fonts are abstracted to values. `crossed`
is history: a write passed another one, or failed, since the start.

**Dial** has `dial` (settings, graphs, overview of the shown dial), what is kept by
index (`latch`, `snooze`, `dirty`), the colours `painted` on each graph and two
goroutines in `updateDialFeedback`, one step per call of `updateDialPage` and per
effect. Settings and graphs are replaced by a handler while the ticker works on
them: it then goes on with a copy of its own (`own`), as the pointers it holds do,
which may still share graphs with the dial. The Property Inspector edits a copy of
the settings and sends all of them. Drawing (indicator, separators, stacked or
card layout), smoothing, units and the derived scales are left out; a page always
has a valid reading. Settings that arrive may change the default view, and with it the
view that is shown. Settings come for a dial that is shown, since its Property
Inspector is. `expected`, `lost` and `overtaken` are history, explained at
the properties that use them.

**SlotTiles** has both tiles made of several readings. The ticker updates the
composite tile slot by slot, each in three steps: evaluate, fetch and paint the graph,
store `CurrentThresholdID` in the settings that the map has by then. It draws the tile
and stores the poll time it began with. It then gathers the derived tile's values, and
in four more steps computes the formula and evaluates the library, repaints, stores the
alert, draws. Handlers come in between; a handler that chooses a reading sets it, asks
the bridge, and only then marks the slot valid and rebuilds its graph. A tile that is
hidden leaves the update with objects that no map has (`orphan`), and one that is shown
again has new ones. Resolving the library and evaluating are one step: an edit of the
library in between differs from one right before or after only in the moment. So are
fetching a graph and painting it: no lock is held between the two, but a pass that
paints a graph which was replaced after the fetch leaves the new one as it is, exactly
as if the replacement came right after the painting. The five-second gate, which these
tiles share with `Sources`, and the tile's own update interval are the choice to leave
a tile alone. The mode, the number of slots, units, divisors, formats and smoothing are
left out; an image may fail to be sent. The colours of the derived tile's graph and of
the value text in it are told apart, since `derived_valueTextColor` writes the latter
alone. `edited`, `lost` (of the graph, of the text) and `looked` are history.

`PROJECT.json` maps every definition to its lines. Definitions whose comment
starts with "Fault" are not part of the models: each is a plausible bug of the
definition it stands before, and the property it breaks is listed under
`mutants`.

## 4. Runs

| run | result | shows |
|---|---|---|
| `threshold` | pass | `MCThresholdState`, 8 settings covering every operator, negative and zero timers, sticky, for the tile's and the library's threshold: type, phases, timers, snapshot, hysteresis, end of ordinary alerts, refinement of `Alarm` |
| `threshold_flicker` | violation | an `==` alert with a hysteresis of 0.25 ends on a reading that raises it again |
| `tile` | pass | three thresholds, snooze, edits, outages, bad divisors: last match and its colours, a snooze ends with its alert and with its preset, sticky |
| `actions` | pass | ticker and handlers interleaved: edits kept, colours settle, a hidden tile is left alone |
| `actions_recovery` | pass | a shown tile leaves its placeholder once there are readings |
| `bridge` | pass | no bridge lost, it comes back, hung ones are replaced, shutdown completes |
| `sources` | pass | a machine that is gone leaves the tile within a read, a tick and a cache's life (five seconds more if only its poll time tells); one that is polled is on the tile as soon after the back-off |
| `settings` | pass | once messages and channel are empty, ticker, cache, settings and tile have the newest rate, plugin and Stream Deck the same settings, the settings tile its title |
| `settings_lost` | violation | choosing a poll rate, saving a preset or any write of the plugin drops what the writer does not know of the global settings |
| `dial` | pass | the strip settles on the active page in the colours of its alert, navigation is not overridden, what is saved is what is shown |
| `slots` | pass | a frame drawn from the last poll under the present settings has the present values, result, alerts |
| `derived_freeze` | violation | a derived tile whose sources are gone goes on showing its last result |

### Bounds

- Threshold and tile runs: the clock runs to 5 or 3 ticks, longer than the largest
  dwell (2) plus cooldown (2) plus the tick on which they end. Readings 1..5
  straddle the threshold 3 and both sides of every hysteresis boundary. The tile
  run has the two shapes of interaction (a plain threshold under a sticky one, a
  library one after both) and presets {none; 1 tick, until resumed}.
- Action runs: two user actions (one under fairness) with at most one edit of each
  kind: enough for an edit and a second handler, a key press or a hide during one
  update, and for an edit followed by hiding and showing again. Three settings
  objects, and three threshold arrays, are the registered one, the ticker's and the
  handler's; two graphs the ticker's and the tile's new one.
- Bridge run: one restart, one request and two faults, which reach every
  combination of a failed launch with a crash or a hang, and four identities,
  enough that a launch never waits for one. `CHECK_DEADLOCK FALSE`: the plugin
  ends.
- `sources`: a unit is the bridge's period (one second), and so is the grain of a poll
  time; intervals 1 and 2, with
  lives of the cache of 1, give ticks that hit and that miss the cache; two changes
  of HWiNFO and one fault are a loss and a return with a crash in between. The
  back-off of 3 (5 in the code) is longer than interval plus life, as the code's is.
- `settings`: two user actions, one crash and one failed write; two actions are two
  rates that race, an edit and an overwrite, a look and a title. Two rates, ids,
  values and looks are an old and a new one.
- `dial`: two pages, each coming to the front, one with a sticky alert and one with
  a snooze; each time it is shown the view is that of one page (a press or another
  default view makes it the overview); three user actions and two changes of readings, availability or a
  snooze's end: enough for an alert and its end around a rotation, an edit and a
  reorder during one pass of the ticker.
- `slots`: two polls and two edits; two slots for the composite tile, one with a
  plain and a sticky threshold, three for the derived one (delta and
  pct take the ends). One reading is below or at every limit, the other at the lowest
  one; either may be gone, and choosing the other for a slot moves the slot to it. The user has one of the tiles at a time, since they share only
  the readings and the library.

### Fairness

`Bridge!FairSpec`: weak fairness of each goroutine (the Go scheduler runs what is
runnable and `sync.RWMutex` starves no writer); none of requests, faults or the end
of the session. `ActionManager!FairSpec`: both goroutines run, and HWiNFO, which
publishes periodically, does so again; nothing of outages, edits or hiding. The
other modules state what must happen by a deadline (`Sources`) or once nothing
moves (`GlobalSettings`, `Dial`, `SlotTiles`) as invariants and need none.

### What the code does not keep

Three deviations have a run of their own: `threshold_flicker`, `settings_lost` and
`derived_freeze`. The
following are known from the models, excepted by name in a property or outside its
instance, and worth a look in the code:

- an edit of a library threshold keeps a dwell timer that ran under the old
  condition (`handlers.go:1072`; `matchedSince` runs on through it as well);
- at a poll rate of ten seconds a poll time may leave the cache older than the
  freshness gate allows, and a handler's refresh then shows a healthy tile as
  unavailable (`plugin.go:216`; outside `Prompt`, see section 5);
- a snooze pressed during an outage loses its dirty mark, as does any edit while the
  divisor is not a number, and a colour of the tile edited during an alert is painted
  over it (`plugin.go:598`, `plugin.go:654`, `handlers.go:366`; `TileAlerts`' `lost`
  and `spent`);
- on a tile with snooze presets, and on composite and derived tiles, no key press
  clears a sticky alert (`delegate.go:331-374`);
- a restart between the watchdog's look and its launch starts a second bridge
  (`plugin.go:410`; `Bridge`'s `astray`);
- an update and a handler that write over each other lose one of the writes
  (`plugin.go:736`; `ActionManager`'s `mishaps`);
- a write that crosses another, as the answer to the first request at the start
  may, leaves plugin and Stream Deck with different settings (`GlobalSettings`'
  `crossed`);
- a dial's graph that comes into force during an alert keeps the page's own
  colours; a rotation saves an index that bring-to-front has just replaced (`Dial`'s
  `lost` and `overtaken`);
- a composite slot's graph is not repainted when one alert replaces another, nor when
  it is rebuilt during an alert; a derived tile's value-text colour is painted over an
  alert's (`composite.go:488`, `derived.go:660`; `SlotTiles`' `lost`).

The hazards behind these exceptions are listed in `PROJECT.json` without a property,
as none would catch them.

Four more have no property, because neither code nor documentation says what is
right: a snooze of a dial that stays at its index when pages move (`dial.go:1346`), a dwell timer that runs on through an outage (`threshold_state.go:429`), a
bridge that survives a plugin which dies before the handshake puts it into the job
object (`plugin.go:143`), and a `delta` or `pct` over slots of which one in the
middle or at an end has no value (`derived.go:204`).

## 5. Proofs

Every safety theorem has the same shape: an inductive invariant, its initialisation,
one lemma per action or per group of alike actions, and the step from the invariant
to the property.

`ThresholdState_proofs` (for all `Configs`, `Values`, `MaxTime`; both scopes):

- `TypeCorrect`: `TypeOK` is inductive.
- `PhasesExclude`: `OnePhase` is inductive given `TypeOK`.
- `TimersTellTheTruth`: `TimersMatchHistory`, inductive together with the two above.
  It is what the refinement needs: the abstract alert knows when the run of matches
  began, the code only its timer.
- `Refinement`: every step is a step of `Alarm` or a stutter, by cases on the
  outcome of `evaluateThresholdState`.
- `SnapshotTellsTheWorst`: `SnapshotIsWorst` through `SnapshotInv`: a latched alert
  has frozen a value that was read since, and no worse one was, as "worse" is an order.
- `NoFlicker`: `EndsOnlyWhenConditionEnds`, for every operator but `==` and for `==`
  without a hysteresis, since there clearing excludes matching; the remaining case is
  the finding of `threshold_flicker`.
- `OrdinaryAlertsEnd`: `OrdinaryAlertEnds`, an action property, from the phases.

`TileAlerts_proofs` (for any library, variants of settings, readings and presets):

- `TypeCorrect`, `LastMatchShown`, `ColorsShown` and `NextAlertIsHeard` are read off
  one invariant, `Inv`: a tile without a dirty mark and with nothing new to render
  shows the last match of its runtime states, snoozes nothing when there is none, and
  has the colours of what it shows unless they were `lost` or the mark was `spent`; what
  is snoozed is snoozed for one of the presets; and what is latched can latch. A handler that cannot keep the first leaves the mark, so the lemma on
  `updateTiles` carries the argument.
- `StickyStays`: the action property `StickyStaysUntilCleared`, by going through what
  each handler does to the runtime states.

`ActionManager_proofs` (for any heap that `MemoryAssumption` finds large enough, any
bounds):

- `TypeCorrect` and `HiddenLeftAlone` from `Base`: which object, array and graph a
  thread may point to at each program counter, and that the settings a handler is
  filling are nobody else's.
- `NoEditIsLost`: `EditsKept` through `EditsInv`. The action that is registered has
  the newest fields and colours except between a handler's save and its `SetAction`;
  a ticker that nobody has overtaken works on that very object and its graph, so what
  it saves is not old; an edit under way has saved before it registers.
- `FrameAlwaysSettles`: `FrameSettles` through `FrameInv`, which says at each stage of
  an update what graph, `CurrentThresholdID` and image already agree on, and which of
  dirty mark, poll time and forced update will make up for the rest.

`Sources_proofs` (for any period, rates, limits and numbers of changes and faults):

- `TypeCorrect`, and `NeverFreezes`, `LossIsNoticed` and `KeepsUpWhenPrompt`. Each is
  a budget: what is in the bridge's batch, in `Service.sources`, in the cache and in
  a thread's hands is no newer (or, to keep up, no older) than the change plus the
  stages it has passed, and `Within` adds the tick that is still to come. `NewestInv`,
  that ages never decrease from HWiNFO's memory to the tile, is what keeping up rests
  on.
- `KeepsUpWhenPrompt` has a hypothesis, `Prompt`: for each rate, what is as old as the
  grain of the poll time, a read and the time to live of the cache can make it still
  counts as recent. It holds for the `sources` run and, with the part of a second that a
  poll time in whole seconds hides, for the rates 250 ms to 5 s of `settings_pi.html`;
  with an HWiNFO that polls every two seconds (a grain of three), for rates up to 2 s.
  For ten seconds it fails with any grain: the cache keeps a poll time for five seconds,
  a bridge's read makes it older than the five seconds of the gate, and a handler that
  refreshes a tile at that moment shows it as unavailable although the machine is
  polled. TLC finds that behaviour at `Period` 2, `Intervals` {20}, `Grain` 0, `Stale`
  and `Backoff` 10 (units of half a second).

`SlotTiles_proofs` (for any slots, thresholds and readings):

- `TypeCorrect`: a pass keeps its place (`InPlace`), which the edits that come in
  between do not disturb.
- `NoSlotFreezes` and `SlotColorsShown` through `CompositeInv`. A slot that is not
  `lost` has the colours of the alert that its settings name, and a dirty mark means
  that an edit has not been through an update (`CompositeMarks`; between painting and
  storing, the alert is the one the pass is about to store); an update that no
  edit has disturbed has the present values, alerts and colours of the slots it left
  behind (`CompositePass`), and the frame of a tile with nothing left to look at was
  drawn from them (`CompositeDone`, `CompositeFrame`).
- `ResultIsCurrent`: `DerivedIsCurrent` through `DerivedInv`, the same for the derived
  tile (`DerivedMarks`, `DerivedPass`, `DerivedDone`, `DerivedFrame`): the values
  gathered so far are the present ones, the formula and the alert once computed are
  those of the settings. `computeDerived` stands for
  any function of them.

`Bridge_proofs` (for any numbers of processes, restarts, requests and faults):

- `TypeCorrect`, and `NoBridgeIsLost` through `IInv`, which adds who holds the
  lock at each program counter, that a process being launched belongs to the
  holder, and that a restart past its kill has no live predecessor.

`GlobalSettings_proofs` (for any rates, thresholds, edits, crashes and failures, and
wires of any length):

- `TypeCorrect`: every message, copy and rate keeps its type, with the rates that
  the event goroutine and the ticker hold between two steps; no library gets two
  thresholds with one id.
- `OneRate`: `RateInForce` through `RateInv`. A rate is followed on its way: while no
  `SetInterval` is before its send, what is queued is the newest rate, or else what
  the ticker is applying is, or else the interval and the period are (`ChannelInv`);
  until the settings arrive nothing is on its way (`UnsetInv`); and whoever started
  to install a rate has already stored it or will when it ends (`KeptInv`).
- `RestsOnStored`: `AgreeAtRest` through `AgreeInv`. It looks at the last message on
  each wire that carries settings or asks for them: if it is the plugin's write, it
  is the plugin's copy and nothing crosses it; if nothing is on that wire, the last
  settings on the other are the store; if nothing is on either, the copies agree.
  `crossed` excuses every write for which this cannot hold.
- `TitleKept`: `TitlePersists` through `TitleInv`. Messages about the tile keep an
  order (`Orderly`): its appearance before all others, its end after them, since the
  tile is shown again only when those have arrived. So a change finds the tile in the
  plugin, with the title given last unless a later title is still on its way
  (`TitledInv`); and when no change is left on the way to the plugin, the last
  settings that Stream Deck will have heard of are the tile's (`StoredInv`).

`Dial_proofs` (for any pages, finitely many; any edits and readings):

- `TypeCorrect` from `Base`: the dial and the settings that goroutines still hold
  keep their type, no page is there twice and the active index is that of one; only
  the ticker works on settings no longer in force, and keeps its place in them.
- `SavedIsCurrent`: `SavedAgrees` through `SavedInv`: what is saved is the dial's
  settings, or an update that has moved the index `Owes` a save at its end, or a
  rotation is about to save, or outdated settings were saved over it.
- `StripIsRight`: `StripSettles`. `ColorsInv`: a graph has the colours of the alert
  that was shown last, unless a mark for its page is still there or it is `lost`.
  `PassInv`: an undisturbed update of the ticker has brought every page it has gone
  over up to date (`Done`), and its image shows the active page once it is past it.
  `StripInv` carries both over to the strip when the pass ends.
- `NavigationIsKept`: `NavigationHolds` through `ExpectInv`: the page expected is the
  active one, or a goroutine is about to bring it to the front, or its alert has begun
  and no update has seen it yet; and no other page is on its way there, as only an
  alert or a mark that an update has still to see brings one.

They rest on the named assumptions of the modules (`ConfigsAssumption`, ...): that
the constants have the types of what they stand for, that `None` is none of the
values it is told from (in `SlotTiles` also none of the tiles), for `Dial` that there are pages and finitely many of them,
and for `ActionManager` that memory does not run out. TLC evaluates them in the
runs; the invariants were run through TLC before they were proved.

Model-checked only:

- `BridgeComesBack`, `HungBridgeReplaced`, `ShutdownCompletes` and `Recovers`:
  liveness under fairness is out of the prover's reach;
- what `computeDerived` computes: it folds over its values, and what a fold returns
  for every input needs induction over data.

## 6. Not modelled

- The settings codec and legacy migration (`settings.go`): pure decoding of one
  value, tested in `settings_compat_test.go`.
- Graph rendering (`src/pkg/graph`), images and fonts, payload building for the
  Property Inspectors, gRPC and JSON encoding, the WebSocket: the models keep which
  colours a graph was given and which messages are sent.
- The Windows calls behind shared memory and mutexes: a reading or none. The job
  object is in `Bridge` as what it kills.
- The Property Inspector pages beyond what they write to global settings, the
  settings tile and the dial's settings: the requests they send.
- Units, divisors, number formats, smoothing and per-tile update intervals: they
  change the value shown, not when or whether it is shown, except the interval,
  which the models cover by leaving a tile alone.
- Mains, mock bridge, debugger, tests and examples: fixtures.
