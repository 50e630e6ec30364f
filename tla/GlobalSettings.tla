--------------------------- MODULE GlobalSettings ---------------------------
(***************************************************************************)
(* The settings that all tiles share - the poll rate, the library of       *)
(* thresholds, the favourites - and the settings tile.  Stream Deck stores *)
(* them; the Property Inspectors write there directly and also send their  *)
(* requests to the plugin, which keeps a copy (p.globalSettings) and       *)
(* writes all of it back.  Messages each way arrive in order, those of the *)
(* two ways cross.  The plugin's event goroutine handles one message at a  *)
(* time, and passes a new rate to the ticker's goroutine in a channel with *)
(* room for one (action_manager.go SetInterval, Run).                      *)
(*                                                                         *)
(* Whoever writes settings replaces them all, which is why the plugin      *)
(* repairs partial ones (delegate.go OnDidReceiveSettings).  There is one  *)
(* settings tile; the lists are sets.                                      *)
(***************************************************************************)
EXTENDS Integers, Sequences

CONSTANTS
  Rates, DefaultRate,   \* of the ticker, within the bounds of the code
  Ids, Values,          \* of library thresholds and of their settings
  Favorites, Presets,
  Titles, NoTitle,      \* of the settings tile, and its empty title
  Looks,                \* and the rest of its appearance
  None,                 \* an absent field, an empty channel, a hidden tile
  MaxEdits, MaxCrashes, MaxFailures   \* bounds on what the user does and what fails

ASSUME ValuesAssumption ==
  /\ DefaultRate \in Rates /\ NoTitle \in Titles /\ None \notin Rates \cup Titles
  /\ {} \notin {Ids, Values, Looks}
ASSUME BoundsAssumption == {MaxEdits, MaxCrashes, MaxFailures} \subseteq Nat

VARIABLES
  store,          \* Stream Deck's global settings
  savedTile,      \* Stream Deck's settings of the settings tile
  visible,        \* whether it shows the tile
  toPlugin, toStreamDeck,   \* messages under way
  gs,             \* p.globalSettings
  tile,           \* p.settingsContexts, and the rate drawn on the tile
  task,           \* of the event goroutine
  ttlRate,        \* the rate for which p.pollTimeCacheTTL was computed
  interval,       \* tm.updateInterval
  queued,         \* tm.intervalChan
  ticker,         \* the ticker's goroutine

  (* History and bounds.                                                   *)
  removed,        \* the library thresholds and favourites the user removed
  title,          \* the title the user gave the settings tile
  crossed,        \* whether writes have crossed or failed since the last start
  edits, crashes, failures

streamDeck == <<store, savedTile, visible>>
wires      == <<toPlugin, toStreamDeck>>
rates      == <<ttlRate, interval, queued, ticker>>
history    == <<removed, title>>
bounds     == <<edits, crashes, failures>>
vars == <<streamDeck, wires, gs, tile, task, rates, history, crossed, bounds>>

\* No two thresholds of a library have the same id.
Libraries == {l \in SUBSET [id : Ids, value : Values] : \A a, b \in l : a.id = b.id => a = b}

Settings == [rate : Rates \cup {None}, library : Libraries,
             favorites : SUBSET Favorites, presets : SUBSET Presets]
NoSettings == [rate |-> None, library |-> {}, favorites |-> {}, presets |-> {}]
Tiles == [title : Titles \cup {None}, look : Looks]

MessagesToPlugin ==
  [kind : {"settings"}, value : Settings] \cup [kind : {"rate"}, value : Rates]
  \cup [kind : {"remove"}, value : Ids] \cup [kind : {"update"}, value : [id : Ids, value : Values]]
  \cup [kind : {"toggle", "unfavorite"}, value : Favorites] \cup [kind : {"look"}, value : Looks]
  \cup [kind : {"appear", "tile"}, value : Tiles] \cup [kind : {"title"}, value : Titles]
  \cup [kind : {"add", "hide"}, value : {None}]

MessagesToStreamDeck ==
  [kind : {"settings"}, value : Settings] \cup [kind : {"tile"}, value : Tiles]
  \cup [kind : {"get"}, value : {None}]

\* No tile is not a tile.
ASSUME NoneAssumption ==
  None \notin [settings : [title : Titles, look : Looks], drawn : Rates]

Msg(kind, value) == [value |-> value, kind |-> kind]
Pending(wire, kinds) == \E i \in DOMAIN wire : wire[i].kind \in kinds

Rate(s) == IF s.rate = None THEN DefaultRate ELSE s.rate

\* Type invariant: the ids of a library stay unique, and the plugin has no presets.
TypeOK ==
  /\ store \in Settings /\ savedTile \in Tiles /\ visible \in BOOLEAN
  /\ toPlugin \in Seq(MessagesToPlugin) /\ toStreamDeck \in Seq(MessagesToStreamDeck)
  /\ gs \in Settings /\ gs.presets = {}
  /\ tile = None \/ tile \in [settings : [title : Titles, look : Looks], drawn : Rates]
  /\ task \in [pc : {"idle", "interval", "queue", "drain", "send", "finish"},
               rate : Rates \cup {None}, persist : BOOLEAN]
  /\ {ttlRate, interval} \subseteq Rates /\ queued \in Rates \cup {None}
  /\ ticker \in [pc : {"idle", "update", "apply"}, period : Rates, next : Rates \cup {None}]
  /\ removed \subseteq Ids \cup Favorites /\ title \in Titles /\ crossed \in BOOLEAN
  /\ edits \in 0..MaxEdits /\ crashes \in 0..MaxCrashes /\ failures \in 0..MaxFailures

Idle == [pc |-> "idle", rate |-> None, persist |-> FALSE]

NewTicker == [pc |-> "idle", period |-> DefaultRate, next |-> None]

FirstLibrary == {[id |-> CHOOSE i \in Ids : TRUE, value |-> CHOOSE v \in Values : TRUE]}

\* The plugin starts with what NewPlugin makes, asks for the global settings, and is
\* told of its tile.
Init ==
  /\ store \in {NoSettings} \cup
       {[rate |-> r, library |-> FirstLibrary, favorites |-> Favorites, presets |-> Presets] :
          r \in Rates}
  /\ title = NoTitle /\ savedTile = [title |-> NoTitle, look |-> CHOOSE l \in Looks : TRUE]
  /\ visible = TRUE
  /\ toPlugin = <<Msg("appear", savedTile)>>
  /\ toStreamDeck = <<Msg("get", None)>>
  /\ gs = NoSettings /\ tile = None /\ task = Idle
  /\ ttlRate = DefaultRate /\ interval = DefaultRate /\ queued = None /\ ticker = NewTicker
  /\ removed = {} /\ crossed = FALSE /\ edits = 0 /\ crashes = 0 /\ failures = 0

-----------------------------------------------------------------------------
(* Stream Deck, which also restarts the plugin when it crashes.            *)

Deliver ==
  /\ toStreamDeck # <<>>
  /\ toStreamDeck' = Tail(toStreamDeck)
  /\ LET m == Head(toStreamDeck)
     IN  CASE m.kind = "get" ->
                /\ toPlugin' = Append(toPlugin, Msg("settings", store))
                /\ UNCHANGED streamDeck
           [] m.kind = "settings" ->
                store' = m.value /\ UNCHANGED <<savedTile, visible, toPlugin>>
           [] m.kind = "tile" ->
                savedTile' = m.value /\ UNCHANGED <<store, visible, toPlugin>>
  /\ UNCHANGED <<gs, tile, task, rates, history, crossed, bounds>>

Crash ==
  /\ crashes < MaxCrashes /\ crashes' = crashes + 1
  /\ gs' = NoSettings /\ tile' = None /\ task' = Idle
  /\ ttlRate' = DefaultRate /\ interval' = DefaultRate /\ queued' = None /\ ticker' = NewTicker
  /\ toPlugin' = IF visible THEN <<Msg("appear", savedTile)>> ELSE <<>>
  /\ toStreamDeck' = Append(toStreamDeck, Msg("get", None))
  /\ crossed' = FALSE
  /\ UNCHANGED <<streamDeck, history, edits, failures>>

-----------------------------------------------------------------------------
(* The user, in a Property Inspector or in Stream Deck.                    *)

Edit == edits < MaxEdits /\ edits' = edits + 1

\* A Property Inspector writes s over the global settings, and Stream Deck tells the
\* plugin before what follows.
Overwrite(s, follows) ==
  /\ Edit
  /\ store' = s
  /\ toPlugin' = Append(toPlugin, Msg("settings", s)) \o follows
  /\ crossed' = (crossed \/ Pending(toStreamDeck, {"settings"}))
  /\ UNCHANGED <<savedTile, visible, toStreamDeck, gs, tile, task, rates, history, crashes, failures>>

\* settings_pi.js: the rate alone.
ChangeRate(r) == Overwrite([NoSettings EXCEPT !.rate = r], <<Msg("rate", r)>>)

\* derived_pi.js: the presets alone, as the inspector last read them and its new one:
\* others may have been stored, or lost, since.
SavePreset(allPresets) == Overwrite([NoSettings EXCEPT !.presets = allPresets], <<>>)

\* A request to the plugin.
Request(m) ==
  /\ Edit
  /\ toPlugin' = Append(toPlugin, m)
  /\ UNCHANGED <<streamDeck, toStreamDeck, gs, tile, task, rates, history, crossed, crashes,
                 failures>>

\* The tile's settings without its title, and again for the plugin.
SaveLook(l) ==
  /\ Edit /\ visible
  /\ savedTile' = [title |-> None, look |-> l]
  /\ toPlugin' = toPlugin \o <<Msg("tile", savedTile'), Msg("look", l)>>
  /\ UNCHANGED <<store, visible, toStreamDeck, gs, tile, task, rates, history, crossed,
                 crashes, failures>>

SetTitle(t) ==
  /\ Edit /\ visible
  /\ title' = t
  /\ toPlugin' = Append(toPlugin, Msg("title", t))
  /\ UNCHANGED <<streamDeck, toStreamDeck, gs, tile, task, rates, removed, crossed, crashes,
                 failures>>

Hide ==
  /\ Edit /\ visible
  /\ visible' = FALSE
  /\ toPlugin' = Append(toPlugin, Msg("hide", None))
  /\ UNCHANGED <<store, savedTile, toStreamDeck, gs, tile, task, rates, history, crossed,
                 crashes, failures>>

\* The user is slower than messages about the tile.
Show ==
  /\ ~visible /\ ~Pending(toPlugin \o toStreamDeck, {"tile", "look", "title", "hide"})
  /\ visible' = TRUE
  /\ toPlugin' = Append(toPlugin, Msg("appear", savedTile))
  /\ UNCHANGED <<store, savedTile, toStreamDeck, gs, tile, task, rates, history, crossed, bounds>>

User ==
  \/ \E r \in Rates : ChangeRate(r)
  \/ \E p \in Presets, read \in SUBSET Presets : SavePreset(read \cup {p})
  \/ Request(Msg("add", None))
  \/ \E i \in Ids : Request(Msg("remove", i))
  \/ \E i \in Ids, v \in Values : Request(Msg("update", [id |-> i, value |-> v]))
  \/ \E f \in Favorites : Request(Msg("toggle", f)) \/ Request(Msg("unfavorite", f))
  \/ \E l \in Looks : SaveLook(l)
  \/ \E t \in Titles : SetTitle(t)
  \/ Hide \/ Show

-----------------------------------------------------------------------------
(* The event goroutine.                                                    *)

\* updateSettingsTile: the rate of the settings, or of the ticker before they arrive.
Drawn(t, g) ==
  IF t = None THEN None
  ELSE [t EXCEPT !.drawn = IF g.rate = None THEN interval ELSE g.rate]

\* SetGlobalSettings(g); a failure is logged.
SetGlobalSettings(g) ==
  \/ /\ toStreamDeck' = Append(toStreamDeck, Msg("settings", g))
     /\ crossed' = (crossed \/ Pending(toPlugin', {"settings"})
                            \/ Pending(toStreamDeck, {"get"}))
     /\ UNCHANGED failures
  \/ /\ failures < MaxFailures /\ failures' = failures + 1
     /\ crossed' = TRUE
     /\ UNCHANGED toStreamDeck

Quietly == UNCHANGED <<toStreamDeck, crossed, failures>>

OnDidReceiveGlobalSettings(s) ==
  /\ gs' = [s EXCEPT !.rate = Rate(s), !.presets = {}]
  /\ IF gs'.rate # gs.rate
     THEN /\ ttlRate' = gs'.rate
          /\ task' = [pc |-> "interval", rate |-> gs'.rate, persist |-> FALSE]
          /\ UNCHANGED tile
     ELSE tile' = Drawn(tile, gs') /\ UNCHANGED <<ttlRate, task>>
  /\ Quietly /\ UNCHANGED removed

setPollInterval(r) ==
  /\ task' = [pc |-> "interval", rate |-> r, persist |-> TRUE]
  /\ Quietly /\ UNCHANGED <<gs, tile, ttlRate, removed>>

\* gs' is written back, or only changed in memory.
Saved ==
  /\ SetGlobalSettings(gs') /\ UNCHANGED <<tile, task, ttlRate>>

\* Ids are times and are not used twice; of the model's none may be left.
UsedIds == {t.id : t \in gs.library \cup store.library} \cup removed

handleGlobalAddThreshold ==
  /\ \E i \in Ids \ UsedIds, v \in Values :
       gs' = [gs EXCEPT !.library = @ \cup {[id |-> i, value |-> v]}]
  /\ UNCHANGED removed /\ Saved

\* Fault: the shorter library is not written back.
RemoveUnsaved(i) ==
  /\ gs' = [gs EXCEPT !.library = {t \in @ : t.id # i}]
  /\ removed' = removed \cup {i}
  /\ Quietly /\ UNCHANGED <<tile, task, ttlRate>>

handleGlobalRemoveThreshold(i) ==
  /\ gs' = [gs EXCEPT !.library = {t \in @ : t.id # i}]
  /\ removed' = removed \cup {i}
  /\ Saved

\* Fault: the edited threshold is a copy.
UpdateCopy(u) ==
  /\ \E t \in gs.library : t.id = u.id
  /\ gs' = [gs EXCEPT !.library = @ \cup {u}]
  /\ UNCHANGED removed /\ Saved

handleGlobalThresholdUpdate(u) ==
  /\ \E t \in gs.library : t.id = u.id
  /\ gs' = [gs EXCEPT !.library = {t \in @ : t.id # u.id} \cup {u}]
  /\ UNCHANGED removed /\ Saved

toggleFavoriteSelection(f) ==
  /\ IF f \in gs.favorites
     THEN gs' = [gs EXCEPT !.favorites = @ \ {f}] /\ removed' = removed \cup {f}
     ELSE gs' = [gs EXCEPT !.favorites = @ \cup {f}] /\ removed' = removed \ {f}
  /\ Saved

removeFavorite(f) ==
  /\ f \in gs.favorites
  /\ gs' = [gs EXCEPT !.favorites = @ \ {f}] /\ removed' = removed \cup {f}
  /\ Saved

\* The entry is not there, or HWiNFO does not answer.
Ignored(m) ==
  /\ \/ m.kind = "add" /\ Ids \subseteq UsedIds
     \/ m.kind = "update" /\ \A t \in gs.library : t.id # m.value.id
     \/ m.kind = "unfavorite" /\ m.value \notin gs.favorites
     \/ m.kind = "toggle"
  /\ Quietly /\ UNCHANGED <<gs, tile, task, ttlRate, removed>>

\* The tile's settings become s, drawn at once, and are saved if save.
TileBecomes(s, save) ==
  /\ tile' = Drawn([settings |-> s, drawn |-> interval], gs)
  /\ \/ ~save /\ UNCHANGED <<toStreamDeck, failures>>
     \/ save /\ toStreamDeck' = Append(toStreamDeck, Msg("tile", s)) /\ UNCHANGED failures
     \/ save /\ failures < MaxFailures /\ failures' = failures + 1 /\ UNCHANGED toStreamDeck
  /\ UNCHANGED <<gs, task, ttlRate, removed, crossed>>

\* A title that is absent is that of the tile in memory.
Merged(s) ==
  [s EXCEPT !.title = IF @ # None THEN @
                      ELSE IF tile = None THEN NoTitle ELSE tile.settings.title]

OnWillAppear(s) == TileBecomes(Merged(s), FALSE)

OnDidReceiveSettings(s) == TileBecomes(Merged(s), s.title = None)

\* Fault: the title of the tile is forgotten.
LookForgetsTitle(l) == TileBecomes([title |-> NoTitle, look |-> l], TRUE)

updateTileAppearance(l) == TileBecomes(Merged([title |-> None, look |-> l]), TRUE)

OnTitleParametersDidChange(t) ==
  \E l \in Looks :
    /\ tile # None => l = tile.settings.look
    /\ TileBecomes([title |-> t, look |-> l], TRUE)

OnWillDisappear ==
  tile' = None /\ Quietly /\ UNCHANGED <<gs, task, ttlRate, removed>>

\* spawnMessageReader takes the next message when the handler of the last is done.
Handle ==
  /\ task.pc = "idle" /\ toPlugin # <<>>
  /\ toPlugin' = Tail(toPlugin)
  /\ LET m == Head(toPlugin)
     IN  \/ m.kind = "settings" /\ OnDidReceiveGlobalSettings(m.value)
         \/ m.kind = "rate" /\ setPollInterval(m.value)
         \/ m.kind = "add" /\ handleGlobalAddThreshold
         \/ m.kind = "remove" /\ handleGlobalRemoveThreshold(m.value)
         \/ m.kind = "update" /\ handleGlobalThresholdUpdate(m.value)
         \/ m.kind = "toggle" /\ toggleFavoriteSelection(m.value)
         \/ m.kind = "unfavorite" /\ removeFavorite(m.value)
         \/ m.kind = "appear" /\ OnWillAppear(m.value)
         \/ m.kind = "tile" /\ OnDidReceiveSettings(m.value)
         \/ m.kind = "look" /\ updateTileAppearance(m.value)
         \/ m.kind = "title" /\ OnTitleParametersDidChange(m.value)
         \/ m.kind = "hide" /\ OnWillDisappear
         \/ Ignored(m)
  /\ UNCHANGED <<streamDeck, interval, queued, ticker, title, edits, crashes>>

(* SetInterval, and what its callers do then.                              *)

To(pc)  == task' = [task EXCEPT !.pc = pc]
Sending == UNCHANGED <<streamDeck, wires, gs, tile, ttlRate, ticker, history, crossed, bounds>>

SetInterval ==
  /\ task.pc = "interval"
  /\ interval' = task.rate
  /\ To("queue")
  /\ Sending /\ UNCHANGED queued

\* Into the channel, if it has room.
Send ==
  /\ task.pc \in {"queue", "send"} /\ queued = None
  /\ queued' = task.rate
  /\ To("finish")
  /\ Sending /\ UNCHANGED interval

\* Fault: what is queued stays.
FullGivesUp ==
  /\ task.pc = "queue" /\ queued # None
  /\ To("finish")
  /\ Sending /\ UNCHANGED <<queued, interval>>

Full ==
  /\ task.pc = "queue" /\ queued # None
  /\ To("drain")
  /\ Sending /\ UNCHANGED <<queued, interval>>

\* "Replace the queued value so the ticker switches to the newest interval."
Drain ==
  /\ task.pc = "drain"
  /\ queued' = None
  /\ To("send")
  /\ Sending /\ UNCHANGED interval

\* setPollInterval keeps and saves the rate; both callers draw the settings tile.
Finish ==
  /\ task.pc = "finish"
  /\ task' = Idle
  /\ IF task.persist
     THEN /\ ttlRate' = task.rate
          /\ gs' = [gs EXCEPT !.rate = task.rate]
          /\ UNCHANGED toPlugin /\ SetGlobalSettings(gs')
     ELSE UNCHANGED <<ttlRate, gs, toPlugin>> /\ Quietly
  /\ tile' = Drawn(tile, gs')
  /\ UNCHANGED <<streamDeck, interval, queued, ticker, history, edits, crashes>>

-----------------------------------------------------------------------------
(* The ticker's goroutine.                                                 *)

Elsewhere == UNCHANGED <<streamDeck, wires, gs, tile, task, ttlRate, history, crossed, bounds>>

\* The time.Ticker fires.
Update ==
  /\ ticker.pc = "idle"
  /\ ticker' = [ticker EXCEPT !.pc = "update"]
  /\ Elsewhere /\ UNCHANGED <<interval, queued>>

Updated ==
  /\ ticker.pc = "update"
  /\ ticker' = [ticker EXCEPT !.pc = "idle"]
  /\ Elsewhere /\ UNCHANGED <<interval, queued>>

Receive ==
  /\ ticker.pc = "idle" /\ queued # None
  /\ queued' = None
  /\ ticker' = [ticker EXCEPT !.pc = "apply", !.next = queued]
  /\ Elsewhere /\ UNCHANGED interval

Apply ==
  /\ ticker.pc = "apply"
  /\ interval' = ticker.next
  /\ ticker' = [pc |-> "idle", period |-> ticker.next, next |-> None]
  /\ Elsewhere /\ UNCHANGED queued

EventLoop == Handle \/ SetInterval \/ Send \/ Full \/ Drain \/ Finish
Run       == Update \/ Updated \/ Receive \/ Apply

Next == Deliver \/ Crash \/ User \/ EventLoop \/ Run

Spec == Init /\ [][Next]_vars

-----------------------------------------------------------------------------
(* Properties.                                                             *)

Quiet ==
  /\ toPlugin = <<>> /\ toStreamDeck = <<>> /\ task.pc = "idle"
  /\ ticker.pc # "apply" /\ queued = None

\* SetInterval: when a change has gone through the channel, the ticker, the cache, the
\* settings and the settings tile agree on the newest rate, whoever set it and however
\* the changes and the ticks were interleaved.
RateInForce ==
  Quiet =>
    /\ interval = Rate(gs) /\ ticker.period = Rate(gs) /\ ttlRate = Rate(gs)
    /\ tile # None => tile.drawn = Rate(gs)

\* What the plugin goes by is what Stream Deck will give it when it starts again,
\* unless a write has crossed another one or failed.
AgreeAtRest ==
  Quiet /\ ~crossed => gs = [store EXCEPT !.rate = Rate(store), !.presets = {}]

\* "Repair partial payloads so title fields persist": whatever part of its appearance
\* was saved, the settings tile has the title it was given, there and when it returns.
TitlePersists ==
  Quiet /\ crashes = 0 /\ failures = 0 =>
    savedTile.title = title /\ (tile # None => tile.settings = savedTile)

\* README: thresholds "can also be defined once in the Settings action's global
\* library", and setups "can be saved as named presets and reloaded on any Derived
\* Metric tile": what Stream Deck stores is only lost when the user removes it.
StoredUntilRemoved ==
  [][/\ store.presets \subseteq store'.presets
     /\ store.favorites \ removed \subseteq store'.favorites
     /\ {t.id : t \in store.library} \ removed \subseteq {t.id : t \in store'.library}]_vars
=============================================================================
