------------------------ MODULE GlobalSettings_proofs ------------------------
(***************************************************************************)
(* The rate in force, the agreement of the plugin with what Stream Deck    *)
(* stores and the title of the settings tile, proved for any number of     *)
(* rates, edits, crashes and failures, and wires of any length.            *)
(***************************************************************************)
EXTENDS GlobalSettings, SequenceTheorems, TLAPS

-----------------------------------------------------------------------------
(* Wires.                                                                  *)

LEMMA AppendFacts ==
  ASSUME NEW S, NEW w \in Seq(S), NEW m \in S
  PROVE  /\ Append(w, m) \in Seq(S)
         /\ DOMAIN w = 1..Len(w) /\ Len(w) \in Nat
         /\ DOMAIN Append(w, m) = 1..(Len(w) + 1)
         /\ \A i \in 1..Len(w) : Append(w, m)[i] = w[i]
         /\ Append(w, m)[Len(w) + 1] = m
OBVIOUS

LEMMA TailFacts ==
  ASSUME NEW S, NEW w \in Seq(S), w # <<>>
  PROVE  /\ Tail(w) \in Seq(S) /\ Head(w) \in S /\ Head(w) = w[1]
         /\ DOMAIN w = 1..Len(w) /\ Len(w) \in Nat /\ 1 <= Len(w)
         /\ DOMAIN Tail(w) = 1..(Len(w) - 1)
         /\ \A i \in 1..(Len(w) - 1) : Tail(w)[i] = w[i + 1]
OBVIOUS

-----------------------------------------------------------------------------
(* Messages.                                                               *)

LEMMA SentTypes ==
  /\ \A s \in Settings : Msg("settings", s) \in MessagesToPlugin \cap MessagesToStreamDeck
  /\ \A r \in Rates : Msg("rate", r) \in MessagesToPlugin
  /\ \A i \in Ids : Msg("remove", i) \in MessagesToPlugin
  /\ \A u \in [id : Ids, value : Values] : Msg("update", u) \in MessagesToPlugin
  /\ \A f \in Favorites : {Msg("toggle", f), Msg("unfavorite", f)} \subseteq MessagesToPlugin
  /\ \A l \in Looks : Msg("look", l) \in MessagesToPlugin
  /\ \A t \in Tiles : /\ {Msg("appear", t), Msg("tile", t)} \subseteq MessagesToPlugin
                      /\ Msg("tile", t) \in MessagesToStreamDeck
  /\ \A t \in Titles : Msg("title", t) \in MessagesToPlugin
  /\ {Msg("add", None), Msg("hide", None)} \subseteq MessagesToPlugin
  /\ Msg("get", None) \in MessagesToStreamDeck
BY DEF Msg, MessagesToPlugin, MessagesToStreamDeck

LEMMA ReceivedTypes ==
  ASSUME NEW m \in MessagesToPlugin
  PROVE  /\ m.kind = "settings" => m.value \in Settings
         /\ m.kind = "rate" => m.value \in Rates
         /\ m.kind = "remove" => m.value \in Ids
         /\ m.kind = "update" => m.value \in [id : Ids, value : Values]
         /\ m.kind \in {"toggle", "unfavorite"} => m.value \in Favorites
         /\ m.kind = "look" => m.value \in Looks
         /\ m.kind \in {"appear", "tile"} => m.value \in Tiles
         /\ m.kind = "title" => m.value \in Titles
BY DEF MessagesToPlugin

LEMMA DeliveredTypes ==
  ASSUME NEW m \in MessagesToStreamDeck
  PROVE  /\ m.kind \in {"settings", "tile", "get"}
         /\ m.kind = "settings" => m.value \in Settings
         /\ m.kind = "tile" => m.value \in Tiles
BY DEF MessagesToStreamDeck

-----------------------------------------------------------------------------
(* Types.                                                                  *)

\* A rate on its way to the ticker is one.
RateUnderWay ==
  /\ task.pc # "idle" => task.rate \in Rates
  /\ ticker.pc = "apply" => ticker.next \in Rates

TypeInv == TypeOK /\ RateUnderWay

StreamDeckType == store \in Settings /\ savedTile \in Tiles /\ visible \in BOOLEAN
WiresType == toPlugin \in Seq(MessagesToPlugin) /\ toStreamDeck \in Seq(MessagesToStreamDeck)
TileType == tile = None \/ tile \in [settings : [title : Titles, look : Looks], drawn : Rates]
TaskType ==
  /\ task \in [pc : {"idle", "interval", "queue", "drain", "send", "finish"},
               rate : Rates \cup {None}, persist : BOOLEAN]
  /\ task.pc # "idle" => task.rate \in Rates
PluginType == gs \in Settings /\ gs.presets = {} /\ TileType /\ TaskType /\ ttlRate \in Rates
TickerType ==
  /\ interval \in Rates /\ queued \in Rates \cup {None}
  /\ ticker \in [pc : {"idle", "update", "apply"}, period : Rates, next : Rates \cup {None}]
  /\ ticker.pc = "apply" => ticker.next \in Rates
HistoryType ==
  /\ removed \subseteq Ids \cup Favorites /\ title \in Titles /\ crossed \in BOOLEAN
  /\ edits \in 0..MaxEdits /\ crashes \in 0..MaxCrashes /\ failures \in 0..MaxFailures

Types == StreamDeckType /\ WiresType /\ PluginType /\ TickerType /\ HistoryType

LEMMA TypeParts == TypeInv <=> Types
BY DEF TypeInv, TypeOK, RateUnderWay, Types, StreamDeckType, WiresType, TileType, TaskType,
       PluginType, TickerType, HistoryType

\* What a handler of the event goroutine leaves.
Handled ==
  /\ toStreamDeck' \in Seq(MessagesToStreamDeck)
  /\ PluginType'
  /\ removed' \subseteq Ids \cup Favorites /\ crossed' \in BOOLEAN
  /\ failures' \in 0..MaxFailures

LEMMA SetGlobalSettingsType ==
  ASSUME Types, NEW g \in Settings, SetGlobalSettings(g)
  PROVE  /\ toStreamDeck' \in Seq(MessagesToStreamDeck)
         /\ crossed' \in BOOLEAN /\ failures' \in 0..MaxFailures
<1>1. toStreamDeck' \in Seq(MessagesToStreamDeck)
  <2>1. Msg("settings", g) \in MessagesToStreamDeck
    BY SentTypes
  <2>2. toStreamDeck \in Seq(MessagesToStreamDeck)
    BY DEF Types, WiresType
  <2>3. QED
    BY <2>1, <2>2, AppendFacts DEF SetGlobalSettings
<1>2. crossed' \in BOOLEAN
  BY Zenon DEF SetGlobalSettings, Pending
<1>3. failures' \in 0..MaxFailures
  BY BoundsAssumption DEF SetGlobalSettings, Types, HistoryType
<1>4. QED
  BY <1>1, <1>2, <1>3

LEMMA RateType ==
  ASSUME NEW s \in Settings
  PROVE  Rate(s) \in Rates
BY ValuesAssumption DEF Rate, Settings

LEMMA DrawnType ==
  ASSUME interval \in Rates, NEW g \in Settings,
         NEW t, t = None \/ t \in [settings : [title : Titles, look : Looks], drawn : Rates]
  PROVE  Drawn(t, g) = None \/
         Drawn(t, g) \in [settings : [title : Titles, look : Looks], drawn : Rates]
BY DEF Drawn, Settings

LEMMA SavedType ==
  ASSUME Types, gs' \in Settings, gs'.presets = {}, removed' \subseteq Ids \cup Favorites, Saved
  PROVE  Handled
BY SetGlobalSettingsType DEF Saved, Handled, Types, PluginType, TileType, TaskType

LEMMA MergedType ==
  ASSUME Types, NEW s \in Tiles
  PROVE  Merged(s) \in [title : Titles, look : Looks]
BY ValuesAssumption DEF Merged, Tiles, Types, PluginType, TileType

LEMMA TileBecomesType ==
  ASSUME Types, NEW s \in [title : Titles, look : Looks], NEW save \in BOOLEAN,
         TileBecomes(s, save)
  PROVE  Handled
<1>1. TileType'
  <2>1. interval \in Rates /\ gs \in Settings
    BY DEF Types, PluginType, TickerType
  <2>2. [settings |-> s, drawn |-> interval] \in
          [settings : [title : Titles, look : Looks], drawn : Rates]
    BY <2>1
  <2>3. tile' = Drawn([settings |-> s, drawn |-> interval], gs)
    BY DEF TileBecomes
  <2>4. QED
    BY <2>1, <2>2, <2>3, DrawnType, Zenon DEF TileType
<1>2. toStreamDeck' \in Seq(MessagesToStreamDeck) /\ failures' \in 0..MaxFailures
  <2>1. Msg("tile", s) \in MessagesToStreamDeck
    BY SentTypes DEF Tiles
  <2>2. toStreamDeck \in Seq(MessagesToStreamDeck) /\ failures \in 0..MaxFailures
    BY DEF Types, WiresType, HistoryType
  <2>3. Append(toStreamDeck, Msg("tile", s)) \in Seq(MessagesToStreamDeck)
    BY <2>1, <2>2, AppendFacts
  <2>4. QED
    BY <2>2, <2>3, BoundsAssumption DEF TileBecomes
<1>3. QED
  BY <1>1, <1>2 DEF TileBecomes, Handled, Types, PluginType, TaskType, HistoryType

LEMMA QuietlyType ==
  ASSUME Types, Quietly, PluginType', removed' \subseteq Ids \cup Favorites
  PROVE  Handled
BY DEF Quietly, Handled, Types, WiresType, HistoryType

LEMMA LibraryFacts ==
  /\ \A l \in Libraries : \A i : {t \in l : t.id # i} \in Libraries
  /\ \A l \in Libraries, u \in [id : Ids, value : Values] :
       {t \in l : t.id # u.id} \cup {u} \in Libraries
  /\ \A l \in Libraries, u \in [id : Ids, value : Values] :
       (\A t \in l : t.id # u.id) => l \cup {u} \in Libraries
BY DEF Libraries

\* The settings that handlers make of those of the plugin.
LEMMA SettingsFacts ==
  ASSUME NEW g \in Settings, g.presets = {}
  PROVE  /\ \A l \in Libraries : [g EXCEPT !.library = l] \in Settings
         /\ \A f \in SUBSET Favorites : [g EXCEPT !.favorites = f] \in Settings
         /\ \A r \in Rates : [g EXCEPT !.rate = r] \in Settings
         /\ \A s \in Settings : [s EXCEPT !.rate = Rate(s), !.presets = {}] \in Settings
         /\ \A x : /\ [g EXCEPT !.library = x].presets = {}
                   /\ [g EXCEPT !.favorites = x].presets = {}
                   /\ [g EXCEPT !.rate = x].presets = {}
                   /\ [g EXCEPT !.library = x].rate = g.rate
                   /\ [g EXCEPT !.favorites = x].rate = g.rate
                   /\ [g EXCEPT !.rate = x].rate = x
BY RateType DEF Settings

LEMMA ReceiveSettingsType ==
  ASSUME Types, NEW s \in Settings, OnDidReceiveGlobalSettings(s)
  PROVE  Handled
<1>1. gs \in Settings /\ gs.presets = {} /\ interval \in Rates
  BY DEF Types, PluginType, TickerType
<1>2. gs' \in Settings /\ gs'.presets = {} /\ gs'.rate \in Rates
  BY <1>1, RateType, SettingsFacts DEF OnDidReceiveGlobalSettings, Settings
<1>3. TileType'
  <2>1. CASE UNCHANGED tile
    BY <2>1 DEF Types, PluginType, TileType
  <2>2. CASE tile' = Drawn(tile, gs')
    BY <1>1, <1>2, <2>2, DrawnType, Zenon DEF Types, PluginType, TileType
  <2>3. QED
    BY <2>1, <2>2 DEF OnDidReceiveGlobalSettings
<1>4. TaskType' /\ ttlRate' \in Rates
  <2>1. CASE UNCHANGED <<task, ttlRate>>
    BY <2>1 DEF Types, PluginType, TaskType
  <2>2. CASE /\ task' = [pc |-> "interval", rate |-> gs'.rate, persist |-> FALSE]
             /\ ttlRate' = gs'.rate
    BY <1>2, <2>2 DEF TaskType
  <2>3. QED
    BY <2>1, <2>2, Zenon DEF OnDidReceiveGlobalSettings
<1>5. QED
  BY <1>2, <1>3, <1>4, QuietlyType DEF OnDidReceiveGlobalSettings, Types, PluginType, HistoryType

LEMMA SetPollType ==
  ASSUME Types, NEW r \in Rates, setPollInterval(r)
  PROVE  Handled
<1>1. TaskType'
  BY DEF setPollInterval, TaskType
<1>2. QED
  BY <1>1, QuietlyType DEF setPollInterval, Types, PluginType, TileType, HistoryType

LEMMA AddType ==
  ASSUME Types, handleGlobalAddThreshold
  PROVE  Handled
<1>1. PICK i \in Ids \ UsedIds, v \in Values :
         gs' = [gs EXCEPT !.library = gs.library \cup {[id |-> i, value |-> v]}]
  BY DEF handleGlobalAddThreshold
<1>2. gs \in Settings /\ gs.presets = {} /\ gs.library \in Libraries
  BY DEF Types, PluginType, Settings
<1>3. \A t \in gs.library : t.id # i
  BY DEF UsedIds
<1>4. gs.library \cup {[id |-> i, value |-> v]} \in Libraries
  BY <1>2, <1>3, LibraryFacts
<1>5. gs' \in Settings /\ gs'.presets = {}
  BY <1>1, <1>2, <1>4, SettingsFacts
<1>6. QED
  BY <1>5, SavedType DEF handleGlobalAddThreshold, Types, HistoryType

LEMMA RemoveType ==
  ASSUME Types, NEW i \in Ids, handleGlobalRemoveThreshold(i)
  PROVE  Handled
<1>1. gs \in Settings /\ gs.presets = {} /\ gs.library \in Libraries
  BY DEF Types, PluginType, Settings
<1>2. gs' \in Settings /\ gs'.presets = {}
  <2>1. {t \in gs.library : t.id # i} \in Libraries
    BY <1>1, LibraryFacts
  <2>2. gs' = [gs EXCEPT !.library = {t \in gs.library : t.id # i}]
    BY DEF handleGlobalRemoveThreshold
  <2>3. QED
    BY <1>1, <2>1, <2>2, SettingsFacts
<1>3. QED
  BY <1>2, SavedType DEF handleGlobalRemoveThreshold, Types, HistoryType

LEMMA UpdateType ==
  ASSUME Types, NEW u \in [id : Ids, value : Values], handleGlobalThresholdUpdate(u)
  PROVE  Handled
<1>1. gs \in Settings /\ gs.presets = {} /\ gs.library \in Libraries
  BY DEF Types, PluginType, Settings
<1>2. gs' \in Settings /\ gs'.presets = {}
  BY <1>1, LibraryFacts, SettingsFacts DEF handleGlobalThresholdUpdate
<1>3. QED
  BY <1>2, SavedType DEF handleGlobalThresholdUpdate, Types, HistoryType

LEMMA FavoriteType ==
  ASSUME Types, NEW f \in Favorites, toggleFavoriteSelection(f) \/ removeFavorite(f)
  PROVE  Handled
<1>1. gs \in Settings /\ gs.presets = {} /\ gs.favorites \in SUBSET Favorites
  BY DEF Types, PluginType, Settings
<1>2. gs' \in Settings /\ gs'.presets = {}
  <2>1. PICK e \in SUBSET Favorites : gs' = [gs EXCEPT !.favorites = e]
    <3>1. gs.favorites \ {f} \in SUBSET Favorites /\ gs.favorites \cup {f} \in SUBSET Favorites
      BY <1>1
    <3>2. QED
      BY <3>1 DEF toggleFavoriteSelection, removeFavorite
  <2>2. QED
    BY <1>1, <2>1, SettingsFacts
<1>3. removed' \subseteq Ids \cup Favorites
  BY DEF toggleFavoriteSelection, removeFavorite, Types, HistoryType
<1>4. QED
  BY <1>2, <1>3, SavedType DEF toggleFavoriteSelection, removeFavorite

LEMMA IgnoredType ==
  ASSUME Types, NEW m, Ignored(m)
  PROVE  Handled
BY QuietlyType DEF Ignored, Types, PluginType, TileType, TaskType, HistoryType

LEMMA TitleType ==
  ASSUME Types, NEW t \in Titles, OnTitleParametersDidChange(t)
  PROVE  Handled
<1>1. PICK l \in Looks : TileBecomes([title |-> t, look |-> l], TRUE)
  BY DEF OnTitleParametersDidChange
<1>2. QED
  BY <1>1, TileBecomesType

LEMMA DisappearType ==
  ASSUME Types, OnWillDisappear
  PROVE  Handled
BY QuietlyType DEF OnWillDisappear, Types, PluginType, TileType, TaskType, HistoryType

LEMMA HandleType ==
  ASSUME Types, Handle
  PROVE  Types'
<1> DEFINE m == Head(toPlugin)
<1>1. m \in MessagesToPlugin /\ toPlugin' \in Seq(MessagesToPlugin)
  BY TailFacts DEF Handle, Types, WiresType
<1>2. Handled
  <2>1. CASE m.kind = "settings" /\ OnDidReceiveGlobalSettings(m.value)
    BY <1>1, <2>1, ReceivedTypes, ReceiveSettingsType
  <2>2. CASE m.kind = "rate" /\ setPollInterval(m.value)
    BY <1>1, <2>2, ReceivedTypes, SetPollType
  <2>3. CASE m.kind = "add" /\ handleGlobalAddThreshold
    BY <2>3, AddType
  <2>4. CASE m.kind = "remove" /\ handleGlobalRemoveThreshold(m.value)
    BY <1>1, <2>4, ReceivedTypes, RemoveType
  <2>5. CASE m.kind = "update" /\ handleGlobalThresholdUpdate(m.value)
    BY <1>1, <2>5, ReceivedTypes, UpdateType
  <2>6. CASE m.kind \in {"toggle", "unfavorite"}
              /\ (toggleFavoriteSelection(m.value) \/ removeFavorite(m.value))
    BY <1>1, <2>6, ReceivedTypes, FavoriteType
  <2>7. CASE m.kind = "appear" /\ OnWillAppear(m.value)
    <3>1. Merged(m.value) \in [title : Titles, look : Looks]
      BY <1>1, <2>7, ReceivedTypes, MergedType
    <3>2. QED
      BY <2>7, <3>1, TileBecomesType DEF OnWillAppear
  <2>8. CASE m.kind = "tile" /\ OnDidReceiveSettings(m.value)
    <3>1. Merged(m.value) \in [title : Titles, look : Looks]
      BY <1>1, <2>8, ReceivedTypes, MergedType
    <3>2. QED
      BY <2>8, <3>1, TileBecomesType DEF OnDidReceiveSettings
  <2>9. CASE m.kind = "look" /\ updateTileAppearance(m.value)
    <3>1. [title |-> None, look |-> m.value] \in Tiles
      BY <1>1, <2>9, ReceivedTypes DEF Tiles
    <3>2. QED
      BY <2>9, <3>1, MergedType, TileBecomesType DEF updateTileAppearance
  <2>10. CASE m.kind = "title" /\ OnTitleParametersDidChange(m.value)
    BY <1>1, <2>10, ReceivedTypes, TitleType
  <2>11. CASE m.kind = "hide" /\ OnWillDisappear
    BY <2>11, DisappearType
  <2>12. CASE Ignored(m)
    BY <2>12, IgnoredType
  <2>13. QED
    BY <2>1, <2>2, <2>3, <2>4, <2>5, <2>6, <2>7, <2>8, <2>9, <2>10, <2>11, <2>12 DEF Handle
<1>3. StreamDeckType' /\ TickerType'
  BY DEF Handle, streamDeck, Types, StreamDeckType, TickerType
<1>4. HistoryType'
  BY <1>2 DEF Handled, Handle, Types, HistoryType
<1>5. QED
  BY <1>1, <1>2, <1>3, <1>4 DEF Handled, Types, WiresType

LEMMA FinishType ==
  ASSUME Types, Finish
  PROVE  Types'
<1>1. gs \in Settings /\ gs.presets = {} /\ task.rate \in Rates /\ interval \in Rates
  BY DEF Types, PluginType, TaskType, TickerType, Finish
<1>2. gs' \in Settings /\ gs'.presets = {}
  <2>1. gs' = gs \/ gs' = [gs EXCEPT !.rate = task.rate]
    BY DEF Finish
  <2>2. [gs EXCEPT !.rate = task.rate] \in Settings /\ [gs EXCEPT !.rate = task.rate].presets = {}
    BY <1>1, SettingsFacts, Zenon
  <2>3. QED
    BY <1>1, <2>1, <2>2
<1>3. TileType'
  <2>1. tile' = Drawn(tile, gs')
    BY DEF Finish
  <2>2. QED
    BY <1>1, <1>2, <2>1, DrawnType, Zenon DEF Types, PluginType, TileType
<1>4. TaskType' /\ ttlRate' \in Rates
  BY <1>1 DEF Finish, Idle, TaskType, Types, PluginType
<1>5. /\ toStreamDeck' \in Seq(MessagesToStreamDeck)
      /\ crossed' \in BOOLEAN /\ failures' \in 0..MaxFailures
  <2>1. CASE SetGlobalSettings(gs')
    BY <1>2, <2>1, SetGlobalSettingsType
  <2>2. CASE Quietly
    BY <2>2 DEF Quietly, Types, WiresType, HistoryType
  <2>3. QED
    BY <2>1, <2>2 DEF Finish
<1>6. toPlugin' = toPlugin
  BY DEF Finish
<1>7. QED
  BY <1>2, <1>3, <1>4, <1>5, <1>6
     DEF Finish, streamDeck, history, Types, StreamDeckType, WiresType, PluginType, TickerType,
         HistoryType

\* The other steps of the event goroutine, and those of the ticker.
LEMMA ChannelType ==
  ASSUME Types, SetInterval \/ Send \/ Full \/ Drain \/ Run
  PROVE  Types'
<1>1. /\ UNCHANGED <<streamDeck, wires, gs, tile, ttlRate, history, crossed, bounds>>
  BY DEF SetInterval, Send, Full, Drain, Sending, Run, Update, Updated, Receive, Apply, Elsewhere
<1>2. TaskType'
  BY DEF SetInterval, Send, Full, Drain, To, Run, Update, Updated, Receive, Apply, Elsewhere,
         Types, PluginType, TaskType
<1>3. TickerType'
  <2>1. CASE SetInterval \/ Send \/ Full \/ Drain
    BY <2>1 DEF SetInterval, Send, Full, Drain, Sending, Types, PluginType, TaskType, TickerType
  <2>2. CASE Run
    <3>1. CASE Update \/ Updated
      BY <3>1 DEF Update, Updated, Types, TickerType
    <3>2. CASE Receive
      <4>1. queued \in Rates
        BY <3>2 DEF Receive, Types, TickerType
      <4>2. QED
        BY <3>2, <4>1 DEF Receive, Types, TickerType
    <3>3. CASE Apply
      BY <3>3 DEF Apply, Types, TickerType
    <3>4. QED
      BY <2>2, <3>1, <3>2, <3>3 DEF Run
  <2>3. QED
    BY <2>1, <2>2
<1>4. QED
  BY <1>1, <1>2, <1>3
     DEF streamDeck, wires, history, bounds, Types, StreamDeckType, WiresType, PluginType,
         TileType, HistoryType

LEMMA DeliverType ==
  ASSUME Types, Deliver
  PROVE  Types'
<1> DEFINE m == Head(toStreamDeck)
<1>1. /\ m \in MessagesToStreamDeck /\ toStreamDeck' \in Seq(MessagesToStreamDeck)
  BY TailFacts DEF Deliver, Types, WiresType
<1>2. StreamDeckType' /\ toPlugin' \in Seq(MessagesToPlugin)
  <2>1. store \in Settings /\ toPlugin \in Seq(MessagesToPlugin)
    BY DEF Types, StreamDeckType, WiresType
  <2>2. CASE m.kind = "get"
    <3>1. Append(toPlugin, Msg("settings", store)) \in Seq(MessagesToPlugin)
      BY <2>1, SentTypes, AppendFacts
    <3>2. QED
      BY <2>2, <3>1 DEF Deliver, streamDeck, Types, StreamDeckType
  <2>3. CASE m.kind = "settings"
    BY <1>1, <2>1, <2>3, DeliveredTypes DEF Deliver, Types, StreamDeckType
  <2>4. CASE m.kind = "tile"
    BY <1>1, <2>1, <2>4, DeliveredTypes DEF Deliver, Types, StreamDeckType
  <2>5. QED
    BY <1>1, <2>2, <2>3, <2>4, DeliveredTypes
<1>3. QED
  BY <1>1, <1>2
     DEF Deliver, rates, history, bounds, Types, WiresType, PluginType, TileType, TaskType,
         TickerType, HistoryType

LEMMA CrashType ==
  ASSUME Types, Crash
  PROVE  Types'
<1>1. toPlugin' \in Seq(MessagesToPlugin) /\ toStreamDeck' \in Seq(MessagesToStreamDeck)
  <2>1. Msg("appear", savedTile) \in MessagesToPlugin /\ Msg("get", None) \in MessagesToStreamDeck
    BY SentTypes DEF Types, StreamDeckType
  <2>2. toStreamDeck \in Seq(MessagesToStreamDeck)
    BY DEF Types, WiresType
  <2>3. QED
    BY <2>1, <2>2, AppendFacts DEF Crash
<1>2. gs' \in Settings /\ gs'.presets = {}
  BY DEF Crash, NoSettings, Settings, Libraries
<1>3. PluginType' /\ TickerType'
  BY <1>2, ValuesAssumption
     DEF Crash, PluginType, TileType, TaskType, TickerType, Idle, NewTicker
<1>4. HistoryType'
  <2>1. crashes' \in 0..MaxCrashes
    BY BoundsAssumption DEF Crash, Types, HistoryType
  <2>2. QED
    BY <2>1 DEF Crash, history, Types, HistoryType
<1>5. QED
  BY <1>1, <1>3, <1>4 DEF Crash, streamDeck, Types, StreamDeckType, WiresType

LEMMA OverwriteType ==
  ASSUME Types, NEW s \in Settings, NEW follows \in Seq(MessagesToPlugin), Overwrite(s, follows)
  PROVE  Types'
<1>1. toPlugin' \in Seq(MessagesToPlugin)
  <2>1. Append(toPlugin, Msg("settings", s)) \in Seq(MessagesToPlugin)
    BY SentTypes, AppendFacts DEF Types, WiresType
  <2>2. QED
    BY <2>1, ConcatProperties DEF Overwrite
<1>2. crossed' \in BOOLEAN
  BY Zenon DEF Overwrite, Pending
<1>3. edits' \in 0..MaxEdits
  BY BoundsAssumption DEF Overwrite, Edit, Types, HistoryType
<1>4. QED
  BY <1>1, <1>2, <1>3
     DEF Overwrite, rates, history, Types, StreamDeckType, WiresType, PluginType, TileType,
         TaskType, TickerType, HistoryType

\* What a step of the user that does not touch the global settings leaves.
LEMMA UserStepType ==
  ASSUME Types, UNCHANGED <<store, toStreamDeck, gs, tile, task, rates, removed, crossed, crashes,
                            failures>>,
         edits' \in 0..MaxEdits, savedTile' \in Tiles, visible' \in BOOLEAN, title' \in Titles,
         toPlugin' \in Seq(MessagesToPlugin)
  PROVE  Types'
BY DEF rates, Types, StreamDeckType, WiresType, PluginType, TileType, TaskType, TickerType,
       HistoryType

LEMMA EditType ==
  ASSUME Types, Edit
  PROVE  edits' \in 0..MaxEdits
BY BoundsAssumption DEF Edit, Types, HistoryType

LEMMA RequestType ==
  ASSUME Types, NEW m \in MessagesToPlugin, Request(m)
  PROVE  Types'
<1>1. toPlugin' \in Seq(MessagesToPlugin)
  BY AppendFacts DEF Request, Types, WiresType
<1>2. QED
  BY <1>1, EditType, UserStepType
     DEF Request, streamDeck, history, Types, StreamDeckType, HistoryType

LEMMA TileEditType ==
  ASSUME Types, (\E l \in Looks : SaveLook(l)) \/ (\E t \in Titles : SetTitle(t)) \/ Hide \/ Show
  PROVE  Types'
<1>1. toPlugin \in Seq(MessagesToPlugin) /\ savedTile \in Tiles /\ title \in Titles
      /\ edits \in 0..MaxEdits /\ visible \in BOOLEAN
  BY DEF Types, StreamDeckType, WiresType, HistoryType
<1>2. ASSUME NEW l \in Looks, SaveLook(l) PROVE Types'
  <2>1. savedTile' \in Tiles
    BY <1>2 DEF SaveLook, Tiles
  <2>2. Msg("tile", savedTile') \in MessagesToPlugin /\ Msg("look", l) \in MessagesToPlugin
    BY <2>1, SentTypes
  <2>3. toPlugin' = toPlugin \o <<Msg("tile", savedTile'), Msg("look", l)>>
    BY <1>2 DEF SaveLook
  <2>4. toPlugin' \in Seq(MessagesToPlugin)
    <3>1. <<Msg("tile", savedTile'), Msg("look", l)>> \in Seq(MessagesToPlugin)
      BY <2>2
    <3>2. QED
      BY <1>1, <2>3, <3>1, ConcatProperties
  <2>5. QED
    BY <1>1, <1>2, <2>1, <2>4, EditType, UserStepType DEF SaveLook, history
<1>3. ASSUME NEW t \in Titles, SetTitle(t) PROVE Types'
  <2>1. toPlugin' \in Seq(MessagesToPlugin)
    BY <1>1, <1>3, SentTypes, AppendFacts DEF SetTitle
  <2>2. QED
    BY <1>1, <1>3, <2>1, EditType, UserStepType DEF SetTitle, streamDeck
<1>4. CASE Hide
  <2>1. toPlugin' \in Seq(MessagesToPlugin)
    BY <1>1, <1>4, SentTypes, AppendFacts DEF Hide
  <2>2. QED
    BY <1>1, <1>4, <2>1, EditType, UserStepType DEF Hide, history
<1>5. CASE Show
  <2>1. toPlugin' \in Seq(MessagesToPlugin)
    BY <1>1, <1>5, SentTypes, AppendFacts DEF Show
  <2>2. QED
    BY <1>1, <1>5, <2>1, UserStepType DEF Show, history, bounds
<1>6. QED
  BY <1>2, <1>3, <1>4, <1>5

LEMMA UserType ==
  ASSUME Types, User
  PROVE  Types'
<1>1. ASSUME NEW r \in Rates, ChangeRate(r) PROVE Types'
  <2>1. [NoSettings EXCEPT !.rate = r] \in Settings
    BY DEF NoSettings, Settings, Libraries
  <2>2. <<Msg("rate", r)>> \in Seq(MessagesToPlugin)
    BY SentTypes
  <2>3. QED
    BY <1>1, <2>1, <2>2, OverwriteType DEF ChangeRate
<1>2. ASSUME NEW ps \in SUBSET Presets, SavePreset(ps) PROVE Types'
  <2>1. [NoSettings EXCEPT !.presets = ps] \in Settings
    BY DEF NoSettings, Settings, Libraries, Types, StreamDeckType
  <2>2. <<>> \in Seq(MessagesToPlugin)
    OBVIOUS
  <2>3. QED
    BY <1>2, <2>1, <2>2, OverwriteType DEF SavePreset
<1>3. ASSUME NEW m \in MessagesToPlugin, Request(m) PROVE Types'
  BY <1>3, RequestType
<1>4. QED
  BY <1>1, <1>2, <1>3, TileEditType, SentTypes DEF User

LEMMA InitType == Init => Types
<1> SUFFICES ASSUME Init PROVE Types
  OBVIOUS
<1>1. NoSettings \in Settings
  BY DEF NoSettings, Settings, Libraries
<1>2. FirstLibrary \in Libraries
  <2>1. PICK i \in Ids, v \in Values : FirstLibrary = {[id |-> i, value |-> v]}
    BY ValuesAssumption DEF FirstLibrary
  <2>2. QED
    BY <2>1 DEF Libraries
<1>3. store \in Settings
  BY <1>1, <1>2 DEF Init, Settings
<1>4. savedTile \in Tiles
  BY ValuesAssumption DEF Init, Tiles
<1>5. toPlugin \in Seq(MessagesToPlugin) /\ toStreamDeck \in Seq(MessagesToStreamDeck)
  BY <1>4, SentTypes DEF Init
<1>6. PluginType /\ TickerType
  BY <1>1, ValuesAssumption
     DEF Init, PluginType, TileType, TaskType, TickerType, Idle, NewTicker, NoSettings
<1>7. HistoryType
  <2>1. 0 \in 0..MaxEdits /\ 0 \in 0..MaxCrashes /\ 0 \in 0..MaxFailures
    BY BoundsAssumption
  <2>2. QED
    BY <2>1, ValuesAssumption DEF Init, HistoryType
<1>8. QED
  BY <1>3, <1>4, <1>5, <1>6, <1>7 DEF Init, Types, StreamDeckType, WiresType

LEMMA NextType == Types /\ [Next]_vars => Types'
<1> SUFFICES ASSUME Types, [Next]_vars PROVE Types'
  OBVIOUS
<1>1. CASE UNCHANGED vars
  BY <1>1 DEF vars, streamDeck, wires, rates, history, bounds, Types, StreamDeckType, WiresType,
              PluginType, TileType, TaskType, TickerType, HistoryType
<1>2. QED
  BY <1>1, DeliverType, CrashType, UserType, HandleType, FinishType, ChannelType
     DEF Next, EventLoop

\* Whatever is sent, lost or written over, settings, messages and rates keep their types;
\* no library gets two thresholds with one id.
THEOREM TypeCorrect == Spec => []TypeOK
<1>1. Spec => []Types
  BY InitType, NextType, PTL DEF Spec
<1>2. Types => TypeOK
  BY TypeParts DEF TypeInv
<1>3. QED
  BY <1>1, <1>2, PTL

-----------------------------------------------------------------------------
(* The rate in force.  A rate that the event goroutine has started to      *)
(* install is followed into the channel, and from there into the ticker.   *)

\* The newest rate while no SetInterval is under way before its send.
Latest == IF task.pc = "finish" THEN task.rate ELSE Rate(gs)

ChannelInv ==
  task.pc \in {"idle", "finish"} =>
    /\ queued # None => queued = Latest
    /\ queued = None /\ ticker.pc = "apply" => ticker.next = Latest
    /\ queued = None /\ ticker.pc # "apply" => interval = Latest /\ ticker.period = Latest

\* Before the settings arrive there is nothing to switch to.
UnsetInv == task.pc = "idle" /\ gs.rate = None => queued = None /\ ticker.pc # "apply"

KeptInv ==
  /\ task.pc # "idle" /\ ~task.persist => gs.rate = task.rate /\ ttlRate = task.rate
  /\ task.pc = "idle" => ttlRate = Rate(gs) /\ (tile # None => tile.drawn = Rate(gs))

RateInv == Types /\ ChannelInv /\ UnsetInv /\ KeptInv

LEMMA RateInvInit == Init => RateInv
<1> SUFFICES ASSUME Init PROVE RateInv
  OBVIOUS
<1>1. Rate(gs) = DefaultRate /\ gs.rate = None
  BY DEF Init, NoSettings, Rate
<1>2. QED
  BY <1>1, InitType
     DEF Init, RateInv, ChannelInv, Latest, UnsetInv, KeptInv, Idle, NewTicker

LEMMA RateInvSuffices == RateInv => RateInForce
BY DEF RateInv, ChannelInv, KeptInv, Latest, RateInForce, Quiet

\* Steps that are not about the rate.
LEMMA RateInvElsewhere ==
  ASSUME RateInv, Types', UNCHANGED <<gs, tile, task, rates>>
  PROVE  RateInv'
BY DEF RateInv, ChannelInv, Latest, UnsetInv, KeptInv, rates, Rate

LEMMA RateInvCrash ==
  ASSUME RateInv, Types', Crash
  PROVE  RateInv'
<1>1. Rate(gs)' = DefaultRate /\ gs'.rate = None
  BY DEF Crash, NoSettings, Rate
<1>2. QED
  BY <1>1 DEF Crash, RateInv, ChannelInv, Latest, UnsetInv, KeptInv, Idle, NewTicker

DrawnRate == IF gs.rate = None THEN interval ELSE gs.rate

\* A handler starts to install a rate, or it leaves the rate as it is.
RateHandled ==
  \/ /\ task'.pc = "interval"
     /\ ~task'.persist => gs'.rate = task'.rate /\ ttlRate' = task'.rate
  \/ /\ UNCHANGED <<task, ttlRate>> /\ gs'.rate = gs.rate
     /\ tile' # None => tile'.drawn = DrawnRate

LEMMA DrawnFacts ==
  ASSUME NEW g, NEW t,
         t = None \/ t \in [settings : [title : Titles, look : Looks], drawn : Rates],
         Drawn(t, g) # None, g.rate = gs.rate
  PROVE  Drawn(t, g).drawn = DrawnRate
BY DEF Drawn, DrawnRate

LEMMA DrawnInv ==
  ASSUME RateInv, task.pc = "idle"
  PROVE  DrawnRate = Rate(gs)
BY DEF RateInv, ChannelInv, Latest, UnsetInv, DrawnRate, Rate

LEMMA RateReceive ==
  ASSUME RateInv, NEW s \in Settings, OnDidReceiveGlobalSettings(s)
  PROVE  RateHandled
<1>1. CASE gs'.rate # gs.rate
  BY <1>1 DEF OnDidReceiveGlobalSettings, RateHandled
<1>2. CASE gs'.rate = gs.rate
  <2>1. tile' = Drawn(tile, gs') /\ UNCHANGED <<task, ttlRate>>
    BY <1>2 DEF OnDidReceiveGlobalSettings
  <2>2. tile' # None => tile'.drawn = DrawnRate
    BY <1>2, <2>1, DrawnFacts DEF RateInv, Types, PluginType, TileType
  <2>3. QED
    BY <1>2, <2>1, <2>2 DEF RateHandled
<1>3. QED
  BY <1>1, <1>2

LEMMA RateTile ==
  ASSUME RateInv, NEW s \in [title : Titles, look : Looks], NEW save, TileBecomes(s, save)
  PROVE  RateHandled
<1>1. tile' = Drawn([settings |-> s, drawn |-> interval], gs)
  BY DEF TileBecomes
<1>2. [settings |-> s, drawn |-> interval] \in
        [settings : [title : Titles, look : Looks], drawn : Rates]
  BY DEF RateInv, Types, TickerType
<1>3. tile' # None => tile'.drawn = DrawnRate
  BY <1>1, <1>2, DrawnFacts
<1>4. QED
  BY <1>3 DEF TileBecomes, RateHandled

LEMMA RateSame ==
  ASSUME RateInv, task.pc = "idle", UNCHANGED <<task, ttlRate>>, gs'.rate = gs.rate,
         tile' \in {tile, None}
  PROVE  RateHandled
BY DrawnInv DEF RateHandled, RateInv, KeptInv

LEMMA RateHandledInv ==
  ASSUME RateInv, Types', task.pc = "idle", UNCHANGED <<interval, queued, ticker>>, RateHandled
  PROVE  RateInv'
<1>1. CASE /\ task'.pc = "interval"
           /\ ~task'.persist => gs'.rate = task'.rate /\ ttlRate' = task'.rate
  BY <1>1 DEF RateInv, ChannelInv, UnsetInv, KeptInv
<1>2. CASE /\ UNCHANGED <<task, ttlRate>> /\ gs'.rate = gs.rate
           /\ tile' # None => tile'.drawn = DrawnRate
  <2>1. Rate(gs)' = Rate(gs)
    BY <1>2 DEF Rate
  <2>2. QED
    BY <1>2, <2>1, DrawnInv DEF RateInv, ChannelInv, Latest, UnsetInv, KeptInv
<1>3. QED
  BY <1>1, <1>2 DEF RateHandled

\* Changes to the lists keep the rate.
LEMMA ListsKeepRate ==
  ASSUME Types,
         \/ handleGlobalAddThreshold
         \/ \E i : handleGlobalRemoveThreshold(i)
         \/ \E u : handleGlobalThresholdUpdate(u)
         \/ \E f : toggleFavoriteSelection(f) \/ removeFavorite(f)
  PROVE  gs'.rate = gs.rate /\ Saved
<1>1. gs \in Settings /\ gs.presets = {}
  BY DEF Types, PluginType
<1>2. \E x : gs' = [gs EXCEPT !.library = x] \/ gs' = [gs EXCEPT !.favorites = x]
  BY DEF handleGlobalAddThreshold, handleGlobalRemoveThreshold, handleGlobalThresholdUpdate,
         toggleFavoriteSelection, removeFavorite
<1>3. gs'.rate = gs.rate
  <2>1. PICK x : gs' = [gs EXCEPT !.library = x] \/ gs' = [gs EXCEPT !.favorites = x]
    BY <1>2
  <2>2. [gs EXCEPT !.library = x].rate = gs.rate /\ [gs EXCEPT !.favorites = x].rate = gs.rate
    BY <1>1, SettingsFacts, Zenon
  <2>3. QED
    BY <2>1, <2>2, Zenon
<1>4. Saved
  BY DEF handleGlobalAddThreshold, handleGlobalRemoveThreshold, handleGlobalThresholdUpdate,
         toggleFavoriteSelection, removeFavorite
<1>5. QED
  BY <1>3, <1>4

LEMMA RateInvHandle ==
  ASSUME RateInv, Types', Handle
  PROVE  RateInv'
<1> DEFINE m == Head(toPlugin)
<1>1. m \in MessagesToPlugin /\ Types
  BY TailFacts DEF Handle, RateInv, Types, WiresType
<1>2. task.pc = "idle" /\ UNCHANGED <<interval, queued, ticker>>
  BY DEF Handle
<1>3. RateHandled
  <2>1. CASE m.kind = "settings" /\ OnDidReceiveGlobalSettings(m.value)
    BY <1>1, <2>1, ReceivedTypes, RateReceive
  <2>2. CASE m.kind = "rate" /\ setPollInterval(m.value)
    BY <2>2 DEF setPollInterval, RateHandled
  <2>3. CASE \/ handleGlobalAddThreshold
             \/ handleGlobalRemoveThreshold(m.value)
             \/ handleGlobalThresholdUpdate(m.value)
             \/ toggleFavoriteSelection(m.value)
             \/ removeFavorite(m.value)
    <3>1. gs'.rate = gs.rate /\ Saved
      BY <1>1, <2>3, ListsKeepRate
    <3>2. QED
      BY <1>2, <3>1, RateSame DEF Saved
  <2>4. CASE \/ m.kind = "appear" /\ OnWillAppear(m.value)
             \/ m.kind = "tile" /\ OnDidReceiveSettings(m.value)
    <3>1. Merged(m.value) \in [title : Titles, look : Looks]
      BY <1>1, <2>4, ReceivedTypes, MergedType
    <3>2. QED
      BY <2>4, <3>1, RateTile DEF OnWillAppear, OnDidReceiveSettings
  <2>5. CASE m.kind = "look" /\ updateTileAppearance(m.value)
    <3>1. [title |-> None, look |-> m.value] \in Tiles
      BY <1>1, <2>5, ReceivedTypes DEF Tiles
    <3>2. QED
      BY <1>1, <2>5, <3>1, MergedType, RateTile DEF updateTileAppearance
  <2>6. CASE m.kind = "title" /\ OnTitleParametersDidChange(m.value)
    <3>1. PICK l \in Looks : TileBecomes([title |-> m.value, look |-> l], TRUE)
      BY <2>6 DEF OnTitleParametersDidChange
    <3>2. m.value \in Titles
      BY <1>1, <2>6, ReceivedTypes
    <3>3. QED
      BY <3>1, <3>2, RateTile
  <2>7. CASE OnWillDisappear
    BY <1>2, <2>7, RateSame DEF OnWillDisappear
  <2>8. CASE Ignored(m)
    BY <1>2, <2>8, RateSame DEF Ignored
  <2>9. QED
    BY <2>1, <2>2, <2>3, <2>4, <2>5, <2>6, <2>7, <2>8 DEF Handle
<1>4. QED
  BY <1>2, <1>3, RateHandledInv

LEMMA RateInvFinish ==
  ASSUME RateInv, Types', Finish
  PROVE  RateInv'
<1>1. task.rate \in Rates /\ gs \in Settings /\ gs.presets = {} /\ task.pc = "finish"
  BY DEF RateInv, Types, PluginType, TaskType, Finish
<1>2. gs'.rate = task.rate /\ ttlRate' = task.rate
  <2>1. [gs EXCEPT !.rate = task.rate].rate = task.rate
    BY <1>1, SettingsFacts
  <2>2. CASE task.persist
    BY <2>1, <2>2 DEF Finish
  <2>3. CASE ~task.persist
    BY <1>1, <2>3 DEF Finish, RateInv, KeptInv
  <2>4. QED
    BY <2>2, <2>3
<1>3. Rate(gs)' = task.rate /\ gs'.rate # None
  BY <1>1, <1>2, ValuesAssumption DEF Rate
<1>4. tile' # None => tile'.drawn = task.rate
  <2>1. tile' = Drawn(tile, gs')
    BY DEF Finish
  <2>2. QED
    BY <1>2, <1>3, <2>1 DEF Drawn, RateInv, Types, PluginType, TileType
<1>5. task'.pc = "idle" /\ UNCHANGED <<interval, queued, ticker>>
  BY DEF Finish, Idle
<1>6. QED
  BY <1>1, <1>2, <1>3, <1>4, <1>5 DEF RateInv, ChannelInv, Latest, UnsetInv, KeptInv

\* The steps of SetInterval up to the send, and the send.
LEMMA RateInvSend ==
  ASSUME RateInv, Types', SetInterval \/ Send \/ Full \/ Drain
  PROVE  RateInv'
<1>1. /\ task.pc # "idle" /\ task'.pc # "idle" /\ UNCHANGED <<gs, ttlRate, ticker>>
      /\ task'.rate = task.rate /\ task'.persist = task.persist
  BY DEF SetInterval, Send, Full, Drain, To, Sending, RateInv, Types, PluginType, TaskType
<1>2. KeptInv' /\ UnsetInv'
  BY <1>1 DEF RateInv, KeptInv, UnsetInv
<1>3. CASE Send
  <2>1. queued' = task.rate /\ task'.pc = "finish" /\ task.rate # None
    BY <1>3, ValuesAssumption DEF Send, To, RateInv, Types, PluginType, TaskType
  <2>2. QED
    BY <1>1, <1>2, <2>1 DEF RateInv, ChannelInv, Latest
<1>4. CASE SetInterval \/ Full \/ Drain
  <2>1. task'.pc \in {"queue", "drain", "send"}
    BY <1>4 DEF SetInterval, Full, Drain, To, RateInv, Types, PluginType, TaskType
  <2>2. QED
    BY <1>2, <2>1 DEF RateInv, ChannelInv
<1>5. QED
  BY <1>3, <1>4

LEMMA RateInvRun ==
  ASSUME RateInv, Types', Run
  PROVE  RateInv'
<1>1. UNCHANGED <<gs, tile, task, ttlRate>>
  BY DEF Run, Update, Updated, Receive, Apply, Elsewhere
<1>2. KeptInv' /\ Latest' = Latest /\ Rate(gs)' = Rate(gs)
  BY <1>1 DEF RateInv, KeptInv, Latest, Rate
<1>3. CASE Update \/ Updated
  <2>1. /\ ticker.pc # "apply" /\ ticker'.pc # "apply" /\ ticker'.period = ticker.period
        /\ UNCHANGED <<interval, queued>>
    BY <1>3 DEF Update, Updated, RateInv, Types, TickerType
  <2>2. QED
    BY <1>1, <1>2, <2>1 DEF RateInv, ChannelInv, UnsetInv
<1>4. CASE Receive
  <2>1. queued # None /\ queued' = None /\ ticker'.pc = "apply" /\ ticker'.next = queued
    BY <1>4 DEF Receive, RateInv, Types, TickerType
  <2>2. QED
    BY <1>1, <1>2, <2>1 DEF RateInv, ChannelInv, UnsetInv
<1>5. CASE Apply
  <2>1. /\ ticker.pc = "apply" /\ interval' = ticker.next /\ queued' = queued
        /\ ticker'.pc = "idle" /\ ticker'.period = ticker.next
    BY <1>5 DEF Apply
  <2>2. QED
    BY <1>1, <1>2, <2>1 DEF RateInv, ChannelInv, UnsetInv
<1>6. QED
  BY <1>3, <1>4, <1>5 DEF Run

LEMMA RateInvNext == RateInv /\ [Next]_vars => RateInv'
<1> SUFFICES ASSUME RateInv, [Next]_vars PROVE RateInv'
  OBVIOUS
<1>1. Types'
  BY NextType DEF RateInv
<1>2. CASE UNCHANGED vars \/ Deliver \/ User
  <2>1. UNCHANGED <<gs, tile, task, rates>>
    BY <1>2 DEF vars, Deliver, User, ChangeRate, SavePreset, Overwrite, Request, SaveLook, SetTitle,
                Hide, Show
  <2>2. QED
    BY <1>1, <2>1, RateInvElsewhere
<1>3. QED
  BY <1>1, <1>2, RateInvCrash, RateInvHandle, RateInvFinish, RateInvSend, RateInvRun
     DEF Next, EventLoop

\* When a change of the rate has gone through the channel, the ticker, the cache, the
\* settings and the settings tile agree on the newest one, however SetInterval's two
\* channel operations and Run's were interleaved, and whoever wrote the settings.
THEOREM OneRate == Spec => []RateInForce
<1>1. Spec => []RateInv
  BY RateInvInit, RateInvNext, PTL DEF Spec
<1>2. QED
  BY <1>1, RateInvSuffices, PTL

-----------------------------------------------------------------------------
(* The agreement of the plugin with what Stream Deck stores.  What decides *)
(* it is the last message on each wire that has settings or asks for them. *)

Writes == {"settings"}
Asks   == {"get"}
Turns  == {"settings", "get"}

IsLast(w, kinds, i) ==
  w[i].kind \in kinds /\ \A j \in DOMAIN w : j > i => w[j].kind \notin kinds

Lasts(w, kinds) == {w[i] : i \in {j \in DOMAIN w : IsLast(w, kinds, j)}}

LEMMA AppendLasts ==
  ASSUME NEW S, NEW w \in Seq(S), NEW m \in S, NEW kinds
  PROVE  /\ Pending(Append(w, m), kinds) <=> Pending(w, kinds) \/ m.kind \in kinds
         /\ m.kind \in kinds => Lasts(Append(w, m), kinds) = {m}
         /\ m.kind \notin kinds => Lasts(Append(w, m), kinds) = Lasts(w, kinds)
<1> DEFINE v == Append(w, m)
<1>1. /\ v \in Seq(S) /\ DOMAIN w = 1..Len(w) /\ Len(w) \in Nat
      /\ DOMAIN v = 1..(Len(w) + 1)
      /\ (\A i \in 1..Len(w) : v[i] = w[i]) /\ v[Len(w) + 1] = m
  BY AppendFacts
<1> HIDE DEF v
<1>2. Pending(v, kinds) <=> Pending(w, kinds) \/ m.kind \in kinds
  BY <1>1 DEF Pending
<1>3. ASSUME m.kind \in kinds PROVE Lasts(v, kinds) = {m}
  <2>1. ASSUME NEW i \in DOMAIN v, IsLast(v, kinds, i) PROVE v[i] = m
    BY <1>1, <1>3, <2>1 DEF IsLast
  <2>2. Len(w) + 1 \in DOMAIN v /\ IsLast(v, kinds, Len(w) + 1)
    BY <1>1, <1>3 DEF IsLast
  <2>3. QED
    BY <1>1, <2>1, <2>2 DEF Lasts
<1>4. ASSUME m.kind \notin kinds PROVE Lasts(v, kinds) = Lasts(w, kinds)
  <2>1. ASSUME NEW i \in DOMAIN v, IsLast(v, kinds, i)
        PROVE  i \in DOMAIN w /\ IsLast(w, kinds, i) /\ v[i] = w[i]
    BY <1>1, <1>4, <2>1 DEF IsLast
  <2>2. ASSUME NEW i \in DOMAIN w, IsLast(w, kinds, i)
        PROVE  i \in DOMAIN v /\ IsLast(v, kinds, i) /\ v[i] = w[i]
    BY <1>1, <1>4, <2>2 DEF IsLast
  <2>3. QED
    BY <2>1, <2>2 DEF Lasts
<1>5. QED
  BY <1>2, <1>3, <1>4 DEF v

LEMMA TailLasts ==
  ASSUME NEW S, NEW w \in Seq(S), w # <<>>, NEW kinds
  PROVE  /\ Pending(w, kinds) <=> Pending(Tail(w), kinds) \/ Head(w).kind \in kinds
         /\ Lasts(Tail(w), kinds) \subseteq Lasts(w, kinds)
         /\ Head(w).kind \in kinds /\ ~Pending(Tail(w), kinds) => Head(w) \in Lasts(w, kinds)
<1> DEFINE v == Tail(w)  h == Head(w)
<1>1. /\ h = w[1] /\ DOMAIN w = 1..Len(w) /\ Len(w) \in Nat /\ 1 <= Len(w)
      /\ DOMAIN v = 1..(Len(w) - 1)
      /\ \A i \in 1..(Len(w) - 1) : v[i] = w[i + 1]
  BY TailFacts
<1> HIDE DEF v, h
<1>2. \A i \in DOMAIN w : i # 1 => i - 1 \in DOMAIN v /\ v[i - 1] = w[i]
  BY <1>1
<1>3. Pending(w, kinds) <=> Pending(v, kinds) \/ h.kind \in kinds
  <2>1. ASSUME Pending(w, kinds) PROVE Pending(v, kinds) \/ h.kind \in kinds
    BY <1>1, <1>2, <2>1 DEF Pending
  <2>2. ASSUME Pending(v, kinds) \/ h.kind \in kinds PROVE Pending(w, kinds)
    BY <1>1, <2>2 DEF Pending
  <2>3. QED
    BY <2>1, <2>2
<1>4. ASSUME NEW i \in DOMAIN v, IsLast(v, kinds, i)
      PROVE  i + 1 \in DOMAIN w /\ IsLast(w, kinds, i + 1) /\ v[i] = w[i + 1]
  <2>1. i + 1 \in DOMAIN w /\ v[i] = w[i + 1]
    BY <1>1
  <2>2. ASSUME NEW j \in DOMAIN w, j > i + 1 PROVE w[j].kind \notin kinds
    <3>1. j - 1 \in DOMAIN v /\ v[j - 1] = w[j] /\ j - 1 > i
      BY <1>1, <1>2, <2>2
    <3>2. QED
      BY <1>4, <3>1 DEF IsLast
  <2>3. QED
    BY <1>4, <2>1, <2>2 DEF IsLast
<1>5. Lasts(v, kinds) \subseteq Lasts(w, kinds)
  BY <1>4 DEF Lasts
<1>6. ASSUME h.kind \in kinds, ~Pending(v, kinds) PROVE h \in Lasts(w, kinds)
  <2>1. 1 \in DOMAIN w /\ IsLast(w, kinds, 1)
    BY <1>1, <1>2, <1>6 DEF IsLast, Pending
  <2>2. QED
    BY <1>1, <2>1 DEF Lasts
<1>7. QED
  BY <1>3, <1>5, <1>6 DEF v, h

\* What was written follows the request, and nothing on its way crosses it.
OutInv ==
  \A m \in Lasts(toStreamDeck, Turns) : m.kind = "settings" =>
    m.value = gs /\ ~Pending(toStreamDeck, Asks) /\ ~Pending(toPlugin, Writes)

InInv ==
  ~Pending(toStreamDeck, Turns) => \A m \in Lasts(toPlugin, Writes) : m.value = store

RestInv ==
  ~Pending(toStreamDeck, Turns) /\ ~Pending(toPlugin, Writes) =>
    gs = [store EXCEPT !.rate = Rate(store), !.presets = {}]

ReadInv == ~Pending(toStreamDeck, Asks) /\ ~Pending(toPlugin, Writes) => gs.rate # None

Agrees == OutInv /\ InInv /\ RestInv /\ ReadInv

AgreeInv == Types /\ (~crossed => Agrees)

LEMMA TurnFacts ==
  ASSUME NEW w
  PROVE  Pending(w, Turns) <=> Pending(w, Asks) \/ Pending(w, Writes)
BY DEF Pending, Turns, Asks, Writes

LEMMA SingleFacts ==
  ASSUME NEW m, NEW kinds
  PROVE  /\ Pending(<<m>>, kinds) <=> m.kind \in kinds
         /\ Lasts(<<m>>, kinds) \subseteq {m}
         /\ ~Pending(<<>>, kinds)
BY DEF Pending, Lasts

\* Settings on a wire have the last say there only when some are on it.
LEMMA LastsPending ==
  ASSUME NEW w, NEW kinds, NEW m \in Lasts(w, kinds)
  PROVE  m.kind \in kinds /\ Pending(w, {m.kind})
BY DEF Lasts, IsLast, Pending

LEMMA AgreeInit == Init => AgreeInv
<1> SUFFICES ASSUME Init PROVE AgreeInv
  OBVIOUS
<1>1. toStreamDeck = <<Msg("get", None)>>
  BY DEF Init
<1>2. Pending(toStreamDeck, Asks) /\ Lasts(toStreamDeck, Turns) \subseteq {Msg("get", None)}
  BY <1>1, SingleFacts DEF Msg, Asks
<1>3. QED
  BY <1>2, InitType, TurnFacts DEF AgreeInv, Agrees, OutInv, InInv, RestInv, ReadInv, Msg

LEMMA AgreeSuffices == AgreeInv => AgreeAtRest
<1> SUFFICES ASSUME AgreeInv, Quiet, ~crossed
             PROVE  gs = [store EXCEPT !.rate = Rate(store), !.presets = {}]
  BY DEF AgreeAtRest
<1>1. ~Pending(toStreamDeck, Turns) /\ ~Pending(toPlugin, Writes)
  BY SingleFacts DEF Quiet
<1>2. QED
  BY <1>1 DEF AgreeInv, Agrees, RestInv

\* Nothing that has to do with the settings comes or goes on the wires.
LEMMA AgreeElsewhere ==
  ASSUME AgreeInv, Types', UNCHANGED <<store, gs, crossed>>,
         Lasts(toStreamDeck', Turns) \subseteq Lasts(toStreamDeck, Turns),
         Lasts(toPlugin', Writes) \subseteq Lasts(toPlugin, Writes),
         \A k \in {Turns, Asks} : Pending(toStreamDeck', k) <=> Pending(toStreamDeck, k),
         Pending(toPlugin', Writes) <=> Pending(toPlugin, Writes)
  PROVE  AgreeInv'
<1>1. Rate(store)' = Rate(store)
  BY DEF Rate
<1>2. QED
  BY <1>1 DEF AgreeInv, Agrees, OutInv, InInv, RestInv, ReadInv

LEMMA AgreeCrash ==
  ASSUME AgreeInv, Types', Crash
  PROVE  AgreeInv'
<1>1. toStreamDeck' = Append(toStreamDeck, Msg("get", None))
  BY DEF Crash
<1>2. toStreamDeck \in Seq(MessagesToStreamDeck) /\ Msg("get", None) \in MessagesToStreamDeck
  BY SentTypes DEF AgreeInv, Types, WiresType
<1>3. Pending(toStreamDeck', Asks) /\ Lasts(toStreamDeck', Turns) = {Msg("get", None)}
  BY <1>1, <1>2, AppendLasts DEF Msg, Asks, Turns
<1>4. Pending(toStreamDeck', Turns)
  BY <1>3, TurnFacts
<1>5. QED
  BY <1>3, <1>4 DEF AgreeInv, Agrees, OutInv, InInv, RestInv, ReadInv, Msg

LEMMA AgreeDeliver ==
  ASSUME AgreeInv, Types', Deliver
  PROVE  AgreeInv'
<1> DEFINE m == Head(toStreamDeck)
<1>1. /\ toStreamDeck # <<>> /\ toStreamDeck \in Seq(MessagesToStreamDeck)
      /\ toPlugin \in Seq(MessagesToPlugin) /\ toStreamDeck' = Tail(toStreamDeck)
      /\ UNCHANGED <<gs, crossed>> /\ store \in Settings /\ gs \in Settings /\ gs.presets = {}
  BY DEF Deliver, AgreeInv, Types, StreamDeckType, WiresType, PluginType
<1>2. /\ m.kind \in {"settings", "tile", "get"}
      /\ m.kind = "settings" => m.value \in Settings
  BY <1>1, TailFacts, DeliveredTypes
<1>3. /\ \A k : Pending(toStreamDeck, k) <=> Pending(toStreamDeck', k) \/ m.kind \in k
      /\ \A k : Lasts(toStreamDeck', k) \subseteq Lasts(toStreamDeck, k)
      /\ \A k : m.kind \in k /\ ~Pending(toStreamDeck', k) => m \in Lasts(toStreamDeck, k)
  BY <1>1, TailLasts
<1>4. ASSUME m.kind = "get", ~crossed PROVE Agrees'
  <2>1. /\ toPlugin' = Append(toPlugin, Msg("settings", store)) /\ store' = store
        /\ Msg("settings", store) \in MessagesToPlugin
    BY <1>1, <1>4, SentTypes DEF Deliver, streamDeck
  <2>2. Pending(toPlugin', Writes) /\ Lasts(toPlugin', Writes) = {Msg("settings", store)}
    BY <1>1, <2>1, AppendLasts DEF Msg, Writes
  <2>3. Pending(toStreamDeck, Asks)
    BY <1>3, <1>4 DEF Asks
  <2>4. OutInv'
    BY <1>3, <1>4, <2>3 DEF AgreeInv, Agrees, OutInv
  <2>5. QED
    BY <2>1, <2>2, <2>4 DEF Agrees, InInv, RestInv, ReadInv, Msg
<1>5. ASSUME m.kind = "settings", ~crossed PROVE Agrees'
  <2>1. store' = m.value /\ toPlugin' = toPlugin
    BY <1>5 DEF Deliver
  <2>2. OutInv'
    BY <1>1, <1>3, <1>5, <2>1 DEF AgreeInv, Agrees, OutInv
  <2>3. ~Pending(toStreamDeck', Turns) =>
          m.value = gs /\ ~Pending(toStreamDeck, Asks) /\ ~Pending(toPlugin, Writes)
    BY <1>3, <1>5 DEF AgreeInv, Agrees, OutInv, Turns
  <2>4. InInv'
    <3>1. ASSUME NEW x \in Lasts(toPlugin, Writes) PROVE Pending(toPlugin, Writes)
      BY <3>1, LastsPending DEF Writes
    <3>2. QED
      BY <2>1, <2>3, <3>1 DEF InInv
  <2>5. RestInv'
    <3>1. ASSUME ~Pending(toStreamDeck', Turns)
          PROVE  gs = [m.value EXCEPT !.rate = Rate(m.value), !.presets = {}]
      <4>1. m.value = gs /\ gs.rate # None
        BY <1>5, <2>3, <3>1 DEF AgreeInv, Agrees, ReadInv
      <4>2. gs = [gs EXCEPT !.rate = gs.rate, !.presets = {}]
        BY <1>1 DEF Settings
      <4>3. QED
        BY <4>1, <4>2 DEF Rate
    <3>2. Rate(store)' = Rate(m.value)
      BY <2>1 DEF Rate
    <3>3. QED
      BY <1>1, <2>1, <3>1, <3>2 DEF RestInv
  <2>6. ReadInv'
    BY <1>1, <1>3, <1>5, <2>1 DEF AgreeInv, Agrees, ReadInv, Asks
  <2>7. QED
    BY <2>2, <2>4, <2>5, <2>6 DEF Agrees
<1>6. CASE m.kind = "tile"
  <2>1. /\ UNCHANGED <<store, gs, crossed, toPlugin>>
        /\ \A k \in {Turns, Asks} : Pending(toStreamDeck', k) <=> Pending(toStreamDeck, k)
    BY <1>1, <1>3, <1>6 DEF Deliver, Turns, Asks
  <2>2. QED
    BY <1>3, <2>1, AgreeElsewhere
<1>7. QED
  BY <1>1, <1>2, <1>4, <1>5, <1>6 DEF AgreeInv

LEMMA ConcatLasts ==
  ASSUME NEW S, NEW w \in Seq(S), NEW a \in S, NEW b \in S
  PROVE  /\ w \o <<>> = w /\ w \o <<a>> = Append(w, a)
         /\ w \o <<a, b>> = Append(Append(w, a), b)
OBVIOUS

LEMMA AgreeOverwrite ==
  ASSUME AgreeInv, Types', NEW s \in Settings, NEW follows, Overwrite(s, follows),
         follows = <<>> \/ \E r \in Rates : follows = <<Msg("rate", r)>>
  PROVE  AgreeInv'
<1> DEFINE v == Append(toPlugin, Msg("settings", s))
<1>1. /\ toPlugin \in Seq(MessagesToPlugin) /\ Msg("settings", s) \in MessagesToPlugin
      /\ v \in Seq(MessagesToPlugin)
  BY SentTypes, AppendFacts DEF AgreeInv, Types, WiresType
<1>2. Pending(v, Writes) /\ Lasts(v, Writes) = {Msg("settings", s)}
  BY <1>1, AppendLasts DEF Msg, Writes
<1> HIDE DEF v
<1>3. toPlugin' = v \o follows /\ store' = s /\ UNCHANGED <<toStreamDeck, gs>>
  BY DEF Overwrite, v
<1>4. Pending(toPlugin', Writes) /\ Lasts(toPlugin', Writes) = {Msg("settings", s)}
  <2>1. CASE follows = <<>>
    BY <1>1, <1>2, <1>3, <2>1, ConcatLasts
  <2>2. ASSUME NEW r \in Rates, follows = <<Msg("rate", r)>>
        PROVE  Pending(toPlugin', Writes) /\ Lasts(toPlugin', Writes) = {Msg("settings", s)}
    <3>1. Msg("rate", r) \in MessagesToPlugin /\ Msg("rate", r).kind \notin Writes
      BY SentTypes DEF Msg, Writes
    <3>2. toPlugin' = Append(v, Msg("rate", r))
      BY <1>1, <1>3, <2>2, <3>1, ConcatLasts
    <3>3. QED
      BY <1>1, <1>2, <3>1, <3>2, AppendLasts
  <2>3. QED
    BY <2>1, <2>2
<1>5. ~crossed' => ~crossed /\ ~Pending(toStreamDeck, Writes)
  BY DEF Overwrite, Writes
<1>6. ~Pending(toStreamDeck, Writes) => \A m \in Lasts(toStreamDeck, Turns) : m.kind # "settings"
  BY LastsPending DEF Writes
<1>7. QED
  BY <1>3, <1>4, <1>5, <1>6 DEF AgreeInv, Agrees, OutInv, InInv, RestInv, ReadInv, Msg

LEMMA AgreeUser ==
  ASSUME AgreeInv, Types', User
  PROVE  AgreeInv'
<1>1. toPlugin \in Seq(MessagesToPlugin)
  BY DEF AgreeInv, Types, WiresType
<1>2. ASSUME NEW m \in MessagesToPlugin, m.kind # "settings", toPlugin' = Append(toPlugin, m),
             UNCHANGED <<store, gs, crossed, toStreamDeck>>
      PROVE  AgreeInv'
  <2>1. /\ Pending(toPlugin', Writes) <=> Pending(toPlugin, Writes)
        /\ Lasts(toPlugin', Writes) = Lasts(toPlugin, Writes)
    BY <1>1, <1>2, AppendLasts DEF Writes
  <2>2. QED
    BY <1>2, <2>1, AgreeElsewhere
<1>3. ASSUME NEW r \in Rates, ChangeRate(r) PROVE AgreeInv'
  <2>1. [NoSettings EXCEPT !.rate = r] \in Settings
    BY DEF NoSettings, Settings, Libraries
  <2>2. QED
    BY <1>3, <2>1, AgreeOverwrite DEF ChangeRate
<1>4. ASSUME NEW ps \in SUBSET Presets, SavePreset(ps) PROVE AgreeInv'
  <2>1. [NoSettings EXCEPT !.presets = ps] \in Settings
    BY DEF NoSettings, Settings, Libraries, AgreeInv, Types, StreamDeckType
  <2>2. QED
    BY <1>4, <2>1, AgreeOverwrite DEF SavePreset
<1>5. ASSUME NEW m \in MessagesToPlugin, m.kind # "settings", Request(m) PROVE AgreeInv'
  BY <1>2, <1>5 DEF Request, streamDeck
<1>6. ASSUME NEW l \in Looks, SaveLook(l) PROVE AgreeInv'
  <2>1. savedTile' \in Tiles
    BY <1>6 DEF SaveLook, Tiles
  <2>2. /\ Msg("tile", savedTile') \in MessagesToPlugin /\ Msg("look", l) \in MessagesToPlugin
        /\ Msg("tile", savedTile').kind \notin Writes /\ Msg("look", l).kind \notin Writes
    BY <2>1, SentTypes DEF Msg, Writes
  <2>3. toPlugin' = Append(Append(toPlugin, Msg("tile", savedTile')), Msg("look", l))
    BY <1>1, <1>6, <2>2, ConcatLasts DEF SaveLook
  <2>4. Append(toPlugin, Msg("tile", savedTile')) \in Seq(MessagesToPlugin)
    BY <1>1, <2>2, AppendFacts
  <2>5. /\ Pending(toPlugin', Writes) <=> Pending(toPlugin, Writes)
        /\ Lasts(toPlugin', Writes) = Lasts(toPlugin, Writes)
    <3> DEFINE v == Append(toPlugin, Msg("tile", savedTile'))
    <3>1. /\ Pending(v, Writes) <=> Pending(toPlugin, Writes)
          /\ Lasts(v, Writes) = Lasts(toPlugin, Writes)
      BY <1>1, <2>2, AppendLasts
    <3>2. v \in Seq(MessagesToPlugin) /\ toPlugin' = Append(v, Msg("look", l))
      BY <2>3, <2>4
    <3> HIDE DEF v
    <3>3. QED
      BY <2>2, <3>1, <3>2, AppendLasts
  <2>6. QED
    BY <1>6, <2>5, AgreeElsewhere DEF SaveLook
<1>7. ASSUME NEW t \in Titles, SetTitle(t) PROVE AgreeInv'
  BY <1>2, <1>7, SentTypes DEF SetTitle, streamDeck, Msg
<1>8. CASE Hide
  BY <1>2, <1>8, SentTypes DEF Hide, Msg
<1>9. CASE Show
  BY <1>2, <1>9, SentTypes DEF Show, Msg, AgreeInv, Types, StreamDeckType
<1>10. QED
  <2>1. CASE Request(Msg("add", None)) \/ \E i \in Ids : Request(Msg("remove", i))
    BY <1>5, <2>1, SentTypes DEF Msg
  <2>2. CASE \E i \in Ids, v \in Values : Request(Msg("update", [id |-> i, value |-> v]))
    BY <1>5, <2>2, SentTypes DEF Msg
  <2>3. CASE \E f \in Favorites : Request(Msg("toggle", f)) \/ Request(Msg("unfavorite", f))
    BY <1>5, <2>3, SentTypes DEF Msg
  <2>4. QED
    BY <1>3, <1>4, <1>6, <1>7, <1>8, <1>9, <2>1, <2>2, <2>3 DEF User

\* The plugin writes its settings back, or fails to.
LEMMA AgreeWrite ==
  ASSUME AgreeInv, Types', SetGlobalSettings(gs'), UNCHANGED store, gs'.rate # None,
         Pending(toPlugin, Writes) <=> Pending(toPlugin', Writes)
  PROVE  AgreeInv'
<1> DEFINE m == Msg("settings", gs')
<1>1. CASE crossed' = TRUE
  BY <1>1 DEF AgreeInv
<1>2. CASE /\ toStreamDeck' = Append(toStreamDeck, m)
           /\ crossed' = (crossed \/ Pending(toPlugin', Writes) \/ Pending(toStreamDeck, Asks))
  <2>1. m \in MessagesToStreamDeck /\ toStreamDeck \in Seq(MessagesToStreamDeck)
    BY SentTypes DEF AgreeInv, Types, WiresType, PluginType
  <2>2. m.kind = "settings" /\ m.value = gs' /\ m.kind \in Turns /\ m.kind \notin Asks
    BY DEF Msg, Turns, Asks
  <2>3. /\ Lasts(toStreamDeck', Turns) = {m} /\ Pending(toStreamDeck', Turns)
        /\ Pending(toStreamDeck', Asks) <=> Pending(toStreamDeck, Asks)
    BY <1>2, <2>1, <2>2, AppendLasts
  <2>4. ASSUME ~crossed' PROVE ~Pending(toPlugin', Writes) /\ ~Pending(toStreamDeck', Asks)
    BY <1>2, <2>3, <2>4
  <2>5. QED
    BY <2>2, <2>3, <2>4 DEF AgreeInv, Agrees, OutInv, InInv, RestInv, ReadInv
<1>3. QED
  BY <1>1, <1>2 DEF SetGlobalSettings, Writes, Asks

LEMMA AgreeReceive ==
  ASSUME AgreeInv, Types', toPlugin # <<>>, toPlugin' = Tail(toPlugin), UNCHANGED store,
         Head(toPlugin).kind = "settings", OnDidReceiveGlobalSettings(Head(toPlugin).value)
  PROVE  AgreeInv'
<1> DEFINE m == Head(toPlugin)  s == m.value
<1>1. m \in MessagesToPlugin /\ s \in Settings /\ toPlugin \in Seq(MessagesToPlugin)
  BY TailFacts, ReceivedTypes DEF AgreeInv, Types, WiresType
<1>2. /\ Pending(toPlugin, Writes) /\ Lasts(toPlugin', Writes) \subseteq Lasts(toPlugin, Writes)
      /\ ~Pending(toPlugin', Writes) => m \in Lasts(toPlugin, Writes)
  BY <1>1, TailLasts DEF Writes
<1>3. gs' = [s EXCEPT !.rate = Rate(s), !.presets = {}] /\ UNCHANGED <<toStreamDeck, crossed>>
  BY DEF OnDidReceiveGlobalSettings, Quietly
<1>4. gs'.rate # None
  BY <1>1, <1>3, RateType, ValuesAssumption DEF Settings
<1>5. ASSUME Agrees PROVE Agrees'
  <2>1. OutInv'
    BY <1>2, <1>3, <1>5 DEF Agrees, OutInv
  <2>2. InInv'
    BY <1>2, <1>3, <1>5 DEF Agrees, InInv
  <2>3. RestInv'
    <3>1. ASSUME ~Pending(toStreamDeck, Turns), ~Pending(toPlugin', Writes) PROVE s = store
      BY <1>2, <1>5, <3>1 DEF Agrees, InInv
    <3>2. Rate(store)' = Rate(store)
      BY DEF Rate
    <3>3. QED
      BY <1>3, <3>1, <3>2 DEF RestInv
  <2>4. QED
    BY <1>4, <2>1, <2>2, <2>3 DEF Agrees, ReadInv
<1>6. QED
  BY <1>3, <1>5 DEF AgreeInv

\* A handler of another message, which may save the tile.
LEMMA AgreeTile ==
  ASSUME AgreeInv, Types', UNCHANGED <<store, gs, crossed>>,
         Pending(toPlugin', Writes) <=> Pending(toPlugin, Writes),
         Lasts(toPlugin', Writes) \subseteq Lasts(toPlugin, Writes),
         \/ UNCHANGED toStreamDeck
         \/ \E s \in Tiles : toStreamDeck' = Append(toStreamDeck, Msg("tile", s))
  PROVE  AgreeInv'
<1>1. CASE UNCHANGED toStreamDeck
  BY <1>1, AgreeElsewhere
<1>2. ASSUME NEW s \in Tiles, toStreamDeck' = Append(toStreamDeck, Msg("tile", s)) PROVE AgreeInv'
  <2>1. /\ Msg("tile", s) \in MessagesToStreamDeck /\ toStreamDeck \in Seq(MessagesToStreamDeck)
        /\ Msg("tile", s).kind \notin Turns /\ Msg("tile", s).kind \notin Asks
    BY SentTypes DEF AgreeInv, Types, WiresType, Msg, Turns, Asks
  <2>2. /\ Lasts(toStreamDeck', Turns) = Lasts(toStreamDeck, Turns)
        /\ Pending(toStreamDeck', Turns) <=> Pending(toStreamDeck, Turns)
        /\ Pending(toStreamDeck', Asks) <=> Pending(toStreamDeck, Asks)
    BY <1>2, <2>1, AppendLasts
  <2>3. QED
    BY <2>2, AgreeElsewhere
<1>3. QED
  BY <1>1, <1>2

LEMMA AgreeHandle ==
  ASSUME AgreeInv, Types', Handle
  PROVE  AgreeInv'
<1> DEFINE m == Head(toPlugin)
<1>1. /\ toPlugin # <<>> /\ toPlugin' = Tail(toPlugin) /\ UNCHANGED store
      /\ toPlugin \in Seq(MessagesToPlugin) /\ m \in MessagesToPlugin /\ Types
  BY TailFacts DEF Handle, streamDeck, AgreeInv, Types, WiresType
<1>2. CASE m.kind = "settings" /\ OnDidReceiveGlobalSettings(m.value)
  BY <1>1, <1>2, AgreeReceive
<1>3. m.kind # "settings" =>
        /\ Pending(toPlugin', Writes) <=> Pending(toPlugin, Writes)
        /\ Lasts(toPlugin', Writes) \subseteq Lasts(toPlugin, Writes)
  BY <1>1, TailLasts DEF Writes
<1>4. CASE \/ m.kind = "add" /\ handleGlobalAddThreshold
           \/ m.kind = "remove" /\ handleGlobalRemoveThreshold(m.value)
           \/ m.kind = "update" /\ handleGlobalThresholdUpdate(m.value)
           \/ m.kind = "toggle" /\ toggleFavoriteSelection(m.value)
           \/ m.kind = "unfavorite" /\ removeFavorite(m.value)
  <2>1. gs'.rate = gs.rate /\ Saved
    BY <1>1, <1>4, ListsKeepRate
  <2>2. CASE crossed'
    BY <2>2 DEF AgreeInv
  <2>3. CASE ~crossed'
    <3>1. SetGlobalSettings(gs') /\ m.kind # "settings"
      BY <1>4, <2>1 DEF Saved
    <3>2. ~crossed /\ ~Pending(toPlugin, Writes) /\ ~Pending(toStreamDeck, Asks)
      BY <1>3, <2>3, <3>1 DEF SetGlobalSettings, Writes, Asks
    <3>3. gs'.rate # None
      BY <2>1, <3>2 DEF AgreeInv, Agrees, ReadInv
    <3>4. QED
      BY <1>1, <1>3, <3>1, <3>3, AgreeWrite
  <2>4. QED
    BY <2>2, <2>3
<1>5. CASE \/ m.kind = "rate" /\ setPollInterval(m.value)
           \/ m.kind = "hide" /\ OnWillDisappear
           \/ Ignored(m)
  <2>1. m.kind # "settings" /\ UNCHANGED <<gs, crossed, toStreamDeck>>
    BY <1>5 DEF setPollInterval, OnWillDisappear, Ignored, Quietly
  <2>2. QED
    BY <1>1, <1>3, <2>1, AgreeTile
<1>6. ASSUME NEW s \in [title : Titles, look : Looks], NEW save, TileBecomes(s, save),
             m.kind # "settings"
      PROVE  AgreeInv'
  <2>1. s \in Tiles
    BY DEF Tiles
  <2>2. /\ UNCHANGED <<gs, crossed>>
        /\ UNCHANGED toStreamDeck \/ toStreamDeck' = Append(toStreamDeck, Msg("tile", s))
    BY <1>6 DEF TileBecomes
  <2>3. QED
    BY <1>1, <1>3, <1>6, <2>1, <2>2, AgreeTile
<1>7. CASE \/ m.kind = "appear" /\ OnWillAppear(m.value)
           \/ m.kind = "tile" /\ OnDidReceiveSettings(m.value)
  <2>1. Merged(m.value) \in [title : Titles, look : Looks]
    BY <1>1, <1>7, ReceivedTypes, MergedType
  <2>2. QED
    BY <1>6, <1>7, <2>1 DEF OnWillAppear, OnDidReceiveSettings
<1>8. CASE m.kind = "look" /\ updateTileAppearance(m.value)
  <2>1. [title |-> None, look |-> m.value] \in Tiles
    BY <1>1, <1>8, ReceivedTypes DEF Tiles
  <2>2. QED
    BY <1>1, <1>6, <1>8, <2>1, MergedType DEF updateTileAppearance
<1>9. CASE m.kind = "title" /\ OnTitleParametersDidChange(m.value)
  <2>1. PICK l \in Looks : TileBecomes([title |-> m.value, look |-> l], TRUE)
    BY <1>9 DEF OnTitleParametersDidChange
  <2>2. m.value \in Titles
    BY <1>1, <1>9, ReceivedTypes
  <2>3. QED
    BY <1>6, <1>9, <2>1, <2>2
<1>10. QED
  BY <1>2, <1>4, <1>5, <1>7, <1>8, <1>9 DEF Handle

LEMMA AgreeFinish ==
  ASSUME AgreeInv, Types', Finish
  PROVE  AgreeInv'
<1>1. UNCHANGED <<store, toPlugin>>
  BY DEF Finish, streamDeck
<1>2. CASE task.persist
  <2>1. task.rate \in Rates /\ gs \in Settings /\ gs.presets = {}
    BY DEF AgreeInv, Types, PluginType, TaskType, Finish
  <2>2. gs' = [gs EXCEPT !.rate = task.rate] /\ SetGlobalSettings(gs')
    BY <1>2 DEF Finish
  <2>3. gs'.rate # None
    <3>1. [gs EXCEPT !.rate = task.rate].rate = task.rate
      BY <2>1 DEF Settings
    <3>2. QED
      BY <2>1, <2>2, <3>1, ValuesAssumption
  <2>4. QED
    BY <1>1, <2>2, <2>3, AgreeWrite
<1>3. CASE ~task.persist
  BY <1>1, <1>3, AgreeElsewhere DEF Finish, Quietly
<1>4. QED
  BY <1>2, <1>3

LEMMA AgreeNext == AgreeInv /\ [Next]_vars => AgreeInv'
<1> SUFFICES ASSUME AgreeInv, [Next]_vars PROVE AgreeInv'
  OBVIOUS
<1>1. Types'
  BY NextType DEF AgreeInv
<1>2. CASE UNCHANGED vars \/ SetInterval \/ Send \/ Full \/ Drain \/ Run
  <2>1. UNCHANGED <<store, wires, gs, crossed>>
    BY <1>2 DEF vars, streamDeck, SetInterval, Send, Full, Drain, Sending, Run, Update, Updated,
                Receive, Apply, Elsewhere
  <2>2. QED
    BY <1>1, <2>1, AgreeElsewhere DEF wires
<1>3. QED
  BY <1>1, <1>2, AgreeDeliver, AgreeCrash, AgreeUser, AgreeHandle, AgreeFinish
     DEF Next, EventLoop

\* Unless a write crossed another one or failed, the plugin ends up with the settings that
\* Stream Deck will give it when it starts again, whatever was under way in between.
THEOREM RestsOnStored == Spec => []AgreeAtRest
<1>1. Spec => []AgreeInv
  BY AgreeInit, AgreeNext, PTL DEF Spec
<1>2. QED
  BY <1>1, AgreeSuffices, PTL

-----------------------------------------------------------------------------
(* The title.  A tile appears before the other messages about it and goes  *)
(* after them, and the last change the plugin saves has the title that the *)
(* user gave last.                                                         *)

Titling   == {"title"}
Appearing == {"appear"}
Hiding    == {"hide"}
Keeping   == {"tile"}
Changes   == {"tile", "look", "title"}
AboutTile == {"tile", "look", "title", "appear", "hide"}

\* The order of the messages about the tile, and which of them have a title.
Orderly(w) ==
  /\ \A i, j \in DOMAIN w : i < j =>
       /\ w[j].kind = "appear" => w[i].kind \notin AboutTile
       /\ w[i].kind = "hide" => w[j].kind \notin AboutTile
  /\ \A i \in DOMAIN w :
       /\ w[i].kind = "tile" => w[i].value.title = None
       /\ w[i].kind = "appear" => w[i].value.title # None

\* What Stream Deck will have for the tile when it has heard all.
Kept ==
  IF Pending(toStreamDeck, Keeping)
  THEN {m.value : m \in Lasts(toStreamDeck, Keeping)} ELSE {savedTile}

ShownInv ==
  /\ visible <=> ~Pending(toPlugin, Hiding) /\ (tile # None \/ Pending(toPlugin, Appearing))
  /\ Pending(toPlugin, Appearing) => tile = None
  /\ Pending(toPlugin, AboutTile) => tile # None \/ Pending(toPlugin, Appearing)

TitledInv ==
  /\ \A m \in Lasts(toPlugin, Titling) : m.value = title
  /\ ~Pending(toPlugin, Titling) =>
       /\ tile # None => tile.settings.title = title
       /\ \A m \in Lasts(toPlugin, Appearing) : m.value.title = title

StoredInv ==
  ~Pending(toPlugin, Changes) =>
    /\ tile # None => Kept \subseteq {tile.settings}
    /\ tile = None => \A s \in Kept : s.title = title
    /\ \A m \in Lasts(toPlugin, Appearing) : Kept \subseteq {m.value}

Titled == Orderly(toPlugin) /\ ShownInv /\ TitledInv /\ StoredInv

TitleInv == Types /\ (crashes = 0 /\ failures = 0 => Titled)

KindSets == {Titling, Appearing, Hiding, Changes, AboutTile}

\* v says of the tile what w does.
Alike(v, w) ==
  /\ Orderly(w) => Orderly(v)
  /\ \A k \in KindSets :
       (Pending(v, k) <=> Pending(w, k)) /\ Lasts(v, k) \subseteq Lasts(w, k)

LEMMA OrderlyAppend ==
  ASSUME NEW S, NEW w \in Seq(S), NEW m \in S, Orderly(w),
         m.kind = "appear" => ~Pending(w, AboutTile) /\ m.value.title # None,
         m.kind \in AboutTile => ~Pending(w, Hiding),
         m.kind = "tile" => m.value.title = None
  PROVE  Orderly(Append(w, m))
<1> DEFINE v == Append(w, m)
<1>1. /\ DOMAIN w = 1..Len(w) /\ Len(w) \in Nat
      /\ DOMAIN v = 1..(Len(w) + 1)
      /\ (\A i \in 1..Len(w) : v[i] = w[i]) /\ v[Len(w) + 1] = m
  BY AppendFacts
<1> HIDE DEF v
<1>2. ASSUME NEW i \in DOMAIN v, NEW j \in DOMAIN v, i < j
      PROVE  /\ v[j].kind = "appear" => v[i].kind \notin AboutTile
             /\ v[i].kind = "hide" => v[j].kind \notin AboutTile
  <2>1. i \in DOMAIN w /\ v[i] = w[i]
    BY <1>1, <1>2
  <2>2. CASE j \in DOMAIN w
    BY <1>1, <1>2, <2>1, <2>2 DEF Orderly
  <2>3. CASE v[j] = m
    <3>1. m.kind = "appear" => w[i].kind \notin AboutTile
      BY <2>1 DEF Pending
    <3>2. w[i].kind = "hide" => m.kind \notin AboutTile
      BY <2>1 DEF Pending, Hiding
    <3>3. QED
      BY <2>1, <2>3, <3>1, <3>2
  <2>4. QED
    BY <1>1, <2>2, <2>3
<1>3. ASSUME NEW i \in DOMAIN v
      PROVE  /\ v[i].kind = "tile" => v[i].value.title = None
             /\ v[i].kind = "appear" => v[i].value.title # None
  BY <1>1 DEF Orderly
<1>4. QED
  BY <1>2, <1>3 DEF Orderly, v

LEMMA OrderlyTail ==
  ASSUME NEW S, NEW w \in Seq(S), w # <<>>, Orderly(w)
  PROVE  /\ Orderly(Tail(w))
         /\ Head(w).kind \in AboutTile => ~Pending(Tail(w), Appearing)
         /\ Head(w).kind = "hide" => ~Pending(Tail(w), AboutTile)
         /\ Head(w).kind = "tile" => Head(w).value.title = None
         /\ Head(w).kind = "appear" => Head(w).value.title # None
<1> DEFINE v == Tail(w)  h == Head(w)
<1>1. /\ h = w[1] /\ DOMAIN w = 1..Len(w) /\ Len(w) \in Nat /\ 1 <= Len(w)
      /\ DOMAIN v = 1..(Len(w) - 1)
      /\ \A i \in 1..(Len(w) - 1) : v[i] = w[i + 1]
  BY TailFacts
<1> HIDE DEF v, h
<1>2. \A i \in DOMAIN v : i + 1 \in DOMAIN w /\ v[i] = w[i + 1] /\ 1 < i + 1
  BY <1>1
<1>3. 1 \in DOMAIN w /\ \A i, j \in DOMAIN v : i < j => i + 1 < j + 1
  BY <1>1
<1>4. Orderly(v)
  BY <1>2, <1>3 DEF Orderly
<1>5. h.kind \in AboutTile => ~Pending(v, Appearing)
  BY <1>1, <1>2, <1>3 DEF Orderly, Pending, Appearing
<1>6. h.kind = "hide" => ~Pending(v, AboutTile)
  BY <1>1, <1>2, <1>3 DEF Orderly, Pending
<1>7. /\ h.kind = "tile" => h.value.title = None
      /\ h.kind = "appear" => h.value.title # None
  BY <1>1, <1>3 DEF Orderly
<1>8. QED
  BY <1>4, <1>5, <1>6, <1>7 DEF v, h

LEMMA AlikeFacts ==
  /\ \A w : Alike(w, w)
  /\ \A v, w, u : Alike(v, w) /\ Alike(w, u) => Alike(v, u)
BY DEF Alike

LEMMA AlikeAppend ==
  ASSUME NEW S, NEW w \in Seq(S), NEW m \in S, m.kind \notin AboutTile
  PROVE  Alike(Append(w, m), w)
<1>1. Orderly(w) => Orderly(Append(w, m))
  BY OrderlyAppend DEF AboutTile
<1>2. \A k \in KindSets : m.kind \notin k
  BY DEF KindSets, AboutTile, Titling, Appearing, Hiding, Changes
<1>3. QED
  BY <1>1, <1>2, AppendLasts DEF Alike

LEMMA AlikeTail ==
  ASSUME NEW S, NEW w \in Seq(S), w # <<>>, Head(w).kind \notin AboutTile
  PROVE  Alike(Tail(w), w)
<1>1. \A k \in KindSets : Head(w).kind \notin k
  BY DEF KindSets, AboutTile, Titling, Appearing, Hiding, Changes
<1>2. QED
  BY <1>1, OrderlyTail, TailLasts DEF Alike

LEMMA KeptSend ==
  ASSUME Types, NEW m \in MessagesToStreamDeck, toStreamDeck' = Append(toStreamDeck, m),
         UNCHANGED savedTile
  PROVE  /\ m.kind # "tile" => Kept' = Kept
         /\ m.kind = "tile" => Kept' = {m.value}
<1>1. toStreamDeck \in Seq(MessagesToStreamDeck)
  BY DEF Types, WiresType
<1>2. /\ Pending(toStreamDeck', Keeping) <=> Pending(toStreamDeck, Keeping) \/ m.kind = "tile"
      /\ m.kind = "tile" => Lasts(toStreamDeck', Keeping) = {m}
      /\ m.kind # "tile" => Lasts(toStreamDeck', Keeping) = Lasts(toStreamDeck, Keeping)
  BY <1>1, AppendLasts DEF Keeping
<1>3. m.kind # "tile" => Kept' = Kept
  BY <1>2 DEF Kept
<1>4. m.kind = "tile" => Kept' = {m.value}
  BY <1>2 DEF Kept
<1>5. QED
  BY <1>3, <1>4

LEMMA KeptDeliver ==
  ASSUME Types, Deliver
  PROVE  Kept' \subseteq Kept
<1> DEFINE m == Head(toStreamDeck)
<1>1. /\ toStreamDeck \in Seq(MessagesToStreamDeck) /\ toStreamDeck # <<>>
      /\ toStreamDeck' = Tail(toStreamDeck) /\ m \in MessagesToStreamDeck
      /\ m.kind \in {"settings", "tile", "get"}
  BY TailFacts, DeliveredTypes DEF Types, WiresType, Deliver
<1>2. /\ Pending(toStreamDeck, Keeping) <=> Pending(toStreamDeck', Keeping) \/ m.kind \in Keeping
      /\ Lasts(toStreamDeck', Keeping) \subseteq Lasts(toStreamDeck, Keeping)
      /\ m.kind \in Keeping /\ ~Pending(toStreamDeck', Keeping) =>
           m \in Lasts(toStreamDeck, Keeping)
  BY <1>1, TailLasts
<1>3. m.kind = "tile" => savedTile' = m.value
  BY <1>1 DEF Deliver
<1>4. m.kind # "tile" => UNCHANGED savedTile
  BY <1>1 DEF Deliver, streamDeck
<1>5. QED
  BY <1>2, <1>3, <1>4 DEF Kept, Keeping

\* Nothing happens to the tile, and Stream Deck gets no other settings of it.
LEMMA TitleElsewhere ==
  ASSUME TitleInv, Types', UNCHANGED <<visible, title>>,
         crashes' = 0 /\ failures' = 0 => crashes = 0 /\ failures = 0,
         tile' = None <=> tile = None, tile # None => tile'.settings = tile.settings,
         Kept' \subseteq Kept, Alike(toPlugin', toPlugin)
  PROVE  TitleInv'
<1> SUFFICES ASSUME crashes' = 0, failures' = 0 PROVE Titled'
  BY DEF TitleInv
<1>1. Titled
  BY DEF TitleInv
<1>2. Orderly(toPlugin')
  BY <1>1 DEF Titled, Alike
<1>3. \A k \in {Titling, Appearing, Hiding, Changes, AboutTile} :
        /\ Pending(toPlugin', k) <=> Pending(toPlugin, k)
        /\ Lasts(toPlugin', k) \subseteq Lasts(toPlugin, k)
  BY DEF Alike, KindSets
<1>4. ShownInv'
  BY <1>1, <1>3 DEF Titled, ShownInv
<1>5. TitledInv'
  BY <1>1, <1>3 DEF Titled, TitledInv
<1>6. StoredInv'
  BY <1>1, <1>3 DEF Titled, StoredInv
<1>7. QED
  BY <1>2, <1>4, <1>5, <1>6 DEF Titled

LEMMA DrawnTile ==
  ASSUME NEW t \in [settings : [title : Titles, look : Looks], drawn : Rates],
         NEW g \in Settings, interval \in Rates
  PROVE  Drawn(t, g) # None /\ Drawn(t, g).settings = t.settings
<1>1. t # None
  BY NoneAssumption
<1>2. Drawn(t, g) = [t EXCEPT !.drawn = IF g.rate = None THEN interval ELSE g.rate]
  BY <1>1 DEF Drawn
<1>3. (IF g.rate = None THEN interval ELSE g.rate) \in Rates
  BY DEF Settings
<1>4. Drawn(t, g) \in [settings : [title : Titles, look : Looks], drawn : Rates]
      /\ Drawn(t, g).settings = t.settings
  BY <1>2, <1>3
<1>5. QED
  BY <1>4, NoneAssumption

LEMMA DrawnAgain ==
  ASSUME Types, NEW g \in Settings, tile' = Drawn(tile, g)
  PROVE  (tile' = None <=> tile = None) /\ (tile # None => tile'.settings = tile.settings)
BY DrawnTile DEF Types, PluginType, TileType, TickerType, Drawn

\* The tile shows what it becomes, and unless that fails, what is saved is on its way.
LEMMA BecomesFacts ==
  ASSUME Types, NEW s \in [title : Titles, look : Looks], NEW save, TileBecomes(s, save)
  PROVE  /\ tile' # None /\ tile'.settings = s
         /\ ~save => UNCHANGED <<toStreamDeck, failures>>
         /\ save /\ failures' = 0 =>
              failures = 0 /\ toStreamDeck' = Append(toStreamDeck, Msg("tile", s))
<1>1. [settings |-> s, drawn |-> interval] \in
        [settings : [title : Titles, look : Looks], drawn : Rates]
      /\ interval \in Rates /\ gs \in Settings
  BY DEF Types, TickerType, PluginType
<1>2. [settings |-> s, drawn |-> interval].settings = s
  OBVIOUS
<1>3. tile' # None /\ tile'.settings = s
  BY <1>1, <1>2, DrawnTile DEF TileBecomes
<1>4. failures \in Nat
  BY BoundsAssumption DEF Types, HistoryType
<1>5. QED
  BY <1>3, <1>4 DEF TileBecomes

LEMMA TitleInit == Init => TitleInv
<1> SUFFICES ASSUME Init PROVE TitleInv
  OBVIOUS
<1> DEFINE m == Msg("appear", savedTile)
<1>1. /\ toPlugin = <<m>> /\ m.kind = "appear" /\ m.value = savedTile
      /\ savedTile.title = title /\ visible = TRUE /\ tile = None
  BY DEF Init, Msg
<1>2. savedTile.title # None
  BY <1>1, ValuesAssumption DEF Init
<1>3. \A k : /\ Pending(toPlugin, k) <=> m.kind \in k
             /\ Lasts(toPlugin, k) \subseteq {m}
  BY <1>1, SingleFacts
<1>4. Orderly(toPlugin)
  BY <1>1, <1>2 DEF Orderly
<1>5. ~Pending(toStreamDeck, Keeping) /\ Kept = {savedTile}
  <2>1. toStreamDeck = <<Msg("get", None)>>
    BY DEF Init
  <2>2. ~Pending(toStreamDeck, Keeping)
    BY <2>1, SingleFacts DEF Msg, Keeping
  <2>3. QED
    BY <2>2 DEF Kept
<1>6. ShownInv
  BY <1>1, <1>3 DEF ShownInv, Hiding, Appearing
<1>7. TitledInv
  BY <1>1, <1>3 DEF TitledInv, Lasts, IsLast, Titling
<1>8. StoredInv
  BY <1>1, <1>3, <1>5 DEF StoredInv
<1>9. QED
  BY <1>4, <1>6, <1>7, <1>8, InitType DEF TitleInv, Titled

LEMMA TitleSuffices == TitleInv => TitlePersists
<1> SUFFICES ASSUME TitleInv, Quiet, crashes = 0, failures = 0
             PROVE  savedTile.title = title /\ (tile # None => tile.settings = savedTile)
  BY DEF TitlePersists
<1>1. \A k : ~Pending(toPlugin, k) /\ ~Pending(toStreamDeck, k)
  BY SingleFacts DEF Quiet
<1>2. Kept = {savedTile}
  BY <1>1 DEF Kept
<1>3. Titled
  BY DEF TitleInv
<1>4. (tile # None => tile.settings = savedTile) /\ (tile = None => savedTile.title = title)
  BY <1>1, <1>2, <1>3 DEF Titled, StoredInv
<1>5. tile # None => tile.settings.title = title
  BY <1>1, <1>3 DEF Titled, TitledInv
<1>6. QED
  BY <1>4, <1>5

\* While the tile shows, the user may change it or hide it.
LEMMA VisibleFacts ==
  ASSUME TitleInv, crashes = 0, failures = 0, visible
  PROVE  /\ toPlugin \in Seq(MessagesToPlugin) /\ Titled
         /\ ~Pending(toPlugin, Hiding) /\ (tile # None \/ Pending(toPlugin, Appearing))
BY DEF TitleInv, Titled, ShownInv, Types, WiresType

LEMMA KeptSame ==
  ASSUME UNCHANGED <<savedTile, toStreamDeck>>
  PROVE  Kept' = Kept
BY DEF Kept

LEMMA TitleLook ==
  ASSUME TitleInv, Types', NEW l \in Looks, SaveLook(l)
  PROVE  TitleInv'
<1> SUFFICES ASSUME crashes' = 0, failures' = 0 PROVE Titled'
  BY DEF TitleInv
<1> DEFINE a == Msg("tile", savedTile')  b == Msg("look", l)  v == Append(toPlugin, a)
<1>1. /\ visible /\ UNCHANGED <<visible, tile, title>> /\ crashes = 0 /\ failures = 0
      /\ savedTile' = [title |-> None, look |-> l]
  BY DEF SaveLook, history
<1>2. /\ toPlugin \in Seq(MessagesToPlugin) /\ Titled
      /\ ~Pending(toPlugin, Hiding) /\ (tile # None \/ Pending(toPlugin, Appearing))
  BY <1>1, VisibleFacts
<1>3. /\ a \in MessagesToPlugin /\ a.kind = "tile" /\ a.value.title = None
      /\ b \in MessagesToPlugin /\ b.kind = "look"
  <2>1. savedTile' \in Tiles
    BY <1>1 DEF Tiles
  <2>2. QED
    BY <1>1, <2>1, SentTypes DEF Msg
<1> HIDE DEF a, b
<1>4. v \in Seq(MessagesToPlugin) /\ toPlugin' = Append(v, b)
  <2>1. toPlugin' = toPlugin \o <<a, b>>
    BY DEF SaveLook, a, b
  <2>2. QED
    BY <1>2, <1>3, <2>1, AppendFacts, ConcatLasts
<1>5. /\ ~Pending(v, Hiding) /\ (Pending(v, Appearing) <=> Pending(toPlugin, Appearing))
      /\ (Pending(v, Titling) <=> Pending(toPlugin, Titling))
      /\ Lasts(v, Titling) = Lasts(toPlugin, Titling)
      /\ Lasts(v, Appearing) = Lasts(toPlugin, Appearing)
  BY <1>2, <1>3, AppendLasts DEF Hiding, Appearing, Titling
<1>6. Orderly(v)
  BY <1>2, <1>3, OrderlyAppend DEF Titled, AboutTile
<1> HIDE DEF v
<1>7. /\ ~Pending(toPlugin', Hiding)
      /\ (Pending(toPlugin', Appearing) <=> Pending(toPlugin, Appearing))
      /\ (Pending(toPlugin', Titling) <=> Pending(toPlugin, Titling))
      /\ Lasts(toPlugin', Titling) = Lasts(toPlugin, Titling)
      /\ Lasts(toPlugin', Appearing) = Lasts(toPlugin, Appearing)
      /\ Pending(toPlugin', Changes)
  BY <1>3, <1>4, <1>5, AppendLasts DEF Hiding, Appearing, Titling, Changes
<1>8. Orderly(toPlugin')
  BY <1>3, <1>4, <1>5, <1>6, OrderlyAppend DEF AboutTile
<1>9. ShownInv'
  BY <1>1, <1>2, <1>7 DEF Titled, ShownInv
<1>10. TitledInv' /\ StoredInv'
  BY <1>1, <1>2, <1>7 DEF Titled, TitledInv, StoredInv
<1>11. QED
  BY <1>8, <1>9, <1>10 DEF Titled

LEMMA TitleGiven ==
  ASSUME TitleInv, Types', NEW t \in Titles, SetTitle(t)
  PROVE  TitleInv'
<1> SUFFICES ASSUME crashes' = 0, failures' = 0 PROVE Titled'
  BY DEF TitleInv
<1> DEFINE m == Msg("title", t)
<1>1. /\ visible /\ UNCHANGED <<visible, tile>> /\ crashes = 0 /\ failures = 0
      /\ title' = t /\ toPlugin' = Append(toPlugin, m)
  BY DEF SetTitle, streamDeck
<1>2. /\ toPlugin \in Seq(MessagesToPlugin) /\ Titled
      /\ ~Pending(toPlugin, Hiding) /\ (tile # None \/ Pending(toPlugin, Appearing))
  BY <1>1, VisibleFacts
<1>3. m \in MessagesToPlugin /\ m.kind = "title" /\ m.value = t
  BY SentTypes DEF Msg
<1>4. /\ ~Pending(toPlugin', Hiding)
      /\ (Pending(toPlugin', Appearing) <=> Pending(toPlugin, Appearing))
      /\ Lasts(toPlugin', Titling) = {m}
      /\ Pending(toPlugin', Changes) /\ Pending(toPlugin', Titling)
  BY <1>1, <1>2, <1>3, AppendLasts DEF Hiding, Appearing, Titling, Changes
<1>5. Orderly(toPlugin')
  BY <1>1, <1>2, <1>3, OrderlyAppend DEF Titled, AboutTile
<1>6. ShownInv'
  BY <1>1, <1>2, <1>4 DEF Titled, ShownInv
<1>7. TitledInv' /\ StoredInv'
  BY <1>1, <1>3, <1>4 DEF TitledInv, StoredInv
<1>8. QED
  BY <1>5, <1>6, <1>7 DEF Titled

LEMMA TitleHide ==
  ASSUME TitleInv, Types', Hide
  PROVE  TitleInv'
<1> SUFFICES ASSUME crashes' = 0, failures' = 0 PROVE Titled'
  BY DEF TitleInv
<1> DEFINE m == Msg("hide", None)
<1>1. /\ visible /\ visible' = FALSE /\ crashes = 0 /\ failures = 0
      /\ UNCHANGED <<tile, title, savedTile, toStreamDeck>>
      /\ toPlugin' = Append(toPlugin, m)
  BY DEF Hide, history
<1>2. /\ toPlugin \in Seq(MessagesToPlugin) /\ Titled
      /\ ~Pending(toPlugin, Hiding) /\ (tile # None \/ Pending(toPlugin, Appearing))
  BY <1>1, VisibleFacts
<1>3. m \in MessagesToPlugin /\ m.kind = "hide"
  BY SentTypes DEF Msg
<1>4. /\ Pending(toPlugin', Hiding)
      /\ (Pending(toPlugin', Appearing) <=> Pending(toPlugin, Appearing))
      /\ (Pending(toPlugin', Titling) <=> Pending(toPlugin, Titling))
      /\ (Pending(toPlugin', Changes) <=> Pending(toPlugin, Changes))
      /\ Lasts(toPlugin', Titling) = Lasts(toPlugin, Titling)
      /\ Lasts(toPlugin', Appearing) = Lasts(toPlugin, Appearing)
  BY <1>1, <1>2, <1>3, AppendLasts DEF Hiding, Appearing, Titling, Changes
<1>5. Orderly(toPlugin')
  BY <1>1, <1>2, <1>3, OrderlyAppend DEF Titled, AboutTile
<1>6. ShownInv'
  BY <1>1, <1>2, <1>4 DEF Titled, ShownInv
<1>7. TitledInv' /\ StoredInv'
  BY <1>1, <1>2, <1>4, KeptSame DEF Titled, TitledInv, StoredInv
<1>8. QED
  BY <1>5, <1>6, <1>7 DEF Titled

LEMMA ConcatPending ==
  ASSUME NEW S, NEW w \in Seq(S), NEW T, NEW v \in Seq(T), NEW kinds
  PROVE  Pending(w \o v, kinds) <=> Pending(w, kinds) \/ Pending(v, kinds)
<1> DEFINE u == w \o v
<1>1. /\ DOMAIN w = 1..Len(w) /\ Len(w) \in Nat /\ DOMAIN v = 1..Len(v) /\ Len(v) \in Nat
      /\ DOMAIN u = 1..(Len(w) + Len(v))
      /\ \A i \in 1..(Len(w) + Len(v)) : u[i] = IF i <= Len(w) THEN w[i] ELSE v[i - Len(w)]
  OBVIOUS
<1> HIDE DEF u
<1>2. ASSUME Pending(u, kinds) PROVE Pending(w, kinds) \/ Pending(v, kinds)
  BY <1>1, <1>2 DEF Pending
<1>3. ASSUME Pending(w, kinds) PROVE Pending(u, kinds)
  BY <1>1, <1>3 DEF Pending
<1>4. ASSUME NEW i \in DOMAIN v, v[i].kind \in kinds PROVE Pending(u, kinds)
  <2>1. i + Len(w) \in DOMAIN u /\ u[i + Len(w)] = v[i]
    BY <1>1
  <2>2. QED
    BY <1>4, <2>1 DEF Pending
<1>5. QED
  BY <1>2, <1>3, <1>4 DEF Pending, u

LEMMA TitleShow ==
  ASSUME TitleInv, Types', Show
  PROVE  TitleInv'
<1> SUFFICES ASSUME crashes' = 0, failures' = 0 PROVE Titled'
  BY DEF TitleInv
<1> DEFINE m == Msg("appear", savedTile)
<1>1. /\ ~visible /\ visible' = TRUE /\ crashes = 0 /\ failures = 0
      /\ UNCHANGED <<tile, title, savedTile, toStreamDeck>>
      /\ toPlugin' = Append(toPlugin, m)
  BY DEF Show, bounds, history
<1>2. /\ toPlugin \in Seq(MessagesToPlugin) /\ toStreamDeck \in Seq(MessagesToStreamDeck)
      /\ savedTile \in Tiles /\ title \in Titles /\ Titled
  BY <1>1 DEF TitleInv, Types, WiresType, StreamDeckType, HistoryType
<1>3. /\ ~Pending(toPlugin, Changes) /\ ~Pending(toPlugin, Hiding)
      /\ ~Pending(toStreamDeck, Keeping)
  <2>1. ~Pending(toPlugin \o toStreamDeck, {"tile", "look", "title", "hide"})
    BY DEF Show
  <2>2. /\ ~Pending(toPlugin, {"tile", "look", "title", "hide"})
        /\ ~Pending(toStreamDeck, {"tile", "look", "title", "hide"})
    BY <1>2, <2>1, ConcatPending
  <2>3. QED
    BY <2>2 DEF Pending, Changes, Hiding, Keeping
<1>4. tile = None /\ ~Pending(toPlugin, Appearing)
  BY <1>1, <1>2, <1>3 DEF Titled, ShownInv
<1>5. ~Pending(toPlugin, AboutTile) /\ ~Pending(toPlugin, Titling)
  BY <1>3, <1>4 DEF Pending, AboutTile, Changes, Hiding, Appearing, Titling
<1>6. Kept = {savedTile} /\ savedTile.title = title
  <2>1. Kept = {savedTile}
    BY <1>3 DEF Kept
  <2>2. QED
    BY <1>2, <1>3, <1>4, <2>1 DEF Titled, StoredInv
<1>7. /\ m \in MessagesToPlugin /\ m.kind = "appear" /\ m.value = savedTile
      /\ m.value.title # None
  BY <1>2, <1>6, SentTypes, ValuesAssumption DEF Msg
<1> HIDE DEF m
<1>8. /\ ~Pending(toPlugin', Hiding) /\ Pending(toPlugin', Appearing)
      /\ ~Pending(toPlugin', Titling)
      /\ Lasts(toPlugin', Appearing) = {m}
      /\ Lasts(toPlugin', Titling) = Lasts(toPlugin, Titling)
  BY <1>1, <1>2, <1>3, <1>5, <1>7, AppendLasts DEF Hiding, Appearing, Titling
<1>9. Orderly(toPlugin')
  BY <1>1, <1>2, <1>3, <1>5, <1>7, OrderlyAppend DEF Titled
<1>10. ShownInv'
  BY <1>1, <1>4, <1>8 DEF ShownInv
<1>11. TitledInv' /\ StoredInv'
  BY <1>1, <1>2, <1>4, <1>6, <1>7, <1>8, KeptSame DEF Titled, TitledInv, StoredInv
<1>12. QED
  BY <1>9, <1>10, <1>11 DEF Titled

\* A message that is not about the tile.
LEMMA TitleSent ==
  ASSUME TitleInv, Types', NEW m \in MessagesToPlugin, m.kind \notin AboutTile,
         toPlugin' = Append(toPlugin, m),
         UNCHANGED <<visible, title, tile, savedTile, toStreamDeck, crashes, failures>>
  PROVE  TitleInv'
<1>1. toPlugin \in Seq(MessagesToPlugin)
  BY DEF TitleInv, Types, WiresType
<1>2. Alike(toPlugin', toPlugin)
  BY <1>1, AlikeAppend
<1>3. QED
  BY <1>2, KeptSame, TitleElsewhere

LEMMA TitleOverwrite ==
  ASSUME TitleInv, Types', NEW s \in Settings, NEW follows, Overwrite(s, follows),
         follows = <<>> \/ \E r \in Rates : follows = <<Msg("rate", r)>>
  PROVE  TitleInv'
<1> DEFINE v == Append(toPlugin, Msg("settings", s))
<1>1. /\ toPlugin \in Seq(MessagesToPlugin) /\ Msg("settings", s) \in MessagesToPlugin
      /\ v \in Seq(MessagesToPlugin)
  BY SentTypes, AppendFacts DEF TitleInv, Types, WiresType
<1>2. Alike(v, toPlugin)
  BY <1>1, AlikeAppend DEF Msg, AboutTile
<1> HIDE DEF v
<1>3. /\ toPlugin' = v \o follows
      /\ UNCHANGED <<visible, title, tile, savedTile, toStreamDeck, crashes, failures>>
  BY DEF Overwrite, v, history
<1>4. Alike(toPlugin', toPlugin)
  <2>1. CASE follows = <<>>
    BY <1>1, <1>2, <1>3, <2>1, ConcatLasts
  <2>2. ASSUME NEW r \in Rates, follows = <<Msg("rate", r)>> PROVE Alike(toPlugin', toPlugin)
    <3>1. Msg("rate", r) \in MessagesToPlugin /\ Msg("rate", r).kind \notin AboutTile
      BY SentTypes DEF Msg, AboutTile
    <3>2. toPlugin' = Append(v, Msg("rate", r))
      BY <1>1, <1>3, <2>2, <3>1, ConcatLasts
    <3>3. QED
      BY <1>1, <1>2, <3>1, <3>2, AlikeAppend, AlikeFacts
  <2>3. QED
    BY <2>1, <2>2
<1>5. QED
  BY <1>3, <1>4, KeptSame, TitleElsewhere

LEMMA TitleUser ==
  ASSUME TitleInv, Types', User
  PROVE  TitleInv'
<1>1. ASSUME NEW r \in Rates, ChangeRate(r) PROVE TitleInv'
  <2>1. [NoSettings EXCEPT !.rate = r] \in Settings
    BY DEF NoSettings, Settings, Libraries
  <2>2. QED
    BY <1>1, <2>1, TitleOverwrite DEF ChangeRate
<1>2. ASSUME NEW ps \in SUBSET Presets, SavePreset(ps) PROVE TitleInv'
  <2>1. [NoSettings EXCEPT !.presets = ps] \in Settings
    BY DEF NoSettings, Settings, Libraries, TitleInv, Types, StreamDeckType
  <2>2. QED
    BY <1>2, <2>1, TitleOverwrite DEF SavePreset
<1>3. ASSUME NEW m \in MessagesToPlugin, m.kind \notin AboutTile, Request(m) PROVE TitleInv'
  BY <1>3, TitleSent DEF Request, streamDeck, history
<1>4. CASE Request(Msg("add", None)) \/ \E i \in Ids : Request(Msg("remove", i))
  BY <1>3, <1>4, SentTypes DEF Msg, AboutTile
<1>5. CASE \E i \in Ids, v \in Values : Request(Msg("update", [id |-> i, value |-> v]))
  BY <1>3, <1>5, SentTypes DEF Msg, AboutTile
<1>6. CASE \E f \in Favorites : Request(Msg("toggle", f)) \/ Request(Msg("unfavorite", f))
  BY <1>3, <1>6, SentTypes DEF Msg, AboutTile
<1>7. QED
  BY <1>1, <1>2, <1>4, <1>5, <1>6, TitleLook, TitleGiven, TitleHide, TitleShow DEF User

\* The event goroutine handles a message that is not about the tile.
LEMMA TitleReceived ==
  ASSUME TitleInv, Types', toPlugin # <<>>, toPlugin' = Tail(toPlugin),
         Head(toPlugin).kind \notin AboutTile,
         UNCHANGED <<visible, title, crashes>>,
         failures' = 0 => failures = 0,
         tile' = None <=> tile = None, tile # None => tile'.settings = tile.settings,
         Kept' \subseteq Kept
  PROVE  TitleInv'
<1>1. toPlugin \in Seq(MessagesToPlugin)
  BY DEF TitleInv, Types, WiresType
<1>2. Alike(toPlugin', toPlugin)
  BY <1>1, AlikeTail
<1>3. QED
  BY <1>2, TitleElsewhere

LEMMA KeptQuietly ==
  ASSUME UNCHANGED savedTile, Quietly
  PROVE  Kept' = Kept /\ UNCHANGED failures
BY KeptSame DEF Quietly

LEMMA KeptWrite ==
  ASSUME Types, NEW g \in Settings, SetGlobalSettings(g), UNCHANGED savedTile
  PROVE  Kept' = Kept /\ (failures' = 0 => failures = 0)
<1>1. failures \in Nat
  BY BoundsAssumption DEF Types, HistoryType
<1>2. CASE UNCHANGED toStreamDeck
  BY <1>1, <1>2, KeptSame DEF SetGlobalSettings
<1>3. CASE toStreamDeck' = Append(toStreamDeck, Msg("settings", g)) /\ UNCHANGED failures
  BY <1>3, SentTypes, KeptSend DEF Msg
<1>4. QED
  BY <1>2, <1>3 DEF SetGlobalSettings

\* A change of the tile: it shows it and saves it.
LEMMA TitleChanged ==
  ASSUME TitleInv, Types', toPlugin # <<>>, toPlugin' = Tail(toPlugin),
         Head(toPlugin).kind \in Changes, NEW s \in [title : Titles, look : Looks],
         NEW save, TileBecomes(s, save), save,
         UNCHANGED <<visible, title, crashes, savedTile>>,
         tile # None => s.title = IF Head(toPlugin).kind = "title" THEN Head(toPlugin).value
                                  ELSE tile.settings.title
  PROVE  TitleInv'
<1> SUFFICES ASSUME crashes' = 0, failures' = 0 PROVE Titled'
  BY DEF TitleInv
<1> DEFINE m == Head(toPlugin)
<1>1. Types /\ toPlugin \in Seq(MessagesToPlugin)
  BY DEF TitleInv, Types, WiresType
<1>2. /\ tile' # None /\ tile'.settings = s /\ failures = 0
      /\ toStreamDeck' = Append(toStreamDeck, Msg("tile", s))
  BY <1>1, BecomesFacts
<1>3. Kept' = {s}
  <2>1. Msg("tile", s) \in MessagesToStreamDeck
    BY SentTypes DEF Tiles
  <2>2. QED
    BY <1>1, <1>2, <2>1, KeptSend DEF Msg
<1>4. Titled
  BY <1>2 DEF TitleInv
<1>5. Orderly(toPlugin') /\ ~Pending(toPlugin', Appearing)
  BY <1>1, <1>4, OrderlyTail DEF Titled, Changes, AboutTile
<1>6. /\ ~Pending(toPlugin, Appearing) /\ Pending(toPlugin, AboutTile)
      /\ Pending(toPlugin', Hiding) <=> Pending(toPlugin, Hiding)
      /\ Pending(toPlugin, Titling) <=> Pending(toPlugin', Titling) \/ m.kind = "title"
      /\ Lasts(toPlugin', Titling) \subseteq Lasts(toPlugin, Titling)
      /\ m.kind = "title" /\ ~Pending(toPlugin', Titling) => m \in Lasts(toPlugin, Titling)
  BY <1>1, <1>5, TailLasts DEF Changes, AboutTile, Appearing, Hiding, Titling
<1>7. tile # None
  BY <1>4, <1>6 DEF Titled, ShownInv
<1>8. ShownInv'
  BY <1>2, <1>4, <1>5, <1>6, <1>7 DEF Titled, ShownInv
<1>9. Lasts(toPlugin', Appearing) = {}
  BY <1>5 DEF Lasts, IsLast, Pending
<1>10. ~Pending(toPlugin', Titling) => s.title = title
  BY <1>4, <1>6, <1>7 DEF Titled, TitledInv
<1>11. TitledInv'
  BY <1>2, <1>4, <1>6, <1>9, <1>10 DEF Titled, TitledInv
<1>12. StoredInv'
  BY <1>2, <1>3, <1>9 DEF StoredInv
<1>13. QED
  BY <1>5, <1>8, <1>11, <1>12 DEF Titled

LEMMA TitleAppears ==
  ASSUME TitleInv, Types', toPlugin # <<>>, toPlugin' = Tail(toPlugin),
         Head(toPlugin).kind = "appear", OnWillAppear(Head(toPlugin).value),
         UNCHANGED <<visible, title, crashes, savedTile>>
  PROVE  TitleInv'
<1> SUFFICES ASSUME crashes' = 0, failures' = 0 PROVE Titled'
  BY DEF TitleInv
<1> DEFINE m == Head(toPlugin)
<1>1. Types /\ toPlugin \in Seq(MessagesToPlugin) /\ m.value \in Tiles
  BY TailFacts, ReceivedTypes DEF TitleInv, Types, WiresType
<1>2. /\ tile' # None /\ tile'.settings = Merged(m.value) /\ UNCHANGED toStreamDeck
      /\ failures = 0
  <2>1. Merged(m.value) \in [title : Titles, look : Looks]
    BY <1>1, MergedType
  <2>2. TileBecomes(Merged(m.value), FALSE)
    BY DEF OnWillAppear
  <2>3. QED
    BY <1>1, <2>1, <2>2, BecomesFacts
<1>3. Titled /\ Kept' = Kept
  BY <1>2, KeptSame DEF TitleInv
<1>4. Orderly(toPlugin') /\ ~Pending(toPlugin', Appearing) /\ m.value.title # None
  BY <1>1, <1>3, OrderlyTail DEF Titled, AboutTile
<1>5. Merged(m.value) = m.value
  BY <1>1, <1>4 DEF Merged, Tiles
<1>6. /\ Pending(toPlugin, Appearing) /\ m \in Lasts(toPlugin, Appearing)
      /\ Pending(toPlugin', Hiding) <=> Pending(toPlugin, Hiding)
      /\ Pending(toPlugin', Titling) <=> Pending(toPlugin, Titling)
      /\ Pending(toPlugin', Changes) <=> Pending(toPlugin, Changes)
      /\ Lasts(toPlugin', Titling) \subseteq Lasts(toPlugin, Titling)
  BY <1>1, <1>4, TailLasts DEF Changes, Appearing, Hiding, Titling
<1>7. ShownInv'
  BY <1>2, <1>3, <1>4, <1>6 DEF Titled, ShownInv
<1>8. Lasts(toPlugin', Appearing) = {}
  BY <1>4 DEF Lasts, IsLast, Pending
<1>9. TitledInv'
  BY <1>2, <1>3, <1>5, <1>6, <1>8 DEF Titled, TitledInv
<1>10. StoredInv'
  BY <1>2, <1>3, <1>5, <1>6, <1>8 DEF Titled, StoredInv
<1>11. QED
  BY <1>4, <1>7, <1>9, <1>10 DEF Titled

LEMMA TitleDisappears ==
  ASSUME TitleInv, Types', toPlugin # <<>>, toPlugin' = Tail(toPlugin),
         Head(toPlugin).kind = "hide", OnWillDisappear,
         UNCHANGED <<visible, title, crashes, savedTile>>
  PROVE  TitleInv'
<1> SUFFICES ASSUME crashes' = 0, failures' = 0 PROVE Titled'
  BY DEF TitleInv
<1>1. toPlugin \in Seq(MessagesToPlugin)
  BY DEF TitleInv, Types, WiresType
<1>2. tile' = None /\ Kept' = Kept /\ failures = 0
  BY KeptQuietly DEF OnWillDisappear
<1>3. Titled
  BY <1>2 DEF TitleInv
<1>4. Orderly(toPlugin') /\ ~Pending(toPlugin', Appearing) /\ ~Pending(toPlugin', AboutTile)
  BY <1>1, <1>3, OrderlyTail DEF Titled, AboutTile
<1>5. /\ ~Pending(toPlugin', Hiding) /\ ~Pending(toPlugin', Titling)
      /\ ~Pending(toPlugin', Changes)
  BY <1>4 DEF Pending, AboutTile, Hiding, Titling, Changes
<1>6. /\ Pending(toPlugin, Hiding) /\ Pending(toPlugin, AboutTile)
      /\ ~Pending(toPlugin, Appearing) /\ ~Pending(toPlugin, Titling)
      /\ ~Pending(toPlugin, Changes)
      /\ Lasts(toPlugin', Titling) \subseteq Lasts(toPlugin, Titling)
      /\ Lasts(toPlugin', Appearing) \subseteq Lasts(toPlugin, Appearing)
  BY <1>1, <1>4, <1>5, TailLasts DEF Changes, Appearing, Hiding, Titling, AboutTile
<1>7. tile # None /\ ~visible
  BY <1>3, <1>6 DEF Titled, ShownInv
<1>8. ShownInv'
  BY <1>2, <1>4, <1>5, <1>7 DEF ShownInv
<1>9. TitledInv'
  BY <1>2, <1>3, <1>5, <1>6 DEF Titled, TitledInv
<1>10. StoredInv'
  BY <1>2, <1>3, <1>6, <1>7 DEF Titled, TitledInv, StoredInv
<1>11. QED
  BY <1>4, <1>8, <1>9, <1>10 DEF Titled

LEMMA TitleHandle ==
  ASSUME TitleInv, Types', Handle
  PROVE  TitleInv'
<1> DEFINE m == Head(toPlugin)
<1>1. /\ toPlugin # <<>> /\ toPlugin' = Tail(toPlugin)
      /\ UNCHANGED <<visible, title, crashes, savedTile>>
      /\ toPlugin \in Seq(MessagesToPlugin) /\ m \in MessagesToPlugin /\ Types
  BY TailFacts DEF Handle, streamDeck, TitleInv, Types, WiresType
<1>2. CASE m.kind = "settings" /\ OnDidReceiveGlobalSettings(m.value)
  <2>1. gs' \in Settings
    BY DEF Types, PluginType
  <2>2. (tile' = None <=> tile = None) /\ (tile # None => tile'.settings = tile.settings)
    BY <1>1, <1>2, <2>1, DrawnAgain DEF OnDidReceiveGlobalSettings
  <2>3. Kept' = Kept /\ UNCHANGED failures
    BY <1>1, <1>2, KeptQuietly DEF OnDidReceiveGlobalSettings
  <2>4. QED
    BY <1>1, <1>2, <2>2, <2>3, TitleReceived DEF AboutTile
<1>3. CASE m.kind = "rate" /\ setPollInterval(m.value)
  BY <1>1, <1>3, KeptQuietly, TitleReceived DEF setPollInterval, AboutTile
<1>4. CASE \/ m.kind = "add" /\ handleGlobalAddThreshold
           \/ m.kind = "remove" /\ handleGlobalRemoveThreshold(m.value)
           \/ m.kind = "update" /\ handleGlobalThresholdUpdate(m.value)
           \/ m.kind = "toggle" /\ toggleFavoriteSelection(m.value)
           \/ m.kind = "unfavorite" /\ removeFavorite(m.value)
  <2>1. Saved /\ m.kind \notin AboutTile
    BY <1>4 DEF handleGlobalAddThreshold, handleGlobalRemoveThreshold,
                handleGlobalThresholdUpdate, toggleFavoriteSelection, removeFavorite, AboutTile
  <2>2. SetGlobalSettings(gs') /\ UNCHANGED tile /\ gs' \in Settings
    BY <2>1 DEF Saved, Types, PluginType
  <2>3. Kept' = Kept /\ (failures' = 0 => failures = 0)
    BY <1>1, <2>2, KeptWrite
  <2>4. QED
    BY <1>1, <2>1, <2>2, <2>3, TitleReceived
<1>5. CASE Ignored(m)
  BY <1>1, <1>5, KeptQuietly, TitleReceived DEF Ignored, AboutTile
<1>6. CASE m.kind = "appear" /\ OnWillAppear(m.value)
  BY <1>1, <1>6, TitleAppears
<1>7. CASE m.kind = "tile" /\ OnDidReceiveSettings(m.value)
  <2>1. m.value \in Tiles /\ Merged(m.value) \in [title : Titles, look : Looks]
    BY <1>1, <1>7, ReceivedTypes, MergedType
  <2>2. TileBecomes(Merged(m.value), m.value.title = None)
    BY <1>7 DEF OnDidReceiveSettings
  <2>3. CASE crashes # 0 \/ failures # 0
    <3>1. failures' # 0 \/ crashes' # 0
      <4>1. failures \in Nat
        BY <1>1, BoundsAssumption DEF Types, HistoryType
      <4>2. QED
        BY <1>1, <2>2, <2>3, <4>1 DEF TileBecomes
    <3>2. QED
      BY <3>1 DEF TitleInv
  <2>4. CASE crashes = 0 /\ failures = 0
    <3>1. m.value.title = None
      BY <1>1, <1>7, <2>4, OrderlyTail DEF TitleInv, Titled
    <3>2. tile # None => Merged(m.value).title = tile.settings.title
      BY <2>1, <3>1 DEF Merged, Tiles
    <3>3. m.kind \in Changes
      BY <1>7 DEF Changes
    <3>4. QED
      BY <1>1, <1>7, <2>1, <2>2, <3>1, <3>2, <3>3, TitleChanged
  <2>5. QED
    BY <2>3, <2>4
<1>8. CASE m.kind = "look" /\ updateTileAppearance(m.value)
  <2> DEFINE s == [title |-> None, look |-> m.value]
  <2>1. s \in Tiles /\ Merged(s) \in [title : Titles, look : Looks]
    BY <1>1, <1>8, ReceivedTypes, MergedType DEF Tiles
  <2>2. TileBecomes(Merged(s), TRUE) /\ m.kind \in Changes
    BY <1>8 DEF updateTileAppearance, Changes
  <2>3. tile # None => Merged(s).title = tile.settings.title
    BY DEF Merged
  <2> HIDE DEF s
  <2>4. QED
    BY <1>1, <1>8, <2>1, <2>2, <2>3, TitleChanged
<1>9. CASE m.kind = "title" /\ OnTitleParametersDidChange(m.value)
  <2>1. PICK l \in Looks : TileBecomes([title |-> m.value, look |-> l], TRUE)
    BY <1>9 DEF OnTitleParametersDidChange
  <2>2. m.value \in Titles /\ m.kind \in Changes
    BY <1>1, <1>9, ReceivedTypes DEF Changes
  <2>3. /\ [title |-> m.value, look |-> l] \in [title : Titles, look : Looks]
        /\ [title |-> m.value, look |-> l].title = m.value
    BY <2>2
  <2>4. QED
    BY <1>1, <1>9, <2>1, <2>2, <2>3, TitleChanged
<1>10. CASE m.kind = "hide" /\ OnWillDisappear
  BY <1>1, <1>10, TitleDisappears
<1>11. QED
  BY <1>2, <1>3, <1>4, <1>5, <1>6, <1>7, <1>8, <1>9, <1>10 DEF Handle

LEMMA TitleFinish ==
  ASSUME TitleInv, Types', Finish
  PROVE  TitleInv'
<1>1. UNCHANGED <<visible, savedTile, title, crashes, toPlugin>> /\ Types
  BY DEF Finish, streamDeck, history, TitleInv
<1>2. gs' \in Settings
  BY DEF Types, PluginType
<1>3. (tile' = None <=> tile = None) /\ (tile # None => tile'.settings = tile.settings)
  BY <1>1, <1>2, DrawnAgain DEF Finish
<1>4. Kept' = Kept /\ (failures' = 0 => failures = 0)
  BY <1>1, <1>2, KeptWrite, KeptQuietly DEF Finish
<1>5. QED
  BY <1>1, <1>3, <1>4, AlikeFacts, TitleElsewhere

LEMMA TitleDeliver ==
  ASSUME TitleInv, Types', Deliver
  PROVE  TitleInv'
<1> DEFINE m == Head(toStreamDeck)
<1>1. /\ toPlugin \in Seq(MessagesToPlugin) /\ store \in Settings /\ Types
      /\ UNCHANGED <<tile, title, crashes, failures>>
      /\ m.kind \in {"settings", "tile", "get"}
  BY TailFacts, DeliveredTypes
     DEF TitleInv, Types, WiresType, StreamDeckType, Deliver, history, bounds
<1>2. UNCHANGED visible /\ Alike(toPlugin', toPlugin)
  <2>1. CASE m.kind = "get"
    <3>1. toPlugin' = Append(toPlugin, Msg("settings", store)) /\ UNCHANGED visible
      BY <2>1 DEF Deliver, streamDeck
    <3>2. QED
      BY <1>1, <3>1, SentTypes, AlikeAppend DEF Msg, AboutTile
  <2>2. CASE m.kind \in {"settings", "tile"}
    BY <2>2, AlikeFacts DEF Deliver
  <2>3. QED
    BY <1>1, <2>1, <2>2
<1>3. QED
  BY <1>1, <1>2, KeptDeliver, TitleElsewhere

LEMMA TitleCrash ==
  ASSUME TitleInv, Types', Crash
  PROVE  TitleInv'
<1>1. crashes' # 0
  BY BoundsAssumption DEF Crash, TitleInv, Types, HistoryType
<1>2. QED
  BY <1>1 DEF TitleInv

LEMMA TitleNext == TitleInv /\ [Next]_vars => TitleInv'
<1> SUFFICES ASSUME TitleInv, [Next]_vars PROVE TitleInv'
  OBVIOUS
<1>1. Types'
  BY NextType DEF TitleInv
<1>2. CASE UNCHANGED vars \/ SetInterval \/ Send \/ Full \/ Drain \/ Run
  <2>1. UNCHANGED <<visible, savedTile, title, tile, toPlugin, toStreamDeck, crashes, failures>>
    BY <1>2 DEF vars, streamDeck, wires, history, bounds, SetInterval, Send, Full, Drain,
                Sending, Run, Update, Updated, Receive, Apply, Elsewhere
  <2>2. QED
    BY <1>1, <2>1, KeptSame, AlikeFacts, TitleElsewhere
<1>3. QED
  BY <1>1, <1>2, TitleDeliver, TitleCrash, TitleUser, TitleHandle, TitleFinish
     DEF Next, EventLoop

\* Unless the plugin crashed or could not save, the settings tile ends up with the title
\* that the user gave it last, in Stream Deck and in the plugin, whichever of its changes
\* crossed each other and however often it was hidden in between.
THEOREM TitleKept == Spec => []TitlePersists
<1>1. Spec => []TitleInv
  BY TitleInit, TitleNext, PTL DEF Spec
<1>2. QED
  BY <1>1, TitleSuffices, PTL
=============================================================================
