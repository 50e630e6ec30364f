-------------------------------- MODULE Dial --------------------------------
(***************************************************************************)
(* The dial carousel (dial.go): pages with a reading and a threshold each, *)
(* of which the touch strip shows the active one, or several as cards.     *)
(* The ticker and the event goroutine both run updateDialFeedback, without *)
(* a lock, over the settings and graphs that they find when they begin.    *)
(* What belongs to a page is kept in three places: by its settings (the    *)
(* threshold shown), by its index (snooze, dirty mark, runtime state) and  *)
(* on its graph (the colours); the Property Inspector sends whole settings *)
(* from a copy of its own.                                                 *)
(*                                                                         *)
(* Encoding settings and writing them to the socket is one step here.  A   *)
(* threshold has neither dwell time, hysteresis nor cooldown, for which    *)
(* see ThresholdState; a snooze has one preset, for which see TileAlerts.  *)
(***************************************************************************)
EXTENDS Integers, Sequences, FiniteSets, SequencesExt

CONSTANTS
  Pages,          \* what a page may show
  FirstPages,     \* the pages that Stream Deck has stored, in order
  Sticky,         \* pages whose alert is sticky
  Snoozable,      \* pages with a snooze preset
  BringToFront,   \* pages whose alert brings them to the front
  OverviewCap,    \* dialOverviewCap, 2 or 3
  DefaultViews,   \* whether the overview is the default view, when a dial is shown
  None,
  MaxUser, MaxWorld   \* bounds on what the user does and on what else happens

ASSUME PagesAssumption ==
  /\ IsFiniteSet(Pages) /\ Pages # {}
  /\ FirstPages \in Seq(Pages) /\ IsInjective(FirstPages)
  /\ Sticky \cup Snoozable \cup BringToFront \subseteq Pages
ASSUME CapAssumption == OverviewCap \in {2, 3} /\ DefaultViews \subseteq BOOLEAN
ASSUME DialBounds == {MaxUser, MaxWorld} \subseteq Nat

VARIABLES
  alarm,          \* pages whose reading matches their threshold
  up,             \* whether the readings are available
  dial,           \* p.dialSettings[ctx] and p.dialStates[ctx]
  painted,        \* for a graph, whether it has the colours of the alert
  latch,          \* p.thresholdStates of an index
  snooze,         \* p.thresholdSnoozes of an index
  dirty,          \* the indices in p.thresholdDirty
  goroutine,      \* the ticker's and that of the events
  inspector,      \* the Property Inspector's copy of the settings
  saved,          \* Stream Deck's copy
  strip,          \* what the touch strip shows

  (* History and bounds.                                                   *)
  settled,        \* whether the ticker has gone over the dial since anything happened
  lost,           \* indices whose graph came into force, or was painted from outdated
                  \* settings, during an alert
  expected,       \* the page last asked for, by the user or by its alert
  overtaken,      \* whether an outdated copy of the settings was saved last
  uses, worldly

runtime == <<latch, snooze, dirty>>
copies  == <<inspector, saved>>
history == <<settled, lost, expected, overtaken>>
bounds  == <<uses, worldly>>
world   == <<alarm, up>>
vars == <<world, dial, painted, runtime, goroutine, copies, strip, history, bounds>>

Indices == 1..Cardinality(Pages)

\* Two graphs may be alive for an index: the dial's, and the ticker's old one.
Graphs == Indices \X {0, 1}

\* The settings that are stored: current has the pages whose CurrentThresholdID is set.
SettingsOf(o) == [pages |-> o.pages, active |-> o.active, current |-> o.current]

\* own: the settings and graphs this goroutine began with, when others have replaced
\* them; shows: whether the page at i was the active one; bring: bringToFront, 0 for
\* none; image: activeRender; copy: settingsCopy.
Resting == [pc |-> "idle", i |-> 1, own |-> None, shows |-> FALSE, bring |-> 0,
            image |-> None, changed |-> FALSE, copy |-> 0]

Message == [kind |-> "message", cards |-> <<>>]
Image(cards, kind) == [kind |-> kind, cards |-> cards]

\* The active index is that of a page, and an alert one that is shown.
WellFormed(s) ==
  /\ s.pages # <<>> => s.active \in DOMAIN s.pages
  /\ s.current \subseteq ToSet(s.pages)

PageSeqs == {s \in Seq(Pages) : IsInjective(s)}

SettingsType ==
  {s \in [pages : PageSeqs, active : Indices, current : SUBSET Pages] : WellFormed(s)}

DialType ==
  {o \in [pages : PageSeqs, active : Indices, current : SUBSET Pages,
          graphs : Seq({0, 1}), overview : BOOLEAN] :
     WellFormed(o) /\ Len(o.graphs) = Len(o.pages)}

ImageType ==
  [kind : {"message", "page", "overview"}, cards : Seq([page : Pages, alert : BOOLEAN])]

GoroutineType ==
  [pc : {"idle", "begin", "enter", "look", "finish", "send", "save"},
   i : 1..(Cardinality(Pages) + 1), own : DialType \cup {None}, shows : BOOLEAN,
   bring : Indices \cup {0}, image : ImageType \cup {None}, changed : BOOLEAN,
   copy : Indices \cup {0}]

ASSUME NoneAssumption == None \notin Pages \cup DialType \cup ImageType

\* Type invariant: the active index is that of a page, for outdated settings as well.
TypeOK ==
  /\ alarm \subseteq Pages /\ up \in BOOLEAN
  /\ dial \in DialType \cup {None}
  /\ painted \in [Graphs -> BOOLEAN]
  /\ latch \in [Indices -> [page : Pages \cup {None}, state : {"off", "latched", "suppressed"}]]
  /\ snooze \in [Indices -> {"off", "on", "expired"}] /\ dirty \subseteq Indices
  /\ goroutine \in [{"ticker", "events"} -> GoroutineType]
  /\ inspector \in SettingsType /\ saved \in SettingsType /\ strip \in ImageType
  /\ settled \in {"no", "pass", "yes"} /\ lost \subseteq Indices
  /\ expected \in Pages \cup {None} /\ overtaken \in BOOLEAN
  /\ uses \in 0..MaxUser /\ worldly \in 0..MaxWorld

-----------------------------------------------------------------------------
\* Fault: the remainder of a negative number is negative.
WrapTruncates(current, ticks, count) ==
  IF count = 0 THEN 1
  ELSE IF current - 1 + ticks < 0 THEN current + ticks
  ELSE ((current - 1 + ticks) % count) + 1

wrapDialIndex(current, ticks, count) ==
  IF count = 0 THEN 1 ELSE ((current - 1 + ticks) % count) + 1

\* The cards of the overview, from left to right.
dialOverviewIndices(active, count, limit) ==
  IF count = 1 THEN <<active>>
  ELSE IF count = 2 THEN <<wrapDialIndex(active, -1, count), active>>
  ELSE IF limit = 2 THEN <<active, wrapDialIndex(active, 1, count)>>
  ELSE <<wrapDialIndex(active, -1, count), active, wrapDialIndex(active, 1, count)>>

\* The page of the object at i, and whether its graph has the colours of its alert.
Card(o, i) == [page |-> o.pages[i], alert |-> painted[<<i, o.graphs[i]>>]]

Overview(o) ==
  LET shown == dialOverviewIndices(o.active, Len(o.pages), OverviewCap)
  IN  Image([c \in DOMAIN shown |-> Card(o, shown[c])], "overview")

\* evaluateThresholds for page p at index i: its runtime state, which is a new one
\* when another page was there, and whether its alert is on.
evaluate(p, i) ==
  LET before == IF latch[i].page = p THEN latch[i].state ELSE "off"
      after  == IF p \notin Sticky \/ (before # "latched" /\ p \notin alarm) THEN "off"
                ELSE IF before = "off" THEN "latched" ELSE before
  IN  [state |-> [page |-> p, state |-> after],
       alert |-> IF p \in Sticky THEN after = "latched" ELSE p \in alarm]

-----------------------------------------------------------------------------
(* History: what has been asked for, and whether more is to come.          *)

\* Something will still ask for the page of the dial at i.
Pending(i) ==
  /\ dial.pages[i] \in BringToFront
  /\ \/ evaluate(dial.pages[i], i).alert /\ dial.pages[i] \notin dial.current
     \/ i \in dirty \/ snooze[i] = "expired"

Calm(besides) ==
  /\ dial # None /\ goroutine["ticker"].own = None
  /\ goroutine["ticker"].bring = 0 /\ goroutine["events"].bring = 0
  /\ \A i \in DOMAIN dial.pages \ besides : ~Pending(i)

\* A change after which p is expected, or None.
Disturb(p) == settled' = "no" /\ expected' = p

\* The alert at i asks for its page: it is not shown yet, or no longer snoozed.
Asks(i) ==
  /\ dial.pages[i] \in BringToFront \ dial.current
  /\ latch[i].state # "suppressed" /\ snooze[i] = "off" /\ Calm({i})

-----------------------------------------------------------------------------
(* updateDialFeedback, by either goroutine g.                              *)

\* The settings and graphs it works on.
Obj(g) == IF goroutine[g].own = None THEN dial ELSE goroutine[g].own

\* It goes on as t, and what it works on becomes o.
Goes(g, t, o) ==
  LET outdated == goroutine[g].own # None
  IN  /\ goroutine' = [goroutine EXCEPT
           ![g] = [t EXCEPT !.own = IF outdated /\ t.pc # "idle" THEN o ELSE None]]
      /\ dial' = IF outdated THEN dial ELSE o

\* What a handler does later disturbs a pass of the ticker's.
Proceeds(g) == settled' = (IF g = "events" THEN "no" ELSE settled) /\ UNCHANGED expected

\* After the last page comes the rest of updateDialFeedback.
NextPage(o, i) == IF i >= Len(o.pages) THEN "finish" ELSE "enter"

\* The dial may have been hidden, or has no pages.
Begin(g) ==
  LET t == goroutine[g] IN
  /\ t.pc = (IF g = "ticker" THEN "idle" ELSE "begin")
  /\ IF dial = None
     THEN goroutine' = [goroutine EXCEPT ![g] = Resting] /\ UNCHANGED <<dial, strip>>
     ELSE IF dial.pages = <<>>
     THEN goroutine' = [goroutine EXCEPT ![g] = Resting] /\ strip' = Message /\ UNCHANGED dial
     ELSE Goes(g, [Resting EXCEPT !.pc = "enter"], dial) /\ UNCHANGED strip
  /\ settled' = IF g = "events" \/ goroutine["events"].pc # "idle" THEN "no"
                ELSE IF dial = None \/ settled = "yes" THEN settled
                ELSE IF dial.pages = <<>> THEN "yes"
                ELSE "pass"
  /\ UNCHANGED <<world, painted, runtime, copies, lost, expected, overtaken, bounds>>

\* The call of updateDialPage for a page that is active, or is not.
Enter(g) ==
  LET t == goroutine[g] IN
  /\ t.pc = "enter"
  /\ Goes(g, [t EXCEPT !.pc = "look", !.shows = (t.i = Obj(g).active)], Obj(g))
  /\ Proceeds(g)
  /\ UNCHANGED <<world, painted, runtime, copies, strip, lost, overtaken, bounds>>

\* The image of the page at i is kept if that is the active page by now; there is one
\* only if it was before.
Collected(t, o, render) ==
  [t EXCEPT !.pc = NextPage(o, t.i), !.i = t.i + 1, !.shows = FALSE,
            !.image = IF t.i # o.active THEN t.image ELSE IF t.shows THEN render ELSE None]

\* updateDialPage without readings.
LookUnavailable(g) ==
  LET t == goroutine[g] IN
  /\ t.pc = "look" /\ ~up
  /\ Goes(g, Collected(t, Obj(g), Message), Obj(g))
  /\ Proceeds(g)
  /\ UNCHANGED <<world, painted, runtime, copies, strip, lost, overtaken, bounds>>

\* Fault: only another threshold paints the graph.
RepaintsOnEdge(forceUpdate, alert, before) == ~(alert <=> before)

Repaints(forceUpdate, alert, before) == forceUpdate \/ ~(alert <=> before)

\* Fault: every alerting page asks to be brought to the front.
BringsAlways(t, i, paint, p) == IF t.bring = 0 /\ p \in BringToFront THEN i ELSE t.bring

\* The first page whose graph is painted in the colours of an alert that asks for it.
Brings(t, i, paint, p) ==
  IF t.bring = 0 /\ paint /\ p \in BringToFront THEN i ELSE t.bring

\* updateDialPage with a reading: evaluation, snooze, dirty mark, colours, image.
Look(g) ==
  LET t       == goroutine[g]
      o       == Obj(g)
      i       == t.i
      p       == o.pages[i]
      graph   == <<i, o.graphs[i]>>
      now     == evaluate(p, i)
      over    == snooze[i] = "expired"
      snoozed == snooze[i] = "on"
      repaint == Repaints(over \/ i \in dirty, now.alert, p \in o.current)
      after   == [o EXCEPT !.current = IF now.alert THEN @ \cup {p} ELSE @ \ {p}]
      colours == IF repaint THEN [painted EXCEPT ![graph] = now.alert /\ ~snoozed] ELSE painted
  IN
  /\ t.pc = "look" /\ up
  /\ latch' = [latch EXCEPT ![i] = now.state]
  /\ snooze' = IF over THEN [snooze EXCEPT ![i] = "off"] ELSE snooze
  /\ dirty' = IF over THEN dirty \cup {i} ELSE dirty \ {i}
  /\ painted' = colours
  /\ Goes(g, [Collected(t, after, Image(<<[page |-> p, alert |-> colours[graph]]>>, "page"))
                EXCEPT !.bring = Brings(t, i, repaint /\ now.alert /\ ~snoozed, p),
                       !.changed = t.changed \/ repaint], after)
  /\ lost' = IF ~repaint THEN lost ELSE IF t.own = None THEN lost \ {i} ELSE lost \cup {i}
  /\ Proceeds(g)
  /\ UNCHANGED <<world, copies, strip, overtaken, bounds>>

\* SetSettings(s), of settings that are outdated or not.
SetSettings(s, outdated) == saved' = s /\ overtaken' = outdated

\* Fault: only the page that is brought to the front is saved.
SavedIfMoved(changed, moved) == moved

SaveNeeded(changed, moved) == changed \/ moved

\* "A page whose alarm just fired (with bring-to-front) becomes the active page."
Finish(g) ==
  LET t     == goroutine[g]
      o     == Obj(g)
      moved == t.bring # 0 /\ t.bring # o.active
      after == IF moved THEN [o EXCEPT !.active = t.bring] ELSE o
  IN
  /\ t.pc = "finish"
  /\ Goes(g, [t EXCEPT !.pc = "send", !.bring = 0], after)
  /\ IF SaveNeeded(t.changed, moved)
     THEN SetSettings(SettingsOf(after), t.own # None)
     ELSE UNCHANGED <<saved, overtaken>>
  /\ settled' = IF g = "events" \/ (moved /\ t.own = None) THEN "no" ELSE settled
  /\ UNCHANGED <<world, painted, runtime, inspector, strip, lost, expected, bounds>>

\* An overview is drawn now, the active page has been; none has when the active page
\* was another one before and after its turn.
Send(g) ==
  LET t == goroutine[g]
      o == Obj(g)
  IN
  /\ t.pc = "send"
  /\ strip' = IF o.overview THEN Overview(o) ELSE IF t.image # None THEN t.image ELSE strip
  /\ Goes(g, Resting, o)
  /\ settled' = IF g = "events" THEN "no" ELSE IF settled = "pass" THEN "yes" ELSE settled
  /\ UNCHANGED <<world, painted, runtime, copies, lost, expected, overtaken, bounds>>

updateDialFeedback(g) ==
  \/ Begin(g) \/ Enter(g) \/ LookUnavailable(g) \/ Look(g) \/ Finish(g) \/ Send(g)

-----------------------------------------------------------------------------
(* Handlers of the event goroutine, which end with updateDialFeedback.     *)

User ==
  /\ goroutine["events"].pc = "idle"
  /\ uses < MaxUser /\ uses' = uses + 1
  /\ UNCHANGED <<world, strip, worldly>>

Then(pc) == goroutine' = [goroutine EXCEPT !["events"].pc = pc]

\* The ticker keeps what it works on when that is replaced.
ThenOutdated(pc) ==
  LET old == IF goroutine["ticker"].pc = "idle" THEN None ELSE Obj("ticker")
  IN  goroutine' = [goroutine EXCEPT !["events"].pc = pc, !["ticker"].own = old]

\* A new graph for index i, besides the ticker's old one.
NewGraph(i) ==
  LET old == goroutine["ticker"].own'
  IN  IF old = None \/ i \notin DOMAIN old.graphs THEN 0 ELSE 1 - old.graphs[i]

\* "reusing each existing graph ... when the page at that index still plots the same
\* reading": a page is its reading.
Reuses(s, i) == dial # None /\ i \in DOMAIN dial.pages /\ dial.pages[i] = s.pages[i]

\* Settings s come in force; every graph gets the page's own colours.
Install(s, overview) ==
  LET graphs == [i \in DOMAIN s.pages |-> IF Reuses(s, i) THEN dial.graphs[i] ELSE NewGraph(i)]
  IN  /\ dial' = [pages |-> s.pages, active |-> s.active, current |-> s.current,
                  graphs |-> graphs, overview |-> overview]
      /\ painted' = [g \in Graphs |->
           IF g[1] \in DOMAIN s.pages /\ g[2] = graphs[g[1]] THEN FALSE ELSE painted[g]]
      /\ lost' = {i \in DOMAIN s.pages : s.pages[i] \in s.current}

\* The view is the default one.
handleDialWillAppear ==
  /\ dial = None /\ User
  /\ ThenOutdated("begin")
  /\ \E overview \in DefaultViews : Install(saved, overview)
  /\ overtaken' = FALSE /\ Disturb(None)
  /\ UNCHANGED <<runtime, copies>>

handleDialWillDisappear ==
  /\ dial # None /\ User
  /\ ThenOutdated("idle")
  /\ dial' = None /\ lost' = {} /\ Disturb(None)
  /\ UNCHANGED <<painted, runtime, copies, overtaken>>

handleDialPropertyInspectorConnected ==
  /\ dial # None /\ User
  /\ inspector' = SettingsOf(dial) /\ Disturb(expected)
  /\ UNCHANGED <<dial, painted, runtime, goroutine, saved, lost, overtaken>>

\* dial_pi.js: select, add, remove or move a page in the copy, or change what is not
\* about a page.
Edited(c) ==
  LET n == Len(c.pages)
      swap(i) == [c.pages EXCEPT ![i] = c.pages[i + 1], ![i + 1] = c.pages[i]]
  IN  {c} \cup {[c EXCEPT !.active = i] : i \in 1..n}
      \cup {[c EXCEPT !.pages = Append(@, p), !.active = n + 1] : p \in Pages \ ToSet(c.pages)}
      \cup {[pages |-> RemoveAt(c.pages, i), current |-> c.current \ {c.pages[i]},
             active |-> Max({1, Min({c.active, n - 1})})] : i \in 1..n}
      \cup {[c EXCEPT !.pages = swap(i), !.active = i] : i \in 1..(n - 1)}
      \cup {[c EXCEPT !.pages = swap(i), !.active = i + 1] : i \in 1..(n - 1)}

\* The view stays as it is, unless another default view is all that was edited.
dialSetSettings(s) ==
  /\ dial # None /\ User
  /\ inspector' = s
  /\ ThenOutdated("begin")
  /\ Install(s, dial.overview) \/ (s = inspector /\ Install(s, ~dial.overview))
  /\ SetSettings(s, FALSE) /\ Disturb(None)
  /\ UNCHANGED runtime

OnDialDown ==
  /\ dial # None /\ User
  /\ dial.pages # <<>>
  /\ dial' = [dial EXCEPT !.overview = ~@]
  /\ Then("begin") /\ Disturb(expected)
  /\ UNCHANGED <<painted, runtime, copies, lost, overtaken>>

\* The new index is copied for the settings that are saved and sent next.
OnDialRotate(ticks) ==
  /\ dial # None /\ User
  /\ LET to == wrapDialIndex(dial.active, ticks, Len(dial.pages))
     IN  /\ dial' = [dial EXCEPT !.active = to]
         /\ goroutine' = [goroutine EXCEPT !["events"].pc = "save", !["events"].copy = to]
         /\ Disturb(IF Calm({}) /\ to \in DOMAIN dial.pages THEN dial.pages[to] ELSE None)
  /\ UNCHANGED <<painted, runtime, copies, lost, overtaken>>

\* The copy has the dial's own pages.
SaveRotation ==
  LET copied == [SettingsOf(dial) EXCEPT !.active = goroutine["events"].copy] IN
  /\ goroutine["events"].pc = "save"
  /\ SetSettings(copied, copied.active # dial.active)
  /\ inspector' = copied
  /\ Then("begin") /\ Disturb(expected)
  /\ UNCHANGED <<world, dial, painted, runtime, strip, lost, bounds>>

\* advanceConfiguredThresholdSnooze with one preset.
TouchSnooze(i) ==
  /\ snooze' = [snooze EXCEPT ![i] = IF @ = "on" THEN "off" ELSE "on"]
  /\ dirty' = dirty \cup {i}
  /\ UNCHANGED <<dial, latch, saved, overtaken>>

TouchClear(i) ==
  /\ dial.pages[i] \in dial.current /\ latch[i] = [page |-> dial.pages[i], state |-> "latched"]
  /\ latch' = [latch EXCEPT ![i].state = "suppressed"]
  /\ dirty' = dirty \cup {i}
  /\ dial' = [dial EXCEPT !.current = @ \ {dial.pages[i]}]
  /\ SetSettings(SettingsOf(dial'), FALSE)
  /\ UNCHANGED snooze

OnTouchTap ==
  /\ dial # None /\ User
  /\ dial.pages # <<>>
  /\ \/ dial.pages[dial.active] \in Snoozable /\ TouchSnooze(dial.active)
     \/ dial.pages[dial.active] \notin Snoozable /\ TouchClear(dial.active)
  /\ Then("begin") /\ Disturb(None)
  /\ UNCHANGED <<painted, inspector, lost>>

-----------------------------------------------------------------------------
(* HWiNFO, and time.                                                       *)

World ==
  /\ worldly < MaxWorld /\ worldly' = worldly + 1
  /\ UNCHANGED <<dial, painted, latch, dirty, goroutine, copies, strip, lost, overtaken, uses>>

IndexOf(p) == {i \in DOMAIN dial.pages : dial.pages[i] = p}

Read(p) ==
  /\ World
  /\ alarm' = IF p \in alarm THEN alarm \ {p} ELSE alarm \cup {p}
  /\ Disturb(IF p \notin BringToFront THEN expected
             ELSE IF dial # None /\ p \in alarm' /\ \E i \in IndexOf(p) : Asks(i) THEN p
             ELSE None)
  /\ UNCHANGED <<up, snooze>>

Outage ==
  /\ World
  /\ up' = ~up /\ Disturb(expected)
  /\ UNCHANGED <<alarm, snooze>>

\* The time of the snooze at i is up.
Expire(i) ==
  /\ World
  /\ snooze[i] = "on" /\ snooze' = [snooze EXCEPT ![i] = "expired"]
  /\ Disturb(None)
  /\ UNCHANGED <<alarm, up>>

Init ==
  /\ alarm = {} /\ up = TRUE /\ dial = None
  /\ painted = [g \in Graphs |-> FALSE]
  /\ latch = [i \in Indices |-> [page |-> None, state |-> "off"]]
  /\ snooze = [i \in Indices |-> "off"] /\ dirty = {}
  /\ goroutine = [g \in {"ticker", "events"} |-> Resting]
  /\ saved = [pages |-> FirstPages, active |-> 1, current |-> {}] /\ inspector = saved
  /\ strip = Message
  /\ settled = "no" /\ lost = {} /\ expected = None /\ overtaken = FALSE
  /\ uses = 0 /\ worldly = 0

Next ==
  \/ \E g \in {"ticker", "events"} : updateDialFeedback(g)
  \/ handleDialWillAppear \/ handleDialWillDisappear \/ handleDialPropertyInspectorConnected
  \/ \E s \in Edited(inspector) : dialSetSettings(s)
  \/ OnDialDown
  \/ \E ticks \in {-1, 1} : OnDialRotate(ticks)
  \/ SaveRotation
  \/ OnTouchTap
  \/ \E p \in Pages : Read(p)
  \/ Outage
  \/ \E i \in Indices : Expire(i)

Spec == Init /\ [][Next]_vars

-----------------------------------------------------------------------------
(* Properties.                                                             *)

Settled == dial # None /\ settled = "yes" /\ up

\* The alert at i is to be seen.
Shows(i) == evaluate(dial.pages[i], i).alert /\ snooze[i] = "off"

\* When nothing has happened during one pass of the ticker, the strip shows the active
\* page, and each page it shows has the colours of its alert exactly when there is one
\* that is not snoozed - whichever goroutine, with whichever settings, painted it and
\* consumed its mark - except a graph that came into force during the alert or that
\* a goroutine with outdated settings painted.
StripSettles ==
  Settled /\ dial.pages # <<>> =>
    LET shown == IF dial.overview
                 THEN dialOverviewIndices(dial.active, Len(dial.pages), OverviewCap)
                 ELSE <<dial.active>>
    IN  /\ Len(strip.cards) = Len(shown)
        /\ \A c \in DOMAIN shown :
             /\ strip.cards[c].page = dial.pages[shown[c]]
             /\ shown[c] \notin lost => (strip.cards[c].alert <=> Shows(shown[c]))

\* "Edge-triggered, so it does not lock out manual navigation afterwards": the dial
\* comes to rest at the page that was asked for last, by its alert or by the user.
NavigationHolds ==
  Settled /\ expected # None => dial.pages[dial.active] = expected

\* What Stream Deck gives back to a dial that is shown again is what the dial has now,
\* unless outdated settings were saved over it.
SavedAgrees == Settled /\ ~overtaken => saved = SettingsOf(dial)
=============================================================================
