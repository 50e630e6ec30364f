---------------------------- MODULE ActionManager ----------------------------
(***************************************************************************)
(* One reading tile between its two writers.  The ticker (actionManager's  *)
(* Run calling updateTiles) works on the settings object that it found     *)
(* registered; the handlers of the event goroutine work on a copy, which   *)
(* they register at the end.  Both save settings with Stream Deck, paint   *)
(* the same graph and send images, and no lock spans a whole update or a   *)
(* whole handler.                                                          *)
(*                                                                         *)
(* Settings are objects on a heap, because SetAction registers pointers    *)
(* and getSettings copies the struct but not the thresholds it points to.  *)
(* The tile has one threshold, met by the reading High, without dwell or   *)
(* cooldown; revisions stand for its colours and for all other fields.     *)
(***************************************************************************)
EXTENDS Naturals

CONSTANTS
  Objects,        \* addresses of settings
  Lists,          \* addresses of threshold arrays
  Graphs,         \* addresses of graphs
  MaxActs,        \* bound on what the user does to the tile while it is shown
  MaxEdits,       \* bound on the edits of each kind among it
  Nil             \* no object, no list, no graph

ASSUME AddressAssumption == Nil \notin Objects \cup Lists \cup Graphs

\* Memory does not run out: the registered settings and a thread's leave room for
\* new ones, and a thread's graph for a new graph.
ASSUME MemoryAssumption ==
  /\ \A p, q \in Objects \cup {Nil} : Objects \ {p, q} # {}
  /\ \A p, q \in Lists \cup {Nil} : Lists \ {p, q} # {}
  /\ \A p \in Graphs \cup {Nil} : Graphs \ {p} # {}
ASSUME BoundAssumption == MaxActs \in Nat /\ MaxEdits \in Nat

Threads  == {"ticker", "events"}
Readings == {"Low", "High", "Unavailable"}

\* The colours of a graph: a revision of the threshold's, or the tile's own.
Own    == MaxEdits + 1
Colors == 0 .. Own

Placeholder == Nil      \* the image of a tile without a reading

VARIABLES
  reading,        \* what a look at HWiNFO gives
  heap,           \* settings objects: revision of the fields, array of
                  \* thresholds, InErrorState, CurrentThresholdID # ""
  arrays,         \* threshold arrays: revision of the threshold's colours
  action,         \* am.actions[context].settings
  deck,           \* the settings Stream Deck has saved
  graph,          \* p.graphs[context]
  painted,        \* the colours of each graph
  image,          \* what the key shows
  dirty,          \* p.thresholdDirty[context]
  fresh,          \* the poll time differs from p.lastPollTime[context]
  snoozed,        \* p.thresholdSnoozes[context]
  thread,         \* the ticker and the event goroutine

  (* History and bounds.                                                   *)
  edits,          \* the revisions registered last
  acts,           \* how often the user did something
  mishaps         \* what went wrong and was not made up for

store == <<heap, arrays, action, deck>>
tile  == <<graph, painted, image, dirty, fresh, snoozed>>
vars  == <<reading, store, tile, thread, edits, acts, mishaps>>

\* A thread has written settings or drawn although the other one had since it
\* began; an outage has consumed a dirty mark; the last save of an edit failed.
Mishaps == {"overtaken", "unmarked", "unsaved"}

Steps == {"idle", "start", "gate", "down", "evaluate", "paint", "save", "draw", "settle",
          "saveEdit", "register", "refresh", "vanish", "saveCurrent"}

\* The steps of an update that need a graph to draw on.
Drawing == {"gate", "down", "evaluate", "paint", "save", "draw"}

SettingsType ==
  [fields : 0..MaxEdits, list : Lists \cup {Nil}, error : BOOLEAN, current : BOOLEAN]
SavedType ==
  [fields : 0..MaxEdits, colors : 0..MaxEdits, error : BOOLEAN, current : BOOLEAN]
ThreadType ==
  [pc : Steps, ref : Objects \cup {Nil}, graph : Graphs \cup {Nil},
   then : {"idle", "refresh", "saveCurrent"}, forced : BOOLEAN, alert : BOOLEAN,
   color : Colors, late : BOOLEAN, hidden : BOOLEAN, overtaken : BOOLEAN]

\* Type invariant; an update past the early return of a tile without a graph has
\* one to draw on, whatever happened to the tile since.
TypeOK ==
  /\ reading \in Readings
  /\ heap \in [Objects -> SettingsType]
  /\ arrays \in [Lists -> 0..MaxEdits]
  /\ action \in Objects \cup {Nil}
  /\ deck \in SavedType
  /\ graph \in Graphs \cup {Nil} /\ painted \in [Graphs -> Colors]
  /\ image \in {Placeholder} \cup [color : Colors, alert : BOOLEAN]
  /\ dirty \in BOOLEAN /\ fresh \in BOOLEAN /\ snoozed \in BOOLEAN
  /\ thread \in [Threads -> ThreadType]
  /\ \A t \in Threads : thread[t].pc \in Drawing => thread[t].graph # Nil
  /\ edits \in [fields : 0..MaxEdits, colors : 0..MaxEdits]
  /\ acts \in 0..MaxActs /\ mishaps \subseteq Mishaps

-----------------------------------------------------------------------------
(* Threads.  ref: the settings object in use; then: where a handler goes   *)
(* from its SetAction; graph, forced, alert, color: locals of updateTiles; *)
(* late: HWiNFO has published since it read the poll time; hidden: the     *)
(* tile has been hidden, and overtaken: the other thread has written,      *)
(* since it began.                                                         *)

Idle == [pc |-> "idle", ref |-> Nil, graph |-> Nil, then |-> "idle", forced |-> FALSE,
         alert |-> FALSE, color |-> Own, late |-> FALSE, hidden |-> FALSE,
         overtaken |-> FALSE]

At(t, pc) == thread[t].pc = pc
Ref(t)    == thread[t].ref
To(t, pc) == [thread[t] EXCEPT !.pc = pc]

\* Thread t becomes s without writing; the mishaps become ms.
StepWith(t, s, ms) == thread' = [thread EXCEPT ![t] = s] /\ mishaps' = ms
Step(t, s) == StepWith(t, s, mishaps)

\* Thread t becomes s and has written settings or drawn, which the other thread
\* may be about to do.  Being overtaken is not made up for.
WriteWith(t, s, ms) ==
  LET over == "overtaken" \in ms \/ thread[t].overtaken
  IN  /\ mishaps' = IF over THEN {"overtaken"} ELSE ms
      /\ thread' = [u \in Threads |->
                      IF u = t THEN [s EXCEPT !.overtaken = @ /\ ~over]
                      ELSE [thread[u] EXCEPT !.overtaken = ~over /\ ~At(u, "idle")]]
Write(t, s) == WriteWith(t, s, mishaps)

(* Memory.                                                                 *)

Blank == [fields |-> 0, list |-> Nil, error |-> FALSE, current |-> FALSE]

Live == ({action} \cup {thread[t].ref : t \in Threads}) \ {Nil}

\* The heap becomes h and the arrays a; what nothing points to is blank.
Store(h, a) ==
  /\ heap' = [o \in Objects |-> IF o \in Live' THEN h[o] ELSE Blank]
  /\ arrays' = [l \in Lists |-> IF \E o \in Live' : h[o].list = l THEN a[l] ELSE 0]
Collect == Store(heap, arrays)

NewObject == CHOOSE o \in Objects : o \notin Live
NewList   == CHOOSE l \in Lists : \A o \in Live : heap[o].list # l
NewGraph  == CHOOSE g \in Graphs : \A t \in Threads : thread[t].graph # g

\* What SetSettings sends for the object at r.
Sent(h, a, r) ==
  [fields |-> h[r].fields, colors |-> a[h[r].list], error |-> h[r].error,
   current |-> h[r].current]

\* A tile that Stream Deck has saved and not shown yet.
Init ==
  /\ reading = "Unavailable"
  /\ heap = [o \in Objects |-> Blank] /\ arrays = [l \in Lists |-> 0]
  /\ action = Nil
  /\ deck = [fields |-> 0, colors |-> 0, error |-> FALSE, current |-> FALSE]
  /\ graph = Nil /\ painted = [g \in Graphs |-> Own] /\ image = Placeholder
  /\ dirty = FALSE /\ fresh = TRUE /\ snoozed = FALSE
  /\ thread = [t \in Threads |-> Idle]
  /\ edits = [fields |-> 0, colors |-> 0] /\ acts = 0 /\ mishaps = {}

-----------------------------------------------------------------------------
(* updateTiles on thread t, with the settings at Ref(t).                   *)

\* Fault: the update goes on without a graph.
NoGraphGoesOn(t) ==
  /\ At(t, "start") /\ graph = Nil
  /\ UNCHANGED <<reading, action, deck, tile, edits, acts>>
  /\ Step(t, To(t, "gate")) /\ Collect

\* Fault: InErrorState is reset and saved before the graph is looked up.
NoGraphSaves(t) ==
  /\ At(t, "start") /\ graph = Nil
  /\ UNCHANGED <<reading, action, tile, edits, acts>>
  /\ deck' = IF heap[Ref(t)].error THEN [Sent(heap, arrays, Ref(t)) EXCEPT !.error = FALSE]
             ELSE deck
  /\ Step(t, Idle) /\ Collect

NoGraph(t) ==
  /\ At(t, "start") /\ graph = Nil
  /\ UNCHANGED <<reading, action, deck, tile, edits, acts>>
  /\ Step(t, Idle) /\ Collect

\* InErrorState ends, and is entered again below if there is still no reading.
Start(t) ==
  /\ At(t, "start") /\ graph # Nil
  /\ UNCHANGED <<reading, action, tile, edits, acts>>
  /\ LET s == [To(t, "gate") EXCEPT !.graph = graph]
         h == [heap EXCEPT ![Ref(t)].error = FALSE]
     IN  IF heap[Ref(t)].error
         THEN Write(t, s) /\ Store(h, arrays) /\ deck' = Sent(h, arrays, Ref(t))
         ELSE Step(t, s) /\ UNCHANGED <<heap, arrays, deck>>

\* The dirty mark is consumed whether or not there is a poll time; without one
\* the tile is unavailable, and without a change of it and a reason to go on the
\* update is over.
Look(t, go) ==
  /\ At(t, "gate")
  /\ UNCHANGED <<reading, action, deck, graph, painted, image, fresh, snoozed, edits, acts>>
  /\ dirty' = FALSE
  /\ Step(t, IF reading = "Unavailable" THEN [To(t, "down") EXCEPT !.forced = dirty]
             ELSE IF go THEN [To(t, "evaluate") EXCEPT !.forced = dirty]
             ELSE Idle)
  /\ Collect

\* Fault: the dirty mark does not override an unchanged poll time.
GateIgnoresDirty(t) == Look(t, fresh)

Gate(t) == Look(t, dirty \/ fresh)

\* showUnavailable: in error state nothing is sent twice, and the next poll time
\* counts as a new one.
Down(t) ==
  /\ At(t, "down")
  /\ UNCHANGED <<reading, action, graph, painted, dirty, snoozed, edits, acts>>
  /\ fresh' = TRUE
  /\ LET h  == [heap EXCEPT ![Ref(t)].error = TRUE]
         ms == IF thread[t].forced THEN mishaps \cup {"unmarked"} ELSE mishaps
     IN  IF heap[Ref(t)].error
         THEN StepWith(t, Idle, ms) /\ Collect /\ UNCHANGED <<deck, image>>
         ELSE /\ WriteWith(t, Idle, ms) /\ Store(h, arrays)
              /\ deck' = Sent(h, arrays, Ref(t)) /\ image' = Placeholder

\* The reading is fetched, the threshold evaluated and its colours copied; a
\* snooze does not outlive the alert.
Evaluate(t) ==
  /\ At(t, "evaluate")
  /\ UNCHANGED <<reading, store, graph, painted, image, fresh, edits, acts>>
  /\ LET alert == reading = "High"
         ended == snoozed /\ ~alert
     IN  IF reading = "Unavailable"
         THEN Step(t, To(t, "down")) /\ UNCHANGED <<dirty, snoozed>>
         ELSE /\ Step(t, [To(t, "paint") EXCEPT
                   !.alert = alert, !.forced = @ \/ ended,
                   !.color = IF alert /\ ~snoozed THEN arrays[heap[Ref(t)].list] ELSE Own])
              /\ snoozed' = (snoozed /\ ~ended) /\ dirty' = (dirty \/ ended)

\* Colours and SetAction, when the mark or another alert asks for them.
Paint(t) ==
  /\ At(t, "paint")
  /\ UNCHANGED <<reading, deck, graph, image, dirty, fresh, snoozed, edits, acts>>
  /\ LET s    == thread[t]
         next == [s EXCEPT !.forced = FALSE, !.color = Own]
     IN  IF s.forced \/ s.alert # heap[s.ref].current
         THEN /\ painted' = [painted EXCEPT ![s.graph] = s.color]
              /\ action' = s.ref
              /\ WriteWith(t, [next EXCEPT !.pc = "save"], mishaps \ {"unmarked"})
              /\ Store([heap EXCEPT ![s.ref].current = s.alert], arrays)
         ELSE Step(t, [next EXCEPT !.pc = "draw"]) /\ UNCHANGED <<painted, action, heap, arrays>>

Save(t) ==
  /\ At(t, "save")
  /\ UNCHANGED <<reading, heap, arrays, action, tile, edits, acts>>
  /\ deck' = Sent(heap, arrays, Ref(t))
  /\ Write(t, To(t, "draw"))

Draw(t) ==
  /\ At(t, "draw")
  /\ UNCHANGED <<reading, action, deck, graph, painted, dirty, fresh, snoozed, edits, acts>>
  /\ image' = [color |-> painted[thread[t].graph], alert |-> thread[t].alert]
  /\ Write(t, [Idle EXCEPT !.pc = "settle", !.late = thread[t].late])
  /\ Collect

\* lastPollTime becomes the poll time this update began with.
Settle(t) ==
  /\ At(t, "settle")
  /\ UNCHANGED <<reading, store, graph, painted, image, dirty, snoozed, edits, acts>>
  /\ fresh' = thread[t].late
  /\ Step(t, Idle)

updateTiles(t) ==
  \/ NoGraph(t) \/ Start(t) \/ Gate(t) \/ Down(t) \/ Evaluate(t)
  \/ Paint(t) \/ Save(t) \/ Draw(t) \/ Settle(t)

\* A tick for the action that the ticker has found.
Update ==
  /\ UNCHANGED <<reading, store, tile, edits, acts>>
  /\ Step("ticker", [Idle EXCEPT !.pc = "start", !.ref = action])

\* Fault: lastRun is also set for a tile that is skipped, so that the five seconds
\* of an error never pass.
RunSkipsErrors == At("ticker", "idle") /\ action # Nil /\ ~heap[action].error /\ Update

\* The ticker may skip a tile in error state for five seconds, and be held up by
\* other tiles between the look and the update.
Run == At("ticker", "idle") /\ action # Nil /\ Update

-----------------------------------------------------------------------------
(* The event goroutine: one handler after the other, for a tile that is    *)
(* shown.  A handler copies the registered settings, changes the copy,     *)
(* saves it and registers it, and may end with a refresh.                  *)

Act ==
  /\ At("events", "idle") /\ graph # Nil /\ action # Nil
  /\ acts < MaxActs /\ acts' = acts + 1

\* The event goroutine is at pc with a new object.
Copied(pc, then) == [Idle EXCEPT !.pc = pc, !.ref = NewObject, !.then = then]

\* A field that is copied with the struct: title, format, unit, mode, ...
handleSetField ==
  /\ Act /\ edits.fields < MaxEdits
  /\ UNCHANGED <<reading, action, deck, tile, edits>>
  /\ Step("events", Copied("saveEdit", "idle"))
  /\ Store([heap EXCEPT ![NewObject] = [heap[action] EXCEPT !.fields = edits.fields + 1]],
           arrays)

\* A colour of the threshold, written into the array that the copy shares with
\* the registered settings, and painted if the alert is on.
handleThresholdUpdate ==
  /\ Act /\ edits.colors < MaxEdits
  /\ UNCHANGED <<reading, action, deck, graph, image, fresh, snoozed>>
  /\ LET rev == edits.colors + 1
         on  == heap[action].current
     IN  /\ Step("events", Copied("saveEdit", IF on THEN "refresh" ELSE "idle"))
         /\ Store([heap EXCEPT ![NewObject] = heap[action]],
                  [arrays EXCEPT ![heap[action].list] = rev])
         /\ painted' = IF on THEN [painted EXCEPT ![graph] = rev] ELSE painted
         /\ edits' = [edits EXCEPT !.colors = rev]
  /\ dirty' = TRUE

\* The sensors cannot be read: the tile is in error state.
OnPropertyInspectorConnected ==
  /\ reading = "Unavailable" /\ Act
  /\ UNCHANGED <<reading, action, deck, tile, edits>>
  /\ Step("events", Copied("saveEdit", "idle"))
  /\ Store([heap EXCEPT ![NewObject] = [heap[action] EXCEPT !.error = TRUE]], arrays)

SaveEdit ==
  /\ At("events", "saveEdit")
  /\ UNCHANGED <<reading, heap, arrays, action, tile, edits, acts>>
  /\ WriteWith("events", To("events", "register"), mishaps \ {"unsaved"})
  /\ deck' = Sent(heap, arrays, Ref("events"))

\* SetSettings fails and the handler returns its error.
SaveEditFails ==
  /\ At("events", "saveEdit")
  /\ UNCHANGED <<reading, action, deck, tile, edits, acts>>
  /\ StepWith("events", Idle,
              IF "overtaken" \in mishaps THEN mishaps ELSE mishaps \cup {"unsaved"})
  /\ Collect

\* SetAction of settings a by a handler, or by OnWillAppear.
Registers(a) ==
  /\ At("events", "register")
  /\ UNCHANGED <<reading, deck, tile, acts>>
  /\ action' = a
  /\ LET s == thread["events"]
     IN  /\ Write("events", [Idle EXCEPT !.pc = s.then,
                               !.ref = IF s.then = "saveCurrent" THEN s.ref ELSE Nil])
         /\ edits' = [edits EXCEPT !.fields = heap[s.ref].fields]
  /\ Collect

\* Fault: a handler forgets to register what it has saved.
RegisterForgotten == Registers(IF action = Nil THEN Ref("events") ELSE action)

Register == Registers(Ref("events"))

\* The key steps through one preset, "until resumed", while the alert is on.
OnKeyDown ==
  /\ Act /\ heap[action].current
  /\ UNCHANGED <<reading, store, graph, painted, image, fresh, edits>>
  /\ snoozed' = ~snoozed /\ dirty' = TRUE
  /\ Step("events", [Idle EXCEPT !.pc = "refresh"])

\* updateTiles on another copy.
refreshAction ==
  /\ At("events", "refresh")
  /\ UNCHANGED <<reading, action, deck, tile, edits, acts>>
  /\ Step("events", Copied("start", "idle"))
  /\ Store([heap EXCEPT ![NewObject] = heap[action]], arrays)

\* The graph goes first; the runtime state and the action follow.
OnWillDisappear ==
  /\ Act
  /\ UNCHANGED <<reading, store, painted, image, dirty, fresh, snoozed, edits, mishaps>>
  /\ graph' = Nil
  /\ thread' = [events |-> [Idle EXCEPT !.pc = "vanish"],
                ticker |-> [thread["ticker"] EXCEPT !.hidden = ~At("ticker", "idle")]]

RemoveAction ==
  /\ At("events", "vanish")
  /\ UNCHANGED <<reading, deck, graph, painted, image, fresh, edits, acts>>
  /\ dirty' = FALSE /\ snoozed' = FALSE /\ action' = Nil
  /\ Step("events", Idle) /\ Collect

\* Settings from Stream Deck, a new graph in the tile's own colours, and a dirty
\* mark; the settings are registered and, if they named an alert, saved.
OnWillAppear ==
  /\ At("events", "idle") /\ graph = Nil
  /\ UNCHANGED <<reading, action, deck, image, fresh, snoozed, acts>>
  /\ graph' = NewGraph /\ painted' = [painted EXCEPT ![NewGraph] = Own]
  /\ dirty' = TRUE
  /\ Step("events", Copied("register", IF deck.current THEN "saveCurrent" ELSE "idle"))
  /\ Store([heap EXCEPT ![NewObject] = [fields |-> deck.fields, list |-> NewList,
                                        error |-> deck.error, current |-> FALSE]],
           [arrays EXCEPT ![NewList] = deck.colors])
  /\ edits' = [fields |-> deck.fields, colors |-> deck.colors]

SaveCurrent ==
  /\ At("events", "saveCurrent")
  /\ UNCHANGED <<reading, action, tile, edits, acts>>
  /\ deck' = Sent(heap, arrays, Ref("events"))
  /\ Write("events", Idle) /\ Collect

Handler ==
  \/ SaveEdit \/ SaveEditFails \/ Register \/ refreshAction
  \/ RemoveAction \/ SaveCurrent \/ updateTiles("events")

-----------------------------------------------------------------------------
\* HWiNFO publishes a value under a new poll time.
Publish ==
  /\ reading' \in {"Low", "High"} /\ fresh' = TRUE
  /\ thread' = [t \in Threads |->
       [thread[t] EXCEPT !.late = thread[t].pc \in {"evaluate", "paint", "save", "draw", "settle"}]]
  /\ UNCHANGED <<store, graph, painted, image, dirty, snoozed, edits, acts, mishaps>>

\* HWiNFO or the bridge goes away.
Outage ==
  /\ reading # "Unavailable" /\ reading' = "Unavailable"
  /\ UNCHANGED <<store, tile, thread, edits, acts, mishaps>>

Next ==
  \/ Run \/ updateTiles("ticker") \/ Handler
  \/ handleSetField \/ handleThresholdUpdate \/ OnPropertyInspectorConnected
  \/ OnKeyDown \/ OnWillDisappear \/ OnWillAppear
  \/ Publish \/ Outage

Spec == Init /\ [][Next]_vars

\* Both goroutines run, and HWiNFO publishes again and again.
FairSpec ==
  /\ Spec
  /\ WF_vars(Run) /\ WF_vars(updateTiles("ticker")) /\ WF_vars(Handler)
  /\ WF_vars(Publish)

-----------------------------------------------------------------------------
(* Properties.                                                             *)

\* Nobody is at work on a tile that is shown.
Quiet == (\A t \in Threads : At(t, "idle")) /\ graph # Nil

\* No edit is lost, in memory or on the deck, unless an update and a handler
\* have written settings over each other: the ticker's reading, evaluating and
\* drawing in the middle of handlers does no harm.
EditsKept ==
  Quiet /\ "overtaken" \notin mishaps =>
    /\ action # Nil
    /\ heap[action].fields = edits.fields /\ arrays[heap[action].list] = edits.colors
    /\ "unsaved" \notin mishaps => deck.fields = edits.fields /\ deck.colors = edits.colors

\* A tile that has nothing left to look at has the colours of its alert, as last
\* edited and unless it is snoozed, in the graph and on the key.
FrameSettles ==
  /\ Quiet /\ mishaps \cap {"overtaken", "unmarked"} = {}
  /\ reading # "Unavailable" /\ ~dirty /\ ~fresh
  =>
    LET on    == reading = "High"
        color == IF on /\ ~snoozed THEN edits.colors ELSE Own
    IN  /\ heap[action].current = on
        /\ painted[graph] = color
        /\ image = [color |-> color, alert |-> on]

\* A hidden tile is left alone: an update that begins after OnWillDisappear has
\* removed the graph neither draws nor saves, even where the ticker still has
\* the removed action or has registered it again.
HiddenIsLeftAlone ==
  [][graph = Nil /\ <<image, deck>>' # <<image, deck>> => thread["ticker"].hidden]_vars

\* README: a tile whose source disconnects "recovers automatically": while there
\* are readings to show, a tile that is shown ends up showing them.
Recovers ==
  <>[](reading # "Unavailable" /\ graph # Nil) => <>[](image # Placeholder)
=============================================================================
