------------------------ MODULE ActionManager_proofs ------------------------
(***************************************************************************)
(* Theorems of ActionManager and their proofs.                             *)
(***************************************************************************)
EXTENDS ActionManager, TLAPS

Ticker == thread["ticker"]
Events == thread["events"]

\* The steps at which a thread works on no settings object, the steps of an update,
\* and those at which the event goroutine's object is nobody else's.
NoRef    == {"idle", "settle", "refresh", "vanish"}
Updating == {"start", "settle"} \cup Drawing
Private  == {"start", "gate", "down", "evaluate", "paint", "saveEdit", "register"}

\* The steps of an update that has left the error state and not entered it again.
Clean == {"gate", "down", "evaluate", "paint"}

Apart == "overtaken" \notin mishaps

-----------------------------------------------------------------------------
(* The invariant of memory and of the tile's appearance.                   *)

RefInv ==
  /\ \A t \in Threads : /\ thread[t].pc \in NoRef <=> thread[t].ref = Nil
                        /\ thread[t].pc \in Drawing <=> thread[t].graph # Nil
  /\ Ticker.pc \in {"idle"} \cup Updating
  /\ \A o \in Live : heap[o].list # Nil
  /\ Events.pc \in Private => Events.ref \notin {action, Ticker.ref}
  /\ Events.pc = "refresh" => action # Nil
  /\ \A t \in Threads : thread[t].pc \in Clean => ~heap[thread[t].ref].error

ShownInv ==
  /\ Events.pc \notin {"idle", "vanish"} => graph # Nil
  /\ Events.pc = "vanish" => graph = Nil
  /\ graph = Nil /\ Ticker.pc \in Drawing => Ticker.hidden
  /\ Events.pc \in Drawing => Events.graph = graph

Base == TypeOK /\ RefInv /\ ShownInv

-----------------------------------------------------------------------------
(* Threads and memory.                                                     *)

LEMMA ThreadSet ==
  /\ "ticker" \in Threads /\ "events" \in Threads /\ "ticker" # "events"
  /\ \A t \in Threads : t = "ticker" \/ t = "events"
BY DEF Threads

\* All fields of a thread but overtaken.
Alike(p, q) ==
  /\ p.pc = q.pc /\ p.ref = q.ref /\ p.graph = q.graph /\ p.then = q.then
  /\ p.forced = q.forced /\ p.alert = q.alert /\ p.color = q.color
  /\ p.late = q.late /\ p.hidden = q.hidden

LEMMA StepFacts ==
  ASSUME TypeOK, NEW t \in Threads, NEW s \in ThreadType, NEW ms, StepWith(t, s, ms)
  PROVE  /\ thread' \in [Threads -> ThreadType] /\ mishaps' = ms
         /\ thread'[t] = s /\ \A u \in Threads \ {t} : thread'[u] = thread[u]
BY DEF StepWith, TypeOK

LEMMA WriteFacts ==
  ASSUME TypeOK, NEW t \in Threads, NEW s \in ThreadType, NEW ms \in SUBSET Mishaps,
         WriteWith(t, s, ms)
  PROVE  /\ thread' \in [Threads -> ThreadType] /\ mishaps' \in SUBSET Mishaps
         /\ Alike(thread'[t], s) /\ \A u \in Threads \ {t} : Alike(thread'[u], thread[u])
         /\ "overtaken" \notin mishaps' =>
              /\ "overtaken" \notin ms /\ ~thread[t].overtaken /\ mishaps' = ms
              /\ (thread'[t].overtaken <=> s.overtaken)
              /\ \A u \in Threads \ {t} : thread'[u].overtaken <=> thread[u].pc # "idle"
<1> DEFINE over == "overtaken" \in ms \/ thread[t].overtaken
<1>1. over \in BOOLEAN
  OBVIOUS
<1>2. /\ mishaps' = IF over THEN {"overtaken"} ELSE ms
      /\ thread' = [u \in Threads |->
                      IF u = t THEN [s EXCEPT !.overtaken = @ /\ ~over]
                      ELSE [thread[u] EXCEPT !.overtaken = ~over /\ ~At(u, "idle")]]
  BY Zenon DEF WriteWith
<1>3. "overtaken" \in Mishaps
  BY DEF Mishaps
<1>4. over <=> "overtaken" \in ms \/ thread[t].overtaken
  OBVIOUS
<1>5. \A u \in Threads : thread[u] \in ThreadType
  BY DEF TypeOK
<1> HIDE DEF over
<1>6. /\ thread'[t] = [s EXCEPT !.overtaken = @ /\ ~over]
      /\ \A u \in Threads \ {t} :
           thread'[u] = [thread[u] EXCEPT !.overtaken = ~over /\ ~At(u, "idle")]
  BY <1>2
<1>7. /\ thread'[t] \in ThreadType /\ Alike(thread'[t], s)
      /\ ~over => (thread'[t].overtaken <=> s.overtaken)
  BY <1>6 DEF ThreadType, Alike
<1>8. \A u \in Threads \ {t} : /\ thread'[u] \in ThreadType /\ Alike(thread'[u], thread[u])
                               /\ ~over => (thread'[u].overtaken <=> thread[u].pc # "idle")
  <2> SUFFICES ASSUME NEW u \in Threads \ {t}
               PROVE  /\ thread'[u] \in ThreadType /\ Alike(thread'[u], thread[u])
                      /\ ~over => (thread'[u].overtaken <=> thread[u].pc # "idle")
    OBVIOUS
  <2> DEFINE b == ~over /\ ~At(u, "idle")
  <2>1. b \in BOOLEAN /\ (~over => (b <=> thread[u].pc # "idle"))
    BY DEF At
  <2> HIDE DEF b
  <2>2. thread'[u] = [thread[u] EXCEPT !.overtaken = b]
    BY <1>6 DEF b
  <2>3. QED
    BY <1>5, <2>1, <2>2 DEF ThreadType, Alike
<1>9. thread' \in [Threads -> ThreadType]
  BY <1>2, <1>7, <1>8
<1>10. QED
  BY <1>2, <1>3, <1>4, <1>7, <1>8, <1>9

LEMMA LiveSet ==
  /\ \A o : o \in Live <=> o # Nil /\ (o = action \/ o = Ticker.ref \/ o = Events.ref)
  /\ \A o : o \in Live' <=> o # Nil /\ (o = action' \/ o = Ticker'.ref \/ o = Events'.ref)
BY DEF Live, Ticker, Events, Threads

LEMMA LiveType ==
  ASSUME TypeOK
  PROVE  Live \subseteq Objects
BY LiveSet, ThreadSet DEF TypeOK, ThreadType, Ticker, Events

\* What a thread has, it keeps.
LEMMA StoreFacts ==
  ASSUME NEW h \in [Objects -> SettingsType], NEW a \in [Lists -> 0..MaxEdits], Store(h, a)
  PROVE  /\ heap' \in [Objects -> SettingsType] /\ arrays' \in [Lists -> 0..MaxEdits]
         /\ \A o \in Objects : o \in Live' => heap'[o] = h[o]
         /\ \A o \in Objects : o \in Live' /\ h[o].list \in Lists =>
              arrays'[h[o].list] = a[h[o].list]
<1>1. 0 \in 0..MaxEdits
  BY BoundAssumption
<1>2. Blank \in SettingsType
  BY <1>1 DEF Blank, SettingsType
<1>3. heap' \in [Objects -> SettingsType]
  BY <1>2 DEF Store
<1>4. arrays' \in [Lists -> 0..MaxEdits]
  BY <1>1 DEF Store
<1>5. QED
  BY <1>3, <1>4 DEF Store

LEMMA SpareObject ==
  ASSUME Base, Events.ref = Nil
  PROVE  NewObject \in Objects /\ NewObject \notin Live
<1>1. action \in Objects \cup {Nil} /\ Ticker.ref \in Objects \cup {Nil}
  BY ThreadSet DEF Base, TypeOK, ThreadType, Ticker
<1>2. PICK o \in Objects : o \notin {action, Ticker.ref}
  BY <1>1, MemoryAssumption
<1>3. o \notin Live
  BY <1>2, LiveSet
<1>4. QED
  BY <1>3, Zenon DEF NewObject

LEMMA SpareList ==
  ASSUME Base, Events.ref = Nil
  PROVE  NewList \in Lists /\ \A o \in Live : heap[o].list # NewList
<1> DEFINE l(o) == IF o = Nil THEN Nil ELSE heap[o].list
<1>1. action \in Objects \cup {Nil} /\ Ticker.ref \in Objects \cup {Nil}
  BY ThreadSet DEF Base, TypeOK, ThreadType, Ticker
<1>2. l(action) \in Lists \cup {Nil} /\ l(Ticker.ref) \in Lists \cup {Nil}
  BY <1>1 DEF Base, TypeOK, SettingsType
<1>3. PICK n \in Lists : n \notin {l(action), l(Ticker.ref)}
  BY <1>2, MemoryAssumption
<1>4. \A o \in Live : heap[o].list # n
  BY <1>3, LiveSet
<1>5. QED
  BY <1>4, Zenon DEF NewList

LEMMA SpareGraph ==
  ASSUME Base, Events.graph = Nil
  PROVE  NewGraph \in Graphs /\ NewGraph # Ticker.graph
<1>1. Ticker.graph \in Graphs \cup {Nil}
  BY ThreadSet DEF Base, TypeOK, ThreadType, Ticker
<1>2. PICK g \in Graphs : g # Ticker.graph
  BY <1>1, MemoryAssumption
<1>3. g # Nil
  BY AddressAssumption
<1>4. \A t \in Threads : thread[t].graph # g
  BY <1>2, <1>3, ThreadSet DEF Ticker, Events
<1>5. NewGraph \in Graphs /\ \A t \in Threads : thread[t].graph # NewGraph
  BY <1>4, Zenon DEF NewGraph
<1>6. QED
  BY <1>5, ThreadSet DEF Ticker

LEMMA IdleType == Idle \in ThreadType
<1>1. Own \in Colors
  BY BoundAssumption DEF Own, Colors
<1>2. QED
  BY <1>1 DEF Idle, ThreadType, Steps

LEMMA SentType ==
  ASSUME NEW h \in [Objects -> SettingsType], NEW a \in [Lists -> 0..MaxEdits],
         NEW r \in Objects, h[r].list # Nil
  PROVE  /\ Sent(h, a, r) \in SavedType
         /\ Sent(h, a, r).fields = h[r].fields /\ Sent(h, a, r).colors = a[h[r].list]
BY DEF Sent, SavedType, SettingsType

-----------------------------------------------------------------------------
(* Base is inductive.                                                      *)

LEMMA InitBase == Init => Base
<1> SUFFICES ASSUME Init
             PROVE  Base
  OBVIOUS
<1>1. /\ 0 \in 0..MaxEdits /\ 0 \in 0..MaxActs /\ Own \in Colors
      /\ Blank \in SettingsType
  BY BoundAssumption DEF Own, Colors, Blank, SettingsType
<1>2. /\ heap \in [Objects -> SettingsType] /\ arrays \in [Lists -> 0..MaxEdits]
      /\ action \in Objects \cup {Nil} /\ deck \in SavedType
  BY <1>1 DEF Init, SavedType
<1>3. /\ graph \in Graphs \cup {Nil} /\ painted \in [Graphs -> Colors]
      /\ image \in {Placeholder} \cup [color : Colors, alert : BOOLEAN]
      /\ edits \in [fields : 0..MaxEdits, colors : 0..MaxEdits]
      /\ reading \in Readings /\ acts \in 0..MaxActs /\ mishaps \subseteq Mishaps
      /\ dirty \in BOOLEAN /\ fresh \in BOOLEAN /\ snoozed \in BOOLEAN
  BY <1>1 DEF Init, Readings
<1>4. /\ thread \in [Threads -> ThreadType]
      /\ \A t \in Threads : thread[t] = Idle
  BY IdleType DEF Init
<1>5. \A t \in Threads : thread[t].pc = "idle" /\ thread[t].ref = Nil /\ thread[t].graph = Nil
  BY <1>4 DEF Idle
<1>6. TypeOK
  BY <1>2, <1>3, <1>4, <1>5 DEF TypeOK, Drawing
<1>7. Live = {}
  BY <1>5, LiveSet, ThreadSet DEF Init, Ticker, Events
<1>8. RefInv /\ ShownInv
  BY <1>5, <1>7, ThreadSet
     DEF RefInv, ShownInv, Ticker, Events, NoRef, Updating, Drawing, Private, Clean
<1>9. QED
  BY <1>6, <1>8 DEF Base

\* What the threads have keeps its fields, its array and its colours.
Kept == \A o \in Live : o \in Live' =>
          /\ heap'[o].fields = heap[o].fields /\ heap'[o].list = heap[o].list
          /\ arrays'[heap'[o].list] = arrays[heap[o].list]

\* The marks that stay the same.
SameCurrent == \A o \in Live : o \in Live' => heap'[o].current = heap[o].current
SameError   == \A o \in Live : o \in Live' => heap'[o].error = heap[o].error

\* Thread t has not written.
Reads(t) ==
  /\ \A u \in Threads \ {t} : thread'[u] = thread[u]
  /\ thread'[t].ref # Nil => (thread'[t].overtaken <=> thread[t].overtaken)
  /\ UNCHANGED <<action, deck, mishaps>>

\* Thread t has written: unless a writer has been overtaken, the other thread is now.
Writes(t, ms) ==
  Apart' =>
    /\ mishaps' = ms /\ "overtaken" \notin ms
    /\ ~thread[t].overtaken /\ ~thread'[t].overtaken
    /\ \A u \in Threads \ {t} : thread'[u].overtaken <=> thread[u].pc # "idle"

\* The settings at r have been saved.
Saves(r) == deck'.fields = heap[r].fields /\ deck'.colors = arrays[heap[r].list]

\* What the steps of updateTiles on thread t have in common.
Updates(t) ==
  /\ thread[t].pc \in Updating
  /\ thread' \in [Threads -> ThreadType]
  /\ \A u \in Threads \ {t} : Alike(thread'[u], thread[u])
  /\ \/ thread'[t].pc \in {"idle", "settle"} /\ thread'[t].ref = Nil /\ thread'[t].graph = Nil
     \/ /\ thread'[t].pc \in Drawing /\ thread'[t].ref = thread[t].ref
        /\ thread[t].ref # Nil
        /\ thread'[t].graph = IF thread[t].pc = "start" THEN graph ELSE thread[t].graph
        /\ thread'[t].graph # Nil
        /\ thread'[t].hidden = thread[t].hidden
        /\ thread'[t].pc \in Private => thread[t].pc \in Private
        /\ thread'[t].pc \in Clean => ~heap'[thread[t].ref].error
  /\ \/ action' = action
     \/ action' = thread[t].ref /\ thread'[t].pc = "save"
  /\ \/ Reads(t)
     \/ /\ thread[t].ref # Nil
        /\ \E ms : Writes(t, ms) /\ ms \ {"unmarked"} = mishaps \ {"unmarked"}
  /\ deck' = deck \/ Saves(thread[t].ref)
  /\ heap' \in [Objects -> SettingsType] /\ arrays' \in [Lists -> 0..MaxEdits]
  /\ Kept
  /\ \A o \in Live : o \in Live' /\ heap'[o].error =>
       heap[o].error \/ (o = thread[t].ref /\ thread[t].pc = "down")
  /\ deck' \in SavedType /\ painted' \in [Graphs -> Colors]
  /\ image' \in {Placeholder} \cup [color : Colors, alert : BOOLEAN]
  /\ dirty' \in BOOLEAN /\ fresh' \in BOOLEAN /\ snoozed' \in BOOLEAN
  /\ mishaps' \in SUBSET Mishaps
  /\ UNCHANGED <<reading, graph, edits, acts>>

LEMMA BaseUpdate ==
  ASSUME Base, NEW t \in Threads, Updates(t)
  PROVE  Base'
<1>1. \A u \in Threads \ {t} : /\ thread'[u].pc = thread[u].pc /\ thread'[u].ref = thread[u].ref
                               /\ thread'[u].graph = thread[u].graph
                               /\ thread'[u].hidden = thread[u].hidden
  BY DEF Updates, Alike
<1>2. \A u \in Threads : /\ thread'[u].pc \in NoRef <=> thread'[u].ref = Nil
                         /\ thread'[u].pc \in Drawing <=> thread'[u].graph # Nil
  BY <1>1 DEF Updates, Base, RefInv, NoRef, Drawing
<1>3. thread[t].ref \in Objects \cup {Nil}
  BY DEF Base, TypeOK, ThreadType
<1>4. TypeOK'
  BY <1>2, <1>3 DEF Base, TypeOK, Updates
<1>5. Ticker'.pc \in {"idle"} \cup Updating
  BY <1>1, ThreadSet DEF Base, RefInv, Ticker, Updates, Updating
<1>6. Live' \subseteq Live
  BY <1>1, LiveSet, ThreadSet DEF Updates, Ticker, Events
<1>7. \A o \in Live' : heap'[o].list # Nil
  BY <1>6 DEF Updates, Kept, Base, RefInv
<1>8. Events'.pc \in Private => Events'.ref \notin {action', Ticker'.ref}
  <2>1. CASE t = "ticker"
    BY <1>1, <2>1, ThreadSet DEF Updates, Base, RefInv, Ticker, Events, Private, NoRef
  <2>2. CASE t = "events"
    BY <1>1, <2>2, ThreadSet DEF Updates, Base, RefInv, Ticker, Events, Private, NoRef, Drawing
  <2>3. QED
    BY <2>1, <2>2, ThreadSet
<1>9. ShownInv'
  <2>1. CASE t = "ticker"
    BY <1>1, <2>1, ThreadSet DEF Updates, Base, RefInv, ShownInv, Ticker, Events, Updating, Drawing
  <2>2. CASE t = "events"
    BY <1>1, <2>2, ThreadSet DEF Updates, Base, RefInv, ShownInv, Ticker, Events, Updating, Drawing
  <2>3. QED
    BY <2>1, <2>2, ThreadSet
<1>10. Events'.pc = "refresh" => action' # Nil
  <2>1. Events'.pc = "refresh" => Events.pc = "refresh"
    BY <1>1, ThreadSet DEF Updates, Drawing, Events
  <2>2. action' # action => action' # Nil
    BY DEF Updates
  <2>3. QED
    BY <2>1, <2>2 DEF Base, RefInv
<1>11. ASSUME NEW u \in Threads, thread'[u].pc \in Clean
       PROVE  ~heap'[thread'[u].ref].error
  <2>1. CASE u = t
    BY <1>11, <2>1 DEF Updates, Clean
  <2>2. CASE u # t
    <3>1. /\ thread[u].pc \in Clean /\ thread[u].ref # Nil
          /\ thread[u].ref \in Live /\ thread[u].ref \in Live'
      BY <1>1, <1>11, <2>2, LiveSet, ThreadSet DEF Base, RefInv, Clean, NoRef, Ticker, Events
    <3>2. thread[t].pc = "down" => thread[u].ref # thread[t].ref
      BY <2>2, <3>1, ThreadSet DEF Base, RefInv, Clean, Private, Ticker, Events
    <3>3. ~heap[thread[u].ref].error
      BY <3>1 DEF Base, RefInv
    <3>4. QED
      BY <1>1, <2>2, <3>1, <3>2, <3>3 DEF Updates
  <2>3. QED
    BY <2>1, <2>2
<1>12. QED
  BY <1>2, <1>4, <1>5, <1>7, <1>8, <1>9, <1>10, <1>11 DEF Base, RefInv, Ticker, Events

\* The object and the graph of a thread that updates the tile.
LEMMA InUse ==
  ASSUME Base, NEW t \in Threads
  PROVE  /\ thread[t] \in ThreadType
         /\ thread[t].pc \notin NoRef =>
              /\ thread[t].ref \in Objects /\ thread[t].ref \in Live
              /\ heap[thread[t].ref] \in SettingsType
              /\ heap[thread[t].ref].list \in Lists /\ heap[thread[t].ref].list # Nil
              /\ arrays[heap[thread[t].ref].list] \in 0..MaxEdits
         /\ thread[t].pc \in Drawing => thread[t].graph \in Graphs
<1>1. thread[t] \in ThreadType
  BY DEF Base, TypeOK
<1>2. ASSUME thread[t].pc \notin NoRef
      PROVE  thread[t].ref \in Objects /\ thread[t].ref \in Live
  <2>1. thread[t].ref # Nil
    BY <1>2 DEF Base, RefInv
  <2>2. QED
    BY <1>1, <2>1 DEF ThreadType, Live
<1>3. ASSUME thread[t].pc \notin NoRef
      PROVE  /\ heap[thread[t].ref] \in SettingsType
             /\ heap[thread[t].ref].list \in Lists /\ heap[thread[t].ref].list # Nil
  BY <1>2, <1>3 DEF Base, TypeOK, RefInv, SettingsType
<1>4. ASSUME thread[t].pc \notin NoRef
      PROVE  arrays[heap[thread[t].ref].list] \in 0..MaxEdits
  BY <1>3, <1>4 DEF Base, TypeOK
<1>5. thread[t].pc \in Drawing => thread[t].graph \in Graphs
  BY <1>1 DEF ThreadType, Base, TypeOK
<1>6. QED
  BY <1>1, <1>2, <1>3, <1>4, <1>5

LEMMA BaseTypes ==
  ASSUME Base
  PROVE  /\ heap \in [Objects -> SettingsType] /\ arrays \in [Lists -> 0..MaxEdits]
         /\ deck \in SavedType /\ painted \in [Graphs -> Colors]
         /\ image \in {Placeholder} \cup [color : Colors, alert : BOOLEAN]
         /\ dirty \in BOOLEAN /\ fresh \in BOOLEAN /\ snoozed \in BOOLEAN
         /\ mishaps \in SUBSET Mishaps /\ action \in Objects \cup {Nil}
         /\ graph \in Graphs \cup {Nil} /\ Live \subseteq Objects
BY LiveType DEF Base, TypeOK

\* Memory in which nothing but marks of settings changes.
LEMMA KeptFacts ==
  ASSUME Base, NEW h \in [Objects -> SettingsType], Store(h, arrays),
         \A o \in Objects : h[o].fields = heap[o].fields /\ h[o].list = heap[o].list
  PROVE  /\ heap' \in [Objects -> SettingsType] /\ arrays' \in [Lists -> 0..MaxEdits] /\ Kept
         /\ \A o \in Live : o \in Live' =>
              heap'[o].error = h[o].error /\ heap'[o].current = h[o].current
<1>1. /\ heap' \in [Objects -> SettingsType] /\ arrays' \in [Lists -> 0..MaxEdits]
      /\ \A o \in Objects : o \in Live' => heap'[o] = h[o]
      /\ \A o \in Objects : o \in Live' /\ h[o].list \in Lists =>
           arrays'[h[o].list] = arrays[h[o].list]
  BY BaseTypes, StoreFacts
<1>2. \A o \in Live : o \in Objects /\ h[o].list \in Lists
  BY BaseTypes DEF Base, RefInv, SettingsType
<1>3. QED
  BY <1>1, <1>2 DEF Kept

LEMMA CollectFacts ==
  ASSUME Base, Collect
  PROVE  /\ heap' \in [Objects -> SettingsType] /\ arrays' \in [Lists -> 0..MaxEdits]
         /\ Kept /\ SameCurrent /\ SameError
BY BaseTypes, KeptFacts DEF Collect, SameCurrent, SameError

LEMMA UntouchedFacts ==
  ASSUME Base, UNCHANGED <<heap, arrays>>
  PROVE  /\ heap' \in [Objects -> SettingsType] /\ arrays' \in [Lists -> 0..MaxEdits]
         /\ Kept /\ SameCurrent /\ SameError
BY BaseTypes DEF Kept, SameCurrent, SameError

LEMMA IdleFacts ==
  /\ Idle \in ThreadType /\ Idle.pc = "idle" /\ Idle.ref = Nil /\ Idle.graph = Nil
  /\ ~Idle.forced /\ ~Idle.late /\ ~Idle.overtaken
BY IdleType DEF Idle

LEMMA ReadFacts ==
  ASSUME Base, NEW t \in Threads, NEW s \in ThreadType, Step(t, s), UNCHANGED <<action, deck>>,
         s.ref # Nil => (s.overtaken <=> thread[t].overtaken)
  PROVE  /\ thread' \in [Threads -> ThreadType] /\ mishaps' \in SUBSET Mishaps
         /\ thread'[t] = s /\ \A u \in Threads \ {t} : Alike(thread'[u], thread[u])
         /\ Reads(t)
BY StepFacts, BaseTypes DEF Step, Base, Reads, Alike

LEMMA WritesFacts ==
  ASSUME Base, NEW t \in Threads, NEW s \in ThreadType, NEW ms \in SUBSET Mishaps,
         WriteWith(t, s, ms), s.overtaken => thread[t].overtaken
  PROVE  /\ thread' \in [Threads -> ThreadType] /\ mishaps' \in SUBSET Mishaps
         /\ Alike(thread'[t], s) /\ \A u \in Threads \ {t} : Alike(thread'[u], thread[u])
         /\ Writes(t, ms)
BY WriteFacts DEF Base, Writes, Apart

(* What each step of updateTiles does.                                     *)

LEMMA NoGraphFacts ==
  ASSUME Base, NEW t \in Threads, NoGraph(t)
  PROVE  /\ Updates(t) /\ graph = Nil /\ thread'[t] = Idle /\ Reads(t)
         /\ UNCHANGED <<painted, image, dirty, fresh, snoozed>>
<1>1. /\ thread[t].pc = "start" /\ Step(t, Idle) /\ Collect /\ graph = Nil
      /\ UNCHANGED <<reading, action, deck, graph, painted, image, dirty, fresh, snoozed, edits, acts>>
  BY DEF NoGraph, At, tile
<1>2. /\ thread' \in [Threads -> ThreadType] /\ mishaps' \in SUBSET Mishaps
      /\ thread'[t] = Idle /\ \A u \in Threads \ {t} : Alike(thread'[u], thread[u])
      /\ Reads(t)
  BY <1>1, IdleFacts, ReadFacts
<1>3. QED
  BY <1>1, <1>2, CollectFacts, IdleFacts, BaseTypes DEF Updates, Updating, SameError

LEMMA StartFacts ==
  ASSUME Base, NEW t \in Threads, Start(t)
  PROVE  /\ Updates(t) /\ SameCurrent
         /\ thread[t].pc = "start" /\ thread'[t].pc = "gate"
         /\ thread'[t].late = thread[t].late
         /\ Reads(t) \/ Writes(t, mishaps)
         /\ UNCHANGED <<action, painted, image, dirty, fresh, snoozed>>
<1> DEFINE s == [To(t, "gate") EXCEPT !.graph = graph]
           r == thread[t].ref
           h == [heap EXCEPT ![r].error = FALSE]
<1>1. /\ thread[t].pc = "start" /\ graph # Nil
      /\ UNCHANGED <<reading, action, graph, painted, image, dirty, fresh, snoozed, edits, acts>>
      /\ \/ Write(t, s) /\ Store(h, arrays) /\ deck' = Sent(h, arrays, r)
         \/ Step(t, s) /\ UNCHANGED <<heap, arrays, deck>> /\ ~heap[r].error
  BY DEF Start, At, Ref, tile
<1>2. /\ r \in Objects /\ r # Nil /\ heap[r].list # Nil /\ r \in Live
      /\ thread[t] \in ThreadType
  BY <1>1, InUse, AddressAssumption DEF NoRef
<1>3. /\ s \in ThreadType
      /\ s.pc = "gate" /\ s.ref = r /\ s.graph = graph /\ s.hidden = thread[t].hidden
      /\ s.late = thread[t].late /\ (s.overtaken <=> thread[t].overtaken)
  BY <1>1, <1>2, BaseTypes DEF To, ThreadType, Steps
<1>4. /\ h \in [Objects -> SettingsType] /\ ~h[r].error
      /\ \A o \in Objects : /\ h[o].fields = heap[o].fields /\ h[o].list = heap[o].list
                            /\ h[o].current = heap[o].current /\ (h[o].error => heap[o].error)
  BY <1>2, BaseTypes DEF SettingsType
<1> HIDE DEF s, h
<1>5. /\ thread' \in [Threads -> ThreadType] /\ mishaps' \in SUBSET Mishaps
      /\ Alike(thread'[t], s) /\ \A u \in Threads \ {t} : Alike(thread'[u], thread[u])
      /\ Reads(t) \/ Writes(t, mishaps)
  <2>1. CASE Write(t, s)
    BY <1>3, <2>1, BaseTypes, WritesFacts DEF Write
  <2>2. CASE Step(t, s) /\ UNCHANGED deck
    BY <1>1, <1>3, <2>2, ReadFacts DEF Alike
  <2>3. QED
    BY <1>1, <2>1, <2>2
<1>6. r \in Live'
  BY <1>2, <1>3, <1>5, LiveSet, ThreadSet DEF Alike, Ticker, Events
<1>7. /\ heap' \in [Objects -> SettingsType] /\ arrays' \in [Lists -> 0..MaxEdits] /\ Kept
      /\ SameCurrent /\ ~heap'[r].error
      /\ \A o \in Live : o \in Live' /\ heap'[o].error => heap[o].error
  <2>1. CASE Store(h, arrays)
    BY <1>2, <1>4, <1>6, <2>1, KeptFacts, BaseTypes DEF SameCurrent
  <2>2. CASE UNCHANGED <<heap, arrays>> /\ ~heap[r].error
    BY <2>2, UntouchedFacts
  <2>3. QED
    BY <1>1, <2>1, <2>2
<1>8. deck' \in SavedType /\ (deck' = deck \/ Saves(r))
  BY <1>1, <1>2, <1>4, BaseTypes, SentType DEF Saves
<1>9. QED
  BY <1>1, <1>2, <1>3, <1>5, <1>7, <1>8, BaseTypes
     DEF Updates, Updating, Alike, Drawing, Private, Clean

LEMMA GateFacts ==
  ASSUME Base, NEW t \in Threads, Gate(t)
  PROVE  /\ Updates(t) /\ Reads(t) /\ SameCurrent /\ ~dirty'
         /\ thread[t].pc = "gate"
         /\ \/ /\ thread'[t].pc = "down" /\ reading = "Unavailable"
               /\ thread'[t].forced = dirty /\ thread'[t].late = thread[t].late
            \/ /\ thread'[t].pc = "evaluate"
               /\ thread'[t].forced = dirty /\ thread'[t].late = thread[t].late
            \/ thread'[t] = Idle /\ ~dirty
         /\ UNCHANGED <<painted, image, fresh, snoozed>>
<1> DEFINE r == thread[t].ref
           s1 == [To(t, "down") EXCEPT !.forced = dirty]
           s2 == [To(t, "evaluate") EXCEPT !.forced = dirty]
<1>1. /\ thread[t].pc = "gate"
      /\ UNCHANGED <<reading, action, deck, graph, painted, image, fresh, snoozed, edits, acts>>
      /\ dirty' = FALSE /\ Collect
      /\ \/ Step(t, s1) /\ reading = "Unavailable"
         \/ Step(t, s2)
         \/ Step(t, Idle) /\ ~dirty
  BY DEF Gate, Look, At
<1>2. /\ r # Nil /\ thread[t] \in ThreadType /\ thread[t].graph # Nil /\ ~heap[r].error
      /\ r \in Live
  BY <1>1, InUse, AddressAssumption DEF NoRef, Drawing, Base, RefInv, Clean
<1>3. /\ s1 \in ThreadType /\ s2 \in ThreadType
      /\ s1.pc = "down" /\ s1.ref = r /\ s1.graph = thread[t].graph /\ s1.hidden = thread[t].hidden
      /\ s1.forced = dirty /\ s1.late = thread[t].late /\ (s1.overtaken <=> thread[t].overtaken)
      /\ s2.pc = "evaluate" /\ s2.ref = r /\ s2.graph = thread[t].graph /\ s2.hidden = thread[t].hidden
      /\ s2.forced = dirty /\ s2.late = thread[t].late /\ (s2.overtaken <=> thread[t].overtaken)
  BY <1>2, BaseTypes DEF To, ThreadType, Steps
<1> HIDE DEF s1, s2
<1>4. PICK s \in {s1, s2, Idle} : /\ Step(t, s) /\ (s = s1 => reading = "Unavailable")
                                  /\ (s = Idle => ~dirty)
  BY <1>1, <1>3, IdleFacts
<1>5. s \in ThreadType /\ (s.ref # Nil => (s.overtaken <=> thread[t].overtaken))
  BY <1>3, IdleFacts
<1>6. /\ thread' \in [Threads -> ThreadType] /\ mishaps' \in SUBSET Mishaps
      /\ thread'[t] = s /\ \A u \in Threads \ {t} : Alike(thread'[u], thread[u])
      /\ Reads(t)
  BY <1>1, <1>4, <1>5, ReadFacts
<1>7. s # Idle => r \in Live'
  BY <1>2, <1>3, <1>6, LiveSet, ThreadSet DEF Ticker, Events
<1>8. QED
  BY <1>1, <1>2, <1>3, <1>4, <1>6, <1>7, CollectFacts, IdleFacts, BaseTypes
     DEF Updates, Updating, Drawing, Private, Clean, SameError

\* An update is not in error state when it finds the tile unavailable.
LEMMA DownFacts ==
  ASSUME Base, NEW t \in Threads, Down(t)
  PROVE  /\ Updates(t) /\ SameCurrent
         /\ thread[t].pc = "down" /\ Alike(thread'[t], Idle)
         /\ Writes(t, IF thread[t].forced THEN mishaps \cup {"unmarked"} ELSE mishaps)
         /\ fresh' = TRUE
         /\ UNCHANGED <<action, painted, dirty, snoozed>>
<1> DEFINE r == thread[t].ref
           h == [heap EXCEPT ![r].error = TRUE]
           ms == IF thread[t].forced THEN mishaps \cup {"unmarked"} ELSE mishaps
<1>1. thread[t].pc = "down" /\ ~heap[r].error
  BY DEF Down, At, Base, RefInv, Clean
<1>2. /\ UNCHANGED <<reading, action, graph, painted, dirty, snoozed, edits, acts>>
      /\ fresh' = TRUE
      /\ WriteWith(t, Idle, ms) /\ Store(h, arrays)
      /\ deck' = Sent(h, arrays, r) /\ image' = Placeholder
  BY <1>1 DEF Down, Ref
<1>3. r \in Objects /\ r # Nil /\ heap[r].list # Nil
  BY <1>1, InUse, AddressAssumption DEF NoRef
<1>4. /\ h \in [Objects -> SettingsType]
      /\ \A o \in Objects : /\ h[o].fields = heap[o].fields /\ h[o].list = heap[o].list
                            /\ h[o].current = heap[o].current
                            /\ (o # r => h[o].error = heap[o].error)
  BY <1>3, BaseTypes DEF SettingsType
<1>5. ms \in SUBSET Mishaps /\ ms \ {"unmarked"} = mishaps \ {"unmarked"}
  BY BaseTypes DEF Mishaps
<1> HIDE DEF h, ms
<1>6. /\ thread' \in [Threads -> ThreadType] /\ mishaps' \in SUBSET Mishaps
      /\ Alike(thread'[t], Idle) /\ \A u \in Threads \ {t} : Alike(thread'[u], thread[u])
      /\ Writes(t, ms)
  BY <1>2, <1>5, IdleFacts, WritesFacts
<1>7. /\ heap' \in [Objects -> SettingsType] /\ arrays' \in [Lists -> 0..MaxEdits] /\ Kept
      /\ SameCurrent
      /\ \A o \in Live : o \in Live' /\ heap'[o].error => heap[o].error \/ o = r
  BY <1>2, <1>4, KeptFacts, BaseTypes DEF SameCurrent
<1>8. deck' \in SavedType /\ Saves(r)
  BY <1>2, <1>3, <1>4, BaseTypes, SentType DEF Saves
<1>9. Updates(t)
  BY <1>1, <1>2, <1>3, <1>5, <1>6, <1>7, <1>8, IdleFacts, BaseTypes DEF Updates, Updating, Alike, Drawing
<1>10. QED
  BY <1>1, <1>2, <1>6, <1>7, <1>9 DEF ms

LEMMA EvaluateFacts ==
  ASSUME Base, NEW t \in Threads, Evaluate(t)
  PROVE  /\ Updates(t) /\ Reads(t) /\ SameCurrent
         /\ thread[t].pc = "evaluate" /\ thread'[t].late = thread[t].late
         /\ \/ /\ reading = "Unavailable" /\ thread'[t].pc = "down"
               /\ thread'[t].forced = thread[t].forced /\ UNCHANGED <<dirty, snoozed>>
            \/ /\ reading # "Unavailable" /\ thread'[t].pc = "paint"
               /\ thread'[t].alert <=> reading = "High"
               /\ \/ dirty' /\ thread'[t].forced
                  \/ /\ thread'[t].forced <=> thread[t].forced
                     /\ snoozed' <=> snoozed
                     /\ dirty' <=> dirty
               /\ thread'[t].color = IF reading = "High" /\ ~snoozed
                                     THEN arrays[heap[thread[t].ref].list] ELSE Own
         /\ UNCHANGED <<heap, arrays, painted, image, fresh>>
<1> DEFINE r == thread[t].ref
           alert == reading = "High"
           ended == snoozed /\ ~alert
           color == IF alert /\ ~snoozed THEN arrays[heap[r].list] ELSE Own
           forced == thread[t].forced \/ ended
           s == [To(t, "paint") EXCEPT !.alert = alert, !.forced = forced, !.color = color]
<1>1. /\ thread[t].pc = "evaluate"
      /\ UNCHANGED <<reading, heap, arrays, action, deck, graph, painted, image, fresh, edits, acts>>
  BY DEF Evaluate, At, store
<1>2. \/ reading = "Unavailable" /\ Step(t, To(t, "down")) /\ UNCHANGED <<dirty, snoozed>>
      \/ /\ reading # "Unavailable" /\ Step(t, s)
         /\ snoozed' = (snoozed /\ ~ended) /\ dirty' = (dirty \/ ended)
  BY DEF Evaluate, Ref, To
<1>3. /\ r # Nil /\ thread[t] \in ThreadType /\ thread[t].graph # Nil
      /\ arrays[heap[r].list] \in 0..MaxEdits /\ ~heap[r].error
  BY <1>1, InUse, AddressAssumption DEF NoRef, Drawing, Base, RefInv, Clean
<1>4. color \in Colors /\ alert \in BOOLEAN /\ forced \in BOOLEAN
  <2>1. 0..MaxEdits \subseteq Colors /\ Own \in Colors
    BY BoundAssumption DEF Colors, Own
  <2>2. QED
    BY <1>3, <2>1
<1>5. snoozed' \in BOOLEAN /\ dirty' \in BOOLEAN
  BY <1>2, BaseTypes, Zenon
<1>6. \/ reading = "Unavailable" /\ Step(t, To(t, "down")) /\ UNCHANGED <<dirty, snoozed>>
      \/ /\ reading # "Unavailable" /\ Step(t, s)
         /\ \/ dirty' /\ forced
            \/ (forced <=> thread[t].forced) /\ (snoozed' <=> snoozed) /\ (dirty' <=> dirty)
  <2>1. CASE reading = "Unavailable"
    BY <1>2, <2>1
  <2>2. CASE reading # "Unavailable"
    <3>1. Step(t, s) /\ snoozed' = (snoozed /\ ~ended) /\ dirty' = (dirty \/ ended)
      BY <1>2, <2>2
    <3>2. CASE ended
      BY <2>2, <3>1, <3>2, Zenon
    <3>3. CASE ~ended
      <4> HIDE DEF s
      <4>1. (snoozed' <=> snoozed) /\ (dirty' <=> dirty)
        BY <3>1, <3>3, BaseTypes, Zenon
      <4>2. forced <=> thread[t].forced
        BY <3>3, <1>4
      <4>3. QED
        BY <2>2, <3>1, <4>1, <4>2
    <3>4. QED
      BY <3>2, <3>3
  <2>3. QED
    BY <2>1, <2>2
<1>7. color = IF reading = "High" /\ ~snoozed THEN arrays[heap[r].list] ELSE Own
  OBVIOUS
<1>8. alert <=> reading = "High"
  OBVIOUS
<1> HIDE DEF alert, color, forced
<1>9. /\ s \in ThreadType /\ To(t, "down") \in ThreadType
      /\ s.pc = "paint" /\ s.ref = r /\ s.graph = thread[t].graph /\ s.hidden = thread[t].hidden
      /\ s.late = thread[t].late /\ (s.overtaken <=> thread[t].overtaken)
      /\ s.alert = alert /\ s.color = color /\ s.forced = forced
      /\ To(t, "down").pc = "down" /\ To(t, "down").ref = r
      /\ To(t, "down").graph = thread[t].graph /\ To(t, "down").hidden = thread[t].hidden
      /\ To(t, "down").late = thread[t].late /\ (To(t, "down").overtaken <=> thread[t].overtaken)
      /\ To(t, "down").forced = thread[t].forced
  BY <1>3, <1>4 DEF To, ThreadType, Steps
<1> DEFINE q == To(t, "down")
<1> HIDE DEF s, q
<1>10. /\ thread' \in [Threads -> ThreadType] /\ mishaps' \in SUBSET Mishaps
       /\ \A u \in Threads \ {t} : Alike(thread'[u], thread[u])
       /\ Reads(t)
       /\ \/ /\ reading = "Unavailable" /\ thread'[t] = q /\ UNCHANGED <<dirty, snoozed>>
          \/ /\ reading # "Unavailable" /\ thread'[t] = s
             /\ \/ dirty' /\ forced
                \/ (forced <=> thread[t].forced) /\ (snoozed' <=> snoozed) /\ (dirty' <=> dirty)
  <2>1. UNCHANGED <<action, deck>>
    BY <1>1
  <2>2. ASSUME Step(t, s)
        PROVE  /\ thread' \in [Threads -> ThreadType] /\ mishaps' \in SUBSET Mishaps
               /\ \A u \in Threads \ {t} : Alike(thread'[u], thread[u])
               /\ Reads(t) /\ thread'[t] = s
    BY <1>9, <2>1, <2>2, ReadFacts
  <2>3. ASSUME Step(t, To(t, "down"))
        PROVE  /\ thread' \in [Threads -> ThreadType] /\ mishaps' \in SUBSET Mishaps
               /\ \A u \in Threads \ {t} : Alike(thread'[u], thread[u])
               /\ Reads(t) /\ thread'[t] = q
    BY <1>9, <2>1, <2>3, ReadFacts DEF q
  <2>4. QED
    BY <1>6, <2>2, <2>3
<1>11. Updates(t)
  BY <1>1, <1>3, <1>5, <1>9, <1>10, UntouchedFacts, BaseTypes
     DEF Updates, Updating, Drawing, Private, Clean, SameError, q
<1>12. QED
  BY <1>1, <1>7, <1>8, <1>9, <1>10, <1>11, UntouchedFacts DEF q

LEMMA PaintFacts ==
  ASSUME Base, NEW t \in Threads, Paint(t)
  PROVE  /\ Updates(t)
         /\ thread[t].pc = "paint" /\ ~thread'[t].forced
         /\ thread'[t].alert = thread[t].alert /\ thread'[t].late = thread[t].late
         /\ \/ /\ thread'[t].pc = "save" /\ Writes(t, mishaps \ {"unmarked"})
               /\ painted' = [painted EXCEPT ![thread[t].graph] = thread[t].color]
               /\ action' = thread[t].ref
               /\ heap'[thread[t].ref].current = thread[t].alert
            \/ /\ thread'[t].pc = "draw" /\ Reads(t) /\ SameCurrent
               /\ painted' = painted
               /\ ~thread[t].forced /\ thread[t].alert = heap[thread[t].ref].current
         /\ UNCHANGED <<image, dirty, fresh, snoozed>>
<1> DEFINE p == thread[t]
           r == thread[t].ref
           next == [p EXCEPT !.forced = FALSE, !.color = Own]
           s1 == [next EXCEPT !.pc = "save"]
           s2 == [next EXCEPT !.pc = "draw"]
           h == [heap EXCEPT ![r].current = p.alert]
           ms == mishaps \ {"unmarked"}
<1>1. /\ thread[t].pc = "paint"
      /\ UNCHANGED <<reading, deck, graph, image, dirty, fresh, snoozed, edits, acts>>
      /\ \/ /\ painted' = [painted EXCEPT ![p.graph] = p.color]
            /\ action' = r /\ WriteWith(t, s1, ms) /\ Store(h, arrays)
         \/ /\ Step(t, s2) /\ UNCHANGED <<painted, action, heap, arrays>>
            /\ ~p.forced /\ p.alert = heap[r].current
  BY DEF Paint, At
<1>2. /\ r \in Objects /\ r # Nil /\ p \in ThreadType /\ p.graph # Nil /\ r \in Live
      /\ ~heap[r].error
  BY <1>1, InUse, AddressAssumption DEF NoRef, Drawing, Base, RefInv, Clean
<1>3. /\ h \in [Objects -> SettingsType] /\ h[r].current = p.alert
      /\ \A o \in Objects : /\ h[o].fields = heap[o].fields /\ h[o].list = heap[o].list
                            /\ h[o].error = heap[o].error
  <2>1. p.alert \in BOOLEAN
    BY <1>2 DEF ThreadType
  <2>2. QED
    BY <1>2, <2>1, BaseTypes DEF SettingsType
<1>4. /\ s1 \in ThreadType /\ s2 \in ThreadType
      /\ s1.pc = "save" /\ s1.ref = r /\ s1.graph = p.graph /\ s1.hidden = p.hidden
      /\ ~s1.forced /\ s1.alert = p.alert /\ s1.late = p.late /\ (s1.overtaken <=> p.overtaken)
      /\ s2.pc = "draw" /\ s2.ref = r /\ s2.graph = p.graph /\ s2.hidden = p.hidden
      /\ ~s2.forced /\ s2.alert = p.alert /\ s2.late = p.late /\ (s2.overtaken <=> p.overtaken)
  <2>1. Own \in Colors
    BY BoundAssumption DEF Own, Colors
  <2>2. QED
    BY <1>2, <2>1 DEF ThreadType, Steps
<1>5. /\ ms \in SUBSET Mishaps /\ ms \ {"unmarked"} = mishaps \ {"unmarked"}
      /\ painted' \in [Graphs -> Colors]
  <2>1. p.color \in Colors
    BY <1>2 DEF ThreadType
  <2>2. QED
    BY <1>1, <2>1, BaseTypes
<1> HIDE DEF s1, s2, h
<1>6. CASE /\ painted' = [painted EXCEPT ![p.graph] = p.color]
           /\ action' = r /\ WriteWith(t, s1, ms) /\ Store(h, arrays)
  <2> HIDE DEF ms
  <2>1. /\ thread' \in [Threads -> ThreadType] /\ mishaps' \in SUBSET Mishaps
        /\ Alike(thread'[t], s1) /\ \A u \in Threads \ {t} : Alike(thread'[u], thread[u])
        /\ Writes(t, ms)
    BY <1>4, <1>5, <1>6, WritesFacts
  <2>2. r \in Live'
    BY <1>2, <1>6, LiveSet
  <2>3. /\ heap' \in [Objects -> SettingsType] /\ arrays' \in [Lists -> 0..MaxEdits] /\ Kept
        /\ heap'[r].current = p.alert
        /\ \A o \in Live : o \in Live' /\ heap'[o].error => heap[o].error
    BY <1>2, <1>3, <1>6, <2>2, KeptFacts, BaseTypes
  <2>4. Updates(t)
    BY <1>1, <1>2, <1>4, <1>5, <1>6, <2>1, <2>3, BaseTypes
       DEF Updates, Updating, Alike, Drawing, Private, Clean
  <2>5. QED
    BY <1>1, <1>4, <1>6, <2>1, <2>3, <2>4 DEF Alike, ms
<1>7. CASE /\ Step(t, s2) /\ UNCHANGED <<painted, action, heap, arrays>>
           /\ ~p.forced /\ p.alert = heap[r].current
  <2>1. /\ thread' \in [Threads -> ThreadType] /\ mishaps' \in SUBSET Mishaps
        /\ thread'[t] = s2 /\ \A u \in Threads \ {t} : Alike(thread'[u], thread[u])
        /\ Reads(t)
    BY <1>1, <1>4, <1>7, ReadFacts
  <2>2. Updates(t)
    BY <1>1, <1>2, <1>4, <1>5, <1>7, <2>1, UntouchedFacts, BaseTypes
       DEF Updates, Updating, Drawing, Private, Clean, SameError
  <2>3. QED
    BY <1>1, <1>4, <1>7, <2>1, <2>2, UntouchedFacts
<1>8. QED
  BY <1>1, <1>6, <1>7

LEMMA SaveFacts ==
  ASSUME Base, NEW t \in Threads, Save(t)
  PROVE  /\ Updates(t) /\ SameCurrent /\ Writes(t, mishaps)
         /\ thread[t].pc = "save" /\ thread'[t].pc = "draw"
         /\ thread'[t].alert = thread[t].alert /\ thread'[t].late = thread[t].late
         /\ UNCHANGED <<action, painted, image, dirty, fresh, snoozed>>
<1> DEFINE r == thread[t].ref
           s == To(t, "draw")
<1>1. /\ thread[t].pc = "save"
      /\ UNCHANGED <<reading, heap, arrays, action, graph, painted, image, dirty, fresh, snoozed, edits, acts>>
      /\ deck' = Sent(heap, arrays, r) /\ Write(t, s)
  BY DEF Save, At, Ref, tile
<1>2. /\ r \in Objects /\ r # Nil /\ heap[r].list # Nil
      /\ thread[t] \in ThreadType /\ thread[t].graph # Nil
  BY <1>1, InUse, AddressAssumption DEF NoRef, Drawing
<1>3. /\ s \in ThreadType
      /\ s.pc = "draw" /\ s.ref = r /\ s.graph = thread[t].graph /\ s.hidden = thread[t].hidden
      /\ s.alert = thread[t].alert /\ s.late = thread[t].late
      /\ (s.overtaken <=> thread[t].overtaken)
  BY <1>2 DEF To, ThreadType, Steps
<1> HIDE DEF s
<1>4. /\ thread' \in [Threads -> ThreadType] /\ mishaps' \in SUBSET Mishaps
      /\ Alike(thread'[t], s) /\ \A u \in Threads \ {t} : Alike(thread'[u], thread[u])
      /\ Writes(t, mishaps)
  BY <1>1, <1>3, BaseTypes, WritesFacts DEF Write
<1>5. deck' \in SavedType /\ Saves(r)
  BY <1>1, <1>2, BaseTypes, SentType DEF Saves
<1>6. QED
  BY <1>1, <1>2, <1>3, <1>4, <1>5, UntouchedFacts, BaseTypes
     DEF Updates, Updating, Alike, Drawing, Private, Clean, SameError

LEMMA DrawFacts ==
  ASSUME Base, NEW t \in Threads, Draw(t)
  PROVE  /\ Updates(t) /\ SameCurrent /\ Writes(t, mishaps)
         /\ thread[t].pc = "draw" /\ thread'[t].pc = "settle" /\ thread'[t].late = thread[t].late
         /\ image' = [color |-> painted[thread[t].graph], alert |-> thread[t].alert]
         /\ UNCHANGED <<action, painted, dirty, fresh, snoozed>>
<1> DEFINE s == [Idle EXCEPT !.pc = "settle", !.late = thread[t].late]
<1>1. /\ thread[t].pc = "draw"
      /\ UNCHANGED <<reading, action, deck, graph, painted, dirty, fresh, snoozed, edits, acts>>
      /\ image' = [color |-> painted[thread[t].graph], alert |-> thread[t].alert]
      /\ Write(t, s) /\ Collect
  BY DEF Draw, At
<1>2. thread[t] \in ThreadType /\ thread[t].graph \in Graphs /\ thread[t].ref # Nil
  BY <1>1, InUse, AddressAssumption DEF Drawing, NoRef
<1>3. /\ s \in ThreadType /\ s.late = thread[t].late
      /\ s.pc = "settle" /\ s.ref = Nil /\ s.graph = Nil /\ ~s.overtaken
  <2>1. thread[t].late \in BOOLEAN /\ Idle \in ThreadType
    BY <1>2, IdleType DEF ThreadType
  <2>2. QED
    BY <2>1 DEF Idle, ThreadType, Steps
<1> HIDE DEF s
<1>4. /\ thread' \in [Threads -> ThreadType] /\ mishaps' \in SUBSET Mishaps
      /\ Alike(thread'[t], s) /\ \A u \in Threads \ {t} : Alike(thread'[u], thread[u])
      /\ Writes(t, mishaps)
  BY <1>1, <1>3, BaseTypes, WritesFacts DEF Write
<1>5. image' \in {Placeholder} \cup [color : Colors, alert : BOOLEAN]
  <2>1. thread[t].alert \in BOOLEAN /\ painted[thread[t].graph] \in Colors
    BY <1>2, BaseTypes DEF ThreadType
  <2>2. QED
    BY <1>1, <2>1
<1>6. Updates(t)
  BY <1>1, <1>2, <1>3, <1>4, <1>5, CollectFacts, BaseTypes
     DEF Updates, Updating, Drawing, Alike, SameError
<1>7. QED
  BY <1>1, <1>3, <1>4, <1>6, CollectFacts DEF Alike

LEMMA SettleFacts ==
  ASSUME Base, NEW t \in Threads, Settle(t)
  PROVE  /\ Updates(t) /\ SameCurrent /\ Reads(t)
         /\ thread[t].pc = "settle" /\ thread'[t] = Idle /\ fresh' = thread[t].late
         /\ UNCHANGED <<painted, image, dirty, snoozed>>
<1>1. /\ thread[t].pc = "settle"
      /\ UNCHANGED <<reading, heap, arrays, action, deck, graph, painted, image, dirty, snoozed, edits, acts>>
      /\ fresh' = thread[t].late /\ Step(t, Idle)
  BY DEF Settle, At, store
<1>2. thread[t].late \in BOOLEAN
  BY InUse DEF ThreadType
<1>3. /\ thread' \in [Threads -> ThreadType] /\ mishaps' \in SUBSET Mishaps
      /\ thread'[t] = Idle /\ \A u \in Threads \ {t} : Alike(thread'[u], thread[u])
      /\ Reads(t)
  BY <1>1, IdleFacts, ReadFacts
<1>4. QED
  BY <1>1, <1>2, <1>3, IdleFacts, UntouchedFacts, BaseTypes DEF Updates, Updating, SameError

LEMMA UpdateUpdates ==
  ASSUME Base, NEW t \in Threads, updateTiles(t)
  PROVE  Updates(t)
BY NoGraphFacts, StartFacts, GateFacts, DownFacts, EvaluateFacts, PaintFacts,
   SaveFacts, DrawFacts, SettleFacts DEF updateTiles

\* What the steps of the handlers have in common: no settings that a thread has change,
\* and the ticker's update goes on, on a hidden tile if the graph has just gone.
Handles ==
  /\ thread' \in [Threads -> ThreadType]
  /\ Ticker'.pc = Ticker.pc /\ Ticker'.ref = Ticker.ref /\ Ticker'.graph = Ticker.graph
  /\ Ticker'.forced = Ticker.forced /\ Ticker'.alert = Ticker.alert
  /\ Ticker'.color = Ticker.color /\ Ticker'.late = Ticker.late
  /\ graph' = Nil /\ Ticker.pc \in Drawing => Ticker'.hidden
  /\ Events.pc \notin Updating /\ Events'.pc \notin Drawing \cup {"settle"} /\ Events'.graph = Nil
  /\ Events'.pc \in NoRef <=> Events'.ref = Nil
  /\ Events'.pc \in Private => Events'.ref \notin {action', Ticker'.ref}
  /\ Events'.pc = "refresh" => action' # Nil
  /\ Events'.pc \notin {"idle", "vanish"} => graph' # Nil
  /\ Events'.pc = "vanish" => graph' = Nil
  /\ Events'.pc \in {"idle", "start"} => ~Events'.late
  /\ heap' \in [Objects -> SettingsType] /\ arrays' \in [Lists -> 0..MaxEdits]
  /\ \A o \in Live : o \in Live' => heap'[o] = heap[o]
  /\ \A o \in Live' : heap'[o].list # Nil
  /\ action' \in Objects \cup {Nil} /\ graph' \in Graphs \cup {Nil}
  /\ deck' \in SavedType /\ painted' \in [Graphs -> Colors]
  /\ dirty' \in BOOLEAN /\ snoozed' \in BOOLEAN
  /\ mishaps' \in SUBSET Mishaps
  /\ edits' \in [fields : 0..MaxEdits, colors : 0..MaxEdits] /\ acts' \in 0..MaxActs
  /\ UNCHANGED <<reading, image, fresh>>

\* Settings that the ticker's update works on are still there.
LEMMA TickerKeeps ==
  ASSUME Base, Handles, Ticker.ref # Nil
  PROVE  Ticker.ref \in Live /\ Ticker.ref \in Live' /\ heap'[Ticker.ref] = heap[Ticker.ref]
BY LiveSet DEF Handles

LEMMA BaseHandles ==
  ASSUME Base, Handles
  PROVE  Base'
<1>1. \A u \in Threads : /\ thread'[u].pc \in NoRef <=> thread'[u].ref = Nil
                         /\ thread'[u].pc \in Drawing <=> thread'[u].graph # Nil
  BY ThreadSet DEF Handles, Base, RefInv, Ticker, Events
<1>2. TypeOK'
  BY <1>1 DEF Handles, Base, TypeOK
<1>3. \A u \in Threads : thread'[u].pc \in Clean => ~heap'[thread'[u].ref].error
  <2>1. Ticker.pc \in Clean => Ticker.ref # Nil /\ ~heap[Ticker.ref].error
    BY ThreadSet DEF Base, RefInv, Ticker, Clean, NoRef
  <2>2. Ticker'.pc \in Clean => ~heap'[Ticker'.ref].error
    BY <2>1, TickerKeeps DEF Handles
  <2>3. QED
    BY <2>2, ThreadSet DEF Handles, Ticker, Events, Drawing, Clean
<1>4. RefInv'
  BY <1>1, <1>3 DEF Handles, Base, RefInv, Ticker, Events
<1>5. ShownInv'
  BY DEF Handles, Base, ShownInv
<1>6. QED
  BY <1>2, <1>4, <1>5 DEF Base

\* The event goroutine before a handler.
LEMMA Handling ==
  ASSUME Base, Events.pc \notin Updating
  PROVE  /\ Ticker \in ThreadType /\ Events \in ThreadType
         /\ graph = Nil /\ Ticker.pc \in Drawing => Ticker.hidden
         /\ Events.pc \notin Drawing /\ Events.graph = Nil
         /\ Events.pc \in NoRef => Events.ref = Nil
         /\ Events.pc \notin NoRef =>
              /\ Events.ref \in Objects /\ Events.ref # Nil /\ Events.ref \in Live
              /\ heap[Events.ref].list # Nil
         /\ Ticker.ref \in Objects \cup {Nil}
BY InUse, ThreadSet, AddressAssumption
   DEF Base, RefInv, ShownInv, Ticker, Events, Updating, ThreadType

LEMMA ActFacts ==
  ASSUME Base, Act
  PROVE  /\ Events.pc = "idle" /\ Events.ref = Nil /\ graph # Nil
         /\ action \in Objects /\ action \in Live /\ heap[action] \in SettingsType
         /\ heap[action].list \in Lists /\ heap[action].list # Nil
         /\ acts' = acts + 1 /\ acts' \in 0..MaxActs
<1>1. Events.pc = "idle" /\ graph # Nil /\ action # Nil /\ acts < MaxActs /\ acts' = acts + 1
  BY DEF Act, At, Events
<1>2. action \in Objects /\ action \in Live
  BY <1>1, BaseTypes, LiveSet
<1>3. Events.ref = Nil /\ heap[action].list # Nil
  BY <1>1, <1>2, ThreadSet DEF Base, RefInv, Events, NoRef
<1>4. heap[action] \in SettingsType
  BY <1>2, BaseTypes
<1>5. acts' \in 0..MaxActs
  BY <1>1, BoundAssumption DEF Base, TypeOK
<1>6. QED
  BY <1>1, <1>2, <1>3, <1>4, <1>5 DEF SettingsType

LEMMA NothingNew ==
  ASSUME Base, Live' \subseteq Live, Collect \/ UNCHANGED <<heap, arrays>>
  PROVE  /\ heap' \in [Objects -> SettingsType] /\ arrays' \in [Lists -> 0..MaxEdits]
         /\ \A o \in Live : o \in Live' => heap'[o] = heap[o]
         /\ \A o \in Live' : heap'[o].list # Nil
         /\ Kept
<1>1. CASE Collect
  BY <1>1, BaseTypes, StoreFacts, CollectFacts DEF Collect, Base, RefInv
<1>2. CASE UNCHANGED <<heap, arrays>>
  BY <1>2, UntouchedFacts DEF Base, RefInv
<1>3. QED
  BY <1>1, <1>2

LEMMA SaveEditFacts ==
  ASSUME Base, SaveEdit
  PROVE  /\ Handles /\ Kept /\ Writes("events", mishaps \ {"unsaved"})
         /\ Events.pc = "saveEdit" /\ Events'.pc = "register" /\ Events'.ref = Events.ref
         /\ Saves(Events.ref)
         /\ UNCHANGED <<heap, arrays, action, graph, painted, dirty, snoozed, edits>>
<1> DEFINE s == To("events", "register")
           ms == mishaps \ {"unsaved"}
<1>1. /\ Events.pc = "saveEdit"
      /\ UNCHANGED <<reading, heap, arrays, action, graph, painted, image, dirty, fresh, snoozed, edits, acts>>
      /\ WriteWith("events", s, ms) /\ deck' = Sent(heap, arrays, Events.ref)
  BY DEF SaveEdit, At, Events, Ref, tile
<1>2. /\ s \in ThreadType /\ s.pc = "register" /\ s.ref = Events.ref /\ s.graph = Events.graph
      /\ (s.overtaken <=> Events.overtaken)
  BY <1>1, Handling DEF To, ThreadType, Steps, Events, Updating, Drawing
<1>3. ms \in SUBSET Mishaps
  BY BaseTypes
<1> HIDE DEF s
<1>4. /\ thread' \in [Threads -> ThreadType] /\ mishaps' \in SUBSET Mishaps
      /\ Alike(Events', s) /\ Alike(Ticker', Ticker) /\ Writes("events", ms)
  BY <1>1, <1>2, <1>3, WritesFacts, ThreadSet DEF Ticker, Events
<1>5. deck' \in SavedType /\ Saves(Events.ref)
  BY <1>1, Handling, BaseTypes, SentType DEF NoRef, Updating, Drawing, Saves
<1>6. Live' \subseteq Live
  BY <1>1, <1>2, <1>4, LiveSet DEF Alike
<1>7. Handles
  BY <1>1, <1>2, <1>4, <1>5, <1>6, NothingNew, BaseTypes, Handling
     DEF Base, RefInv, ShownInv, TypeOK, Handles, Alike, NoRef, Private, Updating, Drawing
<1>8. QED
  BY <1>1, <1>2, <1>4, <1>5, <1>6, <1>7, NothingNew DEF Alike

LEMMA SaveEditFailsFacts ==
  ASSUME Base, SaveEditFails
  PROVE  /\ Handles /\ Kept /\ Ticker' = Ticker /\ Events' = Idle
         /\ Events.pc = "saveEdit"
         /\ Apart' => Apart
         /\ Apart => mishaps' = mishaps \cup {"unsaved"}
         /\ UNCHANGED <<action, deck, graph, painted, dirty, snoozed, edits>>
<1> DEFINE ms == IF "overtaken" \in mishaps THEN mishaps ELSE mishaps \cup {"unsaved"}
<1>1. /\ Events.pc = "saveEdit"
      /\ UNCHANGED <<reading, action, deck, graph, painted, image, dirty, fresh, snoozed, edits, acts>>
      /\ StepWith("events", Idle, ms) /\ Collect
  BY DEF SaveEditFails, At, Events, tile
<1>2. ms \in SUBSET Mishaps
  BY BaseTypes DEF Mishaps
<1>3. (Apart => ms = mishaps \cup {"unsaved"}) /\ ("overtaken" \notin ms => Apart)
  BY DEF Apart
<1> HIDE DEF ms
<1>4. /\ thread' \in [Threads -> ThreadType] /\ mishaps' = ms
      /\ Events' = Idle /\ Ticker' = Ticker
  BY <1>1, IdleType, StepFacts, ThreadSet DEF Base, Ticker, Events
<1>5. Live' \subseteq Live
  BY <1>1, <1>4, IdleFacts, LiveSet
<1>6. Handles
  BY <1>1, <1>2, <1>4, <1>5, NothingNew, IdleFacts, BaseTypes, Handling
     DEF Base, TypeOK, Handles, NoRef, Private, Updating, Drawing
<1>7. QED
  BY <1>1, <1>3, <1>4, <1>5, <1>6, NothingNew DEF Apart

LEMMA RegisterFacts ==
  ASSUME Base, Register
  PROVE  /\ Handles /\ Kept /\ Writes("events", mishaps)
         /\ Events.pc = "register" /\ Events'.pc \in {"idle", "refresh", "saveCurrent"}
         /\ Events'.pc = "saveCurrent" => Events'.ref = Events.ref
         /\ action' = Events.ref /\ edits'.fields = heap[Events.ref].fields
         /\ edits'.colors = edits.colors
         /\ UNCHANGED <<deck, graph, painted, dirty, snoozed>>
<1> DEFINE e == thread["events"]
           s == [Idle EXCEPT !.pc = e.then,
                             !.ref = IF e.then = "saveCurrent" THEN e.ref ELSE Nil]
<1>1. /\ Events.pc = "register"
      /\ UNCHANGED <<reading, deck, graph, painted, image, dirty, fresh, snoozed, acts>>
      /\ action' = Events.ref /\ Write("events", s) /\ Collect
      /\ edits' = [edits EXCEPT !.fields = heap[Events.ref].fields]
  BY DEF Register, Registers, At, Ref, tile, Events
<1>2. /\ Events \in ThreadType /\ Events.ref \in Objects /\ Events.ref # Nil
      /\ Events.ref \in Live
  BY <1>1, Handling DEF Updating, Drawing, NoRef
<1>3. /\ s \in ThreadType /\ s.pc \in {"idle", "refresh", "saveCurrent"} /\ s.graph = Nil
      /\ s.ref = IF s.pc = "saveCurrent" THEN Events.ref ELSE Nil
      /\ ~s.overtaken /\ ~s.late
  BY <1>2, IdleType DEF Idle, ThreadType, Steps, Events
<1> HIDE DEF s
<1>4. /\ thread' \in [Threads -> ThreadType] /\ mishaps' \in SUBSET Mishaps
      /\ Alike(Events', s) /\ Alike(Ticker', Ticker) /\ Writes("events", mishaps)
  BY <1>1, <1>3, BaseTypes, WritesFacts, ThreadSet DEF Write, Ticker, Events
<1>5. Live' \subseteq Live
  BY <1>1, <1>2, <1>3, <1>4, LiveSet DEF Alike
<1>6. /\ edits' \in [fields : 0..MaxEdits, colors : 0..MaxEdits]
      /\ edits'.fields = heap[Events.ref].fields /\ edits'.colors = edits.colors
  <2>1. heap[Events.ref].fields \in 0..MaxEdits
    BY <1>2, BaseTypes DEF SettingsType
  <2>2. QED
    BY <1>1, <2>1 DEF Base, TypeOK
<1>7. Handles
  BY <1>1, <1>2, <1>3, <1>4, <1>5, <1>6, NothingNew, BaseTypes, Handling
     DEF Base, ShownInv, TypeOK, Handles, Alike, NoRef, Private, Updating, Drawing
<1>8. QED
  BY <1>1, <1>3, <1>4, <1>5, <1>6, <1>7, NothingNew DEF Alike

LEMMA OnKeyDownFacts ==
  ASSUME Base, OnKeyDown
  PROVE  /\ Handles /\ Kept /\ Ticker' = Ticker
         /\ Events.pc = "idle" /\ Events'.pc = "refresh" /\ dirty' = TRUE
         /\ UNCHANGED <<heap, arrays, action, deck, graph, painted, edits, mishaps>>
<1> DEFINE s == [Idle EXCEPT !.pc = "refresh"]
<1>1. /\ Act /\ UNCHANGED <<reading, heap, arrays, action, deck, graph, painted, image, fresh, edits>>
      /\ dirty' = TRUE /\ Step("events", s)
  BY DEF OnKeyDown, store
<1>2. snoozed' \in BOOLEAN
  <2>1. snoozed' = ~snoozed
    BY DEF OnKeyDown
  <2>2. QED
    BY <2>1, Zenon
<1>3. s \in ThreadType /\ s.pc = "refresh" /\ s.ref = Nil /\ s.graph = Nil
  BY IdleType DEF Idle, ThreadType, Steps
<1> HIDE DEF s
<1>4. /\ thread' \in [Threads -> ThreadType] /\ mishaps' = mishaps
      /\ Events' = s /\ Ticker' = Ticker
  BY <1>1, <1>3, StepFacts, ThreadSet DEF Step, Base, Ticker, Events
<1>5. Live' \subseteq Live
  BY <1>1, <1>3, <1>4, LiveSet
<1>6. action # Nil /\ Events.pc = "idle"
  BY <1>1 DEF Act, At, Events
<1>7. Ticker.graph = Ticker'.graph /\ (graph = Nil /\ Ticker.pc \in Drawing => Ticker.hidden)
  BY <1>4 DEF Base, ShownInv
<1>8. Handles
  BY <1>1, <1>2, <1>3, <1>4, <1>5, <1>6, <1>7, NothingNew, BaseTypes, ActFacts
     DEF Base, TypeOK, Handles, NoRef, Private, Drawing, Updating
<1>9. QED
  BY <1>1, <1>3, <1>4, <1>5, <1>6, <1>8, NothingNew

LEMMA OnWillDisappearFacts ==
  ASSUME Base, OnWillDisappear
  PROVE  /\ Handles /\ graph' = Nil /\ mishaps' = mishaps
         /\ Ticker'.overtaken = Ticker.overtaken
<1> DEFINE b == ~At("ticker", "idle")
           s == [Idle EXCEPT !.pc = "vanish"]
           q == [Ticker EXCEPT !.hidden = b]
<1>1. /\ Act
      /\ UNCHANGED <<reading, heap, arrays, action, deck, painted, image, dirty, fresh, snoozed, edits, mishaps>>
      /\ graph' = Nil /\ thread' = [events |-> s, ticker |-> q]
  BY DEF OnWillDisappear, store, Ticker
<1>2. b \in BOOLEAN /\ (Ticker.pc \in Drawing => b)
  BY DEF At, Drawing, Ticker
<1>3. s \in ThreadType /\ s.pc = "vanish" /\ s.ref = Nil /\ s.graph = Nil
  BY IdleType DEF Idle, ThreadType, Steps
<1> HIDE DEF s, b
<1>4. /\ q \in ThreadType /\ q.hidden = b
      /\ q.pc = Ticker.pc /\ q.ref = Ticker.ref /\ q.graph = Ticker.graph
      /\ q.forced = Ticker.forced /\ q.alert = Ticker.alert /\ q.color = Ticker.color
      /\ q.late = Ticker.late /\ q.overtaken = Ticker.overtaken
  BY <1>1, <1>2, ThreadSet DEF Base, TypeOK, ThreadType, Ticker
<1> HIDE DEF q
<1>5. thread' \in [Threads -> ThreadType] /\ Events' = s /\ Ticker' = q
  BY <1>1, <1>3, <1>4 DEF Threads, Ticker, Events
<1>6. Live' \subseteq Live
  BY <1>1, <1>3, <1>4, <1>5, LiveSet
<1>7. QED
  BY <1>1, <1>2, <1>3, <1>4, <1>5, <1>6, NothingNew, BaseTypes, ActFacts
     DEF Base, TypeOK, Handles, NoRef, Private, Drawing, Updating

LEMMA RemoveActionFacts ==
  ASSUME Base, RemoveAction
  PROVE  Handles /\ graph' = Nil /\ mishaps' = mishaps /\ Ticker' = Ticker
<1>1. /\ Events.pc = "vanish"
      /\ UNCHANGED <<reading, deck, graph, painted, image, fresh, edits, acts>>
      /\ dirty' = FALSE /\ snoozed' = FALSE /\ action' = Nil
      /\ Step("events", Idle) /\ Collect
  BY DEF RemoveAction, At, Events
<1>2. /\ thread' \in [Threads -> ThreadType] /\ mishaps' = mishaps
      /\ Events' = Idle /\ Ticker' = Ticker
  BY <1>1, IdleType, StepFacts, ThreadSet DEF Step, Base, Ticker, Events
<1>3. Live' \subseteq Live
  BY <1>1, <1>2, IdleFacts, LiveSet
<1>4. QED
  BY <1>1, <1>2, <1>3, IdleFacts, NothingNew, BaseTypes, Handling
     DEF Base, ShownInv, TypeOK, Handles, NoRef, Private, Updating, Drawing

LEMMA SaveCurrentFacts ==
  ASSUME Base, SaveCurrent
  PROVE  /\ Handles /\ Kept /\ Writes("events", mishaps)
         /\ Events.pc = "saveCurrent" /\ Events'.pc = "idle" /\ Saves(Events.ref)
         /\ UNCHANGED <<action, graph, painted, dirty, snoozed, edits>>
<1>1. /\ Events.pc = "saveCurrent"
      /\ UNCHANGED <<reading, action, graph, painted, image, dirty, fresh, snoozed, edits, acts>>
      /\ deck' = Sent(heap, arrays, Events.ref) /\ Write("events", Idle) /\ Collect
  BY DEF SaveCurrent, At, Events, Ref, tile
<1>2. /\ thread' \in [Threads -> ThreadType] /\ mishaps' \in SUBSET Mishaps
      /\ Alike(Events', Idle) /\ Alike(Ticker', Ticker) /\ Writes("events", mishaps)
  BY <1>1, IdleFacts, BaseTypes, WritesFacts, ThreadSet DEF Write, Ticker, Events
<1>3. Live' \subseteq Live
  BY <1>1, <1>2, IdleFacts, LiveSet DEF Alike
<1>4. deck' \in SavedType /\ Saves(Events.ref)
  BY <1>1, Handling, BaseTypes, SentType DEF NoRef, Updating, Drawing, Saves
<1>5. Handles
  BY <1>1, <1>2, <1>3, <1>4, NothingNew, IdleFacts, BaseTypes, Handling
     DEF Base, ShownInv, TypeOK, Handles, Alike, NoRef, Private, Updating, Drawing
<1>6. QED
  BY <1>1, <1>2, <1>3, <1>4, <1>5, NothingNew, IdleFacts DEF Alike

\* A handler that goes on with a new object, which holds the settings x.
LEMMA CopiedFacts ==
  ASSUME Base, Events.ref = Nil, NEW pc \in Steps, NEW then \in {"idle", "refresh", "saveCurrent"}
  PROVE  /\ Copied(pc, then) \in ThreadType
         /\ Copied(pc, then).pc = pc /\ Copied(pc, then).ref = NewObject
         /\ Copied(pc, then).graph = Nil /\ Copied(pc, then).then = then
         /\ Copied(pc, then).overtaken = FALSE /\ Copied(pc, then).late = FALSE
BY SpareObject, IdleType DEF Copied, Idle, ThreadType

\* The event goroutine is at pc with a new object, and everything it began with is
\* as it was.
Copies(pc, x, a) ==
  /\ thread' \in [Threads -> ThreadType] /\ mishaps' = mishaps /\ Ticker' = Ticker
  /\ Events'.pc = pc /\ Events'.ref = NewObject /\ Events'.graph = Nil
  /\ ~Events'.overtaken /\ ~Events'.late
  /\ NewObject \in Objects /\ NewObject \notin Live /\ NewObject # Nil
  /\ NewObject \in Live' /\ NewObject \notin {action', Ticker'.ref}
  /\ \A o \in Live : o # NewObject /\ (o \in Live' => heap'[o] = heap[o])
  /\ \A o \in Live' : heap'[o].list # Nil /\ arrays'[heap'[o].list] = a[heap'[o].list]
  /\ heap' \in [Objects -> SettingsType] /\ arrays' \in [Lists -> 0..MaxEdits]
  /\ heap'[NewObject] = x

LEMMA CopyFacts ==
  ASSUME Base, Events.ref = Nil, NEW x \in SettingsType, x.list # Nil,
         NEW a \in [Lists -> 0..MaxEdits], NEW pc \in Steps,
         NEW then \in {"idle", "refresh", "saveCurrent"},
         Step("events", Copied(pc, then)), Store([heap EXCEPT ![NewObject] = x], a),
         action' = action
  PROVE  Copies(pc, x, a)
<1> DEFINE h == [heap EXCEPT ![NewObject] = x]
<1>1. NewObject \in Objects /\ NewObject \notin Live /\ NewObject # Nil
  BY SpareObject, AddressAssumption
<1>2. /\ h \in [Objects -> SettingsType]
      /\ h[NewObject] = x /\ \A o \in Objects : o # NewObject => h[o] = heap[o]
  BY <1>1, BaseTypes
<1>3. Store(h, a)
  OBVIOUS
<1> HIDE DEF h
<1>4. /\ Copied(pc, then) \in ThreadType
      /\ Copied(pc, then).pc = pc /\ Copied(pc, then).ref = NewObject
      /\ Copied(pc, then).graph = Nil
      /\ Copied(pc, then).overtaken = FALSE /\ Copied(pc, then).late = FALSE
  BY CopiedFacts
<1>5. /\ thread' \in [Threads -> ThreadType] /\ mishaps' = mishaps
      /\ Events' = Copied(pc, then) /\ Ticker' = Ticker
  BY <1>4, StepFacts, ThreadSet DEF Step, Base, Ticker, Events
<1>6. \A o : o \in Live' => o = NewObject \/ o \in Live
  BY <1>4, <1>5, LiveSet
<1>7. NewObject \in Live' /\ NewObject \notin {action', Ticker'.ref}
  BY <1>1, <1>4, <1>5, LiveSet
<1>8. /\ heap' \in [Objects -> SettingsType] /\ arrays' \in [Lists -> 0..MaxEdits]
      /\ \A o \in Objects : o \in Live' => heap'[o] = h[o]
      /\ \A o \in Objects : o \in Live' /\ h[o].list \in Lists =>
           arrays'[h[o].list] = a[h[o].list]
  BY <1>2, <1>3, StoreFacts
<1>9. \A o \in Live : o # NewObject /\ (o \in Live' => heap'[o] = heap[o])
  BY <1>1, <1>2, <1>8, BaseTypes
<1>10. heap'[NewObject] = x
  BY <1>1, <1>2, <1>7, <1>8
<1>11. \A o \in Live' : heap'[o].list # Nil /\ heap'[o].list \in Lists
  BY <1>1, <1>6, <1>8, <1>9, <1>10, BaseTypes DEF Base, RefInv, SettingsType
<1>12. \A o \in Live' : arrays'[heap'[o].list] = a[heap'[o].list]
  BY <1>1, <1>6, <1>8, <1>11, BaseTypes
<1>13. QED
  BY <1>1, <1>4, <1>5, <1>7, <1>8, <1>9, <1>10, <1>11, <1>12 DEF Copies

LEMMA SetFieldFacts ==
  ASSUME Base, handleSetField
  PROVE  /\ Handles /\ Events.pc = "idle" /\ graph # Nil /\ action \in Live
         /\ \E x \in SettingsType :
              /\ Copies("saveEdit", x, arrays)
              /\ x.list = heap[action].list /\ x.current = heap[action].current
         /\ UNCHANGED <<action, deck, graph, painted, dirty, snoozed, edits>>
<1> DEFINE x == [heap[action] EXCEPT !.fields = edits.fields + 1]
<1>1. /\ Act /\ edits.fields < MaxEdits
      /\ UNCHANGED <<reading, action, deck, graph, painted, image, dirty, fresh, snoozed, edits>>
      /\ Step("events", Copied("saveEdit", "idle"))
      /\ Store([heap EXCEPT ![NewObject] = x], arrays)
  BY DEF handleSetField, tile
<1>2. /\ x \in SettingsType /\ x.list # Nil
      /\ x.list = heap[action].list /\ x.current = heap[action].current
  <2>1. edits.fields + 1 \in 0..MaxEdits
    BY <1>1, BoundAssumption DEF Base, TypeOK
  <2>2. QED
    BY <1>1, <2>1, ActFacts DEF SettingsType
<1> HIDE DEF x
<1>3. Copies("saveEdit", x, arrays)
  BY <1>1, <1>2, ActFacts, BaseTypes, CopyFacts DEF Steps
<1>4. Handles
  BY <1>1, <1>3, BaseTypes, ActFacts, Handling
     DEF Base, TypeOK, Handles, Copies, NoRef, Private, Drawing, Updating
<1>5. QED
  BY <1>1, <1>2, <1>3, <1>4, ActFacts

LEMMA ThresholdUpdateFacts ==
  ASSUME Base, handleThresholdUpdate
  PROVE  /\ Handles /\ Events.pc = "idle" /\ graph # Nil /\ action \in Live
         /\ Copies("saveEdit", heap[action], [arrays EXCEPT ![heap[action].list] = edits.colors + 1])
         /\ edits'.colors = edits.colors + 1 /\ edits'.fields = edits.fields
         /\ dirty' = TRUE
         /\ UNCHANGED <<action, deck, graph, snoozed>>
<1> DEFINE rev == edits.colors + 1
           on  == heap[action].current
           a   == [arrays EXCEPT ![heap[action].list] = rev]
           then == IF on THEN "refresh" ELSE "idle"
<1>1. /\ Act /\ edits.colors < MaxEdits
      /\ UNCHANGED <<reading, action, deck, graph, image, fresh, snoozed>>
      /\ Step("events", Copied("saveEdit", then))
      /\ Store([heap EXCEPT ![NewObject] = heap[action]], a)
      /\ painted' = IF on THEN [painted EXCEPT ![graph] = rev] ELSE painted
      /\ edits' = [edits EXCEPT !.colors = rev] /\ dirty' = TRUE
  BY DEF handleThresholdUpdate
<1>2. rev \in 0..MaxEdits /\ rev \in Colors
  BY <1>1, BoundAssumption DEF Base, TypeOK, Colors, Own
<1>3. a \in [Lists -> 0..MaxEdits]
  BY <1>2, BaseTypes
<1>4. /\ painted' \in [Graphs -> Colors]
      /\ edits' \in [fields : 0..MaxEdits, colors : 0..MaxEdits]
      /\ edits'.colors = rev /\ edits'.fields = edits.fields
  BY <1>1, <1>2 DEF Base, TypeOK
<1>5. then \in {"idle", "refresh", "saveCurrent"}
  OBVIOUS
<1> HIDE DEF a, then
<1>6. Copies("saveEdit", heap[action], a)
  BY <1>1, <1>3, <1>5, ActFacts, BaseTypes, CopyFacts DEF Steps
<1>7. Handles
  BY <1>1, <1>4, <1>6, BaseTypes, ActFacts, Handling
     DEF Base, TypeOK, Handles, Copies, NoRef, Private, Drawing, Updating
<1>8. QED
  BY <1>1, <1>4, <1>6, <1>7, ActFacts DEF a

LEMMA ConnectedFacts ==
  ASSUME Base, OnPropertyInspectorConnected
  PROVE  /\ Handles /\ Events.pc = "idle" /\ graph # Nil /\ action \in Live
         /\ \E x \in SettingsType :
              /\ Copies("saveEdit", x, arrays)
              /\ x.list = heap[action].list /\ x.current = heap[action].current
         /\ UNCHANGED <<action, deck, graph, painted, dirty, snoozed, edits>>
<1> DEFINE x == [heap[action] EXCEPT !.error = TRUE]
<1>1. /\ Act
      /\ UNCHANGED <<reading, action, deck, graph, painted, image, dirty, fresh, snoozed, edits>>
      /\ Step("events", Copied("saveEdit", "idle"))
      /\ Store([heap EXCEPT ![NewObject] = x], arrays)
  BY DEF OnPropertyInspectorConnected, tile
<1>2. /\ x \in SettingsType /\ x.list # Nil
      /\ x.list = heap[action].list /\ x.current = heap[action].current
  BY <1>1, ActFacts DEF SettingsType
<1> HIDE DEF x
<1>3. Copies("saveEdit", x, arrays)
  BY <1>1, <1>2, ActFacts, BaseTypes, CopyFacts DEF Steps
<1>4. Handles
  BY <1>1, <1>3, BaseTypes, ActFacts, Handling
     DEF Base, TypeOK, Handles, Copies, NoRef, Private, Drawing, Updating
<1>5. QED
  BY <1>1, <1>2, <1>3, <1>4, ActFacts

\* A refresh has the event goroutine begin an update, on a tile that is shown.
LEMMA RefreshFacts ==
  ASSUME Base, refreshAction
  PROVE  /\ Handles /\ Events.pc = "refresh" /\ graph # Nil /\ action \in Live
         /\ Copies("start", heap[action], arrays)
         /\ UNCHANGED <<action, deck, graph, painted, dirty, snoozed, edits>>
<1>1. /\ Events.pc = "refresh"
      /\ UNCHANGED <<reading, action, deck, graph, painted, image, dirty, fresh, snoozed, edits, acts>>
      /\ Step("events", Copied("start", "idle"))
      /\ Store([heap EXCEPT ![NewObject] = heap[action]], arrays)
  BY DEF refreshAction, tile, At, Events
<1>2. action \in Objects /\ action \in Live /\ graph # Nil /\ Events.ref = Nil
  BY <1>1, BaseTypes, LiveSet, Handling
     DEF Base, RefInv, ShownInv, NoRef, Updating, Drawing
<1>3. heap[action] \in SettingsType /\ heap[action].list # Nil
  BY <1>2, BaseTypes DEF Base, RefInv
<1>4. Copies("start", heap[action], arrays)
  BY <1>1, <1>2, <1>3, BaseTypes, CopyFacts DEF Steps
<1>5. Handles
  BY <1>1, <1>2, <1>4, BaseTypes, Handling
     DEF Base, TypeOK, Handles, Copies, NoRef, Private, Drawing, Updating
<1>6. QED
  BY <1>1, <1>2, <1>4, <1>5

LEMMA OnWillAppearFacts ==
  ASSUME Base, OnWillAppear
  PROVE  /\ Handles /\ graph = Nil /\ graph' # Nil /\ dirty' = TRUE
         /\ \E x \in SettingsType, a \in [Lists -> 0..MaxEdits] :
              /\ Copies("register", x, a)
              /\ x.fields = deck.fields /\ a[x.list] = deck.colors
         /\ edits'.fields = deck.fields /\ edits'.colors = deck.colors
         /\ UNCHANGED <<action, deck>>
<1> DEFINE then == IF deck.current THEN "saveCurrent" ELSE "idle"
           x == [fields |-> deck.fields, list |-> NewList, error |-> deck.error, current |-> FALSE]
           a == [arrays EXCEPT ![NewList] = deck.colors]
<1>1. /\ Events.pc = "idle" /\ graph = Nil
      /\ UNCHANGED <<reading, action, deck, image, fresh, snoozed, acts>>
      /\ graph' = NewGraph /\ painted' = [painted EXCEPT ![NewGraph] = Own]
      /\ dirty' = TRUE
      /\ Step("events", Copied("register", then))
      /\ Store([heap EXCEPT ![NewObject] = x], a)
      /\ edits' = [fields |-> deck.fields, colors |-> deck.colors]
  BY DEF OnWillAppear, At, Events
<1>2. Events.ref = Nil /\ Events.graph = Nil /\ deck \in SavedType
  BY <1>1, BaseTypes, Handling DEF NoRef, Updating, Drawing
<1>3. NewList \in Lists /\ NewList # Nil /\ NewGraph \in Graphs /\ NewGraph # Nil
  BY <1>2, SpareList, SpareGraph, AddressAssumption
<1>4. /\ x \in SettingsType /\ x.list # Nil /\ a \in [Lists -> 0..MaxEdits]
      /\ x.fields = deck.fields /\ a[x.list] = deck.colors
  BY <1>2, <1>3, BaseTypes DEF SettingsType, SavedType
<1>5. /\ then \in {"idle", "refresh", "saveCurrent"}
      /\ edits' \in [fields : 0..MaxEdits, colors : 0..MaxEdits]
      /\ edits'.fields = deck.fields /\ edits'.colors = deck.colors
  BY <1>1, <1>2 DEF SavedType
<1>6. painted' \in [Graphs -> Colors]
  <2>1. Own \in Colors
    BY BoundAssumption DEF Own, Colors
  <2>2. QED
    BY <1>1, <2>1, BaseTypes
<1> HIDE DEF then, x, a
<1>7. Copies("register", x, a)
  BY <1>1, <1>2, <1>4, <1>5, BaseTypes, CopyFacts DEF Steps
<1>8. Handles
  BY <1>1, <1>3, <1>5, <1>6, <1>7, BaseTypes, Handling
     DEF Base, TypeOK, Handles, Copies, NoRef, Private, Drawing, Updating
<1>9. QED
  BY <1>1, <1>3, <1>4, <1>5, <1>7, <1>8

LEMMA RunFacts ==
  ASSUME Base, Run
  PROVE  /\ Base' /\ Ticker.pc = "idle" /\ action # Nil /\ Events' = Events
         /\ Ticker'.pc = "start" /\ Ticker'.ref = action /\ Ticker'.graph = Nil
         /\ ~Ticker'.late /\ ~Ticker'.forced
         /\ UNCHANGED <<reading, heap, arrays, action, deck, graph, painted, image, dirty, fresh,
                        snoozed, edits, mishaps>>
<1> DEFINE s == [Idle EXCEPT !.pc = "start", !.ref = action]
<1>1. /\ Ticker.pc = "idle" /\ action # Nil
      /\ UNCHANGED <<reading, heap, arrays, action, deck, graph, painted, image, dirty, fresh, snoozed, edits, acts>>
      /\ Step("ticker", s)
  BY DEF Run, Update, store, tile, At, Ticker
<1>2. /\ s \in ThreadType /\ s.pc = "start" /\ s.ref = action /\ s.graph = Nil
      /\ ~s.late /\ ~s.forced
  BY <1>1, IdleType, BaseTypes DEF Idle, ThreadType, Steps
<1> HIDE DEF s
<1>3. /\ thread' \in [Threads -> ThreadType] /\ mishaps' = mishaps
      /\ Ticker' = s /\ Events' = Events
  BY <1>1, <1>2, StepFacts, ThreadSet DEF Step, Base, Ticker, Events
<1>4. Live' \subseteq Live
  BY <1>1, <1>2, <1>3, LiveSet
<1>5. \A u \in Threads : /\ thread'[u].pc \in NoRef <=> thread'[u].ref = Nil
                         /\ thread'[u].pc \in Drawing <=> thread'[u].graph # Nil
  BY <1>1, <1>2, <1>3, ThreadSet DEF Base, RefInv, Ticker, Events, NoRef, Drawing
<1>6. \A u \in Threads : thread'[u].pc \in Clean => ~heap'[thread'[u].ref].error
  BY <1>1, <1>2, <1>3, ThreadSet DEF Base, RefInv, Ticker, Events, Clean
<1>7. RefInv'
  BY <1>1, <1>2, <1>3, <1>4, <1>5, <1>6 DEF Base, RefInv, Updating
<1>8. ShownInv'
  BY <1>1, <1>2, <1>3 DEF Base, ShownInv, Drawing
<1>9. TypeOK'
  BY <1>1, <1>3, <1>5 DEF Base, TypeOK
<1>10. QED
  BY <1>1, <1>2, <1>3, <1>7, <1>8, <1>9 DEF Base

LEMMA PublishFacts ==
  ASSUME Base, Publish
  PROVE  /\ Base' /\ fresh' = TRUE /\ reading' # "Unavailable"
         /\ \A u \in Threads :
              /\ thread'[u].pc = thread[u].pc /\ thread'[u].ref = thread[u].ref
              /\ thread'[u].graph = thread[u].graph /\ thread'[u].forced = thread[u].forced
              /\ thread'[u].alert = thread[u].alert /\ thread'[u].color = thread[u].color
              /\ thread'[u].overtaken = thread[u].overtaken
              /\ thread'[u].late <=>
                   thread[u].pc \in {"evaluate", "paint", "save", "draw", "settle"}
         /\ UNCHANGED <<heap, arrays, action, deck, graph, painted, image, dirty, snoozed, edits,
                        mishaps>>
<1> DEFINE late(t) == thread[t].pc \in {"evaluate", "paint", "save", "draw", "settle"}
<1>1. /\ reading' \in Readings /\ reading' # "Unavailable" /\ fresh' = TRUE
      /\ UNCHANGED <<heap, arrays, action, deck, graph, painted, image, dirty, snoozed, edits, acts, mishaps>>
      /\ thread' = [t \in Threads |-> [thread[t] EXCEPT !.late = late(t)]]
  BY DEF Publish, store, Readings
<1>2. ASSUME NEW u \in Threads
      PROVE  /\ thread'[u] \in ThreadType
             /\ thread'[u].pc = thread[u].pc /\ thread'[u].ref = thread[u].ref
             /\ thread'[u].graph = thread[u].graph /\ thread'[u].hidden = thread[u].hidden
             /\ thread'[u].forced = thread[u].forced
             /\ thread'[u].alert = thread[u].alert /\ thread'[u].color = thread[u].color
             /\ thread'[u].overtaken = thread[u].overtaken
             /\ thread'[u].late = late(u)
  <2>1. late(u) \in BOOLEAN
    OBVIOUS
  <2>2. thread[u] \in ThreadType
    BY InUse
  <2>3. thread'[u] = [thread[u] EXCEPT !.late = late(u)]
    BY <1>1
  <2> HIDE DEF late
  <2>4. QED
    BY <2>1, <2>2, <2>3 DEF ThreadType
<1>3. thread' \in [Threads -> ThreadType]
  BY <1>1, <1>2
<1>4. TypeOK'
  BY <1>1, <1>2, <1>3 DEF Base, TypeOK
<1>5. Live' = Live
  BY <1>1, <1>2 DEF Live
<1>6. RefInv'
  BY <1>1, <1>2, <1>5, ThreadSet DEF Base, RefInv, Ticker, Events
<1>7. ShownInv'
  BY <1>1, <1>2, ThreadSet DEF Base, ShownInv, Ticker, Events
<1>8. QED
  BY <1>1, <1>2, <1>4, <1>6, <1>7 DEF Base

LEMMA OutageFacts ==
  ASSUME Base, Outage
  PROVE  /\ Base' /\ reading' = "Unavailable"
         /\ UNCHANGED <<heap, arrays, action, deck, graph, painted, image, dirty, fresh, snoozed,
                        thread, edits, mishaps>>
<1>1. /\ reading' \in Readings /\ reading' = "Unavailable"
      /\ UNCHANGED <<heap, arrays, action, deck, graph, painted, image, dirty, fresh, snoozed,
                     thread, edits, acts, mishaps>>
  BY DEF Outage, store, tile, Readings
<1>2. TypeOK'
  BY <1>1 DEF Base, TypeOK
<1>3. RefInv' /\ ShownInv'
  BY <1>1 DEF Base, RefInv, ShownInv, Live, Ticker, Events
<1>4. QED
  BY <1>1, <1>2, <1>3 DEF Base

LEMMA NextBase ==
  ASSUME Base, [Next]_vars
  PROVE  Base'
<1>1. CASE Run
  BY <1>1, RunFacts
<1>2. ASSUME NEW t \in Threads, updateTiles(t)
      PROVE  Base'
  BY <1>2, UpdateUpdates, BaseUpdate
<1>3. CASE SaveEdit
  BY <1>3, SaveEditFacts, BaseHandles
<1>4. CASE SaveEditFails
  BY <1>4, SaveEditFailsFacts, BaseHandles
<1>5. CASE Register
  BY <1>5, RegisterFacts, BaseHandles
<1>6. CASE refreshAction
  BY <1>6, RefreshFacts, BaseHandles
<1>7. CASE RemoveAction
  BY <1>7, RemoveActionFacts, BaseHandles
<1>8. CASE SaveCurrent
  BY <1>8, SaveCurrentFacts, BaseHandles
<1>9. CASE handleSetField
  BY <1>9, SetFieldFacts, BaseHandles
<1>10. CASE handleThresholdUpdate
  BY <1>10, ThresholdUpdateFacts, BaseHandles
<1>11. CASE OnPropertyInspectorConnected
  BY <1>11, ConnectedFacts, BaseHandles
<1>12. CASE OnKeyDown
  BY <1>12, OnKeyDownFacts, BaseHandles
<1>13. CASE OnWillDisappear
  BY <1>13, OnWillDisappearFacts, BaseHandles
<1>14. CASE OnWillAppear
  BY <1>14, OnWillAppearFacts, BaseHandles
<1>15. CASE Publish
  BY <1>15, PublishFacts
<1>16. CASE Outage
  BY <1>16, OutageFacts
<1>17. CASE UNCHANGED vars
  BY <1>17 DEF vars, store, tile, Base, TypeOK, RefInv, ShownInv, Live, Ticker, Events
<1>18. QED
  BY <1>1, <1>2, <1>3, <1>4, <1>5, <1>6, <1>7, <1>8, <1>9, <1>10, <1>11, <1>12, <1>13,
     <1>14, <1>15, <1>16, <1>17, ThreadSet DEF Next, Handler

LEMMA BaseHolds == Spec => []Base
<1>1. Init => Base
  BY InitBase
<1>2. Base /\ [Next]_vars => Base'
  BY NextBase
<1>3. QED
  BY <1>1, <1>2, PTL DEF Spec

\* Every variable keeps its type, whatever the ticker and the handlers of the event
\* goroutine do to each other's settings and graphs.
THEOREM TypeCorrect == Spec => []TypeOK
<1>1. Base => TypeOK
  BY DEF Base
<1>2. QED
  BY <1>1, BaseHolds, PTL

\* updateTiles sends neither an image nor settings for a tile without a graph, unless
\* the tile was hidden while the ticker's update of it was under way.
THEOREM HiddenLeftAlone == Spec => HiddenIsLeftAlone
<1> DEFINE Untouched == graph = Nil /\ <<image, deck>>' # <<image, deck>> => thread["ticker"].hidden
<1>1. ASSUME Base, Next, graph = Nil, ~Ticker.hidden
      PROVE  UNCHANGED <<image, deck>>
  <2>1. Events.pc \in {"idle", "vanish"} /\ Ticker.pc \notin Drawing
    BY <1>1 DEF Base, ShownInv
  <2>2. ASSUME NEW t \in Threads, updateTiles(t)
        PROVE  UNCHANGED <<image, deck>>
    <3>1. thread[t].pc \notin Drawing
      BY <2>1, ThreadSet DEF Ticker, Events, Drawing
    <3>2. NoGraph(t) \/ Settle(t)
      BY <1>1, <2>2, <3>1 DEF updateTiles, Start, Gate, Look, Down, Evaluate, Paint, Save, Draw, At, Drawing
    <3>3. QED
      BY <3>2 DEF NoGraph, Settle, store, tile
  <2>3. QED
    BY <1>1, <2>1, <2>2, ThreadSet
       DEF Next, Handler, Run, Update, SaveEdit, SaveEditFails, Register, Registers, refreshAction,
           RemoveAction, SaveCurrent, handleSetField, handleThresholdUpdate,
           OnPropertyInspectorConnected, OnKeyDown, OnWillDisappear, OnWillAppear, Publish,
           Outage, Act, store, tile, At, Events
<1>2. Base /\ [Next]_vars => [Untouched]_vars
  BY <1>1 DEF Ticker, vars, store, tile
<1>3. QED
  BY <1>2, BaseHolds, PTL DEF Spec, HiddenIsLeftAlone

-----------------------------------------------------------------------------
(* Edits.  As long as no writer has been overtaken, a thread that has not  *)
(* been overtaken either works on settings that hold what was registered   *)
(* last, and the deck follows.                                             *)

Holds(o) == heap[o].fields = edits.fields /\ arrays[heap[o].list] = edits.colors

Registered ==
  Events.pc # "register" =>
    /\ action # Nil /\ Holds(action)
    /\ Ticker.ref # Nil /\ ~Ticker.overtaken => Ticker.ref = action /\ Ticker.graph \in {Nil, graph}

Saved ==
  Events.pc \notin {"register", "saveEdit"} /\ "unsaved" \notin mishaps =>
    deck.fields = edits.fields /\ deck.colors = edits.colors

Editing ==
  ~Events.overtaken =>
    /\ Events.pc = "register" =>
         /\ arrays[heap[Events.ref].list] = edits.colors
         /\ deck.fields = heap[Events.ref].fields /\ deck.colors = edits.colors
    /\ Events.pc = "saveEdit" => arrays[heap[Events.ref].list] = edits.colors
    /\ Events.pc \in {"start", "saveCurrent"} \cup Drawing => Holds(Events.ref)

EditsInv == Apart /\ graph # Nil => Registered /\ Saved /\ Editing

\* Settings that are live before and after a step hold what they held.
LEMMA HoldsKept ==
  ASSUME Kept, NEW o, o \in Live, o \in Live', UNCHANGED edits
  PROVE  Holds(o) => Holds(o)'
BY DEF Kept, Holds

LEMMA EditsUpdate ==
  ASSUME Base, EditsInv, NEW t \in Threads, Updates(t)
  PROVE  EditsInv'
<1> SUFFICES ASSUME Apart', graph' # Nil
             PROVE  Registered' /\ Saved' /\ Editing'
  BY DEF EditsInv
<1>1. Kept /\ UNCHANGED <<graph, edits>>
  BY DEF Updates
<1>2. Base'
  BY BaseUpdate
<1>3. Apart /\ ("unsaved" \in mishaps' <=> "unsaved" \in mishaps)
  <2>1. CASE Reads(t)
    BY <2>1 DEF Reads, Apart
  <2>2. CASE ~Reads(t)
    <3>1. PICK ms : Writes(t, ms) /\ ms \ {"unmarked"} = mishaps \ {"unmarked"}
      BY <2>2 DEF Updates
    <3>2. mishaps' = ms /\ "overtaken" \notin ms
      BY <3>1 DEF Writes
    <3>3. \A m : m # "unmarked" => (m \in ms <=> m \in mishaps)
      BY <3>1
    <3>4. QED
      BY <3>2, <3>3 DEF Apart
  <2>3. QED
    BY <2>1, <2>2
<1>4. Registered /\ Saved /\ Editing
  BY <1>1, <1>3 DEF EditsInv
<1>5. \A u \in Threads \ {t} : Alike(thread'[u], thread[u])
  BY DEF Updates
<1>6. /\ thread'[t].pc \notin {"register", "saveEdit", "saveCurrent"}
      /\ thread[t].pc \notin {"register", "saveEdit", "saveCurrent"}
      /\ thread'[t].pc \notin Drawing => thread'[t].ref = Nil
      /\ thread'[t].ref # Nil => thread'[t].ref = thread[t].ref
      /\ thread'[t].pc # "start"
      /\ thread[t].pc \in {"start"} \cup Drawing \/ thread[t].ref = Nil
  BY DEF Updates, Updating, Drawing, Base, RefInv, NoRef
<1>7. Events'.pc # "register" <=> Events.pc # "register"
  BY <1>5, <1>6, ThreadSet DEF Events, Alike
<1>8. Events'.pc \notin {"register", "saveEdit"} <=> Events.pc \notin {"register", "saveEdit"}
  BY <1>5, <1>6, ThreadSet DEF Events, Alike
\* What the event goroutine works on is kept.
<1>9. ASSUME t = "ticker", ~Events'.overtaken
      PROVE  Editing'
  <2>1. Alike(Events', Events)
    BY <1>5, <1>9, ThreadSet DEF Events
  <2>2. CASE Events.ref = Nil
    BY <2>1, <2>2, <1>2, ThreadSet DEF Editing, Alike, Base, RefInv, NoRef, Events, Drawing
  <2>3. CASE Events.ref # Nil
    <3>1. Events.ref \in Live /\ Events.ref \in Live' /\ Events.pc # "idle"
      BY <2>1, <2>3, LiveSet, ThreadSet DEF Alike, Base, RefInv, NoRef, Events
    <3>2. Reads(t)
      BY <1>9, <3>1, ThreadSet DEF Updates, Writes, Events
    <3>3. Events' = Events /\ deck' = deck
      BY <1>9, <3>2, ThreadSet DEF Reads, Events
    <3>4. QED
      BY <1>1, <1>4, <3>1, <3>3, HoldsKept DEF Editing, Kept
  <2>4. QED
    BY <2>2, <2>3
<1>10. ASSUME t = "events", ~Events'.overtaken
       PROVE  Editing'
  <2>1. CASE Events'.pc \notin Drawing
    BY <1>6, <1>10, <2>1 DEF Editing, Events
  <2>2. CASE Events'.pc \in Drawing
    <3>1. /\ Events'.ref # Nil /\ Events'.ref = Events.ref /\ Events.pc \in {"start"} \cup Drawing
      BY <1>2, <1>6, <1>10, <2>2, ThreadSet DEF Base, RefInv, NoRef, Drawing, Events
    <3>2. Events.ref \in Live /\ Events.ref \in Live'
      BY <3>1, LiveSet
    <3>3. ~Events.overtaken
      BY <1>10, <3>1 DEF Updates, Reads, Writes, Events
    <3>4. Holds(Events.ref)
      BY <1>4, <3>1, <3>3 DEF Editing
    <3>5. Holds(Events.ref)'
      BY <1>1, <3>1, <3>2, <3>4 DEF Kept, Holds
    <3>6. QED
      BY <1>6, <1>10, <2>2, <3>1, <3>5 DEF Editing, Events, Drawing
  <2>3. QED
    BY <2>1, <2>2
<1>11. Editing'
  BY <1>9, <1>10, ThreadSet DEF Editing
\* A writer has not been overtaken, so that it works on what is registered.
<1>12. ASSUME ~Reads(t), Events.pc # "register"
       PROVE  /\ Holds(thread[t].ref) /\ thread[t].ref # Nil
              /\ t = "ticker" => thread[t].ref = action /\ thread[t].graph \in {Nil, graph}
  <2>1. ~thread[t].overtaken /\ thread[t].ref # Nil
    BY <1>12 DEF Updates, Writes
  <2>2. CASE t = "ticker"
    BY <1>4, <1>12, <2>1, <2>2 DEF Registered, Ticker
  <2>3. CASE t = "events"
    BY <1>4, <1>6, <2>1, <2>3 DEF Editing, Events
  <2>4. QED
    BY <2>2, <2>3, ThreadSet
<1>13. ASSUME Events.pc # "register"
       PROVE  action' # Nil /\ Holds(action)'
  <2>1. action # Nil /\ Holds(action)
    BY <1>4, <1>13 DEF Registered
  <2>2. action' = action \/ (~Reads(t) /\ action' = thread[t].ref)
    BY DEF Updates, Reads
  <2>3. action' # Nil /\ action' \in Live /\ action' \in Live'
    BY <1>12, <1>13, <2>1, <2>2, LiveSet, ThreadSet DEF Ticker, Events
  <2>4. Holds(action')
    BY <1>12, <1>13, <2>1, <2>2
  <2>5. QED
    BY <1>1, <2>3, <2>4 DEF Kept, Holds
<1>14. ASSUME Events.pc # "register", Ticker'.ref # Nil, ~Ticker'.overtaken
       PROVE  Ticker'.ref = action' /\ Ticker'.graph \in {Nil, graph'}
  <2>1. CASE t = "ticker"
    <3>1. Ticker'.ref = Ticker.ref /\ ~Ticker.overtaken
      BY <1>6, <1>14, <2>1 DEF Updates, Reads, Writes, Ticker
    <3>2. Ticker.ref = action /\ Ticker.graph \in {Nil, graph}
      BY <1>4, <1>14, <3>1 DEF Registered
    <3>3. QED
      BY <1>1, <1>14, <2>1, <3>1, <3>2 DEF Updates, Ticker
  <2>2. CASE t = "events"
    <3>1. Ticker.ref # Nil /\ Ticker.pc # "idle"
      BY <1>5, <1>14, <2>2, ThreadSet DEF Alike, Ticker, Base, RefInv, NoRef
    <3>2. Reads(t)
      BY <1>14, <2>2, <3>1, ThreadSet DEF Updates, Writes, Ticker
    <3>3. Ticker' = Ticker /\ action' = action
      BY <2>2, <3>2, ThreadSet DEF Reads, Ticker
    <3>4. QED
      BY <1>1, <1>4, <1>14, <3>3 DEF Registered
  <2>3. QED
    BY <2>1, <2>2, ThreadSet
<1>15. Registered'
  BY <1>7, <1>13, <1>14 DEF Registered
<1>16. Saved'
  <2>1. SUFFICES ASSUME Events.pc \notin {"register", "saveEdit"}, "unsaved" \notin mishaps
                 PROVE  deck'.fields = edits'.fields /\ deck'.colors = edits'.colors
    BY <1>3, <1>8 DEF Saved
  <2>2. CASE deck' = deck
    BY <1>1, <1>4, <2>1, <2>2 DEF Saved
  <2>3. CASE deck' # deck
    <3>1. Saves(thread[t].ref) /\ ~Reads(t)
      BY <2>3 DEF Updates, Reads
    <3>2. QED
      BY <1>1, <1>12, <2>1, <3>1 DEF Saves, Holds
  <2>4. QED
    BY <2>2, <2>3
<1>17. QED
  BY <1>11, <1>15, <1>16

\* A handler that begins, with a copy of what is registered.
LEMMA EditsCopy ==
  ASSUME Base, EditsInv, Handles, NEW pc \in {"saveEdit", "start"}, NEW x \in SettingsType,
         Copies(pc, x, arrays), Events.pc \notin {"register", "saveEdit"}, action \in Live,
         UNCHANGED <<action, deck, graph, edits>>,
         x.list = heap[action].list, pc = "start" => x.fields = heap[action].fields
  PROVE  EditsInv'
<1> SUFFICES ASSUME Apart', graph' # Nil
             PROVE  Registered' /\ Saved' /\ Editing'
  BY DEF EditsInv
<1>1. Registered /\ Saved /\ mishaps' = mishaps /\ Ticker' = Ticker
  BY DEF EditsInv, Copies, Apart
<1>2. action # Nil /\ action \in Live'
  BY <1>1, LiveSet DEF Registered
<1>3. Holds(action) /\ heap'[action] = heap[action] /\ arrays'[heap'[action].list] = arrays[heap[action].list]
  BY <1>1, <1>2 DEF Registered, Copies
<1>4. Holds(action)'
  BY <1>3 DEF Holds
<1>5. /\ heap'[Events'.ref] = x /\ arrays'[x.list] = edits'.colors
      /\ pc = "start" => x.fields = edits'.fields
  <2>1. NewObject \in Live' /\ Events'.ref = NewObject /\ heap'[NewObject] = x
    BY DEF Copies
  <2>2. arrays'[x.list] = arrays[x.list]
    BY <2>1 DEF Copies
  <2>3. QED
    BY <1>3, <2>1, <2>2 DEF Holds
<1>6. Registered'
  BY <1>1, <1>2, <1>4 DEF Registered
<1>7. Saved'
  BY <1>1 DEF Saved
<1>8. Editing'
  BY <1>5 DEF Editing, Copies, Holds, Drawing
<1>9. QED
  BY <1>6, <1>7, <1>8

LEMMA EditsThresholdUpdate ==
  ASSUME Base, EditsInv, handleThresholdUpdate
  PROVE  EditsInv'
<1> DEFINE rev == edits.colors + 1
           a == [arrays EXCEPT ![heap[action].list] = rev]
<1> SUFFICES ASSUME Apart', graph' # Nil
             PROVE  Registered' /\ Saved' /\ Editing'
  BY DEF EditsInv
<1>1. /\ Events.pc = "idle" /\ graph' = graph /\ action' = action /\ action \in Live
      /\ edits'.fields = edits.fields /\ edits'.colors = rev
      /\ Copies("saveEdit", heap[action], a)
  BY ThresholdUpdateFacts
<1>2. a[heap[action].list] = rev
  BY BaseTypes, <1>1 DEF Base, RefInv, SettingsType
<1> HIDE DEF a
<1>3. Registered /\ Ticker' = Ticker /\ Events'.pc = "saveEdit" /\ Events'.ref = NewObject
  BY <1>1 DEF EditsInv, Copies, Apart
<1>4. action # Nil /\ action \in Live' /\ NewObject \in Live'
  BY <1>1, <1>3, LiveSet DEF Registered, Copies
<1>5. /\ heap'[action] = heap[action] /\ arrays'[heap'[action].list] = rev
      /\ arrays'[heap'[NewObject].list] = rev
  BY <1>1, <1>2, <1>4 DEF Copies
<1>6. Registered'
  BY <1>1, <1>3, <1>4, <1>5 DEF Registered, Holds
<1>7. QED
  BY <1>1, <1>3, <1>5, <1>6 DEF Saved, Editing, Drawing

LEMMA EditsSaveEdit ==
  ASSUME Base, EditsInv, SaveEdit
  PROVE  EditsInv'
<1> SUFFICES ASSUME Apart', graph' # Nil
             PROVE  Registered' /\ Saved' /\ Editing'
  BY DEF EditsInv
<1>1. /\ Events.pc = "saveEdit" /\ Events'.pc = "register" /\ Events'.ref = Events.ref
      /\ Saves(Events.ref) /\ Writes("events", mishaps \ {"unsaved"})
      /\ UNCHANGED <<heap, arrays, graph, edits>>
  BY SaveEditFacts
<1>2. Apart /\ ~Events.overtaken
  BY <1>1 DEF Writes, Apart, Events
<1>3. arrays[heap[Events.ref].list] = edits.colors
  BY <1>1, <1>2 DEF EditsInv, Editing
<1>4. QED
  BY <1>1, <1>3 DEF Registered, Saved, Editing, Saves, Drawing

LEMMA EditsSaveEditFails ==
  ASSUME Base, EditsInv, SaveEditFails
  PROVE  EditsInv'
<1> SUFFICES ASSUME Apart', graph' # Nil
             PROVE  Registered' /\ Saved' /\ Editing'
  BY DEF EditsInv
<1>1. /\ Events.pc = "saveEdit" /\ Events' = Idle /\ Ticker' = Ticker /\ Kept
      /\ Apart /\ mishaps' = mishaps \cup {"unsaved"}
      /\ UNCHANGED <<action, graph, edits>>
  BY SaveEditFailsFacts
<1>2. Registered
  BY <1>1 DEF EditsInv
<1>3. action # Nil /\ action \in Live /\ action \in Live'
  BY <1>1, <1>2, LiveSet DEF Registered
<1>4. Registered'
  BY <1>1, <1>2, <1>3, HoldsKept DEF Registered
<1>5. QED
  BY <1>1, <1>4, IdleFacts DEF Saved, Editing, Drawing

LEMMA EditsRegister ==
  ASSUME Base, EditsInv, Register
  PROVE  EditsInv'
<1> SUFFICES ASSUME Apart', graph' # Nil
             PROVE  Registered' /\ Saved' /\ Editing'
  BY DEF EditsInv
<1>1. /\ Handles /\ Kept /\ Writes("events", mishaps)
      /\ Events.pc = "register" /\ Events'.pc \in {"idle", "refresh", "saveCurrent"}
      /\ Events'.pc = "saveCurrent" => Events'.ref = Events.ref
      /\ action' = Events.ref /\ edits'.fields = heap[Events.ref].fields
      /\ edits'.colors = edits.colors /\ UNCHANGED <<deck, graph>>
  BY RegisterFacts
<1>2. /\ Apart /\ ~Events.overtaken /\ mishaps' = mishaps
      /\ Ticker'.overtaken <=> Ticker.pc # "idle"
  BY <1>1, ThreadSet DEF Writes, Apart, Events, Ticker
<1>3. /\ arrays[heap[Events.ref].list] = edits.colors
      /\ deck.fields = heap[Events.ref].fields /\ deck.colors = edits.colors
  BY <1>1, <1>2 DEF EditsInv, Editing
<1>4. Events.ref # Nil /\ Events.ref \in Live /\ Events.ref \in Live'
  BY <1>1, LiveSet, ThreadSet DEF Base, RefInv, NoRef, Events
<1>5. /\ heap'[Events.ref].fields = edits'.fields
      /\ arrays'[heap'[Events.ref].list] = edits'.colors
  BY <1>1, <1>3, <1>4 DEF Kept
<1>6. Ticker'.ref # Nil => Ticker'.overtaken
  BY <1>1, <1>2, ThreadSet DEF Handles, Base, RefInv, NoRef, Ticker
<1>7. Registered'
  BY <1>1, <1>4, <1>5, <1>6 DEF Registered, Holds
<1>8. Saved'
  BY <1>1, <1>3 DEF Saved
<1>9. Editing'
  BY <1>1, <1>5 DEF Editing, Drawing, Holds
<1>10. QED
  BY <1>7, <1>8, <1>9

LEMMA EditsKeyDown ==
  ASSUME Base, EditsInv, OnKeyDown
  PROVE  EditsInv'
<1>1. /\ Ticker' = Ticker /\ Events.pc = "idle" /\ Events'.pc = "refresh"
      /\ UNCHANGED <<heap, arrays, action, deck, graph, edits, mishaps>>
  BY OnKeyDownFacts
<1>2. QED
  BY <1>1 DEF EditsInv, Registered, Saved, Editing, Holds, Drawing, Apart

LEMMA EditsSaveCurrent ==
  ASSUME Base, EditsInv, SaveCurrent
  PROVE  EditsInv'
<1> SUFFICES ASSUME Apart', graph' # Nil
             PROVE  Registered' /\ Saved' /\ Editing'
  BY DEF EditsInv
<1>1. /\ Handles /\ Kept /\ Writes("events", mishaps)
      /\ Events.pc = "saveCurrent" /\ Events'.pc = "idle" /\ Saves(Events.ref)
      /\ UNCHANGED <<action, graph, edits>>
  BY SaveCurrentFacts
<1>2. /\ Apart /\ ~Events.overtaken
      /\ Ticker'.overtaken <=> Ticker.pc # "idle"
  BY <1>1, ThreadSet DEF Writes, Apart, Events, Ticker
<1>3. Registered /\ Holds(Events.ref)
  BY <1>1, <1>2 DEF EditsInv, Editing
<1>4. action # Nil /\ action \in Live /\ action \in Live'
  BY <1>1, <1>3, LiveSet DEF Registered
<1>5. Holds(action)'
  BY <1>1, <1>3, <1>4, HoldsKept DEF Registered
<1>6. Ticker'.ref # Nil => Ticker'.overtaken
  BY <1>1, <1>2, ThreadSet DEF Handles, Base, RefInv, NoRef, Ticker
<1>7. Registered'
  BY <1>1, <1>4, <1>5, <1>6 DEF Registered
<1>8. Saved' /\ Editing'
  BY <1>1, <1>3 DEF Saved, Editing, Saves, Holds, Drawing
<1>9. QED
  BY <1>7, <1>8

LEMMA EditsWillAppear ==
  ASSUME Base, EditsInv, OnWillAppear
  PROVE  EditsInv'
<1>1. PICK x \in SettingsType, a \in [Lists -> 0..MaxEdits] :
        /\ Copies("register", x, a)
        /\ x.fields = deck.fields /\ a[x.list] = deck.colors
  BY OnWillAppearFacts
<1>2. edits'.colors = deck.colors /\ deck' = deck
  BY OnWillAppearFacts
<1>3. Events'.pc = "register" /\ heap'[Events'.ref] = x /\ arrays'[x.list] = a[x.list]
  BY <1>1 DEF Copies
<1>4. QED
  BY <1>1, <1>2, <1>3 DEF EditsInv, Registered, Saved, Editing, Drawing

LEMMA EditsRun ==
  ASSUME Base, EditsInv, Run
  PROVE  EditsInv'
<1>1. /\ Ticker'.ref = action /\ Ticker'.graph = Nil /\ Events' = Events
      /\ UNCHANGED <<heap, arrays, action, deck, graph, edits, mishaps>>
  BY RunFacts
<1>2. QED
  BY <1>1 DEF EditsInv, Registered, Saved, Editing, Holds, Apart

LEMMA NextEdits ==
  ASSUME Base, EditsInv, [Next]_vars
  PROVE  EditsInv'
<1>1. CASE Run
  BY <1>1, EditsRun
<1>2. ASSUME NEW t \in Threads, updateTiles(t)
      PROVE  EditsInv'
  BY <1>2, UpdateUpdates, EditsUpdate
<1>3. CASE SaveEdit
  BY <1>3, EditsSaveEdit
<1>4. CASE SaveEditFails
  BY <1>4, EditsSaveEditFails
<1>5. CASE Register
  BY <1>5, EditsRegister
<1>6. CASE refreshAction
  <2>1. heap[action] \in SettingsType
    BY <1>6, RefreshFacts, BaseTypes
  <2>2. QED
    BY <1>6, <2>1, RefreshFacts, EditsCopy
<1>7. CASE RemoveAction \/ OnWillDisappear
  BY <1>7, RemoveActionFacts, OnWillDisappearFacts DEF EditsInv
<1>8. CASE SaveCurrent
  BY <1>8, EditsSaveCurrent
<1>9. CASE handleSetField \/ OnPropertyInspectorConnected
  <2>1. PICK x \in SettingsType :
          /\ Copies("saveEdit", x, arrays)
          /\ x.list = heap[action].list /\ x.current = heap[action].current
    BY <1>9, SetFieldFacts, ConnectedFacts
  <2>2. QED
    BY <1>9, <2>1, SetFieldFacts, ConnectedFacts, EditsCopy
<1>10. CASE handleThresholdUpdate
  BY <1>10, EditsThresholdUpdate
<1>11. CASE OnKeyDown
  BY <1>11, EditsKeyDown
<1>12. CASE OnWillAppear
  BY <1>12, EditsWillAppear
<1>13. CASE Publish
  <2>1. /\ \A u \in Threads :
             /\ thread'[u].pc = thread[u].pc /\ thread'[u].ref = thread[u].ref
             /\ thread'[u].graph = thread[u].graph /\ thread'[u].overtaken = thread[u].overtaken
        /\ UNCHANGED <<heap, arrays, action, deck, graph, edits, mishaps>>
    BY <1>13, PublishFacts
  <2>2. QED
    BY <2>1, ThreadSet DEF EditsInv, Registered, Saved, Editing, Holds, Apart, Ticker, Events
<1>14. CASE Outage
  BY <1>14, OutageFacts DEF EditsInv, Registered, Saved, Editing, Holds, Apart, Ticker, Events
<1>15. CASE UNCHANGED vars
  BY <1>15 DEF vars, store, tile, EditsInv, Registered, Saved, Editing, Holds, Apart, Ticker, Events
<1>16. QED
  BY <1>1, <1>2, <1>3, <1>4, <1>5, <1>6, <1>7, <1>8, <1>9, <1>10, <1>11, <1>12, <1>13,
     <1>14, <1>15, ThreadSet DEF Next, Handler

\* No edit is lost, in memory or on the deck, unless an update and a handler have
\* written settings over each other: handlers share the threshold array with the
\* settings they have copied, and the ticker may read, evaluate and draw between any
\* two steps of theirs.
THEOREM NoEditIsLost == Spec => []EditsKept
<1>1. Init => EditsInv
  BY DEF Init, EditsInv
<1>2. Base /\ EditsInv /\ [Next]_vars => EditsInv'
  BY NextEdits
<1>3. Base /\ EditsInv => EditsKept
  BY ThreadSet DEF EditsKept, EditsInv, Apart, Quiet, At, Registered, Saved, Holds, Events
<1>4. QED
  BY <1>1, <1>2, <1>3, BaseHolds, PTL DEF Spec

-----------------------------------------------------------------------------
(* The frame.  A value published while an update is under way makes another *)
(* look necessary; an update that has not been overtaken carries the colours *)
(* and the mark that the tile should have, until it has drawn them.          *)

Shade(on)  == IF on /\ ~snoozed THEN edits.colors ELSE Own
Pending(t) == thread[t].pc \in {"down", "evaluate", "paint"} /\ thread[t].forced

\* The settings that will have been registered when the handler under way has
\* registered, and their mark of the alert.
Cur  == IF Events.pc = "register" THEN Events.ref ELSE action
Mark == heap[Cur].current

\* Nobody is about to look whether the colours are right.
Calm ==
  /\ "unmarked" \notin mishaps /\ ~dirty /\ \A t \in Threads : ~Pending(t)
  /\ Events.pc = "register" => ~Events.overtaken

Sure(t) == ~thread[t].overtaken /\ (t = "ticker" => Events.pc # "register")

AlertRight ==
  \A t \in Threads :
    thread[t].pc \in {"paint", "save", "draw"} /\ ~thread[t].late /\ reading # "Unavailable" =>
      (thread[t].alert <=> reading = "High")

LateOthers(t) == \A u \in Threads \ {t} : thread[u].pc = "settle" => thread[u].late

LateCounts(t) ==
  /\ thread[t].pc \in {"idle", "start", "gate"} => ~thread[t].late
  /\ /\ thread[t].pc \in {"evaluate", "paint", "save", "draw"}
     /\ thread[t].late /\ ~thread[t].overtaken
     => fresh /\ LateOthers(t)
  /\ thread[t].pc = "down" /\ ~thread[t].overtaken /\ reading # "Unavailable" => LateOthers(t)

CopyAgrees ==
  ~Events.overtaken /\ Events.pc \in {"start", "saveEdit"} \cup Drawing =>
    heap[Events.ref].current = heap[action].current

PaintRight == Calm => painted[graph] = Shade(Mark)

ColorRight(t) ==
  thread[t].pc = "paint" /\ Sure(t) /\ ~dirty /\ (\A u \in Threads \ {t} : ~Pending(u)) =>
    thread[t].color = Shade(thread[t].alert)

MarkRight(t) == thread[t].pc \in {"save", "draw"} /\ Sure(t) => Mark = thread[t].alert

\* There is nothing new to look at, or will not be when an update that has drawn
\* notes the poll time it began with.
Settled == ~fresh \/ \E t \in Threads : thread[t].pc = "settle" /\ ~thread[t].late

ImageRight ==
  /\ Calm /\ reading # "Unavailable" /\ Settled
  /\ \A t \in Threads : thread[t].pc \notin {"save", "draw"}
  => /\ Mark <=> reading = "High"
     /\ image = [color |-> Shade(Mark), alert |-> Mark]

LateInv  == Apart => \A t \in Threads : LateCounts(t)
ShadeInv ==
  Apart /\ graph # Nil =>
    /\ CopyAgrees /\ PaintRight /\ ImageRight
    /\ \A t \in Threads : ColorRight(t) /\ MarkRight(t)

FrameInv == AlertRight /\ LateInv /\ ShadeInv

-----------------------------------------------------------------------------
(* Frames under updates.                                                   *)

\* What an update leaves of the other thread, as long as nobody is overtaken.
LEMMA OtherThread ==
  ASSUME Base, NEW t \in Threads, Updates(t), Apart'
  PROVE  /\ Apart
         /\ \A u \in Threads \ {t} :
              /\ Alike(thread'[u], thread[u])
              /\ thread[u].pc # "idle" /\ ~thread'[u].overtaken =>
                   Reads(t) /\ ~thread[u].overtaken
              /\ thread[u].pc # "idle" /\ thread[u].overtaken => thread'[u].overtaken
         /\ thread'[t].ref # Nil /\ ~thread'[t].overtaken => ~thread[t].overtaken
         /\ Reads(t) => mishaps' = mishaps
<1>1. CASE Reads(t)
  BY <1>1 DEF Reads, Updates, Apart
<1>2. CASE ~Reads(t)
  <2>1. PICK ms : Writes(t, ms) /\ ms \ {"unmarked"} = mishaps \ {"unmarked"}
    BY <1>2 DEF Updates
  <2>2. \A m : m # "unmarked" => (m \in ms <=> m \in mishaps)
    BY <2>1
  <2>3. Apart
    BY <2>1, <2>2 DEF Writes, Apart
  <2>4. QED
    BY <1>2, <2>1, <2>3 DEF Writes, Updates
<1>3. QED
  BY <1>1, <1>2

LEMMA LateUpdate ==
  ASSUME Base, LateInv, NEW t \in Threads, Updates(t),
         Reads(t) => thread'[t].pc # "settle",
         \/ fresh' = fresh \/ fresh' = TRUE
         \/ thread[t].pc = "settle" /\ fresh' = thread[t].late,
         \/ thread'[t].pc = "settle"
         \/ thread'[t].pc \in {"idle", "gate"} /\ ~thread'[t].late
         \/ thread'[t].pc = "evaluate" /\ ~thread'[t].late
         \/ /\ thread'[t].pc \in {"evaluate", "paint", "save", "draw"}
            /\ thread[t].pc \in {"evaluate", "paint", "save"}
            /\ thread'[t].late = thread[t].late /\ fresh' = fresh
         \/ thread'[t].pc = "down" /\ reading = "Unavailable"
  PROVE  LateInv'
<1> SUFFICES ASSUME Apart', NEW u \in Threads
             PROVE  LateCounts(u)'
  BY DEF LateInv
<1>1. Apart /\ \A v \in Threads : LateCounts(v)
  BY OtherThread DEF LateInv
<1>2. \A v \in Threads \ {t} : thread'[v].pc = thread[v].pc /\ thread'[v].late = thread[v].late
  BY OtherThread DEF Alike
<1>3. reading' = reading
  BY DEF Updates
<1>4. CASE u = t
  <2>1. LateOthers(t)' <=> LateOthers(t)
    BY <1>2 DEF LateOthers
  <2>2. thread'[t].pc \in Drawing /\ ~thread'[t].overtaken => ~thread[t].overtaken
    BY OtherThread DEF Updates, Drawing
  <2>3. QED
    BY <1>1, <1>3, <1>4, <2>1, <2>2 DEF LateCounts, Drawing
<1>5. CASE u # t
  <2>1. CASE thread[u].pc \in {"idle", "start", "gate"}
    BY <1>1, <1>2, <1>5, <2>1 DEF LateCounts
  <2>2. CASE thread[u].pc \notin {"idle", "start", "gate"} /\ ~thread'[u].overtaken
    <3>1. Reads(t) /\ ~thread[u].overtaken /\ thread'[t].pc # "settle"
      BY <1>5, <2>2, OtherThread
    <3>2. LateOthers(u)'
      BY <1>2, <1>5, <3>1, ThreadSet DEF LateOthers
    <3>3. thread[u].pc \in {"evaluate", "paint", "save", "draw"} /\ thread[u].late => fresh'
      BY <1>1, <1>5, <3>1 DEF LateCounts, LateOthers
    <3>4. QED
      BY <1>2, <1>5, <2>2, <3>2, <3>3 DEF LateCounts
  <2>3. CASE thread[u].pc \notin {"idle", "start", "gate"} /\ thread'[u].overtaken
    BY <1>2, <1>5, <2>3 DEF LateCounts
  <2>4. QED
    BY <2>1, <2>2, <2>3
<1>6. QED
  BY <1>4, <1>5

LEMMA AlertUpdate ==
  ASSUME Base, AlertRight, NEW t \in Threads, Updates(t),
         thread'[t].pc \in {"paint", "save", "draw"} =>
           \/ thread'[t].alert <=> reading = "High"
           \/ /\ thread[t].pc \in {"paint", "save"}
              /\ thread'[t].alert = thread[t].alert /\ thread'[t].late = thread[t].late
  PROVE  AlertRight'
BY DEF AlertRight, Updates, Alike

\* The settings to be registered, whose mark an update leaves alone that registers
\* nothing.
LEMMA MarkKept ==
  ASSUME Base, EditsInv, NEW t \in Threads, Updates(t), Apart, graph # Nil,
         action' = action, SameCurrent
  PROVE  /\ Mark' = Mark /\ (Events'.pc = "register" <=> Events.pc = "register")
         /\ Events.pc # "register" => heap'[action'].current = heap[action].current
<1>1. Events'.pc = "register" <=> Events.pc = "register"
  BY ThreadSet DEF Updates, Alike, Updating, Drawing, Events
<1>2. CASE Events.pc = "register"
  <2>1. t = "ticker" /\ Events'.ref = Events.ref /\ Events.ref # Nil
    BY <1>2, ThreadSet DEF Updates, Alike, Updating, Drawing, Events, Base, RefInv, NoRef
  <2>2. Events.ref \in Live /\ Events.ref \in Live'
    BY <2>1, LiveSet
  <2>3. QED
    BY <1>1, <1>2, <2>1, <2>2 DEF Mark, Cur, SameCurrent
<1>3. CASE Events.pc # "register"
  <2>1. action # Nil
    BY <1>3 DEF EditsInv, Registered
  <2>2. action \in Live /\ action \in Live'
    BY <2>1, LiveSet
  <2>3. QED
    BY <1>1, <1>3, <2>2 DEF Mark, Cur, SameCurrent
<1>4. QED
  BY <1>2, <1>3

\* An update that neither registers nor paints: if it leaves the tile calm, it found
\* it calm.
LEMMA SteadyUpdate ==
  ASSUME Base, EditsInv, ShadeInv, NEW t \in Threads, Updates(t), Apart', graph' # Nil,
         action' = action, SameCurrent, painted' = painted,
         \A u \in Threads \ {t} :
           thread[u].pc # "idle" /\ ~thread'[u].overtaken /\ ~dirty' /\ ~Pending(t)' =>
             ~dirty /\ ~Pending(t) /\ (snoozed' <=> snoozed),
         /\ Reads(t) => mishaps' = mishaps
         /\ "unmarked" \notin mishaps' /\ ~dirty' /\ ~Pending(t)'
         => "unmarked" \notin mishaps /\ ~dirty /\ ~Pending(t) /\ (snoozed' <=> snoozed)
  PROVE  /\ CopyAgrees' /\ PaintRight' /\ Mark' = Mark
         /\ Calm' => Calm /\ (snoozed' <=> snoozed)
         /\ \A u \in Threads \ {t} : ColorRight(u)' /\ MarkRight(u)'
         /\ thread'[t].ref # Nil /\ Sure(t)' => Sure(t)
<1>1. /\ UNCHANGED <<graph, edits>> /\ Apart /\ CopyAgrees /\ PaintRight
      /\ \A u \in Threads : ColorRight(u) /\ MarkRight(u)
  BY OtherThread DEF Updates, ShadeInv
<1>2. /\ Mark' = Mark /\ (Events'.pc = "register" <=> Events.pc = "register")
      /\ Events.pc # "register" => heap'[action'].current = heap[action].current
  BY <1>1, MarkKept
<1>3. \A u \in Threads \ {t} :
        /\ thread'[u].pc = thread[u].pc /\ thread'[u].ref = thread[u].ref
        /\ thread'[u].alert = thread[u].alert /\ thread'[u].color = thread[u].color
        /\ thread'[u].late = thread[u].late
        /\ Pending(u)' <=> Pending(u)
  BY OtherThread DEF Alike, Pending
<1>4. \A u \in Threads \ {t} :
        thread[u].pc # "idle" /\ ~thread'[u].overtaken => Reads(t) /\ ~thread[u].overtaken
  BY OtherThread
<1>5. thread'[t].ref # Nil /\ ~thread'[t].overtaken => ~thread[t].overtaken
  BY OtherThread
<1>6. Calm' => Calm /\ (snoozed' <=> snoozed)
  <2>1. Events.pc = "register" /\ ~Events'.overtaken => ~Events.overtaken
    <3>1. Events.pc = "register" => t # "events"
      BY DEF Updates, Updating, Drawing, Events
    <3>2. QED
      BY <1>4, <3>1, ThreadSet DEF Events
  <2>2. Reads(t) => mishaps' = mishaps
    BY OtherThread
  <2>3. Calm' => "unmarked" \notin mishaps' /\ ~dirty' /\ ~Pending(t)'
    BY DEF Calm
  <2>4. Calm' => "unmarked" \notin mishaps /\ ~dirty /\ ~Pending(t) /\ (snoozed' <=> snoozed)
    BY <2>2, <2>3
  <2>5. QED
    BY <1>2, <1>3, <2>1, <2>4 DEF Calm
<1>7. PaintRight'
  BY <1>1, <1>2, <1>6 DEF PaintRight, Shade
<1>8. CopyAgrees'
  <2>1. SUFFICES ASSUME ~Events'.overtaken, Events'.pc \in {"start", "saveEdit"} \cup Drawing
                 PROVE  heap'[Events'.ref].current = heap'[action'].current
    BY DEF CopyAgrees
  <2>2. /\ Events.pc \in {"start", "saveEdit"} \cup Drawing /\ ~Events.overtaken
        /\ Events'.ref = Events.ref
    <3>1. CASE t = "ticker"
      BY <1>3, <1>4, <2>1, <3>1, ThreadSet DEF Events, Drawing
    <3>2. CASE t = "events"
      <4>1. Events'.ref = Events.ref /\ Events'.ref # Nil /\ Events.pc \in Updating
        BY <2>1, <3>2 DEF Events, Updates, Drawing
      <4>2. ~Events.overtaken
        BY <1>5, <2>1, <3>2, <4>1 DEF Events
      <4>3. Events.pc # "settle"
        BY <4>1 DEF Base, RefInv, NoRef, Events, Threads
      <4>4. QED
        BY <4>1, <4>2, <4>3 DEF Updating
    <3>3. QED
      BY <3>1, <3>2, ThreadSet
  <2>3. heap[Events.ref].current = heap[action].current
    BY <1>1, <2>2 DEF CopyAgrees
  <2>4. Events.ref \in Live /\ Events.ref \in Live'
    BY <2>2, LiveSet, ThreadSet DEF Base, RefInv, NoRef, Drawing, Events
  <2>5. QED
    BY <1>2, <2>2, <2>3, <2>4 DEF SameCurrent, Drawing
<1>9. ASSUME NEW u \in Threads \ {t}
      PROVE  ColorRight(u)' /\ MarkRight(u)'
  <2>1. thread[u].pc # "idle" /\ Sure(u)' => Sure(u) /\ Reads(t)
    BY <1>2, <1>4 DEF Sure
  <2>2. MarkRight(u)'
    BY <1>1, <1>2, <1>3, <2>1 DEF MarkRight
  <2>3. ColorRight(u)'
    <3>1. SUFFICES ASSUME thread[u].pc = "paint", Sure(u)', ~dirty', ~Pending(t)'
                   PROVE  thread'[u].color = Shade(thread[u].alert)'
      BY <1>3, ThreadSet DEF ColorRight, Shade
    <3>2. ~dirty /\ ~Pending(t) /\ (snoozed' <=> snoozed) /\ Sure(u)
      BY <2>1, <3>1 DEF Sure
    <3>3. thread[u].color = Shade(thread[u].alert)
      BY <1>1, <3>1, <3>2, ThreadSet DEF ColorRight
    <3>4. QED
      BY <1>1, <1>3, <3>2, <3>3 DEF Shade
  <2>4. QED
    BY <2>2, <2>3
<1>10. thread'[t].ref # Nil /\ Sure(t)' => Sure(t)
  BY <1>2, <1>5 DEF Sure
<1>11. QED
  BY <1>2, <1>6, <1>7, <1>8, <1>9, <1>10

\* An update that does not draw either.
LEMMA SteadyImage ==
  ASSUME ImageRight, NEW t \in Threads, Updates(t), Apart',
         Mark' = Mark, Calm' => Calm /\ (snoozed' <=> snoozed), image' = image,
         thread[t].pc \notin {"save", "draw"}, Settled' => Settled
  PROVE  ImageRight'
<1>1. UNCHANGED <<reading, edits>>
  BY DEF Updates
<1>2. (\A u \in Threads : thread'[u].pc \notin {"save", "draw"}) =>
        \A u \in Threads : thread[u].pc \notin {"save", "draw"}
  BY DEF Updates, Alike
<1>3. Calm' => (Shade(Mark)' = Shade(Mark))
  BY <1>1 DEF Shade
<1>4. QED
  BY <1>1, <1>2, <1>3 DEF ImageRight

LEMMA FrameNoGraph ==
  ASSUME Base, FrameInv, NEW t \in Threads, NoGraph(t)
  PROVE  FrameInv'
<1>1. /\ Updates(t) /\ graph' = Nil /\ thread'[t] = Idle /\ UNCHANGED fresh
  BY NoGraphFacts DEF Updates
<1>2. AlertRight'
  BY <1>1, AlertUpdate, IdleFacts DEF FrameInv
<1>3. LateInv'
  BY <1>1, LateUpdate, IdleFacts DEF FrameInv
<1>4. QED
  BY <1>1, <1>2, <1>3 DEF FrameInv, ShadeInv

LEMMA FrameStart ==
  ASSUME Base, EditsInv, FrameInv, NEW t \in Threads, Start(t)
  PROVE  FrameInv'
<1>1. /\ Updates(t) /\ SameCurrent
      /\ thread[t].pc = "start" /\ thread'[t].pc = "gate" /\ thread'[t].late = thread[t].late
      /\ Reads(t) \/ Writes(t, mishaps)
      /\ UNCHANGED <<action, painted, image, dirty, fresh, snoozed>>
  BY StartFacts
<1>2. AlertRight'
  BY <1>1, AlertUpdate DEF FrameInv
<1>3. LateInv'
  <2>1. SUFFICES ASSUME Apart'
                 PROVE  LateInv'
    BY DEF LateInv
  <2>2. ~thread[t].late
    BY <1>1, <2>1, OtherThread DEF FrameInv, LateInv, LateCounts
  <2>3. QED
    BY <1>1, <2>2, LateUpdate DEF FrameInv
<1>4. ASSUME Apart', graph' # Nil
      PROVE  /\ CopyAgrees' /\ PaintRight' /\ ImageRight'
             /\ \A u \in Threads : ColorRight(u)' /\ MarkRight(u)'
  <2>1. ~Pending(t) /\ ~Pending(t)' /\ (~Reads(t) => mishaps' = mishaps)
    BY <1>1, <1>4 DEF Pending, Writes
  <2>2. /\ CopyAgrees' /\ PaintRight' /\ Mark' = Mark
        /\ Calm' => Calm /\ (snoozed' <=> snoozed)
        /\ \A u \in Threads \ {t} : ColorRight(u)' /\ MarkRight(u)'
    BY <1>1, <1>4, <2>1, SteadyUpdate DEF FrameInv
  <2>3. Settled' => Settled
    BY <1>1 DEF Settled, Updates, Alike
  <2>4. ImageRight'
    BY <1>1, <1>4, <2>2, <2>3, SteadyImage, OtherThread DEF FrameInv, ShadeInv, Updates
  <2>5. ColorRight(t)' /\ MarkRight(t)'
    BY <1>1 DEF ColorRight, MarkRight
  <2>6. QED
    BY <2>2, <2>4, <2>5
<1>5. QED
  BY <1>2, <1>3, <1>4 DEF FrameInv, ShadeInv

LEMMA FrameGate ==
  ASSUME Base, EditsInv, FrameInv, NEW t \in Threads, Gate(t)
  PROVE  FrameInv'
<1>1. /\ Updates(t) /\ Reads(t) /\ SameCurrent /\ ~dirty' /\ thread[t].pc = "gate"
      /\ \/ /\ thread'[t].pc = "down" /\ reading = "Unavailable"
            /\ thread'[t].forced = dirty /\ thread'[t].late = thread[t].late
         \/ /\ thread'[t].pc = "evaluate"
            /\ thread'[t].forced = dirty /\ thread'[t].late = thread[t].late
         \/ thread'[t] = Idle /\ ~dirty
      /\ UNCHANGED <<painted, image, fresh, snoozed>>
  BY GateFacts
<1>2. thread'[t].pc \in {"down", "evaluate", "idle"} /\ UNCHANGED <<action, mishaps>>
  BY <1>1, IdleFacts DEF Reads
<1>3. AlertRight'
  BY <1>1, <1>2, AlertUpdate DEF FrameInv
<1>4. LateInv'
  <2>1. SUFFICES ASSUME Apart'
                 PROVE  LateInv'
    BY DEF LateInv
  <2>2. ~thread[t].late
    BY <1>1, <2>1, OtherThread DEF FrameInv, LateInv, LateCounts
  <2>3. QED
    BY <1>1, <1>2, <2>2, LateUpdate, IdleFacts DEF FrameInv
<1>5. ASSUME Apart', graph' # Nil
      PROVE  /\ CopyAgrees' /\ PaintRight' /\ ImageRight'
             /\ \A u \in Threads : ColorRight(u)' /\ MarkRight(u)'
  <2>1. ~Pending(t) /\ (~Pending(t)' => ~dirty)
    BY <1>1 DEF Pending
  <2>2. /\ CopyAgrees' /\ PaintRight' /\ Mark' = Mark
        /\ Calm' => Calm /\ (snoozed' <=> snoozed)
        /\ \A u \in Threads \ {t} : ColorRight(u)' /\ MarkRight(u)'
    BY <1>1, <1>2, <1>5, <2>1, SteadyUpdate DEF FrameInv
  <2>3. Settled' => Settled
    BY <1>1, <1>2 DEF Settled, Updates, Alike
  <2>4. ImageRight'
    BY <1>1, <1>5, <2>2, <2>3, SteadyImage, OtherThread DEF FrameInv, ShadeInv, Updates
  <2>5. ColorRight(t)' /\ MarkRight(t)'
    BY <1>2 DEF ColorRight, MarkRight
  <2>6. QED
    BY <2>2, <2>4, <2>5
<1>6. QED
  BY <1>3, <1>4, <1>5 DEF FrameInv, ShadeInv

LEMMA FrameDown ==
  ASSUME Base, EditsInv, FrameInv, NEW t \in Threads, Down(t)
  PROVE  FrameInv'
<1>1. /\ Updates(t) /\ SameCurrent
      /\ thread[t].pc = "down" /\ Alike(thread'[t], Idle)
      /\ Writes(t, IF thread[t].forced THEN mishaps \cup {"unmarked"} ELSE mishaps)
      /\ fresh' = TRUE
      /\ UNCHANGED <<action, painted, dirty, snoozed>>
  BY DownFacts
<1>2. thread'[t].pc = "idle" /\ ~thread'[t].late
  BY <1>1, IdleFacts DEF Alike
<1>3. AlertRight'
  BY <1>1, <1>2, AlertUpdate DEF FrameInv
<1>4. LateInv'
  BY <1>1, <1>2, LateUpdate DEF FrameInv
<1>5. ASSUME Apart', graph' # Nil
      PROVE  /\ CopyAgrees' /\ PaintRight' /\ ImageRight'
             /\ \A u \in Threads : ColorRight(u)' /\ MarkRight(u)'
  <2>1. "unmarked" \notin mishaps' => "unmarked" \notin mishaps /\ ~Pending(t)
    BY <1>1, <1>5 DEF Pending, Writes
  <2>2. \A u \in Threads \ {t} : thread[u].pc = "idle" \/ thread'[u].overtaken
    BY <1>1, <1>5 DEF Writes
  <2>3. /\ CopyAgrees' /\ PaintRight'
        /\ \A u \in Threads \ {t} : ColorRight(u)' /\ MarkRight(u)'
    BY <1>1, <1>5, <2>1, <2>2, SteadyUpdate DEF FrameInv
  \* An available tile has nothing to settle while an update takes it down.
  <2>4. ImageRight'
    <3>1. SUFFICES ASSUME reading' # "Unavailable", Settled'
                   PROVE  FALSE
      BY DEF ImageRight
    <3>2. ~thread[t].overtaken /\ Apart /\ reading # "Unavailable"
      BY <1>1, <1>5, <3>1, OtherThread DEF Writes, Updates
    <3>3. LateOthers(t)
      BY <1>1, <3>2 DEF FrameInv, LateInv, LateCounts
    <3>4. \A u \in Threads \ {t} : Alike(thread'[u], thread[u])
      BY <1>1 DEF Updates
    <3>5. QED
      BY <1>1, <1>2, <3>1, <3>3, <3>4 DEF Settled, LateOthers, Alike
  <2>5. ColorRight(t)' /\ MarkRight(t)'
    BY <1>2 DEF ColorRight, MarkRight
  <2>6. QED
    BY <2>3, <2>4, <2>5
<1>6. QED
  BY <1>3, <1>4, <1>5 DEF FrameInv, ShadeInv

LEMMA FrameEvaluate ==
  ASSUME Base, EditsInv, FrameInv, NEW t \in Threads, Evaluate(t)
  PROVE  FrameInv'
<1>1. /\ Updates(t) /\ Reads(t) /\ SameCurrent
      /\ thread[t].pc = "evaluate" /\ thread'[t].late = thread[t].late
      /\ \/ /\ reading = "Unavailable" /\ thread'[t].pc = "down"
            /\ thread'[t].forced = thread[t].forced /\ UNCHANGED <<dirty, snoozed>>
         \/ /\ reading # "Unavailable" /\ thread'[t].pc = "paint"
            /\ thread'[t].alert <=> reading = "High"
            /\ \/ dirty' /\ thread'[t].forced
               \/ /\ thread'[t].forced <=> thread[t].forced
                  /\ snoozed' <=> snoozed
                  /\ dirty' <=> dirty
            /\ thread'[t].color = IF reading = "High" /\ ~snoozed
                                  THEN arrays[heap[thread[t].ref].list] ELSE Own
      /\ UNCHANGED <<heap, arrays, painted, image, fresh>>
  BY EvaluateFacts
<1>2. thread'[t].pc \in {"down", "paint"} /\ UNCHANGED <<action, mishaps>>
  BY <1>1 DEF Reads
<1>3. AlertRight'
  BY <1>1, <1>2, AlertUpdate DEF FrameInv
<1>4. LateInv'
  BY <1>1, <1>2, LateUpdate DEF FrameInv
<1>5. ASSUME Apart', graph' # Nil
      PROVE  /\ CopyAgrees' /\ PaintRight' /\ ImageRight'
             /\ \A u \in Threads : ColorRight(u)' /\ MarkRight(u)'
  <2>1. ~dirty' /\ ~Pending(t)' => ~dirty /\ ~Pending(t) /\ (snoozed' <=> snoozed)
    BY <1>1 DEF Pending
  <2>2. /\ CopyAgrees' /\ PaintRight' /\ Mark' = Mark
        /\ Calm' => Calm /\ (snoozed' <=> snoozed)
        /\ \A u \in Threads \ {t} : ColorRight(u)' /\ MarkRight(u)'
        /\ thread'[t].ref # Nil /\ Sure(t)' => Sure(t)
    BY <1>1, <1>2, <1>5, <2>1, SteadyUpdate DEF FrameInv
  <2>3. Settled' => Settled
    BY <1>1, <1>2 DEF Settled, Updates, Alike
  <2>4. ImageRight'
    BY <1>1, <1>5, <2>2, <2>3, SteadyImage, OtherThread DEF FrameInv, ShadeInv, Updates
  <2>5. ColorRight(t)'
    <3>1. SUFFICES ASSUME thread'[t].pc = "paint", Sure(t)', ~dirty'
                   PROVE  thread'[t].color = Shade(thread[t].alert)'
      BY DEF ColorRight
    <3>2. Sure(t) /\ thread[t].ref # Nil
      BY <1>1, <2>2, <3>1 DEF Updates, Drawing
    <3>3. Registered /\ Editing /\ UNCHANGED edits
      BY <1>1, <1>5, OtherThread DEF EditsInv, Updates
    <3>4. arrays[heap[thread[t].ref].list] = edits.colors
      <4>1. CASE t = "ticker"
        BY <3>2, <3>3, <4>1 DEF Registered, Holds, Sure, Ticker
      <4>2. CASE t = "events"
        BY <1>1, <3>2, <3>3, <4>2 DEF Editing, Holds, Sure, Events, Drawing
      <4>3. QED
        BY <4>1, <4>2, ThreadSet
    <3>5. QED
      BY <1>1, <3>1, <3>3, <3>4 DEF Shade
  <2>6. MarkRight(t)'
    BY <1>2 DEF MarkRight
  <2>7. QED
    BY <2>2, <2>4, <2>5, <2>6
<1>6. QED
  BY <1>3, <1>4, <1>5 DEF FrameInv, ShadeInv

\* The new colours and the new mark, of an update that has not been overtaken.
LEMMA ShadePainted ==
  ASSUME Base, EditsInv, FrameInv, NEW t \in Threads, Paint(t), thread'[t].pc = "save",
         Apart', graph' # Nil
  PROVE  /\ CopyAgrees' /\ PaintRight' /\ ImageRight'
         /\ \A u \in Threads : ColorRight(u)' /\ MarkRight(u)'
<1>1. /\ Updates(t) /\ thread[t].pc = "paint" /\ ~thread'[t].forced
      /\ thread'[t].alert = thread[t].alert
      /\ Writes(t, mishaps \ {"unmarked"})
      /\ painted' = [painted EXCEPT ![thread[t].graph] = thread[t].color]
      /\ action' = thread[t].ref
      /\ heap'[thread[t].ref].current = thread[t].alert
      /\ UNCHANGED <<dirty, snoozed>>
  BY PaintFacts
<1>2. /\ Apart /\ UNCHANGED <<graph, edits>> /\ ~thread[t].overtaken
      /\ \A u \in Threads \ {t} :
           /\ Alike(thread'[u], thread[u])
           /\ thread[u].pc # "idle" => thread'[u].overtaken
  BY <1>1, OtherThread DEF Updates, Writes
<1>3. \A u \in Threads \ {t} : /\ thread'[u].pc = thread[u].pc
                               /\ Pending(u)' <=> Pending(u)
  BY <1>2 DEF Alike, Pending
<1>4. \A u \in Threads \ {t} : ColorRight(u)' /\ MarkRight(u)'
  BY <1>2, <1>3 DEF ColorRight, MarkRight, Sure
<1>5. Events'.pc = "register" <=> Events.pc = "register"
  BY <1>1, <1>3, ThreadSet DEF Events
<1>6. Events.pc = "register" => t = "ticker" /\ Events'.overtaken
  BY <1>1, <1>2, ThreadSet DEF Events
<1>7. Events.pc # "register" => Mark' = thread[t].alert /\ Sure(t)
  BY <1>1, <1>2, <1>5 DEF Mark, Cur, Sure
<1>8. MarkRight(t)'
  BY <1>1, <1>5, <1>6, <1>7, ThreadSet DEF MarkRight, Sure
<1>9. ColorRight(t)' /\ ImageRight'
  BY DEF ColorRight, ImageRight
<1>10. CopyAgrees'
  <2>1. CASE t = "events"
    BY <1>1, <2>1 DEF CopyAgrees, Updates, Events
  <2>2. CASE t = "ticker"
    BY <1>2, <1>3, <2>2, ThreadSet DEF CopyAgrees, Events, Drawing
  <2>3. QED
    BY <2>1, <2>2, ThreadSet
<1>11. PaintRight'
  <2>1. SUFFICES ASSUME Calm'
                 PROVE  painted'[graph] = Shade(Mark)'
    BY <1>2 DEF PaintRight
  <2>2. Events.pc # "register"
    BY <1>5, <1>6, <2>1 DEF Calm
  <2>3. ~dirty /\ \A u \in Threads \ {t} : ~Pending(u)
    BY <1>1, <1>3, <2>1 DEF Calm
  <2>4. thread[t].color = Shade(thread[t].alert)
    BY <1>1, <1>2, <1>7, <2>2, <2>3 DEF FrameInv, ShadeInv, ColorRight
  <2>5. thread[t].graph = graph /\ graph \in Graphs
    <3>1. thread[t].graph \in Graphs /\ thread[t].graph # Nil /\ thread[t].ref # Nil
      BY <1>1, InUse, AddressAssumption DEF Drawing, NoRef
    <3>2. CASE t = "events"
      BY <1>1, <3>1, <3>2 DEF Base, ShownInv, Events, Drawing
    <3>3. CASE t = "ticker"
      BY <1>2, <2>2, <3>1, <3>3 DEF EditsInv, Registered, Ticker
    <3>4. QED
      BY <3>1, <3>2, <3>3, ThreadSet
  <2>6. painted'[graph] = Shade(thread[t].alert)
    BY <1>1, <2>4, <2>5, BaseTypes
  <2>7. QED
    BY <1>1, <1>2, <1>7, <2>2, <2>6 DEF Shade
<1>12. QED
  BY <1>4, <1>8, <1>9, <1>10, <1>11

LEMMA FramePaint ==
  ASSUME Base, EditsInv, FrameInv, NEW t \in Threads, Paint(t)
  PROVE  FrameInv'
<1>1. /\ Updates(t) /\ thread[t].pc = "paint" /\ ~thread'[t].forced
      /\ thread'[t].alert = thread[t].alert /\ thread'[t].late = thread[t].late
      /\ \/ thread'[t].pc = "save"
         \/ /\ thread'[t].pc = "draw" /\ Reads(t) /\ SameCurrent /\ painted' = painted
            /\ ~thread[t].forced /\ thread[t].alert = heap[thread[t].ref].current
      /\ UNCHANGED <<image, dirty, fresh, snoozed>>
  BY PaintFacts
<1>2. AlertRight'
  BY <1>1, AlertUpdate DEF FrameInv
<1>3. LateInv'
  BY <1>1, LateUpdate DEF FrameInv
<1>4. ASSUME Apart', graph' # Nil, thread'[t].pc = "draw"
      PROVE  /\ CopyAgrees' /\ PaintRight' /\ ImageRight'
             /\ \A u \in Threads : ColorRight(u)' /\ MarkRight(u)'
  <2>1. ~Pending(t) /\ Reads(t) /\ SameCurrent /\ painted' = painted /\ action' = action
    BY <1>1, <1>4 DEF Pending, Reads
  <2>2. /\ CopyAgrees' /\ PaintRight' /\ Mark' = Mark
        /\ \A u \in Threads \ {t} : ColorRight(u)' /\ MarkRight(u)'
        /\ thread'[t].ref # Nil /\ Sure(t)' => Sure(t)
    BY <1>1, <1>4, <2>1, SteadyUpdate DEF FrameInv
  <2>3. ImageRight' /\ ColorRight(t)'
    BY <1>4 DEF ImageRight, ColorRight
  <2>4. MarkRight(t)'
    <3>1. SUFFICES ASSUME Sure(t)'
                   PROVE  Mark = thread[t].alert
      BY <1>1, <2>2 DEF MarkRight
    <3>2. Sure(t) /\ thread[t].ref # Nil /\ Apart /\ graph # Nil
      BY <1>1, <1>4, <2>2, <3>1, OtherThread DEF Updates, Drawing
    <3>3. CASE t = "ticker"
      BY <1>1, <1>4, <3>2, <3>3 DEF EditsInv, Registered, Sure, Mark, Cur, Ticker
    <3>4. CASE t = "events"
      BY <1>1, <1>4, <3>2, <3>4 DEF FrameInv, ShadeInv, CopyAgrees, Sure, Mark, Cur, Events, Drawing
    <3>5. QED
      BY <3>3, <3>4, ThreadSet
  <2>5. QED
    BY <2>2, <2>3, <2>4
<1>5. QED
  BY <1>1, <1>2, <1>3, <1>4, ShadePainted DEF FrameInv, ShadeInv

LEMMA FrameSave ==
  ASSUME Base, EditsInv, FrameInv, NEW t \in Threads, Save(t)
  PROVE  FrameInv'
<1>1. /\ Updates(t) /\ SameCurrent /\ Writes(t, mishaps)
      /\ thread[t].pc = "save" /\ thread'[t].pc = "draw"
      /\ thread'[t].alert = thread[t].alert /\ thread'[t].late = thread[t].late
      /\ UNCHANGED <<action, painted, image, dirty, fresh, snoozed>>
  BY SaveFacts
<1>2. AlertRight'
  BY <1>1, AlertUpdate DEF FrameInv
<1>3. LateInv'
  BY <1>1, LateUpdate DEF FrameInv
<1>4. ASSUME Apart', graph' # Nil
      PROVE  /\ CopyAgrees' /\ PaintRight' /\ ImageRight'
             /\ \A u \in Threads : ColorRight(u)' /\ MarkRight(u)'
  <2>1. ~Pending(t) /\ mishaps' = mishaps
    BY <1>1, <1>4 DEF Pending, Writes
  <2>2. /\ CopyAgrees' /\ PaintRight' /\ Mark' = Mark
        /\ \A u \in Threads \ {t} : ColorRight(u)' /\ MarkRight(u)'
        /\ thread'[t].ref # Nil /\ Sure(t)' => Sure(t)
    BY <1>1, <1>4, <2>1, SteadyUpdate DEF FrameInv
  <2>3. ImageRight' /\ ColorRight(t)'
    BY <1>1 DEF ImageRight, ColorRight
  <2>4. MarkRight(t)'
    <3>1. thread'[t].ref # Nil /\ Apart /\ graph # Nil
      BY <1>1, <1>4, OtherThread DEF Updates, Drawing
    <3>2. MarkRight(t)
      BY <3>1 DEF FrameInv, ShadeInv
    <3>3. QED
      BY <1>1, <2>2, <3>1, <3>2 DEF MarkRight
  <2>5. QED
    BY <2>2, <2>3, <2>4
<1>5. QED
  BY <1>2, <1>3, <1>4 DEF FrameInv, ShadeInv

LEMMA FrameDraw ==
  ASSUME Base, EditsInv, FrameInv, NEW t \in Threads, Draw(t)
  PROVE  FrameInv'
<1>1. /\ Updates(t) /\ SameCurrent /\ Writes(t, mishaps)
      /\ thread[t].pc = "draw" /\ thread'[t].pc = "settle" /\ thread'[t].late = thread[t].late
      /\ image' = [color |-> painted[thread[t].graph], alert |-> thread[t].alert]
      /\ UNCHANGED <<action, painted, dirty, fresh, snoozed>>
  BY DrawFacts
<1>2. AlertRight'
  BY <1>1, AlertUpdate DEF FrameInv
<1>3. ASSUME Apart'
      PROVE  ~Reads(t) \/ LateInv'
  <2>1. CASE \E u \in Threads \ {t} : thread[u].pc # "idle" /\ ~thread'[u].overtaken
    BY <1>1, <1>3, <2>1 DEF Writes
  <2>2. CASE \A u \in Threads \ {t} : thread[u].pc = "idle" \/ thread'[u].overtaken
    <3>1. \A u \in Threads \ {t} : LateCounts(u)'
      BY <1>1, <1>3, <2>2, OtherThread DEF LateCounts, FrameInv, LateInv, Alike
    <3>2. LateCounts(t)'
      BY <1>1 DEF LateCounts
    <3>3. QED
      BY <3>1, <3>2 DEF LateInv
  <2>3. QED
    BY <2>1, <2>2
<1>4. LateInv'
  <2>1. CASE ~Reads(t)
    BY <1>1, <2>1, LateUpdate DEF FrameInv
  <2>2. CASE Reads(t)
    BY <1>3, <2>2 DEF LateInv
  <2>3. QED
    BY <2>1, <2>2
<1>5. ASSUME Apart', graph' # Nil
      PROVE  /\ CopyAgrees' /\ PaintRight' /\ ImageRight'
             /\ \A u \in Threads : ColorRight(u)' /\ MarkRight(u)'
  <2>1. /\ ~Pending(t) /\ mishaps' = mishaps /\ ~thread[t].overtaken /\ Apart
        /\ UNCHANGED <<reading, graph, edits>>
    BY <1>1, <1>5, OtherThread DEF Pending, Writes, Updates
  <2>2. /\ CopyAgrees' /\ PaintRight' /\ Mark' = Mark
        /\ Calm' => Calm /\ (snoozed' <=> snoozed)
        /\ \A u \in Threads \ {t} : ColorRight(u)' /\ MarkRight(u)'
    BY <1>1, <1>5, <2>1, SteadyUpdate DEF FrameInv
  <2>3. ColorRight(t)' /\ MarkRight(t)'
    BY <1>1 DEF ColorRight, MarkRight
  <2>4. ImageRight'
    <3>1. SUFFICES ASSUME Calm', reading # "Unavailable", Settled'
                   PROVE  /\ Mark' <=> reading = "High"
                          /\ image' = [color |-> Shade(Mark)', alert |-> Mark']
      BY <2>1 DEF ImageRight
    <3>2. Calm
      BY <2>2, <3>1
    <3>3. Events.pc # "register" \/ t # "ticker"
      <4>1. ASSUME Events.pc = "register", t = "ticker"
            PROVE  Events'.pc = "register" /\ Events'.overtaken
        BY <1>1, <1>5, <4>1, ThreadSet DEF Updates, Alike, Writes, Events
      <4>2. QED
        BY <3>1, <4>1 DEF Calm
    <3>4. Sure(t)
      BY <2>1, <3>3 DEF Sure
    <3>5. Mark = thread[t].alert /\ painted[graph] = Shade(Mark)
      BY <1>1, <1>5, <2>1, <3>2, <3>4 DEF FrameInv, ShadeInv, MarkRight, PaintRight
    <3>6. thread[t].graph = graph
      <4>1. thread[t].graph # Nil /\ thread[t].ref # Nil
        BY <1>1, InUse, AddressAssumption DEF Drawing, NoRef
      <4>2. CASE t = "events"
        BY <1>1, <4>2 DEF Base, ShownInv, Events, Drawing
      <4>3. CASE t = "ticker"
        BY <1>5, <2>1, <3>3, <4>1, <4>3 DEF EditsInv, Registered, Ticker
      <4>4. QED
        BY <4>2, <4>3, ThreadSet
    <3>7. ~thread[t].late
      <4>1. SUFFICES ASSUME thread[t].late
                     PROVE  FALSE
        OBVIOUS
      <4>2. fresh /\ LateOthers(t)
        BY <1>1, <2>1, <4>1 DEF FrameInv, LateInv, LateCounts
      <4>3. \A u \in Threads \ {t} : Alike(thread'[u], thread[u])
        BY <1>1 DEF Updates
      <4>4. QED
        BY <1>1, <3>1, <4>1, <4>2, <4>3 DEF Settled, LateOthers, Alike
    <3>8. thread[t].alert <=> reading = "High"
      BY <1>1, <3>1, <3>7 DEF FrameInv, AlertRight
    <3>9. Shade(Mark)' = Shade(Mark)
      BY <1>1, <2>1, <2>2 DEF Shade
    <3>10. QED
      BY <1>1, <2>2, <3>5, <3>6, <3>8, <3>9
  <2>5. QED
    BY <2>2, <2>3, <2>4
<1>6. QED
  BY <1>2, <1>4, <1>5 DEF FrameInv, ShadeInv

LEMMA FrameSettle ==
  ASSUME Base, EditsInv, FrameInv, NEW t \in Threads, Settle(t)
  PROVE  FrameInv'
<1>1. /\ Updates(t) /\ SameCurrent /\ Reads(t)
      /\ thread[t].pc = "settle" /\ thread'[t] = Idle /\ fresh' = thread[t].late
      /\ UNCHANGED <<painted, image, dirty, snoozed>>
  BY SettleFacts
<1>2. thread'[t].pc = "idle" /\ ~thread'[t].late /\ action' = action
  BY <1>1, IdleFacts DEF Reads
<1>3. AlertRight'
  BY <1>1, <1>2, AlertUpdate DEF FrameInv
<1>4. LateInv'
  BY <1>1, <1>2, LateUpdate DEF FrameInv
<1>5. ASSUME Apart', graph' # Nil
      PROVE  /\ CopyAgrees' /\ PaintRight' /\ ImageRight'
             /\ \A u \in Threads : ColorRight(u)' /\ MarkRight(u)'
  <2>1. ~Pending(t) /\ ~Pending(t)'
    BY <1>1, <1>2 DEF Pending
  <2>2. /\ CopyAgrees' /\ PaintRight' /\ Mark' = Mark
        /\ Calm' => Calm /\ (snoozed' <=> snoozed)
        /\ \A u \in Threads \ {t} : ColorRight(u)' /\ MarkRight(u)'
    BY <1>1, <1>2, <1>5, <2>1, SteadyUpdate DEF FrameInv
  <2>3. Settled' => Settled
    BY <1>1, <1>2 DEF Settled, Updates, Alike
  <2>4. ImageRight'
    BY <1>1, <1>5, <2>2, <2>3, SteadyImage, OtherThread DEF FrameInv, ShadeInv, Updates
  <2>5. ColorRight(t)' /\ MarkRight(t)'
    BY <1>2 DEF ColorRight, MarkRight
  <2>6. QED
    BY <2>2, <2>4, <2>5
<1>6. QED
  BY <1>3, <1>4, <1>5 DEF FrameInv, ShadeInv

LEMMA FrameUpdate ==
  ASSUME Base, EditsInv, FrameInv, NEW t \in Threads, updateTiles(t)
  PROVE  FrameInv'
BY FrameNoGraph, FrameStart, FrameGate, FrameDown, FrameEvaluate, FramePaint, FrameSave,
   FrameDraw, FrameSettle DEF updateTiles
-----------------------------------------------------------------------------
(* Frames under handlers.                                                  *)

\* A handler evaluates nothing, and an update that it has not overtaken goes on as
\* it was.
LEMMA LateHandles ==
  ASSUME Base, AlertRight, LateInv, Handles, Apart' => Apart,
         Apart' /\ Ticker.pc # "idle" /\ ~Ticker'.overtaken => ~Ticker.overtaken
  PROVE  AlertRight' /\ LateInv'
<1>1. AlertRight'
  BY ThreadSet DEF AlertRight, Handles, Ticker, Events, Drawing
<1>2. ASSUME Apart'
      PROVE  LateCounts("ticker")' /\ LateCounts("events")'
  <2>1. LateCounts("ticker")
    BY <1>2, ThreadSet DEF LateInv
  <2>2. LateOthers("ticker")'
    BY ThreadSet DEF Handles, LateOthers, Events
  <2>3. LateCounts("ticker")'
    BY <1>2, <2>1, <2>2 DEF Handles, LateCounts, Ticker
  <2>4. LateCounts("events")'
    BY DEF Handles, LateCounts, Events, Drawing
  <2>5. QED
    BY <2>3, <2>4
<1>3. LateInv'
  BY <1>2, ThreadSet DEF LateInv
<1>4. QED
  BY <1>1, <1>3

\* A handler that leaves the tile unmarked has left its colours and its snooze alone.
LEMMA ShadeHandles ==
  ASSUME Base, ShadeInv, Handles, Apart', Apart, graph' # Nil, graph' = graph,
         Mark' = Mark, CopyAgrees',
         "unmarked" \notin mishaps' => "unmarked" \notin mishaps,
         \/ dirty'
         \/ UNCHANGED <<painted, snoozed, dirty>> /\ edits'.colors = edits.colors,
         Events.pc = "register" => ~Events.overtaken,
         \/ Ticker' = Ticker /\ Events.pc # "register"
         \/ Ticker.pc # "idle" => Ticker'.overtaken
  PROVE  ShadeInv'
<1>1. /\ PaintRight /\ ImageRight /\ ColorRight("ticker") /\ MarkRight("ticker")
  BY ThreadSet DEF ShadeInv
<1>2. /\ Pending("ticker")' <=> Pending("ticker")
      /\ ~Pending("events") /\ ~Pending("events")'
  BY DEF Handles, Pending, Ticker, Events, Updating, Drawing
<1>3. ~dirty' => /\ ~dirty /\ painted' = painted /\ snoozed' = snoozed
                 /\ edits'.colors = edits.colors
  OBVIOUS
<1>4. Calm' => Calm /\ ~dirty'
  BY <1>2, <1>3, ThreadSet DEF Calm
<1>5. ASSUME ~dirty', NEW on
      PROVE  (IF on /\ ~snoozed' THEN edits'.colors ELSE Own) = Shade(on)
  BY <1>3, <1>5 DEF Shade
<1>6. PaintRight'
  BY <1>1, <1>3, <1>4, <1>5 DEF PaintRight, Shade
<1>7. ImageRight'
  <2>1. SUFFICES ASSUME Calm', reading' # "Unavailable", Settled',
                        \A u \in Threads : thread'[u].pc \notin {"save", "draw"}
                 PROVE  /\ Mark' <=> reading' = "High"
                        /\ image' = [color |-> Shade(Mark)', alert |-> Mark']
    BY DEF ImageRight
  <2>2. Calm /\ Shade(Mark)' = Shade(Mark)
    BY <1>4, <1>5, <2>1 DEF Shade
  <2>3. Settled
    BY <2>1, ThreadSet DEF Settled, Handles, Ticker, Events
  <2>4. \A u \in Threads : thread[u].pc \notin {"save", "draw"}
    BY <2>1, ThreadSet DEF Handles, Ticker, Events, Updating, Drawing
  <2>5. UNCHANGED <<reading, image>>
    BY DEF Handles
  <2>6. QED
    BY <1>1, <2>1, <2>2, <2>3, <2>4, <2>5 DEF ImageRight
<1>8. thread'["events"].pc \notin Drawing
  BY DEF Handles, Events
<1>9. ColorRight("events")' /\ MarkRight("events")'
  BY <1>8 DEF ColorRight, MarkRight, Drawing
<1>10. thread["ticker"].pc # "idle" /\ Sure("ticker")' =>
         Sure("ticker") /\ thread'["ticker"] = thread["ticker"]
  BY DEF Sure, Ticker
<1>11. MarkRight("ticker")'
  BY <1>1, <1>10 DEF MarkRight, Handles, Ticker
<1>12. ColorRight("ticker")'
  <2>1. SUFFICES ASSUME Sure("ticker")', ~dirty', thread["ticker"].pc = "paint"
                 PROVE  thread'["ticker"].color = Shade(thread["ticker"].alert)'
    BY DEF ColorRight, Handles, Ticker
  <2>2. thread["ticker"].color = Shade(thread["ticker"].alert)
    BY <1>1, <1>2, <1>3, <1>10, <2>1, ThreadSet DEF ColorRight
  <2>3. QED
    BY <1>5, <1>10, <2>1, <2>2 DEF Shade
<1>13. QED
  BY <1>6, <1>7, <1>9, <1>11, <1>12, ThreadSet DEF ShadeInv

\* A handler that neither has settings to register nor registers any.
LEMMA MarkHandles ==
  ASSUME Base, EditsInv, Handles, Apart, graph # Nil, action' = action,
         Events.pc # "register", Events'.pc # "register"
  PROVE  Mark' = Mark /\ heap'[action'].current = heap[action].current
<1>1. action # Nil
  BY DEF EditsInv, Registered
<1>2. action \in Live /\ action \in Live'
  BY <1>1, LiveSet
<1>3. heap'[action] = heap[action]
  BY <1>2 DEF Handles
<1>4. QED
  BY <1>3 DEF Mark, Cur

LEMMA FrameSaveEdit ==
  ASSUME Base, EditsInv, FrameInv, SaveEdit
  PROVE  FrameInv'
<1>1. /\ Handles /\ Writes("events", mishaps \ {"unsaved"})
      /\ Events.pc = "saveEdit" /\ Events'.pc = "register" /\ Events'.ref = Events.ref
      /\ UNCHANGED <<heap, action, graph, painted, dirty, snoozed, edits>>
  BY SaveEditFacts
<1>2. Apart' => /\ Apart /\ ~Events.overtaken
                /\ mishaps' = mishaps \ {"unsaved"}
                /\ Ticker.pc # "idle" => Ticker'.overtaken
  BY <1>1, ThreadSet DEF Writes, Apart, Events, Ticker
<1>3. AlertRight' /\ LateInv'
  BY <1>1, <1>2, LateHandles DEF FrameInv
<1>4. ASSUME Apart', graph' # Nil
      PROVE  ShadeInv'
  <2>1. CopyAgrees
    BY <1>1, <1>2, <1>4 DEF FrameInv, ShadeInv
  <2>2. Mark' = Mark
    BY <1>1, <1>2, <1>4, <2>1 DEF CopyAgrees, Mark, Cur
  <2>3. CopyAgrees'
    BY <1>1 DEF CopyAgrees, Drawing
  <2>4. QED
    BY <1>1, <1>2, <1>4, <2>2, <2>3, ShadeHandles DEF FrameInv
<1>5. QED
  BY <1>3, <1>4 DEF FrameInv, ShadeInv

LEMMA FrameSaveEditFails ==
  ASSUME Base, EditsInv, FrameInv, SaveEditFails
  PROVE  FrameInv'
<1>1. /\ Handles /\ Ticker' = Ticker /\ Events'.pc = "idle" /\ Events.pc = "saveEdit"
      /\ Apart' => Apart /\ mishaps' = mishaps \cup {"unsaved"}
      /\ UNCHANGED <<action, graph, painted, dirty, snoozed, edits>>
  BY SaveEditFailsFacts, IdleFacts
<1>2. AlertRight' /\ LateInv'
  BY <1>1, LateHandles DEF FrameInv
<1>3. ASSUME Apart', graph' # Nil
      PROVE  ShadeInv'
  <2>1. Mark' = Mark /\ CopyAgrees'
    BY <1>1, <1>3, MarkHandles DEF CopyAgrees, Drawing
  <2>2. QED
    BY <1>1, <1>3, <2>1, ShadeHandles DEF FrameInv
<1>4. QED
  BY <1>2, <1>3 DEF FrameInv, ShadeInv

LEMMA FrameRegister ==
  ASSUME Base, EditsInv, FrameInv, Register
  PROVE  FrameInv'
<1>1. /\ Handles /\ Writes("events", mishaps)
      /\ Events.pc = "register" /\ Events'.pc \in {"idle", "refresh", "saveCurrent"}
      /\ action' = Events.ref /\ edits'.colors = edits.colors
      /\ UNCHANGED <<graph, painted, dirty, snoozed>>
  BY RegisterFacts
<1>2. Apart' => /\ Apart /\ ~Events.overtaken /\ mishaps' = mishaps
                /\ Ticker.pc # "idle" => Ticker'.overtaken
  BY <1>1, ThreadSet DEF Writes, Apart, Events, Ticker
<1>3. AlertRight' /\ LateInv'
  BY <1>1, <1>2, LateHandles DEF FrameInv
<1>4. ASSUME Apart', graph' # Nil
      PROVE  ShadeInv'
  <2>1. Events.ref \in Live /\ Events.ref \in Live'
    BY <1>1, LiveSet, ThreadSet DEF Base, RefInv, NoRef, Events
  <2>2. heap'[Events.ref] = heap[Events.ref]
    BY <1>1, <2>1 DEF Handles
  <2>3. Mark' = Mark
    BY <1>1, <2>2 DEF Mark, Cur
  <2>4. CopyAgrees'
    BY <1>1 DEF CopyAgrees, Drawing
  <2>5. QED
    BY <1>1, <1>2, <1>4, <2>3, <2>4, ShadeHandles DEF FrameInv
<1>5. QED
  BY <1>3, <1>4 DEF FrameInv, ShadeInv

LEMMA FrameSaveCurrent ==
  ASSUME Base, EditsInv, FrameInv, SaveCurrent
  PROVE  FrameInv'
<1>1. /\ Handles /\ Writes("events", mishaps)
      /\ Events.pc = "saveCurrent" /\ Events'.pc = "idle"
      /\ UNCHANGED <<action, graph, painted, dirty, snoozed, edits>>
  BY SaveCurrentFacts
<1>2. Apart' => /\ Apart /\ mishaps' = mishaps
                /\ Ticker.pc # "idle" => Ticker'.overtaken
  BY <1>1, ThreadSet DEF Writes, Apart, Ticker
<1>3. AlertRight' /\ LateInv'
  BY <1>1, <1>2, LateHandles DEF FrameInv
<1>4. ASSUME Apart', graph' # Nil
      PROVE  ShadeInv'
  <2>1. Mark' = Mark /\ CopyAgrees'
    BY <1>1, <1>2, <1>4, MarkHandles DEF CopyAgrees, Drawing
  <2>2. QED
    BY <1>1, <1>2, <1>4, <2>1, ShadeHandles DEF FrameInv
<1>5. QED
  BY <1>3, <1>4 DEF FrameInv, ShadeInv

\* A handler that begins with a copy of the registered settings.
LEMMA FrameCopy ==
  ASSUME Base, EditsInv, FrameInv, Handles, NEW pc \in {"saveEdit", "start"},
         NEW x \in SettingsType, NEW a, Copies(pc, x, a), Events.pc # "register",
         x.current = heap[action].current, UNCHANGED <<action, graph>>,
         \/ dirty'
         \/ UNCHANGED <<painted, snoozed, dirty>> /\ edits'.colors = edits.colors
  PROVE  FrameInv'
<1>1. /\ Ticker' = Ticker /\ mishaps' = mishaps /\ (Apart' <=> Apart)
      /\ Events'.pc = pc /\ heap'[Events'.ref] = x
  BY DEF Copies, Apart
<1>2. AlertRight' /\ LateInv'
  BY <1>1, LateHandles DEF FrameInv
<1>3. ASSUME Apart', graph' # Nil
      PROVE  ShadeInv'
  <2>1. Mark' = Mark /\ heap'[action'].current = heap[action].current
    BY <1>1, <1>3, MarkHandles
  <2>2. CopyAgrees'
    BY <1>1, <2>1 DEF CopyAgrees
  <2>3. QED
    BY <1>1, <1>3, <2>1, <2>2, ShadeHandles DEF FrameInv
<1>4. QED
  BY <1>2, <1>3 DEF FrameInv, ShadeInv

LEMMA FrameKeyDown ==
  ASSUME Base, EditsInv, FrameInv, OnKeyDown
  PROVE  FrameInv'
<1>1. /\ Handles /\ Ticker' = Ticker
      /\ Events.pc = "idle" /\ Events'.pc = "refresh" /\ dirty'
      /\ UNCHANGED <<action, graph, mishaps>>
  BY OnKeyDownFacts
<1>2. AlertRight' /\ LateInv'
  BY <1>1, LateHandles DEF FrameInv, Apart
<1>3. ASSUME Apart', graph' # Nil
      PROVE  ShadeInv'
  <2>1. Apart
    BY <1>1, <1>3 DEF Apart
  <2>2. Mark' = Mark /\ CopyAgrees'
    BY <1>1, <1>3, <2>1, MarkHandles DEF CopyAgrees, Drawing
  <2>3. QED
    BY <1>1, <1>3, <2>1, <2>2, ShadeHandles DEF FrameInv
<1>4. QED
  BY <1>2, <1>3 DEF FrameInv, ShadeInv

LEMMA FrameWillAppear ==
  ASSUME Base, FrameInv, OnWillAppear
  PROVE  FrameInv'
<1>1. PICK x \in SettingsType, a \in [Lists -> 0..MaxEdits] : Copies("register", x, a)
  BY OnWillAppearFacts
<1>2. Handles /\ dirty'
  BY OnWillAppearFacts
<1>3. Ticker' = Ticker /\ (Apart' <=> Apart) /\ Events'.pc = "register"
  BY <1>1 DEF Copies, Apart
<1>4. AlertRight' /\ LateInv'
  BY <1>2, <1>3, LateHandles DEF FrameInv
<1>5. CopyAgrees' /\ PaintRight' /\ ImageRight'
  BY <1>2, <1>3 DEF CopyAgrees, PaintRight, ImageRight, Calm, Drawing
<1>6. \A u \in Threads : ColorRight(u)' /\ MarkRight(u)'
  BY <1>2, <1>3, ThreadSet DEF ColorRight, MarkRight, Sure, Events
<1>7. QED
  BY <1>4, <1>5, <1>6 DEF FrameInv, ShadeInv

LEMMA FrameHidden ==
  ASSUME Base, FrameInv, OnWillDisappear \/ RemoveAction
  PROVE  FrameInv'
<1>1. /\ Handles /\ graph' = Nil /\ mishaps' = mishaps
      /\ Ticker'.overtaken = Ticker.overtaken
  BY OnWillDisappearFacts, RemoveActionFacts
<1>2. QED
  BY <1>1, LateHandles DEF FrameInv, ShadeInv, Apart

-----------------------------------------------------------------------------
(* Frames, from tick to tick.                                              *)

LEMMA FrameRun ==
  ASSUME Base, FrameInv, Run
  PROVE  FrameInv'
<1>1. /\ Ticker.pc = "idle" /\ Events' = Events /\ Ticker'.pc = "start"
      /\ ~Ticker'.late /\ ~Ticker'.forced
      /\ UNCHANGED <<reading, heap, action, graph, painted, image, dirty, fresh, snoozed, edits,
                     mishaps>>
  BY RunFacts
<1>2. /\ thread["ticker"].pc = "idle" /\ thread'["ticker"].pc = "start"
      /\ ~thread'["ticker"].late /\ thread'["events"] = thread["events"]
  BY <1>1 DEF Ticker, Events
<1>3. AlertRight'
  BY <1>1, <1>2, ThreadSet DEF FrameInv, AlertRight
<1>4. LateInv'
  BY <1>1, <1>2, ThreadSet DEF FrameInv, LateInv, LateCounts, LateOthers, Apart
<1>5. \A u \in Threads : Pending(u)' <=> Pending(u)
  BY <1>2, ThreadSet DEF Pending
<1>6. Mark' = Mark /\ (Calm' <=> Calm) /\ (Settled' <=> Settled) /\ (Apart' <=> Apart)
  BY <1>1, <1>2, <1>5, ThreadSet DEF Mark, Cur, Calm, Settled, Apart, Events
<1>7. ASSUME Apart', graph' # Nil
      PROVE  CopyAgrees' /\ PaintRight' /\ ImageRight'
  BY <1>1, <1>2, <1>6, <1>7, ThreadSet
     DEF FrameInv, ShadeInv, CopyAgrees, PaintRight, ImageRight, Shade, Events
<1>8. ASSUME Apart', graph' # Nil, NEW u \in Threads
      PROVE  ColorRight(u)' /\ MarkRight(u)'
  BY <1>1, <1>2, <1>5, <1>6, <1>8, ThreadSet
     DEF FrameInv, ShadeInv, ColorRight, MarkRight, Sure, Shade, Events
<1>9. QED
  BY <1>3, <1>4, <1>7, <1>8 DEF FrameInv, ShadeInv

\* A new value makes another look necessary: an update that is under way has begun
\* with an older one.
LEMMA FramePublish ==
  ASSUME Base, FrameInv, Publish
  PROVE  FrameInv'
<1>1. /\ fresh' = TRUE
      /\ \A u \in Threads :
           /\ thread'[u].pc = thread[u].pc /\ thread'[u].ref = thread[u].ref
           /\ thread'[u].forced = thread[u].forced
           /\ thread'[u].alert = thread[u].alert /\ thread'[u].color = thread[u].color
           /\ thread'[u].overtaken = thread[u].overtaken
           /\ thread'[u].late <=>
                thread[u].pc \in {"evaluate", "paint", "save", "draw", "settle"}
      /\ UNCHANGED <<heap, action, graph, painted, dirty, snoozed, edits, mishaps>>
  BY PublishFacts
<1>2. AlertRight'
  BY <1>1 DEF AlertRight
<1>3. LateInv'
  BY <1>1 DEF LateInv, LateCounts, LateOthers
<1>4. ImageRight'
  BY <1>1 DEF ImageRight, Settled
<1>5. \A u \in Threads : (Pending(u)' <=> Pending(u)) /\ (Sure(u)' <=> Sure(u))
  BY <1>1, ThreadSet DEF Pending, Sure, Events
<1>6. Mark' = Mark /\ (Calm' <=> Calm) /\ (Apart' <=> Apart)
  BY <1>1, <1>5, ThreadSet DEF Mark, Cur, Calm, Apart, Events
<1>7. ASSUME Apart', graph' # Nil
      PROVE  CopyAgrees' /\ PaintRight'
  BY <1>1, <1>6, <1>7, ThreadSet DEF FrameInv, ShadeInv, CopyAgrees, PaintRight, Shade, Events
<1>8. ASSUME Apart', graph' # Nil, NEW u \in Threads
      PROVE  ColorRight(u)' /\ MarkRight(u)'
  BY <1>1, <1>5, <1>6, <1>8 DEF FrameInv, ShadeInv, ColorRight, MarkRight, Shade
<1>9. QED
  BY <1>2, <1>3, <1>4, <1>7, <1>8 DEF FrameInv, ShadeInv

LEMMA FrameOutage ==
  ASSUME Base, FrameInv, Outage
  PROVE  FrameInv'
<1>1. /\ reading' = "Unavailable"
      /\ UNCHANGED <<heap, action, graph, painted, image, dirty, fresh, snoozed, thread, edits,
                     mishaps>>
  BY OutageFacts
<1>2. AlertRight' /\ ImageRight'
  BY <1>1 DEF AlertRight, ImageRight
<1>3. LateInv'
  BY <1>1 DEF FrameInv, LateInv, LateCounts, LateOthers, Apart
<1>4. Mark' = Mark /\ (Calm' <=> Calm) /\ (Apart' <=> Apart)
  BY <1>1 DEF Mark, Cur, Calm, Pending, Apart, Events
<1>5. ShadeInv'
  BY <1>1, <1>2, <1>4
     DEF FrameInv, ShadeInv, CopyAgrees, PaintRight, ColorRight, MarkRight, Pending, Sure, Shade,
         Events
<1>6. QED
  BY <1>2, <1>3, <1>5 DEF FrameInv

LEMMA NextFrame ==
  ASSUME Base, EditsInv, FrameInv, [Next]_vars
  PROVE  FrameInv'
<1>1. CASE Run
  BY <1>1, FrameRun
<1>2. ASSUME NEW t \in Threads, updateTiles(t)
      PROVE  FrameInv'
  BY <1>2, FrameUpdate
<1>3. CASE SaveEdit \/ SaveEditFails \/ Register \/ SaveCurrent
  BY <1>3, FrameSaveEdit, FrameSaveEditFails, FrameRegister, FrameSaveCurrent
<1>4. CASE refreshAction
  <2>1. heap[action] \in SettingsType
    BY <1>4, RefreshFacts, BaseTypes
  <2>2. QED
    BY <1>4, <2>1, RefreshFacts, FrameCopy
<1>5. CASE handleSetField \/ OnPropertyInspectorConnected
  <2>1. PICK x \in SettingsType :
          Copies("saveEdit", x, arrays) /\ x.current = heap[action].current
    BY <1>5, SetFieldFacts, ConnectedFacts
  <2>2. QED
    BY <1>5, <2>1, SetFieldFacts, ConnectedFacts, FrameCopy
<1>6. CASE handleThresholdUpdate
  <2>1. heap[action] \in SettingsType
    BY <1>6, ThresholdUpdateFacts, BaseTypes
  <2>2. QED
    BY <1>6, <2>1, ThresholdUpdateFacts, FrameCopy
<1>7. CASE OnKeyDown \/ OnWillAppear \/ OnWillDisappear \/ RemoveAction
  BY <1>7, FrameKeyDown, FrameWillAppear, FrameHidden
<1>8. CASE Publish \/ Outage
  BY <1>8, FramePublish, FrameOutage
<1>9. CASE UNCHANGED vars
  <2>1. /\ UNCHANGED <<reading, heap, action, graph, painted, image, dirty, fresh, snoozed, thread,
                       edits, mishaps>>
    BY <1>9 DEF vars, store, tile
  <2>2. AlertRight' /\ LateInv'
    BY <2>1 DEF FrameInv, AlertRight, LateInv, LateCounts, LateOthers, Apart
  <2>3. /\ Mark' = Mark /\ (Calm' <=> Calm) /\ (Apart' <=> Apart)
        /\ (Settled' <=> Settled)
    BY <2>1 DEF Mark, Cur, Calm, Pending, Apart, Settled, Events
  <2>4. ShadeInv'
    BY <2>1, <2>3
       DEF FrameInv, ShadeInv, CopyAgrees, PaintRight, ImageRight, ColorRight, MarkRight, Pending,
           Sure, Shade, Events
  <2>5. QED
    BY <2>2, <2>4 DEF FrameInv
<1>10. QED
  BY <1>1, <1>2, <1>3, <1>4, <1>5, <1>6, <1>7, <1>8, <1>9, ThreadSet DEF Next, Handler

\* A tile that is shown, with no thread at work on it and nothing left to look at, has
\* the colours of its alert as last edited, in its graph and on the key: with the
\* dirty mark, the poll time and the saved mark of the alert, two writers without a
\* common lock need nothing else to agree on a frame.
THEOREM FrameAlwaysSettles == Spec => []FrameSettles
<1>1. Init => EditsInv /\ FrameInv
  <2>1. ASSUME Init
        PROVE  \A t \in Threads : thread[t].pc = "idle" /\ ~thread[t].late
    BY <2>1 DEF Init, Idle
  <2>2. QED
    BY <2>1
       DEF Init, EditsInv, FrameInv, AlertRight, LateInv, LateCounts, ShadeInv
<1>2. Base /\ (EditsInv /\ FrameInv) /\ [Next]_vars => (EditsInv /\ FrameInv)'
  BY NextEdits, NextFrame
<1>3. ASSUME Base, EditsInv, FrameInv
      PROVE  FrameSettles
  <2> DEFINE on == reading = "High"
  <2>1. SUFFICES ASSUME Quiet, mishaps \cap {"overtaken", "unmarked"} = {},
                        reading # "Unavailable", ~dirty, ~fresh
                 PROVE  /\ heap[action].current = on /\ painted[graph] = Shade(on)
                        /\ image = [color |-> Shade(on), alert |-> on]
    BY Zenon DEF FrameSettles, Shade
  <2>2. /\ \A t \in Threads : thread[t].pc = "idle"
        /\ graph # Nil /\ Apart /\ "unmarked" \notin mishaps
    BY <2>1 DEF Quiet, At, Apart
  <2>3. Mark = heap[action].current
    BY <2>2, ThreadSet DEF Mark, Cur, Events
  <2>4. Calm /\ Settled
    BY <2>1, <2>2, ThreadSet DEF Calm, Pending, Settled, Events
  <2>5. /\ painted[graph] = Shade(Mark) /\ (Mark <=> on)
        /\ image = [color |-> Shade(Mark), alert |-> Mark]
    BY <1>3, <2>1, <2>2, <2>4 DEF FrameInv, ShadeInv, PaintRight, ImageRight
  <2>6. Mark \in BOOLEAN
    <3>1. action # Nil
      BY <1>3, <2>2, ThreadSet DEF EditsInv, Registered, Events
    <3>2. heap[action] \in SettingsType
      BY <1>3, <3>1, BaseTypes
    <3>3. QED
      BY <2>3, <3>2 DEF SettingsType
  <2>7. Mark = on
    BY <2>5, <2>6, Zenon
  <2>8. QED
    BY <2>3, <2>5, <2>7, Zenon
<1>4. QED
  BY <1>1, <1>2, <1>3, BaseHolds, PTL DEF Spec
=============================================================================
