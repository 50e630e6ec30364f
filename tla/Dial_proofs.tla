----------------------------- MODULE Dial_proofs -----------------------------
(***************************************************************************)
(* Proofs of the safety properties of module Dial, for any pages, whatever *)
(* the two goroutines do to the dial at once.                              *)
(***************************************************************************)
EXTENDS Dial, FiniteSetTheorems, SequenceTheorems, TLAPS

Ticker  == goroutine["ticker"]
Events  == goroutine["events"]
Threads == {"ticker", "events"}

Working == {"enter", "look", "finish", "send"}

-----------------------------------------------------------------------------
(* Pages and indices.                                                      *)

LEMMA PageCount == Cardinality(Pages) \in Nat \ {0}
<1>1. Cardinality(Pages) \in Nat /\ (Cardinality(Pages) = 0 <=> Pages = {})
  BY PagesAssumption, FS_CardinalityType, FS_EmptySet
<1>2. QED
  BY <1>1, PagesAssumption

\* No page comes twice, so that there are no more than there are pages.
LEMMA PagesFit ==
  ASSUME NEW s \in PageSeqs
  PROVE  /\ Len(s) \in Nat /\ Len(s) <= Cardinality(Pages)
         /\ DOMAIN s = 1..Len(s) /\ DOMAIN s \subseteq Indices
         /\ \A i \in DOMAIN s : s[i] \in Pages
         /\ \A i, j \in DOMAIN s : s[i] = s[j] => i = j
         /\ s = <<>> <=> Len(s) = 0
<1>1. /\ s \in Seq(Pages) /\ Len(s) \in Nat /\ DOMAIN s = 1..Len(s)
      /\ s \in [1..Len(s) -> Pages] /\ IsInjective(s)
  BY DEF PageSeqs
<1>2. /\ s \in Injection(1..Len(s), Pages)
      /\ \A i, j \in DOMAIN s : s[i] = s[j] => i = j
  BY <1>1 DEF Injection, IsInjective
<1>3. Cardinality(1..Len(s)) = Len(s)
  BY <1>1, FS_Interval
<1>4. Len(s) <= Cardinality(Pages)
  BY <1>2, <1>3, PagesAssumption, FS_Injection
<1>5. 1..Len(s) \subseteq Indices
  BY <1>1, <1>4, PageCount DEF Indices
<1>6. QED
  BY <1>1, <1>2, <1>4, <1>5

-----------------------------------------------------------------------------
(* The invariants.                                                         *)

\* Goroutine t in its work on o.
WorksOn(t, o) ==
  /\ t.pc \in Working => o # None /\ o.pages # <<>>
  /\ t.pc \in {"enter", "look"} => t.i \in DOMAIN o.pages
  /\ t.pc \in {"finish", "send"} => t.i = Len(o.pages) + 1
  /\ t.bring # 0 => t.pc \in {"enter", "look", "finish"} /\ t.bring \in DOMAIN o.pages

\* ... which is its own or d.
InPlace(t, d) ==
  /\ WorksOn(t, IF t.own = None THEN d ELSE t.own)
  /\ t.pc \notin Working => t.own = None

Placed(ths, d) ==
  /\ \A g \in Threads : InPlace(ths[g], d)
  /\ ths["ticker"].pc \notin {"begin", "save"} /\ ths["events"].own = None
  /\ ths["events"].pc = "save" =>
       d # None /\ ths["events"].copy \in {1} \cup DOMAIN d.pages

Base == TypeOK /\ Placed(goroutine, dial)

\* Goroutine t will save the dial.
Owes(t) == t.own = None /\ t.changed /\ t.pc \in {"enter", "look", "finish"}

SavedInv ==
  dial # None /\ ~overtaken =>
    \/ saved = SettingsOf(dial)
    \/ Events.pc = "save" \/ \E g \in Threads : Owes(goroutine[g])

\* evaluate of page p with the alarms al and the runtime state l.
StateIn(al, l, p) ==
  LET before == IF l.page = p THEN l.state ELSE "off"
  IN  IF p \notin Sticky \/ (before # "latched" /\ p \notin al) THEN "off"
      ELSE IF before = "off" THEN "latched" ELSE before

AlertIn(al, l, p) == IF p \in Sticky THEN StateIn(al, l, p) = "latched" ELSE p \in al

\* The alert of page i of d is the one that was shown last.
QuietAt(i, d, al, lt) == AlertIn(al, lt[i], d.pages[i]) <=> d.pages[i] \in d.current

ShowsAt(i, d, al, lt, sn) == AlertIn(al, lt[i], d.pages[i]) /\ sn[i] = "off"

\* The graph of page i has the colours of the alert shown last, unless an update of the
\* page will give it the right ones.
ColoredAt(i, d, pt, sn, dr, ls) ==
  i \notin ls =>
    \/ i \in dr \/ sn[i] = "expired"
    \/ pt[<<i, d.graphs[i]>>] <=> d.pages[i] \in d.current /\ sn[i] = "off"

ColorsInv ==
  dial # None => \A i \in DOMAIN dial.pages : ColoredAt(i, dial, painted, snooze, dirty, lost)

\* What a pass of the ticker leaves behind.
DoneAt(i, d, al, lt, pt, sn, dr, ls) ==
  /\ QuietAt(i, d, al, lt) /\ sn[i] # "expired"
  /\ i \in dr => i \notin ls
  /\ i \notin ls => (pt[<<i, d.graphs[i]>>] <=> ShowsAt(i, d, al, lt, sn))

Done(i) == DoneAt(i, dial, alarm, latch, painted, snooze, dirty, lost)

ImageShows(image, d, pt) ==
  image # None /\ image.cards = <<[page |-> d.pages[d.active],
                                   alert |-> pt[<<d.active, d.graphs[d.active]>>]]>>

PassInv ==
  settled # "no" =>
    /\ dial # None /\ Events.pc = "idle" /\ Ticker.own = None
    /\ settled = "pass" => Ticker.pc \in Working
    /\ Ticker.pc = "look" => (Ticker.shows <=> Ticker.i = dial.active)
    /\ up => \A i \in DOMAIN dial.pages : settled = "yes" \/ i < Ticker.i => Done(i)
    /\ up /\ Ticker.pc \in Working /\ Ticker.i > dial.active =>
         ImageShows(Ticker.image, dial, painted)

\* Pending, of page i of d.
PendingAt(i, d, al, lt, sn, dr) ==
  /\ d.pages[i] \in BringToFront
  /\ \/ AlertIn(al, lt[i], d.pages[i]) /\ d.pages[i] \notin d.current
     \/ i \in dr \/ sn[i] = "expired"

\* Page i of d is the one expected, e: it is the active one or its alert will make it so,
\* that of no other page will; brings is what the two goroutines bring to the front.
ExpectsAt(i, e, brings, d, al, lt, sn, dr) ==
  /\ i \in DOMAIN d.pages /\ d.pages[i] = e
  /\ \A j \in DOMAIN d.pages \ {i} : ~PendingAt(j, d, al, lt, sn, dr)
  /\ brings \subseteq {0, i}
  /\ \/ d.active = i \/ i \in brings
     \/ /\ d.pages[i] \in BringToFront \ d.current /\ sn[i] = "off"
        /\ AlertIn(al, lt[i], d.pages[i])

Expects(i) ==
  ExpectsAt(i, expected, {Ticker.bring, Events.bring}, dial, alarm, latch, snooze, dirty)

ExpectInv == expected # None => dial # None /\ Ticker.own = None /\ \E i \in Indices : Expects(i)

\* StripSettles: the pages that the strip is to show, and whether strip st shows them.
ShownIn(d) ==
  IF d.overview THEN dialOverviewIndices(d.active, Len(d.pages), OverviewCap) ELSE <<d.active>>

StripShows(d, st, al, lt, sn, ls) ==
  /\ Len(st.cards) = Len(ShownIn(d))
  /\ \A c \in DOMAIN ShownIn(d) :
       /\ st.cards[c].page = d.pages[ShownIn(d)[c]]
       /\ ShownIn(d)[c] \notin ls =>
            (st.cards[c].alert <=> ShowsAt(ShownIn(d)[c], d, al, lt, sn))

StripInv ==
  Settled /\ dial.pages # <<>> => StripShows(dial, strip, alarm, latch, snooze, lost)

IInv ==
  /\ Base /\ SavedInv /\ ColorsInv /\ PassInv /\ ExpectInv
  /\ StripInv /\ NavigationHolds /\ SavedAgrees

-----------------------------------------------------------------------------
(* Settings and dials.                                                     *)

LEMMA WrapIn ==
  ASSUME NEW current \in Int, NEW ticks \in Int, NEW count \in Nat
  PROVE  /\ count = 0 => wrapDialIndex(current, ticks, count) = 1
         /\ count > 0 => wrapDialIndex(current, ticks, count) \in 1..count
<1>1. ASSUME count > 0 PROVE (current - 1 + ticks) % count \in 0..(count - 1)
  BY <1>1
<1>2. QED
  BY <1>1 DEF wrapDialIndex

LEMMA SettingsFacts ==
  ASSUME NEW s \in SettingsType
  PROVE  /\ s.pages \in PageSeqs /\ s.active \in Indices /\ s.current \subseteq Pages
         /\ s = [pages |-> s.pages, active |-> s.active, current |-> s.current]
         /\ WellFormed(s)
BY DEF SettingsType

LEMMA SettingsMade ==
  ASSUME NEW pages \in PageSeqs, NEW active \in Indices, NEW current \in SUBSET ToSet(pages),
         pages # <<>> => active \in DOMAIN pages
  PROVE  [pages |-> pages, active |-> active, current |-> current] \in SettingsType
<1>1. ToSet(pages) \subseteq Pages
  BY PagesFit DEF ToSet
<1>2. QED
  BY <1>1 DEF SettingsType, WellFormed

LEMMA DialFacts ==
  ASSUME NEW o \in DialType
  PROVE  /\ o.pages \in PageSeqs /\ o.active \in Indices /\ o.current \subseteq Pages
         /\ o.graphs \in Seq({0, 1}) /\ o.overview \in BOOLEAN
         /\ DOMAIN o.graphs = DOMAIN o.pages
         /\ \A i \in DOMAIN o.pages : o.graphs[i] \in {0, 1} /\ <<i, o.graphs[i]>> \in Graphs
         /\ o = [pages |-> o.pages, active |-> o.active, current |-> o.current,
                 graphs |-> o.graphs, overview |-> o.overview]
         /\ o.pages # <<>> => o.active \in DOMAIN o.pages
         /\ o.current \subseteq ToSet(o.pages)
         /\ SettingsOf(o) \in SettingsType /\ o # None
<1>1. /\ o.pages \in PageSeqs /\ o.active \in Indices /\ o.current \subseteq Pages
      /\ o.graphs \in Seq({0, 1}) /\ o.overview \in BOOLEAN /\ Len(o.graphs) = Len(o.pages)
      /\ o = [pages |-> o.pages, active |-> o.active, current |-> o.current,
              graphs |-> o.graphs, overview |-> o.overview]
      /\ WellFormed(o)
  BY DEF DialType
<1>2. DOMAIN o.graphs = DOMAIN o.pages /\ DOMAIN o.pages \subseteq Indices
  BY <1>1, PagesFit
<1>3. \A i \in DOMAIN o.pages : o.graphs[i] \in {0, 1} /\ <<i, o.graphs[i]>> \in Graphs
  BY <1>1, <1>2 DEF Graphs
<1>4. (o.pages # <<>> => o.active \in DOMAIN o.pages) /\ o.current \subseteq ToSet(o.pages)
  BY <1>1 DEF WellFormed
<1>5. SettingsOf(o) \in SettingsType
  BY <1>1, <1>4, SettingsMade DEF SettingsOf
<1>6. o # None
  BY NoneAssumption
<1>7. QED
  BY <1>1, <1>2, <1>3, <1>4, <1>5, <1>6

LEMMA DialMade ==
  ASSUME NEW s \in SettingsType, NEW graphs \in [DOMAIN s.pages -> {0, 1}],
         NEW overview \in BOOLEAN
  PROVE  [pages |-> s.pages, active |-> s.active, current |-> s.current,
          graphs |-> graphs, overview |-> overview] \in DialType
<1>1. /\ s.pages \in PageSeqs /\ s.active \in Indices /\ s.current \subseteq Pages
      /\ WellFormed(s)
  BY SettingsFacts
<1>2. DOMAIN s.pages = 1..Len(s.pages) /\ Len(s.pages) \in Nat
  BY <1>1, PagesFit
<1>3. graphs \in Seq({0, 1}) /\ Len(graphs) = Len(s.pages)
  BY <1>2
<1>4. QED
  BY <1>1, <1>3 DEF DialType, WellFormed

\* What the ticker does to a dial.
LEMMA DialActive ==
  ASSUME NEW o \in DialType, NEW i \in Indices, o.pages # <<>> => i \in DOMAIN o.pages
  PROVE  [o EXCEPT !.active = i] \in DialType
<1>1. o.pages \in PageSeqs /\ o.current \subseteq ToSet(o.pages)
  BY DialFacts
<1>2. QED
  BY <1>1 DEF DialType, WellFormed

LEMMA DialCurrent ==
  ASSUME NEW o \in DialType, NEW c \in SUBSET ToSet(o.pages)
  PROVE  [o EXCEPT !.current = c] \in DialType
<1>1. o.pages \in PageSeqs /\ (o.pages # <<>> => o.active \in DOMAIN o.pages)
      /\ ToSet(o.pages) \subseteq Pages
  BY DialFacts, PagesFit DEF ToSet
<1>2. QED
  BY <1>1 DEF DialType, WellFormed

LEMMA Extremes ==
  ASSUME NEW a \in Int, NEW b \in Int
  PROVE  /\ Max({a, b}) \in {a, b} /\ Max({a, b}) >= a /\ Max({a, b}) >= b
         /\ Min({a, b}) \in {a, b} /\ Min({a, b}) <= a /\ Min({a, b}) <= b
<1>1. \E x \in {a, b} : \A y \in {a, b} : x >= y
  <2>1. CASE a >= b
    BY <2>1
  <2>2. CASE ~(a >= b)
    BY <2>2
  <2>3. QED
    BY <2>1, <2>2
<1>2. \E x \in {a, b} : \A y \in {a, b} : x =< y
  <2>1. CASE a <= b
    BY <2>1
  <2>2. CASE ~(a <= b)
    BY <2>2
  <2>3. QED
    BY <2>1, <2>2
<1>3. Max({a, b}) \in {a, b} /\ \A y \in {a, b} : Max({a, b}) >= y
  BY <1>1, Zenon DEF Max
<1>4. Min({a, b}) \in {a, b} /\ \A y \in {a, b} : Min({a, b}) =< y
  BY <1>2, Zenon DEF Min
<1>5. QED
  BY <1>3, <1>4

LEMMA PageAdded ==
  ASSUME NEW s \in PageSeqs, NEW p \in Pages \ ToSet(s)
  PROVE  /\ Append(s, p) \in PageSeqs /\ DOMAIN Append(s, p) = 1..(Len(s) + 1)
         /\ ToSet(s) \subseteq ToSet(Append(s, p))
<1>1. /\ s \in Seq(Pages) /\ Len(s) \in Nat /\ DOMAIN s = 1..Len(s)
      /\ \A i, j \in DOMAIN s : s[i] = s[j] => i = j
  BY PagesFit DEF PageSeqs
<1>2. /\ Append(s, p) \in Seq(Pages) /\ DOMAIN Append(s, p) = 1..(Len(s) + 1)
      /\ \A i \in 1..Len(s) : Append(s, p)[i] = s[i]
      /\ Append(s, p)[Len(s) + 1] = p
  BY <1>1
<1>3. \A i \in 1..Len(s) : s[i] # p
  BY <1>1 DEF ToSet
<1>4. IsInjective(Append(s, p))
  <2> SUFFICES ASSUME NEW i \in 1..(Len(s) + 1), NEW j \in 1..(Len(s) + 1),
                      Append(s, p)[i] = Append(s, p)[j]
               PROVE  i = j
    BY <1>2 DEF IsInjective
  <2>1. CASE i = Len(s) + 1
    BY <1>1, <1>2, <1>3, <2>1
  <2>2. CASE j = Len(s) + 1
    BY <1>1, <1>2, <1>3, <2>2
  <2>3. CASE i \in 1..Len(s) /\ j \in 1..Len(s)
    BY <1>1, <1>2, <2>3
  <2>4. QED
    BY <1>1, <2>1, <2>2, <2>3
<1>5. ToSet(s) \subseteq ToSet(Append(s, p))
  BY <1>1, <1>2 DEF ToSet
<1>6. QED
  BY <1>2, <1>4, <1>5 DEF PageSeqs

LEMMA PageRemoved ==
  ASSUME NEW s \in PageSeqs, NEW k \in 1..Len(s)
  PROVE  /\ RemoveAt(s, k) \in PageSeqs /\ DOMAIN RemoveAt(s, k) = 1..(Len(s) - 1)
         /\ ToSet(s) \ {s[k]} \subseteq ToSet(RemoveAt(s, k))
<1> DEFINE r == RemoveAt(s, k)
           at(i) == IF i < k THEN i ELSE i + 1
<1>1. /\ s \in Seq(Pages) /\ Len(s) \in Nat /\ DOMAIN s = 1..Len(s)
      /\ \A i, j \in DOMAIN s : s[i] = s[j] => i = j
  BY PagesFit DEF PageSeqs
<1>2. /\ r \in Seq(Pages) /\ Len(r) = Len(s) - 1 /\ DOMAIN r = 1..(Len(s) - 1)
      /\ \A i \in 1..(Len(s) - 1) : r[i] = s[at(i)]
  <2> DEFINE left  == SubSeq(s, 1, k - 1)
             right == SubSeq(s, k + 1, Len(s))
  <2>1. /\ left \in Seq(Pages) /\ Len(left) = k - 1
        /\ \A i \in 1..(k - 1) : left[i] = s[i]
    <3>1. 1 \in Int /\ k - 1 \in Int /\ \A i \in 1 .. k - 1 : s[i] \in Pages
      BY <1>1
    <3>2. /\ left \in Seq(Pages) /\ Len(left) = IF 1 <= k - 1 THEN (k - 1) - 1 + 1 ELSE 0
          /\ \A i \in 1 .. (k - 1) - 1 + 1 : left[i] = s[1 + i - 1]
      BY <3>1, SubSeqProperties
    <3>3. QED
      BY <1>1, <3>2
  <2>2. /\ right \in Seq(Pages) /\ Len(right) = Len(s) - k
        /\ \A i \in 1..(Len(s) - k) : right[i] = s[i + k]
    <3>1. k + 1 \in Int /\ Len(s) \in Int /\ \A i \in k + 1 .. Len(s) : s[i] \in Pages
      BY <1>1
    <3>2. /\ right \in Seq(Pages) /\ Len(right) = IF k + 1 <= Len(s) THEN Len(s) - (k + 1) + 1 ELSE 0
          /\ \A i \in 1 .. Len(s) - (k + 1) + 1 : right[i] = s[(k + 1) + i - 1]
      BY <3>1, SubSeqProperties
    <3>3. QED
      BY <1>1, <3>2
  <2> HIDE DEF left, right
  <2>3. r = left \o right
    BY DEF RemoveAt, left, right
  <2>4. /\ r \in Seq(Pages) /\ Len(r) = Len(s) - 1
        /\ \A i \in 1 .. Len(s) - 1 : r[i] = IF i <= k - 1 THEN left[i] ELSE right[i - (k - 1)]
    <3>1. /\ r \in Seq(Pages) /\ Len(r) = Len(left) + Len(right)
          /\ \A i \in 1 .. Len(left) + Len(right) :
               r[i] = IF i <= Len(left) THEN left[i] ELSE right[i - Len(left)]
      BY <2>1, <2>2, <2>3, ConcatProperties
    <3>2. QED
      BY <1>1, <2>1, <2>2, <3>1
  <2>5. ASSUME NEW i \in 1..(Len(s) - 1) PROVE r[i] = s[at(i)]
    <3>1. CASE i < k
      BY <1>1, <2>1, <2>4, <3>1
    <3>2. CASE ~(i < k)
      <4>1. r[i] = right[i - (k - 1)] /\ i - (k - 1) \in 1..(Len(s) - k)
        BY <1>1, <2>4, <3>2
      <4>2. right[i - (k - 1)] = s[i - (k - 1) + k]
        BY <2>2, <4>1
      <4>3. i - (k - 1) + k = i + 1 /\ at(i) = i + 1
        BY <1>1, <3>2
      <4>4. QED
        BY <4>1, <4>2, <4>3
    <3>3. QED
      BY <3>1, <3>2
  <2> HIDE DEF r, at
  <2>6. Len(r) = Len(s) - 1 /\ r \in Seq(Pages)
    BY <2>4
  <2>7. DOMAIN r = 1..(Len(s) - 1)
    BY <2>6
  <2>8. QED
    BY <2>5, <2>6, <2>7
<1> HIDE DEF r
<1>3. IsInjective(r)
  <2> SUFFICES ASSUME NEW i \in 1..(Len(s) - 1), NEW j \in 1..(Len(s) - 1), r[i] = r[j]
               PROVE  i = j
    BY <1>2 DEF IsInjective
  <2>1. at(i) \in 1..Len(s) /\ at(j) \in 1..Len(s)
    BY <1>1
  <2>2. at(i) = at(j)
    BY <1>1, <1>2, <2>1
  <2>3. QED
    BY <2>2
<1>4. ASSUME NEW i \in 1..Len(s), i # k PROVE s[i] \in ToSet(r)
  <2> DEFINE j == IF i < k THEN i ELSE i - 1
  <2>1. j \in 1..(Len(s) - 1) /\ at(j) = i
    BY <1>1, <1>4
  <2>2. QED
    BY <1>2, <2>1 DEF ToSet
<1>5. ToSet(s) \ {s[k]} \subseteq ToSet(r)
  BY <1>1, <1>4 DEF ToSet
<1>6. QED
  BY <1>2, <1>3, <1>5 DEF PageSeqs, r

LEMMA PagesSwapped ==
  ASSUME NEW s \in PageSeqs, NEW k \in 1..(Len(s) - 1)
  PROVE  LET r == [s EXCEPT ![k] = s[k + 1], ![k + 1] = s[k]]
         IN  r \in PageSeqs /\ DOMAIN r = DOMAIN s /\ ToSet(s) \subseteq ToSet(r)
<1> DEFINE r == [s EXCEPT ![k] = s[k + 1], ![k + 1] = s[k]]
           at(i) == IF i = k THEN k + 1 ELSE IF i = k + 1 THEN k ELSE i
<1>1. /\ s \in Seq(Pages) /\ Len(s) \in Nat /\ DOMAIN s = 1..Len(s)
      /\ \A i, j \in DOMAIN s : s[i] = s[j] => i = j
  BY PagesFit DEF PageSeqs
<1>2. \A i \in 1..Len(s) : at(i) \in 1..Len(s) /\ at(at(i)) = i
  BY <1>1
<1>3. DOMAIN r = DOMAIN s /\ \A i \in 1..Len(s) : r[i] = s[at(i)]
  BY <1>1
<1>4. r \in Seq(Pages)
  BY <1>1
<1> HIDE DEF r
<1>5. IsInjective(r)
  <2> SUFFICES ASSUME NEW i \in 1..Len(s), NEW j \in 1..Len(s), r[i] = r[j] PROVE i = j
    BY <1>1, <1>3 DEF IsInjective
  <2>1. at(i) = at(j)
    BY <1>1, <1>2, <1>3
  <2>2. QED
    BY <1>2, <2>1
<1>6. ASSUME NEW i \in 1..Len(s) PROVE s[i] \in ToSet(r)
  <2>1. r[at(i)] = s[i] /\ at(i) \in DOMAIN r
    BY <1>1, <1>2, <1>3
  <2>2. QED
    BY <2>1 DEF ToSet
<1>7. ToSet(s) \subseteq ToSet(r)
  BY <1>1, <1>6 DEF ToSet
<1>8. QED
  BY <1>3, <1>4, <1>5, <1>7 DEF PageSeqs, r

\* The Property Inspector's edits leave settings with an active page.
LEMMA EditedTypes ==
  ASSUME NEW c \in SettingsType, NEW s \in Edited(c)
  PROVE  s \in SettingsType
<1> DEFINE n == Len(c.pages)
           swap(i) == [c.pages EXCEPT ![i] = c.pages[i + 1], ![i + 1] = c.pages[i]]
<1>1. /\ c.pages \in PageSeqs /\ c.current \subseteq ToSet(c.pages) /\ c.active \in Indices
      /\ n \in Nat /\ DOMAIN c.pages = 1..n /\ 1..n \subseteq Indices
      /\ c = [pages |-> c.pages, active |-> c.active, current |-> c.current]
  BY SettingsFacts, PagesFit DEF WellFormed
<1>2. ASSUME NEW i \in 1..n, s = [c EXCEPT !.active = i]
      PROVE  s \in SettingsType
  <2>1. s = [pages |-> c.pages, active |-> i, current |-> c.current]
    BY <1>1, <1>2
  <2>2. QED
    BY <1>1, <2>1, SettingsMade
<1>3. ASSUME NEW p \in Pages \ ToSet(c.pages),
             s = [c EXCEPT !.pages = Append(@, p), !.active = n + 1]
      PROVE  s \in SettingsType
  <2>1. s = [pages |-> Append(c.pages, p), active |-> n + 1, current |-> c.current]
    BY <1>1, <1>3
  <2>2. Append(c.pages, p) \in PageSeqs /\ n + 1 \in DOMAIN Append(c.pages, p)
        /\ c.current \in SUBSET ToSet(Append(c.pages, p))
    BY <1>1, PageAdded
  <2>3. n + 1 \in Indices
    BY <2>2, PagesFit
  <2>4. QED
    BY <2>1, <2>2, <2>3, SettingsMade
<1>4. ASSUME NEW i \in 1..n,
             s = [pages |-> RemoveAt(c.pages, i), current |-> c.current \ {c.pages[i]},
                  active |-> Max({1, Min({c.active, n - 1})})]
      PROVE  s \in SettingsType
  <2> DEFINE r == RemoveAt(c.pages, i)
             a == Max({1, Min({c.active, n - 1})})
  <2>1. r \in PageSeqs /\ DOMAIN r = 1..(n - 1) /\ c.current \ {c.pages[i]} \in SUBSET ToSet(r)
    BY <1>1, PageRemoved
  <2>2. r # <<>> => n - 1 > 0
    BY <2>1, <1>1, PagesFit
  <2>3. Min({c.active, n - 1}) \in Int /\ Min({c.active, n - 1}) <= n - 1
    BY <1>1, Extremes DEF Indices
  <2>4. a \in Nat /\ a >= 1 /\ (a <= n - 1 \/ a = 1)
    <3> DEFINE m == Min({c.active, n - 1})
    <3> HIDE DEF m
    <3>1. m \in Int /\ m <= n - 1
      BY <2>3 DEF m
    <3>2. a = Max({1, m})
      BY DEF m
    <3> HIDE DEF a
    <3>3. /\ Max({1, m}) \in {1, m} /\ Max({1, m}) >= 1 /\ Max({1, m}) >= m
          /\ Min({1, m}) \in {1, m} /\ Min({1, m}) <= 1 /\ Min({1, m}) <= m
      <4>1. 1 \in Int
        OBVIOUS
      <4>2. QED
        BY <3>1, <4>1, Extremes
    <3>4. QED
      BY <3>1, <3>2, <3>3, <1>1
  <2>5. a \in Indices /\ (r # <<>> => a \in DOMAIN r)
    <3>1. n - 1 <= Cardinality(Pages) /\ Cardinality(Pages) \in Nat \ {0}
      BY <1>1, PagesFit, PageCount
    <3> HIDE DEF a, r
    <3>2. QED
      BY <1>1, <2>1, <2>2, <2>4, <3>1 DEF Indices
  <2>6. s = [pages |-> r, active |-> a, current |-> c.current \ {c.pages[i]}]
    BY <1>4
  <2>7. QED
    BY <2>1, <2>5, <2>6, SettingsMade
<1>5. ASSUME NEW i \in 1..(n - 1), NEW j \in {i, i + 1},
             s = [c EXCEPT !.pages = swap(i), !.active = j]
      PROVE  s \in SettingsType
  <2>1. s = [pages |-> swap(i), active |-> j, current |-> c.current]
    BY <1>1, <1>5
  <2>2. swap(i) \in PageSeqs /\ DOMAIN swap(i) = 1..n /\ c.current \in SUBSET ToSet(swap(i))
    BY <1>1, PagesSwapped
  <2>3. j \in 1..n /\ j \in Indices
    BY <1>1
  <2> HIDE DEF swap
  <2>4. QED
    BY <2>1, <2>2, <2>3, SettingsMade
<1>6. QED
  BY <1>2, <1>3, <1>4, <1>5 DEF Edited

-----------------------------------------------------------------------------
(* The steps of updateDialFeedback.                                        *)

LEMMA ThreadTypes ==
  ASSUME TypeOK, NEW g \in Threads
  PROVE  /\ goroutine \in [Threads -> GoroutineType] /\ goroutine[g] \in GoroutineType
         /\ goroutine[g].own \in DialType \cup {None}
         /\ goroutine[g].pc \in {"idle", "begin", "enter", "look", "finish", "send", "save"}
BY DEF TypeOK, Threads, GoroutineType

LEMMA ObjType ==
  ASSUME Base, NEW g \in Threads
  PROVE  /\ Obj(g) \in DialType \cup {None}
         /\ WorksOn(goroutine[g], Obj(g))
         /\ goroutine[g].pc \in Working => Obj(g) \in DialType
<1>1. goroutine[g].own \in DialType \cup {None} /\ dial \in DialType \cup {None}
  BY ThreadTypes DEF Base, TypeOK
<1>2. WorksOn(goroutine[g], Obj(g))
  BY DEF Base, Placed, InPlace, Obj
<1>3. QED
  BY <1>1, <1>2 DEF Obj, WorksOn

\* Goroutine g goes on, at its place, with a dial that has the same pages.
LEMMA GoesPlaced ==
  ASSUME Base, NEW g \in Threads, NEW t \in GoroutineType, NEW o \in DialType,
         Goes(g, t, o), Obj(g) # None, o.pages = Obj(g).pages,
         t.pc \in Working \cup {"idle"}, WorksOn(t, o)
  PROVE  /\ dial' \in DialType \cup {None} /\ goroutine' \in [Threads -> GoroutineType]
         /\ Placed(goroutine', dial')
         /\ \A u \in Threads \ {g} : goroutine'[u] = goroutine[u]
         /\ \E w \in DialType \cup {None} : goroutine'[g] = [t EXCEPT !.own = w]
         /\ dial' = IF goroutine[g].own = None THEN o ELSE dial
         /\ goroutine'[g].own = IF goroutine[g].own # None /\ t.pc # "idle" THEN o ELSE None
<1> DEFINE own == IF goroutine[g].own # None /\ t.pc # "idle" THEN o ELSE None
<1>1. /\ goroutine' = [goroutine EXCEPT ![g] = [t EXCEPT !.own = own]]
      /\ dial' = IF goroutine[g].own = None THEN o ELSE dial
  BY DEF Goes
<1>2. /\ goroutine \in [Threads -> GoroutineType] /\ dial \in DialType \cup {None}
      /\ goroutine[g] \in GoroutineType
  BY ThreadTypes DEF Base, TypeOK
<1>3. /\ own \in DialType \cup {None} /\ [t EXCEPT !.own = own] \in GoroutineType
      /\ [t EXCEPT !.own = own].own = own
  BY DEF GoroutineType
<1>4. /\ goroutine'[g] = [t EXCEPT !.own = own]
      /\ \A u \in Threads \ {g} : goroutine'[u] = goroutine[u]
      /\ goroutine' \in [Threads -> GoroutineType] /\ dial' \in DialType \cup {None}
  BY <1>1, <1>2, <1>3
<1>5. /\ goroutine'[g].pc = t.pc /\ goroutine'[g].own = own
      /\ WorksOn(goroutine'[g], o)
  BY <1>3, <1>4 DEF WorksOn, GoroutineType
<1>6. o # None
  BY DialFacts
<1>7. InPlace(goroutine'[g], dial')
  <2>1. CASE t.pc = "idle"
    <3>1. WorksOn(goroutine'[g], dial')
      BY <1>5, <2>1 DEF WorksOn, Working
    <3>2. QED
      BY <1>5, <2>1, <3>1 DEF InPlace, Working
  <2>2. CASE t.pc # "idle" /\ goroutine[g].own = None
    BY <1>1, <1>5, <2>2 DEF InPlace, Working
  <2>3. CASE t.pc # "idle" /\ goroutine[g].own # None
    BY <1>1, <1>5, <1>6, <2>3 DEF InPlace, Working
  <2>4. QED
    BY <2>1, <2>2, <2>3
<1>8. dial # None => dial'.pages = dial.pages /\ dial' # None
  BY <1>1, <1>6 DEF Obj
<1>9. \A u \in Threads \ {g} : InPlace(goroutine'[u], dial')
  <2> TAKE u \in Threads \ {g}
  <2>1. goroutine'[u] = goroutine[u] /\ InPlace(goroutine[u], dial)
    BY <1>4 DEF Base, Placed
  <2>2. CASE goroutine[u].own # None
    BY <2>1, <2>2 DEF InPlace
  <2>3. CASE goroutine[u].own = None
    <3>1. WorksOn(goroutine[u], dial) /\ (dial = None => ~(goroutine[u].pc \in Working))
      BY <2>1, <2>3 DEF InPlace, WorksOn
    <3>2. WorksOn(goroutine[u], dial')
      BY <1>8, <3>1 DEF WorksOn, Working
    <3>3. QED
      BY <2>1, <2>3, <3>2 DEF InPlace
  <2>4. QED
    BY <2>2, <2>3
<1>10. /\ goroutine'["ticker"].pc \notin {"begin", "save"}
       /\ goroutine'["events"].own = None
       /\ goroutine'["events"].pc = "save" =>
            dial' # None /\ goroutine'["events"].copy \in {1} \cup DOMAIN dial'.pages
  BY <1>4, <1>5, <1>8 DEF Base, Placed, Threads, Working
<1>11. QED
  BY <1>1, <1>4, <1>5, <1>7, <1>9, <1>10, <1>3 DEF Placed

LEMMA Evaluated ==
  ASSUME NEW p, NEW i
  PROVE  /\ evaluate(p, i).state = [page |-> p, state |-> StateIn(alarm, latch[i], p)]
         /\ evaluate(p, i).alert <=> AlertIn(alarm, latch[i], p)
BY DEF evaluate, StateIn, AlertIn

\* Evaluating again changes nothing.
LEMMA EvaluateTwice ==
  ASSUME NEW al, NEW l, NEW p
  PROVE  AlertIn(al, [page |-> p, state |-> StateIn(al, l, p)], p) <=> AlertIn(al, l, p)
BY DEF AlertIn, StateIn

AlertAt(i, o) == AlertIn(alarm, latch[i], o.pages[i])
LatchAt(i, o) == [page |-> o.pages[i], state |-> StateIn(alarm, latch[i], o.pages[i])]

RepaintAt(i, o) ==
  \/ snooze[i] = "expired" \/ i \in dirty
  \/ ~(AlertAt(i, o) <=> o.pages[i] \in o.current)

\* What updateDialPage makes of o, and of goroutine t.
LookedAt(i, o) ==
  [o EXCEPT !.current = IF AlertAt(i, o) THEN o.current \cup {o.pages[i]}
                        ELSE o.current \ {o.pages[i]}]

LookedOn(t, i, o, s, render) ==
  /\ s.pc = NextPage(o, i) /\ s.i = i + 1
  /\ s.image = IF i # o.active THEN t.image ELSE IF t.shows THEN render ELSE None
  /\ s.changed <=> t.changed \/ RepaintAt(i, o)
  /\ s.bring = IF t.bring = 0 /\ RepaintAt(i, o) /\ AlertAt(i, o) /\ snooze[i] # "on"
                    /\ o.pages[i] \in BringToFront
               THEN i ELSE t.bring

\* Its effects on what is kept by index, and on the graph.
LooksAt(g, i, o) ==
  /\ up /\ o \in DialType /\ i \in DOMAIN o.pages /\ i \in Indices
  /\ o.pages[i] \in Pages /\ goroutine[g].pc = "look"
  /\ <<i, o.graphs[i]>> \in Graphs
  /\ latch' = [latch EXCEPT ![i] = LatchAt(i, o)]
  /\ snooze' = IF snooze[i] = "expired" THEN [snooze EXCEPT ![i] = "off"] ELSE snooze
  /\ dirty' = IF snooze[i] = "expired" THEN dirty \cup {i} ELSE dirty \ {i}
  /\ painted' = IF RepaintAt(i, o)
                THEN [painted EXCEPT ![<<i, o.graphs[i]>>] = AlertAt(i, o) /\ snooze[i] # "on"]
                ELSE painted
  /\ lost' = IF ~RepaintAt(i, o) THEN lost
             ELSE IF goroutine[g].own = None THEN lost \ {i} ELSE lost \cup {i}

LEMMA CollectedFacts ==
  ASSUME NEW t \in GoroutineType, NEW o \in DialType, NEW render \in ImageType,
         t.pc = "look", WorksOn(t, o)
  PROVE  /\ Collected(t, o, render) \in GoroutineType
         /\ Collected(t, o, render).pc = NextPage(o, t.i)
         /\ Collected(t, o, render).i = t.i + 1
         /\ Collected(t, o, render).bring = t.bring
         /\ Collected(t, o, render).changed = t.changed
         /\ Collected(t, o, render).copy = t.copy
         /\ Collected(t, o, render).image =
              IF t.i # o.active THEN t.image ELSE IF t.shows THEN render ELSE None
         /\ NextPage(o, t.i) \in {"enter", "finish"}
         /\ WorksOn(Collected(t, o, render), o)
<1>1. /\ t.i \in 1..Len(o.pages) /\ Len(o.pages) \in Nat /\ Len(o.pages) <= Cardinality(Pages)
      /\ DOMAIN o.pages = 1..Len(o.pages) /\ Cardinality(Pages) \in Nat \ {0}
      /\ o # None /\ o.pages # <<>>
      /\ t.bring # 0 => t.bring \in DOMAIN o.pages
  BY DialFacts, PagesFit, PageCount DEF WorksOn, Working
<1>2. /\ NextPage(o, t.i) \in {"enter", "finish"}
      /\ NextPage(o, t.i) = "enter" => t.i + 1 \in 1..Len(o.pages)
      /\ NextPage(o, t.i) = "finish" => t.i + 1 = Len(o.pages) + 1
  BY <1>1 DEF NextPage
<1>3. t.i + 1 \in 1..(Cardinality(Pages) + 1)
  BY <1>1
<1> DEFINE image == IF t.i # o.active THEN t.image ELSE IF t.shows THEN render ELSE None
           s == Collected(t, o, render)
<1>4. image \in ImageType \cup {None}
  BY DEF GoroutineType
<1>5. s = [t EXCEPT !.pc = NextPage(o, t.i), !.i = t.i + 1, !.shows = FALSE, !.image = image]
  BY DEF Collected
<1> HIDE DEF image, s
<1>6. /\ s \in GoroutineType /\ s.pc = NextPage(o, t.i) /\ s.i = t.i + 1
      /\ s.bring = t.bring /\ s.changed = t.changed /\ s.copy = t.copy /\ s.image = image
  BY <1>2, <1>3, <1>4, <1>5 DEF GoroutineType
<1>7. WorksOn(s, o)
  BY <1>1, <1>2, <1>6 DEF WorksOn, Working
<1>8. QED
  BY <1>2, <1>6, <1>7 DEF s, image

LEMMA LookFacts ==
  ASSUME Base, NEW g \in Threads, Look(g), NEW i, i = goroutine[g].i, NEW o, o = Obj(g)
  PROVE  /\ LooksAt(g, i, o) /\ LookedAt(i, o) \in DialType
         /\ \E s \in GoroutineType, render \in ImageType :
              /\ Goes(g, s, LookedAt(i, o)) /\ WorksOn(s, LookedAt(i, o))
              /\ s.pc \in {"enter", "finish"}
              /\ render.cards = <<[page |-> o.pages[i], alert |-> painted'[<<i, o.graphs[i]>>]]>>
              /\ LookedOn(goroutine[g], i, o, s, render)
<1> DEFINE t == goroutine[g]
           p == o.pages[i]
           graph == <<i, o.graphs[i]>>
           over    == snooze[i] = "expired"
           snoozed == snooze[i] = "on"
           now == evaluate(p, i)
           repaint == Repaints(over \/ i \in dirty, now.alert, p \in o.current)
           after   == [o EXCEPT !.current = IF now.alert THEN @ \cup {p} ELSE @ \ {p}]
           colours == IF repaint THEN [painted EXCEPT ![graph] = now.alert /\ ~snoozed] ELSE painted
           render  == Image(<<[page |-> p, alert |-> colours[graph]]>>, "page")
           s == [Collected(t, after, render)
                  EXCEPT !.bring = Brings(t, i, repaint /\ now.alert /\ ~snoozed, p),
                         !.changed = t.changed \/ repaint]
<1>1. /\ up /\ t.pc = "look" /\ o \in DialType /\ t \in GoroutineType
      /\ WorksOn(t, o) /\ i \in DOMAIN o.pages
  <2>1. t.pc = "look" /\ up
    BY DEF Look
  <2>2. QED
    BY <2>1, ObjType, ThreadTypes DEF Base, WorksOn, Working
<1>2. /\ i \in Indices /\ p \in Pages /\ graph \in Graphs /\ p \in ToSet(o.pages)
      /\ o.current \subseteq ToSet(o.pages)
  BY <1>1, DialFacts, PagesFit DEF ToSet
<1>3. /\ now.state = LatchAt(i, o)
      /\ now.alert <=> AlertAt(i, o)
  BY Evaluated DEF AlertAt, LatchAt
<1>4. repaint <=> RepaintAt(i, o)
  BY <1>3 DEF Repaints, RepaintAt
<1>5. /\ latch' = [latch EXCEPT ![i] = now.state]
      /\ snooze' = IF over THEN [snooze EXCEPT ![i] = "off"] ELSE snooze
      /\ dirty' = IF over THEN dirty \cup {i} ELSE dirty \ {i}
      /\ painted' = colours
      /\ Goes(g, s, after)
      /\ lost' = IF ~repaint THEN lost ELSE IF t.own = None THEN lost \ {i} ELSE lost \cup {i}
  BY DEF Look
<1>6. after = LookedAt(i, o)
  BY <1>3 DEF LookedAt
<1>7. colours = IF RepaintAt(i, o)
                THEN [painted EXCEPT ![graph] = AlertAt(i, o) /\ snooze[i] # "on"] ELSE painted
  BY <1>3, <1>4
<1>8. /\ after \in DialType /\ after.pages = o.pages /\ after.active = o.active
  <2>1. (IF now.alert THEN o.current \cup {p} ELSE o.current \ {p}) \in SUBSET ToSet(o.pages)
    BY <1>2
  <2>2. after \in DialType
    BY <1>1, <2>1, DialCurrent
  <2>3. QED
    BY <1>1, <2>2 DEF DialType
<1>9. WorksOn(t, after)
  BY <1>1, <1>8, DialFacts DEF WorksOn
<1>10. colours[graph] \in BOOLEAN /\ render \in ImageType
  <2>1. colours \in [Graphs -> BOOLEAN]
    BY <1>7 DEF Base, TypeOK
  <2>2. colours[graph] \in BOOLEAN
    BY <1>2, <2>1
  <2> HIDE DEF colours
  <2>3. QED
    BY <1>2, <2>2 DEF ImageType, Image
<1> DEFINE c == Collected(t, after, render)
<1> HIDE DEF now, repaint, after, colours, render, c
<1>11. /\ c \in GoroutineType /\ c.pc = NextPage(after, t.i) /\ c.i = t.i + 1
       /\ c.bring = t.bring /\ c.changed = t.changed
       /\ c.image = IF t.i # after.active THEN t.image ELSE IF t.shows THEN render ELSE None
       /\ NextPage(after, t.i) \in {"enter", "finish"} /\ WorksOn(c, after)
  BY <1>1, <1>8, <1>9, <1>10, CollectedFacts DEF c
<1>12. NextPage(after, t.i) = NextPage(o, i)
  BY <1>8 DEF NextPage
<1> DEFINE b == Brings(t, i, repaint /\ now.alert /\ ~snoozed, p)
<1>13. /\ b = IF t.bring = 0 /\ RepaintAt(i, o) /\ AlertAt(i, o) /\ snooze[i] # "on"
                    /\ o.pages[i] \in BringToFront
               THEN i ELSE t.bring
       /\ b \in Indices \cup {0}
       /\ b # 0 => b \in DOMAIN o.pages
  <2>1. b = IF t.bring = 0 /\ RepaintAt(i, o) /\ AlertAt(i, o) /\ snooze[i] # "on"
                    /\ o.pages[i] \in BringToFront
               THEN i ELSE t.bring
    BY <1>3, <1>4 DEF Brings
  <2>2. t.bring \in Indices \cup {0} /\ (t.bring # 0 => t.bring \in DOMAIN o.pages)
    BY <1>1 DEF GoroutineType, WorksOn
  <2>3. QED
    BY <1>1, <1>2, <2>1, <2>2
<1> HIDE DEF b
<1>14. s = [c EXCEPT !.bring = b, !.changed = t.changed \/ repaint]
  BY DEF c, b
<1>15. /\ s \in GoroutineType /\ s.pc = c.pc /\ s.i = c.i /\ s.image = c.image
       /\ s.bring = b /\ (s.changed <=> t.changed \/ repaint)
  BY <1>11, <1>13, <1>14 DEF GoroutineType
<1>16. WorksOn(s, after)
  BY <1>8, <1>11, <1>13, <1>15 DEF WorksOn, Working
<1>17. LookedOn(t, i, o, s, render)
  BY <1>4, <1>8, <1>11, <1>12, <1>13, <1>15 DEF LookedOn
<1>18. render.cards = <<[page |-> o.pages[i], alert |-> painted'[<<i, o.graphs[i]>>]]>>
  BY <1>5 DEF render, Image
<1>19. \E s1 \in GoroutineType, render1 \in ImageType :
         /\ Goes(g, s1, LookedAt(i, o)) /\ WorksOn(s1, LookedAt(i, o))
         /\ s1.pc \in {"enter", "finish"}
         /\ render1.cards = <<[page |-> o.pages[i], alert |-> painted'[<<i, o.graphs[i]>>]]>>
         /\ LookedOn(goroutine[g], i, o, s1, render1)
  <2> HIDE DEF s
  <2>1. s.pc \in {"enter", "finish"} /\ Goes(g, s, LookedAt(i, o)) /\ WorksOn(s, LookedAt(i, o))
    BY <1>5, <1>6, <1>11, <1>15, <1>16
  <2>2. QED
    BY <1>10, <1>15, <1>17, <1>18, <2>1
<1>20. latch' = [latch EXCEPT ![i] = LatchAt(i, o)]
  BY <1>3, <1>5
<1>21. /\ painted' = IF RepaintAt(i, o)
                      THEN [painted EXCEPT ![<<i, o.graphs[i]>>] = AlertAt(i, o) /\ snooze[i] # "on"]
                      ELSE painted
       /\ lost' = IF ~RepaintAt(i, o) THEN lost
                  ELSE IF goroutine[g].own = None THEN lost \ {i} ELSE lost \cup {i}
  BY <1>4, <1>5, <1>7
<1>22. LooksAt(g, i, o)
  BY <1>1, <1>2, <1>5, <1>20, <1>21 DEF LooksAt
<1>23. QED
  BY <1>6, <1>8, <1>19, <1>22

\* The cards of the overview are those of pages.
LEMMA OverviewIndices ==
  ASSUME NEW count \in Nat \ {0}, NEW active \in 1..count
  PROVE  /\ dialOverviewIndices(active, count, OverviewCap) \in Seq(1..count)
         /\ DOMAIN dialOverviewIndices(active, count, OverviewCap) =
              1..Len(dialOverviewIndices(active, count, OverviewCap))
<1>1. wrapDialIndex(active, -1, count) \in 1..count /\ wrapDialIndex(active, 1, count) \in 1..count
  BY WrapIn
<1>2. dialOverviewIndices(active, count, OverviewCap) \in Seq(1..count)
  <2> DEFINE left  == wrapDialIndex(active, -1, count)
             right == wrapDialIndex(active, 1, count)
  <2>1. left \in 1..count /\ right \in 1..count
    BY <1>1
  <2>2. dialOverviewIndices(active, count, OverviewCap) \in
          {<<active>>, <<left, active>>, <<active, right>>, <<left, active, right>>}
    BY Zenon DEF dialOverviewIndices
  <2> HIDE DEF left, right
  <2>3. /\ <<active>> \in Seq(1..count) /\ <<left, active>> \in Seq(1..count)
        /\ <<active, right>> \in Seq(1..count) /\ <<left, active, right>> \in Seq(1..count)
    BY <2>1
  <2>4. QED
    BY <2>2, <2>3
<1>3. QED
  BY <1>2

OverviewShows(o, shown) ==
  /\ Overview(o) \in ImageType /\ DOMAIN shown = 1..Len(shown)
  /\ \A c \in DOMAIN shown : shown[c] \in DOMAIN o.pages
  /\ Len(Overview(o).cards) = Len(shown)
  /\ \A c \in DOMAIN shown :
       Overview(o).cards[c] = [page |-> o.pages[shown[c]],
                               alert |-> painted[<<shown[c], o.graphs[shown[c]]>>]]

LEMMA OverviewFacts ==
  ASSUME TypeOK, NEW o \in DialType, o.pages # <<>>,
         NEW shown, shown = dialOverviewIndices(o.active, Len(o.pages), OverviewCap)
  PROVE  OverviewShows(o, shown)
<1>1. /\ Len(o.pages) \in Nat \ {0} /\ DOMAIN o.pages = 1..Len(o.pages)
      /\ o.active \in 1..Len(o.pages)
      /\ \A i \in DOMAIN o.pages : o.pages[i] \in Pages /\ <<i, o.graphs[i]>> \in Graphs
  BY DialFacts, PagesFit
<1>2. shown \in Seq(1..Len(o.pages)) /\ DOMAIN shown = 1..Len(shown)
  BY <1>1, OverviewIndices
<1>3. Len(shown) \in Nat /\ \A c \in 1..Len(shown) : shown[c] \in 1..Len(o.pages)
  BY <1>2
<1> DEFINE cards == [c \in DOMAIN shown |-> Card(o, shown[c])]
<1>4. Overview(o) = [kind |-> "overview", cards |-> cards]
  BY DEF Overview, Image
<1>5. \A c \in 1..Len(shown) : Card(o, shown[c]) \in [page : Pages, alert : BOOLEAN]
  BY <1>1, <1>3 DEF Card, TypeOK
<1>6. cards \in Seq([page : Pages, alert : BOOLEAN]) /\ Len(cards) = Len(shown)
  BY <1>2, <1>3, <1>5
<1>7. \A c \in DOMAIN shown : cards[c] = [page |-> o.pages[shown[c]],
                                          alert |-> painted[<<shown[c], o.graphs[shown[c]]>>]]
  BY DEF Card
<1> HIDE DEF cards
<1>8. QED
  BY <1>1, <1>2, <1>3, <1>4, <1>6, <1>7 DEF ImageType, OverviewShows

LEMMA MessageType == Message \in ImageType
<1>1. <<>> \in Seq([page : Pages, alert : BOOLEAN])
  OBVIOUS
<1>2. QED
  BY <1>1 DEF Message, ImageType

LEMMA RestingType == Resting \in GoroutineType /\ WorksOn(Resting, None)
BY PageCount DEF Resting, GoroutineType, WorksOn, Working, Indices

\* What a step that leaves the types of the other variables alone is to show.
StepTyped ==
  /\ UNCHANGED <<alarm, up, inspector, expected, bounds>>
  /\ dial' \in DialType \cup {None} /\ goroutine' \in [Threads -> GoroutineType]
  /\ Placed(goroutine', dial')

LEMMA StepBase ==
  ASSUME Base, StepTyped, UNCHANGED <<painted, runtime, lost>>,
         saved' \in SettingsType, overtaken' \in BOOLEAN, strip' \in ImageType,
         settled' \in {"no", "pass", "yes"}
  PROVE  Base'
BY DEF Base, TypeOK, StepTyped, bounds, runtime, Threads

\* A goroutine that begins with the dial, or has nothing to do.
LEMMA BeginFacts ==
  ASSUME Base, NEW g \in Threads, Begin(g)
  PROVE  /\ StepTyped /\ strip' \in ImageType
         /\ dial' = dial /\ goroutine[g].own = None /\ goroutine'[g].own = None
         /\ goroutine[g].pc = IF g = "ticker" THEN "idle" ELSE "begin"
         /\ \A u \in Threads \ {g} : goroutine'[u] = goroutine[u]
         /\ ~goroutine'[g].changed /\ goroutine'[g].bring = 0 /\ goroutine'[g].i = 1
         /\ IF dial = None \/ dial.pages = <<>>
            THEN goroutine'[g].pc = "idle" ELSE goroutine'[g].pc = "enter" /\ strip' = strip
<1> DEFINE t == [Resting EXCEPT !.pc = "enter"]
<1>1. /\ goroutine[g].pc = IF g = "ticker" THEN "idle" ELSE "begin"
      /\ goroutine[g].own = None
  BY DEF Begin, Base, Placed, InPlace, Working
<1>2. /\ goroutine \in [Threads -> GoroutineType] /\ dial \in DialType \cup {None}
      /\ strip \in ImageType /\ Placed(goroutine, dial)
  BY ThreadTypes DEF Base, TypeOK
<1>3. CASE dial = None \/ dial.pages = <<>>
  <2>1. /\ goroutine' = [goroutine EXCEPT ![g] = Resting] /\ dial' = dial
        /\ strip' \in {strip, Message}
    BY <1>3 DEF Begin
  <2>2. /\ goroutine' \in [Threads -> GoroutineType] /\ goroutine'[g] = Resting
        /\ \A u \in Threads \ {g} : goroutine'[u] = goroutine[u]
    BY <1>2, <2>1, RestingType
  <2>3. /\ Resting.own = None /\ Resting.pc = "idle" /\ Resting.bring = 0 /\ Resting.i = 1
        /\ ~Resting.changed
    BY DEF Resting
  <2>4. InPlace(Resting, dial)
    BY <2>3 DEF InPlace, WorksOn, Working
  <2>5. Placed(goroutine', dial')
    <3>1. \A u \in Threads : InPlace(goroutine'[u], dial')
      BY <1>2, <2>1, <2>2, <2>4 DEF Placed
    <3>2. QED
      BY <1>2, <2>1, <2>2, <2>3, <3>1 DEF Placed, Threads
  <2>6. strip' \in ImageType
    BY <1>2, <2>1, MessageType
  <2>7. StepTyped
    BY <1>2, <2>1, <2>2, <2>5 DEF StepTyped, Begin, world, copies
  <2>8. QED
    BY <1>1, <1>3, <2>1, <2>2, <2>3, <2>6, <2>7
<1>4. CASE ~(dial = None \/ dial.pages = <<>>)
  <2>1. Goes(g, t, dial) /\ strip' = strip
    BY <1>4 DEF Begin
  <2>2. /\ t \in GoroutineType /\ t.pc = "enter" /\ t.own = None /\ t.bring = 0 /\ t.i = 1
        /\ ~t.changed
    BY RestingType DEF Resting, GoroutineType
  <2> HIDE DEF t
  <2>3. dial \in DialType /\ Obj(g) = dial /\ dial # None /\ 1 \in DOMAIN dial.pages
    BY <1>1, <1>2, <1>4, DialFacts, PagesFit DEF Obj
  <2>4. WorksOn(t, dial)
    BY <1>4, <2>2, <2>3 DEF WorksOn, Working
  <2>5. /\ dial' \in DialType \cup {None} /\ goroutine' \in [Threads -> GoroutineType]
        /\ Placed(goroutine', dial')
        /\ \A u \in Threads \ {g} : goroutine'[u] = goroutine[u]
        /\ \E w \in DialType \cup {None} : goroutine'[g] = [t EXCEPT !.own = w]
        /\ dial' = IF goroutine[g].own = None THEN dial ELSE dial
        /\ goroutine'[g].own = IF goroutine[g].own # None /\ t.pc # "idle" THEN dial ELSE None
    BY <2>1, <2>2, <2>3, <2>4, GoesPlaced DEF Working
  <2>6. /\ goroutine'[g].own = None /\ goroutine'[g].pc = "enter" /\ goroutine'[g].i = 1
        /\ goroutine'[g].bring = 0 /\ ~goroutine'[g].changed
    BY <1>1, <2>2, <2>5 DEF GoroutineType
  <2>7. StepTyped
    BY <2>5 DEF StepTyped, Begin, world, copies
  <2>8. QED
    BY <1>1, <1>2, <1>4, <2>1, <2>5, <2>6, <2>7
<1>5. QED
  BY <1>3, <1>4

LEMMA EnterFacts ==
  ASSUME Base, NEW g \in Threads, Enter(g)
  PROVE  /\ StepTyped /\ dial' = dial
         /\ \A u \in Threads \ {g} : goroutine'[u] = goroutine[u]
         /\ goroutine[g].pc = "enter" /\ goroutine'[g].pc = "look"
         /\ goroutine[g].own = None => goroutine'[g].own = None
         /\ goroutine'[g].own = None => goroutine[g].own = None
         /\ goroutine'[g].i = goroutine[g].i /\ goroutine'[g].bring = goroutine[g].bring
         /\ goroutine'[g].changed = goroutine[g].changed
         /\ goroutine'[g].image = goroutine[g].image
         /\ goroutine'[g].shows <=> goroutine[g].i = Obj(g).active
<1> DEFINE t == goroutine[g]
           o == Obj(g)
           s == [t EXCEPT !.pc = "look", !.shows = (t.i = o.active)]
<1>1. t.pc = "enter" /\ Goes(g, s, o)
  BY DEF Enter
<1>2. /\ t \in GoroutineType /\ o \in DialType \cup {None} /\ WorksOn(t, o) /\ o \in DialType
      /\ o # None
  BY <1>1, ThreadTypes, ObjType, DialFacts DEF Base, Working
<1>3. /\ s \in GoroutineType /\ s.pc = "look" /\ s.i = t.i /\ s.bring = t.bring
      /\ s.changed = t.changed /\ s.image = t.image /\ (s.shows <=> t.i = o.active)
  BY <1>2 DEF GoroutineType
<1> HIDE DEF s
<1>4. WorksOn(s, o)
  BY <1>1, <1>2, <1>3 DEF WorksOn, Working
<1>5. /\ dial' \in DialType \cup {None} /\ goroutine' \in [Threads -> GoroutineType]
      /\ Placed(goroutine', dial')
      /\ \A u \in Threads \ {g} : goroutine'[u] = goroutine[u]
      /\ \E w \in DialType \cup {None} : goroutine'[g] = [s EXCEPT !.own = w]
      /\ dial' = IF goroutine[g].own = None THEN o ELSE dial
      /\ goroutine'[g].own = IF goroutine[g].own # None /\ s.pc # "idle" THEN o ELSE None
  BY <1>1, <1>2, <1>3, <1>4, GoesPlaced DEF Working
<1>6. /\ goroutine'[g].pc = "look" /\ goroutine'[g].i = t.i /\ goroutine'[g].bring = t.bring
      /\ goroutine'[g].changed = t.changed /\ goroutine'[g].image = t.image
      /\ (goroutine'[g].shows <=> t.i = o.active)
  BY <1>3, <1>5 DEF GoroutineType
<1>7. dial' = dial
  BY <1>5 DEF Obj
<1>8. StepTyped
  BY <1>5 DEF StepTyped, Enter, Proceeds, world, copies
<1>9. QED
  BY <1>1, <1>2, <1>3, <1>5, <1>6, <1>7, <1>8

LEMMA UnavailableFacts ==
  ASSUME Base, NEW g \in Threads, LookUnavailable(g)
  PROVE  /\ StepTyped /\ dial' = dial /\ ~up
         /\ \A u \in Threads \ {g} : goroutine'[u] = goroutine[u]
         /\ goroutine[g].pc = "look" /\ goroutine'[g].pc \in {"enter", "finish"}
         /\ goroutine[g].own = None <=> goroutine'[g].own = None
         /\ goroutine'[g].bring = goroutine[g].bring
         /\ goroutine'[g].changed = goroutine[g].changed
<1> DEFINE t == goroutine[g]
           o == Obj(g)
           s == Collected(t, o, Message)
<1>1. t.pc = "look" /\ Goes(g, s, o) /\ ~up
  BY DEF LookUnavailable
<1>2. t \in GoroutineType /\ WorksOn(t, o) /\ o \in DialType /\ o # None
  BY <1>1, ThreadTypes, ObjType, DialFacts DEF Base, Working
<1>3. /\ s \in GoroutineType /\ s.pc \in {"enter", "finish"} /\ s.bring = t.bring
      /\ s.changed = t.changed /\ WorksOn(s, o)
  BY <1>1, <1>2, MessageType, CollectedFacts
<1> HIDE DEF s
<1>4. /\ dial' \in DialType \cup {None} /\ goroutine' \in [Threads -> GoroutineType]
      /\ Placed(goroutine', dial')
      /\ \A u \in Threads \ {g} : goroutine'[u] = goroutine[u]
      /\ \E w \in DialType \cup {None} : goroutine'[g] = [s EXCEPT !.own = w]
      /\ dial' = IF goroutine[g].own = None THEN o ELSE dial
      /\ goroutine'[g].own = IF goroutine[g].own # None /\ s.pc # "idle" THEN o ELSE None
  BY <1>1, <1>2, <1>3, GoesPlaced DEF Working
<1>5. /\ goroutine'[g].pc = s.pc /\ goroutine'[g].bring = t.bring
      /\ goroutine'[g].changed = t.changed
  BY <1>3, <1>4 DEF GoroutineType
<1>6. dial' = dial
  BY <1>4 DEF Obj
<1>7. StepTyped
  BY <1>4 DEF StepTyped, LookUnavailable, Proceeds, world, copies
<1>8. QED
  BY <1>1, <1>2, <1>3, <1>4, <1>5, <1>6, <1>7

\* A look at page i of o: all that LookFacts does not say.
LEMMA LookStep ==
  ASSUME Base, NEW g \in Threads, Look(g), NEW i, i = goroutine[g].i, NEW o, o = Obj(g)
  PROVE  /\ StepTyped
         /\ \A u \in Threads \ {g} : goroutine'[u] = goroutine[u]
         /\ dial' = IF goroutine[g].own = None THEN LookedAt(i, o) ELSE dial
         /\ goroutine[g].own = None <=> goroutine'[g].own = None
         /\ goroutine'[g].pc \in {"enter", "finish"}
         /\ \E render \in ImageType :
              /\ render.cards = <<[page |-> o.pages[i], alert |-> painted'[<<i, o.graphs[i]>>]]>>
              /\ LookedOn(goroutine[g], i, o, goroutine'[g], render)
<1> DEFINE after == LookedAt(i, o)
<1>1. /\ LooksAt(g, i, o) /\ after \in DialType
      /\ \E s \in GoroutineType, render \in ImageType :
              /\ Goes(g, s, after) /\ WorksOn(s, after)
              /\ s.pc \in {"enter", "finish"}
              /\ render.cards = <<[page |-> o.pages[i], alert |-> painted'[<<i, o.graphs[i]>>]]>>
              /\ LookedOn(goroutine[g], i, o, s, render)
  BY LookFacts
<1>2. PICK s \in GoroutineType, render \in ImageType :
              /\ Goes(g, s, after) /\ WorksOn(s, after)
              /\ s.pc \in {"enter", "finish"}
              /\ render.cards = <<[page |-> o.pages[i], alert |-> painted'[<<i, o.graphs[i]>>]]>>
              /\ LookedOn(goroutine[g], i, o, s, render)
  BY <1>1
<1>3. Obj(g) # None /\ after.pages = Obj(g).pages /\ after # None
  BY <1>1, DialFacts DEF LooksAt, LookedAt, DialType
<1> HIDE DEF after
<1>4. /\ dial' \in DialType \cup {None} /\ goroutine' \in [Threads -> GoroutineType]
      /\ Placed(goroutine', dial')
      /\ \A u \in Threads \ {g} : goroutine'[u] = goroutine[u]
      /\ \E w \in DialType \cup {None} : goroutine'[g] = [s EXCEPT !.own = w]
      /\ dial' = IF goroutine[g].own = None THEN after ELSE dial
      /\ goroutine'[g].own = IF goroutine[g].own # None /\ s.pc # "idle" THEN after ELSE None
  BY <1>1, <1>2, <1>3, GoesPlaced DEF Working
<1>5. /\ goroutine'[g].pc = s.pc /\ goroutine'[g].i = s.i /\ goroutine'[g].bring = s.bring
      /\ goroutine'[g].changed = s.changed /\ goroutine'[g].image = s.image
  BY <1>4 DEF GoroutineType
<1>6. LookedOn(goroutine[g], i, o, goroutine'[g], render)
  BY <1>2, <1>5 DEF LookedOn
<1>7. StepTyped
  BY <1>4 DEF StepTyped, Look, Proceeds, world, copies
<1>8. QED
  BY <1>2, <1>3, <1>4, <1>5, <1>6, <1>7 DEF after

MovedAt(g) == goroutine[g].bring # 0 /\ goroutine[g].bring # Obj(g).active

LEMMA FinishFacts ==
  ASSUME Base, NEW g \in Threads, Finish(g)
  PROVE  /\ StepTyped
         /\ \A u \in Threads \ {g} : goroutine'[u] = goroutine[u]
         /\ goroutine[g].pc = "finish" /\ goroutine'[g].pc = "send"
         /\ goroutine[g].own = None <=> goroutine'[g].own = None
         /\ goroutine'[g].i = goroutine[g].i /\ goroutine'[g].bring = 0
         /\ goroutine'[g].image = goroutine[g].image
         /\ dial' = IF goroutine[g].own = None /\ MovedAt(g)
                    THEN [dial EXCEPT !.active = goroutine[g].bring] ELSE dial
         /\ saved' \in SettingsType /\ overtaken' \in BOOLEAN
         /\ goroutine[g].changed \/ MovedAt(g) =>
              /\ overtaken' <=> goroutine[g].own # None
              /\ goroutine[g].own = None => saved' = SettingsOf(dial')
         /\ ~(goroutine[g].changed \/ MovedAt(g)) => UNCHANGED <<saved, overtaken>>
<1> DEFINE t == goroutine[g]
           o == Obj(g)
           after == IF MovedAt(g) THEN [o EXCEPT !.active = t.bring] ELSE o
           s == [t EXCEPT !.pc = "send", !.bring = 0]
<1>1. /\ t.pc = "finish" /\ Goes(g, s, after)
      /\ IF t.changed \/ MovedAt(g)
         THEN saved' = SettingsOf(after) /\ overtaken' = (t.own # None)
         ELSE UNCHANGED <<saved, overtaken>>
  BY DEF Finish, MovedAt, SaveNeeded, SetSettings
<1>2. t \in GoroutineType /\ WorksOn(t, o) /\ o \in DialType /\ o # None
  BY <1>1, ThreadTypes, ObjType, DialFacts DEF Base, Working
<1>3. /\ s \in GoroutineType /\ s.pc = "send" /\ s.i = t.i /\ s.bring = 0 /\ s.image = t.image
  BY <1>2 DEF GoroutineType
<1> HIDE DEF s
<1>4. /\ after \in DialType /\ after.pages = o.pages /\ after # None
  <2>1. CASE MovedAt(g)
    <3>1. t.bring \in DOMAIN o.pages /\ t.bring \in Indices
      BY <1>2, <2>1, DialFacts, PagesFit DEF MovedAt, WorksOn
    <3>2. [o EXCEPT !.active = t.bring] \in DialType
      BY <1>2, <3>1, DialActive
    <3>3. QED
      BY <1>2, <2>1, <3>2, DialFacts DEF DialType
  <2>2. CASE ~MovedAt(g)
    BY <1>2, <2>2
  <2>3. QED
    BY <2>1, <2>2
<1>5. WorksOn(s, after)
  BY <1>1, <1>2, <1>3, <1>4 DEF WorksOn, Working
<1>6. goroutine[g].own = None => o = dial
  BY DEF Obj
<1> HIDE DEF after
<1>7. /\ dial' \in DialType \cup {None} /\ goroutine' \in [Threads -> GoroutineType]
      /\ Placed(goroutine', dial')
      /\ \A u \in Threads \ {g} : goroutine'[u] = goroutine[u]
      /\ \E w \in DialType \cup {None} : goroutine'[g] = [s EXCEPT !.own = w]
      /\ dial' = IF goroutine[g].own = None THEN after ELSE dial
      /\ goroutine'[g].own = IF goroutine[g].own # None /\ s.pc # "idle" THEN after ELSE None
  BY <1>1, <1>2, <1>3, <1>4, <1>5, GoesPlaced DEF Working
<1>8. /\ goroutine'[g].pc = "send" /\ goroutine'[g].i = t.i /\ goroutine'[g].bring = 0
      /\ goroutine'[g].image = t.image
  BY <1>3, <1>7 DEF GoroutineType
<1>9. dial' = IF goroutine[g].own = None /\ MovedAt(g)
              THEN [dial EXCEPT !.active = goroutine[g].bring] ELSE dial
  BY <1>6, <1>7 DEF after
<1>10. saved' \in SettingsType /\ overtaken' \in BOOLEAN
  <2>1. saved \in SettingsType /\ overtaken \in BOOLEAN /\ SettingsOf(after) \in SettingsType
    BY <1>4, DialFacts DEF Base, TypeOK
  <2>2. QED
    BY <1>1, <2>1
<1>11. StepTyped
  BY <1>7 DEF StepTyped, Finish, world, SetSettings
<1>12. QED
  BY <1>1, <1>3, <1>4, <1>7, <1>8, <1>9, <1>10, <1>11

LEMMA SendFacts ==
  ASSUME Base, NEW g \in Threads, Send(g)
  PROVE  /\ StepTyped /\ dial' = dial
         /\ \A u \in Threads \ {g} : goroutine'[u] = goroutine[u]
         /\ goroutine[g].pc = "send" /\ goroutine'[g].pc = "idle"
         /\ goroutine'[g].own = None /\ goroutine'[g].bring = 0 /\ ~goroutine'[g].changed
         /\ strip' = IF Obj(g).overview THEN Overview(Obj(g))
                     ELSE IF goroutine[g].image # None THEN goroutine[g].image ELSE strip
         /\ strip' \in ImageType
<1> DEFINE t == goroutine[g]
           o == Obj(g)
<1>1. /\ t.pc = "send" /\ Goes(g, Resting, o)
      /\ strip' = IF o.overview THEN Overview(o) ELSE IF t.image # None THEN t.image ELSE strip
  BY DEF Send
<1>2. t \in GoroutineType /\ WorksOn(t, o) /\ o \in DialType /\ o # None /\ o.pages # <<>>
  BY <1>1, ThreadTypes, ObjType, DialFacts DEF Base, Working, WorksOn
<1>3. /\ Resting \in GoroutineType /\ Resting.pc = "idle" /\ Resting.bring = 0
      /\ ~Resting.changed /\ WorksOn(Resting, o)
  BY RestingType DEF Resting, WorksOn, Working
<1>4. /\ dial' \in DialType \cup {None} /\ goroutine' \in [Threads -> GoroutineType]
      /\ Placed(goroutine', dial')
      /\ \A u \in Threads \ {g} : goroutine'[u] = goroutine[u]
      /\ \E w \in DialType \cup {None} : goroutine'[g] = [Resting EXCEPT !.own = w]
      /\ dial' = IF goroutine[g].own = None THEN o ELSE dial
      /\ goroutine'[g].own = IF goroutine[g].own # None /\ Resting.pc # "idle" THEN o ELSE None
  BY <1>1, <1>2, <1>3, GoesPlaced
<1>5. /\ goroutine'[g].pc = "idle" /\ goroutine'[g].bring = 0 /\ ~goroutine'[g].changed
      /\ goroutine'[g].own = None
  BY <1>3, <1>4 DEF GoroutineType
<1>6. dial' = dial
  BY <1>4 DEF Obj
<1>7. strip' \in ImageType
  <2>1. /\ strip \in ImageType /\ t.image \in ImageType \cup {None} /\ Overview(o) \in ImageType
    BY <1>2, OverviewFacts DEF Base, TypeOK, GoroutineType, OverviewShows
  <2>2. QED
    BY <1>1, <2>1
<1>8. StepTyped
  BY <1>4 DEF StepTyped, Send, world, copies
<1>9. QED
  BY <1>1, <1>4, <1>5, <1>6, <1>7, <1>8

LEMMA FeedbackBase ==
  ASSUME Base, NEW g \in Threads, updateDialFeedback(g)
  PROVE  Base'
<1>0. /\ saved \in SettingsType /\ overtaken \in BOOLEAN /\ strip \in ImageType
      /\ settled \in {"no", "pass", "yes"}
  BY DEF Base, TypeOK
<1>1. CASE Begin(g)
  <2>1. StepTyped /\ strip' \in ImageType
    BY <1>1, BeginFacts
  <2>2. UNCHANGED <<painted, runtime, lost, saved, overtaken>> /\ settled' \in {"no", "pass", "yes"}
    BY <1>0, <1>1 DEF Begin, copies
  <2>3. QED
    BY <1>0, <2>1, <2>2, StepBase
<1>2. CASE Enter(g)
  <2>1. StepTyped
    BY <1>2, EnterFacts
  <2>2. /\ UNCHANGED <<painted, runtime, lost, saved, overtaken, strip>>
        /\ settled' \in {"no", "pass", "yes"}
    BY <1>0, <1>2 DEF Enter, copies, Proceeds
  <2>3. QED
    BY <1>0, <2>1, <2>2, StepBase
<1>3. CASE LookUnavailable(g)
  <2>1. StepTyped
    BY <1>3, UnavailableFacts
  <2>2. /\ UNCHANGED <<painted, runtime, lost, saved, overtaken, strip>>
        /\ settled' \in {"no", "pass", "yes"}
    BY <1>0, <1>3 DEF LookUnavailable, copies, Proceeds
  <2>3. QED
    BY <1>0, <2>1, <2>2, StepBase
<1>4. CASE Look(g)
  <2> DEFINE i == goroutine[g].i
             o == Obj(g)
  <2>0. i = goroutine[g].i /\ o = Obj(g)
    OBVIOUS
  <2> HIDE DEF i, o
  <2>1. /\ StepTyped /\ UNCHANGED <<saved, strip, overtaken, uses, worldly>>
        /\ settled' \in {"no", "pass", "yes"}
    BY <1>0, <1>4, <2>0, LookStep DEF Look, copies, Proceeds, bounds
  <2>2. /\ i \in Indices /\ o.pages[i] \in Pages /\ <<i, o.graphs[i]>> \in Graphs
        /\ latch' = [latch EXCEPT ![i] = LatchAt(i, o)]
        /\ snooze' = IF snooze[i] = "expired" THEN [snooze EXCEPT ![i] = "off"] ELSE snooze
        /\ dirty' = IF snooze[i] = "expired" THEN dirty \cup {i} ELSE dirty \ {i}
        /\ painted' = IF RepaintAt(i, o)
                      THEN [painted EXCEPT ![<<i, o.graphs[i]>>] = AlertAt(i, o) /\ snooze[i] # "on"]
                      ELSE painted
        /\ lost' = IF ~RepaintAt(i, o) THEN lost
                   ELSE IF goroutine[g].own = None THEN lost \ {i} ELSE lost \cup {i}
    <3>1. LooksAt(g, i, o)
      BY <1>4, <2>0, LookFacts
    <3>2. QED
      BY <3>1 DEF LooksAt
  <2> DEFINE l == LatchAt(i, o)
  <2>3. l \in [page : Pages \cup {None}, state : {"off", "latched", "suppressed"}]
    <3>1. latch[i].state \in {"off", "latched", "suppressed"}
      BY <2>2 DEF Base, TypeOK
    <3>2. StateIn(alarm, latch[i], o.pages[i]) \in {"off", "latched", "suppressed"}
      BY <3>1 DEF StateIn
    <3>3. QED
      BY <2>2, <3>2 DEF LatchAt
  <2> HIDE DEF l
  <2>4. latch' \in [Indices -> [page : Pages \cup {None}, state : {"off", "latched", "suppressed"}]]
    BY <2>2, <2>3 DEF Base, TypeOK, l
  <2>5. /\ snooze' \in [Indices -> {"off", "on", "expired"}] /\ dirty' \subseteq Indices
        /\ lost' \subseteq Indices
    BY <2>2 DEF Base, TypeOK
  <2>6. painted' \in [Graphs -> BOOLEAN]
    BY <2>2 DEF Base, TypeOK
  <2>7. QED
    BY <2>1, <2>4, <2>5, <2>6 DEF Base, TypeOK, StepTyped, bounds, Threads
<1>5. CASE Finish(g)
  <2>1. StepTyped /\ saved' \in SettingsType /\ overtaken' \in BOOLEAN
    BY <1>5, FinishFacts
  <2>2. /\ UNCHANGED <<painted, runtime, lost, strip>> /\ settled' \in {"no", "pass", "yes"}
    BY <1>0, <1>5 DEF Finish
  <2>3. QED
    BY <1>0, <2>1, <2>2, StepBase
<1>6. CASE Send(g)
  <2>1. StepTyped /\ strip' \in ImageType
    BY <1>6, SendFacts
  <2>2. /\ UNCHANGED <<painted, runtime, lost, saved, overtaken>>
        /\ settled' \in {"no", "pass", "yes"}
    BY <1>0, <1>6 DEF Send, copies
  <2>3. QED
    BY <1>0, <2>1, <2>2, StepBase
<1>7. QED
  BY <1>1, <1>2, <1>3, <1>4, <1>5, <1>6 DEF updateDialFeedback

-----------------------------------------------------------------------------
(* The steps of the handlers, of HWiNFO and of time.                       *)

LEMMA UserFacts ==
  ASSUME Base, User
  PROVE  /\ Events.pc = "idle" /\ Events.bring = 0 /\ Events.own = None
         /\ UNCHANGED <<alarm, up, strip, worldly>> /\ uses' \in 0..MaxUser
         /\ Ticker.pc # "idle" => Ticker.pc \in Working /\ Obj("ticker") \in DialType
         /\ Ticker.pc = "idle" => Ticker.own = None /\ Ticker.bring = 0
<1>1. Events.pc = "idle" /\ uses < MaxUser /\ uses' = uses + 1 /\ UNCHANGED <<world, strip, worldly>>
  BY DEF User, Events
<1>2. "ticker" \in Threads /\ "events" \in Threads
  BY DEF Threads
<1>3. Events.bring = 0 /\ Events.own = None
  BY <1>1, <1>2 DEF Base, Placed, InPlace, WorksOn, Working, Events
<1>4. Ticker.pc # "idle" => Ticker.pc \in Working
  BY <1>2, ThreadTypes DEF Base, Placed, Working, Ticker
<1>5. Ticker.pc = "idle" => Ticker.own = None /\ Ticker.bring = 0
  BY <1>2 DEF Base, Placed, InPlace, WorksOn, Working, Ticker
<1>6. uses' \in 0..MaxUser
  BY <1>1, DialBounds DEF Base, TypeOK
<1>7. QED
  BY <1>1, <1>2, <1>3, <1>4, <1>5, <1>6, ObjType DEF world, Ticker

\* The handler goes on at pc and leaves the ticker what it works on.
LEMMA OutdatedFacts ==
  ASSUME Base, User, NEW pc \in {"begin", "idle"}, ThenOutdated(pc),
         dial' \in DialType \cup {None}
  PROVE  /\ goroutine' \in [Threads -> GoroutineType] /\ Placed(goroutine', dial')
         /\ Ticker' = [Ticker EXCEPT !.own = IF Ticker.pc = "idle" THEN None ELSE Obj("ticker")]
         /\ Events' = [Events EXCEPT !.pc = pc]
         /\ Ticker'.own = IF Ticker.pc = "idle" THEN None ELSE Obj("ticker")
         /\ Ticker'.own \in DialType \cup {None}
<1> DEFINE old == IF Ticker.pc = "idle" THEN None ELSE Obj("ticker")
<1>1. goroutine' = [goroutine EXCEPT !["events"].pc = pc, !["ticker"].own = old]
  BY DEF ThenOutdated, Ticker
<1>2. /\ goroutine \in [Threads -> GoroutineType] /\ "ticker" \in Threads /\ "events" \in Threads
      /\ Ticker \in GoroutineType /\ Events \in GoroutineType
  BY ThreadTypes DEF Base, Threads, Ticker, Events
<1>3. old \in DialType \cup {None}
  BY UserFacts
<1> HIDE DEF old
<1>4. /\ Ticker' = [Ticker EXCEPT !.own = old] /\ Events' = [Events EXCEPT !.pc = pc]
      /\ goroutine'["ticker"] = Ticker' /\ goroutine'["events"] = Events'
      /\ DOMAIN goroutine' = Threads /\ goroutine' = [g \in Threads |-> goroutine'[g]]
  BY <1>1, <1>2 DEF Ticker, Events
<1>5. Ticker' \in GoroutineType /\ Events' \in GoroutineType
  BY <1>2, <1>3, <1>4 DEF GoroutineType
<1>6. goroutine' \in [Threads -> GoroutineType]
  BY <1>4, <1>5 DEF Threads
<1>7. /\ Ticker'.own = old /\ Ticker'.pc = Ticker.pc /\ Ticker'.i = Ticker.i
      /\ Ticker'.bring = Ticker.bring
      /\ Events'.own = Events.own /\ Events'.pc = pc /\ Events'.bring = Events.bring
  BY <1>2, <1>4 DEF GoroutineType
<1>8. InPlace(Events', dial')
  BY <1>7, UserFacts DEF InPlace, WorksOn, Working
<1>9. InPlace(Ticker', dial')
  <2>1. CASE Ticker.pc = "idle"
    BY <1>7, <2>1, UserFacts DEF InPlace, WorksOn, Working, old
  <2>2. CASE Ticker.pc # "idle"
    <3>1. old = Obj("ticker") /\ old # None /\ WorksOn(Ticker, old)
      BY <1>2, <2>2, UserFacts, ObjType, DialFacts DEF old, Ticker
    <3>2. WorksOn(Ticker', old)
      BY <1>7, <3>1 DEF WorksOn
    <3>3. QED
      BY <1>7, <2>2, <3>1, <3>2, UserFacts DEF InPlace
  <2>3. QED
    BY <2>1, <2>2
<1>10. Placed(goroutine', dial')
  BY <1>4, <1>7, <1>8, <1>9, UserFacts DEF Placed, Threads, Base, Ticker
<1>11. QED
  BY <1>3, <1>4, <1>6, <1>7, <1>10 DEF old

\* Settings that come in force.
LEMMA InstallFacts ==
  ASSUME Base, NEW s \in SettingsType, NEW overview \in BOOLEAN, Install(s, overview),
         goroutine'["ticker"].own \in DialType \cup {None}
  PROVE  /\ dial' \in DialType /\ dial' # None /\ SettingsOf(dial') = s
         /\ painted' \in [Graphs -> BOOLEAN]
         /\ \A i \in DOMAIN s.pages : ~painted'[<<i, dial'.graphs[i]>>]
         /\ lost' = {i \in DOMAIN s.pages : s.pages[i] \in s.current}
         /\ lost' \subseteq Indices
<1> DEFINE graph(i) == IF Reuses(s, i) THEN dial.graphs[i] ELSE NewGraph(i)
           graphs == [i \in DOMAIN s.pages |-> graph(i)]
           made == [pages |-> s.pages, active |-> s.active, current |-> s.current,
                    graphs |-> graphs, overview |-> overview]
<1>1. /\ dial' = made
      /\ painted' = [g \in Graphs |->
           IF g[1] \in DOMAIN s.pages /\ g[2] = graphs[g[1]] THEN FALSE ELSE painted[g]]
      /\ lost' = {i \in DOMAIN s.pages : s.pages[i] \in s.current}
  BY DEF Install
<1>2. s.pages \in PageSeqs /\ DOMAIN s.pages \subseteq Indices
  BY SettingsFacts, PagesFit
<1>3. ASSUME NEW i \in DOMAIN s.pages PROVE graph(i) \in {0, 1}
  <2>1. CASE Reuses(s, i)
    <3>1. dial \in DialType /\ i \in DOMAIN dial.pages
      BY <2>1 DEF Reuses, Base, TypeOK
    <3>2. QED
      BY <2>1, <3>1, DialFacts
  <2>2. CASE ~Reuses(s, i)
    <3> DEFINE old == goroutine'["ticker"].own
    <3>1. NewGraph(i) = IF old = None \/ i \notin DOMAIN old.graphs THEN 0 ELSE 1 - old.graphs[i]
      BY DEF NewGraph
    <3> HIDE DEF old
    <3>2. old # None => \A j \in DOMAIN old.graphs : old.graphs[j] \in {0, 1}
      BY DialFacts DEF old
    <3>3. NewGraph(i) \in {0, 1}
      BY <3>1, <3>2
    <3>4. QED
      BY <2>2, <3>3
  <2>3. QED
    BY <2>1, <2>2
<1>4. graphs \in [DOMAIN s.pages -> {0, 1}]
  BY <1>3
<1> HIDE DEF graph
<1>5. made \in DialType
  <2> HIDE DEF graphs
  <2>1. QED
    BY <1>4, DialMade
<1>6. made # None
  BY <1>5, DialFacts
<1>7. SettingsOf(made) = s
  BY SettingsFacts DEF SettingsOf
<1>8. painted' \in [Graphs -> BOOLEAN]
  BY <1>1 DEF Base, TypeOK
<1>9. \A i \in DOMAIN s.pages : ~painted'[<<i, made.graphs[i]>>]
  <2> TAKE i \in DOMAIN s.pages
  <2>1. graphs[i] \in {0, 1} /\ made.graphs = graphs
    BY <1>4
  <2> HIDE DEF graphs, made
  <2>2. <<i, graphs[i]>> \in Graphs
    BY <1>2, <2>1 DEF Graphs
  <2>3. QED
    BY <1>1, <2>1, <2>2
<1>10. QED
  BY <1>1, <1>2, <1>5, <1>6, <1>7, <1>8, <1>9

\* The graphs and pages of a dial whose settings have just come in force.
Installed(s) ==
  /\ dial' \in DialType /\ dial' # None /\ SettingsOf(dial') = s
  /\ \A i \in DOMAIN s.pages : ~painted'[<<i, dial'.graphs[i]>>]
  /\ lost' = {i \in DOMAIN s.pages : s.pages[i] \in s.current}

LEMMA InstallBase ==
  ASSUME Base, User, ThenOutdated("begin"), NEW s \in SettingsType, NEW overview \in BOOLEAN,
         Install(s, overview)
  PROVE  /\ Installed(s) /\ painted' \in [Graphs -> BOOLEAN] /\ lost' \subseteq Indices
         /\ goroutine' \in [Threads -> GoroutineType] /\ Placed(goroutine', dial')
<1>1. goroutine'["ticker"].own \in DialType \cup {None}
  <2> DEFINE old == IF Ticker.pc = "idle" THEN None ELSE Obj("ticker")
  <2>1. old \in DialType \cup {None}
    BY UserFacts
  <2>2. goroutine' = [goroutine EXCEPT !["events"].pc = "begin", !["ticker"].own = old]
    BY DEF ThenOutdated, Ticker
  <2>3. goroutine \in [Threads -> GoroutineType] /\ "ticker" \in Threads
    BY ThreadTypes DEF Base, Threads
  <2> HIDE DEF old
  <2>4. goroutine'["ticker"] = [goroutine["ticker"] EXCEPT !.own = old]
    BY <2>2, <2>3
  <2>5. QED
    BY <2>1, <2>3, <2>4 DEF GoroutineType
<1>2. /\ Installed(s) /\ painted' \in [Graphs -> BOOLEAN] /\ lost' \subseteq Indices
      /\ dial' \in DialType
  BY <1>1, InstallFacts DEF Installed
<1>3. QED
  BY <1>2, OutdatedFacts

LEMMA AppearFacts ==
  ASSUME Base, handleDialWillAppear
  PROVE  Base' /\ Installed(saved) /\ User /\ ThenOutdated("begin")
<1>0. PICK overview \in BOOLEAN : Install(saved, overview)
  BY CapAssumption DEF handleDialWillAppear
<1>1. /\ User /\ ThenOutdated("begin") /\ Install(saved, overview)
      /\ overtaken' = FALSE /\ settled' = "no" /\ expected' = None /\ UNCHANGED <<runtime, copies>>
  BY <1>0 DEF handleDialWillAppear, Disturb
<1>2. saved \in SettingsType
  BY DEF Base, TypeOK
<1>3. /\ Installed(saved) /\ painted' \in [Graphs -> BOOLEAN] /\ lost' \subseteq Indices
      /\ goroutine' \in [Threads -> GoroutineType] /\ Placed(goroutine', dial')
  BY <1>1, <1>2, InstallBase
<1>4. UNCHANGED <<alarm, up, strip, worldly>> /\ uses' \in 0..MaxUser
  BY <1>1, UserFacts
<1>5. QED
  BY <1>1, <1>3, <1>4 DEF Base, TypeOK, runtime, copies, Threads, Installed

LEMMA SettingsBase ==
  ASSUME Base, NEW s \in Edited(inspector), dialSetSettings(s)
  PROVE  /\ Base' /\ Installed(s) /\ User /\ ThenOutdated("begin")
         /\ s \in SettingsType /\ saved' = s
<1>1. /\ User /\ ThenOutdated("begin") /\ dial # None
      /\ Install(s, dial.overview) \/ Install(s, ~dial.overview)
      /\ inspector' = s /\ saved' = s /\ overtaken' = FALSE
      /\ settled' = "no" /\ expected' = None /\ UNCHANGED runtime
  BY DEF dialSetSettings, Disturb, SetSettings
<1>2. s \in SettingsType /\ dial.overview \in BOOLEAN /\ (~dial.overview) \in BOOLEAN
  <2>1. inspector \in SettingsType /\ dial \in DialType
    BY <1>1 DEF Base, TypeOK
  <2>2. s \in SettingsType /\ dial.overview \in BOOLEAN
    BY <2>1, EditedTypes, DialFacts
  <2>3. QED
    BY <2>2, Zenon
<1>3. /\ Installed(s) /\ painted' \in [Graphs -> BOOLEAN] /\ lost' \subseteq Indices
      /\ goroutine' \in [Threads -> GoroutineType] /\ Placed(goroutine', dial')
  BY <1>1, <1>2, InstallBase
<1>4. UNCHANGED <<alarm, up, strip, worldly>> /\ uses' \in 0..MaxUser
  BY <1>1, UserFacts
<1>5. QED
  BY <1>1, <1>2, <1>3, <1>4 DEF Base, TypeOK, runtime, Threads, Installed

LEMMA DisappearFacts ==
  ASSUME Base, handleDialWillDisappear
  PROVE  Base'
<1>1. /\ User /\ ThenOutdated("idle") /\ dial' = None /\ lost' = {}
      /\ settled' = "no" /\ expected' = None /\ UNCHANGED <<painted, runtime, copies, overtaken>>
  BY DEF handleDialWillDisappear, Disturb
<1>2. goroutine' \in [Threads -> GoroutineType] /\ Placed(goroutine', dial')
  BY <1>1, OutdatedFacts
<1>3. UNCHANGED <<alarm, up, strip, worldly>> /\ uses' \in 0..MaxUser
  BY <1>1, UserFacts
<1>4. QED
  BY <1>1, <1>2, <1>3 DEF Base, TypeOK, runtime, copies, Threads

LEMMA ConnectedFacts ==
  ASSUME Base, handleDialPropertyInspectorConnected
  PROVE  /\ Base' /\ UNCHANGED <<world, dial, painted, runtime, goroutine, saved, lost, overtaken>>
         /\ settled' = "no" /\ expected' = expected
<1>1. /\ User /\ inspector' = SettingsOf(dial) /\ dial # None
      /\ settled' = "no" /\ expected' = expected
      /\ UNCHANGED <<dial, painted, runtime, goroutine, saved, lost, overtaken>>
  BY DEF handleDialPropertyInspectorConnected, Disturb
<1>2. SettingsOf(dial) \in SettingsType
  BY <1>1, DialFacts DEF Base, TypeOK
<1>3. UNCHANGED <<alarm, up, strip, worldly>> /\ uses' \in 0..MaxUser
  BY <1>1, UserFacts
<1>4. QED
  BY <1>1, <1>2, <1>3 DEF Base, TypeOK, runtime, Threads, world

\* The events' goroutine goes on at pc with copy c; the dial keeps its pages.
LEMMA ThenPlaced ==
  ASSUME Base, NEW pc \in {"begin", "save"}, NEW c \in Indices \cup {0},
         Events.pc \in {"idle", "save"},
         goroutine' = [goroutine EXCEPT !["events"] = [Events EXCEPT !.pc = pc, !.copy = c]],
         dial # None, dial' \in DialType, dial'.pages = dial.pages,
         pc = "save" => c \in {1} \cup DOMAIN dial.pages
  PROVE  /\ goroutine' \in [Threads -> GoroutineType] /\ Placed(goroutine', dial')
         /\ Ticker' = Ticker /\ Events'.pc = pc /\ Events'.bring = 0 /\ Events'.own = None
         /\ Events'.copy = c
<1>1. /\ goroutine \in [Threads -> GoroutineType] /\ "ticker" \in Threads /\ "events" \in Threads
      /\ Events \in GoroutineType /\ Events.own = None /\ Events.bring = 0
      /\ InPlace(Ticker, dial) /\ dial' # None
  BY ThreadTypes, DialFacts DEF Base, Threads, Events, Ticker, Placed, InPlace, WorksOn
<1>2. /\ Events' = [Events EXCEPT !.pc = pc, !.copy = c] /\ Ticker' = Ticker
      /\ goroutine'["ticker"] = Ticker' /\ goroutine'["events"] = Events'
  BY <1>1 DEF Events, Ticker
<1>3. /\ Events' \in GoroutineType /\ Events'.pc = pc /\ Events'.bring = 0
      /\ Events'.own = None /\ Events'.copy = c
  BY <1>1, <1>2 DEF GoroutineType
<1>4. goroutine' \in [Threads -> GoroutineType]
  BY <1>1, <1>2, <1>3
<1>5. InPlace(Events', dial')
  BY <1>3 DEF InPlace, WorksOn, Working
<1>6. InPlace(Ticker', dial')
  <2>1. CASE Ticker.own = None
    BY <1>1, <1>2, <2>1 DEF InPlace, WorksOn
  <2>2. CASE Ticker.own # None
    BY <1>1, <1>2, <2>2 DEF InPlace
  <2>3. QED
    BY <2>1, <2>2
<1>7. Placed(goroutine', dial')
  BY <1>1, <1>2, <1>3, <1>5, <1>6 DEF Placed, Threads, Base, Ticker
<1>8. QED
  BY <1>2, <1>3, <1>4, <1>7

LEMMA ThenFacts ==
  ASSUME Base, User, Then("begin"), dial # None, dial' \in DialType, dial'.pages = dial.pages
  PROVE  /\ goroutine' \in [Threads -> GoroutineType] /\ Placed(goroutine', dial')
         /\ Ticker' = Ticker /\ Events'.pc = "begin" /\ Events'.bring = 0 /\ Events'.own = None
<1>1. /\ goroutine \in [Threads -> GoroutineType] /\ "events" \in Threads
      /\ Events \in GoroutineType /\ Events.pc = "idle"
  BY ThreadTypes, UserFacts DEF Base, Threads, Events
<1>2. Events.copy \in Indices \cup {0} /\ [Events EXCEPT !.pc = "begin"] =
        [Events EXCEPT !.pc = "begin", !.copy = Events.copy]
  BY <1>1 DEF GoroutineType
<1>3. goroutine' = [goroutine EXCEPT !["events"] = [Events EXCEPT !.pc = "begin"]]
  BY <1>1 DEF Then, Events
<1>4. QED
  BY <1>1, <1>2, <1>3, ThenPlaced

LEMMA DownFacts ==
  ASSUME Base, OnDialDown
  PROVE  /\ Base' /\ dial # None /\ dial' # None
         /\ dial'.pages = dial.pages /\ dial'.active = dial.active
         /\ dial'.current = dial.current /\ dial'.graphs = dial.graphs
         /\ Ticker' = Ticker /\ Events.pc = "idle" /\ Events'.pc = "begin" /\ Events'.bring = 0
         /\ UNCHANGED <<world, painted, runtime, copies, lost, overtaken>>
         /\ settled' = "no" /\ expected' = expected
<1>1. /\ User /\ Then("begin") /\ dial # None /\ dial' = [dial EXCEPT !.overview = ~@]
      /\ settled' = "no" /\ expected' = expected
      /\ UNCHANGED <<painted, runtime, copies, lost, overtaken>>
  BY DEF OnDialDown, Disturb
<1>2. dial \in DialType
  BY <1>1 DEF Base, TypeOK
<1>3. /\ dial' \in DialType /\ dial'.pages = dial.pages /\ dial'.active = dial.active
      /\ dial'.current = dial.current /\ dial'.graphs = dial.graphs /\ dial' # None
  <2>1. dial' \in DialType
    BY <1>1, <1>2 DEF DialType, WellFormed
  <2>2. QED
    BY <1>1, <1>2, <2>1, DialFacts DEF DialType
<1>4. /\ goroutine' \in [Threads -> GoroutineType] /\ Placed(goroutine', dial')
      /\ Ticker' = Ticker /\ Events'.pc = "begin" /\ Events'.bring = 0 /\ Events'.own = None
  BY <1>1, <1>3, ThenFacts
<1>5. UNCHANGED <<alarm, up, strip, worldly>> /\ uses' \in 0..MaxUser /\ Events.pc = "idle"
  BY <1>1, UserFacts
<1>6. QED
  BY <1>1, <1>3, <1>4, <1>5 DEF Base, TypeOK, runtime, copies, Threads, world

LEMMA RotateFacts ==
  ASSUME Base, NEW ticks \in {-1, 1}, OnDialRotate(ticks)
  PROVE  /\ Base' /\ dial # None /\ dial' # None
         /\ dial'.pages = dial.pages /\ dial'.current = dial.current
         /\ dial'.graphs = dial.graphs
         /\ Ticker' = Ticker /\ Events.pc = "idle" /\ Events'.pc = "save" /\ Events'.bring = 0
         /\ UNCHANGED <<world, painted, runtime, copies, lost, overtaken>>
         /\ settled' = "no"
         /\ expected' = IF Calm({}) /\ dial'.active \in DOMAIN dial.pages
                        THEN dial.pages[dial'.active] ELSE None
<1> DEFINE to == wrapDialIndex(dial.active, ticks, Len(dial.pages))
<1>1. /\ User /\ dial # None /\ dial' = [dial EXCEPT !.active = to]
      /\ goroutine' = [goroutine EXCEPT !["events"].pc = "save", !["events"].copy = to]
      /\ settled' = "no"
      /\ expected' = IF Calm({}) /\ to \in DOMAIN dial.pages THEN dial.pages[to] ELSE None
      /\ UNCHANGED <<painted, runtime, copies, lost, overtaken>>
  BY DEF OnDialRotate, Disturb
<1>2. dial \in DialType
  BY <1>1 DEF Base, TypeOK
<1>3. to \in Indices /\ to \in {1} \cup DOMAIN dial.pages /\ (dial.pages # <<>> => to \in DOMAIN dial.pages)
  <2>1. /\ dial.active \in Int /\ ticks \in Int /\ Len(dial.pages) \in Nat
        /\ DOMAIN dial.pages = 1..Len(dial.pages) /\ DOMAIN dial.pages \subseteq Indices
        /\ dial.pages = <<>> <=> Len(dial.pages) = 0
        /\ 1 \in Indices
    BY <1>2, DialFacts, PagesFit, PageCount DEF Indices
  <2> HIDE DEF to
  <2>2. /\ Len(dial.pages) = 0 => to = 1
        /\ Len(dial.pages) > 0 => to \in 1..Len(dial.pages)
    BY <2>1, WrapIn DEF to
  <2>3. QED
    BY <2>1, <2>2
<1> HIDE DEF to
<1>4. /\ dial' \in DialType /\ dial'.pages = dial.pages /\ dial'.active = to
      /\ dial'.current = dial.current /\ dial'.graphs = dial.graphs /\ dial' # None
  <2>1. dial' \in DialType
    BY <1>1, <1>2, <1>3, DialActive
  <2>2. QED
    BY <1>1, <1>2, <2>1, DialFacts DEF DialType
<1>5. Events.pc = "idle" /\ UNCHANGED <<alarm, up, strip, worldly>> /\ uses' \in 0..MaxUser
  BY <1>1, UserFacts
<1>6. goroutine' = [goroutine EXCEPT !["events"] = [Events EXCEPT !.pc = "save", !.copy = to]]
  <2>1. goroutine \in [Threads -> GoroutineType] /\ "events" \in Threads
    BY ThreadTypes DEF Base, Threads
  <2>2. QED
    BY <1>1, <2>1 DEF Events
<1>7. /\ goroutine' \in [Threads -> GoroutineType] /\ Placed(goroutine', dial')
      /\ Ticker' = Ticker /\ Events'.pc = "save" /\ Events'.bring = 0
  BY <1>1, <1>3, <1>4, <1>5, <1>6, ThenPlaced
<1>8. expected' \in Pages \cup {None}
  BY <1>1, <1>2, DialFacts, PagesFit
<1>9. QED
  BY <1>1, <1>4, <1>5, <1>7, <1>8 DEF Base, TypeOK, runtime, copies, Threads, world

LEMMA SaveRotationFacts ==
  ASSUME Base, SaveRotation
  PROVE  /\ Base' /\ dial # None /\ dial' = dial
         /\ Ticker' = Ticker /\ Events.pc = "save" /\ Events'.pc = "begin" /\ Events'.bring = 0
         /\ UNCHANGED <<world, painted, runtime, lost>>
         /\ ~overtaken' => saved' = SettingsOf(dial)
         /\ settled' = "no" /\ expected' = expected
<1> DEFINE copied == [SettingsOf(dial) EXCEPT !.active = goroutine["events"].copy]
<1>1. /\ Events.pc = "save" /\ saved' = copied /\ overtaken' = (copied.active # dial.active)
      /\ inspector' = copied /\ Then("begin") /\ settled' = "no" /\ expected' = expected
      /\ UNCHANGED <<world, dial, painted, runtime, strip, lost, bounds>>
  BY DEF SaveRotation, SetSettings, Disturb, Events
<1>2. dial # None /\ Events.copy \in {1} \cup DOMAIN dial.pages
  BY <1>1 DEF Base, Placed, Events
<1>3. dial \in DialType
  BY <1>2 DEF Base, TypeOK
<1>4. /\ SettingsOf(dial) \in SettingsType /\ dial.pages \in PageSeqs
      /\ dial.current \subseteq ToSet(dial.pages)
      /\ DOMAIN dial.pages = 1..Len(dial.pages) /\ DOMAIN dial.pages \subseteq Indices
      /\ Len(dial.pages) \in Nat /\ (dial.pages = <<>> <=> Len(dial.pages) = 0)
      /\ 1 \in Indices
  BY <1>3, DialFacts, PagesFit, PageCount DEF Indices
<1>5. copied = [pages |-> dial.pages, active |-> Events.copy, current |-> dial.current]
  BY DEF SettingsOf, Events
<1>6. Events.copy \in Indices /\ (dial.pages # <<>> => Events.copy \in DOMAIN dial.pages)
  BY <1>2, <1>4
<1>7. copied \in SettingsType
  BY <1>4, <1>5, <1>6, SettingsMade
<1>8. ~overtaken' => saved' = SettingsOf(dial)
  BY <1>1, <1>5 DEF SettingsOf
<1> HIDE DEF copied
<1>9. goroutine' = [goroutine EXCEPT !["events"] = [Events EXCEPT !.pc = "begin", !.copy = Events.copy]]
  <2>1. /\ goroutine \in [Threads -> GoroutineType] /\ "events" \in Threads
        /\ Events \in GoroutineType
    BY ThreadTypes DEF Base, Threads, Events
  <2>2. [Events EXCEPT !.pc = "begin"] = [Events EXCEPT !.pc = "begin", !.copy = Events.copy]
    BY <2>1 DEF GoroutineType
  <2>3. goroutine' = [goroutine EXCEPT !["events"] = [Events EXCEPT !.pc = "begin"]]
    BY <1>1, <2>1 DEF Then, Events
  <2>4. QED
    BY <2>2, <2>3
<1>10. /\ goroutine' \in [Threads -> GoroutineType] /\ Placed(goroutine', dial')
      /\ Ticker' = Ticker /\ Events'.pc = "begin" /\ Events'.bring = 0
  BY <1>1, <1>2, <1>3, <1>6, <1>9, ThenPlaced
<1>11. overtaken' \in BOOLEAN
  BY <1>1
<1>12. QED
  BY <1>1, <1>2, <1>7, <1>8, <1>10, <1>11 DEF Base, TypeOK, runtime, Threads, world, bounds

LEMMA TapFacts ==
  ASSUME Base, OnTouchTap
  PROVE  /\ Base' /\ dial # None /\ dial' # None
         /\ dial'.pages = dial.pages /\ dial'.active = dial.active /\ dial'.graphs = dial.graphs
         /\ Ticker' = Ticker /\ Events.pc = "idle" /\ Events'.pc = "begin" /\ Events'.bring = 0
         /\ UNCHANGED <<world, painted, lost>>
         /\ dial.active \in DOMAIN dial.pages
         /\ dirty' = dirty \cup {dial.active}
         /\ \A i \in Indices \ {dial.active} : snooze'[i] = snooze[i]
         /\ \/ dial' = dial /\ UNCHANGED <<saved, overtaken>>
            \/ saved' = SettingsOf(dial') /\ ~overtaken'
         /\ dial'.current \in {dial.current, dial.current \ {dial.pages[dial.active]}}
         /\ settled' = "no" /\ expected' = None
<1> DEFINE i == dial.active
           p == dial.pages[i]
<1>1. /\ User /\ dial # None /\ dial.pages # <<>> /\ (TouchSnooze(i) \/ TouchClear(i))
      /\ Then("begin") /\ settled' = "no" /\ expected' = None
      /\ UNCHANGED <<painted, inspector, lost>>
  BY DEF OnTouchTap, Disturb
<1>2. /\ dial \in DialType /\ i \in DOMAIN dial.pages /\ i \in Indices
      /\ dial.current \subseteq ToSet(dial.pages)
  <2>1. dial \in DialType
    BY <1>1 DEF Base, TypeOK
  <2>2. QED
    BY <1>1, <2>1, DialFacts
<1>3. /\ dial' \in DialType /\ dial' # None
      /\ dial'.pages = dial.pages /\ dial'.active = dial.active /\ dial'.graphs = dial.graphs
      /\ dial'.current \in {dial.current, dial.current \ {p}}
  <2>1. CASE TouchSnooze(i)
    BY <1>1, <1>2, <2>1 DEF TouchSnooze
  <2>2. CASE TouchClear(i)
    <3>1. dial' = [dial EXCEPT !.current = dial.current \ {p}]
      BY <2>2 DEF TouchClear
    <3>2. dial' \in DialType
      BY <1>2, <3>1, DialCurrent
    <3>3. QED
      BY <1>2, <3>1, <3>2, DialFacts DEF DialType
  <2>3. QED
    BY <1>1, <2>1, <2>2
<1>4. /\ goroutine' \in [Threads -> GoroutineType] /\ Placed(goroutine', dial')
      /\ Ticker' = Ticker /\ Events'.pc = "begin" /\ Events'.bring = 0 /\ Events'.own = None
  BY <1>1, <1>3, ThenFacts
<1>5. UNCHANGED <<alarm, up, strip, worldly>> /\ uses' \in 0..MaxUser /\ Events.pc = "idle"
  BY <1>1, UserFacts
<1>6. /\ dirty' = dirty \cup {i} /\ \A j \in Indices \ {i} : snooze'[j] = snooze[j]
      /\ snooze' \in [Indices -> {"off", "on", "expired"}] /\ dirty' \subseteq Indices
      /\ latch' \in [Indices -> [page : Pages \cup {None}, state : {"off", "latched", "suppressed"}]]
  <2>1. CASE TouchSnooze(i)
    BY <1>2, <2>1 DEF TouchSnooze, Base, TypeOK
  <2>2. CASE TouchClear(i)
    <3>1. /\ latch' = [latch EXCEPT ![i] = [latch[i] EXCEPT !.state = "suppressed"]]
          /\ snooze' = snooze /\ dirty' = dirty \cup {i}
      BY <2>2 DEF TouchClear
    <3>2. [latch[i] EXCEPT !.state = "suppressed"] \in
            [page : Pages \cup {None}, state : {"off", "latched", "suppressed"}]
      BY <1>2 DEF Base, TypeOK
    <3>3. QED
      BY <1>2, <3>1, <3>2 DEF Base, TypeOK
  <2>3. QED
    BY <1>1, <2>1, <2>2
<1>7. \/ dial' = dial /\ UNCHANGED <<saved, overtaken>>
      \/ saved' = SettingsOf(dial') /\ overtaken' = FALSE
  BY <1>1 DEF TouchSnooze, TouchClear, SetSettings
<1>8. saved' \in SettingsType /\ overtaken' \in BOOLEAN
  BY <1>3, <1>7, DialFacts DEF Base, TypeOK
<1> HIDE DEF p
<1>9. Base'
  BY <1>1, <1>3, <1>4, <1>5, <1>6, <1>8 DEF Base, TypeOK, Threads
<1>10. QED
  BY <1>1, <1>2, <1>3, <1>4, <1>5, <1>6, <1>7, <1>9 DEF world, p

LEMMA WorldBase ==
  ASSUME Base, World, alarm' \subseteq Pages, up' \in BOOLEAN, settled' = "no",
         snooze' \in [Indices -> {"off", "on", "expired"}], expected' \in Pages \cup {None}
  PROVE  Base'
<1>1. worldly' \in 0..MaxWorld
  BY DialBounds DEF World, Base, TypeOK
<1>2. QED
  BY <1>1 DEF World, Base, TypeOK, copies, Threads

LEMMA ReadBase ==
  ASSUME Base, NEW p \in Pages, Read(p)
  PROVE  Base'
<1>1. World /\ alarm' \subseteq Pages /\ UNCHANGED <<up, snooze>> /\ settled' = "no"
      /\ expected' \in {expected, p, None}
  BY DEF Read, Disturb, Base, TypeOK
<1>2. QED
  BY <1>1, WorldBase DEF Base, TypeOK

LEMMA OutageBase ==
  ASSUME Base, Outage
  PROVE  Base'
<1>1. World /\ up' \in BOOLEAN /\ UNCHANGED <<alarm, snooze>> /\ settled' = "no" /\ expected' = expected
  BY DEF Outage, Disturb, Base, TypeOK
<1>2. QED
  BY <1>1, WorldBase DEF Base, TypeOK

LEMMA ExpireBase ==
  ASSUME Base, NEW i \in Indices, Expire(i)
  PROVE  Base'
<1>1. /\ World /\ UNCHANGED <<alarm, up>> /\ settled' = "no" /\ expected' = None
      /\ snooze' = [snooze EXCEPT ![i] = "expired"]
  BY DEF Expire, Disturb
<1>2. snooze' \in [Indices -> {"off", "on", "expired"}]
  BY <1>1 DEF Base, TypeOK
<1>3. QED
  BY <1>1, <1>2, WorldBase DEF Base, TypeOK

LEMMA InitBase == Init => Base
<1> SUFFICES ASSUME Init PROVE Base
  OBVIOUS
<1>1. FirstPages \in PageSeqs
  BY PagesAssumption DEF PageSeqs
<1>2. 1 \in Indices /\ (FirstPages # <<>> => 1 \in DOMAIN FirstPages)
  BY <1>1, PagesFit, PageCount DEF Indices
<1>3. saved \in SettingsType
  BY <1>1, <1>2, SettingsMade DEF Init
<1>4. /\ painted \in [Graphs -> BOOLEAN] /\ strip \in ImageType
      /\ latch \in [Indices -> [page : Pages \cup {None}, state : {"off", "latched", "suppressed"}]]
      /\ snooze \in [Indices -> {"off", "on", "expired"}]
  BY MessageType DEF Init
<1>5. /\ goroutine = [g \in Threads |-> Resting]
      /\ goroutine \in [Threads -> GoroutineType]
  BY RestingType DEF Init, Threads
<1>6. Placed(goroutine, dial)
  BY <1>5 DEF Placed, InPlace, WorksOn, Working, Resting, Threads
<1>7. uses \in 0..MaxUser /\ worldly \in 0..MaxWorld
  BY DialBounds DEF Init
<1>8. QED
  BY <1>3, <1>4, <1>5, <1>6, <1>7 DEF Init, Base, TypeOK, Threads

LEMMA NextBase == Base /\ [Next]_vars => Base'
<1> SUFFICES ASSUME Base, [Next]_vars PROVE Base'
  OBVIOUS
<1>1. ASSUME NEW g \in {"ticker", "events"}, updateDialFeedback(g) PROVE Base'
  BY <1>1, FeedbackBase DEF Threads
<1>2. CASE handleDialWillAppear
  BY <1>2, AppearFacts
<1>3. CASE handleDialWillDisappear
  BY <1>3, DisappearFacts
<1>4. CASE handleDialPropertyInspectorConnected
  BY <1>4, ConnectedFacts
<1>5. ASSUME NEW s \in Edited(inspector), dialSetSettings(s) PROVE Base'
  BY <1>5, SettingsBase
<1>6. CASE OnDialDown
  BY <1>6, DownFacts
<1>7. ASSUME NEW ticks \in {-1, 1}, OnDialRotate(ticks) PROVE Base'
  BY <1>7, RotateFacts
<1>8. CASE SaveRotation
  BY <1>8, SaveRotationFacts
<1>9. CASE OnTouchTap
  BY <1>9, TapFacts
<1>10. ASSUME NEW p \in Pages, Read(p) PROVE Base'
  BY <1>10, ReadBase
<1>11. CASE Outage
  BY <1>11, OutageBase
<1>12. ASSUME NEW i \in Indices, Expire(i) PROVE Base'
  BY <1>12, ExpireBase
<1>13. CASE UNCHANGED vars
  BY <1>13 DEF vars, world, runtime, copies, history, bounds, Base, TypeOK, Threads
<1>14. QED
  BY <1>1, <1>2, <1>3, <1>4, <1>5, <1>6, <1>7, <1>8, <1>9, <1>10, <1>11, <1>12, <1>13
     DEF Next

-----------------------------------------------------------------------------
(* What is saved.                                                          *)

\* A page whose alert is as it was is shown as it was.
LEMMA NotRepainted ==
  ASSUME NEW o \in DialType, NEW i, AlertAt(i, o) <=> o.pages[i] \in o.current
  PROVE  LookedAt(i, o) = o
<1> DEFINE c == IF AlertAt(i, o) THEN o.current \cup {o.pages[i]} ELSE o.current \ {o.pages[i]}
<1>1. c = o.current
  OBVIOUS
<1>2. LookedAt(i, o) = [o EXCEPT !.current = c]
  BY DEF LookedAt
<1> HIDE DEF c
<1>3. QED
  BY <1>1, <1>2 DEF DialType

\* Other goroutines go on owing what they owe.
LEMMA OwesStill ==
  ASSUME SavedInv, NEW g \in Threads, dial' = dial, UNCHANGED <<saved, overtaken>>,
         \A u \in Threads \ {g} : goroutine'[u] = goroutine[u],
         Owes(goroutine[g]) => Owes(goroutine'[g]), goroutine[g].pc # "save"
  PROVE  SavedInv'
BY DEF SavedInv, Threads, Events

LEMMA FeedbackSaved ==
  ASSUME Base, SavedInv, NEW g \in Threads, updateDialFeedback(g)
  PROVE  SavedInv'
<1>1. CASE Begin(g)
  <2>1. /\ dial' = dial /\ \A u \in Threads \ {g} : goroutine'[u] = goroutine[u]
        /\ goroutine[g].pc \in {"idle", "begin"}
    BY <1>1, BeginFacts
  <2>2. UNCHANGED <<saved, overtaken>>
    BY <1>1 DEF Begin, copies
  <2>3. QED
    BY <2>1, <2>2, OwesStill DEF Owes
<1>2. CASE Enter(g)
  <2>1. /\ dial' = dial /\ \A u \in Threads \ {g} : goroutine'[u] = goroutine[u]
        /\ goroutine[g].pc = "enter" /\ goroutine'[g].pc = "look"
        /\ goroutine[g].own = None => goroutine'[g].own = None
        /\ goroutine'[g].changed = goroutine[g].changed
    BY <1>2, EnterFacts
  <2>2. UNCHANGED <<saved, overtaken>>
    BY <1>2 DEF Enter, copies
  <2>3. QED
    BY <2>1, <2>2, OwesStill DEF Owes
<1>3. CASE LookUnavailable(g)
  <2>1. /\ dial' = dial /\ \A u \in Threads \ {g} : goroutine'[u] = goroutine[u]
        /\ goroutine[g].pc = "look" /\ goroutine'[g].pc \in {"enter", "finish"}
        /\ goroutine[g].own = None <=> goroutine'[g].own = None
        /\ goroutine'[g].changed = goroutine[g].changed
    BY <1>3, UnavailableFacts
  <2>2. UNCHANGED <<saved, overtaken>>
    BY <1>3 DEF LookUnavailable, copies
  <2>3. QED
    BY <2>1, <2>2, OwesStill DEF Owes
<1>4. CASE Look(g)
  <2> DEFINE i == goroutine[g].i
             o == Obj(g)
  <2>0. i = goroutine[g].i /\ o = Obj(g)
    OBVIOUS
  <2> HIDE DEF i, o
  <2>1. /\ \A u \in Threads \ {g} : goroutine'[u] = goroutine[u]
        /\ dial' = IF goroutine[g].own = None THEN LookedAt(i, o) ELSE dial
        /\ goroutine[g].own = None <=> goroutine'[g].own = None
        /\ goroutine'[g].pc \in {"enter", "finish"}
        /\ goroutine'[g].changed <=> goroutine[g].changed \/ RepaintAt(i, o)
    <3>1. \E render \in ImageType : LookedOn(goroutine[g], i, o, goroutine'[g], render)
      BY <1>4, <2>0, LookStep
    <3>2. goroutine'[g].changed <=> goroutine[g].changed \/ RepaintAt(i, o)
      BY <3>1 DEF LookedOn
    <3>3. QED
      BY <1>4, <2>0, <3>2, LookStep
  <2>2. UNCHANGED <<saved, overtaken>> /\ goroutine[g].pc = "look"
    BY <1>4 DEF Look, copies
  <2>3. CASE goroutine[g].own # None
    BY <2>1, <2>2, <2>3, OwesStill DEF Owes
  <2>4. CASE goroutine[g].own = None /\ RepaintAt(i, o)
    BY <2>1, <2>4 DEF SavedInv, Owes
  <2>5. CASE goroutine[g].own = None /\ ~RepaintAt(i, o)
    <3>1. o = dial /\ o \in DialType
      BY <1>4, <2>0, <2>2, <2>5, ObjType DEF Obj, Working
    <3>2. dial' = dial
      BY <2>1, <2>5, <3>1, NotRepainted DEF RepaintAt
    <3>3. QED
      BY <2>1, <2>2, <2>5, <3>2, OwesStill DEF Owes
  <2>6. QED
    BY <2>3, <2>4, <2>5
<1>5. CASE Finish(g)
  <2>1. /\ \A u \in Threads \ {g} : goroutine'[u] = goroutine[u]
        /\ goroutine[g].pc = "finish"
        /\ dial' = IF goroutine[g].own = None /\ MovedAt(g)
                   THEN [dial EXCEPT !.active = goroutine[g].bring] ELSE dial
        /\ goroutine[g].changed \/ MovedAt(g) =>
             /\ overtaken' <=> goroutine[g].own # None
             /\ goroutine[g].own = None => saved' = SettingsOf(dial')
        /\ ~(goroutine[g].changed \/ MovedAt(g)) => UNCHANGED <<saved, overtaken>>
    BY <1>5, FinishFacts
  <2>2. CASE goroutine[g].changed \/ MovedAt(g)
    BY <2>1, <2>2 DEF SavedInv
  <2>3. CASE ~(goroutine[g].changed \/ MovedAt(g))
    BY <2>1, <2>3, OwesStill DEF Owes
  <2>4. QED
    BY <2>2, <2>3
<1>6. CASE Send(g)
  <2>1. /\ dial' = dial /\ \A u \in Threads \ {g} : goroutine'[u] = goroutine[u]
        /\ goroutine[g].pc = "send"
    BY <1>6, SendFacts
  <2>2. UNCHANGED <<saved, overtaken>>
    BY <1>6 DEF Send, copies
  <2>3. QED
    BY <2>1, <2>2, OwesStill DEF Owes
<1>7. QED
  BY <1>1, <1>2, <1>3, <1>4, <1>5, <1>6 DEF updateDialFeedback

\* The settings that are saved are those of the dial, or somebody will save them.
LEMMA NextSaved == Base /\ SavedInv /\ [Next]_vars => SavedInv'
<1> SUFFICES ASSUME Base, SavedInv, [Next]_vars PROVE SavedInv'
  OBVIOUS
<1>1. ASSUME NEW g \in {"ticker", "events"}, updateDialFeedback(g) PROVE SavedInv'
  BY <1>1, FeedbackSaved DEF Threads
<1>2. CASE handleDialWillAppear
  BY <1>2, AppearFacts DEF Installed, handleDialWillAppear, copies, SavedInv
<1>3. CASE handleDialWillDisappear
  BY <1>3 DEF handleDialWillDisappear, SavedInv
<1>4. CASE handleDialPropertyInspectorConnected
  BY <1>4 DEF handleDialPropertyInspectorConnected, SavedInv, Events
<1>5. ASSUME NEW s \in Edited(inspector), dialSetSettings(s) PROVE SavedInv'
  BY <1>5, SettingsBase DEF Installed, SavedInv
<1>6. CASE OnDialDown
  <2>1. /\ dial'.pages = dial.pages /\ dial'.active = dial.active /\ dial # None
        /\ dial'.current = dial.current /\ Ticker' = Ticker /\ Events.pc = "idle"
        /\ saved' = saved /\ overtaken' = overtaken
    BY <1>6, DownFacts DEF copies
  <2>2. QED
    BY <2>1 DEF SavedInv, Owes, Threads, Ticker, Events, SettingsOf
<1>7. ASSUME NEW ticks \in {-1, 1}, OnDialRotate(ticks) PROVE SavedInv'
  BY <1>7, RotateFacts DEF SavedInv
<1>8. CASE SaveRotation
  BY <1>8, SaveRotationFacts DEF SavedInv
<1>9. CASE OnTouchTap
  <2>1. /\ dial # None /\ Ticker' = Ticker /\ Events.pc = "idle"
        /\ \/ dial' = dial /\ UNCHANGED <<saved, overtaken>>
           \/ saved' = SettingsOf(dial') /\ ~overtaken'
    BY <1>9, TapFacts
  <2>2. QED
    BY <2>1 DEF SavedInv, Owes, Threads, Ticker, Events
<1>10. CASE World
  BY <1>10 DEF World, SavedInv, copies, Events
<1>11. CASE UNCHANGED vars
  BY <1>11 DEF vars, world, runtime, copies, history, bounds, SavedInv, Events
<1>12. QED
  BY <1>1, <1>2, <1>3, <1>4, <1>5, <1>6, <1>7, <1>8, <1>9, <1>10, <1>11
     DEF Next, Read, Outage, Expire

-----------------------------------------------------------------------------
(* The colours.                                                            *)

\* The dial has the pages, the graphs and the alerts that it had.
SamePages ==
  /\ dial' = None <=> dial = None
  /\ dial # None => /\ dial'.pages = dial.pages /\ dial'.current = dial.current
                    /\ dial'.graphs = dial.graphs

LEMMA ColorsStill ==
  ASSUME ColorsInv, SamePages, UNCHANGED <<painted, snooze, dirty, lost>>
  PROVE  ColorsInv'
BY DEF ColorsInv, SamePages, ColoredAt

\* What a look at page i does to the others.
LEMMA LookElsewhere ==
  ASSUME Base, NEW g \in Threads, NEW i, NEW o, LooksAt(g, i, o),
         NEW j \in Indices \ {i}, NEW k \in {0, 1}
  PROVE  /\ painted'[<<j, k>>] = painted[<<j, k>>] /\ snooze'[j] = snooze[j]
         /\ latch'[j] = latch[j] /\ (j \in dirty' <=> j \in dirty) /\ (j \in lost' <=> j \in lost)
<1>1. <<j, k>> \in Graphs /\ <<j, k>> # <<i, o.graphs[i]>> /\ i \in Indices
      /\ <<i, o.graphs[i]>> \in Graphs
  BY DEF Graphs, LooksAt
<1>2. painted'[<<j, k>>] = painted[<<j, k>>]
  <2> DEFINE a == <<j, k>>
             b == <<i, o.graphs[i]>>
  <2>1. painted \in [Graphs -> BOOLEAN] /\ a # b /\ a \in Graphs
        /\ painted' = IF RepaintAt(i, o)
                      THEN [painted EXCEPT ![b] = AlertAt(i, o) /\ snooze[i] # "on"]
                      ELSE painted
    BY <1>1 DEF LooksAt, Base, TypeOK
  <2> HIDE DEF a, b
  <2>2. painted'[a] = painted[a]
    BY <2>1
  <2>3. QED
    BY <2>2 DEF a
<1>3. snooze'[j] = snooze[j] /\ latch'[j] = latch[j]
  BY <1>1 DEF LooksAt, Base, TypeOK
<1>4. (j \in dirty' <=> j \in dirty) /\ (j \in lost' <=> j \in lost)
  BY DEF LooksAt
<1>5. QED
  BY <1>2, <1>3, <1>4

\* Page i itself, when the look paints its graph ...
LEMMA LookPaints ==
  ASSUME Base, NEW g \in Threads, NEW i, NEW o, LooksAt(g, i, o), RepaintAt(i, o)
  PROVE  /\ painted'[<<i, o.graphs[i]>>] <=> AlertAt(i, o) /\ snooze[i] # "on"
         /\ snooze[i] = "expired" => snooze'[i] = "off" /\ i \in dirty'
         /\ snooze[i] # "expired" => snooze'[i] = snooze[i] /\ i \notin dirty'
         /\ latch'[i] = LatchAt(i, o)
         /\ i \in lost' <=> goroutine[g].own # None
<1>1. /\ painted \in [Graphs -> BOOLEAN] /\ <<i, o.graphs[i]>> \in Graphs /\ i \in Indices
      /\ painted' = [painted EXCEPT ![<<i, o.graphs[i]>>] = AlertAt(i, o) /\ snooze[i] # "on"]
  BY DEF LooksAt, Base, TypeOK
<1>2. painted'[<<i, o.graphs[i]>>] = (AlertAt(i, o) /\ snooze[i] # "on")
  <2> DEFINE b == <<i, o.graphs[i]>>
             v == AlertAt(i, o) /\ snooze[i] # "on"
  <2>1. b \in Graphs /\ painted' = [painted EXCEPT ![b] = v]
    BY <1>1
  <2> HIDE DEF b, v
  <2>2. painted'[b] = v
    BY <1>1, <2>1
  <2>3. QED
    BY <2>2 DEF b, v
<1>3. /\ snooze[i] = "expired" => snooze'[i] = "off" /\ i \in dirty'
      /\ snooze[i] # "expired" => snooze'[i] = snooze[i] /\ i \notin dirty'
      /\ latch'[i] = LatchAt(i, o)
  BY <1>1 DEF LooksAt, Base, TypeOK
<1>4. i \in lost' <=> goroutine[g].own # None
  BY DEF LooksAt
<1>5. QED
  BY <1>2, <1>3, <1>4

\* ... and when it does not.
LEMMA LookLeaves ==
  ASSUME Base, NEW g \in Threads, NEW i, NEW o, LooksAt(g, i, o), ~RepaintAt(i, o)
  PROVE  /\ UNCHANGED <<painted, snooze, lost, dirty>>
         /\ i \notin dirty /\ snooze[i] # "expired" /\ latch'[i] = LatchAt(i, o)
         /\ AlertAt(i, o) <=> o.pages[i] \in o.current
<1>1. /\ UNCHANGED <<painted, snooze, lost, dirty>> /\ i \notin dirty /\ snooze[i] # "expired"
      /\ AlertAt(i, o) <=> o.pages[i] \in o.current
  BY DEF LooksAt, RepaintAt
<1>2. latch'[i] = LatchAt(i, o)
  BY DEF LooksAt, Base, TypeOK
<1>3. QED
  BY <1>1, <1>2

\* What it does to the settings it works on.
LEMMA LookedFacts ==
  ASSUME NEW o \in DialType, NEW i \in DOMAIN o.pages
  PROVE  /\ LookedAt(i, o).pages = o.pages /\ LookedAt(i, o).graphs = o.graphs
         /\ LookedAt(i, o).active = o.active /\ LookedAt(i, o).overview = o.overview
         /\ o.pages[i] \in LookedAt(i, o).current <=> AlertAt(i, o)
         /\ \A j \in DOMAIN o.pages \ {i} :
              o.pages[j] \in LookedAt(i, o).current <=> o.pages[j] \in o.current
<1> DEFINE c == IF AlertAt(i, o) THEN o.current \cup {o.pages[i]} ELSE o.current \ {o.pages[i]}
<1>1. /\ o.pages[i] \in c <=> AlertAt(i, o)
      /\ \A j \in DOMAIN o.pages \ {i} : o.pages[j] \in c <=> o.pages[j] \in o.current
  <2>1. \A j \in DOMAIN o.pages \ {i} : o.pages[j] # o.pages[i]
    BY DialFacts, PagesFit
  <2>2. QED
    BY <2>1
<1>2. LookedAt(i, o) = [o EXCEPT !.current = c]
  BY DEF LookedAt
<1> HIDE DEF c
<1>3. /\ LookedAt(i, o).pages = o.pages /\ LookedAt(i, o).graphs = o.graphs
      /\ LookedAt(i, o).active = o.active /\ LookedAt(i, o).overview = o.overview
      /\ LookedAt(i, o).current = c
  BY <1>2 DEF DialType
<1>4. QED
  BY <1>1, <1>3

LEMMA LookColors ==
  ASSUME Base, ColorsInv, NEW g \in Threads, Look(g)
  PROVE  ColorsInv'
<1> DEFINE i == goroutine[g].i
           o == Obj(g)
<1>0. i = goroutine[g].i /\ o = Obj(g)
  OBVIOUS
<1> HIDE DEF i, o
<1>1. /\ LooksAt(g, i, o) /\ o \in DialType /\ i \in DOMAIN o.pages
      /\ dial' = IF goroutine[g].own = None THEN LookedAt(i, o) ELSE dial
      /\ goroutine[g].own = None => o = dial
  <2>1. LooksAt(g, i, o)
    BY <1>0, LookFacts
  <2>2. dial' = IF goroutine[g].own = None THEN LookedAt(i, o) ELSE dial
    BY <1>0, LookStep
  <2>3. QED
    BY <1>0, <2>1, <2>2 DEF LooksAt, Obj
<1> SUFFICES ASSUME dial' # None, NEW j \in DOMAIN dial'.pages
             PROVE  ColoredAt(j, dial', painted', snooze', dirty', lost')
  BY DEF ColorsInv
<1>2. dial \in DialType /\ dial'.pages = dial.pages /\ dial'.graphs = dial.graphs /\ dial # None
  <2>1. CASE goroutine[g].own = None
    BY <1>1, <2>1, LookedFacts, DialFacts
  <2>2. CASE goroutine[g].own # None
    BY <1>1, <2>2 DEF Base, TypeOK
  <2>3. QED
    BY <2>1, <2>2
<1>3. ColoredAt(j, dial, painted, snooze, dirty, lost) /\ j \in DOMAIN dial.pages
      /\ j \in Indices /\ dial.graphs[j] \in {0, 1}
  BY <1>2, DialFacts, PagesFit DEF ColorsInv
<1>4. CASE j # i
  <2>1. /\ painted'[<<j, dial.graphs[j]>>] = painted[<<j, dial.graphs[j]>>]
        /\ snooze'[j] = snooze[j] /\ (j \in dirty' <=> j \in dirty) /\ (j \in lost' <=> j \in lost)
    <3> DEFINE k == dial.graphs[j]
    <3>1. k \in {0, 1} /\ j \in Indices \ {i}
      BY <1>3, <1>4
    <3> HIDE DEF k
    <3>2. /\ painted'[<<j, k>>] = painted[<<j, k>>]
          /\ snooze'[j] = snooze[j] /\ (j \in dirty' <=> j \in dirty) /\ (j \in lost' <=> j \in lost)
      BY <1>1, <3>1, LookElsewhere
    <3>3. QED
      BY <3>2 DEF k
  <2>2. dial.pages[j] \in dial'.current <=> dial.pages[j] \in dial.current
    <3>1. CASE goroutine[g].own = None
      BY <1>1, <1>3, <1>4, <3>1, LookedFacts
    <3>2. CASE goroutine[g].own # None
      BY <1>1, <3>2
    <3>3. QED
      BY <3>1, <3>2
  <2>3. QED
    BY <1>2, <1>3, <2>1, <2>2 DEF ColoredAt
<1>5. CASE j = i /\ RepaintAt(i, o)
  <2>1. /\ painted'[<<i, o.graphs[i]>>] <=> AlertAt(i, o) /\ snooze[i] # "on"
        /\ snooze[i] = "expired" => snooze'[i] = "off" /\ i \in dirty'
        /\ snooze[i] # "expired" => snooze'[i] = snooze[i] /\ i \notin dirty'
        /\ i \in lost' <=> goroutine[g].own # None
    BY <1>1, <1>5, LookPaints
  <2>2. CASE goroutine[g].own # None
    BY <1>5, <2>1, <2>2 DEF ColoredAt
  <2>3. CASE goroutine[g].own = None
    <3>1. o = dial /\ (dial.pages[i] \in dial'.current <=> AlertAt(i, dial))
      BY <1>1, <2>3, LookedFacts
    <3>2. snooze[i] \in {"off", "on", "expired"}
      BY <1>3, <1>5 DEF Base, TypeOK
    <3>3. QED
      BY <1>2, <1>5, <2>1, <3>1, <3>2 DEF ColoredAt
  <2>4. QED
    BY <2>2, <2>3
<1>6. CASE j = i /\ ~RepaintAt(i, o)
  <2>1. UNCHANGED <<painted, snooze, lost, dirty>>
    BY <1>1, <1>6, LookLeaves
  <2>2. dial' = dial
    BY <1>1, <1>6, NotRepainted DEF RepaintAt
  <2>3. QED
    BY <1>3, <2>1, <2>2
<1>7. QED
  BY <1>4, <1>5, <1>6

LEMMA FeedbackSamePages ==
  ASSUME Base, NEW g \in Threads,
         Begin(g) \/ Enter(g) \/ LookUnavailable(g) \/ Finish(g) \/ Send(g)
  PROVE  SamePages /\ UNCHANGED <<painted, latch, snooze, dirty, lost, alarm, up>>
<1>1. CASE Begin(g)
  BY <1>1, BeginFacts DEF SamePages, Begin, runtime, world
<1>2. CASE Enter(g)
  BY <1>2, EnterFacts DEF SamePages, Enter, runtime, world
<1>3. CASE LookUnavailable(g)
  BY <1>3, UnavailableFacts DEF SamePages, LookUnavailable, runtime, world
<1>4. CASE Finish(g)
  <2>1. /\ dial' \in DialType \cup {None}
        /\ dial' = IF goroutine[g].own = None /\ MovedAt(g)
                   THEN [dial EXCEPT !.active = goroutine[g].bring] ELSE dial
        /\ goroutine[g].pc = "finish"
    BY <1>4, FinishFacts DEF StepTyped
  <2>2. UNCHANGED <<painted, latch, snooze, dirty, lost, alarm, up>>
    BY <1>4 DEF Finish, runtime, world
  <2>3. CASE goroutine[g].own = None /\ MovedAt(g)
    <3>1. dial \in DialType /\ goroutine[g].bring \in DOMAIN dial.pages
      BY <2>1, <2>3, ObjType DEF Obj, Working, WorksOn, MovedAt
    <3>2. /\ dial'.pages = dial.pages /\ dial'.current = dial.current
          /\ dial'.graphs = dial.graphs /\ dial' \in DialType
      BY <2>1, <2>3, <3>1, DialActive, DialFacts, PagesFit DEF DialType
    <3>3. QED
      BY <2>2, <3>1, <3>2, DialFacts DEF SamePages
  <2>4. CASE ~(goroutine[g].own = None /\ MovedAt(g))
    BY <2>1, <2>2, <2>4 DEF SamePages
  <2>5. QED
    BY <2>3, <2>4
<1>5. CASE Send(g)
  BY <1>5, SendFacts DEF SamePages, Send, runtime, world
<1>6. QED
  BY <1>1, <1>2, <1>3, <1>4, <1>5

LEMMA InstalledColors ==
  ASSUME NEW s, Installed(s)
  PROVE  ColorsInv'
<1>1. dial'.pages = s.pages /\ dial'.current = s.current
  BY DEF Installed, SettingsOf
<1>2. QED
  BY <1>1 DEF Installed, ColorsInv, ColoredAt

\* Each graph has its colours, but for marks that are not consumed yet and for what is lost.
LEMMA NextColors == Base /\ ColorsInv /\ [Next]_vars => ColorsInv'
<1> SUFFICES ASSUME Base, ColorsInv, [Next]_vars PROVE ColorsInv'
  OBVIOUS
<1>1. ASSUME NEW g \in {"ticker", "events"}, updateDialFeedback(g) PROVE ColorsInv'
  BY <1>1, FeedbackSamePages, ColorsStill, LookColors DEF Threads, updateDialFeedback
<1>2. CASE handleDialWillAppear
  BY <1>2, AppearFacts, InstalledColors
<1>3. CASE handleDialWillDisappear
  BY <1>3 DEF handleDialWillDisappear, ColorsInv
<1>4. CASE handleDialPropertyInspectorConnected
  BY <1>4, ColorsStill DEF handleDialPropertyInspectorConnected, SamePages, runtime
<1>5. ASSUME NEW s \in Edited(inspector), dialSetSettings(s) PROVE ColorsInv'
  BY <1>5, SettingsBase, InstalledColors
<1>6. CASE OnDialDown
  BY <1>6, DownFacts, ColorsStill DEF SamePages, runtime
<1>7. ASSUME NEW ticks \in {-1, 1}, OnDialRotate(ticks) PROVE ColorsInv'
  BY <1>7, RotateFacts, ColorsStill DEF SamePages, runtime
<1>8. CASE SaveRotation
  BY <1>8, SaveRotationFacts, ColorsStill DEF SamePages, runtime
<1>9. CASE OnTouchTap
  <2>1. /\ dial # None /\ dial' # None
        /\ dial'.pages = dial.pages /\ dial'.graphs = dial.graphs
        /\ painted' = painted /\ lost' = lost /\ dirty' = dirty \cup {dial.active}
        /\ dial.active \in DOMAIN dial.pages
        /\ \A i \in Indices \ {dial.active} : snooze'[i] = snooze[i]
        /\ dial'.current \in {dial.current, dial.current \ {dial.pages[dial.active]}}
    BY <1>9, TapFacts
  <2>2. /\ DOMAIN dial.pages \subseteq Indices
        /\ \A j \in DOMAIN dial.pages \ {dial.active} : dial.pages[j] # dial.pages[dial.active]
    BY <2>1, DialFacts, PagesFit DEF Base, TypeOK
  <2>3. QED
    BY <2>1, <2>2 DEF ColorsInv, ColoredAt
<1>10. ASSUME NEW p \in Pages, Read(p) PROVE ColorsInv'
  BY <1>10, ColorsStill DEF Read, World, SamePages
<1>11. CASE Outage
  BY <1>11, ColorsStill DEF Outage, World, SamePages
<1>12. ASSUME NEW i \in Indices, Expire(i) PROVE ColorsInv'
  <2>1. /\ UNCHANGED <<dial, painted, dirty, lost>>
        /\ snooze' = [snooze EXCEPT ![i] = "expired"]
        /\ snooze \in [Indices -> {"off", "on", "expired"}]
    BY <1>12 DEF Expire, World, Base, TypeOK
  <2>2. dial # None => DOMAIN dial.pages \subseteq Indices
    BY DialFacts, PagesFit DEF Base, TypeOK
  <2>3. QED
    BY <2>1, <2>2 DEF ColorsInv, ColoredAt
<1>13. CASE UNCHANGED vars
  BY <1>13, ColorsStill DEF vars, runtime, history, SamePages
<1>14. QED
  BY <1>1, <1>2, <1>3, <1>4, <1>5, <1>6, <1>7, <1>8, <1>9, <1>10, <1>11, <1>12, <1>13
     DEF Next

-----------------------------------------------------------------------------
(* A pass of the ticker.                                                   *)

\* Only the ticker's steps leave a pass undisturbed.
LEMMA OnlyTicker ==
  ASSUME [Next]_vars, settled' # "no"
  PROVE  \/ /\ updateDialFeedback("ticker")
            /\ Begin("ticker") => goroutine["events"].pc = "idle"
         \/ UNCHANGED vars
<1>1. ASSUME NEW g \in {"ticker", "events"}, updateDialFeedback(g)
      PROVE  g = "ticker" /\ (Begin(g) => goroutine["events"].pc = "idle")
  <2>1. CASE Begin(g)
    BY <2>1 DEF Begin
  <2>2. CASE Enter(g) \/ LookUnavailable(g) \/ Finish(g) \/ Send(g)
    BY <2>2 DEF Enter, LookUnavailable, Finish, Send, Proceeds, Begin
  <2>3. CASE Look(g)
    <3>1. Proceeds(g) /\ goroutine[g].pc = "look"
      BY <2>3 DEF Look
    <3>2. QED
      BY <3>1 DEF Proceeds, Begin
  <2>4. QED
    BY <1>1, <2>1, <2>2, <2>3 DEF updateDialFeedback
<1>2. ASSUME NEW s \in Edited(inspector) PROVE ~dialSetSettings(s)
  BY DEF dialSetSettings, Disturb
<1>3. ~handleDialWillAppear /\ ~handleDialWillDisappear /\ ~handleDialPropertyInspectorConnected
  BY DEF handleDialWillAppear, handleDialWillDisappear, handleDialPropertyInspectorConnected, Disturb
<1>4. ~OnDialDown /\ ~SaveRotation /\ ~OnTouchTap /\ ~Outage
  BY DEF OnDialDown, SaveRotation, OnTouchTap, Outage, Disturb
<1>5. \A ticks \in {-1, 1} : ~OnDialRotate(ticks)
  BY DEF OnDialRotate, Disturb
<1>6. (\A p \in Pages : ~Read(p)) /\ (\A i \in Indices : ~Expire(i))
  BY DEF Read, Expire, Disturb
<1>7. QED
  BY <1>1, <1>2, <1>3, <1>4, <1>5, <1>6 DEF Next

\* The ticker works on the dial.
LEMMA TickerInPass ==
  ASSUME Base, PassInv, settled # "no"
  PROVE  /\ dial # None /\ dial \in DialType /\ Events.pc = "idle" /\ Ticker.own = None
         /\ goroutine["ticker"] = Ticker /\ Obj("ticker") = dial /\ "ticker" \in Threads
         /\ DOMAIN dial.pages = 1..Len(dial.pages) /\ DOMAIN dial.pages \subseteq Indices
         /\ Len(dial.pages) \in Nat /\ dial.active \in Nat \ {0} /\ Ticker.i \in Nat
         /\ dial.pages # <<>> => dial.active \in DOMAIN dial.pages
         /\ Ticker.pc \in {"finish", "send"} => Ticker.i = Len(dial.pages) + 1
         /\ Ticker.pc \in Working => dial.pages # <<>>
<1>1. dial # None /\ Events.pc = "idle" /\ Ticker.own = None /\ goroutine["ticker"] = Ticker
  BY DEF PassInv, Ticker
<1>2. dial \in DialType /\ Obj("ticker") = dial /\ "ticker" \in Threads
  BY <1>1 DEF Base, TypeOK, Obj, Threads, Ticker
<1>3. WorksOn(Ticker, dial) /\ Ticker \in GoroutineType
  BY <1>1, <1>2, ObjType, ThreadTypes DEF Base
<1>4. /\ DOMAIN dial.pages = 1..Len(dial.pages) /\ DOMAIN dial.pages \subseteq Indices
      /\ Len(dial.pages) \in Nat /\ dial.active \in Indices
      /\ dial.pages # <<>> => dial.active \in DOMAIN dial.pages
  BY <1>2, DialFacts, PagesFit
<1>5. dial.active \in Nat \ {0} /\ Ticker.i \in Nat
  BY <1>3, <1>4, PageCount DEF GoroutineType, Indices
<1>6. QED
  BY <1>1, <1>2, <1>3, <1>4, <1>5 DEF WorksOn, Working

\* A page that the ticker looks at is done ...
LEMMA LookIsDone ==
  ASSUME Base, ColorsInv, dial \in DialType, goroutine["ticker"].own = None,
         NEW i \in DOMAIN dial.pages, LooksAt("ticker", i, dial), dial' = LookedAt(i, dial)
  PROVE  DoneAt(i, dial', alarm, latch', painted', snooze', dirty', lost')
<1> DEFINE p == dial.pages[i]
           graph == <<i, dial.graphs[i]>>
<1>1. /\ dial'.pages = dial.pages /\ dial'.graphs = dial.graphs
      /\ p \in dial'.current <=> AlertAt(i, dial)
  BY LookedFacts
<1>2. i \in Indices /\ snooze[i] \in {"off", "on", "expired"} /\ "ticker" \in Threads
  BY DEF LooksAt, Base, TypeOK, Threads
<1>3. AlertIn(alarm, latch'[i], p) <=> AlertAt(i, dial)
  <2>1. latch'[i] = LatchAt(i, dial)
    BY <1>2 DEF LooksAt, Base, TypeOK
  <2>2. QED
    BY <2>1, EvaluateTwice DEF LatchAt, AlertAt
<1>4. CASE RepaintAt(i, dial)
  <2>1. /\ painted'[graph] <=> AlertAt(i, dial) /\ snooze[i] # "on"
        /\ snooze[i] = "expired" => snooze'[i] = "off" /\ i \in dirty'
        /\ snooze[i] # "expired" => snooze'[i] = snooze[i] /\ i \notin dirty'
        /\ i \notin lost'
    BY <1>2, <1>4, LookPaints
  <2>2. QED
    BY <1>1, <1>2, <1>3, <2>1 DEF DoneAt, QuietAt, ShowsAt
<1>5. CASE ~RepaintAt(i, dial)
  <2>1. /\ UNCHANGED <<painted, snooze, lost, dirty>> /\ i \notin dirty /\ snooze[i] # "expired"
        /\ AlertAt(i, dial) <=> dial.pages[i] \in dial.current
    BY <1>2, <1>5, LookLeaves
  <2>2. ColoredAt(i, dial, painted, snooze, dirty, lost)
    BY DialFacts DEF ColorsInv
  <2>3. QED
    BY <1>1, <1>3, <2>1, <2>2 DEF DoneAt, QuietAt, ShowsAt, ColoredAt
<1>6. QED
  BY <1>4, <1>5

\* ... and one that it does not look at stays as it is.
LEMMA LookElsewhereDone ==
  ASSUME Base, dial \in DialType,
         NEW i \in DOMAIN dial.pages, LooksAt("ticker", i, dial), dial' = LookedAt(i, dial),
         NEW j \in DOMAIN dial.pages \ {i}
  PROVE  /\ painted'[<<j, dial.graphs[j]>>] = painted[<<j, dial.graphs[j]>>]
         /\ snooze'[j] = snooze[j] /\ latch'[j] = latch[j]
         /\ (j \in dirty' <=> j \in dirty) /\ (j \in lost' <=> j \in lost)
         /\ Done(j) => DoneAt(j, dial', alarm, latch', painted', snooze', dirty', lost')
<1> DEFINE k == dial.graphs[j]
<1>1. k \in {0, 1} /\ j \in Indices \ {i} /\ "ticker" \in Threads
  BY DialFacts, PagesFit DEF Threads
<1>2. /\ dial'.pages = dial.pages /\ dial'.graphs = dial.graphs
      /\ dial.pages[j] \in dial'.current <=> dial.pages[j] \in dial.current
  BY LookedFacts
<1> HIDE DEF k
<1>3. /\ painted'[<<j, k>>] = painted[<<j, k>>] /\ snooze'[j] = snooze[j]
      /\ latch'[j] = latch[j] /\ (j \in dirty' <=> j \in dirty) /\ (j \in lost' <=> j \in lost)
  BY <1>1, LookElsewhere
<1>4. QED
  BY <1>2, <1>3 DEF Done, DoneAt, QuietAt, ShowsAt, k

LEMMA TickerLooks ==
  ASSUME Base, ColorsInv, PassInv, settled # "no", Look("ticker"), NEW i, i = Ticker.i
  PROVE  /\ i \in DOMAIN dial.pages /\ LooksAt("ticker", i, dial) /\ dial' = LookedAt(i, dial)
         /\ UNCHANGED <<alarm, up, strip, saved, overtaken, settled, expected>> /\ up
         /\ Events' = Events /\ Ticker'.own = None /\ Ticker'.pc \in {"enter", "finish"}
         /\ Ticker.pc = "look"
         /\ \E render \in ImageType :
              /\ render.cards = <<[page |-> dial.pages[i], alert |-> painted'[<<i, dial.graphs[i]>>]]>>
              /\ LookedOn(Ticker, i, dial, Ticker', render)
<1> DEFINE o == Obj("ticker")
<1>1. o = dial /\ Ticker.own = None /\ goroutine["ticker"] = Ticker /\ "ticker" \in Threads
      /\ goroutine'["ticker"] = Ticker' /\ o = Obj("ticker")
  BY TickerInPass DEF Ticker
<1> HIDE DEF o
<1>2. i = goroutine["ticker"].i
  BY <1>1
<1>3. LooksAt("ticker", i, o)
  BY <1>1, <1>2, LookFacts
<1>4. LooksAt("ticker", i, o) /\ i \in DOMAIN o.pages
  BY <1>3 DEF LooksAt
<1>5. /\ StepTyped
      /\ \A u \in Threads \ {"ticker"} : goroutine'[u] = goroutine[u]
      /\ dial' = IF goroutine["ticker"].own = None THEN LookedAt(i, o) ELSE dial
      /\ goroutine["ticker"].own = None <=> goroutine'["ticker"].own = None
      /\ goroutine'["ticker"].pc \in {"enter", "finish"}
      /\ \E render \in ImageType :
           /\ render.cards = <<[page |-> o.pages[i], alert |-> painted'[<<i, o.graphs[i]>>]]>>
           /\ LookedOn(goroutine["ticker"], i, o, goroutine'["ticker"], render)
  BY <1>1, <1>2, LookStep
<1>6. UNCHANGED <<strip, saved, overtaken, settled, expected>>
  BY DEF Look, Proceeds, copies
<1>7. Events' = Events
  BY <1>5 DEF Threads, Events
<1>8. UNCHANGED <<alarm, up>> /\ up /\ Ticker.pc = "look"
  BY <1>1, <1>4, <1>5 DEF StepTyped, LooksAt
<1>9. QED
  BY <1>1, <1>4, <1>5, <1>6, <1>7, <1>8

LEMMA LookPass ==
  ASSUME Base, ColorsInv, PassInv, settled # "no", Look("ticker")
  PROVE  PassInv'
<1> DEFINE i == Ticker.i
<1>0. i = Ticker.i
  OBVIOUS
<1> HIDE DEF i
<1>1. /\ i \in DOMAIN dial.pages /\ LooksAt("ticker", i, dial) /\ dial' = LookedAt(i, dial)
      /\ UNCHANGED <<alarm, up, settled>> /\ up
      /\ Events' = Events /\ Ticker'.own = None /\ Ticker'.pc \in {"enter", "finish"}
      /\ Ticker.pc = "look"
      /\ \E render \in ImageType :
           /\ render.cards = <<[page |-> dial.pages[i], alert |-> painted'[<<i, dial.graphs[i]>>]]>>
           /\ LookedOn(Ticker, i, dial, Ticker', render)
  BY <1>0, TickerLooks
<1>2. /\ dial \in DialType /\ Events.pc = "idle" /\ Ticker.own = None
      /\ DOMAIN dial.pages \subseteq Nat /\ dial.active \in Nat /\ i \in Nat
      /\ dial.active \in DOMAIN dial.pages /\ goroutine["ticker"].own = None
  BY <1>0, <1>1, TickerInPass
<1>3. /\ dial'.pages = dial.pages /\ dial'.graphs = dial.graphs /\ dial'.active = dial.active
      /\ dial' # None
  <2>1. dial'.pages = dial.pages /\ dial'.graphs = dial.graphs /\ dial'.active = dial.active
    BY <1>1, <1>2, LookedFacts
  <2>2. LookedAt(i, dial) \in DialType
    <3>1. Obj("ticker") = dial /\ goroutine["ticker"].i = i /\ "ticker" \in Threads
      BY <1>0, TickerInPass
    <3>2. QED
      BY <3>1, LookFacts
  <2>3. QED
    BY <1>1, <2>1, <2>2, DialFacts
<1>4. PICK render \in ImageType :
        /\ render.cards = <<[page |-> dial.pages[i], alert |-> painted'[<<i, dial.graphs[i]>>]]>>
        /\ LookedOn(Ticker, i, dial, Ticker', render)
  BY <1>1
<1>5. /\ Ticker'.i = i + 1
      /\ Ticker'.image = IF i # dial.active THEN Ticker.image
                         ELSE IF Ticker.shows THEN render ELSE None
  BY <1>4 DEF LookedOn
<1>6. ASSUME NEW j \in DOMAIN dial.pages, settled = "yes" \/ j < i + 1
      PROVE  DoneAt(j, dial', alarm, latch', painted', snooze', dirty', lost')
  <2>1. CASE j = i
    BY <1>1, <1>2, <2>1, LookIsDone
  <2>2. CASE j # i
    <3>1. Done(j)
      BY <1>0, <1>1, <1>2, <1>6, <2>2 DEF PassInv
    <3>2. QED
      BY <1>1, <1>2, <2>2, <3>1, LookElsewhereDone
  <2>3. QED
    BY <2>1, <2>2
<1>7. ASSUME i + 1 > dial.active
      PROVE  ImageShows(Ticker'.image, dial', painted')
  <2>1. CASE i = dial.active
    <3>1. Ticker.shows
      BY <1>0, <1>1, <2>1 DEF PassInv
    <3>2. Ticker'.image = render /\ render # None
      BY <1>5, <2>1, <3>1, NoneAssumption
    <3>3. QED
      BY <1>3, <1>4, <2>1, <3>2 DEF ImageShows
  <2>2. CASE i # dial.active
    <3>1. Ticker'.image = Ticker.image
      BY <1>5, <2>2
    <3>2. Ticker.i > dial.active /\ Ticker.pc \in Working
      BY <1>0, <1>1, <1>2, <1>7, <2>2 DEF Working
    <3>3. ImageShows(Ticker.image, dial, painted)
      BY <1>1, <3>2 DEF PassInv
    <3>4. painted'[<<dial.active, dial.graphs[dial.active]>>]
             = painted[<<dial.active, dial.graphs[dial.active]>>]
      <4> DEFINE a == dial.active
      <4>1. a \in DOMAIN dial.pages \ {i}
        BY <1>2, <2>2
      <4> HIDE DEF a
      <4>2. painted'[<<a, dial.graphs[a]>>] = painted[<<a, dial.graphs[a]>>]
        BY <1>1, <1>2, <4>1, LookElsewhereDone
      <4>3. QED
        BY <4>2 DEF a
    <3>5. QED
      BY <1>3, <3>1, <3>3, <3>4 DEF ImageShows
  <2>3. QED
    BY <2>1, <2>2
<1>8. up' => \A j \in DOMAIN dial'.pages : settled' = "yes" \/ j < Ticker'.i => Done(j)'
  BY <1>1, <1>3, <1>5, <1>6 DEF Done
<1>9. QED
  BY <1>1, <1>2, <1>3, <1>5, <1>7, <1>8 DEF PassInv, Working

\* The other steps of the ticker.
LEMMA StillDone ==
  ASSUME NEW j, Done(j), dial # None, SamePages,
         UNCHANGED <<painted, latch, snooze, dirty, lost, alarm>>
  PROVE  Done(j)'
BY DEF Done, DoneAt, QuietAt, ShowsAt, SamePages

LEMMA TickerPass ==
  ASSUME Base, ColorsInv, PassInv, settled' # "no", updateDialFeedback("ticker"),
         Begin("ticker") => goroutine["events"].pc = "idle"
  PROVE  PassInv'
<1>0. "ticker" \in Threads /\ goroutine["ticker"] = Ticker /\ goroutine'["ticker"] = Ticker'
  BY DEF Threads, Ticker
<1>1. CASE Begin("ticker")
  <2>1. /\ dial' = dial /\ Ticker.own = None /\ Ticker'.own = None
        /\ \A u \in Threads \ {"ticker"} : goroutine'[u] = goroutine[u]
        /\ Ticker'.i = 1 /\ ~Ticker'.changed /\ Ticker'.bring = 0
        /\ IF dial = None \/ dial.pages = <<>>
           THEN Ticker'.pc = "idle" ELSE Ticker'.pc = "enter" /\ strip' = strip
    BY <1>0, <1>1, BeginFacts
  <2>2. /\ settled' = IF dial = None \/ settled = "yes" THEN settled
                      ELSE IF dial.pages = <<>> THEN "yes" ELSE "pass"
        /\ UNCHANGED <<painted, latch, snooze, dirty, lost, alarm, up>>
        /\ goroutine["events"].pc = "idle"
    BY <1>1 DEF Begin, runtime, world
  <2>3. Events'.pc = "idle" /\ dial # None
    BY <2>1, <2>2 DEF Threads, Events, PassInv
  <2>4. SamePages
    BY <2>1 DEF SamePages
  <2>5. /\ DOMAIN dial.pages \subseteq Nat \ {0}
        /\ dial.pages # <<>> => dial.active \in Nat \ {0}
        /\ dial.pages = <<>> => DOMAIN dial.pages = {}
    <3>1. dial \in DialType
      BY <2>3 DEF Base, TypeOK
    <3>2. QED
      BY <3>1, DialFacts, PagesFit
  <2>6. ASSUME NEW j \in DOMAIN dial.pages, settled' = "yes" \/ j < 1, up PROVE Done(j)'
    <3>1. settled = "yes"
      BY <2>2, <2>3, <2>5, <2>6
    <3>2. Done(j)
      BY <2>6, <3>1 DEF PassInv
    <3>3. QED
      BY <2>2, <2>3, <2>4, <3>2, StillDone
  <2>7. QED
    BY <2>1, <2>2, <2>3, <2>5, <2>6 DEF PassInv, Working
<1>2. CASE Enter("ticker")
  <2>1. /\ dial' = dial /\ settled' = settled
        /\ \A u \in Threads \ {"ticker"} : goroutine'[u] = goroutine[u]
        /\ Ticker.pc = "enter" /\ Ticker'.pc = "look"
        /\ Ticker'.i = Ticker.i /\ Ticker'.image = Ticker.image
        /\ Ticker'.shows <=> Ticker.i = Obj("ticker").active
        /\ Ticker.own = None => Ticker'.own = None
    BY <1>0, <1>2, EnterFacts DEF Enter, Proceeds
  <2>2. UNCHANGED <<painted, latch, snooze, dirty, lost, alarm, up>>
    BY <1>2 DEF Enter, runtime, world
  <2>3. Obj("ticker") = dial /\ dial # None
    BY <2>1, TickerInPass
  <2>4. SamePages /\ Events' = Events
    BY <2>1 DEF SamePages, Threads, Events
  <2>5. \A j \in DOMAIN dial.pages : Done(j) => Done(j)'
    BY <2>2, <2>3, <2>4, StillDone
  <2>6. QED
    BY <2>1, <2>2, <2>3, <2>4, <2>5 DEF PassInv, Working
<1>3. CASE LookUnavailable("ticker")
  <2>1. /\ dial' = dial /\ ~up /\ settled' = settled /\ up' = up
        /\ \A u \in Threads \ {"ticker"} : goroutine'[u] = goroutine[u]
        /\ Ticker.pc = "look" /\ Ticker'.pc \in {"enter", "finish"}
        /\ Ticker.own = None <=> Ticker'.own = None
    BY <1>0, <1>3, UnavailableFacts DEF LookUnavailable, Proceeds, world
  <2>2. Events' = Events
    BY <2>1 DEF Threads, Events
  <2>3. QED
    BY <2>1, <2>2 DEF PassInv, Working
<1>4. CASE Look("ticker")
  <2>1. settled' = settled
    BY <1>4 DEF Look, Proceeds
  <2>2. QED
    BY <1>4, <2>1, LookPass
<1>5. CASE Finish("ticker")
  <2>1. /\ \A u \in Threads \ {"ticker"} : goroutine'[u] = goroutine[u]
        /\ Ticker.pc = "finish" /\ Ticker'.pc = "send"
        /\ Ticker.own = None <=> Ticker'.own = None
        /\ Ticker'.i = Ticker.i /\ Ticker'.image = Ticker.image
        /\ dial' = IF goroutine["ticker"].own = None /\ MovedAt("ticker")
                   THEN [dial EXCEPT !.active = goroutine["ticker"].bring] ELSE dial
    BY <1>0, <1>5, FinishFacts
  <2>2. settled' = IF MovedAt("ticker") /\ Ticker.own = None THEN "no" ELSE settled
    BY <1>0, <1>5 DEF Finish, MovedAt
  <2>3. UNCHANGED <<painted, latch, snooze, dirty, lost, alarm, up>>
    BY <1>5 DEF Finish, runtime, world
  <2>4. dial' = dial /\ settled' = settled /\ Events' = Events /\ dial # None
    BY <1>0, <2>1, <2>2, TickerInPass DEF Threads, Events
  <2>5. SamePages
    BY <2>4 DEF SamePages
  <2>6. \A j \in DOMAIN dial.pages : Done(j) => Done(j)'
    BY <2>3, <2>4, <2>5, StillDone
  <2>7. QED
    BY <2>1, <2>3, <2>4, <2>6 DEF PassInv, Working
<1>6. CASE Send("ticker")
  <2>1. /\ dial' = dial /\ \A u \in Threads \ {"ticker"} : goroutine'[u] = goroutine[u]
        /\ Ticker.pc = "send" /\ Ticker'.pc = "idle" /\ Ticker'.own = None
    BY <1>0, <1>6, SendFacts
  <2>2. /\ settled' = IF settled = "pass" THEN "yes" ELSE settled
        /\ UNCHANGED <<painted, latch, snooze, dirty, lost, alarm, up>>
    BY <1>6 DEF Send, runtime, world
  <2>3. /\ Ticker.i = Len(dial.pages) + 1 /\ DOMAIN dial.pages = 1..Len(dial.pages)
        /\ Len(dial.pages) \in Nat /\ dial # None
    BY <2>1, <2>2, TickerInPass
  <2>4. SamePages /\ Events' = Events
    BY <2>1 DEF SamePages, Threads, Events
  <2>5. up => \A j \in DOMAIN dial.pages : Done(j)
    BY <2>2, <2>3 DEF PassInv
  <2>6. \A j \in DOMAIN dial.pages : Done(j) => Done(j)'
    BY <2>2, <2>3, <2>4, StillDone
  <2>7. QED
    BY <2>1, <2>2, <2>3, <2>4, <2>5, <2>6 DEF PassInv, Working
<1>7. QED
  BY <1>1, <1>2, <1>3, <1>4, <1>5, <1>6 DEF updateDialFeedback

\* What a pass of the ticker has gone over is as it should be, until something happens.
LEMMA NextPass == Base /\ ColorsInv /\ PassInv /\ [Next]_vars => PassInv'
<1> SUFFICES ASSUME Base, ColorsInv, PassInv, [Next]_vars, settled' # "no" PROVE PassInv'
  BY DEF PassInv
<1>1. CASE UNCHANGED vars
  <2>1. UNCHANGED <<dial, painted, latch, snooze, dirty, lost, alarm, up, settled, goroutine>>
    BY <1>1 DEF vars, runtime, history, world
  <2>2. \A j : Done(j)' <=> Done(j)
    BY <2>1 DEF Done
  <2>3. QED
    BY <2>1, <2>2 DEF PassInv, Events, Ticker
<1>2. QED
  BY <1>1, OnlyTicker, TickerPass

-----------------------------------------------------------------------------
(* What holds after a pass.                                                *)

LEMMA AfterPassSaved ==
  ASSUME Base, SavedInv, ColorsInv, PassInv, SavedAgrees, [Next]_vars
  PROVE  SavedAgrees'
<1> SUFFICES ASSUME settled' = "yes", up', dial' # None, ~overtaken'
             PROVE  saved' = SettingsOf(dial')
  BY DEF SavedAgrees, Settled, SettingsOf
<1>0. "ticker" \in Threads /\ goroutine["ticker"] = Ticker /\ goroutine'["ticker"] = Ticker'
  BY DEF Threads, Ticker
<1>1. CASE UNCHANGED vars
  BY <1>1 DEF vars, copies, history, world, SavedAgrees, Settled
<1>2. CASE Begin("ticker") /\ goroutine["events"].pc = "idle"
  <2>1. dial' = dial /\ Ticker.pc = "idle"
    BY <1>0, <1>2, BeginFacts
  <2>2. UNCHANGED <<saved, overtaken>>
    BY <1>2 DEF Begin, copies
  <2>3. ~\E g \in Threads : Owes(goroutine[g])
    BY <1>0, <1>2, <2>1 DEF Threads, Owes
  <2>4. QED
    BY <1>2, <2>1, <2>2, <2>3 DEF SavedInv, Events
<1>3. CASE Enter("ticker") \/ LookUnavailable("ticker")
  <2>1. dial' = dial
    BY <1>0, <1>3, EnterFacts, UnavailableFacts
  <2>2. UNCHANGED <<saved, overtaken, up, settled>>
    BY <1>3 DEF Enter, LookUnavailable, copies, Proceeds, world
  <2>3. QED
    BY <2>1, <2>2 DEF SavedAgrees, Settled
<1>4. CASE Look("ticker")
  <2> DEFINE i == Ticker.i
  <2>0. i = Ticker.i
    OBVIOUS
  <2> HIDE DEF i
  <2>1. settled = "yes"
    BY <1>4 DEF Look, Proceeds
  <2>2. /\ i \in DOMAIN dial.pages /\ dial' = LookedAt(i, dial)
        /\ UNCHANGED <<saved, overtaken>> /\ up
    BY <1>4, <2>0, <2>1, TickerLooks
  <2>3. dial \in DialType /\ dial # None
    BY <2>1, TickerInPass
  <2>4. Done(i)
    BY <2>1, <2>2 DEF PassInv
  <2>5. AlertAt(i, dial) <=> dial.pages[i] \in dial.current
    BY <2>4 DEF Done, DoneAt, QuietAt, AlertAt
  <2>6. dial' = dial
    BY <2>2, <2>3, <2>5, NotRepainted
  <2>7. QED
    BY <2>1, <2>2, <2>3, <2>6 DEF SavedAgrees, Settled
<1>5. CASE Finish("ticker")
  <2>1. settled' = IF MovedAt("ticker") /\ Ticker.own = None THEN "no" ELSE settled
    BY <1>0, <1>5 DEF Finish, MovedAt
  <2>2. Ticker.own = None /\ settled = "yes" /\ ~MovedAt("ticker") /\ dial # None
    BY <2>1, TickerInPass
  <2>3. /\ dial' = IF goroutine["ticker"].own = None /\ MovedAt("ticker")
                   THEN [dial EXCEPT !.active = goroutine["ticker"].bring] ELSE dial
        /\ goroutine["ticker"].changed \/ MovedAt("ticker") =>
             /\ overtaken' <=> goroutine["ticker"].own # None
             /\ goroutine["ticker"].own = None => saved' = SettingsOf(dial')
        /\ ~(goroutine["ticker"].changed \/ MovedAt("ticker")) => UNCHANGED <<saved, overtaken>>
    BY <1>0, <1>5, FinishFacts
  <2>4. up' = up
    BY <1>5 DEF Finish, world
  <2>5. QED
    BY <1>0, <2>2, <2>3, <2>4 DEF SavedAgrees, Settled
<1>6. CASE Send("ticker")
  <2>1. dial' = dial /\ Ticker.pc = "send"
    BY <1>0, <1>6, SendFacts
  <2>2. UNCHANGED <<saved, overtaken>> /\ settled # "no"
    BY <1>6 DEF Send, copies
  <2>3. Events.pc = "idle"
    BY <2>2, TickerInPass
  <2>4. ~\E g \in Threads : Owes(goroutine[g])
    BY <1>0, <2>1, <2>3 DEF Threads, Owes, Events
  <2>5. QED
    BY <2>1, <2>2, <2>3, <2>4 DEF SavedInv
<1>7. QED
  BY <1>1, <1>2, <1>3, <1>4, <1>5, <1>6, OnlyTicker DEF updateDialFeedback

LEMMA StripDefined == StripSettles <=> StripInv
<1>1. \A i : Shows(i) <=> ShowsAt(i, dial, alarm, latch, snooze)
  BY Evaluated DEF Shows, ShowsAt
<1>2. QED
  BY <1>1 DEF StripSettles, StripInv, StripShows, ShownIn

LEMMA ShownFacts ==
  ASSUME NEW o \in DialType, o.pages # <<>>
  PROVE  /\ DOMAIN ShownIn(o) = 1..Len(ShownIn(o))
         /\ \A c \in DOMAIN ShownIn(o) : ShownIn(o)[c] \in DOMAIN o.pages
<1>1. /\ Len(o.pages) \in Nat \ {0} /\ DOMAIN o.pages = 1..Len(o.pages)
      /\ o.active \in 1..Len(o.pages)
  BY DialFacts, PagesFit
<1>2. CASE o.overview
  <2> DEFINE s == dialOverviewIndices(o.active, Len(o.pages), OverviewCap)
  <2>1. s \in Seq(1..Len(o.pages)) /\ DOMAIN s = 1..Len(s)
    BY <1>1, OverviewIndices
  <2>2. ShownIn(o) = s
    BY <1>2 DEF ShownIn
  <2> HIDE DEF s
  <2>3. \A c \in DOMAIN s : s[c] \in 1..Len(o.pages)
    BY <2>1
  <2>4. QED
    BY <1>1, <2>1, <2>2, <2>3
<1>3. CASE ~o.overview
  BY <1>1, <1>3 DEF ShownIn
<1>4. QED
  BY <1>2, <1>3

\* The strip once the ticker has drawn it.
LEMMA SendStrip ==
  ASSUME Base, PassInv, Send("ticker"), settled # "no", up, dial.pages # <<>>
  PROVE  StripShows(dial, strip', alarm, latch, snooze, lost)
<1>1. /\ dial \in DialType /\ Obj("ticker") = dial /\ goroutine["ticker"] = Ticker
      /\ "ticker" \in Threads /\ DOMAIN dial.pages = 1..Len(dial.pages)
      /\ Len(dial.pages) \in Nat
      /\ dial.active \in DOMAIN dial.pages
  BY TickerInPass
<1>2. /\ strip' = IF dial.overview THEN Overview(dial)
                  ELSE IF Ticker.image # None THEN Ticker.image ELSE strip
      /\ Ticker.pc = "send"
  BY <1>1, SendFacts
<1>3. Ticker.i = Len(dial.pages) + 1
  BY <1>2, TickerInPass
<1>4. \A j \in DOMAIN dial.pages : Done(j)
  BY <1>1, <1>3 DEF PassInv
<1>5. \A j \in DOMAIN dial.pages \ lost :
        painted[<<j, dial.graphs[j]>>] <=> ShowsAt(j, dial, alarm, latch, snooze)
  BY <1>4 DEF Done, DoneAt
<1>6. CASE dial.overview
  <2> DEFINE shown == ShownIn(dial)
  <2>1. shown = dialOverviewIndices(dial.active, Len(dial.pages), OverviewCap)
    BY <1>6 DEF ShownIn
  <2> HIDE DEF shown
  <2>2. /\ DOMAIN shown = 1..Len(shown)
        /\ \A c \in DOMAIN shown : shown[c] \in DOMAIN dial.pages
        /\ Len(Overview(dial).cards) = Len(shown)
        /\ \A c \in DOMAIN shown :
             Overview(dial).cards[c] = [page |-> dial.pages[shown[c]],
                                        alert |-> painted[<<shown[c], dial.graphs[shown[c]]>>]]
    <3>1. OverviewShows(dial, shown)
      BY <1>1, <2>1, OverviewFacts DEF Base
    <3>2. QED
      BY <3>1 DEF OverviewShows
  <2>3. ASSUME NEW c \in DOMAIN shown
        PROVE  /\ strip'.cards[c].page = dial.pages[shown[c]]
               /\ shown[c] \notin lost =>
                    (strip'.cards[c].alert <=> ShowsAt(shown[c], dial, alarm, latch, snooze))
    <3> DEFINE j == shown[c]
    <3>1. /\ strip'.cards[c] = [page |-> dial.pages[j], alert |-> painted[<<j, dial.graphs[j]>>]]
          /\ j \in DOMAIN dial.pages
      BY <1>2, <1>6, <2>2
    <3> HIDE DEF j
    <3>2. /\ strip'.cards[c].page = dial.pages[j]
          /\ strip'.cards[c].alert = painted[<<j, dial.graphs[j]>>]
      BY <3>1
    <3>3. QED
      BY <1>5, <3>1, <3>2 DEF j
  <2>4. QED
    BY <1>2, <1>6, <2>2, <2>3 DEF StripShows, shown
<1>7. CASE ~dial.overview
  <2>1. ImageShows(Ticker.image, dial, painted)
    BY <1>1, <1>2, <1>3 DEF PassInv, Working
  <2>2. /\ strip'.cards = <<[page |-> dial.pages[dial.active],
                             alert |-> painted[<<dial.active, dial.graphs[dial.active]>>]]>>
        /\ ShownIn(dial) = <<dial.active>>
    BY <1>2, <1>7, <2>1 DEF ImageShows, ShownIn
  <2>3. QED
    BY <1>1, <1>5, <2>2 DEF StripShows
<1>8. QED
  BY <1>6, <1>7

\* A look after the pass changes nothing of what the strip is to show.
LEMMA LookStrip ==
  ASSUME Base, ColorsInv, PassInv, StripInv, Look("ticker"), settled = "yes"
  PROVE  StripInv'
<1> DEFINE i == Ticker.i
<1>0. i = Ticker.i
  OBVIOUS
<1> HIDE DEF i
<1>1. /\ i \in DOMAIN dial.pages /\ LooksAt("ticker", i, dial) /\ dial' = LookedAt(i, dial)
      /\ UNCHANGED <<alarm, up, strip, settled>> /\ up
  BY <1>0, TickerLooks
<1>2. /\ dial \in DialType /\ dial # None /\ dial.pages # <<>> /\ "ticker" \in Threads
      /\ goroutine["ticker"].own = None /\ i \in Indices
  BY <1>1, TickerInPass
<1>3. Done(i)
  BY <1>1 DEF PassInv
<1>4. AlertAt(i, dial) <=> dial.pages[i] \in dial.current
  BY <1>3 DEF Done, DoneAt, QuietAt, AlertAt
<1>5. dial' = dial
  BY <1>1, <1>2, <1>4, NotRepainted
<1>6. StripShows(dial, strip, alarm, latch, snooze, lost)
  BY <1>1, <1>2 DEF StripInv, Settled
<1>7. ASSUME NEW j \in DOMAIN dial.pages
      PROVE  /\ j \notin lost' => j \notin lost
             /\ ShowsAt(j, dial, alarm, latch', snooze') <=> ShowsAt(j, dial, alarm, latch, snooze)
  <2>1. CASE j # i
    <3>1. snooze'[j] = snooze[j] /\ latch'[j] = latch[j] /\ (j \in lost' <=> j \in lost)
      BY <1>1, <1>2, <2>1, LookElsewhereDone
    <3>2. QED
      BY <3>1 DEF ShowsAt
  <2>2. CASE j = i
    <3>1. snooze[i] # "expired" /\ (i \in dirty => i \notin lost)
      BY <1>3 DEF Done, DoneAt
    <3>2. snooze'[i] = snooze[i] /\ latch'[i] = LatchAt(i, dial)
      BY <1>1, <1>2, <3>1 DEF LooksAt, Base, TypeOK
    <3>3. AlertIn(alarm, latch'[i], dial.pages[i]) <=> AlertIn(alarm, latch[i], dial.pages[i])
      BY <3>2, EvaluateTwice DEF LatchAt
    <3>4. i \notin lost' => i \notin lost
      BY <1>1, <1>4, <3>1 DEF LooksAt, RepaintAt
    <3>5. QED
      BY <2>2, <3>2, <3>3, <3>4 DEF ShowsAt
  <2>3. QED
    BY <2>1, <2>2
<1>8. StripShows(dial, strip, alarm, latch', snooze', lost')
  BY <1>2, <1>6, <1>7, ShownFacts DEF StripShows
<1>9. QED
  BY <1>1, <1>5, <1>8 DEF StripInv

LEMMA AfterPassStrip ==
  ASSUME Base, ColorsInv, PassInv, StripInv, [Next]_vars
  PROVE  StripInv'
<1> SUFFICES ASSUME settled' = "yes", up', dial' # None, (dial.pages # <<>>)'
             PROVE  StripInv'
  BY DEF StripInv, Settled
<1>0. "ticker" \in Threads /\ goroutine["ticker"] = Ticker /\ goroutine'["ticker"] = Ticker'
  BY DEF Threads, Ticker
<1>1. CASE UNCHANGED vars
  BY <1>1 DEF vars, runtime, history, world, StripInv, Settled
<1>2. CASE Begin("ticker")
  <2>1. /\ dial' = dial /\ UNCHANGED <<alarm, up, latch, snooze, lost>> /\ strip' = strip
    BY <1>2, <1>0, BeginFacts DEF Begin, runtime, world
  <2>2. settled = "yes"
    BY <1>2, <2>1 DEF Begin
  <2>3. QED
    BY <2>1, <2>2 DEF StripInv, Settled
<1>3. CASE Enter("ticker") \/ LookUnavailable("ticker")
  <2>1. dial' = dial
    BY <1>0, <1>3, EnterFacts, UnavailableFacts
  <2>2. UNCHANGED <<strip, alarm, latch, snooze, lost, up, settled>>
    BY <1>3 DEF Enter, LookUnavailable, runtime, Proceeds, world
  <2>3. QED
    BY <2>1, <2>2 DEF StripInv, Settled
<1>4. CASE Look("ticker")
  <2>1. settled = "yes"
    BY <1>4 DEF Look, Proceeds
  <2>2. QED
    BY <1>4, <2>1, LookStrip
<1>5. CASE Finish("ticker")
  <2>1. settled' = IF MovedAt("ticker") /\ Ticker.own = None THEN "no" ELSE settled
    BY <1>0, <1>5 DEF Finish, MovedAt
  <2>2. Ticker.own = None /\ settled = "yes" /\ ~MovedAt("ticker") /\ dial # None
    BY <2>1, TickerInPass
  <2>3. dial' = dial
    BY <1>0, <1>5, <2>2, FinishFacts
  <2>4. UNCHANGED <<strip, alarm, latch, snooze, lost, up>>
    BY <1>5 DEF Finish, runtime, world
  <2>5. QED
    BY <2>2, <2>3, <2>4 DEF StripInv, Settled
<1>6. CASE Send("ticker")
  <2>1. dial' = dial /\ UNCHANGED <<alarm, latch, snooze, lost, up>> /\ settled # "no"
    BY <1>0, <1>6, SendFacts DEF Send, runtime, world
  <2>2. StripShows(dial, strip', alarm, latch, snooze, lost)
    BY <1>6, <2>1, SendStrip
  <2>3. QED
    BY <2>1, <2>2 DEF StripInv
<1>7. QED
  BY <1>1, <1>2, <1>3, <1>4, <1>5, <1>6, OnlyTicker DEF updateDialFeedback

-----------------------------------------------------------------------------
(* The page that is asked for.                                             *)

LEMMA PendingDefined ==
  ASSUME NEW i
  PROVE  Pending(i) <=> PendingAt(i, dial, alarm, latch, snooze, dirty)
BY Evaluated DEF Pending, PendingAt

\* A step that has nothing to do with what is expected.
LEMMA ExpectStays ==
  ASSUME ExpectInv, expected' = expected, SamePages, dial # None => dial'.active = dial.active,
         UNCHANGED <<latch, snooze, dirty, alarm>>,
         Ticker.own = None => Ticker'.own = None,
         Ticker'.bring = Ticker.bring, Events'.bring = Events.bring
  PROVE  ExpectInv'
<1> SUFFICES ASSUME expected # None PROVE ExpectInv'
  BY DEF ExpectInv
<1>1. PICK i \in Indices : Expects(i)
  BY DEF ExpectInv
<1>2. dial # None /\ dial' # None /\ Ticker'.own = None
  BY DEF ExpectInv, SamePages
<1>3. dial'.pages = dial.pages /\ dial'.current = dial.current /\ dial'.active = dial.active
  BY <1>2 DEF SamePages
<1>4. ExpectsAt(i, expected, {Ticker'.bring, Events'.bring}, dial', alarm, latch, snooze, dirty)
  BY <1>1, <1>3 DEF Expects, ExpectsAt, PendingAt
<1>5. Expects(i)'
  BY <1>4 DEF Expects
<1>6. QED
  BY <1>2, <1>5 DEF ExpectInv, Indices

\* One for a goroutine that keeps what it brings.
LEMMA ExpectGoesOn ==
  ASSUME ExpectInv, NEW g \in Threads, expected' = expected, SamePages,
         dial # None => dial'.active = dial.active,
         UNCHANGED <<latch, snooze, dirty, alarm>>,
         \A u \in Threads \ {g} : goroutine'[u] = goroutine[u],
         goroutine[g].own = None => goroutine'[g].own = None,
         goroutine'[g].bring = goroutine[g].bring
  PROVE  ExpectInv'
<1>1. /\ Ticker.own = None => Ticker'.own = None
      /\ Ticker'.bring = Ticker.bring /\ Events'.bring = Events.bring
  BY DEF Threads, Ticker, Events
<1>2. QED
  BY <1>1, ExpectStays

\* Both goroutines work on the dial.
LEMMA ExpectBoth ==
  ASSUME Base, ExpectInv, expected # None, NEW g \in Threads
  PROVE  goroutine[g].own = None /\ dial \in DialType /\ dial # None /\ Obj(g) = dial
BY DEF Base, TypeOK, Placed, ExpectInv, Threads, Ticker, Obj

\* A look asks for the page that is expected, if for any.
LEMMA LookExpects ==
  ASSUME Base, ExpectInv, NEW g \in Threads, Look(g)
  PROVE  ExpectInv'
<1> DEFINE k == goroutine[g].i
           o == Obj(g)
<1>0. k = goroutine[g].i /\ o = Obj(g)
  OBVIOUS
<1> HIDE DEF k, o
<1>1. LooksAt(g, k, o) /\ LookedAt(k, o) \in DialType
  BY <1>0, LookFacts
<1>2. /\ StepTyped /\ \A u \in Threads \ {g} : goroutine'[u] = goroutine[u]
      /\ dial' = IF goroutine[g].own = None THEN LookedAt(k, o) ELSE dial
      /\ goroutine[g].own = None <=> goroutine'[g].own = None
      /\ \E render \in ImageType : LookedOn(goroutine[g], k, o, goroutine'[g], render)
  BY <1>0, LookStep
<1> SUFFICES ASSUME expected # None PROVE ExpectInv'
  BY <1>2 DEF StepTyped, ExpectInv
<1>3. /\ goroutine[g].own = None /\ dial \in DialType /\ o = dial /\ dial' = LookedAt(k, dial)
      /\ k \in DOMAIN dial.pages /\ dial' # None
  BY <1>0, <1>1, <1>2, ExpectBoth, DialFacts DEF LooksAt
<1>4. PICK i \in Indices : Expects(i)
  BY DEF ExpectInv
<1>5. /\ i \in DOMAIN dial.pages /\ dial.pages[i] = expected
      /\ \A j \in DOMAIN dial.pages \ {i} : ~PendingAt(j, dial, alarm, latch, snooze, dirty)
      /\ {Ticker.bring, Events.bring} \subseteq {0, i}
      /\ \/ dial.active = i \/ i \in {Ticker.bring, Events.bring}
         \/ /\ dial.pages[i] \in BringToFront \ dial.current /\ snooze[i] = "off"
            /\ AlertIn(alarm, latch[i], dial.pages[i])
  BY <1>4 DEF Expects, ExpectsAt
<1>6. /\ dial'.pages = dial.pages /\ dial'.active = dial.active
      /\ dial.pages[k] \in dial'.current <=> AlertAt(k, dial)
      /\ \A j \in DOMAIN dial.pages \ {k} :
           dial.pages[j] \in dial'.current <=> dial.pages[j] \in dial.current
  BY <1>3, LookedFacts
<1>7. \A j \in DOMAIN dial.pages \ {k} :
        snooze'[j] = snooze[j] /\ latch'[j] = latch[j] /\ (j \in dirty' <=> j \in dirty)
  <2>1. DOMAIN dial.pages \subseteq Indices /\ 0 \in {0, 1}
    BY <1>3, DialFacts, PagesFit
  <2>2. QED
    BY <1>1, <2>1, LookElsewhere
<1>8. /\ AlertIn(alarm, latch'[k], dial.pages[k]) <=> AlertAt(k, dial)
      /\ snooze'[k] # "expired"
      /\ snooze[k] # "expired" => snooze'[k] = snooze[k] /\ k \notin dirty'
  <2>1. /\ latch'[k] = LatchAt(k, dial) /\ snooze'[k] # "expired"
        /\ snooze[k] # "expired" => snooze'[k] = snooze[k] /\ k \notin dirty'
    BY <1>1, <1>3 DEF LooksAt, Base, TypeOK
  <2>2. QED
    BY <2>1, EvaluateTwice DEF LatchAt, AlertAt
<1>9. goroutine'[g].bring = IF goroutine[g].bring = 0 /\ RepaintAt(k, dial) /\ AlertAt(k, dial)
                                 /\ snooze[k] # "on" /\ dial.pages[k] \in BringToFront
                            THEN k ELSE goroutine[g].bring
  BY <1>2, <1>3 DEF LookedOn
<1>10. goroutine[g].bring \in {Ticker.bring, Events.bring} /\ alarm' = alarm
       /\ Ticker'.own = None /\ expected' = expected
  BY <1>2, <1>3 DEF Threads, Ticker, Events, StepTyped, ExpectInv
<1>11. \A j \in DOMAIN dial.pages \ {i} : ~PendingAt(j, dial', alarm, latch', snooze', dirty')
  <2> TAKE j \in DOMAIN dial.pages \ {i}
  <2>1. ~PendingAt(j, dial, alarm, latch, snooze, dirty)
    BY <1>5
  <2>2. CASE j # k
    BY <1>6, <1>7, <2>1, <2>2 DEF PendingAt
  <2>3. CASE j = k
    BY <1>6, <1>8, <2>1, <2>3 DEF PendingAt
  <2>4. QED
    BY <2>2, <2>3
<1>12. CASE k = i
  <2>1. goroutine'[g].bring \in {0, i}
    BY <1>5, <1>9, <1>10, <1>12
  <2>2. goroutine[g].bring = i => goroutine'[g].bring = i
    BY <1>3, <1>9, <1>10, <1>12
  <2>3. /\ {Ticker'.bring, Events'.bring} \subseteq {0, i}
        /\ i \in {Ticker.bring, Events.bring} => i \in {Ticker'.bring, Events'.bring}
        /\ goroutine'[g].bring \in {Ticker'.bring, Events'.bring}
    BY <1>2, <1>5, <2>1, <2>2 DEF Threads, Ticker, Events
  <2>4. CASE /\ dial.pages[i] \in BringToFront \ dial.current /\ snooze[i] = "off"
             /\ AlertIn(alarm, latch[i], dial.pages[i])
    <3>1. RepaintAt(k, dial) /\ AlertAt(k, dial)
      BY <1>12, <2>4 DEF RepaintAt, AlertAt
    <3>2. goroutine'[g].bring = i
      BY <1>5, <1>9, <1>10, <1>12, <2>4, <3>1
    <3>3. ExpectsAt(i, expected, {Ticker'.bring, Events'.bring}, dial', alarm, latch', snooze', dirty')
      BY <1>5, <1>6, <1>11, <2>3, <3>2 DEF ExpectsAt
    <3>4. QED
      BY <1>3, <1>10, <3>3 DEF ExpectInv, Expects, Indices
  <2>5. CASE dial.active = i \/ i \in {Ticker.bring, Events.bring}
    <3>1. ExpectsAt(i, expected, {Ticker'.bring, Events'.bring}, dial', alarm, latch', snooze', dirty')
      BY <1>5, <1>6, <1>11, <2>3, <2>5 DEF ExpectsAt
    <3>2. QED
      BY <1>3, <1>10, <3>1 DEF ExpectInv, Expects, Indices
  <2>6. QED
    BY <1>5, <2>4, <2>5
<1>13. CASE k # i
  <2>1. ~PendingAt(k, dial, alarm, latch, snooze, dirty)
    BY <1>3, <1>5, <1>13
  <2>2. goroutine'[g].bring = goroutine[g].bring
    BY <1>9, <2>1 DEF PendingAt, RepaintAt, AlertAt
  <2>3. Ticker'.bring = Ticker.bring /\ Events'.bring = Events.bring
    BY <1>2, <2>2 DEF Threads, Ticker, Events
  <2>4. /\ dial.pages[i] \in dial'.current <=> dial.pages[i] \in dial.current
        /\ snooze'[i] = snooze[i] /\ latch'[i] = latch[i]
    BY <1>5, <1>6, <1>7, <1>13
  <2>5. ExpectsAt(i, expected, {Ticker'.bring, Events'.bring}, dial', alarm, latch', snooze', dirty')
    BY <1>5, <1>6, <1>11, <2>3, <2>4 DEF ExpectsAt
  <2>6. QED
    BY <1>3, <1>10, <2>5 DEF ExpectInv, Expects, Indices
<1>14. QED
  BY <1>12, <1>13

\* The page that is brought to the front is the one expected.
LEMMA FinishExpects ==
  ASSUME Base, ExpectInv, NEW g \in Threads, Finish(g)
  PROVE  ExpectInv'
<1>1. /\ \A u \in Threads \ {g} : goroutine'[u] = goroutine[u]
      /\ goroutine[g].own = None <=> goroutine'[g].own = None
      /\ goroutine'[g].bring = 0
      /\ dial' = IF goroutine[g].own = None /\ MovedAt(g)
                 THEN [dial EXCEPT !.active = goroutine[g].bring] ELSE dial
  BY FinishFacts
<1>2. SamePages /\ UNCHANGED <<latch, snooze, dirty, alarm>> /\ expected' = expected
  BY FeedbackSamePages DEF Finish
<1> SUFFICES ASSUME expected # None PROVE ExpectInv'
  BY <1>2 DEF ExpectInv
<1>3. goroutine[g].own = None /\ dial \in DialType /\ dial # None /\ Obj(g) = dial
  BY ExpectBoth
<1>4. PICK i \in Indices : Expects(i)
  BY DEF ExpectInv
<1>5. /\ i \in DOMAIN dial.pages /\ dial.pages[i] = expected
      /\ \A j \in DOMAIN dial.pages \ {i} : ~PendingAt(j, dial, alarm, latch, snooze, dirty)
      /\ {Ticker.bring, Events.bring} \subseteq {0, i}
      /\ \/ dial.active = i \/ i \in {Ticker.bring, Events.bring}
         \/ /\ dial.pages[i] \in BringToFront \ dial.current /\ snooze[i] = "off"
            /\ AlertIn(alarm, latch[i], dial.pages[i])
  BY <1>4 DEF Expects, ExpectsAt
<1>6. dial'.pages = dial.pages /\ dial'.current = dial.current /\ dial' # None
  BY <1>2, <1>3 DEF SamePages
<1>7. dial'.active = IF goroutine[g].bring # 0 THEN goroutine[g].bring ELSE dial.active
  BY <1>1, <1>3 DEF MovedAt, DialType
<1>8. /\ goroutine[g].bring \in {0, i} /\ i # 0
      /\ {Ticker'.bring, Events'.bring} \subseteq {0, i}
      /\ i \in {Ticker.bring, Events.bring} =>
           goroutine[g].bring = i \/ i \in {Ticker'.bring, Events'.bring}
  BY <1>1, <1>5 DEF Threads, Ticker, Events, Indices
<1>9. dial.active = i \/ goroutine[g].bring = i => dial'.active = i
  BY <1>7, <1>8
<1>10. ExpectsAt(i, expected, {Ticker'.bring, Events'.bring}, dial', alarm, latch, snooze, dirty)
  BY <1>5, <1>6, <1>8, <1>9 DEF ExpectsAt, PendingAt
<1>11. Ticker'.own = None
  BY <1>1 DEF ExpectInv, Threads, Ticker
<1>12. QED
  BY <1>2, <1>6, <1>10, <1>11 DEF ExpectInv, Expects, Indices

LEMMA FeedbackExpects ==
  ASSUME Base, ExpectInv, NEW g \in Threads, updateDialFeedback(g)
  PROVE  ExpectInv'
<1>0. /\ \A u \in Threads : goroutine[u].pc \notin {"enter", "look", "finish"} => goroutine[u].bring = 0
  BY DEF Base, Placed, InPlace, WorksOn
<1>1. CASE Begin(g)
  <2>1. /\ dial' = dial /\ goroutine'[g].own = None /\ goroutine'[g].bring = 0
        /\ \A u \in Threads \ {g} : goroutine'[u] = goroutine[u]
        /\ goroutine[g].pc \in {"idle", "begin"}
    BY <1>1, BeginFacts
  <2>2. SamePages /\ UNCHANGED <<latch, snooze, dirty, alarm>> /\ expected' = expected
    BY <1>1, FeedbackSamePages DEF Begin
  <2>3. QED
    BY <1>0, <2>1, <2>2, ExpectGoesOn
<1>2. CASE Enter(g)
  <2>1. /\ dial' = dial /\ \A u \in Threads \ {g} : goroutine'[u] = goroutine[u]
        /\ goroutine[g].own = None => goroutine'[g].own = None
        /\ goroutine'[g].bring = goroutine[g].bring
    BY <1>2, EnterFacts
  <2>2. SamePages /\ UNCHANGED <<latch, snooze, dirty, alarm>> /\ expected' = expected
    BY <1>2, FeedbackSamePages DEF Enter, Proceeds
  <2>3. QED
    BY <2>1, <2>2, ExpectGoesOn
<1>3. CASE LookUnavailable(g)
  <2>1. /\ dial' = dial /\ \A u \in Threads \ {g} : goroutine'[u] = goroutine[u]
        /\ goroutine[g].own = None => goroutine'[g].own = None
        /\ goroutine'[g].bring = goroutine[g].bring
    BY <1>3, UnavailableFacts
  <2>2. SamePages /\ UNCHANGED <<latch, snooze, dirty, alarm>> /\ expected' = expected
    BY <1>3, FeedbackSamePages DEF LookUnavailable, Proceeds
  <2>3. QED
    BY <2>1, <2>2, ExpectGoesOn
<1>4. CASE Look(g)
  BY <1>4, LookExpects
<1>5. CASE Finish(g)
  BY <1>5, FinishExpects
<1>6. CASE Send(g)
  <2>1. /\ dial' = dial /\ \A u \in Threads \ {g} : goroutine'[u] = goroutine[u]
        /\ goroutine'[g].own = None /\ goroutine'[g].bring = 0 /\ goroutine[g].pc = "send"
    BY <1>6, SendFacts
  <2>2. SamePages /\ UNCHANGED <<latch, snooze, dirty, alarm>> /\ expected' = expected
    BY <1>6, FeedbackSamePages DEF Send
  <2>3. QED
    BY <1>0, <2>1, <2>2, ExpectGoesOn
<1>7. QED
  BY <1>1, <1>2, <1>3, <1>4, <1>5, <1>6 DEF updateDialFeedback

\* The user asks for a page.
LEMMA RotateExpects ==
  ASSUME Base, ExpectInv, NEW ticks \in {-1, 1}, OnDialRotate(ticks)
  PROVE  ExpectInv'
<1>1. /\ dial # None /\ dial' # None
      /\ dial'.pages = dial.pages /\ dial'.current = dial.current
      /\ Ticker' = Ticker /\ Events'.bring = 0
      /\ alarm' = alarm /\ latch' = latch /\ snooze' = snooze /\ dirty' = dirty
      /\ expected' = IF Calm({}) /\ dial'.active \in DOMAIN dial.pages
                     THEN dial.pages[dial'.active] ELSE None
  BY RotateFacts DEF world, runtime
<1> SUFFICES ASSUME expected' # None PROVE ExpectInv'
  BY DEF ExpectInv
<1>2. Calm({}) /\ dial'.active \in DOMAIN dial.pages /\ expected' = dial.pages[dial'.active]
  BY <1>1
<1>3. /\ Ticker.own = None /\ Ticker.bring = 0
      /\ \A j \in DOMAIN dial.pages : ~PendingAt(j, dial, alarm, latch, snooze, dirty)
  BY <1>2, PendingDefined DEF Calm, Ticker
<1>4. ExpectsAt(dial'.active, expected', {Ticker'.bring, Events'.bring},
                dial', alarm', latch', snooze', dirty')
  BY <1>1, <1>2, <1>3 DEF ExpectsAt, PendingAt
<1>5. dial'.active \in Indices
  <2>1. dial \in DialType
    BY <1>1 DEF Base, TypeOK
  <2>2. QED
    BY <1>2, <2>1, DialFacts, PagesFit
<1>6. QED
  BY <1>1, <1>3, <1>4, <1>5 DEF ExpectInv, Expects, Indices

\* An alert asks for its page.
LEMMA ReadExpects ==
  ASSUME Base, ExpectInv, NEW p \in Pages, Read(p)
  PROVE  ExpectInv'
<1>1. /\ UNCHANGED <<dial, goroutine, latch, snooze, dirty>>
      /\ Ticker' = Ticker /\ Events' = Events
      /\ \A q \in Pages \ {p} : q \in alarm' <=> q \in alarm
      /\ expected' = IF p \notin BringToFront THEN expected
                     ELSE IF dial # None /\ p \in alarm' /\ \E i \in IndexOf(p) : Asks(i) THEN p
                     ELSE None
  BY DEF Read, World, Disturb, Ticker, Events
<1> SUFFICES ASSUME expected' # None PROVE ExpectInv'
  BY DEF ExpectInv
<1>2. dial # None /\ dial \in DialType
  BY <1>1 DEF ExpectInv, Base, TypeOK
<1>3. /\ DOMAIN dial.pages \subseteq Indices /\ \A j \in DOMAIN dial.pages : dial.pages[j] \in Pages
      /\ \A i, j \in DOMAIN dial.pages : dial.pages[i] = dial.pages[j] => i = j
  BY <1>2, DialFacts, PagesFit
<1>4. \A l, q : q \in Pages \ {p} => (AlertIn(alarm', l, q) <=> AlertIn(alarm, l, q))
  BY <1>1 DEF AlertIn, StateIn
<1>5. CASE p \notin BringToFront
  <2>1. PICK i \in Indices : Expects(i)
    BY <1>1, <1>5 DEF ExpectInv
  <2>2. \A j \in DOMAIN dial.pages :
          dial.pages[j] \in BringToFront =>
            (AlertIn(alarm', latch[j], dial.pages[j]) <=> AlertIn(alarm, latch[j], dial.pages[j]))
    BY <1>3, <1>4, <1>5
  <2>3. ExpectsAt(i, expected, {Ticker.bring, Events.bring}, dial, alarm', latch, snooze, dirty)
    BY <2>1, <2>2 DEF Expects, ExpectsAt, PendingAt
  <2>4. Ticker.own = None
    BY <1>1, <1>5 DEF ExpectInv
  <2>5. QED
    BY <1>1, <1>2, <1>5, <2>3, <2>4 DEF ExpectInv, Expects, Indices
<1>6. CASE p \in BringToFront
  <2>1. PICK i \in IndexOf(p) : Asks(i)
    BY <1>1, <1>6
  <2>2. p \in alarm' /\ expected' = p
    BY <1>1, <1>6
  <2>3. i \in DOMAIN dial.pages /\ dial.pages[i] = p /\ i \in Indices
    BY <1>3, <2>1 DEF IndexOf
  <2>4. /\ p \in BringToFront \ dial.current /\ latch[i].state # "suppressed" /\ snooze[i] = "off"
        /\ Ticker.own = None /\ Ticker.bring = 0 /\ Events.bring = 0
        /\ \A j \in DOMAIN dial.pages \ {i} : ~PendingAt(j, dial, alarm, latch, snooze, dirty)
    BY <2>1, <2>3, PendingDefined DEF Asks, Calm, Ticker, Events
  <2>5. \A j \in DOMAIN dial.pages \ {i} : ~PendingAt(j, dial, alarm', latch, snooze, dirty)
    BY <1>3, <1>4, <2>3, <2>4 DEF PendingAt
  <2>6. AlertIn(alarm', latch[i], p)
    <3>1. latch[i].state \in {"off", "latched"}
      BY <2>3, <2>4 DEF Base, TypeOK
    <3>2. QED
      BY <2>2, <3>1 DEF AlertIn, StateIn
  <2>7. ExpectsAt(i, p, {Ticker.bring, Events.bring}, dial, alarm', latch, snooze, dirty)
    BY <2>3, <2>4, <2>5, <2>6 DEF ExpectsAt
  <2>8. QED
    BY <1>1, <1>2, <2>2, <2>3, <2>4, <2>7 DEF ExpectInv, Expects, Indices
<1>7. QED
  BY <1>5, <1>6

\* Nothing but a new demand changes which page the dial will come to rest at.
LEMMA NextExpects == Base /\ ExpectInv /\ [Next]_vars => ExpectInv'
<1> SUFFICES ASSUME Base, ExpectInv, [Next]_vars PROVE ExpectInv'
  OBVIOUS
<1>1. ASSUME NEW g \in {"ticker", "events"}, updateDialFeedback(g) PROVE ExpectInv'
  BY <1>1, FeedbackExpects DEF Threads
<1>2. CASE handleDialWillAppear \/ handleDialWillDisappear \/ OnTouchTap
  <2>1. expected' = None
    BY <1>2 DEF handleDialWillAppear, handleDialWillDisappear, OnTouchTap, Disturb
  <2>2. QED
    BY <2>1 DEF ExpectInv
<1>3. CASE handleDialPropertyInspectorConnected
  <2>1. /\ UNCHANGED <<world, dial, painted, runtime, goroutine, saved, lost, overtaken>>
        /\ expected' = expected
    BY <1>3, ConnectedFacts
  <2>2. QED
    BY <2>1, ExpectStays DEF SamePages, runtime, world, Ticker, Events
<1>4. ASSUME NEW s \in Edited(inspector), dialSetSettings(s) PROVE ExpectInv'
  <2>1. expected' = None
    BY <1>4 DEF dialSetSettings, Disturb
  <2>2. QED
    BY <2>1 DEF ExpectInv
<1>5. CASE OnDialDown
  <2>1. Events.bring = 0
    BY <1>5, UserFacts DEF OnDialDown
  <2>2. QED
    BY <1>5, <2>1, DownFacts, ExpectStays DEF SamePages, runtime, world
<1>6. ASSUME NEW ticks \in {-1, 1}, OnDialRotate(ticks) PROVE ExpectInv'
  BY <1>6, RotateExpects
<1>7. CASE SaveRotation
  <2>1. Events.bring = 0
    BY <1>7 DEF SaveRotation, Base, Placed, InPlace, WorksOn, Threads, Events
  <2>2. QED
    BY <1>7, <2>1, SaveRotationFacts, ExpectStays DEF SamePages, runtime, world
<1>8. ASSUME NEW p \in Pages, Read(p) PROVE ExpectInv'
  BY <1>8, ReadExpects
<1>9. CASE Outage
  BY <1>9, ExpectStays DEF Outage, World, Disturb, SamePages, Ticker, Events
<1>10. ASSUME NEW i \in Indices, Expire(i) PROVE ExpectInv'
  <2>1. expected' = None
    BY <1>10 DEF Expire, Disturb
  <2>2. QED
    BY <2>1 DEF ExpectInv
<1>11. CASE UNCHANGED vars
  BY <1>11, ExpectStays DEF vars, runtime, history, world, SamePages, Ticker, Events
<1>12. QED
  BY <1>1, <1>2, <1>3, <1>4, <1>5, <1>6, <1>7, <1>8, <1>9, <1>10, <1>11 DEF Next

LEMMA AfterPassNavigation ==
  ASSUME Base, ColorsInv, PassInv, ExpectInv, NavigationHolds, [Next]_vars
  PROVE  NavigationHolds'
<1> SUFFICES ASSUME settled' = "yes", up', dial' # None, expected' # None
             PROVE  dial'.pages[dial'.active] = expected'
  BY DEF NavigationHolds, Settled
<1>0. "ticker" \in Threads /\ goroutine["ticker"] = Ticker /\ goroutine'["ticker"] = Ticker'
  BY DEF Threads, Ticker
<1>1. CASE UNCHANGED vars
  BY <1>1 DEF vars, history, world, NavigationHolds, Settled
<1>2. CASE Begin("ticker")
  <2>1. /\ dial' = dial /\ expected' = expected /\ up' = up
        /\ settled = "yes" \/ dial.pages = <<>>
    BY <1>2, <1>0, BeginFacts DEF Begin, world
  <2>2. dial.pages # <<>>
    <3>1. PICK i \in Indices : Expects(i)
      BY <2>1 DEF ExpectInv
    <3>2. QED
      BY <3>1 DEF Expects, ExpectsAt
  <2>3. QED
    BY <2>1, <2>2 DEF NavigationHolds, Settled
<1>3. CASE Enter("ticker") \/ LookUnavailable("ticker")
  <2>1. dial' = dial
    BY <1>0, <1>3, EnterFacts, UnavailableFacts
  <2>2. UNCHANGED <<up, settled, expected>>
    BY <1>3 DEF Enter, LookUnavailable, Proceeds, world
  <2>3. QED
    BY <2>1, <2>2 DEF NavigationHolds, Settled
<1>4. CASE Look("ticker")
  <2> DEFINE i == Ticker.i
  <2>0. i = Ticker.i
    OBVIOUS
  <2> HIDE DEF i
  <2>1. settled = "yes"
    BY <1>4 DEF Look, Proceeds
  <2>2. /\ i \in DOMAIN dial.pages /\ dial' = LookedAt(i, dial)
        /\ expected' = expected /\ up
    BY <1>4, <2>0, <2>1, TickerLooks
  <2>3. dial \in DialType /\ dial # None
    BY <2>1, TickerInPass
  <2>4. dial'.pages = dial.pages /\ dial'.active = dial.active
    BY <2>2, <2>3, LookedFacts
  <2>5. QED
    BY <2>1, <2>2, <2>3, <2>4 DEF NavigationHolds, Settled
<1>5. CASE Finish("ticker")
  <2>1. settled' = IF MovedAt("ticker") /\ Ticker.own = None THEN "no" ELSE settled
    BY <1>0, <1>5 DEF Finish, MovedAt
  <2>2. Ticker.own = None /\ settled = "yes" /\ ~MovedAt("ticker") /\ dial # None
    BY <2>1, TickerInPass
  <2>3. dial' = dial
    BY <1>0, <1>5, <2>2, FinishFacts
  <2>4. up' = up /\ expected' = expected
    BY <1>5 DEF Finish, world
  <2>5. QED
    BY <2>2, <2>3, <2>4 DEF NavigationHolds, Settled
<1>6. CASE Send("ticker")
  <2>1. dial' = dial /\ up' = up /\ expected' = expected /\ settled # "no" /\ Ticker.pc = "send"
    BY <1>0, <1>6, SendFacts DEF Send, world
  <2>2. PICK i \in Indices : Expects(i)
    BY <2>1 DEF ExpectInv
  <2>3. /\ i \in DOMAIN dial.pages /\ dial.pages[i] = expected
        /\ \/ dial.active = i \/ i \in {Ticker.bring, Events.bring}
           \/ /\ dial.pages[i] \in BringToFront \ dial.current /\ snooze[i] = "off"
              /\ AlertIn(alarm, latch[i], dial.pages[i])
    BY <2>2 DEF Expects, ExpectsAt
  <2>4. /\ Ticker.i = Len(dial.pages) + 1 /\ DOMAIN dial.pages = 1..Len(dial.pages)
        /\ Len(dial.pages) \in Nat /\ Events.pc = "idle"
    BY <2>1, TickerInPass
  <2>5. Ticker.bring = 0 /\ Events.bring = 0
    BY <2>1, <2>4 DEF Base, Placed, InPlace, WorksOn, Threads, Ticker, Events
  <2>6. Done(i)
    BY <2>1, <2>3, <2>4 DEF PassInv
  <2>7. AlertIn(alarm, latch[i], dial.pages[i]) <=> dial.pages[i] \in dial.current
    BY <2>6 DEF Done, DoneAt, QuietAt
  <2>8. dial.active = i
    BY <2>3, <2>5, <2>7 DEF Indices
  <2>9. QED
    BY <2>1, <2>3, <2>8
<1>7. QED
  BY <1>1, <1>2, <1>3, <1>4, <1>5, <1>6, OnlyTicker DEF updateDialFeedback

-----------------------------------------------------------------------------
(* Theorems.                                                               *)

LEMMA InitInv == Init => IInv
<1> SUFFICES ASSUME Init PROVE IInv
  OBVIOUS
<1>1. dial = None /\ settled = "no" /\ expected = None
  BY DEF Init
<1>2. QED
  BY <1>1, InitBase DEF IInv, SavedInv, ColorsInv, PassInv, ExpectInv, StripInv, NavigationHolds,
     SavedAgrees, Settled

LEMMA NextInv == IInv /\ [Next]_vars => IInv'
BY NextBase, NextSaved, NextColors, NextPass, NextExpects,
   AfterPassStrip, AfterPassNavigation, AfterPassSaved DEF IInv

LEMMA InvHolds == Spec => []IInv
BY InitInv, NextInv, PTL DEF Spec

\* Every variable keeps its type, for any pages and however the two goroutines and the
\* Property Inspector's edits interleave: in particular the active index, of the dial,
\* of outdated settings, of the inspector's copy and of what is saved, is that of a page
\* (dial.go).
THEOREM TypeCorrect == Spec => []TypeOK
<1>1. IInv => TypeOK
  BY DEF IInv, Base
<1>2. QED
  BY <1>1, InvHolds, PTL

\* Once a pass of the ticker has gone over the dial undisturbed, the strip shows the
\* pages that it should in the colours of their alerts, whichever goroutine painted them
\* and consumed their marks (updateDialPage and updateDialFeedback).
THEOREM StripIsRight == Spec => []StripSettles
<1>1. IInv => StripSettles
  BY StripDefined DEF IInv
<1>2. QED
  BY <1>1, InvHolds, PTL

\* The page that was asked for last, by the user's turn of the dial or by its alert, is
\* the one that the dial comes to rest at: an alert brings its page to the front once
\* and leaves the user's navigation alone from then on (updateDialFeedback and
\* OnDialRotate).
THEOREM NavigationIsKept == Spec => []NavigationHolds
<1>1. IInv => NavigationHolds
  BY DEF IInv
<1>2. QED
  BY <1>1, InvHolds, PTL

\* Once the dial is at rest, Stream Deck's copy of the settings is the dial's, unless a
\* goroutine saved outdated ones over it last (SetSettings in dial.go).
THEOREM SavedIsCurrent == Spec => []SavedAgrees
<1>1. IInv => SavedAgrees
  BY DEF IInv
<1>2. QED
  BY <1>1, InvHolds, PTL
=============================================================================
