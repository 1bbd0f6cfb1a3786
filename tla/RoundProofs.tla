---------------------------- MODULE RoundProofs ----------------------------
(* The round in the browser, for any banks, links, lengths and speeds. The  *)
(* first part says what a screen offers and what a spin lands on; then each *)
(* step is followed through one inductive invariant.                        *)
EXTENDS Round, Sums

(* What prefs may hold, wherever they came from.                            *)
Styles   == {Surprise} \cup {old.style : old \in Stored} \cup {r.style : r \in Rows}
              \cup UNION {p.bank.styles : p \in Pages}
Passages == {None} \cup {old.passages : old \in Stored} \cup Genres
Prefs    ==
    [genre : Known, style : Styles, level : Levels \cup {Surprise}, passages : Passages,
     pictures : BOOLEAN, wpm : Paces, prep : Preps, speak : Speaks]

Clock ==
    [running : BOOLEAN, paused : BOOLEAN, total : Nat, left : Nat, due : Int,
     done : {"nothing", "speak", "finish", "scroll", "end"}]

Typed ==
    /\ page \in Pages /\ phase \in Phases /\ topic \in page.bank.topics \cup {None}
    /\ used \subseteq {r.text : r \in Rows} /\ notes \in Rows \cup {None}
    /\ prefs \in Prefs /\ saved \in Prefs
    /\ sheet \in {"none", "genre", "settings"}
    /\ clock \in Clock /\ clock.left <= clock.total /\ -Late <= clock.due /\ clock.due <= clock.total
    /\ ran \in 0..MaxRan

(* A spin under these prefs has something to land on, where the page has    *)
(* any row at all.                                                          *)
Serves(pg, prf) == ~Locked(pg) /\ IsRead(pg.bank, prf.genre) => Of(pg.bank, prf.genre) # {}

(* Home is idle exactly while it shows nothing, and remembers what it       *)
(* shows as drawn.                                                          *)
AtHome ==
    ~Locked(page) =>
        /\ phase = "idle" => topic = None
        /\ topic # None => topic.text \in used
        /\ Serves(page, prefs)

(* A feature page knows no minute: a passage, its lead-in, its scroll, its  *)
(* end.                                                                     *)
AtFeature == Locked(page) => phase \in {"topic", "ready", "reading", "done"}

(* Only a warm-up is read out, and only a minute or its thinking is paused. *)
Middles ==
    /\ phase \in {"ready", "reading"} => Reading
    /\ clock.paused => phase \in {"prep", "speak"}
    /\ phase = "speak" => clock.total = 2 * prefs.speak

(* What the clock says has gone, has: as long as the history counts.        *)
Gone == ran = MaxRan \/ (clock.total - clock.left <= ran /\ (~clock.paused => clock.total - clock.due <= ran))

IInv == Typed /\ ScreenIsServed /\ AtHome /\ AtFeature /\ Middles /\ Gone

-----------------------------------------------------------------------------
(* Screens.                                                                 *)

(* What is offered, and where.                                              *)
LEMMA Presses ==
    /\ Pressed("spin") => phase \in {"idle", "topic", "done"}
    /\ Pressed("think") => ~Locked(page) /\ phase = "topic"
    /\ Pressed("speak") => ~Locked(page) /\ phase \in {"topic", "prep"}
    /\ Pressed("read") => Locked(page) /\ phase = "topic"
    /\ Pressed("pause") => ~Locked(page) /\ phase \in {"prep", "speak"}
    /\ Pressed("reset") => ~Locked(page) /\ phase \in {"topic", "prep", "speak"}
    /\ Pressed("note") => phase = "prep" /\ topic # None
    /\ Pressed("choose") /\ ~Locked(page) => phase = "idle"
    /\ Pressed("style") \/ Pressed("pictures") \/ Pressed("length") => ~Locked(page) /\ phase = "idle"
    /\ Pressed("level") => Locked(page) /\ phase # "reading"
    /\ Pressed("speed") => Locked(page) /\ phase = "topic"
    /\ Pressed("source") => Locked(page) /\ phase # "reading" /\ Cardinality(Sources(page)) > 1
    /\ Pressed("again") => Locked(page) /\ phase = "done"
    /\ Pressed("same") => phase = "done"
<1>1. CASE SheetShown /\ sheet = "genre"
  <2>1. Offered = GenreSheet
    BY <1>1 DEF Offered
  <2> QED
    BY <1>1, <2>1 DEF Pressed, GenreSheet, SheetShown
<1>2. CASE SheetShown /\ sheet # "genre" /\ Locked(page)
  <2>1. Offered = WarmUpSettings
    BY <1>2 DEF Offered
  <2>2. phase # "reading"
    BY <1>2 DEF SheetShown
  <2> QED
    BY <1>2, <2>1, <2>2 DEF Pressed, WarmUpSettings
<1>3. CASE SheetShown /\ sheet # "genre" /\ ~Locked(page)
  <2>1. Offered = SettingsSheet
    BY <1>3 DEF Offered
  <2>2. phase = "idle"
    BY <1>3 DEF SheetShown
  <2> QED
    BY <1>3, <2>1, <2>2 DEF Pressed, SettingsSheet
<1>4. CASE ~SheetShown /\ Locked(page)
  <2>1. Offered = FeatureFrame
    BY <1>4 DEF Offered
  <2> QED
    BY <1>4, <2>1 DEF Pressed, FeatureFrame, ReadingScreen, PassageScreen, ReadyScreen, WarmUpDoneScreen
<1>5. CASE ~SheetShown /\ ~Locked(page)
  <2>1. Offered = HomeScreen
    BY <1>5 DEF Offered
  <2>2. TopicScreen \subseteq {"think", "spin", "reset", "speak"}
    BY DEF TopicScreen
  <2>3. CASE phase = "idle"
    BY <1>5, <2>1, <2>3 DEF Pressed, HomeScreen, IdleScreen
  <2>4. CASE phase = "topic" /\ topic # None
    <3>1. HomeScreen = TopicScreen
      BY <2>4 DEF HomeScreen
    <3>2. \A c : Pressed(c) => c = "think" \/ c = "spin" \/ c = "reset" \/ c = "speak"
      BY <2>1, <2>2, <3>1 DEF Pressed
    <3> QED
      BY <1>5, <2>4, <3>2
  <2>5. CASE phase = "prep" /\ topic # None
    BY <1>5, <2>1, <2>5 DEF Pressed, HomeScreen, PrepScreen
  <2>6. CASE phase = "speak" /\ topic # None
    BY <1>5, <2>1, <2>6 DEF Pressed, HomeScreen, SpeakScreen
  <2>7. CASE phase = "done"
    BY <1>5, <2>1, <2>7 DEF Pressed, HomeScreen, DoneScreen
  <2>8. CASE phase # "idle" /\ phase # "done" /\ ~(phase \in {"topic", "prep", "speak"} /\ topic # None)
    <3>1. HomeScreen = {}
      BY <2>8 DEF HomeScreen
    <3> QED
      BY <2>1, <3>1 DEF Pressed
  <2> QED
    BY <2>3, <2>4, <2>5, <2>6, <2>7, <2>8
<1> QED
  BY <1>1, <1>2, <1>3, <1>4, <1>5

-----------------------------------------------------------------------------
(* Banks, pools and prefs.                                                  *)

LEMMA RowsOf ==
    ASSUME NEW pg \in Pages
    PROVE  /\ \A t \in pg.bank.topics : t \in Rows /\ t # None /\ t.words \in Nat
           /\ \A g \in pg.bank.read : g \in Genres
           /\ \A i \in DOMAIN pg.bank.genres : pg.bank.genres[i] \in Genres
           /\ Genres \subseteq Known
<1>1. pg.bank.topics \subseteq Rows
  BY DEF Rows
<1>2. \A i \in DOMAIN pg.bank.genres : pg.bank.genres[i] \in Genres
  BY DEF Genres
<1>3. \A g \in pg.bank.read : g \in Genres
  BY <1>2, BankAssumption
<1> QED
  BY <1>1, <1>2, <1>3, BankAssumption DEF Known

(* What home falls back on is to be talked about.                           *)
LEMMA FirstSpokenIs ==
    ASSUME NEW pg \in Pages
    PROVE  FirstSpoken(pg.bank) \in Known /\ ~IsRead(pg.bank, FirstSpoken(pg.bank))
<1> DEFINE S == Spoken(pg.bank)
<1>1. CASE S = {}
  BY <1>1, BankAssumption DEF FirstSpoken, Known, IsRead
<1>2. CASE S # {}
  <2>1. DOMAIN pg.bank.genres \subseteq Nat
    BY BankAssumption
  <2>2. S \in SUBSET Nat
    BY <2>1 DEF Spoken
  <2>3. \E i \in S : \A j \in S : i <= j
    BY <1>2, <2>2, LeastNat
  <2> DEFINE k == CHOOSE i \in S : \A j \in S : i <= j
  <2>4. k \in S
    BY <2>3
  <2>5. FirstSpoken(pg.bank) = pg.bank.genres[k]
    BY <1>2 DEF FirstSpoken
  <2>6. k \in DOMAIN pg.bank.genres /\ ~IsRead(pg.bank, pg.bank.genres[k])
    BY <2>4 DEF Spoken
  <2>7. pg.bank.genres[k] \in Genres
    BY <2>6, RowsOf
  <2> QED
    BY <2>5, <2>6, <2>7 DEF Known
<1> QED
  BY <1>1, <1>2

(* A feature page plays from a bank it has, which holds a passage.          *)
LEMMA PlaysFrom ==
    ASSUME NEW pg \in Pages, NEW prf
    PROVE  /\ Locked(pg) => LET g == ActiveGenre(pg, prf) IN
                 g \in pg.bank.read /\ Of(pg.bank, g) # {} /\ g \in Known /\ Listed(pg.bank, g)
           /\ ~Locked(pg) => ActiveGenre(pg, prf) = prf.genre
<1>1. CASE Locked(pg)
  <2> DEFINE g == ActiveGenre(pg, prf)
  <2>1. g \in pg.bank.read /\ Of(pg.bank, g) # {}
    BY <1>1, BankAssumption DEF ActiveGenre, IsRead
  <2>2. Listed(pg.bank, g) /\ g \in Known
    BY <2>1, BankAssumption, RowsOf DEF Listed
  <2> QED
    BY <1>1, <2>1, <2>2
<1>2. CASE ~Locked(pg)
  BY <1>2 DEF ActiveGenre
<1> QED
  BY <1>1, <1>2

(* So what it does with it is read.                                         *)
LEMMA FeatureReads ==
    ASSUME page \in Pages, Locked(page) PROVE Reading
<1>1. /\ ActiveGenre(page, prefs) \in page.bank.read
      /\ Listed(page.bank, ActiveGenre(page, prefs))
  BY PlaysFrom
<1> QED
  BY <1>1 DEF Reading, CurrentGenre, IsRead

LEMMA DrawingIs ==
    ASSUME NEW pg \in Pages, NEW prf \in Prefs
    PROVE  LET d == Drawing(pg, prf) IN
           /\ d.genre = ActiveGenre(pg, prf)
           /\ d.pictures = prf.pictures
  BY DEF Drawing, Prefs

(* What a draw may hand back.                                               *)
LEMMA DrawsFrom ==
    ASSUME NEW pg \in Pages, NEW prf \in Prefs, NEW seen, Serves(pg, prf)
    PROVE  LET ds == Draws(Pool(pg.bank, Drawing(pg, prf)), seen) IN
           /\ ds \subseteq pg.bank.topics
           /\ pg.bank.topics # {} => ds # {}
           /\ Locked(pg) => ds # {} /\ \A t \in ds : t.genre = ActiveGenre(pg, prf)
<1> DEFINE d == Drawing(pg, prf)  g == ActiveGenre(pg, prf)  all == Of(pg.bank, g)  P == Pool(pg.bank, d)
<1>1. d.genre = g
  BY DrawingIs
<1>2. all \subseteq pg.bank.topics /\ \A t \in all : t.genre = g
  BY DEF Of
<1>3. Pictured(all) \subseteq pg.bank.topics /\ Pictured(pg.bank.topics) \subseteq pg.bank.topics
  BY <1>2 DEF Pictured
<1>4. CASE IsRead(pg.bank, g)
  <2>1. P = OrElse({t \in all : t.level = d.level}, all)
    BY <1>1, <1>4 DEF Pool
  <2>2. all # {}
    BY <1>4, PlaysFrom DEF Serves
  <2>3. P # {} /\ P \subseteq all
    BY <2>1, <2>2 DEF OrElse
  <2> HIDE DEF P, all
  <2>4. Draws(P, seen) \subseteq P /\ Draws(P, seen) # {}
    BY <2>3 DEF Draws, Unseen, OrElse
  <2> QED
    BY <1>2, <2>3, <2>4 DEF P
<1>5. CASE ~IsRead(pg.bank, g)
  <2>1. ~Locked(pg)
    BY <1>5, PlaysFrom DEF IsRead
  <2> DEFINE pictured == IF d.pictures THEN OrElse(Pictured(all), Pictured(pg.bank.topics)) ELSE {}
             rest == OrElse(all, pg.bank.topics)
             styled == {t \in all : t.style = d.style}
  <2>2. P = OrElse(pictured, OrElse(styled, rest))
    BY <1>1, <1>5 DEF Pool
  <2>3. pictured \subseteq pg.bank.topics
    BY <1>3 DEF OrElse
  <2>4. styled \subseteq pg.bank.topics
    BY <1>2
  <2>5. rest \subseteq pg.bank.topics /\ (pg.bank.topics # {} => rest # {})
    BY <1>2 DEF OrElse
  <2> HIDE DEF pictured, rest, styled, P, all
  <2>6. P \subseteq pg.bank.topics /\ (pg.bank.topics # {} => P # {})
    BY <2>2, <2>3, <2>4, <2>5 DEF OrElse
  <2>7. Draws(P, seen) \subseteq P /\ (P # {} => Draws(P, seen) # {})
    BY DEF Draws, Unseen, OrElse
  <2> QED
    BY <2>1, <2>6, <2>7 DEF P
<1> QED
  BY <1>4, <1>5

(* A staged topic is a row of the page.                                     *)
LEMMA StagedFrom == \A bank, stg : StagedRows(bank, stg) \subseteq bank.topics
  BY DEF StagedRows

(* What a spin leaves.                                                      *)
LEMMA SpinGives ==
    ASSUME page \in Pages, NEW prf \in Prefs, Serves(page, prf),
           NEW seen \in SUBSET {r.text : r \in Rows}, Spin(prf, seen)
    PROVE  /\ topic' \in page.bank.topics \cup {None}
           /\ page.bank.topics # {} \/ Locked(page) => topic' # None
           /\ used' \subseteq {r.text : r \in Rows}
           /\ topic' # None => /\ topic'.text \in used' /\ notes' = None
                               /\ phase' \in {"topic", "spin"}
                               /\ Locked(page) => phase' = "topic"
           /\ topic' = None => phase' = phase /\ notes' = notes
           /\ record' = None
           /\ UNCHANGED <<page, clock, ran, bests, sheet>>
<1> DEFINE chosen == StagedRows(page.bank, staged)
           source == Pool(page.bank, Drawing(page, prf))
           base   == IF chosen # {} THEN seen ELSE UsedAfterDraw(source, seen)
<1>1. PICK t \in OrElse(OrElse(chosen, Draws(source, seen)), {None}) :
         /\ topic' = t
         /\ used' = IF t = None THEN base ELSE base \cup {t.text}
         /\ notes' = IF t = None THEN notes ELSE None
         /\ phase' = IF t = None THEN phase
                     ELSE IF Decoys(page.bank, Drawing(page, prf), t) = {} \/ page.still
                     THEN "topic" ELSE "spin"
  BY DEF Spin
<1>2. record' = None /\ UNCHANGED <<page, clock, ran, bests, sheet>>
  BY DEF Spin
<1>3. base \in SUBSET {r.text : r \in Rows}
  BY DEF UsedAfterDraw
<1>4. chosen \subseteq page.bank.topics
  BY StagedFrom
<1>5. /\ Draws(source, seen) \subseteq page.bank.topics
      /\ page.bank.topics # {} \/ Locked(page) => Draws(source, seen) # {}
  BY DrawsFrom
<1>6. \A r \in page.bank.topics : r # None /\ r.text \in {s.text : s \in Rows}
  BY RowsOf
<1>7. Locked(page) => \A r : Decoys(page.bank, Drawing(page, prf), r) = {}
  BY DrawingIs, PlaysFrom DEF Decoys, IsRead
<1> HIDE DEF chosen, source, base
<1>8. t \in page.bank.topics \cup {None} /\ (page.bank.topics # {} \/ Locked(page) => t # None)
  BY <1>4, <1>5, <1>6 DEF OrElse
<1>9. used' \subseteq {r.text : r \in Rows} /\ (t # None => t.text \in used')
  <2>1. CASE t = None
    BY <1>1, <1>3, <2>1
  <2>2. CASE t # None
    <3>1. t.text \in {s.text : s \in Rows}
      BY <1>6, <1>8, <2>2
    <3>2. used' = base \cup {t.text}
      BY <1>1, <2>2
    <3> QED
      BY <1>3, <3>1, <3>2
  <2> QED
    BY <2>1, <2>2
<1> QED
  BY <1>1, <1>2, <1>7, <1>8, <1>9

-----------------------------------------------------------------------------
(* The steps that several actions share.                                    *)

LEMMA ReadingStays == page' = page /\ prefs' = prefs => (Reading' <=> Reading)
  BY DEF Reading, CurrentGenre, ActiveGenre, Listed, IsRead, Locked, Of

(* A spin, from a screen that may ask for one, or from a lead-in whose      *)
(* source is changed.                                                       *)
LEMMA SpinStep ==
    ASSUME IInv, Serves(page, prefs'), prefs' \in Prefs, saved' \in Prefs,
           NEW seen \in SUBSET {r.text : r \in Rows}, Spin(prefs', seen),
           \/ phase \in {"idle", "topic", "done"}
           \/ Locked(page) /\ Cardinality(Sources(page)) > 1 /\ phase = "ready"
    PROVE  IInv'
<1>1. /\ topic' \in page.bank.topics \cup {None}
      /\ page.bank.topics # {} \/ Locked(page) => topic' # None
      /\ used' \subseteq {r.text : r \in Rows}
      /\ topic' # None => /\ topic'.text \in used' /\ notes' = None
                          /\ phase' \in {"topic", "spin"}
                          /\ Locked(page) => phase' = "topic"
      /\ topic' = None => phase' = phase /\ notes' = notes
      /\ record' = None
      /\ UNCHANGED <<page, clock, ran, bests, sheet>>
  BY SpinGives DEF IInv, Typed
<1>2. topic' = None => ~Locked(page) /\ topic = None /\ phase = "idle" /\ notes = None
  BY <1>1 DEF IInv, Typed, ScreenIsServed, ScreenHasTopic
<1>3. Typed'
  BY <1>1, <1>2 DEF IInv, Typed, Phases
<1>4. ~clock.paused /\ (clock.running => clock.done = "scroll" /\ Cardinality(Sources(page)) > 1 /\ Locked(page))
  <2>1. clock.running => \/ phase = "ready" /\ clock.done = "scroll"
                         \/ phase = "topic" /\ clock.done = "scroll" /\ Cardinality(Sources(page)) > 1
    BY DEF IInv, ScreenIsServed, ClockServesPhase
  <2>2. ~Locked(page) => ~(Cardinality(Sources(page)) > 1)
    BY FS_EmptySet DEF Sources
  <2> QED
    BY <2>1, <2>2 DEF IInv, Middles
<1>5. ScreenIsServed'
  <2>1. ClockServesPhase'
    <3> SUFFICES ASSUME clock.running PROVE phase' = "topic" /\ clock.done = "scroll" /\ Cardinality(Sources(page)) > 1
      BY <1>1 DEF ClockServesPhase, Sources, Locked
    <3> QED
      BY <1>1, <1>2, <1>4
  <2>2. ScreenHasTopic'
    BY <1>1, <1>2 DEF ScreenHasTopic, Locked
  <2> QED
    BY <2>1, <2>2 DEF ScreenIsServed
<1>6. AtHome' /\ AtFeature'
  BY <1>1, <1>2 DEF AtHome, AtFeature, Locked, Serves
<1>7. Middles'
  BY <1>1, <1>2, <1>4 DEF Middles
<1>8. Gone'
  BY <1>1 DEF IInv, Gone
<1> QED
  BY <1>3, <1>5, <1>6, <1>7, <1>8 DEF IInv

(* A spin the visitor asks for.                                             *)
LEMMA AskedSpin ==
    ASSUME IInv, phase \in {"idle", "topic", "done"}, Spin(prefs, used), UNCHANGED <<prefs, saved>>
    PROVE  IInv'
<1>1. Serves(page, prefs)
  BY DEF IInv, AtHome, Serves
<1>2. Spin(prefs', used) /\ prefs' \in Prefs /\ saved' \in Prefs /\ used \in SUBSET {r.text : r \in Rows}
  BY DEF IInv, Typed
<1> QED
  BY <1>1, <1>2, SpinStep

(* The timer starts with the phase it belongs to.                           *)
LEMMA RunStep ==
    ASSUME IInv, NEW to, NEW halves \in Nat, NEW done, Run(to, halves, done), topic # None,
           \/ to = "prep" /\ done = "speak" /\ ~Locked(page)
           \/ to = "speak" /\ done = "finish" /\ ~Locked(page) /\ halves = 2 * prefs.speak
           \/ to = "ready" /\ done = "scroll" /\ Reading
           \/ to = "reading" /\ done = "end" /\ Reading
    PROVE  IInv'
<1>1. /\ phase' = to /\ ran' = 0
      /\ clock' = [running |-> TRUE, paused |-> FALSE, total |-> halves, left |-> halves, due |-> halves, done |-> done]
      /\ UNCHANGED <<page, topic, used, notes, prefs, saved, sheet>>
  BY DEF Run, Started, stores
<1>2. Reading' <=> Reading
  BY <1>1, ReadingStays
<1>3. Typed'
  BY <1>1, TimesAssumption DEF IInv, Typed, Phases, Clock
<1>4. ScreenIsServed'
  BY <1>1 DEF IInv, ScreenIsServed, ClockServesPhase, ScreenHasTopic, Locked
<1>5. AtHome' /\ AtFeature'
  BY <1>1 DEF IInv, AtHome, AtFeature, Locked, Serves
<1>6. Middles'
  BY <1>1, <1>2 DEF IInv, Middles
<1>7. Gone'
  BY <1>1 DEF Gone
<1> QED
  BY <1>3, <1>4, <1>5, <1>6, <1>7 DEF IInv

(* The timer stops with the phase it belonged to.                           *)
LEMMA StopStep ==
    ASSUME IInv, phase \notin {"idle", "spin"}, phase' \in {"topic", "done"}, clock' = Stopped, ran' = 0,
           UNCHANGED <<page, topic, used, notes, prefs, saved, sheet>>
    PROVE  IInv'
<1>1. clock' = [running |-> FALSE, paused |-> FALSE, total |-> 0, left |-> 0, due |-> 0, done |-> "nothing"]
  BY DEF Stopped
<1>2. Typed'
  BY <1>1, TimesAssumption DEF IInv, Typed, Phases, Clock
<1>3. ScreenIsServed'
  BY <1>1 DEF IInv, ScreenIsServed, ClockServesPhase, ScreenHasTopic, Locked
<1>4. AtHome' /\ AtFeature' /\ Middles' /\ Gone'
  BY <1>1 DEF IInv, AtHome, AtFeature, Locked, Serves, Middles, Gone
<1> QED
  BY <1>2, <1>3, <1>4 DEF IInv

(* Prefs move where the round is not running off them.                      *)
LEMMA PrefsStep ==
    ASSUME IInv, Locked(page) \/ phase = "idle", Serves(page, prefs'),
           prefs' \in Prefs, saved' \in Prefs, used' \in {used, {}},
           sheet' \in {"none", "genre", "settings"},
           UNCHANGED <<page, phase, topic, notes, clock, ran>>
    PROVE  IInv'
<1>1. Typed'
  BY DEF IInv, Typed
<1>2. ScreenIsServed'
  BY DEF IInv, ScreenIsServed, ClockServesPhase, ScreenHasTopic, Locked, Sources
<1>3. AtHome' /\ AtFeature' /\ Gone'
  BY DEF IInv, AtHome, AtFeature, Locked, Serves, Gone
<1>4. CASE Locked(page)
  <2>1. Reading'
    <3>1. page \in Pages
      BY DEF IInv, Typed
    <3>2. /\ ActiveGenre(page, prefs') \in page.bank.read
          /\ Listed(page.bank, ActiveGenre(page, prefs'))
      BY <1>4, <3>1, PlaysFrom
    <3> QED
      BY <3>2 DEF Reading, CurrentGenre, IsRead
  <2> QED
    BY <1>1, <1>2, <1>3, <1>4, <2>1 DEF IInv, Middles, AtFeature
<1>5. CASE phase = "idle"
  BY <1>1, <1>2, <1>3, <1>5 DEF IInv, Middles
<1> QED
  BY <1>4, <1>5

-----------------------------------------------------------------------------
(* Each action in turn.                                                     *)

LEMMA Facts ==
    ASSUME IInv
    PROVE  /\ page \in Pages /\ prefs \in Prefs /\ saved \in Prefs
           /\ prefs.prep \in Nat /\ prefs.speak \in Nat \ {0} /\ prefs.wpm \in Nat \ {0}
           /\ phase # "idle" => topic # None
           /\ Locked(page) => phase \in {"topic", "ready", "reading", "done"}
           /\ topic # None => topic \in page.bank.topics /\ topic \in Rows /\ topic.words \in Nat
           /\ Serves(page, prefs)
           /\ used \in SUBSET {r.text : r \in Rows}
<1>1. page \in Pages /\ prefs \in Prefs /\ saved \in Prefs /\ used \in SUBSET {r.text : r \in Rows}
  BY DEF IInv, Typed
<1>2. prefs.prep \in Nat /\ prefs.speak \in Nat \ {0}
  BY <1>1, TimesAssumption DEF Prefs
<1>3. prefs.wpm \in Nat \ {0}
  <2>1. Paces \subseteq Nat \ {0}
    BY TimesAssumption DEF Paces
  <2> QED
    BY <1>1, <2>1 DEF Prefs
<1>4. topic # None => topic \in page.bank.topics /\ topic \in Rows /\ topic.words \in Nat
  BY <1>1, RowsOf DEF IInv, Typed
<1> QED
  BY <1>1, <1>2, <1>3, <1>4 DEF IInv, ScreenIsServed, ScreenHasTopic, AtFeature, AtHome, Serves

LEMMA SpeakStep == ASSUME IInv, ~Locked(page), StartSpeak PROVE IInv'
  BY Facts, RunStep DEF StartSpeak

LEMMA ReadStep == ASSUME IInv, StartReading PROVE IInv'
  BY RunStep, TimesAssumption DEF StartReading

LEMMA PrepStep == ASSUME IInv, StartPrep PROVE IInv'
<1>1. CASE Reading
  <2>1. StartReading
    BY <1>1 DEF StartPrep
  <2> QED
    BY <2>1, ReadStep
<1>2. CASE ~Reading
  <2>1. ~Locked(page)
    BY <1>2, FeatureReads, Facts
  <2>2. CASE prefs.prep = 0
    <3>1. StartSpeak
      BY <1>2, <2>2 DEF StartPrep
    <3> QED
      BY <2>1, <3>1, SpeakStep
  <2>3. CASE prefs.prep # 0
    <3>1. topic # None /\ Run("prep", 2 * prefs.prep, "speak")
      BY <1>2, <2>3 DEF StartPrep
    <3>2. 2 * prefs.prep \in Nat
      BY Facts
    <3> QED
      BY <2>1, <3>1, <3>2, RunStep
  <2> QED
    BY <2>2, <2>3
<1> QED
  BY <1>1, <1>2

LEMMA FinishStep == ASSUME IInv, phase = "speak", NEW n, Finish(n) PROVE IInv'
  BY StopStep DEF Finish, stores

LEMMA FinishReadingStep == ASSUME IInv, NEW clk, FinishReading(clk) PROVE IInv'
  BY StopStep DEF FinishReading

LEMMA LeaveStep == ASSUME IInv, LeaveRound PROVE IInv'
  BY StopStep DEF LeaveRound, Filming, stores

(* Where nothing runs, a step may move the phase.                           *)
LEMMA QuietStep ==
    ASSUME IInv, UNCHANGED <<page, used, clock, ran, sheet>>,
           \/ UNCHANGED <<phase, topic, prefs, saved>> /\ notes' \in {notes, topic}
           \/ /\ phase \in {"spin", "done"} /\ phase' = "topic"
              /\ UNCHANGED <<topic, prefs, saved>> /\ notes' \in {notes, None}
           \/ /\ ~Locked(page) /\ phase = "topic" /\ phase' = "idle" /\ topic' = None /\ notes' = None
              /\ UNCHANGED <<prefs, saved>>
    PROVE  IInv'
<1>1. Typed'
  BY Facts DEF IInv, Typed, Phases
<1>2. phase = "topic" /\ ~Locked(page) => ~clock.running
  BY FS_EmptySet DEF IInv, ScreenIsServed, ClockServesPhase, Sources
<1>3. phase \in {"spin", "done"} => ~clock.running
  BY DEF IInv, ScreenIsServed, ClockServesPhase
<1>4. ScreenIsServed'
  <2>1. ClockServesPhase'
    BY <1>2, <1>3 DEF IInv, ScreenIsServed, ClockServesPhase, Sources, Locked
  <2>2. ScreenHasTopic'
    BY DEF IInv, ScreenIsServed, ScreenHasTopic, Locked, AtFeature
  <2> QED
    BY <2>1, <2>2 DEF ScreenIsServed
<1>5. AtHome' /\ AtFeature' /\ Gone'
  BY DEF IInv, AtHome, AtFeature, Locked, Serves, Gone
<1>6. Middles'
  BY ReadingStays DEF IInv, Middles
<1> QED
  BY <1>1, <1>4, <1>5, <1>6 DEF IInv

LEMMA ResetStep == ASSUME IInv, ResetToIdle PROVE IInv'
<1>1. CASE Locked(page)
  BY <1>1, AskedSpin DEF ResetToIdle
<1>2. CASE ~Locked(page)
  BY <1>2, QuietStep DEF ResetToIdle, stores
<1> QED
  BY <1>1, <1>2

LEMMA PauseStep == ASSUME IInv, phase \in {"prep", "speak"}, TogglePause PROVE IInv'
<1>1. /\ clock.running /\ clock' = IF clock.paused THEN Resumed(clock) ELSE Paused(clock)
      /\ UNCHANGED <<page, phase, topic, used, notes, prefs, ran, saved, sheet>>
  BY DEF TogglePause, stores
<1>2. clock \in Clock /\ clock.left <= clock.total /\ -Late <= clock.due /\ clock.due <= clock.total
  BY DEF IInv, Typed
<1>3. /\ clock' \in Clock
      /\ clock'.running = clock.running /\ clock'.total = clock.total /\ clock'.left = clock.left /\ clock'.done = clock.done
      /\ \/ ~clock'.paused /\ clock'.due = clock.left
         \/ clock'.paused /\ clock'.due = clock.due
  <2>1. CASE clock.paused
    <3>1. clock.left \in Int
      BY <1>2 DEF Clock
    <3>2. clock' = [clock EXCEPT !.paused = FALSE, !.due = clock.left]
      BY <1>1, <2>1 DEF Resumed
    <3> QED
      BY <1>2, <3>1, <3>2 DEF Clock
  <2>2. CASE ~clock.paused
    BY <1>1, <1>2, <2>2 DEF Paused, Clock
  <2> QED
    BY <2>1, <2>2
<1>4. Typed'
  <2>1. clock.left \in Nat
    BY <1>2 DEF Clock
  <2> QED
    BY <1>1, <1>2, <1>3, <2>1, TimesAssumption DEF IInv, Typed
<1>5. ScreenIsServed'
  BY <1>1, <1>3 DEF IInv, ScreenIsServed, ClockServesPhase, ScreenHasTopic, Locked, Sources
<1>6. AtHome' /\ AtFeature'
  BY <1>1 DEF IInv, AtHome, AtFeature, Locked, Serves
<1>7. Middles'
  BY <1>1, <1>3 DEF IInv, Middles
<1>8. Gone'
  BY <1>1, <1>2, <1>3 DEF IInv, Gone, Clock
<1> QED
  BY <1>4, <1>5, <1>6, <1>7, <1>8 DEF IInv

-----------------------------------------------------------------------------
(* Time.                                                                    *)

LEMMA PassStep == ASSUME IInv, Pass PROVE IInv'
<1>1. /\ ~clock.paused /\ clock.running /\ clock.due > -Late
      /\ clock' = [clock EXCEPT !.due = @ - 1] /\ ran' = IF ran < MaxRan THEN ran + 1 ELSE ran
      /\ UNCHANGED <<page, phase, topic, used, notes, prefs, saved, sheet>>
  BY DEF Pass, MayPass, Passed, stores
<1>2. clock \in Clock /\ clock.left <= clock.total /\ -Late <= clock.due /\ clock.due <= clock.total /\ ran \in 0..MaxRan
  BY DEF IInv, Typed
<1>3. /\ clock' \in Clock
      /\ clock'.running = clock.running /\ clock'.paused = clock.paused /\ clock'.total = clock.total
      /\ clock'.left = clock.left /\ clock'.done = clock.done /\ clock'.due = clock.due - 1
  <2>1. clock.due - 1 \in Int
    BY <1>2 DEF Clock
  <2> QED
    BY <1>1, <1>2, <2>1 DEF Clock
<1>4. Typed'
  BY <1>1, <1>2, <1>3, TimesAssumption DEF IInv, Typed, Clock
<1>5. ScreenIsServed'
  BY <1>1, <1>3 DEF IInv, ScreenIsServed, ClockServesPhase, ScreenHasTopic, Locked, Sources
<1>6. AtHome' /\ AtFeature'
  BY <1>1 DEF IInv, AtHome, AtFeature, Locked, Serves
<1>7. Middles'
  BY <1>1, <1>3, ReadingStays DEF IInv, Middles
<1>8. Gone'
  BY <1>1, <1>2, <1>3, TimesAssumption DEF IInv, Gone, Clock
<1> QED
  BY <1>4, <1>5, <1>6, <1>7, <1>8 DEF IInv

(* What the loop reads off the clock.                                       *)
LEMMA LoopedIs ==
    ASSUME IInv, ~clock.paused
    PROVE  LET c == Looped(clock) IN
           /\ c \in Clock
           /\ c.running = clock.running /\ c.paused = clock.paused /\ c.total = clock.total
           /\ c.due = clock.due /\ c.done = clock.done
           /\ c.left = IF clock.due > 0 THEN clock.due ELSE 0
           /\ c.left <= c.total
           /\ ran = MaxRan \/ c.total - c.left <= ran
<1>1. clock \in Clock /\ clock.left <= clock.total /\ -Late <= clock.due /\ clock.due <= clock.total /\ ran \in 0..MaxRan
  BY DEF IInv, Typed
<1> DEFINE k == IF clock.due > 0 THEN clock.due ELSE 0  c == Looped(clock)
<1>2. k \in Nat /\ k <= clock.total /\ clock.total - k <= clock.total - clock.due
  BY <1>1 DEF Clock
<1>3. c = [clock EXCEPT !.left = k]
  BY DEF Looped
<1> HIDE DEF k, c
<1>4. /\ c \in Clock
      /\ c.running = clock.running /\ c.paused = clock.paused /\ c.total = clock.total
      /\ c.due = clock.due /\ c.done = clock.done /\ c.left = k
  BY <1>1, <1>2, <1>3 DEF Clock
<1>5. ran = MaxRan \/ clock.total - clock.due <= ran
  BY DEF IInv, Gone
<1>6. ran = MaxRan \/ clock.total - k <= ran
  BY <1>1, <1>2, <1>5 DEF Clock
<1>7. k = IF clock.due > 0 THEN clock.due ELSE 0
  BY DEF k
<1> QED
  BY <1>2, <1>4, <1>6, <1>7 DEF c

LEMMA LoopOnStep == ASSUME IInv, LoopOn PROVE IInv'
<1>1. /\ ~clock.paused /\ clock' = Looped(clock)
      /\ UNCHANGED <<page, phase, topic, used, notes, prefs, ran, saved, sheet>>
  BY DEF LoopOn, MayLoop, stores
<1>2. /\ clock' \in Clock
      /\ clock'.running = clock.running /\ clock'.paused = clock.paused /\ clock'.total = clock.total
      /\ clock'.due = clock.due /\ clock'.done = clock.done
      /\ clock'.left <= clock'.total
      /\ ran = MaxRan \/ clock'.total - clock'.left <= ran
  BY <1>1, LoopedIs
<1>4. Typed'
  BY <1>1, <1>2 DEF IInv, Typed
<1>5. ScreenIsServed'
  BY <1>1, <1>2 DEF IInv, ScreenIsServed, ClockServesPhase, ScreenHasTopic, Locked, Sources
<1>6. AtHome' /\ AtFeature'
  BY <1>1 DEF IInv, AtHome, AtFeature, Locked, Serves
<1>7. Middles'
  BY <1>1, <1>2, ReadingStays DEF IInv, Middles
<1>8. Gone'
  BY <1>1, <1>2 DEF IInv, Gone
<1> QED
  BY <1>4, <1>5, <1>6, <1>7, <1>8 DEF IInv

(* A running clock says which screen is up.                                 *)
LEMMA ClockSays ==
    ASSUME IInv, clock.running
    PROVE  /\ clock.done = "speak" => phase = "prep" /\ ~Locked(page)
           /\ clock.done = "finish" => phase = "speak" /\ ~Locked(page)
           /\ clock.done = "scroll" => phase \in {"ready", "topic"} /\ topic # None /\ Reading
           /\ clock.done = "end" => phase = "reading" /\ topic # None /\ Reading
<1>1. /\ clock.done = "speak" => phase = "prep"
      /\ clock.done = "finish" => phase = "speak"
      /\ clock.done = "scroll" => phase = "ready" \/ (phase = "topic" /\ Cardinality(Sources(page)) > 1)
      /\ clock.done = "end" => phase = "reading"
  BY DEF IInv, ScreenIsServed, ClockServesPhase
<1>2. Cardinality(Sources(page)) > 1 => Locked(page)
  BY FS_EmptySet DEF Sources
<1>3. Locked(page) => Reading
  BY FeatureReads, Facts
<1>4. phase \in {"ready", "reading"} => Reading
  BY DEF IInv, Middles
<1> QED
  BY <1>1, <1>2, <1>3, <1>4, Facts

LEMMA ReadHalvesNat ==
    ASSUME IInv, topic # None PROVE ReadHalves(topic, prefs.wpm) \in Nat
<1>1. topic.words \in Nat /\ prefs.wpm \in Nat \ {0}
  BY Facts
<1> QED
  BY <1>1 DEF ReadHalves

LEMMA LoopOverStep == ASSUME IInv, LoopOver PROVE IInv'
<1>1. clock.running /\ ~clock.paused
  BY DEF LoopOver, MayLoop
<1>2. CASE clock.done = "speak" /\ StartSpeak
  BY <1>1, <1>2, ClockSays, SpeakStep
<1>3. CASE clock.done = "finish" /\ Finish(prefs.speak)
  BY <1>1, <1>3, ClockSays, FinishStep
<1>4. CASE clock.done = "scroll" /\ Scroll
  BY <1>1, <1>4, ClockSays, ReadHalvesNat, RunStep DEF Scroll
<1>5. CASE clock.done = "end" /\ FinishReading(Looped(clock))
  BY <1>5, FinishReadingStep
<1> QED
  BY <1>2, <1>3, <1>4, <1>5 DEF LoopOver

-----------------------------------------------------------------------------
(* Settings and pages.                                                      *)

LEMMA SettledIn ==
    ASSUME NEW pg \in Pages, NEW prf \in Prefs
    PROVE  /\ SettledStyle(pg.bank, prf) \in Styles
           /\ [prf EXCEPT !.style = SettledStyle(pg.bank, prf)] \in Prefs
           /\ [prf EXCEPT !.style = SettledStyle(pg.bank, prf)].genre = prf.genre
           /\ [prf EXCEPT !.style = SettledStyle(pg.bank, prf)].passages = prf.passages
<1> DEFINE s == SettledStyle(pg.bank, prf)
<1>1. s \in Styles
  BY DEF SettledStyle, Prefs, Styles
<1> HIDE DEF s
<1>2. [prf EXCEPT !.style = s] \in Prefs /\ [prf EXCEPT !.style = s].genre = prf.genre
      /\ [prf EXCEPT !.style = s].passages = prf.passages
  BY <1>1 DEF Prefs
<1> QED
  BY <1>1, <1>2 DEF s

LEMMA MovedIn ==
    ASSUME NEW prf \in Prefs, NEW g \in Known
    PROVE  /\ [prf EXCEPT !.genre = g] \in Prefs /\ [prf EXCEPT !.genre = g].genre = g
           /\ [prf EXCEPT !.genre = g].passages = prf.passages
  BY DEF Prefs

(* A setting that leaves the genre alone.                                   *)
LEMMA KeptStep ==
    ASSUME IInv, Locked(page) \/ phase = "idle", prefs' \in Prefs, prefs'.genre = prefs.genre,
           saved' \in {saved, prefs'}, used' \in {used, {}},
           UNCHANGED <<page, phase, topic, notes, clock, ran, sheet>>
    PROVE  IInv'
<1>1. Serves(page, prefs')
  BY Facts DEF Serves
<1>2. saved' \in Prefs /\ sheet' \in {"none", "genre", "settings"}
  BY DEF IInv, Typed
<1> QED
  BY <1>1, <1>2, PrefsStep

LEMMA SheetStep ==
    ASSUME IInv, sheet' \in {"none", "genre", "settings"},
           UNCHANGED <<page, phase, topic, used, notes, prefs, saved, clock, ran>>
    PROVE  IInv'
<1>1. Typed'
  BY DEF IInv, Typed
<1>2. ScreenIsServed'
  BY DEF IInv, ScreenIsServed, ClockServesPhase, ScreenHasTopic, Locked, Sources
<1>3. AtHome' /\ AtFeature' /\ Gone' /\ Middles'
  BY ReadingStays DEF IInv, AtHome, AtFeature, Locked, Serves, Gone, Middles
<1> QED
  BY <1>1, <1>2, <1>3 DEF IInv

LEMMA SettingsStep ==
    ASSUME IInv, Settings
    PROVE  IInv'
<1> USE Facts, Presses
<1>1. ASSUME NEW which \in {"genre", "settings"}, OpenSheet(which) PROVE IInv'
  <2>1. UNCHANGED <<page, phase, topic, used, notes, prefs, saved, clock, ran>> /\ sheet' = which
    BY <1>1 DEF OpenSheet, stores
  <2> QED
    BY <2>1, SheetStep
<1>2. ASSUME CloseSheet PROVE IInv'
  <2>1. UNCHANGED <<page, phase, topic, used, notes, prefs, saved, clock, ran>> /\ sheet' = "none"
    BY <1>2 DEF CloseSheet, stores
  <2> QED
    BY <2>1, SheetStep
<1>3. ASSUME NEW genre \in Genres, ChooseGenre(genre) PROVE IInv'
  <2> DEFINE moved == [prefs EXCEPT !.genre = genre]
  <2>1. /\ ~Locked(page) /\ ~IsRead(page.bank, genre) /\ phase = "idle"
        /\ prefs' = [moved EXCEPT !.style = SettledStyle(page.bank, moved)]
        /\ saved' = prefs' /\ used' = {} /\ sheet' = "none"
        /\ UNCHANGED <<page, phase, topic, notes, clock, ran>>
    BY <1>3 DEF ChooseGenre
  <2>2. moved \in Prefs /\ moved.genre = genre
    BY MovedIn, RowsOf
  <2> HIDE DEF moved
  <2>3. prefs' \in Prefs /\ prefs'.genre = genre
    BY <2>1, <2>2, SettledIn
  <2>4. Serves(page, prefs')
    BY <2>1, <2>3 DEF Serves
  <2> QED
    BY <2>1, <2>3, <2>4, PrefsStep
<1>4. ASSUME NEW genre \in Genres, SetSource(genre) PROVE IInv'
  <2>1. /\ Locked(page) /\ phase # "reading" /\ Cardinality(Sources(page)) > 1
        /\ saved' = prefs' /\ Spin(prefs', {})
        /\ prefs' = [prefs EXCEPT !.passages = IF IsRead(page.bank, genre) THEN genre ELSE None]
    BY <1>4 DEF SetSource
  <2>2. prefs' \in Prefs
    BY <2>1 DEF Prefs, Passages
  <2>3. Serves(page, prefs')
    BY <2>1 DEF Serves
  <2>4. phase \in {"topic", "done"} \/ phase = "ready"
    BY <2>1
  <2>5. {} \in SUBSET {r.text : r \in Rows}
    OBVIOUS
  <2> QED
    BY <2>1, <2>2, <2>3, <2>4, <2>5, SpinStep
<1>5. ASSUME NEW style \in {r.style : r \in Rows} \cup {Surprise}, ChooseStyle(style) PROVE IInv'
  <2>1. /\ phase = "idle" /\ prefs' = [prefs EXCEPT !.style = style] /\ saved' = prefs' /\ used' = {}
        /\ UNCHANGED <<page, phase, topic, notes, clock, ran, sheet>>
    BY <1>5 DEF ChooseStyle, Keep
  <2>2. prefs' \in Prefs /\ prefs'.genre = prefs.genre
    BY <2>1 DEF Prefs, Styles
  <2> QED
    BY <2>1, <2>2, KeptStep
<1>6. ASSUME NEW on \in BOOLEAN, SetPictures(on) PROVE IInv'
  <2>1. /\ phase = "idle" /\ prefs' = [prefs EXCEPT !.pictures = on] /\ saved' = prefs' /\ used' = {}
        /\ UNCHANGED <<page, phase, topic, notes, clock, ran, sheet>>
    BY <1>6 DEF SetPictures, Keep
  <2>2. prefs' \in Prefs /\ prefs'.genre = prefs.genre
    BY <2>1 DEF Prefs
  <2> QED
    BY <2>1, <2>2, KeptStep
<1>7. ASSUME NEW seconds \in Preps, PreviewLength("prep", seconds) \/ SetLength("prep", seconds) PROVE IInv'
  <2>1. /\ phase = "idle" /\ prefs' = [prefs EXCEPT !["prep"] = seconds] /\ saved' \in {saved, prefs'} /\ used' = used
        /\ UNCHANGED <<page, phase, topic, notes, clock, ran, sheet>>
    BY <1>7 DEF PreviewLength, SetLength, Keep, stores
  <2>2. prefs' \in Prefs /\ prefs'.genre = prefs.genre
    BY <2>1 DEF Prefs
  <2> QED
    BY <2>1, <2>2, KeptStep
<1>8. ASSUME NEW seconds \in Speaks, PreviewLength("speak", seconds) \/ SetLength("speak", seconds) PROVE IInv'
  <2>1. /\ phase = "idle" /\ prefs' = [prefs EXCEPT !["speak"] = seconds] /\ saved' \in {saved, prefs'} /\ used' = used
        /\ UNCHANGED <<page, phase, topic, notes, clock, ran, sheet>>
    BY <1>8 DEF PreviewLength, SetLength, Keep, stores
  <2>2. prefs' \in Prefs /\ prefs'.genre = prefs.genre
    BY <2>1 DEF Prefs
  <2> QED
    BY <2>1, <2>2, KeptStep
<1>9. ASSUME NEW i \in DOMAIN Speeds, SetSpeed(Speeds[i]) PROVE IInv'
  <2>1. /\ Locked(page) /\ prefs' = [prefs EXCEPT !.wpm = Speeds[i]] /\ saved' = prefs' /\ used' = used
        /\ UNCHANGED <<page, phase, topic, notes, clock, ran, sheet>>
    BY <1>9 DEF SetSpeed, Keep
  <2>2. prefs' \in Prefs /\ prefs'.genre = prefs.genre
    BY <2>1 DEF Prefs, Paces
  <2> QED
    BY <2>1, <2>2, KeptStep
<1>10. ASSUME NEW level \in Levels \cup {Surprise}, SetLevel(level) PROVE IInv'
  <2>1. /\ Locked(page) /\ prefs' = [prefs EXCEPT !.level = level] /\ saved' = prefs' /\ used' = {}
        /\ UNCHANGED <<page, phase, topic, notes, clock, ran, sheet>>
    BY <1>10 DEF SetLevel, Keep
  <2>2. prefs' \in Prefs /\ prefs'.genre = prefs.genre
    BY <2>1 DEF Prefs
  <2> QED
    BY <2>1, <2>2, KeptStep
<1> QED
  BY <1>1, <1>2, <1>3, <1>4, <1>5, <1>6, <1>7, <1>8, <1>9, <1>10 DEF Settings

(* What is remembered, and what a link makes of it.                         *)
LEMMA RememberedIs ==
    ASSUME NEW pg \in Pages, NEW sv \in Prefs
    PROVE  /\ Remembered(pg, sv) \in Prefs
           /\ Remembered(pg, sv).passages = sv.passages
           /\ ~Locked(pg) => ~IsRead(pg.bank, Remembered(pg, sv).genre)
           /\ Locked(pg) => Remembered(pg, sv) = sv
<1>1. CASE Locked(pg)
  BY <1>1 DEF Remembered
<1>2. CASE ~Locked(pg)
  <2> DEFINE g == IF KnownSpoken(pg.bank, sv.genre) THEN sv.genre ELSE FirstSpoken(pg.bank)
             known == [sv EXCEPT !.genre = g]
  <2>1. g \in Known /\ ~IsRead(pg.bank, g)
    BY FirstSpokenIs DEF KnownSpoken, Prefs
  <2>2. Remembered(pg, sv) = [known EXCEPT !.style = SettledStyle(pg.bank, known)]
    BY <1>2 DEF Remembered
  <2> HIDE DEF g
  <2>3. known \in Prefs /\ known.genre = g /\ known.passages = sv.passages
    BY <2>1, MovedIn
  <2> HIDE DEF known
  <2> QED
    BY <1>2, <2>1, <2>2, <2>3, SettledIn
<1> QED
  BY <1>1, <1>2

LEMMA AskedIs ==
    ASSUME NEW pg \in Pages, NEW prf \in Prefs, NEW link \in Links \cup {NoLink}
    PROVE  /\ Asked(pg, prf, link) \in Prefs
           /\ Asked(pg, prf, link).passages = prf.passages
           /\ Asked(pg, prf, link).genre = prf.genre
                \/ (~Locked(pg) /\ ~IsRead(pg.bank, Asked(pg, prf, link).genre))
<1> DEFINE paced == IF link.wpm # None THEN [prf EXCEPT !.wpm = link.wpm] ELSE prf
           shown == IF link.pictures # None THEN [paced EXCEPT !.pictures = link.pictures] ELSE paced
           moved == [shown EXCEPT !.genre = link.genre]
           asks  == link.genre # None /\ ~Locked(pg) /\ KnownSpoken(pg.bank, link.genre)
<1>1. link.wpm \in Paces \cup {None} /\ link.pictures \in BOOLEAN \cup {None}
  BY StoredAssumption DEF NoLink
<1>2. paced \in Prefs /\ paced.genre = prf.genre /\ paced.passages = prf.passages
  BY <1>1 DEF Prefs
<1> HIDE DEF paced
<1>3. shown \in Prefs /\ shown.genre = prf.genre /\ shown.passages = prf.passages
  BY <1>1, <1>2 DEF Prefs
<1> HIDE DEF shown
<1>4. Asked(pg, prf, link) = IF asks THEN [moved EXCEPT !.style = SettledStyle(pg.bank, moved)] ELSE shown
  BY DEF Asked, paced, shown
<1>5. CASE asks
  <2>1. link.genre \in Known /\ ~IsRead(pg.bank, link.genre) /\ ~Locked(pg)
    BY <1>5, RowsOf DEF KnownSpoken, Listed
  <2>2. moved \in Prefs /\ moved.genre = link.genre /\ moved.passages = prf.passages
    BY <1>3, <2>1, MovedIn
  <2>3. Asked(pg, prf, link) = [moved EXCEPT !.style = SettledStyle(pg.bank, moved)]
    BY <1>4, <1>5
  <2> HIDE DEF moved
  <2> QED
    BY <2>1, <2>2, <2>3, SettledIn
<1>6. CASE ~asks
  <2>1. Asked(pg, prf, link) = shown
    BY <1>4, <1>6
  <2> QED
    BY <1>3, <2>1
<1> QED
  BY <1>5, <1>6

(* What a page opens on: a feature page always on a passage it has.         *)
LEMMA OpensOn ==
    ASSUME NEW pg \in Pages, NEW link, NEW prf \in Prefs,
           NEW opening \in Openings(pg, link), NEW first \in FirstTopics(pg, prf, opening)
    PROVE  /\ Locked(pg) => opening \in pg.bank.topics /\ first \in pg.bank.topics
           /\ ~Locked(pg) => opening = None /\ first = None
<1>1. CASE Locked(pg)
  <2>1. opening \in pg.bank.topics
    BY <1>1 DEF Openings, OrElse, Of
  <2>2. Serves(pg, prf)
    BY <1>1 DEF Serves
  <2>3. \A seen : Draws(Pool(pg.bank, Drawing(pg, prf)), seen) \subseteq pg.bank.topics
    BY <2>2, DrawsFrom
  <2>4. first \in pg.bank.topics
    BY <2>1, <2>3 DEF FirstTopics, OrElse
  <2> QED
    BY <1>1, <2>1, <2>4
<1>2. CASE ~Locked(pg)
  BY <1>2 DEF Openings, FirstTopics
<1> QED
  BY <1>1, <1>2

(* Arriving, whatever the last page was doing.                              *)
LEMMA ArriveGives ==
    ASSUME IInv, NEW pg \in Pages, NEW link \in Links \cup {NoLink}, NEW stg, Arrive(pg, link, stg)
    PROVE  /\ page' = pg /\ topic' \in pg.bank.topics \cup {None}
           /\ Locked(pg) => topic' # None
           /\ phase' = IF topic' = None THEN "idle" ELSE "topic"
           /\ used' \subseteq {r.text : r \in Rows} /\ (topic' # None => topic'.text \in used')
           /\ prefs' \in Prefs /\ prefs'.passages = saved.passages
           /\ Serves(pg, prefs')
           /\ saved' \in Prefs /\ saved'.passages = saved.passages
           /\ saved'.genre # saved.genre => ~Locked(pg)
           /\ Locked(pg) => prefs'.genre = saved'.genre \/ (link.topic = None /\ StagedRows(pg.bank, stg) # {})
           /\ notes' = None /\ clock' = Stopped /\ ran' = 0 /\ record' = None /\ sheet' = "none"
           /\ staged' = stg /\ bests' = bests
<1> DEFINE asked == Asked(pg, Remembered(pg, saved), link)
           chosen == IF link.topic # None THEN {} ELSE StagedRows(pg.bank, stg)
           named == {t \in pg.bank.topics : link.topic # None /\ t.slug = link.topic}
           start == IF chosen # {} THEN [asked EXCEPT !.genre = stg.genre] ELSE asked
<1>1. PICK opening \in Openings(pg, link) : \E first \in FirstTopics(pg, Remembered(pg, saved), opening) :
         /\ \E t \in OrElse(named, {first}) :
              LET opened == [start EXCEPT !.genre = t.genre]
              IN  /\ topic' = t
                  /\ phase' = IF t = None THEN "idle" ELSE "topic"
                  /\ used' = {r.text : r \in {opening, first, t} \ {None}}
                  /\ prefs' = IF named # {} /\ ~Locked(pg)
                              THEN [opened EXCEPT !.style = SettledStyle(pg.bank, opened)]
                              ELSE start
  BY DEF Arrive
<1>2. PICK first \in FirstTopics(pg, Remembered(pg, saved), opening) :
         /\ \E t \in OrElse(named, {first}) :
              LET opened == [start EXCEPT !.genre = t.genre]
              IN  /\ topic' = t
                  /\ phase' = IF t = None THEN "idle" ELSE "topic"
                  /\ used' = {r.text : r \in {opening, first, t} \ {None}}
                  /\ prefs' = IF named # {} /\ ~Locked(pg)
                              THEN [opened EXCEPT !.style = SettledStyle(pg.bank, opened)]
                              ELSE start
  BY <1>1
<1>3. PICK t \in OrElse(named, {first}) :
              LET opened == [start EXCEPT !.genre = t.genre]
              IN  /\ topic' = t
                  /\ phase' = IF t = None THEN "idle" ELSE "topic"
                  /\ used' = {r.text : r \in {opening, first, t} \ {None}}
                  /\ prefs' = IF named # {} /\ ~Locked(pg)
                              THEN [opened EXCEPT !.style = SettledStyle(pg.bank, opened)]
                              ELSE start
  BY <1>2
<1>4. /\ page' = pg /\ saved' = (IF Writes(pg, link) THEN asked ELSE saved)
      /\ notes' = None /\ clock' = Stopped /\ ran' = 0 /\ record' = None /\ sheet' = "none"
      /\ staged' = stg /\ bests' = bests
  BY DEF Arrive
<1>5. saved \in Prefs /\ Remembered(pg, saved) \in Prefs
  BY Facts, RememberedIs
<1>6. /\ Locked(pg) => opening \in pg.bank.topics /\ first \in pg.bank.topics
      /\ ~Locked(pg) => opening = None /\ first = None
  BY <1>5, OpensOn
<1>7. /\ asked \in Prefs /\ asked.passages = saved.passages
      /\ Locked(pg) => asked.genre = saved.genre
      /\ ~Locked(pg) => ~IsRead(pg.bank, asked.genre)
  BY <1>5, RememberedIs, AskedIs
<1>8. \A r \in chosen : r \in pg.bank.topics /\ r.genre = stg.genre
  BY DEF StagedRows
<1>9. \A r \in pg.bank.topics : r # None /\ r \in Rows /\ r.genre \in Known /\ r.text \in {s.text : s \in Rows}
  BY RowsOf DEF Known
<1>10. named \subseteq pg.bank.topics
  OBVIOUS
<1>11. /\ start \in Prefs /\ start.passages = saved.passages
       /\ Serves(pg, start)
       /\ Locked(pg) => start.genre = saved.genre \/ chosen # {}
  <2>1. CASE chosen = {}
    BY <1>7, <2>1 DEF Serves
  <2>2. CASE chosen # {}
    <3>1. PICK r \in chosen : TRUE
      BY <2>2
    <3>2. stg.genre \in Known /\ Of(pg.bank, stg.genre) # {}
      BY <1>8, <1>9, <3>1 DEF Of
    <3>3. start = [asked EXCEPT !.genre = stg.genre]
      BY <2>2
    <3> HIDE DEF asked, start, chosen
    <3> QED
      BY <1>7, <2>2, <3>2, <3>3, MovedIn DEF Serves
  <2> QED
    BY <2>1, <2>2
<1> HIDE DEF asked, start, named
<1>12. t \in pg.bank.topics \cup {None} /\ (Locked(pg) => t # None) /\ (named # {} => t \in pg.bank.topics)
  BY <1>6, <1>9, <1>10 DEF OrElse
<1>13. used' \subseteq {r.text : r \in Rows} /\ (t # None => t.text \in used')
  <2>1. \A r \in {opening, first, t} \ {None} : r.text \in {s.text : s \in Rows}
    BY <1>6, <1>9, <1>12
  <2> QED
    BY <1>3, <2>1
<1>14. prefs' \in Prefs /\ prefs'.passages = saved.passages /\ Serves(pg, prefs')
       /\ (Locked(pg) => prefs' = start)
  <2>1. CASE named # {} /\ ~Locked(pg)
    <3> DEFINE opened == [start EXCEPT !.genre = t.genre]
    <3>1. t.genre \in Known /\ Of(pg.bank, t.genre) # {}
      BY <1>9, <1>12, <2>1 DEF Of
    <3>2. opened \in Prefs /\ opened.genre = t.genre /\ opened.passages = saved.passages
      BY <1>11, <3>1, MovedIn
    <3>3. prefs' = [opened EXCEPT !.style = SettledStyle(pg.bank, opened)]
      BY <1>3, <2>1
    <3> HIDE DEF opened
    <3>4. prefs' \in Prefs /\ prefs'.genre = t.genre /\ prefs'.passages = saved.passages
      BY <3>2, <3>3, SettledIn
    <3> QED
      BY <2>1, <3>1, <3>4 DEF Serves
  <2>2. CASE ~(named # {} /\ ~Locked(pg))
    <3>1. prefs' = start
      BY <1>3, <2>2
    <3> QED
      BY <1>11, <3>1
  <2> QED
    BY <2>1, <2>2
<1>15. saved' \in Prefs /\ saved'.passages = saved.passages /\ (saved'.genre # saved.genre => ~Locked(pg))
  BY <1>4, <1>5, <1>7
<1>16. topic' = t /\ phase' = IF t = None THEN "idle" ELSE "topic"
  BY <1>3
<1>17. chosen # {} => link.topic = None /\ StagedRows(pg.bank, stg) # {}
  OBVIOUS
<1>18. Locked(pg) => prefs'.genre = saved'.genre \/ (link.topic = None /\ StagedRows(pg.bank, stg) # {})
  BY <1>11, <1>14, <1>15, <1>17
<1> QED
  BY <1>4, <1>12, <1>13, <1>14, <1>15, <1>16, <1>18

LEMMA ArriveStep ==
    ASSUME IInv, NEW pg \in Pages, NEW link \in Links \cup {NoLink}, NEW stg, Arrive(pg, link, stg)
    PROVE  IInv'
<1>1. /\ page' = pg /\ topic' \in pg.bank.topics \cup {None}
      /\ Locked(pg) => topic' # None
      /\ phase' = IF topic' = None THEN "idle" ELSE "topic"
      /\ used' \subseteq {r.text : r \in Rows} /\ (topic' # None => topic'.text \in used')
      /\ prefs' \in Prefs /\ Serves(pg, prefs')
      /\ saved' \in Prefs
      /\ notes' = None /\ clock' = Stopped /\ ran' = 0 /\ sheet' = "none"
  BY ArriveGives
<1>2. clock' = [running |-> FALSE, paused |-> FALSE, total |-> 0, left |-> 0, due |-> 0, done |-> "nothing"]
  BY <1>1 DEF Stopped
<1>3. Typed'
  BY <1>1, <1>2, TimesAssumption DEF Typed, Phases, Clock
<1>4. ScreenIsServed'
  BY <1>1, <1>2 DEF ScreenIsServed, ClockServesPhase, ScreenHasTopic, Locked
<1>5. AtHome' /\ AtFeature' /\ Middles' /\ Gone'
  BY <1>1, <1>2 DEF AtHome, AtFeature, Locked, Serves, Middles, Gone
<1> QED
  BY <1>3, <1>4, <1>5 DEF IInv

-----------------------------------------------------------------------------
(* The invariant.                                                           *)

LEMMA StoredIn == Stored \subseteq Prefs
<1>1. \A old \in Stored : old.passages \in Passages /\ old.style \in Styles
  BY DEF Passages, Styles
<1>2. \A old \in Stored :
         old \in [genre : Known, style : Styles, level : Levels \cup {Surprise}, passages : Passages,
                  pictures : BOOLEAN, wpm : Paces, prep : Preps, speak : Speaks]
  BY <1>1, StoredAssumption
<1> QED
  BY <1>2 DEF Prefs

LEMMA InitInv == Init => IInv
<1> SUFFICES ASSUME Init PROVE IInv
  OBVIOUS
<1>1. /\ page \in Pages /\ ~Locked(page) /\ saved \in Prefs /\ prefs = Remembered(page, saved)
      /\ phase = "idle" /\ topic = None /\ used = {} /\ notes = None /\ sheet = "none" /\ ran = 0
      /\ clock = [running |-> FALSE, paused |-> FALSE, total |-> 0, left |-> 0, due |-> 0, done |-> "nothing"]
  BY StoredIn DEF Init, Stopped
<1>2. prefs \in Prefs /\ Serves(page, prefs)
  BY <1>1, RememberedIs DEF Serves
<1>3. Typed
  BY <1>1, <1>2, TimesAssumption DEF Typed, Phases, Clock
<1>4. ScreenIsServed
  BY <1>1 DEF ScreenIsServed, ClockServesPhase, ScreenHasTopic
<1>5. AtHome /\ AtFeature /\ Middles /\ Gone
  BY <1>1, <1>2 DEF AtHome, AtFeature, Middles, Gone
<1> QED
  BY <1>3, <1>4, <1>5 DEF IInv

LEMMA PressStep == ASSUME IInv, Press PROVE IInv'
<1> USE Presses
<1>1. CASE PressSpin
  BY <1>1, AskedSpin DEF PressSpin
<1>2. CASE PressThink
  BY <1>2, PrepStep DEF PressThink
<1>3. CASE PressSpeak
  BY <1>3, SpeakStep DEF PressSpeak
<1>4. CASE PressRead
  BY <1>4, ReadStep DEF PressRead
<1>5. CASE PressPause
  BY <1>5, PauseStep DEF PressPause
<1>6. CASE PressStop
  BY <1>6, FinishReadingStep DEF PressStop
<1>7. CASE PressDone
  BY <1>7, FinishStep DEF PressDone
<1>8. CASE PressReset
  BY <1>8, ResetStep, LeaveStep DEF PressReset
<1>9. CASE PressSame
  BY <1>9, QuietStep DEF PressSame, stores
<1>10. CASE PressAgain
  <2>1. /\ Locked(page) /\ phase = "done" /\ topic # None /\ phase' = "topic"
        /\ prefs' = [prefs EXCEPT !.wpm = Faster(prefs.wpm)]
        /\ saved' = (IF Faster(prefs.wpm) # prefs.wpm THEN prefs' ELSE saved)
        /\ UNCHANGED <<page, topic, used, notes, clock, ran, sheet>>
    BY <1>10 DEF PressAgain
  <2>2. Faster(prefs.wpm) \in Paces
    <3>1. \E j \in DOMAIN Speeds : Speeds[j] = prefs.wpm
      BY Facts DEF Prefs, Paces
    <3> DEFINE i == CHOOSE j \in DOMAIN Speeds : Speeds[j] = prefs.wpm
    <3>2. i \in DOMAIN Speeds
      BY <3>1
    <3>3. i < Len(Speeds) => i + 1 \in DOMAIN Speeds
      BY <3>2, TimesAssumption
    <3>4. prefs.wpm \in Paces
      BY Facts DEF Prefs
    <3>5. Faster(prefs.wpm) = IF i < Len(Speeds) THEN Speeds[i + 1] ELSE prefs.wpm
      BY DEF Faster
    <3> HIDE DEF i
    <3> QED
      BY <3>3, <3>4, <3>5 DEF Paces
  <2> DEFINE w == Faster(prefs.wpm)
  <2> HIDE DEF w
  <2>3. prefs' \in Prefs /\ saved' \in Prefs
    <3>1. w \in Paces /\ prefs' = [prefs EXCEPT !.wpm = w]
      BY <2>1, <2>2 DEF w
    <3>2. prefs' \in Prefs
      BY <3>1, Facts DEF Prefs
    <3> QED
      BY <2>1, <3>2, Facts
  <2>4. ~clock.running
    BY <2>1 DEF IInv, ScreenIsServed, ClockServesPhase
  <2>5. Typed'
    BY <2>1, <2>3 DEF IInv, Typed, Phases
  <2>6. ScreenIsServed'
    BY <2>1, <2>4 DEF IInv, ScreenIsServed, ClockServesPhase, ScreenHasTopic, Locked
  <2>7. AtHome' /\ AtFeature' /\ Middles' /\ Gone'
    BY <2>1 DEF IInv, AtHome, AtFeature, Middles, Gone, Locked
  <2> QED
    BY <2>5, <2>6, <2>7 DEF IInv
<1>11. CASE WriteNote
  BY <1>11, QuietStep DEF WriteNote, stores
<1> QED
  BY <1>1, <1>2, <1>3, <1>4, <1>5, <1>6, <1>7, <1>8, <1>9, <1>10, <1>11 DEF Press

(* The keys pause nothing a screen would not.                               *)
LEMMA KeysStep == ASSUME IInv, Keys PROVE IInv'
<1>1. CASE KeySpace
  <2>1. CASE phase \in {"idle", "done"} /\ Spin(prefs, used) /\ UNCHANGED <<prefs, saved>>
    BY <2>1, AskedSpin
  <2>2. CASE phase = "topic" /\ StartPrep
    BY <2>2, PrepStep
  <2>3. CASE ~Reading /\ Filming /\ TogglePause
    <3>1. phase \in {"prep", "speak"}
      BY <2>3 DEF Filming, IInv, Middles
    <3> QED
      BY <2>3, <3>1, PauseStep
  <2> QED
    BY <1>1, <2>1, <2>2, <2>3 DEF KeySpace
<1>2. CASE KeyN
  BY <1>2, AskedSpin DEF KeyN
<1>3. CASE KeyEscape
  BY <1>3, LeaveStep, ResetStep DEF KeyEscape
<1> QED
  BY <1>1, <1>2, <1>3 DEF Keys

LEMMA TimeStep == ASSUME IInv, Time PROVE IInv'
<1>1. CASE Settle
  BY <1>1, QuietStep DEF Settle, Go, stores
<1> QED
  BY <1>1, PassStep, LoopOnStep, LoopOverStep DEF Time

LEMMA NextInv == IInv /\ [Next]_vars => IInv'
<1> SUFFICES ASSUME IInv, [Next]_vars PROVE IInv'
  OBVIOUS
<1>1. CASE Press
  BY <1>1, PressStep
<1>2. CASE Settings
  BY <1>2, SettingsStep
<1>3. CASE Keys
  BY <1>3, KeysStep
<1>4. CASE Time
  BY <1>4, TimeStep
<1>5. CASE \E pg \in Pages, link \in Links : Visit(pg, link)
  BY <1>5, ArriveStep DEF Visit
<1>6. CASE \E pg \in Pages, row \in Stageable : Stage(pg, row)
  <2>1. PICK pg \in Pages, row \in Stageable : Stage(pg, row)
    BY <1>6
  <2> QED
    BY <2>1, ArriveStep DEF Stage
<1>7. CASE UNCHANGED vars
  BY <1>7, SheetStep DEF vars, engine, stores, IInv, Typed
<1> QED
  BY <1>1, <1>2, <1>3, <1>4, <1>5, <1>6, <1>7 DEF Next

LEMMA Invariant == Spec => []IInv
  BY InitInv, NextInv, PTL DEF Spec

(* Every variable keeps the shape the engine gives it.                      *)
THEOREM RoundTyped == Spec => []TypeOK
<1>1. IInv => TypeOK
  <2> SUFFICES ASSUME IInv PROVE TypeOK
    OBVIOUS
  <2>1. topic \in Rows \cup {None}
    BY Facts
  <2>2. prefs.genre \in Known /\ prefs.prep \in Preps /\ prefs.speak \in Speaks /\ prefs.wpm \in Paces
    BY Facts DEF Prefs
  <2>3. clock.left \in 0..clock.total /\ clock.due \in -Late..clock.total
    BY TimesAssumption DEF IInv, Typed, Clock
  <2> QED
    BY <2>1, <2>2, <2>3 DEF TypeOK, IInv, Typed
<1> QED
  BY <1>1, Invariant, PTL

(* Whatever is on show has the clock and the topic it needs, and no other:  *)
(* no callback of a round that was left fires into the next, and no page is *)
(* ever without its topic.                                                  *)
THEOREM ScreensAreServed == Spec => []ScreenIsServed
<1>1. IInv => ScreenIsServed
  BY DEF IInv
<1> QED
  BY <1>1, Invariant, PTL

-----------------------------------------------------------------------------
(* The order of the phases.                                                 *)

(* A step of the flow, in the engine's own terms.                           *)
LEMMA FlowSteps ==
    /\ record' = None /\ phase \in {"idle", "topic", "done"} /\ phase' \in {"spin", "topic"}
          /\ clock'.paused = clock.paused => Flow!Spin
    /\ record' = None /\ phase = "spin" /\ phase' = "topic" /\ clock'.paused = clock.paused => Flow!Settle
    /\ record' = None /\ phase = "topic" /\ phase' = "prep" /\ ~clock.paused /\ clock'.paused = FALSE => Flow!Think
    /\ record' = None /\ phase \in {"topic", "prep"} /\ phase' = "speak" /\ clock'.paused = FALSE => Flow!Speak
    /\ record' = None /\ phase \in {"prep", "speak"} /\ phase' = phase /\ clock'.paused = ~clock.paused => Flow!Toggle
    /\ record' = None /\ phase \in {"prep", "speak", "ready", "reading"} /\ phase' = "topic"
          /\ clock'.paused = FALSE => Flow!Leave
    /\ record' = None /\ phase = "topic" /\ phase' = "idle" /\ ~clock.paused /\ clock'.paused = clock.paused => Flow!Reset
    /\ record' = None /\ phase = "done" /\ phase' = "topic" /\ clock'.paused = clock.paused => Flow!Same
    /\ record' # None /\ phase = "speak" /\ phase' = "done" /\ clock'.paused = FALSE => Flow!Finish
    /\ record' = None /\ phase = "topic" /\ phase' = "ready" /\ ~clock.paused /\ clock'.paused = clock.paused => Flow!Ready
    /\ record' = None /\ phase \in {"ready", "topic"} /\ phase' = "reading" /\ ~clock.paused
          /\ clock'.paused = clock.paused => Flow!Scroll
    /\ record' = None /\ phase \in {"ready", "reading"} /\ phase' = "done" /\ ~clock.paused
          /\ clock'.paused = clock.paused => Flow!Read
    /\ record' = None /\ phase = "ready" /\ phase' = "topic" /\ ~clock.paused /\ clock'.paused = clock.paused => Flow!Source
    /\ record' = None /\ phase' \in {"idle", "topic"} /\ clock'.paused = FALSE => Flow!Visit
    /\ record' = None /\ phase' = phase /\ clock'.paused = clock.paused => Flow!Other
<1>1. record' = None <=> Flow!Quietly
  BY DEF Flow!Quietly
<1> QED
  BY <1>1 DEF Flow!To, Flow!Spin, Flow!Settle, Flow!Think, Flow!Speak, Flow!Toggle, Flow!Leave, Flow!Reset, Flow!Same, Flow!Finish,
     Flow!Ready, Flow!Scroll, Flow!Read, Flow!Source, Flow!Visit, Flow!Other

(* Each of them is a step of the flow.                                      *)
LEMMA FlowKinds ==
    \/ Flow!Spin \/ Flow!Settle \/ Flow!Think \/ Flow!Speak \/ Flow!Toggle \/ Flow!Leave \/ Flow!Reset
    \/ Flow!Same \/ Flow!Finish \/ Flow!Ready \/ Flow!Scroll \/ Flow!Read \/ Flow!Source \/ Flow!Visit \/ Flow!Other
    => Flow!Next
  BY DEF Flow!Next

LEMMA OtherFlows == record' = None /\ phase' = phase /\ clock'.paused = clock.paused => Flow!Next
  BY FlowSteps, FlowKinds

LEMMA Unpaused == ASSUME IInv, phase \notin {"prep", "speak"} PROVE ~clock.paused /\ clock.paused = FALSE
<1>1. clock.paused \in BOOLEAN
  BY DEF IInv, Typed, Clock
<1> QED
  BY <1>1 DEF IInv, Middles

LEMMA SpinFlows ==
    ASSUME IInv, Serves(page, prefs'), prefs' \in Prefs,
           NEW seen \in SUBSET {r.text : r \in Rows}, Spin(prefs', seen),
           \/ phase \in {"idle", "topic", "done"}
           \/ Locked(page) /\ phase = "ready"
    PROVE  Flow!Next
<1>1. /\ topic' # None => phase' \in {"topic", "spin"} /\ (Locked(page) => phase' = "topic")
      /\ topic' = None => phase' = phase
      /\ record' = None /\ clock' = clock
  BY SpinGives DEF IInv, Typed
<1>2. CASE topic' = None
  BY <1>1, <1>2, OtherFlows
<1>3. CASE topic' # None /\ phase \in {"idle", "topic", "done"}
  BY <1>1, <1>3, FlowSteps, FlowKinds
<1>4. CASE topic' # None /\ phase = "ready"
  BY <1>1, <1>4, Unpaused, FlowSteps, FlowKinds
<1> QED
  BY <1>2, <1>3, <1>4

LEMMA AskedSpinFlows ==
    ASSUME IInv, phase \in {"idle", "topic", "done"}, Spin(prefs, used), UNCHANGED prefs
    PROVE  Flow!Next
<1>1. Serves(page, prefs') /\ Spin(prefs', used) /\ prefs' \in Prefs /\ used \in SUBSET {r.text : r \in Rows}
  BY Facts DEF Serves
<1> QED
  BY <1>1, SpinFlows

LEMMA RunFlows ==
    ASSUME IInv, NEW to, NEW halves, NEW done, Run(to, halves, done),
           \/ to = "prep" /\ phase = "topic"
           \/ to = "speak" /\ phase \in {"topic", "prep"}
           \/ to = "ready" /\ phase = "topic"
           \/ to = "reading" /\ phase \in {"ready", "topic"}
    PROVE  Flow!Next
<1>1. phase' = to /\ record' = None /\ clock'.paused = FALSE
  BY DEF Run, Started
<1>2. CASE to = "speak"
  BY <1>1, <1>2, FlowSteps, FlowKinds
<1>3. CASE to # "speak"
  BY <1>1, <1>3, Unpaused, FlowSteps, FlowKinds
<1> QED
  BY <1>2, <1>3

LEMMA PrepFlows == ASSUME IInv, StartPrep, phase = "topic" PROVE Flow!Next
<1>1. CASE Reading
  BY <1>1, RunFlows DEF StartPrep, StartReading
<1>2. CASE ~Reading
  BY <1>2, RunFlows DEF StartPrep, StartSpeak
<1> QED
  BY <1>1, <1>2

(* A minute finished is a run to write.                                     *)
LEMMA FinishFlows == ASSUME IInv, phase = "speak", NEW n \in Nat, Finish(n) PROVE Flow!Next
<1>1. topic \in Rows /\ topic # None /\ prefs \in Prefs /\ page \in Pages
  BY Facts
<1>2. ActiveGenre(page, prefs) \in Known
  BY <1>1, PlaysFrom DEF Prefs
<1>3. record' = [topic |-> topic, genre |-> ActiveGenre(page, prefs), speak |-> prefs.speak, spoken |-> n]
  BY <1>1 DEF Finish
<1>4. prefs.speak \in Speaks
  BY <1>1 DEF Prefs
<1>5. record' \in [topic : Rows, genre : Known, speak : Speaks, spoken : Nat]
  BY <1>1, <1>2, <1>3, <1>4
<1>6. record' # None
  BY <1>5, RecordAssumption
<1>7. phase' = "done" /\ clock'.paused = FALSE
  BY DEF Finish, Stopped
<1> QED
  BY <1>6, <1>7, FlowSteps, FlowKinds

LEMMA FinishReadingFlows == ASSUME IInv, NEW clk, FinishReading(clk) PROVE Flow!Next
<1>1. phase \in {"reading", "ready"} /\ phase' = "done" /\ record' = None /\ clock'.paused = FALSE
  BY DEF FinishReading, Stopped
<1> QED
  BY <1>1, Unpaused, FlowSteps, FlowKinds

LEMMA LeaveFlows == ASSUME IInv, LeaveRound PROVE Flow!Next
<1>1. phase \in {"prep", "speak", "ready", "reading"} /\ phase' = "topic" /\ record' = None /\ clock'.paused = FALSE
  BY DEF LeaveRound, Filming, Stopped
<1> QED
  BY <1>1, FlowSteps, FlowKinds

LEMMA ResetFlows == ASSUME IInv, ResetToIdle PROVE Flow!Next
<1>1. CASE Locked(page)
  BY <1>1, AskedSpinFlows DEF ResetToIdle
<1>2. CASE ~Locked(page)
  <2>1. phase = "topic" /\ phase' = "idle" /\ record' = None /\ clock' = clock
    BY <1>2 DEF ResetToIdle
  <2> QED
    BY <2>1, Unpaused, FlowSteps, FlowKinds
<1> QED
  BY <1>1, <1>2

LEMMA PauseFlows == ASSUME IInv, phase \in {"prep", "speak"}, TogglePause PROVE Flow!Next
<1>1. phase' = phase /\ record' = None /\ clock' = IF clock.paused THEN Resumed(clock) ELSE Paused(clock)
  BY DEF TogglePause
<1>2. clock \in Clock
  BY DEF IInv, Typed
<1>3. clock'.paused = ~clock.paused
  <2>1. CASE clock.paused
    BY <1>1, <1>2, <2>1 DEF Resumed, Clock
  <2>2. CASE ~clock.paused
    BY <1>1, <1>2, <2>2 DEF Paused, Clock
  <2> QED
    BY <2>1, <2>2, <1>2 DEF Clock
<1> QED
  BY <1>1, <1>3, FlowSteps, FlowKinds

LEMMA ElapsedNat == ASSUME IInv PROVE ElapsedSeconds(clock) \in Nat
<1>1. clock.total \in Nat /\ clock.left \in Nat /\ clock.left <= clock.total
  BY DEF IInv, Typed, Clock
<1> QED
  BY <1>1 DEF ElapsedSeconds

LEMMA PressFlows == ASSUME IInv, Press PROVE Flow!Next
<1> USE Presses
<1>1. CASE PressSpin
  BY <1>1, AskedSpinFlows DEF PressSpin
<1>2. CASE PressThink
  BY <1>2, PrepFlows DEF PressThink
<1>3. CASE PressSpeak
  BY <1>3, RunFlows DEF PressSpeak, StartSpeak
<1>4. CASE PressRead
  BY <1>4, RunFlows DEF PressRead, StartReading
<1>5. CASE PressPause
  BY <1>5, PauseFlows DEF PressPause
<1>6. CASE PressStop
  BY <1>6, FinishReadingFlows DEF PressStop
<1>7. CASE PressDone
  BY <1>7, FinishFlows, ElapsedNat DEF PressDone
<1>8. CASE PressReset
  BY <1>8, ResetFlows, LeaveFlows DEF PressReset
<1>9. CASE PressSame
  <2>1. phase = "done" /\ phase' = "topic" /\ record' = None /\ clock' = clock
    BY <1>9 DEF PressSame
  <2> QED
    BY <2>1, FlowSteps, FlowKinds
<1>10. CASE PressAgain
  <2>1. phase = "done" /\ phase' = "topic" /\ record' = None /\ clock' = clock
    BY <1>10 DEF PressAgain
  <2> QED
    BY <2>1, FlowSteps, FlowKinds
<1>11. CASE WriteNote
  BY <1>11, OtherFlows DEF WriteNote
<1> QED
  BY <1>1, <1>2, <1>3, <1>4, <1>5, <1>6, <1>7, <1>8, <1>9, <1>10, <1>11 DEF Press

(* No setting moves the phase but a change of source.                       *)
LEMMA SettingsFlow == ASSUME IInv, Settings PROVE Flow!Next
<1>1. ASSUME NEW genre \in Genres, SetSource(genre) PROVE Flow!Next
  <2>1. /\ Locked(page) /\ phase # "reading" /\ Spin(prefs', {})
        /\ prefs' = [prefs EXCEPT !.passages = IF IsRead(page.bank, genre) THEN genre ELSE None]
    BY <1>1, Presses DEF SetSource
  <2>2. prefs' \in Prefs
    BY <2>1, Facts DEF Prefs, Passages
  <2>3. Serves(page, prefs')
    BY <2>1 DEF Serves
  <2>4. phase \in {"topic", "done"} \/ phase = "ready"
    BY <2>1, Facts
  <2>5. {} \in SUBSET {r.text : r \in Rows}
    OBVIOUS
  <2> QED
    BY <2>1, <2>2, <2>3, <2>4, <2>5, SpinFlows
<1>2. ASSUME ~\E genre \in Genres : SetSource(genre) PROVE record' = None /\ phase' = phase /\ clock' = clock
  <2>1. ASSUME NEW which \in {"genre", "settings"}, OpenSheet(which) PROVE record' = None /\ phase' = phase /\ clock' = clock
    BY <2>1 DEF OpenSheet
  <2>2. ASSUME CloseSheet PROVE record' = None /\ phase' = phase /\ clock' = clock
    BY <2>2 DEF CloseSheet
  <2>3. ASSUME NEW genre \in Genres, ChooseGenre(genre) PROVE record' = None /\ phase' = phase /\ clock' = clock
    BY <2>3 DEF ChooseGenre
  <2>4. \A prf : Keep(prf) => record' = None /\ phase' = phase /\ clock' = clock
    BY DEF Keep
  <2>5. ASSUME NEW which, NEW seconds, PreviewLength(which, seconds) PROVE record' = None /\ phase' = phase /\ clock' = clock
    BY <2>5 DEF PreviewLength
  <2> QED
    BY <1>2, <2>1, <2>2, <2>3, <2>4, <2>5 DEF Settings, ChooseStyle, SetPictures, SetLength, SetSpeed, SetLevel
<1>3. CASE ~\E genre \in Genres : SetSource(genre)
  BY <1>2, <1>3, OtherFlows
<1> QED
  BY <1>1, <1>3

LEMMA KeysFlow == ASSUME IInv, Keys PROVE Flow!Next
<1>1. CASE KeySpace
  <2>1. CASE phase \in {"idle", "done"} /\ Spin(prefs, used) /\ UNCHANGED <<prefs, saved>>
    BY <2>1, AskedSpinFlows
  <2>2. CASE phase = "topic" /\ StartPrep
    BY <2>2, PrepFlows
  <2>3. CASE ~Reading /\ Filming /\ TogglePause
    <3>1. phase \in {"prep", "speak"}
      BY <2>3 DEF Filming, IInv, Middles
    <3> QED
      BY <2>3, <3>1, PauseFlows
  <2> QED
    BY <1>1, <2>1, <2>2, <2>3 DEF KeySpace
<1>2. CASE KeyN
  BY <1>2, AskedSpinFlows DEF KeyN
<1>3. CASE KeyEscape
  BY <1>3, LeaveFlows, ResetFlows DEF KeyEscape
<1> QED
  BY <1>1, <1>2, <1>3 DEF Keys

LEMMA TimeFlows == ASSUME IInv, Time PROVE Flow!Next
<1>1. CASE Settle
  <2>1. phase = "spin" /\ phase' = "topic" /\ record' = None /\ clock' = clock
    BY <1>1 DEF Settle, Go
  <2> QED
    BY <2>1, FlowSteps, FlowKinds
<1>2. CASE Pass
  <2>1. phase' = phase /\ record' = None /\ clock' = [clock EXCEPT !.due = @ - 1] /\ clock \in Clock
    BY <1>2 DEF Pass, Passed, IInv, Typed
  <2> QED
    BY <2>1, OtherFlows DEF Clock
<1>3. CASE LoopOn
  <2>1. phase' = phase /\ record' = None /\ clock'.paused = clock.paused
    BY <1>3, LoopedIs DEF LoopOn, MayLoop
  <2> QED
    BY <2>1, OtherFlows
<1>4. CASE LoopOver
  <2>1. clock.running
    BY <1>4 DEF LoopOver, MayLoop
  <2>2. CASE clock.done = "speak" /\ StartSpeak
    BY <2>1, <2>2, ClockSays, RunFlows DEF StartSpeak
  <2>3. CASE clock.done = "finish" /\ Finish(prefs.speak)
    BY <2>1, <2>3, ClockSays, Facts, FinishFlows
  <2>4. CASE clock.done = "scroll" /\ Scroll
    BY <2>1, <2>4, ClockSays, RunFlows DEF Scroll
  <2>5. CASE clock.done = "end" /\ FinishReading(Looped(clock))
    BY <2>5, FinishReadingFlows
  <2> QED
    BY <1>4, <2>2, <2>3, <2>4, <2>5 DEF LoopOver
<1> QED
  BY <1>1, <1>2, <1>3, <1>4 DEF Time

LEMMA ArriveFlows ==
    ASSUME IInv, NEW pg \in Pages, NEW link \in Links \cup {NoLink}, NEW stg, Arrive(pg, link, stg)
    PROVE  Flow!Next
<1>1. phase' \in {"idle", "topic"} /\ record' = None /\ clock'.paused = FALSE
  BY ArriveGives DEF Stopped
<1> QED
  BY <1>1, FlowSteps, FlowKinds

LEMMA NextFlows == IInv /\ [Next]_vars => [Flow!Next]_(Flow!flow)
<1> SUFFICES ASSUME IInv, [Next]_vars PROVE Flow!Next \/ UNCHANGED Flow!flow
  OBVIOUS
<1>1. CASE \E pg \in Pages, link \in Links : Visit(pg, link)
  BY <1>1, ArriveFlows DEF Visit
<1>2. CASE \E pg \in Pages, row \in Stageable : Stage(pg, row)
  <2>1. PICK pg \in Pages, row \in Stageable : Stage(pg, row)
    BY <1>2
  <2> QED
    BY <2>1, ArriveFlows DEF Stage
<1>3. CASE UNCHANGED vars
  BY <1>3 DEF vars, engine, Flow!flow
<1> QED
  BY <1>1, <1>2, <1>3, PressFlows, SettingsFlow, KeysFlow, TimeFlows DEF Next

(* The round keeps the order of phases the page around it relies on: the    *)
(* clock is paused only where it may be, and a run is handed over to be     *)
(* written exactly when a speaking minute is finished, never when it is     *)
(* left (engine.ts).                                                        *)
THEOREM FlowIsFollowed == Spec => FollowsFlow
<1>1. Init => Flow!Init
  BY DEF Init, Flow!Init, Stopped
<1>2. IInv /\ [Next]_vars => [Flow!Next]_(Flow!flow)
  BY NextFlows
<1> QED
  BY <1>1, <1>2, Invariant, PTL DEF Spec, FollowsFlow, Flow!Spec

-----------------------------------------------------------------------------
(* What is written down.                                                    *)

(* Twice the seconds gone, rounded, is at most one half second more than    *)
(* went.                                                                    *)
LEMMA RoundedSeconds ==
    ASSUME NEW clk \in Clock, clk.left <= clk.total
    PROVE  /\ ElapsedSeconds(clk) \in Nat
           /\ 2 * ElapsedSeconds(clk) <= clk.total - clk.left + 1
<1> DEFINE d == clk.total - clk.left
<1>1. d \in Nat
  BY DEF Clock
<1>2. ElapsedSeconds(clk) = (d + 1) \div 2
  BY DEF ElapsedSeconds
<1> HIDE DEF d
<1>3. (d + 1) \div 2 \in Nat /\ 2 * ((d + 1) \div 2) <= d + 1
  BY <1>1
<1> QED
  BY <1>2, <1>3 DEF d

(* Two steps write a run, and two a best speed; no other writes either.     *)
LEMMA WhoWrites ==
    Next => \/ record' = None /\ bests' = bests
            \/ phase = "speak" /\ Finish(ElapsedSeconds(clock))
            \/ FinishReading(clock)
            \/ LoopOver
<1> SUFFICES ASSUME Next, ~LoopOver, ~FinishReading(clock), ~(phase = "speak" /\ Finish(ElapsedSeconds(clock)))
             PROVE  record' = None /\ bests' = bests
  OBVIOUS
<1>1. \A prf, seen : Spin(prf, seen) => record' = None /\ bests' = bests
  BY DEF Spin
<1>2. \A to, halves, done : Run(to, halves, done) => record' = None /\ bests' = bests
  BY DEF Run, stores
<1>3. \A prf : Keep(prf) => record' = None /\ bests' = bests
  BY DEF Keep
<1>4. \A pg, link, stg : Arrive(pg, link, stg) => record' = None /\ bests' = bests
  BY DEF Arrive
<1>5. StartSpeak \/ StartReading => record' = None /\ bests' = bests
  BY <1>2 DEF StartSpeak, StartReading
<1>6. StartPrep => record' = None /\ bests' = bests
  <2>1. CASE Reading
    BY <1>5, <2>1 DEF StartPrep
  <2>2. CASE ~Reading
    BY <1>2, <1>5, <2>2 DEF StartPrep
  <2> QED
    BY <2>1, <2>2
<1>7. LeaveRound \/ TogglePause => record' = None /\ bests' = bests
  BY DEF LeaveRound, TogglePause, stores
<1>8. ResetToIdle => record' = None /\ bests' = bests
  BY <1>1 DEF ResetToIdle, stores
<1>9. CASE Press
  BY <1>1, <1>5, <1>6, <1>7, <1>8, <1>9
     DEF Press, PressSpin, PressThink, PressSpeak, PressRead, PressPause, PressStop, PressDone, PressReset,
         PressSame, PressAgain, WriteNote, stores
<1>10. CASE Settings
  BY <1>1, <1>3, <1>10
     DEF Settings, OpenSheet, CloseSheet, ChooseGenre, ChooseStyle, SetPictures, PreviewLength, SetLength, SetSpeed,
         SetLevel, SetSource, stores
<1>11. CASE Keys
  BY <1>1, <1>6, <1>7, <1>8, <1>11 DEF Keys, KeySpace, KeyN, KeyEscape
<1>12. CASE Time
  BY <1>12 DEF Time, Settle, Go, Pass, LoopOn, stores
<1> QED
  BY <1>4, <1>9, <1>10, <1>11, <1>12 DEF Next, Visit, Stage

LEMMA FinishIsTrue ==
    ASSUME IInv, phase = "speak", NEW n \in Nat, Finish(n),
           n <= prefs.speak, 2 * n <= ran + 1
    PROVE  /\ record' # None => /\ record'.topic = topic /\ phase' = "done"
                                /\ record'.spoken <= record'.speak /\ 2 * record'.spoken <= ran + 1
           /\ bests' = bests
<1>1. topic # None
  BY Facts
<1>2. record' = [topic |-> topic, genre |-> ActiveGenre(page, prefs), speak |-> prefs.speak, spoken |-> n]
  BY <1>1 DEF Finish
<1> QED
  BY <1>2 DEF Finish, stores

LEMMA DoneIsTrue ==
    ASSUME IInv, phase = "speak"
    PROVE  LET n == ElapsedSeconds(clock) IN n \in Nat /\ n <= prefs.speak /\ 2 * n <= ran + 1
<1> DEFINE n == ElapsedSeconds(clock)
<1>1. clock \in Clock /\ clock.left <= clock.total /\ ran \in Nat
  BY TimesAssumption DEF IInv, Typed
<1>2. n \in Nat /\ 2 * n <= clock.total - clock.left + 1
  BY <1>1, RoundedSeconds
<1>3. clock.total = 2 * prefs.speak
  BY DEF IInv, Middles
<1>4. prefs.speak \in Nat /\ 2 * prefs.speak <= MaxRan + 1
  <2>1. prefs.speak \in Speaks
    BY Facts DEF Prefs
  <2> QED
    BY <2>1, Facts, RanAssumption
<1>5. ran = MaxRan \/ clock.total - clock.left <= ran
  BY DEF IInv, Gone
<1>6. clock.left \in Nat
  BY <1>1 DEF Clock
<1> HIDE DEF n
<1>7. n \in Nat /\ n <= prefs.speak /\ 2 * n <= ran + 1
  BY <1>1, <1>2, <1>3, <1>4, <1>5, <1>6, TimesAssumption
<1> QED
  BY <1>7 DEF n

LEMMA LoopFinishIsTrue ==
    ASSUME IInv, phase = "speak", ~clock.paused, IsOver(Looped(clock))
    PROVE  prefs.speak \in Nat /\ 2 * prefs.speak <= ran + 1
<1>1. ran \in Nat
  BY TimesAssumption DEF IInv, Typed
<1>2. clock.total = 2 * prefs.speak
  BY DEF IInv, Middles
<1>3. prefs.speak \in Nat /\ 2 * prefs.speak <= MaxRan + 1
  <2>1. prefs.speak \in Speaks
    BY Facts DEF Prefs
  <2> QED
    BY <2>1, Facts, RanAssumption
<1>4. ran = MaxRan \/ Looped(clock).total - Looped(clock).left <= ran
  BY LoopedIs
<1>5. Looped(clock).left = 0 /\ Looped(clock).total = clock.total
  BY LoopedIs DEF IsOver
<1> QED
  BY <1>1, <1>2, <1>3, <1>4, <1>5, TimesAssumption

LEMMA ReadIsTrue ==
    ASSUME IInv, NEW clk \in Clock, clk.left <= clk.total, FinishReading(clk),
           ran = MaxRan \/ clk.total - clk.left <= ran
    PROVE  /\ record' = None
           /\ bests' # bests => /\ phase = "reading" /\ bests' = [bests EXCEPT ![topic.slug] = prefs.wpm]
                                /\ ran + 3 >= ReadHalves(topic, prefs.wpm)
<1> SUFFICES ASSUME bests' # bests
             PROVE  /\ phase = "reading" /\ bests' = [bests EXCEPT ![topic.slug] = prefs.wpm]
                    /\ ran + 3 >= ReadHalves(topic, prefs.wpm)
  BY DEF FinishReading
<1>1. /\ phase = "reading" /\ topic # None /\ bests' = [bests EXCEPT ![topic.slug] = prefs.wpm]
      /\ 2 * ElapsedSeconds(clk) >= ReadHalves(topic, prefs.wpm) - 2
  BY DEF FinishReading
<1>2. ElapsedSeconds(clk) \in Nat /\ 2 * ElapsedSeconds(clk) <= clk.total - clk.left + 1
  BY RoundedSeconds
<1>3. ReadHalves(topic, prefs.wpm) \in Nat
  BY <1>1, ReadHalvesNat
<1>4. ReadHalves(topic, prefs.wpm) <= MaxRan + 3
  BY <1>1, Facts, RanAssumption DEF Prefs
<1>5. ran \in Nat
  BY TimesAssumption DEF IInv, Typed
<1>6. clk.total \in Nat /\ clk.left \in Nat
  BY DEF Clock
<1> QED
  BY <1>1, <1>2, <1>3, <1>4, <1>5, <1>6, TimesAssumption

RunIsTrue ==
    record' # None => /\ record'.topic = topic /\ phase' = "done"
                      /\ record'.spoken <= record'.speak
                      /\ 2 * record'.spoken <= ran + 1
BestIsTrue ==
    bests' # bests => /\ phase = "reading"
                      /\ bests' = [bests EXCEPT ![topic.slug] = prefs.wpm]
                      /\ ran + 3 >= ReadHalves(topic, prefs.wpm)

LEMMA NextWrites == IInv /\ Next => RunIsTrue /\ BestIsTrue
<1> SUFFICES ASSUME IInv, Next PROVE RunIsTrue /\ BestIsTrue
  OBVIOUS
<1>1. CASE record' = None /\ bests' = bests
  BY <1>1 DEF RunIsTrue, BestIsTrue
<1>2. CASE phase = "speak" /\ Finish(ElapsedSeconds(clock))
  BY <1>2, DoneIsTrue, FinishIsTrue DEF RunIsTrue, BestIsTrue
<1>3. CASE FinishReading(clock)
  <2>1. /\ clock \in Clock /\ clock.left <= clock.total
        /\ ran = MaxRan \/ clock.total - clock.left <= ran
    BY DEF IInv, Typed, Gone
  <2> QED
    BY <1>3, <2>1, ReadIsTrue DEF RunIsTrue, BestIsTrue
<1>4. CASE LoopOver
  <2>1. clock.running /\ ~clock.paused /\ IsOver(Looped(clock))
    BY <1>4 DEF LoopOver, MayLoop
  <2>2. CASE clock.done = "speak" /\ StartSpeak
    BY <2>2 DEF StartSpeak, Run, stores, RunIsTrue, BestIsTrue
  <2>3. CASE clock.done = "finish" /\ Finish(prefs.speak)
    <3>1. phase = "speak" /\ prefs.speak \in Nat /\ 2 * prefs.speak <= ran + 1
      BY <2>1, <2>3, ClockSays, LoopFinishIsTrue
    <3> QED
      BY <2>3, <3>1, FinishIsTrue DEF RunIsTrue, BestIsTrue
  <2>4. CASE clock.done = "scroll" /\ Scroll
    BY <2>4 DEF Scroll, Run, stores, RunIsTrue, BestIsTrue
  <2>5. CASE clock.done = "end" /\ FinishReading(Looped(clock))
    <3> DEFINE c == Looped(clock)
    <3>1. c \in Clock /\ c.left <= c.total /\ (ran = MaxRan \/ c.total - c.left <= ran)
      BY <2>1, LoopedIs
    <3> QED
      BY <2>5, <3>1, ReadIsTrue DEF RunIsTrue, BestIsTrue
  <2> QED
    BY <1>4, <2>2, <2>3, <2>4, <2>5 DEF LoopOver
<1> QED
  BY <1>1, <1>2, <1>3, <1>4, WhoWrites

(* A run handed over is of the topic on the screen it finishes and claims   *)
(* no time that was not set and did not pass; a best speed is kept only for *)
(* the passage on screen, its scroll read to the last second and a half     *)
(* (engine.ts done and finish, warmups.ts).                                 *)
THEOREM WrittenTrue == Spec => WrittenIsTrue
<1>1. IInv /\ [Next]_vars => [RunIsTrue]_vars /\ [BestIsTrue]_vars
  BY NextWrites
<1>2. Spec => [][RunIsTrue]_vars /\ [][BestIsTrue]_vars
  BY <1>1, Invariant, PTL DEF Spec
<1> QED
  BY <1>2 DEF WrittenIsTrue, RecordedTruth, BestWasRead, RunIsTrue, BestIsTrue

-----------------------------------------------------------------------------
(* What is drawn.                                                           *)

(* The draws the promise is made for: home's bank holds something, no       *)
(* passage is staged, and no link names one at home.                        *)
Plainly ==
    /\ \A p \in Pages : ~Locked(p) => p.bank.topics # {}
    /\ \A p \in Pages, row \in Stageable : \A t \in p.bank.topics :
          t.genre = row.genre /\ t.text = row.text => ~Locked(p) /\ ~IsRead(p.bank, t.genre)
    /\ \A p \in Pages, link \in Links : \A t \in p.bank.topics :
          ~Locked(p) /\ t.slug = link.topic => ~IsRead(p.bank, t.genre)

(* What was chosen is what is stored, and nothing else moves a genre.       *)
FromChoice ==
    /\ prefs.passages = saved.passages
    /\ Locked(page) => prefs.genre = saved.genre
    /\ ~Locked(page) => ~IsRead(page.bank, prefs.genre)
    /\ staged \in {None} \cup {[genre |-> r.genre, text |-> r.text] : r \in Stageable}

LEMMA StagedPlainly ==
    ASSUME Plainly, NEW pg \in Pages,
           NEW stg \in {None} \cup {[genre |-> r.genre, text |-> r.text] : r \in Stageable}
    PROVE  \A t \in StagedRows(pg.bank, stg) : ~Locked(pg) /\ ~IsRead(pg.bank, t.genre)
<1> SUFFICES ASSUME NEW t \in StagedRows(pg.bank, stg) PROVE ~Locked(pg) /\ ~IsRead(pg.bank, t.genre)
  OBVIOUS
<1>1. t \in pg.bank.topics /\ stg # None /\ t.genre = stg.genre /\ t.text = stg.text
  BY DEF StagedRows
<1>2. PICK r \in Stageable : stg = [genre |-> r.genre, text |-> r.text]
  BY <1>1
<1>3. t.genre = r.genre /\ t.text = r.text
  BY <1>1, <1>2
<1> QED
  BY <1>1, <1>3 DEF Plainly

(* What a step may do to the choices: keep them, store them, take another   *)
(* source or genre, or open a page on what is stored.                       *)
Holds ==
    /\ page' = page /\ staged' \in {staged, None}
    /\ prefs'.genre = prefs.genre
    /\ \/ saved' = saved /\ prefs'.passages = prefs.passages
       \/ saved' = prefs'
    /\ prefs'.passages # prefs.passages => \E genre \in Genres : SetSource(genre)

LEMMA HoldsBy ==
    /\ page' = page /\ staged' \in {staged, None} /\ prefs' = prefs /\ saved' = saved => Holds
    /\ page' = page /\ staged' = staged /\ prefs'.genre = prefs.genre
          /\ prefs'.passages = prefs.passages /\ saved' \in {saved, prefs'} => Holds
  BY DEF Holds

LEMMA WhoChooses ==
    ASSUME IInv, Next
    PROVE  \/ Holds
           \/ \E genre \in Genres : ChooseGenre(genre)
           \/ \E pg \in Pages, link \in Links : Visit(pg, link)
           \/ \E pg \in Pages, row \in Stageable : Stage(pg, row)
<1>1. \A seen : Spin(prefs, seen) => page' = page /\ staged' \in {staged, None}
  BY DEF Spin
<1>2. \A to, halves, done : Run(to, halves, done) => page' = page /\ staged' = staged /\ prefs' = prefs /\ saved' = saved
  BY DEF Run, stores
<1>3. StartSpeak \/ StartReading => Holds
  BY <1>2, HoldsBy DEF StartSpeak, StartReading
<1>4. StartPrep => Holds
  <2>1. CASE Reading
    BY <1>3, <2>1 DEF StartPrep
  <2>2. CASE ~Reading
    BY <1>2, <1>3, <2>2, HoldsBy DEF StartPrep
  <2> QED
    BY <2>1, <2>2
<1>5. LeaveRound \/ TogglePause => Holds
  BY HoldsBy DEF LeaveRound, TogglePause, stores
<1>6. ResetToIdle => Holds
  BY <1>1, HoldsBy DEF ResetToIdle, stores
<1>7. \A n : Finish(n) \/ FinishReading(n) => Holds
  BY HoldsBy DEF Finish, FinishReading, stores
<1>8. prefs \in Prefs
  BY Facts
<1>9. CASE Press
  <2>1. CASE PressAgain
    <3>1. /\ page' = page /\ staged' = staged /\ prefs' = [prefs EXCEPT !.wpm = Faster(prefs.wpm)]
          /\ saved' \in {saved, prefs'}
      BY <2>1 DEF PressAgain
    <3> DEFINE w == Faster(prefs.wpm)
    <3> HIDE DEF w
    <3>2. prefs' = [prefs EXCEPT !.wpm = w]
      BY <3>1 DEF w
    <3>3. prefs'.genre = prefs.genre /\ prefs'.passages = prefs.passages
      BY <1>8, <3>2 DEF Prefs
    <3> QED
      BY <3>1, <3>3, HoldsBy
  <2>2. CASE PressSame \/ WriteNote
    BY <2>2, HoldsBy DEF PressSame, WriteNote, stores
  <2>3. CASE PressSpin
    BY <1>1, <2>3, HoldsBy DEF PressSpin
  <2> QED
    BY <1>9, <1>3, <1>4, <1>5, <1>6, <1>7, <2>1, <2>2, <2>3
       DEF Press, PressThink, PressSpeak, PressRead, PressPause, PressStop, PressDone, PressReset
<1>10. CASE Keys
  BY <1>1, <1>4, <1>5, <1>6, <1>10, HoldsBy DEF Keys, KeySpace, KeyN, KeyEscape
<1>11. CASE Time
  <2>1. CASE Settle \/ Pass \/ LoopOn
    BY <2>1, HoldsBy DEF Settle, Go, Pass, LoopOn, stores
  <2>2. CASE LoopOver
    BY <1>2, <1>3, <1>7, <2>2, HoldsBy DEF LoopOver, Scroll
  <2> QED
    BY <1>11, <2>1, <2>2 DEF Time
<1>12. CASE Settings
  <2>1. ASSUME NEW which \in {"genre", "settings"}, OpenSheet(which) PROVE Holds
    BY <2>1, HoldsBy DEF OpenSheet, stores
  <2>2. CASE CloseSheet
    BY <2>2, HoldsBy DEF CloseSheet, stores
  <2>3. ASSUME NEW genre \in Genres, SetSource(genre) PROVE Holds
    <3>1. /\ page' = page /\ staged' \in {staged, None} /\ saved' = prefs'
          /\ prefs' = [prefs EXCEPT !.passages = IF IsRead(page.bank, genre) THEN genre ELSE None]
      BY <2>3 DEF SetSource, Spin
    <3>2. prefs'.genre = prefs.genre
      BY <1>8, <3>1 DEF Prefs
    <3> QED
      BY <2>3, <3>1, <3>2 DEF Holds
  <2>4. ASSUME NEW style, ChooseStyle(style) PROVE Holds
    <3>1. page' = page /\ staged' = staged /\ saved' = prefs' /\ prefs' = [prefs EXCEPT !.style = style]
      BY <2>4 DEF ChooseStyle, Keep
    <3> QED
      BY <1>8, <3>1, HoldsBy DEF Prefs
  <2>5. ASSUME NEW on, SetPictures(on) PROVE Holds
    <3>1. page' = page /\ staged' = staged /\ saved' = prefs' /\ prefs' = [prefs EXCEPT !.pictures = on]
      BY <2>5 DEF SetPictures, Keep
    <3> QED
      BY <1>8, <3>1, HoldsBy DEF Prefs
  <2>6. ASSUME NEW which \in {"prep", "speak"}, NEW seconds, PreviewLength(which, seconds) \/ SetLength(which, seconds) PROVE Holds
    <3>1. page' = page /\ staged' = staged /\ saved' \in {saved, prefs'} /\ prefs' = [prefs EXCEPT ![which] = seconds]
      BY <2>6 DEF PreviewLength, SetLength, Keep, stores
    <3>2. prefs'.genre = prefs.genre /\ prefs'.passages = prefs.passages
      BY <1>8, <3>1 DEF Prefs
    <3> QED
      BY <3>1, <3>2, HoldsBy
  <2>7. ASSUME NEW wpm, SetSpeed(wpm) PROVE Holds
    <3>1. page' = page /\ staged' = staged /\ saved' = prefs' /\ prefs' = [prefs EXCEPT !.wpm = wpm]
      BY <2>7 DEF SetSpeed, Keep
    <3> QED
      BY <1>8, <3>1, HoldsBy DEF Prefs
  <2>8. ASSUME NEW level, SetLevel(level) PROVE Holds
    <3>1. page' = page /\ staged' = staged /\ saved' = prefs' /\ prefs' = [prefs EXCEPT !.level = level]
      BY <2>8 DEF SetLevel, Keep
    <3> QED
      BY <1>8, <3>1, HoldsBy DEF Prefs
  <2> QED
    BY <1>12, <2>1, <2>2, <2>3, <2>4, <2>5, <2>6, <2>7, <2>8 DEF Settings
<1> QED
  BY <1>9, <1>10, <1>11, <1>12 DEF Next

(* At home a link and the console leave the genre one to be talked about.   *)
LEMMA ArrivesChosen ==
    ASSUME Plainly, IInv, FromChoice, NEW pg \in Pages, NEW link \in Links \cup {NoLink},
           NEW stg \in {None} \cup {[genre |-> r.genre, text |-> r.text] : r \in Stageable}, Arrive(pg, link, stg)
    PROVE  FromChoice'
<1> DEFINE asked == Asked(pg, Remembered(pg, saved), link)
           chosen == IF link.topic # None THEN {} ELSE StagedRows(pg.bank, stg)
           named == {t \in pg.bank.topics : link.topic # None /\ t.slug = link.topic}
           start == IF chosen # {} THEN [asked EXCEPT !.genre = stg.genre] ELSE asked
<1>1. /\ page' = pg /\ staged' = stg
      /\ prefs'.passages = saved.passages /\ saved'.passages = saved.passages
      /\ Locked(pg) => prefs'.genre = saved'.genre \/ StagedRows(pg.bank, stg) # {}
  BY ArriveGives
<1>2. Locked(pg) => StagedRows(pg.bank, stg) = {}
  BY StagedPlainly
<1>3. ASSUME ~Locked(pg) PROVE ~IsRead(pg.bank, prefs'.genre)
  <2>1. PICK t \in OrElse(named, {None}) :
           LET opened == [start EXCEPT !.genre = t.genre]
           IN  prefs' = IF named # {} /\ ~Locked(pg)
                        THEN [opened EXCEPT !.style = SettledStyle(pg.bank, opened)]
                        ELSE start
    BY <1>3 DEF Arrive, Openings, FirstTopics
  <2>2. Remembered(pg, saved) \in Prefs /\ ~IsRead(pg.bank, Remembered(pg, saved).genre)
    BY <1>3, Facts, RememberedIs
  <2>3. asked \in Prefs /\ ~IsRead(pg.bank, asked.genre)
    BY <2>2, AskedIs
  <2>4. \A r \in chosen : r \in pg.bank.topics /\ r.genre = stg.genre /\ ~IsRead(pg.bank, r.genre)
    BY StagedPlainly DEF StagedRows
  <2>5. \A r \in named : r \in pg.bank.topics /\ ~IsRead(pg.bank, r.genre)
    BY <1>3 DEF Plainly, NoLink
  <2>6. \A r \in pg.bank.topics : r.genre \in Known
    BY RowsOf DEF Known
  <2> HIDE DEF asked, chosen, named
  <2>7. start \in Prefs /\ ~IsRead(pg.bank, start.genre)
    <3>1. CASE chosen = {}
      BY <2>3, <3>1
    <3>2. CASE chosen # {}
      <4>1. stg.genre \in Known /\ ~IsRead(pg.bank, stg.genre)
        BY <2>4, <2>6, <3>2
      <4>2. start = [asked EXCEPT !.genre = stg.genre]
        BY <3>2
      <4> QED
        BY <2>3, <4>1, <4>2, MovedIn
    <3> QED
      BY <3>1, <3>2
  <2> HIDE DEF start
  <2>8. CASE named # {}
    <3> DEFINE opened == [start EXCEPT !.genre = t.genre]
    <3>1. t \in named
      BY <2>1, <2>8 DEF OrElse
    <3>2. opened \in Prefs /\ opened.genre = t.genre
      BY <2>5, <2>6, <2>7, <3>1, MovedIn
    <3>3. prefs' = [opened EXCEPT !.style = SettledStyle(pg.bank, opened)]
      BY <1>3, <2>1, <2>8
    <3> HIDE DEF opened
    <3>4. prefs'.genre = t.genre
      BY <3>2, <3>3, SettledIn
    <3> QED
      BY <2>5, <3>1, <3>4
  <2>9. CASE named = {}
    BY <2>1, <2>7, <2>9
  <2> QED
    BY <2>8, <2>9
<1> QED
  BY <1>1, <1>2, <1>3 DEF FromChoice, Locked

LEMMA ChosenInit == Init => FromChoice
<1> SUFFICES ASSUME Init PROVE FromChoice
  OBVIOUS
<1>1. page \in Pages /\ ~Locked(page) /\ saved \in Prefs /\ prefs = Remembered(page, saved) /\ staged = None
  BY StoredIn DEF Init
<1> QED
  BY <1>1, RememberedIs DEF FromChoice

LEMMA GenreChosen ==
    ASSUME IInv, NEW genre \in Genres, ChooseGenre(genre)
    PROVE  /\ page' = page /\ ~Locked(page) /\ staged' = staged /\ saved' = prefs'
           /\ prefs'.passages = prefs.passages /\ ~IsRead(page.bank, prefs'.genre)
<1> DEFINE moved == [prefs EXCEPT !.genre = genre]
<1>1. /\ page' = page /\ ~Locked(page) /\ staged' = staged /\ saved' = prefs'
      /\ ~IsRead(page.bank, genre)
      /\ prefs' = [moved EXCEPT !.style = SettledStyle(page.bank, moved)]
  BY DEF ChooseGenre
<1>2. moved \in Prefs /\ moved.genre = genre /\ moved.passages = prefs.passages
  BY MovedIn, RowsOf, Facts
<1> HIDE DEF moved
<1>3. prefs'.genre = genre /\ prefs'.passages = prefs.passages
  BY <1>1, <1>2, Facts, SettledIn
<1> QED
  BY <1>1, <1>3

LEMMA ChosenNext == ASSUME Plainly PROVE IInv /\ FromChoice /\ [Next]_vars => FromChoice'
<1> SUFFICES ASSUME IInv, FromChoice, [Next]_vars PROVE FromChoice'
  OBVIOUS
<1>1. CASE UNCHANGED vars
  BY <1>1 DEF vars, stores, engine, FromChoice, Locked
<1>2. CASE Holds
  BY <1>2 DEF Holds, FromChoice, Locked
<1>3. CASE \E genre \in Genres : ChooseGenre(genre)
  <2>1. /\ page' = page /\ ~Locked(page) /\ staged' = staged /\ saved' = prefs'
        /\ ~IsRead(page.bank, prefs'.genre)
    BY <1>3, GenreChosen
  <2> QED
    BY <2>1 DEF FromChoice, Locked
<1>4. CASE \E pg \in Pages, link \in Links : Visit(pg, link)
  BY <1>4, ArrivesChosen DEF Visit, FromChoice
<1>5. CASE \E pg \in Pages, row \in Stageable : Stage(pg, row)
  <2>1. PICK pg \in Pages, row \in Stageable : Stage(pg, row)
    BY <1>5
  <2> QED
    BY <2>1, ArrivesChosen DEF Stage
<1> QED
  BY <1>1, <1>2, <1>3, <1>4, <1>5, WhoChooses

LEMMA AlwaysChosen == ASSUME Plainly PROVE Spec => []FromChoice
  BY ChosenInit, ChosenNext, Invariant, PTL DEF Spec

(* At home a spin hands back what it replaced only from a pool run dry.     *)
LEMMA SpinReplaces ==
    ASSUME IInv, ~Locked(page), topic # None, Spin(prefs, used), topic' = topic
    PROVE  StagedRows(page.bank, staged) # {} \/ Unseen(Pool(page.bank, Drawing(page, prefs)), used) = {}
<1> DEFINE chosen == StagedRows(page.bank, staged)
           source == Pool(page.bank, Drawing(page, prefs))
<1>1. topic' \in OrElse(OrElse(chosen, Draws(source, used)), {None})
  BY DEF Spin
<1>2. topic.text \in used
  BY DEF IInv, AtHome
<1> HIDE DEF chosen, source
<1>3. ASSUME chosen = {}, Unseen(source, used) # {} PROVE FALSE
  <2>1. topic' \in Unseen(source, used)
    BY <1>1, <1>3 DEF OrElse, Draws
  <2> QED
    BY <1>2, <2>1 DEF Unseen
<1> QED
  BY <1>3 DEF chosen, source

(* In picture mode home's pool is of pictures, wherever the bank holds one. *)
LEMMA PicturesDrawn ==
    ASSUME NEW pg \in Pages, NEW prf \in Prefs, ~Locked(pg), ~IsRead(pg.bank, prf.genre),
           prf.pictures, Pictured(pg.bank.topics) # {}, NEW seen
    PROVE  /\ Draws(Pool(pg.bank, Drawing(pg, prf)), seen) # {}
           /\ \A t \in Draws(Pool(pg.bank, Drawing(pg, prf)), seen) : t.image
<1> DEFINE d == Drawing(pg, prf)  all == Of(pg.bank, d.genre)  P == Pool(pg.bank, d)
<1>1. d.genre = prf.genre /\ d.pictures = prf.pictures
  BY DrawingIs, PlaysFrom
<1>2. P = OrElse(OrElse(Pictured(all), Pictured(pg.bank.topics)),
                 OrElse({t \in all : t.style = d.style}, OrElse(all, pg.bank.topics)))
  BY <1>1 DEF Pool
<1> HIDE DEF all, d, P
<1>3. P # {} /\ \A t \in P : t.image
  BY <1>2 DEF OrElse, Pictured
<1>4. Draws(P, seen) # {} /\ Draws(P, seen) \subseteq P
  BY <1>3 DEF Draws, Unseen, OrElse
<1> QED
  BY <1>3, <1>4 DEF P, d

SpinsOn ==
    /\ ~Locked(page) /\ topic # None /\ topic' = topic
          => \/ StagedRows(page.bank, staged) # {}
             \/ Unseen(Pool(page.bank, Drawing(page, prefs)), used) = {}
    /\ topic' # None
    /\ prefs.pictures /\ ~Locked(page) /\ staged = None /\ Pictured(page.bank.topics) # {} => topic'.image

LEMMA SpinIsOn == ASSUME Plainly, IInv, FromChoice, Spin(prefs, used) PROVE SpinsOn
<1>1. page \in Pages /\ prefs \in Prefs /\ Serves(page, prefs) /\ used \in SUBSET {r.text : r \in Rows}
  BY Facts
<1>2. topic' # None
  BY <1>1, SpinGives DEF Plainly
<1>3. ASSUME prefs.pictures, ~Locked(page), staged = None, Pictured(page.bank.topics) # {} PROVE topic'.image
  <2> DEFINE ds == Draws(Pool(page.bank, Drawing(page, prefs)), used)
  <2>1. ~IsRead(page.bank, prefs.genre)
    BY <1>3 DEF FromChoice
  <2>2. ds # {} /\ \A t \in ds : t.image
    BY <1>1, <1>3, <2>1, PicturesDrawn
  <2>3. StagedRows(page.bank, staged) = {}
    BY <1>3 DEF StagedRows
  <2>4. topic' \in OrElse(OrElse({}, ds), {None})
    BY <2>3 DEF Spin
  <2> HIDE DEF ds
  <2> QED
    BY <2>2, <2>4 DEF OrElse
<1> QED
  BY <1>2, <1>3, SpinReplaces DEF SpinsOn

(* A feature page draws from the bank chosen on it.                         *)
LEMMA SpinFromBank ==
    ASSUME Plainly, IInv, FromChoice, Locked(page), NEW prf \in Prefs, NEW seen, Spin(prf, seen)
    PROVE  topic'.genre = ActiveGenre(page, prf)
<1> DEFINE ds == Draws(Pool(page.bank, Drawing(page, prf)), seen)
<1>1. page \in Pages /\ Serves(page, prf)
  BY Facts DEF Serves
<1>2. ds # {} /\ \A t \in ds : t.genre = ActiveGenre(page, prf)
  BY <1>1, DrawsFrom
<1>3. StagedRows(page.bank, staged) = {}
  BY <1>1, StagedPlainly DEF FromChoice
<1>4. topic' \in OrElse(OrElse({}, ds), {None})
  BY <1>3 DEF Spin
<1> HIDE DEF ds
<1> QED
  BY <1>2, <1>4 DEF OrElse

FromBank ==
    /\ Locked(page) /\ page' = page
    /\ PressSpin \/ KeyN \/ prefs'.passages # prefs.passages
    => topic'.genre = ActiveGenre(page, prefs')
Default == saved'.genre # saved.genre => ~Locked(page')
Spins == PressSpin \/ KeyN => SpinsOn

LEMMA NextDraws == ASSUME Plainly, IInv, FromChoice, Next PROVE Spins /\ FromBank /\ Default
<1>1. Spins
  BY SpinIsOn DEF Spins, PressSpin, KeyN
<1>2. ASSUME Locked(page), page' = page, PressSpin \/ KeyN PROVE topic'.genre = ActiveGenre(page, prefs')
  <2>1. Spin(prefs, used) /\ prefs' = prefs
    BY <1>2 DEF PressSpin, KeyN
  <2> QED
    BY <1>2, <2>1, Facts, SpinFromBank
<1>3. ASSUME NEW genre \in Genres, SetSource(genre), Locked(page) PROVE topic'.genre = ActiveGenre(page, prefs')
  <2>1. Spin(prefs', {}) /\ prefs' = [prefs EXCEPT !.passages = IF IsRead(page.bank, genre) THEN genre ELSE None]
    BY <1>3 DEF SetSource
  <2>2. prefs' \in Prefs
    BY <2>1, Facts DEF Prefs, Passages
  <2> QED
    BY <1>3, <2>1, <2>2, SpinFromBank
<1>4. ASSUME NEW pg \in Pages, NEW link \in Links \cup {NoLink}, NEW stg, Arrive(pg, link, stg)
      PROVE  prefs'.passages = prefs.passages /\ Default
  BY <1>4, ArriveGives DEF FromChoice, Default
<1>5. CASE Holds
  <2>1. prefs'.passages # prefs.passages => \E genre \in Genres : SetSource(genre)
    BY <1>5 DEF Holds
  <2>2. Default
    BY <1>5 DEF Holds, FromChoice, Default
  <2> QED
    BY <1>1, <1>2, <1>3, <2>1, <2>2 DEF FromBank
<1>6. CASE \E genre \in Genres : ChooseGenre(genre)
  <2>1. page' = page /\ ~Locked(page)
    BY <1>6, GenreChosen
  <2> QED
    BY <1>1, <2>1 DEF FromBank, Default
<1>7. CASE \E pg \in Pages, link \in Links : Visit(pg, link)
  BY <1>1, <1>2, <1>4, <1>7 DEF Visit, FromBank
<1>8. CASE \E pg \in Pages, row \in Stageable : Stage(pg, row)
  <2>1. PICK pg \in Pages, row \in Stageable : Stage(pg, row)
    BY <1>8
  <2> QED
    BY <1>1, <1>2, <1>4, <2>1 DEF Stage, FromBank
<1> QED
  BY <1>5, <1>6, <1>7, <1>8, WhoChooses

(* Every spin moves, and to what was chosen: no press of it is dead, a pool *)
(* is gone through before it repeats, picture mode shows pictures, a        *)
(* feature page shows the bank chosen on it, and home keeps its own genre   *)
(* (pool.ts, and the lock of engine.ts).                                    *)
THEOREM DrawnFromChoice == ASSUME Plainly PROVE Spec => DrawnAsChosen
<1>1. IInv /\ FromChoice /\ [Next]_vars => [Spins]_vars /\ [FromBank]_vars /\ [Default]_vars
  BY NextDraws
<1>2. Spec => [][Spins]_vars /\ [][FromBank]_vars /\ [][Default]_vars
  BY <1>1, Invariant, AlwaysChosen, PTL DEF Spec
<1>3. ASSUME Spins PROVE /\ (PressSpin \/ KeyN) /\ ~Locked(page) /\ topic # None /\ topic' = topic
                              => \/ StagedRows(page.bank, staged) # {}
                                 \/ Unseen(Pool(page.bank, Drawing(page, prefs)), used) = {}
                         /\ (PressSpin \/ KeyN) =>
                               /\ topic' # None
                               /\ prefs.pictures /\ ~Locked(page) /\ staged = None /\ Pictured(page.bank.topics) # {}
                                  => topic'.image
  BY <1>3 DEF Spins, SpinsOn
<1>4. [][Spins]_vars => SkipNotRepeated /\ SpinNeverDead
  BY <1>3, PTL DEF SkipNotRepeated, SpinNeverDead
<1> QED
  BY <1>2, <1>4, PTL DEF DrawnAsChosen, SpinMoves, ChoicesKept, PassagesAsChosen, DefaultKept, FromBank, Default
=============================================================================
