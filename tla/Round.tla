------------------------------- MODULE Round --------------------------------
(* The round in the browser: the engine (lib/round/engine.ts), the screens  *)
(* that hand it presses (components/round), and the pages it runs on.       *)
(*                                                                          *)
(* One browser visits pages in turn; its prefs, its best speeds and a       *)
(* staged topic outlive a page. A press is possible only where the screen   *)
(* on show offers it, a key where the key handler takes it; the timer's     *)
(* loop comes when it comes. Sound, analytics, drawing and storage that     *)
(* refuses are left out, and so are the switches no draw reads: the         *)
(* microphone, the filming report and the mute.                             *)
EXTENDS Pool, Countdown, FiniteSets

CONSTANTS
    DefaultGenre,
    Stored,     \* prefs a browser may have remembered from before
    Pages,      \* [lock: the genre a feature page is fixed to or None, bank, still]
    Links,      \* what an address bar may carry: [genre, topic, pictures, wpm]
    Stageable,  \* rows the operator console may stage
    Speeds,     \* SPEEDS, slowest first
    Levels,     \* LEVELS
    Preps,      \* lengths of PREP_RANGE, in seconds
    Speaks,     \* lengths of SPEAK_RANGE, in seconds
    LeadIn,     \* LEAD_IN, in half seconds
    MaxRan,     \* bound: where the count of running time saturates
    MaxMoved    \* bound: settings the visitor moves away from what was stored

ASSUME TimesAssumption ==
    /\ Speeds \in Seq(Nat \ {0}) /\ Len(Speeds) > 0 /\ LeadIn \in Nat \ {0}
    /\ Preps \subseteq Nat /\ Speaks \subseteq Nat \ {0}
    /\ Late \in Nat /\ MaxRan \in Nat

VARIABLES
    page,     \* the page open
    phase,
    topic,
    used,     \* texts drawn since the pool last ran dry
    notes,    \* the topic the notes on screen were written for, or None
    prefs,
    saved,    \* the prefs in the browser's storage
    bests,    \* best speed per passage slug in storage
    staged,   \* the staged topic in storage
    sheet,    \* which sheet the page holds open
    clock,    \* the engine's timer
    record,   \* the run the last step handed to the page to write, or None
    ran       \* history: half seconds the clock on show has run unpaused

engine == <<phase, topic, used, notes, prefs, clock, record, ran>>
stores == <<saved, bests, staged>>
vars   == <<page, sheet, engine, stores>>

Phases  == {"idle", "spin", "topic", "prep", "speak", "ready", "reading", "done"}
Rows    == UNION {p.bank.topics : p \in Pages}
Genres  == UNION {{p.bank.genres[i] : i \in DOMAIN p.bank.genres} : p \in Pages}
Paces   == {Speeds[i] : i \in DOMAIN Speeds}
Known   == Genres \cup {r.genre : r \in Rows} \cup {DefaultGenre} \cup {old.genre : old \in Stored}
NoLink  == [genre |-> None, topic |-> None, pictures |-> None, wpm |-> None]

Locked(pg) == pg.lock # None

(* A row is counted in words. A warm-up is one of the page's genres; a      *)
(* feature page whose own holds no passage is a 404; and what home falls    *)
(* back on is to be talked about.                                           *)
ASSUME BankAssumption ==
    \A p \in Pages :
        /\ p.bank.genres \in Seq(Genres)
        /\ \A t \in p.bank.topics : t # None /\ t.words \in Nat
        /\ \A g \in p.bank.read : \E i \in DOMAIN p.bank.genres : p.bank.genres[i] = g
        /\ Locked(p) => p.lock \in p.bank.read /\ Of(p.bank, p.lock) # {}
        /\ DefaultGenre \notin p.bank.read

(* loadPrefs takes any genre, style and passages it finds, and checks the   *)
(* rest; a link's speed and pictures are checked as well.                   *)
ASSUME StoredAssumption ==
    /\ Stored \subseteq
          [genre : Known, style : {old.style : old \in Stored}, level : Levels \cup {Surprise},
           passages : {old.passages : old \in Stored}, pictures : BOOLEAN,
           wpm : Paces, prep : Preps, speak : Speaks]
    /\ \A link \in Links :
          link.wpm \in Paces \cup {None} /\ link.pictures \in BOOLEAN \cup {None}

-----------------------------------------------------------------------------
(* What the engine reads off the prefs.                                     *)

(* Seeded fault: a chosen bank is taken on trust.                           *)
ActiveTrusting(pg, prf) ==
    IF ~Locked(pg) THEN prf.genre
    ELSE IF prf.passages # None /\ IsRead(pg.bank, prf.passages) THEN prf.passages ELSE pg.lock

(* activeGenre: the genre in play.                                          *)
ActiveGenre(pg, prf) ==
    IF ~Locked(pg) THEN prf.genre
    ELSE IF /\ prf.passages # None
            /\ IsRead(pg.bank, prf.passages)
            /\ Of(pg.bank, prf.passages) # {}
         THEN prf.passages
         ELSE pg.lock

(* Seeded fault: pinned to the lock, whatever bank was chosen.              *)
DrawingPinned(pg, prf) == IF Locked(pg) THEN [prf EXCEPT !.genre = pg.lock] ELSE prf

Drawing(pg, prf) == [prf EXCEPT !.genre = ActiveGenre(pg, prf)]

(* sources: every bank a feature page can draw from.                        *)
Sources(pg) == IF Locked(pg) THEN pg.bank.read ELSE {}

Listed(bank, genre) == \E i \in DOMAIN bank.genres : bank.genres[i] = genre

CurrentGenre(pg, prf) ==
    IF Listed(pg.bank, ActiveGenre(pg, prf)) THEN ActiveGenre(pg, prf) ELSE pg.bank.genres[1]

Reading == IsRead(page.bank, CurrentGenre(page, prefs))
Filming == phase \in {"prep", "speak", "ready", "reading"}

(* readSeconds, in half seconds: words over a speed in words a half second. *)
ReadHalves(row, wpm) == IF row = None THEN 0 ELSE row.words \div wpm

(* The history counts far enough to tell a minute that ran from one that    *)
(* did not.                                                                 *)
ASSUME RanAssumption ==
    /\ \A s \in Speaks : 2 * s <= MaxRan + 1
    /\ \A r \in Rows, wpm \in Paces : ReadHalves(r, wpm) <= MaxRan + 3

Faster(wpm) ==
    LET i == CHOOSE j \in DOMAIN Speeds : Speeds[j] = wpm
    IN  IF i < Len(Speeds) THEN Speeds[i + 1] ELSE wpm

-----------------------------------------------------------------------------
(* What each screen offers to press. A screen not drawn offers nothing.     *)

IdleScreen == {"spin", "genre", "settings"}

TopicScreen == {"think", "spin", "reset"} \cup (IF prefs.prep > 0 THEN {"speak"} ELSE {})

PrepScreen == {"note", "speak", "pause", "reset"}

SpeakScreen == {"done", "pause", "reset"}

DoneScreen == {"spin", "same"}

PassageScreen == {"read", "speed", "spin"}

ReadyScreen == {}

ReadingScreen == {"stop"}

WarmUpDoneScreen == {"again", "spin"}

SettingsSheet == {"length", "style", "pictures", "close"}

GenreSheet == {"choose", "close"}

WarmUpSettings == {"level", "close"} \cup (IF Cardinality(Sources(page)) > 1 THEN {"source"} ELSE {})

(* The page at home. A warm-up's lead-in and scroll have no screen here.    *)
HomeScreen ==
    CASE phase = "idle"                   -> IdleScreen
      [] phase = "topic" /\ topic # None  -> TopicScreen
      [] phase = "prep" /\ topic # None   -> PrepScreen
      [] phase = "speak" /\ topic # None  -> SpeakScreen
      [] phase = "done"                   -> DoneScreen
      [] OTHER                            -> {}

(* A feature page: its gear is drawn on every screen but the scroll.        *)
FeatureFrame ==
    CASE phase = "reading" /\ topic # None -> ReadingScreen
      [] phase = "topic" /\ topic # None   -> PassageScreen \cup {"settings"}
      [] phase = "ready"                   -> ReadyScreen \cup {"settings"}
      [] phase = "done" /\ topic # None    -> WarmUpDoneScreen \cup {"settings"}
      [] OTHER                             -> {"settings"}

(* Whether a sheet is drawn, which is also what silences the keys.          *)
SheetShown ==
    /\ sheet # "none"
    /\ IF Locked(page) THEN phase # "reading" ELSE phase = "idle"

Offered ==
    IF SheetShown
    THEN IF sheet = "genre" THEN GenreSheet
         ELSE IF Locked(page) THEN WarmUpSettings ELSE SettingsSheet
    ELSE IF Locked(page) THEN FeatureFrame ELSE HomeScreen

Pressed(control) == control \in Offered

(* The key handler: nothing while a sheet is up.                            *)
KeyTaken == ~SheetShown

-----------------------------------------------------------------------------
(* The steps of the engine that several presses share.                      *)

(* Seeded fault: a spin keeps the notes on screen.                          *)
SpinNoted(prf, seen) ==
    LET chosen == StagedRows(page.bank, staged)
        source == Pool(page.bank, Drawing(page, prf))
        base   == IF chosen # {} THEN seen ELSE UsedAfterDraw(source, seen)
    IN  /\ staged' = IF chosen # {} THEN None ELSE staged
        /\ \E t \in OrElse(OrElse(chosen, Draws(source, seen)), {None}) :
              /\ topic' = t
              /\ used' = IF t = None THEN base ELSE base \cup {t.text}
              /\ notes' = notes
              /\ phase' = IF t = None THEN phase
                          ELSE IF Decoys(page.bank, Drawing(page, prf), t) = {} \/ page.still
                          THEN "topic" ELSE "spin"
        /\ record' = None
        /\ UNCHANGED <<page, clock, ran, bests, sheet>>

(* Seeded fault: what was drawn is not remembered.                          *)
SpinForgetful(prf, seen) ==
    LET chosen == StagedRows(page.bank, staged)
        source == Pool(page.bank, Drawing(page, prf))
        base   == IF chosen # {} THEN seen ELSE UsedAfterDraw(source, seen)
    IN  /\ staged' = IF chosen # {} THEN None ELSE staged
        /\ \E t \in OrElse(OrElse(chosen, Draws(source, seen)), {None}) :
              /\ topic' = t
              /\ used' = base
              /\ notes' = IF t = None THEN notes ELSE None
              /\ phase' = IF t = None THEN phase
                          ELSE IF Decoys(page.bank, Drawing(page, prf), t) = {} \/ page.still
                          THEN "topic" ELSE "spin"
        /\ record' = None
        /\ UNCHANGED <<page, clock, ran, bests, sheet>>

(* spin, under these prefs and with these texts seen. A staged topic wins   *)
(* and is consumed; a pool with nothing in it drops the topic and leaves    *)
(* the phase. The timer is not touched.                                     *)
Spin(prf, seen) ==
    LET chosen == StagedRows(page.bank, staged)
        source == Pool(page.bank, Drawing(page, prf))
        base   == IF chosen # {} THEN seen ELSE UsedAfterDraw(source, seen)
    IN  /\ staged' = IF chosen # {} THEN None ELSE staged
        /\ \E t \in OrElse(OrElse(chosen, Draws(source, seen)), {None}) :
              /\ topic' = t
              /\ used' = IF t = None THEN base ELSE base \cup {t.text}
              /\ notes' = IF t = None THEN notes ELSE None
              /\ phase' = IF t = None THEN phase
                          ELSE IF Decoys(page.bank, Drawing(page, prf), t) = {} \/ page.still
                          THEN "topic" ELSE "spin"
        /\ record' = None
        /\ UNCHANGED <<page, clock, ran, bests, sheet>>

(* A step that only moves the phase.                                        *)
Go(to) ==
    /\ phase' = to
    /\ record' = None
    /\ UNCHANGED <<page, topic, used, notes, prefs, clock, ran, stores, sheet>>

(* A step that starts the timer with the phase it belongs to.               *)
Run(to, halves, done) ==
    /\ phase' = to
    /\ clock' = Started(halves, done)
    /\ ran' = 0
    /\ record' = None
    /\ UNCHANGED <<page, topic, used, notes, prefs, stores, sheet>>

StartSpeak == topic # None /\ Run("speak", 2 * prefs.speak, "finish")

StartReading == topic # None /\ Reading /\ Run("ready", LeadIn, "scroll")

StartPrep ==
    /\ topic # None
    /\ CASE Reading -> StartReading
         [] ~Reading /\ prefs.prep = 0 -> StartSpeak
         [] OTHER -> Run("prep", 2 * prefs.prep, "speak")

Scroll == Run("reading", ReadHalves(topic, prefs.wpm), "end")

(* finish: the record is what the page posts.                               *)
ASSUME RecordAssumption == None \notin [topic : Rows, genre : Known, speak : Speaks, spoken : Nat]

Finish(seconds) ==
    /\ phase' = "done"
    /\ clock' = Stopped
    /\ record' = IF topic = None THEN None
                 ELSE [topic |-> topic, genre |-> ActiveGenre(page, prefs),
                       speak |-> prefs.speak, spoken |-> seconds]
    /\ UNCHANGED <<page, topic, used, notes, prefs, stores, sheet>>
    /\ ran' = 0

(* Seeded fault: stopping early counts as having read.                      *)
FinishReadingEarly(clk) ==
    /\ phase \in {"reading", "ready"}
    /\ bests' = IF phase = "reading" /\ topic # None /\ prefs.wpm > bests[topic.slug]
                THEN [bests EXCEPT ![topic.slug] = prefs.wpm] ELSE bests
    /\ phase' = "done"
    /\ clock' = Stopped
    /\ record' = None
    /\ UNCHANGED <<page, topic, used, notes, prefs, saved, staged, sheet>>
    /\ ran' = 0

(* finishReading: the best is kept only for a scroll read to its end, give  *)
(* or take a second, and nothing is recorded.                               *)
FinishReading(clk) ==
    /\ phase \in {"reading", "ready"}
    /\ LET finished == /\ phase = "reading"
                       /\ 2 * ElapsedSeconds(clk) >= ReadHalves(topic, prefs.wpm) - 2
       IN  bests' = IF finished /\ topic # None /\ prefs.wpm > bests[topic.slug]
                    THEN [bests EXCEPT ![topic.slug] = prefs.wpm] ELSE bests
    /\ phase' = "done"
    /\ clock' = Stopped
    /\ record' = None
    /\ UNCHANGED <<page, topic, used, notes, prefs, saved, staged, sheet>>
    /\ ran' = 0

(* Seeded fault: leaving does not stop the timer.                           *)
LeaveRunning ==
    /\ Filming
    /\ phase' = "topic"
    /\ record' = None
    /\ UNCHANGED <<page, topic, used, notes, prefs, clock, ran, stores, sheet>>

(* leaveRound: keep nothing, one step back to the topic.                    *)
LeaveRound ==
    /\ Filming
    /\ phase' = "topic"
    /\ clock' = Stopped
    /\ ran' = 0
    /\ record' = None
    /\ UNCHANGED <<page, topic, used, notes, prefs, stores, sheet>>

(* resetToIdle: a feature page has no idle, so its way out is a spin.       *)
ResetToIdle ==
    /\ phase = "topic"
    /\ IF Locked(page)
       THEN Spin(prefs, used) /\ UNCHANGED <<prefs, saved>>
       ELSE /\ topic' = None
            /\ notes' = None
            /\ phase' = "idle"
            /\ record' = None
            /\ UNCHANGED <<page, used, prefs, clock, ran, stores, sheet>>

TogglePause ==
    /\ ~Reading
    /\ clock.running
    /\ clock' = IF clock.paused THEN Resumed(clock) ELSE Paused(clock)
    /\ record' = None
    /\ UNCHANGED <<page, phase, topic, used, notes, prefs, ran, stores, sheet>>

Near(prf) == \E old \in Stored : Cardinality({f \in DOMAIN prf : prf[f] # old[f]}) <= MaxMoved

(* A setting kept: the prefs change and are saved.                          *)
Keep(prf) ==
    /\ Near(prf)
    /\ prefs' = prf
    /\ saved' = prf
    /\ record' = None
    /\ UNCHANGED <<page, phase, topic, notes, clock, ran, bests, staged, sheet>>

-----------------------------------------------------------------------------
(* Presses.                                                                 *)

PressSpin    == Pressed("spin") /\ Spin(prefs, used) /\ UNCHANGED <<prefs, saved>>
PressThink   == Pressed("think") /\ StartPrep
PressSpeak   == Pressed("speak") /\ StartSpeak
PressRead    == Pressed("read") /\ StartReading
PressPause   == Pressed("pause") /\ TogglePause
PressStop    == Pressed("stop") /\ FinishReading(clock)

(* Done, and Reset from each screen that has one.                           *)
PressDone ==
    /\ Pressed("done")
    /\ phase = "speak"
    /\ Finish(ElapsedSeconds(clock))
PressReset ==
    /\ Pressed("reset")
    /\ IF phase = "topic" THEN ResetToIdle ELSE LeaveRound

PressSame ==
    /\ Pressed("same")
    /\ phase = "done" /\ topic # None
    /\ notes' = None
    /\ phase' = "topic"
    /\ record' = None
    /\ UNCHANGED <<page, topic, used, prefs, clock, ran, stores, sheet>>

PressAgain ==
    /\ Pressed("again")
    /\ phase = "done" /\ topic # None
    /\ phase' = "topic"
    /\ prefs' = [prefs EXCEPT !.wpm = Faster(@)]
    /\ saved' = IF Faster(prefs.wpm) # prefs.wpm THEN prefs' ELSE saved
    /\ record' = None
    /\ UNCHANGED <<page, topic, used, notes, clock, ran, bests, staged, sheet>>

WriteNote ==
    /\ Pressed("note")
    /\ notes' = topic
    /\ record' = None
    /\ UNCHANGED <<page, phase, topic, used, prefs, clock, ran, stores, sheet>>

-----------------------------------------------------------------------------
(* Settings.                                                                *)

OpenSheet(which) ==
    /\ Pressed(which)
    /\ sheet' = which
    /\ record' = None
    /\ UNCHANGED <<page, phase, topic, used, notes, prefs, clock, ran, stores>>

CloseSheet ==
    /\ Pressed("close")
    /\ sheet' = "none"
    /\ record' = None
    /\ UNCHANGED <<page, phase, topic, used, notes, prefs, clock, ran, stores>>

(* chooseGenre, and the sheet it closes. Warm-ups are links here.           *)
ChooseGenre(genre) ==
    /\ Pressed("choose")
    /\ ~Locked(page) /\ ~IsRead(page.bank, genre)
    /\ LET moved == [prefs EXCEPT !.genre = genre]
       IN  prefs' = [moved EXCEPT !.style = SettledStyle(page.bank, moved)]
    /\ Near(prefs')
    /\ saved' = prefs'
    /\ used' = {}
    /\ sheet' = "none"
    /\ record' = None
    /\ UNCHANGED <<page, phase, topic, notes, clock, ran, bests, staged>>

ChooseStyle(style) ==
    /\ Pressed("style")
    /\ style \in {Surprise} \cup page.bank.styles \cup OwnStyles(page.bank, prefs.genre)
    /\ Keep([prefs EXCEPT !.style = style])
    /\ used' = {}

SetPictures(on) ==
    /\ Pressed("pictures")
    /\ Keep([prefs EXCEPT !.pictures = on])
    /\ used' = {}

(* previewLength follows the thumb and writes nothing; setLength is its     *)
(* release.                                                                 *)
PreviewLength(which, seconds) ==
    /\ Pressed("length")
    /\ prefs' = [prefs EXCEPT ![which] = seconds]
    /\ Near(prefs')
    /\ record' = None
    /\ UNCHANGED <<page, phase, topic, used, notes, clock, ran, stores, sheet>>
SetLength(which, seconds) ==
    /\ Pressed("length")
    /\ Keep([prefs EXCEPT ![which] = seconds])
    /\ UNCHANGED used

SetSpeed(wpm) ==
    /\ Pressed("speed")
    /\ Keep([prefs EXCEPT !.wpm = wpm])
    /\ UNCHANGED used

SetLevel(level) ==
    /\ Pressed("level")
    /\ Keep([prefs EXCEPT !.level = level])
    /\ used' = {}

(* setSource spins from the bank chosen, whatever the phase.                *)
SetSource(genre) ==
    /\ Pressed("source")
    /\ prefs' = [prefs EXCEPT !.passages = IF IsRead(page.bank, genre) THEN genre ELSE None]
    /\ Near(prefs')
    /\ saved' = prefs'
    /\ Spin(prefs', {})

-----------------------------------------------------------------------------
(* Keys: Space starts and pauses, N asks for another, Escape leaves.        *)

KeySpace ==
    /\ KeyTaken
    /\ \/ phase \in {"idle", "done"} /\ Spin(prefs, used) /\ UNCHANGED <<prefs, saved>>
       \/ phase = "topic" /\ StartPrep
       \/ ~Reading /\ Filming /\ TogglePause

KeyN ==
    /\ KeyTaken
    /\ phase \in {"idle", "topic", "done"}
    /\ Spin(prefs, used)
    /\ UNCHANGED <<prefs, saved>>

KeyEscape ==
    /\ KeyTaken
    /\ \/ LeaveRound
       \/ ~Filming /\ ResetToIdle

-----------------------------------------------------------------------------
(* Time: the reel settles, the wall clock runs, the loop comes round.       *)

(* Seeded fault: only a strip of sentences says that it has stopped.        *)
SettleSentences == phase = "spin" /\ ~topic.image /\ Go("topic")

Settle == phase = "spin" /\ Go("topic")

Pass ==
    /\ MayPass(clock)
    /\ clock' = Passed(clock)
    /\ ran' = IF ran < MaxRan THEN ran + 1 ELSE ran
    /\ record' = None
    /\ UNCHANGED <<page, phase, topic, used, notes, prefs, stores, sheet>>

LoopOn ==
    /\ MayLoop(clock) /\ ~IsOver(Looped(clock))
    /\ clock' = Looped(clock)
    /\ record' = None
    /\ UNCHANGED <<page, phase, topic, used, notes, prefs, ran, stores, sheet>>

(* The loop that finds nothing left calls what the timer was started with.  *)
LoopOver ==
    /\ MayLoop(clock) /\ IsOver(Looped(clock))
    /\ \/ clock.done = "speak" /\ StartSpeak
       \/ clock.done = "finish" /\ Finish(prefs.speak)
       \/ clock.done = "scroll" /\ Scroll
       \/ clock.done = "end" /\ FinishReading(Looped(clock))

-----------------------------------------------------------------------------
(* Pages. Opening one builds an engine from the stored prefs and the        *)
(* address bar, and drops whatever the last page was doing.                 *)

Spoken(bank) == {i \in DOMAIN bank.genres : ~IsRead(bank, bank.genres[i])}
FirstSpoken(bank) ==
    IF Spoken(bank) = {} THEN DefaultGenre
    ELSE bank.genres[CHOOSE i \in Spoken(bank) : \A j \in Spoken(bank) : i <= j]

KnownSpoken(bank, genre) == Listed(bank, genre) /\ ~IsRead(bank, genre)

(* Seeded fault: every page settles the remembered genre against its bank.  *)
RememberedEverywhere(pg, sv) ==
    [sv EXCEPT !.genre = IF KnownSpoken(pg.bank, @) THEN @ ELSE FirstSpoken(pg.bank)]

(* The constructor's prefs. Only home settles genre and style; a remembered *)
(* warm-up counts as missing there.                                         *)
Remembered(pg, sv) ==
    IF Locked(pg) THEN sv
    ELSE LET known == [sv EXCEPT !.genre =
                          IF KnownSpoken(pg.bank, @) THEN @ ELSE FirstSpoken(pg.bank)]
         IN  [known EXCEPT !.style = SettledStyle(pg.bank, known)]

(* What the server opens a feature page on: the passage a link names, or    *)
(* any of the page's own.                                                   *)
Openings(pg, link) ==
    IF ~Locked(pg) THEN {None}
    ELSE OrElse({t \in pg.bank.topics : link.topic # None /\ t.slug = link.topic}, Of(pg.bank, pg.lock))

(* The constructor's topic: a locked page whose opening is missing or is    *)
(* from another bank than the one chosen draws its own.                     *)
FirstTopics(pg, prf, opening) ==
    IF Locked(pg) /\ (opening = None \/ opening.genre # ActiveGenre(pg, prf))
    THEN OrElse(Draws(Pool(pg.bank, Drawing(pg, prf)), IF opening = None THEN {} ELSE {opening.text}),
                {opening})
    ELSE {opening}

(* arrive: what a link may change is remembered.                            *)
Writes(pg, link) ==
    \/ link.wpm # None \/ link.pictures # None
    \/ link.genre # None /\ ~Locked(pg) /\ KnownSpoken(pg.bank, link.genre)

Asked(pg, prf, link) ==
    LET paced  == IF link.wpm # None THEN [prf EXCEPT !.wpm = link.wpm] ELSE prf
        shown  == IF link.pictures # None THEN [paced EXCEPT !.pictures = link.pictures] ELSE paced
        moved  == [shown EXCEPT !.genre = link.genre]
    IN  IF link.genre # None /\ ~Locked(pg) /\ KnownSpoken(pg.bank, link.genre)
        THEN [moved EXCEPT !.style = SettledStyle(pg.bank, moved)]
        ELSE shown

(* The page arrived at. A staged topic moves the genre; a topic the link    *)
(* names is shown at once, and at home moves the genre and settles style.   *)
Arrive(pg, link, stg) ==
    \E opening \in Openings(pg, link) :
    \E first \in FirstTopics(pg, Remembered(pg, saved), opening) :
    LET asked  == Asked(pg, Remembered(pg, saved), link)
        chosen == IF link.topic # None THEN {} ELSE StagedRows(pg.bank, stg)
        named  == {t \in pg.bank.topics : link.topic # None /\ t.slug = link.topic}
        start  == IF chosen # {} THEN [asked EXCEPT !.genre = stg.genre] ELSE asked
    IN  /\ page' = pg
        /\ saved' = IF Writes(pg, link) THEN asked ELSE saved
        /\ \E t \in OrElse(named, {first}) :
              LET opened == [start EXCEPT !.genre = t.genre]
              IN  /\ topic' = t
                  /\ phase' = IF t = None THEN "idle" ELSE "topic"
                  /\ used' = {r.text : r \in {opening, first, t} \ {None}}
                  /\ prefs' = IF named # {} /\ ~Locked(pg)
                              THEN [opened EXCEPT !.style = SettledStyle(pg.bank, opened)]
                              ELSE start
        /\ notes' = None
        /\ clock' = Stopped
        /\ ran' = 0
        /\ record' = None
        /\ sheet' = "none"
        /\ staged' = stg
        /\ UNCHANGED bests

Visit(pg, link) == Arrive(pg, link, staged)

(* The operator console stages a row and goes straight to home.             *)
Stage(pg, row) ==
    ~Locked(pg) /\ Arrive(pg, NoLink, [genre |-> row.genre, text |-> row.text])

-----------------------------------------------------------------------------
Init ==
    /\ page \in {p \in Pages : ~Locked(p)}
    /\ saved \in Stored
    /\ prefs = Remembered(page, saved)
    /\ phase = "idle" /\ topic = None /\ used = {} /\ notes = None
    /\ bests = [s \in {r.slug : r \in Rows} |-> 0]
    /\ staged = None /\ sheet = "none" /\ clock = Stopped /\ record = None /\ ran = 0

Press ==
    \/ PressSpin \/ PressThink \/ PressSpeak \/ PressRead \/ PressPause
    \/ PressStop \/ PressDone \/ PressReset \/ PressSame \/ PressAgain
    \/ WriteNote

Settings ==
    \/ \E which \in {"genre", "settings"} : OpenSheet(which)
    \/ CloseSheet
    \/ \E genre \in Genres : ChooseGenre(genre) \/ SetSource(genre)
    \/ \E style \in {r.style : r \in Rows} \cup {Surprise} : ChooseStyle(style)
    \/ \E on \in BOOLEAN : SetPictures(on)
    \/ \E seconds \in Preps : PreviewLength("prep", seconds) \/ SetLength("prep", seconds)
    \/ \E seconds \in Speaks : PreviewLength("speak", seconds) \/ SetLength("speak", seconds)
    \/ \E i \in DOMAIN Speeds : SetSpeed(Speeds[i])
    \/ \E level \in Levels \cup {Surprise} : SetLevel(level)

Keys == KeySpace \/ KeyN \/ KeyEscape

Time == Settle \/ Pass \/ LoopOn \/ LoopOver

Next ==
    \/ Press \/ Settings \/ Keys \/ Time
    \/ \E pg \in Pages, link \in Links : Visit(pg, link)
    \/ \E pg \in Pages, row \in Stageable : Stage(pg, row)

(* The browser runs its timers: the reel's fallback timeout settles it and  *)
(* the interval loops, however late. Nobody is obliged to press anything.   *)
Spec == Init /\ [][Next]_vars
FairSpec == Spec /\ WF_vars(Settle) /\ WF_vars(Pass) /\ WF_vars(LoopOn) /\ WF_vars(LoopOver)

-----------------------------------------------------------------------------
(* Properties.                                                              *)

(* Every variable keeps the shape the engine gives it: a phase with a       *)
(* topic of some bank, prefs, a timer, and at most one run to write.        *)
TypeOK ==
    /\ page \in Pages /\ phase \in Phases /\ topic \in Rows \cup {None}
    /\ used \subseteq {r.text : r \in Rows} /\ notes \in Rows \cup {None}
    /\ prefs.genre \in Known /\ prefs.prep \in Preps /\ prefs.speak \in Speaks /\ prefs.wpm \in Paces
    /\ sheet \in {"none", "genre", "settings"}
    /\ clock.left \in 0..clock.total /\ clock.due \in -Late..clock.total /\ ran \in 0..MaxRan

(* The one timer always belongs to the phase on show: no callback of a      *)
(* round that was left can fire into the next (engine.ts, every step that   *)
(* changes the phase). The exception is a source chosen during the lead-in, *)
(* whose spin does not stop the lead-in.                                    *)
ClockServesPhase ==
    clock.running =>
        \/ <<phase, clock.done>> \in
              {<<"prep", "speak">>, <<"speak", "finish">>, <<"ready", "scroll">>, <<"reading", "end">>}
        \/ phase = "topic" /\ clock.done = "scroll" /\ Cardinality(Sources(page)) > 1

(* A run handed over to be written is of the topic on the screen it         *)
(* finishes, never claims more than the minute that was set, and never      *)
(* claims time that did not pass: pauses, late loops and lengths moved in   *)
(* between included (engine.ts done and finish, timer.ts).                  *)
RecordedTruth ==
    [][record' # None =>
          /\ record'.topic = topic /\ phase' = "done"
          /\ record'.spoken <= record'.speak
          /\ 2 * record'.spoken <= ran + 1]_vars

(* A best speed is only ever written for the passage on screen at the speed *)
(* it is set to, and only once its scroll has run but for the last second   *)
(* and a half (warmups.ts, finishReading).                                  *)
BestWasRead ==
    [][bests' # bests =>
          /\ phase = "reading"
          /\ bests' = [bests EXCEPT ![topic.slug] = prefs.wpm]
          /\ ran + 3 >= ReadHalves(topic, prefs.wpm)]_vars

(* What a round writes down is what happened in it.                         *)
WrittenIsTrue == RecordedTruth /\ BestWasRead

(* At home a spin hands back the topic it was asked to replace only when    *)
(* everything it could land on has come up (pool.ts draw).                  *)
SkipNotRepeated ==
    [][(PressSpin \/ KeyN) /\ ~Locked(page) /\ topic # None /\ topic' = topic
          => \/ StagedRows(page.bank, staged) # {}
             \/ Unseen(Pool(page.bank, Drawing(page, prefs)), used) = {}]_vars

(* A feature page shows passages of the bank the visitor chose, or of its   *)
(* own where that one holds nothing, on opening, on every spin and on every *)
(* change of bank. Only a link that names a passage overrides it.           *)
PassagesAsChosen ==
    [][/\ Locked(page) /\ page' = page
       /\ PressSpin \/ KeyN \/ prefs'.passages # prefs.passages
       => topic'.genre = ActiveGenre(page, prefs')]_vars

(* A phase that needs a topic has one, and a feature page is never without  *)
(* one, whatever was chosen, deleted or linked since the last visit.        *)
(* The notes on screen were written for that topic.                         *)
ScreenHasTopic ==
    /\ phase # "idle" => topic # None
    /\ Locked(page) => phase # "idle"
    /\ notes # None => notes = topic

(* Whatever is on show has the clock and the topic it needs, and no other.  *)
ScreenIsServed == ClockServesPhase /\ ScreenHasTopic

(* No press of Spin and no N is dead: some topic comes up whatever filters  *)
(* are set, picture mode included, and in picture mode it has a picture     *)
(* wherever the bank holds one (pool.ts).                                   *)
SpinNeverDead ==
    [][(PressSpin \/ KeyN) =>
          /\ topic' # None
          /\ prefs.pictures /\ ~Locked(page) /\ staged = None /\ Pictured(page.bank.topics) # {}
             => topic'.image]_vars

(* Every spin moves: it is answered, and not with the topic just refused.   *)
SpinMoves == SkipNotRepeated /\ SpinNeverDead

(* The genre home opens on is moved at home alone: an hour of warm-ups does *)
(* not become a default topic (the lock, engine.ts).                        *)
DefaultKept == [][saved'.genre # saved.genre => ~Locked(page')]_vars

(* What was chosen is what is drawn from, on the page it was chosen on and  *)
(* nowhere else (the lock, drawing and currentGenre).                       *)
ChoicesKept == PassagesAsChosen /\ DefaultKept

(* Every spin moves, and to what was chosen.                                *)
DrawnAsChosen == SpinMoves /\ ChoicesKept

(* Home has no screen for a warm-up's lead-in or its scroll, so it never    *)
(* enters either (engine.ts chooseGenre, arrive and the constructor).       *)
HomeNeverReads == ~Locked(page) => phase \notin {"ready", "reading"}

(* The words never move before a lead-in whose screen was up when it ended. *)
ScrollAfterLeadIn == [][phase # "reading" /\ phase' = "reading" => phase = "ready"]_vars

(* The reel always lands: the strip that stops or the timeout that stands   *)
(* in for it.                                                               *)
SpinLands == phase = "spin" ~> phase # "spin"

(* A lead-in and a scroll end without a press.                              *)
ReadEnds == phase \in {"ready", "reading"} ~> phase \notin {"ready", "reading"}

(* A minute that is not paused ends, however late the loops come.           *)
ClockRunsOut == (phase = "speak" /\ ~clock.paused) ~> (phase # "speak" \/ clock.paused)

(* No phase that ends by itself stays: the reel, the lead-in, the scroll    *)
(* and the minute (settle, scroll and the timer's loop).                    *)
NothingHangs == SpinLands /\ ReadEnds /\ ClockRunsOut

(* The engine keeps the order of phases the page relies on.                 *)
Flow == INSTANCE RoundFlow WITH paused <- clock.paused, written <- (record # None)
FollowsFlow == Flow!Spec
=============================================================================
