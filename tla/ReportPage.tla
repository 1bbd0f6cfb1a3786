----------------------------- MODULE ReportPage -----------------------------
(* A rendered report as it is drawn: its bands, captions, read-back and     *)
(* donut (lib/report.ts), on the done screen (components/round/report.tsx)  *)
(* and on the round's own page (components/streak/round-detail.tsx), for a  *)
(* plan. What is drawn is kept as data: a place on a track, a mark, a       *)
(* colour that warns. What a section says is left out.                      *)
EXTENDS ReadBack

CONSTANT Repeated       \* the most restarts and phrases the page lists

Optional(there, item) == IF there THEN <<item>> ELSE <<>>

-----------------------------------------------------------------------------
(* The bands. One that could not be measured is not there.                  *)

PaceBand(report) == Optional(report.pace # None /\ report.pace > 0, Band("pace", report.pace, GoodPace))

Bands(report) ==
    PaceBand(report) \o <<StartBand(report), GapBand(report)>>
        \o Optional(report.rate # None, UmsBand(report.rate))

LongestSentence(report) == Max({0} \cup {s.words : s \in ToSet(report.sentences)})

(* The measures of the round's own page: the bands and the sentences.       *)
Axes(report) ==
    PaceBand(report) \o <<StartBand(report), GapBand(report)>>
        \o Optional(LongestSentence(report) > 0, Band("sentence", LongestSentence(report), <<0, RunOn>>))
        \o Optional(report.rate # None, UmsBand(report.rate))

(* The ums have a dial and no bar.                                          *)
Bars(rows) == SelectSeq(rows, LAMBDA row : row.key # "fillers")

(* Where a value falls on its track, never off it.                          *)
At(value, scale) == Max({scale[1], Min({scale[2], value})})

(* Seeded fault: a measure at the edge has something to do about it.        *)
AdvisedAtEdge(band) == band.value < band.good[1] \/ band.value >= band.good[2]

Advised(band) ==
    /\ band.value < band.good[1] \/ band.value > band.good[2]
    /\ band.key \in {"pace", "start", "gap", "fillers", "sentence"}

(* 100 inside, nothing at the end of the scale.                             *)
Fit(band) ==
    LET high == band.value > band.good[2]
        room == IF high THEN band.scale[2] - band.good[2] ELSE band.good[1] - band.scale[1]
        out  == IF high THEN band.value - band.good[2] ELSE band.good[1] - band.value
    IN  IF band.good[1] <= band.value /\ band.value <= band.good[2] THEN 100
        ELSE IF room <= 0 THEN 0 ELSE Max({0, RoundUp(100 * (room - out), room)})

(* The line beside the dials: how many are in range, and the furthest out.  *)
ShapeCaption(rows) ==
    LET Furthest(a, b) == IF Fit(b) < Fit(a) THEN b ELSE a
        inRange == Len(SelectSeq(rows, LAMBDA row : Fit(row) = 100))
    IN  [inRange |-> inRange, of |-> Len(rows),
         worst |-> IF inRange = Len(rows) THEN None ELSE FoldLeft(Furthest, rows[1], rows).key]

(* A track: the good stretch, the marker, its colour and the disclosure.    *)
BandRow(band) ==
    [key  |-> band.key,
     lit  |-> <<At(band.good[1], band.scale), At(band.good[2], band.scale)>>,
     mark |-> At(band.value, band.scale),
     warn |-> ~(band.good[1] <= band.value /\ band.value <= band.good[2]),
     todo |-> Advised(band)]

(* The same measure as an arc and a dot.                                    *)
Dial(band) ==
    [key  |-> band.key,
     lit  |-> <<At(band.good[1], band.scale), At(band.good[2], band.scale)>>,
     mark |-> At(band.value, band.scale),
     warn |-> ~(band.good[1] <= band.value /\ band.value <= band.good[2])]

-----------------------------------------------------------------------------
(* The pace through the minute. Peak and trough are the first of their      *)
(* kind, in the caption and on the line alike.                              *)

Peak(curve)   == FoldLeft(LAMBDA best, p : IF p.wpm > best.wpm THEN p ELSE best, curve[1], curve)
Trough(curve) == FoldLeft(LAMBDA best, p : IF p.wpm < best.wpm THEN p ELSE best, curve[1], curve)

PaceCaption(report) ==
    Optional(Len(report.curve) >= 2,
        [fast |-> Peak(report.curve), slow |-> Trough(report.curve), slowed |-> report.faded])

(* A dot for each stretch, at its middle; two of them carry their number.   *)
PaceDots(report) ==
    LET Middle(p) == p.start + p.end
    IN  [i \in DOMAIN report.curve |->
            LET p == report.curve[i]
            IN  [warn |-> p.wpm < GoodPace[1] \/ p.wpm > GoodPace[2],
                 labelled |-> Middle(p) \in {Middle(Peak(report.curve)), Middle(Trough(report.curve))}]]

-----------------------------------------------------------------------------
(* The words: donut, list, and the tile of different ones.                  *)

Slices(report) == report.fillerCounts \cup report.leanedOn
SaidCount(report) ==
    (IF report.words = None THEN 0 ELSE report.words) + (IF report.fillers = None THEN 0 ELSE report.fillers)
SliceTotal(slices) == FoldSet(LAMBDA slice, total : total + slice.count, 0, slices)

(* The ring is every word said: the slices, then the quiet remainder.       *)
Donut(report) ==
    [total |-> SliceTotal(Slices(report)), all |-> SaidCount(report),
     rest  |-> Max({0, SaidCount(report) - SliceTotal(Slices(report))})]

(* Over the donut: how many ums came after a pause, where there are ums.    *)
LeanAside(report) ==
    Optional(report.transitions # None /\ report.fillerCounts # {}, report.transitions)

DistinctWords(report) == Distinct(report.transcript, report.fillerWords)

(* The cloud has every token, ums and numbers too, with its count.          *)
Tally(report) == Counted(report.transcript, {w.bare : w \in ToSet(report.transcript)})

-----------------------------------------------------------------------------
(* The read-back, with what was counted marked in it.                       *)

(* Without a clock the words are marked and no silence is placed, and of    *)
(* the leaned-on words only the named ones are.                             *)
Flat(report) ==
    [i \in DOMAIN report.transcript |->
        LET bare == report.transcript[i].bare
        IN  IF bare \in report.fillerWords THEN "filler"
            ELSE IF bare \in report.crutchWords THEN "crutch" ELSE ""]

(* Seeded fault: a filler uses up one of the two words underlined.          *)
UnderlinesAny(part) == TRUE

Underlines(part) == part.kind # "filler"

(* With one, the two words a restart began on are underlined.               *)
Timed(report) ==
    LET begun == {r.at : r \in ToSet(report.restarts)}
        Draw(s, part) ==
            LET left == IF part.at \in begun THEN 2 ELSE s.left
                under == left > 0 /\ Underlines(part)
            IN  IF part.kind = "pause" THEN [s EXCEPT !.out = Append(@, [kind |-> "pause", at |-> part.at, under |-> FALSE])]
                ELSE [left |-> IF under THEN left - 1 ELSE left,
                      out  |-> Append(s.out, [kind |-> part.kind, at |-> part.at, under |-> under])]
    IN  FoldLeft(Draw, [left |-> 0, out |-> <<>>], report.said).out

Transcript(report) ==
    IF report.transcript = <<>> /\ report.said = <<>> THEN "nothing"
    ELSE IF report.said # <<>> THEN "timed" ELSE "flat"

(* The list of restarts quotes from the first try to the second.            *)
RestartsListed(report) == SubSeq(report.restarts, 1, Min({Repeated, Len(report.restarts)}))

(* In the quote, every place where its first two words come again.          *)
Quoted(report, restart) ==
    LET words == SubSeq(report.transcript, restart.from, restart.to)
        Draw(s, i) ==
            IF i < s.next THEN s
            ELSE IF i < Len(words) /\ words[i].bare = words[1].bare /\ words[i + 1].bare = words[2].bare
              THEN [next |-> i + 2, out |-> s.out \cup {i, i + 1}] ELSE s
    IN  FoldLeft(Draw, [next |-> 1, out |-> {}], [i \in DOMAIN words |-> i]).out

-----------------------------------------------------------------------------
(* The sentences, a bar each, and the tiles under them.                     *)

SentenceBars(report) == [i \in DOMAIN report.sentences |-> [words |-> report.sentences[i].words, warn |-> report.sentences[i].words > RunOn]]

SentenceAside(report) ==
    [count |-> Len(report.sentences),
     mean  |-> RoundUp(Sum(report.sentences, LAMBDA s : s.words), Len(report.sentences))]

(* Too long, or a good length; nothing without sentences.                   *)
SentenceCaption(report) == Optional(report.sentences # <<>>, LongestSentence(report) > RunOn)

(* Each tile its number and whether it turns rose, read off the band.       *)
Tiles(report, length, rows) ==
    LET Outside(key) == \E row \in ToSet(rows) : row.key = key /\ Verdict(row) # "good"
    IN  <<[number |-> report.stall, poor |-> Outside("start")],
          [number |-> LastSound(report, length), poor |-> ~report.endedClean]>>
        \o Optional(report.words # None, [number |-> DistinctWords(report), poor |-> FALSE])

-----------------------------------------------------------------------------
(* The two pages.                                                           *)

(* The round's own page has no clock of the round: its length is rebuilt    *)
(* from the sound and the silences that were kept.                          *)
PastLength(report) ==
    Max({1, report.speaking + report.stall + Sum(report.pauses, LAMBDA p : p.seconds)})

(* Under the headline: what was measured, a round nothing transcribed       *)
(* stopping after the timing.                                               *)
Numbers(report) ==
    <<"long pauses">> \o Optional(report.stall >= 1, "to start")
        \o Optional(report.pace # None, "pace") \o Optional(report.fillers # None, "ums")

(* Whether the ums are called a habit or a point that was not ready.        *)
Habit(report) ==
    Optional(report.fillers # None /\ report.transitions # None /\ report.fillers > 0, report.transitions = 0)

(* The sections of the round's page: one drawn from a fixed sample is       *)
(* somebody else's round, under a card that says so.                        *)
Section(title, sample) == [title |-> title, sample |-> sample]

RoundDetail(report, pro, read) ==
    IF ~report.heard THEN <<>>
    ELSE Optional(read \/ ~pro, Section("Your answer", ~read))
      \o Optional(Len(report.curve) > 1, Section("Pace", FALSE))
      \o <<Section("How the round went", ~pro)>>
      \o Optional(report.words # None, Section("Words you used a lot", FALSE))
      \o Optional(report.transcript # <<>>, Section("Words you used", FALSE))
      \o (IF ~pro THEN <<Section("Sentences", TRUE)>>
          ELSE Optional(report.sentences # <<>>, Section("Sentences", FALSE)) \o <<Section("Tiles", FALSE)>>)
      \o <<Section("What you said", FALSE)>>
=============================================================================
