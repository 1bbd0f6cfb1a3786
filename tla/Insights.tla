------------------------------ MODULE Insights ------------------------------
(* What a person is told of one minute (Minute) and of many rounds          *)
(* (Progress), read after every frame, word, sentence, round and day of     *)
(* small bounded histories. The five inputs are read apart on the pages, so *)
(* only one of them grows in a behaviour.                                   *)
EXTENDS ReportPage, ProgressPage

CONSTANTS
    Overrun,                              \* frames a timeline may run past its round
    Frames, Utterances, Rounds, Sentences, LastDate,   \* bounds: how long each input grows
    WordKinds,                            \* the words a round is made of, and the gap before
    Closings,                             \* how long a round runs on after its last word
    Readers,                              \* who transcribed it, and whether with a clock
    Kinds,                                \* the rounds a history is made of
    SentenceKinds,                        \* the sentences a round is made of
    GenreNames,                                \* the genres, by name
    Windows,                              \* the lengths of a heatmap
    UmRates                               \* the rates of ums a report may hold

ASSUME InsightsAssumption == Overrun \in Nat /\ UmRates \subseteq Nat

VARIABLES
    levels,      \* voice.ts: the loudness of a minute, frame by frame
    words,       \* the words of a minute as they were said, with their clock
    sentences,   \* the sentences of a report, in order
    rounds,      \* the rounds of the streak page, oldest first
    today        \* the last day of the calendar

insightVars == <<levels, words, sentences, rounds, today>>

InsightInit ==
    /\ levels = <<>>
    /\ words = <<>>
    /\ sentences = <<>>
    /\ rounds = <<>>
    /\ today = 0

-----------------------------------------------------------------------------
(* One more frame, word, sentence, round, day.                                    *)

Hear ==
    /\ words = <<>> /\ sentences = <<>> /\ rounds = <<>> /\ today = 0
    /\ Len(levels) < Frames
    /\ \E l \in Loudness : levels' = Append(levels, l)
    /\ UNCHANGED <<words, sentences, rounds, today>>

Utter ==
    /\ levels = <<>> /\ sentences = <<>> /\ rounds = <<>> /\ today = 0
    /\ Len(words) < Utterances
    /\ \E kind \in WordKinds :
         LET start == (IF words = <<>> THEN 0 ELSE words[Len(words)].end) + kind.gap
         IN  words' = Append(words, [bare |-> kind.bare, stops |-> kind.stops, start |-> start, end |-> start + MinSpeech])
    /\ UNCHANGED <<levels, sentences, rounds, today>>

Say ==
    /\ levels = <<>> /\ words = <<>> /\ rounds = <<>> /\ today = 0
    /\ Len(sentences) < Sentences
    /\ \E s \in SentenceKinds : sentences' = Append(sentences, s)
    /\ UNCHANGED <<levels, words, rounds, today>>

NextRound ==
    /\ levels = <<>> /\ words = <<>> /\ sentences = <<>> /\ today = 0
    /\ Len(rounds) < Rounds
    /\ \E kind \in Kinds : rounds' = Append(rounds, kind)
    /\ UNCHANGED <<levels, words, sentences, today>>

Midnight ==
    /\ levels = <<>> /\ words = <<>> /\ sentences = <<>> /\ rounds = <<>>
    /\ today < LastDate
    /\ today' = today + 1
    /\ UNCHANGED <<levels, words, sentences, rounds>>

InsightNext == Hear \/ Utter \/ Say \/ NextRound \/ Midnight

InsightSpec == InsightInit /\ [][InsightNext]_insightVars

-----------------------------------------------------------------------------
(* One minute. Its round may be shorter than its timeline, which overruns   *)
(* it where the ticker leaked.                                              *)

Segments == SegmentsFrom(levels)
Lengths  == {n \in Len(levels) - Overrun .. Len(levels) : n > 0}

(* A gap longer than the hangover and shorter than a pause, which the       *)
(* report keeps no trace of.                                                *)
GapUnreported(spoken) == \E i \in DOMAIN Gaps(spoken) : Gaps(spoken)[i].seconds < MinPause

(* A stretch of voice starts and ends on sound, is not a click, and is      *)
(* further from the next than the hangover bridges (segmentsFrom).          *)
SegmentsApart ==
    LET segments == Segments IN
    /\ \A i \in DOMAIN segments :
         /\ Length(segments[i]) >= MinSpeech
         /\ levels[segments[i].from + 1] = "voice"
         /\ levels[segments[i].to] # "quiet"
    /\ \A i \in 2 .. Len(segments) : segments[i].from - segments[i - 1].to > Hangover

(* The warning during the round is the verdict of the report at every       *)
(* frame (heardRatio against analysis.py's floor).                          *)
WarningIsVerdict ==
    levels # <<>> => (LiveHeard(levels) <=> Timing(Segments, Len(levels)).heard)

(* The wave above the latest is of the whole round and no more: its blocks  *)
(* follow each other from nought to the end (minuteBlocks).                 *)
BarWithinRound ==
    \A length \in Lengths :
        LET bar == MinuteBlocks(Segments, length) IN
        bar # <<>> =>
            /\ bar[1].from = 0 /\ bar[Len(bar)].to = length
            /\ \A i \in 2 .. Len(bar) : bar[i].from = bar[i - 1].to

(* The done screen's bar, rebuilt from the pauses, is the streak page's,    *)
(* drawn from the timeline, wherever every gap was reported and no stretch  *)
(* starts after the round: minuteBlocks draws the silence before one of     *)
(* those as a pause, and the report as having finished (blocks).            *)
SameBar ==
    \A length \in Lengths :
        LET report == Timing(Segments, length) IN
        report.heard /\ ~GapUnreported(Clip(Segments, length)) /\ Len(Clip(Segments, length)) = Len(Segments)
            => Blocks(report, length) = MinuteBlocks(Segments, length)

(* A word said is a word drawn: every stretch of voice has a stroke of the  *)
(* wave over it (waveform).                                                 *)
WordsDrawn ==
    \A length \in Lengths :
        LET report  == Timing(Segments, length)
            spoken  == Clip(Segments, length)
            talking == {b \in ToSet(Blocks(report, length)) : b.kind = "talking"}
        IN  report.heard /\ ~GapUnreported(spoken) =>
                \A i \in DOMAIN spoken : \E b \in talking : \E x \in Strokes(b) :
                    2 * spoken[i].from <= x /\ x <= 2 * spoken[i].to

(* First and latest are drawn to one scale, the longer of the two, and the  *)
(* shorter is its own wave with nothing after it (SideBySide). A timeline   *)
(* that overruns its round is left out: to another round's scale the        *)
(* overrun is drawn.                                                        *)
WavesToScale ==
    levels # <<>> => \A scale \in Len(levels) .. Len(levels) + Overrun :
        LET Drawn(bar) == Picked(bar, {i \in DOMAIN bar : bar[i].kind # "after"})
        IN  Drawn(Wave(Segments, scale)) = Drawn(MinuteBlocks(Segments, Len(levels)))

(* What is drawn of a minute is that minute: its stretches, the bar and the *)
(* wave, on either page.                                                    *)
BarIsTheMinute == WarningIsVerdict /\ SegmentsApart /\ BarWithinRound /\ SameBar /\ WordsDrawn /\ WavesToScale

(* Where the voice stopped for good is the end of the last stretch of       *)
(* sound. Not so: lastSound leaves out every gap too short for a pause.     *)
LastSoundIsLast ==
    \A length \in Lengths :
        LET report == Timing(Segments, length)
            spoken == Clip(Segments, length)
        IN  report.heard => LastSound(report, length) = spoken[Len(spoken)].to

(* What the sentence under the bar calls out is outside its range in the    *)
(* bands under it, and a minute it calls steady has no long pause and not   *)
(* many ums (headline, gapBand, bands). The edges themselves are left out:  *)
(* there the two comparisons do differ. Of a steady minute's start and pace *)
(* nothing is said: see SteadyMeansInside.                                  *)
HeadlineAgrees ==
    \A length \in Lengths, ums \in UmRates \cup {None} :
        LET report == Timing(Segments, length)
            says   == Headline(report, ums)
        IN  /\ says = "start" => Verdict(StartBand(report)) = "high"
            /\ says = "gap" /\ report.longest # Awkward => Verdict(GapBand(report)) = "high"
            /\ says = "ums" /\ ums # ManyUms => Verdict(UmsBand(ums)) = "high"
            /\ says = "steady" => Verdict(GapBand(report)) = "good" /\ (ums = None \/ Verdict(UmsBand(ums)) = "good")

(* A minute called steady is inside every band. Not so: the headline calls  *)
(* out a start from three seconds on and the band from two, so "You spoke   *)
(* steadily" stands over "Slow start" (headline, startBand).                *)
SteadyMeansInside ==
    \A length \in Lengths :
        LET report == Timing(Segments, length)
        IN  Headline(report, None) = "steady" => Verdict(StartBand(report)) = "good"

(* A minute reads alike wherever it is read: its bar, its wave and its      *)
(* numbers are of one timeline, and what the sentence under them calls out  *)
(* the bands do too.                                                        *)
MinuteReadBack == BarIsTheMinute /\ HeadlineAgrees

-----------------------------------------------------------------------------
(* The words of one minute, heard by the browser frame by frame and read    *)
(* back by a transcriber on a clock of its own, which may end a word late.  *)

LoudnessOf(said, length) ==
    [f \in 1 .. length |-> IF \E i \in DOMAIN said : said[i].start < f /\ f <= said[i].end THEN "voice" ELSE "quiet"]

LengthOf(closing) == words[Len(words)].end + closing
Ending(late)      == [i \in DOMAIN words |-> [words[i] EXCEPT !.end = @ + late]]

Reading(reader, closing, late) ==
    LET length == LengthOf(closing)
        timing == Timing(SegmentsFrom(LoudnessOf(words, length)), length)
    IN  Render(Ending(late), timing, length, reader.provider, reader.clocked)

(* Both pages judge a measure the same: what is marked out of range has     *)
(* something to do about it and a marker off the lit stretch, on the bar    *)
(* and the dial alike, and the line beside them counts the rest and names   *)
(* one of those (bands, axes, BandRow, Dial, shapeCaption). A near miss     *)
(* that rounds to a hundred is left out: the line counts it in range.       *)
PagesJudgeAlike(report) ==
    LET rows    == Axes(report)
        Near(b) == Fit(b) = 100 /\ Verdict(b) # "good"
        caption == ShapeCaption(rows)
    IN  /\ \A band \in ToSet(rows) \cup ToSet(Bands(report)) :
             LET bar == BandRow(band)
                 dial == Dial(band)
             IN  /\ bar.warn = (Verdict(band) # "good") /\ dial.warn = bar.warn
                 /\ bar.todo = bar.warn
                 /\ bar.warn <=> ~(bar.lit[1] <= bar.mark /\ bar.mark <= bar.lit[2])
        /\ ToSet(Bands(report)) \subseteq ToSet(rows)
        /\ (\A band \in ToSet(rows) : ~Near(band)) =>
             /\ caption.of - caption.inRange = Cardinality({b \in ToSet(rows) : Dial(b).warn})
             /\ caption.worst # None => \E b \in ToSet(rows) : b.key = caption.worst /\ Dial(b).warn

(* A sentence's bar warns where its dial and its caption do, and the tiles  *)
(* turn rose with their dial (sentenceCaption, Sentences, Tiles).           *)
TilesJudgeAlike(report) ==
    LET rows == Axes(report)
        tiles == Tiles(report, PastLength(report), rows)
        Warned(key) == \E b \in ToSet(rows) : b.key = key /\ Dial(b).warn
    IN  /\ SentenceCaption(report) # <<>> =>
             /\ SentenceCaption(report)[1] <=> Warned("sentence")
             /\ SentenceCaption(report)[1] <=> \E bar \in ToSet(SentenceBars(report)) : bar.warn
             /\ SentenceAside(report).mean <= LongestSentence(report)
        /\ tiles[1].poor <=> Warned("start")

(* The two words a sentence was begun on are underlined in the read-back,   *)
(* and both times in its quote, and no other word is (restarts, read_back,  *)
(* Timed, Quoted). Tokens without letters and, in the quote, a filler       *)
(* inside the pair are left out: there the marks do fall on other words.    *)
RestartsUnderlined(report) ==
    LET drawn == SelectSeq(Timed(report), LAMBDA part : part.kind # "pause")
        Spoken1(i) == i \in DOMAIN words /\ IsSpoken(words[i])
        Second(r) == Min({i \in DOMAIN words : i > r.from /\ IsSpoken(words[i])})
        lettered == \A i \in DOMAIN words : words[i].bare # NoLetters
    IN  lettered =>
          /\ \A i \in DOMAIN drawn :
               drawn[i].under <=> \E r \in ToSet(report.restarts) : i \in {r.from, Second(r)}
          /\ \A r \in ToSet(report.restarts) :
               Spoken1(r.from + 1) /\ Spoken1(r.to - 1) =>
                   {1, 2, r.to - r.from, r.to - r.from + 1} \subseteq Quoted(report, r)

(* Every sentence is drawn over its own words: none has a word of another   *)
(* in its span, and each follows the one before (sentences,                 *)
(* sentence_spans, which walk the text and the clock apart).                *)
SentencesOverOwnWords(report) ==
    /\ \A k \in DOMAIN report.sentences :
         /\ report.spans[k] # None
         /\ \A i \in DOMAIN words :
              IsSpoken(words[i]) =>
                  (i \in report.sentences[k].from .. report.sentences[k].to
                      <=> report.spans[k].start <= words[i].start /\ words[i].end <= report.spans[k].end)
    /\ \A k \in 2 .. Len(report.spans) : report.spans[k - 1].end <= report.spans[k].start

(* Every silence of the report is read back once, where it fell, the long   *)
(* ones as many as the headline counts (timing, read_back).                 *)
SilencesPlaced(report) ==
    LET shown == SelectSeq(report.said, LAMBDA part : part.kind = "pause")
    IN  /\ [i \in DOMAIN shown |-> [at |-> shown[i].at, seconds |-> shown[i].seconds]] = report.pauses
        /\ Len(SelectSeq(shown, LAMBDA part : part.seconds >= Awkward)) = report.awkward

(* And so whatever the transcriber's clock. Not so: a silence that begins   *)
(* before the word ahead of it has ended, by the transcriber's clock, is    *)
(* not read back at all.                                                    *)
SilencesPlacedAnyClock ==
    words # <<>> => \A late \in {0, 1} :
        LET report == Reading([provider |-> "groq", clocked |-> TRUE], 0, late)
        IN  report.heard => SilencesPlaced(report)

(* The ums are as many on the wave, in the read-back, in the list and under *)
(* the headline (filler_times, read_back, filler_counts, words).            *)
UmsCountedOnce(report) ==
    LET marked == SelectSeq(Timed(report), LAMBDA part : part.kind = "filler") IN
    /\ Len(report.fillerTimes) = report.fillers /\ Len(marked) = report.fillers
    /\ SliceTotal(report.fillerCounts) = report.fillers
    /\ report.transitions <= report.fillers
    /\ Habit(report) # <<>> <=> LeanAside(report) # <<>>

MarksOf(report) == Len(SelectSeq(Flat(report), LAMBDA mark : mark # ""))

(* The ring is the words said and no more. Without a clock its words are    *)
(* the marked ones, less those the report does not name: none is left out   *)
(* before the names run out, nor before one said less. And the tile counts  *)
(* no more different words than words, as many as the cloud where that has  *)
(* no um and no number (slices, saidCount, crutch_words, marked,            *)
(* distinctWords, tally).                                                   *)
DonutIsWhole(report) ==
    LET Marked(slice) == \E i \in DOMAIN words : words[i].bare = slice.word /\ Flat(report)[i] # ""
        left == {slice \in Slices(report) : ~Marked(slice)}
        kept == report.leanedOn \ left
    IN
    /\ Donut(report).total + Donut(report).rest = Donut(report).all
    /\ MarksOf(report) = Donut(report).total - SliceTotal(left)
    /\ left # {} => left \subseteq report.leanedOn /\ Cardinality(kept) = CrutchesNamed
    /\ \A slice \in left, other \in kept : slice.count <= other.count
    /\ report.words # None => DistinctWords(report) <= report.words
    /\ (\A w \in ToSet(report.transcript) : IsSpoken(w)) => DistinctWords(report) = Cardinality(Tally(report))

(* What the ring counts is what is marked. Not so: without a clock a        *)
(* leaned-on word past the first three stays a slice and is not marked,     *)
(* which with one it is (slices, marked, CRUTCHES_NAMED).                   *)
MarksAreTheRing ==
    words # <<>> =>
        LET report == Reading([provider |-> "assemblyai", clocked |-> FALSE], 0, 0)
        IN  report.heard => MarksOf(report) = Donut(report).total

(* The stretches of the pace curve are the round, each word in one of them, *)
(* and the dots that carry a number are the two the caption names           *)
(* (pace_curve, paceCaption, PaceChart).                                    *)
CurveIsTheRound(report, length) ==
    LET curve == report.curve IN curve # <<>> =>
        /\ curve[1].start = 0 /\ curve[Len(curve)].end = length
        /\ \A k \in 2 .. Len(curve) : curve[k].start = curve[k - 1].end
        /\ Sum(curve, LAMBDA p : p.said) = SpokenIn(words)
        /\ PaceCaption(report) # <<>> =>
             {curve[k] : k \in {j \in DOMAIN curve : PaceDots(report)[j].labelled}}
                 = {PaceCaption(report)[1].fast, PaceCaption(report)[1].slow}

(* A round looks the same the day after as the moment it ended              *)
(* (past-round.tsx). Not so: the silence after the last word is not in the  *)
(* length its page is given, so the bar is drawn to another scale.          *)
SameTheDayAfter ==
    words # <<>> => \A closing \in Closings :
        LET report == Reading([provider |-> "none", clocked |-> FALSE], closing, 0)
        IN  report.heard => Blocks(report, PastLength(report)) = Blocks(report, LengthOf(closing))

(* And up to the last word it does: the bar of its own page is the done     *)
(* screen's less what follows it (blocks, PastRound).                       *)
SameUpToTheEnd(report, length) ==
    Blocks(report, PastLength(report)) = SelectSeq(Blocks(report, length), LAMBDA b : b.kind # "after")

(* Every heading of a round's page has something of its own under it, bar   *)
(* the last over a round nothing transcribed, and the plan that pays loses  *)
(* none of what the free one was shown (RoundDetail).                       *)
SectionsFilled(report) ==
    LET Own(pro) == {s.title : s \in {x \in ToSet(RoundDetail(report, pro, FALSE)) : ~x.sample}} IN
    /\ Own(FALSE) \subseteq Own(TRUE)
    /\ "Pace" \in Own(TRUE) => PaceCaption(report) # <<>>
    /\ "Words you used a lot" \in Own(TRUE) => Donut(report).all > 0 \/ report.fillers = None
    /\ "Sentences" \in Own(TRUE) => SentenceAside(report).mean > 0
    /\ "Words you used" \in Own(TRUE) => Transcript(report) # "nothing"
    /\ Contains(Numbers(report), "pace") => report.words # None

(* A round read back is the round that was spoken, however it was           *)
(* transcribed. What compares two clocks is held where both are one.        *)
WordsReadBack ==
    words # <<>> => \A reader \in Readers, closing \in Closings :
        LET report == Reading(reader, closing, 0)
            honest == reader.provider = "assemblyai"
        IN  report.heard =>
              /\ PagesJudgeAlike(report)
              /\ TilesJudgeAlike(report)
              /\ SectionsFilled(report)
              /\ SameUpToTheEnd(report, LengthOf(closing))
              /\ CurveIsTheRound(report, LengthOf(closing))
              /\ honest => DonutIsWhole(report)
              /\ reader.clocked =>
                   /\ RestartsUnderlined(report)
                   /\ SentencesOverOwnWords(report)
                   /\ SilencesPlaced(report)
                   /\ honest => UmsCountedOnce(report)

-----------------------------------------------------------------------------
(* Many rounds.                                                             *)

(* The skill to work on was out of range in a recent round, and the round   *)
(* linked as the worst is one of those, by the value printed beside it,     *)
(* which the page works out for itself (workOn, valueOf).                   *)
NamedSkillIsOut ==
    \A named \in ToSet(WorkOn(rounds)) :
        \A printed \in {ValueOf(named.worst, named.skill, named.word)} :
            Contains(named.out, named.worst) /\ ~Inside(named.skill, [sum |-> printed, n |-> 1])

(* No round is on both sides of then and now, nor of the floor.             *)
SidesApart ==
    Len(rounds) >= Six => 2 * EachSide(rounds, CompareMost) <= Len(rounds) /\ 2 * Floor(rounds).k <= Len(rounds)

(* Bad days that beat the old average mean a quieter row of then and now    *)
(* fell too, where both cards read as many rounds (floor, thenAndNow).      *)
FloorMeansBetter ==
    Len(rounds) >= Six /\ Floor(rounds).k = EachSide(rounds, CompareMost) /\ Floor(rounds).beats =>
        \E i \in DOMAIN ThenAndNow(rounds) :
            LET row == ThenAndNow(rounds)[i] IN row.skill.key = "silence" /\ Less(row.now, row.then)

(* The hardest genre is no quieter than all rounds together are, and the    *)
(* last row no harder (byGenre).                                            *)
HardestAboveAverage ==
    LET rows == ByGenre(rounds, GenreNames)
        all  == Mean(rounds, LAMBDA r : r.silence)
    IN  rows # <<>> => ~Less(rows[1].silence, all) /\ ~Less(all, rows[Len(rows)].silence)

Cards(history) ==
    [shown    |-> ReadRounds(history),
     answered |-> AnsweredCount(ReadRounds(history)),
     moved    |-> PointMoved(ReadRounds(history))]

(* While no line is smoothed, its dots are the verdict the skill to work on *)
(* gives each round (LINES, SKILLS), but for rounds nothing transcribed,    *)
(* which the line of restarts draws as having none.                         *)
DotsJudgeAlike ==
    rounds # <<>> /\ Trail(Len(LastOf(rounds, Most))) = 1 =>
        \A line \in LINES, i \in 1 .. Len(SKILLS) :
            LET skill == SKILLS[i]
                dots  == Trend(line, Points(rounds)).dots
                recent == LastOf(rounds, Most)
            IN  skill.key = line.key =>
                  \A j \in DOMAIN dots :
                      LET value == Value(recent[j], skill, Unmeasured)
                      IN  value # Unmeasured => (dots[j] <=> ~Inside(skill, [sum |-> value, n |-> 1]))

(* A round nothing transcribed draws no improvement (_smooth). Not so of    *)
(* the line of restarts, where it counts as a round without any.            *)
UntimedMovesNoTrend ==
    [][rounds # <<>> /\ rounds' # rounds /\ ~rounds'[Len(rounds')].timed =>
        LET Word(history) == {Trend(line, Points(history)).word : line \in {l \in LINES : l.key = "restarts"}}
        IN  "better" \in Word(rounds') => "better" \in Word(rounds)]_insightVars

(* Every heading of the progress page has something under it, and the cards *)
(* that need six rounds fill at once (ProgressSection). The cards of what   *)
(* was read agree: a word over the line whenever there is a line, of its    *)
(* two ends (pointMoved, PointLine).                                        *)
CardsFilled ==
    LET shown == ReadRounds(rounds)
        line  == PointLine(shown)
    IN  /\ \A page \in ToSet(ProgressSection(rounds, GenreNames, TRUE)) :
             /\ page.thenAndNow = "rows" => ThenAndNow(rounds) # <<>>
             /\ page.thenAndNow = "rows" <=> page.floor \in {"beats", "not moved"}
             /\ page.workOn # "nothing"
             /\ page.case = "cards" => Cards(rounds).shown # <<>>
             /\ "prep" \in ToSet(page.genres) =>
                    ByPrep(rounds)[1].n + ByPrep(rounds)[2].n = Len(rounds)
             /\ \A trend \in page.trends : trend.word # "not counted yet"
        /\ PointWord(shown) = "not yet" <=> line = <<>>
        /\ line # <<>> =>
             /\ PointMoved(shown) = <<line[1].at, line[Len(line)].at>>
             /\ PointWord(shown) = "better" /\ line[Len(line)].warn => line[1].warn

(* A first stays with the round that earned it, which could have failed     *)
(* it: nothing said of a round is nothing earned (_firsts).                 *)
FirstsStay ==
    [][rounds' # rounds => \A key \in FIRSTS :
        /\ Firsts(rounds)[key] # 0 => Firsts(rounds')[key] = Firsts(rounds)[key]
        /\ Firsts(rounds)[key] = 0 /\ Firsts(rounds')[key] # 0 =>
             LET earned == rounds'[Len(rounds')]
             IN  /\ Firsts(rounds')[key] = Len(rounds')
                 /\ key = "no_restarts" =>
                        \A skill \in ToSet(SKILLS) : skill.key = "restarts" => Value(earned, skill, Unmeasured) = 0]_insightVars

(* The word being tracked does not change on a round that leans on none     *)
(* (habitWord).                                                             *)
HabitKept ==
    [][rounds # <<>> /\ rounds' # rounds /\ (\A i \in DOMAIN Words : rounds'[Len(rounds')].leaned[Words[i]] = 0)
        => HabitWord(rounds') = HabitWord(rounds)]_insightVars

(* A round nothing read is not a miss: it moves none of the cards           *)
(* (readRounds, CaseCards).                                                 *)
UnreadMovesNothing ==
    [][rounds' # rounds /\ ~IsRead(rounds'[Len(rounds')]) => Cards(rounds') = Cards(rounds)]_insightVars

(* The flag and the key under it agree: no clear point is said of no round  *)
(* whose key holds a point, timed or not (CaseRead).                        *)
FlagAgreesWithKey ==
    /\ Flag(sentences) = "no clear point" => "point" \notin RolesUsed(sentences)
    /\ Flag(sentences) = "point" => "point" \in RolesUsed(sentences)

(* Every square of a heatmap is in the column of its week and the names of  *)
(* the months are apart and never over the last column (heatmapLayout).     *)
HeatmapInWeeks ==
    \A length \in {w \in Windows : Drawing(w) = "heatmap" /\ w <= today + 1} :
        LET first  == today - length + 1
            layout == HeatmapLayout(first, length)
            Week(day) == day \div 7 - first \div 7 + 1
        IN  /\ layout.columns = Week(today)
            /\ \A n \in 0 .. length - 1 : (layout.firstRow - 1 + n) \div 7 + 1 = Week(first + n)
            /\ \A m \in layout.months :
                 /\ m.column = Week(m.day) /\ m.column < layout.columns
                 /\ \A other \in layout.months \ {m} : other.column # m.column

(* Two cards that read the same rounds never contradict each other, and the *)
(* skill to work on is one that went wrong (progress.ts, case.ts); and the  *)
(* calendar shows each day in its week.                                     *)
PagesAgree ==
    NamedSkillIsOut /\ SidesApart /\ FloorMeansBetter /\ HardestAboveAverage /\ FlagAgreesWithKey
    /\ DotsJudgeAlike /\ CardsFilled /\ HeatmapInWeeks

(* A round that says nothing of a skill or of a case moves neither.         *)
SilentRoundsMoveNothing == HabitKept /\ UnreadMovesNothing /\ FirstsStay
=============================================================================
