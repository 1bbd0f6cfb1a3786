------------------------------- MODULE Minute -------------------------------
(* One minute from loudness to the report: the segments lib/round/voice.ts  *)
(* cuts (with its live verdict), the timing runs/analysis.py measures on    *)
(* them, and what lib/report.ts and components/round/report.tsx draw and    *)
(* say of it. Time is in ticks, the edges are constants kept in the order   *)
(* of the code's. A frame is voice (at or above the opening threshold),     *)
(* quiet (under the closing one) or between: the thresholds themselves, cut *)
(* from the round's own levels, are left out.                               *)
EXTENDS Integers, Sequences, SequencesExt, FiniteSetsExt, Functions

CONSTANTS
    Hangover, MinSpeech,      \* voice.ts: frames bridged, shortest stretch
    HeardPart,                \* 1/HeardPart of the round makes it heard
    MinPause, Awkward,        \* analysis.py: what is a pause, and a long one
    LongGap, LongStart,       \* report.ts: what the headline calls out
    GoodStart, ManyUms,       \* and the edges of the bands
    Pitch                     \* how far apart the strokes are

ASSUME MinuteAssumption ==
    /\ {Hangover, MinPause, Awkward, LongGap, LongStart, GoodStart, ManyUms} \subseteq Nat
    /\ {MinSpeech, HeardPart, Pitch} \subseteq Nat \ {0}
    /\ MinPause > Hangover /\ Awkward > MinPause /\ LongGap > Awkward /\ LongStart > GoodStart

Loudness == {"voice", "between", "quiet"}
NotYet   == -1

-----------------------------------------------------------------------------
(* voice.ts: loudness into stretches of voice. What follows a stretch is    *)
(* bridged while it is shorter than the hangover, which is not speech.      *)

(* Seeded fault: the hangover counts as speech.                             *)
CutLate(s) ==
    IF s.frame - s.start >= MinSpeech
      THEN Append(s.out, [from |-> s.start, to |-> s.frame]) ELSE s.out

Cut(s) ==
    LET end == s.frame - s.quiet IN
    IF end - s.start >= MinSpeech THEN Append(s.out, [from |-> s.start, to |-> end]) ELSE s.out

(* One frame. quiet counts the frames since the voice was last above close. *)
Frame(was, value) ==
    LET s == [was EXCEPT !.frame = @ + 1] IN
    IF s.start = NotYet THEN IF value = "voice" THEN [s EXCEPT !.start = was.frame, !.quiet = 0] ELSE s
    ELSE IF value # "quiet" THEN [s EXCEPT !.quiet = 0]
    ELSE IF s.quiet + 1 <= Hangover THEN [s EXCEPT !.quiet = @ + 1]
    ELSE [s EXCEPT !.out = Cut([s EXCEPT !.quiet = @ + 1]), !.start = NotYet, !.quiet = 0]

SegmentsFrom(levels) ==
    LET heard[n \in 0 .. Len(levels)] ==
            IF n = 0 THEN [frame |-> 0, start |-> NotYet, quiet |-> 0, out |-> <<>>]
                     ELSE Frame(heard[n - 1], levels[n])
        ended == heard[Len(levels)]
    IN  IF ended.start = NotYet THEN ended.out ELSE Cut(ended)

Sum(seq, of(_)) == SumFunction([i \in DOMAIN seq |-> of(seq[i])])
Length(s)       == s.to - s.from
Spoken(segments) == Sum(segments, Length)
HeardEnough(spoken, length) == spoken * HeardPart >= length

(* Seeded fault: loud frames are counted, whatever stretch they are in.     *)
LiveHeardLoud(levels) == levels = <<>> \/ HeardEnough(Len(SelectSeq(levels, LAMBDA l : l = "voice")), Len(levels))

(* The warning during the round: the report's verdict, early.               *)
LiveHeard(levels) == levels = <<>> \/ HeardEnough(Spoken(SegmentsFrom(levels)), Len(levels))

-----------------------------------------------------------------------------
(* analysis.py: the timing of one round of a given length. A timeline that  *)
(* overruns its round is clipped to it.                                     *)

(* Of a sequence, what stands at the places `at`, in order.                 *)
Picked(seq, at) ==
    LET kept[n \in 0 .. Len(seq)] ==
            IF n = 0 THEN <<>> ELSE IF n \in at THEN Append(kept[n - 1], seq[n]) ELSE kept[n - 1]
    IN  kept[Len(seq)]

Clip(segments, length) ==
    LET Inside(s) == [from |-> Min({s.from, length}), to |-> Min({s.to, length})]
        inside    == [i \in DOMAIN segments |-> Inside(segments[i])]
    IN  Picked(inside, {i \in DOMAIN inside : inside[i].to > inside[i].from})

(* The gaps between stretches, and those long enough to be a pause.         *)
Gaps(spoken) ==
    [i \in 1 .. Len(spoken) - 1 |-> [at |-> spoken[i].to, seconds |-> spoken[i + 1].from - spoken[i].to]]

(* Seeded fault: a gap the hangover did not bridge is a pause only past it. *)
PausesLong(spoken) == Picked(Gaps(spoken), {i \in DOMAIN Gaps(spoken) : Gaps(spoken)[i].seconds > MinPause})

Pauses(spoken) == Picked(Gaps(spoken), {i \in DOMAIN Gaps(spoken) : Gaps(spoken)[i].seconds >= MinPause})

(* Less sound in the last fifth than three fifths of what came before: the  *)
(* tail's share of it over the body's share of the rest. Fifths of a tick.  *)
Within(spoken, a, b) ==
    Sum(spoken, LAMBDA s : Max({0, Min({5 * s.to, b}) - Max({5 * s.from, a})}))
Faded(spoken, length) ==
    LET body == Within(spoken, 0, 4 * length)
        tail == Within(spoken, 4 * length, 5 * length)
    IN  body # 0 /\ tail * 20 < body * 3

Unheard == [heard |-> FALSE, stall |-> 0, pauses |-> <<>>, longest |-> 0, awkward |-> 0,
            speaking |-> 0, faded |-> FALSE]

Timing(segments, length) ==
    LET spoken == Clip(segments, length)
        pauses == Pauses(spoken)
    IN  IF length = 0 \/ spoken = <<>> \/ ~HeardEnough(Spoken(spoken), length) THEN Unheard
        ELSE [heard    |-> TRUE,
              stall    |-> spoken[1].from,
              pauses   |-> pauses,
              longest  |-> Max({0} \cup {p.seconds : p \in ToSet(pauses)}),
              awkward  |-> Cardinality({i \in DOMAIN pauses : pauses[i].seconds >= Awkward}),
              speaking |-> Spoken(spoken),
              faded    |-> Faded(spoken, length)]

-----------------------------------------------------------------------------
(* report.ts: the minute as blocks, left to right.                          *)

Block(from, to, kind) ==
    IF to <= from THEN <<>>
    ELSE <<[from |-> from, to |-> to,
            kind |-> IF kind = "breath" /\ to - from >= Awkward THEN "gap" ELSE kind]>>

(* Where the voice stopped for good, worked out from the pauses.            *)
LastSound(report, length) ==
    Min({length, report.stall + Sum(report.pauses, LAMBDA p : p.seconds) + report.speaking})

Blocks(report, length) ==
    LET Past(s, p) == [cursor |-> p.at + p.seconds,
                       out |-> s.out \o Block(s.cursor, p.at, "talking") \o Block(p.at, p.at + p.seconds, "breath")]
        walked[n \in 0 .. Len(report.pauses)] ==
            IF n = 0 THEN [cursor |-> report.stall, out |-> Block(0, report.stall, "breath")]
                     ELSE Past(walked[n - 1], report.pauses[n])
        drawn == walked[Len(report.pauses)]
        end   == LastSound(report, length)
    IN  IF ~report.heard \/ length <= 0 THEN <<>>
        ELSE drawn.out \o Block(drawn.cursor, end, "talking") \o Block(end, length, "after")

(* Seeded fault: a stretch that starts after the end of the round is drawn. *)
MinuteBlocksOver(segments, length) ==
    LET Past(s, g) == [cursor |-> Min({g.to, length}),
                       out |-> s.out \o Block(s.cursor, g.from, "breath") \o Block(g.from, Min({g.to, length}), "talking")]
        drawn == FoldLeft(Past, [cursor |-> 0, out |-> <<>>], segments)
    IN  IF segments = <<>> \/ length <= 0 THEN <<>>
        ELSE drawn.out \o Block(drawn.cursor, length, "after")

(* The same bar from the stored timeline, for the first minute above the    *)
(* latest.                                                                  *)
MinuteBlocks(segments, length) ==
    LET Past(s, g) ==
            IF s.cursor >= length THEN s
            ELSE [cursor |-> Min({g.to, length}),
                  out |-> s.out \o Block(s.cursor, Min({g.from, length}), "breath")
                                \o Block(Min({g.from, length}), Min({g.to, length}), "talking")]
        walked[n \in 0 .. Len(segments)] ==
            IF n = 0 THEN [cursor |-> 0, out |-> <<>>] ELSE Past(walked[n - 1], segments[n])
        drawn == walked[Len(segments)]
    IN  IF segments = <<>> \/ length <= 0 THEN <<>>
        ELSE drawn.out \o Block(drawn.cursor, length, "after")

(* One of the two minutes of the progress page, to the scale of both.       *)
Wave(segments, scale) == MinuteBlocks(segments, scale)

(* Seeded fault: a stretch narrower than the pitch is skipped.              *)
StrokesWide(b) == {x \in 2 * b.from .. 2 * b.to : x < 2 * b.to /\ \E k \in 0..x : x = 2 * b.from + Pitch + 2 * k * Pitch}

(* The strokes of a stretch, in half ticks, Pitch ticks apart; a stretch    *)
(* narrower than that has one, in its middle.                               *)
Strokes(b) ==
    IF b.to - b.from < Pitch THEN {b.from + b.to}
    ELSE {x \in 2 * b.from .. 2 * b.to - 1 : \E k \in 0..x : x = 2 * b.from + Pitch + 2 * k * Pitch}

-----------------------------------------------------------------------------
(* The sentence under the bar and the bands under the sentence. ums is None *)
(* where nothing counted them.                                              *)

CONSTANTS None, Scale       \* null; the ends of each band's track, by its key

Headline(report, ums) ==
    IF ~report.heard THEN "unheard"
    ELSE IF report.stall >= LongStart THEN "start"
    ELSE IF report.longest >= LongGap THEN "gap"
    ELSE IF report.faded THEN "faded"
    ELSE IF ums # None /\ ums >= ManyUms THEN "ums"
    ELSE IF report.awkward > 0 THEN "gap"
    ELSE "steady"

(* Where a measure falls against its good range.                            *)
Band(key, value, good) == [key |-> key, value |-> value, scale |-> Scale[key], good |-> good]
Verdict(b) == IF b.value < b.good[1] THEN "low" ELSE IF b.value > b.good[2] THEN "high" ELSE "good"

StartBand(report) == Band("start", report.stall, <<0, GoodStart>>)

(* Seeded fault: a pause is long at the headline's edge only.               *)
GapBandLoose(report) == Band("gap", report.longest, <<0, LongGap>>)

GapBand(report) == Band("gap", report.longest, <<0, Awkward>>)
UmsBand(ums)    == Band("fillers", ums, <<0, ManyUms>>)
=============================================================================
