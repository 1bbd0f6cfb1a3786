------------------------------ MODULE Progress ------------------------------
(* What the streak page says of a person's rounds, oldest first: then and   *)
(* now, work on next, the floor, the genres, what was answered and the      *)
(* heatmap (lib/progress.ts, lib/case.ts, lib/practice.ts). Values and      *)
(* edges are in halves of the code's unit, means are kept as a sum and a    *)
(* count.                                                                   *)
EXTENDS Integers, Sequences, SequencesExt, FiniteSetsExt

CONSTANTS
    Six, CompareMost,       \* fewest rounds compared, most on each side
    Recent, FloorMost,      \* how far back work-on-next and the floor read
    LastTen,                \* the squares of rounds a model read
    Words,                  \* the words one may lean on, in alphabetical order
    Unmeasured              \* null

ASSUME ProgressAssumption ==
    /\ Six \in Nat /\ Six >= 2
    /\ {CompareMost, Recent, FloorMost, LastTen} \subseteq Nat \ {0}
    /\ IsInjective(Words)

Skill(key, up, rate, good, scale, advised) ==
    [key |-> key, up |-> up, rate |-> rate, good |-> good, scale |-> scale, advised |-> advised]

Anywhere == <<-1, 1000>>

SKILLS == <<
    Skill("silence",  FALSE, FALSE, <<0, 30>>,    <<0, 80>>,   TRUE),
    Skill("stall",    FALSE, FALSE, <<0, 4>>,     <<0, 16>>,   TRUE),
    Skill("restarts", FALSE, FALSE, <<0, 1>>,     <<0, 8>>,    TRUE),
    Skill("spoken",   TRUE,  FALSE, <<110, 120>>, <<60, 120>>, TRUE),
    Skill("ended",    FALSE, TRUE,  Anywhere,     Anywhere,    FALSE),
    Skill("habit",    FALSE, FALSE, <<0, 6>>,     <<0, 24>>,   TRUE),
    Skill("distinct", TRUE,  FALSE, <<160, 280>>, <<80, 280>>, FALSE) >>

-----------------------------------------------------------------------------
(* The values of a round, and the word a person leans on.                   *)

Total(seq, of(_)) == FoldLeft(LAMBDA sum, x : sum + of(x), 0, seq)

(* Most said over the window, ties to the first in the alphabet.            *)
MostSaid(rounds) ==
    LET Said(w) == Total(rounds, LAMBDA r : r.leaned[w])
        used    == {i \in DOMAIN Words : Said(Words[i]) > 0}
    IN  IF used = {} THEN Unmeasured
        ELSE Words[CHOOSE i \in used : \A j \in used : Said(Words[i]) > Said(Words[j]) \/ (Said(Words[i]) = Said(Words[j]) /\ i <= j)]

LastOf(rounds, k)  == SubSeq(rounds, Max({1, Len(rounds) - k + 1}), Len(rounds))
FirstOf(rounds, k) == SubSeq(rounds, 1, Min({k, Len(rounds)}))

(* Seeded fault: the word of the last few rounds is the one tracked.        *)
HabitWordLately(rounds) == MostSaid(LastOf(rounds, 1))

HabitWord(rounds) == MostSaid(rounds)

(* Unmeasured where the round could not be: nought always means nought.     *)
Value(r, skill, word) ==
    CASE skill.key = "restarts" -> IF r.timed THEN r.restarts ELSE Unmeasured
      [] skill.key = "spoken"   -> IF r.setting > 0 THEN (r.spoken * 120) \div r.setting ELSE Unmeasured
      [] skill.key = "habit"    -> IF r.distinct = Unmeasured \/ word = Unmeasured THEN Unmeasured ELSE 2 * r.leaned[word]
      [] OTHER -> r[skill.key]

Measurable(rounds, skill, word) == SelectSeq(rounds, LAMBDA r : Value(r, skill, word) # Unmeasured)

Mean(values, of(_)) == [sum |-> Total(values, of), n |-> Len(values)]

(* Seeded fault: sums are compared, of groups of any size.                  *)
LessBySum(a, b) == a.sum < b.sum

Less(a, b) == a.sum * b.n < b.sum * a.n

Inside(skill, mean) == skill.good[1] * mean.n <= mean.sum /\ mean.sum <= skill.good[2] * mean.n

(* 100 anywhere inside, nothing at the end of the scale, rounded.           *)
FitOf(skill, mean) ==
    LET over == mean.sum > skill.good[2] * mean.n
        room == mean.n * (IF over THEN skill.scale[2] - skill.good[2] ELSE skill.good[1] - skill.scale[1])
        out  == IF over THEN mean.sum - skill.good[2] * mean.n ELSE skill.good[1] * mean.n - mean.sum
    IN  IF Inside(skill, mean) THEN 100
        ELSE IF room <= 0 THEN 0
        ELSE Max({0, (200 * (room - out) + room) \div (2 * room)})

-----------------------------------------------------------------------------
(* Your first rounds against your last, a row for each skill both sides     *)
(* could be measured on.                                                    *)

Compared(rounds, k, skill) ==
    LET word == HabitWord(rounds)
        Side(part) == LET m == Measurable(part, skill, word)
                      IN  Mean(m, LAMBDA r : Value(r, skill, word))
    IN  [skill |-> skill, then |-> Side(FirstOf(rounds, k)), now |-> Side(LastOf(rounds, k)), k |-> k]

(* Seeded fault: three against three from the fourth round on.              *)
EachSideFull(rounds, most) == most

EachSide(rounds, most) == Min({most, Len(rounds) \div 2})

ThenAndNow(rounds) ==
    LET k    == EachSide(rounds, CompareMost)
        rows == [i \in DOMAIN SKILLS |-> Compared(rounds, k, SKILLS[i])]
    IN  IF Len(rounds) < Six THEN <<>>
        ELSE SelectSeq(rows, LAMBDA row : row.then.n > 0 /\ row.now.n > 0)

(* The row of a rate skill counts the rounds that managed it, out of as     *)
(* many as both sides measured.                                             *)
SaidOutOf(row) == [managed |-> row.now.sum, of |-> Min({row.then.n, row.now.n})]

-----------------------------------------------------------------------------
(* The skill furthest from comfortable over the last few rounds, and the    *)
(* round that shows it worst.                                               *)

(* Seeded fault: the highest value is the worst, whichever way is up.       *)
WorstHighest(rounds, skill, word) ==
    FoldLeft(LAMBDA a, b : IF Value(b, skill, word) > Value(a, skill, word) THEN b ELSE a, rounds[1], rounds)

Worst(rounds, skill, word) ==
    LET Worse(b, a) == IF skill.up THEN Value(b, skill, word) < Value(a, skill, word)
                       ELSE Value(b, skill, word) > Value(a, skill, word)
    IN  FoldLeft(LAMBDA a, b : IF Worse(b, a) THEN b ELSE a, rounds[1], rounds)

(* <<>> before the first round and where every mean rounds to comfortable,  *)
(* which the page prints as nothing out of range.                           *)
WorkOn(rounds) ==
    LET recent == LastOf(rounds, Recent)
        word   == HabitWord(rounds)
        Seen(i) == Measurable(recent, SKILLS[i], word)
        Fit(i)  == FitOf(SKILLS[i], Mean(Seen(i), LAMBDA r : Value(r, SKILLS[i], word)))
        candidates == {i \in DOMAIN SKILLS : SKILLS[i].advised /\ Seen(i) # <<>>}
        pick == CHOOSE i \in candidates : \A j \in candidates : Fit(i) < Fit(j) \/ (Fit(i) = Fit(j) /\ i <= j)
        named == SKILLS[pick]
    IN  IF candidates = {} \/ Fit(pick) = 100 THEN <<>>
        ELSE <<[skill |-> named, word |-> word, looked |-> Seen(pick),
                worst |-> Worst(Seen(pick), named, word),
                out   |-> SelectSeq(Seen(pick), LAMBDA r : ~Inside(named, [sum |-> Value(r, named, word), n |-> 1]))]>>

-----------------------------------------------------------------------------
(* The worst recent round against the first rounds' average.                *)

(* Seeded fault: the best recent round is held against the average.         *)
WorstSilenceBest(part) == Min({r.silence : r \in ToSet(part)})

WorstSilence(part) == Max({r.silence : r \in ToSet(part)})

Floor(rounds) ==
    LET k        == EachSide(rounds, FloorMost)
        worstNow == WorstSilence(LastOf(rounds, k))
        avgThen  == Mean(FirstOf(rounds, k), LAMBDA r : r.silence)
    IN  [k |-> k, worstNow |-> worstNow, avgThen |-> avgThen, beats |-> worstNow * avgThen.n < avgThen.sum]

(* By genre, the hardest first; <<>> for one genre, which is no comparison. *)
(* Names break ties, so the rows are given in the order of their names.     *)
ByGenre(rounds, slugs) ==
    LET Row(slug) == LET group == SelectSeq(rounds, LAMBDA r : r.genre = slug)
                     IN  [slug |-> slug, rounds |-> Len(group), silence |-> Mean(group, LAMBDA r : r.silence)]
        used == SelectSeq(slugs, LAMBDA slug : Row(slug).rounds > 0)
        rows == [i \in DOMAIN used |-> Row(used[i])]
        Place(i) == 1 + Cardinality({j \in DOMAIN rows : Less(rows[i].silence, rows[j].silence) \/ (~Less(rows[j].silence, rows[i].silence) /\ j < i)})
    IN  IF Len(used) < 2 THEN <<>>
        ELSE [place \in DOMAIN rows |-> rows[CHOOSE i \in DOMAIN rows : Place(i) = place]]

-----------------------------------------------------------------------------
(* case.ts: the rounds a model read, and one round's sentences.             *)

IsRead(r) == r.answered # Unmeasured

(* Seeded fault: the window is cut before the unread rounds are left out.   *)
ReadRoundsCutFirst(rounds) == SelectSeq(LastOf(rounds, LastTen), IsRead)

ReadRounds(rounds) == LastOf(SelectSeq(rounds, IsRead), LastTen)

AnsweredCount(rounds) == Len(SelectSeq(rounds, LAMBDA r : r.answered = "yes"))

(* The first and the latest time to the point, <<>> under two.              *)
PointMoved(rounds) ==
    LET made == SelectSeq(rounds, LAMBDA r : r.pointAt # Unmeasured)
    IN  IF Len(made) < 2 THEN <<>> ELSE <<made[1].pointAt, made[Len(made)].pointAt>>

(* A sentence the word clock could not place is left out.                   *)
CaseBlocks(sentences) ==
    SelectSeq(sentences, LAMBDA s : s.at # Unmeasured /\ s.end # Unmeasured /\ s.end > s.at)

IsPoint(s) == s.role = "point"

PointAt(sentences) ==
    LET points == SelectSeq(sentences, IsPoint)
    IN  IF points = <<>> THEN Unmeasured ELSE points[1].at

(* Seeded fault: a point nothing timed is a point nobody made.              *)
HasPointTimed(sentences) == PointAt(sentences) # Unmeasured

HasPoint(sentences) == \E i \in DOMAIN sentences : IsPoint(sentences[i])

RolesUsed(sentences) == {s.role : s \in ToSet(sentences)}

(* What stands over the blocks of a round.                                  *)
Flag(sentences) ==
    IF CaseBlocks(sentences) = <<>> THEN "nothing"
    ELSE IF PointAt(sentences) # Unmeasured THEN "point"
    ELSE IF HasPoint(sentences) THEN "nothing" ELSE "no clear point"

-----------------------------------------------------------------------------
(* practice.ts and streak-page.tsx: days are numbered, day 0 is a Monday    *)
(* and the first of a month, and months have MonthLength days.              *)

CONSTANT MonthLength

WeekdayRow(day) == (day % 7) + 1

(* Seeded fault: the part week at the start is not counted.                 *)
ColumnFlush(first, n) == n \div 7 + 1

Column(first, n) == (WeekdayRow(first) - 1 + n) \div 7 + 1

(* The squares flow down from the first one's weekday and across.           *)
HeatmapLayout(first, length) ==
    LET columns == Column(first, length - 1)
        Opens(n) == (first + n) % MonthLength = 0 /\ Column(first, n) < columns
    IN  [firstRow |-> WeekdayRow(first), columns |-> columns,
         months |-> {[day |-> first + n, column |-> Column(first, n)] : n \in {m \in 0 .. length - 1 : Opens(m)}}]

(* Which of the three drawings a window gets.                               *)
Drawing(window) == IF window <= 7 THEN "strip" ELSE IF window <= 64 THEN "row" ELSE "heatmap"
=============================================================================
