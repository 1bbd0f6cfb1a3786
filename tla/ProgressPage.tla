---------------------------- MODULE ProgressPage ----------------------------
(* The progress of a person as the streak page draws it: the points and     *)
(* firsts runs/progress.py returns, the three lines, the cards each plan is *)
(* shown, and the point of each round a model read                          *)
(* (components/streak/progress.tsx, case.tsx). Units are those of Progress. *)
EXTENDS Progress

CONSTANTS
    Enough, Smooth, SmoothFrom,   \* rounds to compare, to average, to average from
    Most, DotsUntil,              \* points drawn, and drawn with a dot each
    PointBy                       \* a point made at once

ASSUME ProgressPageAssumption ==
    /\ {Enough, Smooth, SmoothFrom, Most, DotsUntil} \subseteq Nat \ {0} /\ PointBy \in Nat

-----------------------------------------------------------------------------
(* progress.py: a trailing mean over the readings there are, once there     *)
(* are many of them.                                                        *)

Trail(n) == IF n >= SmoothFrom THEN Smooth ELSE 1

(* A round nothing transcribed counts as one without restarts here.         *)
Points(rounds) ==
    LET recent == LastOf(rounds, Most)
        Trailing(i) == SubSeq(recent, Max({1, i - Trail(Len(recent)) + 1}), i)
    IN  [i \in DOMAIN recent |->
            [silence  |-> Mean(Trailing(i), LAMBDA r : r.silence),
             restarts |-> Mean(Trailing(i), LAMBDA r : r.restarts),
             stall    |-> Mean(Trailing(i), LAMBDA r : r.stall)]]

(* Seeded fault: a round nothing transcribed is one without restarts.       *)
FirstMetUntimed(key, r) ==
    CASE key = "no_holes" -> r.gaps = 0
      [] key = "no_restarts" -> r.restarts = 0
      [] key = "clean_ending" -> r.ended = 1
      [] key = "full_minute" -> r.spoken >= r.setting
      [] key = "quick_start" -> r.stall <= 4
      [] key = "no_ums" -> r.ums = 0

(* Each by a round that could have failed it.                               *)
FirstMet(key, r) ==
    CASE key = "no_holes" -> r.gaps = 0
      [] key = "no_restarts" -> r.timed /\ r.restarts = 0
      [] key = "clean_ending" -> r.ended = 1
      [] key = "full_minute" -> r.spoken >= r.setting
      [] key = "quick_start" -> r.stall <= 4
      [] key = "no_ums" -> r.ums = 0

FIRSTS == {"no_holes", "no_restarts", "clean_ending", "full_minute", "quick_start", "no_ums"}

(* The round that met it first, 0 for not yet.                              *)
Firsts(rounds) ==
    [key \in FIRSTS |->
        LET met == {i \in DOMAIN rounds : FirstMet(key, rounds[i])} IN IF met = {} THEN 0 ELSE Min(met)]

-----------------------------------------------------------------------------
(* progress.tsx: a line over the window, lower the better.                  *)

LINES == {[key |-> "silence", good |-> 30], [key |-> "restarts", good |-> 1], [key |-> "stall", good |-> 4]}

Movement(points, key) ==
    IF Len(points) < 2 THEN <<>> ELSE <<points[1][key], points[Len(points)][key]>>

Above(mean, edge) == mean.sum > edge * mean.n

Trend(line, points) ==
    LET moved == Movement(points, line.key)
        drawn == IF Len(points) <= DotsUntil THEN DOMAIN points ELSE {Len(points)}
    IN  [word |-> IF moved = <<>> THEN "not counted yet"
                  ELSE IF Less(moved[2], moved[1]) THEN "better"
                  ELSE IF Less(moved[1], moved[2]) THEN "worse" ELSE "steady",
         dots |-> [i \in drawn |-> Above(points[i][line.key], line.good)]]

(* The value printed beside the worst round of the skill to work on.        *)
ValueOf(round, skill, word) ==
    CASE skill.key \in {"silence", "stall", "restarts"} -> round[skill.key]
      [] skill.key = "spoken" -> IF round.setting > 0 THEN (round.spoken * 120) \div round.setting ELSE 0
      [] skill.key = "habit" /\ word # Unmeasured -> 2 * round.leaned[word]
      [] OTHER -> 0

-----------------------------------------------------------------------------
(* The cards of the page, and what fills each for a plan.                   *)

ByPrep(rounds) ==
    LET none == SelectSeq(rounds, LAMBDA r : r.prep = 0)
        some == SelectSeq(rounds, LAMBDA r : r.prep > 0)
    IN  IF none = <<>> \/ some = <<>> THEN <<>>
        ELSE <<Mean(none, LAMBDA r : r.stall), Mean(some, LAMBDA r : r.stall)>>

ThenAndNowCard(rounds, pro) ==
    IF Len(rounds) < Six THEN "more rounds" ELSE IF ~pro THEN "pitch" ELSE "rows"

WorkOnCard(rounds) ==
    IF rounds = <<>> THEN "nothing" ELSE IF WorkOn(rounds) = <<>> THEN "none out" ELSE "skill"

FloorCard(rounds, pro) ==
    IF ~pro THEN "pitch" ELSE IF Len(rounds) < Six THEN "not yet"
    ELSE IF Floor(rounds).beats THEN "beats" ELSE "not moved"

(* One sample, the same for everybody, stands where nothing was read.       *)
CaseCard(rounds, pro) ==
    IF ~pro THEN "sample" ELSE IF ReadRounds(rounds) = <<>> THEN "nothing" ELSE "cards"

(* The sentence about time to think is under the table, or nowhere.         *)
GenresCard(rounds, slugs, pro) ==
    IF ~pro THEN <<"pitch">>
    ELSE IF ByGenre(rounds, slugs) = <<>> THEN <<"one genre">>
    ELSE IF ByPrep(rounds) = <<>> THEN <<"table">> ELSE <<"table", "prep">>

FirstsCard(rounds, pro) ==
    IF ~pro THEN {} ELSE {<<key, Firsts(rounds)[key]>> : key \in FIRSTS}

ProgressSection(rounds, slugs, pro) ==
    IF Len(rounds) < Enough THEN <<>>
    ELSE << [thenAndNow |-> ThenAndNowCard(rounds, pro), workOn |-> WorkOnCard(rounds),
             floor |-> FloorCard(rounds, pro), case |-> CaseCard(rounds, pro),
             trends |-> {Trend(line, Points(rounds)) : line \in LINES},
             genres |-> GenresCard(rounds, slugs, pro), firsts |-> FirstsCard(rounds, pro)] >>

-----------------------------------------------------------------------------
(* case.tsx: seconds to the point of the rounds that were read, a dot for   *)
(* each that made one; nothing under two.                                   *)

(* Seeded fault: a round that made no point is drawn as one at once.        *)
PointLineFilled(shown) ==
    IF shown = <<>> THEN <<>>
    ELSE [i \in DOMAIN shown |->
            LET at == IF shown[i].pointAt = Unmeasured THEN 0 ELSE shown[i].pointAt IN [at |-> at, warn |-> at > PointBy]]

PointLine(shown) ==
    LET known == SelectSeq(shown, LAMBDA r : r.pointAt # Unmeasured)
    IN  IF Len(known) < 2 THEN <<>>
        ELSE [i \in DOMAIN known |-> [at |-> known[i].pointAt, warn |-> known[i].pointAt > PointBy]]

(* The word over the line.                                                  *)
PointWord(shown) ==
    LET moved == PointMoved(shown) IN
    IF moved = <<>> THEN "not yet"
    ELSE IF moved[2] < moved[1] THEN "better" ELSE IF moved[2] > moved[1] THEN "worse" ELSE "steady"
=============================================================================
