------------------------------ MODULE ReadBack ------------------------------
(* The words of a round and what its page makes of them: what               *)
(* runs/analysis.py counts and places, what runs/reports.py returns of it   *)
(* to each plan, and what lib/report.ts, the done screen and the round's    *)
(* own page (round-detail.tsx) draw. A word is its bare letters, whether a  *)
(* full stop follows, and the transcriber's clock. Repeated phrases, the    *)
(* cloud and all wording are left out; ums a minute are in tenths.          *)
EXTENDS Minute

CONSTANTS
    Fillers, Crutches, NoLetters,   \* bare words that are counted; "2" has no letters
    CrutchesNamed, Alphabet,        \* how many crutches are named; where each sorts
    PerMinute, PaceStep,            \* ticks in a minute, and in a stretch of the curve
    RestartWithin, RestartApart,    \* how soon a restart comes, how far from the last
    RestartReach,                   \* how many words ahead one is looked for
    BesidePause,                    \* how near a silence a filler is beside it
    RunOn, GoodPace                 \* report.ts: the edges of the last two bands

ASSUME ReadBackAssumption ==
    /\ Fillers \cap Crutches = {} /\ NoLetters \notin Fillers \cup Crutches
    /\ Alphabet \in [Crutches -> Nat] /\ IsInjective(Alphabet)
    /\ {CrutchesNamed, PerMinute, PaceStep, RestartWithin, RestartReach, RunOn} \subseteq Nat \ {0}
    /\ {BesidePause, RestartApart} \subseteq Nat

IsFiller(w) == w.bare \in Fillers
IsSpoken(w) == w.bare # NoLetters /\ w.bare \notin Fillers

SpokenIn(words) == Len(SelectSeq(words, IsSpoken))

(* Python rounds a half to the even side, JavaScript up.                    *)
RoundEven(a, b) ==
    LET q == a \div b IN IF 2 * (a % b) > b \/ (2 * (a % b) = b /\ q % 2 = 1) THEN q + 1 ELSE q
RoundUp(a, b) == (2 * a + b) \div (2 * b)

-----------------------------------------------------------------------------
(* analysis.py: the counts.                                                 *)

WordsOf(words, speaking, clock) ==
    LET fillers == Len(SelectSeq(words, IsFiller)) IN
    IF \A i \in DOMAIN words : words[i].bare = NoLetters THEN None
    ELSE [count   |-> SpokenIn(words),
          pace    |-> IF clock > 0 THEN RoundEven(SpokenIn(words) * PerMinute, clock) ELSE 0,
          fillers |-> fillers,
          rate    |-> IF speaking > 0 THEN RoundEven(10 * fillers * PerMinute, speaking) ELSE 0]

(* Every word of a set that was said, with its count.                       *)
Counted(words, among) ==
    {[word |-> v, count |-> Len(SelectSeq(words, LAMBDA w : w.bare = v))] :
        v \in {w.bare : w \in ToSet(words)} \cap among}

(* The leaned-on words a report names: the first few by how often, then by  *)
(* the alphabet.                                                            *)
LeanedOnMost(words) ==
    LET said == Counted(words, Crutches)
        Before(a, b) == a.count > b.count \/ (a.count = b.count /\ Alphabet[a.word] < Alphabet[b.word])
    IN  {b.word : b \in {c \in said : Cardinality({a \in said : Before(a, c)}) < CrutchesNamed}}

Distinct(words, but) == Cardinality({w.bare : w \in ToSet(words)} \ (but \cup {NoLetters}))

(* Fillers near a silence, before it or after.                              *)
AtTransitions(words, pauses) ==
    Len(SelectSeq(words, LAMBDA w :
        IsFiller(w) /\ \E p \in ToSet(pauses) :
            w.start - (p.at + p.seconds) <= BesidePause /\ p.at - w.end <= BesidePause))

(* Words a minute in each stretch of the round, by when they start.         *)
PaceCurve(words, length) ==
    LET Stretch(k) ==
            LET from == (k - 1) * PaceStep
                to   == Min({length, k * PaceStep})
                said == Len(SelectSeq(words, LAMBDA w : IsSpoken(w) /\ from <= w.start /\ w.start < to))
            IN  [start |-> from, end |-> to, said |-> said, wpm |-> RoundEven(said * PerMinute, to - from)]
    IN  IF SpokenIn(words) = 0 \/ length <= 0 THEN <<>>
        ELSE [k \in 1 .. (length + PaceStep - 1) \div PaceStep |-> Stretch(k)]

-----------------------------------------------------------------------------
(* analysis.py: a pair of words begun again within a few seconds, fillers   *)
(* between the tries or not. A full stop between them makes it emphasis.    *)

Restarts(words) ==
    LET plain == SelectSeq([i \in DOMAIN words |-> i], LAMBDA i : IsSpoken(words[i]))
        Pair(p) == <<words[plain[p]].bare, words[plain[p + 1]].bare>>
        Again(p) == {q \in p + 2 .. Min({p + RestartReach, Len(plain) - 1}) :
                        /\ Pair(q) = Pair(p)
                        /\ words[plain[q]].start - words[plain[p]].start <= RestartWithin
                        /\ \A i \in plain[p] .. plain[q] - 1 : ~words[i].stops}
        Scan(s, p) ==
            LET at == words[plain[p]].start IN
            IF Again(p) = {} \/ at - s.last <= RestartApart THEN s
            ELSE [last |-> at,
                  out  |-> Append(s.out, [at |-> at, from |-> plain[p], to |-> plain[Min(Again(p)) + 1]])]
    IN  FoldLeft(Scan, [last |-> -RestartWithin, out |-> <<>>],
                 [p \in 1 .. Max({0, Len(plain) - 3}) |-> p]).out

(* The transcript by its full stops; one of fillers alone is none.          *)
SentencesOf(words) ==
    LET stops == {i \in DOMAIN words : words[i].stops \/ i = Len(words)}
        Piece(i) ==
            LET from == Max({0} \cup {j \in stops : j < i}) + 1
            IN  [from |-> from, to |-> i, words |-> SpokenIn(SubSeq(words, from, i))]
    IN  SelectSeq([k \in 1 .. Cardinality(stops) |-> Piece(SetToSortSeq(stops, <)[k])], LAMBDA s : s.words > 0)

(* Seeded fault: fillers are counted off the clock as words are.            *)
CountableAll(words, from, to) == to - from + 1

Countable(words, from, to) == SpokenIn(SubSeq(words, from, to))

(* When each sentence was said: words are taken off the clock until the     *)
(* countable ones match. None where they run out.                           *)
SentenceSpans(words, sentences) ==
    LET Take(s, one) ==
            LET enough == {j \in s.cursor + 1 .. Len(words) : Countable(words, s.cursor + 1, j) = one.words}
            IN  IF enough = {} THEN [cursor |-> Len(words), out |-> Append(s.out, None)]
                ELSE [cursor |-> Min(enough),
                      out    |-> Append(s.out, [start |-> words[s.cursor + 1].start, end |-> words[Min(enough)].end])]
    IN  FoldLeft(Take, [cursor |-> 0, out |-> <<>>], sentences).out

(* Seeded fault: no tolerance where the two clocks meet.                    *)
FollowsPast(pause, previous) == pause.at > previous

Follows(pause, previous) == pause.at >= previous

(* The transcript with the silences put back. One that begins inside the    *)
(* word before it, by the transcriber's clock, is dropped, and with it the  *)
(* others before the next word.                                             *)
SaidOf(words, pauses) ==
    LET Kind(w) == IF IsFiller(w) THEN "filler" ELSE IF w.bare \in Crutches THEN "crutch" ELSE "word"
        Place(s, w) ==
            LET due   == SelectSeq(s.left, LAMBDA p : p.at < w.start)
                shown == IF due # <<>> /\ Follows(due[1], s.previous) THEN due ELSE <<>>
            IN  [left |-> SelectSeq(s.left, LAMBDA p : p.at >= w.start), previous |-> w.end,
                 out  |-> s.out \o [i \in DOMAIN shown |-> [kind |-> "pause", at |-> shown[i].at, seconds |-> shown[i].seconds]]
                                \o <<[kind |-> Kind(w), at |-> w.start, seconds |-> w.end - w.start]>>]
    IN  FoldLeft(Place, [left |-> pauses, previous |-> 0, out |-> <<>>], words).out

-----------------------------------------------------------------------------
(* reports.py: what is returned of a heard round. Only a provider that      *)
(* keeps disfluencies says anything of fillers, and the words need not come *)
(* back with a clock.                                                       *)

Render(said, timing, length, provider, clocked) ==
    LET words  == IF provider = "none" THEN <<>> ELSE said
        timed  == IF clocked THEN words ELSE <<>>
        honest == provider = "assemblyai"
        clock  == timing.speaking + Sum(timing.pauses, LAMBDA p : p.seconds)
        of     == WordsOf(words, timing.speaking, clock)
        none   == of = None
        Honest(value) == IF ~honest THEN None ELSE value
        lines  == SentencesOf(words)
    IN  timing @@
        [words        |-> IF none THEN None ELSE of.count,
         pace         |-> IF none THEN None ELSE IF of.pace = 0 THEN None ELSE of.pace,
         fillers      |-> Honest(IF none THEN 0 ELSE of.fillers),
         rate         |-> Honest(IF none THEN 0 ELSE of.rate),
         transitions  |-> Honest(AtTransitions(timed, timing.pauses)),
         fillerWords  |-> IF honest THEN {w.bare : w \in ToSet(words)} \cap Fillers ELSE {},
         fillerTimes  |-> IF honest THEN SelectSeq(timed, IsFiller) ELSE <<>>,
         fillerCounts |-> IF honest THEN Counted(words, Fillers) ELSE {},
         crutchWords  |-> LeanedOnMost(words),
         leanedOn     |-> Counted(words, Crutches),
         transcript   |-> words,
         said         |-> SaidOf(timed, timing.pauses),
         restarts     |-> Restarts(timed),
         sentences    |-> lines,
         spans        |-> SentenceSpans(timed, lines),
         curve        |-> PaceCurve(timed, length),
         endedClean   |-> words # <<>> /\ words[Len(words)].stops]
=============================================================================
