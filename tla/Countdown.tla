----------------------------- MODULE Countdown ------------------------------
(* The round's one timer (lib/round/timer.ts) as operators on its record.   *)
(* Time is counted in half seconds, so that rounding to whole seconds can   *)
(* go wrong. `due` is endAt less the present moment, which may be past;     *)
(* `left` is what the last loop read off it.                                *)
EXTENDS Integers

CONSTANT Late      \* bound: half seconds a loop may come late

Stopped == [running |-> FALSE, paused |-> FALSE, total |-> 0, left |-> 0, due |-> 0, done |-> "nothing"]

(* start, from half seconds; `done` names the callback.                     *)
Started(halves, done) ==
    [running |-> TRUE, paused |-> FALSE, total |-> halves, left |-> halves, due |-> halves, done |-> done]

(* A half second passes. What a paused timer is owed does not depend on     *)
(* it: resume sets the end from `left`.                                     *)
MayPass(clock) == clock.running /\ ~clock.paused /\ clock.due > -Late
Passed(clock) == [clock EXCEPT !.due = @ - 1]

(* The interval's loop, which does nothing while paused.                    *)
MayLoop(clock) == clock.running /\ ~clock.paused

(* Seeded fault: a late loop reads a time already gone.                     *)
LoopedPast(clock) == [clock EXCEPT !.left = clock.due]

Looped(clock) == [clock EXCEPT !.left = IF clock.due > 0 THEN clock.due ELSE 0]
IsOver(clock) == clock.left = 0

Paused(clock) == [clock EXCEPT !.paused = TRUE]

(* Seeded fault: the end is not moved by what was left.                     *)
ResumedInPlace(clock) == [clock EXCEPT !.paused = FALSE, !.due = @ - 2]

Resumed(clock) == [clock EXCEPT !.paused = FALSE, !.due = clock.left]

(* Math.round of the seconds gone, by the last loop.                        *)
ElapsedSeconds(clock) == (clock.total - clock.left + 1) \div 2
=============================================================================
