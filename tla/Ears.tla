-------------------------------- MODULE Ears --------------------------------
(* The microphone of a round: the Listener of lib/round/voice.ts, as        *)
(* operators on its record. A take is one stretch of speaking; audio and    *)
(* levels are kept as the set of takes they came from, 0 for sound from     *)
(* outside any. A stop that has to wait is a job, named for its caller.     *)
(*                                                                          *)
(* `live` counts what the browser holds open, which the fields no longer    *)
(* pointing at it would not show. Loudness, containers and the audio graph  *)
(* are left out; a graph that cannot be built is a stream with no ticker.   *)
EXTENDS Naturals, FiniteSets

CONSTANTS None, Takes

Heard(audio, levels) == [audio |-> audio, levels |-> levels]

Shut ==
    [stream |-> FALSE, opening |-> FALSE, refused |-> FALSE, ticker |-> FALSE,
     recorder |-> None,        \* the take being recorded
     adrift |-> {},            \* recorders nobody points at, still running
     chunks |-> {}, levels |-> {},
     marked |-> FALSE, held |-> FALSE,
     jobs |-> {},              \* stops that have not finished
     live |-> [streams |-> 0, tickers |-> 0],
     heard |-> [t \in Takes |-> None]]

(* Seeded fault: every landing asks for the microphone again.               *)
StartAnew(e) == [e EXCEPT !.opening = TRUE, !.refused = FALSE]

(* start: idempotent while open or being asked for.                         *)
Start(e) ==
    IF e.stream \/ e.opening THEN e ELSE [e EXCEPT !.opening = TRUE, !.refused = FALSE]

(* Seeded fault: a recorder still running is taken for this take's.         *)
MarkReusing(e, take) ==
    LET zeroed == [e EXCEPT !.levels = {}, !.chunks = {}, !.marked = TRUE, !.held = FALSE]
    IN  IF ~e.stream \/ e.recorder # None THEN zeroed ELSE [zeroed EXCEPT !.recorder = take]

(* mark: the speaking begins. A recorder still running on the stream is     *)
(* dropped, not stopped.                                                    *)
Mark(e, take) ==
    LET zeroed == [e EXCEPT !.levels = {}, !.chunks = {}, !.marked = TRUE, !.held = FALSE]
    IN  IF ~e.stream THEN zeroed
        ELSE [zeroed EXCEPT !.recorder = take, !.adrift = @ \cup ({e.recorder} \ {None})]

(* Seeded fault: the guard on a round that is not listened to is missing.   *)
PauseUnmarked(e) == [e EXCEPT !.held = TRUE]

Pause(e) == IF e.marked THEN [e EXCEPT !.held = TRUE] ELSE e
Resume(e) == [e EXCEPT !.held = FALSE]

(* A frame of the ticker, sampled in this take or, as 0, outside any.       *)
Sample(e, take) == IF e.ticker /\ ~e.held THEN [e EXCEPT !.levels = @ \cup {take}] ELSE e

Waiting(e) == {j \in e.jobs : j.take = None}
Flushing(e) == {j \in e.jobs : j.take # None}

(* The end of a stop: the stream is closed, and with it every recorder      *)
(* adrift on it, whose data lands in the chunks just emptied, behind that   *)
(* of a recorder told to stop before.                                       *)
Closed(e, of, audio) ==
    [e EXCEPT
        !.stream = FALSE, !.marked = FALSE, !.held = FALSE,
        !.levels = {},
        !.chunks = IF Flushing(e) = {} THEN e.adrift ELSE {},
        !.adrift = IF Flushing(e) = {} THEN {} ELSE @,
        !.live.streams = IF e.stream THEN @ - 1 ELSE @,
        !.heard = [t \in Takes |-> IF t = of THEN Heard(audio, e.levels) ELSE @[t]]]

Silenced(e) ==
    [e EXCEPT !.ticker = FALSE, !.live.tickers = IF e.ticker THEN @ - 1 ELSE @, !.recorder = None]

(* Seeded fault: a stop does not wait for a microphone being asked for.     *)
StopAtOnce(e, by, of) ==
    IF e.recorder # None
    THEN [Silenced(e) EXCEPT !.jobs = @ \cup {[by |-> by, of |-> of, take |-> e.recorder, seen |-> FALSE]}]
    ELSE Closed(Silenced(e), of, e.chunks)

(* stop, called by `by`, for the run of take `of` or None: it waits         *)
(* for a microphone being asked for, then for the recorder's last chunk,    *)
(* then closes everything.                                                  *)
Stop(e, by, of) ==
    IF e.opening
    THEN [e EXCEPT !.jobs = @ \cup {[by |-> by, of |-> of, take |-> None, seen |-> FALSE]}]
    ELSE IF e.recorder # None
    THEN [Silenced(e) EXCEPT !.jobs = @ \cup {[by |-> by, of |-> of, take |-> e.recorder, seen |-> FALSE]}]
    ELSE Closed(Silenced(e), of, e.chunks)

(* Seeded fault: the chunks handed over are kept.                           *)
RecorderStoppedKeeping(e, job) ==
    [Closed([e EXCEPT !.jobs = @ \ {job}], job.of, e.chunks \cup {job.take})
        EXCEPT !.chunks = @ \cup e.chunks \cup {job.take}]

(* The recorder a stop was waiting for has handed over its last chunk.      *)
RecorderStopped(e, job) ==
    Closed([e EXCEPT !.jobs = @ \ {job}], job.of, e.chunks \cup {job.take})

(* The browser answers. Stops that were waiting run at once, so a stream    *)
(* that arrives to them is closed again in the same breath.                 *)
Opened(e, graph) ==
    [e EXCEPT !.opening = FALSE, !.stream = TRUE, !.ticker = graph \/ @,
              !.live.streams = @ + 1, !.live.tickers = IF graph THEN @ + 1 ELSE @]

Refused(e) == [e EXCEPT !.opening = FALSE, !.refused = TRUE]

(* Every stop that waited ends, each handing back what there was.           *)
Resolved(e) ==
    IF Waiting(e) = {} THEN e
    ELSE LET shut == Closed(Silenced(e), None, {})
         IN  [shut EXCEPT
                 !.jobs = @ \ Waiting(e),
                 !.heard = [t \in Takes |-> IF \E j \in Waiting(e) : j.of = t
                                            THEN Heard(e.chunks, e.levels) ELSE @[t]]]
=============================================================================
