-------------------------- MODULE ListeningProofs --------------------------
(* The round listened to at home, for any number of takes. The first half   *)
(* says what each operation of the listener (Ears) does to it; the second   *)
(* follows each step of the page through an inductive invariant.            *)
EXTENDS Listening, Integers, FiniteSetTheorems, TLAPS

(* What is handed over for a take, and a stop that has not finished.        *)
Sheet == [audio : SUBSET Takes, levels : SUBSET (Takes \cup {0})]
Job == [by : {"record", "idle", "again", "turn on", "unmount"}, of : Takes \cup {None},
        take : Takes \cup {None}, seen : BOOLEAN]

(* The shape of the page's one Listener.                                    *)
Ear ==
    [stream : BOOLEAN, opening : BOOLEAN, refused : BOOLEAN, ticker : BOOLEAN,
     recorder : Takes \cup {None}, adrift : SUBSET Takes, chunks : SUBSET Takes,
     levels : SUBSET (Takes \cup {0}), marked : BOOLEAN, held : BOOLEAN, jobs : SUBSET Job,
     live : [streams : Int, tickers : Int], heard : [Takes -> Sheet \cup {None}]]

(* What one listener keeps to whatever the page around it does: a           *)
(* microphone being asked for is not open, only an open and marked one      *)
(* records, a stop in the middle of its flush is the only one, and what     *)
(* the browser holds open is what the fields still point at.                *)
Sound(e) ==
    /\ e.opening => ~e.stream /\ ~e.refused
    /\ e.ticker => e.stream
    /\ ~e.stream => e.levels = {}
    /\ e.recorder # None => e.stream /\ e.marked /\ Flushing(e) = {}
    /\ e.held => e.marked
    /\ e.live.streams = IF e.stream THEN 1 ELSE 0
    /\ e.live.tickers = IF e.ticker THEN 1 ELSE 0
    /\ e.adrift # {} => e.stream \/ Flushing(e) # {}
    /\ Waiting(e) # {} => e.opening
    /\ Flushing(e) # {} => ~e.opening /\ ~e.ticker
    /\ \A i, j \in Flushing(e) : i = j
    /\ \A j \in e.jobs : j.by = "again" => j.take # None
    /\ \A j \in e.jobs : j.of # None => j.by = "record"

(* start, on a listener that is shut.                                       *)
LEMMA StartGives ==
    ASSUME NEW e \in Ear, ~e.stream, ~e.opening
    PROVE  LET f == Start(e) IN
           /\ f \in Ear
           /\ f.opening /\ ~f.refused
           /\ f.stream = e.stream /\ f.ticker = e.ticker /\ f.recorder = e.recorder
           /\ f.adrift = e.adrift /\ f.chunks = e.chunks /\ f.levels = e.levels
           /\ f.marked = e.marked /\ f.held = e.held /\ f.jobs = e.jobs /\ f.live = e.live
           /\ f.heard = e.heard
  BY DEF Start, Ear

(* start, on one that is open or being asked for.                           *)
LEMMA StartIdle ==
    ASSUME NEW e, e.stream \/ e.opening PROVE Start(e) = e
  BY DEF Start

(* start keeps the listener sound.                                          *)
LEMMA StartSound ==
    ASSUME NEW e \in Ear, Sound(e), e.stream \/ Flushing(e) = {}
    PROVE  Start(e) \in Ear /\ Sound(Start(e))
<1>1. CASE e.stream \/ e.opening
  BY <1>1, StartIdle
<1>2. CASE ~e.stream /\ ~e.opening
  <2> DEFINE f == Start(e)
  <2>1. /\ f \in Ear
        /\ f.opening /\ ~f.refused
        /\ f.stream = e.stream /\ f.ticker = e.ticker /\ f.recorder = e.recorder
        /\ f.adrift = e.adrift /\ f.chunks = e.chunks /\ f.levels = e.levels
        /\ f.marked = e.marked /\ f.held = e.held /\ f.jobs = e.jobs /\ f.live = e.live
        /\ f.heard = e.heard
    BY <1>2, StartGives
  <2>2. Flushing(f) = Flushing(e) /\ Waiting(f) = Waiting(e)
    BY <2>1 DEF Flushing, Waiting
  <2> HIDE DEF f
  <2>3. Sound(f)
    BY <1>2, <2>1, <2>2 DEF Sound
  <2> QED BY <2>1, <2>3 DEF f
<1> QED BY <1>1, <1>2

(* The end of a stop, field by field.                                       *)
LEMMA ClosedGives ==
    ASSUME NEW e \in Ear, NEW of \in Takes \cup {None}, NEW audio \in SUBSET Takes
    PROVE  LET f == Closed(e, of, audio) IN
           /\ f \in Ear
           /\ ~f.stream /\ ~f.marked /\ ~f.held /\ f.levels = {}
           /\ f.chunks = IF Flushing(e) = {} THEN e.adrift ELSE {}
           /\ f.adrift = IF Flushing(e) = {} THEN {} ELSE e.adrift
           /\ f.live.streams = IF e.stream THEN e.live.streams - 1 ELSE e.live.streams
           /\ f.live.tickers = e.live.tickers
           /\ f.heard = [t \in Takes |-> IF t = of THEN Heard(audio, e.levels) ELSE e.heard[t]]
           /\ f.opening = e.opening /\ f.refused = e.refused /\ f.ticker = e.ticker
           /\ f.recorder = e.recorder
           /\ f.jobs = e.jobs
<1> DEFINE f == Closed(e, of, audio)
<1>1. f.stream = FALSE /\ f.marked = FALSE /\ f.held = FALSE /\ f.levels = {}
  BY DEF Closed, Ear
<1>2. f.opening = e.opening /\ f.refused = e.refused /\ f.ticker = e.ticker /\ f.recorder = e.recorder /\ f.jobs = e.jobs
  BY DEF Closed, Ear
<1>3. f.chunks = (IF Flushing(e) = {} THEN e.adrift ELSE {}) /\ f.adrift = (IF Flushing(e) = {} THEN {} ELSE e.adrift)
  BY DEF Closed, Ear
<1>4. f.heard = [t \in Takes |-> IF t = of THEN Heard(audio, e.levels) ELSE e.heard[t]]
  BY DEF Closed, Ear
<1>5. f.live = [e.live EXCEPT !.streams = IF e.stream THEN e.live.streams - 1 ELSE e.live.streams]
  BY DEF Closed, Ear
<1>6. f.live \in [streams : Int, tickers : Int] /\ f.live.tickers = e.live.tickers /\ f.live.streams = (IF e.stream THEN e.live.streams - 1 ELSE e.live.streams)
  BY <1>5 DEF Ear
<1>7. f.heard \in [Takes -> Sheet \cup {None}]
  BY <1>4 DEF Heard, Sheet, Ear
<1>8. f \in Ear
  <2>2. f = [e EXCEPT !.stream = FALSE, !.marked = FALSE, !.held = FALSE, !.levels = {},
                      !.chunks = f.chunks, !.adrift = f.adrift, !.live = f.live, !.heard = f.heard]
     BY DEF Closed, Ear
  <2>a. e.adrift \in SUBSET Takes BY DEF Ear
  <2> HIDE DEF f
  <2>3. f.chunks \in SUBSET Takes /\ f.adrift \in SUBSET Takes
     <3>1. CASE Flushing(e) = {} BY <3>1, <2>a, <1>3
     <3>2. CASE Flushing(e) # {} BY <3>2, <2>a, <1>3
     <3> QED BY <3>1, <3>2
  <2>4. [e EXCEPT !.stream = FALSE, !.marked = FALSE, !.held = FALSE, !.levels = {},
                  !.chunks = f.chunks, !.adrift = f.adrift, !.live = f.live, !.heard = f.heard] \in Ear
     BY <2>3, <1>6, <1>7 DEF Ear
  <2> QED BY ONLY <2>2, <2>4
<1> QED BY <1>1, <1>2, <1>3, <1>4, <1>6, <1>8

(* mark, field by field.                                                    *)
LEMMA MarkGives ==
    ASSUME NEW e \in Ear, NEW t \in Takes
    PROVE  LET f == Mark(e, t) IN
           /\ f \in Ear
           /\ f.levels = {} /\ f.chunks = {} /\ f.marked /\ ~f.held
           /\ e.stream => f.recorder = t /\ f.adrift = e.adrift \cup ({e.recorder} \ {None})
           /\ ~e.stream => f.recorder = e.recorder /\ f.adrift = e.adrift
           /\ f.stream = e.stream /\ f.opening = e.opening /\ f.refused = e.refused
           /\ f.ticker = e.ticker /\ f.jobs = e.jobs /\ f.live = e.live
           /\ f.heard = e.heard
<1> DEFINE z == [e EXCEPT !.levels = {}, !.chunks = {}, !.marked = TRUE, !.held = FALSE]
<1>1. CASE ~e.stream
  <2>1. Mark(e, t) = z
    BY <1>1 DEF Mark
  <2> QED BY <1>1, <2>1 DEF Ear
<1>2. CASE e.stream
  <2>1. Mark(e, t) = [z EXCEPT !.recorder = t, !.adrift = e.adrift \cup ({e.recorder} \ {None})]
    BY <1>2 DEF Mark, Ear
  <2> DEFINE a == e.adrift \cup ({e.recorder} \ {None})
  <2>2. a \in SUBSET Takes
    BY DEF Ear
  <2>3. Mark(e, t) = [z EXCEPT !.recorder = t, !.adrift = a]
    BY <2>1
  <2> HIDE DEF a
  <2>4. LET f == Mark(e, t) IN
        /\ f \in Ear
        /\ f.levels = {} /\ f.chunks = {} /\ f.marked /\ ~f.held
        /\ f.recorder = t /\ f.adrift = a
        /\ f.stream = e.stream /\ f.opening = e.opening /\ f.refused = e.refused
        /\ f.ticker = e.ticker
        /\ f.jobs = e.jobs /\ f.live = e.live /\ f.heard = e.heard
    BY <2>2, <2>3 DEF Ear
  <2> QED BY <1>2, <2>4 DEF a
<1> QED BY <1>1, <1>2

(* mark keeps the listener sound, when no stop is flushing.                 *)
LEMMA MarkSound ==
    ASSUME NEW e \in Ear, Sound(e), NEW t \in Takes, Flushing(e) = {}
    PROVE  Mark(e, t) \in Ear /\ Sound(Mark(e, t))
<1> DEFINE f == Mark(e, t)
<1>1. /\ f \in Ear
      /\ f.levels = {} /\ f.chunks = {} /\ f.marked /\ ~f.held
      /\ e.stream => f.recorder = t /\ f.adrift = e.adrift \cup ({e.recorder} \ {None})
      /\ ~e.stream => f.recorder = e.recorder /\ f.adrift = e.adrift
      /\ f.stream = e.stream /\ f.opening = e.opening /\ f.refused = e.refused
      /\ f.ticker = e.ticker /\ f.jobs = e.jobs /\ f.live = e.live /\ f.heard = e.heard
  BY MarkGives
<1>2. Flushing(f) = Flushing(e) /\ Waiting(f) = Waiting(e)
  BY <1>1 DEF Flushing, Waiting
<1> HIDE DEF f
<1>3. Sound(f)
  BY <1>1, <1>2 DEF Sound
<1> QED BY <1>1, <1>3 DEF f

(* pause and resume, field by field.                                        *)
LEMMA PauseGives ==
    ASSUME NEW e \in Ear, NEW f \in {Pause(e), Resume(e)}
    PROVE  /\ f \in Ear
           /\ f = Pause(e) => (f.held <=> (e.held \/ e.marked))
           /\ f = Resume(e) => ~f.held
           /\ f.stream = e.stream /\ f.opening = e.opening /\ f.refused = e.refused
           /\ f.ticker = e.ticker /\ f.recorder = e.recorder /\ f.adrift = e.adrift
           /\ f.chunks = e.chunks /\ f.levels = e.levels /\ f.marked = e.marked
           /\ f.jobs = e.jobs /\ f.live = e.live /\ f.heard = e.heard
  BY DEF Pause, Resume, Ear

(* pause and resume keep the listener sound.                                *)
LEMMA PauseSound ==
    ASSUME NEW e \in Ear, Sound(e), NEW f \in {Pause(e), Resume(e)}
    PROVE  f \in Ear /\ Sound(f)
<1>1. /\ f \in Ear
      /\ f.held => e.held \/ e.marked
      /\ f.stream = e.stream /\ f.opening = e.opening /\ f.refused = e.refused
      /\ f.ticker = e.ticker /\ f.recorder = e.recorder /\ f.adrift = e.adrift
      /\ f.chunks = e.chunks /\ f.levels = e.levels /\ f.marked = e.marked
      /\ f.jobs = e.jobs /\ f.live = e.live /\ f.heard = e.heard
  BY PauseGives
<1>2. Flushing(f) = Flushing(e) /\ Waiting(f) = Waiting(e)
  BY <1>1 DEF Flushing, Waiting
<1>3. Sound(f)
  BY <1>1, <1>2 DEF Sound
<1> QED BY <1>1, <1>3

(* A frame of the ticker, field by field.                                   *)
LEMMA SampleGives ==
    ASSUME NEW e \in Ear, NEW t \in Takes \cup {0}
    PROVE  LET f == Sample(e, t) IN
           /\ f \in Ear
           /\ f.levels = IF e.ticker /\ ~e.held THEN e.levels \cup {t} ELSE e.levels
           /\ f.stream = e.stream /\ f.opening = e.opening /\ f.refused = e.refused
           /\ f.ticker = e.ticker /\ f.recorder = e.recorder /\ f.adrift = e.adrift
           /\ f.chunks = e.chunks /\ f.marked = e.marked /\ f.held = e.held
           /\ f.jobs = e.jobs /\ f.live = e.live /\ f.heard = e.heard
  BY DEF Sample, Ear

(* A frame keeps the listener sound.                                        *)
LEMMA SampleSound ==
    ASSUME NEW e \in Ear, Sound(e), NEW t \in Takes \cup {0}
    PROVE  Sample(e, t) \in Ear /\ Sound(Sample(e, t))
<1> DEFINE f == Sample(e, t)
<1>1. /\ f \in Ear
      /\ f.levels = IF e.ticker /\ ~e.held THEN e.levels \cup {t} ELSE e.levels
      /\ f.stream = e.stream /\ f.opening = e.opening /\ f.refused = e.refused
      /\ f.ticker = e.ticker /\ f.recorder = e.recorder /\ f.adrift = e.adrift
      /\ f.chunks = e.chunks /\ f.marked = e.marked /\ f.held = e.held /\ f.jobs = e.jobs
      /\ f.live = e.live /\ f.heard = e.heard
  BY SampleGives
<1>2. Flushing(f) = Flushing(e) /\ Waiting(f) = Waiting(e)
  BY <1>1 DEF Flushing, Waiting
<1> HIDE DEF f
<1>3. Sound(f)
  BY <1>1, <1>2 DEF Sound
<1> QED BY <1>1, <1>3 DEF f

(* The ticker and the recorder are let go of.                               *)
LEMMA SilencedGives ==
    ASSUME NEW e \in Ear
    PROVE  LET f == Silenced(e) IN
           /\ f \in Ear
           /\ ~f.ticker /\ f.recorder = None
           /\ f.live.streams = e.live.streams
           /\ f.live.tickers = IF e.ticker THEN e.live.tickers - 1 ELSE e.live.tickers
           /\ f.stream = e.stream /\ f.opening = e.opening /\ f.refused = e.refused
           /\ f.adrift = e.adrift /\ f.chunks = e.chunks /\ f.levels = e.levels
           /\ f.marked = e.marked /\ f.held = e.held /\ f.jobs = e.jobs
           /\ f.heard = e.heard
<1> DEFINE f == Silenced(e)
<1>1. /\ f.ticker = FALSE /\ f.recorder = None
      /\ f.stream = e.stream /\ f.opening = e.opening /\ f.refused = e.refused
      /\ f.adrift = e.adrift
      /\ f.chunks = e.chunks /\ f.levels = e.levels /\ f.marked = e.marked /\ f.held = e.held
      /\ f.jobs = e.jobs /\ f.heard = e.heard
  BY DEF Silenced, Ear
<1>2. f.live = [e.live EXCEPT !.tickers = IF e.ticker THEN e.live.tickers - 1 ELSE e.live.tickers]
  BY DEF Silenced, Ear
<1>3. /\ f.live \in [streams : Int, tickers : Int] /\ f.live.streams = e.live.streams
      /\ f.live.tickers = IF e.ticker THEN e.live.tickers - 1 ELSE e.live.tickers
  BY <1>2 DEF Ear
<1>4. f = [e EXCEPT !.ticker = FALSE, !.recorder = None, !.live = f.live]
  BY DEF Silenced, Ear
<1> HIDE DEF f
<1>5. [e EXCEPT !.ticker = FALSE, !.recorder = None, !.live = f.live] \in Ear
  BY <1>3 DEF Ear
<1>6. f \in Ear
  BY ONLY <1>4, <1>5
<1> QED BY <1>1, <1>3, <1>6 DEF f

(* A granted microphone, with a graph or without one.                       *)
LEMMA OpenedGives ==
    ASSUME NEW e \in Ear, NEW graph \in BOOLEAN
    PROVE  LET f == Opened(e, graph) IN
           /\ f \in Ear
           /\ ~f.opening /\ f.stream /\ (f.ticker <=> (graph \/ e.ticker))
           /\ f.live.streams = e.live.streams + 1
           /\ f.live.tickers = IF graph THEN e.live.tickers + 1 ELSE e.live.tickers
           /\ f.refused = e.refused /\ f.recorder = e.recorder /\ f.adrift = e.adrift
           /\ f.chunks = e.chunks /\ f.levels = e.levels /\ f.marked = e.marked
           /\ f.held = e.held /\ f.jobs = e.jobs /\ f.heard = e.heard
<1> DEFINE f == Opened(e, graph)
<1>1. /\ f.opening = FALSE /\ f.stream = TRUE
      /\ f.recorder = e.recorder /\ f.refused = e.refused /\ f.adrift = e.adrift
      /\ f.chunks = e.chunks /\ f.levels = e.levels /\ f.marked = e.marked /\ f.held = e.held
      /\ f.jobs = e.jobs /\ f.heard = e.heard
  BY DEF Opened, Ear
<1> DEFINE n == IF graph THEN e.live.tickers + 1 ELSE e.live.tickers
<1>2. f.live = [e.live EXCEPT !.streams = e.live.streams + 1, !.tickers = n]
  BY DEF Opened, Ear
<1>a. n \in Int
  <2>0. e.live.tickers \in Int /\ e.live.tickers + 1 \in Int BY DEF Ear
  <2>1. CASE graph = TRUE BY <2>0, <2>1, Zenon
  <2>2. CASE graph = FALSE BY <2>0, <2>2, Zenon
  <2> QED BY <2>1, <2>2
<1>b. f.live.tickers = n
  <2> HIDE DEF n, f
  <2> QED BY <1>2 DEF Ear
<1>3. /\ f.live \in [streams : Int, tickers : Int] /\ f.live.streams = e.live.streams + 1
      /\ f.live.tickers = IF graph THEN e.live.tickers + 1 ELSE e.live.tickers
  <2>1. f.live \in [streams : Int, tickers : Int] /\ f.live.streams = e.live.streams + 1
    <3>1. e.live \in [streams : Int, tickers : Int] BY DEF Ear
    <3>2. e.live.streams + 1 \in Int BY <3>1
    <3> DEFINE m == e.live.streams + 1
    <3>3. f.live = [e.live EXCEPT !.streams = m, !.tickers = n] BY <1>2
    <3> HIDE DEF n, f, m
    <3>4. f.live \in [streams : Int, tickers : Int] /\ f.live.streams = m BY <3>1, <3>2, <3>3, <1>a DEF m
    <3> QED BY <3>4 DEF m
  <2> QED BY <2>1, <1>b
<1>4. f.ticker = (graph \/ e.ticker)
  BY DEF Opened, Ear
<1>5. (graph \/ e.ticker) \in BOOLEAN
  OBVIOUS
<1>6. f = [e EXCEPT !.opening = FALSE, !.stream = TRUE, !.ticker = f.ticker, !.live = f.live]
  BY <1>4 DEF Opened, Ear
<1> HIDE DEF f
<1>7. f.ticker \in BOOLEAN
  BY <1>4, <1>5
<1>8. [e EXCEPT !.opening = FALSE, !.stream = TRUE, !.ticker = f.ticker, !.live = f.live] \in Ear
  BY <1>3, <1>7 DEF Ear
<1>9. f \in Ear
  BY ONLY <1>6, <1>8
<1> QED BY <1>1, <1>3, <1>4, <1>9 DEF f

(* A refused one.                                                           *)
LEMMA RefusedGives ==
    ASSUME NEW e \in Ear
    PROVE  LET f == Refused(e) IN
           /\ f \in Ear
           /\ ~f.opening /\ f.refused
           /\ f.stream = e.stream /\ f.ticker = e.ticker /\ f.recorder = e.recorder
           /\ f.adrift = e.adrift /\ f.chunks = e.chunks /\ f.levels = e.levels
           /\ f.marked = e.marked /\ f.held = e.held /\ f.jobs = e.jobs /\ f.live = e.live
           /\ f.heard = e.heard
  BY DEF Refused, Ear

(* Who calls stop, and the job it leaves behind.                            *)
Callers == {"record", "idle", "again", "turn on", "unmount"}
Stopping(by, of, t) == [by |-> by, of |-> of, take |-> t, seen |-> FALSE]

(* Letting go of the ticker and the recorder keeps the listener sound.      *)
LEMMA SilencedSound ==
    ASSUME NEW e \in Ear, Sound(e)
    PROVE  Silenced(e) \in Ear /\ Sound(Silenced(e))
<1> DEFINE f == Silenced(e)
<1>1. /\ f \in Ear
      /\ ~f.ticker /\ f.recorder = None
      /\ f.live.streams = e.live.streams
      /\ f.live.tickers = IF e.ticker THEN e.live.tickers - 1 ELSE e.live.tickers
      /\ f.stream = e.stream /\ f.opening = e.opening /\ f.refused = e.refused
      /\ f.adrift = e.adrift /\ f.chunks = e.chunks /\ f.levels = e.levels
      /\ f.marked = e.marked /\ f.held = e.held /\ f.jobs = e.jobs /\ f.heard = e.heard
  BY SilencedGives
<1>2. Flushing(f) = Flushing(e) /\ Waiting(f) = Waiting(e)
  BY <1>1 DEF Flushing, Waiting
<1> HIDE DEF f
<1>3. Sound(f)
  BY <1>1, <1>2 DEF Sound
<1> QED BY <1>1, <1>3 DEF f

(* So does closing, once those are let go of.                               *)
LEMMA ClosedSound ==
    ASSUME NEW e \in Ear, Sound(e), ~e.ticker, e.recorder = None,
           NEW of \in Takes \cup {None}, NEW audio \in SUBSET Takes
    PROVE  Closed(e, of, audio) \in Ear /\ Sound(Closed(e, of, audio))
<1> DEFINE f == Closed(e, of, audio)
<1>1. /\ f \in Ear
      /\ ~f.stream /\ ~f.marked /\ ~f.held /\ f.levels = {}
      /\ f.adrift = IF Flushing(e) = {} THEN {} ELSE e.adrift
      /\ f.live.streams = IF e.stream THEN e.live.streams - 1 ELSE e.live.streams
      /\ f.live.tickers = e.live.tickers
      /\ f.opening = e.opening /\ f.refused = e.refused /\ f.ticker = e.ticker
      /\ f.recorder = e.recorder
      /\ f.jobs = e.jobs
  BY ClosedGives
<1>2. Flushing(f) = Flushing(e) /\ Waiting(f) = Waiting(e)
  BY <1>1 DEF Flushing, Waiting
<1> HIDE DEF f
<1>3. Sound(f)
  BY <1>1, <1>2 DEF Sound
<1> QED BY <1>1, <1>3 DEF f

(* stop, while the microphone is being asked for, only leaves a job.        *)
LEMMA StopWaits ==
    ASSUME NEW e \in Ear, Sound(e), e.opening, NEW by \in Callers, by # "again",
           NEW of \in Takes \cup {None}, of # None => by = "record"
    PROVE  LET f == Stop(e, by, of) IN
           /\ f \in Ear /\ Sound(f)
           /\ f.jobs = e.jobs \cup {Stopping(by, of, None)}
           /\ Flushing(f) = Flushing(e) /\ Waiting(f) = Waiting(e) \cup {Stopping(by, of, None)}
           /\ f.stream = e.stream /\ f.opening = e.opening /\ f.refused = e.refused
           /\ f.ticker = e.ticker /\ f.recorder = e.recorder /\ f.adrift = e.adrift
           /\ f.chunks = e.chunks /\ f.levels = e.levels /\ f.marked = e.marked
           /\ f.held = e.held /\ f.live = e.live /\ f.heard = e.heard
<1> DEFINE f == Stop(e, by, of)
<1> DEFINE j == Stopping(by, of, None)
<1>1. j \in Job /\ j.by = by /\ j.of = of /\ j.take = None
  BY DEF Stopping, Job, Callers
<1>2. f = [e EXCEPT !.jobs = e.jobs \cup {j}]
  BY DEF Stop, Stopping, Ear
<1> HIDE DEF j, f
<1>3. /\ f \in Ear /\ f.jobs = e.jobs \cup {j}
      /\ f.stream = e.stream /\ f.opening = e.opening /\ f.refused = e.refused
      /\ f.ticker = e.ticker /\ f.recorder = e.recorder /\ f.adrift = e.adrift
      /\ f.chunks = e.chunks /\ f.levels = e.levels /\ f.marked = e.marked
      /\ f.held = e.held /\ f.live = e.live /\ f.heard = e.heard
  BY <1>1, <1>2 DEF Ear
<1>4. Flushing(f) = Flushing(e) /\ Waiting(f) = Waiting(e) \cup {j}
  BY <1>1, <1>3 DEF Flushing, Waiting
<1>5. Sound(f)
  BY <1>1, <1>3, <1>4 DEF Sound
<1> QED BY <1>3, <1>4, <1>5 DEF f, j

(* stop, while recording, waits for the last chunk.                         *)
LEMMA StopFlushes ==
    ASSUME NEW e \in Ear, Sound(e), ~e.opening, e.recorder # None, NEW by \in Callers,
           NEW of \in Takes \cup {None}, of # None => by = "record", None \notin Takes
    PROVE  LET f == Stop(e, by, of) IN
           /\ f \in Ear /\ Sound(f)
           /\ f.jobs = e.jobs \cup {Stopping(by, of, e.recorder)}
           /\ Flushing(f) = {Stopping(by, of, e.recorder)} /\ Waiting(f) = Waiting(e)
           /\ ~f.ticker /\ f.recorder = None
           /\ f.stream = e.stream /\ f.opening = e.opening /\ f.refused = e.refused
           /\ f.adrift = e.adrift /\ f.chunks = e.chunks /\ f.levels = e.levels
           /\ f.marked = e.marked /\ f.held = e.held /\ f.heard = e.heard
<1> DEFINE f == Stop(e, by, of)
<1> DEFINE j == Stopping(by, of, e.recorder)
<1> DEFINE s == Silenced(e)
<1>1. j \in Job /\ j.by = by /\ j.of = of /\ j.take = e.recorder
  BY DEF Stopping, Job, Callers, Ear
<1>2. /\ s \in Ear /\ Sound(s)
      /\ ~s.ticker /\ s.recorder = None
      /\ s.stream = e.stream /\ s.opening = e.opening /\ s.refused = e.refused
      /\ s.adrift = e.adrift /\ s.chunks = e.chunks /\ s.levels = e.levels
      /\ s.marked = e.marked /\ s.held = e.held /\ s.jobs = e.jobs /\ s.heard = e.heard
  BY SilencedGives, SilencedSound
<1>3. f = [s EXCEPT !.jobs = e.jobs \cup {j}]
  BY <1>2 DEF Stop, Stopping, Ear
<1> HIDE DEF j, f, s
<1>4. /\ f \in Ear /\ f.jobs = e.jobs \cup {j}
      /\ ~f.ticker /\ f.recorder = None /\ f.live = s.live
      /\ f.stream = e.stream /\ f.opening = e.opening /\ f.refused = e.refused
      /\ f.adrift = e.adrift /\ f.chunks = e.chunks /\ f.levels = e.levels
      /\ f.marked = e.marked /\ f.held = e.held /\ f.heard = e.heard
  BY <1>1, <1>2, <1>3 DEF Ear
<1>5. Flushing(e) = {} /\ e.stream
  BY DEF Sound
<1>6. Flushing(f) = {j} /\ Waiting(f) = Waiting(e) /\ Flushing(s) = Flushing(e) /\ Waiting(s) = Waiting(e)
  BY <1>1, <1>2, <1>4, <1>5 DEF Flushing, Waiting
<1>7. Sound(f)
  BY <1>1, <1>2, <1>4, <1>5, <1>6 DEF Sound
<1> QED BY <1>4, <1>6, <1>7 DEF f, j

(* stop, otherwise, closes at once.                                         *)
LEMMA StopCloses ==
    ASSUME NEW e \in Ear, Sound(e), ~e.opening, e.recorder = None, NEW by \in Callers,
           NEW of \in Takes \cup {None}
    PROVE  LET f == Stop(e, by, of) IN
           /\ f \in Ear /\ Sound(f)
           /\ ~f.stream /\ ~f.ticker /\ ~f.opening /\ ~f.marked /\ ~f.held
           /\ f.levels = {} /\ f.recorder = None
           /\ f.chunks = IF Flushing(e) = {} THEN e.adrift ELSE {}
           /\ f.adrift = IF Flushing(e) = {} THEN {} ELSE e.adrift
           /\ f.heard = [t \in Takes |-> IF t = of THEN Heard(e.chunks, e.levels) ELSE e.heard[t]]
           /\ f.refused = e.refused /\ f.jobs = e.jobs /\ Flushing(f) = Flushing(e)
           /\ Waiting(f) = Waiting(e)
<1> DEFINE f == Stop(e, by, of)
<1> DEFINE s == Silenced(e)
<1>1. /\ s \in Ear /\ Sound(s)
      /\ ~s.ticker /\ s.recorder = None
      /\ s.stream = e.stream /\ s.opening = e.opening /\ s.refused = e.refused
      /\ s.adrift = e.adrift /\ s.chunks = e.chunks /\ s.levels = e.levels
      /\ s.marked = e.marked /\ s.held = e.held /\ s.jobs = e.jobs /\ s.heard = e.heard
  BY SilencedGives, SilencedSound
<1>2. f = Closed(s, of, e.chunks)
  BY DEF Stop
<1>3. e.chunks \in SUBSET Takes
  BY DEF Ear
<1>4. Flushing(s) = Flushing(e)
  BY <1>1 DEF Flushing
<1> HIDE DEF s, f
<1>5. f \in Ear /\ Sound(f)
  BY <1>1, <1>2, <1>3, ClosedSound
<1>6. /\ ~f.stream /\ ~f.marked /\ ~f.held /\ f.levels = {}
      /\ f.chunks = IF Flushing(s) = {} THEN s.adrift ELSE {}
      /\ f.adrift = IF Flushing(s) = {} THEN {} ELSE s.adrift
      /\ f.heard = [t \in Takes |-> IF t = of THEN Heard(e.chunks, s.levels) ELSE s.heard[t]]
      /\ f.opening = s.opening /\ f.refused = s.refused /\ f.ticker = s.ticker
      /\ f.recorder = s.recorder
      /\ f.jobs = s.jobs
  BY <1>1, <1>2, <1>3, ClosedGives
<1>7. Flushing(f) = Flushing(e) /\ Waiting(f) = Waiting(e)
  BY <1>1, <1>6 DEF Flushing, Waiting
<1> QED BY <1>1, <1>4, <1>5, <1>6, <1>7 DEF f

(* The same for a stop that is for no run and finds no other flushing.      *)
LEMMA StopShuts ==
    ASSUME NEW e \in Ear, Sound(e), ~e.opening, e.recorder = None, Flushing(e) = {}, None \notin Takes,
           NEW by \in Callers
    PROVE  LET f == Stop(e, by, None) IN
           /\ f \in Ear /\ Sound(f)
           /\ ~f.stream /\ ~f.ticker /\ ~f.opening /\ ~f.marked /\ ~f.held
           /\ f.levels = {} /\ f.recorder = None
           /\ f.chunks = e.adrift /\ f.adrift = {} /\ f.jobs = e.jobs /\ Flushing(f) = {}
           /\ Waiting(f) = {}
           /\ \A t \in Takes : f.heard[t] = e.heard[t]
<1> DEFINE f == Stop(e, by, None)
<1>1. /\ f \in Ear /\ Sound(f)
      /\ ~f.stream /\ ~f.ticker /\ ~f.opening /\ ~f.marked /\ ~f.held /\ f.levels = {}
      /\ f.recorder = None
      /\ f.chunks = IF Flushing(e) = {} THEN e.adrift ELSE {}
      /\ f.adrift = IF Flushing(e) = {} THEN {} ELSE e.adrift
      /\ f.heard = [t \in Takes |-> IF t = None THEN Heard(e.chunks, e.levels) ELSE e.heard[t]]
      /\ f.refused = e.refused /\ f.jobs = e.jobs /\ Flushing(f) = Flushing(e)
      /\ Waiting(f) = Waiting(e)
  BY StopCloses
<1> HIDE DEF f
<1>2. Waiting(e) = {}
  BY DEF Sound
<1> QED BY <1>1, <1>2 DEF f

(* The last chunk has come: the listener is shut and nothing is pending.    *)
LEMMA RecorderStoppedSound ==
    ASSUME NEW e \in Ear, Sound(e), NEW j \in Flushing(e)
    PROVE  LET f == RecorderStopped(e, j) IN
           /\ f \in Ear /\ Sound(f)
           /\ ~f.stream /\ ~f.ticker /\ ~f.opening /\ ~f.marked /\ ~f.held
           /\ f.levels = {} /\ f.recorder = None
           /\ f.chunks = e.adrift /\ f.adrift = {} /\ f.jobs = {}
           /\ f.heard = [t \in Takes |-> IF t = j.of THEN Heard(e.chunks \cup {j.take}, e.levels) ELSE e.heard[t]]
<1> DEFINE f == RecorderStopped(e, j)
<1> DEFINE d == [e EXCEPT !.jobs = e.jobs \ {j}]
<1> DEFINE audio == e.chunks \cup {j.take}
<1>1. j \in e.jobs /\ j \in Job /\ j.take # None /\ j.take \in Takes /\ j.of \in Takes \cup {None}
  BY DEF Flushing, Ear, Job
<1>2. /\ ~e.opening /\ ~e.ticker /\ e.recorder = None /\ Waiting(e) = {} /\ Flushing(e) = {j}
      /\ e.live.tickers = 0 /\ e.live.streams = IF e.stream THEN 1 ELSE 0
  BY DEF Sound
<1>3. e.jobs = {j}
  BY <1>2 DEF Flushing, Waiting
<1>4. audio \in SUBSET Takes
  BY <1>1 DEF Ear
<1>5. f = Closed(d, j.of, audio)
  BY DEF RecorderStopped
<1>6. /\ d \in Ear /\ d.jobs = {}
      /\ d.stream = e.stream /\ d.opening = e.opening /\ d.refused = e.refused
      /\ d.ticker = e.ticker /\ d.recorder = e.recorder /\ d.adrift = e.adrift
      /\ d.chunks = e.chunks /\ d.levels = e.levels /\ d.marked = e.marked
      /\ d.held = e.held /\ d.live = e.live /\ d.heard = e.heard
  BY <1>3 DEF Ear
<1>7. Flushing(d) = {}
  BY <1>6 DEF Flushing
<1> HIDE DEF d, f, audio
<1>8. /\ f \in Ear
      /\ ~f.stream /\ ~f.marked /\ ~f.held /\ f.levels = {}
      /\ f.chunks = IF Flushing(d) = {} THEN d.adrift ELSE {}
      /\ f.adrift = IF Flushing(d) = {} THEN {} ELSE d.adrift
      /\ f.live.streams = IF d.stream THEN d.live.streams - 1 ELSE d.live.streams
      /\ f.live.tickers = d.live.tickers
      /\ f.heard = [t \in Takes |-> IF t = j.of THEN Heard(audio, d.levels) ELSE d.heard[t]]
      /\ f.opening = d.opening /\ f.refused = d.refused /\ f.ticker = d.ticker
      /\ f.recorder = d.recorder
      /\ f.jobs = d.jobs
  BY <1>1, <1>4, <1>5, <1>6, ClosedGives
<1>9. Flushing(f) = {} /\ Waiting(f) = {}
  BY <1>6, <1>8 DEF Flushing, Waiting
<1>10. Sound(f)
  BY <1>2, <1>6, <1>7, <1>8, <1>9 DEF Sound
<1> QED BY <1>2, <1>6, <1>7, <1>8, <1>10 DEF f, audio

(* A listener whose microphone is being asked for holds nothing.            *)
LEMMA AskedIsShut ==
    ASSUME NEW e \in Ear, Sound(e), e.opening
    PROVE  /\ ~e.stream /\ ~e.ticker /\ ~e.refused /\ e.levels = {} /\ e.recorder = None
           /\ e.adrift = {}
           /\ Flushing(e) = {} /\ e.jobs = Waiting(e)
           /\ e.live.streams = 0 /\ e.live.tickers = 0
<1>1. Flushing(e) = {}
  BY DEF Sound
<1>2. e.jobs = Waiting(e) \cup Flushing(e)
  BY DEF Waiting, Flushing
<1>3. ~e.stream /\ ~e.refused /\ ~e.ticker
  BY DEF Sound
<1> QED BY <1>1, <1>2, <1>3 DEF Sound

(* The browser's possible answers.                                          *)
Replies(e) == {Opened(e, TRUE), Opened(e, FALSE), Refused(e)}

(* An answer, before the stops that waited for it have run.                 *)
LEMMA AnswerGives ==
    ASSUME NEW e \in Ear, Sound(e), e.opening,
           NEW d \in Replies(e)
    PROVE  /\ d \in Ear /\ ~d.opening
           /\ d.stream => d.live.streams = 1
           /\ ~d.stream => d.live.streams = 0
           /\ d.ticker => d.live.tickers = 1 /\ d.stream
           /\ ~d.ticker => d.live.tickers = 0
           /\ d.recorder = e.recorder /\ d.adrift = e.adrift /\ d.chunks = e.chunks
           /\ d.levels = e.levels /\ d.marked = e.marked /\ d.held = e.held
           /\ d.jobs = e.jobs /\ d.heard = e.heard
<1>1. CASE d = Opened(e, TRUE)
  <2>1. /\ d \in Ear
        /\ ~d.opening /\ d.stream /\ (d.ticker <=> (TRUE \/ e.ticker))
        /\ d.live.streams = e.live.streams + 1
        /\ d.live.tickers = e.live.tickers + 1
        /\ d.refused = e.refused /\ d.recorder = e.recorder /\ d.adrift = e.adrift
        /\ d.chunks = e.chunks /\ d.levels = e.levels /\ d.marked = e.marked
        /\ d.held = e.held /\ d.jobs = e.jobs /\ d.heard = e.heard
    BY <1>1, OpenedGives
  <2> QED BY <2>1, AskedIsShut
<1>2. CASE d = Opened(e, FALSE)
  <2>1. /\ d \in Ear
        /\ ~d.opening /\ d.stream /\ (d.ticker <=> (FALSE \/ e.ticker))
        /\ d.live.streams = e.live.streams + 1
        /\ d.live.tickers = e.live.tickers
        /\ d.refused = e.refused /\ d.recorder = e.recorder /\ d.adrift = e.adrift
        /\ d.chunks = e.chunks /\ d.levels = e.levels /\ d.marked = e.marked
        /\ d.held = e.held /\ d.jobs = e.jobs /\ d.heard = e.heard
    BY <1>2, OpenedGives
  <2> QED BY <2>1, AskedIsShut
<1>3. CASE d = Refused(e)
  <2>1. /\ d \in Ear
        /\ ~d.opening /\ d.refused
        /\ d.stream = e.stream /\ d.ticker = e.ticker /\ d.recorder = e.recorder
        /\ d.adrift = e.adrift /\ d.chunks = e.chunks /\ d.levels = e.levels
        /\ d.marked = e.marked /\ d.held = e.held /\ d.jobs = e.jobs /\ d.live = e.live
        /\ d.heard = e.heard
    BY <1>3, RefusedGives
  <2> QED BY <2>1, AskedIsShut
<1> QED BY <1>1, <1>2, <1>3 DEF Replies

(* An answer, and the stops that waited for it: a stream that arrives to    *)
(* a stop is closed again.                                                  *)
LEMMA ResolvedSound ==
    ASSUME NEW e \in Ear, Sound(e), e.opening, None \notin Takes,
           NEW d \in Replies(e)
    PROVE  LET f == Resolved(d) IN
           /\ f \in Ear /\ Sound(f)
           /\ ~f.opening /\ f.jobs = {} /\ f.recorder = None /\ f.adrift = {} /\ f.levels = {}
           /\ Waiting(e) = {} => /\ f.stream = d.stream /\ f.chunks = e.chunks /\ f.marked = e.marked /\ f.held = e.held
                                 /\ f.heard = e.heard
           /\ Waiting(e) # {} => /\ ~f.stream /\ f.chunks = {} /\ ~f.marked /\ ~f.held
                                 /\ f.heard = [t \in Takes |-> IF \E j \in Waiting(e) : j.of = t
                                                             THEN Heard(e.chunks, e.levels) ELSE e.heard[t]]
<1> DEFINE f == Resolved(d)
<1>1. /\ d \in Ear /\ ~d.opening
      /\ d.stream => d.live.streams = 1
      /\ ~d.stream => d.live.streams = 0
      /\ d.ticker => d.live.tickers = 1 /\ d.stream
      /\ ~d.ticker => d.live.tickers = 0
      /\ d.recorder = e.recorder /\ d.adrift = e.adrift /\ d.chunks = e.chunks
      /\ d.levels = e.levels /\ d.marked = e.marked /\ d.held = e.held /\ d.jobs = e.jobs
      /\ d.heard = e.heard
  BY AnswerGives
<1>2. /\ ~e.stream /\ ~e.ticker /\ ~e.refused /\ e.levels = {} /\ e.recorder = None
      /\ e.adrift = {}
      /\ Flushing(e) = {} /\ e.jobs = Waiting(e)
  BY AskedIsShut
<1>3. Flushing(d) = {} /\ Waiting(d) = Waiting(e)
  BY <1>1, <1>2 DEF Flushing, Waiting
<1>4. CASE Waiting(e) = {}
  <2>1. f = d
    BY <1>3, <1>4 DEF Resolved
  <2>2. e.held => e.marked
    BY DEF Sound
  <2> HIDE DEF f
  <2>3. Sound(d)
    BY <1>1, <1>2, <1>3, <1>4, <2>2 DEF Sound
  <2> QED BY <1>1, <1>2, <1>4, <2>1, <2>3 DEF f
<1>5. CASE Waiting(e) # {}
  <2> DEFINE s == Silenced(d)
  <2> DEFINE c == Closed(s, None, {})
  <2> DEFINE h == [t \in Takes |-> IF \E j \in Waiting(e) : j.of = t
                                   THEN Heard(e.chunks, e.levels) ELSE e.heard[t]]
  <2>1. /\ s \in Ear /\ ~s.ticker /\ s.recorder = None
        /\ s.live.streams = d.live.streams
        /\ s.live.tickers = IF d.ticker THEN d.live.tickers - 1 ELSE d.live.tickers
        /\ s.stream = d.stream /\ s.opening = d.opening /\ s.refused = d.refused
        /\ s.adrift = d.adrift /\ s.chunks = d.chunks /\ s.levels = d.levels
        /\ s.marked = d.marked /\ s.held = d.held /\ s.jobs = d.jobs /\ s.heard = d.heard
    BY <1>1, SilencedGives
  <2>2. Flushing(s) = {}
    BY <1>3, <2>1 DEF Flushing
  <2> HIDE DEF s
  <2>3. /\ c \in Ear
        /\ ~c.stream /\ ~c.marked /\ ~c.held /\ c.levels = {}
        /\ c.chunks = IF Flushing(s) = {} THEN s.adrift ELSE {}
        /\ c.adrift = IF Flushing(s) = {} THEN {} ELSE s.adrift
        /\ c.live.streams = IF s.stream THEN s.live.streams - 1 ELSE s.live.streams
        /\ c.live.tickers = s.live.tickers
        /\ c.heard = [t \in Takes |-> IF t = None THEN Heard({}, s.levels) ELSE s.heard[t]]
        /\ c.opening = s.opening /\ c.refused = s.refused /\ c.ticker = s.ticker
        /\ c.recorder = s.recorder
        /\ c.jobs = s.jobs
    BY <2>1, ClosedGives
  <2> HIDE DEF c
  <2>4. c.heard \in [Takes -> Sheet \cup {None}] /\ \A t \in Takes : c.heard[t] = e.heard[t]
    BY <1>1, <2>1, <2>3 DEF Ear
  <2>5. f = [c EXCEPT !.jobs = c.jobs \ Waiting(e),
                      !.heard = [t \in Takes |-> IF \E j \in Waiting(e) : j.of = t
                                                  THEN Heard(e.chunks, e.levels) ELSE c.heard[t]]]
    BY <1>1, <1>3, <1>5 DEF Resolved, c, s
  <2>6. h = [t \in Takes |-> IF \E j \in Waiting(e) : j.of = t THEN Heard(e.chunks, e.levels) ELSE c.heard[t]]
    BY <2>4
  <2>7. c.jobs \ Waiting(e) = {}
    BY <1>1, <1>2, <2>1, <2>3
  <2>8. h \in [Takes -> Sheet \cup {None}]
    BY <1>2 DEF Heard, Sheet, Ear
  <2> HIDE DEF h, f
  <2>9. f = [c EXCEPT !.jobs = {}, !.heard = h]
    BY <2>5, <2>6, <2>7
  <2>10. /\ f \in Ear /\ f.jobs = {} /\ f.heard = h
         /\ f.stream = c.stream /\ f.opening = c.opening /\ f.refused = c.refused
         /\ f.ticker = c.ticker /\ f.recorder = c.recorder /\ f.adrift = c.adrift
         /\ f.chunks = c.chunks /\ f.levels = c.levels /\ f.marked = c.marked
         /\ f.held = c.held /\ f.live = c.live
    BY <2>3, <2>8, <2>9 DEF Ear
  <2>11. Flushing(f) = {} /\ Waiting(f) = {}
    BY <2>10 DEF Flushing, Waiting
  <2>12. Sound(f)
    BY <1>1, <1>2, <2>1, <2>2, <2>3, <2>10, <2>11 DEF Sound
  <2> QED BY <1>1, <1>2, <1>5, <2>1, <2>2, <2>3, <2>10, <2>12 DEF f, h
<1> QED BY <1>4, <1>5

(* Marking the stops a press has overtaken changes nothing else.            *)
LEMMA SeenGives ==
    ASSUME NEW e \in Ear, Sound(e)
    PROVE  LET f == Seen(e) IN
           /\ f \in Ear /\ Sound(f)
           /\ \A k \in Flushing(f) :
                  k.seen /\ \E j \in Flushing(e) : k.by = j.by /\ k.of = j.of /\ k.take = j.take
           /\ \A k \in Waiting(f) :
                  \E j \in Waiting(e) : k.by = j.by /\ k.of = j.of /\ k.take = j.take
           /\ (Flushing(f) = {} <=> Flushing(e) = {}) /\ (Waiting(f) = {} <=> Waiting(e) = {})
           /\ f.stream = e.stream /\ f.opening = e.opening /\ f.refused = e.refused
           /\ f.ticker = e.ticker /\ f.recorder = e.recorder /\ f.adrift = e.adrift
           /\ f.chunks = e.chunks /\ f.levels = e.levels /\ f.marked = e.marked
           /\ f.held = e.held /\ f.live = e.live /\ f.heard = e.heard
<1> DEFINE f == Seen(e)
<1> DEFINE Known(j) == [j EXCEPT !.seen = j.take # None]
<1> DEFINE ks == {Known(j) : j \in e.jobs}
<1>1. f = [e EXCEPT !.jobs = ks]
  BY DEF Seen, Ear
<1>2. \A j \in e.jobs : /\ Known(j) \in Job /\ Known(j).by = j.by /\ Known(j).of = j.of
                        /\ Known(j).take = j.take /\ (Known(j).seen <=> j.take # None)
  <2> TAKE j \in e.jobs
  <2>1. j \in Job
    BY DEF Ear
  <2>2. (j.take # None) \in BOOLEAN
    OBVIOUS
  <2> QED BY <2>1, <2>2 DEF Job
<1> HIDE DEF Known
<1>3. ks \in SUBSET Job
  BY <1>2
<1> HIDE DEF f
<1>4. /\ f \in Ear /\ f.jobs = ks
      /\ f.stream = e.stream /\ f.opening = e.opening /\ f.refused = e.refused
      /\ f.ticker = e.ticker /\ f.recorder = e.recorder /\ f.adrift = e.adrift
      /\ f.chunks = e.chunks /\ f.levels = e.levels /\ f.marked = e.marked
      /\ f.held = e.held /\ f.live = e.live /\ f.heard = e.heard
  <2> HIDE DEF ks
  <2> QED BY <1>1, <1>3 DEF Ear
<1>5. Flushing(f) = {Known(j) : j \in Flushing(e)}
  BY <1>2, <1>4 DEF Flushing
<1>6. Waiting(f) = {Known(j) : j \in Waiting(e)}
  BY <1>2, <1>4 DEF Waiting
<1>7. Flushing(e) \subseteq e.jobs /\ Waiting(e) \subseteq e.jobs
  BY DEF Flushing, Waiting
<1>8. \A j \in Flushing(e) : j.take # None
  BY DEF Flushing
<1>9. \A k \in Flushing(f) :
       k.seen /\ \E j \in Flushing(e) : k.by = j.by /\ k.of = j.of /\ k.take = j.take
  BY <1>2, <1>5, <1>7, <1>8
<1>10. \A k \in Waiting(f) : \E j \in Waiting(e) : k.by = j.by /\ k.of = j.of /\ k.take = j.take
  BY <1>2, <1>6, <1>7
<1>11. (Flushing(f) = {} <=> Flushing(e) = {}) /\ (Waiting(f) = {} <=> Waiting(e) = {})
  BY <1>5, <1>6
<1>12. \A k \in f.jobs : \E j \in e.jobs : k.by = j.by /\ k.of = j.of /\ k.take = j.take
  BY <1>2, <1>4
<1>13. \A k, l \in Flushing(f) : k = l
  <2>1. \A i, j \in Flushing(e) : i = j
    BY DEF Sound
  <2> QED BY <1>5, <2>1
<1>14. Sound(f)
  BY <1>4, <1>11, <1>12, <1>13 DEF Sound
<1> QED BY <1>4, <1>9, <1>10, <1>11, <1>14 DEF f

-----------------------------------------------------------------------------
(* The parts of the inductive invariant. The page and its listener keep     *)
(* their shapes.                                                            *)
Shapes ==
    /\ phase \in {"idle", "spin", "topic", "prep", "speak", "done"}
    /\ paused \in BOOLEAN /\ asking \in BOOLEAN /\ gone \in BOOLEAN
    /\ mic \in {"ask", "on", "off"} /\ take \in {0} \cup Takes
    /\ post \in [Takes -> {"none", "sent", "written", "lost", "attached", "read"}]
    /\ summary \in Takes \cup {None} /\ report \in Takes \cup {Off, None}
    /\ ears \in Ear

(* A prompt stands for a press that turns the report on, for a stop that    *)
(* waits, or for a round under way with the report on.                      *)
Asked ==
    /\ asking => ears.opening /\ mic # "on"
    /\ ears.opening => asking \/ Waiting(ears) # {} \/ (mic = "on" /\ phase # "idle" /\ ~gone)

(* The phases of a round under way.                                         *)
Going == {"spin", "topic", "prep", "speak"}

(* A microphone is open, and recording, only for such a round, or until     *)
(* a stop has flushed.                                                      *)
Listened ==
    /\ ears.stream => (mic = "on" /\ phase # "idle" /\ ~gone) \/ Flushing(ears) # {}
    /\ ears.recorder # None =>
        /\ mic = "on" /\ phase \in Going /\ ~gone
        /\ post[ears.recorder] = "none" /\ ears.recorder <= take

(* Where the page may have got to while a stop flushes: one press, which    *)
(* cannot have gone further than a new topic.                               *)
Pending(j) ==
    \/ gone
    \/ ~j.seen /\ j.by = "again" /\ phase = "topic" /\ mic = "on"
    \/ ~j.seen /\ j.by = "record" /\ phase = "done"
    \/ ~j.seen /\ j.by = "idle" /\ phase = "idle"
    \/ j.seen /\ j.by \in {"record", "idle"} /\ phase \in {"spin", "topic"}
    \/ j.seen /\ j.by = "idle" /\ phase = "idle"

(* A stop for a run flushes that run's own take, behind nothing older.      *)
Flushes ==
    /\ Flushing(ears) # {} => ears.stream \/ gone
    /\ \A j \in Flushing(ears) : Pending(j) /\ (gone => j.by # "again")
    /\ \A j \in Flushing(ears) : j.of # None =>
        mic = "on" /\ ears.chunks = {} /\ ears.levels \subseteq {j.of} /\ j.take = j.of
    /\ \A j \in Waiting(ears) : j.of # None /\ mic = "on" => ears.chunks = {}

(* The counter is ahead of everything heard; a recorder adrift, and what    *)
(* it left, is of a take whose run was never handed over.                   *)
Counted ==
    /\ \A t \in Takes : t > take \/ (t = take /\ phase = "speak") => post[t] = "none"
    /\ phase = "speak" => take \in Takes
    /\ \A s \in ears.adrift \cup ears.chunks : s < take /\ post[s] = "none"

(* In a minute spoken with the report on, nothing but the minute has        *)
(* been heard, and it is held exactly while the clock is.                   *)
Minute ==
    phase = "speak" /\ mic = "on" /\ ~gone =>
        /\ ears.chunks = {} /\ ears.levels \subseteq {take} /\ ears.recorder \in {None, take}
        /\ (ears.ticker \/ ears.opening) => ears.marked /\ (ears.held <=> paused)

(* The inductive invariant.                                                 *)
IInv == Shapes /\ Sound(ears) /\ Asked /\ Listened /\ Flushes /\ Counted /\ Minute

(* What the assumption on the takes says of them one by one.                *)
LEMMA TakesFacts ==
    /\ None \notin Takes /\ 0 \notin Takes /\ Takes \subseteq Nat /\ None # 0
<1>1. Cardinality(Takes) \in Nat
  BY TakesAssumption, FS_CardinalityType
<1> QED BY <1>1, TakesAssumption

(* The page opens in it.                                                    *)
LEMMA InitGives == Init => IInv
<1> SUFFICES ASSUME Init PROVE IInv
  OBVIOUS
<1>0. ears = Shut /\ post = [t \in Takes |-> "none"]
  BY DEF Init
<1>1. /\ ears \in Ear
      /\ ~ears.stream /\ ~ears.opening /\ ~ears.ticker /\ ~ears.held /\ ~ears.marked
      /\ ears.recorder = None /\ ears.adrift = {} /\ ears.chunks = {} /\ ears.levels = {}
      /\ ears.jobs = {} /\ ears.live.streams = 0 /\ ears.live.tickers = 0
  <2> DEFINE h == [t \in Takes |-> None]
  <2>1. h \in [Takes -> Sheet \cup {None}]
    OBVIOUS
  <2>2. [streams |-> 0, tickers |-> 0] \in [streams : Int, tickers : Int]
    OBVIOUS
  <2> DEFINE l == [streams |-> 0, tickers |-> 0]
  <2>3. ears = [stream |-> FALSE, opening |-> FALSE, refused |-> FALSE, ticker |-> FALSE, recorder |-> None,
                adrift |-> {}, chunks |-> {}, levels |-> {}, marked |-> FALSE, held |-> FALSE,
                jobs |-> {}, live |-> l, heard |-> h]
    BY <1>0 DEF Shut
  <2>4. l.streams = 0 /\ l.tickers = 0
    OBVIOUS
  <2> HIDE DEF h, l
  <2> QED BY <2>1, <2>2, <2>3, <2>4 DEF Ear, l
<1>2. Flushing(ears) = {} /\ Waiting(ears) = {}
  BY <1>1 DEF Flushing, Waiting
<1>3. Sound(ears)
  BY <1>1, <1>2 DEF Sound
<1>4. Shapes
  BY <1>0, <1>1 DEF Init, Shapes, Off
<1>5. Asked /\ Listened /\ Flushes
  BY <1>1, <1>2 DEF Init, Asked, Listened, Flushes
<1>6. Counted /\ Minute
  BY <1>0, <1>1, TakesFacts DEF Init, Counted, Minute
<1> QED BY <1>3, <1>4, <1>5, <1>6 DEF IInv

(* A press finds no stop flushing while a round goes on, and elsewhere      *)
(* only those it may overtake.                                              *)
LEMMA PressFinds ==
    ASSUME IInv, ~gone, InTime
    PROVE  /\ phase \in Going => Flushing(ears) = {}
           /\ \A j \in Flushing(ears) : /\ j.by \in {"record", "idle"} /\ ~j.seen
                                        /\ j.by = "record" => phase = "done"
                                        /\ j.by = "idle" => phase = "idle"
<1>1. \A j \in Flushing(ears) : ~j.seen /\ j.by # "again"
  BY TakesAssumption DEF InTime
<1>2. \A j \in Flushing(ears) : Pending(j)
  BY DEF IInv, Flushes
<1> QED BY <1>1, <1>2 DEF Pending, Going

(* A step of the engine that no effect of the microphone answers.           *)
LEMMA Walks ==
    ASSUME IInv, ~gone, InTime, UNCHANGED <<mic, asking, take, post, screen, gone>>,
           paused' \in BOOLEAN, ears' = Seen(ears),
           \/ phase' \in {"spin", "topic"}
           \/ phase' = "prep" /\ phase \in Going
    PROVE  IInv'
<1> DEFINE s == Seen(ears)
<1>1. /\ s \in Ear /\ Sound(s)
      /\ \A k \in Flushing(s) :
             k.seen /\ \E j \in Flushing(ears) : k.by = j.by /\ k.of = j.of /\ k.take = j.take
      /\ \A k \in Waiting(s) :
             \E j \in Waiting(ears) : k.by = j.by /\ k.of = j.of /\ k.take = j.take
      /\ (Flushing(s) = {} <=> Flushing(ears) = {}) /\ (Waiting(s) = {} <=> Waiting(ears) = {})
      /\ s.stream = ears.stream /\ s.opening = ears.opening /\ s.refused = ears.refused
      /\ s.ticker = ears.ticker /\ s.recorder = ears.recorder /\ s.adrift = ears.adrift
      /\ s.chunks = ears.chunks /\ s.levels = ears.levels /\ s.marked = ears.marked
      /\ s.held = ears.held /\ s.live = ears.live /\ s.heard = ears.heard
  BY SeenGives DEF IInv, Shapes
<1>2. ears' = s
  OBVIOUS
<1> HIDE DEF s
<1>3. /\ mic' = mic /\ asking' = asking /\ take' = take /\ post' = post /\ summary' = summary
      /\ report' = report /\ gone' = gone /\ phase' \in Going \ {"speak"} /\ phase' # "idle"
  BY DEF screen, Going
<1>4. Shapes'
  BY <1>1, <1>2, <1>3 DEF IInv, Shapes, Going, Off
<1>5. Asked'
  BY <1>1, <1>2, <1>3 DEF IInv, Asked, Going
<1>6. Listened'
  BY <1>1, <1>2, <1>3 DEF IInv, Listened, Going
<1>7. Flushes'
  <2>1. Flushing(ears)' = Flushing(s) /\ Waiting(ears)' = Waiting(s)
    BY <1>2
  <2>2. \A k \in Flushing(s) : Pending(k)' /\ (gone' => k.by # "again")
    BY <1>1, <1>3, PressFinds DEF Pending, Going
  <2>3. \A k \in Flushing(s) : k.of # None =>
           mic' = "on" /\ s.chunks = {} /\ s.levels \subseteq {k.of} /\ k.take = k.of
    BY <1>1, <1>3 DEF IInv, Flushes
  <2>4. \A k \in Waiting(s) : k.of # None /\ mic' = "on" => s.chunks = {}
    BY <1>1, <1>3 DEF IInv, Flushes
  <2>5. Flushing(s) # {} => s.stream
    BY <1>1 DEF IInv, Flushes
  <2> QED BY <1>2, <2>1, <2>2, <2>3, <2>4, <2>5 DEF Flushes
<1>8. Counted' /\ Minute'
  BY <1>1, <1>2, <1>3 DEF IInv, Counted, Minute, Going
<1> QED BY <1>1, <1>2, <1>4, <1>5, <1>6, <1>7, <1>8 DEF IInv

(* A topic lands with the report on.                                        *)
LEMMA Lands ==
    ASSUME IInv, ~gone, InTime, UNCHANGED <<mic, asking, take, post, screen, gone>>,
           paused' \in BOOLEAN, ears' = Start(Seen(ears)), phase' = "topic", mic = "on"
    PROVE  IInv'
<1> DEFINE s == Seen(ears)
<1>1. /\ s \in Ear /\ Sound(s)
      /\ \A k \in Flushing(s) :
             k.seen /\ \E j \in Flushing(ears) : k.by = j.by /\ k.of = j.of /\ k.take = j.take
      /\ \A k \in Waiting(s) :
             \E j \in Waiting(ears) : k.by = j.by /\ k.of = j.of /\ k.take = j.take
      /\ (Flushing(s) = {} <=> Flushing(ears) = {}) /\ (Waiting(s) = {} <=> Waiting(ears) = {})
      /\ s.stream = ears.stream /\ s.opening = ears.opening /\ s.refused = ears.refused
      /\ s.ticker = ears.ticker /\ s.recorder = ears.recorder /\ s.adrift = ears.adrift
      /\ s.chunks = ears.chunks /\ s.levels = ears.levels /\ s.marked = ears.marked
      /\ s.held = ears.held /\ s.live = ears.live /\ s.heard = ears.heard
  BY SeenGives DEF IInv, Shapes
<1>2. CASE s.stream \/ s.opening
  BY <1>2, StartIdle, Walks
<1>3. CASE ~s.stream /\ ~s.opening
  <2> DEFINE f == Start(s)
  <2>1. Flushing(s) = {} /\ Waiting(s) = {}
    BY <1>1, <1>3 DEF IInv, Flushes, Sound
  <2>2. Sound(f)
    BY <1>1, <2>1, StartSound
  <2>3. /\ f \in Ear
        /\ f.opening /\ ~f.refused
        /\ f.stream = s.stream /\ f.ticker = s.ticker /\ f.recorder = s.recorder
        /\ f.adrift = s.adrift /\ f.chunks = s.chunks /\ f.levels = s.levels
        /\ f.marked = s.marked /\ f.held = s.held /\ f.jobs = s.jobs /\ f.live = s.live
        /\ f.heard = s.heard
    BY <1>1, <1>3, StartGives
  <2>4. ears' = f
    OBVIOUS
  <2> HIDE DEF s, f
  <2>5. Flushing(f) = {} /\ Waiting(f) = {}
    BY <2>1, <2>3 DEF Flushing, Waiting
  <2>6. /\ mic' = mic /\ asking' = asking /\ take' = take /\ post' = post /\ summary' = summary
        /\ report' = report /\ gone' = gone
    BY DEF screen
  <2>7. Flushing(ears)' = {} /\ Waiting(ears)' = {}
    BY <2>4, <2>5
  <2>8. Shapes'
    BY <2>3, <2>4, <2>6 DEF IInv, Shapes, Off
  <2>9. Asked'
    BY <1>1, <2>3, <2>4, <2>6, <2>7 DEF IInv, Asked
  <2>10. Listened'
    BY <1>1, <1>3, <2>3, <2>4, <2>6, <2>7 DEF IInv, Listened, Going
  <2>11. Flushes'
    BY <2>7 DEF Flushes
  <2>12. Counted' /\ Minute'
    BY <1>1, <2>3, <2>4, <2>6 DEF IInv, Counted, Minute
  <2> QED BY <2>2, <2>4, <2>8, <2>9, <2>10, <2>11, <2>12 DEF IInv
<1> QED BY <1>2, <1>3

(* The speaking begins.                                                     *)
LEMMA Speaks ==
    ASSUME IInv, ~gone, InTime, UNCHANGED <<mic, asking, post, screen, gone>>,
           phase \in {"topic", "prep"}, phase' = "speak", paused' = FALSE,
           take' = take + 1, take' \in Takes,
           ears' = PauseEffect(MicEffect(Seen(ears), "speak", mic, take'), "speak", FALSE)
    PROVE  IInv'
<1> DEFINE s == Seen(ears)
<1>1. /\ s \in Ear /\ Sound(s)
      /\ \A k \in Flushing(s) :
             k.seen /\ \E j \in Flushing(ears) : k.by = j.by /\ k.of = j.of /\ k.take = j.take
      /\ \A k \in Waiting(s) :
             \E j \in Waiting(ears) : k.by = j.by /\ k.of = j.of /\ k.take = j.take
      /\ (Flushing(s) = {} <=> Flushing(ears) = {}) /\ (Waiting(s) = {} <=> Waiting(ears) = {})
      /\ s.stream = ears.stream /\ s.opening = ears.opening /\ s.refused = ears.refused
      /\ s.ticker = ears.ticker /\ s.recorder = ears.recorder /\ s.adrift = ears.adrift
      /\ s.chunks = ears.chunks /\ s.levels = ears.levels /\ s.marked = ears.marked
      /\ s.held = ears.held /\ s.live = ears.live /\ s.heard = ears.heard
  BY SeenGives DEF IInv, Shapes
<1>2. Flushing(s) = {}
  BY <1>1, PressFinds DEF Going
<1> DEFINE m == IF mic = "on" THEN Mark(s, take') ELSE s
<1> DEFINE f == Resume(m)
<1>3. ears' = f
  BY DEF PauseEffect, MicEffect
<1>4. /\ m \in Ear /\ Sound(m)
      /\ m.stream = s.stream /\ m.opening = s.opening /\ m.refused = s.refused
      /\ m.ticker = s.ticker /\ m.jobs = s.jobs /\ m.live = s.live /\ m.heard = s.heard
      /\ mic # "on" => m = s
      /\ mic = "on" => m.levels = {} /\ m.chunks = {} /\ m.marked
      /\ mic = "on" /\ s.stream => m.recorder = take' /\ m.adrift = s.adrift \cup ({s.recorder} \ {None})
      /\ mic = "on" /\ ~s.stream => m.recorder = s.recorder /\ m.adrift = s.adrift
  <2>1. CASE mic = "on"
    <3>1. m = Mark(s, take')
      BY <2>1
    <3> HIDE DEF s, m
    <3> QED BY <1>1, <1>2, <2>1, <3>1, MarkGives, MarkSound
  <2>2. CASE mic # "on"
    <3>1. m = s
      BY <2>2
    <3> HIDE DEF s, m
    <3> QED BY <1>1, <2>2, <3>1
  <2> QED BY <2>1, <2>2
<1> HIDE DEF s, m
<1>5. /\ f \in Ear /\ Sound(f) /\ ~f.held
      /\ f.stream = m.stream /\ f.opening = m.opening /\ f.refused = m.refused
      /\ f.ticker = m.ticker /\ f.recorder = m.recorder /\ f.adrift = m.adrift
      /\ f.chunks = m.chunks /\ f.levels = m.levels /\ f.marked = m.marked
      /\ f.jobs = m.jobs /\ f.live = m.live /\ f.heard = m.heard
  BY <1>4, PauseGives, PauseSound
<1> HIDE DEF f
<1>6. Flushing(f) = {} /\ Waiting(f) = Waiting(s)
  BY <1>2, <1>4, <1>5 DEF Flushing, Waiting
<1>7. Flushing(ears)' = {} /\ Waiting(ears)' = Waiting(s)
  BY <1>3, <1>6
<1>8. /\ mic' = mic /\ asking' = asking /\ post' = post /\ summary' = summary
      /\ report' = report /\ gone' = gone
  BY DEF screen
<1>9. take \in Nat /\ take' \in Nat /\ take < take' /\ post[take'] = "none"
  BY TakesFacts DEF IInv, Shapes, Counted
<1>10. Shapes'
  BY <1>3, <1>5, <1>8 DEF IInv, Shapes, Off
<1>11. Asked'
  <2>1. f.opening <=> ears.opening
    BY <1>1, <1>4, <1>5
  <2>2. (asking' <=> asking) /\ mic' = mic /\ phase' # "idle" /\ ~gone'
    BY <1>8
  <2> QED BY <1>1, <1>3, <1>7, <2>1, <2>2 DEF IInv, Asked
<1>a. ears.recorder # None =>
        ears.recorder \in Takes /\ ears.recorder < take' /\ post[ears.recorder] = "none"
  <2>1. ears.recorder # None =>
          ears.recorder \in Takes /\ ears.recorder <= take /\ post[ears.recorder] = "none"
    BY DEF IInv, Listened, Shapes, Ear
  <2> DEFINE r == ears.recorder
  <2>2. r \in Takes => r \in Nat
    BY TakesFacts
  <2> HIDE DEF r
  <2>3. r \in Nat /\ r <= take => r < take'
    BY <1>9
  <2> QED BY <2>1, <2>2, <2>3 DEF r
<1>12. Listened'
  <2>1. f.stream => mic' = "on" /\ phase' # "idle" /\ ~gone'
    BY <1>1, <1>2, <1>4, <1>5, <1>8 DEF IInv, Listened
  <2>2. f.recorder # None => mic' = "on" /\ phase' \in Going /\ ~gone'
    BY <1>1, <1>4, <1>5, <1>8, <2>1 DEF IInv, Listened, Going
  <2>3. f.recorder # None => post'[f.recorder] = "none" /\ f.recorder <= take'
    <3>1. f.recorder \in {None, take', ears.recorder}
      BY <1>1, <1>4, <1>5
    <3>2. CASE f.recorder = take'
      BY <1>8, <1>9, <3>2
    <3>3. CASE f.recorder = ears.recorder
      <4> DEFINE r == ears.recorder
      <4>1. r \in Takes => r \in Nat
        BY TakesFacts
      <4>2. r # None => r \in Takes /\ r < take' /\ post[r] = "none"
        BY <1>a
      <4> HIDE DEF r
      <4>3. r # None => r <= take' /\ post[r] = "none"
        BY <1>9, <4>1, <4>2
      <4> QED BY <1>8, <3>3, <4>3 DEF r
    <3> QED BY <3>1, <3>2, <3>3
  <2> QED BY <1>3, <2>1, <2>2, <2>3 DEF Listened
<1>13. Flushes'
  <2>1. \A k \in Waiting(s) : k.of # None /\ mic' = "on" => f.chunks = {}
    BY <1>4, <1>5, <1>8
  <2> QED BY <1>3, <1>7, <2>1 DEF Flushes
<1>14. Counted'
  <2>1. \A t \in Takes : t > take' \/ t = take' => post'[t] = "none"
    BY <1>8, <1>9, TakesFacts DEF IInv, Counted
  <2>2. \A t \in f.adrift \cup f.chunks : t < take' /\ post'[t] = "none"
    <3>1. \A t \in s.adrift \cup s.chunks : t < take' /\ post[t] = "none"
      BY <1>1, <1>9, TakesFacts DEF IInv, Counted, Shapes, Ear
    <3>2. s.recorder # None => s.recorder < take' /\ post[s.recorder] = "none"
      BY <1>1, <1>a
    <3> QED BY <1>4, <1>5, <1>8, <3>1, <3>2
  <2> QED BY <1>3, <2>1, <2>2 DEF Counted
<1>15. Minute'
  <2>1. mic = "on" => f.chunks = {} /\ f.levels = {} /\ f.marked /\ ~f.held
    BY <1>4, <1>5
  <2>2. mic = "on" => f.recorder \in {None, take'}
    BY <1>1, <1>4, <1>5 DEF Sound
  <2> QED BY <1>3, <1>8, <2>1, <2>2 DEF Minute
<1> QED BY <1>3, <1>5, <1>10, <1>11, <1>12, <1>13, <1>14, <1>15 DEF IInv

(* The clock is paused or goes on.                                          *)
LEMMA Pauses ==
    ASSUME IInv, ~gone, InTime, UNCHANGED <<mic, asking, take, post, screen, gone>>,
           phase \in {"prep", "speak"}, phase' = phase, paused' \in BOOLEAN,
           ears' = PauseEffect(Seen(ears), phase, paused')
    PROVE  IInv'
<1> DEFINE s == Seen(ears)
<1>1. /\ s \in Ear /\ Sound(s)
      /\ \A k \in Flushing(s) :
             k.seen /\ \E j \in Flushing(ears) : k.by = j.by /\ k.of = j.of /\ k.take = j.take
      /\ \A k \in Waiting(s) :
             \E j \in Waiting(ears) : k.by = j.by /\ k.of = j.of /\ k.take = j.take
      /\ (Flushing(s) = {} <=> Flushing(ears) = {}) /\ (Waiting(s) = {} <=> Waiting(ears) = {})
      /\ s.stream = ears.stream /\ s.opening = ears.opening /\ s.refused = ears.refused
      /\ s.ticker = ears.ticker /\ s.recorder = ears.recorder /\ s.adrift = ears.adrift
      /\ s.chunks = ears.chunks /\ s.levels = ears.levels /\ s.marked = ears.marked
      /\ s.held = ears.held /\ s.live = ears.live /\ s.heard = ears.heard
  BY SeenGives DEF IInv, Shapes
<1>2. CASE phase = "prep"
  <2>1. ears' = s
    BY <1>2 DEF PauseEffect
  <2> QED BY <1>2, <2>1, Walks DEF Going
<1>3. CASE phase = "speak"
  <2> DEFINE f == IF paused' THEN Pause(s) ELSE Resume(s)
  <2>1. ears' = f
    BY <1>3 DEF PauseEffect
  <2>2. f \in {Pause(s), Resume(s)} /\ (paused' => f = Pause(s)) /\ (~paused' => f = Resume(s))
    OBVIOUS
  <2> HIDE DEF s, f
  <2>3. /\ f \in Ear /\ Sound(f) /\ (f = Pause(s) => (f.held <=> (s.held \/ s.marked))) /\ (f = Resume(s) => ~f.held)
        /\ f.stream = s.stream /\ f.opening = s.opening /\ f.refused = s.refused
        /\ f.ticker = s.ticker /\ f.recorder = s.recorder /\ f.adrift = s.adrift
        /\ f.chunks = s.chunks /\ f.levels = s.levels /\ f.marked = s.marked
        /\ f.jobs = s.jobs /\ f.live = s.live /\ f.heard = s.heard
    BY <1>1, <2>2, PauseGives, PauseSound
  <2>4. f.marked => (f.held <=> paused')
    BY <2>2, <2>3
  <2>5. Flushing(f) = {} /\ Waiting(f) = Waiting(s)
    BY <1>1, <1>3, <2>3, PressFinds DEF Going, Flushing, Waiting
  <2>6. Flushing(ears)' = {} /\ Waiting(ears)' = Waiting(s)
    BY <2>1, <2>5
  <2>7. /\ mic' = mic /\ asking' = asking /\ take' = take /\ post' = post /\ summary' = summary
        /\ report' = report /\ gone' = gone
    BY DEF screen
  <2>8. Shapes'
    BY <2>1, <2>3, <2>7 DEF IInv, Shapes, Off
  <2>9. Asked'
    <3>1. f.opening <=> ears.opening
      BY <1>1, <2>3
    <3> QED BY <1>1, <2>1, <2>6, <2>7, <3>1 DEF IInv, Asked
  <2>10. Listened'
    <3>1. Flushing(ears) = {}
      BY <1>3, PressFinds DEF Going
    <3> QED BY <1>1, <2>1, <2>3, <2>6, <2>7, <3>1 DEF IInv, Listened
  <2>11. Flushes'
    BY <1>1, <2>1, <2>3, <2>6, <2>7 DEF IInv, Flushes
  <2>12. Counted'
    BY <1>1, <2>1, <2>3, <2>7 DEF IInv, Counted
  <2>13. Minute'
    BY <1>1, <2>1, <2>3, <2>4, <2>7 DEF IInv, Minute
  <2> QED BY <2>1, <2>3, <2>8, <2>9, <2>10, <2>11, <2>12, <2>13 DEF IInv
<1> QED BY <1>2, <1>3

(* The round is left for the idle screen.                                   *)
LEMMA Idles ==
    ASSUME IInv, ~gone, InTime, UNCHANGED <<mic, asking, take, post, screen, gone>>,
           phase = "topic", phase' = "idle", paused' \in BOOLEAN,
           ears' = MicEffect(Seen(ears), "idle", mic, take')
    PROVE  IInv'
<1> DEFINE s == Seen(ears)
<1>1. /\ s \in Ear /\ Sound(s)
      /\ \A k \in Flushing(s) :
             k.seen /\ \E j \in Flushing(ears) : k.by = j.by /\ k.of = j.of /\ k.take = j.take
      /\ \A k \in Waiting(s) :
             \E j \in Waiting(ears) : k.by = j.by /\ k.of = j.of /\ k.take = j.take
      /\ (Flushing(s) = {} <=> Flushing(ears) = {}) /\ (Waiting(s) = {} <=> Waiting(ears) = {})
      /\ s.stream = ears.stream /\ s.opening = ears.opening /\ s.refused = ears.refused
      /\ s.ticker = ears.ticker /\ s.recorder = ears.recorder /\ s.adrift = ears.adrift
      /\ s.chunks = ears.chunks /\ s.levels = ears.levels /\ s.marked = ears.marked
      /\ s.held = ears.held /\ s.live = ears.live /\ s.heard = ears.heard
  BY SeenGives DEF IInv, Shapes
<1>2. Flushing(ears) = {} /\ Flushing(s) = {}
  BY <1>1, PressFinds DEF Going
<1>3. /\ mic' = mic /\ asking' = asking /\ take' = take /\ post' = post /\ summary' = summary
      /\ report' = report /\ gone' = gone
  BY DEF screen
<1>4. CASE mic # "on"
  <2>1. ears' = s
    BY <1>4 DEF MicEffect
  <2> HIDE DEF s
  <2>2. Flushing(ears)' = {} /\ Waiting(ears)' = Waiting(s)
    BY <1>2, <2>1
  <2>3. Shapes'
    BY <1>1, <1>3, <2>1 DEF IInv, Shapes, Off
  <2>4. Asked'
    <3>1. s.opening <=> ears.opening
      BY <1>1
    <3> QED BY <1>1, <1>3, <1>4, <2>1, <2>2, <3>1 DEF IInv, Asked
  <2>5. Listened' /\ Flushes'
    BY <1>1, <1>2, <1>3, <1>4, <2>1, <2>2 DEF IInv, Listened, Flushes
  <2>6. Counted' /\ Minute'
    BY <1>1, <1>3, <2>1 DEF IInv, Counted, Minute
  <2> QED BY <1>1, <2>1, <2>3, <2>4, <2>5, <2>6 DEF IInv
<1>5. CASE mic = "on"
  <2> DEFINE f == Stop(s, "idle", None)
  <2>1. ears' = f
    BY <1>5 DEF MicEffect
  <2>2. "idle" \in Callers /\ ~asking
    BY <1>5 DEF Callers, IInv, Asked
  <2> HIDE DEF s
  <2>3. CASE s.opening
    <3> DEFINE j == Stopping("idle", None, None)
    <3>1. /\ f \in Ear /\ Sound(f)
          /\ f.jobs = s.jobs \cup {j}
          /\ Flushing(f) = Flushing(s) /\ Waiting(f) = Waiting(s) \cup {j}
          /\ f.stream = s.stream /\ f.opening = s.opening /\ f.refused = s.refused
          /\ f.ticker = s.ticker /\ f.recorder = s.recorder /\ f.adrift = s.adrift
          /\ f.chunks = s.chunks /\ f.levels = s.levels /\ f.marked = s.marked
          /\ f.held = s.held /\ f.live = s.live /\ f.heard = s.heard
      BY <1>1, <2>2, <2>3, StopWaits
    <3>2. j.of = None
      BY DEF Stopping
    <3>3. ~f.stream /\ f.recorder = None
      BY <1>1, <2>3, <3>1, AskedIsShut
    <3> HIDE DEF f, j
    <3>4. Flushing(ears)' = {} /\ Waiting(ears)' = Waiting(s) \cup {j}
      BY <1>2, <2>1, <3>1
    <3>5. Shapes'
      BY <1>3, <2>1, <3>1 DEF IInv, Shapes, Off
    <3>6. Asked' /\ Listened'
      BY <1>3, <2>1, <2>2, <3>3, <3>4 DEF Asked, Listened
    <3>7. Flushes'
      <4>1. \A k \in Waiting(s) : k.of # None => s.chunks = {}
        BY <1>1, <1>5 DEF IInv, Flushes
      <4> QED BY <2>1, <3>1, <3>2, <3>4, <4>1 DEF Flushes
    <3>8. Counted' /\ Minute'
      BY <1>1, <1>3, <2>1, <3>1 DEF IInv, Counted, Minute
    <3> QED BY <2>1, <3>1, <3>5, <3>6, <3>7, <3>8 DEF IInv
  <2>4. CASE ~s.opening /\ s.recorder # None
    <3> DEFINE j == Stopping("idle", None, s.recorder)
    <3>1. /\ f \in Ear /\ Sound(f)
          /\ f.jobs = s.jobs \cup {j}
          /\ Flushing(f) = {j} /\ Waiting(f) = Waiting(s)
          /\ ~f.ticker /\ f.recorder = None
          /\ f.stream = s.stream /\ f.opening = s.opening /\ f.refused = s.refused
          /\ f.adrift = s.adrift /\ f.chunks = s.chunks /\ f.levels = s.levels
          /\ f.marked = s.marked /\ f.held = s.held /\ f.heard = s.heard
      BY <1>1, <2>2, <2>4, TakesFacts, StopFlushes
    <3>2. j.of = None /\ j.by = "idle" /\ ~j.seen /\ j.by # "again"
      BY DEF Stopping
    <3>3. s.stream /\ Waiting(s) = {}
      BY <1>1, <2>4 DEF Sound
    <3> HIDE DEF f, j
    <3>4. Flushing(ears)' = {j} /\ Waiting(ears)' = {}
      BY <2>1, <3>1, <3>3
    <3>5. Shapes'
      BY <1>3, <2>1, <3>1 DEF IInv, Shapes, Off
    <3>6. Asked' /\ Listened'
      BY <1>3, <2>1, <2>2, <2>4, <3>1, <3>4 DEF Asked, Listened
    <3>7. Flushes'
      BY <2>1, <3>1, <3>2, <3>3, <3>4 DEF Flushes, Pending
    <3>8. Counted' /\ Minute'
      BY <1>1, <1>3, <2>1, <3>1 DEF IInv, Counted, Minute
    <3> QED BY <2>1, <3>1, <3>5, <3>6, <3>7, <3>8 DEF IInv
  <2>5. CASE ~s.opening /\ s.recorder = None
    <3>1. /\ f \in Ear /\ Sound(f)
          /\ ~f.stream /\ ~f.ticker /\ ~f.opening /\ ~f.marked /\ ~f.held /\ f.levels = {}
          /\ f.recorder = None
          /\ f.chunks = IF Flushing(s) = {} THEN s.adrift ELSE {}
          /\ f.adrift = IF Flushing(s) = {} THEN {} ELSE s.adrift
          /\ f.heard = [t \in Takes |-> IF t = None THEN Heard(s.chunks, s.levels) ELSE s.heard[t]]
          /\ f.refused = s.refused /\ f.jobs = s.jobs /\ Flushing(f) = Flushing(s)
          /\ Waiting(f) = Waiting(s)
      BY <1>1, <2>2, <2>5, StopCloses
    <3>2. f.chunks = s.adrift /\ f.adrift = {}
      BY <1>2, <3>1
    <3>3. Waiting(s) = {}
      BY <1>1, <2>5 DEF Sound
    <3> HIDE DEF f
    <3>4. Flushing(ears)' = {} /\ Waiting(ears)' = {}
      BY <1>2, <2>1, <3>1, <3>3
    <3>5. Shapes'
      BY <1>3, <2>1, <3>1 DEF IInv, Shapes, Off
    <3>6. Asked' /\ Listened' /\ Flushes'
      BY <1>3, <2>1, <2>2, <3>1, <3>4 DEF Asked, Listened, Flushes
    <3>7. Counted' /\ Minute'
      BY <1>1, <1>3, <2>1, <3>1, <3>2 DEF IInv, Counted, Minute
    <3> QED BY <2>1, <3>1, <3>5, <3>6, <3>7 DEF IInv
  <2> QED BY <2>3, <2>4, <2>5
<1> QED BY <1>4, <1>5

(* A step that hands nothing over says nothing untrue.                      *)
LEMMA NothingHanded ==
    ASSUME ears'.heard = ears.heard PROVE HeardIsOfTheMinute /\ OffIsOff
  BY DEF HeardIsOfTheMinute, OffIsOff, Handed

(* The minute ends: the one step of the page that collects what was heard.  *)
LEMMA Writes == IInv /\ Write => IInv' /\ HeardIsOfTheMinute /\ OffIsOff
<1> SUFFICES ASSUME IInv, Write PROVE IInv' /\ HeardIsOfTheMinute /\ OffIsOff
  OBVIOUS
<1> DEFINE s == Seen(ears)
<1>1. /\ s \in Ear /\ Sound(s)
      /\ \A k \in Flushing(s) :
             k.seen /\ \E j \in Flushing(ears) : k.by = j.by /\ k.of = j.of /\ k.take = j.take
      /\ \A k \in Waiting(s) :
             \E j \in Waiting(ears) : k.by = j.by /\ k.of = j.of /\ k.take = j.take
      /\ (Flushing(s) = {} <=> Flushing(ears) = {}) /\ (Waiting(s) = {} <=> Waiting(ears) = {})
      /\ s.stream = ears.stream /\ s.opening = ears.opening /\ s.refused = ears.refused
      /\ s.ticker = ears.ticker /\ s.recorder = ears.recorder /\ s.adrift = ears.adrift
      /\ s.chunks = ears.chunks /\ s.levels = ears.levels /\ s.marked = ears.marked
      /\ s.held = ears.held /\ s.live = ears.live /\ s.heard = ears.heard
  BY SeenGives DEF IInv, Shapes
<1>2. ~gone /\ InTime /\ phase = "speak" /\ phase' = "done" /\ paused' = FALSE
  BY DEF Write, Flow!Finish
<1>3. Flushing(ears) = {} /\ Flushing(s) = {}
  BY <1>1, <1>2, PressFinds DEF Going
<1>4. /\ mic' = mic /\ asking' = asking /\ take' = take /\ gone' = gone
      /\ summary' = None /\ report' = None /\ post' = [post EXCEPT ![take] = "sent"]
  BY DEF Write
<1>5. /\ take \in Takes /\ take \in Nat /\ take \in Takes \cup {None}
      /\ \A t \in Takes : t > take => post[t] = "none"
  BY <1>2, TakesFacts DEF IInv, Counted
<1>6. /\ \A t \in Takes : t # take => post'[t] = post[t]
      /\ post' \in [Takes -> {"none", "sent", "written", "lost", "attached", "read"}]
  BY <1>4, <1>5 DEF IInv, Shapes
<1>7. \A t \in Takes : t > take' => post'[t] = "none"
  BY <1>4, <1>5, <1>6
<1>8. \A t \in s.adrift \cup s.chunks : t < take' /\ post'[t] = "none" /\ t \in Takes
  <2>1. \A t \in s.adrift \cup s.chunks : t \in Takes /\ t < take /\ post[t] = "none"
    BY <1>1 DEF IInv, Counted, Ear
  <2> QED BY <1>4, <1>5, <1>6, <2>1
<1>9. mic = "on" => s.chunks = {} /\ s.levels \subseteq {take} /\ s.recorder \in {None, take}
  BY <1>1, <1>2 DEF IInv, Minute
<1>10. (s.stream \/ s.recorder # None) => mic = "on"
  BY <1>1, <1>3 DEF IInv, Listened
<1> DEFINE f == Stop(s, "record", take)
<1>11. ears' = f
  BY DEF Write
<1>12. "record" \in Callers
  BY DEF Callers
<1>13. Shapes' <=> ears' \in Ear
  BY <1>2, <1>4, <1>6 DEF IInv, Shapes, Off
<1> HIDE DEF s
<1>14. CASE s.opening
  <2> DEFINE j == Stopping("record", take, None)
  <2>1. /\ f \in Ear /\ Sound(f)
        /\ f.jobs = s.jobs \cup {j}
        /\ Flushing(f) = Flushing(s) /\ Waiting(f) = Waiting(s) \cup {j}
        /\ f.stream = s.stream /\ f.opening = s.opening /\ f.refused = s.refused
        /\ f.ticker = s.ticker /\ f.recorder = s.recorder /\ f.adrift = s.adrift
        /\ f.chunks = s.chunks /\ f.levels = s.levels /\ f.marked = s.marked
        /\ f.held = s.held /\ f.live = s.live /\ f.heard = s.heard
    BY <1>1, <1>5, <1>12, <1>14, StopWaits
  <2>2. ~f.stream /\ f.recorder = None
    BY <1>1, <1>14, <2>1, AskedIsShut
  <2> HIDE DEF f, j
  <2>3. Flushing(ears)' = {} /\ Waiting(ears)' = Waiting(s) \cup {j}
    BY <1>3, <1>11, <2>1
  <2>4. ears.opening /\ (asking => mic # "on")
    BY <1>1, <1>14 DEF IInv, Asked
  <2>5. Asked' /\ Listened'
    BY <1>1, <1>4, <1>11, <1>14, <2>1, <2>2, <2>3, <2>4 DEF Asked, Listened
  <2>6. Flushes'
    BY <1>4, <1>9, <1>11, <2>1, <2>3 DEF Flushes
  <2>7. Counted' /\ Minute'
    BY <1>2, <1>7, <1>8, <1>11, <2>1 DEF Counted, Minute
  <2> QED BY <1>1, <1>11, <1>13, <2>1, <2>5, <2>6, <2>7, NothingHanded DEF IInv
<1>15. CASE ~s.opening /\ s.recorder # None
  <2> DEFINE j == Stopping("record", take, s.recorder)
  <2>1. /\ f \in Ear /\ Sound(f)
        /\ f.jobs = s.jobs \cup {j}
        /\ Flushing(f) = {j} /\ Waiting(f) = Waiting(s)
        /\ ~f.ticker /\ f.recorder = None
        /\ f.stream = s.stream /\ f.opening = s.opening /\ f.refused = s.refused
        /\ f.adrift = s.adrift /\ f.chunks = s.chunks /\ f.levels = s.levels
        /\ f.marked = s.marked /\ f.held = s.held /\ f.heard = s.heard
    BY <1>1, <1>5, <1>12, <1>15, TakesFacts, StopFlushes
  <2>2. /\ j.of = take /\ j.by = "record" /\ ~j.seen /\ j.by # "again" /\ j.take = take
        /\ mic = "on"
    BY <1>9, <1>10, <1>15 DEF Stopping
  <2>3. s.stream /\ Waiting(s) = {}
    BY <1>1, <1>15 DEF Sound
  <2> HIDE DEF f, j
  <2>4. Flushing(ears)' = {j} /\ Waiting(ears)' = {}
    BY <1>11, <2>1, <2>3
  <2>5. ~asking
    BY <2>2 DEF IInv, Asked
  <2>6. Asked' /\ Listened'
    BY <1>4, <1>11, <1>15, <2>1, <2>4, <2>5 DEF Asked, Listened
  <2>7. Flushes'
    BY <1>2, <1>4, <1>9, <1>11, <2>1, <2>2, <2>3, <2>4 DEF Flushes, Pending
  <2>8. Counted' /\ Minute'
    BY <1>2, <1>7, <1>8, <1>11, <2>1 DEF Counted, Minute
  <2> QED BY <1>1, <1>11, <1>13, <2>1, <2>6, <2>7, <2>8, NothingHanded DEF IInv
<1>16. CASE ~s.opening /\ s.recorder = None
  <2>1. /\ f \in Ear /\ Sound(f)
        /\ ~f.stream /\ ~f.ticker /\ ~f.opening /\ ~f.marked /\ ~f.held /\ f.levels = {}
        /\ f.recorder = None
        /\ f.chunks = IF Flushing(s) = {} THEN s.adrift ELSE {}
        /\ f.adrift = IF Flushing(s) = {} THEN {} ELSE s.adrift
        /\ f.heard = [t \in Takes |-> IF t = take THEN Heard(s.chunks, s.levels) ELSE s.heard[t]]
        /\ f.refused = s.refused /\ f.jobs = s.jobs /\ Flushing(f) = Flushing(s)
        /\ Waiting(f) = Waiting(s)
    BY <1>1, <1>5, <1>12, <1>16, StopCloses
  <2>2. f.chunks = s.adrift /\ f.adrift = {}
    BY <1>3, <2>1
  <2>3. Waiting(s) = {} /\ (~s.stream => s.levels = {})
    BY <1>1, <1>16 DEF Sound
  <2> HIDE DEF f
  <2>4. Flushing(ears)' = {} /\ Waiting(ears)' = {}
    BY <1>3, <1>11, <2>1, <2>3
  <2>5. ~asking
    BY <1>1, <1>16 DEF IInv, Asked
  <2>6. Asked' /\ Listened' /\ Flushes'
    BY <1>4, <1>11, <2>1, <2>4, <2>5 DEF Asked, Listened, Flushes
  <2>7. Counted' /\ Minute'
    BY <1>2, <1>7, <1>8, <1>11, <2>1, <2>2 DEF Counted, Minute
  <2>8. ASSUME NEW t \in Takes, Handed(t) PROVE ears'.heard[t] = Heard(s.chunks, s.levels)
    BY <1>1, <1>11, <2>1, <2>8 DEF Handed
  <2>9. Heard(s.chunks, s.levels).audio = s.chunks /\ Heard(s.chunks, s.levels).levels = s.levels
    BY DEF Heard
  <2>10. ASSUME NEW t \in Takes, Handed(t) PROVE t = take
    BY <1>1, <1>11, <2>1, <2>10 DEF Handed
  <2>11. HeardIsOfTheMinute
    BY <1>9, <2>8, <2>9, <2>10 DEF HeardIsOfTheMinute
  <2>12. OffIsOff
    BY <1>8, <1>10, <2>3, <2>8, <2>9 DEF OffIsOff
  <2> QED BY <1>11, <1>13, <2>1, <2>6, <2>7, <2>11, <2>12 DEF IInv
<1> QED BY <1>14, <1>15, <1>16

(* The report is turned on.                                                 *)
LEMMA TurnsOn == IInv /\ TurnOn => IInv' /\ HeardIsOfTheMinute /\ OffIsOff
<1> SUFFICES ASSUME IInv, TurnOn PROVE IInv' /\ HeardIsOfTheMinute /\ OffIsOff
  OBVIOUS
<1> DEFINE s == Seen(ears)
<1>1. /\ s \in Ear /\ Sound(s)
      /\ \A k \in Flushing(s) :
             k.seen /\ \E j \in Flushing(ears) : k.by = j.by /\ k.of = j.of /\ k.take = j.take
      /\ \A k \in Waiting(s) :
             \E j \in Waiting(ears) : k.by = j.by /\ k.of = j.of /\ k.take = j.take
      /\ (Flushing(s) = {} <=> Flushing(ears) = {}) /\ (Waiting(s) = {} <=> Waiting(ears) = {})
      /\ s.stream = ears.stream /\ s.opening = ears.opening /\ s.refused = ears.refused
      /\ s.ticker = ears.ticker /\ s.recorder = ears.recorder /\ s.adrift = ears.adrift
      /\ s.chunks = ears.chunks /\ s.levels = ears.levels /\ s.marked = ears.marked
      /\ s.held = ears.held /\ s.live = ears.live /\ s.heard = ears.heard
  BY SeenGives DEF IInv, Shapes
<1>2. ~gone /\ InTime /\ phase = "idle" /\ mic # "on" /\ ~ears.stream /\ asking' = TRUE
  BY DEF TurnOn, Press
<1>3. /\ phase' = phase /\ paused' = paused /\ take' = take /\ post' = post
      /\ summary' = summary /\ report' = report /\ gone' = gone /\ mic' = mic
  BY DEF TurnOn, Press, screen
<1>4. Flushing(ears) = {} /\ Flushing(s) = {}
  BY <1>1, <1>2 DEF IInv, Flushes
<1> DEFINE f == Start(s)
<1>5. ears' = f
  BY DEF TurnOn, Press
<1> HIDE DEF s
<1>6. /\ f \in Ear /\ f.opening /\ f.jobs = s.jobs
      /\ f.stream = s.stream /\ f.ticker = s.ticker /\ f.recorder = s.recorder
      /\ f.adrift = s.adrift /\ f.chunks = s.chunks /\ f.levels = s.levels
      /\ f.marked = s.marked /\ f.held = s.held /\ f.live = s.live /\ f.heard = s.heard
  <2>1. CASE s.opening
    BY <1>1, <2>1, StartIdle
  <2>2. CASE ~s.opening
    BY <1>1, <1>2, <2>2, StartGives
  <2> QED BY <2>1, <2>2
<1>7. Sound(f)
  BY <1>1, <1>4, StartSound
<1> HIDE DEF f
<1>8. Flushing(f) = {} /\ Waiting(f) = Waiting(s)
  BY <1>4, <1>6 DEF Flushing, Waiting
<1>9. Flushing(ears)' = {} /\ Waiting(ears)' = Waiting(s)
  BY <1>5, <1>8
<1>10. Shapes'
  BY <1>2, <1>3, <1>5, <1>6 DEF IInv, Shapes, Off
<1>11. Asked'
  BY <1>2, <1>3, <1>5, <1>6 DEF Asked
<1>12. Listened' /\ Flushes'
  BY <1>1, <1>2, <1>3, <1>5, <1>6, <1>9 DEF IInv, Listened, Flushes, Going
<1>13. Counted' /\ Minute'
  BY <1>1, <1>2, <1>3, <1>5, <1>6 DEF IInv, Counted, Minute
<1> QED BY <1>1, <1>5, <1>6, <1>7, <1>10, <1>11, <1>12, <1>13, NothingHanded DEF IInv

(* The report is turned off.                                                *)
LEMMA TurnsOff == IInv /\ TurnOff => IInv' /\ HeardIsOfTheMinute /\ OffIsOff
<1> SUFFICES ASSUME IInv, TurnOff PROVE IInv' /\ HeardIsOfTheMinute /\ OffIsOff
  OBVIOUS
<1> DEFINE s == Seen(ears)
<1>1. /\ s \in Ear /\ Sound(s)
      /\ \A k \in Flushing(s) :
             k.seen /\ \E j \in Flushing(ears) : k.by = j.by /\ k.of = j.of /\ k.take = j.take
      /\ \A k \in Waiting(s) :
             \E j \in Waiting(ears) : k.by = j.by /\ k.of = j.of /\ k.take = j.take
      /\ (Flushing(s) = {} <=> Flushing(ears) = {}) /\ (Waiting(s) = {} <=> Waiting(ears) = {})
      /\ s.stream = ears.stream /\ s.opening = ears.opening /\ s.refused = ears.refused
      /\ s.ticker = ears.ticker /\ s.recorder = ears.recorder /\ s.adrift = ears.adrift
      /\ s.chunks = ears.chunks /\ s.levels = ears.levels /\ s.marked = ears.marked
      /\ s.held = ears.held /\ s.live = ears.live /\ s.heard = ears.heard
  BY SeenGives DEF IInv, Shapes
<1>2. ~gone /\ InTime /\ phase = "idle" /\ mic' = "off" /\ (asking' <=> asking) /\ ears' = s
  BY DEF TurnOff, Press
<1>3. /\ phase' = phase /\ paused' = paused /\ take' = take /\ post' = post
      /\ summary' = summary /\ report' = report /\ gone' = gone /\ asking' = asking
  BY DEF TurnOff, Press, screen
<1>4. \A j \in Flushing(ears) : j.by = "idle" /\ j.of = None
  <2>1. \A j \in Flushing(ears) : j.by = "idle" /\ j \in ears.jobs
    BY <1>2, PressFinds DEF Flushing
  <2> QED BY <2>1 DEF IInv, Sound
<1> HIDE DEF s
<1>5. \A k \in Flushing(s) : k.seen /\ k.by = "idle" /\ k.of = None
  BY <1>1, <1>4
<1>6. Flushing(ears)' = Flushing(s) /\ Waiting(ears)' = Waiting(s)
  BY <1>2
<1>7. Shapes'
  BY <1>1, <1>2, <1>3 DEF IInv, Shapes, Off
<1>8. Asked'
  <2>1. s.opening <=> ears.opening
    BY <1>1
  <2> QED BY <1>1, <1>2, <1>6, <2>1 DEF IInv, Asked
<1>9. Listened'
  BY <1>1, <1>2, <1>3, <1>6 DEF IInv, Listened, Going
<1>10. Flushes'
  BY <1>1, <1>2, <1>3, <1>5, <1>6 DEF IInv, Flushes, Pending
<1>11. Counted' /\ Minute'
  BY <1>1, <1>2, <1>3 DEF IInv, Counted, Minute
<1> QED BY <1>1, <1>2, <1>7, <1>8, <1>9, <1>10, <1>11, NothingHanded DEF IInv

(* The microphone is checked again.                                         *)
LEMMA ChecksAgain == IInv /\ CheckAgain => IInv' /\ HeardIsOfTheMinute /\ OffIsOff
<1> SUFFICES ASSUME IInv, CheckAgain PROVE IInv' /\ HeardIsOfTheMinute /\ OffIsOff
  OBVIOUS
<1> DEFINE s == Seen(ears)
<1>1. /\ s \in Ear /\ Sound(s)
      /\ \A k \in Flushing(s) :
             k.seen /\ \E j \in Flushing(ears) : k.by = j.by /\ k.of = j.of /\ k.take = j.take
      /\ \A k \in Waiting(s) :
             \E j \in Waiting(ears) : k.by = j.by /\ k.of = j.of /\ k.take = j.take
      /\ (Flushing(s) = {} <=> Flushing(ears) = {}) /\ (Waiting(s) = {} <=> Waiting(ears) = {})
      /\ s.stream = ears.stream /\ s.opening = ears.opening /\ s.refused = ears.refused
      /\ s.ticker = ears.ticker /\ s.recorder = ears.recorder /\ s.adrift = ears.adrift
      /\ s.chunks = ears.chunks /\ s.levels = ears.levels /\ s.marked = ears.marked
      /\ s.held = ears.held /\ s.live = ears.live /\ s.heard = ears.heard
  BY SeenGives DEF IInv, Shapes
<1> DEFINE e == Stop(s, "again", None)
<1> DEFINE f == IF e.jobs = s.jobs THEN Start(e) ELSE e
<1>2. ~gone /\ InTime /\ phase = "topic" /\ mic = "on" /\ (ears.stream \/ ears.refused) /\ ears' = f
  BY DEF CheckAgain, Press
<1>3. /\ phase' = phase /\ paused' = paused /\ take' = take /\ post' = post
      /\ summary' = summary /\ report' = report /\ gone' = gone /\ asking' = asking
      /\ mic' = mic
  BY DEF CheckAgain, Press, screen
<1>4. Flushing(ears) = {} /\ Flushing(s) = {}
  BY <1>1, <1>2, PressFinds DEF Going
<1>5. ~s.opening /\ ~asking /\ "again" \in Callers
  BY <1>1, <1>2 DEF IInv, Asked, Sound, Callers
<1>6. Waiting(s) = {}
  BY <1>1, <1>5 DEF Sound
<1> HIDE DEF s
<1>7. CASE s.recorder # None
  <2> DEFINE j == Stopping("again", None, s.recorder)
  <2>1. /\ e \in Ear /\ Sound(e)
        /\ e.jobs = s.jobs \cup {j}
        /\ Flushing(e) = {j} /\ Waiting(e) = Waiting(s)
        /\ ~e.ticker /\ e.recorder = None
        /\ e.stream = s.stream /\ e.opening = s.opening /\ e.refused = s.refused
        /\ e.adrift = s.adrift /\ e.chunks = s.chunks /\ e.levels = s.levels
        /\ e.marked = s.marked /\ e.held = s.held /\ e.heard = s.heard
    BY <1>1, <1>5, <1>7, TakesFacts, StopFlushes
  <2>2. j.of = None /\ j.by = "again" /\ ~j.seen /\ j.take = s.recorder
    BY DEF Stopping
  <2>3. s.stream
    BY <1>1, <1>7 DEF Sound
  <2> HIDE DEF e, j
  <2>4. j \notin s.jobs
    BY <1>4, <1>7, <2>2 DEF Flushing
  <2>5. ears' = e
    BY <1>2, <2>1, <2>4
  <2>6. Flushing(ears)' = {j} /\ Waiting(ears)' = {}
    BY <1>6, <2>1, <2>5
  <2>7. Shapes'
    BY <1>3, <2>1, <2>5 DEF IInv, Shapes, Off
  <2>8. Asked' /\ Listened'
    BY <1>3, <1>5, <2>1, <2>5, <2>6 DEF Asked, Listened
  <2>9. Flushes'
    BY <1>2, <1>3, <2>1, <2>2, <2>3, <2>5, <2>6 DEF Flushes, Pending
  <2>10. Counted' /\ Minute'
    BY <1>1, <1>2, <1>3, <2>1, <2>5 DEF IInv, Counted, Minute
  <2> QED BY <1>1, <2>1, <2>5, <2>7, <2>8, <2>9, <2>10, NothingHanded DEF IInv
<1>8. CASE s.recorder = None
  <2>1. /\ e \in Ear /\ Sound(e)
        /\ ~e.stream /\ ~e.ticker /\ ~e.opening /\ ~e.marked /\ ~e.held /\ e.levels = {}
        /\ e.recorder = None
        /\ e.chunks = IF Flushing(s) = {} THEN s.adrift ELSE {}
        /\ e.adrift = IF Flushing(s) = {} THEN {} ELSE s.adrift
        /\ e.heard = [t \in Takes |-> IF t = None THEN Heard(s.chunks, s.levels) ELSE s.heard[t]]
        /\ e.refused = s.refused /\ e.jobs = s.jobs /\ Flushing(e) = Flushing(s)
        /\ Waiting(e) = Waiting(s)
    BY <1>1, <1>5, <1>8, StopCloses
  <2> HIDE DEF e
  <2>2. /\ f \in Ear /\ f.opening /\ ~f.refused
        /\ f.stream = e.stream /\ f.ticker = e.ticker /\ f.recorder = e.recorder
        /\ f.adrift = e.adrift /\ f.chunks = e.chunks /\ f.levels = e.levels
        /\ f.marked = e.marked /\ f.held = e.held /\ f.jobs = e.jobs /\ f.live = e.live
        /\ f.heard = e.heard
    BY <2>1, StartGives
  <2>3. Sound(f)
    BY <1>4, <2>1, StartSound
  <2>4. f.chunks = s.adrift /\ f.adrift = {}
    BY <1>4, <2>1, <2>2
  <2> HIDE DEF f
  <2>5. Flushing(f) = {} /\ Waiting(f) = {}
    BY <1>4, <1>6, <2>1, <2>2 DEF Flushing, Waiting
  <2>6. Flushing(ears)' = {} /\ Waiting(ears)' = {}
    BY <1>2, <2>5
  <2>7. Shapes'
    BY <1>2, <1>3, <2>2 DEF IInv, Shapes, Off
  <2>8. Asked' /\ Listened' /\ Flushes'
    BY <1>2, <1>3, <1>5, <2>1, <2>2, <2>6 DEF Asked, Listened, Flushes
  <2>9. Counted' /\ Minute'
    BY <1>1, <1>2, <1>3, <2>4 DEF IInv, Counted, Minute
  <2>10. HeardIsOfTheMinute /\ OffIsOff
    <3>1. \A t \in Takes : ears'.heard[t] = ears.heard[t]
      BY <1>1, <1>2, <2>1, <2>2, TakesFacts
    <3> QED BY <3>1 DEF HeardIsOfTheMinute, OffIsOff, Handed
  <2> QED BY <1>2, <2>2, <2>3, <2>7, <2>8, <2>9, <2>10 DEF IInv
<1> QED BY <1>7, <1>8

(* The page is left.                                                        *)
LEMMA Unmounts == IInv /\ Unmount => IInv' /\ HeardIsOfTheMinute /\ OffIsOff
<1> SUFFICES ASSUME IInv, Unmount PROVE IInv' /\ HeardIsOfTheMinute /\ OffIsOff
  OBVIOUS
<1> DEFINE s == Seen(ears)
<1>1. /\ s \in Ear /\ Sound(s)
      /\ \A k \in Flushing(s) :
             k.seen /\ \E j \in Flushing(ears) : k.by = j.by /\ k.of = j.of /\ k.take = j.take
      /\ \A k \in Waiting(s) :
             \E j \in Waiting(ears) : k.by = j.by /\ k.of = j.of /\ k.take = j.take
      /\ (Flushing(s) = {} <=> Flushing(ears) = {}) /\ (Waiting(s) = {} <=> Waiting(ears) = {})
      /\ s.stream = ears.stream /\ s.opening = ears.opening /\ s.refused = ears.refused
      /\ s.ticker = ears.ticker /\ s.recorder = ears.recorder /\ s.adrift = ears.adrift
      /\ s.chunks = ears.chunks /\ s.levels = ears.levels /\ s.marked = ears.marked
      /\ s.held = ears.held /\ s.live = ears.live /\ s.heard = ears.heard
  BY SeenGives DEF IInv, Shapes
<1> DEFINE f == Stop(s, "unmount", None)
<1>2. ~gone /\ InTime /\ gone' = TRUE /\ ears' = f
  BY DEF Unmount
<1>3. /\ phase' = phase /\ paused' = paused /\ take' = take /\ post' = post
      /\ summary' = summary /\ report' = report /\ asking' = asking /\ mic' = mic
  BY DEF Unmount, screen
<1>4. /\ \A k \in Flushing(s) : k.by # "again"
      /\ \A k \in Flushing(s) :
             k.of # None => mic = "on" /\ s.chunks = {} /\ s.levels \subseteq {k.of} /\ k.take = k.of
      /\ \A k \in Waiting(s) : k.of # None /\ mic = "on" => s.chunks = {}
  BY <1>1, <1>2, PressFinds DEF IInv, Flushes
<1>5. "unmount" \in Callers /\ (ears.opening \/ ~asking) /\ (asking => mic # "on")
  BY DEF Callers, IInv, Asked
<1> HIDE DEF s
<1>6. Minute'
  BY <1>2 DEF Minute
<1>7. CASE s.opening
  <2> DEFINE j == Stopping("unmount", None, None)
  <2>1. /\ f \in Ear /\ Sound(f)
        /\ f.jobs = s.jobs \cup {j}
        /\ Flushing(f) = Flushing(s) /\ Waiting(f) = Waiting(s) \cup {j}
        /\ f.stream = s.stream /\ f.opening = s.opening /\ f.refused = s.refused
        /\ f.ticker = s.ticker /\ f.recorder = s.recorder /\ f.adrift = s.adrift
        /\ f.chunks = s.chunks /\ f.levels = s.levels /\ f.marked = s.marked
        /\ f.held = s.held /\ f.live = s.live /\ f.heard = s.heard
    BY <1>1, <1>5, <1>7, StopWaits
  <2>2. ~f.stream /\ f.recorder = None /\ Flushing(s) = {} /\ j.of = None
    BY <1>1, <1>7, <2>1, AskedIsShut DEF Stopping
  <2> HIDE DEF f, j
  <2>3. Flushing(ears)' = {} /\ Waiting(ears)' = Waiting(s) \cup {j}
    BY <1>2, <2>1, <2>2
  <2>4. Shapes'
    BY <1>2, <1>3, <2>1 DEF IInv, Shapes, Off
  <2>5. Asked' /\ Listened'
    BY <1>2, <1>3, <1>5, <1>7, <2>1, <2>2, <2>3 DEF Asked, Listened
  <2>6. Flushes'
    BY <1>2, <1>3, <1>4, <2>1, <2>2, <2>3 DEF Flushes
  <2>7. Counted'
    BY <1>1, <1>2, <1>3, <2>1 DEF IInv, Counted
  <2> QED BY <1>1, <1>2, <1>6, <2>1, <2>4, <2>5, <2>6, <2>7, NothingHanded DEF IInv
<1>8. CASE ~s.opening /\ s.recorder # None
  <2> DEFINE j == Stopping("unmount", None, s.recorder)
  <2>1. /\ f \in Ear /\ Sound(f)
        /\ f.jobs = s.jobs \cup {j}
        /\ Flushing(f) = {j} /\ Waiting(f) = Waiting(s)
        /\ ~f.ticker /\ f.recorder = None
        /\ f.stream = s.stream /\ f.opening = s.opening /\ f.refused = s.refused
        /\ f.adrift = s.adrift /\ f.chunks = s.chunks /\ f.levels = s.levels
        /\ f.marked = s.marked /\ f.held = s.held /\ f.heard = s.heard
    BY <1>1, <1>5, <1>8, TakesFacts, StopFlushes
  <2>2. j.of = None /\ j.by = "unmount"
    BY DEF Stopping
  <2>3. s.stream /\ Waiting(s) = {}
    BY <1>1, <1>8 DEF Sound
  <2> HIDE DEF f, j
  <2>4. Flushing(ears)' = {j} /\ Waiting(ears)' = {}
    BY <1>2, <2>1, <2>3
  <2>5. ~asking
    BY <1>1, <1>5, <1>8
  <2>6. Shapes'
    BY <1>2, <1>3, <2>1 DEF IInv, Shapes, Off
  <2>7. Asked' /\ Listened'
    BY <1>2, <1>3, <1>8, <2>1, <2>4, <2>5 DEF Asked, Listened
  <2>8. Flushes'
    BY <1>2, <1>3, <2>1, <2>2, <2>3, <2>4 DEF Flushes, Pending
  <2>9. Counted'
    BY <1>1, <1>2, <1>3, <2>1 DEF IInv, Counted
  <2> QED BY <1>1, <1>2, <1>6, <2>1, <2>6, <2>7, <2>8, <2>9, NothingHanded DEF IInv
<1>9. CASE ~s.opening /\ s.recorder = None
  <2>1. /\ f \in Ear /\ Sound(f)
        /\ ~f.stream /\ ~f.ticker /\ ~f.opening /\ ~f.marked /\ ~f.held /\ f.levels = {}
        /\ f.recorder = None
        /\ f.chunks = IF Flushing(s) = {} THEN s.adrift ELSE {}
        /\ f.adrift = IF Flushing(s) = {} THEN {} ELSE s.adrift
        /\ f.heard = [t \in Takes |-> IF t = None THEN Heard(s.chunks, s.levels) ELSE s.heard[t]]
        /\ f.refused = s.refused /\ f.jobs = s.jobs /\ Flushing(f) = Flushing(s)
        /\ Waiting(f) = Waiting(s)
    BY <1>1, <1>5, <1>9, StopCloses
  <2>2. Waiting(s) = {} /\ ~asking
    BY <1>1, <1>5, <1>9 DEF Sound
  <2> HIDE DEF f
  <2>3. f.chunks \subseteq s.adrift /\ f.adrift \subseteq s.adrift /\ (Flushing(s) # {} => f.chunks = {})
    BY <2>1
  <2>4. Flushing(ears)' = Flushing(s) /\ Waiting(ears)' = {}
    BY <1>2, <2>1, <2>2
  <2>5. Shapes'
    BY <1>2, <1>3, <2>1 DEF IInv, Shapes, Off
  <2>6. Asked' /\ Listened'
    BY <1>2, <1>3, <2>1, <2>2 DEF Asked, Listened
  <2>7. Flushes'
    BY <1>2, <1>3, <1>4, <2>1, <2>3, <2>4 DEF Flushes, Pending
  <2>8. Counted'
    BY <1>1, <1>2, <1>3, <2>3 DEF IInv, Counted
  <2>9. HeardIsOfTheMinute /\ OffIsOff
    <3>1. \A t \in Takes : ears'.heard[t] = ears.heard[t]
      BY <1>1, <1>2, <2>1, TakesFacts
    <3> QED BY <3>1 DEF HeardIsOfTheMinute, OffIsOff, Handed
  <2> QED BY <1>2, <1>6, <2>1, <2>5, <2>6, <2>7, <2>8, <2>9 DEF IInv
<1> QED BY <1>7, <1>8, <1>9

(* The prompt is answered: the press that waited for it, the stops that     *)
(* did, and the effect of the switch.                                       *)
LEMMA Answered ==
    ASSUME IInv, NEW d \in Replies(ears),
           NEW allowed \in BOOLEAN, Answer(d, allowed)
    PROVE  IInv' /\ HeardIsOfTheMinute /\ OffIsOff
<1> DEFINE r == Resolved(d)
<1>1. ears.opening /\ asking' = FALSE /\ mic' = IF ~asking THEN mic ELSE IF allowed THEN "on" ELSE "off"
  BY DEF Answer
<1>2. /\ phase' = phase /\ paused' = paused /\ take' = take /\ post' = post
      /\ summary' = summary /\ report' = report /\ gone' = gone
  BY DEF Answer, Apart, screen
<1>3. /\ ~ears.stream /\ ~ears.ticker /\ ~ears.refused /\ ears.levels = {}
      /\ ears.recorder = None /\ ears.adrift = {}
      /\ Flushing(ears) = {} /\ ears.jobs = Waiting(ears)
  BY <1>1, AskedIsShut DEF IInv, Shapes
<1>4. /\ r \in Ear /\ Sound(r)
      /\ ~r.opening /\ r.jobs = {} /\ r.recorder = None /\ r.adrift = {} /\ r.levels = {}
      /\ Waiting(ears) = {} => /\ r.stream = d.stream /\ r.chunks = ears.chunks /\ r.marked = ears.marked /\ r.held = ears.held
                             /\ r.heard = ears.heard
      /\ Waiting(ears) # {} => /\ ~r.stream /\ r.chunks = {} /\ ~r.marked /\ ~r.held
                             /\ r.heard = [t \in Takes |-> IF \E j \in Waiting(ears) : j.of = t
                                                         THEN Heard(ears.chunks, ears.levels) ELSE ears.heard[t]]
  <2>1. ears \in Ear /\ Sound(ears) /\ None \notin Takes
    BY TakesFacts DEF IInv, Shapes
  <2> QED BY <1>1, <2>1, ResolvedSound
<1>5. Continue(r, Waiting(ears)) = r
  <2>1. \A j \in Waiting(ears) : j.by # "again"
    BY DEF IInv, Sound, Waiting
  <2> QED BY <2>1 DEF Continue
<1>a. Waiting(d) = Waiting(ears)
  BY <1>1, AnswerGives DEF IInv, Shapes, Waiting
<1> DEFINE shut == IF asking THEN Stop(r, "turn on", None) ELSE r
<1>6. ears' = IF mic' # mic /\ ~gone THEN MicEffect(shut, phase, mic', take) ELSE shut
  <2> DEFINE open == IF asking THEN Stop(r, "turn on", None) ELSE Continue(r, Waiting(ears))
  <2>1. ears' = IF mic' # mic /\ ~gone THEN MicEffect(open, phase, mic', take) ELSE open
    BY <1>a DEF Answer
  <2>2. open = shut
    BY <1>5
  <2> QED BY <2>1, <2>2
<1>7. /\ asking \in BOOLEAN /\ gone \in BOOLEAN /\ mic \in {"ask", "on", "off"}
      /\ mic' \in {"ask", "on", "off"}
      /\ asking => mic # "on" /\ mic' \in {"on", "off"}
      /\ ~asking => mic' = mic
      /\ asking \/ Waiting(ears) # {} \/ (mic = "on" /\ phase # "idle" /\ ~gone)
  BY <1>1 DEF IInv, Shapes, Asked
<1> HIDE DEF r
<1>8. Flushing(r) = {} /\ Waiting(r) = {}
  BY <1>4 DEF Flushing, Waiting
<1>9. \A s \in ears.chunks : s < take' /\ post'[s] = "none"
  BY <1>2 DEF IInv, Counted
<1>10. \A s \in r.chunks : s < take' /\ post'[s] = "none"
  BY <1>4, <1>9
<1>11. ASSUME \A t \in Takes : ears'.heard[t] = r.heard[t]
       PROVE  HeardIsOfTheMinute /\ OffIsOff
  <2>1. ASSUME NEW t \in Takes, Handed(t)
        PROVE  /\ ears'.heard[t].audio = ears.chunks /\ ears'.heard[t].levels = {}
               /\ mic = "on" => ears.chunks = {}
    <3>1. ears'.heard[t] = Heard(ears.chunks, ears.levels) /\ \E j \in Waiting(ears) : j.of = t
      BY <1>4, <1>11, <2>1 DEF Handed
    <3>2. mic = "on" => ears.chunks = {}
      BY <3>1, TakesFacts DEF IInv, Flushes
    <3> QED BY <1>3, <3>1, <3>2 DEF Heard
  <2> QED BY <1>9, <2>1 DEF HeardIsOfTheMinute, OffIsOff
<1>12. Counted' <=> \A s \in ears'.adrift \cup ears'.chunks : s < take' /\ post'[s] = "none"
  BY <1>2 DEF IInv, Counted
<1>13. Shapes' <=> ears' \in Ear
  BY <1>1, <1>2, <1>7 DEF IInv, Shapes, Off
<1>14. CASE ~asking
  <2>1. ears' = r
    BY <1>6, <1>7, <1>14
  <2>2. Flushing(ears)' = {} /\ Waiting(ears)' = {}
    BY <1>8, <2>1
  <2>3. Asked' /\ Listened' /\ Flushes'
    BY <1>1, <1>2, <1>4, <1>7, <1>14, <2>1, <2>2 DEF Asked, Listened, Flushes
  <2>4. Counted'
    BY <1>4, <1>10, <1>12, <2>1
  <2>5. Minute'
    <3>1. r.ticker => r.stream
      BY <1>4 DEF Sound
    <3>2. phase = "speak" /\ mic = "on" /\ ~gone => ears.chunks = {} /\ ears.marked /\ (ears.held <=> paused)
      BY <1>1 DEF IInv, Minute
    <3>3. r.chunks \subseteq ears.chunks /\ (r.stream => (r.marked <=> ears.marked) /\ (r.held <=> ears.held))
      BY <1>4
    <3> QED BY <1>2, <1>4, <1>7, <1>14, <2>1, <3>1, <3>2, <3>3 DEF Minute
  <2> QED BY <1>4, <1>11, <1>13, <2>1, <2>3, <2>4, <2>5 DEF IInv
<1>15. CASE asking
  <2> DEFINE c == Stop(r, "turn on", None)
  <2>1. "turn on" \in Callers /\ "idle" \in Callers /\ (mic' = "on" => mic' # mic)
    BY <1>7, <1>15 DEF Callers
  <2>2. /\ c \in Ear /\ Sound(c)
        /\ ~c.stream /\ ~c.ticker /\ ~c.opening /\ ~c.marked /\ ~c.held /\ c.levels = {}
        /\ c.recorder = None
        /\ c.chunks = {} /\ c.adrift = {} /\ c.jobs = {} /\ Flushing(c) = {} /\ Waiting(c) = {}
        /\ \A t \in Takes : c.heard[t] = r.heard[t]
    <3>1. r \in Ear /\ Sound(r) /\ ~r.opening /\ r.recorder = None /\ r.adrift = {} /\ r.jobs = {}
      BY <1>4
    <3>2. /\ c \in Ear /\ Sound(c)
          /\ ~c.stream /\ ~c.ticker /\ ~c.opening /\ ~c.marked /\ ~c.held /\ c.levels = {}
          /\ c.recorder = None
          /\ c.chunks = r.adrift /\ c.adrift = {} /\ c.jobs = r.jobs /\ Flushing(c) = {}
          /\ Waiting(c) = {}
          /\ \A t \in Takes : c.heard[t] = r.heard[t]
      BY ONLY <1>8, <2>1, <3>1, TakesFacts, StopShuts
    <3> HIDE DEF c
    <3> QED BY <3>1, <3>2
  <2>3. ears' = IF mic' # mic /\ ~gone THEN MicEffect(c, phase, mic', take) ELSE c
    BY <1>6, <1>15
  <2> HIDE DEF c
  <2>5. CASE mic' = "on" /\ ~gone /\ phase = "topic"
    <3> DEFINE f == Start(c)
    <3>1. ears' = f
      BY <2>1, <2>3, <2>5 DEF MicEffect
    <3>2. /\ f \in Ear /\ f.opening /\ ~f.refused
          /\ f.stream = c.stream /\ f.ticker = c.ticker /\ f.recorder = c.recorder
          /\ f.adrift = c.adrift /\ f.chunks = c.chunks /\ f.levels = c.levels
          /\ f.marked = c.marked /\ f.held = c.held /\ f.jobs = c.jobs /\ f.live = c.live
          /\ f.heard = c.heard
      BY <2>2, StartGives
    <3>3. Sound(f)
      BY <2>2, StartSound
    <3> HIDE DEF f
    <3>4. Flushing(f) = {} /\ Waiting(f) = {}
      BY <2>2, <3>2 DEF Flushing, Waiting
    <3>5. Flushing(ears)' = {} /\ Waiting(ears)' = {}
      BY <3>1, <3>4
    <3>6. Asked' /\ Listened' /\ Flushes' /\ Minute'
      BY <1>1, <1>2, <2>2, <2>5, <3>1, <3>2, <3>5 DEF Asked, Listened, Flushes, Minute
    <3> QED BY <1>11, <1>12, <1>13, <2>2, <3>1, <3>2, <3>3, <3>6 DEF IInv
  <2>6. CASE mic' = "on" /\ ~gone /\ phase = "speak"
    <3> DEFINE f == Mark(c, take)
    <3>1. ears' = f
      BY <2>1, <2>3, <2>6 DEF MicEffect
    <3>2. take \in Takes
      BY <2>6 DEF IInv, Counted
    <3>3. /\ f \in Ear
          /\ f.levels = {} /\ f.chunks = {} /\ f.marked /\ ~f.held
          /\ c.stream => f.recorder = take /\ f.adrift = c.adrift \cup ({c.recorder} \ {None})
          /\ ~c.stream => f.recorder = c.recorder /\ f.adrift = c.adrift
          /\ f.stream = c.stream /\ f.opening = c.opening /\ f.refused = c.refused
          /\ f.ticker = c.ticker /\ f.jobs = c.jobs /\ f.live = c.live
          /\ f.heard = c.heard
      BY <2>2, <3>2, MarkGives
    <3>4. Sound(f)
      BY <2>2, <3>2, MarkSound
    <3> HIDE DEF f
    <3>5. Flushing(f) = {} /\ Waiting(f) = {}
      BY <2>2, <3>3 DEF Flushing, Waiting
    <3>6. Flushing(ears)' = {} /\ Waiting(ears)' = {}
      BY <3>1, <3>5
    <3>7. Asked' /\ Listened' /\ Flushes' /\ Minute'
      BY <1>1, <1>2, <2>2, <2>6, <3>1, <3>3, <3>6 DEF Asked, Listened, Flushes, Minute
    <3> QED BY <1>11, <1>12, <1>13, <2>2, <3>1, <3>3, <3>4, <3>7 DEF IInv
  <2>7. CASE mic' = "on" /\ ~gone /\ phase = "idle"
    <3> DEFINE f == Stop(c, "idle", None)
    <3>1. ears' = f
      BY <2>1, <2>3, <2>7 DEF MicEffect
    <3>2. /\ f \in Ear /\ Sound(f)
          /\ ~f.stream /\ ~f.ticker /\ ~f.opening /\ ~f.marked /\ ~f.held /\ f.levels = {}
          /\ f.recorder = None
          /\ f.chunks = c.adrift /\ f.adrift = {} /\ f.jobs = c.jobs /\ Flushing(f) = {}
          /\ Waiting(f) = {}
          /\ \A t \in Takes : f.heard[t] = c.heard[t]
      BY ONLY <2>1, <2>2, TakesFacts, StopShuts
    <3> HIDE DEF f
    <3>3. f.chunks = {} /\ f.adrift = {} /\ \A t \in Takes : f.heard[t] = r.heard[t]
      BY <2>2, <3>2
    <3>4. Flushing(ears)' = {} /\ Waiting(ears)' = {}
      BY <3>1, <3>2
    <3>5. Asked' /\ Listened' /\ Flushes' /\ Minute'
      BY <1>1, <1>2, <2>7, <3>1, <3>2, <3>4 DEF Asked, Listened, Flushes, Minute
    <3> QED BY <1>11, <1>12, <1>13, <3>1, <3>2, <3>3, <3>5 DEF IInv
  <2>8. CASE mic' = "off" \/ gone \/ phase \notin {"topic", "speak", "idle"}
    <3>1. ears' = c
      BY <2>3, <2>8 DEF MicEffect
    <3>2. Flushing(ears)' = {} /\ Waiting(ears)' = {}
      BY <2>2, <3>1
    <3>3. Asked' /\ Listened' /\ Flushes' /\ Minute'
      BY <1>1, <1>2, <2>2, <3>1, <3>2 DEF Asked, Listened, Flushes, Minute
    <3> QED BY <1>11, <1>12, <1>13, <2>2, <3>1, <3>3 DEF IInv
  <2> QED BY <1>7, <1>15, <2>5, <2>6, <2>7, <2>8
<1> QED BY <1>14, <1>15

(* A recorder hands over its last chunk.                                    *)
LEMMA FlushesOut == IInv /\ Flush => IInv' /\ HeardIsOfTheMinute /\ OffIsOff
<1> SUFFICES ASSUME IInv, NEW j \in Flushing(ears),
                    ears' = Continue(RecorderStopped(ears, j), {j}), Apart, UNCHANGED <<mic, asking>>
             PROVE  IInv' /\ HeardIsOfTheMinute /\ OffIsOff
  BY DEF Flush
<1> DEFINE r == RecorderStopped(ears, j)
<1>1. /\ phase' = phase /\ paused' = paused /\ take' = take /\ post' = post
      /\ summary' = summary /\ report' = report /\ gone' = gone /\ mic' = mic
      /\ asking' = asking
  BY DEF Apart, screen
<1>2. /\ r \in Ear /\ Sound(r)
      /\ ~r.stream /\ ~r.ticker /\ ~r.opening /\ ~r.marked /\ ~r.held /\ r.levels = {}
      /\ r.recorder = None
      /\ r.chunks = ears.adrift /\ r.adrift = {} /\ r.jobs = {}
      /\ r.heard = [t \in Takes |-> IF t = j.of THEN Heard(ears.chunks \cup {j.take}, ears.levels) ELSE ears.heard[t]]
  BY RecorderStoppedSound DEF IInv, Shapes
<1>3. /\ Pending(j) /\ (gone => j.by # "again")
      /\ j.of # None => mic = "on" /\ ears.chunks = {} /\ ears.levels \subseteq {j.of} /\ j.take = j.of
  BY DEF IInv, Flushes
<1>4. ~asking
  BY DEF IInv, Asked, Sound
<1>5. j.by = "again" => phase = "topic" /\ mic = "on" /\ ~gone
  BY <1>3 DEF Pending
<1>6. ~(phase = "speak" /\ ~gone)
  BY <1>3 DEF Pending
<1> DEFINE f == IF j.by = "again" THEN Start(r) ELSE r
<1>7. ears' = f
  BY DEF Continue
<1> HIDE DEF r
<1>8. Flushing(r) = {} /\ Waiting(r) = {}
  BY <1>2 DEF Flushing, Waiting
<1>9. /\ f \in Ear /\ Sound(f) /\ (f.opening => j.by = "again")
      /\ f.stream = r.stream /\ f.ticker = r.ticker /\ f.recorder = r.recorder
      /\ f.adrift = r.adrift /\ f.chunks = r.chunks /\ f.levels = r.levels
      /\ f.marked = r.marked /\ f.held = r.held /\ f.jobs = r.jobs /\ f.live = r.live
      /\ f.heard = r.heard
  <2>1. CASE j.by # "again"
    <3>1. f = r
      BY <2>1
    <3> HIDE DEF f
    <3> QED BY <1>2, <3>1
  <2>2. CASE j.by = "again"
    <3>1. f = Start(r)
      BY <2>2
    <3> HIDE DEF f
    <3> QED BY <1>2, <1>8, <2>2, <3>1, StartGives, StartSound
  <2> QED BY <2>1, <2>2
<1> HIDE DEF f
<1>10. Flushing(f) = {} /\ Waiting(f) = {}
  BY <1>8, <1>9 DEF Flushing, Waiting
<1>11. Flushing(ears)' = {} /\ Waiting(ears)' = {}
  BY <1>7, <1>10
<1>12. Shapes'
  BY <1>1, <1>7, <1>9 DEF IInv, Shapes, Off
<1>13. Asked' /\ Listened' /\ Flushes'
  BY <1>1, <1>2, <1>4, <1>5, <1>7, <1>9, <1>11 DEF Asked, Listened, Flushes
<1>14. Counted' /\ Minute'
  BY <1>1, <1>2, <1>6, <1>7, <1>9 DEF IInv, Counted, Minute
<1>15. HeardIsOfTheMinute /\ OffIsOff
  <2>1. ASSUME NEW t \in Takes, Handed(t)
        PROVE  mic = "on" /\ ears'.heard[t].audio \subseteq {t} /\ ears'.heard[t].levels \subseteq {t}
    <3>1. ears'.heard[t] = Heard(ears.chunks \cup {j.take}, ears.levels) /\ t = j.of
      BY <1>2, <1>7, <1>9, <2>1 DEF Handed
    <3> QED BY <1>3, <3>1, TakesFacts DEF Heard
  <2> QED BY <2>1 DEF HeardIsOfTheMinute, OffIsOff
<1> QED BY <1>7, <1>9, <1>12, <1>13, <1>14, <1>15 DEF IInv

(* The ticker samples.                                                      *)
LEMMA Hears == IInv /\ Hear => IInv' /\ HeardIsOfTheMinute /\ OffIsOff
<1> SUFFICES ASSUME IInv, Hear PROVE IInv' /\ HeardIsOfTheMinute /\ OffIsOff
  OBVIOUS
<1> DEFINE n == IF phase = "speak" /\ ~paused THEN take ELSE 0
<1> DEFINE f == Sample(ears, n)
<1>1. /\ phase' = phase /\ paused' = paused /\ take' = take /\ post' = post
      /\ summary' = summary /\ report' = report /\ gone' = gone /\ mic' = mic
      /\ asking' = asking /\ ears' = f
  BY DEF Hear, Apart, screen
<1>2. n \in Takes \cup {0} /\ (phase = "speak" /\ ~paused => n = take)
  BY DEF IInv, Shapes
<1> HIDE DEF n
<1>3. /\ f \in Ear /\ Sound(f)
      /\ f.levels = IF ears.ticker /\ ~ears.held THEN ears.levels \cup {n} ELSE ears.levels
      /\ f.stream = ears.stream /\ f.opening = ears.opening /\ f.refused = ears.refused
      /\ f.ticker = ears.ticker /\ f.recorder = ears.recorder /\ f.adrift = ears.adrift
      /\ f.chunks = ears.chunks /\ f.marked = ears.marked /\ f.held = ears.held
      /\ f.jobs = ears.jobs /\ f.live = ears.live /\ f.heard = ears.heard
  BY <1>2, SampleGives, SampleSound DEF IInv, Shapes
<1> HIDE DEF f
<1>4. Flushing(f) = Flushing(ears) /\ Waiting(f) = Waiting(ears)
  BY <1>3 DEF Flushing, Waiting
<1>5. Flushing(ears)' = Flushing(ears) /\ Waiting(ears)' = Waiting(ears)
  BY <1>1, <1>4
<1>6. Shapes'
  BY <1>1, <1>3 DEF IInv, Shapes, Off
<1>7. Asked'
  <2>1. f.opening <=> ears.opening
    BY <1>3
  <2> QED BY <1>1, <1>5, <2>1 DEF IInv, Asked
<1>8. Listened'
  BY <1>1, <1>3, <1>5 DEF IInv, Listened
<1>9. Flushes'
  <2>1. Flushing(ears) # {} => f.levels = ears.levels
    BY <1>3 DEF IInv, Sound
  <2>2. \A k \in Flushing(ears) : Pending(k)' <=> Pending(k)
    BY <1>1 DEF Pending
  <2> QED BY <1>1, <1>3, <1>5, <2>1, <2>2 DEF IInv, Flushes
<1>10. Counted'
  BY <1>1, <1>3 DEF IInv, Counted
<1>11. Minute'
  <2>1. phase = "speak" /\ mic = "on" /\ ~gone =>
          /\ ears.chunks = {} /\ ears.levels \subseteq {take} /\ ears.recorder \in {None, take}
          /\ (ears.ticker \/ ears.opening) => ears.marked /\ (ears.held <=> paused)
    BY DEF IInv, Minute
  <2>2. phase = "speak" /\ mic = "on" /\ ~gone => f.levels \subseteq {take}
    <3>1. CASE ears.ticker /\ ~ears.held
      BY <1>2, <1>3, <2>1, <3>1
    <3>2. CASE ~(ears.ticker /\ ~ears.held)
      BY <1>3, <2>1, <3>2
    <3> QED BY <3>1, <3>2
  <2> QED BY <1>1, <1>3, <2>1, <2>2 DEF Minute
<1> QED BY <1>1, <1>3, <1>6, <1>7, <1>8, <1>9, <1>10, <1>11, NothingHanded DEF IInv

(* The server answers: the microphone is not touched.                       *)
LEMMA Serves == IInv /\ Server => IInv' /\ HeardIsOfTheMinute /\ OffIsOff
<1> SUFFICES ASSUME IInv, NEW t \in Takes, NEW was, NEW is, Network(t, was, is),
                    was # "none", is \in {"none", "sent", "written", "lost", "attached", "read"},
                    summary' \in Takes \cup {None}, report' \in Takes \cup {Off, None}
             PROVE  IInv' /\ HeardIsOfTheMinute /\ OffIsOff
  BY DEF Server, Written, NotWritten, Attach, Reported, IInv, Shapes, Off
<1>1. /\ phase' = phase /\ paused' = paused /\ mic' = mic /\ ears' = ears /\ asking' = asking
      /\ take' = take /\ gone' = gone /\ post' = [post EXCEPT ![t] = is] /\ post[t] # "none"
  BY DEF Network
<1>2. /\ post' \in [Takes -> {"none", "sent", "written", "lost", "attached", "read"}]
      /\ \A s \in Takes : post[s] = "none" => post'[s] = "none"
  BY <1>1 DEF IInv, Shapes
<1>3. Shapes' /\ Sound(ears)'
  BY <1>1, <1>2 DEF IInv, Shapes, Off
<1>4. Asked' /\ Flushes' /\ Minute'
  <2>1. \A j : Pending(j)' <=> Pending(j)
    BY <1>1 DEF Pending
  <2> QED BY <1>1, <2>1 DEF IInv, Asked, Flushes, Minute
<1>5. Listened'
  BY <1>1, <1>2 DEF IInv, Listened, Shapes, Ear
<1>6. Counted'
  BY <1>1, <1>2 DEF IInv, Counted, Shapes, Ear
<1> QED BY <1>1, <1>3, <1>4, <1>5, <1>6, NothingHanded DEF IInv

(* A step in which nothing happens.                                         *)
LEMMA StandsStill == IInv /\ UNCHANGED vars => IInv' /\ HeardIsOfTheMinute /\ OffIsOff
<1> SUFFICES ASSUME IInv, UNCHANGED vars PROVE IInv' /\ HeardIsOfTheMinute /\ OffIsOff
  OBVIOUS
<1>1. /\ phase' = phase /\ paused' = paused /\ mic' = mic /\ ears' = ears /\ asking' = asking
      /\ take' = take /\ post' = post /\ summary' = summary /\ report' = report /\ gone' = gone
  BY DEF vars, screen
<1>2. \A j : Pending(j)' <=> Pending(j)
  BY <1>1 DEF Pending
<1>3. IInv'
  BY <1>1, <1>2 DEF IInv, Shapes, Asked, Listened, Flushes, Counted, Minute, Off
<1> QED BY <1>1, <1>3, NothingHanded

(* The steps of the engine that end on a reel or on a topic.                *)
LEMMA Arrives ==
    ASSUME IInv, ~gone, InTime, UNCHANGED <<mic, asking, take, post, screen, gone>>,
           paused' \in BOOLEAN, ears' = React(Seen(ears)), phase' \in {"spin", "topic"}
    PROVE  IInv'
<1> DEFINE s == Seen(ears)
<1>1. ears' = IF phase' # phase THEN MicEffect(s, phase', mic, take') ELSE s
  BY DEF React, PauseEffect
<1>2. CASE phase' = "topic" /\ phase' # phase /\ mic = "on"
  <2>1. ears' = Start(s)
    BY <1>1, <1>2 DEF MicEffect
  <2> QED BY <1>2, <2>1, Lands
<1>3. CASE ~(phase' = "topic" /\ phase' # phase /\ mic = "on")
  <2>1. ears' = s
    BY <1>1, <1>3 DEF MicEffect
  <2> QED BY <2>1, Walks
<1> QED BY <1>2, <1>3

(* No effect of an engine's step hands anything over.                       *)
LEMMA HandsNothing ==
    ASSUME IInv, ears' = React(Seen(ears)), phase' = "speak" /\ phase' # phase => take' \in Takes
    PROVE  HeardIsOfTheMinute /\ OffIsOff
<1> DEFINE s == Seen(ears)
<1> DEFINE m == IF phase' # phase THEN MicEffect(s, phase', mic, take') ELSE s
<1>1. s.heard = ears.heard /\ s \in Ear
  BY SeenGives DEF IInv, Shapes
<1>2. ears' = PauseEffect(m, phase', paused')
  BY DEF React
<1> HIDE DEF s
<1>3. m \in {s, Start(s), Mark(s, take'), Stop(s, "idle", None)}
  BY DEF MicEffect
<1>4. /\ Start(s).heard = s.heard /\ Mark(s, take').heard = s.heard
      /\ \A t \in Takes : Stop(s, "idle", None).heard[t] = s.heard[t]
  <2>1. Start(s).heard = s.heard /\ Mark(s, take').heard = s.heard
    BY <1>1 DEF Start, Mark, Ear
  <2>2. ASSUME NEW t \in Takes PROVE Stop(s, "idle", None).heard[t] = s.heard[t]
    BY <1>1, TakesFacts DEF Stop, Silenced, Closed, Ear
  <2> QED BY <2>1, <2>2
<1> HIDE DEF m
<1>5. \A t \in Takes : m.heard[t] = ears.heard[t]
  BY <1>1, <1>3, <1>4
<1>7. ears'.heard = m.heard
  <2>1. CASE phase' # "speak"
    BY <1>2, <2>1 DEF PauseEffect
  <2>2. CASE phase' = "speak"
    <3>1. m \in {s, Mark(s, take')} /\ (m = Mark(s, take') => take' \in Takes \/ m = s)
      BY <2>2 DEF m, MicEffect
    <3>2. m \in Ear
      BY <1>1, <3>1, MarkGives
    <3>3. ears' \in {Pause(m), Resume(m)}
      BY <1>2, <2>2 DEF PauseEffect
    <3> QED BY <3>2, <3>3, PauseGives
  <2> QED BY <2>1, <2>2
<1> QED BY <1>5, <1>7 DEF HeardIsOfTheMinute, OffIsOff, Handed

(* The engine's steps but the speaking.                                     *)
LEMMA Moves == IInv /\ Ordinary => IInv' /\ HeardIsOfTheMinute /\ OffIsOff
<1> SUFFICES ASSUME IInv, Ordinary PROVE IInv' /\ HeardIsOfTheMinute /\ OffIsOff
  OBVIOUS
<1>1. /\ ~gone /\ InTime /\ UNCHANGED <<mic, asking, take, post, screen, gone>>
      /\ ears' = React(Seen(ears)) /\ phase' \notin {"ready", "reading"}
  BY DEF Ordinary, Step
<1>2. phase \in {"idle", "spin", "topic", "prep", "speak", "done"} /\ paused \in BOOLEAN
  BY DEF IInv, Shapes
<1>3. \/ Flow!Spin \/ Flow!Settle \/ Flow!Leave \/ Flow!Same
      \/ Flow!Think \/ Flow!Toggle \/ Flow!Reset
  BY DEF Ordinary, Step
<1>4. HeardIsOfTheMinute /\ OffIsOff
  <2>1. phase' = "speak" => phase' = phase
    BY <1>3 DEF Flow!Spin, Flow!Settle, Flow!Leave, Flow!Same, Flow!Think, Flow!Toggle, Flow!Reset, Flow!To
  <2> QED BY <1>1, <2>1, HandsNothing
<1>5. CASE Flow!Spin \/ Flow!Settle \/ Flow!Leave \/ Flow!Same
  <2>1. phase' \in {"spin", "topic"} /\ paused' \in BOOLEAN
    BY <1>2, <1>5 DEF Flow!Spin, Flow!Settle, Flow!Leave, Flow!Same, Flow!To
  <2> QED BY <1>1, <1>4, <2>1, Arrives
<1>6. CASE Flow!Think
  <2>1. phase = "topic" /\ phase' = "prep" /\ paused' \in BOOLEAN
    BY <1>6 DEF Flow!Think, Flow!To
  <2>2. ears' = Seen(ears)
    BY <1>1, <2>1 DEF React, MicEffect, PauseEffect
  <2> QED BY <1>1, <1>4, <2>1, <2>2, Walks DEF Going
<1>7. CASE Flow!Toggle
  <2>1. phase \in {"prep", "speak"} /\ phase' = phase /\ paused' \in BOOLEAN
    BY <1>2, <1>7 DEF Flow!Toggle, Flow!To
  <2>2. ears' = PauseEffect(Seen(ears), phase, paused')
    BY <1>1, <2>1 DEF React
  <2> QED BY <1>1, <1>4, <2>1, <2>2, Pauses
<1>8. CASE Flow!Reset
  <2>1. phase = "topic" /\ phase' = "idle" /\ paused' \in BOOLEAN
    BY <1>2, <1>8 DEF Flow!Reset, Flow!To
  <2>2. ears' = MicEffect(Seen(ears), "idle", mic, take')
    BY <1>1, <2>1 DEF React, PauseEffect
  <2> QED BY <1>1, <1>4, <2>1, <2>2, Idles
<1> QED BY <1>3, <1>5, <1>6, <1>7, <1>8

(* The speaking, with its effects.                                          *)
LEMMA Begins == IInv /\ Begin => IInv' /\ HeardIsOfTheMinute /\ OffIsOff
<1> SUFFICES ASSUME IInv, Begin PROVE IInv' /\ HeardIsOfTheMinute /\ OffIsOff
  OBVIOUS
<1>1. /\ ~gone /\ InTime /\ UNCHANGED <<mic, asking, post, screen, gone>>
      /\ take' = take + 1 /\ take' \in Takes /\ ears' = React(Seen(ears)) /\ Flow!Speak
  BY DEF Begin, Step
<1>2. phase \in {"topic", "prep"} /\ phase' = "speak" /\ paused' = FALSE
  BY <1>1 DEF Flow!Speak, Flow!To
<1>3. ears' = PauseEffect(MicEffect(Seen(ears), "speak", mic, take'), "speak", FALSE)
  BY <1>1, <1>2 DEF React
<1>4. IInv'
  BY <1>1, <1>2, <1>3, Speaks
<1>5. HeardIsOfTheMinute /\ OffIsOff
  BY <1>1, <1>2, HandsNothing
<1> QED BY <1>4, <1>5

(* Every step keeps the invariant and hands over only what it may.          *)
LEMMA StepKeeps == IInv /\ [Next]_vars => IInv' /\ HeardIsOfTheMinute /\ OffIsOff
<1> SUFFICES ASSUME IInv, [Next]_vars PROVE IInv' /\ HeardIsOfTheMinute /\ OffIsOff
  OBVIOUS
<1>1. CASE Ordinary
  BY <1>1, Moves
<1>2. CASE Begin
  BY <1>2, Begins
<1>3. CASE Write
  BY <1>3, Writes
<1>4. CASE TurnOn
  BY <1>4, TurnsOn
<1>5. CASE TurnOff
  BY <1>5, TurnsOff
<1>6. CASE CheckAgain
  BY <1>6, ChecksAgain
<1>7. CASE Unmount
  BY <1>7, Unmounts
<1>8. CASE Allow
  <2>1. PICK graph \in BOOLEAN : Answer(Opened(ears, graph), TRUE)
    BY <1>8 DEF Allow
  <2>2. Opened(ears, graph) \in Replies(ears)
    BY DEF Replies
  <2>3. TRUE \in BOOLEAN
    OBVIOUS
  <2> QED BY <2>1, <2>2, <2>3, Answered
<1>9. CASE Deny
  <2>1. Refused(ears) \in Replies(ears)
    BY DEF Replies
  <2>2. FALSE \in BOOLEAN
    OBVIOUS
  <2> QED BY <1>9, <2>1, <2>2, Answered DEF Deny
<1>10. CASE Flush
  BY <1>10, FlushesOut
<1>11. CASE Hear
  BY <1>11, Hears
<1>12. CASE Server
  BY <1>12, Serves
<1>13. CASE UNCHANGED vars
  BY <1>13, StandsStill
<1> QED BY <1>1, <1>2, <1>3, <1>4, <1>5, <1>6, <1>7, <1>8, <1>9, <1>10, <1>11, <1>12, <1>13 DEF Next

(* The invariant holds throughout.                                          *)
LEMMA Invariant == Spec => []IInv
<1>1. Init => IInv
  BY InitGives
<1>2. IInv /\ [Next]_vars => IInv'
  BY StepKeeps
<1> QED BY <1>1, <1>2, PTL DEF Spec

(* The page and its listener keep their shapes, for any number of takes     *)
(* and any choice of stops a press may overtake.                            *)
THEOREM EarsTyped == Spec => []TypeOK
<1>1. IInv => TypeOK
  <2> SUFFICES ASSUME IInv PROVE TypeOK
    OBVIOUS
  <2>1. /\ phase \in {"idle", "spin", "topic", "prep", "speak", "done"}
        /\ mic \in {"ask", "on", "off"} /\ take \in {0} \cup Takes
        /\ summary \in Takes \cup {None} /\ report \in Takes \cup {Off, None}
        /\ post \in [Takes -> {"none", "sent", "written", "lost", "attached", "read"}]
        /\ ears \in Ear /\ Sound(ears)
    BY DEF IInv, Shapes
  <2>2. take \in 0..Cardinality(Takes)
    <3>1. Cardinality(Takes) \in Nat
      BY TakesAssumption, FS_CardinalityType
    <3> QED BY <2>1, <3>1, TakesAssumption
  <2>3. /\ ears.recorder \in Takes \cup {None} /\ ears.adrift \subseteq Takes
        /\ (ears.held => ears.marked)
        /\ ears.chunks \subseteq Takes /\ ears.levels \subseteq Takes \cup {0}
    BY <2>1 DEF Ear, Sound
  <2> QED BY <2>1, <2>2, <2>3 DEF TypeOK
<1> QED BY <1>1, Invariant, PTL

(* At most one microphone and one ticker are open, each in the hands of     *)
(* the listener, and none once the page is idle or left and every stop has  *)
(* run (voice.ts start and stop).                                           *)
THEOREM InHand == Spec => []MicrophoneInHand
<1>1. IInv => MicrophoneInHand
  <2> SUFFICES ASSUME IInv PROVE MicrophoneInHand
    OBVIOUS
  <2>1. OneMicrophone
    BY DEF IInv, Sound, OneMicrophone
  <2>2. ASSUME gone \/ phase = "idle", ears.jobs = {}, ~ears.opening
        PROVE  ears.live.streams = 0
    <3>1. Flushing(ears) = {}
      BY <2>2 DEF Flushing
    <3>2. ~ears.stream
      BY <2>2, <3>1 DEF IInv, Listened
    <3> QED BY <3>2 DEF IInv, Sound
  <2> QED BY <2>1, <2>2 DEF MicrophoneInHand, ClosedWhenAway
<1> QED BY <1>1, Invariant, PTL

(* Whatever is handed over for a round spoken with the report on was        *)
(* recorded in that minute, and for one spoken with it off there is no      *)
(* timeline and nothing of a round that was finished.                       *)
THEOREM SoundTrue == Spec => SoundIsOfTheMinute
<1>1. IInv /\ [Next]_vars => [HeardIsOfTheMinute /\ OffIsOff]_vars
  BY StepKeeps
<1> QED BY <1>1, Invariant, PTL DEF Spec, SoundIsOfTheMinute
=============================================================================
