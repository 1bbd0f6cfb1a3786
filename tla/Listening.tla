----------------------------- MODULE Listening ------------------------------
(* The round listened to at home: the effects and presses of                *)
(* components/round/round.tsx and mic.tsx, between the engine (RoundFlow),  *)
(* the microphone (Ears) and the two calls that write the run and attach    *)
(* what was heard to it.                                                    *)
(*                                                                          *)
(* An effect runs in the render of the change it watches, so it is part of  *)
(* the step that made the change. What is asynchronous is the browser's     *)
(* answer to the microphone, a recorder's last chunk, and the server.       *)
EXTENDS Ears

CONSTANT Overtaken     \* bound: callers whose stop a press may overtake

(* Takes are counted as they begin. The press on "check again" is a moment  *)
(* before the stop it made: no second press comes in between.               *)
ASSUME TakesAssumption ==
    /\ Takes = 1..Cardinality(Takes) /\ IsFiniteSet(Takes) /\ None \notin Takes \cup {0}
    /\ "again" \notin Overtaken

VARIABLES
    phase, paused, written,   \* what the engine shows the page
    mic,      \* prefs.mic: "ask", "on" or "off"
    ears,     \* the page's one Listener
    asking,   \* a press that turns the report on is waiting
    take,     \* how many stretches of speaking have begun
    post,     \* what became of writing each take's run
    summary,  \* the run whose numbers the done screen holds, or None
    report,   \* the run whose report it holds, Off, or None while waiting
    gone      \* the page was left

Flow   == INSTANCE RoundFlow
Off    == 0
screen == <<summary, report>>
vars   == <<phase, paused, written, mic, ears, asking, take, post, screen, gone>>

(* What stands where the report goes on the done screen (RoundReport).      *)
DoneShows ==
    CASE report = Off  -> "nothing"
      [] report = None -> "waiting"
      [] OTHER         -> "report"

(* Bound on the interleaving: the last chunk is milliseconds away, so one   *)
(* press, or one reel that settles, may overtake it, and only where         *)
(* Overtaken says.                                                          *)
InTime == \A j \in Flushing(ears) : ~j.seen /\ j.by \in Overtaken
Seen(e) == [e EXCEPT !.jobs = {[j EXCEPT !.seen = j.take # None] : j \in @}]

(* Seeded fault: the idle screen is not watched.                            *)
MicEffectOpen(e, is, switch, count) ==
    CASE switch = "on" /\ is = "topic" -> Start(e)
      [] switch = "on" /\ is = "speak" -> Mark(e, count)
      [] OTHER -> e

(* Seeded fault: a round is listened to whatever the switch says.           *)
MicEffectAlways(e, is, switch, count) ==
    CASE is = "topic" -> Start(e)
      [] is = "speak" -> Mark(e, count)
      [] is = "idle"  -> Stop(e, "idle", None)
      [] OTHER -> e

(* The microphone's effect, in the render after the phase or the switch     *)
(* has changed.                                                             *)
MicEffect(e, is, switch, count) ==
    CASE switch = "on" /\ is = "topic" -> Start(e)
      [] switch = "on" /\ is = "speak" -> Mark(e, count)
      [] switch = "on" /\ is = "idle"  -> Stop(e, "idle", None)
      [] OTHER -> e

PauseEffect(e, is, held) == IF is # "speak" THEN e ELSE IF held THEN Pause(e) ELSE Resume(e)

(* Seeded fault: pausing the clock leaves the microphone running.           *)
ReactDeaf(e) == IF phase' # phase THEN MicEffect(e, phase', mic, take') ELSE e

React(e) ==
    PauseEffect(IF phase' # phase THEN MicEffect(e, phase', mic, take') ELSE e, phase', paused')

-----------------------------------------------------------------------------
(* The engine's steps, with the page's effects.                             *)

Step(action) ==
    /\ ~gone /\ InTime
    /\ action
    /\ phase' \notin {"ready", "reading"}
    /\ ears' = React(Seen(ears))
    /\ UNCHANGED <<mic, asking, post, screen, gone>>

Ordinary ==
    /\ \/ Step(Flow!Spin) \/ Step(Flow!Settle) \/ Step(Flow!Think) \/ Step(Flow!Toggle)
       \/ Step(Flow!Leave) \/ Step(Flow!Reset) \/ Step(Flow!Same)
    /\ UNCHANGED take

Begin == take + 1 \in Takes /\ take' = take + 1 /\ Step(Flow!Speak)

(* Seeded fault: what was heard is collected after the run is written.      *)
WriteLate ==
    /\ ~gone /\ InTime
    /\ Flow!Finish
    /\ summary' = None /\ report' = None
    /\ post' = [post EXCEPT ![take] = "sent"]
    /\ ears' = Seen(ears)
    /\ UNCHANGED <<mic, asking, take, gone>>

(* The minute ends: the screen is emptied, the listener stopped, the run    *)
(* posted.                                                                  *)
Write ==
    /\ ~gone /\ InTime
    /\ Flow!Finish
    /\ summary' = None /\ report' = None
    /\ post' = [post EXCEPT ![take] = "sent"]
    /\ ears' = Stop(Seen(ears), "record", take)
    /\ UNCHANGED <<mic, asking, take, gone>>

-----------------------------------------------------------------------------
(* Presses that concern the microphone.                                     *)

Press(e) == ~gone /\ InTime /\ ears' = e /\ Flow!Quietly /\ UNCHANGED <<phase, paused, take, post, screen, gone>>

(* turnOnMic, from idle: opened, closed again, and the answer remembered.   *)
TurnOn ==
    /\ phase = "idle" /\ mic # "on" /\ ~asking
    /\ ~ears.stream
    /\ asking' = TRUE
    /\ Press(Start(Seen(ears)))
    /\ UNCHANGED mic

TurnOff ==
    /\ phase = "idle" /\ mic # "off"
    /\ mic' = "off"
    /\ Press(Seen(ears))
    /\ UNCHANGED asking

(* Check again, under a topic whose microphone reads dead: stop, then start.*)
(* One such press is under way at a time: a bound.                          *)
CheckAgain ==
    /\ phase = "topic" /\ mic = "on" /\ (ears.stream \/ ears.refused)
    /\ \A j \in ears.jobs : j.by # "again"
    /\ LET e == Stop(Seen(ears), "again", None)
       IN  Press(IF e.jobs = Seen(ears).jobs THEN Start(e) ELSE e)
    /\ UNCHANGED <<mic, asking>>

(* Leaving the page closes the microphone.                                  *)
Unmount ==
    /\ ~gone /\ InTime
    /\ gone' = TRUE
    /\ ears' = Stop(Seen(ears), "unmount", None)
    /\ Flow!Quietly
    /\ UNCHANGED <<phase, paused, mic, asking, take, post, screen>>

-----------------------------------------------------------------------------
(* The browser.                                                             *)

Apart == Flow!Quietly /\ UNCHANGED <<phase, paused, take, post, screen, gone>>

(* The check that was waiting starts again.                                 *)
Continue(e, ended) == IF \E j \in ended : j.by = "again" THEN Start(e) ELSE e

(* The prompt is answered, with a graph that can be built or not. A press   *)
(* that turned the report on then stops, and writes what it learnt, on or   *)
(* off; the switch moving is watched like the phase.                        *)
Answer(e, allowed) ==
    LET done == Continue(Resolved(e), Waiting(e))
        shut == IF asking THEN Stop(Resolved(e), "turn on", None) ELSE done
    IN  /\ ears.opening
        /\ asking' = FALSE
        /\ mic' = IF ~asking THEN mic ELSE IF allowed THEN "on" ELSE "off"
        /\ ears' = IF mic' # mic /\ ~gone THEN MicEffect(shut, phase, mic', take) ELSE shut
        /\ Apart

Allow == \E graph \in BOOLEAN : Answer(Opened(ears, graph), TRUE)
Deny  == Answer(Refused(ears), FALSE)

Flush ==
    \E j \in Flushing(ears) :
        /\ ears' = Continue(RecorderStopped(ears, j), {j})
        /\ Apart
        /\ UNCHANGED <<mic, asking>>

Hear ==
    /\ ears' = Sample(ears, IF phase = "speak" /\ ~paused THEN take ELSE 0)
    /\ Apart
    /\ UNCHANGED <<mic, asking>>

-----------------------------------------------------------------------------
(* The server, whose answers come when they come.                           *)

Network(t, was, is) ==
    /\ post[t] = was
    /\ post' = [post EXCEPT ![t] = is]
    /\ Flow!Quietly
    /\ UNCHANGED <<phase, paused, mic, ears, asking, take, gone>>

Written(t) == Network(t, "sent", "written") /\ summary' = t /\ UNCHANGED report

NotWritten(t) == Network(t, "sent", "lost") /\ summary' = None /\ UNCHANGED report

(* What was heard is in: nothing at all is no report, anything is sent on.  *)
Nothing(t) == ears.heard[t] = Heard({}, {})

Attach(t) ==
    /\ ears.heard[t] # None
    /\ IF Nothing(t)
       THEN Network(t, "written", "read") /\ report' = Off
       ELSE Network(t, "written", "attached") /\ UNCHANGED report
    /\ UNCHANGED summary

Reported(t) == Network(t, "attached", "read") /\ report' \in {t, Off} /\ UNCHANGED summary

-----------------------------------------------------------------------------
Init ==
    /\ phase = "idle" /\ paused = FALSE /\ written = FALSE
    /\ mic \in {"ask", "on"} /\ ears = Shut /\ asking = FALSE
    /\ take = 0 /\ post = [t \in Takes |-> "none"]
    /\ summary = None /\ report = None /\ gone = FALSE

Server == \E t \in Takes : Written(t) \/ NotWritten(t) \/ Attach(t) \/ Reported(t)

Next ==
    \/ Ordinary \/ Begin \/ Write
    \/ TurnOn \/ TurnOff \/ CheckAgain \/ Unmount
    \/ Allow \/ Deny \/ Flush \/ Hear
    \/ Server

(* The browser flushes a recorder it was told to stop, and a call is        *)
(* answered or fails. Nobody need ever answer a prompt or press anything.   *)
Spec == Init /\ [][Next]_vars
FairSpec == Spec /\ WF_vars(Flush) /\ \A t \in Takes : WF_vars(Written(t) \/ NotWritten(t) \/ Attach(t) \/ Reported(t))

-----------------------------------------------------------------------------
(* Properties.                                                              *)

(* The page and its one Listener keep their shapes; only a round listened   *)
(* to is ever held by a pause.                                              *)
TypeOK ==
    /\ phase \in {"idle", "spin", "topic", "prep", "speak", "done"}
    /\ mic \in {"ask", "on", "off"} /\ take \in 0..Cardinality(Takes)
    /\ ears.recorder \in Takes \cup {None} /\ ears.adrift \subseteq Takes
    /\ (ears.held => ears.marked)
    /\ ears.chunks \subseteq Takes /\ ears.levels \subseteq Takes \cup {0}
    /\ summary \in Takes \cup {None} /\ report \in Takes \cup {Off, None}
    /\ \A t \in Takes : post[t] \in {"none", "sent", "written", "lost", "attached", "read"}

(* However often the topic lands, one microphone and one ticker at most are *)
(* open, and each is one the listener can still close (voice.ts start).     *)
OneMicrophone ==
    /\ ears.live.streams = IF ears.stream THEN 1 ELSE 0
    /\ ears.live.tickers = IF ears.ticker THEN 1 ELSE 0

(* The idle screen and the page left behind hold no microphone once every   *)
(* stop has run, a prompt answered late included (voice.ts stop).           *)
ClosedWhenAway ==
    (gone \/ phase = "idle") /\ ears.jobs = {} /\ ~ears.opening => ears.live.streams = 0

(* At most one microphone, in the listener's hands, and none when away.     *)
MicrophoneInHand == OneMicrophone /\ ClosedWhenAway

(* Something is handed over for a take, for the first time or again.        *)
Handed(t) == ears'.heard[t] # ears.heard[t]

(* Of a round spoken with the report switched on, audio and timeline were   *)
(* recorded in that round's own minute: nothing of the thinking, of a pause *)
(* or of a take that was left (voice.ts mark, pause and finish).            *)
HeardIsOfTheMinute ==
    \A t \in Takes : Handed(t) /\ mic = "on" =>
        ears'.heard[t].audio \subseteq {t} /\ ears'.heard[t].levels \subseteq {t}

(* A round spoken with it switched off, or before that was asked, is not    *)
(* recorded: what is handed over holds no timeline, and no audio of a round *)
(* spoken to its end, that one or another.                                  *)
OffIsOff ==
    \A t \in Takes : Handed(t) /\ mic # "on" =>
        /\ ears'.heard[t].levels = {}
        /\ \A s \in ears'.heard[t].audio : post'[s] = "none"

(* A round is heard while it is listened to, and only then.                 *)
SoundIsOfTheMinute == [][HeardIsOfTheMinute /\ OffIsOff]_vars

(* "Holding the recorder until now is what keeps prep out of the transcript *)
(* and off the bill" (mark): what is handed over is never an older take's.  *)
(* Not so: a take left and spoken again leaves its recorder running, whose  *)
(* data comes when idle closes the stream; a round then spoken with the     *)
(* report switched off has no mark to empty it, and is sent it.             *)
NothingOlder ==
    \A t \in Takes : ears.heard[t] # None => ears.heard[t].audio \subseteq {t}

(* The done screen speaks of the round just finished.                       *)
DoneIsOfThisRound ==
    phase = "done" => summary \in {None, take} /\ report \in {None, Off, take}

(* A minute spoken with the report switched on and a microphone that was    *)
(* not refused is a minute listened to.                                     *)
OnIsHeard == [][phase # "speak" /\ phase' = "speak" /\ mic = "on" /\ ~ears.opening =>
                   ears.stream \/ ears.refused]_vars

(* A run that was written ends with its report or with none, unless a       *)
(* prompt still waits for somebody.                                         *)
WrittenIsRead == \A t \in Takes : post[t] = "written" ~> (post[t] = "read" \/ ears.opening)

(* The done screen stops waiting. Not so: where the write of the run fails, *)
(* nothing ever sets the report.                                            *)
ReportDecided == phase = "done" ~> (phase # "done" \/ DoneShows # "waiting" \/ ears.opening \/ gone)

(* Leaving the round for the idle screen lets go of the microphone.         *)
LetGo == phase = "idle" ~> (ears.live.streams = 0 \/ ears.opening \/ phase # "idle")

(* A round that is over is done with: read, or let go of.                   *)
RoundClosed == WrittenIsRead /\ LetGo
=============================================================================
