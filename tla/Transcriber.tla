---------------------------- MODULE Transcriber ----------------------------
(* One call of AssemblyAIGateway.transcribe (runs/transcribe.py) against    *)
(* the clock: upload, start, and a poll that asks, looks at the status,     *)
(* looks at the deadline and sleeps; the provider's job, which finishes     *)
(* when it likes; and the server the worker runs under, which ends a worker *)
(* that holds one request too long. Reports takes what comes of it.         *)
EXTENDS Integers

CONSTANTS
    Timeout,   \* TIMEOUT, the longest one request may take
    Poll,      \* POLL_TIMEOUT
    Every,     \* POLL_EVERY
    Slow,      \* how long a request to the provider really takes, at most
    Drops,     \* a request may fail
    Patience,  \* the server's own timeout on a worker
    Horizon    \* bound on the clock

ASSUME TranscriberAssumption ==
    /\ {Timeout, Poll, Every, Patience, Horizon} \subseteq Nat \ {0}
    /\ Slow \in 0..Timeout /\ Drops \in BOOLEAN

VARIABLES
    now, stage, wake, \* the clock, where the call is, and the moment it goes on
    deadline,
    transcript, doneAt, \* the provider's job, and when it was decided
    seen,             \* the status the last answer carries, read when it was sent
    dropped           \* auxiliary: a request failed

callVars == <<now, stage, wake, deadline, transcript, doneAt, seen, dropped>>

Over == {"words", "nothing", "killed"}

CallInit ==
    /\ now = 0 /\ stage = "upload" /\ wake = 0 /\ deadline = 0
    /\ transcript = "none" /\ doneAt = 0 /\ seen = "none" /\ dropped = FALSE

(* A request, begun now: it answers d later, or is given up at the timeout. *)
Send(next) ==
    /\ now = wake
    /\ \/ \E d \in 0..Slow : stage' = next /\ wake' = now + d /\ UNCHANGED dropped
       \/ /\ Drops /\ dropped' = TRUE
          /\ \E d \in {0, Timeout} : stage' = "fail" /\ wake' = now + d
    /\ UNCHANGED <<now, doneAt>>

Upload == stage = "upload" /\ Send("start") /\ UNCHANGED <<deadline, transcript, seen>>

Start ==
    /\ stage = "start" /\ Send("begun")
    /\ transcript' = "queued" /\ UNCHANGED <<deadline, seen>>

Begun ==  \* the deadline is counted from the answer
    /\ stage = "begun" /\ now = wake
    /\ deadline' = now + Poll /\ stage' = "ask"
    /\ UNCHANGED <<now, wake, transcript, doneAt, seen, dropped>>

Ask == stage = "ask" /\ Send("look") /\ seen' = transcript /\ UNCHANGED <<deadline, transcript>>

Answer(over) == stage' = over /\ UNCHANGED <<wake, deadline>>
Sleep        == stage' = "ask" /\ wake' = now + Every

\* Seeded fault: the deadline starts again at every look.
LookAnew ==
    /\ stage = "look" /\ now = wake
    /\ IF seen = "queued" THEN Sleep /\ deadline' = now + Poll
                          ELSE Answer(IF seen = "completed" THEN "words" ELSE "nothing")
    /\ UNCHANGED <<now, transcript, doneAt, seen, dropped>>

\* Seeded fault: the clock is looked at before the answer.
LookClockFirst ==
    /\ stage = "look" /\ now = wake
    /\ \/ (now >= deadline \/ seen = "error") /\ Answer("nothing")
       \/ now < deadline /\ seen = "completed" /\ Answer("words")
       \/ now < deadline /\ seen = "queued" /\ Sleep /\ UNCHANGED deadline
    /\ UNCHANGED <<now, transcript, doneAt, seen, dropped>>

\* Seeded fault: a look at the deadline itself is in time.
LookAtEdge ==
    /\ stage = "look" /\ now = wake
    /\ \/ seen = "completed" /\ Answer("words")
       \/ (seen = "error" \/ now > deadline) /\ seen # "completed" /\ Answer("nothing")
       \/ seen = "queued" /\ now <= deadline /\ Sleep /\ UNCHANGED deadline
    /\ UNCHANGED <<now, transcript, doneAt, seen, dropped>>

Look ==
    /\ stage = "look" /\ now = wake
    /\ \/ seen = "completed" /\ Answer("words")
       \/ seen = "error" /\ Answer("nothing")
       \/ seen = "queued" /\ now >= deadline /\ Answer("nothing")
       \/ seen = "queued" /\ now < deadline /\ Sleep /\ UNCHANGED deadline
    /\ UNCHANGED <<now, transcript, doneAt, seen, dropped>>

Fail ==
    /\ stage = "fail" /\ now = wake /\ stage' = "nothing"
    /\ UNCHANGED <<now, wake, deadline, transcript, doneAt, seen, dropped>>

Finish ==  \* the provider's own, heard words or not
    /\ transcript = "queued" /\ transcript' \in {"completed", "error"} /\ doneAt' = now
    /\ UNCHANGED <<now, stage, wake, deadline, seen, dropped>>

Tick ==
    /\ stage \notin Over /\ now < wake /\ now < Horizon
    /\ now' = now + 1
    /\ stage' = IF now' >= Patience THEN "killed" ELSE stage
    /\ UNCHANGED <<wake, deadline, transcript, doneAt, seen, dropped>>

CallNext == Upload \/ Start \/ Begun \/ Ask \/ Look \/ Fail \/ Finish \/ Tick

CallSpec == CallInit /\ [][CallNext]_callVars

(***************************************************************************)
(* Properties.                                                             *)
(***************************************************************************)

(* The clock, the stages of a call, and a deadline set once.                *)
CallTypeOK ==
    /\ now \in 0..Horizon /\ wake \in Nat /\ deadline \in 0..(2 * Slow + Poll) /\ doneAt \in 0..Horizon
    /\ stage \in Over \cup {"upload", "start", "begun", "ask", "look", "fail"}
    /\ transcript \in {"none", "queued", "completed", "error"} /\ seen \in {"none", "queued", "completed", "error"}
    /\ dropped \in BOOLEAN

(* A transcript that was ready by the deadline is not thrown away: as the   *)
(* status is looked at before the clock, the ask that finds the deadline    *)
(* passed is itself late enough to have seen it, unless a request failed or *)
(* was under way across the deadline.                                       *)
ReadyIsHeard ==
    stage = "nothing" /\ transcript = "completed" /\ ~dropped => doneAt >= deadline - Slow

(* "The poll is bounded and blocking": no call, whatever the provider does, *)
(* outlasts two requests, the poll, a sleep and one last ask.               *)
HeldAtMost == now < 2 * Slow + Poll + Every + Timeout

(* No call loses what was ready, and none is held for long.                *)
PollIsBounded == ReadyIsHeard /\ HeldAtMost

(* "Past this the round gets its timing report and no words, which is a     *)
(* smaller report rather than an error": a call is never ended from outside.*)
(* Not so where Patience is less than what HeldAtMost allows, as by default.*)
TimingSurvives == stage # "killed"
=============================================================================
