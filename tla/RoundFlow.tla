----------------------------- MODULE RoundFlow ------------------------------
(* What the engine promises the page around it: the order of the phases,    *)
(* when a clock may be paused, and that a run is handed over to be written  *)
(* exactly when a speaking minute is finished, never when it is left.       *)
EXTENDS Naturals

VARIABLES
    phase,
    paused,    \* the engine's timer is paused
    written    \* the last step handed the page a run to write

flow == <<phase, paused, written>>

Quietly == written' = FALSE

To(from, to) == phase \in from /\ phase' \in to /\ Quietly

Spin   == To({"idle", "topic", "done"}, {"spin", "topic"}) /\ UNCHANGED paused
Settle == To({"spin"}, {"topic"}) /\ UNCHANGED paused
Think  == To({"topic"}, {"prep"}) /\ ~paused /\ paused' = FALSE
Speak  == To({"topic", "prep"}, {"speak"}) /\ paused' = FALSE
Toggle == To({"prep", "speak"}, {phase}) /\ paused' = ~paused
Leave  == To({"prep", "speak", "ready", "reading"}, {"topic"}) /\ paused' = FALSE
Reset  == To({"topic"}, {"idle"}) /\ ~paused /\ UNCHANGED paused
Same   == To({"done"}, {"topic"}) /\ UNCHANGED paused

Finish == phase = "speak" /\ phase' = "done" /\ paused' = FALSE /\ written' = TRUE

(* A warm-up. The scroll may begin from the passage: a source chosen during *)
(* the lead-in goes back to the passage and leaves the lead-in running.     *)
Ready  == To({"topic"}, {"ready"}) /\ ~paused /\ UNCHANGED paused
Scroll == To({"ready", "topic"}, {"reading"}) /\ ~paused /\ UNCHANGED paused
Read   == To({"ready", "reading"}, {"done"}) /\ ~paused /\ UNCHANGED paused
Source == To({"ready"}, {"topic"}) /\ ~paused /\ UNCHANGED paused

Visit  == phase' \in {"idle", "topic"} /\ paused' = FALSE /\ Quietly

(* A step that moves nothing the page watches.                              *)
Other  == UNCHANGED <<phase, paused>> /\ Quietly

Init == phase \in {"idle", "topic"} /\ paused = FALSE /\ written = FALSE

Next ==
    \/ Spin \/ Settle \/ Think \/ Speak \/ Toggle \/ Leave \/ Reset \/ Same
    \/ Finish
    \/ Ready \/ Scroll \/ Read \/ Source
    \/ Visit \/ Other

Spec == Init /\ [][Next]_flow
=============================================================================
