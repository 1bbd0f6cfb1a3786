------------------------------ MODULE Provider ------------------------------
(***************************************************************************)
(* The payment provider as the code in payments/dodo.py reads it: checkout *)
(* sessions, payments, subscriptions, and a clock.  External: nothing here *)
(* is under src/, and every transition is one the client's comments and    *)
(* tests show the program prepared for.  There are no webhooks, so these   *)
(* actions reach the program only when a request asks.                     *)
(***************************************************************************)
EXTENDS Entitlement

CONSTANTS
    Period,     \* how often a subscription is charged
    MaxTime,    \* bound: the clock stops here
    Events      \* which of AllEvents this instance lets happen

AllEvents == {"process", "renew", "hold", "stop", "end"}

ASSUME PeriodAssumption == Period \in Nat \ {0} /\ MaxTime \in Nat
ASSUME EventsAssumption == Events \subseteq AllEvents

VARIABLES
    sessions,   \* sessions[r]: the plan whose product the session was opened for
    pays,       \* pays[p]: how payment p stands
    subs,       \* subs[r]: the subscription session r started
    now

provider == <<sessions, pays, subs, now>>

PayWords == {"none", "processing", "succeeded", "failed"}

ProviderTypeOK ==
    /\ sessions \in [Refs -> Plans \cup {None}]
    /\ pays \in [PayIds -> PayWords]
    /\ subs \in [Refs -> [word : SubWords, next : Nat, cancels : BOOLEAN]]
    /\ now \in Nat

ProviderInit ==
    /\ sessions = [r \in Refs |-> None]
    /\ pays = [p \in PayIds |-> "none"]
    /\ subs = [r \in Refs |-> [word |-> "none", next |-> 0, cancels |-> FALSE]]
    /\ now = 0

\* Money has moved for session r.
Charged(r) == \E n \in 1 .. Attempts : pays[<<r, n>>] = "succeeded"

\* Payment p becomes w; a first charge for a recurring product starts the
\* subscription.
SetPayment(p, w) ==
    /\ pays' = [pays EXCEPT ![p] = w]
    /\ subs' = IF w = "succeeded" /\ Recurring(sessions[p[1]])
               THEN [subs EXCEPT ![p[1]] =
                        [word |-> "active", next |-> now + Period, cancels |-> FALSE]]
               ELSE subs
    /\ UNCHANGED <<sessions, now>>

\* The buyer tries to pay on the hosted page.  A session that took money, or
\* is still taking it, accepts no second attempt.
Attempt(r, n) ==
    /\ sessions[r] # None
    /\ \A m \in 1 .. Attempts :
          /\ pays[<<r, m>>] \in {"none", "failed"}
          /\ m < n => pays[<<r, m>>] = "failed"
          /\ m >= n => pays[<<r, m>>] = "none"
    /\ \E w \in PayWords \ {"none"} :
          /\ w = "processing" => "process" \in Events
          /\ SetPayment(<<r, n>>, w)

\* A payment that was still with the bank lands, or does not.
Clear(r, n) ==
    /\ pays[<<r, n>>] = "processing"
    /\ \E w \in {"succeeded", "failed"} : SetPayment(<<r, n>>, w)

\* Subscription r now stands as s.
SetSubscription(r, s) ==
    /\ subs' = [subs EXCEPT ![r] = s]
    /\ UNCHANGED <<sessions, now>>

\* The period is over and the card is charged again, in time or after a
\* spell on hold.
Renew(r) ==
    /\ "renew" \in Events
    /\ \/ subs[r].word = "active" /\ ~subs[r].cancels /\ now >= subs[r].next
       \/ subs[r].word = "on_hold"
    /\ pays' = [pays EXCEPT ![<<r, 0>>] = "succeeded"]
    /\ SetSubscription(r, [subs[r] EXCEPT !.word = "active", !.next = now + Period])

\* The renewal charge failed.
Hold(r) ==
    /\ "hold" \in Events
    /\ subs[r].word = "active" /\ ~subs[r].cancels /\ now >= subs[r].next
    /\ SetSubscription(r, [subs[r] EXCEPT !.word = "on_hold"])
    /\ UNCHANGED pays

\* In the provider's portal: stop at the end of the period.
Stop(r) ==
    /\ "stop" \in Events
    /\ subs[r].word = "active" /\ ~subs[r].cancels
    /\ SetSubscription(r, [subs[r] EXCEPT !.cancels = TRUE])
    /\ UNCHANGED pays

\* It ends: the period ran out after a stop, retries of the card gave up, or
\* it was ended at once in the provider's dashboard.
End(r) ==
    /\ "end" \in Events
    /\ subs[r].word \in {"active", "on_hold"}
    /\ SetSubscription(r, [subs[r] EXCEPT !.word = "cancelled"])
    /\ UNCHANGED pays

Tick ==
    /\ now < MaxTime
    /\ now' = now + 1
    /\ UNCHANGED <<sessions, pays, subs>>

ProviderNext ==
    \/ \E r \in Refs, n \in 1 .. Attempts : Attempt(r, n) \/ Clear(r, n)
    \/ \E r \in Refs : Renew(r) \/ Hold(r) \/ Stop(r) \/ End(r)
    \/ Tick
=============================================================================
