---------------------------- MODULE Entitlement ----------------------------
(***************************************************************************)
(* The purchase row, the plans it may name, and the questions asked of the *)
(* rows of one account: who holds Pro, what may still be sold to them,     *)
(* when a settled payment stops granting, which subscriptions are due a    *)
(* re-read.  Pure operators over the table; the state that moves is in     *)
(* Checkout.                                                               *)
(*                                                                         *)
(* Time is counted in one unit.  What matters is the order of Recheck,     *)
(* Grace, a billing period and a pass, not their length in hours.          *)
(***************************************************************************)
EXTENDS Integers

CONSTANTS
    Refs,       \* the references checkouts and gifts may mint
    Users,      \* accounts
    Owner,      \* Owner[r]: the account that mints reference r
    Referred,   \* the references opened with a referrer on them
    None,       \* SQL null, Python None
    Attempts,   \* payment attempts one checkout session may see
    PassDays,   \* what a thirty-day plan buys
    Grace,      \* GRACE
    Recheck     \* RECHECK

ASSUME OwnerAssumption == Owner \in [Refs -> Users] /\ Referred \subseteq Refs
ASSUME NoneAssumption == None \notin Nat \cup Refs \cup (Refs \X Nat)
ASSUME AttemptsAssumption == Attempts \in Nat \ {0}
ASSUME TimesAssumption == {PassDays, Grace, Recheck} \subseteq Nat \ {0}

(***************************************************************************)
(* plans.py: two subscriptions, two one-time plans, two that are given.    *)
(***************************************************************************)
Subscription  == {"monthly", "annual"}
OneTime       == {"pass", "lifetime"}
Complimentary == {"comp", "comp-pass"}
Plans         == Subscription \cup OneTime \cup Complimentary

ASSUME PlansAssumption == None \notin Plans

Recurring(plan) == plan \in Subscription

\* Plan.days: null for lifetime, and also for a subscription.
Days(plan) == IF plan \in {"pass", "comp-pass"} THEN PassDays ELSE None

(***************************************************************************)
(* A payment id names the session it was made in and the attempt; attempt  *)
(* 0 is a subscription's latest renewal charge, which carries the          *)
(* session's reference in its metadata and no checkout session.            *)
(* A subscription is named by the session that created it.                 *)
(***************************************************************************)
PayIds        == Refs \X (0 .. Attempts)
ReferenceOf(p) == p[1]
SessionOf(p)   == IF p[2] = 0 THEN None ELSE p[1]

SubWords == {"none", "active", "on_hold", "cancelled"}
Over     == {"cancelled"}    \* SUBSCRIPTION_OVER, its three words treated alike

Statuses == {"none", "pending", "paid", "failed", "refunded"}

(***************************************************************************)
(* models.Purchase.  `word` is subscription_status; `cancels` is           *)
(* cancel_at_next_billing_date; `customer`, `charged` and `commission` say *)
(* whether the column has been written.  Status "none" is a reference no   *)
(* row was created under.                                                  *)
(***************************************************************************)
Row == [plan       : Plans \cup {None},
        status     : Statuses,
        pay        : PayIds \cup {None},
        sub        : Refs \cup {None},
        word       : SubWords \cup {None},
        cancels    : BOOLEAN,
        customer   : BOOLEAN,
        checked    : Nat \cup {None},
        charged    : BOOLEAN,
        verified   : BOOLEAN,
        commission : BOOLEAN,
        expires    : Nat \cup {None}]

Blank == [plan |-> None, status |-> "none", pay |-> None, sub |-> None,
          word |-> None, cancels |-> FALSE, customer |-> FALSE,
          checked |-> None, charged |-> FALSE, verified |-> FALSE,
          commission |-> FALSE, expires |-> None]

(***************************************************************************)
(* services.py                                                             *)
(***************************************************************************)
PaidRows(table, u) == {r \in Refs : Owner[r] = u /\ table[r].status = "paid"}

Live(row, t) == row.expires = None \/ row.expires > t

\* held is not None: some paid row is still granting.
IsPro(table, u, t) == \E r \in PaidRows(table, u) : Live(table[r], t)

\* HAS_FOREVER or HAS_SUBSCRIPTION.
Refused(table, u, plan, t) ==
    \E r \in PaidRows(table, u) :
        /\ Live(table[r], t)
        /\ \/ table[r].expires = None
           \/ Recurring(plan) /\ Recurring(table[r].plan)

\* Every m of a set that no other member exceeds.
Latest(S) == {m \in S : \A e \in S : m >= e}

(***************************************************************************)
(* checkout._grant_until: the days of a plan stack on whatever is still    *)
(* running; forever if the plan has no days or something held has none.    *)
(* The set has one member.                                                 *)
(***************************************************************************)
Running(table, r, t) ==
    {table[o].expires : o \in {x \in PaidRows(table, Owner[r]) \ {r} : Live(table[x], t)}}

\* Seeded fault: the days restart at the moment of settlement.
RestartedUntil(table, r, plan, t) ==
    IF Days(plan) = None THEN {None} ELSE {t + Days(plan)}

GrantUntil(table, r, plan, t) ==
    IF Days(plan) = None \/ None \in Running(table, r, t)
    THEN {None}
    ELSE {e + Days(plan) : e \in Latest(Running(table, r, t) \cup {t})}

(***************************************************************************)
(* checkout.due: run out, not already finished, not asked within the hour. *)
(***************************************************************************)
\* Seeded fault: asked again when exactly RECHECK has passed.
DueEarly(table, u, t) ==
    {r \in PaidRows(table, u) :
        /\ table[r].sub # None
        /\ ~Live(table[r], t)
        /\ table[r].word \notin Over
        /\ table[r].checked = None \/ t - table[r].checked >= Recheck}

Due(table, u, t) ==
    {r \in PaidRows(table, u) :
        /\ table[r].sub # None
        /\ ~Live(table[r], t)
        /\ table[r].word \notin Over
        /\ table[r].checked = None \/ t - table[r].checked > Recheck}
=============================================================================
