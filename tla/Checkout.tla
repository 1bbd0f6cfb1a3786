------------------------------ MODULE Checkout ------------------------------
(***************************************************************************)
(* payments/checkout.py, with the admin edit and the gifts that write the  *)
(* same table.  A request is a sequence of steps, split where the code     *)
(* waits on the provider and between computing a row and saving it: every  *)
(* ORM call commits on its own, and row.save() writes every column of the  *)
(* copy the request loaded.                                                *)
(***************************************************************************)
EXTENDS Provider

CONSTANTS
    Reqs,       \* request workers: how many requests may be in flight
    Jobs,       \* which of AllJobs this instance lets begin
    OnSale,     \* the plans with a product id
    Omits,      \* what an answer of the provider may leave out
    Outages,    \* whether the provider may be unreachable
    Deaths,     \* the points at which a worker may die
    Marks       \* the statuses the operator sets by hand

AllJobs == {"start", "settle", "catchup", "portal", "admin", "gift", "visit"}

ASSUME JobsAssumption == Jobs \subseteq AllJobs
ASSUME OnSaleAssumption == OnSale \subseteq Subscription \cup OneTime
ASSUME OmitsAssumption == Omits \subseteq {"next", "customer", "sub", "charge"}
ASSUME OutagesAssumption == Outages \in BOOLEAN
ASSUME MarksAssumption == Marks \subseteq Statuses \ {"none"}

VARIABLES
    rows,       \* the purchases table
    req,        \* what each worker is doing, with the copies it loaded
    said,       \* said[r]: how often each announcement about r went out
    shown,      \* shown[u]: whether u's latest ordinary page was Pro
    form,       \* the operator's change form, as it was when it was opened
    asked,      \* asked[r]: when r's subscription was last asked about (history)
    blind       \* the pairs of rows of which neither knew the other's last
                \* days when its own were reckoned or written (history)

desk == <<form, blind>>
vars == <<provider, rows, req, said, shown, asked, desk>>

\* Points where a request waits on the provider.
Waiting == {"open", "pay", "sub", "charge", "reread"}
Points  == Waiting \cup {"idle", "save", "saveSub", "resave", "tell", "post"}

ASSUME DeathsAssumption == Deaths \subseteq Points \ {"idle"}

NoUrl == [pay |-> None, sub |-> None]

\* copies[x] is the Django object the worker holds for row x, todo the rows
\* its loop has still to visit, news whether there is something to announce
\* once the copy is saved.
Request == [pc     : Points,
            job    : AllJobs \cup {None},
            ref    : Refs \cup {None},
            url    : [pay : PayIds \cup {None}, sub : Refs \cup {None}],
            copies : [Refs -> Row],
            todo   : SUBSET Refs,
            news   : BOOLEAN]

Idle == [pc |-> "idle", job |-> None, ref |-> None, url |-> NoUrl,
         copies |-> [r \in Refs |-> Blank], todo |-> {}, news |-> FALSE]

\* The page an operator has open; one at a time, and it may be posted again.
Form == [ref : Refs \cup {None}, row : Row]
Shut == [ref |-> None, row |-> Blank]

\* Announcements are counted up to SaidMax, which is enough to see one repeated.
SaidMax == 2
Said    == [paid : 0 .. SaidMax, refunded : 0 .. SaidMax, stopped : 0 .. SaidMax]
More(n) == IF n < SaidMax THEN n + 1 ELSE n

TypeOK ==
    /\ ProviderTypeOK
    /\ rows \in [Refs -> Row]
    /\ req \in [Reqs -> Request]
    /\ said \in [Refs -> Said]
    /\ shown \in [Users -> BOOLEAN]
    /\ form \in Form
    /\ asked \in [Refs -> Nat \cup {None}]
    /\ blind \subseteq SUBSET Refs

Init ==
    /\ ProviderInit
    /\ rows = [r \in Refs |-> Blank]
    /\ req = [q \in Reqs |-> Idle]
    /\ said = [r \in Refs |-> [paid |-> 0, refunded |-> 0, stopped |-> 0]]
    /\ shown = [u \in Users |-> FALSE]
    /\ form = Shut
    /\ asked = [r \in Refs |-> None]
    /\ blind = {}

-----------------------------------------------------------------------------

\* The copy q is working on, and q's request with that copy replaced.
Copy(q) == req[q].copies[req[q].ref]
At(q, pc, copy) == [req[q] EXCEPT !.pc = pc, !.copies[req[q].ref] = copy]

Becomes(q, request) == req' = [req EXCEPT ![q] = request]
Finish(q) == Becomes(q, Idle)

\* row.save() on q's copy.
Save(q) == rows' = [rows EXCEPT ![req[q].ref] = Copy(q)]

\* A field of an answer is there, unless this instance lets it be missing.
Told(field) == IF field \in Omits THEN BOOLEAN ELSE {TRUE}

May(job) == job \in Jobs

\* A reference nothing has used: uuid4.
Fresh(r) == rows[r].status = "none" /\ \A q \in Reqs : req[q].ref # r

-----------------------------------------------------------------------------
(* start: refuse, ask for a session, then write the pending row.           *)

BeginStart(q, r, plan) ==
    /\ May("start") /\ req[q].pc = "idle"
    /\ Fresh(r)
    /\ plan \in OnSale
    /\ ~Refused(rows, Owner[r], plan, now)
    /\ Becomes(q, [Idle EXCEPT !.pc = "open", !.job = "start", !.ref = r,
                               !.copies[r] = [Blank EXCEPT !.plan = plan, !.status = "pending"]])
    /\ UNCHANGED <<provider, rows, said, shown, asked, desk>>

OpenCheckout(q) ==
    /\ req[q].pc = "open"
    /\ sessions' = [sessions EXCEPT ![req[q].ref] = Copy(q).plan]
    /\ Save(q)
    /\ Finish(q)
    /\ UNCHANGED <<pays, subs, now, said, shown, asked, desk>>

-----------------------------------------------------------------------------
(* settle: verify, by a payment or by a subscription that named none.      *)

\* What a return URL can name: ids the provider knows, neither of them
\* necessarily this row's, nor both of one session.
Urls == {u \in [pay : PayIds \cup {None}, sub : Refs \cup {None}] :
            /\ u.pay # None => pays[u.pay] # "none"
            /\ u.sub # None => subs[u.sub].word # "none"}

\* by_reference and verify: a settled row, and a return with nothing to read,
\* end here without a call.
BeginSettle(q, r, u) ==
    /\ May("settle") /\ req[q].pc = "idle"
    /\ rows[r].status = "pending"
    /\ \/ u.pay # None
       \/ u.sub # None /\ Recurring(rows[r].plan)
    /\ Becomes(q, [Idle EXCEPT !.pc = IF u.pay # None THEN "pay" ELSE "sub",
                               !.job = "settle", !.ref = r, !.url = u,
                               !.copies[r] = rows[r]])
    /\ UNCHANGED <<provider, rows, said, shown, asked, desk>>

\* Seeded fault: any payment the provider knows will do.
BelongsToAnyone(p, r) == p \in PayIds

\* The binding of a payment to a row: both halves.
Belongs(p, r) == ReferenceOf(p) = r /\ SessionOf(p) = r

\* Seeded faults: the provider's word on our row, and money still with the
\* bank taken for landed.
SettledInTheirWords(row, r) == [row EXCEPT !.status = "succeeded", !.verified = TRUE,
                                           !.commission = r \in Referred]
LandedOrPromised == {"succeeded", "processing"}

\* The columns every settlement writes: _record_charge, _credit.
Settled(row, r) == [row EXCEPT !.status = "paid", !.verified = TRUE,
                               !.commission = r \in Referred]

Succeeded == {"succeeded"}
Dead      == {"failed"}     \* DEAD, its two words treated alike

\* _settle_payment, from the answer to just before row.save().
AfterPayment(row, r, p, sub, knows, until) ==
    LET noted == [row EXCEPT !.pay = p, !.sub = sub, !.customer = row.customer \/ knows]
    IN  IF pays[p] \in Succeeded
        THEN [Settled(noted, r) EXCEPT !.charged = TRUE, !.expires = until]
        ELSE IF pays[p] \in Dead THEN [noted EXCEPT !.status = "failed"]
        ELSE noted

\* The rows other workers have reckoned the days of and not yet saved.
Unsaved(q) == {req[p].ref : p \in {o \in Reqs \ {q} : req[o].pc = "save"}} \ {req[q].ref}

AnswerPayment(q) ==
    LET r == req[q].ref
        p == req[q].url.pay
    IN  /\ req[q].pc = "pay"
        /\ IF ~Belongs(p, r)
           THEN Finish(q) /\ UNCHANGED blind
           ELSE /\ blind' = blind \cup {{r, s} : s \in Unsaved(q)}
                /\ \E knows \in Told("customer"), named \in Told("sub"),
                      until \in GrantUntil(rows, r, Copy(q).plan, now) :
                      LET sub == IF named /\ subs[r].word # "none" THEN r ELSE req[q].url.sub
                      IN  Becomes(q, At(q, "save", AfterPayment(Copy(q), r, p, sub, knows, until)))
        /\ UNCHANGED <<provider, rows, said, shown, asked, form>>

\* refresh begins: checked_at is stamped on the copy before the call.
Reread(x, r) ==
    [x EXCEPT !.pc = "reread", !.ref = r, !.todo = @ \ {r},
              !.copies = [c \in Refs |->
                  IF c = r THEN [x.copies[r] EXCEPT !.checked = now]
                  ELSE IF c \in x.todo THEN x.copies[c] ELSE Blank]]

SavePayment(q) ==
    /\ req[q].pc = "save"
    /\ Save(q)
    /\ IF Copy(q).status # "paid"
       THEN Finish(q) /\ UNCHANGED asked
       ELSE IF Recurring(Copy(q).plan) /\ Copy(q).sub # None
       THEN /\ Becomes(q, Reread(req[q], req[q].ref))
            /\ asked' = [asked EXCEPT ![req[q].ref] = now]
       ELSE Becomes(q, At(q, "tell", Copy(q))) /\ UNCHANGED asked
    /\ UNCHANGED <<provider, said, shown, desk>>

\* _settle_subscription: the binding is the reference alone.  A dated answer
\* fixes the expiry now, an undated one when the charge is in.
AnswerSubscription(q) ==
    LET r == req[q].ref
        s == req[q].url.sub
    IN  /\ req[q].pc = "sub"
        /\ IF s # r \/ subs[s].word # "active"
           THEN Finish(q)
           ELSE \E knows \in Told("customer"), dated \in Told("next") :
                   Becomes(q, At(q, "charge",
                       [Copy(q) EXCEPT !.sub = s, !.word = subs[s].word,
                                       !.cancels = subs[s].cancels,
                                       !.customer = Copy(q).customer \/ knows,
                                       !.expires = IF dated THEN subs[s].next + Grace ELSE None]))
        /\ UNCHANGED <<provider, rows, said, shown, asked, desk>>

\* subscription_payment: the most recent charge that succeeded, or none.
SubscriptionPayment(s) ==
    LET good   == {n \in 0 .. Attempts : pays[<<s, n>>] = "succeeded"}
        latest == IF 0 \in good THEN {0} ELSE good
    IN  {<<s, n>> : n \in latest} \cup (IF good = {} \/ "charge" \in Omits THEN {None} ELSE {})

AnswerCharge(q) ==
    LET r == req[q].ref
    IN  /\ req[q].pc = "charge"
        /\ \E charge \in SubscriptionPayment(req[q].url.sub), knows \in Told("customer") :
              LET noted == IF charge = None THEN Copy(q)
                           ELSE [Copy(q) EXCEPT !.pay = charge, !.charged = TRUE,
                                                !.customer = Copy(q).customer \/ knows]
              IN  Becomes(q, At(q, "saveSub",
                      [Settled(noted, r) EXCEPT
                          !.expires = IF noted.expires = None THEN now + Grace ELSE noted.expires,
                          !.checked = now]))
        /\ UNCHANGED <<provider, rows, said, shown, asked, desk>>

SaveSubscription(q) ==
    /\ req[q].pc = "saveSub"
    /\ Save(q)
    /\ Becomes(q, At(q, "tell", Copy(q)))
    /\ UNCHANGED <<provider, said, shown, asked, desk>>

\* _receipt and _announce_paid, last of all.
Tell(q) ==
    /\ req[q].pc = "tell"
    /\ said' = [said EXCEPT ![req[q].ref].paid = More(@)]
    /\ Finish(q)
    /\ UNCHANGED <<provider, rows, shown, asked, desk>>

-----------------------------------------------------------------------------
(* refresh, and the three callers that reach it.                           *)

\* Where q goes once refresh has returned: on to the receipt, on to the next
\* row of its loop, or home.
AfterRefresh(q) ==
    IF req[q].job = "settle"
    THEN Becomes(q, [At(q, "tell", Copy(q)) EXCEPT !.news = FALSE]) /\ UNCHANGED asked
    ELSE IF req[q].todo = {} \/ (req[q].job = "portal" /\ Copy(q).customer)
    THEN Finish(q) /\ UNCHANGED asked
    ELSE \E n \in req[q].todo :
            /\ Becomes(q, Reread([req[q] EXCEPT !.news = FALSE], n))
            /\ asked' = [asked EXCEPT ![n] = now]

\* _now_stopping
NowStopping(row, live) ==
    \/ live.cancels /\ ~row.cancels
    \/ live.word \in Over /\ row.word \notin Over

\* Seeded faults: the grace window added twice, and a finished subscription
\* cut off at once.
ExpiryTwiceGraced(row, live, dated) ==
    IF live.word \in Over THEN row.expires
    ELSE IF dated THEN live.next + Grace + Grace
    ELSE IF live.word = "active" THEN row.checked + Grace
    ELSE row.expires
ExpiryCutOff(row, live, dated) ==
    IF live.word \in Over THEN row.checked
    ELSE IF dated THEN live.next + Grace
    ELSE IF live.word = "active" THEN row.checked + Grace
    ELSE row.expires

\* refresh's three branches: over keeps the expiry, a billing date moves it,
\* active without a date gets the grace window.
Expiry(row, live, dated) ==
    IF live.word \in Over THEN row.expires
    ELSE IF dated THEN live.next + Grace
    ELSE IF live.word = "active" THEN row.checked + Grace
    ELSE row.expires

Refreshed(row, live, dated, knows) ==
    [row EXCEPT !.word = live.word, !.cancels = live.cancels,
                !.customer = row.customer \/ knows, !.expires = Expiry(row, live, dated)]

AnswerReread(q) ==
    /\ req[q].pc = "reread"
    /\ LET live == subs[Copy(q).sub]
       IN  \E knows \in Told("customer"), dated \in Told("next") :
              Becomes(q, [At(q, "resave", Refreshed(Copy(q), live, dated, knows))
                             EXCEPT !.news = NowStopping(Copy(q), live)])
    /\ UNCHANGED <<provider, rows, said, shown, asked, desk>>

SaveReread(q) ==
    /\ req[q].pc = "resave"
    /\ Save(q)
    /\ said' = IF req[q].news THEN [said EXCEPT ![req[q].ref].stopped = More(@)] ELSE said
    /\ AfterRefresh(q)
    /\ UNCHANGED <<provider, shown, desk>>

\* DodoError inside refresh: only checked_at is written.
RereadFails(q) ==
    /\ Outages /\ req[q].pc = "reread"
    /\ rows' = [rows EXCEPT ![req[q].ref].checked = Copy(q).checked]
    /\ AfterRefresh(q)
    /\ UNCHANGED <<provider, said, shown, desk>>

\* The loop of a request over the rows in due, all loaded before the first call.
BeginLoop(q, job, due) ==
    /\ May(job) /\ req[q].pc = "idle"
    /\ \E n \in due :
          /\ Becomes(q, Reread([Idle EXCEPT !.job = job, !.todo = due, !.copies = rows], n))
          /\ asked' = [asked EXCEPT ![n] = now]
    /\ UNCHANGED <<provider, rows, said, shown, desk>>

\* POST /payments/refresh, on the way back from the portal.
BeginCatchUp(q, u) == BeginLoop(q, "catchup", Due(rows, u, now))

\* POST /payments/portal, for an account none of whose paid rows knows its
\* customer; otherwise nothing is re-read.
BeginPortal(q, u) ==
    /\ \A r \in PaidRows(rows, u) : ~rows[r].customer
    /\ BeginLoop(q, "portal", {r \in PaidRows(rows, u) : rows[r].sub # None})

-----------------------------------------------------------------------------
(* The operator: the ledger's edit form, and gifts.                        *)

\* A sold row's change form; a gift's is refused for want of a session id.
OpenForm(r) ==
    /\ May("admin")
    /\ rows[r].status # "none" /\ rows[r].plan \notin Complimentary
    /\ form' = [ref |-> r, row |-> rows[r]]
    /\ UNCHANGED <<provider, rows, req, said, shown, asked, blind>>

\* Seeded fault: the flip judged by what the page showed when it was opened.
ShownPaid(r, status) == status = "refunded" /\ form.row.status = "paid"

\* became_refunded: judged against the row as stored when the form arrives.
BecameRefunded(r, status) == status = "refunded" /\ rows[r].status = "paid"

\* The form is posted, its status left or set by hand, every other column as
\* it was when the page was opened.
PostForm(q, status) ==
    /\ req[q].pc = "idle" /\ form.ref # None
    /\ status \in Marks \cup {form.row.status}
    /\ Becomes(q, [Idle EXCEPT !.pc = "post", !.job = "admin", !.ref = form.ref,
                               !.copies[form.ref] = [form.row EXCEPT !.status = status],
                               !.news = BecameRefunded(form.ref, status)])
    /\ UNCHANGED <<provider, rows, said, shown, asked, desk>>

SaveForm(q) ==
    /\ req[q].pc = "post"
    /\ Save(q)
    /\ said' = IF req[q].news THEN [said EXCEPT ![req[q].ref].refunded = More(@)] ELSE said
    /\ blind' = blind \cup {{req[q].ref, s} : s \in Refs \ {req[q].ref}}
    /\ Finish(q)
    /\ UNCHANGED <<provider, shown, asked, form>>

\* gifts.grant
Grant(r, plan) ==
    /\ May("gift") /\ Fresh(r)
    /\ plan \in Complimentary
    /\ rows' = [rows EXCEPT ![r] =
          [Blank EXCEPT !.plan = plan, !.status = "paid",
                        !.expires = IF Days(plan) = None THEN None ELSE now + Days(plan)]]
    /\ UNCHANGED <<provider, req, said, shown, asked, desk>>

\* gifts.revoke: only expires_at is written, and only on a gift.
Revoke(r) ==
    /\ May("gift")
    /\ rows[r].plan \in Complimentary
    /\ rows' = [rows EXCEPT ![r].expires = now]
    /\ UNCHANGED <<provider, req, said, shown, asked, desk>>

-----------------------------------------------------------------------------

\* An ordinary page: held, and no call to anybody.
Visit(u) ==
    /\ May("visit")
    /\ shown' = [shown EXCEPT ![u] = IsPro(rows, u, now)]
    /\ UNCHANGED <<provider, rows, req, said, asked, desk>>

\* A DodoError the handler lets through, and a worker that dies: whatever
\* the request held in memory is gone.
Abandon(q) ==
    /\ \/ Outages /\ req[q].pc \in Waiting \ {"reread"}
       \/ req[q].pc \in Deaths
    /\ Finish(q)
    /\ UNCHANGED <<provider, rows, said, shown, asked, desk>>

Step(q) ==
    \/ OpenCheckout(q)
    \/ AnswerPayment(q) \/ SavePayment(q)
    \/ AnswerSubscription(q) \/ AnswerCharge(q) \/ SaveSubscription(q)
    \/ Tell(q)
    \/ AnswerReread(q) \/ SaveReread(q) \/ RereadFails(q)
    \/ SaveForm(q)

Begin(q) ==
    \/ \E r \in Refs, plan \in OnSale : BeginStart(q, r, plan)
    \/ \E r \in Refs, u \in Urls : BeginSettle(q, r, u)
    \/ \E u \in Users : BeginCatchUp(q, u) \/ BeginPortal(q, u)
    \/ \E status \in Statuses : PostForm(q, status)

Next ==
    \/ ProviderNext /\ UNCHANGED <<rows, req, said, shown, asked, desk>>
    \/ \E q \in Reqs : Begin(q) \/ Step(q) \/ Abandon(q)
    \/ \E r \in Refs : OpenForm(r) \/ Revoke(r) \/ \E plan \in Complimentary : Grant(r, plan)
    \/ \E u \in Users : Visit(u)

Spec == Init /\ [][Next]_vars

\* A worker whose call is answered goes on, a provider asked again and again
\* answers in the end, pages go on being opened, and the hosted page sends the
\* buyer to the done page once, when it has taken the money.  Nothing else calls settle
\* with an id: the receipt is mailed once the row is paid, and its link names the
\* reference alone, which reads nothing (coming back by it is a stutter here).
Redirected(r) ==
    \E q \in Reqs :
        /\ req[q].job = "settle" /\ req[q].ref = r
        /\ IF req[q].url.pay = None THEN req[q].url.sub = r ELSE Belongs(req[q].url.pay, r)

Fairness ==
    /\ \A q \in Reqs : WF_vars(Step(q)) /\ SF_vars(AnswerPayment(q))
    /\ \A r \in Refs : <>Charged(r) => <>(Charged(r) /\ Redirected(r))
    /\ \A u \in Users : WF_vars(Visit(u))

FairSpec == Spec /\ Fairness

-----------------------------------------------------------------------------
(* Properties                                                              *)

\* A sold row never claims what the provider did not say: the payment on it is
\* its own, it counts as paid only if its session took money and it was
\* verified, and the commission is written with the settlement or not at all.
Bound(row, r) ==
    /\ row.pay # None => ReferenceOf(row.pay) = r
    /\ row.status = "paid" /\ row.plan \notin Complimentary => row.verified /\ Charged(r)
    /\ row.commission = (row.verified /\ r \in Referred)
    /\ row.status \in {"pending", "failed"} => ~row.verified

\* Whatever requests in flight, a form left open and return URLs naming any
\* two ids do to one row between a load and a save, the table never holds a
\* purchase settled by somebody else's payment, or half of a settlement
\* (checkout.verify, refresh, admin.save_model).
PaidIsBound == \A r \in Refs : Bound(rows[r], r)

\* A date on a subscription's row is never later than GRACE past now, or past
\* what the subscription named on the row is paid to, however stale the copy
\* that set it.  Of a row with no date it says nothing (RecurringExpires), nor
\* whose subscription is named (SubscriptionIsOwn).
DatesPaidFor ==
    \A r \in Refs :
        Recurring(rows[r].plan) /\ rows[r].expires # None
            => /\ rows[r].sub # None
               /\ \/ rows[r].expires <= subs[rows[r].sub].next + Grace
                  \/ rows[r].expires <= now + Grace

\* Two passes one account holds never cover the same days (_grant_until: "Days
\* stack rather than restart"), however many requests are in flight, unless
\* one was reckoned between the other's reckoning and its save, or written back
\* from a form.  A pass that carries a subscription's id is re-read like one.
Stacked(row, other) ==
    \/ row.expires >= other.expires + PassDays
    \/ other.expires >= row.expires + PassDays

DatedPass(row) ==
    row.plan = "pass" /\ row.status = "paid" /\ row.sub = None /\ row.expires # None

PassesStack ==
    \A r, s \in Refs :
        r # s /\ Owner[r] = Owner[s] /\ DatedPass(rows[r]) /\ DatedPass(rows[s])
            => Stacked(rows[r], rows[s]) \/ {r, s} \in blind

\* The channel hears of a refund on the edit that flips a paid row, and on no
\* later save of a row already refunded, whatever the form showed when it was
\* opened and however often it is posted (PurchaseAdmin.save_model: "exactly
\* once ... on the edit that flips a paid row to refunded").
RefundSaidOnFlip ==
    [][\A r \in Refs :
          LET flips == rows[r].status = "paid" /\ rows'[r].status = "refunded"
          IN  /\ said'[r].refunded # said[r].refunded => flips
              /\ flips /\ said[r].refunded < SaidMax
                    => said'[r].refunded = said[r].refunded + 1]_vars

\* A re-read never takes back time a subscriber already had: a later answer
\* moves the expiry on or leaves it (refresh, and its `over` branch).
PaidTimeKept ==
    [][\A r \in Refs :
          /\ Recurring(rows[r].plan) /\ rows[r].expires # None
          /\ rows[r].status = "paid" /\ rows'[r].status = "paid"
          => rows'[r].expires # None /\ rows'[r].expires >= rows[r].expires]_vars

\* catch_up asks about one subscription at most once per RECHECK, the hours in
\* which the provider does not answer included.
AskedAtMostHourly ==
    [][\A q \in Reqs :
          LET n == req'[q].ref
          IN  /\ req'[q].job = "catchup" /\ req'[q].pc = "reread"
              /\ req[q].pc # "reread" \/ req[q].ref # n
              => asked[n] = None \/ now - asked[n] > Recheck]_vars

\* One request at a time, one payment attempt per session and no status but
\* "refunded" set by hand, the table is the abstract ledger: every save is one
\* of its moves or none, a stale form's included.
Promise == INSTANCE Ledger WITH
    status <- [r \in Refs |-> rows[r].status],
    money  <- {r \in Refs : Charged(r)},
    given  <- {r \in Refs : rows[r].plan \in Complimentary}

KeepsLedger == Promise!Spec

-----------------------------------------------------------------------------
(* What the repository says of this code and the code does not keep.       *)

\* apis.settle: "The row stays pending and the link in the receipt settles it
\* whenever they come back."  A buyer whose payment succeeded and who was sent
\* back is recorded as having paid.
PaymentBecomesPro ==
    \A r \in Refs : Charged(r) ~> rows[r].status \in {"paid", "refunded"}

\* apis.settle: the ids in the body "are trusted for nothing beyond naming what
\* to go and read".  A row names no subscription but its own.
SubscriptionIsOwn == \A r \in Refs : rows[r].sub \in {None, r}

\* plans.py: a subscription "is only true until the next renewal"; an expiry
\* of null "is what lifetime buys".  No subscription row at rest grants forever.
RecurringExpires ==
    \A r \in Refs :
        rows[r].status = "paid" /\ Recurring(rows[r].plan) /\ rows[r].expires = None
            => \E q \in Reqs : req[q].ref = r

\* models.Purchase: "paid to refunded when access is pulled", and no way back.
RefundStands ==
    [][\A r \in Refs : rows[r].status = "refunded" => rows'[r].status = "refunded"]_vars

\* test_settling_twice_announces_once.
AnnouncedOnce == \A r \in Refs : said[r].paid <= 1

\* _now_stopping: the two ways a subscription stops are one event.
CancellationSaidOnce == \A r \in Refs : said[r].stopped <= 1

\* catch_up: "a stored expiry passing and a trip back from the portal, and this
\* is called at both."  A subscription paid for now shows as Pro on the pages
\* its holder goes on opening.
Renewed(r) == /\ rows[r].status = "paid" /\ rows[r].sub = r
              /\ subs[r].word = "active" /\ subs[r].next > now

RenewedIsShown == \A r \in Refs : Renewed(r) ~> shown[Owner[r]] \/ ~Renewed(r)
=============================================================================
