--------------------------- MODULE CheckoutProofs ---------------------------
(***************************************************************************)
(* Checkout, for every number of accounts, references, workers and for     *)
(* every length of the billing period, the grace window and a pass.        *)
(***************************************************************************)
EXTENDS Checkout, TLAPS

USE OwnerAssumption, NoneAssumption, AttemptsAssumption, TimesAssumption,
    PeriodAssumption, OnSaleAssumption

\* Whoever is asked about a subscription says when it renews.
DatesTold == "next" \notin Omits

\* The operator sets no status by hand but "refunded".
RefundOnly == Marks \subseteq {"refunded"}

\* A row, or a copy of it, as good as the operator's hand leaves it.
Sound(row, r) == RefundOnly => Bound(row, r)

\* What the copy a worker is on looks like at each point of its request.
Fits(pc, row) ==
    /\ pc \in {"open", "pay", "sub", "charge"} => row.status = "pending"
    /\ pc = "open" => row.plan \in OnSale
    /\ pc = "save" => row.status \in {"pending", "paid", "failed"}
    /\ pc \in {"saveSub", "reread", "resave"} => row.status = "paid" /\ row.sub # None
    /\ pc = "charge" => row.sub # None
    /\ pc \in {"reread", "resave"} => row.checked \in Nat
    /\ pc = "post" => row.status # "none"

\* A row loaded to be re-read.
Loadable(row) == row.status = "paid" /\ row.sub # None

\* What a worker knows at each point of its request.
ReqInv(x) ==
    /\ x.pc # "idle" => x.ref \in Refs /\ Fits(x.pc, x.copies[x.ref])
    /\ \A r \in Refs : Sound(x.copies[r], r)
    /\ \A n \in x.todo : Loadable(x.copies[n])
    /\ x.ref \notin x.todo
    /\ x.pc = "pay" => x.url.pay # None
    /\ x.pc = "sub" => x.url.sub # None
    /\ x.pc = "charge" => x.url.sub = x.ref /\ subs[x.ref].word # "none"
    /\ x.pc = "charge" /\ DatesTold => x.copies[x.ref].expires # None

\* The page the operator has open shows a row that was there.
DeskOK == form.ref # None => Sound(form.row, form.ref) /\ form.row.status # "none"

\* A subscription exists only where a first charge succeeded.
SubsCharged == \A r \in Refs : subs[r].word # "none" => Charged(r)

IInv ==
    /\ TypeOK
    /\ SubsCharged
    /\ \A r \in Refs : Sound(rows[r], r)
    /\ DeskOK
    /\ \A q \in Reqs : ReqInv(req[q])

-----------------------------------------------------------------------------
(* Facts about records and answers.                                        *)

LEMMA IdleOK == Idle \in Request /\ ReqInv(Idle)
  BY DEF Idle, Request, ReqInv, Fits, Loadable, Sound, Bound, Blank, Row, NoUrl, Points, Waiting,
         Statuses, AllJobs

\* A worker's request replaced by a sound one leaves every request sound.
LEMMA OneRequest ==
  ASSUME IInv, UNCHANGED <<pays, subs>>,
         NEW q \in Reqs, NEW x \in Request, ReqInv(x), Becomes(q, x)
  PROVE  req' \in [Reqs -> Request] /\ (\A p \in Reqs : ReqInv(req[p]))'
  <1>1. req' \in [Reqs -> Request]
    BY DEF IInv, TypeOK, Becomes
  <1>2. ASSUME NEW p \in Reqs PROVE ReqInv(req'[p])
    BY DEF IInv, TypeOK, Becomes
  <1>3. \A y : ReqInv(y)' <=> ReqInv(y)
    BY DEF ReqInv, Sound, Bound, Charged
  <1>4. QED BY <1>1, <1>2, <1>3

\* The copy a busy worker is on is a row, bound to its reference.
LEMMA CopyOK ==
  ASSUME IInv, NEW q \in Reqs, req[q].pc # "idle"
  PROVE  /\ req[q] \in Request /\ ReqInv(req[q])
         /\ req[q].ref \in Refs
         /\ Copy(q) \in Row /\ Sound(Copy(q), req[q].ref) /\ Fits(req[q].pc, Copy(q))
  BY DEF IInv, TypeOK, Request, ReqInv, Copy

\* The same worker at another point with another copy of its row.
LEMMA AtFields ==
  ASSUME IInv, NEW q \in Reqs, req[q].pc # "idle", NEW pc, NEW copy
  PROVE  LET x == At(q, pc, copy)
         IN  /\ x.pc = pc /\ x.ref = req[q].ref /\ x.url = req[q].url
             /\ x.job = req[q].job /\ x.todo = req[q].todo
             /\ x.copies[x.ref] = copy
             /\ \A n \in Refs \ {x.ref} : x.copies[n] = req[q].copies[n]
  <1>1. req[q] \in Request /\ req[q].ref \in Refs
    BY CopyOK
  <1>2. At(q, pc, copy) = [req[q] EXCEPT !.pc = pc,
                              !.copies = [req[q].copies EXCEPT ![req[q].ref] = copy]]
    BY <1>1 DEF At, Request
  <1> DEFINE x == At(q, pc, copy)
  <1>3. /\ x.pc = pc /\ x.ref = req[q].ref /\ x.url = req[q].url
        /\ x.job = req[q].job /\ x.todo = req[q].todo
        /\ x.copies = [req[q].copies EXCEPT ![req[q].ref] = copy]
    BY <1>1, <1>2 DEF Request
  <1> HIDE DEF x
  <1>4. QED BY <1>1, <1>3 DEF x, Request

\* The same worker, at another point with another copy of its row.
LEMMA AtOK ==
  ASSUME IInv, NEW q \in Reqs, req[q].pc # "idle",
         NEW pc \in Points, NEW copy \in Row, Sound(copy, req[q].ref)
  PROVE  LET x == At(q, pc, copy)
         IN  /\ x \in Request
             /\ x.pc = pc /\ x.ref = req[q].ref /\ x.url = req[q].url
             /\ x.job = req[q].job /\ x.todo = req[q].todo
             /\ x.copies[x.ref] = copy
             /\ \A r \in Refs : Sound(x.copies[r], r)
             /\ \A n \in x.todo : Loadable(x.copies[n])
             /\ x.ref \notin x.todo
  <1>1. req[q] \in Request /\ ReqInv(req[q]) /\ req[q].ref \in Refs
    BY CopyOK
  <1>2. At(q, pc, copy) = [req[q] EXCEPT !.pc = pc,
                              !.copies = [req[q].copies EXCEPT ![req[q].ref] = copy]]
    BY <1>1 DEF At, Request
  <1> DEFINE x == At(q, pc, copy)
  <1>3. x.pc = pc /\ x.ref = req[q].ref /\ x.url = req[q].url
        /\ x.job = req[q].job /\ x.todo = req[q].todo
    BY <1>1, <1>2 DEF Request
  <1>4. /\ x.copies = [req[q].copies EXCEPT ![req[q].ref] = copy]
        /\ x.copies \in [Refs -> Row]
        /\ x.copies[req[q].ref] = copy
        /\ \A r \in Refs \ {req[q].ref} : x.copies[r] = req[q].copies[r]
    BY <1>1, <1>2 DEF Request
  <1>5. x \in Request
    BY <1>1, <1>2, <1>4 DEF Request
  <1>6. \A r \in Refs : Sound(x.copies[r], r)
    BY <1>1, <1>4 DEF ReqInv
  <1>7. (\A n \in x.todo : Loadable(x.copies[n])) /\ x.ref \notin x.todo
    BY <1>1, <1>3, <1>4 DEF ReqInv, Request
  <1>8. QED BY <1>3, <1>4, <1>5, <1>6, <1>7

\* ... at a point that presumes nothing but the copy.
LEMMA QuietOK ==
  ASSUME IInv, NEW q \in Reqs, req[q].pc # "idle",
         NEW pc \in {"save", "saveSub", "resave", "tell"},
         NEW copy \in Row, Sound(copy, req[q].ref), Fits(pc, copy)
  PROVE  At(q, pc, copy) \in Request /\ ReqInv(At(q, pc, copy))
  <1> DEFINE x == At(q, pc, copy)
  <1>1. pc \in Points
    BY DEF Points
  <1>2. /\ x \in Request
        /\ x.pc = pc /\ x.ref = req[q].ref /\ x.url = req[q].url
        /\ x.copies[x.ref] = copy
        /\ \A r \in Refs : Sound(x.copies[r], r)
        /\ \A n \in x.todo : Loadable(x.copies[n])
        /\ x.ref \notin x.todo
    BY <1>1, AtOK
  <1>3. ReqInv(req[q]) /\ req[q].ref \in Refs
    BY CopyOK
  <1> HIDE DEF x
  <1>4. ReqInv(x)
    BY <1>2, <1>3 DEF ReqInv
  <1>5. QED BY <1>2, <1>4 DEF x

\* A save of a worker's copy.
LEMMA SaveOK ==
  ASSUME IInv, UNCHANGED <<pays, subs>>, NEW q \in Reqs, req[q].pc # "idle", Save(q)
  PROVE  rows' \in [Refs -> Row] /\ (\A c \in Refs : Sound(rows[c], c))'
  <1>1. Copy(q) \in Row /\ Sound(Copy(q), req[q].ref) /\ req[q].ref \in Refs
    BY CopyOK
  <1>2. rows' \in [Refs -> Row]
    BY <1>1 DEF IInv, TypeOK, Save
  <1>3. \A r \in Refs : Sound(rows'[r], r)
    BY <1>1 DEF IInv, TypeOK, Save
  <1>4. QED BY <1>2, <1>3 DEF Sound, Bound, Charged

\* The loop moves on to row r.
LEMMA RereadOK ==
  ASSUME IInv, NEW x \in Request, NEW r \in Refs, Loadable(x.copies[r]),
         \A c \in Refs : Sound(x.copies[c], c),
         \A n \in x.todo : Loadable(x.copies[n])
  PROVE  Reread(x, r) \in Request /\ ReqInv(Reread(x, r))
  <1> DEFINE copies == [c \in Refs |-> IF c = r THEN [x.copies[r] EXCEPT !.checked = now]
                                       ELSE IF c \in x.todo THEN x.copies[c] ELSE Blank]
  <1>1. now \in Nat
    BY DEF IInv, TypeOK, ProviderTypeOK
  <1>2. Blank \in Row /\ \A c \in Refs : Sound(Blank, c)
    BY DEF Blank, Row, Sound, Bound, Statuses
  <1>3. [x.copies[r] EXCEPT !.checked = now] \in Row
    BY <1>1 DEF Request, Row
  <1>4. copies \in [Refs -> Row]
    BY <1>2, <1>3 DEF Request
  <1>5. ASSUME NEW c \in Refs PROVE Sound(copies[c], c)
    <2>1. CASE c = r
      <3>1. copies[c] = [x.copies[c] EXCEPT !.checked = now]
        BY <2>1
      <3>2. x.copies[c] \in Row /\ Sound(x.copies[c], c)
        BY DEF Request
      <3>3. QED BY <3>1, <3>2 DEF Sound, Bound, Row
    <2>2. CASE c # r /\ c \in x.todo
      BY <2>2
    <2>3. CASE c # r /\ c \notin x.todo
      BY <1>2, <2>3
    <2>4. QED BY <2>1, <2>2, <2>3
  <1>6. Reread(x, r) = [x EXCEPT !.pc = "reread", !.ref = r, !.todo = x.todo \ {r},
                                 !.copies = copies]
    BY DEF Reread
  <1>7. Reread(x, r) \in Request
    BY <1>4, <1>6 DEF Request, Points, Waiting
  <1>8. Loadable(copies[r]) /\ copies[r].checked \in Nat
    BY <1>1 DEF Request, Row, Loadable
  <1>9. \A n \in x.todo \ {r} : Loadable(copies[n])
    BY DEF Request
  <1> HIDE DEF copies
  <1>10. ReqInv(Reread(x, r))
    BY <1>5, <1>6, <1>8, <1>9 DEF ReqInv, Fits, Loadable, Request
  <1>11. QED BY <1>7, <1>10

-----------------------------------------------------------------------------
(* The provider's own steps.                                               *)

\* What a worker knows of the provider stays true as long as no charge and no
\* subscription goes away.
LEMMA ProviderGrows ==
  ASSUME IInv, UNCHANGED <<rows, req, said, shown, asked, desk>>,
         ProviderTypeOK', SubsCharged',
         \A c \in Refs : Charged(c) => Charged(c)',
         \A c \in Refs : subs[c].word # "none" => subs'[c].word # "none"
  PROVE  IInv'
  <1>1. TypeOK'
    BY DEF IInv, TypeOK, desk
  <1>2. ASSUME NEW row, NEW r \in Refs, Sound(row, r) PROVE Sound(row, r)'
    BY <1>2 DEF Sound, Bound
  <1>3. (\A c \in Refs : Sound(rows[c], c))' /\ DeskOK'
    BY <1>2 DEF IInv, TypeOK, Form, DeskOK, desk
  <1>4. ASSUME NEW q \in Reqs PROVE ReqInv(req[q])'
    <2> DEFINE x == req[q]
    <2>1. x \in Request /\ ReqInv(x) /\ x' = x
      BY DEF IInv, TypeOK
    <2>2. \A r \in Refs : Sound(x.copies[r], r)'
      BY <2>1, <1>2 DEF ReqInv
    <2>3. x.pc = "charge" => subs'[x.ref].word # "none"
      BY <2>1 DEF ReqInv, Request
    <2>4. QED BY <2>1, <2>2, <2>3 DEF ReqInv
  <1>5. QED BY <1>1, <1>3, <1>4 DEF IInv

\* A payment that was not yet decided is decided.
LEMMA SetPaymentOK ==
  ASSUME IInv, NEW r \in Refs, NEW n \in 1 .. Attempts, NEW w \in PayWords,
         pays[<<r, n>>] # "succeeded", SetPayment(<<r, n>>, w),
         UNCHANGED <<rows, req, said, shown, asked, desk>>
  PROVE  IInv'
  <1>1. <<r, n>> \in PayIds
    BY DEF PayIds
  <1>2. /\ pays' = [pays EXCEPT ![<<r, n>>] = w] /\ pays' \in [PayIds -> PayWords]
        /\ \A p \in PayIds : pays[p] = "succeeded" => pays'[p] = "succeeded"
    BY <1>1 DEF SetPayment, IInv, TypeOK, ProviderTypeOK
  <1>3. ASSUME NEW c \in Refs, Charged(c) PROVE Charged(c)'
    <2>1. PICK m \in 1 .. Attempts : pays[<<c, m>>] = "succeeded"
      BY <1>3 DEF Charged
    <2>2. <<c, m>> \in PayIds
      BY DEF PayIds
    <2>3. pays'[<<c, m>>] = "succeeded"
      BY <1>2, <2>1, <2>2
    <2>4. QED BY <2>3 DEF Charged
  <1>4. CASE w = "succeeded" /\ Recurring(sessions[r])
    <2>1. subs' = [subs EXCEPT ![r] =
                      [word |-> "active", next |-> now + Period, cancels |-> FALSE]]
      BY <1>4 DEF SetPayment
    <2>2. Charged(r)'
      BY <1>1, <1>2, <1>4 DEF Charged, IInv, TypeOK, ProviderTypeOK
    <2>3. /\ ProviderTypeOK'
          /\ \A c \in Refs : subs[c].word # "none" => subs'[c].word # "none"
      BY <2>1, <1>2 DEF IInv, TypeOK, ProviderTypeOK, SetPayment, SubWords
    <2>4. SubsCharged'
      BY <2>1, <2>2, <1>3 DEF SubsCharged, IInv, TypeOK, ProviderTypeOK
    <2>5. QED BY <2>3, <2>4, <1>3, ProviderGrows
  <1>5. CASE ~(w = "succeeded" /\ Recurring(sessions[r]))
    <2>1. subs' = subs
      BY <1>5 DEF SetPayment
    <2>2. ProviderTypeOK' /\ SubsCharged'
      BY <2>1, <1>2, <1>3 DEF IInv, TypeOK, ProviderTypeOK, SetPayment, SubsCharged
    <2>3. QED BY <2>1, <2>2, <1>3, ProviderGrows
  <1>6. QED BY <1>4, <1>5

\* A subscription that exists goes on existing, whatever becomes of it.
LEMMA SetSubscriptionOK ==
  ASSUME IInv, NEW r \in Refs, subs[r].word # "none",
         NEW s \in [word : SubWords \ {"none"}, next : Nat, cancels : BOOLEAN],
         SetSubscription(r, s), pays' = pays \/ pays' = [pays EXCEPT ![<<r, 0>>] = "succeeded"],
         UNCHANGED <<rows, req, said, shown, asked, desk>>
  PROVE  IInv'
  <1>1. <<r, 0>> \in PayIds
    BY DEF PayIds
  <1>2. /\ pays' \in [PayIds -> PayWords]
        /\ \A p \in PayIds : pays[p] = "succeeded" => pays'[p] = "succeeded"
    BY <1>1 DEF IInv, TypeOK, ProviderTypeOK, PayWords
  <1>3. ASSUME NEW c \in Refs, Charged(c) PROVE Charged(c)'
    <2>1. PICK m \in 1 .. Attempts : pays[<<c, m>>] = "succeeded"
      BY <1>3 DEF Charged
    <2>2. <<c, m>> \in PayIds
      BY DEF PayIds
    <2>3. pays'[<<c, m>>] = "succeeded"
      BY <1>2, <2>1, <2>2
    <2>4. QED BY <2>3 DEF Charged
  <1>4. /\ ProviderTypeOK'
        /\ \A c \in Refs : subs'[c].word # "none" <=> subs[c].word # "none"
    BY <1>2 DEF SetSubscription, IInv, TypeOK, ProviderTypeOK
  <1>5. SubsCharged'
    BY <1>3, <1>4 DEF SubsCharged, IInv
  <1>6. QED BY <1>3, <1>4, <1>5, ProviderGrows

LEMMA ProviderOK ==
  ASSUME IInv, ProviderNext, UNCHANGED <<rows, req, said, shown, asked, desk>>
  PROVE  IInv'
  <1>1. ASSUME NEW r \in Refs, NEW n \in 1 .. Attempts, Attempt(r, n)
        PROVE  IInv'
    <2>1. pays[<<r, n>>] # "succeeded"
      BY <1>1 DEF Attempt
    <2>2. PICK w \in PayWords \ {"none"} : SetPayment(<<r, n>>, w)
      BY <1>1 DEF Attempt
    <2>3. QED BY <2>1, <2>2, SetPaymentOK
  <1>2. ASSUME NEW r \in Refs, NEW n \in 1 .. Attempts, Clear(r, n)
        PROVE  IInv'
    <2>1. PICK w \in {"succeeded", "failed"} : SetPayment(<<r, n>>, w)
      BY <1>2 DEF Clear
    <2>2. w \in PayWords /\ pays[<<r, n>>] # "succeeded"
      BY <1>2 DEF Clear, PayWords
    <2>3. QED BY <2>1, <2>2, SetPaymentOK
  <1>3. ASSUME NEW r \in Refs PROVE subs[r] \in [word : SubWords, next : Nat, cancels : BOOLEAN]
    BY DEF IInv, TypeOK, ProviderTypeOK
  <1>4. now \in Nat
    BY DEF IInv, TypeOK, ProviderTypeOK
  <1>5. ASSUME NEW r \in Refs, Renew(r) PROVE IInv'
    <2> DEFINE next == now + Period
               s == [subs[r] EXCEPT !.word = "active", !.next = next]
    <2>1. subs[r].word \in {"active", "on_hold"}
      BY <1>5 DEF Renew
    <2>2. next \in Nat
      BY <1>4
    <2> HIDE DEF next
    <2>3. s \in [word : SubWords \ {"none"}, next : Nat, cancels : BOOLEAN]
      BY <1>3, <2>2 DEF SubWords
    <2> USE DEF next
    <2>4. SetSubscription(r, s) /\ pays' = [pays EXCEPT ![<<r, 0>>] = "succeeded"]
      BY <1>5 DEF Renew
    <2> HIDE DEF s
    <2>5. QED BY <2>1, <2>3, <2>4, SetSubscriptionOK
  <1>6. ASSUME NEW r \in Refs, Hold(r) PROVE IInv'
    <2> DEFINE s == [subs[r] EXCEPT !.word = "on_hold"]
    <2>1. /\ s \in [word : SubWords \ {"none"}, next : Nat, cancels : BOOLEAN]
          /\ subs[r].word # "none"
      BY <1>3, <1>6 DEF Hold, SubWords
    <2>2. SetSubscription(r, s) /\ pays' = pays
      BY <1>6 DEF Hold
    <2> HIDE DEF s
    <2>3. QED BY <2>1, <2>2, SetSubscriptionOK
  <1>7. ASSUME NEW r \in Refs, Stop(r) PROVE IInv'
    <2> DEFINE s == [subs[r] EXCEPT !.cancels = TRUE]
    <2>1. /\ s \in [word : SubWords \ {"none"}, next : Nat, cancels : BOOLEAN]
          /\ subs[r].word # "none"
      BY <1>3, <1>7 DEF Stop, SubWords
    <2>2. SetSubscription(r, s) /\ pays' = pays
      BY <1>7 DEF Stop
    <2> HIDE DEF s
    <2>3. QED BY <2>1, <2>2, SetSubscriptionOK
  <1>8. ASSUME NEW r \in Refs, End(r) PROVE IInv'
    <2> DEFINE s == [subs[r] EXCEPT !.word = "cancelled"]
    <2>1. /\ s \in [word : SubWords \ {"none"}, next : Nat, cancels : BOOLEAN]
          /\ subs[r].word # "none"
      BY <1>3, <1>8 DEF End, SubWords
    <2>2. SetSubscription(r, s) /\ pays' = pays
      BY <1>8 DEF End
    <2> HIDE DEF s
    <2>3. QED BY <2>1, <2>2, SetSubscriptionOK
  <1>9. CASE Tick
    <2>1. ProviderTypeOK' /\ SubsCharged'
      BY <1>9 DEF Tick, IInv, TypeOK, ProviderTypeOK, SubsCharged, Charged
    <2>2. \A c \in Refs : (Charged(c) => Charged(c)') /\ subs'[c] = subs[c]
      BY <1>9 DEF Tick, Charged
    <2>3. QED BY <2>1, <2>2, ProviderGrows
  <1>10. QED BY <1>1, <1>2, <1>5, <1>6, <1>7, <1>8, <1>9 DEF ProviderNext

-----------------------------------------------------------------------------
(* The steps of a request.  Only start reaches into the provider's state,  *)
(* and only to open a session.                                             *)

\* What is left to show for a step that leaves payments and subscriptions
\* alone.
LEMMA StepKeeps ==
  ASSUME IInv, UNCHANGED <<pays, subs, now>>,
         sessions' \in [Refs -> Plans \cup {None}],
         rows' \in [Refs -> Row], (\A c \in Refs : Sound(rows[c], c))',
         req' \in [Reqs -> Request], (\A q \in Reqs : ReqInv(req[q]))',
         said' \in [Refs -> Said], shown' \in [Users -> BOOLEAN],
         asked' \in [Refs -> Nat \cup {None}],
         form' = form, blind' \subseteq SUBSET Refs
  PROVE  IInv'
  <1>1. DeskOK'
    BY DEF IInv, DeskOK, Sound, Bound, Charged
  <1>2. QED BY <1>1 DEF IInv, TypeOK, ProviderTypeOK, SubsCharged, Charged

\* ... and only moves the worker on.
LEMMA MoveKeeps ==
  ASSUME IInv, UNCHANGED <<provider, rows, said, shown, form>>,
         NEW q \in Reqs, NEW x \in Request, ReqInv(x), Becomes(q, x),
         asked' \in [Refs -> Nat \cup {None}], blind' \subseteq SUBSET Refs
  PROVE  IInv'
  <1>1. UNCHANGED <<pays, subs, now, sessions>>
    BY DEF provider
  <1>2. req' \in [Reqs -> Request] /\ (\A p \in Reqs : ReqInv(req[p]))'
    BY <1>1, OneRequest
  <1>3. (\A c \in Refs : Sound(rows[c], c))'
    BY <1>1 DEF IInv, Sound, Bound, Charged
  <1>4. QED BY <1>1, <1>2, <1>3, StepKeeps DEF IInv, TypeOK, ProviderTypeOK

\* ... or saves the worker's copy as it moves it on.
LEMMA SaveKeeps ==
  ASSUME IInv, UNCHANGED <<pays, subs, now>>, UNCHANGED <<shown, form>>,
         blind' \subseteq SUBSET Refs,
         sessions' \in [Refs -> Plans \cup {None}],
         NEW q \in Reqs, req[q].pc # "idle", Save(q),
         NEW x \in Request, ReqInv(x), Becomes(q, x),
         said' \in [Refs -> Said], asked' \in [Refs -> Nat \cup {None}]
  PROVE  IInv'
  <1>1. req' \in [Reqs -> Request] /\ (\A p \in Reqs : ReqInv(req[p]))'
    BY OneRequest
  <1>2. rows' \in [Refs -> Row] /\ (\A c \in Refs : Sound(rows[c], c))'
    BY SaveOK
  <1>3. QED BY <1>1, <1>2, StepKeeps DEF IInv, TypeOK

LEMMA SaidOK ==
  ASSUME IInv, NEW r \in Refs
  PROVE  /\ [said EXCEPT ![r].paid = More(@)] \in [Refs -> Said]
         /\ [said EXCEPT ![r].refunded = More(@)] \in [Refs -> Said]
         /\ [said EXCEPT ![r].stopped = More(@)] \in [Refs -> Said]
  <1>1. said \in [Refs -> Said] /\ said[r] \in Said
    BY DEF IInv, TypeOK
  <1>2. \A n \in 0 .. SaidMax : More(n) \in 0 .. SaidMax
    BY DEF More, SaidMax
  <1>3. QED BY <1>1, <1>2 DEF Said

LEMMA BeginStartOK ==
  ASSUME IInv, NEW q \in Reqs, NEW r \in Refs, NEW plan \in OnSale, BeginStart(q, r, plan)
  PROVE  IInv'
  <1> DEFINE row == [Blank EXCEPT !.plan = plan, !.status = "pending"]
             x == [Idle EXCEPT !.pc = "open", !.job = "start", !.ref = r,
                               !.copies = [Idle.copies EXCEPT ![r] = row]]
  <1>1. plan \in Plans
    BY DEF Plans
  <1>2. /\ row \in Row /\ Sound(row, r)
        /\ row.status = "pending" /\ row.plan = plan
    BY <1>1 DEF Blank, Row, Sound, Bound, Statuses
  <1>3. Idle \in Request /\ ReqInv(Idle)
    BY IdleOK
  <1>4. Becomes(q, x) /\ UNCHANGED <<provider, rows, said, shown, asked, desk>>
    BY DEF BeginStart, Idle
  <1> HIDE DEF row
  <1>5. x \in Request
    BY <1>2, <1>3 DEF Request, Points, Waiting, AllJobs
  <1>6. /\ x.pc = "open" /\ x.ref = r /\ x.todo = {} /\ x.url = NoUrl
        /\ x.copies = [Idle.copies EXCEPT ![r] = row]
    BY DEF Idle
  <1>7. (\A c \in Refs : Sound(x.copies[c], c)) /\ x.copies[r] = row
    BY <1>2, <1>3, <1>6 DEF ReqInv, Request
  <1>8. ReqInv(x)
    BY <1>2, <1>6, <1>7 DEF ReqInv, Fits, NoUrl
  <1> HIDE DEF x
  <1>9. QED BY <1>4, <1>5, <1>8, MoveKeeps DEF IInv, TypeOK, desk

LEMMA OpenCheckoutOK ==
  ASSUME IInv, NEW q \in Reqs, OpenCheckout(q)
  PROVE  IInv'
  <1>1. req[q].pc # "idle" /\ Save(q) /\ Becomes(q, Idle)
    BY DEF OpenCheckout, Finish
  <1>2. sessions' \in [Refs -> Plans \cup {None}]
    BY <1>1, CopyOK DEF OpenCheckout, IInv, TypeOK, ProviderTypeOK, Row
  <1>3. QED BY <1>1, <1>2, IdleOK, SaveKeeps DEF OpenCheckout, IInv, TypeOK, desk

LEMMA BeginSettleOK ==
  ASSUME IInv, NEW q \in Reqs, NEW r \in Refs, NEW u \in Urls, BeginSettle(q, r, u)
  PROVE  IInv'
  <1> DEFINE x == [Idle EXCEPT !.pc = IF u.pay # None THEN "pay" ELSE "sub",
                               !.job = "settle", !.ref = r, !.url = u,
                               !.copies = [Idle.copies EXCEPT ![r] = rows[r]]]
  <1>1. rows[r] \in Row /\ Sound(rows[r], r) /\ rows[r].status = "pending"
    BY DEF IInv, TypeOK, BeginSettle
  <1>2. u \in [pay : PayIds \cup {None}, sub : Refs \cup {None}]
        /\ (u.pay = None => u.sub # None)
    BY DEF Urls, BeginSettle
  <1>3. Idle \in Request /\ ReqInv(Idle)
    BY IdleOK
  <1>4. Becomes(q, x) /\ UNCHANGED <<provider, rows, said, shown, asked, desk>>
    BY DEF BeginSettle, Idle
  <1>5. x \in Request
    BY <1>1, <1>2, <1>3 DEF Request, Points, Waiting, AllJobs
  <1>6. /\ x.pc = IF u.pay # None THEN "pay" ELSE "sub"
        /\ x.ref = r /\ x.todo = {} /\ x.url = u
        /\ x.copies = [Idle.copies EXCEPT ![r] = rows[r]]
    BY DEF Idle
  <1>7. (\A c \in Refs : Sound(x.copies[c], c)) /\ x.copies[r] = rows[r]
    BY <1>1, <1>3, <1>6 DEF ReqInv, Request
  <1>8. ReqInv(x)
    BY <1>1, <1>2, <1>6, <1>7 DEF ReqInv, Fits
  <1> HIDE DEF x
  <1>9. QED BY <1>4, <1>5, <1>8, MoveKeeps DEF IInv, TypeOK, desk

-----------------------------------------------------------------------------
(* settle                                                                  *)

\* Whatever a pass stacks on, it ends at a moment or never.
LEMMA GrantOK ==
  ASSUME IInv, NEW r \in Refs, NEW plan, NEW until \in GrantUntil(rows, r, plan, now)
  PROVE  until \in Nat \cup {None}
  <1>1. now \in Nat /\ rows \in [Refs -> Row]
    BY DEF IInv, TypeOK, ProviderTypeOK
  <1>2. Running(rows, r, now) \subseteq Nat \cup {None}
    BY <1>1 DEF Running, PaidRows, Row
  <1>3. CASE Days(plan) = None \/ None \in Running(rows, r, now)
    BY <1>3 DEF GrantUntil
  <1>4. CASE ~(Days(plan) = None \/ None \in Running(rows, r, now))
    <2>1. PICK e \in Latest(Running(rows, r, now) \cup {now}) : until = e + Days(plan)
      BY <1>4 DEF GrantUntil
    <2>2. e \in Nat
      BY <1>1, <1>2, <1>4, <2>1 DEF Latest
    <2>3. Days(plan) \in Nat
      BY <1>4 DEF Days
    <2>4. QED BY <2>1, <2>2, <2>3
  <1>5. QED BY <1>3, <1>4

\* A settlement the provider backs is a bound row.
LEMMA SettledOK ==
  ASSUME NEW r \in Refs, NEW row \in Row, Sound(row, r), Charged(r)
  PROVE  Settled(row, r) \in Row /\ Sound(Settled(row, r), r)
  <1> DEFINE s == Settled(row, r)
             c == r \in Referred
  <1>1. c \in BOOLEAN
    OBVIOUS
  <1>2. s = [row EXCEPT !.status = "paid", !.verified = TRUE, !.commission = c]
    BY DEF Settled
  <1> HIDE DEF c, s
  <1>3. s \in Row
    BY <1>1, <1>2 DEF Row, Statuses
  <1>4. /\ s.status = "paid" /\ s.verified = TRUE /\ s.commission = c
        /\ s.pay = row.pay /\ s.sub = row.sub
    BY <1>2 DEF Row
  <1>5. s.commission = (s.verified /\ r \in Referred)
    <2>1. s.commission <=> r \in Referred
      BY <1>4 DEF c
    <2>2. s.commission \in BOOLEAN /\ s.verified = TRUE
      BY <1>3, <1>4 DEF Row
    <2>3. QED BY <2>1, <2>2
  <1>6. Sound(s, r)
    BY <1>4, <1>5 DEF Sound, Bound
  <1>7. QED BY <1>3, <1>6 DEF s

LEMMA AnswerPaymentOK ==
  ASSUME IInv, NEW q \in Reqs, AnswerPayment(q)
  PROVE  IInv'
  <1> DEFINE r == req[q].ref
             p == req[q].url.pay
  <1>1. /\ req[q].pc = "pay" /\ UNCHANGED <<provider, rows, said, shown, asked, form>>
        /\ asked' \in [Refs -> Nat \cup {None}]
    BY DEF AnswerPayment, IInv, TypeOK
  <1>2. /\ r \in Refs /\ Copy(q) \in Row /\ Sound(Copy(q), r) /\ req[q] \in Request
        /\ p \in PayIds /\ Copy(q).status = "pending"
        /\ req[q].url.sub \in Refs \cup {None}
    BY <1>1, CopyOK DEF ReqInv, Request, Copy, Fits
  <1>10. blind' \subseteq SUBSET Refs
    <2>1. ASSUME NEW s \in Unsaved(q) PROVE s \in Refs
      BY <2>1, CopyOK DEF Unsaved
    <2>2. {{r, s} : s \in Unsaved(q)} \subseteq SUBSET Refs
      BY <1>2, <2>1
    <2>3. QED BY <2>2 DEF AnswerPayment, IInv, TypeOK
  <1>3. CASE ~Belongs(p, r)
    BY <1>1, <1>3, <1>10, IdleOK, MoveKeeps DEF AnswerPayment, Finish
  <1>4. CASE Belongs(p, r)
    <2>1. PICK knows \in BOOLEAN, named \in BOOLEAN,
               until \in GrantUntil(rows, r, Copy(q).plan, now) :
             LET sub == IF named /\ subs[r].word # "none" THEN r ELSE req[q].url.sub
             IN  Becomes(q, At(q, "save", AfterPayment(Copy(q), r, p, sub, knows, until)))
      BY <1>4 DEF AnswerPayment, Told
    <2> DEFINE sub   == IF named /\ subs[r].word # "none" THEN r ELSE req[q].url.sub
               noted == [Copy(q) EXCEPT !.pay = p, !.sub = sub,
                                        !.customer = Copy(q).customer \/ knows]
               copy  == AfterPayment(Copy(q), r, p, sub, knows, until)
    <2>2. ReferenceOf(p) = r /\ sub \in Refs \cup {None} /\ until \in Nat \cup {None}
      BY <1>2, <1>4, GrantOK DEF Belongs
    <2>3. noted \in Row /\ Sound(noted, r) /\ noted.status = "pending"
      <3> DEFINE known == Copy(q).customer \/ knows
      <3>1. known \in BOOLEAN
        OBVIOUS
      <3> HIDE DEF known, sub
      <3>2. noted = [Copy(q) EXCEPT !.pay = p, !.sub = sub, !.customer = known]
        BY DEF known
      <3> HIDE DEF noted
      <3>3. noted \in Row
        BY <1>2, <2>2, <3>1, <3>2 DEF Row
      <3>4. /\ noted.pay = p /\ noted.sub = sub /\ noted.status = "pending"
            /\ noted.plan = Copy(q).plan /\ noted.verified = Copy(q).verified
            /\ noted.commission = Copy(q).commission
        BY <1>2, <3>2 DEF Row
      <3>5. Sound(noted, r)
        BY <1>2, <2>2, <3>4 DEF Sound, Bound
      <3>6. QED BY <3>3, <3>4, <3>5
    <2>4. pays[p] = "succeeded" => Charged(r)
      BY <1>2, <1>4 DEF Belongs, SessionOf, ReferenceOf, PayIds, Charged
    <2>5. copy \in Row /\ Sound(copy, r) /\ copy.status \in {"pending", "paid", "failed"}
      <3>1. CASE pays[p] = "succeeded"
        <4> HIDE DEF noted
        <4>1. Settled(noted, r) \in Row /\ Sound(Settled(noted, r), r)
          BY <1>2, <2>3, <2>4, <3>1, SettledOK
        <4> USE DEF noted
        <4>2. copy = [Settled(noted, r) EXCEPT !.charged = TRUE, !.expires = until]
          BY <3>1 DEF AfterPayment, Succeeded
        <4> HIDE DEF noted, copy
        <4>3. Settled(noted, r).status = "paid"
          BY <2>3 DEF Settled, Row
        <4>4. QED BY <2>2, <4>1, <4>2, <4>3 DEF Row, Sound, Bound
      <3>2. CASE pays[p] = "failed"
        <4>1. copy = [noted EXCEPT !.status = "failed"]
          BY <3>2 DEF AfterPayment, Succeeded, Dead
        <4> HIDE DEF noted, copy
        <4>2. QED BY <2>3, <4>1 DEF Row, Sound, Bound, Statuses
      <3>3. CASE pays[p] \notin {"succeeded", "failed"}
        BY <2>3, <3>3 DEF AfterPayment, Succeeded, Dead
      <3>4. QED BY <3>1, <3>2, <3>3
    <2> DEFINE x == At(q, "save", copy)
    <2>6. Becomes(q, x)
      BY <2>1
    <2> HIDE DEF copy
    <2>7. x \in Request /\ ReqInv(x)
      BY <1>1, <2>5, QuietOK DEF Fits
    <2> HIDE DEF x
    <2>8. QED BY <1>1, <1>10, <2>6, <2>7, MoveKeeps
  <1>5. QED BY <1>3, <1>4

LEMMA SavePaymentOK ==
  ASSUME IInv, NEW q \in Reqs, SavePayment(q)
  PROVE  IInv'
  <1> DEFINE r == req[q].ref
  <1>1. /\ req[q].pc = "save" /\ Save(q) /\ UNCHANGED <<provider, said, shown, form>>
        /\ UNCHANGED <<pays, subs, now, sessions>> /\ blind' \subseteq SUBSET Refs
        /\ sessions' \in [Refs -> Plans \cup {None}] /\ said' \in [Refs -> Said]
    BY DEF SavePayment, IInv, TypeOK, ProviderTypeOK, provider, desk
  <1>2. /\ r \in Refs /\ Copy(q) \in Row /\ Sound(Copy(q), r) /\ req[q] \in Request
        /\ ReqInv(req[q]) /\ now \in Nat /\ asked \in [Refs -> Nat \cup {None}]
    BY <1>1, CopyOK DEF IInv, TypeOK, ProviderTypeOK
  <1>3. CASE Copy(q).status # "paid"
    BY <1>1, <1>2, <1>3, IdleOK, SaveKeeps DEF SavePayment, Finish
  <1>4. CASE Copy(q).status = "paid" /\ Recurring(Copy(q).plan) /\ Copy(q).sub # None
    <2> DEFINE x == Reread(req[q], r)
    <2>1. Becomes(q, x) /\ asked' = [asked EXCEPT ![r] = now]
      BY <1>4 DEF SavePayment
    <2>2. x \in Request /\ ReqInv(x)
      BY <1>2, <1>4, RereadOK DEF ReqInv, Copy, Loadable
    <2> HIDE DEF x
    <2>3. asked' \in [Refs -> Nat \cup {None}]
      BY <1>2, <2>1
    <2>4. QED BY <1>1, <2>1, <2>2, <2>3, SaveKeeps
  <1>5. CASE Copy(q).status = "paid" /\ ~(Recurring(Copy(q).plan) /\ Copy(q).sub # None)
    <2> DEFINE x == At(q, "tell", Copy(q))
    <2>1. Becomes(q, x) /\ asked' = asked
      BY <1>5 DEF SavePayment
    <2>2. x \in Request /\ ReqInv(x)
      BY <1>1, <1>2, QuietOK DEF Fits
    <2> HIDE DEF x
    <2>3. QED BY <1>1, <1>2, <2>1, <2>2, SaveKeeps
  <1>6. QED BY <1>3, <1>4, <1>5

LEMMA AnswerSubscriptionOK ==
  ASSUME IInv, NEW q \in Reqs, AnswerSubscription(q)
  PROVE  IInv'
  <1> DEFINE r == req[q].ref
             s == req[q].url.sub
  <1>1. /\ req[q].pc = "sub" /\ UNCHANGED <<provider, rows, said, shown, asked, desk>>
        /\ asked' \in [Refs -> Nat \cup {None}]
        /\ form' = form /\ blind' \subseteq SUBSET Refs
    BY DEF AnswerSubscription, IInv, TypeOK, desk
  <1>2. /\ r \in Refs /\ Copy(q) \in Row /\ Sound(Copy(q), r)
        /\ req[q] \in Request /\ ReqInv(req[q]) /\ Copy(q).status = "pending"
    BY <1>1, CopyOK DEF Fits
  <1>3. CASE s # r \/ subs[s].word # "active"
    BY <1>1, <1>3, IdleOK, MoveKeeps DEF AnswerSubscription, Finish
  <1>4. CASE ~(s # r \/ subs[s].word # "active")
    <2>1. PICK knows \in BOOLEAN, dated \in Told("next") :
             Becomes(q, At(q, "charge",
                 [Copy(q) EXCEPT !.sub = s, !.word = subs[s].word,
                                 !.cancels = subs[s].cancels,
                                 !.customer = Copy(q).customer \/ knows,
                                 !.expires = IF dated THEN subs[s].next + Grace ELSE None]))
      BY <1>4 DEF AnswerSubscription, Told
    <2> DEFINE until == IF dated THEN subs[s].next + Grace ELSE None
               known == Copy(q).customer \/ knows
               copy  == [Copy(q) EXCEPT !.sub = s, !.word = subs[s].word,
                                        !.cancels = subs[s].cancels, !.customer = known,
                                        !.expires = until]
    <2>2. subs[s] \in [word : SubWords, next : Nat, cancels : BOOLEAN]
      BY <1>2, <1>4 DEF IInv, TypeOK, ProviderTypeOK
    <2>3. /\ until \in Nat \cup {None} /\ known \in BOOLEAN
          /\ DatesTold => until # None
      <3>1. known \in BOOLEAN
        OBVIOUS
      <3>2. subs[s].next + Grace \in Nat
        BY <2>2
      <3>3. DatesTold => dated
        BY DEF DatesTold, Told
      <3> HIDE DEF known
      <3>4. QED BY <3>1, <3>2, <3>3
    <2> HIDE DEF until, known
    <2>4. copy \in Row
      BY <1>2, <1>4, <2>2, <2>3 DEF Row
    <2>5. Sound(copy, r)
      BY <1>2, <1>4 DEF Sound, Bound, Row
    <2>6. copy.expires = until /\ copy.sub = s /\ copy.status = "pending"
      BY <1>2 DEF Row
    <2> DEFINE x == At(q, "charge", copy)
    <2>7. Becomes(q, x)
      BY <2>1 DEF until, known
    <2> HIDE DEF copy
    <2>8. /\ x \in Request /\ x.pc = "charge" /\ x.ref = r /\ x.url = req[q].url
          /\ x.copies[r] = copy
          /\ \A c \in Refs : Sound(x.copies[c], c)
          /\ \A n \in x.todo : Loadable(x.copies[n])
          /\ x.ref \notin x.todo
      BY <1>1, <2>4, <2>5, AtOK DEF Points, Waiting
    <2> HIDE DEF x
    <2>9. ReqInv(x)
      BY <1>2, <1>4, <2>3, <2>6, <2>8 DEF ReqInv, Fits
    <2>10. QED BY <1>1, <2>7, <2>8, <2>9, MoveKeeps
  <1>5. QED BY <1>3, <1>4

LEMMA AnswerChargeOK ==
  ASSUME IInv, NEW q \in Reqs, AnswerCharge(q)
  PROVE  IInv'
  <1> DEFINE r == req[q].ref
  <1>1. /\ req[q].pc = "charge" /\ UNCHANGED <<provider, rows, said, shown, asked, desk>>
        /\ asked' \in [Refs -> Nat \cup {None}] /\ now \in Nat
        /\ form' = form /\ blind' \subseteq SUBSET Refs
    BY DEF AnswerCharge, IInv, TypeOK, ProviderTypeOK, desk
  <1>2. /\ r \in Refs /\ Copy(q) \in Row /\ Sound(Copy(q), r)
        /\ req[q].url.sub = r /\ Charged(r) /\ Copy(q).sub # None
    BY <1>1, CopyOK DEF ReqInv, IInv, SubsCharged, Fits
  <1>3. PICK charge \in SubscriptionPayment(r), knows \in BOOLEAN :
           LET noted == IF charge = None THEN Copy(q)
                        ELSE [Copy(q) EXCEPT !.pay = charge, !.charged = TRUE,
                                             !.customer = Copy(q).customer \/ knows]
           IN  Becomes(q, At(q, "saveSub",
                   [Settled(noted, r) EXCEPT
                       !.expires = IF noted.expires = None THEN now + Grace ELSE noted.expires,
                       !.checked = now]))
    BY <1>2 DEF AnswerCharge, Told
  <1> DEFINE known == Copy(q).customer \/ knows
             noted == IF charge = None THEN Copy(q)
                      ELSE [Copy(q) EXCEPT !.pay = charge, !.charged = TRUE,
                                           !.customer = known]
             until == IF noted.expires = None THEN now + Grace ELSE noted.expires
             copy  == [Settled(noted, r) EXCEPT !.expires = until, !.checked = now]
             x     == At(q, "saveSub", copy)
  <1>4. charge = None \/ (charge \in PayIds /\ ReferenceOf(charge) = r)
    <2> DEFINE good   == {n \in 0 .. Attempts : pays[<<r, n>>] = "succeeded"}
               latest == IF 0 \in good THEN {0} ELSE good
    <2>1. latest \subseteq 0 .. Attempts
      OBVIOUS
    <2>2. charge = None \/ charge \in {<<r, n>> : n \in latest}
      BY DEF SubscriptionPayment
    <2> HIDE DEF latest
    <2>3. ASSUME NEW n \in 0 .. Attempts, charge = <<r, n>>
          PROVE  charge \in PayIds /\ ReferenceOf(charge) = r
      BY <1>2, <2>3 DEF PayIds, ReferenceOf
    <2>4. QED BY <2>1, <2>2, <2>3
  <1>5. known \in BOOLEAN
    OBVIOUS
  <1>6. Becomes(q, x)
    BY <1>3
  <1> HIDE DEF known
  <1>7. noted \in Row /\ Sound(noted, r) /\ noted.sub # None
    <2>1. CASE charge = None
      BY <1>2, <2>1
    <2>2. CASE charge # None
      BY <1>2, <1>4, <1>5, <2>2 DEF Row, Sound, Bound
    <2>3. QED BY <2>1, <2>2
  <1> HIDE DEF noted
  <1>8. until \in Nat \cup {None}
    BY <1>1, <1>7 DEF Row
  <1>9. /\ Settled(noted, r) \in Row /\ Sound(Settled(noted, r), r)
        /\ Loadable(Settled(noted, r))
    BY <1>2, <1>7, SettledOK DEF Settled, Row, Loadable
  <1> HIDE DEF until
  <1>10. copy \in Row /\ Sound(copy, r) /\ Loadable(copy)
    BY <1>1, <1>8, <1>9 DEF Row, Sound, Bound, Loadable
  <1> HIDE DEF copy
  <1>11. x \in Request /\ ReqInv(x)
    BY <1>1, <1>10, QuietOK DEF Fits, Loadable
  <1> HIDE DEF x
  <1>12. QED BY <1>1, <1>6, <1>11, MoveKeeps

LEMMA SaveSubscriptionOK ==
  ASSUME IInv, NEW q \in Reqs, SaveSubscription(q)
  PROVE  IInv'
  <1> DEFINE x == At(q, "tell", Copy(q))
  <1>1. /\ req[q].pc = "saveSub" /\ Save(q) /\ Becomes(q, x)
        /\ UNCHANGED <<pays, subs, now, sessions, said, shown, asked, form, blind>>
    BY DEF SaveSubscription, provider, desk
  <1>2. x \in Request /\ ReqInv(x)
    BY <1>1, CopyOK, QuietOK DEF Fits
  <1> HIDE DEF x
  <1>3. QED BY <1>1, <1>2, SaveKeeps DEF IInv, TypeOK, ProviderTypeOK

LEMMA TellOK ==
  ASSUME IInv, NEW q \in Reqs, Tell(q)
  PROVE  IInv'
  <1>1. /\ req[q].pc = "tell" /\ Becomes(q, Idle)
        /\ UNCHANGED <<pays, subs, now, sessions, rows, shown, asked, form, blind>>
        /\ said' = [said EXCEPT ![req[q].ref].paid = More(@)]
    BY DEF Tell, Finish, provider, desk
  <1>2. said' \in [Refs -> Said]
    BY <1>1, CopyOK, SaidOK
  <1>3. req' \in [Reqs -> Request] /\ (\A p \in Reqs : ReqInv(req[p]))'
    BY <1>1, IdleOK, OneRequest
  <1>4. (\A c \in Refs : Sound(rows[c], c))'
    BY <1>1 DEF IInv, Sound, Bound, Charged
  <1>5. QED BY <1>1, <1>2, <1>3, <1>4, StepKeeps DEF IInv, TypeOK, ProviderTypeOK

-----------------------------------------------------------------------------
(* refresh                                                                 *)

\* Wherever a worker goes after a re-read, it goes there sound.
LEMMA AfterRefreshOK ==
  ASSUME IInv, NEW q \in Reqs, req[q].pc # "idle", AfterRefresh(q)
  PROVE  /\ asked' \in [Refs -> Nat \cup {None}]
         /\ \E x \in Request : ReqInv(x) /\ Becomes(q, x)
  <1>1. /\ req[q] \in Request /\ ReqInv(req[q]) /\ req[q].ref \in Refs
        /\ Copy(q) \in Row /\ Sound(Copy(q), req[q].ref)
        /\ asked \in [Refs -> Nat \cup {None}] /\ now \in Nat
    BY CopyOK DEF IInv, TypeOK, ProviderTypeOK
  <1>2. CASE req[q].job = "settle"
    <2> DEFINE y == At(q, "tell", Copy(q))
               x == [y EXCEPT !.news = FALSE]
    <2>1. Becomes(q, x) /\ asked' = asked
      BY <1>2 DEF AfterRefresh
    <2>2. y \in Request /\ ReqInv(y)
      BY <1>1, QuietOK DEF Fits
    <2>3. y.pc = "tell"
      <3>1. "tell" \in Points
        BY DEF Points
      <3>2. QED BY <1>1, <3>1, AtOK
    <2> HIDE DEF y
    <2>4. x \in Request /\ ReqInv(x)
      BY <2>2, <2>3 DEF Request, ReqInv, Fits
    <2>5. QED BY <1>1, <2>1, <2>4
  <1>3. CASE /\ req[q].job # "settle"
             /\ req[q].todo = {} \/ (req[q].job = "portal" /\ Copy(q).customer)
    BY <1>1, <1>3, IdleOK DEF AfterRefresh, Finish
  <1>4. CASE /\ req[q].job # "settle"
             /\ ~(req[q].todo = {} \/ (req[q].job = "portal" /\ Copy(q).customer))
    <2> DEFINE y == [req[q] EXCEPT !.news = FALSE]
    <2>1. PICK n \in req[q].todo : /\ Becomes(q, Reread(y, n))
                                   /\ asked' = [asked EXCEPT ![n] = now]
      BY <1>4 DEF AfterRefresh
    <2>2. n \in Refs /\ Loadable(req[q].copies[n])
      BY <1>1 DEF Request, ReqInv
    <2>3. /\ y \in Request /\ y.copies = req[q].copies /\ y.todo = req[q].todo
          /\ y.url = req[q].url
      BY <1>1 DEF Request
    <2> HIDE DEF y
    <2>4. Reread(y, n) \in Request /\ ReqInv(Reread(y, n))
      BY <1>1, <2>2, <2>3, RereadOK DEF ReqInv
    <2>5. QED BY <1>1, <2>1, <2>2, <2>4
  <1>5. QED BY <1>2, <1>3, <1>4

LEMMA AnswerRereadOK ==
  ASSUME IInv, NEW q \in Reqs, AnswerReread(q)
  PROVE  IInv'
  <1> DEFINE r    == req[q].ref
             row  == Copy(q)
             live == subs[row.sub]
  <1>1. /\ req[q].pc = "reread" /\ UNCHANGED <<provider, rows, said, shown, asked, desk>>
        /\ asked' \in [Refs -> Nat \cup {None}]
        /\ form' = form /\ blind' \subseteq SUBSET Refs
    BY DEF AnswerReread, IInv, TypeOK, desk
  <1>2. /\ r \in Refs /\ row \in Row /\ Sound(row, r)
        /\ row.sub # None /\ row.checked \in Nat /\ row.status = "paid"
        /\ ReqInv(req[q])
    BY <1>1, CopyOK DEF Fits
  <1>3. live \in [word : SubWords, next : Nat, cancels : BOOLEAN]
    BY <1>2 DEF IInv, TypeOK, ProviderTypeOK, Row
  <1>4. PICK knows \in BOOLEAN, dated \in BOOLEAN :
           Becomes(q, [At(q, "resave", Refreshed(row, live, dated, knows))
                          EXCEPT !.news = NowStopping(row, live)])
    BY DEF AnswerReread, Told
  <1> DEFINE known == row.customer \/ knows
             until == Expiry(row, live, dated)
             copy  == [row EXCEPT !.word = live.word, !.cancels = live.cancels,
                                  !.customer = known, !.expires = until]
             news  == NowStopping(row, live)
             y     == At(q, "resave", copy)
             x     == [y EXCEPT !.news = news]
  <1>5. Becomes(q, x)
    BY <1>4 DEF Refreshed
  <1>6. until \in Nat \cup {None}
    BY <1>2, <1>3 DEF Expiry, Row
  <1>7. known \in BOOLEAN /\ news \in BOOLEAN
    BY DEF NowStopping
  <1> HIDE DEF known, until, news
  <1>8. copy \in Row /\ Sound(copy, r) /\ Fits("resave", copy)
    <2> HIDE DEF live
    <2>1. copy \in Row
      BY <1>2, <1>3, <1>6, <1>7 DEF Row
    <2>2. /\ copy.pay = row.pay /\ copy.sub = row.sub /\ copy.status = row.status
          /\ copy.plan = row.plan /\ copy.verified = row.verified
          /\ copy.commission = row.commission /\ copy.checked = row.checked
      BY <1>2 DEF Row
    <2> HIDE DEF copy, row
    <2>3. QED BY <1>2, <2>1, <2>2 DEF Sound, Bound, Fits
  <1> HIDE DEF copy
  <1>9. y \in Request /\ ReqInv(y)
    BY <1>1, <1>8, QuietOK
  <1>10. y.pc = "resave"
    <2>1. "resave" \in Points
      BY DEF Points
    <2>2. QED BY <1>1, <1>8, <2>1, AtOK
  <1> HIDE DEF y
  <1>11. x \in Request /\ ReqInv(x)
    BY <1>7, <1>9, <1>10 DEF Request, ReqInv, Fits
  <1> HIDE DEF x
  <1>12. QED BY <1>1, <1>5, <1>11, MoveKeeps

LEMMA SaveRereadOK ==
  ASSUME IInv, NEW q \in Reqs, SaveReread(q)
  PROVE  IInv'
  <1>1. /\ req[q].pc = "resave" /\ Save(q) /\ AfterRefresh(q)
        /\ UNCHANGED <<pays, subs, now, sessions, shown, form, blind>>
        /\ said' = IF req[q].news THEN [said EXCEPT ![req[q].ref].stopped = More(@)]
                   ELSE said
    BY DEF SaveReread, provider, desk
  <1>2. said' \in [Refs -> Said]
    BY <1>1, CopyOK, SaidOK DEF IInv, TypeOK
  <1>3. PICK x \in Request : ReqInv(x) /\ Becomes(q, x)
    BY <1>1, AfterRefreshOK
  <1>4. asked' \in [Refs -> Nat \cup {None}]
    BY <1>1, AfterRefreshOK
  <1>5. QED BY <1>1, <1>2, <1>3, <1>4, SaveKeeps DEF IInv, TypeOK, ProviderTypeOK

LEMMA RereadFailsOK ==
  ASSUME IInv, NEW q \in Reqs, RereadFails(q)
  PROVE  IInv'
  <1> DEFINE r   == req[q].ref
             row == [rows[r] EXCEPT !.checked = Copy(q).checked]
  <1>1. /\ req[q].pc = "reread" /\ AfterRefresh(q)
        /\ UNCHANGED <<pays, subs, now, sessions, said, shown, form, blind>>
        /\ rows' = [rows EXCEPT ![r].checked = Copy(q).checked]
    BY DEF RereadFails, provider, desk
  <1>2. /\ r \in Refs /\ Copy(q) \in Row
        /\ rows \in [Refs -> Row] /\ rows[r] \in Row /\ Sound(rows[r], r)
    BY <1>1, CopyOK DEF IInv, TypeOK
  <1>3. row \in Row /\ Sound(row, r)
    BY <1>2 DEF Row, Sound, Bound
  <1>4. rows' = [rows EXCEPT ![r] = row]
    BY <1>1, <1>2
  <1> HIDE DEF row
  <1>5. rows' \in [Refs -> Row] /\ \A c \in Refs : Sound(rows'[c], c)
    BY <1>2, <1>3, <1>4 DEF IInv
  <1>6. (\A c \in Refs : Sound(rows[c], c))'
    BY <1>1, <1>5 DEF Sound, Bound, Charged
  <1>7. PICK x \in Request : ReqInv(x) /\ Becomes(q, x)
    BY <1>1, AfterRefreshOK
  <1>8. asked' \in [Refs -> Nat \cup {None}]
    BY <1>1, AfterRefreshOK
  <1>9. req' \in [Reqs -> Request] /\ (\A p \in Reqs : ReqInv(req[p]))'
    BY <1>1, <1>7, OneRequest
  <1>10. QED BY <1>1, <1>5, <1>6, <1>8, <1>9, StepKeeps DEF IInv, TypeOK, ProviderTypeOK

LEMMA BeginLoopOK ==
  ASSUME IInv, NEW q \in Reqs, NEW job \in AllJobs, NEW due \in SUBSET Refs,
         \A n \in due : Loadable(rows[n]), BeginLoop(q, job, due)
  PROVE  IInv'
  <1> DEFINE y == [Idle EXCEPT !.job = job, !.todo = due, !.copies = rows]
  <1>1. PICK n \in due : /\ Becomes(q, Reread(y, n))
                         /\ asked' = [asked EXCEPT ![n] = now]
    BY DEF BeginLoop
  <1>2. /\ rows \in [Refs -> Row] /\ \A r \in Refs : Sound(rows[r], r)
        /\ now \in Nat /\ asked \in [Refs -> Nat \cup {None}]
    BY DEF IInv, TypeOK, ProviderTypeOK
  <1>3. y.copies = rows /\ y.todo = due /\ y.url = NoUrl
    BY DEF Idle
  <1>4. y \in Request
    BY <1>2, IdleOK DEF Request
  <1> HIDE DEF y
  <1>5. Reread(y, n) \in Request /\ ReqInv(Reread(y, n))
    BY <1>2, <1>3, <1>4, RereadOK
  <1>6. asked' \in [Refs -> Nat \cup {None}]
    BY <1>1, <1>2
  <1>7. QED BY <1>1, <1>5, <1>6, MoveKeeps DEF BeginLoop, IInv, TypeOK, desk

-----------------------------------------------------------------------------
(* The operator, gifts, pages and faults.                                  *)

LEMMA OpenFormOK ==
  ASSUME IInv, NEW r \in Refs, OpenForm(r)
  PROVE  IInv'
  <1>1. /\ form' = [ref |-> r, row |-> rows[r]] /\ rows[r].status # "none"
        /\ UNCHANGED <<pays, subs, now, sessions, rows, req, said, shown, asked, blind>>
    BY DEF OpenForm, provider
  <1>2. rows[r] \in Row /\ Sound(rows[r], r)
    BY DEF IInv, TypeOK
  <1>3. form' \in Form /\ DeskOK'
    BY <1>1, <1>2 DEF Form, DeskOK, Sound, Bound, Charged
  <1>4. QED BY <1>1, <1>3 DEF IInv, TypeOK, ProviderTypeOK, SubsCharged, Sound, Bound, Charged,
                              ReqInv

\* A status set by hand leaves a row as sound as it was.
LEMMA MarkedOK ==
  ASSUME NEW r \in Refs, NEW row \in Row, Sound(row, r), row.status # "none",
         NEW status \in Marks \cup {row.status}
  PROVE  LET marked == [row EXCEPT !.status = status]
         IN  marked \in Row /\ Sound(marked, r) /\ marked.status # "none"
  <1> DEFINE marked == [row EXCEPT !.status = status]
  <1>1. status \in Statuses \ {"none"}
    BY MarksAssumption DEF Row
  <1>2. /\ marked \in Row /\ marked.status = status
        /\ marked.pay = row.pay /\ marked.plan = row.plan
        /\ marked.verified = row.verified /\ marked.commission = row.commission
    BY <1>1 DEF Row
  <1>3. RefundOnly => status \in {row.status, "refunded"}
    BY DEF RefundOnly
  <1> HIDE DEF marked
  <1>4. Sound(marked, r)
    BY <1>2, <1>3 DEF Sound, Bound
  <1>5. QED BY <1>1, <1>2, <1>4 DEF marked

LEMMA PostFormOK ==
  ASSUME IInv, NEW q \in Reqs, NEW status \in Statuses, PostForm(q, status)
  PROVE  IInv'
  <1> DEFINE r   == form.ref
             row == [form.row EXCEPT !.status = status]
             news == BecameRefunded(r, status)
             x   == [Idle EXCEPT !.pc = "post", !.job = "admin", !.ref = r,
                                 !.copies = [Idle.copies EXCEPT ![r] = row], !.news = news]
  <1>1. /\ r \in Refs /\ form.row \in Row /\ Sound(form.row, r) /\ form.row.status # "none"
        /\ status \in Marks \cup {form.row.status}
    BY DEF PostForm, IInv, TypeOK, Form, DeskOK
  <1>2. row \in Row /\ Sound(row, r) /\ row.status # "none"
    BY <1>1, MarkedOK
  <1>3. Idle \in Request /\ ReqInv(Idle) /\ news \in BOOLEAN
    BY IdleOK DEF BecameRefunded
  <1>4. Becomes(q, x) /\ UNCHANGED <<provider, rows, said, shown, asked, desk>>
    BY DEF PostForm, Idle
  <1> HIDE DEF row, news
  <1>5. x \in Request
    BY <1>1, <1>2, <1>3 DEF Request, Points, Waiting, AllJobs
  <1>6. /\ x.pc = "post" /\ x.ref = r /\ x.todo = {} /\ x.url = NoUrl
        /\ x.copies = [Idle.copies EXCEPT ![r] = row]
    BY DEF Idle
  <1>7. (\A c \in Refs : Sound(x.copies[c], c)) /\ x.copies[r] = row
    BY <1>1, <1>2, <1>3, <1>6 DEF ReqInv, Request
  <1> HIDE DEF x
  <1>8. ReqInv(x)
    BY <1>1, <1>2, <1>6, <1>7 DEF ReqInv, Fits
  <1>9. QED BY <1>4, <1>5, <1>8, MoveKeeps DEF IInv, TypeOK, desk

LEMMA SaveFormOK ==
  ASSUME IInv, NEW q \in Reqs, SaveForm(q)
  PROVE  IInv'
  <1>1. /\ req[q].pc = "post" /\ Save(q) /\ Becomes(q, Idle)
        /\ UNCHANGED <<pays, subs, now, sessions, shown, asked, form>>
        /\ said' = IF req[q].news THEN [said EXCEPT ![req[q].ref].refunded = More(@)]
                   ELSE said
    BY DEF SaveForm, Finish, provider
  <1>2. said' \in [Refs -> Said] /\ req[q].ref \in Refs
    BY <1>1, CopyOK, SaidOK DEF IInv, TypeOK
  <1>3. blind' \subseteq SUBSET Refs
    BY <1>2 DEF SaveForm, IInv, TypeOK
  <1>4. QED BY <1>1, <1>2, <1>3, IdleOK, SaveKeeps DEF IInv, TypeOK, ProviderTypeOK

\* A row written outright, with no worker holding it.
LEMMA WriteOK ==
  ASSUME IInv, UNCHANGED <<provider, req, said, shown, asked, desk>>,
         NEW r \in Refs, NEW row \in Row, Sound(row, r), rows' = [rows EXCEPT ![r] = row]
  PROVE  IInv'
  <1>1. UNCHANGED <<pays, subs, now, sessions>>
    BY DEF provider
  <1>2. rows' \in [Refs -> Row] /\ \A c \in Refs : Sound(rows'[c], c)
    BY DEF IInv, TypeOK
  <1>3. \A y, c : Sound(y, c)' <=> Sound(y, c)
    BY <1>1 DEF Sound, Bound, Charged
  <1>4. (\A c \in Refs : Sound(rows[c], c))' /\ (\A p \in Reqs : ReqInv(req[p]))'
    BY <1>1, <1>2, <1>3 DEF IInv, ReqInv
  <1>5. QED BY <1>1, <1>2, <1>4, StepKeeps DEF IInv, TypeOK, ProviderTypeOK, desk

LEMMA GiftsOK ==
  ASSUME IInv, NEW r \in Refs,
         Revoke(r) \/ \E plan \in Complimentary : Grant(r, plan)
  PROVE  IInv'
  <1>1. now \in Nat /\ rows \in [Refs -> Row] /\ Sound(rows[r], r)
    BY DEF IInv, TypeOK, ProviderTypeOK
  <1>2. CASE Revoke(r)
    <2> DEFINE row == [rows[r] EXCEPT !.expires = now]
    <2>1. rows' = [rows EXCEPT ![r] = row] /\ UNCHANGED <<provider, req, said, shown, asked, desk>>
      BY <1>1, <1>2 DEF Revoke
    <2>2. row \in Row /\ Sound(row, r)
      BY <1>1 DEF Row, Sound, Bound
    <2> HIDE DEF row
    <2>3. QED BY <2>1, <2>2, WriteOK
  <1>3. ASSUME NEW plan \in Complimentary, Grant(r, plan) PROVE IInv'
    <2> DEFINE until == IF Days(plan) = None THEN None ELSE now + Days(plan)
               row   == [Blank EXCEPT !.plan = plan, !.status = "paid", !.expires = until]
    <2>1. rows' = [rows EXCEPT ![r] = row] /\ UNCHANGED <<provider, req, said, shown, asked, desk>>
      BY <1>3 DEF Grant
    <2>2. until \in Nat \cup {None} /\ plan \in Plans
      BY <1>1 DEF Days, Plans
    <2> HIDE DEF until
    <2>3. row \in Row /\ Sound(row, r)
      BY <2>2 DEF Blank, Row, Sound, Bound, Statuses
    <2> HIDE DEF row
    <2>4. QED BY <2>1, <2>3, WriteOK
  <1>4. QED BY <1>2, <1>3

LEMMA VisitOK ==
  ASSUME IInv, NEW u \in Users, Visit(u)
  PROVE  IInv'
  <1>1. UNCHANGED <<pays, subs, now, sessions, rows, req, said, asked, form, blind>>
    BY DEF Visit, provider, desk
  <1>2. IsPro(rows, u, now) \in BOOLEAN
    BY DEF IsPro
  <1>3. shown' \in [Users -> BOOLEAN]
    BY <1>2 DEF Visit, IInv, TypeOK
  <1>4. (\A c \in Refs : Sound(rows[c], c))' /\ (\A p \in Reqs : ReqInv(req[p]))'
    <2>1. (\A c \in Refs : Sound(rows[c], c))'
      BY <1>1 DEF IInv, Sound, Bound, Charged
    <2>2. ASSUME NEW p \in Reqs PROVE ReqInv(req[p])'
      <3>1. (\A r \in Refs : Sound(req[p].copies[r], r))'
        BY <1>1 DEF IInv, ReqInv, Sound, Bound, Charged
      <3>2. QED BY <1>1, <3>1 DEF IInv, ReqInv
    <2>3. QED BY <2>1, <2>2
  <1>5. QED BY <1>1, <1>3, <1>4, StepKeeps DEF IInv, TypeOK, ProviderTypeOK

LEMMA AbandonOK ==
  ASSUME IInv, NEW q \in Reqs, Abandon(q)
  PROVE  IInv'
  BY IdleOK, MoveKeeps DEF Abandon, Finish, IInv, TypeOK, desk

-----------------------------------------------------------------------------
(* The theorems.                                                           *)

LEMMA Initially == Init => IInv
  <1> SUFFICES ASSUME Init PROVE IInv
    OBVIOUS
  <1>1. TypeOK
    BY IdleOK DEF Init, ProviderInit, TypeOK, ProviderTypeOK, PayWords, SubWords, Said,
                  SaidMax, Blank, Row, Statuses, Form, Shut
  <1>2. SubsCharged /\ DeskOK /\ \A r \in Refs : Sound(rows[r], r)
    BY DEF Init, ProviderInit, SubsCharged, DeskOK, Shut, Sound, Bound, Blank
  <1>3. \A q \in Reqs : ReqInv(req[q])
    BY IdleOK DEF Init
  <1>4. QED BY <1>1, <1>2, <1>3 DEF IInv

LEMMA Stepwise == IInv /\ [Next]_vars => IInv'
  <1> SUFFICES ASSUME IInv, [Next]_vars PROVE IInv'
    OBVIOUS
  <1>1. CASE ProviderNext /\ UNCHANGED <<rows, req, said, shown, asked, desk>>
    BY <1>1, ProviderOK
  <1>2. ASSUME NEW q \in Reqs, Begin(q) PROVE IInv'
    <2>1. CASE \E r \in Refs, plan \in OnSale : BeginStart(q, r, plan)
      BY <2>1, BeginStartOK
    <2>2. CASE \E r \in Refs, u \in Urls : BeginSettle(q, r, u)
      BY <2>2, BeginSettleOK
    <2>3. ASSUME NEW u \in Users, BeginCatchUp(q, u) PROVE IInv'
      <3>1. \A n \in Due(rows, u, now) : n \in Refs /\ Loadable(rows[n])
        BY DEF Due, PaidRows, Loadable
      <3>2. BeginLoop(q, "catchup", Due(rows, u, now))
        BY <2>3 DEF BeginCatchUp
      <3>3. QED BY <3>1, <3>2, BeginLoopOK DEF AllJobs
    <2>4. ASSUME NEW u \in Users, BeginPortal(q, u) PROVE IInv'
      <3> DEFINE due == {r \in PaidRows(rows, u) : rows[r].sub # None}
      <3>1. \A n \in due : n \in Refs /\ Loadable(rows[n])
        BY DEF PaidRows, Loadable
      <3>2. BeginLoop(q, "portal", due)
        BY <2>4 DEF BeginPortal
      <3> HIDE DEF due
      <3>3. QED BY <3>1, <3>2, BeginLoopOK DEF AllJobs
    <2>5. CASE \E status \in Statuses : PostForm(q, status)
      BY <2>5, PostFormOK
    <2>6. QED BY <1>2, <2>1, <2>2, <2>3, <2>4, <2>5 DEF Begin
  <1>3. ASSUME NEW q \in Reqs, Step(q) PROVE IInv'
    BY <1>3, OpenCheckoutOK, AnswerPaymentOK, SavePaymentOK, AnswerSubscriptionOK,
       AnswerChargeOK, SaveSubscriptionOK, TellOK, AnswerRereadOK, SaveRereadOK,
       RereadFailsOK, SaveFormOK DEF Step
  <1>4. ASSUME NEW q \in Reqs, Abandon(q) PROVE IInv'
    BY <1>4, AbandonOK
  <1>5. CASE \E r \in Refs : OpenForm(r) \/ Revoke(r) \/ \E plan \in Complimentary : Grant(r, plan)
    BY <1>5, OpenFormOK, GiftsOK
  <1>6. CASE \E u \in Users : Visit(u)
    BY <1>6, VisitOK
  <1>7. CASE UNCHANGED vars
    BY <1>7 DEF vars, provider, desk, IInv, TypeOK, ProviderTypeOK, SubsCharged,
                Sound, Bound, Charged, DeskOK, ReqInv
  <1>8. QED BY <1>1, <1>2, <1>3, <1>4, <1>5, <1>6, <1>7 DEF Next

THEOREM Invariance == Spec => []IInv
  BY Initially, Stepwise, PTL DEF Spec

\* Every variable keeps its type: a settlement writes our words, not the
\* provider's, and a null expiry is never added to.
THEOREM TypeCorrect == Spec => []TypeOK
  <1>1. IInv => TypeOK
    BY DEF IInv
  <1>2. QED BY <1>1, Invariance, PTL

\* No purchase is settled by another row's payment, or by half: for any number
\* of accounts, references, workers and attempts, any ids in a return URL, and
\* any interleaving of settlements, re-reads, forms posted long after they were
\* opened, gifts, crashes and outages, as long as the operator sets no status
\* by hand but "refunded".
THEOREM SettledIsBound == RefundOnly => (Spec => []PaidIsBound)
  <1> SUFFICES ASSUME RefundOnly PROVE Spec => []PaidIsBound
    OBVIOUS
  <1>1. IInv => PaidIsBound
    BY DEF IInv, PaidIsBound, Sound
  <1>2. QED BY <1>1, Invariance, PTL
(* How long a subscription grants.                                         *)

\* What a row, or a copy of it, may say of the time bought.
Dated(row) ==
    /\ row.checked # None => row.checked <= now
    /\ RefundOnly /\ Recurring(row.plan) /\ row.expires # None
          => /\ row.sub # None
             /\ \/ row.expires <= subs[row.sub].next + Grace
                \/ row.expires <= now + Grace /\ ~DatesTold

\* A subscription not paid for yet has no date, unless a hand put it back.
Unbegun(row) ==
    RefundOnly /\ row.status = "pending" /\ Recurring(row.plan) => row.expires = None

RowDated(row) == Dated(row) /\ Unbegun(row)

\* ... in the copies of a request: only a copy whose charge is being looked up
\* has a date before it is paid.
DatedIn(x) ==
    /\ \A r \in Refs : Dated(x.copies[r])
    /\ x.pc \notin {"idle", "charge"} => Unbegun(x.copies[x.ref])

\* No billing date lies further off than a period, so a date only moves on.
Times ==
    /\ \A r \in Refs : subs[r].next <= now + Period
    /\ \A r \in Refs : RowDated(rows[r])
    /\ RowDated(form.row)
    /\ \A q \in Reqs : DatedIn(req[q])

LEMMA InTypes ==
  ASSUME IInv
  PROVE  /\ now \in Nat /\ rows \in [Refs -> Row] /\ req \in [Reqs -> Request]
         /\ \A r \in Refs : subs[r].next \in Nat
         /\ \A q \in Reqs : req[q].copies \in [Refs -> Row]
         /\ form.row \in Row
  BY DEF IInv, TypeOK, ProviderTypeOK, Request, Form

\* What was dated stays so as the clock and the billing dates move on.
LEMMA DatedStays ==
  ASSUME IInv, IInv', now' >= now, \A r \in Refs : subs'[r].next >= subs[r].next,
         NEW row \in Row, Dated(row)
  PROVE  Dated(row)'
  <1>1. /\ now \in Nat /\ now' \in Nat
        /\ \A r \in Refs : subs[r].next \in Nat /\ subs'[r].next \in Nat
    BY InTypes DEF IInv, TypeOK, ProviderTypeOK
  <1>2. /\ row.checked \in Nat \cup {None} /\ row.expires \in Nat \cup {None}
        /\ row.sub \in Refs \cup {None}
    BY DEF Row
  <1>3. QED BY <1>1, <1>2 DEF Dated

LEMMA ProviderDated ==
  ASSUME IInv, IInv', Times, ProviderNext, UNCHANGED <<rows, req, said, shown, asked, desk>>
  PROVE  Times'
  <1>1. /\ now \in Nat /\ rows \in [Refs -> Row]
        /\ subs \in [Refs -> [word : SubWords, next : Nat, cancels : BOOLEAN]]
        /\ \A q \in Reqs : req[q].copies \in [Refs -> Row]
    BY InTypes DEF IInv, TypeOK, ProviderTypeOK
  <1> DEFINE Onward == now' >= now /\ \A r \in Refs : /\ subs'[r].next >= subs[r].next
                                                     /\ subs'[r].next <= now' + Period
  <1>2. Onward
    <2>1. ASSUME NEW r \in Refs, NEW n, NEW w, SetPayment(<<r, n>>, w) PROVE Onward
      BY <1>1, <2>1 DEF SetPayment, Times
    <2>2. ASSUME NEW r \in Refs, NEW s, SetSubscription(r, s),
                 s.next = subs[r].next \/ s.next = now + Period
          PROVE  Onward
      BY <1>1, <2>2 DEF SetSubscription, Times
    <2>3. CASE \E r \in Refs, n \in 1 .. Attempts : Attempt(r, n) \/ Clear(r, n)
      BY <2>1, <2>3 DEF Attempt, Clear
    <2>4. ASSUME NEW r \in Refs, Renew(r) \/ Hold(r) \/ Stop(r) \/ End(r) PROVE Onward
      <3> DEFINE renewed == [subs[r] EXCEPT !.word = "active", !.next = now + Period]
                 held    == [subs[r] EXCEPT !.word = "on_hold"]
                 stopped == [subs[r] EXCEPT !.cancels = TRUE]
                 ended   == [subs[r] EXCEPT !.word = "cancelled"]
      <3>1. /\ renewed.next = now + Period /\ held.next = subs[r].next
            /\ stopped.next = subs[r].next /\ ended.next = subs[r].next
        BY <1>1
      <3>2. \/ SetSubscription(r, renewed) \/ SetSubscription(r, held)
            \/ SetSubscription(r, stopped) \/ SetSubscription(r, ended)
        BY <2>4 DEF Renew, Hold, Stop, End
      <3> HIDE DEF renewed, held, stopped, ended, Onward
      <3>3. QED BY <2>2, <3>1, <3>2
    <2>5. CASE Tick
      BY <1>1, <2>5 DEF Tick, Times
    <2>6. QED BY <2>3, <2>4, <2>5 DEF ProviderNext
  <1>3. ASSUME NEW row \in Row, Dated(row) PROVE Dated(row)'
    BY <1>2, <1>3, DatedStays
  <1>4. ASSUME NEW r \in Refs PROVE RowDated(rows[r])'
    <2>1. RowDated(rows[r]) /\ rows[r] \in Row /\ rows'[r] = rows[r]
      BY <1>1 DEF Times
    <2>2. Dated(rows[r])'
      BY <1>3, <2>1 DEF RowDated, Dated
    <2>3. QED BY <2>1, <2>2 DEF RowDated, Unbegun
  <1>5. RowDated(form.row)'
    <2>1. RowDated(form.row) /\ form.row \in Row /\ form' = form
      BY InTypes DEF Times, desk
    <2>2. Dated(form.row)'
      BY <1>3, <2>1 DEF RowDated, Dated
    <2>3. QED BY <2>1, <2>2 DEF RowDated, Unbegun
  <1>6. ASSUME NEW q \in Reqs PROVE DatedIn(req[q])'
    <2>1. DatedIn(req[q]) /\ req[q].copies \in [Refs -> Row] /\ req' = req
      BY <1>1 DEF Times
    <2>2. ASSUME NEW r \in Refs PROVE Dated(req[q].copies[r])'
      BY <1>3, <2>1 DEF DatedIn, Dated
    <2>3. QED BY <2>1, <2>2 DEF DatedIn, Unbegun
  <1>7. QED BY <1>2, <1>4, <1>5, <1>6 DEF Times

\* What is left to show for any other step.
LEMMA MoveDated ==
  ASSUME IInv, Times, UNCHANGED <<subs, now>>,
         \A r \in Refs : RowDated(rows'[r]), RowDated(form'.row),
         \A q \in Reqs : DatedIn(req'[q])
  PROVE  Times'
  BY DEF Times, RowDated, DatedIn, Dated, Unbegun

\* ... by a worker that goes on as x.
LEMMA WorkerDated ==
  ASSUME IInv, Times, UNCHANGED <<subs, now, form>>, \A r \in Refs : RowDated(rows'[r]),
         NEW q \in Reqs, NEW x, Becomes(q, x), DatedIn(x)
  PROVE  Times'
  <1>1. \A p \in Reqs : DatedIn(req'[p])
    BY InTypes DEF Becomes, Times
  <1>2. QED BY <1>1, MoveDated DEF Times

LEMMA BlankDated == RowDated(Blank)
  BY DEF Blank, RowDated, Dated, Unbegun

LEMMA IdleDated == DatedIn(Idle)
  BY BlankDated DEF Idle, DatedIn, RowDated

LEMMA CopyDated ==
  ASSUME IInv, Times, NEW q \in Reqs, req[q].pc # "idle"
  PROVE  Dated(Copy(q)) /\ (req[q].pc # "charge" => RowDated(Copy(q)))
  BY CopyOK DEF Times, DatedIn, RowDated, Copy

LEMMA SaveDated ==
  ASSUME IInv, Times, NEW q \in Reqs, req[q].pc \notin {"idle", "charge"}, Save(q)
  PROVE  \A r \in Refs : RowDated(rows'[r])
  BY CopyOK, CopyDated, InTypes DEF Save, Times

LEMMA AtDated ==
  ASSUME IInv, Times, NEW q \in Reqs, req[q].pc # "idle", NEW pc, NEW copy,
         Dated(copy), pc = "charge" \/ Unbegun(copy)
  PROVE  DatedIn(At(q, pc, copy))
  <1>1. req[q].copies \in [Refs -> Row] /\ req[q].ref \in Refs /\ req[q] \in Request
    BY InTypes, CopyOK
  <1>2. /\ At(q, pc, copy).copies = [req[q].copies EXCEPT ![req[q].ref] = copy]
        /\ At(q, pc, copy).pc = pc /\ At(q, pc, copy).ref = req[q].ref
    BY <1>1 DEF At, Request
  <1> HIDE DEF At
  <1>3. QED BY <1>1, <1>2 DEF Times, DatedIn

LEMMA RereadDated ==
  ASSUME IInv, NEW x \in Request, NEW r \in Refs, \A c \in Refs : Dated(x.copies[c]),
         x.copies[r].status = "paid"
  PROVE  DatedIn(Reread(x, r))
  <1> DEFINE row == [x.copies[r] EXCEPT !.checked = now]
  <1>1. /\ Reread(x, r).copies = [c \in Refs |-> IF c = r THEN row
            ELSE IF c \in x.todo THEN x.copies[c] ELSE Blank]
        /\ Reread(x, r).ref = r
    BY DEF Reread, Request
  <1>2. now \in Nat /\ x.copies[r] \in Row
    BY InTypes DEF Request
  <1>3. Dated(row) /\ row.status = "paid"
    BY <1>2 DEF Dated, Row
  <1>4. Dated(Blank)
    BY BlankDated DEF RowDated
  <1> HIDE DEF row
  <1>5. QED BY <1>1, <1>3, <1>4 DEF DatedIn, Unbegun

\* A subscription is sold with no expiry and dated by the provider's answers;
\* only a pass is given days here.
LEMMA AnswerPaymentDated ==
  ASSUME IInv, Times, NEW q \in Reqs, AnswerPayment(q)
  PROVE  Times'
  <1> DEFINE r == req[q].ref
             p == req[q].url.pay
  <1>1. /\ req[q].pc = "pay" /\ UNCHANGED <<subs, now, form>> /\ rows' = rows
    BY DEF AnswerPayment, provider
  <1>2. \A c \in Refs : RowDated(rows'[c])
    BY <1>1 DEF Times
  <1>3. CASE ~Belongs(p, r)
    BY <1>1, <1>2, <1>3, IdleDated, WorkerDated DEF AnswerPayment, Finish
  <1>4. CASE Belongs(p, r)
    <2>1. PICK knows \in BOOLEAN, named \in BOOLEAN,
               until \in GrantUntil(rows, r, Copy(q).plan, now) :
             LET sub == IF named /\ subs[r].word # "none" THEN r ELSE req[q].url.sub
             IN  Becomes(q, At(q, "save", AfterPayment(Copy(q), r, p, sub, knows, until)))
      BY <1>4 DEF AnswerPayment, Told
    <2>2. Copy(q) \in Row /\ RowDated(Copy(q)) /\ Copy(q).status = "pending"
      BY <1>1, CopyOK, CopyDated DEF Fits
    <2>3. Recurring(Copy(q).plan) => until = None
      BY DEF GrantUntil, Recurring, Subscription, Days
    <2> DEFINE sub  == IF named /\ subs[r].word # "none" THEN r ELSE req[q].url.sub
               copy == AfterPayment(Copy(q), r, p, sub, knows, until)
    <2>4. /\ copy.plan = Copy(q).plan /\ copy.checked = Copy(q).checked
          /\ \/ copy.expires = until /\ copy.status = "paid"
             \/ copy.expires = Copy(q).expires
      BY <2>2 DEF AfterPayment, Settled, Row
    <2> HIDE DEF copy
    <2>5. Dated(copy) /\ Unbegun(copy)
      BY <2>2, <2>3, <2>4 DEF RowDated, Dated, Unbegun
    <2> DEFINE x == At(q, "save", copy)
    <2>6. DatedIn(x)
      BY <1>1, <2>5, AtDated
    <2>7. Becomes(q, x)
      BY <2>1 DEF copy
    <2> HIDE DEF x
    <2>8. QED BY <1>1, <1>2, <2>6, <2>7, WorkerDated
  <1>5. QED BY <1>3, <1>4

LEMMA SavePaymentDated ==
  ASSUME IInv, Times, NEW q \in Reqs, SavePayment(q)
  PROVE  Times'
  <1> DEFINE r == req[q].ref
             x == Reread(req[q], r)
             y == At(q, "tell", Copy(q))
  <1>1. /\ req[q].pc = "save" /\ Save(q) /\ UNCHANGED <<subs, now, form>>
        /\ Becomes(q, Idle) \/ (Copy(q).status = "paid" /\ Becomes(q, x)) \/ Becomes(q, y)
    BY DEF SavePayment, provider, desk, Finish
  <1>2. \A c \in Refs : RowDated(rows'[c])
    BY <1>1, SaveDated
  <1>3. Copy(q).status = "paid" => DatedIn(x)
    <2>1. req[q] \in Request /\ r \in Refs /\ \A c \in Refs : Dated(req[q].copies[c])
      BY <1>1, CopyOK DEF Times, DatedIn
    <2>2. QED BY <1>1, <2>1, RereadDated DEF Copy
  <1>4. DatedIn(y)
    BY <1>1, CopyDated, AtDated DEF RowDated
  <1> HIDE DEF x, y
  <1>5. QED BY <1>1, <1>2, <1>3, <1>4, IdleDated, WorkerDated

LEMMA AnswerSubscriptionDated ==
  ASSUME IInv, Times, NEW q \in Reqs, AnswerSubscription(q)
  PROVE  Times'
  <1> DEFINE r == req[q].ref
             s == req[q].url.sub
  <1>1. /\ req[q].pc = "sub" /\ UNCHANGED <<subs, now, form>> /\ rows' = rows
    BY DEF AnswerSubscription, provider, desk
  <1>2. \A c \in Refs : RowDated(rows'[c])
    BY <1>1 DEF Times
  <1>3. CASE s # r \/ subs[s].word # "active"
    BY <1>1, <1>2, <1>3, IdleDated, WorkerDated DEF AnswerSubscription, Finish
  <1>4. CASE ~(s # r \/ subs[s].word # "active")
    <2>1. PICK knows, dated \in BOOLEAN :
             Becomes(q, At(q, "charge",
                 [Copy(q) EXCEPT !.sub = s, !.word = subs[s].word,
                                 !.cancels = subs[s].cancels,
                                 !.customer = Copy(q).customer \/ knows,
                                 !.expires = IF dated THEN subs[s].next + Grace ELSE None]))
      BY <1>4 DEF AnswerSubscription, Told
    <2> DEFINE copy == [Copy(q) EXCEPT !.sub = s, !.word = subs[s].word,
                                       !.cancels = subs[s].cancels,
                                       !.customer = Copy(q).customer \/ knows,
                                       !.expires = IF dated THEN subs[s].next + Grace ELSE None]
               x    == At(q, "charge", copy)
    <2>2. Copy(q) \in Row /\ Dated(Copy(q)) /\ r \in Refs
      BY <1>1, CopyOK, CopyDated
    <2>3. /\ copy.checked = Copy(q).checked /\ copy.sub = r
          /\ copy.expires = None \/ copy.expires = subs[r].next + Grace
      BY <1>4, <2>2 DEF Row
    <2> HIDE DEF copy
    <2>4. Dated(copy)
      BY <2>2, <2>3, InTypes DEF Dated
    <2>5. DatedIn(x)
      BY <1>1, <2>4, AtDated
    <2>6. Becomes(q, x)
      BY <2>1 DEF copy
    <2> HIDE DEF x
    <2>7. QED BY <1>1, <1>2, <2>5, <2>6, WorkerDated
  <1>5. QED BY <1>3, <1>4

LEMMA AnswerChargeDated ==
  ASSUME IInv, Times, NEW q \in Reqs, AnswerCharge(q)
  PROVE  Times'
  <1> DEFINE r == req[q].ref
  <1>1. /\ req[q].pc = "charge" /\ UNCHANGED <<subs, now, form>> /\ rows' = rows
    BY DEF AnswerCharge, provider, desk
  <1>2. \A c \in Refs : RowDated(rows'[c])
    BY <1>1 DEF Times
  <1>3. PICK charge \in SubscriptionPayment(req[q].url.sub), knows \in BOOLEAN :
           LET noted == IF charge = None THEN Copy(q)
                        ELSE [Copy(q) EXCEPT !.pay = charge, !.charged = TRUE,
                                             !.customer = Copy(q).customer \/ knows]
           IN  Becomes(q, At(q, "saveSub",
                   [Settled(noted, r) EXCEPT
                       !.expires = IF noted.expires = None THEN now + Grace ELSE noted.expires,
                       !.checked = now]))
    BY DEF AnswerCharge, Told
  <1> DEFINE noted == IF charge = None THEN Copy(q)
                      ELSE [Copy(q) EXCEPT !.pay = charge, !.charged = TRUE,
                                           !.customer = Copy(q).customer \/ knows]
             until == IF noted.expires = None THEN now + Grace ELSE noted.expires
             copy  == [Settled(noted, r) EXCEPT !.expires = until, !.checked = now]
             x     == At(q, "saveSub", copy)
  <1>4. /\ Copy(q) \in Row /\ Dated(Copy(q)) /\ r \in Refs /\ now \in Nat
        /\ Copy(q).sub # None
    BY <1>1, CopyOK, CopyDated, InTypes DEF Fits
  <1>5. /\ noted.plan = Copy(q).plan /\ noted.expires = Copy(q).expires
        /\ noted.sub = Copy(q).sub /\ DOMAIN noted = DOMAIN Copy(q)
    BY <1>4 DEF Row
  <1>6. /\ copy.plan = Copy(q).plan /\ copy.checked = now /\ copy.expires = until
        /\ copy.sub = Copy(q).sub /\ copy.status = "paid"
    <2> HIDE DEF noted, until
    <2>1. DOMAIN noted = {"plan", "status", "pay", "sub", "word", "cancels", "customer",
                          "checked", "charged", "verified", "commission", "expires"}
      BY <1>4, <1>5 DEF Row
    <2>2. QED BY <1>5, <2>1 DEF Settled
  <1>7. Dated(copy)
    <2> HIDE DEF noted, copy
    <2>1. (until = now + Grace /\ ~DatesTold) \/ until = Copy(q).expires
      BY <1>1, <1>4, <1>5, CopyOK DEF ReqInv, Copy
    <2> HIDE DEF until
    <2>2. QED BY <1>4, <1>6, <2>1, InTypes DEF Dated, Row
  <1>8. DatedIn(x)
    <2> HIDE DEF copy
    <2>1. QED BY <1>1, <1>6, <1>7, AtDated DEF Unbegun
  <1>9. Becomes(q, x)
    BY <1>3
  <1> HIDE DEF x
  <1>10. QED BY <1>1, <1>2, <1>8, <1>9, WorkerDated
LEMMA SaveSubscriptionDated ==
  ASSUME IInv, Times, NEW q \in Reqs, SaveSubscription(q)
  PROVE  Times'
  <1> DEFINE x == At(q, "tell", Copy(q))
  <1>1. /\ req[q].pc = "saveSub" /\ Save(q) /\ UNCHANGED <<subs, now, form>> /\ Becomes(q, x)
    BY DEF SaveSubscription, provider, desk
  <1>2. DatedIn(x)
    BY <1>1, CopyDated, AtDated DEF RowDated
  <1> HIDE DEF x
  <1>3. QED BY <1>1, <1>2, SaveDated, WorkerDated

LEMMA AfterRefreshDated ==
  ASSUME IInv, Times, NEW q \in Reqs, req[q].pc \in {"reread", "resave"}, AfterRefresh(q),
         UNCHANGED <<subs, now, form>>, \A r \in Refs : RowDated(rows'[r])
  PROVE  Times'
  <1>1. /\ req[q] \in Request /\ ReqInv(req[q])
        /\ \A c \in Refs : Dated(req[q].copies[c])
    BY CopyOK DEF Times, DatedIn
  <1>2. CASE req[q].job = "settle"
    <2> DEFINE y == At(q, "tell", Copy(q))
               x == [y EXCEPT !.news = FALSE]
    <2>1. DatedIn(y)
      BY CopyDated, AtDated DEF RowDated
    <2>2. Becomes(q, x)
      BY <1>2 DEF AfterRefresh
    <2> HIDE DEF y
    <2>3. x.copies = y.copies /\ x.pc = y.pc /\ x.ref = y.ref
      OBVIOUS
    <2>4. DatedIn(x)
      BY <2>1, <2>3 DEF DatedIn
    <2> HIDE DEF x
    <2>5. QED BY <2>2, <2>4, WorkerDated
  <1>3. CASE req[q].job # "settle" /\ Becomes(q, Idle)
    BY <1>3, IdleDated, WorkerDated
  <1>4. CASE req[q].job # "settle" /\ ~Becomes(q, Idle)
    <2> DEFINE y == [req[q] EXCEPT !.news = FALSE]
    <2>1. PICK n \in req[q].todo : Becomes(q, Reread(y, n))
      BY <1>4 DEF AfterRefresh, Finish
    <2>2. /\ n \in Refs /\ y \in Request /\ y.copies = req[q].copies
          /\ y.copies[n].status = "paid"
      BY <1>1 DEF Request, ReqInv, Loadable
    <2> HIDE DEF y
    <2>3. DatedIn(Reread(y, n))
      BY <1>1, <2>2, RereadDated
    <2>4. QED BY <2>1, <2>3, WorkerDated
  <1>5. QED BY <1>2, <1>3, <1>4

\* Each branch of refresh dates the copy by what was just read, or leaves it.
LEMMA AnswerRereadDated ==
  ASSUME IInv, Times, NEW q \in Reqs, AnswerReread(q)
  PROVE  Times'
  <1> DEFINE r    == req[q].ref
             row  == Copy(q)
             live == subs[row.sub]
  <1>1. /\ req[q].pc = "reread" /\ UNCHANGED <<subs, now, form>> /\ rows' = rows
    BY DEF AnswerReread, provider, desk
  <1>2. \A c \in Refs : RowDated(rows'[c])
    BY <1>1 DEF Times
  <1>3. /\ r \in Refs /\ row \in Row /\ Dated(row)
        /\ row.sub \in Refs /\ row.checked \in Nat /\ row.status = "paid"
    BY <1>1, CopyOK, CopyDated DEF Fits, Row
  <1>4. PICK knows \in BOOLEAN, dated \in Told("next") :
           Becomes(q, [At(q, "resave", Refreshed(row, live, dated, knows))
                          EXCEPT !.news = NowStopping(row, live)])
    BY DEF AnswerReread, Told
  <1> DEFINE copy == Refreshed(row, live, dated, knows)
             y    == At(q, "resave", copy)
             x    == [y EXCEPT !.news = NowStopping(row, live)]
  <1>5. /\ copy.plan = row.plan /\ copy.checked = row.checked
        /\ copy.sub = row.sub /\ copy.status = row.status
        /\ copy.expires \in {row.expires, live.next + Grace, row.checked + Grace}
        /\ DatesTold => copy.expires \in {row.expires, live.next + Grace}
    BY <1>3 DEF Refreshed, Expiry, Row, DatesTold, Told
  <1>6. Becomes(q, x) /\ x.copies = y.copies /\ x.pc = y.pc /\ x.ref = y.ref
    BY <1>4
  <1> HIDE DEF copy
  <1>7. Dated(copy)
    BY <1>3, <1>5, InTypes DEF Dated, Row
  <1>8. DatedIn(x)
    <2>1. DatedIn(y)
      BY <1>1, <1>3, <1>5, <1>7, AtDated DEF Unbegun
    <2> HIDE DEF x, y
    <2>2. QED BY <1>6, <2>1 DEF DatedIn
  <1> HIDE DEF x, y
  <1>9. QED BY <1>1, <1>2, <1>6, <1>8, WorkerDated

LEMMA SaveRereadDated ==
  ASSUME IInv, Times, NEW q \in Reqs, SaveReread(q)
  PROVE  Times'
  <1>1. /\ req[q].pc = "resave" /\ Save(q) /\ AfterRefresh(q) /\ UNCHANGED <<subs, now, form>>
    BY DEF SaveReread, provider, desk
  <1>2. QED BY <1>1, SaveDated, AfterRefreshDated

LEMMA RereadFailsDated ==
  ASSUME IInv, Times, NEW q \in Reqs, RereadFails(q)
  PROVE  Times'
  <1> DEFINE r   == req[q].ref
             row == [rows[r] EXCEPT !.checked = Copy(q).checked]
  <1>1. /\ req[q].pc = "reread" /\ AfterRefresh(q) /\ UNCHANGED <<subs, now, form>>
        /\ rows' = [rows EXCEPT ![r] = row]
    BY CopyOK, InTypes DEF RereadFails, provider, desk
  <1>2. /\ r \in Refs /\ rows[r] \in Row /\ RowDated(rows[r])
        /\ Copy(q) \in Row /\ Dated(Copy(q))
    BY <1>1, CopyOK, CopyDated, InTypes DEF Times
  <1>3. RowDated(row)
    BY <1>2 DEF RowDated, Dated, Unbegun, Row
  <1> HIDE DEF row
  <1>4. \A c \in Refs : RowDated(rows'[c])
    BY <1>1, <1>2, <1>3, InTypes DEF Times
  <1>5. QED BY <1>1, <1>4, AfterRefreshDated

LEMMA BeginDated ==
  ASSUME IInv, Times, NEW q \in Reqs, Begin(q)
  PROVE  Times'
  <1>1. /\ \A c \in Refs : RowDated(rows[c])
        /\ rows \in [Refs -> Row] /\ Idle \in Request /\ now \in Nat
    BY InTypes, IdleOK DEF Times
  <1>2. ASSUME NEW r \in Refs, NEW x, NEW row, x.copies = [Idle.copies EXCEPT ![r] = row],
               x.ref = r, RowDated(row), Becomes(q, x), UNCHANGED <<provider, rows, form>>
        PROVE  Times'
    <2>1. DatedIn(x)
      BY <1>2, BlankDated DEF Idle, DatedIn, RowDated
    <2>2. UNCHANGED <<subs, now, form>> /\ \A c \in Refs : RowDated(rows'[c])
      BY <1>1, <1>2 DEF provider
    <2>3. QED BY <1>2, <2>1, <2>2, WorkerDated
  <1>3. ASSUME NEW r \in Refs, NEW plan \in OnSale, BeginStart(q, r, plan) PROVE Times'
    <2> DEFINE row == [Blank EXCEPT !.plan = plan, !.status = "pending"]
               x   == [Idle EXCEPT !.pc = "open", !.job = "start", !.ref = r,
                                   !.copies = [Idle.copies EXCEPT ![r] = row]]
    <2>1. Becomes(q, x) /\ UNCHANGED <<provider, rows, form>>
      BY <1>3 DEF BeginStart, Idle, desk
    <2>2. x.copies = [Idle.copies EXCEPT ![r] = row] /\ x.ref = r
      BY DEF Idle
    <2>3. RowDated(row)
      BY DEF Blank, RowDated, Dated, Unbegun
    <2> HIDE DEF x, row
    <2>4. QED BY <1>2, <2>1, <2>2, <2>3
  <1>4. ASSUME NEW r \in Refs, NEW u \in Urls, BeginSettle(q, r, u) PROVE Times'
    <2> DEFINE x == [Idle EXCEPT !.pc = IF u.pay # None THEN "pay" ELSE "sub",
                                 !.job = "settle", !.ref = r, !.url = u,
                                 !.copies = [Idle.copies EXCEPT ![r] = rows[r]]]
    <2>1. Becomes(q, x) /\ UNCHANGED <<provider, rows, form>>
      BY <1>4 DEF BeginSettle, Idle, desk
    <2>2. x.copies = [Idle.copies EXCEPT ![r] = rows[r]] /\ x.ref = r
      BY DEF Idle
    <2> HIDE DEF x
    <2>3. QED BY <1>1, <1>2, <2>1, <2>2
  <1>5. ASSUME NEW status \in Statuses, PostForm(q, status) PROVE Times'
    <2> DEFINE r    == form.ref
               row  == [form.row EXCEPT !.status = status]
               x    == [Idle EXCEPT !.pc = "post", !.job = "admin", !.ref = r,
                                    !.copies = [Idle.copies EXCEPT ![r] = row],
                                    !.news = BecameRefunded(r, status)]
    <2>1. Becomes(q, x) /\ UNCHANGED <<provider, rows, form>>
      BY <1>5 DEF PostForm, Idle, desk
    <2>2. x.copies = [Idle.copies EXCEPT ![r] = row] /\ x.ref = r
      BY DEF Idle
    <2>3. /\ r \in Refs /\ form.row \in Row /\ RowDated(form.row)
          /\ status \in Marks \cup {form.row.status}
      BY <1>5, InTypes DEF PostForm, IInv, TypeOK, Form, Times
    <2>4. RowDated(row)
      BY <2>3 DEF RowDated, Dated, Unbegun, Row, RefundOnly
    <2> HIDE DEF x, row
    <2>5. QED BY <1>2, <2>1, <2>2, <2>3, <2>4
  <1>6. ASSUME NEW job \in AllJobs, NEW due \in SUBSET Refs,
               \A n \in due : rows[n].status = "paid", BeginLoop(q, job, due)
        PROVE  Times'
    <2> DEFINE y == [Idle EXCEPT !.job = job, !.todo = due, !.copies = rows]
    <2>1. PICK n \in due : Becomes(q, Reread(y, n)) /\ UNCHANGED <<provider, rows, form>>
      BY <1>6 DEF BeginLoop, desk
    <2>2. y \in Request /\ y.copies = rows
      BY <1>1 DEF Idle, Request
    <2> HIDE DEF y
    <2>3. DatedIn(Reread(y, n))
      BY <1>1, <1>6, <2>2, RereadDated DEF RowDated
    <2>4. UNCHANGED <<subs, now, form>> /\ \A c \in Refs : RowDated(rows'[c])
      BY <1>1, <2>1 DEF provider
    <2>5. QED BY <2>1, <2>3, <2>4, WorkerDated
  <1>7. ASSUME NEW u \in Users, BeginCatchUp(q, u) \/ BeginPortal(q, u) PROVE Times'
    <2>1. /\ Due(rows, u, now) \in SUBSET PaidRows(rows, u)
          /\ {r \in PaidRows(rows, u) : rows[r].sub # None} \in SUBSET PaidRows(rows, u)
          /\ PaidRows(rows, u) \subseteq Refs
          /\ \A n \in PaidRows(rows, u) : rows[n].status = "paid"
      BY DEF Due, PaidRows
    <2>2. QED BY <1>6, <1>7, <2>1 DEF BeginCatchUp, BeginPortal, AllJobs
  <1>8. QED BY <1>3, <1>4, <1>5, <1>7 DEF Begin
\* Gifts are no subscription, and a form opened shows the row as it is.
LEMMA OperatorDated ==
  ASSUME IInv, Times, NEW r \in Refs,
         Revoke(r) \/ \E plan \in Complimentary : Grant(r, plan)
  PROVE  Times'
  <1>1. rows \in [Refs -> Row] /\ RowDated(rows[r])
    BY InTypes DEF Times
  <1>2. UNCHANGED <<subs, now, req, form>>
    BY DEF Revoke, Grant, provider, desk
  <1>3. PICK row : rows' = [rows EXCEPT ![r] = row] /\ RowDated(row)
    <2>1. CASE Revoke(r)
      <3> DEFINE row == [rows[r] EXCEPT !.expires = now]
      <3>1. rows' = [rows EXCEPT ![r] = row]
        BY <1>1, <2>1 DEF Revoke
      <3>2. RowDated(row)
        BY <1>1, <2>1 DEF Revoke, RowDated, Dated, Unbegun, Row, Recurring, Subscription,
                              Complimentary
      <3> HIDE DEF row
      <3>3. QED BY <3>1, <3>2
    <2>2. ASSUME NEW plan \in Complimentary, Grant(r, plan)
          PROVE  \E row : rows' = [rows EXCEPT ![r] = row] /\ RowDated(row)
      <3> DEFINE row == [Blank EXCEPT !.plan = plan, !.status = "paid",
                             !.expires = IF Days(plan) = None THEN None ELSE now + Days(plan)]
      <3>1. rows' = [rows EXCEPT ![r] = row]
        BY <2>2 DEF Grant
      <3>2. RowDated(row)
        BY DEF Blank, RowDated, Dated, Unbegun, Recurring, Subscription, Complimentary
      <3> HIDE DEF row
      <3>3. QED BY <3>1, <3>2
    <2>3. QED BY <2>1, <2>2
  <1>4. \A c \in Refs : RowDated(rows'[c])
    BY <1>1, <1>3 DEF Times
  <1>5. QED BY <1>2, <1>4, MoveDated DEF Times

LEMMA StepwiseDated ==
  ASSUME IInv, Times, [Next]_vars
  PROVE  Times'
  <1>1. IInv'
    BY Stepwise
  <1>2. CASE ProviderNext /\ UNCHANGED <<rows, req, said, shown, asked, desk>>
    BY <1>1, <1>2, ProviderDated
  <1>3. ASSUME NEW q \in Reqs, Step(q) PROVE Times'
    <2>1. CASE OpenCheckout(q) \/ SaveForm(q)
      <3>1. /\ req[q].pc \in {"open", "post"} /\ Save(q) /\ Becomes(q, Idle)
            /\ UNCHANGED <<subs, now, form>>
        BY <2>1 DEF OpenCheckout, SaveForm, Finish, provider, desk
      <3>2. QED BY <3>1, SaveDated, IdleDated, WorkerDated
    <2>2. CASE Tell(q)
      BY <2>2, IdleDated, WorkerDated DEF Tell, Finish, provider, desk, Times
    <2>3. QED BY <1>3, <2>1, <2>2, AnswerPaymentDated, SavePaymentDated,
              AnswerSubscriptionDated, AnswerChargeDated, SaveSubscriptionDated,
              AnswerRereadDated, SaveRereadDated, RereadFailsDated DEF Step
  <1>4. ASSUME NEW q \in Reqs, Abandon(q) PROVE Times'
    BY <1>4, IdleDated, WorkerDated DEF Abandon, Finish, provider, desk, Times
  <1>5. ASSUME NEW q \in Reqs, Begin(q) PROVE Times'
    BY <1>5, BeginDated
  <1>6. CASE \E r \in Refs : OpenForm(r) \/ Revoke(r) \/ \E plan \in Complimentary : Grant(r, plan)
    <2>1. ASSUME NEW r \in Refs, OpenForm(r) PROVE Times'
      <3>1. UNCHANGED <<subs, now, rows, req>> /\ form'.row = rows[r]
        BY <2>1 DEF OpenForm, provider
      <3>2. QED BY <3>1, MoveDated DEF Times
    <2>2. QED BY <1>6, <2>1, OperatorDated
  <1>7. CASE (\E u \in Users : Visit(u)) \/ UNCHANGED vars
    <2>1. UNCHANGED <<subs, now, rows, req, form>>
      BY <1>7 DEF Visit, vars, provider, desk
    <2>2. QED BY <2>1, MoveDated DEF Times
  <1>8. QED BY <1>2, <1>3, <1>4, <1>5, <1>6, <1>7 DEF Next

LEMMA TimesStart == Init => Times
  <1> SUFFICES ASSUME Init PROVE Times
    OBVIOUS
  <1>1. \A r \in Refs : subs[r].next = 0
    BY DEF Init, ProviderInit
  <1>2. now = 0
    BY DEF Init, ProviderInit
  <1>3. QED BY <1>1, <1>2, BlankDated, IdleDated DEF Init, Shut, Times

\* No dated subscription grants past its billing date, or past the last time it
\* was asked about, by more than the grace window: for every length of period
\* and window, however old the copies and forms saved over one another, and
\* whatever subscription a return URL put on the row.
THEOREM TimeIsPaidFor == RefundOnly => (Spec => []DatesPaidFor)
  <1> SUFFICES ASSUME RefundOnly PROVE Spec => []DatesPaidFor
    OBVIOUS
  <1>1. IInv /\ Times /\ [Next]_vars => Times'
    BY StepwiseDated
  <1>2. Times => DatesPaidFor
    BY DEF Times, RowDated, Dated, DatesPaidFor
  <1>3. QED BY <1>1, <1>2, TimesStart, Invariance, PTL DEF Spec

-----------------------------------------------------------------------------
(* The passes of an account.                                               *)

\* Two rows of one account that are passes cover different days, unless one
\* was reckoned or written back without knowing the other's.
Beside(row, other, r, s) ==
    r # s /\ Owner[r] = Owner[s] /\ DatedPass(row) /\ DatedPass(other)
        => Stacked(row, other) \/ {r, s} \in blind

\* So is a pass about to be saved beside what the table holds by then, and two
\* about to be saved at once are each blind to the other.
Passes ==
    /\ \A r, s \in Refs : Beside(rows[r], rows[s], r, s)
    /\ \A q \in Reqs : req[q].pc = "save"
          => \A s \in Refs : Beside(Copy(q), rows[s], req[q].ref, s)
    /\ \A p, q \in Reqs :
          req[p].pc = "save" /\ req[q].pc = "save" /\ req[p].ref # req[q].ref
             => {req[p].ref, req[q].ref} \in blind

LEMMA BesideTurns ==
  ASSUME NEW r, NEW s, NEW row, NEW other, Beside(row, other, r, s)
  PROVE  Beside(other, row, s, r)
  <1>1. {r, s} = {s, r}
    OBVIOUS
  <1>2. QED BY <1>1 DEF Beside, Stacked

\* A write that makes no pass of a row and moves no pass's end, or that no row
\* is held against, by a step after which no worker is newly about to save.
LEMMA PassesStay ==
  ASSUME IInv, Passes, blind \subseteq blind',
         \A p \in Reqs : req'[p].pc = "save" => req'[p] = req[p],
         \A c \in Refs :
            \/ DatedPass(rows'[c]) => DatedPass(rows[c]) /\ rows'[c].expires = rows[c].expires
            \/ \A s \in Refs \ {c} : {c, s} \in blind'
  PROVE  Passes'
  <1> DEFINE Kept(c) == DatedPass(rows'[c]) => /\ DatedPass(rows[c])
                                              /\ rows'[c].expires = rows[c].expires
             Freed(c) == \A s \in Refs \ {c} : {c, s} \in blind'
  <1>1. \A c \in Refs : Kept(c) \/ Freed(c)
    OBVIOUS
  <1>2. ASSUME NEW r \in Refs, NEW s \in Refs PROVE Beside(rows[r], rows[s], r, s)'
    <2>1. CASE r = s
      BY <2>1 DEF Beside
    <2>2. CASE r # s /\ (Freed(r) \/ Freed(s))
      <3>1. {r, s} = {s, r}
        OBVIOUS
      <3>2. {r, s} \in blind'
        BY <2>2, <3>1
      <3>3. QED BY <3>2 DEF Beside
    <2>3. CASE Kept(r) /\ Kept(s)
      BY <2>3 DEF Passes, Beside, Stacked, DatedPass
    <2>4. QED BY <1>1, <2>1, <2>2, <2>3
  <1>3. ASSUME NEW q \in Reqs, req'[q].pc = "save", NEW s \in Refs
        PROVE  Beside(Copy(q), rows[s], req[q].ref, s)'
    <2>1. /\ req[q].pc = "save" /\ Copy(q)' = Copy(q) /\ req'[q].ref = req[q].ref
          /\ req[q].ref \in Refs
      BY <1>3, CopyOK DEF Copy
    <2>2. CASE req[q].ref = s
      BY <2>1, <2>2 DEF Beside
    <2>3. CASE req[q].ref # s /\ Freed(s)
      <3>1. {req[q].ref, s} = {s, req[q].ref}
        OBVIOUS
      <3>2. {req[q].ref, s} \in blind'
        BY <2>1, <2>3, <3>1
      <3>3. QED BY <2>1, <3>2 DEF Beside
    <2>4. CASE Kept(s)
      BY <2>1, <2>4 DEF Passes, Beside, Stacked, DatedPass
    <2>5. QED BY <1>1, <2>2, <2>3, <2>4
  <1>4. ASSUME NEW p \in Reqs, NEW q \in Reqs,
               req'[p].pc = "save", req'[q].pc = "save", req'[p].ref # req'[q].ref
        PROVE  {req'[p].ref, req'[q].ref} \in blind'
    BY <1>4 DEF Passes
  <1>5. QED BY <1>2, <1>3, <1>4 DEF Passes

\* ... by a worker that goes on as x.
LEMMA WorkerPasses ==
  ASSUME IInv, Passes, blind \subseteq blind', NEW q \in Reqs, NEW x, Becomes(q, x),
         x.pc # "save",
         \A c \in Refs :
            \/ DatedPass(rows'[c]) => DatedPass(rows[c]) /\ rows'[c].expires = rows[c].expires
            \/ \A s \in Refs \ {c} : {c, s} \in blind'
  PROVE  Passes'
  <1>1. \A p \in Reqs : req'[p].pc = "save" => req'[p] = req[p]
    BY InTypes DEF Becomes
  <1>2. QED BY <1>1, PassesStay

\* Where a worker goes after a re-read, it has nothing reckoned to save.
LEMMA AfterRefreshPc ==
  ASSUME IInv, NEW q \in Reqs, req[q].pc # "idle", AfterRefresh(q)
  PROVE  \E x : Becomes(q, x) /\ x.pc # "save"
  <1>1. At(q, "tell", Copy(q)).pc = "tell" /\ Idle.pc = "idle"
    BY CopyOK, AtOK DEF Points, Idle
  <1>2. CASE req[q].job = "settle"
    <2> DEFINE y == At(q, "tell", Copy(q))
               x == [y EXCEPT !.news = FALSE]
    <2>1. Becomes(q, x)
      BY <1>2 DEF AfterRefresh
    <2>2. x.pc = y.pc
      OBVIOUS
    <2> HIDE DEF x, y
    <2>3. QED BY <1>1, <2>1, <2>2 DEF y
  <1>3. CASE Becomes(q, Idle)
    BY <1>1, <1>3
  <1>4. CASE req[q].job # "settle" /\ ~Becomes(q, Idle)
    <2>1. PICK n \in req[q].todo : Becomes(q, Reread([req[q] EXCEPT !.news = FALSE], n))
      BY <1>4 DEF AfterRefresh, Finish
    <2> DEFINE y == [req[q] EXCEPT !.news = FALSE]
    <2>2. Reread(y, n).pc = "reread"
      BY CopyOK DEF Reread, Request
    <2> HIDE DEF y
    <2>3. QED BY <2>1, <2>2 DEF y
  <1>5. QED BY <1>2, <1>3, <1>4

\* The days of a pass are reckoned past every pass its account has by then.
LEMMA GrantStacks ==
  ASSUME IInv, NEW r \in Refs, NEW until \in GrantUntil(rows, r, "pass", now), until # None,
         NEW s \in Refs \ {r}, Owner[s] = Owner[r], rows[s].status = "paid",
         rows[s].expires # None
  PROVE  until >= rows[s].expires + PassDays
  <1> DEFINE S == Running(rows, r, now)
  <1>1. now \in Nat /\ rows[s].expires \in Nat /\ PassDays \in Nat
    BY InTypes DEF Row
  <1>2. Days("pass") = PassDays /\ Days("pass") # None
    BY <1>1 DEF Days
  <1>3. PICK e \in Latest(S \cup {now}) : until = e + PassDays
    BY <1>2 DEF GrantUntil
  <1>4. None \notin S
    BY <1>2 DEF GrantUntil
  <1>5. S \subseteq Nat \cup {None}
    BY InTypes DEF Running, PaidRows, Row
  <1>6. e \in Nat /\ \A m \in S \cup {now} : e >= m
    BY <1>1, <1>3, <1>4, <1>5 DEF Latest
  <1>7. rows[s].expires > now => rows[s].expires \in S
    BY DEF Running, PaidRows, Live
  <1> HIDE DEF S
  <1>8. QED BY <1>1, <1>3, <1>6, <1>7

LEMMA AnswerPaymentPasses ==
  ASSUME IInv, Passes, NEW q \in Reqs, AnswerPayment(q)
  PROVE  Passes'
  <1> DEFINE r == req[q].ref
             p == req[q].url.pay
  <1>1. req[q].pc = "pay" /\ rows' = rows
    BY DEF AnswerPayment
  <1>2. CASE ~Belongs(p, r)
    BY <1>1, <1>2, WorkerPasses DEF AnswerPayment, Finish, Idle
  <1>3. CASE Belongs(p, r)
    <2>1. PICK knows \in BOOLEAN, named \in BOOLEAN,
               until \in GrantUntil(rows, r, Copy(q).plan, now) :
             LET sub == IF named /\ subs[r].word # "none" THEN r ELSE req[q].url.sub
             IN  Becomes(q, At(q, "save", AfterPayment(Copy(q), r, p, sub, knows, until)))
      BY <1>3 DEF AnswerPayment, Told
    <2> DEFINE sub  == IF named /\ subs[r].word # "none" THEN r ELSE req[q].url.sub
               copy == AfterPayment(Copy(q), r, p, sub, knows, until)
               x    == At(q, "save", copy)
    <2>2. /\ Copy(q) \in Row /\ Copy(q).status = "pending" /\ r \in Refs
          /\ req[q] \in Request
      BY <1>1, CopyOK DEF Fits
    <2>3. /\ copy.plan = Copy(q).plan
          /\ copy.status = "paid" => copy.expires = until
      BY <2>2 DEF AfterPayment, Settled, Row
    <2>4. x.pc = "save" /\ x.ref = r /\ x.copies[r] = copy
      <3> HIDE DEF copy
      <3>1. QED BY <2>2 DEF At, Request
    <2>5. Becomes(q, x)
      BY <2>1
    <2> HIDE DEF copy, x
    <2>6. ASSUME NEW s \in Refs PROVE Beside(copy, rows[s], r, s)
      <3> SUFFICES ASSUME r # s, Owner[r] = Owner[s], DatedPass(copy), DatedPass(rows[s])
                   PROVE  Stacked(copy, rows[s])
        BY DEF Beside
      <3>1. /\ Copy(q).plan = "pass" /\ copy.expires = until /\ until # None
            /\ rows[s].status = "paid" /\ rows[s].expires # None
        BY <2>3 DEF DatedPass
      <3>2. until >= rows[s].expires + PassDays
        BY <2>2, <3>1, GrantStacks
      <3>3. QED BY <3>1, <3>2 DEF Stacked
    <2>7. /\ req'[q] = x /\ \A o \in Reqs \ {q} : req'[o] = req[o]
      BY <2>5, InTypes DEF Becomes
    <2>8. blind' = blind \cup {{r, s} : s \in Unsaved(q)}
      BY <1>3 DEF AnswerPayment
    <2>9. ASSUME NEW c \in Refs, NEW s \in Refs PROVE Beside(rows[c], rows[s], c, s)'
      BY <1>1, <2>8 DEF Passes, Beside
    <2>10. ASSUME NEW o \in Reqs, req'[o].pc = "save", NEW s \in Refs
           PROVE  Beside(Copy(o), rows[s], req[o].ref, s)'
      <3>1. CASE o = q
        BY <1>1, <2>4, <2>6, <2>7, <2>8, <3>1 DEF Beside, Copy
      <3>2. CASE o # q
        BY <1>1, <2>7, <2>8, <2>10, <3>2 DEF Passes, Beside, Copy
      <3>3. QED BY <3>1, <3>2
    <2>11. ASSUME NEW o \in Reqs \ {q}, req'[o].pc = "save", req'[o].ref # r
           PROVE  {r, req'[o].ref} \in blind'
      <3>1. req[o].ref \in Unsaved(q)
        BY <2>7, <2>11 DEF Unsaved
      <3>2. QED BY <2>7, <2>8, <3>1
    <2>12. ASSUME NEW n \in Reqs, NEW o \in Reqs,
                  req'[n].pc = "save", req'[o].pc = "save", req'[n].ref # req'[o].ref
           PROVE  {req'[n].ref, req'[o].ref} \in blind'
      <3>1. CASE n = q
        BY <2>4, <2>7, <2>11, <2>12, <3>1
      <3>2. CASE o = q
        <4>1. {req'[n].ref, req'[o].ref} = {req'[o].ref, req'[n].ref}
          OBVIOUS
        <4>2. QED BY <2>4, <2>7, <2>11, <2>12, <3>2, <4>1
      <3>3. CASE n # q /\ o # q
        BY <2>7, <2>8, <2>12, <3>3 DEF Passes
      <3>4. QED BY <3>1, <3>2, <3>3
    <2>13. QED BY <2>9, <2>10, <2>12 DEF Passes
  <1>4. QED BY <1>2, <1>3

LEMMA SavePaymentPasses ==
  ASSUME IInv, Passes, NEW q \in Reqs, SavePayment(q)
  PROVE  Passes'
  <1> DEFINE r == req[q].ref
  <1>1. /\ req[q].pc = "save" /\ Save(q) /\ blind' = blind
        /\ \E x : Becomes(q, x) /\ x.pc # "save"
    <2>1. /\ req[q].pc = "save" /\ Save(q) /\ blind' = blind
          /\ \/ Becomes(q, Idle) \/ Becomes(q, Reread(req[q], r))
             \/ Becomes(q, At(q, "tell", Copy(q)))
      BY DEF SavePayment, Finish, desk
    <2>2. Idle.pc = "idle" /\ At(q, "tell", Copy(q)).pc = "tell"
      BY <2>1, AtFields DEF Idle
    <2>3. Reread(req[q], r).pc = "reread"
      BY <2>1, CopyOK DEF Reread, Request
    <2>4. QED BY <2>1, <2>2, <2>3
  <1>2. r \in Refs /\ rows'[r] = Copy(q) /\ \A c \in Refs \ {r} : rows'[c] = rows[c]
    BY <1>1, CopyOK, InTypes DEF Save
  <1>3. \A o \in Reqs : req'[o].pc = "save" => o # q /\ req'[o] = req[o]
    BY <1>1, InTypes DEF Becomes
  <1>4. ASSUME NEW s \in Refs PROVE Beside(Copy(q), rows'[s], r, s)
    BY <1>1, <1>2 DEF Passes, Beside
  <1>5. ASSUME NEW c \in Refs, NEW s \in Refs PROVE Beside(rows[c], rows[s], c, s)'
    <2>1. Beside(rows'[c], rows'[s], c, s)
      <3>1. CASE c = r
        BY <1>2, <1>4, <3>1
      <3>2. CASE s = r
        BY <1>2, <1>4, <3>2, BesideTurns
      <3>3. CASE c # r /\ s # r
        BY <1>2, <3>3 DEF Passes
      <3>4. QED BY <3>1, <3>2, <3>3
    <2>2. QED BY <1>1, <2>1 DEF Beside
  <1>6. ASSUME NEW o \in Reqs, req'[o].pc = "save", NEW s \in Refs
        PROVE  Beside(Copy(o), rows[s], req[o].ref, s)'
    <2>1. o # q /\ req'[o] = req[o] /\ Copy(o)' = Copy(o) /\ req[o].pc = "save"
      BY <1>3, <1>6 DEF Copy
    <2>2. Beside(Copy(o), rows'[s], req[o].ref, s)
      <3>1. CASE s # r
        BY <1>2, <2>1, <3>1 DEF Passes
      <3>2. CASE s = r /\ req[o].ref # r
        BY <1>1, <2>1, <3>2 DEF Passes, Beside
      <3>3. CASE s = r /\ req[o].ref = r
        BY <3>3 DEF Beside
      <3>4. QED BY <3>1, <3>2, <3>3
    <2>3. QED BY <1>1, <2>1, <2>2 DEF Beside
  <1>7. QED BY <1>1, <1>3, <1>5, <1>6 DEF Passes

LEMMA StepPasses ==
  ASSUME IInv, Passes, NEW q \in Reqs, Step(q)
  PROVE  Passes'
  <1> DEFINE r == req[q].ref
             Kept(c) == DatedPass(rows'[c]) => /\ DatedPass(rows[c])
                                              /\ rows'[c].expires = rows[c].expires
  <1>1. \A pc \in Points : \A copy : req[q].pc # "idle" => At(q, pc, copy).pc = pc
    BY CopyOK DEF At, Request
  <1>2. Idle.pc # "save"
    BY DEF Idle
  <1>3. ASSUME Save(q), req[q].pc # "idle", ~DatedPass(Copy(q)), NEW c \in Refs PROVE Kept(c)
    BY <1>3, CopyOK, InTypes DEF Save
  <1>4. CASE OpenCheckout(q)
    <2>1. Save(q) /\ req[q].pc = "open" /\ Becomes(q, Idle) /\ blind' = blind
      BY <1>4 DEF OpenCheckout, Finish, desk
    <2>2. ~DatedPass(Copy(q))
      BY <2>1, CopyOK DEF Fits, DatedPass
    <2>3. QED BY <1>2, <1>3, <2>1, <2>2, WorkerPasses
  <1>5. CASE AnswerSubscription(q)
    <2>1. req[q].pc = "sub" /\ rows' = rows /\ blind' = blind
      BY <1>5 DEF AnswerSubscription, desk
    <2>2. Becomes(q, Idle) \/ \E copy : Becomes(q, At(q, "charge", copy))
      BY <1>5 DEF AnswerSubscription, Finish
    <2>3. QED BY <1>1, <1>2, <2>1, <2>2, WorkerPasses DEF Points, Waiting
  <1>6. CASE AnswerCharge(q)
    <2>1. req[q].pc = "charge" /\ rows' = rows /\ blind' = blind
      BY <1>6 DEF AnswerCharge, desk
    <2>2. \E copy : Becomes(q, At(q, "saveSub", copy))
      BY <1>6 DEF AnswerCharge
    <2>3. QED BY <1>1, <2>1, <2>2, WorkerPasses DEF Points
  <1>7. CASE SaveSubscription(q)
    <2>1. /\ Save(q) /\ req[q].pc = "saveSub" /\ Becomes(q, At(q, "tell", Copy(q)))
          /\ blind' = blind
      BY <1>7 DEF SaveSubscription, desk
    <2>2. ~DatedPass(Copy(q))
      BY <2>1, CopyOK DEF Fits, DatedPass
    <2>3. QED BY <1>1, <1>3, <2>1, <2>2, WorkerPasses DEF Points
  <1>8. CASE Tell(q)
    BY <1>2, <1>8, WorkerPasses DEF Tell, Finish, desk
  <1>9. CASE AnswerReread(q)
    <2>1. req[q].pc = "reread" /\ rows' = rows /\ blind' = blind
      BY <1>9 DEF AnswerReread, desk
    <2>2. \E copy, news : Becomes(q, [At(q, "resave", copy) EXCEPT !.news = news])
      BY <1>9 DEF AnswerReread
    <2>3. PICK copy, news : Becomes(q, [At(q, "resave", copy) EXCEPT !.news = news])
      BY <2>2
    <2> DEFINE y == At(q, "resave", copy)
               x == [y EXCEPT !.news = news]
    <2>4. Becomes(q, x) /\ x.pc = y.pc
      BY <2>3
    <2>5. y.pc = "resave"
      BY <1>1, <2>1 DEF Points
    <2> HIDE DEF x, y
    <2>6. QED BY <2>1, <2>4, <2>5, WorkerPasses
  <1>10. CASE SaveReread(q)
    <2>1. Save(q) /\ req[q].pc = "resave" /\ AfterRefresh(q) /\ blind' = blind
      BY <1>10 DEF SaveReread, desk
    <2>2. ~DatedPass(Copy(q))
      BY <2>1, CopyOK DEF Fits, DatedPass
    <2>3. PICK x : Becomes(q, x) /\ x.pc # "save"
      BY <2>1, AfterRefreshPc
    <2>4. QED BY <1>3, <2>1, <2>2, <2>3, WorkerPasses
  <1>11. CASE RereadFails(q)
    <2>1. /\ rows' = [rows EXCEPT ![r].checked = Copy(q).checked]
          /\ req[q].pc = "reread" /\ AfterRefresh(q) /\ blind' = blind
      BY <1>11 DEF RereadFails, desk
    <2>2. \A c \in Refs : Kept(c)
      BY <2>1, InTypes DEF DatedPass, Row
    <2>3. PICK x : Becomes(q, x) /\ x.pc # "save"
      BY <2>1, AfterRefreshPc
    <2>4. QED BY <2>1, <2>2, <2>3, WorkerPasses
  <1>12. CASE SaveForm(q)
    <2>1. /\ Save(q) /\ req[q].pc = "post" /\ Becomes(q, Idle)
          /\ blind' = blind \cup {{r, s} : s \in Refs \ {r}}
      BY <1>12 DEF SaveForm, Finish
    <2>2. \A c \in Refs \ {r} : Kept(c)
      BY <2>1, InTypes DEF Save
    <2>3. \A s \in Refs \ {r} : {r, s} \in blind'
      BY <2>1
    <2>4. QED BY <1>2, <2>1, <2>2, <2>3, WorkerPasses
  <1>13. QED BY <1>4, <1>5, <1>6, <1>7, <1>8, <1>9, <1>10, <1>11, <1>12,
             AnswerPaymentPasses, SavePaymentPasses DEF Step

LEMMA BeginPasses ==
  ASSUME IInv, Passes, NEW q \in Reqs, Begin(q)
  PROVE  Passes'
  <1>1. rows' = rows /\ blind' = blind
    BY DEF Begin, BeginStart, BeginSettle, BeginCatchUp, BeginPortal, BeginLoop, PostForm, desk
  <1>2. \E x : Becomes(q, x) /\ x.pc # "save"
    <2> DEFINE Goes == \E x : Becomes(q, x) /\ x.pc # "save"
    <2>1. ASSUME NEW r \in Refs, NEW plan \in OnSale, BeginStart(q, r, plan) PROVE Goes
      <3> DEFINE x == [Idle EXCEPT !.pc = "open", !.job = "start", !.ref = r,
                           !.copies[r] = [Blank EXCEPT !.plan = plan, !.status = "pending"]]
      <3>1. Becomes(q, x) /\ x.pc = "open"
        BY <2>1 DEF BeginStart, Idle
      <3> HIDE DEF x
      <3>2. QED BY <3>1
    <2>2. ASSUME NEW r \in Refs, NEW u \in Urls, BeginSettle(q, r, u) PROVE Goes
      <3> DEFINE pc == IF u.pay # None THEN "pay" ELSE "sub"
                 x  == [Idle EXCEPT !.pc = pc, !.job = "settle", !.ref = r, !.url = u,
                                    !.copies[r] = rows[r]]
      <3>1. Becomes(q, x) /\ x.pc = pc
        BY <2>2 DEF BeginSettle, Idle
      <3> HIDE DEF x
      <3>2. QED BY <3>1
    <2>3. ASSUME NEW job, NEW due, BeginLoop(q, job, due) PROVE Goes
      <3> DEFINE y == [Idle EXCEPT !.job = job, !.todo = due, !.copies = rows]
      <3>1. PICK n \in due : Becomes(q, Reread(y, n))
        BY <2>3 DEF BeginLoop
      <3>2. Reread(y, n).pc = "reread"
        BY DEF Reread, Idle
      <3> HIDE DEF y
      <3>3. QED BY <3>1, <3>2
    <2>4. ASSUME NEW status \in Statuses, PostForm(q, status) PROVE Goes
      <3> DEFINE x == [Idle EXCEPT !.pc = "post", !.job = "admin", !.ref = form.ref,
                           !.copies[form.ref] = [form.row EXCEPT !.status = status],
                           !.news = BecameRefunded(form.ref, status)]
      <3>1. Becomes(q, x) /\ x.pc = "post"
        BY <2>4 DEF PostForm, Idle
      <3> HIDE DEF x
      <3>2. QED BY <3>1
    <2>5. QED BY <2>1, <2>2, <2>3, <2>4 DEF Begin, BeginCatchUp, BeginPortal
  <1>3. QED BY <1>1, <1>2, WorkerPasses

LEMMA StepwisePasses ==
  ASSUME IInv, Passes, [Next]_vars
  PROVE  Passes'
  <1>1. ASSUME NEW q \in Reqs, Begin(q) \/ Step(q) \/ Abandon(q) PROVE Passes'
    <2>1. CASE Abandon(q)
      BY <2>1, WorkerPasses DEF Abandon, Finish, Idle, desk
    <2>2. QED BY <1>1, <2>1, BeginPasses, StepPasses
  <1>2. CASE \/ ProviderNext /\ UNCHANGED <<rows, req, said, shown, asked, desk>>
             \/ \E r \in Refs : OpenForm(r)
             \/ \E u \in Users : Visit(u)
             \/ UNCHANGED vars
    <2>1. UNCHANGED <<rows, req, blind>>
      BY <1>2 DEF OpenForm, Visit, vars, desk
    <2>2. QED BY <2>1, PassesStay
  <1>3. ASSUME NEW r \in Refs, Revoke(r) PROVE Passes'
    <2>1. /\ rows' = [rows EXCEPT ![r].expires = now] /\ rows[r].plan \in Complimentary
          /\ req' = req /\ blind' = blind
      BY <1>3 DEF Revoke, desk
    <2>2. ~DatedPass(rows'[r]) /\ \A c \in Refs \ {r} : rows'[c] = rows[c]
      BY <2>1, InTypes DEF DatedPass, Row, Complimentary
    <2>3. QED BY <2>1, <2>2, PassesStay
  <1>4. ASSUME NEW r \in Refs, NEW plan \in Complimentary, Grant(r, plan) PROVE Passes'
    <2> DEFINE row == [Blank EXCEPT !.plan = plan, !.status = "paid",
                           !.expires = IF Days(plan) = None THEN None ELSE now + Days(plan)]
    <2>1. rows' = [rows EXCEPT ![r] = row] /\ req' = req /\ blind' = blind
      BY <1>4 DEF Grant, desk
    <2>2. ~DatedPass(row)
      BY DEF DatedPass, Blank, Complimentary
    <2> HIDE DEF row
    <2>3. \A c \in Refs : rows'[c] = IF c = r THEN row ELSE rows[c]
      BY <2>1, InTypes
    <2>4. QED BY <2>1, <2>2, <2>3, PassesStay
  <1>5. QED BY <1>1, <1>2, <1>3, <1>4 DEF Next

\* The passes of an account never cover the same days but where one was reckoned
\* between the other's reckoning and its save, or written back from a form: any
\* number of requests in flight, any length of pass (_grant_until).
THEOREM PassesAreStacked == Spec => []PassesStack
  <1>1. Init => Passes
    BY DEF Init, Passes, Beside, DatedPass, Blank, Idle
  <1>2. IInv /\ Passes /\ [Next]_vars => Passes'
    BY StepwisePasses
  <1>3. Passes => PassesStack
    BY DEF Passes, Beside, PassesStack
  <1>4. QED BY <1>1, <1>2, <1>3, Invariance, PTL DEF Spec


-----------------------------------------------------------------------------
(***************************************************************************)
(* With one request worker, as the development server and a single-worker  *)
(* deployment run it, nobody writes the table between a request's load and *)
(* its save but the operator's gifts; a change form stays open through all *)
(* of it.  Under that hypothesis a refund is announced on the save that    *)
(* flips the row, with one payment attempt to a session the table is the   *)
(* ledger it promises, and while no form is posted a re-read takes back no *)
(* time and nothing is asked twice in an hour.                             *)
(***************************************************************************)
USE PlansAssumption

\* One request at a time.
Alone == \A p, q \in Reqs : p = q

Settling  == {"pay", "sub", "charge", "save", "saveSub"}
Rereading == {"reread", "resave"}

\* A row that failed is one of whose payments did, unless a hand says so.
Dud(row, r, paid) ==
    RefundOnly /\ row.status = "failed" => \E n \in 1 .. Attempts : paid[<<r, n>>] = "failed"

\* The copy of row n is of a row that was sold and is still paid for.
Agrees(copies, n, table) == table[n].status = "paid" /\ copies[n].plan = table[n].plan

\* What a request x and its copies say of a table and of payments nobody else
\* writes.
Hand(x, table, paid) ==
    LET r    == x.ref
        copy == x.copies[r]
    IN  /\ x.pc = "open" => table[r].status = "none"
        /\ x.pc \in Settling =>
              x.todo = {} /\ table[r].status = "pending" /\ copy.plan = table[r].plan
        /\ x.pc \in {"save", "post"} => Dud(copy, r, paid)
        /\ x.pc \in Rereading => \A n \in x.todo \cup {r} : Agrees(x.copies, n, table)
        /\ x.pc = "post" =>
              /\ May("admin") /\ table[r].status # "none"
              /\ copy.plan = table[r].plan /\ copy.plan \notin Complimentary
              /\ x.news <=> copy.status = "refunded" /\ table[r].status = "paid"

\* What an open form shows of the row it was opened on.
Desk(table, paid) ==
    form.ref # None =>
        /\ May("admin") /\ table[form.ref].status # "none"
        /\ form.row.plan = table[form.ref].plan /\ form.row.plan \notin Complimentary
        /\ Dud(form.row, form.ref, paid)

\* A session is open only for a row that was sold, and only a session takes
\* money.
Opened(r) ==
    /\ sessions[r] # None => rows[r].status # "none" /\ rows[r].plan \notin Complimentary
    /\ rows[r].status = "none" => rows[r].plan = None
    /\ rows[r].status = "pending" => rows[r].plan \notin Complimentary
    /\ \A n \in 1 .. Attempts : pays[<<r, n>>] # "none" => sessions[r] # None
    /\ Dud(rows[r], r, pays)

SInv ==
    /\ \A r \in Refs : Opened(r)
    /\ Desk(rows, pays)
    /\ \A q \in Reqs : Hand(req[q], rows, pays)

-----------------------------------------------------------------------------
(* What a step of the one worker has to keep.                              *)

LEMMA WorkerKeeps ==
  ASSUME Alone, IInv, NEW q \in Reqs, NEW x, Becomes(q, x), Hand(x, rows', pays'),
         \A r \in Refs : Opened(r)', Desk(rows, pays)'
  PROVE  SInv'
  <1>1. \A p \in Reqs : req'[p] = x
    BY InTypes DEF Alone, Becomes
  <1>2. QED BY <1>1 DEF SInv

LEMMA IdleHand ==
  ASSUME NEW table, NEW paid
  PROVE  Hand(Idle, table, paid)
  BY DEF Hand, Idle, Settling, Rereading

\* A row written over one of the same plan, neither of them blank.
LEMMA WriteKeeps ==
  ASSUME IInv, SInv, UNCHANGED <<sessions, pays, form>>,
         NEW r \in Refs, NEW row \in Row, rows' = [rows EXCEPT ![r] = row],
         rows[r].status # "none", row.status # "none", row.plan = rows[r].plan,
         row.status = "pending" => row.plan \notin Complimentary, Dud(row, r, pays)
  PROVE  (\A c \in Refs : Opened(c)') /\ Desk(rows, pays)'
  <1>1. rows'[r] = row /\ \A c \in Refs \ {r} : rows'[c] = rows[c]
    BY InTypes
  <1>2. ASSUME NEW c \in Refs PROVE Opened(c)'
    <2>1. Opened(c) /\ Opened(r)
      BY DEF SInv
    <2>2. CASE c = r
      BY <1>1, <2>1, <2>2 DEF Opened, Dud
    <2>3. CASE c # r
      BY <1>1, <2>1, <2>3 DEF Opened, Dud
    <2>4. QED BY <2>2, <2>3
  <1>3. form.ref \in Refs \cup {None}
    BY DEF IInv, TypeOK, Form
  <1>4. Desk(rows, pays)'
    BY <1>1, <1>3 DEF SInv, Desk, Dud
  <1>5. QED BY <1>2, <1>4

\* A step that leaves the table, the desk and the provider alone.
LEMMA StillTables ==
  ASSUME SInv, UNCHANGED <<sessions, pays, rows, form>>
  PROVE  (\A r \in Refs : Opened(r)') /\ Desk(rows, pays)'
  BY DEF SInv, Opened, Desk, Dud

\* The loop of a request moves on to a row whose copy agrees with the table.
LEMMA RereadHand ==
  ASSUME NEW x \in Request, NEW r \in Refs, NEW table, NEW paid,
         \A n \in x.todo \cup {r} : Agrees(x.copies, n, table)
  PROVE  Hand(Reread(x, r), table, paid)
  <1> DEFINE y == Reread(x, r)
             z == [x.copies[r] EXCEPT !.checked = now]
  <1>1. /\ y.pc = "reread" /\ y.ref = r /\ y.todo = x.todo \ {r}
        /\ y.copies = [c \in Refs |->
               IF c = r THEN z ELSE IF c \in x.todo THEN x.copies[c] ELSE Blank]
    BY DEF Reread, Request
  <1>2. x.copies[r] \in Row /\ x.todo \subseteq Refs
    BY DEF Request
  <1>3. z.plan = x.copies[r].plan
    BY <1>2 DEF Row
  <1> HIDE DEF y, z
  <1>4. y.copies[r] = z /\ \A n \in x.todo \ {r} : y.copies[n] = x.copies[n]
    BY <1>1, <1>2
  <1>5. \A n \in x.todo \cup {r} : Agrees(y.copies, n, table)
    BY <1>3, <1>4 DEF Agrees
  <1>6. Hand(y, table, paid)
    BY ONLY <1>1, <1>5 DEF Hand, Settling, Rereading
  <1>7. QED BY <1>6 DEF y

-----------------------------------------------------------------------------
(* The provider's steps, and the operator's gifts.                         *)

LEMMA GrowsKeeps ==
  ASSUME IInv, SInv, UNCHANGED <<rows, req, sessions, form>>,
         \A c \in Refs, n \in 1 .. Attempts :
            /\ pays[<<c, n>>] = "failed" => pays'[<<c, n>>] = "failed"
            /\ pays'[<<c, n>>] # "none" => sessions[c] # None
  PROVE  SInv'
  <1>1. ASSUME NEW row, NEW c \in Refs, Dud(row, c, pays) PROVE Dud(row, c, pays')
    BY <1>1 DEF Dud
  <1>2. \A c \in Refs : Opened(c)'
    BY <1>1 DEF SInv, Opened
  <1>3. form.ref \in Refs \cup {None}
    BY DEF IInv, TypeOK, Form
  <1>4. Desk(rows, pays)'
    BY <1>1, <1>3 DEF SInv, Desk
  <1>5. ASSUME NEW q \in Reqs PROVE Hand(req[q], rows, pays')
    <2>1. Hand(req[q], rows, pays)
      BY DEF SInv
    <2>2. req[q].pc # "idle" => req[q].ref \in Refs
      BY CopyOK
    <2>3. QED BY <1>1, <2>1, <2>2 DEF Hand
  <1>6. QED BY <1>2, <1>4, <1>5 DEF SInv

LEMMA SetPaymentSerial ==
  ASSUME IInv, SInv, NEW r \in Refs, NEW n \in 1 .. Attempts, NEW w \in PayWords,
         pays[<<r, n>>] \in {"none", "processing"}, sessions[r] # None,
         SetPayment(<<r, n>>, w), UNCHANGED <<rows, req, form>>
  PROVE  SInv'
  <1>1. <<r, n>> \in PayIds /\ \A c \in Refs, m \in 1 .. Attempts : <<c, m>> \in PayIds
    BY DEF PayIds
  <1>2. /\ pays \in [PayIds -> PayWords] /\ UNCHANGED sessions
        /\ pays' = [pays EXCEPT ![<<r, n>>] = w]
    BY DEF SetPayment, IInv, TypeOK, ProviderTypeOK
  <1>3. ASSUME NEW c \in Refs, NEW m \in 1 .. Attempts
        PROVE  /\ pays[<<c, m>>] = "failed" => pays'[<<c, m>>] = "failed"
               /\ pays'[<<c, m>>] # "none" => sessions[c] # None
    <2>1. CASE <<c, m>> = <<r, n>>
      BY <1>1, <1>2, <2>1
    <2>2. CASE <<c, m>> # <<r, n>>
      BY <1>1, <1>2, <2>2 DEF SInv, Opened
    <2>3. QED BY <2>1, <2>2
  <1>4. QED BY <1>2, <1>3, GrowsKeeps

LEMMA ProviderSerial ==
  ASSUME IInv, SInv, ProviderNext, UNCHANGED <<rows, req, said, shown, asked, desk>>
  PROVE  SInv'
  <1>0. form' = form
    BY DEF desk
  <1>1. ASSUME NEW r \in Refs, NEW n \in 1 .. Attempts, Attempt(r, n) PROVE SInv'
    <2>1. pays[<<r, n>>] = "none"
      BY <1>1 DEF Attempt
    <2>2. PICK w \in PayWords \ {"none"} : SetPayment(<<r, n>>, w)
      BY <1>1 DEF Attempt
    <2>3. QED BY <1>0, <1>1, <2>1, <2>2, SetPaymentSerial DEF Attempt
  <1>2. ASSUME NEW r \in Refs, NEW n \in 1 .. Attempts, Clear(r, n) PROVE SInv'
    <2>1. PICK w \in {"succeeded", "failed"} : SetPayment(<<r, n>>, w)
      BY <1>2 DEF Clear
    <2>2. w \in PayWords /\ pays[<<r, n>>] = "processing" /\ sessions[r] # None
      BY <1>2 DEF Clear, PayWords, SInv, Opened
    <2>3. QED BY <1>0, <2>1, <2>2, SetPaymentSerial
  <1>3. CASE Tick \/ \E r \in Refs : Renew(r) \/ Hold(r) \/ Stop(r) \/ End(r)
    <2>1. /\ UNCHANGED sessions
          /\ \/ pays' = pays
             \/ \E r \in Refs : pays' = [pays EXCEPT ![<<r, 0>>] = "succeeded"]
      BY <1>3 DEF Tick, Renew, Hold, Stop, End, SetSubscription
    <2>2. \A c \in Refs, m \in 1 .. Attempts :
             <<c, m>> \in PayIds /\ \A r \in Refs : <<c, m>> # <<r, 0>>
      BY DEF PayIds
    <2>3. ASSUME NEW c \in Refs, NEW m \in 1 .. Attempts
          PROVE  pays'[<<c, m>>] = pays[<<c, m>>]
      <3>1. pays \in [PayIds -> PayWords]
        BY DEF IInv, TypeOK, ProviderTypeOK
      <3>2. QED BY <2>1, <2>2, <3>1
    <2>4. QED BY <1>0, <2>1, <2>3, GrowsKeeps DEF SInv, Opened
  <1>4. QED BY <1>1, <1>2, <1>3 DEF ProviderNext

\* A gift goes to a reference no request and no form holds.
LEMMA GiftSerial ==
  ASSUME IInv, SInv, NEW r \in Refs,
         Revoke(r) \/ \E plan \in Complimentary : Grant(r, plan)
  PROVE  SInv'
  <1>1. /\ rows \in [Refs -> Row] /\ Opened(r) /\ UNCHANGED <<sessions, pays, req, form>>
    BY InTypes DEF SInv, Revoke, Grant, provider, desk
  <1>2. PICK row \in Row : /\ rows' = [rows EXCEPT ![r] = row]
                           /\ row.plan \in Complimentary /\ row.status \notin {"none", "pending"}
                           /\ \/ /\ row.status = rows[r].status /\ row.plan = rows[r].plan
                              \/ /\ rows[r].status = "none" /\ row.status = "paid"
                                 /\ \A q \in Reqs : req[q].ref # r
    <2>1. CASE Revoke(r)
      <3> DEFINE row == [rows[r] EXCEPT !.expires = now]
      <3>1. row \in Row /\ row.plan = rows[r].plan /\ row.status = rows[r].status
        BY <1>1, InTypes DEF Row
      <3>2. rows' = [rows EXCEPT ![r] = row] /\ row.plan \in Complimentary
        BY <1>1, <2>1, <3>1 DEF Revoke
      <3>3. rows[r].status \notin {"none", "pending"}
        BY <1>1, <3>1, <3>2 DEF Opened, Plans
      <3> HIDE DEF row
      <3>4. QED BY <3>1, <3>2, <3>3
    <2>2. CASE \E plan \in Complimentary : Grant(r, plan)
      <3>1. PICK plan \in Complimentary : Grant(r, plan)
        BY <2>2
      <3> DEFINE until == IF Days(plan) = None THEN None ELSE now + Days(plan)
                 row   == [Blank EXCEPT !.plan = plan, !.status = "paid", !.expires = until]
      <3>2. until \in Nat \cup {None}
        BY InTypes DEF Days
      <3>3. rows' = [rows EXCEPT ![r] = row]
        BY <3>1 DEF Grant
      <3> HIDE DEF until
      <3>4. row \in Row /\ row.plan = plan /\ row.status = "paid"
        BY <3>2 DEF Blank, Row, Statuses, Plans
      <3>5. rows[r].status = "none" /\ \A q \in Reqs : req[q].ref # r
        BY <3>1 DEF Grant, Fresh
      <3> HIDE DEF row
      <3>6. QED BY <3>3, <3>4, <3>5
    <2>3. QED BY <2>1, <2>2
  <1>3. rows'[r] = row /\ \A c \in Refs \ {r} : rows'[c] = rows[c]
    BY <1>1, <1>2
  <1>4. ASSUME NEW c \in Refs PROVE Opened(c)'
    <2>1. CASE c = r
      <3>1. sessions[c] = None
        BY <1>1, <1>2, <2>1 DEF Opened
      <3>2. Dud(row, r, pays)
        BY <1>1, <1>2 DEF Opened, Dud
      <3>3. QED BY <1>1, <1>2, <1>3, <2>1, <3>1, <3>2 DEF Opened
    <2>2. CASE c # r
      BY <1>1, <1>3, <2>2 DEF SInv, Opened
    <2>3. QED BY <2>1, <2>2
  <1>5. \A n \in Refs : rows[n].status # "none" =>
           rows'[n].status = rows[n].status /\ rows'[n].plan = rows[n].plan
    BY <1>2, <1>3
  <1>6. form.ref \in Refs \cup {None}
    BY DEF IInv, TypeOK, Form
  <1>7. Desk(rows, pays)'
    BY <1>1, <1>5, <1>6 DEF SInv, Desk
  <1>8. ASSUME NEW q \in Reqs PROVE Hand(req[q], rows', pays)
    <2> DEFINE x == req[q]
    <2>1. x \in Request /\ Hand(x, rows, pays)
      BY InTypes DEF SInv
    <2>2. x.pc # "idle" => x.ref \in Refs
      BY CopyOK
    <2>3. x.ref = r => rows'[r].status = rows[r].status
      BY <1>2, <1>3
    <2>4. x.todo \subseteq Refs
      BY <2>1 DEF Request
    <2>5. x.ref # r => rows'[x.ref] = rows[x.ref] \/ x.ref \notin Refs
      BY <1>3
    <2> HIDE DEF x
    <2>6. ASSUME x.pc # "idle" PROVE Hand(x, rows', pays)
      BY ONLY <1>5, <2>1, <2>2, <2>3, <2>4, <2>5, <2>6 DEF Hand, Agrees, Settling, Rereading
    <2>7. ASSUME x.pc = "idle" PROVE Hand(x, rows', pays)
      BY ONLY <2>1, <2>7 DEF Hand, Settling, Rereading
    <2>8. QED BY <2>6, <2>7 DEF x
  <1>9. QED BY <1>1, <1>4, <1>7, <1>8 DEF SInv

-----------------------------------------------------------------------------
(* start and settle                                                        *)

LEMMA HandOf ==
  ASSUME IInv, SInv, NEW q \in Reqs, req[q].pc # "idle"
  PROVE  /\ Hand(req[q], rows, pays) /\ Opened(req[q].ref)
         /\ req[q] \in Request /\ req[q].ref \in Refs /\ req[q].todo \subseteq Refs
         /\ Copy(q) \in Row /\ Copy(q) = req[q].copies[req[q].ref]
         /\ rows \in [Refs -> Row]
         /\ Fits(req[q].pc, Copy(q)) /\ Sound(Copy(q), req[q].ref)
  BY CopyOK, InTypes DEF SInv, Request, Copy

\* The worker goes on as x, and nothing else moves.
LEMMA MoveSerial ==
  ASSUME Alone, IInv, SInv, UNCHANGED <<sessions, pays, rows, form>>, NEW q \in Reqs,
         NEW x, Becomes(q, x), Hand(x, rows, pays)
  PROVE  SInv'
  <1>1. Hand(x, rows', pays')
    OBVIOUS
  <1>2. QED BY <1>1, StillTables, WorkerKeeps

LEMMA BeginStartSerial ==
  ASSUME Alone, IInv, SInv, NEW q \in Reqs, NEW r \in Refs, NEW plan \in OnSale,
         BeginStart(q, r, plan)
  PROVE  SInv'
  <1> DEFINE row == [Blank EXCEPT !.plan = plan, !.status = "pending"]
             x == [Idle EXCEPT !.pc = "open", !.job = "start", !.ref = r,
                               !.copies = [Idle.copies EXCEPT ![r] = row]]
  <1>1. Becomes(q, x) /\ UNCHANGED <<sessions, pays, rows, form>>
    BY DEF BeginStart, Idle, provider, desk
  <1> HIDE DEF row
  <1>2. x.pc = "open" /\ x.ref = r
    BY DEF Idle
  <1>3. rows[r].status = "none"
    BY DEF BeginStart, Fresh
  <1> HIDE DEF x
  <1>4. Hand(x, rows, pays)
    BY ONLY <1>2, <1>3 DEF Hand, Settling, Rereading
  <1>5. QED BY <1>1, <1>4, MoveSerial

LEMMA OpenCheckoutSerial ==
  ASSUME Alone, IInv, SInv, NEW q \in Reqs, OpenCheckout(q)
  PROVE  SInv'
  <1> DEFINE r == req[q].ref
  <1>1. /\ req[q].pc = "open" /\ Becomes(q, Idle) /\ UNCHANGED <<pays, form>>
        /\ rows' = [rows EXCEPT ![r] = Copy(q)]
        /\ sessions' = [sessions EXCEPT ![r] = Copy(q).plan]
    BY DEF OpenCheckout, Finish, Save, desk
  <1>2. /\ r \in Refs /\ rows \in [Refs -> Row] /\ sessions \in [Refs -> Plans \cup {None}]
        /\ rows[r].status = "none" /\ Copy(q).status = "pending"
        /\ Copy(q).plan \in OnSale /\ Opened(r)
    BY <1>1, HandOf DEF Hand, Fits, IInv, TypeOK, ProviderTypeOK
  <1>3. Copy(q).plan \notin Complimentary /\ Copy(q).plan # None
    BY <1>2 DEF Plans, Complimentary, Subscription, OneTime
  <1>4. ASSUME NEW c \in Refs PROVE Opened(c)'
    <2>1. CASE c = r
      <3>1. rows'[c] = Copy(q) /\ sessions'[c] = Copy(q).plan
        BY <1>1, <1>2, <2>1
      <3>2. QED BY <1>1, <1>2, <1>3, <3>1 DEF Opened, Dud
    <2>2. CASE c # r
      BY <1>1, <1>2, <2>2 DEF SInv, Opened
    <2>3. QED BY <2>1, <2>2
  <1>5. Desk(rows, pays)'
    <2>1. form.ref # None => form.ref # r /\ form.ref \in Refs
      BY <1>2 DEF SInv, Desk, IInv, TypeOK, Form
    <2>2. QED BY <1>1, <1>2, <2>1 DEF SInv, Desk
  <1>6. QED BY <1>1, <1>4, <1>5, IdleHand, WorkerKeeps

LEMMA BeginSettleSerial ==
  ASSUME Alone, IInv, SInv, NEW q \in Reqs, NEW r \in Refs, NEW u \in Urls,
         BeginSettle(q, r, u)
  PROVE  SInv'
  <1> DEFINE x == [Idle EXCEPT !.pc = IF u.pay # None THEN "pay" ELSE "sub",
                               !.job = "settle", !.ref = r, !.url = u,
                               !.copies = [Idle.copies EXCEPT ![r] = rows[r]]]
  <1>1. Becomes(q, x) /\ UNCHANGED <<sessions, pays, rows, form>>
    BY DEF BeginSettle, Idle, provider, desk
  <1>2. /\ x.pc \in {"pay", "sub"} /\ x.ref = r /\ x.todo = {} /\ x.copies[r] = rows[r]
    BY DEF Idle
  <1>3. rows[r].status = "pending"
    BY DEF BeginSettle
  <1> HIDE DEF x
  <1>4. Hand(x, rows, pays)
    BY ONLY <1>2, <1>3 DEF Hand, Settling, Rereading
  <1>5. QED BY <1>1, <1>4, MoveSerial

\* What a worker holds at the next point of a settlement.
LEMMA SettlingHand ==
  ASSUME IInv, SInv, NEW q \in Reqs, req[q].pc \in Settling,
         NEW pc \in {"charge", "save", "saveSub"}, NEW copy, copy.plan = Copy(q).plan,
         pc = "save" => Dud(copy, req[q].ref, pays)
  PROVE  Hand(At(q, pc, copy), rows, pays)
  <1> DEFINE x == At(q, pc, copy)
             r == req[q].ref
  <1>1. req[q].pc # "idle"
    BY DEF Settling
  <1>2. req[q].todo = {} /\ rows[r].status = "pending" /\ Copy(q).plan = rows[r].plan
    BY <1>1, HandOf DEF Hand
  <1>3. x.pc = pc /\ x.ref = r /\ x.todo = {} /\ x.copies[r] = copy
    BY <1>1, <1>2, AtFields
  <1> HIDE DEF x, r
  <1>4. /\ pc \in {"charge", "save", "saveSub"} /\ copy.plan = rows[r].plan
        /\ pc = "save" => Dud(copy, r, pays)
    BY <1>2 DEF r
  <1>5. Hand(x, rows, pays)
    BY ONLY <1>2, <1>3, <1>4 DEF Hand, Settling, Rereading
  <1>6. QED BY <1>5 DEF x

LEMMA AnswerPaymentSerial ==
  ASSUME Alone, IInv, SInv, NEW q \in Reqs, AnswerPayment(q)
  PROVE  SInv'
  <1> DEFINE r == req[q].ref
             p == req[q].url.pay
             row == Copy(q)
  <1>1. req[q].pc = "pay" /\ UNCHANGED <<sessions, pays, rows, form>>
    BY DEF AnswerPayment, provider
  <1>2. r \in Refs /\ row \in Row /\ row.status = "pending" /\ req[q] \in Request
    BY <1>1, HandOf DEF Fits
  <1>3. CASE ~Belongs(p, r)
    BY <1>1, <1>3, IdleHand, MoveSerial DEF AnswerPayment, Finish
  <1>4. CASE Belongs(p, r)
    <2>1. PICK knows \in BOOLEAN, named \in BOOLEAN,
               until \in GrantUntil(rows, r, row.plan, now) :
             LET sub == IF named /\ subs[r].word # "none" THEN r ELSE req[q].url.sub
             IN  Becomes(q, At(q, "save", AfterPayment(row, r, p, sub, knows, until)))
      BY <1>4 DEF AnswerPayment, Told
    <2> DEFINE sub  == IF named /\ subs[r].word # "none" THEN r ELSE req[q].url.sub
               copy == AfterPayment(row, r, p, sub, knows, until)
    <2>2. p # None /\ p \in PayIds
      BY <1>1, <1>2, CopyOK DEF ReqInv, Request
    <2>3. copy.plan = row.plan /\ (copy.status = "failed" => pays[p] = "failed")
      <3> HIDE DEF sub
      <3>1. QED BY <1>2 DEF AfterPayment, Settled, Row, Succeeded, Dead
    <2>4. Becomes(q, At(q, "save", copy))
      BY <2>1
    <2> HIDE DEF copy, sub
    <2>5. p[1] = r /\ p[2] # 0
      BY <1>2, <1>4, <2>2 DEF Belongs, ReferenceOf, SessionOf
    <2>6. p[2] \in 1 .. Attempts /\ p = <<r, p[2]>>
      BY <2>2, <2>5 DEF PayIds
    <2>7. Dud(copy, r, pays)
      BY <2>3, <2>6 DEF Dud
    <2>8. Hand(At(q, "save", copy), rows, pays)
      BY <1>1, <2>3, <2>7, SettlingHand DEF Settling
    <2>9. QED BY <1>1, <2>4, <2>8, MoveSerial
  <1>5. QED BY <1>3, <1>4

\* A save of a copy of the same plan as the row, both of them rows.
LEMMA SaveTables ==
  ASSUME IInv, SInv, UNCHANGED <<sessions, pays, form>>, NEW q \in Reqs,
         req[q].pc # "idle", Save(q), rows[req[q].ref].status # "none",
         Copy(q).status # "none", Copy(q).plan = rows[req[q].ref].plan,
         Copy(q).status = "pending" => Copy(q).plan \notin Complimentary,
         Dud(Copy(q), req[q].ref, pays)
  PROVE  (\A c \in Refs : Opened(c)') /\ Desk(rows, pays)'
  <1>1. req[q].ref \in Refs /\ Copy(q) \in Row /\ rows' = [rows EXCEPT ![req[q].ref] = Copy(q)]
    BY CopyOK DEF Save
  <1>2. QED BY <1>1, WriteKeeps

LEMMA TellHand ==
  ASSUME IInv, NEW q \in Reqs, req[q].pc # "idle", NEW copy, NEW table
  PROVE  Hand(At(q, "tell", copy), table, pays)
  <1> DEFINE x == At(q, "tell", copy)
  <1>1. x.pc = "tell"
    BY AtFields
  <1> HIDE DEF x
  <1>2. Hand(x, table, pays)
    BY ONLY <1>1 DEF Hand, Settling, Rereading
  <1>3. QED BY <1>2 DEF x

LEMMA SavePaymentSerial ==
  ASSUME Alone, IInv, SInv, NEW q \in Reqs, SavePayment(q)
  PROVE  SInv'
  <1> DEFINE r == req[q].ref
             x == Reread(req[q], r)
             y == At(q, "tell", Copy(q))
  <1>1. /\ req[q].pc = "save" /\ Save(q) /\ UNCHANGED <<sessions, pays, form>>
    BY DEF SavePayment, provider, desk
  <1>2. /\ Hand(req[q], rows, pays) /\ req[q] \in Request /\ r \in Refs
        /\ Copy(q) = req[q].copies[r] /\ Opened(r) /\ rows \in [Refs -> Row]
        /\ Copy(q).status \in {"pending", "paid", "failed"}
    BY <1>1, HandOf DEF Fits
  <1>3. /\ rows[r].status = "pending" /\ Copy(q).plan = rows[r].plan
        /\ Dud(Copy(q), r, pays) /\ req[q].todo = {}
    BY <1>1, <1>2 DEF Hand, Settling
  <1>4. (\A c \in Refs : Opened(c)') /\ Desk(rows, pays)'
    BY <1>1, <1>2, <1>3, SaveTables DEF Opened
  <1>5. CASE Becomes(q, Idle)
    BY <1>4, <1>5, IdleHand, WorkerKeeps
  <1>6. CASE Copy(q).status = "paid" /\ Becomes(q, x)
    <2>1. \A n \in req[q].todo \cup {r} : Agrees(req[q].copies, n, rows')
      BY <1>1, <1>2, <1>3, <1>6 DEF Agrees, Save
    <2>2. Hand(x, rows', pays')
      BY <1>2, <2>1, RereadHand
    <2> HIDE DEF x
    <2>3. QED BY <1>4, <1>6, <2>2, WorkerKeeps
  <1>7. CASE Becomes(q, y)
    <2>1. Hand(y, rows', pays')
      BY <1>1, TellHand
    <2> HIDE DEF y
    <2>2. QED BY <1>4, <1>7, <2>1, WorkerKeeps
  <1>8. QED BY <1>5, <1>6, <1>7 DEF SavePayment, Finish

LEMMA AnswerSubscriptionSerial ==
  ASSUME Alone, IInv, SInv, NEW q \in Reqs, AnswerSubscription(q)
  PROVE  SInv'
  <1> DEFINE r == req[q].ref
             s == req[q].url.sub
  <1>1. req[q].pc = "sub" /\ UNCHANGED <<sessions, pays, rows, form>>
    BY DEF AnswerSubscription, provider, desk
  <1>2. Copy(q) \in Row
    BY <1>1, HandOf
  <1>3. CASE s # r \/ subs[s].word # "active"
    BY <1>1, <1>3, IdleHand, MoveSerial DEF AnswerSubscription, Finish
  <1>4. CASE ~(s # r \/ subs[s].word # "active")
    <2>1. PICK knows \in BOOLEAN, dated \in BOOLEAN :
             Becomes(q, At(q, "charge",
                 [Copy(q) EXCEPT !.sub = s, !.word = subs[s].word,
                                 !.cancels = subs[s].cancels,
                                 !.customer = Copy(q).customer \/ knows,
                                 !.expires = IF dated THEN subs[s].next + Grace ELSE None]))
      BY <1>4 DEF AnswerSubscription, Told
    <2> DEFINE copy == [Copy(q) EXCEPT !.sub = s, !.word = subs[s].word,
                                       !.cancels = subs[s].cancels,
                                       !.customer = Copy(q).customer \/ knows,
                                       !.expires = IF dated THEN subs[s].next + Grace ELSE None]
    <2>2. copy.plan = Copy(q).plan
      BY <1>2 DEF Row
    <2>3. Becomes(q, At(q, "charge", copy))
      BY <2>1
    <2> HIDE DEF copy
    <2>4. Hand(At(q, "charge", copy), rows, pays)
      BY <1>1, <2>2, SettlingHand DEF Settling
    <2>5. QED BY <1>1, <2>3, <2>4, MoveSerial
  <1>5. QED BY <1>3, <1>4

LEMMA AnswerChargeSerial ==
  ASSUME Alone, IInv, SInv, NEW q \in Reqs, AnswerCharge(q)
  PROVE  SInv'
  <1> DEFINE r == req[q].ref
  <1>1. req[q].pc = "charge" /\ UNCHANGED <<sessions, pays, rows, form>>
    BY DEF AnswerCharge, provider, desk
  <1>2. Copy(q) \in Row
    BY <1>1, HandOf
  <1>3. PICK charge \in SubscriptionPayment(req[q].url.sub), knows \in BOOLEAN :
           LET noted == IF charge = None THEN Copy(q)
                        ELSE [Copy(q) EXCEPT !.pay = charge, !.charged = TRUE,
                                             !.customer = Copy(q).customer \/ knows]
           IN  Becomes(q, At(q, "saveSub",
                   [Settled(noted, r) EXCEPT
                       !.expires = IF noted.expires = None THEN now + Grace ELSE noted.expires,
                       !.checked = now]))
    BY DEF AnswerCharge, Told
  <1> DEFINE noted == IF charge = None THEN Copy(q)
                      ELSE [Copy(q) EXCEPT !.pay = charge, !.charged = TRUE,
                                           !.customer = Copy(q).customer \/ knows]
             until == IF noted.expires = None THEN now + Grace ELSE noted.expires
             copy  == [Settled(noted, r) EXCEPT !.expires = until, !.checked = now]
  <1>4. noted.plan = Copy(q).plan /\ DOMAIN noted = DOMAIN Copy(q)
    BY <1>2 DEF Row
  <1>5. copy.plan = Copy(q).plan
    <2> HIDE DEF noted, until
    <2>1. DOMAIN noted = {"plan", "status", "pay", "sub", "word", "cancels", "customer",
                          "checked", "charged", "verified", "commission", "expires"}
      BY <1>2, <1>4 DEF Row
    <2>2. QED BY <1>4, <2>1 DEF Settled
  <1>6. Becomes(q, At(q, "saveSub", copy))
    BY <1>3
  <1> HIDE DEF copy
  <1>7. Hand(At(q, "saveSub", copy), rows, pays)
    BY <1>1, <1>5, SettlingHand DEF Settling
  <1>8. QED BY <1>1, <1>6, <1>7, MoveSerial

LEMMA SaveSubscriptionSerial ==
  ASSUME Alone, IInv, SInv, NEW q \in Reqs, SaveSubscription(q)
  PROVE  SInv'
  <1> DEFINE r == req[q].ref
             y == At(q, "tell", Copy(q))
  <1>1. /\ req[q].pc = "saveSub" /\ Save(q) /\ Becomes(q, y)
        /\ UNCHANGED <<sessions, pays, form>>
    BY DEF SaveSubscription, provider, desk
  <1>2. /\ Hand(req[q], rows, pays) /\ Copy(q) = req[q].copies[r]
        /\ Copy(q).status = "paid"
    BY <1>1, HandOf DEF Fits
  <1>3. rows[r].status = "pending" /\ Copy(q).plan = rows[r].plan
    BY <1>1, <1>2 DEF Hand, Settling
  <1>4. (\A c \in Refs : Opened(c)') /\ Desk(rows, pays)'
    BY <1>1, <1>2, <1>3, SaveTables DEF Dud
  <1>5. Hand(y, rows', pays')
    BY <1>1, TellHand
  <1> HIDE DEF y
  <1>6. QED BY <1>1, <1>4, <1>5, WorkerKeeps

-----------------------------------------------------------------------------
(* refresh                                                                 *)

\* Wherever a re-read leaves off, as long as no row changed its plan or status.
LEMMA AfterRefreshSerial ==
  ASSUME Alone, IInv, SInv, NEW q \in Reqs, req[q].pc \in Rereading,
         AfterRefresh(q), UNCHANGED pays,
         \A c \in Refs : Opened(c)', Desk(rows, pays)',
         \A n \in Refs : rows'[n].status = rows[n].status /\ rows'[n].plan = rows[n].plan
  PROVE  SInv'
  <1>1. /\ req[q].pc # "idle" /\ Hand(req[q], rows, pays) /\ req[q] \in Request
        /\ req[q].todo \subseteq Refs /\ req[q].ref \in Refs
    BY HandOf DEF Rereading
  <1>2. \A n \in req[q].todo : Agrees(req[q].copies, n, rows)
    BY <1>1 DEF Hand
  <1>3. CASE req[q].job = "settle"
    <2> DEFINE y == At(q, "tell", Copy(q))
               x == [y EXCEPT !.news = FALSE]
    <2>1. Becomes(q, x)
      BY <1>3 DEF AfterRefresh
    <2>2. y.pc = "tell"
      BY <1>1, AtFields
    <2> HIDE DEF y
    <2>3. x.pc = y.pc
      OBVIOUS
    <2> HIDE DEF x
    <2>4. Hand(x, rows', pays')
      BY ONLY <2>2, <2>3 DEF Hand, Settling, Rereading
    <2>5. QED BY <2>1, <2>4, WorkerKeeps
  <1>4. CASE req[q].job # "settle" /\ Becomes(q, Idle)
    BY <1>4, IdleHand, WorkerKeeps
  <1>5. CASE req[q].job # "settle" /\ ~Becomes(q, Idle)
    <2> DEFINE y == [req[q] EXCEPT !.news = FALSE]
    <2>1. PICK n \in req[q].todo : Becomes(q, Reread(y, n))
      BY <1>5 DEF AfterRefresh, Finish
    <2>2. y \in Request /\ y.copies = req[q].copies /\ y.todo = req[q].todo /\ n \in Refs
      BY <1>1 DEF Request
    <2> HIDE DEF y
    <2>3. \A m \in y.todo \cup {n} : Agrees(y.copies, m, rows')
      BY <1>1, <1>2, <2>2 DEF Agrees
    <2> DEFINE x == Reread(y, n)
    <2>4. Hand(x, rows', pays')
      BY <2>2, <2>3, RereadHand
    <2>5. Becomes(q, x)
      BY <2>1
    <2> HIDE DEF x
    <2>6. QED BY <2>4, <2>5, WorkerKeeps
  <1>6. QED BY <1>3, <1>4, <1>5

LEMMA AnswerRereadSerial ==
  ASSUME Alone, IInv, SInv, NEW q \in Reqs, AnswerReread(q)
  PROVE  SInv'
  <1> DEFINE r    == req[q].ref
             row  == Copy(q)
             live == subs[row.sub]
  <1>1. req[q].pc = "reread" /\ UNCHANGED <<sessions, pays, rows, form>>
    BY DEF AnswerReread, provider, desk
  <1>2. /\ Hand(req[q], rows, pays) /\ r \in Refs /\ row \in Row
        /\ row = req[q].copies[r] /\ req[q].todo \subseteq Refs
    BY <1>1, HandOf
  <1>3. PICK knows \in BOOLEAN, dated \in BOOLEAN :
           Becomes(q, [At(q, "resave", Refreshed(row, live, dated, knows))
                          EXCEPT !.news = NowStopping(row, live)])
    BY DEF AnswerReread, Told
  <1> DEFINE copy == Refreshed(row, live, dated, knows)
             y    == At(q, "resave", copy)
             news == NowStopping(row, live)
             x    == [y EXCEPT !.news = news]
  <1>4. copy.plan = row.plan
    BY <1>2 DEF Refreshed, Row
  <1>5. Becomes(q, x)
    BY <1>3
  <1> HIDE DEF copy, news
  <1>6. /\ y.pc = "resave" /\ y.ref = r /\ y.todo = req[q].todo
        /\ y.copies[r] = copy /\ \A n \in Refs \ {r} : y.copies[n] = req[q].copies[n]
    BY <1>1, AtFields
  <1>7. x.pc = y.pc /\ x.ref = y.ref /\ x.todo = y.todo /\ x.copies = y.copies
    OBVIOUS
  <1> HIDE DEF x, y
  <1>8. \A n \in req[q].todo \cup {r} : Agrees(req[q].copies, n, rows)
    BY <1>1, <1>2 DEF Hand, Rereading
  <1>9. \A n \in x.todo \cup {r} : Agrees(x.copies, n, rows)
    <2>1. Agrees(x.copies, r, rows)
      BY <1>2, <1>4, <1>6, <1>7, <1>8 DEF Agrees
    <2>2. ASSUME NEW n \in req[q].todo, n # r PROVE Agrees(x.copies, n, rows)
      BY <1>2, <1>6, <1>7, <1>8, <2>2 DEF Agrees
    <2>3. QED BY <1>6, <1>7, <2>1, <2>2
  <1>10. x.pc = "resave" /\ x.ref = r
    BY <1>6, <1>7
  <1>11. Hand(x, rows, pays)
    BY ONLY <1>9, <1>10 DEF Hand, Settling, Rereading
  <1>12. QED BY <1>1, <1>5, <1>11, MoveSerial

LEMMA SaveRereadSerial ==
  ASSUME Alone, IInv, SInv, NEW q \in Reqs, SaveReread(q)
  PROVE  SInv'
  <1> DEFINE r == req[q].ref
  <1>1. /\ req[q].pc = "resave" /\ Save(q) /\ AfterRefresh(q)
        /\ UNCHANGED <<sessions, pays, form>>
    BY DEF SaveReread, provider, desk
  <1>2. /\ Hand(req[q], rows, pays) /\ Copy(q) = req[q].copies[r] /\ r \in Refs
        /\ Copy(q).status = "paid" /\ rows \in [Refs -> Row]
    BY <1>1, HandOf DEF Fits
  <1>3. rows[r].status = "paid" /\ Copy(q).plan = rows[r].plan
    BY <1>1, <1>2 DEF Hand, Agrees, Rereading
  <1>4. (\A c \in Refs : Opened(c)') /\ Desk(rows, pays)'
    BY <1>1, <1>2, <1>3, SaveTables DEF Dud
  <1>5. \A n \in Refs : rows'[n].status = rows[n].status /\ rows'[n].plan = rows[n].plan
    BY <1>1, <1>2, <1>3 DEF Save
  <1>6. QED BY <1>1, <1>4, <1>5, AfterRefreshSerial DEF Rereading

LEMMA RereadFailsSerial ==
  ASSUME Alone, IInv, SInv, NEW q \in Reqs, RereadFails(q)
  PROVE  SInv'
  <1> DEFINE r   == req[q].ref
             row == [rows[r] EXCEPT !.checked = Copy(q).checked]
  <1>1. /\ req[q].pc = "reread" /\ AfterRefresh(q) /\ UNCHANGED <<sessions, pays, form>>
        /\ rows' = [rows EXCEPT ![r] = row]
    BY CopyOK, InTypes DEF RereadFails, provider, desk
  <1>2. /\ Hand(req[q], rows, pays) /\ r \in Refs /\ rows \in [Refs -> Row]
        /\ rows[r] \in Row /\ Copy(q) \in Row
    BY <1>1, HandOf
  <1>3. rows[r].status = "paid"
    BY <1>1, <1>2 DEF Hand, Agrees, Rereading
  <1>4. /\ row \in Row /\ row.status = rows[r].status /\ row.plan = rows[r].plan
    BY <1>2 DEF Row
  <1> HIDE DEF row
  <1>5. (\A c \in Refs : Opened(c)') /\ Desk(rows, pays)'
    BY <1>1, <1>2, <1>3, <1>4, WriteKeeps DEF Dud
  <1>6. \A n \in Refs : rows'[n].status = rows[n].status /\ rows'[n].plan = rows[n].plan
    BY <1>1, <1>2, <1>4
  <1>7. QED BY <1>1, <1>5, <1>6, AfterRefreshSerial DEF Rereading

LEMMA BeginLoopSerial ==
  ASSUME Alone, IInv, SInv, NEW q \in Reqs, NEW job \in AllJobs, NEW due \in SUBSET Refs,
         \A n \in due : Loadable(rows[n]), BeginLoop(q, job, due)
  PROVE  SInv'
  <1> DEFINE y == [Idle EXCEPT !.job = job, !.todo = due, !.copies = rows]
  <1>1. PICK n \in due : Becomes(q, Reread(y, n))
    BY DEF BeginLoop
  <1>2. y \in Request /\ y.copies = rows /\ y.todo = due
    BY IdleOK, InTypes DEF Idle, Request
  <1> HIDE DEF y
  <1>3. \A m \in y.todo \cup {n} : Agrees(y.copies, m, rows)
    BY <1>2 DEF Agrees, Loadable
  <1> DEFINE x == Reread(y, n)
  <1>4. Hand(x, rows, pays)
    BY <1>2, <1>3, RereadHand
  <1>5. Becomes(q, x) /\ UNCHANGED <<sessions, pays, rows, form>>
    BY <1>1 DEF BeginLoop, provider, desk
  <1> HIDE DEF x
  <1>6. QED BY <1>4, <1>5, MoveSerial

-----------------------------------------------------------------------------
(* The change form.                                                        *)

LEMMA OpenFormSerial ==
  ASSUME IInv, SInv, NEW r \in Refs, OpenForm(r)
  PROVE  SInv'
  <1>1. /\ form' = [ref |-> r, row |-> rows[r]] /\ May("admin")
        /\ rows[r].status # "none" /\ rows[r].plan \notin Complimentary
        /\ UNCHANGED <<sessions, pays, rows, req>>
    BY DEF OpenForm, provider
  <1>2. Dud(rows[r], r, pays)
    BY DEF SInv, Opened
  <1>3. Desk(rows, pays)'
    BY <1>1, <1>2 DEF Desk
  <1>4. QED BY <1>1, <1>3 DEF SInv, Opened, Dud

LEMMA PostFormSerial ==
  ASSUME Alone, IInv, SInv, NEW q \in Reqs, NEW status \in Statuses, PostForm(q, status)
  PROVE  SInv'
  <1> DEFINE r    == form.ref
             row  == [form.row EXCEPT !.status = status]
             news == BecameRefunded(r, status)
             x    == [Idle EXCEPT !.pc = "post", !.job = "admin", !.ref = r,
                                  !.copies = [Idle.copies EXCEPT ![r] = row], !.news = news]
  <1>1. /\ r \in Refs /\ form.row \in Row /\ status \in Marks \cup {form.row.status}
        /\ May("admin") /\ rows[r].status # "none" /\ Dud(form.row, r, pays)
        /\ form.row.plan = rows[r].plan /\ form.row.plan \notin Complimentary
    BY DEF PostForm, IInv, TypeOK, Form, SInv, Desk
  <1>2. /\ row.status = status /\ row.plan = form.row.plan
        /\ news <=> status = "refunded" /\ rows[r].status = "paid"
    BY <1>1 DEF Row, BecameRefunded
  <1>3. Dud(row, r, pays)
    BY <1>1, <1>2 DEF Dud, RefundOnly
  <1>4. Becomes(q, x) /\ UNCHANGED <<sessions, pays, rows, form>>
    BY DEF PostForm, Idle, provider, desk
  <1> HIDE DEF row, news
  <1>5. x.pc = "post" /\ x.ref = r /\ x.copies[r] = row /\ x.news = news
    BY <1>1 DEF Idle
  <1> HIDE DEF x, r
  <1>6. Hand(x, rows, pays)
    BY ONLY <1>1, <1>2, <1>3, <1>5 DEF Hand, Settling, Rereading
  <1>7. QED BY <1>4, <1>6, MoveSerial

LEMMA SaveFormSerial ==
  ASSUME Alone, IInv, SInv, NEW q \in Reqs, SaveForm(q)
  PROVE  SInv'
  <1> DEFINE r == req[q].ref
  <1>1. /\ req[q].pc = "post" /\ Save(q) /\ Becomes(q, Idle)
        /\ UNCHANGED <<sessions, pays, form>>
    BY DEF SaveForm, Finish, provider
  <1>2. /\ Hand(req[q], rows, pays) /\ Copy(q) = req[q].copies[r]
        /\ Copy(q).status # "none"
    BY <1>1, HandOf DEF Fits
  <1>3. /\ rows[r].status # "none" /\ Copy(q).plan = rows[r].plan
        /\ Copy(q).plan \notin Complimentary /\ Dud(Copy(q), r, pays)
    BY <1>1, <1>2 DEF Hand
  <1>4. (\A c \in Refs : Opened(c)') /\ Desk(rows, pays)'
    BY <1>1, <1>2, <1>3, SaveTables
  <1>5. QED BY <1>1, <1>4, IdleHand, WorkerKeeps

LEMMA SerialStart == Init => SInv
  <1> SUFFICES ASSUME Init PROVE SInv
    OBVIOUS
  <1>1. ASSUME NEW r \in Refs PROVE Opened(r)
    <2>1. /\ rows[r] = Blank /\ sessions[r] = None
          /\ \A n \in 1 .. Attempts : pays[<<r, n>>] = "none"
      BY DEF Init, ProviderInit, PayIds
    <2>2. Blank.status = "none" /\ Blank.plan = None
      BY DEF Blank
    <2>3. QED BY <2>1, <2>2 DEF Opened, Dud
  <1>2. Desk(rows, pays)
    BY DEF Init, Desk, Shut
  <1>3. QED BY <1>1, <1>2, IdleHand DEF Init, SInv

LEMMA SerialStep ==
  ASSUME Alone, IInv, SInv, [Next]_vars
  PROVE  SInv'
  <1>1. CASE ProviderNext /\ UNCHANGED <<rows, req, said, shown, asked, desk>>
    BY <1>1, ProviderSerial
  <1>2. ASSUME NEW q \in Reqs, Begin(q) PROVE SInv'
    <2>1. ASSUME NEW u \in Users, BeginCatchUp(q, u) PROVE SInv'
      <3>1. /\ Due(rows, u, now) \in SUBSET Refs
            /\ \A n \in Due(rows, u, now) : Loadable(rows[n])
        BY DEF Due, PaidRows, Loadable
      <3>2. QED BY <2>1, <3>1, BeginLoopSerial DEF BeginCatchUp, AllJobs
    <2>2. ASSUME NEW u \in Users, BeginPortal(q, u) PROVE SInv'
      <3> DEFINE due == {r \in PaidRows(rows, u) : rows[r].sub # None}
      <3>1. due \in SUBSET Refs /\ \A n \in due : Loadable(rows[n])
        BY DEF PaidRows, Loadable
      <3>2. BeginLoop(q, "portal", due)
        BY <2>2 DEF BeginPortal
      <3> HIDE DEF due
      <3>3. QED BY <3>1, <3>2, BeginLoopSerial DEF AllJobs
    <2>3. QED BY <1>2, <2>1, <2>2, BeginStartSerial, BeginSettleSerial, PostFormSerial
              DEF Begin
  <1>3. ASSUME NEW q \in Reqs, Step(q) PROVE SInv'
    <2>1. CASE Tell(q)
      <3>1. Becomes(q, Idle) /\ UNCHANGED <<sessions, pays, rows, form>>
        BY <2>1 DEF Tell, Finish, provider, desk
      <3>2. QED BY <3>1, IdleHand, MoveSerial
    <2>2. QED BY <1>3, <2>1, OpenCheckoutSerial, AnswerPaymentSerial, SavePaymentSerial,
              AnswerSubscriptionSerial, AnswerChargeSerial, SaveSubscriptionSerial,
              AnswerRereadSerial, SaveRereadSerial, RereadFailsSerial, SaveFormSerial DEF Step
  <1>4. ASSUME NEW q \in Reqs, Abandon(q) PROVE SInv'
    <2>1. Becomes(q, Idle) /\ UNCHANGED <<sessions, pays, rows, form>>
      BY <1>4 DEF Abandon, Finish, provider, desk
    <2>2. QED BY <2>1, IdleHand, MoveSerial
  <1>5. CASE \E r \in Refs : OpenForm(r) \/ Revoke(r) \/ \E plan \in Complimentary : Grant(r, plan)
    BY <1>5, OpenFormSerial, GiftSerial
  <1>6. CASE (\E u \in Users : Visit(u)) \/ UNCHANGED vars
    <2>1. UNCHANGED <<sessions, pays, rows, req, form>>
      BY <1>6 DEF Visit, vars, provider, desk
    <2>2. (\A r \in Refs : Opened(r)') /\ Desk(rows, pays)'
      BY <2>1, StillTables
    <2>3. QED BY <2>1, <2>2 DEF SInv
  <1>7. QED BY <1>1, <1>2, <1>3, <1>4, <1>5, <1>6 DEF Next

LEMMA SerialInvariance ==
  ASSUME Alone
  PROVE  Spec => [](IInv /\ SInv)
  <1>1. IInv /\ SInv /\ [Next]_vars => SInv'
    BY SerialStep
  <1>2. QED BY <1>1, SerialStart, Initially, Stepwise, PTL DEF Spec

-----------------------------------------------------------------------------
(* What a step does to the statuses of the table.                          *)

Same  == \A n \in Refs : rows'[n].status = rows[n].status /\ rows'[n].plan = rows[n].plan
Quiet == \A n \in Refs : said'[n].refunded = said[n].refunded

Change(r, from, to) ==
    /\ rows[r].status = from /\ rows'[r].status = to
    /\ \A n \in Refs \ {r} : rows'[n] = rows[n]

\* A settlement, with the money, or its end, the ledger has to find behind it.
Settles(r) ==
    /\ rows'[r].plan = rows[r].plan
    /\ \/ Change(r, "pending", "paid") /\ (RefundOnly => Charged(r))
       \/ Change(r, "pending", "failed") /\ Dud(rows'[r], r, pays)

\* What a form posted over row r does, and says.
Posted(r) ==
    /\ May("admin")
    /\ rows[r].status # "none" /\ Change(r, rows[r].status, rows'[r].status)
    /\ rows'[r].status # "none"
    /\ rows'[r].plan = rows[r].plan /\ rows[r].plan \notin Complimentary
    /\ RefundOnly => (rows'[r].status = "paid" => Charged(r))
    /\ Dud(rows'[r], r, pays)
    /\ said' = IF rows'[r].status = "refunded" /\ rows[r].status = "paid"
               THEN [said EXCEPT ![r].refunded = More(said[r].refunded)] ELSE said

Moves ==
    \/ Same /\ Quiet
    \/ \E r \in Refs :
          /\ Quiet
          /\ \/ Change(r, "none", "pending") /\ rows'[r].plan \in OnSale
             \/ Change(r, "none", "paid") /\ rows'[r].plan \in Complimentary
             \/ Settles(r)
    \/ \E r \in Refs : Posted(r)

LEMMA SettleMoves ==
  ASSUME IInv, SInv, NEW q \in Reqs, SavePayment(q) \/ SaveSubscription(q)
  PROVE  Moves
  <1> DEFINE r == req[q].ref
  <1>1. req[q].pc \in {"save", "saveSub"} /\ Save(q) /\ said' = said
    BY DEF SavePayment, SaveSubscription
  <1>2. /\ Hand(req[q], rows, pays) /\ r \in Refs /\ Copy(q) = req[q].copies[r]
        /\ Opened(r) /\ rows \in [Refs -> Row] /\ Sound(Copy(q), r)
        /\ Copy(q).status \in {"pending", "paid", "failed"}
        /\ req[q].pc = "saveSub" => Copy(q).status = "paid"
    BY <1>1, HandOf DEF Fits
  <1>3. rows'[r] = Copy(q) /\ \A n \in Refs \ {r} : rows'[n] = rows[n]
    BY <1>1, <1>2 DEF Save
  <1>4. /\ rows[r].status = "pending" /\ Copy(q).plan = rows[r].plan
        /\ req[q].pc = "save" => Dud(Copy(q), r, pays)
    BY <1>1, <1>2 DEF Hand, Settling
  <1>5. Quiet
    BY <1>1 DEF Quiet
  <1>6. CASE Copy(q).status = "pending"
    BY <1>3, <1>4, <1>5, <1>6 DEF Moves, Same
  <1>7. CASE Copy(q).status = "paid"
    <2>1. RefundOnly => Charged(r)
      BY <1>2, <1>4, <1>7 DEF Sound, Bound, Opened
    <2>2. Settles(r)
      BY <1>3, <1>4, <1>7, <2>1 DEF Settles, Change
    <2>3. QED BY <1>2, <1>5, <2>2 DEF Moves
  <1>8. CASE Copy(q).status = "failed"
    <2>1. Settles(r)
      BY <1>1, <1>2, <1>3, <1>4, <1>8 DEF Settles, Change
    <2>2. QED BY <1>2, <1>5, <2>1 DEF Moves
  <1>9. QED BY <1>2, <1>6, <1>7, <1>8

LEMMA SaveFormMoves ==
  ASSUME IInv, SInv, NEW q \in Reqs, SaveForm(q)
  PROVE  Posted(req[q].ref)
  <1> DEFINE r == req[q].ref
  <1>1. /\ req[q].pc = "post" /\ Save(q)
        /\ said' = IF req[q].news THEN [said EXCEPT ![r].refunded = More(said[r].refunded)]
                   ELSE said
    BY DEF SaveForm
  <1>2. /\ r \in Refs /\ rows \in [Refs -> Row] /\ Hand(req[q], rows, pays)
        /\ Copy(q) = req[q].copies[r] /\ Sound(Copy(q), r) /\ Copy(q).status # "none"
    BY <1>1, HandOf DEF Fits
  <1>3. /\ May("admin") /\ rows[r].status # "none" /\ Dud(Copy(q), r, pays)
        /\ Copy(q).plan = rows[r].plan /\ Copy(q).plan \notin Complimentary
        /\ req[q].news <=> Copy(q).status = "refunded" /\ rows[r].status = "paid"
    BY <1>1, <1>2 DEF Hand
  <1>4. rows'[r] = Copy(q) /\ \A n \in Refs \ {r} : rows'[n] = rows[n]
    BY <1>1, <1>2 DEF Save
  <1>5. RefundOnly => (Copy(q).status = "paid" => Charged(r))
    BY <1>2, <1>3 DEF Sound, Bound
  <1>6. QED BY <1>1, <1>2, <1>3, <1>4, <1>5 DEF Posted, Change

\* Everything but a provider's step moves at most one status, as the ledger says.
LEMMA StepMoves ==
  ASSUME IInv, SInv, NEW q \in Reqs, Step(q)
  PROVE  Moves
  <1> DEFINE r == req[q].ref
  <1>1. CASE AnswerPayment(q) \/ AnswerSubscription(q) \/ AnswerCharge(q) \/ AnswerReread(q)
    BY <1>1 DEF AnswerPayment, AnswerSubscription, AnswerCharge, AnswerReread,
                Moves, Same, Quiet
  <1>2. CASE Tell(q)
    <2>1. req[q].pc = "tell" /\ rows' = rows
          /\ said' = [said EXCEPT ![r].paid = More(said[r].paid)]
      BY <1>2 DEF Tell
    <2>2. said \in [Refs -> Said] /\ r \in Refs
      BY <2>1, HandOf DEF IInv, TypeOK
    <2>3. Quiet
      BY <2>1, <2>2 DEF Quiet, Said
    <2>4. QED BY <2>1, <2>3 DEF Moves, Same
  <1>3. CASE OpenCheckout(q)
    <2>1. req[q].pc = "open" /\ Save(q) /\ said' = said
      BY <1>3 DEF OpenCheckout
    <2>2. /\ r \in Refs /\ rows \in [Refs -> Row] /\ Hand(req[q], rows, pays)
          /\ Copy(q).status = "pending" /\ Copy(q).plan \in OnSale
      BY <2>1, HandOf DEF Fits
    <2>3. rows[r].status = "none"
      BY <2>1, <2>2 DEF Hand
    <2>4. rows'[r] = Copy(q) /\ \A n \in Refs \ {r} : rows'[n] = rows[n]
      BY <2>1, <2>2 DEF Save
    <2>5. QED BY <2>1, <2>2, <2>3, <2>4 DEF Moves, Change, Quiet
  <1>4. CASE SavePayment(q) \/ SaveSubscription(q)
    BY <1>4, SettleMoves
  <1>5. CASE SaveReread(q)
    <2>1. /\ req[q].pc = "resave" /\ Save(q)
          /\ said' = IF req[q].news THEN [said EXCEPT ![r].stopped = More(said[r].stopped)]
                     ELSE said
      BY <1>5 DEF SaveReread
    <2>2. /\ r \in Refs /\ rows \in [Refs -> Row] /\ Hand(req[q], rows, pays)
          /\ Copy(q) = req[q].copies[r] /\ Copy(q).status = "paid" /\ said \in [Refs -> Said]
      BY <2>1, HandOf DEF IInv, TypeOK, Fits
    <2>3. Agrees(req[q].copies, r, rows)
      BY <2>1, <2>2 DEF Hand, Rereading
    <2>4. rows'[r] = Copy(q) /\ \A n \in Refs \ {r} : rows'[n] = rows[n]
      BY <2>1, <2>2 DEF Save
    <2>5. Same
      BY <2>2, <2>3, <2>4 DEF Same, Agrees
    <2>6. Quiet
      BY <2>1, <2>2 DEF Quiet, Said
    <2>7. QED BY <2>5, <2>6 DEF Moves
  <1>6. CASE RereadFails(q)
    <2>1. /\ req[q].pc = "reread" /\ said' = said
          /\ rows' = [rows EXCEPT ![r].checked = Copy(q).checked]
      BY <1>6 DEF RereadFails
    <2>2. r \in Refs /\ rows \in [Refs -> Row]
      BY <2>1, HandOf
    <2>3. Same
      BY <2>1, <2>2 DEF Same, Row
    <2>4. QED BY <2>1, <2>3 DEF Moves, Quiet
  <1>7. CASE SaveForm(q)
    <2>1. r \in Refs
      BY <1>7, HandOf DEF SaveForm
    <2>2. QED BY <1>7, <2>1, SaveFormMoves DEF Moves
  <1>8. QED BY <1>1, <1>2, <1>3, <1>4, <1>5, <1>6, <1>7 DEF Step

LEMMA NextMoves ==
  ASSUME IInv, SInv, [Next]_vars
  PROVE  Moves
  <1>1. CASE UNCHANGED <<rows, said>>
    BY <1>1 DEF Moves, Same, Quiet
  <1>2. ASSUME NEW r \in Refs, Revoke(r) PROVE Moves
    <2>1. rows' = [rows EXCEPT ![r].expires = now] /\ said' = said
      BY <1>2 DEF Revoke
    <2>2. Same
      BY <2>1, InTypes DEF Same, Row
    <2>3. QED BY <2>1, <2>2 DEF Moves, Quiet
  <1>3. ASSUME NEW r \in Refs, NEW plan \in Complimentary, Grant(r, plan) PROVE Moves
    <2> DEFINE row == [Blank EXCEPT !.plan = plan, !.status = "paid",
                           !.expires = IF Days(plan) = None THEN None ELSE now + Days(plan)]
    <2>1. rows' = [rows EXCEPT ![r] = row] /\ said' = said /\ rows[r].status = "none"
      BY <1>3 DEF Grant, Fresh
    <2>2. row.status = "paid" /\ row.plan = plan
      BY DEF Blank
    <2> HIDE DEF row
    <2>3. rows'[r] = row /\ \A n \in Refs \ {r} : rows'[n] = rows[n]
      BY <2>1, InTypes
    <2>4. QED BY <2>1, <2>2, <2>3 DEF Moves, Change, Quiet
  <1>4. ASSUME NEW q \in Reqs, Begin(q) \/ Abandon(q) PROVE Moves
    BY <1>1, <1>4 DEF Begin, BeginStart, BeginSettle, BeginCatchUp, BeginPortal, BeginLoop,
                      PostForm, Abandon
  <1>5. CASE \E r \in Refs : OpenForm(r)
    BY <1>1, <1>5 DEF OpenForm
  <1>6. CASE \E u \in Users : Visit(u)
    BY <1>1, <1>6 DEF Visit
  <1>7. QED BY <1>1, <1>2, <1>3, <1>4, <1>5, <1>6, StepMoves DEF Next, vars

\* One request at a time, the channel hears of a refund on the save that flips
\* a paid row and on no other, whatever a form showed when it was opened and
\* whatever became of the row before it was posted (PurchaseAdmin.save_model).
THEOREM RefundIsSaid ==
  ASSUME Alone
  PROVE  Spec => RefundSaidOnFlip
  <1> DEFINE OnFlip(r) ==
               LET flips == rows[r].status = "paid" /\ rows'[r].status = "refunded"
               IN  /\ said'[r].refunded # said[r].refunded => flips
                   /\ flips /\ said[r].refunded < SaidMax
                        => said'[r].refunded = said[r].refunded + 1
  <1>1. ASSUME IInv, SInv, [Next]_vars, NEW c \in Refs PROVE OnFlip(c)
    <2>1. Moves
      BY <1>1, NextMoves
    <2>2. said \in [Refs -> Said]
      BY <1>1 DEF IInv, TypeOK
    <2>3. CASE Same /\ Quiet
      BY <2>3 DEF Same, Quiet
    <2>4. ASSUME NEW r \in Refs, Quiet,
                 \/ Change(r, "none", "pending") \/ Change(r, "none", "paid")
                 \/ Settles(r)
          PROVE  OnFlip(c)
      BY <2>4 DEF Settles, Change, Quiet
    <2>5. ASSUME NEW r \in Refs, Posted(r) PROVE OnFlip(c)
      <3>1. \A n \in Refs \ {r} : rows'[n] = rows[n]
        BY <2>5 DEF Posted, Change
      <3>2. CASE rows'[r].status = "refunded" /\ rows[r].status = "paid"
        <4>1. said'[r].refunded = More(said[r].refunded)
              /\ (c # r => said'[c] = said[c])
          BY <2>2, <2>5, <3>2 DEF Posted, Said
        <4>2. QED BY <3>1, <3>2, <4>1 DEF More
      <3>3. CASE ~(rows'[r].status = "refunded" /\ rows[r].status = "paid")
        BY <2>5, <3>1, <3>3 DEF Posted
      <3>4. QED BY <3>2, <3>3
    <2>6. QED BY <2>1, <2>3, <2>4, <2>5 DEF Moves
  <1>2. IInv /\ SInv /\ [Next]_vars => [\A r \in Refs : OnFlip(r)]_vars
    BY <1>1
  <1>3. QED BY <1>2, SerialInvariance, PTL DEF Spec, RefundSaidOnFlip
-----------------------------------------------------------------------------
(* The ledger.                                                             *)

LEMMA LedgerStart == Init => Promise!Init
  <1> SUFFICES ASSUME Init PROVE Promise!Init
    OBVIOUS
  <1>1. \A r \in Refs : rows[r] = Blank /\ ~Charged(r)
    <2>1. rows = [r \in Refs |-> Blank] /\ pays = [p \in PayIds |-> "none"]
      BY DEF Init, ProviderInit
    <2>2. \A r \in Refs, n \in 1 .. Attempts : <<r, n>> \in PayIds
      BY DEF PayIds
    <2>3. QED BY <2>1, <2>2 DEF Charged
  <1>2. Blank.status = "none" /\ Blank.plan \notin Complimentary
    BY DEF Blank, Plans
  <1>3. QED BY <1>1, <1>2 DEF Promise!Init

Money == {r \in Refs : Charged(r)}
Given == {r \in Refs : rows[r].plan \in Complimentary}
State == [r \in Refs |-> rows[r].status]

\* A session that takes money is one that was sold.
LEMMA ProviderLedger ==
  ASSUME IInv, SInv, ProviderNext, UNCHANGED rows
  PROVE  Money' = Money \/ \E r \in Refs : /\ Money' = Money \cup {r}
                                           /\ rows[r].status # "none" /\ r \notin Given
  <1>1. pays \in [PayIds -> PayWords]
    BY DEF IInv, TypeOK, ProviderTypeOK
  <1>2. ASSUME NEW r \in Refs, NEW n \in 1 .. Attempts, NEW w, SetPayment(<<r, n>>, w),
               sessions[r] # None, pays[<<r, n>>] # "succeeded"
        PROVE  Money' = Money \/ (/\ Money' = Money \cup {r}
                                  /\ rows[r].status # "none" /\ r \notin Given)
    <2>1. pays' = [pays EXCEPT ![<<r, n>>] = w] /\ <<r, n>> \in PayIds
      BY <1>2 DEF SetPayment, PayIds
    <2>2. \A c \in Refs, m \in 1 .. Attempts : <<c, m>> \in PayIds
      BY DEF PayIds
    <2>3. \A c \in Refs \ {r} : Charged(c)' <=> Charged(c)
      BY <1>1, <2>1, <2>2 DEF Charged
    <2>4. Charged(r) => Charged(r)'
      BY <1>1, <1>2, <2>1, <2>2 DEF Charged
    <2>5. rows[r].status # "none" /\ r \notin Given
      BY <1>2 DEF SInv, Opened, Given
    <2>6. CASE Charged(r)' <=> Charged(r)
      BY <2>3, <2>6 DEF Money
    <2>7. CASE ~(Charged(r)' <=> Charged(r))
      BY <2>3, <2>4, <2>5, <2>7 DEF Money
    <2>8. QED BY <2>6, <2>7
  <1>3. CASE \E r \in Refs, n \in 1 .. Attempts : Attempt(r, n) \/ Clear(r, n)
    <2>1. PICK r \in Refs, n \in 1 .. Attempts : Attempt(r, n) \/ Clear(r, n)
      BY <1>3
    <2>2. Opened(r)
      BY DEF SInv
    <2>3. \E w : SetPayment(<<r, n>>, w)
      BY <2>1 DEF Attempt, Clear
    <2>4. sessions[r] # None /\ pays[<<r, n>>] # "succeeded"
      BY <2>1, <2>2 DEF Attempt, Clear, Opened
    <2>5. QED BY <1>2, <2>3, <2>4
  <1>4. CASE \E r \in Refs : Renew(r) \/ Hold(r) \/ Stop(r) \/ End(r)
    <2>1. PICK r \in Refs : pays' = pays \/ pays' = [pays EXCEPT ![<<r, 0>>] = "succeeded"]
      BY <1>4 DEF Renew, Hold, Stop, End
    <2>2. \A c \in Refs, m \in 1 .. Attempts : <<c, m>> \in PayIds /\ <<c, m>> # <<r, 0>>
      BY DEF PayIds
    <2>3. \A c \in Refs, m \in 1 .. Attempts : pays'[<<c, m>>] = pays[<<c, m>>]
      BY <1>1, <2>1, <2>2
    <2>4. QED BY <2>3 DEF Money, Charged
  <1>5. CASE Tick
    BY <1>5 DEF Tick, Money, Charged
  <1>6. QED BY <1>3, <1>4, <1>5 DEF ProviderNext

\* A form posted over a row that was sold: a refund, an undoing, or what a
\* form opened before the row moved puts back.
LEMMA PostedLedger ==
  ASSUME Attempts = 1, RefundOnly, IInv, IInv', SInv, NEW r \in Refs, Posted(r), UNCHANGED Money
  PROVE  [Promise!Next]_(Promise!ledger)
  <1> USE DEF Money, Given, State
  <1> DEFINE from == rows[r].status
             to   == rows'[r].status
  <1>1. Given' = Given /\ r \notin Given
    BY DEF Posted, Change
  <1>2. State[r] = from /\ State' = [State EXCEPT ![r] = to]
    BY DEF Posted, Change
  <1>3. /\ from \in {"pending", "paid", "failed", "refunded"}
        /\ to \in {"pending", "paid", "failed", "refunded"}
    BY InTypes DEF IInv, TypeOK, Row, Statuses, Posted
  <1>4. (to = "paid" => r \in Money) /\ (from = "paid" => r \in Money)
    BY DEF Posted, IInv, Sound, Bound
  <1>5. (to = "failed" => r \notin Money) /\ (from = "failed" => r \notin Money)
    BY DEF Posted, Dud, SInv, Opened, Charged
  <1>6. CASE to = from
    <2>1. State' = State
      BY <1>2, <1>6
    <2>2. QED BY <1>1, <2>1 DEF Promise!ledger
  <1>7. CASE to = "refunded" /\ from # "refunded"
    <2>1. Promise!Refund(r)
      BY <1>1, <1>2, <1>3, <1>7 DEF Promise!Refund, Promise!Sold, Promise!Move
    <2>2. QED BY <2>1 DEF Promise!Next
  <1>8. CASE to = "pending" /\ from # "pending"
    <2>1. Promise!Undo(r)
      BY <1>1, <1>2, <1>3, <1>8 DEF Promise!Undo, Promise!Sold, Promise!Move
    <2>2. QED BY <2>1 DEF Promise!Next
  <1>9. CASE to = "paid" /\ from # "paid"
    <2>1. CASE from = "pending"
      <3>1. Promise!Settle(r)
        BY <1>1, <1>2, <1>4, <1>9, <2>1 DEF Promise!Settle, Promise!Move
      <3>2. QED BY <3>1 DEF Promise!Next
    <2>2. CASE from = "refunded"
      <3>1. Promise!Restore(r)
        BY <1>1, <1>2, <1>4, <1>9, <2>2 DEF Promise!Restore, Promise!Sold, Promise!Move
      <3>2. QED BY <3>1 DEF Promise!Next
    <2>3. QED BY <1>3, <1>4, <1>5, <1>9, <2>1, <2>2
  <1>10. CASE to = "failed" /\ from # "failed"
    <2>1. CASE from = "pending"
      <3>1. Promise!Fail(r)
        BY <1>1, <1>2, <1>5, <1>10, <2>1 DEF Promise!Fail, Promise!Move
      <3>2. QED BY <3>1 DEF Promise!Next
    <2>2. CASE from = "refunded"
      <3>1. Promise!Restore(r)
        BY <1>1, <1>2, <1>5, <1>10, <2>2 DEF Promise!Restore, Promise!Sold, Promise!Move
      <3>2. QED BY <3>1 DEF Promise!Next
    <2>3. QED BY <1>3, <1>4, <1>5, <1>10, <2>1, <2>2
  <1>11. QED BY <1>3, <1>6, <1>7, <1>8, <1>9, <1>10

\* The table's own moves, read as the ledger's.
LEMMA MovesLedger ==
  ASSUME Attempts = 1, RefundOnly, IInv, IInv', SInv, Moves, UNCHANGED pays
  PROVE  [Promise!Next]_(Promise!ledger)
  <1> USE DEF Money, Given, State
  <1>1. Money' = Money
    BY DEF Charged
  <1>2. CASE Same
    <2>1. State' = State /\ Given' = Given
      BY <1>2 DEF Same
    <2>2. QED BY <1>1, <2>1 DEF Promise!ledger
  <1>3. ASSUME NEW r \in Refs, NEW from, NEW to, Change(r, from, to)
        PROVE  /\ State[r] = from /\ State' = [State EXCEPT ![r] = to]
               /\ rows'[r].plan = rows[r].plan => Given' = Given
    BY <1>3 DEF Change
  <1>4. ASSUME NEW r \in Refs, Change(r, "none", "pending"), rows'[r].plan \in OnSale
        PROVE  [Promise!Next]_(Promise!ledger)
    <2>1. rows[r].plan = None
      BY <1>4 DEF Change, SInv, Opened
    <2>2. rows[r].plan \notin Complimentary /\ rows'[r].plan \notin Complimentary
      BY <1>4, <2>1 DEF Plans, Complimentary, Subscription, OneTime
    <2>3. Given' = Given
      BY <1>4, <2>2 DEF Change
    <2>4. Promise!Open(r)
      BY <1>1, <1>3, <1>4, <2>3 DEF Promise!Open, Promise!Move
    <2>5. QED BY <2>4 DEF Promise!Next
  <1>5. ASSUME NEW r \in Refs, Change(r, "none", "paid"), rows'[r].plan \in Complimentary
        PROVE  [Promise!Next]_(Promise!ledger)
    <2>1. Given' = Given \cup {r}
      BY <1>5 DEF Change
    <2>2. Promise!Give(r)
      BY <1>1, <1>3, <1>5, <2>1 DEF Promise!Give, Promise!Move
    <2>3. QED BY <2>2 DEF Promise!Next
  <1>6. ASSUME NEW r \in Refs, Change(r, "pending", "paid"), rows'[r].plan = rows[r].plan,
               Charged(r)
        PROVE  [Promise!Next]_(Promise!ledger)
    <2>1. Promise!Settle(r)
      BY <1>1, <1>3, <1>6 DEF Promise!Settle, Promise!Move
    <2>2. QED BY <2>1 DEF Promise!Next
  <1>7. ASSUME NEW r \in Refs, Change(r, "pending", "failed"), rows'[r].plan = rows[r].plan,
               \E n \in 1 .. Attempts : pays[<<r, n>>] = "failed"
        PROVE  [Promise!Next]_(Promise!ledger)
    <2>1. r \notin Money
      BY <1>7 DEF Charged
    <2>2. Promise!Fail(r)
      BY <1>1, <1>3, <1>7, <2>1 DEF Promise!Fail, Promise!Move
    <2>3. QED BY <2>2 DEF Promise!Next
  <1>8. ASSUME NEW r \in Refs, Settles(r)
        PROVE  [Promise!Next]_(Promise!ledger)
    BY <1>6, <1>7, <1>8 DEF Settles, Change, Dud
  <1>9. ASSUME NEW r \in Refs, Posted(r)
        PROVE  [Promise!Next]_(Promise!ledger)
    BY <1>1, <1>9, PostedLedger
  <1>10. QED BY <1>2, <1>4, <1>5, <1>8, <1>9 DEF Moves

LEMMA LedgerStep ==
  ASSUME Attempts = 1, RefundOnly, IInv, SInv, [Next]_vars
  PROVE  [Promise!Next]_(Promise!ledger)
  <1>1. CASE ProviderNext /\ UNCHANGED rows
    <2>1. State' = State /\ Given' = Given
      BY <1>1 DEF State, Given
    <2>2. CASE Money' = Money
      BY <2>1, <2>2 DEF Promise!ledger, State, Given, Money
    <2>3. ASSUME NEW r \in Refs, Money' = Money \cup {r}, rows[r].status # "none",
                 r \notin Given
          PROVE  [Promise!Next]_(Promise!ledger)
      <3>1. Promise!Take(r)
        BY <2>1, <2>3 DEF Promise!Take, State, Given, Money
      <3>2. QED BY <3>1 DEF Promise!Next
    <2>4. QED BY <1>1, <2>2, <2>3, ProviderLedger
  <1>2. CASE ~(ProviderNext /\ UNCHANGED rows)
    <2>1. UNCHANGED pays
      BY <1>2 DEF Next, vars, provider, desk, Begin, BeginStart, BeginSettle, BeginCatchUp,
                  BeginPortal, BeginLoop, PostForm, Step, OpenCheckout, AnswerPayment,
                  SavePayment, AnswerSubscription, AnswerCharge, SaveSubscription, Tell,
                  AnswerReread, SaveReread, RereadFails, SaveForm, Abandon, OpenForm,
                  Revoke, Grant, Visit
    <2>2. IInv'
      BY Stepwise
    <2>3. QED BY <2>1, <2>2, NextMoves, MovesLedger
  <1>3. QED BY <1>1, <1>2

\* One request at a time, one payment to a session and no status but "refunded"
\* set by hand, every step of the table is a step of the ledger or none, the
\* save of a form opened long before included (models.Purchase).
THEOREM LedgerIsKept ==
  ASSUME Alone, Attempts = 1, RefundOnly
  PROVE  Spec => KeepsLedger
  <1>1. IInv /\ SInv /\ [Next]_vars => [Promise!Next]_(Promise!ledger)
    BY LedgerStep
  <1>2. QED BY <1>1, LedgerStart, SerialInvariance, PTL DEF Spec, KeepsLedger, Promise!Spec
-----------------------------------------------------------------------------
(* Re-reads: what is loaded before a call is still so when it is saved.    *)

\* A step away from any re-read, but for a worker that dies in one: what a
\* paid row says of its time is left alone.
Elsewhere ==
    /\ UNCHANGED asked
    /\ \A r \in Refs :
          rows[r].status = "paid" /\ rows'[r].status = "paid" =>
              /\ rows'[r].checked = rows[r].checked /\ rows'[r].plan = rows[r].plan
              /\ Recurring(rows[r].plan) => rows'[r].expires = rows[r].expires
    /\ \A q \in Reqs :
          \/ req'[q] = req[q]
          \/ /\ req'[q].pc \notin Rereading
             /\ Deaths \cap Rereading = {} => req[q].pc \notin Rereading

\* A step that asks about a subscription, or saves what was answered.
Rereads(q) ==
    \/ \E job \in AllJobs, due \in SUBSET Refs :
          /\ \A n \in due : Loadable(rows[n])
          /\ job = "catchup" => \E u \in Users : due = Due(rows, u, now)
          /\ BeginLoop(q, job, due)
    \/ /\ SavePayment(q) /\ Copy(q).status = "paid"
       /\ Becomes(q, Reread(req[q], req[q].ref))
       /\ asked' = [asked EXCEPT ![req[q].ref] = now]
    \/ AnswerReread(q) \/ SaveReread(q) \/ RereadFails(q)

\* The one worker goes on as x, away from any re-read.
LEMMA WorkerElsewhere ==
  ASSUME Alone, IInv, UNCHANGED asked, NEW q \in Reqs, NEW x, Becomes(q, x),
         x.pc \notin Rereading, Deaths \cap Rereading = {} => req[q].pc \notin Rereading,
         \A r \in Refs : rows[r].status = "paid" /\ rows'[r].status = "paid"
                            => rows'[r] = rows[r]
  PROVE  Elsewhere
  <1>1. \A p \in Reqs : p = q /\ req'[p] = x
    BY InTypes DEF Alone, Becomes
  <1>2. QED BY <1>1 DEF Elsewhere

\* A save over a row that was not paid, or by which it is no longer.
LEMMA SaveElsewhere ==
  ASSUME IInv, NEW q \in Reqs, req[q].pc # "idle", Save(q),
         rows[req[q].ref].status # "paid" \/ Copy(q).status # "paid",
         NEW r \in Refs, rows[r].status = "paid", rows'[r].status = "paid"
  PROVE  rows'[r] = rows[r]
  BY CopyOK, InTypes DEF Save

LEMMA BeginElsewhere ==
  ASSUME Alone, "admin" \notin Jobs, IInv, SInv, NEW q \in Reqs, Begin(q)
  PROVE  Elsewhere \/ Rereads(q)
  <1>1. req[q].pc \notin Rereading /\ UNCHANGED rows
    BY DEF Begin, BeginStart, BeginSettle, BeginCatchUp, BeginPortal, BeginLoop,
           PostForm, Rereading
  <1>2. ASSUME NEW r \in Refs, NEW plan \in OnSale, BeginStart(q, r, plan) PROVE Elsewhere
    <2> DEFINE row == [Blank EXCEPT !.plan = plan, !.status = "pending"]
               x == [Idle EXCEPT !.pc = "open", !.job = "start", !.ref = r,
                                 !.copies = [Idle.copies EXCEPT ![r] = row]]
    <2>1. Becomes(q, x) /\ UNCHANGED asked
      BY <1>2 DEF BeginStart, Idle
    <2>2. x.pc = "open"
      BY DEF Idle
    <2> HIDE DEF x
    <2>3. QED BY <1>1, <2>1, <2>2, WorkerElsewhere DEF Rereading
  <1>3. ASSUME NEW r \in Refs, NEW u \in Urls, BeginSettle(q, r, u) PROVE Elsewhere
    <2> DEFINE x == [Idle EXCEPT !.pc = IF u.pay # None THEN "pay" ELSE "sub",
                                 !.job = "settle", !.ref = r, !.url = u,
                                 !.copies = [Idle.copies EXCEPT ![r] = rows[r]]]
    <2>1. Becomes(q, x) /\ UNCHANGED asked
      BY <1>3 DEF BeginSettle, Idle
    <2>2. x.pc \in {"pay", "sub"}
      BY DEF Idle
    <2> HIDE DEF x
    <2>3. QED BY <1>1, <2>1, <2>2, WorkerElsewhere DEF Rereading
  <1>4. ASSUME NEW status, PostForm(q, status) PROVE FALSE
    BY <1>4 DEF PostForm, SInv, Desk, May
  <1>5. ASSUME NEW u \in Users, BeginCatchUp(q, u) PROVE Rereads(q)
    <2>1. /\ Due(rows, u, now) \in SUBSET Refs
          /\ \A n \in Due(rows, u, now) : Loadable(rows[n])
      BY DEF Due, PaidRows, Loadable
    <2>2. BeginLoop(q, "catchup", Due(rows, u, now))
      BY <1>5 DEF BeginCatchUp
    <2>3. QED BY <2>1, <2>2 DEF Rereads, AllJobs
  <1>6. ASSUME NEW u \in Users, BeginPortal(q, u) PROVE Rereads(q)
    <2> DEFINE due == {r \in PaidRows(rows, u) : rows[r].sub # None}
    <2>1. due \in SUBSET Refs /\ \A n \in due : Loadable(rows[n])
      BY DEF PaidRows, Loadable
    <2>2. BeginLoop(q, "portal", due)
      BY <1>6 DEF BeginPortal
    <2> HIDE DEF due
    <2>3. QED BY <2>1, <2>2 DEF Rereads, AllJobs
  <1>7. QED BY <1>2, <1>3, <1>4, <1>5, <1>6 DEF Begin

LEMMA StepElsewhere ==
  ASSUME Alone, "admin" \notin Jobs, IInv, SInv, NEW q \in Reqs, Step(q)
  PROVE  Elsewhere \/ Rereads(q)
  <1>0. ~SaveForm(q)
    BY HandOf DEF SaveForm, Hand, May
  <1>1. ASSUME OpenCheckout(q) PROVE Elsewhere
    <2>1. /\ req[q].pc = "open" /\ Save(q) /\ Becomes(q, Idle) /\ UNCHANGED asked
      BY <1>1 DEF OpenCheckout, Finish
    <2>2. rows[req[q].ref].status # "paid" \/ Copy(q).status # "paid"
      BY <2>1, HandOf DEF Hand
    <2>3. QED BY <2>1, <2>2, SaveElsewhere, WorkerElsewhere DEF Rereading, Idle
  <1>2. ASSUME SavePayment(q) \/ SaveSubscription(q), ~Rereads(q) PROVE Elsewhere
    <2> DEFINE y == At(q, "tell", Copy(q))
    <2>1. /\ req[q].pc \in {"save", "saveSub"} /\ Save(q) /\ UNCHANGED asked
          /\ Becomes(q, Idle) \/ Becomes(q, y)
      BY <1>2 DEF SavePayment, SaveSubscription, Finish, Rereads
    <2>2. rows[req[q].ref].status = "pending"
      BY <2>1, HandOf DEF Hand, Settling
    <2>3. y.pc = "tell"
      BY <2>1, AtFields
    <2> HIDE DEF y
    <2>4. Idle.pc \notin Rereading /\ y.pc \notin Rereading /\ req[q].pc \notin Rereading
      BY <2>1, <2>3 DEF Idle, Rereading
    <2>5. QED BY <2>1, <2>2, <2>4, SaveElsewhere, WorkerElsewhere
  <1>3. ASSUME NEW pc \in {"save", "charge", "saveSub"}, NEW copy, req[q].pc # "idle",
               req[q].pc \notin Rereading, Becomes(q, At(q, pc, copy)), UNCHANGED <<rows, asked>>
        PROVE  Elsewhere
    <2>1. At(q, pc, copy).pc = pc
      BY <1>3, AtFields
    <2>2. QED BY <1>3, <2>1, WorkerElsewhere DEF Rereading
  <1>4. ASSUME req[q].pc \notin Rereading, Becomes(q, Idle), UNCHANGED <<rows, asked>>
        PROVE  Elsewhere
    BY <1>4, WorkerElsewhere DEF Idle, Rereading
  <1>5. CASE AnswerPayment(q)
    <2>1. req[q].pc = "pay" /\ UNCHANGED <<rows, asked>>
      BY <1>5 DEF AnswerPayment
    <2>2. Becomes(q, Idle) \/ \E copy : Becomes(q, At(q, "save", copy))
      BY <1>5 DEF AnswerPayment, Finish
    <2>3. QED BY <1>3, <1>4, <2>1, <2>2 DEF Rereading
  <1>6. CASE AnswerSubscription(q)
    <2>1. req[q].pc = "sub" /\ UNCHANGED <<rows, asked>>
      BY <1>6 DEF AnswerSubscription
    <2>2. Becomes(q, Idle) \/ \E copy : Becomes(q, At(q, "charge", copy))
      BY <1>6 DEF AnswerSubscription, Finish
    <2>3. QED BY <1>3, <1>4, <2>1, <2>2 DEF Rereading
  <1>7. CASE AnswerCharge(q)
    <2>1. req[q].pc = "charge" /\ UNCHANGED <<rows, asked>>
      BY <1>7 DEF AnswerCharge
    <2>2. \E copy : Becomes(q, At(q, "saveSub", copy))
      BY <1>7 DEF AnswerCharge
    <2>3. QED BY <1>3, <2>1, <2>2 DEF Rereading
  <1>8. CASE Tell(q)
    BY <1>4, <1>8 DEF Tell, Finish, Rereading
  <1>9. QED BY <1>0, <1>1, <1>2, <1>5, <1>6, <1>7, <1>8 DEF Step, Rereads

LEMMA NextElsewhere ==
  ASSUME Alone, "admin" \notin Jobs, IInv, SInv, [Next]_vars
  PROVE  Elsewhere \/ \E q \in Reqs : Rereads(q)
  <1>1. CASE UNCHANGED <<rows, req, asked>>
    BY <1>1 DEF Elsewhere
  <1>2. ASSUME NEW q \in Reqs, Abandon(q) PROVE Elsewhere
    <2>1. /\ Becomes(q, Idle) /\ UNCHANGED <<rows, asked>>
          /\ Deaths \cap Rereading = {} => req[q].pc \notin Rereading
      BY <1>2 DEF Abandon, Finish, Waiting, Rereading
    <2>2. QED BY <2>1, WorkerElsewhere DEF Idle, Rereading
  <1>3. ASSUME NEW r \in Refs, Revoke(r) \/ \E plan \in Complimentary : Grant(r, plan)
        PROVE  Elsewhere
    <2>1. UNCHANGED <<req, asked>> /\ rows \in [Refs -> Row]
      BY <1>3, InTypes DEF Revoke, Grant
    <2>2. CASE Revoke(r)
      <3>1. rows' = [rows EXCEPT ![r].expires = now] /\ rows[r].plan \in Complimentary
        BY <2>2 DEF Revoke
      <3>2. ~Recurring(rows[r].plan)
        BY <3>1 DEF Recurring, Subscription, Complimentary
      <3>3. \A n \in Refs : /\ rows'[n].checked = rows[n].checked
                            /\ rows'[n].plan = rows[n].plan
                            /\ n # r => rows'[n] = rows[n]
        BY <2>1, <3>1 DEF Row
      <3>4. QED BY <2>1, <3>2, <3>3 DEF Elsewhere
    <2>3. CASE \E plan \in Complimentary : Grant(r, plan)
      <3>1. rows[r].status = "none" /\ \A n \in Refs \ {r} : rows'[n] = rows[n]
        BY <2>1, <2>3 DEF Grant, Fresh
      <3>2. QED BY <2>1, <3>1 DEF Elsewhere
    <2>4. QED BY <1>3, <2>2, <2>3
  <1>4. \/ UNCHANGED <<rows, req, asked>>
        \/ \E q \in Reqs : Begin(q) \/ Step(q) \/ Abandon(q)
        \/ \E r \in Refs : Revoke(r) \/ \E plan \in Complimentary : Grant(r, plan)
    BY DEF Next, vars, Visit, OpenForm
  <1>5. QED BY <1>1, <1>2, <1>3, <1>4, BeginElsewhere, StepElsewhere

\* The loop of a request turns to row n: what its fields then are.
LEMMA RereadFields ==
  ASSUME IInv, NEW y \in Request, NEW n \in Refs
  PROVE  LET x == Reread(y, n)
         IN  /\ x.pc = "reread" /\ x.ref = n /\ x.job = y.job /\ x.todo = y.todo \ {n}
             /\ x.copies[n].checked = now /\ x.copies[n].expires = y.copies[n].expires
             /\ \A m \in x.todo : x.copies[m] = y.copies[m]
  <1> DEFINE x == Reread(y, n)
             z == [y.copies[n] EXCEPT !.checked = now]
  <1>1. /\ x.pc = "reread" /\ x.ref = n /\ x.job = y.job /\ x.todo = y.todo \ {n}
        /\ x.copies = [c \in Refs |->
               IF c = n THEN z ELSE IF c \in y.todo THEN y.copies[c] ELSE Blank]
    BY DEF Reread, Request
  <1>2. y.copies[n] \in Row /\ y.todo \subseteq Refs
    BY DEF Request
  <1>3. z.checked = now /\ z.expires = y.copies[n].expires
    BY <1>2 DEF Row
  <1> HIDE DEF x, z
  <1>4. QED BY <1>1, <1>2, <1>3 DEF x

\* What an answer leaves in the worker's hands.
LEMMA AnswerFields ==
  ASSUME IInv, NEW q \in Reqs, AnswerReread(q)
  PROVE  \E x : /\ Becomes(q, x) /\ UNCHANGED <<rows, subs, now, asked>>
                /\ req[q].pc = "reread" /\ x.pc = "resave"
                /\ x.ref = req[q].ref /\ x.job = req[q].job /\ x.todo = req[q].todo
                /\ \A n \in Refs \ {x.ref} : x.copies[n] = req[q].copies[n]
                /\ x.copies[x.ref].checked = Copy(q).checked
                /\ DatesTold => x.copies[x.ref].expires
                                   \in {Copy(q).expires, subs[Copy(q).sub].next + Grace}
  <1> DEFINE r    == req[q].ref
             row  == Copy(q)
             live == subs[row.sub]
  <1>1. req[q].pc = "reread" /\ UNCHANGED <<rows, subs, now, asked>>
    BY DEF AnswerReread, provider
  <1>2. PICK knows \in BOOLEAN, dated \in Told("next") :
           Becomes(q, [At(q, "resave", Refreshed(row, live, dated, knows))
                          EXCEPT !.news = NowStopping(row, live)])
    BY DEF AnswerReread, Told
  <1> DEFINE copy == Refreshed(row, live, dated, knows)
             y    == At(q, "resave", copy)
             news == NowStopping(row, live)
             x    == [y EXCEPT !.news = news]
  <1>3. r \in Refs /\ row \in Row
    BY <1>1, CopyOK DEF Copy
  <1>4. /\ copy.checked = row.checked
        /\ DatesTold => copy.expires \in {row.expires, subs[row.sub].next + Grace}
    BY <1>3 DEF Refreshed, Expiry, Row, DatesTold, Told
  <1>5. Becomes(q, x)
    BY <1>2
  <1> HIDE DEF copy, news
  <1>6. /\ y.pc = "resave" /\ y.ref = r /\ y.job = req[q].job /\ y.todo = req[q].todo
        /\ y.copies[r] = copy /\ \A n \in Refs \ {r} : y.copies[n] = req[q].copies[n]
    BY <1>1, AtFields
  <1>7. /\ x.pc = y.pc /\ x.ref = y.ref /\ x.job = y.job /\ x.todo = y.todo
        /\ x.copies = y.copies
    OBVIOUS
  <1> HIDE DEF x, y
  <1>8. QED BY <1>1, <1>4, <1>5, <1>6, <1>7

\* What the save at the end of a re-read writes, and where the worker goes on.
LEMMA SaveFields ==
  ASSUME IInv, SInv, NEW q \in Reqs, SaveReread(q) \/ RereadFails(q)
  PROVE  LET r == req[q].ref
         IN  /\ req[q].pc \in Rereading /\ AfterRefresh(q) /\ now' = now
             /\ r \in Refs /\ r \notin req[q].todo
             /\ rows[r].status = "paid" /\ rows'[r].status = "paid"
             /\ \A n \in Refs \ {r} : rows'[n] = rows[n]
             /\ rows'[r].checked = Copy(q).checked
             /\ rows'[r].expires \in {rows[r].expires, Copy(q).expires}
  <1> DEFINE r   == req[q].ref
             row == [rows[r] EXCEPT !.checked = Copy(q).checked]
  <1>1. req[q].pc \in Rereading /\ AfterRefresh(q) /\ now' = now
    BY DEF SaveReread, RereadFails, Rereading, provider
  <1>2. req[q].pc # "idle"
    BY <1>1 DEF Rereading
  <1>3. /\ Hand(req[q], rows, pays) /\ r \in Refs /\ rows \in [Refs -> Row]
        /\ rows[r] \in Row /\ Copy(q) = req[q].copies[r] /\ ReqInv(req[q])
    BY <1>2, HandOf, CopyOK
  <1>4. Agrees(req[q].copies, r, rows) /\ r \notin req[q].todo
    BY <1>1, <1>3 DEF Hand, Rereading, ReqInv
  <1>5. CASE SaveReread(q)
    <2>1. rows' = [rows EXCEPT ![r] = Copy(q)]
      BY <1>5 DEF SaveReread, Save
    <2>2. Copy(q).status = "paid"
      BY <1>1, <1>2, HandOf DEF Fits, Rereading
    <2>3. QED BY <1>1, <1>3, <1>4, <2>1, <2>2 DEF Agrees
  <1>6. CASE RereadFails(q)
    <2>1. rows' = [rows EXCEPT ![r] = row]
      BY <1>3, <1>6 DEF RereadFails
    <2>2. /\ row.checked = Copy(q).checked /\ row.expires = rows[r].expires
          /\ row.status = rows[r].status
      BY <1>3 DEF Row
    <2> HIDE DEF row
    <2>3. QED BY <1>1, <1>3, <1>4, <2>1, <2>2 DEF Agrees
  <1>7. QED BY <1>5, <1>6

\* Where a worker goes on from the end of a re-read.
LEMMA AfterFields ==
  ASSUME IInv, NEW q \in Reqs, req[q].pc \in Rereading, AfterRefresh(q)
  PROVE  \/ \E x : Becomes(q, x) /\ x.pc \notin Rereading /\ UNCHANGED asked
         \/ \E y \in Request : \E n \in req[q].todo :
               /\ Becomes(q, Reread(y, n)) /\ asked' = [asked EXCEPT ![n] = now]
               /\ y.job = req[q].job /\ y.todo = req[q].todo /\ y.copies = req[q].copies
  <1>1. req[q] \in Request /\ req[q].pc # "idle"
    BY CopyOK DEF Rereading
  <1>2. CASE req[q].job = "settle"
    <2> DEFINE y == At(q, "tell", Copy(q))
               x == [y EXCEPT !.news = FALSE]
    <2>1. Becomes(q, x) /\ UNCHANGED asked
      BY <1>2 DEF AfterRefresh
    <2>2. y.pc = "tell"
      BY <1>1, AtFields
    <2> HIDE DEF y
    <2>3. x.pc = y.pc
      OBVIOUS
    <2> HIDE DEF x
    <2>4. QED BY <2>1, <2>2, <2>3 DEF Rereading
  <1>3. CASE Becomes(q, Idle) /\ UNCHANGED asked
    BY <1>3 DEF Idle, Rereading
  <1>4. CASE req[q].job # "settle" /\ ~(Becomes(q, Idle) /\ UNCHANGED asked)
    <2> DEFINE y == [req[q] EXCEPT !.news = FALSE]
    <2>1. PICK n \in req[q].todo :
             Becomes(q, Reread(y, n)) /\ asked' = [asked EXCEPT ![n] = now]
      BY <1>4 DEF AfterRefresh, Finish
    <2>2. y \in Request /\ y.job = req[q].job /\ y.todo = req[q].todo
          /\ y.copies = req[q].copies
      BY <1>1 DEF Request
    <2> HIDE DEF y
    <2>3. QED BY <2>1, <2>2
  <1>5. QED BY <1>2, <1>3, <1>4

\* How a loop begins: every row due, as the table has it, before the first call.
LEMMA LoopFields ==
  ASSUME IInv, NEW q \in Reqs, NEW job \in AllJobs, NEW due \in SUBSET Refs,
         BeginLoop(q, job, due)
  PROVE  /\ UNCHANGED <<rows, now>>
         /\ \E y \in Request : \E n \in due :
               /\ Becomes(q, Reread(y, n)) /\ asked' = [asked EXCEPT ![n] = now]
               /\ y.job = job /\ y.todo = due /\ y.copies = rows
  <1> DEFINE y == [Idle EXCEPT !.job = job, !.todo = due, !.copies = rows]
  <1>1. PICK n \in due : Becomes(q, Reread(y, n)) /\ asked' = [asked EXCEPT ![n] = now]
    BY DEF BeginLoop
  <1>2. y \in Request /\ y.job = job /\ y.todo = due /\ y.copies = rows
    BY IdleOK, InTypes DEF Idle, Request
  <1>3. UNCHANGED <<rows, now>>
    BY DEF BeginLoop, provider
  <1> HIDE DEF y
  <1>4. QED BY <1>1, <1>2, <1>3

\* The rows a re-read has loaded stay paid, and of the plan loaded.
LEMMA HeldRows ==
  ASSUME IInv, SInv, NEW q \in Reqs, req[q].pc \in Rereading
  PROVE  /\ req[q].ref \in Refs /\ req[q].todo \subseteq Refs
         /\ \A n \in req[q].todo \cup {req[q].ref} : rows[n].status = "paid"
         /\ Copy(q).plan = rows[req[q].ref].plan
  BY HandOf DEF Hand, Agrees, Rereading

-----------------------------------------------------------------------------
(* The time paid for.                                                      *)

\* What a re-read has loaded of the subscriptions it is still to ask about, and
\* of the one it is on, is what the table holds; the answer is no earlier.
LoadedIn(x, table) ==
    x.pc \in Rereading =>
        /\ \A n \in x.todo : Recurring(table[n].plan) => x.copies[n].expires = table[n].expires
        /\ Recurring(table[x.ref].plan) =>
              /\ x.pc = "reread" => x.copies[x.ref].expires = table[x.ref].expires
              /\ table[x.ref].expires # None
                    => /\ x.copies[x.ref].expires # None
                       /\ x.copies[x.ref].expires >= table[x.ref].expires

Loaded == \A q \in Reqs : LoadedIn(req[q], rows)

Kept ==
    \A r \in Refs :
       /\ Recurring(rows[r].plan) /\ rows[r].expires # None
       /\ rows[r].status = "paid" /\ rows'[r].status = "paid"
       => rows'[r].expires # None /\ rows'[r].expires >= rows[r].expires

LEMMA WorkerLoads ==
  ASSUME Alone, IInv, NEW q \in Reqs, NEW x, Becomes(q, x), LoadedIn(x, rows')
  PROVE  Loaded'
  <1>1. \A p \in Reqs : req'[p] = x
    BY InTypes DEF Alone, Becomes
  <1>2. QED BY <1>1 DEF Loaded

\* The loop turns to a row of which it holds what the table says.
LEMMA TurnLoads ==
  ASSUME Alone, IInv, IInv', NEW q \in Reqs, NEW y \in Request, NEW n \in Refs,
         Becomes(q, Reread(y, n)),
         \A m \in y.todo \cup {n} :
            Recurring(rows'[m].plan) => y.copies[m].expires = rows'[m].expires
  PROVE  Loaded'
  <1> DEFINE x == Reread(y, n)
  <1>1. /\ x.pc = "reread" /\ x.ref = n /\ x.todo = y.todo \ {n}
        /\ x.copies[n].expires = y.copies[n].expires
        /\ \A m \in x.todo : x.copies[m] = y.copies[m]
    BY RereadFields
  <1>2. rows'[n].expires \in Nat \cup {None}
    BY DEF IInv, TypeOK, Row
  <1>3. Becomes(q, x)
    OBVIOUS
  <1> HIDE DEF x
  <1>4. LoadedIn(x, rows')
    BY <1>1, <1>2 DEF LoadedIn
  <1>5. QED BY <1>3, <1>4, WorkerLoads

LEMMA ElsewhereLoads ==
  ASSUME IInv, SInv, IInv', SInv', Loaded, Elsewhere
  PROVE  Loaded' /\ Kept
  <1>1. ASSUME NEW q \in Reqs PROVE LoadedIn(req'[q], rows')
    <2>1. CASE req'[q].pc \notin Rereading
      BY <2>1 DEF LoadedIn
    <2>2. CASE req'[q] = req[q] /\ req[q].pc \in Rereading
      <3>1. \A n \in req[q].todo \cup {req[q].ref} : n \in Refs /\ rows[n].status = "paid"
        BY <2>2, HeldRows
      <3>2. \A n \in req[q].todo \cup {req[q].ref} : rows'[n].status = "paid"
        BY <2>2 DEF SInv, Hand, Agrees, Rereading
      <3>3. \A n \in req[q].todo \cup {req[q].ref} :
               /\ rows'[n].plan = rows[n].plan
               /\ Recurring(rows[n].plan) => rows'[n].expires = rows[n].expires
        BY <3>1, <3>2 DEF Elsewhere
      <3>4. LoadedIn(req[q], rows)
        BY DEF Loaded
      <3>5. QED BY <2>2, <3>3, <3>4 DEF LoadedIn
    <2>3. QED BY <2>1, <2>2 DEF Elsewhere
  <1>2. Kept
    <2>1. \A r \in Refs : rows[r].expires \in Nat \cup {None}
      BY InTypes DEF Row
    <2>2. QED BY <2>1 DEF Kept, Elsewhere
  <1>3. QED BY <1>1, <1>2 DEF Loaded

LEMMA RereadsLoads ==
  ASSUME Alone, DatesTold, RefundOnly, IInv, Times, SInv, Loaded, IInv', NEW q \in Reqs, Rereads(q)
  PROVE  Loaded' /\ Kept
  <1>0. \A r \in Refs : rows[r].expires \in Nat \cup {None} /\ subs[r].next \in Nat
    BY InTypes DEF Row
  <1>1. ASSUME UNCHANGED rows PROVE Kept
    BY <1>0, <1>1 DEF Kept
  <1>2. ASSUME NEW job \in AllJobs, NEW due \in SUBSET Refs, BeginLoop(q, job, due)
        PROVE  Loaded' /\ Kept
    <2>1. UNCHANGED rows
      BY <1>2, LoopFields
    <2>2. PICK y \in Request, n \in due :
             Becomes(q, Reread(y, n)) /\ y.todo = due /\ y.copies = rows
      BY <1>2, LoopFields
    <2>3. QED BY <1>1, <2>1, <2>2, TurnLoads
  <1>3. CASE SavePayment(q) /\ Becomes(q, Reread(req[q], req[q].ref))
    <2>1. req[q].pc = "save" /\ Save(q)
      BY <1>3 DEF SavePayment
    <2>2. /\ req[q] \in Request /\ req[q].ref \in Refs /\ rows \in [Refs -> Row]
          /\ req[q].todo = {} /\ rows[req[q].ref].status = "pending"
          /\ Copy(q) = req[q].copies[req[q].ref]
      BY <2>1, HandOf DEF Hand, Settling
    <2>3. /\ rows'[req[q].ref] = Copy(q)
          /\ \A n \in Refs \ {req[q].ref} : rows'[n] = rows[n]
      BY <2>1, <2>2 DEF Save
    <2>4. Kept
      BY <1>0, <2>2, <2>3 DEF Kept
    <2>5. QED BY <1>3, <2>2, <2>3, <2>4, TurnLoads
  <1>4. CASE AnswerReread(q)
    <2>1. PICK x : /\ Becomes(q, x) /\ UNCHANGED rows
                   /\ req[q].pc = "reread" /\ x.pc = "resave"
                   /\ x.ref = req[q].ref /\ x.todo = req[q].todo
                   /\ \A n \in Refs \ {x.ref} : x.copies[n] = req[q].copies[n]
                   /\ x.copies[x.ref].expires
                         \in {Copy(q).expires, subs[Copy(q).sub].next + Grace}
      BY <1>4, AnswerFields
    <2> DEFINE r == req[q].ref
    <2>2. /\ r \in Refs /\ req[q].todo \subseteq Refs /\ r \notin req[q].todo
          /\ Copy(q) = req[q].copies[r] /\ Copy(q) \in Row
          /\ Copy(q).plan = rows[r].plan /\ Dated(Copy(q))
      BY <2>1, HandOf, HeldRows, CopyOK DEF Rereading, ReqInv, Times, DatedIn
    <2>3. /\ \A n \in req[q].todo :
                Recurring(rows[n].plan) => req[q].copies[n].expires = rows[n].expires
          /\ Recurring(rows[r].plan) => Copy(q).expires = rows[r].expires
      BY <2>1, <2>2 DEF Loaded, LoadedIn, Rereading
    <2>4. Recurring(rows[r].plan) /\ rows[r].expires # None
             => Copy(q).sub \in Refs /\ rows[r].expires <= subs[Copy(q).sub].next + Grace
      BY <2>2, <2>3 DEF Dated, Row
    <2>5. Recurring(rows[r].plan) /\ rows[r].expires # None
             => x.copies[r].expires # None /\ x.copies[r].expires >= rows[r].expires
      <3>1. Grace \in Nat
        OBVIOUS
      <3>2. QED BY <1>0, <2>1, <2>2, <2>3, <2>4, <3>1
    <2>6. \A n \in x.todo : Recurring(rows[n].plan) => x.copies[n].expires = rows[n].expires
      BY <2>1, <2>2, <2>3
    <2>7. LoadedIn(x, rows')
      BY <2>1, <2>5, <2>6 DEF LoadedIn
    <2>8. QED BY <1>1, <2>1, <2>7, WorkerLoads
  <1>5. CASE SaveReread(q) \/ RereadFails(q)
    <2> DEFINE r == req[q].ref
    <2>1. /\ req[q].pc \in Rereading /\ AfterRefresh(q)
          /\ r \in Refs /\ r \notin req[q].todo
          /\ \A n \in Refs \ {r} : rows'[n] = rows[n]
          /\ rows'[r].expires \in {rows[r].expires, Copy(q).expires}
      BY <1>5, SaveFields
    <2>2. req[q].todo \subseteq Refs
      BY <2>1, HeldRows
    <2>3. /\ \A n \in req[q].todo :
                Recurring(rows[n].plan) => req[q].copies[n].expires = rows[n].expires
          /\ Recurring(rows[r].plan) /\ rows[r].expires # None
                => Copy(q).expires # None /\ Copy(q).expires >= rows[r].expires
      BY <2>1 DEF Loaded, LoadedIn, Copy
    <2>4. Kept
      BY <1>0, <2>1, <2>3 DEF Kept
    <2>5. ASSUME NEW x, Becomes(q, x), x.pc \notin Rereading PROVE Loaded'
      BY <2>5, WorkerLoads DEF LoadedIn
    <2>6. ASSUME NEW y \in Request, NEW n \in req[q].todo, Becomes(q, Reread(y, n)),
                 y.todo = req[q].todo, y.copies = req[q].copies
          PROVE  Loaded'
      <3>1. \A m \in y.todo \cup {n} :
               Recurring(rows'[m].plan) => y.copies[m].expires = rows'[m].expires
        BY <2>1, <2>2, <2>3, <2>6
      <3>2. QED BY <2>2, <2>6, <3>1, TurnLoads
    <2>7. QED BY <2>1, <2>4, <2>5, <2>6, AfterFields
  <1>6. QED BY <1>2, <1>3, <1>4, <1>5 DEF Rereads

\* One request at a time, no form posted and a provider that says when a
\* subscription renews: a re-read never takes back time its holder already had,
\* whichever subscription the row names (refresh).
THEOREM PaidTimeIsKept ==
  ASSUME Alone, DatesTold, RefundOnly, "admin" \notin Jobs
  PROVE  Spec => PaidTimeKept
  <1>1. Init => Loaded
    BY DEF Init, Loaded, LoadedIn, Idle, Rereading
  <1>2. ASSUME IInv, Times, SInv, Loaded, [Next]_vars PROVE Loaded' /\ Kept
    <2>1. IInv' /\ SInv'
      BY <1>2, Stepwise, SerialStep
    <2>2. QED BY <1>2, <2>1, NextElsewhere, ElsewhereLoads, RereadsLoads
  <1>3. IInv /\ Times /\ SInv /\ Loaded /\ [Next]_vars => Loaded'
    BY <1>2
  <1>4. IInv /\ Times /\ SInv /\ Loaded /\ [Next]_vars => [Kept]_vars
    BY <1>2
  <1>5. IInv /\ Times /\ [Next]_vars => Times'
    BY StepwiseDated
  <1>6. QED BY <1>1, <1>3, <1>4, <1>5, TimesStart, SerialInvariance, PTL
            DEF Spec, PaidTimeKept, Kept

-----------------------------------------------------------------------------
(* Once an hour.                                                           *)

\* A row nobody is re-reading says when it was last asked about.
Answered(row, time) ==
    /\ row.status \in {"none", "pending"} => time = None
    /\ row.status = "paid" /\ time # None => row.checked # None /\ time <= row.checked

Noted(r) ==
    \/ Answered(rows[r], asked[r])
    \/ rows[r].status = "paid" /\ \E q \in Reqs : req[q].pc \in Rereading /\ req[q].ref = r

\* Not asked about within the hour.
Rested(n) == asked[n] = None \/ now - asked[n] > Recheck

\* The row being re-read is stamped with the time it was asked about, and
\* those still to come were left alone for the hour.
StampedIn(x) ==
    x.pc \in Rereading =>
        /\ asked[x.ref] # None
              => /\ x.copies[x.ref].checked # None
                 /\ asked[x.ref] <= x.copies[x.ref].checked
        /\ x.job = "catchup" => \A n \in x.todo : Rested(n)

Stamped == (\A r \in Refs : Noted(r)) /\ \A q \in Reqs : StampedIn(req[q])

Hourly ==
    \A q \in Reqs :
       LET n == req'[q].ref
       IN  /\ req'[q].job = "catchup" /\ req'[q].pc = "reread"
           /\ req[q].pc # "reread" \/ req[q].ref # n
           => asked[n] = None \/ now - asked[n] > Recheck

LEMMA InHours ==
  ASSUME IInv
  PROVE  now \in Nat /\ asked \in [Refs -> Nat \cup {None}] /\ Recheck \in Nat
  BY DEF IInv, TypeOK, ProviderTypeOK

LEMMA ClockMoves ==
  ASSUME IInv, [Next]_vars
  PROVE  now' >= now
  <1>1. now \in Nat
    BY InHours
  <1>2. CASE ProviderNext
    <2>1. CASE Tick
      BY <1>1, <2>1 DEF Tick
    <2>2. CASE \E r \in Refs, n \in 1 .. Attempts : Attempt(r, n) \/ Clear(r, n)
      <3>1. now' = now
        BY <2>2 DEF Attempt, Clear, SetPayment
      <3>2. QED BY <1>1, <3>1
    <2>3. CASE \E r \in Refs : Renew(r) \/ Hold(r) \/ Stop(r) \/ End(r)
      <3>1. now' = now
        BY <2>3 DEF Renew, Hold, Stop, End, SetSubscription
      <3>2. QED BY <1>1, <3>1
    <2>4. QED BY <1>2, <2>1, <2>2, <2>3 DEF ProviderNext
  <1>3. CASE ~ProviderNext
    <2>1. now' = now
      BY <1>3 DEF Next, vars, provider, Begin, BeginStart, BeginSettle, BeginCatchUp,
                  BeginPortal, BeginLoop, PostForm, Step, OpenCheckout, AnswerPayment,
                  SavePayment, AnswerSubscription, AnswerCharge, SaveSubscription, Tell,
                  AnswerReread, SaveReread, RereadFails, SaveForm, Abandon, OpenForm,
                  Revoke, Grant, Visit
    <2>2. QED BY <1>1, <2>1
  <1>4. QED BY <1>2, <1>3

\* The loop turns to a row that was left alone for the hour.
LEMMA TurnStamps ==
  ASSUME Alone, IInv, NEW q \in Reqs, NEW y \in Request, NEW n \in Refs,
         Becomes(q, Reread(y, n)), asked' = [asked EXCEPT ![n] = now], now' = now,
         y.job = "catchup" => \A m \in y.todo \cup {n} : Rested(m),
         rows'[n].status = "paid", \A r \in Refs \ {n} : Answered(rows'[r], asked[r])
  PROVE  Stamped' /\ Hourly
  <1> DEFINE x == Reread(y, n)
  <1>1. /\ x.pc = "reread" /\ x.ref = n /\ x.job = y.job /\ x.todo = y.todo \ {n}
        /\ x.copies[n].checked = now
    BY RereadFields
  <1>2. Becomes(q, x) /\ y.todo \subseteq Refs
    BY DEF Request
  <1> HIDE DEF x
  <1>3. \A p \in Reqs : req'[p] = x
    BY <1>2, InTypes DEF Alone, Becomes
  <1>4. /\ now \in Nat /\ asked'[n] = now
        /\ \A m \in Refs \ {n} : asked'[m] = asked[m]
    BY InHours
  <1>5. \A r \in Refs : Noted(r)'
    BY <1>1, <1>3, <1>4 DEF Noted, Rereading
  <1>6. ASSUME NEW p \in Reqs PROVE StampedIn(req[p])'
    <2>1. now # None
      BY <1>4
    <2>2. x.job = "catchup" => \A m \in x.todo : Rested(m)'
      BY <1>1, <1>2, <1>4 DEF Rested
    <2>3. QED BY <1>1, <1>3, <1>4, <2>1, <2>2 DEF StampedIn
  <1>7. Hourly
    BY <1>1, <1>3 DEF Hourly, Rested
  <1>8. QED BY <1>5, <1>6, <1>7 DEF Stamped

LEMMA ElsewhereStamps ==
  ASSUME Deaths \cap Rereading = {}, "admin" \notin Jobs, IInv, IInv', Moves, now' >= now, Stamped, Elsewhere
  PROVE  Stamped' /\ Hourly
  <1>1. /\ now \in Nat /\ now' \in Nat /\ Recheck \in Nat /\ asked' = asked
        /\ \A r \in Refs : asked[r] \in Nat \cup {None}
    BY InHours DEF Elsewhere, IInv, TypeOK, ProviderTypeOK
  <1>2. ASSUME NEW r \in Refs PROVE Noted(r)'
    <2>1. /\ rows'[r].status \in {"none", "pending"} => rows[r].status \in {"none", "pending"}
          /\ rows'[r].status = "paid" => rows[r].status \in {"none", "pending", "paid"}
          /\ rows[r].status = "paid" => rows'[r].status \in {"paid", "refunded"}
      BY DEF Moves, Same, Settles, Posted, Change, May
    <2>2. CASE Answered(rows[r], asked[r])
      BY <1>1, <2>1, <2>2 DEF Elsewhere, Answered, Noted
    <2>3. ASSUME NEW q \in Reqs, rows[r].status = "paid", req[q].pc \in Rereading,
                 req[q].ref = r
          PROVE  Noted(r)'
      <3>1. req'[q] = req[q]
        BY <2>3 DEF Elsewhere
      <3>2. CASE rows'[r].status = "paid"
        BY <2>3, <3>1, <3>2 DEF Noted
      <3>3. CASE rows'[r].status = "refunded"
        BY <3>3 DEF Noted, Answered
      <3>4. QED BY <2>1, <2>3, <3>2, <3>3
    <2>4. QED BY <2>2, <2>3 DEF Stamped, Noted
  <1>3. ASSUME NEW q \in Reqs PROVE StampedIn(req[q])'
    <2>1. CASE req'[q].pc \notin Rereading
      BY <2>1 DEF StampedIn
    <2>2. CASE req'[q] = req[q] /\ req[q].pc \in Rereading
      <3>1. StampedIn(req[q]) /\ req[q] \in Request
        BY InTypes DEF Stamped
      <3>2. \A n \in req[q].todo : Rested(n) => Rested(n)'
        BY <1>1, <3>1 DEF Rested, Request
      <3>3. QED BY <1>1, <2>2, <3>1, <3>2 DEF StampedIn
    <2>3. QED BY <2>1, <2>2 DEF Elsewhere
  <1>4. Hourly
    BY DEF Hourly, Elsewhere, Rereading
  <1>5. QED BY <1>2, <1>3, <1>4 DEF Stamped

LEMMA RereadsStamps ==
  ASSUME Alone, IInv, SInv, Stamped, NEW q \in Reqs, Rereads(q)
  PROVE  Stamped' /\ Hourly
  <1>0. /\ now \in Nat /\ Recheck \in Nat
        /\ \A r \in Refs : asked[r] \in Nat \cup {None} /\ rows[r].checked \in Nat \cup {None}
    BY InHours, InTypes DEF Row
  <1>1. ASSUME NEW r \in Refs, req[q].pc \notin Rereading \/ req[q].ref # r
        PROVE  Answered(rows[r], asked[r])
    BY <1>1 DEF Alone, Stamped, Noted
  <1>2. ASSUME NEW job \in AllJobs, NEW due \in SUBSET Refs, BeginLoop(q, job, due),
               \A n \in due : Loadable(rows[n]),
               job = "catchup" => \E u \in Users : due = Due(rows, u, now)
        PROVE  Stamped' /\ Hourly
    <2>1. PICK y \in Request, n \in due :
             /\ Becomes(q, Reread(y, n)) /\ asked' = [asked EXCEPT ![n] = now]
             /\ y.job = job /\ y.todo = due /\ UNCHANGED <<rows, now>>
      BY <1>2, LoopFields
    <2>2. req[q].pc = "idle"
      BY <1>2 DEF BeginLoop
    <2>3. \A r \in Refs : Answered(rows[r], asked[r])
      BY <1>1, <2>2 DEF Rereading
    <2>4. ASSUME job = "catchup", NEW m \in due PROVE Rested(m)
      <3>1. rows[m].checked = None \/ now - rows[m].checked > Recheck
        BY <1>2, <2>4 DEF Due
      <3>2. QED BY <1>0, <1>2, <2>3, <3>1 DEF Answered, Rested, Loadable
    <2>5. QED BY <1>2, <2>1, <2>3, <2>4, TurnStamps DEF Loadable
  <1>3. CASE /\ SavePayment(q) /\ Copy(q).status = "paid"
             /\ Becomes(q, Reread(req[q], req[q].ref))
             /\ asked' = [asked EXCEPT ![req[q].ref] = now]
    <2> DEFINE r == req[q].ref
    <2>1. req[q].pc = "save" /\ Save(q) /\ now' = now
      BY <1>3 DEF SavePayment, provider
    <2>2. /\ req[q] \in Request /\ r \in Refs /\ rows \in [Refs -> Row]
          /\ req[q].todo = {} /\ rows[r].status = "pending"
      BY <2>1, HandOf DEF Hand, Settling
    <2>3. rows'[r] = Copy(q) /\ \A n \in Refs \ {r} : rows'[n] = rows[n]
      BY <2>1, <2>2 DEF Save
    <2>4. \A n \in Refs : Answered(rows[n], asked[n])
      BY <1>1, <2>1 DEF Rereading
    <2>5. Rested(r)
      BY <2>2, <2>4 DEF Answered, Rested
    <2>6. \A m \in req[q].todo \cup {r} : Rested(m)
      BY <2>2, <2>5
    <2>7. rows'[r].status = "paid" /\ \A n \in Refs \ {r} : Answered(rows'[n], asked[n])
      BY <1>3, <2>3, <2>4
    <2>8. QED BY <1>3, <2>1, <2>2, <2>6, <2>7, TurnStamps
  <1>4. CASE AnswerReread(q)
    <2>1. PICK x : /\ Becomes(q, x) /\ UNCHANGED <<rows, now, asked>>
                   /\ req[q].pc = "reread" /\ x.pc = "resave"
                   /\ x.ref = req[q].ref /\ x.job = req[q].job /\ x.todo = req[q].todo
                   /\ x.copies[x.ref].checked = Copy(q).checked
      BY <1>4, AnswerFields
    <2>2. \A p \in Reqs : req'[p] = x
      BY <2>1, InTypes DEF Alone, Becomes
    <2>3. \A r \in Refs : Noted(r)'
      <3>1. ASSUME NEW r \in Refs, Answered(rows[r], asked[r]) PROVE Noted(r)'
        BY <2>1, <3>1 DEF Noted, Answered
      <3>2. ASSUME NEW r \in Refs, rows[r].status = "paid", r = req[q].ref PROVE Noted(r)'
        BY <2>1, <2>2, <3>2 DEF Noted, Rereading
      <3>3. QED BY <3>1, <3>2 DEF Stamped, Noted, Alone
    <2>4. StampedIn(req[q])
      BY DEF Stamped
    <2>5. ASSUME NEW p \in Reqs PROVE StampedIn(req[p])'
      <3>1. \A n \in req[q].todo : Rested(n) => Rested(n)'
        BY <2>1 DEF Rested
      <3>2. QED BY <2>1, <2>2, <2>4, <3>1 DEF StampedIn, Rereading, Copy
    <2>6. Hourly
      BY <2>1, <2>2 DEF Hourly
    <2>7. QED BY <2>3, <2>5, <2>6 DEF Stamped
  <1>5. CASE SaveReread(q) \/ RereadFails(q)
    <2> DEFINE r == req[q].ref
    <2>1. /\ req[q].pc \in Rereading /\ AfterRefresh(q) /\ now' = now
          /\ r \in Refs /\ r \notin req[q].todo
          /\ rows'[r].status = "paid" /\ rows'[r].checked = Copy(q).checked
          /\ \A n \in Refs \ {r} : rows'[n] = rows[n]
      BY <1>5, SaveFields
    <2>2. StampedIn(req[q]) /\ Copy(q) = req[q].copies[r]
      BY DEF Stamped, Copy
    <2>3. ASSUME NEW n \in Refs PROVE Answered(rows'[n], asked[n])
      <3>1. CASE n = r
        BY <2>1, <2>2, <3>1 DEF StampedIn, Answered
      <3>2. CASE n # r
        BY <1>1, <2>1, <3>2
      <3>3. QED BY <3>1, <3>2
    <2>4. ASSUME NEW x, Becomes(q, x), x.pc \notin Rereading, UNCHANGED asked
          PROVE  Stamped' /\ Hourly
      <3>1. \A p \in Reqs : req'[p] = x
        BY <2>4, InTypes DEF Alone, Becomes
      <3>2. QED BY <2>3, <2>4, <3>1 DEF Stamped, Noted, StampedIn, Hourly, Rereading
    <2>5. ASSUME NEW y \in Request, NEW n \in req[q].todo, Becomes(q, Reread(y, n)),
                 asked' = [asked EXCEPT ![n] = now], y.job = req[q].job,
                 y.todo = req[q].todo
          PROVE  Stamped' /\ Hourly
      <3>1. /\ n \in Refs /\ rows[n].status = "paid"
        BY <2>1, HeldRows
      <3>2. y.job = "catchup" => \A m \in y.todo \cup {n} : Rested(m)
        BY <2>1, <2>2, <2>5 DEF StampedIn
      <3>3. QED BY <2>1, <2>3, <2>5, <3>1, <3>2, TurnStamps
    <2>6. QED BY <2>1, <2>4, <2>5, AfterFields
  <1>6. QED BY <1>2, <1>3, <1>4, <1>5 DEF Rereads

\* One request at a time, no form posted and no worker that dies between asking
\* and saving: catch_up asks about one subscription at most once an hour, the
\* hours in which the provider does not answer included.
THEOREM AskedHourly ==
  ASSUME Alone, "admin" \notin Jobs, Deaths \cap Rereading = {}
  PROVE  Spec => AskedAtMostHourly
  <1>1. ASSUME Init PROVE Stamped
    <2>1. \A r \in Refs : rows[r] = Blank /\ asked[r] = None
      BY <1>1 DEF Init
    <2>2. \A q \in Reqs : req[q].pc = "idle"
      BY <1>1 DEF Init, Idle
    <2>3. QED BY <2>1, <2>2 DEF Stamped, Noted, Answered, StampedIn, Blank, Rereading
  <1>2. ASSUME IInv, SInv, Stamped, [Next]_vars PROVE Stamped' /\ Hourly
    <2>1. IInv' /\ Moves /\ now' >= now
      BY <1>2, Stepwise, NextMoves, ClockMoves
    <2>2. QED BY <1>2, <2>1, NextElsewhere, ElsewhereStamps, RereadsStamps
  <1>3. IInv /\ SInv /\ Stamped /\ [Next]_vars => Stamped'
    BY <1>2
  <1>4. IInv /\ SInv /\ Stamped /\ [Next]_vars => [Hourly]_vars
    BY <1>2
  <1>5. QED BY <1>1, <1>3, <1>4, SerialInvariance, PTL DEF Spec, AskedAtMostHourly, Hourly
=============================================================================
