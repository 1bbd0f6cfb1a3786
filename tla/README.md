# A verification project for yapholic.com

TLA+ models, TLC runs and TLAPS proofs kept beside the code in `src/`
(a Django-ninja backend under `src/backend`, a Next.js frontend under
`src/frontend`). Paths below are relative to `src/` unless they start with
`tla/`; `checkout.py` and its neighbours are `backend/apps/payments/*`.

## 1. Inventory

| Part | State it keeps | Operations | Interacts with | Hard behaviour | What makes it correct |
|---|---|---|---|---|---|
| **Checkout** `payments/checkout.py`, `apis.py` | `purchases` rows | start, settle (by payment or subscription), refresh, catch_up, portal | provider (calls), affiliates (commission), mail and chat notices, the admin | no webhooks and no locks: every request loads a row, waits on the provider, then saves *all* columns | a row is settled only by its own payment; paid time is kept, stacked and never exceeded; each event is said once; a payment is eventually recorded (found not so, section 3) |
| **Entitlement** `payments/services.py`, `plans.py` | none (reads rows) | is_pro, refusal, due | every gated route | two clocks (expiry, throttle) and null meaning "forever" | see Checkout |
| **Gifts, admin refund** `payments/gifts.py`, `payments/admin.py` | the same rows | grant, revoke, change form | Checkout | the form posts back stale columns | a refund stands, is announced on its flip |
| **Affiliates** `affiliates/services.py`, `frontend/proxy.ts`, the payouts tool | `users.affiliate_code`, `users.referred_by`, `purchases.referrer`, `payouts`, the referral cookie | code_for, referrer_for, commission, record_payout | Checkout (`referrer`, `commission_usd_cents`), sign-up | balance derived over two tables; check-then-create; minting from a GET; a cookie read at two moments | a code never changes once shown; a sale goes to whoever brought the buyer; paid out was earned |
| **Streaks** `runs/streaks.py` | none (derived from `runs`) | current, longest, frozen days, would-be | runs, plans (rule) | greedy freeze allowance over a rolling window; clocks of travellers | the walk is the best chain the rule allows; pages agree |
| **Reports** `runs/apis.py`, `reports.py`, `transcribe.py` | `runs`, `run_reports` | record, attach, transcribe and poll, read the case, count the month | devices, plans, transcriber, model, the server's own timeout | a call of up to a minute between a count and its row; a run loaded before a claim | the overrun is bounded; a call made is a call counted; a report once answered is kept; what was ready in time is heard |
| **Readings** `runs/analysis.py`, `progress.py`, `frontend/lib/report.ts`, `progress.ts`, `case.ts`, `practice.ts` and the pages that draw them | none (read off reports) | analyse, history, everything drawn | reports | one minute measured by two clocks and judged in four places | two readings of one thing agree |
| **Public link** `runs/sharing.py`, `share.tsx`, `sharing.tsx` | `users.share_token` | start, stop, open | the bank, readings | two tabs, lost answers, a token looked at and then saved | a stopped link is dead for good (not modelled yet) |
| **Devices, sessions** `common/devices.py`, `runs/services.py`, `authentication/*` | device cookie, `users`, sessions | sign up, log in and out, reset, change password, Google, claim | runs, affiliates | answers that carry cookies arrive late or not at all; a check and its write apart | a shared browser is left clean; a reset ends every session, one being opened included |
| **The bank** `topics/services.py`, `bank.py`, `admin.py` | built-in genres and lines, the files | seed, edit a file, switch a line off, serve the bank | the round's page, shared pages | a seed saves what it loaded; a series of files, and links sent under an older one | what was switched off stays off; a seed leaves what the files say; links survive |
| **Owned genres** `topics/owned.py`, `generate.py`, `frontend/components/genres/editor.tsx`, `yours.tsx` | genres, topics, pictures, link, allowance | generate, paste, edit, picture, share, unshare, delete, make | model, storage | controls that wait only for their own call; two pages; a model call between count and row | a picture is behind a link only if the link was made during its upload; a dead link stays dead; the month's overrun is bounded; the page shows what the server holds |
| **Round engine** `frontend/lib/round/engine.ts`, `timer.ts`, `pool.ts`, `warmups.ts`, `prefs.ts`, `components/round/*` | phase, timer, topic, what came up, preferences, best speeds, a staged topic | spin, think, speak, read, pause, finish, leave, every setting and key | microphone, backend, the page's bank | presses, keys, frames and reels in any order; a bank that changes under what is remembered | the clock serves the screen; what is written happened; no spin is dead, nothing hangs |
| **Voice capture** `frontend/lib/round/voice.ts`, `components/round/mic.tsx`, `round.tsx` | the stream, the ticker, the recorder, samples | start, mark, pause, resume, stop | engine, browser prompt, `POST /runs` and the attach | a prompt answered after the round it was for; a last chunk after the stop | one microphone, closed when away; a run gets the sound of its own minute |
| **Common** | rate counters | throttle, notify, mail, captcha | all | fail-open | limits hold while the store is up |
| **Site** | — | rendering | API | — | — |

Concurrency everywhere comes from the same place. There is no
`ATOMIC_REQUESTS` and no row lock in the payment code: each ORM call commits
on its own. `backend/docker-compose.yaml` runs gunicorn, keeps the rate
counters in Redis "shared across API workers" (line 24) and gives no worker
count, so the deployment decides; the models take the number of workers as a
parameter, and say of each property whether it needs more than one to fail.

## 2. Modules

| Module | What it is |
|---|---|
| `Entitlement` | The purchase row, the plans, and the pure questions: `IsPro`, `Refused`, `GrantUntil`, `Due`. |
| `Provider` | External: sessions, payments, subscriptions and the clock, as `dodo.py` reads them. |
| `Checkout` | EXTENDS both. Every request that writes `purchases`; request workers, their copies, announcements; fairness; properties. |
| `Ledger` | Abstract: what the table promises about `status`. `Checkout` implements it (`KeepsLedger`). |
| `CheckoutProofs` | Types, bound rows, `DatesPaidFor` and stacked passes, for any number of workers; what one worker at a time keeps besides, and the refinement of `Ledger`. |
| `Streaks` | The days practised, by whom and on which clock, and the streak numbers read off them. |
| `Accounts` | Browsers and their cookies, calls in flight, every door to an account, the claim and the rotation. |
| `Affiliates` | EXTENDS `Accounts`: codes, whose sale it is, what is owed and paid. |
| `Pool`, `Countdown` | Operators: what a spin may land on; the round's one timer. |
| `Round` | EXTENDS both. The engine, its screens, keys and pages. |
| `RoundFlow` | Abstract: the order of phases and when a run is handed over. `Round` implements it (`FollowsFlow`), `Listening` is driven by it. |
| `Ears` | Operators on the Listener's record. |
| `Listening` | EXTENDS `Ears`, composes it with `RoundFlow` and the two calls that write a run. |
| `Editor` | A genre somebody wrote, its routes, and the pages that edit it. |
| `Minute` | Operators: from loudness to the timing of a minute, its bar, wave, bands and headline. |
| `ReadBack`, `ReportPage` | EXTEND `Minute`: the words as the server counts and places them; what the pages draw of a report, for a plan. |
| `Progress`, `ProgressPage` | Operators: what is computed and drawn from many rounds. |
| `Reports` | The attach request, the month's minutes, the row and who may open it. |
| `Transcriber` | One polled call against the clock and the server's patience: the inside of what `Reports` takes in one step. |
| `Bank` | The seeder over the files, the operator's form, the bank as a round reads it and a shared page names it. |
| `Insights` | EXTENDS `ReportPage`, `ProgressPage`: the inputs that grow, and what their readings must agree on. |
| `MCReports` | EXTENDS `Reports` and `Transcriber`: a history is one of three scenes. |
| `Sums` | Lemmas: what the library's sum over a finite set comes to. Used by the proofs about what was counted, charged or earned. |
| `ReportsProofs`, `ListeningProofs`, `RoundProofs`, `EditorProofs`, `AccountsProofs` | The inductive invariants and the theorems of `MCReports`, `Listening`, `Round`, `Editor` and `Affiliates`. |
| `WalkProofs` | The same of `Streaks`, of `Bank` and of what `Insights` asks of a minute: what a walk over a history's days, the lines of a series of files, or the frames and stretches of a minute comes to. |
| `MCCheckout`, `MCRound`, `MCInsights`, `MCAccounts`, `MCBank` | Small instances for TLC. |

### How Checkout corresponds to the code

* `rows[r]` is the row with reference `r`; status `"none"` is no row. A row
  keeps the columns the properties tell apart. `customer`, `charged` and
  `commission` record whether a column has been written; the quote, the
  market and the amounts are left out.
* `req[q]` is a worker: `pc` is where it waits, `copies` are the Django
  objects it loaded, `todo` the rows its loop has not reached. A request is
  split where it waits on the provider (`pay`, `sub`, `charge`, `reread`,
  `open`), between computing a row and `row.save()` (`save`, `saveSub`,
  `resave`, `post`), and before the announcement (`tell`). `Save` writes the
  whole copy; the two partial saves (`RereadFails`, `Revoke`) write the
  columns they name.
* `start` (`BeginStart`, `OpenCheckout`): refusal, session, then the row.
* `settle` (`BeginSettle`, `AnswerPayment`, `SavePayment`, or
  `AnswerSubscription`, `AnswerCharge`, `SaveSubscription`; then `Tell`). A
  return URL (`Urls`) names any two ids the provider knows, not necessarily
  of one session and neither necessarily this row's: `apis.py:109-113` takes
  them independently and `checkout.py:123` writes the subscription's unread.
* `refresh` (`Reread`, `AnswerReread`, `SaveReread`, `RereadFails`), from
  settle, `catch_up` (`BeginCatchUp`) and `_with_customer` (`BeginPortal`).
* the admin form: `form` is a sold row's change page as it was when it was
  opened. One is open at a time; it may be posted again, and any request runs
  while it is open. `PostForm` is the POST, which loads the row afresh, so
  that `became_refunded` compares with the row as stored then; `SaveForm`
  writes every column the page showed. Of these the operator retypes only the
  status (`Marks`).
* gifts (`Grant`, `Revoke`); `Visit` is any page asking `is_pro`.
* `Abandon`: a `DodoError` the handler lets through, or a worker that dies.
* `said` counts announcements up to 2; `shown`, `asked` and `blind` are
  history. `blind` is the pairs of rows of which one was reckoned between the
  other's reckoning and its save, or was written back from a form.
* A history of `MCCheckout` is one scene: `ledger` and `passes` sell one-time
  plans over two references, `subscriber` and `renewals` one subscription,
  `abroad` a subscription beside a second session whose subscription the
  first may be made to name; `whole` leaves nothing out.

Definitions marked *seeded fault* in a comment belong to no behaviour: they
are the plausible bugs each property is shown to catch.

### How Streaks corresponds to the code

* `device` and `account` are `local_dates` of the rows `owned_by` answers for
  this browser's device and for the account; a row is the date its own clock
  gave it. `now` is the date at the westernmost clock and another clock is up
  to `Ahead` dates later, which is what an offset does to a date.
* `Record`, `RecordElsewhere` are `POST /runs` from this browser and from
  another device of the account; `LogIn` is the login signal's claim; `LogOut`
  rotates the device; `ChangePlan` stands for everything `Checkout` does to
  the plan held.
* `PostRun` and `WriteRun` are a run whose request read its cookies before
  the sign-in and is written after it: `record` has looked at who is asking
  and has not saved. `stray` is the days so written.
* `Freezable`, `Walk`, `Longest`, `WouldBe` are `_freeze`, `_walk`,
  `_longest` and `summary`'s pitch. The code's loop over pairs of days newest
  first is a chain taken back day by day (`Onward`, `OnwardOrAnew`), to the
  newest of the days before its oldest: a set has no order to sort. The
  code's `frozen` and `spent` always hold the same days in `_walk`, so one
  field stands for both. `Apart` is the zip of the sorted days with themselves
  `FREEZES_PER_WINDOW` further on.
* `Forgiven` and `ChainsBackFrom` say the rule with no walk in it: a chain is
  every practice day between two of them, and no window of days may hold more
  than `Freezes` of the days it missed.

A signed-in browser's device may therefore hold runs that nobody claimed,
those in `stray` and no others (`TypeOK`); the account does not see them until
the next sign-in (`Accounts.RunsInSight`, section 3).

### How Accounts and Affiliates correspond to the code

* `jar[b]` is the device, session and referral cookie a browser holds;
  `call[q]` a request with the cookies the jar held when it was sent. `Send`
  is a page's fetch, `Deliver` the answer's `Set-Cookie`, `Lose` a network
  that drops the answer. Answers arrive in any order.
* A handler is split where it has checked and not yet written: `BeginSignup`,
  `Create`, `EnterNew`; `BeginGoogle`, `Create`, `Enter` or `EnterNew`;
  `BeginLogin`, `Enter`; `BeginReset` or `BeginChange`, `SetPassword`. The
  password hash of the loaded user travels with the call (`word`), which is
  what signs the session in the code.
* `LogIn` is Django's `login` with the claim its signal makes; a new session
  key, the reset links dead (the token signs the last sign-in). `Live` is the
  framework's check of the session's hash against the row's.
* `Rotated` is `rotate_device` after the session is ended. `OwnedBy` is
  `owned_by`.
* `Look`, `Mint` are `code_for`, before and after the save that the unique
  column may refuse; `Refs` is `?ref=` becoming a cookie on any page;
  `BeginBuy`, `Buy` are the checkout route deciding who is credited and the
  row it writes; `Moves` is what `Checkout` does to a status (`Ledger`);
  `PressPayout`, `WritePayout` are `record_payout`'s sum and its create.
* `scene` picks which jobs a history mixes: calls of every kind at once are
  out of reach, and the five scenes put together the ones that touch the same
  state. The auxiliary variables are `shown`, `era`, `opened` and a session's
  `proof`. `opened` is what a browser signed in to, in the era it asked in and
  in the era the answer came in.
* One form per browser waits at a time, since each disables its button; the
  menu's Sign out does not wait, and overlaps everything.

### How Round corresponds to the code

* `phase`, `topic`, `prefs`, `used`, `clock`, `bests` are the Engine's fields;
  `saved` and `staged` the two stores that outlive a page; `page` what the
  server rendered. `record` is what the effect handed to the page in the last
  step, `ran` counts the half seconds the clock really ran.
* An action is a press, a key or a setting, enabled where the screen on show
  offers it (`IdleScreen` ... `WarmUpDoneScreen`, the sheets) or the key
  handler takes it; `Pass`, `LoopOn`, `LoopOver` are time and the timer's
  loop, which may be `Late`; `Settle` is the reel; `Arrive` and `Visit` open
  a page.
* A page is home, a built-in warm-up's page, or the same for an account with
  one of its own; what is remembered may name a genre the page's bank lacks.

### How Listening corresponds to the code

`Ears` has one operator per method of the Listener and one per asynchronous
answer (`Opened`, `Refused`, `Resolved`, `RecorderStopped`). A React effect
runs in the render of the change it watches, so `React` is part of the step
that changed the phase. `Network` and the actions after it are `record`, the
attach and their answers. `heard[t]` says which takes the sound and samples
handed over for take `t` came from.

### How Editor corresponds to the code

`rows`, `token`, `spent` are the genre's topics, its share token and the
month's generations; `page[p]` what a tab shows and which of its controls
wait. A call `Begin`s where the route reads the genre, `Finish`es where it
writes and answers, and `Land`s where the page puts the answer on screen, or
is lost on the way out or back. A picture and a generation wait on a bucket
and a model in between. Every call may overtake every other, those of its own
page included: a button waits only for its own. A route's last look at the
rows and the write after it are one step, and so is its first look (`seen`, the
link as it was then, goes into its answer). A page opens an editor again only
once the calls of the last one are over. History: `fresh`, the pages that know
of the last write; `tangled`, those with calls that overlapped; `atOnce`, the
most generations served at one time; `slipped`, the pictures a link was made
during the upload of.

### How Minute to Insights correspond to the code

Pure functions of the backend and of the pages, one operator each, over
lengths in ticks, words as bare letters with a clock, and rounds as records.
`Insights` grows a timeline frame by frame, a read-back word by word, a
history round by round, a case sentence by sentence and a calendar day by
day, one of them per behaviour, and asks after every step whether all that is
shown of it agrees. Both roundings (`RoundEven` for Python, `RoundUp` for
JavaScript), both clocks (`Readers`) and both comparisons (`<` and `<=`) are
kept as they are in each place.

### How Reports and Transcriber correspond to the code

* `job[w]` is a worker inside `attach_report`: `judge` once the run is loaded
  and has no report, `call` and `case` while it waits on the transcriber and
  on the model that reads the case, `save` with the row filled in. `j.run` is
  the Django object, which nothing refreshes.
* `Judge` is `make` up to the call; `audio` stands for what else it asks:
  something was heard, a blob came, `may_send` let its size through, a key is
  set. `Failed` and `Answered` are the two arms of its `try`; `ReadCase`'s
  answer is in the shape asked for or not. `Save` meets the one-to-one key.
* `Record`, `SignIn`, `Leave`, `Plan`, `NextMonth` are what happens meanwhile.
  `told`, `purse` (the account a row was judged as), `asked` and `lost` (calls
  made on a round, and those of a worker that died or came second) are history.
* `Transcriber` has one action per request of `transcribe`, one for each time
  the loop looks, and the sleep; `Send` takes up to `Slow`, or fails at once
  or at the timeout. The socket's timeout is per read and is taken for the
  whole request. `Tick` past `Patience` is gunicorn ending the worker.

### How Bank corresponds to the code

* A row is a prompt or a passage: two tables, two passes of one shape.
  `seeding` is what the pass has loaded (`existing`, `built_in`); `SeedEnds`
  is the transaction: `Written`, line after line (`Read`) in the order they
  are read, then the sweep, then the genres. `Clash` is the two unique constraints. `off` is
  history: what the operator decided.
* `Offered` is `/topics/bank`; `Named` is `_bank_topics`, of prompts.

### Abstractions

Time is integer ticks: what matters is the order of the throttle, the grace
window, a period and a pass. A payment id is a pair of its session and the
attempt; attempt 0 is a subscription's latest renewal charge, which carries
the reference but no checkout session (`dodo.py:216-222`). The three words of
`SUBSCRIPTION_OVER` and the two of `DEAD` are each one word. An answer's
optional fields (`Omits`) are present or not nondeterministically.

## 3. Runs

| Run | Instance | Shows |
|---|---|---|
| `refresh_race` | 2 workers and an open form; *renewals*: 1 subscription, *abroad*: and another's session to name, *passes*: 2 passes; times 0 to 2, period 1, outages, answers without a date or a subscription's id, a row marked refunded (2.1 million states) | `TypeOK`, `PaidIsBound`, `DatesPaidFor`: no copy or form, however stale and late it is saved, dates a subscription beyond what it is paid to, or now, by more than the grace window; `PassesStack` |
| `serial` | 1 worker and an open form; *ledger*: 2 references, one-time plans, gifts, *subscriber*: 1 subscription, times to 6, period 2, every provider event; outages, workers that die (2.1 million states) | `RefundSaidOnFlip`, `KeepsLedger` (refinement), `PaidTimeKept`, `AskedAtMostHourly` |
| `buyer_returns` | 1 worker, 1 pass, outages, `FairSpec` | `PaymentBecomesPro` violated: a finding |
| `recurring_expires` | 1 worker, 1 subscription, outages | `RecurringExpires` violated: a finding |
| `streaks` | 7 days, two clocks a date apart, 2 freezes in 4 days, rules of 2 (free), 3 and 6 days, a run in flight over a sign-in | `TypeOK`, `ShownIsTrue` (`BestShown`: the greedy walk is the best chain the rule forgives; `PitchIsTrue`), `NothingCostsADay` |
| `accounts` | 2 browsers, 3 people, 2 calls in flight, 4 or 5 calls a history, 5 scenes | `MembersTypeOK`, `LockedOut` (`LeftClean`, `OldPasswordIsDead`), `LinkKeepsWorking`, `CommissionIsOwed` |
| `round` | 3 pages, 3 links, 2 remembered preferences, 2 speeds, lengths of 0 to 1 s with loops half a second late, 1 setting moved | `TypeOK`, `ScreenIsServed` (`ClockServesPhase`, `ScreenHasTopic`), `WrittenIsTrue`, `DrawnAsChosen`, `FollowsFlow` (refinement), `NothingHangs` (liveness) |
| `listening` | 2 rounds, any answer to the prompt, a stop overtaken by a press | `TypeOK`, `MicrophoneInHand`, `SoundIsOfTheMinute` (`HeardIsOfTheMinute`, `OffIsOff`), `RoundClosed` (liveness) |
| `editor` | 2 pages, 2 texts, 2 rows ever and 1 at once, 1 generation a month, 3 presses, every call overtaking (1.3 million states) | `TypeOK`, `StalePagesHarmless` (`AllowanceKept`, `LastWriterSees`), `PublicLink` (`PrivatePictures`, `LinkDiesForGood`), `ControlsComeBack` (liveness) |
| `insights` | 9 frames, 5 words, 2 leaned-on words of which a report names 1, 6 rounds, 3 sentences, 100 days | `MinuteReadBack`, `WordsReadBack`, `PagesAgree`, `SilentRoundsMoveNothing` |
| `reports` | 2 workers; *month*: 3 rounds, 1 account, 2 months, allowances of 2 and 3 against calls of 2; *twice*: a round posted twice, workers that die, any answer; *call*: poll 5, sleep 2, requests of 0 to 1 or a timeout of 6, a job that ends at any moment | `ReportsTypeOK`, `MonthIsCounted` (`OverrunBounded`, `FailedCallSpends`), `ToldIsKept`, `PollIsBounded` (`ReadyIsHeard`, `HeldAtMost`) |
| `bank` | 2 genres, 4 texts, 6 editions of the files, 3 seeds, somebody's own copy of a line | `BankTypeOK`, `SeedKeepsItsWord` (`SwitchedOffStaysOff`, `SeedSettlesBank`, `LinksSurvive`) |

A name in parentheses is a part of the one before it, a definition of its own
in the module. Two runs end in a counterexample: the statement is the
repository's, and PROJECT.json quotes it under `findings`.

The bounds, and why they are enough:

* *Checkout.* Two workers and one open form are the least in which a save
  is stale twice over; two references the least in which a payment or a
  subscription is somebody else's, or two passes overlap. `serial` is where a
  property about a request's whole effect is checked, so one worker is its
  meaning, and the form is what moves underneath it, or is itself overtaken:
  opened on a row that is then settled, gifted beside or refunded. Its six
  ticks reach two renewals, a hold and an end. The scenes open forms on the
  first row only; in *renewals* on a paid row, saved once at a time, with no
  subscription in the return URL and no announcement made twice (`FewNews`);
  in *abroad* the second session is paid and never settled, and its
  subscription is not renewed (`Abroad`). In *subscriber* no form is open:
  `PaidTimeKept` and `AskedAtMostHourly` fail with one (below). No row is
  deleted and no column but the status retyped.
* *Streaks.* A window of four within seven days lets a third missed day fall
  inside the window of the first, on its edge, and clear of it.
  `ClaimNeverCosts` leaves out runs dated after today. `EachDayCounts`
  leaves out a clock two dates behind the newest run, which one date of
  difference between clocks does not allow.
* *Accounts.* Four calls are a sign-in, a run, a sign-out and one more that
  was in flight all along; two people on two browsers are the least in which
  a device, a link, an address or a stem is wanted by both. Each account has
  at most two passwords, which is one to be old.
  Five calls let a refused sign-out come late: its answer turns the era, and a
  sign-in asked before it is answered after. `BuyerIsWhole` (section 4) holds
  throughout the run: only one scene buys, and nobody in it signs in to an
  account that is being created.
* *Round.* Lengths of half seconds make every rounding go both ways; a pool
  of two and one is the least that runs dry and that lacks what was asked for.
* *Listening.* Two takes are the least in which sound is another's; a third
  is what `NothingOlder`, below, needs. A press
  overtakes a stop (`Overtaken`) only where the code lets one: on the done
  screen and when the round is left.
* *Editor.* Three calls are the least in which two overlap and a third comes
  in on what they left: a generation during a generation, an answer drawn
  after a later one, a picture during a share. What the overlap costs is what
  the properties leave to `slipped`, `atOnce` and `tangled`; without it the
  statements fail, and they are in the table below.
* *Insights.* The constants keep the order and the gaps of the code's edges at
  a scale where every comparison goes both ways and both ways at equality; a
  stall may fall between a good start (2) and a long one (4). A report names
  fewer crutch words than are leaned on, as `analysis.py:293` cuts 14 to 3.
* *Reports.* The overrun takes as many rounds as workers, and one more to
  have something to overrun; two months let a row be judged in one and written
  in the next. `Within` leaves to each scene what the others do: in *month*
  no worker dies, every call that answers is heard as the longest there is and
  no model reads; in *twice* there is one round and one month. `Alike`
  permutes the workers, which no property names. `Browsers` is one: a second
  is another account's or an account of two devices, which `Accounts` has.
* *Transcriber.* Poll and sleep are chosen coprime, so a look falls before,
  at and after the deadline. `Patience` is past every deadline of the run:
  what it would end is the statement `TimingSurvives`, below.
* *Bank.* The editions are the kinds of edit that keep a line's words, each
  one edit away from `Two`: moved, merged, a genre left off the list, a slug
  renamed, a line dropped. Three seeds are there, away and back; an id is any
  number, so how many rows there come to be is bounded by the seeds alone.
  `Overlap` is off: the form is not open while a seed runs.

`CHECK_DEADLOCK FALSE` is used where every job, event, press or input of the
instance can run out.

Fairness. *Checkout:* a worker whose call is answered goes on, an ask that is
repeated is answered in the end (`SF` of `AnswerPayment`), pages go on being
opened, and the provider's page sends the buyer to the done page once after
the payment (`Redirected`). Nothing brings the buyer there again: there is no
webhook and no job, and the receipt is mailed after the settlement with a link
that names the reference alone. *Round:* the reel
settles (its strip stops or a timeout stands in for it), time passes and the
interval fires; nothing is assumed of the visitor. *Listening:* a recorder
that was stopped hands over its last chunk, and the server answers or the
call fails; the prompt may wait for ever. *Editor:* a call that was sent is served
and answered, or lost.

Where a property leaves something out, its comment and its hazard say what:

* `DatesPaidFor` says nothing of a row without a date (`RecurringExpires`),
  nor whose subscription the row names (`SubscriptionIsOwn`).
* `PassesStack` leaves out a pair in `blind`: two settles that did not see each
  other, and a form that put an old date back.
* `PrivatePictures` leaves out a picture whose upload a link overtook
  (`PicturesNeverShared`); `AllowanceKept` allows one generation for each that
  was served beside another (`MonthIsTheCeiling`); `LastWriterSees` is of a
  page with nothing else out, when the link did not turn while its route was
  at work (`SharingKeepsRows`).
* `HeadlineAgrees` does not ask of a minute called steady that its start and
  pace be in their bands (`SteadyMeansInside`). The marks a report without
  times shows are compared with the ring for the words it names
  (`MarksAreTheRing`).
* `LeftClean` leaves out a browser whose very first call is still in flight
  when somebody signs in and out: its answer brings a device of its own.
* `MinuteReadBack` leaves out a gap longer than the hangover and shorter than
  a pause, which no number reports: the bar ends early by that much. It
  leaves out the edge where the headline and the band compare differently.
* `WordsReadBack` compares the two clocks only where they agree; it leaves
  out a token without letters inside a restart, whose underline falls on
  another word, and a fit that rounds up to 100 beside a dial that warns.

### What the repository says and the code does not do

Each is stated in its module, next to the property it would strengthen; TLC
finds it false on the instance named (the run's, with what differs). The first
two are the runs that end in a counterexample; no run repeats the others. A design that keeps them would be a change of the code.

| Statement | Instance | What happens instead |
|---|---|---|
| `Checkout.PaymentBecomesPro` (`apis.py:115-116`: "the link in the receipt settles it whenever they come back"; `app/pro/done/page.tsx:110`: "Nothing is lost") | `buyer_returns` | an outage in the one settle the redirect makes leaves the row pending: the receipt is mailed once the row is paid (`checkout.py:147`), and its link has no payment to read (`checkout.py:473`, `102-104`) |
| `Checkout.RecurringExpires` (`plans.py:5-6`: "its entitlement carries an expiry re-read from the provider") | `recurring_expires` | a first charge saved and a subscription whose first read failed are a paid row with no expiry, which `due` skips: Pro for ever |
| `Checkout.RefundStands` | `refresh_race` | a refund marked while a re-read waits is overwritten by its save |
| `Checkout.AnnouncedOnce` | `refresh_race` | two settles of one pending row are announced and receipted twice |
| `Checkout.SubscriptionIsOwn` (`apis.py:106-107`: "trusted for nothing beyond naming what to go and read") | `refresh_race` | a payment that is the row's own, returned beside another session's subscription id and answered without one, is saved with that id (`checkout.py:123`), and the re-read dates the row by it |
| `Checkout.PassesStack` with `blind` left out | `refresh_race` | two passes settled at once cover the same days, and a form saved late puts an old date back |
| `Checkout.KeepsLedger` (`checkout.py:111-112`: "a stale one from an earlier attempt. Either way it settles nothing here") | `serial`, `Attempts = 2` | two attempts of one session carry its id both, so the return page of the declined one, opened after the other succeeded, marks the row failed, and a failed row is never settled |
| `Checkout.PaidTimeKept` (`checkout.py:233-234`: "rather than cutting somebody off on a missing date") | `serial`, `"next"` in `Omits` | a subscriber on the way to the portal is re-read while the period runs; an answer that is active and undated puts the grace window in place of the date that was stored, and the rest of the period is gone until the next answer |
| `Checkout.AskedAtMostHourly` (`checkout.py:207-209`: stamped "whatever happens", so as not "to turn into a call per page view") | `serial`, `"reread"` in `Deaths` | the stamp is saved only once the call is back: a worker that ends during the call has asked and stamped nothing, and the next page asks again |
| `Checkout.PaidTimeKept`, `Checkout.AskedAtMostHourly` | `serial`, *whole*, 1 reference | a form open on a subscription's row puts back the date, and the stamp, of when it was opened |
| `Checkout.CancellationSaidOnce` | `serial` | the flag and, days later, the finished status are each announced |
| `Checkout.RenewedIsShown` | `serial`, `FairSpec` | a renewal is learned only on the way back from the portal |
| `Streaks.LongestIsBest` | `streaks`, 1 freeze, 8 days | a day after a gap can shorten the best ever shown: ten days, two missed, nine, one missed and one read 10, after 19 the day before |
| `Streaks.EachDayCounts` without its condition on what is dated ahead | `streaks`, `Ahead = 2` | offsets of 15 hours either way (`MAX_OFFSET`) put two clocks two dates apart: with a run dated two days on, one made now by the free rule is behind the gap a walk from the newest day breaks at, and counts nothing |
| `Accounts.RunsInSight` | `accounts` | a run in flight over the sign-in is claimed by nobody, and out of sight |
| `Affiliates.LinkKeepsWorking` | `accounts`, `MCTwoDigits`, `MCTwoLooks`, `LooksAtOnce = 2` | two first looks of one account whose stem is taken each mint a code: "the other reads it back" (`affiliates/services.py:126-129`), and the first one shown names nobody |
| `Affiliates.CommissionIsOwed` | `accounts`, a scene of `signup`, `login` and `buy` | a sale begun by a second browser between an account's row and its attribution (`authentication/services.py:60-66`) is credited to its own cookie, or to nobody, and the account to somebody else |
| `Affiliates.ListAddsUp` | `accounts` | a refunded sale loses the line that added it and keeps the one that takes it back |
| `Round.HomeNeverReads` | `round`, everything staged | a staged warm-up counts in on a page with no screen for it |
| `Round.ScrollAfterLeadIn` | `round`, two sources | the lead-in of the passage that was left starts the scroll of the next |
| `Listening.OnIsHeard` | `listening` | a reset while the prompt is up leaves the next round unheard |
| `Listening.DoneIsOfThisRound` | `listening` | a slow answer puts one round's numbers under the next |
| `Listening.NothingOlder` (`voice.ts:515-517`: "what keeps prep out of the transcript and off the bill") | `listening`, 3 takes | a minute left and spoken again leaves its first recorder running; its data comes in when idle closes the stream, and a round then spoken with the report off has no mark to empty it, so it is sent |
| `Listening.ReportDecided` | `listening` | a run that could not be written pulses "Analyzing" for good |
| `Editor.PicturesNeverShared` (`owned.py:463-472`) | `editor` | the upload looks at the link before the bucket and the model, and not after: a link made meanwhile has the picture behind it |
| `Editor.MonthIsTheCeiling` | `editor` | two generations are both counted before either is written down |
| `Editor.SharingKeepsRows` (`editor.tsx:22-23`: "the page never assembles its own idea of what landed") | `editor` | `flipShare` puts the link on the genre the page held at the press (`editor.tsx:92`), without what its own paste has brought since |
| `Editor.EveryCallCounted` | `editor` | an answer the paste refuses is paid for and not counted |
| `Transcriber.TimingSurvives` (`transcribe.py:50-52`: "a smaller report rather than an error in somebody's face") | in units of 5 s: `Timeout` 9, `Poll` 8, `Every` 1, `Patience` 6 | `docker-compose.yaml:46` starts gunicorn with its default timeout of 30 s: the worker is ended before the poll of 40 gives up, and the round has no report |
| `Reports.FailedCallSpends` with `lost` left out | `reports`, *twice* | a call whose worker is ended, or of the second of two posts, is paid for and on no row |
| `Bank.SwitchedOffStaysOff` (`topics/admin.py:40-41`: "this is the kill switch and not a suggestion") | `bank`, `Overlap = TRUE` | a line switched off while a seed runs is saved on again from the row the seed loaded |
| `Bank.SeedGoesThrough` (`topics/bank.py:4-5`: "the whole content workflow") | `bank`, `Wordings` | a line reworded under the slug it had is looked for by its text, not found and inserted beside its own old row: the unique slug refuses it and the seed rolls back |
| `Bank.SharedLinkOpens` (`shared-page.tsx:13-14`: "each a link into a round on that exact prompt") | `bank`, `Comings` | `_bank_topics` does not ask whether a line is active, the round's page does |
| `Bank.LinesAreOffered` | `bank`, `Comings` | a line put back in its file stays off: the sweep and the operator leave the same mark |
| `Insights.LastSoundIsLast` | `insights` | `lastSound` leaves out every gap too short for a pause |
| `Insights.SteadyMeansInside` (`report.ts:370-372`) | `insights` | a stall of 2 to 3 seconds is "steadily the whole minute" (`report.ts:232`) over the band "Slow start" (`355-366`) |
| `Insights.MarksAreTheRing` (`report.ts:265-279`) | `insights` | the words marked in a transcript without times are those of `crutch_words`, cut to three (`analysis.py:293`), the ring counts all fourteen |
| `Insights.SilencesPlacedAnyClock` | `insights` | where the transcriber ends a word late the silence after it is dropped |
| `Insights.SameTheDayAfter` | `insights` | the silence after the last word is in no number: the day after, the same round is drawn to another scale |
| `Insights.UntimedMovesNoTrend` | `insights` | a round nothing timed counts as one without restarts |

Smaller things met on the way, which no statement covers: a staged topic
opened on a warm-up's page is written into the remembered genre of home; a
pool with everything seen may hand back the topic just refused; `pointMoved`
needs two points where the card says "once a round makes a point"; a rate of
five rounds can be said "of 3" where only three could be measured;
`DeleteGenre` leaves the page whatever the answer was; two presses of Share at
once, on two tabs, each mint a token (`runs/sharing.py:44`), and the one shown
first stops opening.

## 4. Proofs

35 theorems, in seven modules that each EXTEND what they are about and
in which every leaf is checked; `Sums` holds lemmas only. They hold for every
value of the constants that the assumptions of the modules allow: any number
of workers, references, rounds, takes, rows, tabs, people, browsers and
calls, any bank and any length. The bounds in the guards (`MaxTime`,
`MaxSends`, `MaxWord`, `Room` and the like) are constants too, so a theorem
is about every value of them.

| Module | Theorem | States | Where |
|---|---|---|---|
| `CheckoutProofs` | `TypeCorrect`, `PassesAreStacked` | `TypeOK`, `PassesStack` | always |
| | `Invariance` | the invariant the theorems rest on | always |
| | `SettledIsBound`, `TimeIsPaidFor` | `PaidIsBound`, `DatesPaidFor` | `RefundOnly` |
| | `RefundIsSaid` | `RefundSaidOnFlip` | `Alone` |
| | `LedgerIsKept` | `KeepsLedger`, the refinement of `Ledger` | `Alone`, `Attempts = 1`, `RefundOnly` |
| | `PaidTimeIsKept` | `PaidTimeKept` | `Alone`, `DatesTold`, `RefundOnly`, `"admin" \notin Jobs` |
| | `AskedHourly` | `AskedAtMostHourly` | `Alone`, `"admin" \notin Jobs`, `Deaths \cap Rereading = {}` |
| `ReportsProofs` | `CallBounded` | `PollIsBounded`, of `Transcriber` | always |
| | `MonthCounted`, `ToldKept`, `ReportsTyped` | `MonthIsCounted`, `ToldIsKept`, `ReportsTypeOK` | always |
| `ListeningProofs` | `EarsTyped`, `InHand`, `SoundTrue` | `TypeOK`, `MicrophoneInHand`, `SoundIsOfTheMinute` | always |
| `RoundProofs` | `RoundTyped`, `ScreensAreServed`, `WrittenTrue` | `TypeOK`, `ScreenIsServed`, `WrittenIsTrue` | always |
| | `FlowIsFollowed` | `FollowsFlow`, the refinement of `RoundFlow` | always |
| | `DrawnFromChoice` | `DrawnAsChosen` | `Plainly` |
| `EditorProofs` | `EditorTyped` | `TypeOK` | always |
| | `PicturesStayPrivate`, `StaleIsHarmless` | `PublicLink`, `StalePagesHarmless` | always |
| `AccountsProofs` | `MembersTyped`, `WhoeverLeftIsOut` | `MembersTypeOK`, `LockedOut` | always |
| | `LinksWork` | `LinkKeepsWorking` | `LooksAtOnce = 1` |
| | `CommissionOwed` | `CommissionIsOwed` | `[]BuyerIsWhole` |
| `WalkProofs` | `StreaksTyped`, `ShownTrue`, `NothingCosts` | `TypeOK`, `ShownIsTrue`, `NothingCostsADay`, of `Streaks` | always |
| | `BankTyped`, `LinksHold` | `BankTypeOK`, `[][LinksSurvive]_bankVars`, of `Bank` | always |
| | `SeedKeeps` | `SeedKeepsItsWord` | `~Overlap` |
| | `MinuteReadsBack` | `MinuteReadBack`, of `Insights` | always |

### What is assumed

*Of the constants* (each `ASSUME` sits in the module that declares them, and
TLC evaluates it on every run): that a reference has one owner and `None` is
nobody; that times and lengths are naturals and what is divided by is not 0;
that `None` is no plan, row or run; that sets which are counted or summed are
finite (texts, workers, rounds, takes, sales, calls); that a page's genres
hold what its lock names and a stored preference was once settable
(`BankAssumption` of `Round`, `StoredAssumption`); that fewer days are forgiven
than a window has and no plan tracks less than the free rule (`RuleAssumption`:
2 in 30, 5 days); that a file which loads names a text once and a slug once in
its genre, and that rows people wrote have ids of their own (`BankAssumption`
of `Bank`); that the run's count of half seconds
goes as far as the longest round (`RanAssumption`); that the hangover is
shorter than a pause, a pause than an awkward one and that than a long one,
and a long start later than a good one (`MinuteAssumption`: the code's
hangover, pause, awkward and long pause are 0.2, 0.3, 1.5 and 3 seconds); that no two browsers
begin with one device and no two people with one code (`MetAssumption`,
`ScenesAssumption`). `TakesAssumption` says besides that no second press falls
between the press on "check again" and the stop it made, a moment later.

*As a hypothesis of a theorem.* Each excludes an order of steps under which
section 3 shows the property false; a theorem without it would be wrong.

* `Alone`: one request at a time, with a form open across any number of
  them. `docker-compose.yaml:46` starts gunicorn with no worker count, which
  is one synchronous worker unless `WEB_CONCURRENCY` says otherwise. With two,
  an edit may be judged against a row that another one flips before it is
  saved (`RefundSaidOnFlip`), a settle may save over a refund (`KeepsLedger`),
  the older answer of two may be saved last (`PaidTimeKept`), and both load
  the row before either stamps it (`AskedAtMostHourly`).
* `RefundOnly`: the operator sets no status by hand but "refunded". The form
  offers them all, and "paid" by hand is a row paid for by nothing.
* `"admin" \notin Jobs`: no form is open, else an old date and an old stamp
  are written back.
* `Attempts = 1`: one payment to a session. With two, the return page of the
  one that was declined, opened once the other has taken the money, writes
  the row down as failed (`Checkout.KeepsLedger`, section 3).
* `DatesTold`: whoever answers for a subscription says when it renews. Else
  an undated answer may come earlier than the date it replaces.
* `Deaths \cap Rereading = {}`: no worker ends between asking and saving the
  answer, outages and every other crash allowed. The stamp is in the copy
  until then.
* `Plainly`: home's bank is not empty, no passage is staged and no link names
  one at home. With an account's own rows staged (`MCStageableOwn`)
  `HomeNeverReads` fails, and `DrawnAsChosen` with it.
* `LooksAtOnce = 1`: an account opens its page of links once at a time.
* `~Overlap`: nobody is at the operator's form while the seeder runs. With
  somebody there `SwitchedOffStaysOff` fails; types and links do not need it.
* `BuyerIsWhole`, a formula on states: no sale is begun by an account whose
  row is there and whose attribution is not. It is an assumption on the
  history, since the model lets anybody sign in to an account in between.

### The arguments

* *Checkout.* `PaidIsBound` is not inductive alone because a save writes a
  copy loaded earlier: the copy has to be bound too, the form an operator has
  open (`DeskOK`), the copy a payment answer settles still pending, and the
  subscription a charge is asked for this row's own. `IInv` is types, that
  rows, copies and the form are `Sound` (bound, if no status but "refunded" is
  set by hand), that a subscription exists only where a first charge
  succeeded (`SubsCharged`) and what a worker knows at each point (`ReqInv`).
  `Times` adds that a billing date is at most a period away and only moves on,
  so an expiry computed from an old answer is within the bound of the
  subscription it names, whosever that is (`Dated`), and that a row not paid
  for yet has no date (`Unbegun`): that is what makes a copy, however stale,
  harmless to `DatesPaidFor`. `Passes` says of a pass about to be saved that it
  lies beside what the table holds by then, and of two about to be saved that
  each was blind to the other.
* *Serial.* `SInv` ties the one worker's copies to the table, and the open
  form to the row it was opened on: a row being settled is still pending, one
  being re-read still paid, an edit announces what it flips (`Hand`), a form
  is of a row that was sold and is of the same plan (`Desk`), and a session is
  open for exactly the rows that were sold (`Opened`). One lemma shows
  that each step is a move of a status or none (`Moves`), and the
  announcements and the ledger both follow from it; a stale form is the
  ledger's `Undo` or `Restore`, the moves of a status that was read earlier.
  For the re-reads a second lemma (`NextElsewhere`) says that every other step
  leaves a paid subscription's expiry and stamp alone; what a loop has loaded
  is still what the table holds when its turn comes (`Loaded`), and the row
  being asked about is the only one whose stamp may be behind (`Stamped`). That
  an answer is no earlier than what it replaces comes from `Times`, whose bound
  under `DatesTold` is the billing date alone.
* *Reports.* `ReportsInv`: a worker's run, loaded before a claim, is of its
  owner if it had one; a call begun is charged; and each account's month has
  room for the most that each call in hand may be charged (`RoomLeft`), which
  is what bounds the overrun by the number of workers. `Charged` is a sum
  over rows, so the step that writes one needs `Sums`. In the *twice* scene
  the same invariant says a report told of is never written over.
* *Transcriber.* `OnTime` bounds the next moment of each stage by those
  before it, and `LastSeen` says what the last answer says of the job.
* *Listening.* A stop is asynchronous, so the invariant says where the page
  may have got to while one flushes (`Pending`), what a stop for a run will
  hand over (`Flushes`), that whatever is adrift or left over is of a take
  that never will be (`Counted`), and that a minute spoken with the report
  on has been heard alone (`Minute`). Half of the module is one lemma per
  operation of `Ears`.
* *Round.* Home is idle exactly while it shows nothing (`AtHome`), a
  feature's page knows no minute (`AtFeature`), only a warm-up is read out
  (`Middles`), and what the clock says has gone has (`Gone`); `Gone` makes the
  seconds written true. `DrawnAsChosen` needs besides that the preferences in
  hand are the ones stored (`FromChoice`).
* *Editor.* Links minted and calls not yet served are together at most the
  calls sent, without which a number given to a link could be used twice
  (`Typed`). Where an upload is being served the link is off, or newer than
  every link its route could have found (`Private`): a picture that lands
  under a link is therefore in `slipped`. What is spent and what is at work
  are together at most the month and those let in beside another (`Allowed`).
  A page out of a tangle has one call out at most (`Lone`), what its route
  found is still so while the page counts as up to date (`Steady`), and it
  shows, or is about to be told, what the server holds (`UpToDate`).
* *Accounts.* `Known` is types and what a handler goes by between its check
  and its write. `Apart`: a device is met, in a jar, on a call or on a run, of
  one browser, and in one era if the browser began with a device;
  `Open`: whoever a browser is signed in as, it signed in to in that era.
  `LockedOut` is about jars and runs, and is inductive only with the
  same said of the cookies on every call in flight and of the devices that
  answers are still to hand out. `Linked` and `Sold` say of a
  call past its look at a code, or at a referrer, that the look still holds;
  `Owed` that the sum in the payout tool's hand is still earned, refunded
  sales included.
* *Streaks.* The code checks each frozen day against the second one after it
  and calls that "the whole rule"; `ApartIsAllowed` is that claim, for any
  window and any allowance: days spaced so are days of which no window holds
  more than `Freezes`, by the rank of a day in a finite set. At every step of
  a walk the chain held is what its record says (`True`, `Along`): all the
  days practised since its oldest one, the days missed between them, forgiven.
  Where it stops nothing longer is forgiven (`WalkIsLongest`), because the
  next day back would have to be in any longer chain. The longest streak meets
  the chain the walk ends with (`LongestCovers`), a longer rule only walks further
  (`LongerRule`), and more days never break a chain (`Grown`, `DayAdded`,
  `ClaimAdds`). What a walk comes to after n steps is an induction over n,
  done as a least counterexample.
* *Bank.* `BankInv` says of the tables what the two unique constraints say,
  and of what a seed or a form has loaded that a row of that id is still
  there, with that text and slug (`Mirrors`). While lines are read, every row
  is one that was there or one a line made (`Going`, `Sourced`), and a row
  marked seen is a line's. The sweep leaves what was seen. `InTurn` adds,
  without `Overlap`, that what is loaded is what the table holds, which is
  what keeps a switched-off line off.
* *Minute.* While frames are heard, the stretches cut so far lie apart and
  the one being heard is further from the last than the hangover bridges
  (`Heeding`, `FrameHeeds`): the one place where the hangover, counted down
  frame by frame, has to agree with the gaps it leaves. Clipped to the round
  they are still the first so many of themselves (`ClipIs`), so what `_clean`
  sorts and merges is already sorted and never touches. The bar of the
  timeline runs from nought to where its last stretch ends (`Drawn`); the bar
  rebuilt from the report is one block behind it at every pause (`InStep`),
  and catches up because the silence before the round, the pauses and the
  speaking add up to the end of the last stretch (`AddsUp`). That last needs
  every gap to have been reported, the one `SameBar` and `WordsDrawn` name.

What the proofs turned up: two `CASE`s whose guards overlapped, where the code
has an `if` with an `else`, are written so; `opened` had to know the era an
answer arrives in, since a sign-in answered after a late sign-out is of the
era after; what `CommissionIsOwed` and `KeepsLedger` need is more than one
small instance happened to say; `NothingOlder`, which looked like a part
of the invariant of `Listening`, is false; and `EachDayCounts` holds of clocks
one date apart, where the code admits two.

### Only model-checked

* `WordsReadBack`, `PagesAgree` and `SilentRoundsMoveNothing` of `Insights`,
  and the operators they are about (`ReadBack`, `ReportPage`, `Progress`,
  `ProgressPage`): inductions over data. The library's induction theorems take
  an operator as a parameter, which the installed provers cannot instantiate.
  `Sums` does without, for a recursion over finite sets, and so do the walks of
  `WalkProofs`, by a least counterexample to a recursive function written out
  for each. What is left picks with `SelectSeq` and folds, whose recursion the
  prover cannot unfold, and carries several values through rounding and
  quantiles.
* `NothingHangs`, `RoundClosed` and `ControlsComeBack`:
  liveness under fairness, out of the prover's reach.

## 5. Not modelled, and why

Prices, currencies and display (arithmetic on a table), mail and chat text,
rate limits (a library's counter behind a wrapper that fails open), the
public link's token (planned), the return rate of `retention.py` (a count over
cohorts), HTTP and parsing in `dodo.py` and `google.py`, rendering with no
state of its own.
Within what is modelled: the price-drift announcement is folded into `Tell`;
`Streaks` leaves out the totals and the parsing of a time zone; `Accounts`
the hour of a link, the month of a session and an identity whose address
changed; `Affiliates` the arithmetic of a commission; `Ears` loudness in
decibels and the audio graph; `Editor` `MAX_GENRES`, the bucket and the
picture's checks; `ReadBack` repeated phrases, the cloud's layout and the
prompt of the argument reading.

## 6. Plan

1. The ledger with more than one attempt: either `Ledger` says what the
   code does with a declined attempt read late, or the proof is for a session
   whose declined attempts come before the one that succeeds and are read
   before it.
2. The case cards (`UnreadMovesNothing`) and `SidesApart`, which are
   arithmetic on counts, with the selections of `Progress` written as `Picked`
   is in `Minute`.
3. `Shares`: the public link's token from the streak page and the account
   page, calls lost on either way; types, and that a stopped link is dead for
   good.
