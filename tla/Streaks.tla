------------------------------ MODULE Streaks ------------------------------
(* Streaks are derived from runs and never stored (apps/runs/streaks.py).   *)
(* This module keeps whose runs there are, as the days they are dated by,   *)
(* and reads the numbers a page shows off them.                             *)
(*                                                                          *)
(* A run is dated by the clock that made it, today by the clock asking.     *)
(* `now` is the date at the westernmost clock; any other clock shows that   *)
(* date or one up to Ahead days later, which is all a UTC offset does to a  *)
(* date.                                                                    *)
EXTENDS Integers, FiniteSets, FiniteSetsExt

CONSTANTS
    Freezes,      \* FREEZES_PER_WINDOW, 2
    Window,       \* FREEZE_WINDOW_DAYS, 30
    FreeDays,     \* FREE_DAYS, 5
    ProDaysMax,   \* PRO_DAYS_MAX, 365
    Tracks,       \* the plans' `tracks`, in days
    Ahead,        \* how many dates ahead a clock may be
    LastDay       \* bound: the days of the instance

ASSUME RuleAssumption ==
    /\ {Freezes, Window, FreeDays, ProDaysMax} \subseteq Nat \ {0}
    /\ Freezes < Window
    /\ FreeDays <= ProDaysMax
    /\ \A t \in Tracks : t \in Nat /\ FreeDays <= t
ASSUME ClockAssumption == Ahead \in Nat /\ LastDay \in Nat

VARIABLES
    now,        \* today, westernmost
    device,     \* days of this browser's unclaimed runs
    account,    \* days of the account's runs, from whichever device
    signedIn,   \* whether this browser holds a session of the account
    plan,       \* `tracks` of the plan the account holds, 0 for none
    posting,    \* whether a run is in flight that was read as nobody's
    stray       \* days of runs written as nobody's after the sign-in (history)

vars == <<now, device, account, signedIn, plan, posting, stray>>

Days == 0 .. LastDay + Ahead

-----------------------------------------------------------------------------
(* The rule a streak is counted under.                                      *)

Free == [days |-> FreeDays, freezes |-> FALSE]

ProRule(planDays) ==
    [days |-> Max({1, Min({planDays, ProDaysMax})}), freezes |-> TRUE]

Rule == IF signedIn /\ plan # 0 THEN ProRule(plan) ELSE Free

(* Whose runs this browser counts.                                          *)
Owned == IF signedIn THEN account ELSE device

LocalDate(ahead) == now + ahead

-----------------------------------------------------------------------------
(* The walk: practice days newest first, a chain kept as its oldest day so  *)
(* far, how many days it counts and the missed days it has frozen.          *)

Missed(earlier, later) == earlier + 1 .. later - 1

Earlier(days, day) == {d \in days : d < day}

(* Of some missed days in order, each against the Freezes-th after it.      *)
Apart(missed, least) ==
    \A early, late \in missed :
        Cardinality(missed \cap (early .. late - 1)) = Freezes => late - early >= least

(* Seeded fault: a window one day longer than documented.                   *)
FreezableLess(earlier, later, spent) ==
    /\ Cardinality(Missed(earlier, later)) <= Freezes
    /\ Apart(spent \cup Missed(earlier, later), Window + 1)

(* _freeze: whether the days between two practice days can be covered,      *)
(* given those already frozen. The spacing form of "two in any window".     *)
Freezable(earlier, later, spent) ==
    /\ Cardinality(Missed(earlier, later)) <= Freezes
    /\ Apart(spent \cup Missed(earlier, later), Window)

Starting(day) == [oldest |-> day, count |-> 1, spent |-> {}]

Reaches(chain, earlier, rule) ==
    \/ chain.oldest - earlier = 1
    \/ rule.freezes /\ Freezable(earlier, chain.oldest, chain.spent)

Extended(chain, earlier) ==
    [oldest |-> earlier,
     count  |-> chain.count + 1,
     spent  |-> chain.spent \cup Missed(earlier, chain.oldest)]

Alive(days, today) == days # {} /\ Max(days) >= today - 1

(* _walk: the chain ending today or yesterday, stopped at the rule's        *)
(* length. A row may be dated after today.                                  *)
GoesOn(chain, days, rule) ==
    /\ chain.count < rule.days
    /\ Earlier(days, chain.oldest) # {}
    /\ Reaches(chain, Max(Earlier(days, chain.oldest)), rule)

Onward(chain, days, rule) ==
    IF GoesOn(chain, days, rule)
    THEN Extended(chain, Max(Earlier(days, chain.oldest)))
    ELSE chain

Walked(days, rule) ==
    LET walked[n \in 0 .. Cardinality(days)] ==
            IF n = 0 THEN Starting(Max(days)) ELSE Onward(walked[n - 1], days, rule)
    IN  walked[Cardinality(days)]

Walk(days, today, rule) ==
    LET chain == Walked(days, rule)
    IN  IF Alive(days, today)
        THEN [streak |-> chain.count, frozen |-> chain.spent]
        ELSE [streak |-> 0, frozen |-> {}]

(* _longest: the best chain met walking back from the newest day; each      *)
(* break starts a chain with a fresh allowance.                             *)
OnwardOrAnew(chain, days, rule) ==
    LET earlier == Max(Earlier(days, chain.oldest))
    IN  IF Reaches(chain, earlier, rule) THEN Extended(chain, earlier) ELSE Starting(earlier)

Met(days, rule) ==
    LET met[n \in 0 .. Cardinality(days) - 1] ==
            IF n = 0 THEN Starting(Max(days)) ELSE OnwardOrAnew(met[n - 1], days, rule)
    IN  {met[n] : n \in 0 .. Cardinality(days) - 1}

Longest(days, rule) ==
    IF days = {} THEN 0 ELSE Min({rule.days, Max({chain.count : chain \in Met(days, rule)})})

(* summary's numbers, for a request whose clock is `ahead`.                 *)
Streak(ahead) == Walk(Owned, LocalDate(ahead), Rule).streak

(* Seeded fault: freezes, but the free rule's length.                       *)
WouldBeShort(ahead) ==
    Walk(Owned, LocalDate(ahead), [Free EXCEPT !.freezes = TRUE]).streak

WouldBe(ahead) ==
    IF Rule.freezes THEN Streak(ahead)
    ELSE Walk(Owned, LocalDate(ahead), ProRule(ProDaysMax)).streak

-----------------------------------------------------------------------------
Init ==
    /\ now = 0
    /\ device = {}
    /\ account = {}
    /\ signedIn = FALSE
    /\ plan = 0
    /\ posting = FALSE
    /\ stray = {}

NextDay ==
    /\ now < LastDay
    /\ now' = now + 1
    /\ UNCHANGED <<device, account, signedIn, plan, posting, stray>>

(* Seeded fault: the offset's sign is the browser's, minutes west.          *)
RecordWest(ahead) ==
    /\ now >= ahead
    /\ IF signedIn
       THEN account' = account \cup {now - ahead} /\ UNCHANGED device
       ELSE device' = device \cup {now - ahead} /\ UNCHANGED account
    /\ UNCHANGED <<now, signedIn, plan, posting, stray>>

(* POST /runs from this browser: an account's run if somebody is signed in. *)
Record(ahead) ==
    /\ IF signedIn
       THEN account' = account \cup {LocalDate(ahead)} /\ UNCHANGED device
       ELSE device' = device \cup {LocalDate(ahead)} /\ UNCHANGED account
    /\ UNCHANGED <<now, signedIn, plan, posting, stray>>

(* The same request in two steps: whose run it is is read off the cookies    *)
(* (_who) before the row is written, and a sign-in may come between.        *)
PostRun ==
    /\ ~signedIn /\ ~posting
    /\ posting' = TRUE
    /\ UNCHANGED <<now, device, account, signedIn, plan, stray>>

WriteRun(ahead) ==
    /\ posting /\ posting' = FALSE
    /\ device' = device \cup {LocalDate(ahead)}
    /\ stray' = IF signedIn THEN stray \cup {LocalDate(ahead)} ELSE stray
    /\ UNCHANGED <<now, account, signedIn, plan>>

(* From another device of the account, or from this one in flight over a    *)
(* sign-out.                                                                *)
RecordElsewhere(ahead) ==
    /\ account' = account \cup {LocalDate(ahead)}
    /\ UNCHANGED <<now, device, signedIn, plan, posting, stray>>

(* Seeded fault: the claim leaves the device its runs.                      *)
LogInCopying ==
    /\ ~signedIn
    /\ signedIn' = TRUE
    /\ account' = account \cup device
    /\ UNCHANGED <<now, device, plan, posting, stray>>

(* Django's login signal claims the device's unclaimed runs.                *)
LogIn ==
    /\ ~signedIn
    /\ signedIn' = TRUE
    /\ account' = account \cup device
    /\ device' = {}
    /\ UNCHANGED <<now, plan, posting, stray>>

(* Signing out hands the browser a fresh device; what is still in flight    *)
(* is written under the old one.                                            *)
LogOut ==
    /\ signedIn
    /\ signedIn' = FALSE
    /\ device' = {} /\ stray' = {} /\ posting' = FALSE
    /\ UNCHANGED <<now, account, plan>>

(* Pro is bought, changes or lapses: only the rule changes.                 *)
ChangePlan ==
    /\ plan' \in ({0} \cup Tracks) \ {plan}
    /\ UNCHANGED <<now, device, account, signedIn, posting, stray>>

Next ==
    \/ NextDay
    \/ \E ahead \in 0 .. Ahead :
          Record(ahead) \/ RecordElsewhere(ahead) \/ WriteRun(ahead)
    \/ PostRun
    \/ LogIn
    \/ LogOut
    \/ ChangePlan

Spec == Init /\ [][Next]_vars

-----------------------------------------------------------------------------
(* What the rule says, with no walk in it. A set of practice days, read as  *)
(* one chain, misses the days between its ends; the rule forgives them if   *)
(* no Window of days holds more than Freezes of them.                       *)

Holes(chain) == {d \in Days : Min(chain) < d /\ d < Max(chain)} \ chain

Forgiven(chain, rule) ==
    \/ Holes(chain) = {}
    \/ /\ rule.freezes
       /\ \A d \in Holes(chain) :
             Cardinality(Holes(chain) \cap (d .. d + Window - 1)) <= Freezes

(* The chains that may be read off some days: runs of consecutive practice  *)
(* days, that is everything practised between two of them.                  *)
Between(days, first, last) == {d \in days : first <= d /\ d <= last}

ChainsBackFrom(days, last, rule) ==
    {c \in {Between(days, first, last) : first \in {d \in days : d <= last}} :
        Forgiven(c, rule)}

BestCount(chains, rule) ==
    Min({rule.days, Max({Cardinality(c) : c \in chains})})

-----------------------------------------------------------------------------
(* A sign-in leaves no run of the browser's unclaimed but one in flight     *)
(* over it, which was read as nobody's before and written after.            *)
TypeOK ==
    /\ now \in 0 .. LastDay
    /\ device \subseteq Days
    /\ account \subseteq Days
    /\ signedIn \in BOOLEAN
    /\ plan \in {0} \cup Tracks
    /\ posting \in BOOLEAN
    /\ stray \subseteq Days
    /\ signedIn => device \subseteq stray

(* One greedy walk that spends freezes as it meets gaps (_walk, _freeze)    *)
(* shows the longest chain the rule forgives, on whichever clock it is      *)
(* asked, and freezes exactly the days that chain missed.                   *)
StreakIsBest ==
    \A ahead \in 0 .. Ahead :
        LET walk == Walk(Owned, LocalDate(ahead), Rule)
        IN  /\ walk.streak = 0 <=> ~Alive(Owned, LocalDate(ahead))
            /\ walk.streak > 0 =>
                  /\ walk.streak = BestCount(ChainsBackFrom(Owned, Max(Owned), Rule), Rule)
                  /\ \E first \in Owned :
                        LET shown == Between(Owned, first, Max(Owned))
                        IN  Cardinality(shown) = walk.streak /\ walk.frozen = Holes(shown)

(* The best chain ever can never come out shorter than the streak running   *)
(* today (_longest).                                                        *)
LongestCoversStreak ==
    \A ahead \in 0 .. Ahead : Longest(Owned, Rule) >= Streak(ahead)

(* Both readings of one history are honest (streaks.py summary).            *)
BestShown == StreakIsBest /\ LongestCoversStreak

(* The pitch to somebody on the free rule is true: a plan would show the    *)
(* number would_be says, up to the length that plan tracks.                 *)
PitchIsTrue ==
    \A ahead \in 0 .. Ahead, t \in Tracks :
        ~Rule.freezes =>
            Walk(Owned, LocalDate(ahead), ProRule(t)).streak
                = Min({WouldBe(ahead), ProRule(t).days})

(* The number shown and the number promised are both true.                  *)
ShownIsTrue == BestShown /\ PitchIsTrue

(* A run on a day not practised yet raises the number the same clock shows  *)
(* by at least one, until the rule's length; on any day, it leaves the      *)
(* streak alive and no shorter. A run from a clock two dates ahead would    *)
(* stand apart from the day, and a walk begins at the newest.               *)
EachDayCounts ==
    [][\A ahead \in 0 .. Ahead :
          Record(ahead) /\ (\A d \in Owned : d <= LocalDate(ahead) + 1) =>
              Walk(Owned', LocalDate(ahead), Rule).streak >=
                  Min({Rule.days,
                       IF LocalDate(ahead) \in Owned
                       THEN Max({1, Streak(ahead)})
                       ELSE Streak(ahead) + 1})]_vars

(* Signing in never costs the streak the browser was showing, provided no   *)
(* run of either side is dated after today: the claim adds the device's     *)
(* days to the account's (claim_device).                                    *)
ClaimNeverCosts ==
    [][\A ahead \in 0 .. Ahead :
          LogIn /\ (\A d \in device \cup account : d <= LocalDate(ahead))
              => Walk(Owned', LocalDate(ahead), Rule').streak >= Streak(ahead)]_vars

(* Neither practising nor signing in costs a day, on the clocks named above *)
(* (record, claim_device).                                                  *)
NothingCostsADay == EachDayCounts /\ ClaimNeverCosts

(* "The best chain there has ever been under the same rule" (_longest's     *)
(* docstring): as long as the best chain ending on any practice day.        *)
LongestIsBest ==
    Owned # {} =>
        Longest(Owned, Rule)
            = BestCount(UNION {ChainsBackFrom(Owned, d, Rule) : d \in Owned}, Rule)

=============================================================================
