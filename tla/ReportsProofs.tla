---------------------------- MODULE ReportsProofs ----------------------------
(***************************************************************************)
(* Reports and Transcriber, for every number of workers, browsers and      *)
(* rounds, and for every length of a request, a poll and a sleep.          *)
(***************************************************************************)
EXTENDS MCReports, Sums, TLAPS

-----------------------------------------------------------------------------
(* The polled call.                                                        *)

LEMMA CallTimes ==
  /\ Timeout \in Nat /\ Timeout > 0 /\ Poll \in Nat /\ Poll > 0 /\ Every \in Nat /\ Every > 0
  /\ Patience \in Nat /\ Horizon \in Nat /\ Slow \in Nat /\ Slow <= Timeout
  <1>1. \A n \in {Timeout, Poll, Every, Patience, Horizon} : n \in Nat \ {0}
    BY TranscriberAssumption
  <1>2. QED
    BY <1>1, TranscriberAssumption

Latest == 2 * Slow + Poll + Every + Timeout

\* The moment a call goes on, at each stage of it.
OnTime ==
    /\ now <= wake /\ wake < Latest
    /\ stage = "upload" => wake = 0
    /\ stage = "start" => wake <= Slow
    /\ stage = "begun" => wake <= 2 * Slow
    /\ stage = "ask" => wake < deadline + Every
    /\ stage = "look" => now + Slow >= wake

\* What the last answer says of the provider's job, and what a call that gave
\* up without a failure knows of it.
LastSeen ==
    /\ stage \in {"begun", "ask", "look"} => transcript # "none"
    /\ stage = "look" => seen # "none"
    /\ stage = "look" /\ seen \in {"completed", "error"} => transcript = seen
    /\ stage = "look" /\ seen = "queued" /\ transcript # "queued" => doneAt + Slow >= wake
    /\ stage = "fail" => dropped
    /\ stage = "nothing" /\ ~dropped =>
          \/ transcript = "error"
          \/ transcript = "queued" /\ now >= deadline
          \/ transcript = "completed" /\ doneAt >= deadline - Slow

CallInv == CallTypeOK /\ OnTime /\ LastSeen

CallRest ==
    /\ now \in 0..Horizon /\ wake \in Nat /\ deadline \in 0..(2 * Slow + Poll) /\ doneAt \in 0..Horizon
    /\ stage \in Over \cup {"upload", "start", "begun", "ask", "look", "fail"}
    /\ transcript \in {"none", "queued", "completed", "error"} /\ seen \in {"none", "queued", "completed", "error"}

LEMMA CallBegins == CallInit => CallInv
  <1> SUFFICES ASSUME CallInit PROVE CallInv
    OBVIOUS
  <1>1. CallRest
    BY CallTimes DEF CallInit, CallRest, Over
  <1>2. OnTime
    BY CallTimes DEF CallInit, OnTime, Latest
  <1>3. LastSeen
    BY CallTimes DEF CallInit, LastSeen
  <1>4. dropped \in BOOLEAN
    BY DEF CallInit
  <1>5. QED
    BY <1>1, <1>2, <1>3, <1>4, Zenon DEF CallInv, CallTypeOK, CallRest

LEMMA CallGoesOn == CallInv /\ [CallNext]_callVars => CallInv'
  <1> SUFFICES ASSUME CallInv, [CallNext]_callVars PROVE CallInv'
    OBVIOUS
  <1>0. CallRest /\ dropped \in BOOLEAN /\ OnTime /\ LastSeen
    BY Zenon DEF CallInv, CallTypeOK, CallRest
  <1>d. (dropped \in BOOLEAN)'
    BY <1>0, Zenon DEF CallNext, callVars, Upload, Start, Begun, Ask, Look, Fail, Finish, Tick, Send
  <1>r. (CallRest /\ OnTime /\ LastSeen)'
    <2> USE <1>0, CallTimes DEF CallRest, OnTime, LastSeen, Latest, Over
    <2>1. CASE Upload
      BY <2>1 DEF Upload, Send
    <2>2. CASE Start
      <3>1. CallRest'
        BY <2>2 DEF Start, Send
      <3>2. OnTime'
        BY <2>2 DEF Start, Send
      <3>3. LastSeen'
        BY <2>2 DEF Start, Send
      <3>4. QED
        BY <3>1, <3>2, <3>3
    <2>3. CASE Begun
      BY <2>3 DEF Begun
    <2>4. CASE Ask
      BY <2>4 DEF Ask, Send
    <2>5. CASE Look
      BY <2>5 DEF Look, Answer, Sleep
    <2>6. CASE Fail
      BY <2>6 DEF Fail
    <2>7. CASE Finish
      BY <2>7 DEF Finish
    <2>8. CASE Tick
      BY <2>8 DEF Tick
    <2>9. CASE UNCHANGED callVars
      BY <2>9 DEF callVars
    <2>10. QED
      BY <2>1, <2>2, <2>3, <2>4, <2>5, <2>6, <2>7, <2>8, <2>9 DEF CallNext
  <1>q. QED
    BY <1>d, <1>r, Zenon DEF CallInv, CallTypeOK, CallRest

LEMMA CallIsBounded == CallInv => PollIsBounded
  BY CallTimes DEF CallInv, CallTypeOK, OnTime, LastSeen, Latest, PollIsBounded, ReadyIsHeard, HeldAtMost

(* What was ready by the deadline is heard, and no call is held for longer *)
(* than two requests, the poll, a sleep and one last ask, whatever the     *)
(* provider does and however long each of them is (transcribe).            *)
THEOREM CallBounded == CallSpec => []PollIsBounded
  BY CallBegins, CallGoesOn, CallIsBounded, PTL DEF CallSpec

-----------------------------------------------------------------------------
(* The requests.                                                           *)

\* What a worker holds is of a run that is there, and of its owner if it had one.
HeldRun(j) ==
    /\ j.round \in DOMAIN runs
    /\ j.run.user # Nobody => runs[j.round].user = j.run.user

\* Only a call is charged, and a worker in one is charged.
RowOK(row) == row.provider = "" => row.charged = 0

JobsOK ==
    \A w \in Workers : job[w] # Idle =>
        /\ HeldRun(job[w])
        /\ job[w].stage \in {"call", "case"} => job[w].row.provider # ""
        /\ job[w].stage # "judge" => RowOK(job[w].row)

\* Each row was judged as of its round's owner, or as of a device.
RowsOK ==
    /\ DOMAIN purse = DOMAIN reports
    /\ \A r \in DOMAIN reports :
        /\ RowOK(reports[r]) /\ purse[r] \in Person
        /\ purse[r] # Nobody => runs[r].user = purse[r]

CookiesDiffer == \A a, b \in Browsers : cookie[a] = cookie[b] => a = b

\* Calls in hand that an account's month will be charged for.
Held(u, m) == {w \in Workers : InCall(w) /\ job[w].run.user = u /\ job[w].row.month = m}

\* Each call in hand leaves room for the most it may be charged.
RoomLeft ==
    \A u \in Accounts, m \in 0..MaxMonth :
        Charged(u, m) + Cardinality(Held(u, m)) * Most
            <= Allowance(u \in everPro) - 1 + Cardinality(Workers) * Most

ReportsInv ==
    TypeOK /\ JobsOK /\ RowsOK /\ CookiesDiffer /\ FailedCallSpends /\ ToldIsKept /\ RoomLeft

LEMMA PutIs ==
  ASSUME NEW f, NEW r, NEW v
  PROVE  /\ DOMAIN Put(f, r, v) = DOMAIN f \cup {r} /\ Put(f, r, v)[r] = v
         /\ \A q \in DOMAIN f : q # r => Put(f, r, v)[q] = f[q]
  BY DEF Put

LEMMA LargerIs ==
  ASSUME NEW a \in Int, NEW b \in Int
  PROVE  Max({a, b}) \in {a, b} /\ Max({a, b}) >= a /\ Max({a, b}) >= b
  <1>1. \E x \in {a, b} : \A y \in {a, b} : x >= y
    BY SMT
  <1>2. Max({a, b}) \in {a, b} /\ \A y \in {a, b} : Max({a, b}) >= y
    BY <1>1, Zenon DEF Max
  <1>3. QED
    BY <1>2

LEMMA LargestIs ==
  ASSUME NEW n \in Nat, NEW S \in SUBSET (1..n), S # {}
  PROVE  Max(S) \in S /\ \A y \in S : Max(S) >= y
  <1> DEFINE Above == {k \in Nat : \A y \in S : y <= k}
  <1>1. n \in Above
    OBVIOUS
  <1>2. PICK k \in Above : \A m \in Above : k <= m
    BY <1>1, LeastNat
  <1>3. k \in S
    <2>1. PICK y \in S : TRUE
      OBVIOUS
    <2>2. k - 1 \in Nat
      BY <1>2, <2>1
    <2>3. k - 1 \notin Above
      BY <1>2, <2>2
    <2>4. PICK z \in S : ~(z <= k - 1)
      BY <2>2, <2>3
    <2>5. QED
      BY <1>2, <2>4
  <1>4. \E x \in S : \A y \in S : x >= y
    BY <1>2, <1>3
  <1>5. QED
    BY <1>4, Zenon DEF Max

LEMMA Bounds ==
  /\ Most \in Nat /\ Free \in Nat /\ Free > 0 /\ Pro \in Nat /\ Free <= Pro
  /\ MaxMonth \in Nat /\ MaxDevice \in Nat
  /\ IsFiniteSet(Workers) /\ IsFiniteSet(Rounds) /\ Cardinality(Workers) \in Nat
  /\ \A n \in Lengths \cup Heard : n \in 0..Most
  BY ReportsAssumption, FS_CardinalityType

LEMMA AtWork == \A j : j.stage # "idle" => j # Idle
  BY DEF Idle

\* What a worker holds, by stage.
LEMMA JobShape ==
  ASSUME TypeOK, NEW w \in Workers
  PROVE  \/ job[w] = Idle /\ job[w].stage = "idle"
         \/ /\ job[w] \in [stage : {"judge"}, round : Rounds, run : Run, audio : BOOLEAN]
            /\ job[w] # Idle
         \/ /\ job[w] \in [stage : {"call", "case", "save"}, round : Rounds, run : Run, row : Report]
            /\ job[w] # Idle
  BY DEF TypeOK, Job, Idle

\* Every worker but one holds what it held.
JobsKept(w, j) == job' = [job EXCEPT ![w] = j]

LEMMA TypesBegin == Init => TypeOK
  BY ReportsAssumption DEF Init, TypeOK, Device, Person, Job

JobTypes == job \in [Workers -> Job] /\ \A w \in Workers : job[w] # Idle => job[w].round \in DOMAIN runs

LEMMA TypesOfJob ==
  ASSUME TypeOK, NEW w \in Workers, NEW j \in Job, JobsKept(w, j), j # Idle => j.round \in DOMAIN runs, UNCHANGED runs
  PROVE  JobTypes'
  BY DEF TypeOK, JobsKept, JobTypes

LEMMA TypesKept ==
  ASSUME TypeOK, [Next]_vars
  PROVE  TypeOK'
  <1>1. ASSUME NEW b \in Browsers, NEW r \in Rounds, NEW n \in Lengths, Record(b, r, n)
        PROVE  TypeOK'
    <2> DEFINE row == [device |-> cookie[b], user |-> who[b], spoken |-> n]
    <2>1. row \in Run
      BY DEF TypeOK, Run, Device, Person
    <2>2. /\ DOMAIN runs' = DOMAIN runs \cup {r} /\ runs'[r] = row
          /\ \A q \in DOMAIN runs : q # r => runs'[q] = runs[q]
      BY <1>1 DEF Record, Put
    <2>3. /\ DOMAIN made' = DOMAIN made \cup {r} /\ made'[r] = b
          /\ \A q \in DOMAIN made : q # r => made'[q] = made[q]
      BY <1>1 DEF Record, Put
    <2>4. QED
      BY <1>1, <2>1, <2>2, <2>3 DEF TypeOK, Record, people
  <1>2. ASSUME NEW b \in Browsers, Leave(b)
        PROVE  TypeOK'
    <2>1. cookie' \in [Browsers -> Device]
      BY <1>2 DEF TypeOK, Leave
    <2>2. who' \in [Browsers -> Person]
      BY <1>2 DEF TypeOK, Leave, Person
    <2>3. DOMAIN made' \subseteq DOMAIN made /\ \A r \in DOMAIN made' : made'[r] = made[r]
      BY <1>2 DEF Leave, Restrict
    <2>4. QED
      BY <1>2, <2>1, <2>2, <2>3 DEF TypeOK, Leave
  <1>3. ASSUME NEW b \in Browsers, NEW u \in Accounts, SignIn(b, u)
        PROVE  TypeOK'
    <2>1. who' \in [Browsers -> Person]
      BY <1>3 DEF TypeOK, SignIn, Person
    <2>2. DOMAIN runs' = DOMAIN runs /\ \A r \in DOMAIN runs : runs'[r] \in Run
      BY <1>3 DEF TypeOK, SignIn, Run, Person
    <2>3. QED
      BY <1>3, <2>1, <2>2 DEF TypeOK, SignIn
  <1>4. ASSUME NEW u \in Accounts, Plan(u)
        PROVE  TypeOK'
    BY <1>4 DEF TypeOK, Plan
  <1>5. CASE NextMonth
    BY <1>5, Bounds DEF TypeOK, NextMonth
  <1>6. ASSUME NEW b \in Browsers, NEW r \in Rounds, NEW w \in Workers, NEW audio \in BOOLEAN, Attach(b, r, w, audio)
        PROVE  TypeOK'
    <2> DEFINE j == [stage |-> "judge", round |-> r, run |-> runs[r], audio |-> audio]
    <2>1. r \in DOMAIN runs /\ runs[r] \in Run
      BY <1>6 DEF TypeOK, Attach
    <2>2. j \in Job /\ j.round = r
      BY <2>1, Zenon DEF Job
    <2>3. JobTypes'
      <3>1. CASE UNCHANGED job
        BY <1>6, <3>1 DEF TypeOK, JobTypes, Attach
      <3>2. CASE JobsKept(w, j)
        BY <1>6, <2>1, <2>2, <3>2, TypesOfJob DEF Attach
      <3>3. QED
        BY <1>6, <3>1, <3>2, Zenon DEF Attach, JobsKept
    <2>4. posted' \in [Rounds -> 0..2]
      BY <1>6 DEF TypeOK, Attach
    <2>5. QED
      BY <1>6, <2>3, <2>4, Zenon DEF TypeOK, JobTypes, Attach, people
  <1>7. ASSUME NEW w \in Workers, Judge(w)
        PROVE  TypeOK'
    <2> DEFINE paid  == job[w].run.user \in pro
               spend == job[w].audio /\ Left(job[w].run.device, job[w].run.user, paid) > 0
               row   == [provider |-> IF ~spend THEN "" ELSE IF paid THEN "assemblyai" ELSE "groq",
                         charged |-> IF spend THEN job[w].run.spoken ELSE 0,
                         month |-> month, said |-> ""]
               j     == [stage |-> IF spend THEN "call" ELSE "save", round |-> job[w].round,
                         run |-> job[w].run, row |-> row]
    <2>1. /\ job[w] # Idle /\ job[w].round \in DOMAIN runs /\ job[w].round \in Rounds
          /\ job[w].run \in Run /\ job[w].run.spoken \in 0..Most
      BY <1>7, JobShape, Bounds DEF TypeOK, Judge, Run
    <2>2. JobsKept(w, j)
      BY <1>7, Zenon DEF Judge, JobsKept
    <2>3. row \in Report
      <3> HIDE DEF spend, paid
      <3>1. month \in 0..MaxMonth /\ 0 \in 0..Most
        BY Bounds DEF TypeOK
      <3>2. CASE spend
        BY <2>1, <3>1, <3>2 DEF Report
      <3>3. CASE ~spend
        BY <3>1, <3>3 DEF Report
      <3>4. QED
        BY <3>2, <3>3
    <2>4. j \in Job /\ j.round = job[w].round
      <3> HIDE DEF row, spend
      <3>1. QED
        BY <2>1, <2>3 DEF Job
    <2>5. JobTypes'
      <3> HIDE DEF j
      <3>1. QED
        BY <1>7, <2>1, <2>2, <2>4, TypesOfJob DEF Judge
    <2>6. asked' \in [Rounds -> Nat]
      <3>1. asked' = asked \/ asked' = [asked EXCEPT ![job[w].round] = @ + 1]
        BY <1>7, Zenon DEF Judge
      <3>2. QED
        BY <2>1, <3>1 DEF TypeOK
    <2>7. QED
      BY <1>7, <2>5, <2>6, Zenon DEF TypeOK, JobTypes, Judge, people
  <1>8. ASSUME NEW w \in Workers, Failed(w)
        PROVE  TypeOK'
    <2> DEFINE j == [job[w] EXCEPT !.stage = "save"]
    <2>1. /\ job[w] # Idle /\ job[w].round \in DOMAIN runs
          /\ job[w] \in [stage : {"call", "case", "save"}, round : Rounds, run : Run, row : Report]
      BY <1>8, JobShape DEF TypeOK, Failed
    <2>2. JobsKept(w, j)
      BY <1>8 DEF Failed, JobsKept, TypeOK
    <2>3. j \in Job /\ j.round = job[w].round
      BY <2>1 DEF Job
    <2>4. JobTypes'
      <3> HIDE DEF j
      <3>1. QED
        BY <1>8, <2>1, <2>2, <2>3, TypesOfJob DEF Failed
    <2>5. QED
      BY <1>8, <2>4, Zenon DEF TypeOK, JobTypes, Failed, people
  <1>9. ASSUME NEW w \in Workers, NEW seconds \in Heard, Answered(w, seconds)
        PROVE  TypeOK'
    <2> DEFINE j == [job[w] EXCEPT !.stage = IF job[w].row.provider = "assemblyai" THEN "case" ELSE "save",
                                   !.row.charged = Max({@, seconds}), !.row.said = "words"]
    <2>1. /\ job[w] # Idle /\ job[w].round \in DOMAIN runs
          /\ job[w] \in [stage : {"call", "case", "save"}, round : Rounds, run : Run, row : Report]
      BY <1>9, JobShape DEF TypeOK, Answered
    <2>2. JobsKept(w, j)
      BY <1>9 DEF Answered, JobsKept, TypeOK
    <2>3. j \in Job /\ j.round = job[w].round
      <3>1. Max({job[w].row.charged, seconds}) \in 0..Most
        <4>1. job[w].row.charged \in 0..Most /\ seconds \in 0..Most
          BY <2>1, Bounds DEF Report
        <4>2. job[w].row.charged \in Int /\ seconds \in Int
          BY <4>1
        <4>3. Max({job[w].row.charged, seconds}) \in {job[w].row.charged, seconds}
          BY <4>2, LargerIs, Zenon
        <4>4. QED
          BY <4>1, <4>3
      <3>2. QED
        BY <2>1, <3>1 DEF Job, Report
    <2>4. JobTypes'
      <3> HIDE DEF j
      <3>1. QED
        BY <1>9, <2>1, <2>2, <2>3, TypesOfJob DEF Answered
    <2>5. QED
      BY <1>9, <2>4, Zenon DEF TypeOK, JobTypes, Answered, people
  <1>10. ASSUME NEW w \in Workers, NEW taken \in Cases, ReadCase(w, taken)
         PROVE  TypeOK'
    <2> DEFINE j == [job[w] EXCEPT !.stage = "save", !.row.said = IF taken THEN "case" ELSE @]
    <2>1. /\ job[w] # Idle /\ job[w].round \in DOMAIN runs
          /\ job[w] \in [stage : {"call", "case", "save"}, round : Rounds, run : Run, row : Report]
      BY <1>10, JobShape DEF TypeOK, ReadCase
    <2>2. JobsKept(w, j)
      BY <1>10 DEF ReadCase, JobsKept, TypeOK
    <2>3. j \in Job /\ j.round = job[w].round
      BY <2>1 DEF Job, Report
    <2>4. JobTypes'
      <3> HIDE DEF j
      <3>1. QED
        BY <1>10, <2>1, <2>2, <2>3, TypesOfJob DEF ReadCase
    <2>5. QED
      BY <1>10, <2>4, Zenon DEF TypeOK, JobTypes, ReadCase, people
  <1>11. ASSUME NEW w \in Workers, Save(w)
         PROVE  TypeOK'
    <2>1. /\ job[w] # Idle /\ job[w].round \in DOMAIN runs /\ job[w].round \in Rounds
          /\ job[w].row \in Report
      BY <1>11, JobShape DEF TypeOK, Save
    <2>2. JobsKept(w, Idle) /\ Idle \in Job
      BY <1>11 DEF Save, JobsKept, Job
    <2>3. JobTypes'
      BY <1>11, <2>2, TypesOfJob DEF Save
    <2>4. lost' \in [Rounds -> Nat]
      BY <1>11, <2>1 DEF TypeOK, Save, Spent
    <2>5. DOMAIN reports' \subseteq DOMAIN runs /\ \A r \in DOMAIN reports' : reports'[r] \in Report
      BY <1>11, <2>1 DEF TypeOK, Save, Put
    <2>6. told' \in [Rounds -> SUBSET Report]
      BY <1>11, <2>1 DEF TypeOK, Save
    <2>7. QED
      BY <1>11, <2>3, <2>4, <2>5, <2>6, Zenon DEF TypeOK, JobTypes, Save, people
  <1>12. ASSUME NEW w \in Workers, Die(w)
         PROVE  TypeOK'
    <2>1. job[w].round \in Rounds
      BY <1>12, JobShape DEF TypeOK, Die
    <2>2. JobsKept(w, Idle) /\ Idle \in Job
      BY <1>12 DEF Die, JobsKept, Job
    <2>3. JobTypes'
      BY <1>12, <2>2, TypesOfJob DEF Die
    <2>4. lost' \in [Rounds -> Nat]
      BY <1>12, <2>1 DEF TypeOK, Die, Spent
    <2>5. QED
      BY <1>12, <2>3, <2>4, Zenon DEF TypeOK, JobTypes, Die, people
  <1>13. CASE UNCHANGED vars
    BY <1>13 DEF TypeOK, vars, people
  <1>q. QED
    BY <1>1, <1>2, <1>3, <1>4, <1>5, <1>6, <1>7, <1>8, <1>9, <1>10, <1>11, <1>12, <1>13, Zenon DEF Next

\* A round once somebody's stays theirs.
ClaimsStay ==
    \A r \in DOMAIN runs : r \in DOMAIN runs' /\ (runs[r].user # Nobody => runs'[r].user = runs[r].user)

LEMMA RoundsStay ==
  ASSUME TypeOK, [Next]_vars
  PROVE  ClaimsStay
  <1>1. ASSUME NEW b \in Browsers, NEW r \in Rounds, NEW n \in Lengths, Record(b, r, n)
        PROVE  ClaimsStay
    BY <1>1 DEF Record, Put, ClaimsStay
  <1>2. ASSUME NEW b \in Browsers, NEW u \in Accounts, SignIn(b, u)
        PROVE  ClaimsStay
    BY <1>2 DEF SignIn, OwnedBy, ClaimsStay
  <1>3. CASE UNCHANGED runs
    BY <1>3 DEF ClaimsStay
  <1>4. QED
    BY <1>1, <1>2, <1>3, Zenon DEF Next, vars, Leave, Plan, NextMonth, Attach, Judge, Failed, Save, Die, Answered, ReadCase

\* What a worker is given leaves it holding what it may.
JobOK(j) ==
    j # Idle =>
        /\ HeldRun(j)
        /\ j.stage \in {"call", "case"} => j.row.provider # ""
        /\ j.stage # "judge" => RowOK(j.row)

LEMMA JobsStay ==
  ASSUME TypeOK, JobsOK, ClaimsStay, UNCHANGED job
  PROVE  JobsOK'
  BY DEF TypeOK, JobsOK, ClaimsStay, HeldRun, RowOK

LEMMA OneJob ==
  ASSUME TypeOK, JobsOK, NEW w \in Workers, NEW j, JobsKept(w, j), JobOK(j), UNCHANGED runs
  PROVE  JobsOK'
  BY DEF TypeOK, JobsOK, JobsKept, JobOK, HeldRun, RowOK, Job

LEMMA JobsKeep ==
  ASSUME TypeOK, JobsOK, [Next]_vars
  PROVE  JobsOK'
  <1>0. ClaimsStay
    BY RoundsStay
  <1>1. CASE UNCHANGED job
    BY <1>0, <1>1, JobsStay
  <1>2. ASSUME NEW b \in Browsers, NEW r \in Rounds, NEW w \in Workers, NEW audio \in BOOLEAN, Attach(b, r, w, audio)
        PROVE  JobsOK'
    <2> DEFINE j == [stage |-> "judge", round |-> r, run |-> runs[r], audio |-> audio]
    <2>1. JobsKept(w, j) \/ UNCHANGED job
      BY <1>2, Zenon DEF Attach, JobsKept
    <2>2. JobOK(j)
      BY <1>2 DEF Attach, TypeOK, JobOK, HeldRun
    <2>3. UNCHANGED runs
      BY <1>2 DEF Attach
    <2>4. QED
      BY <1>1, <2>1, <2>2, <2>3, OneJob
  <1>3. ASSUME NEW w \in Workers, Judge(w)
        PROVE  JobsOK'
    <2> DEFINE paid  == job[w].run.user \in pro
               spend == job[w].audio /\ Left(job[w].run.device, job[w].run.user, paid) > 0
               row   == [provider |-> IF ~spend THEN "" ELSE IF paid THEN "assemblyai" ELSE "groq",
                         charged |-> IF spend THEN job[w].run.spoken ELSE 0,
                         month |-> month, said |-> ""]
               j     == [stage |-> IF spend THEN "call" ELSE "save", round |-> job[w].round,
                         run |-> job[w].run, row |-> row]
    <2>1. JobsKept(w, j) /\ UNCHANGED runs
      BY <1>3, Zenon DEF Judge, JobsKept
    <2>2. job[w] # Idle
      BY <1>3, JobShape DEF Judge, Idle
    <2>3. HeldRun(j)
      BY <2>2 DEF JobsOK, HeldRun
    <2>4. row.provider = "" <=> ~spend
      <3> HIDE DEF spend
      <3>1. QED
        OBVIOUS
    <2>5. RowOK(row) /\ (j.stage = "call" => row.provider # "")
      <3> HIDE DEF spend
      <3>1. QED
        BY <2>4 DEF RowOK
    <2>6. JobOK(j)
      <3> HIDE DEF row, spend
      <3>1. QED
        BY <2>3, <2>5 DEF JobOK
    <2>7. QED
      BY <2>1, <2>6, OneJob
  <1>4. ASSUME NEW w \in Workers, Failed(w)
        PROVE  JobsOK'
    <2> DEFINE j == [job[w] EXCEPT !.stage = "save"]
    <2>1. job[w] \in [stage : {"call", "case", "save"}, round : Rounds, run : Run, row : Report] /\ job[w] # Idle
      BY <1>4, JobShape DEF Failed
    <2>2. JobsKept(w, j) /\ UNCHANGED runs
      BY <1>4 DEF Failed, JobsKept, TypeOK
    <2>3. JobOK(j)
      BY <1>4, <2>1 DEF JobOK, JobsOK, HeldRun, RowOK, Failed
    <2>4. QED
      BY <2>2, <2>3, OneJob
  <1>5. ASSUME NEW w \in Workers, NEW seconds \in Heard, Answered(w, seconds)
        PROVE  JobsOK'
    <2> DEFINE j == [job[w] EXCEPT !.stage = IF job[w].row.provider = "assemblyai" THEN "case" ELSE "save",
                                   !.row.charged = Max({@, seconds}), !.row.said = "words"]
    <2>1. job[w] \in [stage : {"call", "case", "save"}, round : Rounds, run : Run, row : Report] /\ job[w] # Idle
      BY <1>5, JobShape DEF Answered
    <2>2. JobsKept(w, j) /\ UNCHANGED runs
      BY <1>5 DEF Answered, JobsKept, TypeOK
    <2>3. JobOK(j)
      BY <1>5, <2>1 DEF JobOK, JobsOK, HeldRun, RowOK, Answered, Report
    <2>4. QED
      BY <2>2, <2>3, OneJob
  <1>6. ASSUME NEW w \in Workers, NEW taken \in Cases, ReadCase(w, taken)
        PROVE  JobsOK'
    <2> DEFINE j == [job[w] EXCEPT !.stage = "save", !.row.said = IF taken THEN "case" ELSE @]
    <2>1. job[w] \in [stage : {"call", "case", "save"}, round : Rounds, run : Run, row : Report] /\ job[w] # Idle
      BY <1>6, JobShape DEF ReadCase
    <2>2. JobsKept(w, j) /\ UNCHANGED runs
      BY <1>6 DEF ReadCase, JobsKept, TypeOK
    <2>3. JobOK(j)
      BY <1>6, <2>1 DEF JobOK, JobsOK, HeldRun, RowOK, ReadCase, Report
    <2>4. QED
      BY <2>2, <2>3, OneJob
  <1>7. ASSUME NEW w \in Workers, Save(w) \/ Die(w)
        PROVE  JobsOK'
    <2>1. JobsKept(w, Idle) /\ JobOK(Idle) /\ UNCHANGED runs
      BY <1>7 DEF Save, Die, JobsKept, JobOK
    <2>2. QED
      BY <2>1, OneJob
  <1>8. QED
    BY <1>1, <1>2, <1>3, <1>4, <1>5, <1>6, <1>7, Zenon DEF Next, vars, Record, SignIn, Leave, Plan, NextMonth

LEMMA RowsKeep ==
  ASSUME TypeOK, JobsOK, RowsOK, [Next]_vars
  PROVE  RowsOK'
  <1>0. ClaimsStay
    BY RoundsStay
  <1>1. CASE UNCHANGED <<reports, purse>>
    BY <1>0, <1>1 DEF TypeOK, RowsOK, RowOK, ClaimsStay
  <1>2. ASSUME NEW w \in Workers, Save(w), job[w].round \notin DOMAIN reports
        PROVE  RowsOK'
    <2>1. /\ job[w] # Idle /\ job[w].run \in Run
          /\ RowOK(job[w].row) /\ HeldRun(job[w])
      BY <1>2, JobShape DEF Save, JobsOK
    <2>2. /\ DOMAIN reports' = DOMAIN reports \cup {job[w].round} /\ reports'[job[w].round] = job[w].row
          /\ \A q \in DOMAIN reports : reports'[q] = reports[q]
          /\ DOMAIN purse' = DOMAIN purse \cup {job[w].round} /\ purse'[job[w].round] = job[w].run.user
          /\ \A q \in DOMAIN purse : q # job[w].round => purse'[q] = purse[q]
      BY <1>2 DEF Save, Put
    <2>3. UNCHANGED runs
      BY <1>2 DEF Save
    <2>4. QED
      BY <1>2, <2>1, <2>2, <2>3 DEF RowsOK, RowOK, HeldRun, Run
  <1>3. QED
    BY <1>1, <1>2, Zenon DEF Next, vars, Record, SignIn, Leave, Plan, NextMonth, Attach, Judge, Failed, Save, Die, Answered, ReadCase

LEMMA CookiesKeep ==
  ASSUME TypeOK, CookiesDiffer, [Next]_vars
  PROVE  CookiesDiffer'
  <1>1. CASE UNCHANGED cookie
    BY <1>1 DEF CookiesDiffer
  <1>2. ASSUME NEW b \in Browsers, Leave(b), cookie' # cookie
        PROVE  CookiesDiffer'
    <2>1. PICK d \in Device : d = Max(Range(cookie)) + 1 /\ cookie' = [cookie EXCEPT ![b] = d]
      BY <1>2, Zenon DEF Leave
    <2>2. Range(cookie) \in SUBSET (1..MaxDevice) /\ Range(cookie) # {} /\ MaxDevice \in Nat
      BY Bounds DEF TypeOK, Device, Range
    <2>3. Max(Range(cookie)) \in Range(cookie) /\ \A y \in Range(cookie) : Max(Range(cookie)) >= y
      BY <2>2, LargestIs, Zenon
    <2>4. \A a \in Browsers : cookie[a] \in Range(cookie) /\ cookie[a] \in Int
      BY DEF TypeOK, Device, Range
    <2>5. Max(Range(cookie)) \in Int
      BY <2>2, <2>3
    <2>6. \A a \in Browsers : cookie[a] # d
      BY <2>1, <2>3, <2>4, <2>5
    <2>7. QED
      BY <2>1, <2>6 DEF CookiesDiffer, TypeOK
  <1>3. QED
    BY <1>1, <1>2, Zenon DEF Next, vars, people, Record, SignIn, Plan, NextMonth, Attach, Judge, Failed, Save, Die, Answered, ReadCase

LEMMA ToldKeep ==
  ASSUME TypeOK, CookiesDiffer, ToldIsKept, [Next]_vars
  PROVE  ToldIsKept'
  <1> DEFINE Rests == \A r \in Rounds : r \in DOMAIN made => OwnedBy(r, cookie[made[r]], who[made[r]])
             Stored == \A r \in Rounds : \A row \in told[r] : r \in DOMAIN reports /\ reports[r] = row
  <1>0. Rests /\ Stored
    BY DEF ToldIsKept
  <1>2. Stored'
    <2>1. ASSUME NEW w \in Workers, Save(w), job[w].round \notin DOMAIN reports
          PROVE  Stored'
      <3>1. /\ DOMAIN reports' = DOMAIN reports \cup {job[w].round} /\ reports'[job[w].round] = job[w].row
            /\ \A q \in DOMAIN reports : reports'[q] = reports[q]
        BY <2>1 DEF Save, Put
      <3>2. told[job[w].round] = {} /\ told' = [told EXCEPT ![job[w].round] = @ \cup {job[w].row}]
        BY <1>0, <2>1, JobShape DEF Save
      <3>3. QED
        BY <1>0, <3>1, <3>2 DEF TypeOK
    <2>2. CASE UNCHANGED <<reports, told>>
      BY <1>0, <2>2
    <2>3. QED
      BY <2>1, <2>2, Zenon DEF Next, vars, Record, SignIn, Leave, Plan, NextMonth, Attach, Judge, Failed, Save, Die, Answered, ReadCase
  <1>3. Rests'
    <2>1. CASE UNCHANGED <<runs, cookie, who, made>>
      BY <1>0, <2>1 DEF OwnedBy
    <2>2. ASSUME NEW b \in Browsers, NEW r \in Rounds, NEW n \in Lengths, Record(b, r, n)
          PROVE  Rests'
      <3>1. /\ DOMAIN runs' = DOMAIN runs \cup {r} /\ runs'[r] = [device |-> cookie[b], user |-> who[b], spoken |-> n]
            /\ \A q \in DOMAIN runs : runs'[q] = runs[q]
            /\ DOMAIN made' = DOMAIN made \cup {r} /\ made'[r] = b
            /\ \A q \in DOMAIN made : q # r => made'[q] = made[q]
        BY <2>2 DEF Record, Put
      <3>2. UNCHANGED <<cookie, who>>
        BY <2>2 DEF Record, people
      <3>3. QED
        BY <1>0, <3>1, <3>2 DEF OwnedBy
    <2>3. ASSUME NEW b \in Browsers, NEW u \in Accounts, SignIn(b, u)
          PROVE  Rests'
      <3>1. /\ who[b] = Nobody /\ who' = [who EXCEPT ![b] = u] /\ u # Nobody
            /\ UNCHANGED <<cookie, made>>
        BY <2>3, ReportsAssumption DEF SignIn
      <3>2. /\ DOMAIN runs' = DOMAIN runs
            /\ \A r \in DOMAIN runs : /\ runs'[r] = IF OwnedBy(r, cookie[b], Nobody) THEN [runs[r] EXCEPT !.user = u] ELSE runs[r]
                                      /\ runs[r] \in Run
        BY <2>3 DEF SignIn, TypeOK
      <3>3. \A r \in DOMAIN runs : /\ OwnedBy(r, cookie[b], Nobody) => runs'[r].user = u /\ runs'[r].device = runs[r].device
                                   /\ ~OwnedBy(r, cookie[b], Nobody) => runs'[r] = runs[r]
        BY <3>2 DEF Run
      <3>4. SUFFICES ASSUME NEW r \in Rounds, r \in DOMAIN made PROVE OwnedBy(r, cookie[made[r]], who[made[r]])'
        BY <3>1
      <3>5. made[r] \in Browsers /\ OwnedBy(r, cookie[made[r]], who[made[r]])
        BY <1>0, <3>4 DEF TypeOK
      <3>6. CASE made[r] = b
        BY <3>1, <3>2, <3>3, <3>5, <3>6 DEF OwnedBy, TypeOK
      <3>7. CASE made[r] # b
        BY <3>1, <3>2, <3>3, <3>5, <3>7 DEF OwnedBy, TypeOK, CookiesDiffer
      <3>8. QED
        BY <3>6, <3>7
    <2>4. ASSUME NEW b \in Browsers, Leave(b)
          PROVE  Rests'
      <3>1. \A r \in DOMAIN made' : r \in DOMAIN made /\ made'[r] = made[r] /\ made[r] # b
        BY <2>4 DEF Leave, Restrict
      <3>2. UNCHANGED runs /\ \A a \in Browsers : a # b => cookie'[a] = cookie[a] /\ who'[a] = who[a]
        BY <2>4 DEF Leave, TypeOK
      <3>3. ASSUME NEW r \in Rounds, r \in DOMAIN made'
            PROVE  OwnedBy(r, cookie[made[r]], who[made[r]])'
        <4>1. r \in DOMAIN made /\ made'[r] = made[r] /\ made[r] # b /\ made[r] \in Browsers
          BY <3>1, <3>3 DEF TypeOK
        <4>2. OwnedBy(r, cookie[made[r]], who[made[r]])
          BY <1>0, <4>1
        <4>3. QED
          BY <3>2, <4>1, <4>2 DEF OwnedBy
      <3>4. QED
        BY <3>3
    <2>5. QED
      BY <2>1, <2>2, <2>3, <2>4, Zenon DEF Next, vars, people, Plan, NextMonth, Attach, Judge, Failed, Save, Die, Answered, ReadCase
  <1>4. QED
    BY <1>2, <1>3 DEF ToldIsKept

\* Calls made on a round and not yet saved or lost.
InHand(r) == {w \in Workers : InCall(w) /\ job[w].round = r}

Counted(r) == r \in DOMAIN reports /\ reports[r].provider # ""

LEMMA InHandIsFinite ==
  \A r : IsFiniteSet(InHand(r)) /\ Cardinality(InHand(r)) \in Nat
  BY Bounds, FS_Subset, FS_CardinalityType DEF InHand

LEMMA SpendsIs ==
  FailedCallSpends <=>
    \A r \in Rounds : asked[r] = lost[r] + Cardinality(InHand(r)) + IF Counted(r) THEN 1 ELSE 0
  BY Zenon DEF FailedCallSpends, InHand, Counted

\* A step of one worker that leaves it in the call it was in.
LEMMA SameCalls ==
  ASSUME NEW w \in Workers, \A x \in Workers \ {w} : job'[x] = job[x],
         InCall(w)' <=> InCall(w), InCall(w) => job'[w].round = job[w].round
  PROVE  \A r : InHand(r)' = InHand(r)
  BY DEF InHand, InCall

\* The worker leaves the call it was in, if it was in one.
LEMMA CallsLeft ==
  ASSUME NEW w \in Workers, \A x \in Workers \ {w} : job'[x] = job[x], ~InCall(w)', NEW r
  PROVE  Cardinality(InHand(r)') = IF InCall(w) /\ job[w].round = r
                                   THEN Cardinality(InHand(r)) - 1 ELSE Cardinality(InHand(r))
  <1>1. InHand(r)' = InHand(r) \ {w} /\ (w \in InHand(r) <=> InCall(w) /\ job[w].round = r)
    BY DEF InHand, InCall
  <1>2. QED
    BY <1>1, InHandIsFinite, FS_RemoveElement

\* The worker begins a call.
LEMMA CallBegun ==
  ASSUME NEW w \in Workers, \A x \in Workers \ {w} : job'[x] = job[x], ~InCall(w), InCall(w)', NEW r
  PROVE  Cardinality(InHand(r)') = IF job'[w].round = r
                                   THEN Cardinality(InHand(r)) + 1 ELSE Cardinality(InHand(r))
  <1>1. w \notin InHand(r) /\ InHand(r)' = IF job'[w].round = r THEN InHand(r) \cup {w} ELSE InHand(r)
    BY DEF InHand, InCall
  <1>2. QED
    BY <1>1, InHandIsFinite, FS_AddElement

OthersKeep(w) == \A x \in Workers \ {w} : job'[x] = job[x]

LEMMA WorkerAttaches ==
  ASSUME TypeOK, NEW b, NEW r, NEW w \in Workers, NEW audio, Attach(b, r, w, audio)
  PROVE  OthersKeep(w) /\ ~InCall(w) /\ ~InCall(w)'
  BY DEF TypeOK, Attach, OthersKeep, InCall, Idle

WouldSpend(w) == job[w].audio /\ Left(job[w].run.device, job[w].run.user, job[w].run.user \in pro) > 0

LEMMA WorkerJudges ==
  ASSUME TypeOK, NEW w \in Workers, Judge(w)
  PROVE  /\ OthersKeep(w) /\ ~InCall(w) /\ (InCall(w)' <=> WouldSpend(w))
         /\ job'[w].round = job[w].round /\ job'[w].run = job[w].run /\ job'[w].row.month = month
  <1> DEFINE paid  == job[w].run.user \in pro
             row   == [provider |-> IF ~WouldSpend(w) THEN "" ELSE IF paid THEN "assemblyai" ELSE "groq",
                       charged |-> IF WouldSpend(w) THEN job[w].run.spoken ELSE 0,
                       month |-> month, said |-> ""]
             j     == [stage |-> IF WouldSpend(w) THEN "call" ELSE "save", round |-> job[w].round,
                       run |-> job[w].run, row |-> row]
  <1>1. job' = [job EXCEPT ![w] = j]
    BY Zenon DEF Judge, WouldSpend
  <1>2. job'[w] = j /\ OthersKeep(w)
    BY <1>1 DEF TypeOK, OthersKeep
  <1>3. ~InCall(w)
    BY DEF Judge, InCall
  <1>4. /\ job'[w].stage \in {"call", "save"} /\ (job'[w].row.provider # "" <=> WouldSpend(w))
        /\ job'[w].round = job[w].round /\ job'[w].run = job[w].run /\ job'[w].row.month = month
    <2>1. row.month = month /\ (row.provider # "" <=> WouldSpend(w))
      OBVIOUS
    <2> HIDE DEF row
    <2>2. j.stage \in {"call", "save"} /\ j.round = job[w].round /\ j.run = job[w].run /\ j.row = row
      OBVIOUS
    <2> HIDE DEF j
    <2>3. QED
      BY <1>2, <2>1, <2>2
  <1>5. InCall(w)' <=> WouldSpend(w)
    BY <1>4, AtWork DEF InCall
  <1>6. QED
    BY <1>2, <1>3, <1>4, <1>5, Zenon

LEMMA WorkerGoesOn ==
  ASSUME TypeOK, JobsOK, NEW w \in Workers,
         \/ Failed(w)
         \/ \E n \in Heard : Answered(w, n)
         \/ \E taken \in Cases : ReadCase(w, taken)
  PROVE  /\ OthersKeep(w) /\ InCall(w) /\ InCall(w)'
         /\ job'[w].round = job[w].round /\ job'[w].run = job[w].run /\ job'[w].row.month = job[w].row.month
  <1>1. /\ job[w] \in [stage : {"call", "case", "save"}, round : Rounds, run : Run, row : Report]
        /\ job[w] # Idle /\ job[w].row.provider # "" /\ job[w].stage # "judge"
    BY JobShape DEF Failed, Answered, ReadCase, JobsOK
  <1>2. InCall(w)
    BY <1>1 DEF InCall
  <1>3. CASE Failed(w)
    BY <1>1, <1>2, <1>3 DEF TypeOK, Failed, InCall, OthersKeep, Idle
  <1>4. ASSUME NEW n \in Heard, Answered(w, n)
        PROVE  /\ OthersKeep(w) /\ InCall(w)'
               /\ job'[w].round = job[w].round /\ job'[w].run = job[w].run /\ job'[w].row.month = job[w].row.month
    BY <1>1, <1>4 DEF TypeOK, Answered, InCall, OthersKeep, Idle, Report
  <1>5. ASSUME NEW taken \in Cases, ReadCase(w, taken)
        PROVE  /\ OthersKeep(w) /\ InCall(w)'
               /\ job'[w].round = job[w].round /\ job'[w].run = job[w].run /\ job'[w].row.month = job[w].row.month
    BY <1>1, <1>5 DEF TypeOK, ReadCase, InCall, OthersKeep, Idle, Report
  <1>6. QED
    BY <1>2, <1>3, <1>4, <1>5, Zenon

LEMMA WorkerLeaves ==
  ASSUME TypeOK, NEW w \in Workers, Save(w) \/ Die(w)
  PROVE  OthersKeep(w) /\ ~InCall(w)'
  BY DEF TypeOK, Save, Die, OthersKeep, InCall

\* Each call on a round is lost, in hand or on its row.
LEMMA SpendsKeep ==
  ASSUME TypeOK, JobsOK, FailedCallSpends, [Next]_vars
  PROVE  FailedCallSpends'
  <1>0. /\ \A r \in Rounds : asked[r] = lost[r] + Cardinality(InHand(r)) + IF Counted(r) THEN 1 ELSE 0
        /\ \A r : Cardinality(InHand(r)) \in Nat
    BY SpendsIs, InHandIsFinite
  <1> SUFFICES \A r \in Rounds : asked'[r] = lost'[r] + Cardinality(InHand(r)') + IF Counted(r)' THEN 1 ELSE 0
    BY Zenon DEF FailedCallSpends, InHand, Counted
  <1>1. ASSUME \A r : InHand(r)' = InHand(r), UNCHANGED <<reports, asked, lost>>
        PROVE  \A r \in Rounds : asked'[r] = lost'[r] + Cardinality(InHand(r)') + IF Counted(r)' THEN 1 ELSE 0
    BY <1>0, <1>1 DEF Counted
  <1>2. CASE UNCHANGED <<reports, asked, lost, job>>
    BY <1>1, <1>2 DEF InHand, InCall
  <1>3. ASSUME NEW b \in Browsers, NEW r \in Rounds, NEW w \in Workers, NEW audio \in BOOLEAN, Attach(b, r, w, audio)
        PROVE  \A q \in Rounds : asked'[q] = lost'[q] + Cardinality(InHand(q)') + IF Counted(q)' THEN 1 ELSE 0
    <2>1. \A q : InHand(q)' = InHand(q)
      BY <1>3, WorkerAttaches, SameCalls DEF OthersKeep
    <2>2. QED
      BY <1>1, <1>3, <2>1 DEF Attach
  <1>4. ASSUME NEW w \in Workers, Judge(w)
        PROVE  \A q \in Rounds : asked'[q] = lost'[q] + Cardinality(InHand(q)') + IF Counted(q)' THEN 1 ELSE 0
    <2>1. /\ asked' = IF WouldSpend(w) THEN [asked EXCEPT ![job[w].round] = @ + 1] ELSE asked
          /\ UNCHANGED <<reports, lost>>
      BY <1>4, Zenon DEF Judge, WouldSpend
    <2>2. OthersKeep(w) /\ ~InCall(w) /\ (InCall(w)' <=> WouldSpend(w)) /\ job'[w].round = job[w].round
      BY <1>4, WorkerJudges
    <2>3. CASE WouldSpend(w)
      <3>1. \A q : Cardinality(InHand(q)') = IF job[w].round = q THEN Cardinality(InHand(q)) + 1 ELSE Cardinality(InHand(q))
        BY <2>2, <2>3, CallBegun DEF OthersKeep
      <3>2. \A q \in Rounds : asked'[q] = IF job[w].round = q THEN asked[q] + 1 ELSE asked[q]
        BY <2>1, <2>3 DEF TypeOK
      <3>3. \A q \in Rounds : asked[q] \in Nat /\ lost[q] \in Nat /\ lost'[q] = lost[q] /\ Counted(q)' = Counted(q)
        BY <2>1 DEF TypeOK, Counted
      <3>4. QED
        BY <1>0, <3>1, <3>2, <3>3
    <2>4. CASE ~WouldSpend(w)
      <3>1. \A q : InHand(q)' = InHand(q)
        BY <2>2, <2>4, SameCalls DEF OthersKeep
      <3>2. QED
        BY <1>1, <2>1, <2>4, <3>1
    <2>5. QED
      BY <2>3, <2>4
  <1>5. ASSUME NEW w \in Workers,
               \/ Failed(w)
               \/ \E n \in Heard : Answered(w, n)
               \/ \E taken \in Cases : ReadCase(w, taken)
        PROVE  \A q \in Rounds : asked'[q] = lost'[q] + Cardinality(InHand(q)') + IF Counted(q)' THEN 1 ELSE 0
    <2>1. \A q : InHand(q)' = InHand(q)
      BY <1>5, WorkerGoesOn, SameCalls DEF OthersKeep
    <2>2. QED
      BY <1>1, <1>5, <2>1 DEF Failed, Answered, ReadCase
  <1>6. ASSUME NEW w \in Workers, Save(w) \/ Die(w)
        PROVE  \A q \in Rounds : asked'[q] = lost'[q] + Cardinality(InHand(q)') + IF Counted(q)' THEN 1 ELSE 0
    <2>1. \A q : Cardinality(InHand(q)') = IF InCall(w) /\ job[w].round = q
                                           THEN Cardinality(InHand(q)) - 1 ELSE Cardinality(InHand(q))
      BY <1>6, WorkerLeaves, CallsLeft DEF OthersKeep
    <2>2. \A q \in Rounds : asked[q] \in Nat /\ lost[q] \in Nat /\ asked'[q] = asked[q]
      BY <1>6 DEF TypeOK, Save, Die
    <2>3. CASE lost' = Spent(w) /\ UNCHANGED reports
      <3>1. \A q \in Rounds : lost'[q] = IF InCall(w) /\ job[w].round = q THEN lost[q] + 1 ELSE lost[q]
        BY <2>3 DEF TypeOK, Spent
      <3>2. \A q \in Rounds : Counted(q)' = Counted(q)
        BY <2>3 DEF Counted
      <3>3. QED
        BY <1>0, <2>1, <2>2, <3>1, <3>2
    <2>4. CASE Save(w) /\ job[w].round \notin DOMAIN reports
      <3>1. /\ DOMAIN reports' = DOMAIN reports \cup {job[w].round} /\ reports'[job[w].round] = job[w].row
            /\ \A q \in DOMAIN reports : reports'[q] = reports[q]
            /\ lost' = lost
        BY <2>4 DEF Save, Put
      <3>2. InCall(w) <=> job[w].row.provider # ""
        BY <2>4, AtWork DEF Save, InCall
      <3>3. \A q \in Rounds : Counted(q)' <=> (Counted(q) \/ (InCall(w) /\ job[w].round = q))
        <4>1. \A q \in Rounds : q # job[w].round => (Counted(q)' <=> Counted(q))
          BY <3>1 DEF Counted
        <4>2. \A q \in Rounds : q = job[w].round => (Counted(q)' <=> InCall(w))
          BY <3>1, <3>2 DEF Counted
        <4>3. ~Counted(job[w].round)
          BY <2>4 DEF Counted
        <4>4. QED
          BY <4>1, <4>2, <4>3, Zenon
      <3>4. \A q \in Rounds : job[w].round = q => ~Counted(q)
        BY <2>4 DEF Counted
      <3>5. QED
        BY <1>0, <2>1, <2>2, <3>1, <3>3, <3>4
    <2>5. QED
      BY <1>6, <2>3, <2>4, Zenon DEF Save, Die
  <1>7. QED
    BY <1>2, <1>3, <1>4, <1>5, <1>6, Zenon DEF Next, vars, Record, SignIn, Leave, Plan, NextMonth

\* What the month's charges come to.
LEMMA ChargesAre ==
  ASSUME TypeOK
  PROVE  /\ IsFiniteSet(DOMAIN reports) /\ DOMAIN Charges = DOMAIN reports
         /\ \A r \in DOMAIN reports : Charges[r] = reports[r].charged /\ Charges[r] \in 0..Most /\ Charges[r] \in Nat
         /\ \A S \in SUBSET DOMAIN reports : IsFiniteSet(S) /\ SumFunctionOnSet(Charges, S) \in Nat
  <1>1. IsFiniteSet(DOMAIN reports)
    BY Bounds, FS_Subset DEF TypeOK
  <1>2. /\ DOMAIN Charges = DOMAIN reports
        /\ \A r \in DOMAIN reports : Charges[r] = reports[r].charged /\ Charges[r] \in 0..Most /\ Charges[r] \in Nat
    <2>1. \A r \in DOMAIN reports : reports[r].charged \in 0..Most
      BY DEF TypeOK, Report
    <2>2. \A n \in 0..Most : n \in Nat
      BY Bounds
    <2>3. QED
      BY <2>1, <2>2, Zenon DEF Charges
  <1>3. \A S \in SUBSET DOMAIN reports : IsFiniteSet(S) /\ SumFunctionOnSet(Charges, S) \in Nat
    BY <1>1, <1>2, FS_Subset, SumIsNat
  <1>4. QED
    BY <1>1, <1>2, <1>3

RowsOf(u, m) == {r \in DOMAIN reports : purse[r] = u /\ reports[r].month = m}

LEMMA ChargedIs ==
  ASSUME TypeOK, NEW u, NEW m
  PROVE  Charged(u, m) = SumFunctionOnSet(Charges, RowsOf(u, m)) /\ Charged(u, m) \in Nat
  BY ChargesAre DEF Charged, RowsOf

\* A new row adds its charge to the account and the month it was judged in.
LEMMA ChargedGrows ==
  ASSUME TypeOK, TypeOK', RowsOK, NEW r, r \notin DOMAIN reports, NEW row, NEW of, row.charged \in Nat,
         reports' = Put(reports, r, row), purse' = Put(purse, r, of), NEW u, NEW m
  PROVE  Charged(u, m)' = IF of = u /\ row.month = m THEN Charged(u, m) + row.charged ELSE Charged(u, m)
  <1> DEFINE S == RowsOf(u, m)
  <1>1. /\ DOMAIN reports' = DOMAIN reports \cup {r} /\ reports'[r] = row
        /\ \A q \in DOMAIN reports : reports'[q] = reports[q]
        /\ DOMAIN purse' = DOMAIN purse \cup {r} /\ purse'[r] = of
        /\ \A q \in DOMAIN purse : q # r => purse'[q] = purse[q]
    BY DEF Put
  <1>2. RowsOf(u, m)' = IF of = u /\ row.month = m THEN S \cup {r} ELSE S
    BY <1>1 DEF RowsOf, RowsOK
  <1>3. IsFiniteSet(S) /\ r \notin S /\ S \in SUBSET DOMAIN reports
    BY ChargesAre DEF RowsOf
  <1>4. Charges'[r] = row.charged /\ \A q \in S : Charges'[q] = Charges[q] /\ Charges[q] \in Nat
    BY <1>1, <1>3, ChargesAre DEF Charges
  <1>5. SumFunctionOnSet(Charges', S) = SumFunctionOnSet(Charges, S)
    BY <1>3, <1>4, SumOfTheSame
  <1>6. SumFunctionOnSet(Charges', S \cup {r}) = row.charged + SumFunctionOnSet(Charges', S)
    <2>1. \A q \in S \cup {r} : Charges'[q] \in Nat
      BY <1>4
    <2> HIDE DEF S
    <2>2. QED
      BY <1>3, <1>4, <2>1, SumWithOneMore
  <1>7. /\ Charged(u, m) = SumFunctionOnSet(Charges, S) /\ Charged(u, m) \in Nat
        /\ Charged(u, m)' = SumFunctionOnSet(Charges', RowsOf(u, m)')
    <2>1. Charged(u, m) = SumFunctionOnSet(Charges, S) /\ Charged(u, m) \in Nat
      BY ChargedIs
    <2>2. Charged(u, m)' = SumFunctionOnSet(Charges', RowsOf(u, m)')
      BY Zenon DEF Charged, RowsOf
    <2>3. QED
      BY <2>1, <2>2
  <1>8. QED
    BY <1>2, <1>5, <1>6, <1>7

\* A call is judged by somebody with some of the month left.
LEMMA JudgedWithin ==
  ASSUME TypeOK, RowsOK, NEW w \in Workers, Judge(w), WouldSpend(w), job[w].run.user \in Accounts
  PROVE  Charged(job[w].run.user, month) <= Allowance(job[w].run.user \in everPro) - 1
  <1> DEFINE u == job[w].run.user
             d == job[w].run.device
             S == {r \in DOMAIN reports : OwnedBy(r, d, u) /\ reports[r].month = month /\ reports[r].provider # ""}
             T == RowsOf(u, month)
  <1>1. u # Nobody
    BY ReportsAssumption
  <1>2. SumFunctionOnSet(Charges, T) <= SumFunctionOnSet(Charges, S)
    <2>1. \A r \in T : r \in S \/ Charges[r] = 0
      BY <1>1, ChargesAre DEF RowsOf, RowsOK, RowOK, OwnedBy, TypeOK
    <2>2. S \in SUBSET DOMAIN reports /\ T \in SUBSET DOMAIN reports
      BY DEF RowsOf
    <2> HIDE DEF S, T, u
    <2>3. QED
      BY <2>1, <2>2, ChargesAre, SumCovered
  <1>3. Used(d, u) = SumFunctionOnSet(Charges, S) /\ Used(d, u) \in Nat
    BY ChargesAre DEF Used
  <1>4. Left(d, u, u \in pro) > 0
    BY DEF WouldSpend
  <1>5. /\ Allowance(u \in pro) \in Nat /\ Allowance(u \in everPro) \in Nat
        /\ Allowance(u \in pro) <= Allowance(u \in everPro)
    BY Bounds DEF Allowance, TypeOK
  <1>6. Used(d, u) < Allowance(u \in pro)
    <2> DEFINE A == Allowance(u \in pro)
               U == Used(d, u)
    <2>1. Max({0, A - U}) > 0
      BY <1>4 DEF Left
    <2> HIDE DEF A, U
    <2>2. A \in Nat /\ U \in Nat
      BY <1>3, <1>5 DEF A, U
    <2>3. Max({0, A - U}) \in {0, A - U}
      <3>1. 0 \in Int /\ A - U \in Int
        BY <2>2
      <3>2. QED
        BY <3>1, LargerIs, Zenon
    <2>4. U < A
      BY <2>1, <2>2, <2>3
    <2>5. QED
      BY <2>4 DEF A, U
  <1>7. Charged(u, month) = SumFunctionOnSet(Charges, T) /\ Charged(u, month) \in Nat
    BY ChargedIs
  <1> HIDE DEF u, d, S, T
  <1>9. Charged(u, month) <= Allowance(u \in everPro) - 1
    BY <1>2, <1>3, <1>5, <1>6, <1>7
  <1>10. QED
    BY <1>9 DEF u

LEMMA HeldIsFinite ==
  ASSUME NEW u, NEW m
  PROVE  /\ IsFiniteSet(Held(u, m)) /\ Cardinality(Held(u, m)) \in Nat
         /\ Cardinality(Held(u, m)) <= Cardinality(Workers)
  BY Bounds, FS_Subset, FS_CardinalityType DEF Held

LEMMA SameHeld ==
  ASSUME NEW w \in Workers, OthersKeep(w), InCall(w)' <=> InCall(w),
         InCall(w) => job'[w].run = job[w].run /\ job'[w].row.month = job[w].row.month, NEW u, NEW m
  PROVE  Held(u, m)' = Held(u, m)
  BY DEF Held, InCall, OthersKeep

LEMMA HeldLeft ==
  ASSUME NEW w \in Workers, OthersKeep(w), ~InCall(w)', NEW u, NEW m
  PROVE  Cardinality(Held(u, m)') = IF InCall(w) /\ job[w].run.user = u /\ job[w].row.month = m
                                    THEN Cardinality(Held(u, m)) - 1 ELSE Cardinality(Held(u, m))
  <1>1. /\ Held(u, m)' = Held(u, m) \ {w}
        /\ w \in Held(u, m) <=> InCall(w) /\ job[w].run.user = u /\ job[w].row.month = m
    BY DEF Held, InCall, OthersKeep
  <1>2. QED
    BY <1>1, HeldIsFinite, FS_RemoveElement

\* A call begun is one more of the account and the month it was judged in.
LEMMA HeldBegun ==
  ASSUME NEW w \in Workers, OthersKeep(w), ~InCall(w), NEW u, NEW m,
         ~(InCall(w)' /\ job'[w].run.user = u /\ job'[w].row.month = m)
  PROVE  Held(u, m)' = Held(u, m)
  BY DEF Held, InCall, OthersKeep

LEMMA Times ==
  ASSUME NEW a \in Nat, NEW b \in Nat, NEW c \in Nat, a <= b
  PROVE  a * c <= b * c /\ a * c \in Nat /\ b * c \in Nat /\ (a > 0 => (a - 1) * c = a * c - c)
  OBVIOUS

\* There is room in an account's month for every call in hand.
Roomy(charged, held, paid) ==
    charged + held * Most <= Allowance(paid) - 1 + Cardinality(Workers) * Most

LEMMA RoomKeeps ==
  ASSUME TypeOK, TypeOK', JobsOK, RowsOK, RoomLeft, [Next]_vars
  PROVE  RoomLeft'
  <1> SUFFICES ASSUME NEW u \in Accounts, NEW m \in 0..MaxMonth
               PROVE  Charged(u, m)' + Cardinality(Held(u, m)') * Most
                        <= Allowance(u \in everPro') - 1 + Cardinality(Workers) * Most
    BY Zenon DEF RoomLeft
  <1> DEFINE C == Charged(u, m)
             H == Cardinality(Held(u, m))
             W == Cardinality(Workers)
             A == Allowance(u \in everPro)
             B == Allowance(u \in everPro')
  <1>0. /\ C + H * Most <= A - 1 + W * Most
        /\ C \in Nat /\ H \in Nat /\ W \in Nat /\ H <= W /\ Most \in Nat /\ A \in Nat
    BY ChargedIs, HeldIsFinite, Bounds DEF RoomLeft, Allowance
  <1>a. A <= B /\ B \in Nat
    <2>1. u \in everPro => u \in everPro'
      BY DEF Next, vars, people, Record, SignIn, Leave, Plan, NextMonth, Attach, Judge, Failed, Save, Die, Answered, ReadCase
    <2>2. QED
      BY <2>1, Bounds DEF Allowance
  <1>1. ASSUME Charged(u, m)' = C, Held(u, m)' = Held(u, m)
        PROVE  Charged(u, m)' + Cardinality(Held(u, m)') * Most <= B - 1 + W * Most
    <2> HIDE DEF C, A, B, W
    <2>1. C + H * Most <= B - 1 + W * Most
      <3> HIDE DEF H
      <3>1. H * Most \in Nat /\ W * Most \in Nat
        BY <1>0, Times
      <3>2. QED
        BY <1>0, <1>a, <3>1
    <2>2. QED
      BY <1>1, <2>1
  <1>c. UNCHANGED <<reports, purse>> => Charged(u, m)' = C
    BY DEF Charged, Charges
  <1>2. CASE UNCHANGED <<reports, purse, job>>
    BY <1>1, <1>2, <1>c DEF Held, InCall
  <1>3. ASSUME NEW b \in Browsers, NEW r \in Rounds, NEW w \in Workers, NEW audio \in BOOLEAN, Attach(b, r, w, audio)
        PROVE  Charged(u, m)' + Cardinality(Held(u, m)') * Most <= B - 1 + W * Most
    <2>1. Held(u, m)' = Held(u, m)
      BY <1>3, WorkerAttaches, SameHeld
    <2>2. UNCHANGED <<reports, purse>>
      BY <1>3 DEF Attach
    <2>3. QED
      BY <1>1, <1>c, <2>1, <2>2
  <1>4. ASSUME NEW w \in Workers, Judge(w)
        PROVE  Charged(u, m)' + Cardinality(Held(u, m)') * Most <= B - 1 + W * Most
    <2>1. UNCHANGED <<reports, purse>>
      BY <1>4 DEF Judge
    <2>2. /\ OthersKeep(w) /\ ~InCall(w) /\ (InCall(w)' <=> WouldSpend(w))
          /\ job'[w].run = job[w].run /\ job'[w].row.month = month
      BY <1>4, WorkerJudges
    <2>3. CASE WouldSpend(w) /\ job[w].run.user = u /\ month = m
      <3>1. C <= A - 1
        BY <1>4, <2>3, JudgedWithin
      <3>2. /\ Cardinality(Held(u, m)') \in Nat /\ Cardinality(Held(u, m)') <= W
        <4>1. Held(u, m)' \in SUBSET Workers
          BY DEF Held
        <4>2. QED
          BY <4>1, Bounds, FS_Subset, FS_CardinalityType
      <3> DEFINE K == Cardinality(Held(u, m)')
      <3>3. Charged(u, m)' = C
        BY <1>c, <2>1
      <3> HIDE DEF C, A, B, W, K
      <3>4. K * Most <= W * Most /\ K * Most \in Nat /\ W * Most \in Nat
        BY <1>0, <3>2, Times DEF K
      <3>5. C + K * Most <= B - 1 + W * Most
        BY <1>0, <1>a, <3>1, <3>4
      <3>6. QED
        BY <3>3, <3>5 DEF K
    <2>4. CASE ~(WouldSpend(w) /\ job[w].run.user = u /\ month = m)
      <3>1. Held(u, m)' = Held(u, m)
        BY <2>2, <2>4, HeldBegun
      <3>2. QED
        BY <1>1, <1>c, <2>1, <3>1
    <2>5. QED
      BY <2>3, <2>4
  <1>5. ASSUME NEW w \in Workers,
               \/ Failed(w)
               \/ \E n \in Heard : Answered(w, n)
               \/ \E taken \in Cases : ReadCase(w, taken)
        PROVE  Charged(u, m)' + Cardinality(Held(u, m)') * Most <= B - 1 + W * Most
    <2>1. Held(u, m)' = Held(u, m)
      BY <1>5, WorkerGoesOn, SameHeld
    <2>2. UNCHANGED <<reports, purse>>
      BY <1>5 DEF Failed, Answered, ReadCase
    <2>3. QED
      BY <1>1, <1>c, <2>1, <2>2
  <1>6. ASSUME NEW w \in Workers, Save(w) \/ Die(w)
        PROVE  Charged(u, m)' + Cardinality(Held(u, m)') * Most <= B - 1 + W * Most
    <2> DEFINE Mine == InCall(w) /\ job[w].run.user = u /\ job[w].row.month = m
               K == Cardinality(Held(u, m)')
               D == Charged(u, m)'
    <2>1. K = IF Mine THEN H - 1 ELSE H
      BY <1>6, WorkerLeaves, HeldLeft
    <2>2. Mine => H > 0
      <3>1. Mine => w \in Held(u, m)
        BY DEF Held
      <3>2. QED
        BY <3>1, HeldIsFinite, FS_EmptySet, <1>0
    <2>3. D = C \/ (Mine /\ D <= C + Most /\ D \in Nat)
      <3>1. CASE UNCHANGED <<reports, purse>>
        BY <1>c, <3>1
      <3>2. CASE Save(w) /\ job[w].round \notin DOMAIN reports
        <4>1. /\ job[w] # Idle /\ job[w].row \in Report /\ RowOK(job[w].row) /\ job[w].stage # "judge"
              /\ job[w].row.charged \in Nat /\ job[w].row.charged <= Most
          <5>1. job[w] # Idle /\ job[w].row \in Report /\ job[w].stage = "save"
            BY <3>2, JobShape DEF Save, Idle
          <5>2. RowOK(job[w].row)
            BY <5>1 DEF JobsOK
          <5>3. job[w].row.charged \in 0..Most
            BY <5>1 DEF Report
          <5>4. QED
            BY <5>1, <5>2, <5>3, Bounds
        <4>2. reports' = Put(reports, job[w].round, job[w].row) /\ purse' = Put(purse, job[w].round, job[w].run.user)
          BY <3>2 DEF Save
        <4>3. D = IF job[w].run.user = u /\ job[w].row.month = m THEN C + job[w].row.charged ELSE C
          BY <3>2, <4>1, <4>2, ChargedGrows
        <4>4. ~InCall(w) => job[w].row.charged = 0
          BY <4>1 DEF InCall, RowOK
        <4>5. QED
          BY <1>0, <4>1, <4>3, <4>4
      <3>3. QED
        BY <1>6, <3>1, <3>2, Zenon DEF Save, Die
    <2> HIDE DEF Mine, K, D, C, H, A, B, W
    <2>4. H * Most \in Nat /\ W * Most \in Nat /\ (H > 0 => (H - 1) * Most = H * Most - Most)
      BY <1>0, Times
    <2>5. D + K * Most <= B - 1 + W * Most
      <3>1. CASE Mine
        <4>1. K * Most = H * Most - Most
          BY <2>1, <2>2, <2>4, <3>1
        <4>2. QED
          BY <1>0, <1>a, <2>3, <2>4, <4>1
      <3>2. CASE ~Mine
        <4>1. K = H /\ D = C
          BY <2>1, <2>3, <3>2
        <4>2. QED
          BY <1>0, <1>a, <2>4, <4>1
      <3>3. QED
        BY <3>1, <3>2
    <2>6. QED
      BY <2>5 DEF K, D
  <1>7. QED
    BY <1>2, <1>3, <1>4, <1>5, <1>6, Zenon DEF Next, vars, Record, SignIn, Leave, Plan, NextMonth

LEMMA ReportsBegin == Init => ReportsInv
  <1> SUFFICES ASSUME Init PROVE ReportsInv
    OBVIOUS
  <1>1. TypeOK
    BY TypesBegin
  <1>2. \A w \in Workers : job[w] = Idle
    BY DEF Init
  <1>e. DOMAIN reports = {} /\ Cardinality({}) = 0
    BY FS_EmptySet DEF Init
  <1>3. JobsOK /\ RowsOK /\ CookiesDiffer /\ ToldIsKept
    BY <1>2 DEF Init, JobsOK, RowsOK, CookiesDiffer, ToldIsKept
  <1>4. FailedCallSpends
    <2>1. \A r : InHand(r) = {}
      BY <1>2 DEF InHand, InCall
    <2>2. QED
      <3>1. \A r \in Rounds : asked[r] = 0 /\ lost[r] = 0
        BY DEF Init
      <3>2. \A r : ~Counted(r) /\ Cardinality(InHand(r)) = 0
        BY <1>e, <2>1 DEF Counted
      <3>3. QED
        BY <3>1, <3>2, SpendsIs
  <1>5. RoomLeft
    <2> SUFFICES ASSUME NEW u \in Accounts, NEW m \in 0..MaxMonth
                 PROVE  Charged(u, m) + Cardinality(Held(u, m)) * Most
                          <= Allowance(u \in everPro) - 1 + Cardinality(Workers) * Most
      BY Zenon DEF RoomLeft
    <2>1. Held(u, m) = {} /\ RowsOf(u, m) = {}
      BY <1>2, <1>e DEF Held, InCall, RowsOf
    <2>2. Charged(u, m) = 0 /\ Cardinality(Held(u, m)) = 0
      <3>1. Charged(u, m) = SumFunctionOnSet(Charges, {})
        BY <1>1, <2>1, ChargedIs
      <3>2. Cardinality(Held(u, m)) = 0
        BY <1>e, <2>1
      <3>3. QED
        BY <3>1, <3>2, SumOfNone
    <2>3. Allowance(u \in everPro) \in Nat /\ Allowance(u \in everPro) > 0
      BY Bounds DEF Allowance
    <2>4. 0 * Most = 0 /\ Cardinality(Workers) * Most \in Nat
      BY Bounds, Times
    <2>5. QED
      BY <2>2, <2>3, <2>4
  <1>6. QED
    BY <1>1, <1>3, <1>4, <1>5, Zenon DEF ReportsInv

LEMMA ReportsGoOn == ReportsInv /\ [Next]_vars => ReportsInv'
  <1> SUFFICES ASSUME ReportsInv, [Next]_vars PROVE ReportsInv'
    OBVIOUS
  <1>1. TypeOK /\ JobsOK /\ RowsOK /\ CookiesDiffer /\ FailedCallSpends /\ ToldIsKept /\ RoomLeft
    BY Zenon DEF ReportsInv
  <1>2. TypeOK'
    BY <1>1, TypesKept, Zenon
  <1>3. JobsOK' /\ RowsOK' /\ CookiesDiffer' /\ FailedCallSpends' /\ ToldIsKept' /\ RoomLeft'
    BY <1>1, <1>2, JobsKeep, RowsKeep, CookiesKeep, SpendsKeep, ToldKeep, RoomKeeps, Zenon
  <1>4. QED
    BY <1>2, <1>3, Zenon DEF ReportsInv

LEMMA RoomIsBound == ReportsInv => MonthIsCounted
  <1> SUFFICES ASSUME ReportsInv PROVE OverrunBounded
    BY Zenon DEF ReportsInv, MonthIsCounted
  <1> SUFFICES ASSUME NEW u \in Accounts, NEW m \in 0..MaxMonth
               PROVE  Charged(u, m) <= Allowance(u \in everPro) - 1 + Cardinality(Workers) * Most
    BY Zenon DEF OverrunBounded
  <1> DEFINE C == Charged(u, m)
             H == Cardinality(Held(u, m))
             K == Cardinality(Workers) * Most
             A == Allowance(u \in everPro)
  <1>1. C + H * Most <= A - 1 + K
    BY Zenon DEF ReportsInv, RoomLeft
  <1>2. C \in Nat /\ H * Most \in Nat /\ K \in Nat /\ A \in Nat
    BY ChargedIs, HeldIsFinite, Bounds, Times DEF ReportsInv, Allowance
  <1> HIDE DEF C, H, K, A
  <1>3. C <= A - 1 + K
    BY <1>1, <1>2
  <1>4. QED
    BY <1>3 DEF C, A, K

(* An account's month goes over what its plan allows by at most one round  *)
(* for each worker, and every call made is on a row, in hand or counted    *)
(* as lost, however many workers judge the same allowance (make).          *)
THEOREM MonthCounted == Spec => []MonthIsCounted
  BY ReportsBegin, ReportsGoOn, RoomIsBound, PTL DEF Spec

(* A report once answered is what is stored, and its browser may open it   *)
(* until it leaves its account (attach_report, claim_device).              *)
THEOREM ToldKept == Spec => []ToldIsKept
  <1>1. ReportsInv => ToldIsKept
    BY DEF ReportsInv
  <1>2. QED
    BY <1>1, ReportsBegin, ReportsGoOn, PTL DEF Spec

-----------------------------------------------------------------------------
(* Both, in the composition the runs check.                                *)

MCInv == ReportsInv /\ CallInv

LEMMA ScenesBegin == MCInit => MCInv
  BY ReportsBegin, CallBegins DEF MCInit, MCInv

LEMMA ScenesGoOn == MCInv /\ [MCNext]_mcVars => MCInv'
  <1> SUFFICES ASSUME MCInv, [MCNext]_mcVars PROVE MCInv'
    OBVIOUS
  <1>1. [Next]_vars /\ [CallNext]_callVars
    BY DEF MCNext, mcVars
  <1>2. ReportsInv' /\ CallInv'
    BY <1>1, ReportsGoOn, CallGoesOn DEF MCInv
  <1>3. QED
    BY <1>2 DEF MCInv

(* The tables, the workers and the call keep their types.                  *)
THEOREM ReportsTyped == MCSpec => []ReportsTypeOK
  <1>1. MCInv => ReportsTypeOK
    BY Zenon DEF MCInv, ReportsInv, CallInv, ReportsTypeOK
  <1>2. QED
    BY <1>1, ScenesBegin, ScenesGoOn, PTL DEF MCSpec
=============================================================================
