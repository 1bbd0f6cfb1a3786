------------------------------ MODULE Reports ------------------------------
(* The report on a round and the minutes it may cost: attach_report in      *)
(* runs/apis.py, make, used and left in runs/reports.py, the two gateways   *)
(* of runs/transcribe.py as their caller meets them (Transcriber is their   *)
(* inside), and the one reading by a model in runs/argument.py.  A request  *)
(* loads the run, judges it against the rows of the month, waits on the     *)
(* transcriber and only then writes the row that counts the call, so a      *)
(* worker holds a copy of the run while people sign in, plans lapse, months *)
(* turn and other workers judge the same allowance.                         *)
EXTENDS Integers, FiniteSets, FiniteSetsExt, Functions

CONSTANTS
    Workers, Browsers, Accounts, Nobody,
    Rounds,      \* rounds ever recorded, named in the order they are
    Lengths,     \* spoken_seconds
    Heard, Most, \* what a transcriber may say it heard, and the most of it
    Free, Pro,   \* allowances, in the unit of Lengths
    Kills,       \* workers may die in a call
    Cases,       \* whether a model's reading comes back in the shape asked for
    Twice,       \* rounds whose post may reach the server twice
    MaxMonth, MaxDevice  \* bounds

ASSUME ReportsAssumption ==
    /\ Nobody \notin Accounts /\ IsFiniteSet(Workers) /\ IsFiniteSet(Rounds)
    /\ Lengths \subseteq 0..Most /\ Heard \subseteq 0..Most /\ Most \in Nat
    /\ Free \in Nat \ {0} /\ Pro \in Nat /\ Free <= Pro
    /\ Kills \in BOOLEAN /\ Cases \subseteq BOOLEAN /\ Twice \subseteq Rounds /\ MaxMonth \in Nat
    /\ MaxDevice \in Nat /\ Browsers \subseteq 1..MaxDevice

VARIABLES
    cookie, who,    \* what each browser's requests carry: its device, its session
    pro, everPro,   \* who holds Pro, and (auxiliary) who ever did
    month,
    runs, reports,  \* the two tables, by round
    made,           \* auxiliary: the browser that finished each round
    posted,         \* times each round's report was asked for
    job,            \* what each worker holds
    asked, lost,    \* auxiliary: calls made on each round, and those of a worker
                    \* that died or found the round reported on
    told, purse     \* auxiliary: rows answered, and who each stored row was judged as

people == <<cookie, who, pro, everPro, month>>
vars   == <<people, runs, reports, made, posted, job, asked, lost, told, purse>>

Device == 1..MaxDevice
Person == Accounts \cup {Nobody}
Run    == [device : Device, user : Person, spoken : Lengths]
Report == [provider : {"", "groq", "assemblyai"}, charged : 0..Most,
           month : 0..MaxMonth,
           said : {"", "words", "case"}]  \* a transcript, and a model's reading of it
Idle   == [stage |-> "idle"]

\* A table with one row more, or written over.
Put(table, r, row) == [q \in DOMAIN table \cup {r} |-> IF q = r THEN row ELSE table[q]]

(* owned_by: an account spans devices, a device its unclaimed rounds.       *)
OwnedBy(r, d, u) ==
    /\ r \in DOMAIN runs
    /\ IF u # Nobody THEN runs[r].user = u
                     ELSE runs[r].device = d /\ runs[r].user = Nobody

Allowance(paid) == IF paid THEN Pro ELSE Free

\* What each row says its round cost.
Charges == [r \in DOMAIN reports |-> reports[r].charged]

\* Seeded fault: what an account spent is looked for on the device.
UsedHere(d, u) ==
    SumFunctionOnSet(Charges,
        {r \in DOMAIN reports : /\ OwnedBy(r, d, Nobody) /\ reports[r].month = month
                                /\ reports[r].provider # ""})

(* used: the month's rows that reached a provider, of whoever this is now.  *)
Used(d, u) ==
    SumFunctionOnSet(Charges,
        {r \in DOMAIN reports : /\ OwnedBy(r, d, u) /\ reports[r].month = month
                                /\ reports[r].provider # ""})

Left(d, u, paid) == Max({0, Allowance(paid) - Used(d, u)})

Init ==
    /\ cookie = [b \in Browsers |-> b]
    /\ who = [b \in Browsers |-> Nobody] /\ pro = {} /\ everPro = {} /\ month = 0
    /\ runs = <<>> /\ reports = <<>> /\ made = <<>>
    /\ posted = [r \in Rounds |-> 0]
    /\ job = [w \in Workers |-> Idle]
    /\ asked = [r \in Rounds |-> 0] /\ lost = [r \in Rounds |-> 0] /\ told = [r \in Rounds |-> {}]
    /\ purse = <<>>

(***************************************************************************)
(* Around the requests.                                                    *)
(***************************************************************************)
Record(b, r, n) ==
    /\ r \notin DOMAIN runs /\ \A q \in Rounds : q < r => q \in DOMAIN runs
    /\ runs' = Put(runs, r, [device |-> cookie[b], user |-> who[b], spoken |-> n])
    /\ made' = Put(made, r, b)
    /\ UNCHANGED <<people, reports, posted, job, asked, lost, told, purse>>

SignIn(b, u) ==  \* claim_device
    /\ who[b] = Nobody
    /\ who' = [who EXCEPT ![b] = u]
    /\ runs' = [r \in DOMAIN runs |->
                 IF OwnedBy(r, cookie[b], Nobody) THEN [runs[r] EXCEPT !.user = u] ELSE runs[r]]
    /\ UNCHANGED <<cookie, pro, everPro, month, reports, made, posted, job, asked, lost, told, purse>>

(* Signing out takes a new device; a session that runs out does not.        *)
Leave(b) ==
    /\ who[b] # Nobody
    /\ who' = [who EXCEPT ![b] = Nobody]
    /\ \/ UNCHANGED cookie
       \/ \E d \in Device : d = Max(Range(cookie)) + 1 /\ cookie' = [cookie EXCEPT ![b] = d]
    /\ made' = Restrict(made, {r \in DOMAIN made : made[r] # b})
    /\ UNCHANGED <<pro, everPro, month, runs, reports, posted, job, asked, lost, told, purse>>

Plan(u) ==
    /\ pro' = IF u \in pro THEN pro \ {u} ELSE pro \cup {u}
    /\ everPro' = everPro \cup {u}
    /\ UNCHANGED <<cookie, who, month, runs, reports, made, posted, job, asked, lost, told, purse>>

NextMonth ==
    /\ month < MaxMonth /\ month' = month + 1
    /\ UNCHANGED <<cookie, who, pro, everPro, runs, reports, made, posted, job, asked, lost, told, purse>>

(***************************************************************************)
(* One request. The page posts once, when its round has been written; audio *)
(* is whether something was heard and may_send lets what came through.     *)
(***************************************************************************)
Attach(b, r, w, audio) ==
    /\ r \in DOMAIN made /\ made[r] = b /\ posted[r] < IF r \in Twice THEN 2 ELSE 1
    /\ job[w] = Idle
    /\ posted' = [posted EXCEPT ![r] = @ + 1]
    /\ job' = IF OwnedBy(r, cookie[b], who[b]) /\ r \notin DOMAIN reports
              THEN [job EXCEPT ![w] = [stage |-> "judge", round |-> r, run |-> runs[r],
                                       audio |-> audio]]
              ELSE job
    /\ UNCHANGED <<people, runs, reports, made, asked, lost, told, purse>>

(* make, up to the call: everything is asked of the run as it was loaded.   *)
Judge(w) ==
    LET j == job[w]
        paid  == j.run.user \in pro
        spend == j.audio /\ Left(j.run.device, j.run.user, paid) > 0
        row   == [provider |-> IF ~spend THEN "" ELSE IF paid THEN "assemblyai" ELSE "groq",
                  charged |-> IF spend THEN j.run.spoken ELSE 0,
                  month |-> month, said |-> ""]
    IN /\ j.stage = "judge"
       /\ job' = [job EXCEPT ![w] = [stage |-> IF spend THEN "call" ELSE "save", round |-> j.round,
                                     run |-> j.run, row |-> row]]
       /\ asked' = IF spend THEN [asked EXCEPT ![j.round] = @ + 1] ELSE asked
       /\ UNCHANGED <<people, runs, reports, made, posted, lost, told, purse>>

\* Seeded fault: a call that failed is a call that was not made.
FailedFree(w) ==
    /\ job[w].stage = "call"
    /\ job' = [job EXCEPT ![w].stage = "save", ![w].row.provider = "", ![w].row.charged = 0]
    /\ UNCHANGED <<people, runs, reports, made, posted, asked, lost, told, purse>>

Failed(w) ==  \* TranscribeError: the provider stays on the row
    /\ job[w].stage = "call"
    /\ job' = [job EXCEPT ![w].stage = "save"]
    /\ UNCHANGED <<people, runs, reports, made, posted, asked, lost, told, purse>>

\* Seeded fault: what was heard is charged on top of the round.
AnsweredTwice(w, seconds) ==
    /\ job[w].stage = "call"
    /\ job' = [job EXCEPT ![w].stage = IF job[w].row.provider = "assemblyai" THEN "case" ELSE "save",
                          ![w].row.charged = @ + seconds, ![w].row.said = "words"]
    /\ UNCHANGED <<people, runs, reports, made, posted, asked, lost, told, purse>>

Answered(w, seconds) ==
    LET paid == job[w].row.provider = "assemblyai" IN
    /\ job[w].stage = "call"
    /\ job' = [job EXCEPT ![w].stage = IF paid THEN "case" ELSE "save",
                          ![w].row.charged = Max({@, seconds}),
                          ![w].row.said = "words"]
    /\ UNCHANGED <<people, runs, reports, made, posted, asked, lost, told, purse>>

ReadCase(w, taken) ==  \* a case in the shape asked for, or none
    /\ job[w].stage = "case"
    /\ job' = [job EXCEPT ![w].stage = "save", ![w].row.said = IF taken THEN "case" ELSE @]
    /\ UNCHANGED <<people, runs, reports, made, posted, asked, lost, told, purse>>

(* A worker holds a call that was made, and what is lost when it goes.      *)
InCall(w) == job[w] # Idle /\ job[w].stage # "judge" /\ job[w].row.provider # ""
Spent(w)  == IF InCall(w) THEN [lost EXCEPT ![job[w].round] = @ + 1] ELSE lost

\* Seeded fault: the second report replaces the first.
SaveOver(w) ==
    LET r == job[w].round IN
    /\ job[w].stage = "save"
    /\ reports' = Put(reports, r, job[w].row)
    /\ told' = [told EXCEPT ![r] = @ \cup {job[w].row}]
    /\ purse' = Put(purse, r, job[w].run.user)
    /\ job' = [job EXCEPT ![w] = Idle]
    /\ UNCHANGED <<people, runs, made, posted, asked, lost>>

(* The row is one to one with its run: a second is an error, not a report.  *)
Save(w) ==
    LET r == job[w].round IN
    /\ job[w].stage = "save"
    /\ IF r \in DOMAIN reports
       THEN lost' = Spent(w) /\ UNCHANGED <<reports, told, purse>>
       ELSE /\ UNCHANGED lost
            /\ reports' = Put(reports, r, job[w].row)
            /\ told' = [told EXCEPT ![r] = @ \cup {job[w].row}]
            /\ purse' = Put(purse, r, job[w].run.user)
    /\ job' = [job EXCEPT ![w] = Idle]
    /\ UNCHANGED <<people, runs, made, posted, asked>>

(* The server ends a worker that holds a request too long, or is restarted. *)
Die(w) ==
    /\ Kills /\ job[w] # Idle
    /\ job' = [job EXCEPT ![w] = Idle]
    /\ lost' = Spent(w)
    /\ UNCHANGED <<people, runs, reports, made, posted, asked, told, purse>>

Next ==
    \/ \E b \in Browsers, r \in Rounds, n \in Lengths : Record(b, r, n)
    \/ \E b \in Browsers : Leave(b) \/ \E u \in Accounts : SignIn(b, u)
    \/ \E u \in Accounts : Plan(u)
    \/ NextMonth
    \/ \E b \in Browsers, r \in Rounds, w \in Workers, audio \in BOOLEAN : Attach(b, r, w, audio)
    \/ \E w \in Workers :
        \/ Judge(w) \/ Failed(w) \/ Save(w) \/ Die(w)
        \/ \E n \in Heard : Answered(w, n)
        \/ \E taken \in Cases : ReadCase(w, taken)

Spec == Init /\ [][Next]_vars

(***************************************************************************)
(* Properties.                                                             *)
(***************************************************************************)
Job == {Idle} \cup
       [stage : {"judge"}, round : Rounds, run : Run, audio : BOOLEAN] \cup
       [stage : {"call", "case", "save"}, round : Rounds, run : Run, row : Report]

(* What the tables, the cookies and the workers hold.                       *)
TypeOK ==
    /\ cookie \in [Browsers -> Device] /\ who \in [Browsers -> Person]
    /\ pro \subseteq everPro /\ everPro \subseteq Accounts /\ month \in 0..MaxMonth
    /\ DOMAIN runs \subseteq Rounds /\ \A r \in DOMAIN runs : runs[r] \in Run
    /\ DOMAIN reports \subseteq DOMAIN runs /\ \A r \in DOMAIN reports : reports[r] \in Report
    /\ DOMAIN made \subseteq DOMAIN runs /\ \A r \in DOMAIN made : made[r] \in Browsers
    /\ posted \in [Rounds -> 0..2]
    /\ job \in [Workers -> Job] /\ \A w \in Workers : job[w] # Idle => job[w].round \in DOMAIN runs
    /\ asked \in [Rounds -> Nat] /\ lost \in [Rounds -> Nat] /\ told \in [Rounds -> SUBSET Report]

(* What an account was charged in a month for calls judged as its own.      *)
Charged(u, m) ==
    SumFunctionOnSet(Charges,
        {r \in DOMAIN reports : purse[r] = u /\ reports[r].month = m})

(* An account's month goes over what its plan allows by at most one round   *)
(* for each worker: "the worst overrun is one round past the line"          *)
(* (_may_spend) is true of one worker, and of several it is one round each, *)
(* whatever claims, plans and months turn between a judgement and its row.  *)
OverrunBounded ==
    \A u \in Accounts, m \in 0..MaxMonth :
        Charged(u, m) <= Allowance(u \in everPro) - 1 + Cardinality(Workers) * Most

(* "A failed call still spends": every call made to a transcriber is on a   *)
(* row that counts it or still in the hands of a worker. Not so of a worker *)
(* that died, or of the second of two posts: theirs is paid for and lost.   *)
FailedCallSpends ==
    \A r \in Rounds :
        asked[r] = lost[r] + Cardinality({w \in Workers : InCall(w) /\ job[w].round = r})
                   + IF r \in DOMAIN reports /\ reports[r].provider # "" THEN 1 ELSE 0

(* The month is counted: as much as the plan gives, and every call.         *)
MonthIsCounted == OverrunBounded /\ FailedCallSpends

(* A report once answered is what is stored, and the browser it was         *)
(* answered to opens it again until it leaves its account: a second post, a *)
(* claim in the middle of the call or a lapsed plan changes neither.        *)
ToldIsKept ==
    \A r \in Rounds :
        /\ \A row \in told[r] : r \in DOMAIN reports /\ reports[r] = row
        /\ r \in DOMAIN made => OwnedBy(r, cookie[made[r]], who[made[r]])
=============================================================================
