------------------------------ MODULE Accounts ------------------------------
(* Browsers, the cookies they carry, and the doors to an account: apps/     *)
(* authentication, common/devices.py and the claim in runs/services.py.     *)
(* A call takes the cookies the jar holds when it is sent; the server reads *)
(* them when it arrives, sometimes writes later, and its answer sets        *)
(* cookies only when it is delivered. Calls of one browser overlap, save    *)
(* that one form waits for its answer before another is sent.               *)
EXTENDS Naturals, FiniteSets

CONSTANTS
    People,     \* addresses: each has at most one account, and one Google identity
    Browsers,
    Met,        \* Met[b]: the device a browser carries from before, or None
    Runs,
    Codes,      \* what a referral link may carry
    Stem,       \* Stem[u]: what u's code is built from; <<Stem[u], 0>> is the bare stem
    Devices,    \* bound: uuid4 hexes, a set of numbers
    Keys,       \* bound: session keys, a set of numbers
    Calls,      \* bound: calls in flight
    MaxWord,    \* bound: passwords one account may have had
    Scenes,     \* bound: the jobs a history mixes, whose names it types, who has
                \* an account and a code at the start, how many calls it sends
    None,
    Keep        \* an answer that leaves a cookie alone

Doors == {"signup", "login", "google", "reset", "password", "logout", "everywhere"}
Forms == Doors \ {"logout"}    \* disabled while busy: the menu's Sign out is not
Jobs  == Doors \cup {"forgot", "record", "look", "buy"}

\* Nobody begins with the code of another, and no two browsers with one device.
ASSUME ScenesAssumption ==
    /\ Scenes \subseteq [jobs : SUBSET Jobs, people : SUBSET People, begun : SUBSET People, sends : Nat]
    /\ \A s \in Scenes : \A u, v \in s.begun : Stem[u] = Stem[v] => u = v
ASSUME CodesAssumption == \A u \in People : <<Stem[u], 0>> \in Codes
ASSUME MetAssumption ==
    /\ Met \in [Browsers -> Devices \cup {None}]
    /\ \A b, c \in Browsers : Met[b] # None /\ Met[b] = Met[c] => b = c
ASSUME BoundsAssumption ==
    /\ Devices \subseteq Nat /\ Keys \subseteq Nat
    /\ MaxWord \in Nat \ {0}

VARIABLES
    user,       \* the users table
    session,    \* the sessions table
    run,        \* the runs table: whose each is
    links,      \* accounts a reset link is live for
    jar,        \* the cookies of each browser
    call,       \* what is in flight
    sends,      \* calls sent so far
    scene,      \* the one of Scenes this history plays
    shown,      \* auxiliary: the codes pages have shown, and anybody may post
    era,        \* auxiliary: rotations each browser has been handed
    opened      \* auxiliary: the accounts a browser signed in to in an era, the one
                \* it asked in and the one it was answered in

tables   == <<user, session, run, links>>
seen     == <<shown, era, opened>>
accounts == <<user, session, run, links, jar, call, sends, scene, shown, era, opened>>

\* word counts the passwords an account has had: 0 is an unusable one.
Account == [word : 0 .. MaxWord, google : BOOLEAN, referrer : People \cup {None}, code : Codes \cup {None}]
\* proof is the password whoever opened it showed, 0 for none (auxiliary).
Session == [user : People, hash : 0 .. MaxWord, proof : 0 .. MaxWord]
Born    == Browsers \X Nat
Run     == [device : Devices, user : People \cup {None}, born : Born]
Jar     == [device : Devices \cup {None}, session : Keys \cup {None}, ref : Codes \cup {None}]
Answer  == [device : Devices \cup {Keep}, session : Keys \cup {Keep, None}, rotated : BOOLEAN]

NoAnswer == [device |-> Keep, session |-> Keep, rotated |-> FALSE]

\* who and typed are what the form says; word is the password hash of the
\* user object the handler holds, held what else it is about to write.
Call == [job : Jobs, from : Browsers, cookies : Jar, era : Nat,
         who : People \cup {None}, typed : 0 .. MaxWord,
         step : {"sent", "checked", "made", "known", "answered"},
         word : 0 .. MaxWord, held : Codes \cup People \cup {None}, answer : Answer]

\* None and Keep are no column, cookie or row.
ASSUME NoneAssumption ==
    /\ Keep # None /\ Keep \notin Nat
    /\ None \notin Nat \cup People \cup Codes
    /\ None \notin Account /\ None \notin Session /\ None \notin Run /\ None \notin Call

TypeOK ==
    /\ user \in [People -> Account \cup {None}]
    /\ session \in [Keys -> Session \cup {None}]
    /\ run \in [Runs -> Run \cup {None}]
    /\ links \subseteq People
    /\ jar \in [Browsers -> Jar]
    /\ call \in [Calls -> Call \cup {None}]
    /\ scene \in Scenes /\ sends \in 0 .. scene.sends
    /\ shown \subseteq People \X Codes
    /\ era \in [Browsers -> Nat]
    /\ opened \subseteq Born \X People
    \* A browser never waits on two forms at once.
    /\ \A p, q \in Calls :
          p # q /\ call[p] # None /\ call[q] # None /\ call[p].from = call[q].from
             => ~ {call[p].job, call[q].job} \subseteq Forms

\* A row as sign-up makes it, or Google: with no password.
New(google) == [word |-> IF google THEN 0 ELSE 1, google |-> google, referrer |-> None, code |-> None]

Init ==
    /\ session = [k \in Keys |-> None]
    /\ run = [r \in Runs |-> None]
    /\ links = {}
    /\ jar = [b \in Browsers |-> [device |-> Met[b], session |-> None, ref |-> None]]
    /\ call = [q \in Calls |-> None]
    /\ sends = 0
    /\ scene \in Scenes
    /\ user = [u \in People |-> IF u \in scene.begun THEN [New(FALSE) EXCEPT !.code = <<Stem[u], 0>>] ELSE None]
    /\ shown = {<<u, user[u].code>> : u \in scene.begun}
    /\ era = [b \in Browsers |-> 0]
    /\ opened = {}

-----------------------------------------------------------------------------
(* The network.                                                             *)

Flying == {q \in Calls : call[q] # None}
Rows   == {k \in Keys : session[k] # None}
Lowest(ids, used) == CHOOSE i \in ids \ used : \A j \in ids \ used : i <= j
At(q, step) == q \in Flying /\ call[q].step = step
Asks(q, job) == At(q, "sent") /\ call[q].job = job

\* Which page offers what: a form for strangers, a menu and settings for the
\* rest. The menu may be stale, so signing out is offered to both.
Offered(b, job, who, typed) ==
    CASE job \in {"signup", "google"} -> jar[b].session = None /\ who # None /\ typed = 0
      [] job = "login"  -> jar[b].session = None /\ who # None /\ user[who] # None /\ typed \in 1 .. user[who].word
      [] job = "reset"  -> who # None /\ typed = 0
      [] job = "forgot" -> who # None /\ typed = 0
      [] job = "password" -> jar[b].session # None /\ who = None
      [] job \in {"everywhere", "buy"} -> jar[b].session # None /\ who = None /\ typed = 0
      [] OTHER -> who = None /\ typed = 0

\* ?ref= on any page becomes the cookie of the browser, the last one winning;
\* it may be followed any time before the call that reads the cookie.
Refs(b, job) == {jar[b].ref} \cup IF job \in {"signup", "google", "buy"} THEN {link[2] : link \in shown} ELSE {}

Send(q, b, job, who, typed, ref) ==
    /\ job \in Forms => \A p \in Flying : call[p].from = b => call[p].job \notin Forms
    /\ Offered(b, job, who, typed)
    /\ jar' = [jar EXCEPT ![b].ref = ref]
    /\ call' = [call EXCEPT ![q] =
                  [job |-> job, from |-> b, cookies |-> jar'[b], era |-> era[b], who |-> who,
                   typed |-> typed, step |-> "sent", word |-> 0, held |-> None, answer |-> NoAnswer]]
    /\ sends' = sends + 1
    /\ UNCHANGED <<tables, scene, seen>>

\* Seeded fault: the middleware writes the device cookie on every answer.
DeliverAlways(q) ==
    LET b == call[q].from
        a == call[q].answer
    IN  /\ At(q, "answered")
        /\ jar' = [jar EXCEPT ![b].device  = IF a.device = Keep THEN call[q].cookies.device ELSE a.device,
                              ![b].session = IF a.session = Keep THEN @ ELSE a.session]
        /\ era' = IF a.rotated THEN [era EXCEPT ![b] = @ + 1] ELSE era
        /\ opened' = opened \cup {<< <<b, era'[b]>>, session[k].user>> : k \in {a.session} \cap Rows}
        /\ call' = [call EXCEPT ![q] = None]
        /\ UNCHANGED <<tables, sends, scene, shown>>

\* DeviceCookieMiddleware: the device cookie is written when it is not the
\* one that arrived, and otherwise left alone.
Deliver(q) ==
    LET b == call[q].from
        a == call[q].answer
    IN  /\ At(q, "answered")
        /\ jar' = [jar EXCEPT ![b].device  = IF a.device = Keep THEN @ ELSE a.device,
                              ![b].session = IF a.session = Keep THEN @ ELSE a.session]
        /\ era' = IF a.rotated THEN [era EXCEPT ![b] = @ + 1] ELSE era
        /\ opened' = opened \cup {<< <<b, era'[b]>>, session[k].user>> : k \in {a.session} \cap Rows}
        /\ call' = [call EXCEPT ![q] = None]
        /\ UNCHANGED <<tables, sends, scene, shown>>

\* An answer is lost on the way back. A call lost on the way out is one that
\* was not sent: no page does anything before its answer.
Lose(q) ==
    /\ At(q, "answered")
    /\ call' = [call EXCEPT ![q] = None]
    /\ UNCHANGED <<tables, jar, sends, scene, shown, era, opened>>

-----------------------------------------------------------------------------
(* What the server reads off a call.                                        *)

Live(k) == k \in Keys /\ session[k] # None /\ session[k].hash = user[session[k].user].word

\* request.user: nobody, unless the key is of a live session.
Who(q) == IF Live(call[q].cookies.session) THEN session[call[q].cookies.session].user ELSE None

Held == {jar[b].device : b \in Browsers} \cup {call[q].cookies.device : q \in Flying}
          \cup {call[q].answer.device : q \in Flying}
          \cup {run[r].device : r \in {s \in Runs : run[s] # None}}
InJars == {jar[b].session : b \in Browsers} \cup {call[q].cookies.session : q \in Flying}
          \cup {call[q].answer.session : q \in Flying}

\* The next uuid4 and the next session key: never ones a trace is left of.
FreshDevice == Lowest(Devices, Held)
FreshKey    == Lowest(Keys, InJars \cup Rows)
\* Bound: every call there is finds an id to be handed.
Room == Devices \ Held # {} /\ Keys \ (InJars \cup Rows) # {}

\* device_id: the cookie's, or a fresh one.
DeviceId(q) == IF call[q].cookies.device = None THEN FreshDevice ELSE call[q].cookies.device
WrittenDevice(q) == IF call[q].cookies.device = None THEN FreshDevice ELSE Keep

\* The framework takes back a session cookie that names nobody.
WrittenSession(q) == IF call[q].cookies.session # None /\ Who(q) = None THEN None ELSE Keep

Plain(q) == [device |-> WrittenDevice(q), session |-> WrittenSession(q), rotated |-> FALSE]

Steps(q, step, word) == call' = [call EXCEPT ![q].step = step, ![q].word = word]
Answers(q, answer) ==
    call' = [call EXCEPT ![q] = [@ EXCEPT !.step = "answered", !.answer = answer,
                                          !.who = None, !.typed = 0, !.word = 0, !.held = None]]
Refuses(q) == Answers(q, Plain(q)) /\ UNCHANGED <<tables, opened>>

-----------------------------------------------------------------------------
(* Runs.                                                                    *)

\* POST /runs: the device's, and the account's if somebody is signed in.
Record(q, r) ==
    /\ Asks(q, "record") /\ run[r] = None
    /\ run' = [run EXCEPT ![r] = [device |-> DeviceId(q), user |-> Who(q),
                                  born |-> <<call[q].from, call[q].era>>]]
    /\ Answers(q, Plain(q))
    /\ UNCHANGED <<user, session, links, opened>>

\* claim_device: the device's runs that are nobody's become the account's.
Claimed(did, u) ==
    [r \in Runs |-> IF run[r] # None /\ run[r].device = did /\ run[r].user = None
                    THEN [run[r] EXCEPT !.user = u] ELSE run[r]]

\* owned_by: whose runs a browser is shown, by the cookies it holds.
OwnedBy(b) ==
    {r \in Runs : run[r] # None /\
        IF Live(jar[b].session) THEN run[r].user = session[jar[b].session].user
        ELSE run[r].device = jar[b].device /\ run[r].user = None}

-----------------------------------------------------------------------------
(* Sessions.                                                                *)

\* end_all_sessions: every row that names the account.
Ended(u) == [k \in Keys |-> IF session[k] # None /\ session[k].user = u THEN None ELSE session[k]]

\* Django's login: a new key for this browser, and the signal that claims.
\* Any sign-in kills the reset links sent before it.
LogIn(q, u, hash, proof, table) ==
    LET old == call[q].cookies.session
        new == [user |-> u, hash |-> hash, proof |-> proof]
    IN  /\ session' = [k \in Keys |-> IF k = FreshKey THEN new ELSE IF k = old THEN None ELSE table[k]]
        /\ run' = Claimed(DeviceId(q), u)
        /\ links' = links \ {u}
        /\ opened' = opened \cup {<< <<call[q].from, call[q].era>>, u>>}
        /\ Answers(q, [device |-> WrittenDevice(q), session |-> FreshKey, rotated |-> FALSE])

\* Seeded fault: the device is kept across a sign-out.
RotatedNot(q) == [device |-> WrittenDevice(q), session |-> None, rotated |-> TRUE]

\* rotate_device, with dj_logout: the answer carries a fresh device.
Rotated(q) == [device |-> FreshDevice, session |-> None, rotated |-> TRUE]

\* logout: a session that already expired leaves the device alone.
LogOut(q) ==
    /\ Asks(q, "logout")
    /\ IF Who(q) = None THEN Refuses(q)
       ELSE /\ session' = [session EXCEPT ![call[q].cookies.session] = None]
            /\ Answers(q, Rotated(q))
            /\ UNCHANGED <<user, run, links, opened>>

LogOutEverywhere(q) ==
    /\ Asks(q, "everywhere")
    /\ IF Who(q) = None THEN Refuses(q)
       ELSE /\ session' = Ended(Who(q))
            /\ Answers(q, Rotated(q))
            /\ UNCHANGED <<user, run, links, opened>>

-----------------------------------------------------------------------------
(* The doors in. Each checks, and then writes.                              *)

Named(code) == {u \in People : user[u] # None /\ user[u].code = code /\ code # None}

\* attribute_referral: once, whoever the cookie of the call names by now,
\* never oneself. A code nobody holds is ignored.
Attributed(u, code) ==
    LET found == Named(code) \ {u}
    IN  IF user[u].referrer # None \/ found = {} THEN user
        ELSE [user EXCEPT ![u].referrer = CHOOSE v \in found : TRUE]

\* Sign-up refuses an address it finds taken; Google opens or links the row
\* it finds.
BeginSignup(q) ==
    /\ Asks(q, "signup")
    /\ IF user[call[q].who] # None THEN Refuses(q)
       ELSE Steps(q, "checked", 0) /\ UNCHANGED <<tables, opened>>

BeginGoogle(q) ==
    LET u == call[q].who
    IN  /\ Asks(q, "google")
        /\ IF user[u] = None THEN Steps(q, "checked", 0) /\ UNCHANGED user
           ELSE /\ user' = [user EXCEPT ![u].google = TRUE]
                /\ Steps(q, "known", user[u].word)
        /\ UNCHANGED <<session, run, links, opened>>

\* The unique address decides between two that found it free: sign-up says
\* so, Google takes the row that landed first.
Create(q) ==
    LET u == call[q].who
        google == call[q].job = "google"
    IN  /\ At(q, "checked") /\ call[q].job \in {"signup", "google"}
        /\ IF user[u] = None
           THEN user' = [user EXCEPT ![u] = New(google)] /\ Steps(q, "made", New(google).word)
           ELSE IF google THEN Steps(q, "known", user[u].word) /\ UNCHANGED user
           ELSE Answers(q, Plain(q)) /\ UNCHANGED user
        /\ UNCHANGED <<session, run, links, opened>>

EnterNew(q) ==
    LET u == call[q].who
    IN  /\ At(q, "made")
        /\ user' = Attributed(u, call[q].cookies.ref)
        /\ LogIn(q, u, call[q].word, call[q].word, session)

\* The password is checked against the row as it is, with its hash kept.
BeginLogin(q) ==
    LET u == call[q].who
    IN  /\ Asks(q, "login")
        /\ IF user[u] # None /\ user[u].word # 0 /\ user[u].word = call[q].typed
           THEN Steps(q, "known", user[u].word) /\ UNCHANGED <<tables, opened>>
           ELSE Refuses(q)

\* Seeded fault: the session is signed with the hash of the moment.
EnterFresh(q) ==
    LET u == call[q].who
    IN  /\ At(q, "known")
        /\ LogIn(q, u, user[u].word, call[q].typed, session)
        /\ UNCHANGED user

\* The session is signed with the hash of the row that was checked.
Enter(q) ==
    LET u == call[q].who
    IN  /\ At(q, "known")
        /\ LogIn(q, u, call[q].word, call[q].typed, session)
        /\ UNCHANGED user

-----------------------------------------------------------------------------
(* Passwords.                                                               *)

\* request_reset: the answer is the same whoever the address is.
Forgot(q) ==
    /\ Asks(q, "forgot")
    /\ links' = IF user[call[q].who] # None THEN links \cup {call[q].who} ELSE links
    /\ Answers(q, Plain(q))
    /\ UNCHANGED <<user, session, run, opened>>

\* reset_user; change_password's first half, for which an account without a
\* password has none to confirm.
BeginReset(q) ==
    /\ Asks(q, "reset")
    /\ IF call[q].who \notin links THEN Refuses(q)
       ELSE Steps(q, "checked", user[call[q].who].word) /\ UNCHANGED <<tables, opened>>

BeginChange(q) ==
    /\ Asks(q, "password")
    /\ IF Who(q) = None \/ user[Who(q)].word \notin {0, call[q].typed} THEN Refuses(q)
       ELSE /\ call' = [call EXCEPT ![q].step = "checked", ![q].who = Who(q), ![q].word = user[Who(q)].word]
            /\ UNCHANGED <<tables, opened>>

\* The new password is saved, every session of the account ended, and this
\* browser signed in again.
SetPassword(q) ==
    LET u    == call[q].who
        word == user[u].word + 1
    IN  /\ At(q, "checked") /\ call[q].job \in {"reset", "password"}
        /\ word <= MaxWord
        /\ user' = [user EXCEPT ![u].word = word]
        /\ LogIn(q, u, word, word, Ended(u))

-----------------------------------------------------------------------------
Travel(q) ==
    \/ /\ sends < scene.sends
       /\ q \notin Flying /\ q = Lowest(Calls, Flying)
       /\ \E b \in Browsers, job \in scene.jobs, who \in scene.people \cup {None}, typed \in 0 .. MaxWord :
             \E ref \in Refs(b, job) : Send(q, b, job, who, typed, ref)
    \/ Deliver(q)
    \/ Lose(q)

Serve(q) ==
    /\ Room
    /\ \/ \E r \in Runs : Record(q, r)
       \/ LogOut(q) \/ LogOutEverywhere(q)
       \/ BeginSignup(q) \/ BeginGoogle(q) \/ Create(q) \/ EnterNew(q)
       \/ BeginLogin(q) \/ Enter(q)
       \/ Forgot(q) \/ BeginReset(q) \/ BeginChange(q) \/ SetPassword(q)
    /\ UNCHANGED <<jar, sends, scene, shown, era>>

-----------------------------------------------------------------------------
(* Properties.                                                              *)

\* A shared computer is left clean: once a sign-out has handed the browser a
\* fresh device, no run made before it is in the sight of that browser, and
\* a run is only ever an account's that this browser signed in to before
\* that (rotate_device, claim_device, DeviceCookieMiddleware). A browser whose
\* first call of all is still out may be handed its device by that answer.
LeftClean ==
    /\ \A b \in Browsers, r \in Runs :
          Met[b] # None /\ r \in OwnedBy(b) /\ ~Live(jar[b].session) => run[r].born = <<b, era[b]>>
    /\ \A r \in Runs : run[r] # None /\ run[r].user # None /\ Met[run[r].born[1]] # None
            => <<run[r].born, run[r].user>> \in opened

\* Whoever knew an old password no longer holds the account, a sign-in half
\* way through when it changed included (reset_password, change_password).
OldPasswordIsDead ==
    \A k \in Keys : Live(k) /\ session[k].proof # 0 => session[k].proof = user[session[k].user].word

\* Whoever signed out, and whoever knew the old password, is locked out.
LockedOut == LeftClean /\ OldPasswordIsDead

\* "Every run this device made before it had an account becomes the
\* account's" (claim_device's docstring). Not so of a run in flight over the
\* sign-in, which no claim comes after: once nothing is in flight, a run
\* of this browser that is nobody's is in its sight.
RunsInSight ==
    Flying = {} =>
        \A b \in Browsers, r \in Runs :
            run[r] # None /\ run[r].user = None /\ run[r].born = <<b, era[b]>> => r \in OwnedBy(b)
=============================================================================
