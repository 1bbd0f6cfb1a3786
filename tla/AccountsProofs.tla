---------------------------- MODULE AccountsProofs ----------------------------
(* The doors to an account and the affiliate programme, for any number of   *)
(* people, browsers, calls, codes and sales, and whatever a history mixes.  *)
EXTENDS Affiliates, Sums, TLAPS

Members == {u \in People : user[u] # None}

(* What a handler goes by at each point of its call.                        *)
CallKnows(c, members) ==
    /\ c.step = "sent" /\ c.job \in {"signup", "login", "google", "reset", "forgot"} => c.who \in People
    /\ c.step = "checked" => c.who \in People /\ c.job \in {"signup", "google", "reset", "password", "look", "buy"}
    /\ c.step = "checked" /\ c.job \notin {"signup", "google"} => c.who \in members
    /\ c.step \in {"made", "known"} => c.who \in members
    /\ c.step = "known" => c.typed \in {0, c.word}
    /\ c.step = "checked" /\ c.job = "look" => c.held \in Codes
    /\ c.step = "checked" /\ c.job = "buy" => c.held \in People \cup {None} /\ c.held # c.who
    /\ c.job = "google" => c.typed = 0

Known ==
    /\ MembersTypeOK
    /\ \A q \in Flying : CallKnows(call[q], Members)
    /\ \A k \in Rows : session[k].user \in Members /\ session[k].proof \in {0, session[k].hash}
    /\ links \subseteq Members
    /\ \A u \in Members : user[u].referrer # u
    /\ tool = Idle \/ tool.who \in People

-----------------------------------------------------------------------------
(* Ids never seen before.                                                   *)

LEMMA LowestIs ==
    ASSUME NEW ids, ids \subseteq Nat, NEW used, ids \ used # {}
    PROVE  Lowest(ids, used) \in ids \ used
<1> DEFINE T == ids \ used
<1>1. \E i \in T : \A j \in T : i <= j
  <2>1. T \in SUBSET Nat /\ T # {}
    OBVIOUS
  <2> HIDE DEF T
  <2> QED
    BY <2>1, LeastNat
<1> QED
  BY <1>1, Zenon DEF Lowest

LEMMA FreshIs ==
    ASSUME Room
    PROVE  FreshDevice \in Devices \ Held /\ FreshKey \in Keys \ (InJars \cup Rows)
<1>1. FreshDevice \in Devices \ Held
  BY LowestIs, BoundsAssumption DEF Room, FreshDevice
<1>2. FreshKey \in Keys \ (InJars \cup Rows)
  <2> DEFINE U == InJars \cup Rows
  <2>1. Keys \subseteq Nat /\ Keys \ U # {}
    BY BoundsAssumption DEF Room
  <2>2. FreshKey = Lowest(Keys, U)
    BY DEF FreshKey
  <2> HIDE DEF U
  <2>3. FreshKey \in Keys \ U
    BY <2>1, <2>2, LowestIs
  <2> QED
    BY <2>3 DEF U
<1> QED
  BY <1>1, <1>2

-----------------------------------------------------------------------------
(* What a state offers the steps below.                                     *)

LEMMA Facts ==
    ASSUME Known
    PROVE  /\ user \in [People -> Account \cup {None}] /\ session \in [Keys -> Session \cup {None}]
           /\ run \in [Runs -> Run \cup {None}] /\ links \subseteq Members
           /\ jar \in [Browsers -> Jar] /\ call \in [Calls -> Call \cup {None}]
           /\ scene \in Scenes /\ scene.jobs \subseteq Jobs /\ scene.people \subseteq People /\ scene.sends \in Nat
           /\ sends \in 0 .. scene.sends /\ shown \subseteq People \X Codes
           /\ era \in [Browsers -> Nat] /\ opened \subseteq Born \X People
           /\ \A u \in Members : u \in People /\ user[u] \in Account /\ user[u].referrer # u
           /\ \A q \in Flying : q \in Calls /\ call[q] \in Call /\ CallKnows(call[q], Members)
           /\ \A k \in Rows : /\ k \in Keys /\ session[k] \in Session /\ session[k].user \in Members
                              /\ session[k].proof \in {0, session[k].hash}
<1>1. TypeOK
  BY DEF Known, MembersTypeOK
<1>2. scene.jobs \subseteq Jobs /\ scene.people \subseteq People /\ scene.sends \in Nat
  BY <1>1, ScenesAssumption DEF TypeOK
<1> QED
  BY <1>1, <1>2 DEF TypeOK, Known, Members, Flying, Rows

LEMMA WhoIs ==
    ASSUME Known, NEW q \in Flying
    PROVE  \/ Who(q) = None
           \/ /\ Who(q) \in Members /\ call[q].cookies.session \in Rows
              /\ Who(q) = session[call[q].cookies.session].user
  BY Facts DEF Who, Live, Rows

LEMMA PlainIs ==
    ASSUME Known, Room, NEW q \in Flying
    PROVE  /\ Plain(q) \in Answer /\ ~Plain(q).rotated
           /\ Plain(q).device = WrittenDevice(q) /\ Plain(q).session \in {None, Keep}
           /\ WrittenDevice(q) \in Devices \cup {Keep} /\ DeviceId(q) \in Devices
<1>1. call[q].cookies.device \in Devices \cup {None}
  BY Facts DEF Call, Jar
<1> QED
  BY <1>1, FreshIs DEF Plain, Answer, WrittenDevice, WrittenSession, DeviceId

LEMMA RotatedIs ==
    ASSUME Room, NEW q
    PROVE  Rotated(q) \in Answer /\ Rotated(q) = [device |-> FreshDevice, session |-> None, rotated |-> TRUE]
  BY FreshIs DEF Rotated, Answer

-----------------------------------------------------------------------------
(* A call a step further.                                                   *)

Goes(q, d) ==
    /\ d \in Call /\ call' = [call EXCEPT ![q] = d]
    /\ d.job = call[q].job /\ d.from = call[q].from /\ d.cookies = call[q].cookies /\ d.era = call[q].era

LEMMA StepsIs ==
    ASSUME Known, NEW q \in Flying, NEW step \in {"checked", "made", "known"}, NEW word \in 0 .. MaxWord,
           Steps(q, step, word)
    PROVE  \E d : /\ Goes(q, d) /\ d.step = step /\ d.word = word /\ d.who = call[q].who
                  /\ d.typed = call[q].typed /\ d.held = call[q].held /\ d.answer = call[q].answer
<1> DEFINE d == [call[q] EXCEPT !.step = step, !.word = word]
<1>1. call[q] \in Call
  BY Facts
<1>2. /\ d \in Call /\ d.job = call[q].job /\ d.from = call[q].from /\ d.cookies = call[q].cookies
      /\ d.era = call[q].era /\ d.step = step /\ d.word = word /\ d.who = call[q].who
      /\ d.typed = call[q].typed /\ d.held = call[q].held /\ d.answer = call[q].answer
  BY <1>1 DEF Call
<1>3. call' = [call EXCEPT ![q] = d]
  BY DEF Steps
<1> HIDE DEF d
<1> QED
  BY <1>2, <1>3 DEF Goes

LEMMA AnswersIs ==
    ASSUME Known, NEW q \in Flying, NEW a \in Answer, Answers(q, a)
    PROVE  \E d : /\ Goes(q, d) /\ d.step = "answered" /\ d.answer = a /\ d.typed = 0
<1> DEFINE d == [call[q] EXCEPT !.step = "answered", !.answer = a, !.who = None, !.typed = 0, !.word = 0, !.held = None]
<1>1. call[q] \in Call /\ 0 \in 0 .. MaxWord
  BY Facts, BoundsAssumption
<1>2. /\ d \in Call /\ d.job = call[q].job /\ d.from = call[q].from /\ d.cookies = call[q].cookies
      /\ d.era = call[q].era /\ d.step = "answered" /\ d.answer = a /\ d.typed = 0
  BY <1>1 DEF Call
<1>3. call' = [call EXCEPT ![q] = d]
  BY DEF Answers
<1> HIDE DEF d
<1> QED
  BY <1>2, <1>3 DEF Goes

-----------------------------------------------------------------------------
(* What a step of the server leaves of the cookies to set, the sessions and *)
(* the runs.                                                                *)

Waits(q, d) ==
    /\ d.step \in {"checked", "made", "known"} /\ d.answer = call[q].answer
    /\ UNCHANGED <<session, run, opened>>

Told(q, d) ==
    /\ d.step = "answered" /\ d.answer = Plain(q)
    /\ UNCHANGED <<session, opened>>
    /\ \/ run' = run
       \/ \E r \in Runs : /\ run[r] = None
                          /\ run' = [run EXCEPT ![r] = [device |-> DeviceId(q), user |-> Who(q),
                                                        born |-> <<call[q].from, call[q].era>>]]

Leaves(q, d) ==
    /\ d.step = "answered" /\ d.answer = Rotated(q)
    /\ UNCHANGED <<run, opened>>
    /\ session' \in [Keys -> Session \cup {None}] /\ \A k \in Keys : session'[k] \in {session[k], None}

Enters(q, d, u) ==
    /\ d.step = "answered"
    /\ d.answer = [device |-> WrittenDevice(q), session |-> FreshKey, rotated |-> FALSE]
    /\ session' \in [Keys -> Session \cup {None}]
    /\ \A k \in Keys \ {FreshKey} : session'[k] \in {session[k], None}
    /\ session'[FreshKey] # None
    /\ session'[FreshKey].user = u /\ session'[FreshKey].proof \in {0, session'[FreshKey].hash}
    /\ run' = Claimed(DeviceId(q), u)
    /\ opened' = opened \cup {<< <<call[q].from, call[q].era>>, u>>}

Writes(q, d) == Waits(q, d) \/ Told(q, d) \/ Leaves(q, d) \/ \E u \in Members : Enters(q, d, u)

(* And of the rows of the accounts.                                         *)
Made(q, d, u) ==
    /\ user[u] = None /\ user'[u] # None /\ user'[u].code = None /\ user'[u].referrer = None
    /\ d.step = "made" /\ d.who = u

KeepsCode(u)     == user[u] # None /\ user'[u] # None /\ user'[u].code = user[u].code
KeepsReferrer(u) == user[u] # None /\ user'[u] # None /\ user'[u].referrer = user[u].referrer

Brought(q, d, u) ==
    /\ call[q].step = "made" /\ call[q].who = u /\ d.step = "answered"
    /\ user[u].referrer = None /\ user'[u].referrer # u

Minted(q, d, u) ==
    /\ call[q].step = "checked" /\ call[q].job = "look" /\ call[q].who = u /\ d.step = "answered"
    /\ Named(call[q].held) \subseteq {u} /\ user'[u].code = call[q].held

Rewrites(q, d) ==
    /\ user' \in [People -> Account \cup {None}]
    /\ \A u \in People :
          \/ user'[u] = user[u]
          \/ Made(q, d, u)
          \/ KeepsCode(u) /\ (KeepsReferrer(u) \/ Brought(q, d, u))
          \/ KeepsReferrer(u) /\ Minted(q, d, u)
    /\ d.step = "made" => user[d.who] = None

(* Whose code a page shows, and what a handler has found by then.           *)
Shown(d) ==
    \/ shown' = shown
    \/ \E u \in Members : user'[u].code \in Codes /\ shown' = shown \cup {<<u, user'[u].code>>}

Found(q, d) ==
    d.step = "checked" =>
       /\ d.job = "look" => /\ user[d.who].code = None
                            /\ Cardinality(Asking(d.who)) < LooksAtOnce \/ q \in Asking(d.who)
       /\ d.job = "buy" /\ user[d.who].referrer # None => d.held = user[d.who].referrer

Handles(q, d) ==
    /\ Room /\ q \in Flying /\ call[q].step # "answered"
    /\ Goes(q, d) /\ Writes(q, d) /\ Rewrites(q, d) /\ Shown(d) /\ Found(q, d)
    /\ CallKnows(d, Members')
    /\ links' \subseteq Members'
    /\ UNCHANGED <<jar, sends, scene, era>>

LEMMA LogInIs ==
    ASSUME Known, Room, NEW q \in Flying, NEW u \in People, NEW hash \in 0 .. MaxWord, NEW proof \in {0, hash},
           NEW table \in [Keys -> Session \cup {None}], \A k \in Keys : table[k] \in {session[k], None},
           LogIn(q, u, hash, proof, table)
    PROVE  \E d : /\ Goes(q, d) /\ Enters(q, d, u) /\ d.typed = 0
                  /\ links' = links \ {u}
<1> DEFINE new == [user |-> u, hash |-> hash, proof |-> proof]
           a   == [device |-> WrittenDevice(q), session |-> FreshKey, rotated |-> FALSE]
           old == call[q].cookies.session
<1>1. new \in Session /\ new # None /\ new.user = u /\ new.proof \in {0, new.hash}
  <2>1. new \in Session
    BY BoundsAssumption DEF Session
  <2> QED
    BY <2>1, NoneAssumption
<1>2. a \in Answer /\ FreshKey \in Keys
  BY PlainIs, FreshIs DEF Answer
<1>3. /\ session' = [k \in Keys |-> IF k = FreshKey THEN new ELSE IF k = old THEN None ELSE table[k]]
      /\ run' = Claimed(DeviceId(q), u) /\ links' = links \ {u}
      /\ opened' = opened \cup {<< <<call[q].from, call[q].era>>, u>>}
      /\ Answers(q, a)
  BY DEF LogIn
<1> HIDE DEF new, a, old
<1>4. PICK d : Goes(q, d) /\ d.step = "answered" /\ d.answer = a /\ d.typed = 0
  BY <1>2, <1>3, AnswersIs
<1>5. session' \in [Keys -> Session \cup {None}] /\ session'[FreshKey] = new
      /\ \A k \in Keys \ {FreshKey} : session'[k] \in {session[k], None}
  BY <1>1, <1>2, <1>3
<1>6. Enters(q, d, u)
  BY <1>1, <1>3, <1>4, <1>5 DEF Enters, a
<1> QED
  BY <1>3, <1>4, <1>6

(* A row as it is kept keeps its account.                                   *)
LEMMA Still ==
    ASSUME NEW q, NEW d, user \in [People -> Account \cup {None}], user' = user, d.step # "made"
    PROVE  Rewrites(q, d) /\ Members' = Members
  BY DEF Rewrites, Members

(* An answer leaves its handler knowing nothing.                            *)
LEMMA AnsweredKnows ==
    ASSUME Known, NEW q \in Flying, NEW d, Goes(q, d), d.step = "answered", d.typed = 0
    PROVE  CallKnows(d, Members') /\ Found(q, d) /\ d.step # "made"
  BY DEF CallKnows, Found

LEMMA TellsIs ==
    ASSUME Known, Room, NEW q \in Flying, call[q].step # "answered", Answers(q, Plain(q)),
           UNCHANGED <<user, session, opened, shown, jar, sends, scene, era>>, links' \subseteq Members,
           \/ run' = run
           \/ \E r \in Runs : /\ run[r] = None
                              /\ run' = [run EXCEPT ![r] = [device |-> DeviceId(q), user |-> Who(q),
                                                            born |-> <<call[q].from, call[q].era>>]]
    PROVE  \E d : Handles(q, d)
<1>1. PICK d : Goes(q, d) /\ d.step = "answered" /\ d.answer = Plain(q) /\ d.typed = 0
  BY PlainIs, AnswersIs
<1>2. CallKnows(d, Members') /\ Found(q, d) /\ d.step # "made"
  BY <1>1, AnsweredKnows
<1>3. Rewrites(q, d) /\ Members' = Members
  BY <1>2, Facts, Still
<1>4. Writes(q, d) /\ Shown(d)
  BY <1>1 DEF Writes, Told, Shown
<1> QED
  BY <1>1, <1>2, <1>3, <1>4 DEF Handles

LEMMA RefusesIs ==
    ASSUME Known, Room, NEW q \in Flying, call[q].step # "answered", Refuses(q),
           UNCHANGED <<jar, sends, scene, shown, era>>
    PROVE  \E d : Handles(q, d)
  BY Facts, TellsIs DEF Refuses, tables

LEMMA RecordIs ==
    ASSUME Known, Room, NEW q \in Calls, NEW r \in Runs, Record(q, r), UNCHANGED <<jar, sends, scene, shown, era>>
    PROVE  \E d : Handles(q, d)
  BY Facts, TellsIs DEF Record, Asks, At

LEMMA ForgotIs ==
    ASSUME Known, Room, NEW q \in Calls, Forgot(q), UNCHANGED <<jar, sends, scene, shown, era>>
    PROVE  \E d : Handles(q, d)
<1>1. call[q].who \in People /\ q \in Flying /\ call[q].step # "answered"
  BY Facts DEF Forgot, Asks, At, CallKnows
<1>2. links' \subseteq Members
  BY <1>1, Facts DEF Forgot, Members
<1> QED
  BY <1>1, <1>2, TellsIs DEF Forgot

(* A handler that has checked and not written.                              *)
LEMMA WaitsIs ==
    ASSUME Known, Room, NEW q \in Flying, call[q].step # "answered", NEW d, Goes(q, d),
           d.step \in {"checked", "known"}, d.answer = call[q].answer, CallKnows(d, Members), Found(q, d),
           UNCHANGED <<tables, opened, jar, sends, scene, shown, era>>
    PROVE  Handles(q, d)
<1>1. Rewrites(q, d) /\ Members' = Members
  BY Facts, Still DEF tables
<1>2. Writes(q, d) /\ Shown(d) /\ links' \subseteq Members
  BY Facts DEF Writes, Waits, Shown, tables
<1> QED
  BY <1>1, <1>2 DEF Handles

LEMMA LogOutIs ==
    ASSUME Known, Room, NEW q \in Calls, LogOut(q) \/ LogOutEverywhere(q), UNCHANGED <<jar, sends, scene, shown, era>>
    PROVE  \E d : Handles(q, d)
<1>1. q \in Flying /\ call[q].step # "answered"
  BY DEF LogOut, LogOutEverywhere, Asks, At
<1>2. CASE Refuses(q)
  BY <1>1, <1>2, RefusesIs
<1>3. CASE /\ Answers(q, Rotated(q)) /\ UNCHANGED <<user, run, links, opened>>
           /\ session' \in [Keys -> Session \cup {None}] /\ \A k \in Keys : session'[k] \in {session[k], None}
  <2>1. PICK d : Goes(q, d) /\ d.step = "answered" /\ d.answer = Rotated(q) /\ d.typed = 0
    BY <1>1, <1>3, RotatedIs, AnswersIs
  <2>2. CallKnows(d, Members') /\ Found(q, d) /\ d.step # "made"
    BY <1>1, <2>1, AnsweredKnows
  <2>3. Rewrites(q, d) /\ Members' = Members
    BY <1>3, <2>2, Facts, Still
  <2>4. Writes(q, d) /\ Shown(d) /\ links' \subseteq Members
    BY <1>3, <2>1, Facts DEF Writes, Leaves, Shown
  <2> QED
    BY <1>1, <2>1, <2>2, <2>3, <2>4 DEF Handles
<1>4. CASE LogOut(q) /\ Who(q) # None
  <2>1. Answers(q, Rotated(q)) /\ UNCHANGED <<user, run, links, opened>>
        /\ session' = [session EXCEPT ![call[q].cookies.session] = None]
    BY <1>4 DEF LogOut
  <2>2. session \in [Keys -> Session \cup {None}]
    BY Facts
  <2>3. session' \in [Keys -> Session \cup {None}] /\ \A k \in Keys : session'[k] \in {session[k], None}
    BY <2>1, <2>2
  <2> QED
    BY <1>3, <2>1, <2>3
<1>5. CASE LogOutEverywhere(q) /\ Who(q) # None
  <2>1. Answers(q, Rotated(q)) /\ UNCHANGED <<user, run, links, opened>> /\ session' = Ended(Who(q))
    BY <1>5 DEF LogOutEverywhere
  <2>2. session \in [Keys -> Session \cup {None}]
    BY Facts
  <2>3. session' \in [Keys -> Session \cup {None}] /\ \A k \in Keys : session'[k] \in {session[k], None}
    BY <2>1, <2>2 DEF Ended
  <2> QED
    BY <1>3, <2>1, <2>3
<1> QED
  BY <1>2, <1>4, <1>5 DEF LogOut, LogOutEverywhere

LEMMA SignupIs ==
    ASSUME Known, Room, NEW q \in Calls, BeginSignup(q), UNCHANGED <<jar, sends, scene, shown, era>>
    PROVE  \E d : Handles(q, d)
<1>1. q \in Flying /\ call[q].step = "sent" /\ call[q].job = "signup" /\ call[q].who \in People
  BY Facts DEF BeginSignup, Asks, At, CallKnows
<1>2. CASE Refuses(q)
  BY <1>1, <1>2, RefusesIs
<1>3. CASE Steps(q, "checked", 0) /\ UNCHANGED <<tables, opened>>
  <2>1. PICK d : /\ Goes(q, d) /\ d.step = "checked" /\ d.who = call[q].who /\ d.answer = call[q].answer
    BY <1>1, <1>3, StepsIs, BoundsAssumption
  <2>2. CallKnows(d, Members) /\ Found(q, d)
    BY <1>1, <2>1 DEF CallKnows, Found, Goes
  <2> QED
    BY <1>1, <1>3, <2>1, <2>2, WaitsIs
<1> QED
  BY <1>2, <1>3 DEF BeginSignup

LEMMA LoginIs ==
    ASSUME Known, Room, NEW q \in Calls, BeginLogin(q), UNCHANGED <<jar, sends, scene, shown, era>>
    PROVE  \E d : Handles(q, d)
<1> DEFINE u == call[q].who
<1>1. q \in Flying /\ call[q].step = "sent" /\ call[q].job = "login" /\ u \in People
  BY Facts DEF BeginLogin, Asks, At, CallKnows
<1>2. CASE Refuses(q)
  BY <1>1, <1>2, RefusesIs
<1>3. CASE /\ user[u] # None /\ user[u].word = call[q].typed
           /\ Steps(q, "known", user[u].word) /\ UNCHANGED <<tables, opened>>
  <2>1. user[u].word \in 0 .. MaxWord /\ u \in Members
    BY <1>1, <1>3, Facts DEF Account, Members
  <2>2. PICK d : /\ Goes(q, d) /\ d.step = "known" /\ d.word = user[u].word /\ d.who = u /\ d.typed = call[q].typed
                 /\ d.answer = call[q].answer
    BY <1>1, <1>3, <2>1, StepsIs
  <2>3. CallKnows(d, Members) /\ Found(q, d)
    BY <1>1, <1>3, <2>1, <2>2 DEF CallKnows, Found, Goes
  <2> QED
    BY <1>1, <1>3, <2>2, <2>3, WaitsIs
<1> QED
  BY <1>2, <1>3 DEF BeginLogin

LEMMA ResetIs ==
    ASSUME Known, Room, NEW q \in Calls, BeginReset(q), UNCHANGED <<jar, sends, scene, shown, era>>
    PROVE  \E d : Handles(q, d)
<1> DEFINE u == call[q].who
<1>1. q \in Flying /\ call[q].step = "sent" /\ call[q].job = "reset"
  BY DEF BeginReset, Asks, At
<1>2. CASE Refuses(q)
  BY <1>1, <1>2, RefusesIs
<1>3. CASE u \in links /\ Steps(q, "checked", user[u].word) /\ UNCHANGED <<tables, opened>>
  <2>1. user[u].word \in 0 .. MaxWord /\ u \in Members /\ u \in People
    BY <1>3, Facts DEF Account
  <2>2. PICK d : /\ Goes(q, d) /\ d.step = "checked" /\ d.who = u /\ d.answer = call[q].answer
    BY <1>1, <1>3, <2>1, StepsIs
  <2>3. CallKnows(d, Members) /\ Found(q, d)
    BY <1>1, <2>1, <2>2 DEF CallKnows, Found, Goes
  <2> QED
    BY <1>1, <1>3, <2>2, <2>3, WaitsIs
<1> QED
  BY <1>2, <1>3 DEF BeginReset

LEMMA ChangeIs ==
    ASSUME Known, Room, NEW q \in Calls, BeginChange(q), UNCHANGED <<jar, sends, scene, shown, era>>
    PROVE  \E d : Handles(q, d)
<1>1. q \in Flying /\ call[q].step = "sent" /\ call[q].job = "password"
  BY DEF BeginChange, Asks, At
<1>2. CASE Refuses(q)
  BY <1>1, <1>2, RefusesIs
<1>3. CASE /\ Who(q) # None /\ UNCHANGED <<tables, opened>>
           /\ call' = [call EXCEPT ![q].step = "checked", ![q].who = Who(q), ![q].word = user[Who(q)].word]
  <2> DEFINE u == Who(q)
             w == user[u].word
             d == [call[q] EXCEPT !.step = "checked", !.who = u, !.word = w]
  <2>1. u \in Members /\ u \in People /\ w \in 0 .. MaxWord
    BY <1>1, <1>3, WhoIs, Facts DEF Account
  <2>2. call[q] \in Call
    BY <1>1, Facts
  <2>3. call' = [call EXCEPT ![q] = d]
    BY <1>3
  <2> HIDE DEF u, w
  <2>4. /\ d \in Call /\ d.job = call[q].job /\ d.from = call[q].from /\ d.cookies = call[q].cookies
        /\ d.era = call[q].era /\ d.step = "checked" /\ d.who = u /\ d.answer = call[q].answer
    BY <2>1, <2>2 DEF Call
  <2> HIDE DEF d
  <2>5. Goes(q, d)
    BY <2>3, <2>4 DEF Goes
  <2>6. CallKnows(d, Members) /\ Found(q, d)
    BY <1>1, <2>1, <2>4 DEF CallKnows, Found
  <2> QED
    BY <1>1, <1>3, <2>4, <2>5, <2>6, WaitsIs
<1> QED
  BY <1>2, <1>3 DEF BeginChange

(* The doors that write a row.                                              *)
LEMMA NewIs ==
    ASSUME NEW google \in BOOLEAN
    PROVE  /\ New(google) \in Account /\ New(google) # None
           /\ New(google).code = None /\ New(google).referrer = None
<1>1. New(google) \in Account
  BY BoundsAssumption DEF New, Account
<1> QED
  BY <1>1, NoneAssumption DEF New

LEMMA GoogleIs ==
    ASSUME Known, Room, NEW q \in Calls, BeginGoogle(q), UNCHANGED <<jar, sends, scene, shown, era>>
    PROVE  \E d : Handles(q, d)
<1> DEFINE u == call[q].who
<1>1. /\ q \in Flying /\ call[q].step = "sent" /\ call[q].job = "google" /\ u \in People /\ call[q].typed = 0
      /\ UNCHANGED <<session, run, links, opened>>
  BY Facts DEF BeginGoogle, Asks, At, CallKnows
<1>2. CASE Steps(q, "checked", 0) /\ UNCHANGED user
  <2>1. PICK d : /\ Goes(q, d) /\ d.step = "checked" /\ d.who = u /\ d.typed = call[q].typed /\ d.answer = call[q].answer
    BY <1>1, <1>2, StepsIs, BoundsAssumption
  <2>2. CallKnows(d, Members) /\ Found(q, d)
    BY <1>1, <2>1 DEF CallKnows, Found, Goes
  <2> QED
    BY <1>1, <1>2, <2>1, <2>2, WaitsIs DEF tables
<1>3. CASE user[u] # None /\ user' = [user EXCEPT ![u].google = TRUE] /\ Steps(q, "known", user[u].word)
  <2> DEFINE v == [user[u] EXCEPT !.google = TRUE]
  <2>1. user[u] \in Account /\ user[u].word \in 0 .. MaxWord /\ u \in Members
    BY <1>1, <1>3, Facts DEF Account, Members
  <2>2. v \in Account /\ v.code = user[u].code /\ v.referrer = user[u].referrer
    BY <2>1 DEF Account
  <2>3. user' = [user EXCEPT ![u] = v] /\ v # None
    BY <1>3, <2>2, NoneAssumption
  <2> HIDE DEF v
  <2>4. PICK d : /\ Goes(q, d) /\ d.step = "known" /\ d.who = u /\ d.typed = call[q].typed /\ d.answer = call[q].answer
    BY <1>1, <1>3, <2>1, StepsIs
  <2>5. Rewrites(q, d) /\ Members' = Members
    <3>1. user \in [People -> Account \cup {None}]
      BY Facts
    <3> QED
      BY <1>1, <1>3, <2>2, <2>3, <2>4, <3>1 DEF Rewrites, KeepsCode, KeepsReferrer, Members
  <2>6. CallKnows(d, Members') /\ Found(q, d)
    BY <1>1, <2>1, <2>4, <2>5 DEF CallKnows, Found, Goes
  <2>7. Writes(q, d) /\ Shown(d) /\ links' \subseteq Members'
    BY <1>1, <2>4, <2>5, Facts DEF Writes, Waits, Shown
  <2> QED
    BY <1>1, <2>4, <2>5, <2>6, <2>7 DEF Handles
<1> QED
  BY <1>2, <1>3 DEF BeginGoogle

LEMMA CreateIs ==
    ASSUME Known, Room, NEW q \in Calls, Create(q), UNCHANGED <<jar, sends, scene, shown, era>>
    PROVE  \E d : Handles(q, d)
<1> DEFINE u == call[q].who
           google == call[q].job = "google"
<1>1. /\ q \in Flying /\ call[q].step = "checked" /\ call[q].job \in {"signup", "google"} /\ u \in People
      /\ google => call[q].typed = 0
      /\ UNCHANGED <<session, run, links, opened>>
  BY Facts DEF Create, At, CallKnows
<1>2. CASE user[u] = None /\ user' = [user EXCEPT ![u] = New(google)] /\ Steps(q, "made", New(google).word)
  <2>1. /\ New(google) \in Account /\ New(google) # None
        /\ New(google).code = None /\ New(google).referrer = None
    BY NewIs
  <2>2. New(google).word \in 0 .. MaxWord
    BY <2>1 DEF Account
  <2>3. PICK d : /\ Goes(q, d) /\ d.step = "made" /\ d.who = u /\ d.typed = call[q].typed /\ d.answer = call[q].answer
    BY <1>1, <1>2, <2>2, StepsIs
  <2>4. Rewrites(q, d) /\ Members' = Members \cup {u}
    <3>1. user \in [People -> Account \cup {None}]
      BY Facts
    <3> QED
      BY <1>1, <1>2, <2>1, <2>3, <3>1 DEF Rewrites, Made, Members
  <2>5. CallKnows(d, Members') /\ Found(q, d)
    BY <1>1, <2>3, <2>4 DEF CallKnows, Found, Goes
  <2>6. Writes(q, d) /\ Shown(d) /\ links' \subseteq Members'
    BY <1>1, <2>3, <2>4, Facts DEF Writes, Waits, Shown
  <2> QED
    BY <1>1, <2>3, <2>4, <2>5, <2>6 DEF Handles
<1>3. CASE user[u] # None /\ google /\ Steps(q, "known", user[u].word) /\ UNCHANGED user
  <2>1. user[u].word \in 0 .. MaxWord /\ u \in Members
    BY <1>1, <1>3, Facts DEF Account, Members
  <2>2. PICK d : /\ Goes(q, d) /\ d.step = "known" /\ d.who = u /\ d.typed = call[q].typed /\ d.answer = call[q].answer
    BY <1>1, <1>3, <2>1, StepsIs
  <2>3. CallKnows(d, Members) /\ Found(q, d)
    BY <1>1, <1>3, <2>1, <2>2 DEF CallKnows, Found, Goes
  <2> QED
    BY <1>1, <1>3, <2>2, <2>3, WaitsIs DEF tables
<1>4. CASE Answers(q, Plain(q)) /\ UNCHANGED user
  BY <1>1, <1>4, Facts, TellsIs
<1> QED
  BY <1>2, <1>3, <1>4 DEF Create

(* Whatever door signs in, once its rows are written.                       *)
LEMMA EntersIs ==
    ASSUME Known, Room, NEW q \in Flying, call[q].step # "answered", NEW u \in Members, NEW d,
           Goes(q, d), Enters(q, d, u), d.typed = 0, links' = links \ {u},
           Rewrites(q, d), Members \subseteq Members', UNCHANGED <<jar, sends, scene, shown, era>>
    PROVE  Handles(q, d)
<1>1. CallKnows(d, Members') /\ Found(q, d)
  BY AnsweredKnows DEF Enters
<1>2. Writes(q, d) /\ Shown(d) /\ links' \subseteq Members'
  BY Facts DEF Writes, Shown
<1> QED
  BY <1>1, <1>2 DEF Handles

LEMMA EnterIs ==
    ASSUME Known, Room, NEW q \in Calls, Enter(q), UNCHANGED <<jar, sends, scene, shown, era>>
    PROVE  \E d : Handles(q, d)
<1> DEFINE u == call[q].who
<1>1. /\ q \in Flying /\ call[q].step = "known" /\ u \in Members /\ u \in People
      /\ call[q].word \in 0 .. MaxWord /\ call[q].typed \in {0, call[q].word}
      /\ LogIn(q, u, call[q].word, call[q].typed, session) /\ UNCHANGED user
  BY Facts DEF Enter, At, CallKnows, Call
<1>2. session \in [Keys -> Session \cup {None}] /\ \A k \in Keys : session[k] \in {session[k], None}
  BY Facts
<1>3. PICK d : Goes(q, d) /\ Enters(q, d, u) /\ d.typed = 0 /\ links' = links \ {u}
  BY <1>1, <1>2, LogInIs
<1>4. Rewrites(q, d) /\ Members' = Members
  BY <1>1, <1>3, Facts, Still DEF Enters
<1> QED
  BY <1>1, <1>3, <1>4, EntersIs

LEMMA EnterNewIs ==
    ASSUME Known, Room, NEW q \in Calls, EnterNew(q), UNCHANGED <<jar, sends, scene, shown, era>>
    PROVE  \E d : Handles(q, d)
<1> DEFINE u == call[q].who
           word == call[q].word
<1>1. /\ q \in Flying /\ call[q].step = "made" /\ u \in Members /\ u \in People
      /\ word \in 0 .. MaxWord /\ word \in {0, word}
      /\ LogIn(q, u, word, word, session) /\ user' = Attributed(u, call[q].cookies.ref)
  BY Facts DEF EnterNew, At, CallKnows, Call
<1>2. session \in [Keys -> Session \cup {None}] /\ \A k \in Keys : session[k] \in {session[k], None}
  BY Facts
<1>3. PICK d : Goes(q, d) /\ Enters(q, d, u) /\ d.typed = 0 /\ links' = links \ {u}
  BY <1>1, <1>2, LogInIs
<1>4. CASE user' = user
  <2>1. Rewrites(q, d) /\ Members' = Members
    BY <1>3, <1>4, Facts, Still DEF Enters
  <2> QED
    BY <1>1, <1>3, <2>1, EntersIs
<1>5. CASE user' # user
  <2> DEFINE found == Named(call[q].cookies.ref) \ {u}
             v == CHOOSE v \in found : TRUE
             w == [user[u] EXCEPT !.referrer = v]
  <2>1. user[u].referrer = None /\ found # {} /\ user' = [user EXCEPT ![u].referrer = v]
    BY <1>1, <1>5 DEF Attributed
  <2>2. v \in People /\ v # u
    BY <2>1 DEF Named
  <2> HIDE DEF v
  <2>3. user[u] \in Account /\ user[u] # None
    BY <1>1, Facts DEF Members
  <2>4. w \in Account /\ w.code = user[u].code /\ w.referrer = v
    BY <2>2, <2>3 DEF Account
  <2>5. user' = [user EXCEPT ![u] = w] /\ w # None
    BY <2>1, <2>4, NoneAssumption
  <2> HIDE DEF w
  <2>6. Rewrites(q, d) /\ Members' = Members
    <3>1. user \in [People -> Account \cup {None}] /\ d.step = "answered"
      BY <1>3, Facts DEF Enters
    <3> QED
      BY <1>1, <2>1, <2>2, <2>3, <2>4, <2>5, <3>1 DEF Rewrites, KeepsCode, Brought, Members
  <2> QED
    BY <1>1, <1>3, <2>6, EntersIs
<1> QED
  BY <1>4, <1>5

LEMMA SetPasswordIs ==
    ASSUME Known, Room, NEW q \in Calls, SetPassword(q), UNCHANGED <<jar, sends, scene, shown, era>>
    PROVE  \E d : Handles(q, d)
<1> DEFINE u == call[q].who
           word == user[u].word + 1
<1>1. /\ q \in Flying /\ call[q].step = "checked" /\ u \in Members /\ u \in People
      /\ word <= MaxWord /\ user' = [user EXCEPT ![u].word = word]
      /\ LogIn(q, u, word, word, Ended(u))
  BY Facts DEF SetPassword, At, CallKnows
<1>2. user[u] \in Account /\ user[u] # None /\ word \in 0 .. MaxWord
  <2>1. user[u] \in Account /\ user[u] # None
    BY <1>1, Facts DEF Members
  <2> QED
    BY <1>1, <2>1, BoundsAssumption DEF Account
<1> HIDE DEF word
<1>3. Ended(u) \in [Keys -> Session \cup {None}] /\ \A k \in Keys : Ended(u)[k] \in {session[k], None}
  BY Facts DEF Ended
<1>4. word \in {0, word}
  OBVIOUS
<1>5. PICK d : Goes(q, d) /\ Enters(q, d, u) /\ d.typed = 0 /\ links' = links \ {u}
  BY <1>1, <1>2, <1>3, <1>4, LogInIs
<1>6. Rewrites(q, d) /\ Members' = Members
  <2> DEFINE w == [user[u] EXCEPT !.word = word]
  <2>1. w \in Account /\ w.code = user[u].code /\ w.referrer = user[u].referrer
    BY <1>2 DEF Account
  <2>2. user' = [user EXCEPT ![u] = w] /\ w # None
    BY <1>1, <2>1, NoneAssumption
  <2> HIDE DEF w
  <2>3. user \in [People -> Account \cup {None}] /\ d.step = "answered"
    BY <1>5, Facts DEF Enters
  <2> QED
    BY <1>1, <1>2, <2>1, <2>2, <2>3 DEF Rewrites, KeepsCode, KeepsReferrer, Members
<1> QED
  BY <1>1, <1>5, <1>6, EntersIs

(* Every step of the server on a call is one of those.                      *)
LEMMA ServeIs ==
    ASSUME Known, NEW q \in Calls, Serve(q)
    PROVE  \E d : Handles(q, d)
  BY RecordIs, LogOutIs, SignupIs, GoogleIs, CreateIs, EnterNewIs, LoginIs, EnterIs, ForgotIs, ResetIs, ChangeIs,
     SetPasswordIs, Zenon DEF Serve

-----------------------------------------------------------------------------
(* The programme's own calls.                                               *)

LEMMA FreeIs == \A stem : FreeCodes(stem) \subseteq Codes
  BY DEF FreeCodes

LEMMA ShowsIs ==
    ASSUME Known, Room, NEW q \in Flying, call[q].step # "answered", NEW u \in Members, Shows(q, u, user'[u].code),
           user'[u].code \in Codes, UNCHANGED <<session, run, links, opened, jar, sends, scene, era>>,
           Members' = Members, \A d : d.step = "answered" => Rewrites(q, d)
    PROVE  \E d : Handles(q, d)
<1>1. PICK d : Goes(q, d) /\ d.step = "answered" /\ d.answer = Plain(q) /\ d.typed = 0
  BY PlainIs, AnswersIs DEF Shows
<1>2. CallKnows(d, Members') /\ Found(q, d)
  BY <1>1, AnsweredKnows
<1>3. Writes(q, d) /\ Shown(d) /\ links' \subseteq Members'
  BY <1>1, Facts DEF Writes, Told, Shown, Shows
<1> QED
  BY <1>1, <1>2, <1>3 DEF Handles

\* A handler that has found out who asks, and holds what it will write.
Aside(c, u, held) == [c EXCEPT !.step = "checked", !.who = u, !.held = held]

LEMMA AsideIs ==
    ASSUME NEW c \in Call, NEW u \in People, NEW held \in Codes \cup People \cup {None}
    PROVE  /\ Aside(c, u, held) \in Call /\ Aside(c, u, held).step = "checked" /\ Aside(c, u, held).who = u
           /\ Aside(c, u, held).held = held /\ Aside(c, u, held).answer = c.answer
           /\ Aside(c, u, held).typed = c.typed /\ Aside(c, u, held).job = c.job
           /\ Aside(c, u, held).from = c.from /\ Aside(c, u, held).cookies = c.cookies
           /\ Aside(c, u, held).era = c.era
  BY DEF Aside, Call

LEMMA LookIs ==
    ASSUME Known, Room, NEW q \in Calls, Look(q), UNCHANGED <<jar, sends, scene, era>>
    PROVE  \E d : Handles(q, d)
<1> DEFINE u == Who(q)
<1>1. /\ q \in Flying /\ call[q].step = "sent" /\ call[q].job = "look"
      /\ UNCHANGED <<tables, opened>>
  BY DEF Look, Asks, At
<1>2. u # None => u \in Members /\ u \in People
  BY <1>1, WhoIs, Facts
<1>3. CASE u = None /\ Answers(q, Plain(q)) /\ UNCHANGED shown
  <2>1. links' \subseteq Members /\ run' = run /\ UNCHANGED <<user, session, opened, shown, jar, sends, scene, era>>
    BY <1>1, <1>3, Facts DEF tables
  <2> QED
    BY <1>1, <1>3, <2>1, TellsIs
<1>4. CASE u # None /\ user[u].code # None /\ Shows(q, u, user[u].code)
  <2>1. UNCHANGED <<user, session, run, links, opened, jar, sends, scene, era>>
    BY <1>1 DEF Look, tables
  <2>2. \A d : d.step = "answered" => Rewrites(q, d) /\ Members' = Members
    BY <2>1, Facts, Still
  <2>3. user'[u].code \in Codes /\ Shows(q, u, user'[u].code)
    BY <1>2, <1>4, <2>1, Facts DEF Account
  <2>4. Members' = Members
    BY <2>1 DEF Members
  <2> QED
    BY <1>1, <1>2, <1>4, <2>1, <2>2, <2>3, <2>4, ShowsIs
<1>5. CASE /\ u # None /\ user[u].code = None /\ Cardinality(Asking(u)) < LooksAtOnce /\ UNCHANGED shown
           /\ \E code \in FreeCodes(Stem[u]) :
                 call' = [call EXCEPT ![q].step = "checked", ![q].who = u, ![q].held = code]
  <2>1. PICK code \in FreeCodes(Stem[u]) :
                 call' = [call EXCEPT ![q].step = "checked", ![q].who = u, ![q].held = code]
    BY <1>5
  <2>2. code \in Codes /\ code \in Codes \cup People \cup {None}
    BY FreeIs
  <2>3. /\ u \in People /\ u \in Members /\ user[u].code = None /\ Cardinality(Asking(u)) < LooksAtOnce
        /\ shown' = shown
    BY <1>2, <1>5
  <2> HIDE DEF u
  <2> DEFINE d == Aside(call[q], u, code)
  <2>4. call' = [call EXCEPT ![q] = d]
    BY <2>1 DEF Aside
  <2>5. /\ Goes(q, d) /\ d.step = "checked" /\ d.who = u /\ d.held = code
        /\ d.answer = call[q].answer /\ d.typed = call[q].typed
    BY <1>1, <2>2, <2>3, <2>4, Facts, AsideIs DEF Goes
  <2> HIDE DEF d
  <2>6. CallKnows(d, Members) /\ Found(q, d)
    BY <1>1, <2>2, <2>3, <2>5 DEF CallKnows, Found, Goes
  <2> QED
    BY <1>1, <2>3, <2>5, <2>6, WaitsIs
<1> QED
  BY <1>3, <1>4, <1>5 DEF Look

LEMMA MintIs ==
    ASSUME Known, Room, NEW q \in Calls, Mint(q), UNCHANGED <<jar, sends, scene, era>>
    PROVE  \E d : Handles(q, d)
<1> DEFINE u == call[q].who
           held == call[q].held
<1>1. /\ q \in Flying /\ call[q].step = "checked" /\ call[q].job = "look" /\ u \in Members /\ u \in People
      /\ held \in Codes /\ user[u] \in Account /\ user[u] # None /\ UNCHANGED <<session, run, links, opened>>
  BY Facts DEF Mint, At, CallKnows, Members
<1>2. CASE Named(held) \subseteq {u} /\ user' = [user EXCEPT ![u].code = held] /\ Shows(q, u, held)
  <2> DEFINE w == [user[u] EXCEPT !.code = held]
  <2>1. w \in Account /\ w.code = held /\ w.referrer = user[u].referrer
    BY <1>1 DEF Account
  <2>2. user' = [user EXCEPT ![u] = w] /\ w # None
    BY <1>2, <2>1, NoneAssumption
  <2> HIDE DEF w
  <2>3. user \in [People -> Account \cup {None}]
    BY Facts
  <2>4. user'[u] = w /\ Members' = Members
    BY <1>1, <2>2, <2>3 DEF Members
  <2>5. \A d : d.step = "answered" => Rewrites(q, d)
    BY <1>1, <1>2, <2>1, <2>2, <2>3, <2>4 DEF Rewrites, KeepsReferrer, Minted
  <2>6. user'[u].code \in Codes /\ Shows(q, u, user'[u].code)
    BY <1>1, <1>2, <2>1, <2>4
  <2> QED
    BY <1>1, <2>4, <2>5, <2>6, ShowsIs
<1>3. CASE user[u].code # None /\ Shows(q, u, user[u].code) /\ UNCHANGED user
  <2>1. \A d : d.step = "answered" => Rewrites(q, d)
    BY <1>3, Facts, Still
  <2>2. Members' = Members /\ user'[u].code \in Codes /\ Shows(q, u, user'[u].code)
    BY <1>1, <1>3 DEF Members, Account
  <2> QED
    BY <1>1, <1>3, <2>1, <2>2, ShowsIs
<1>4. CASE /\ user[u].code = None /\ UNCHANGED <<user, shown>>
           /\ \E code \in FreeCodes(Stem[u]) : call' = [call EXCEPT ![q].held = code]
  <2>1. PICK code \in FreeCodes(Stem[u]) : call' = [call EXCEPT ![q].held = code]
    BY <1>4
  <2>2. code \in Codes
    BY FreeIs
  <2> DEFINE d == [call[q] EXCEPT !.held = code]
  <2>3. call[q] \in Call
    BY <1>1, Facts
  <2>4. /\ d \in Call /\ d.job = call[q].job /\ d.from = call[q].from /\ d.cookies = call[q].cookies
        /\ d.era = call[q].era /\ d.step = "checked" /\ d.who = u /\ d.held = code
        /\ d.answer = call[q].answer /\ d.typed = call[q].typed
    BY <1>1, <2>2, <2>3 DEF Call
  <2>5. call' = [call EXCEPT ![q] = d]
    BY <2>1
  <2> HIDE DEF d
  <2>6. Goes(q, d) /\ q \in Asking(u)
    BY <1>1, <2>4, <2>5 DEF Goes, Asking
  <2>7. CallKnows(d, Members) /\ Found(q, d)
    BY <1>1, <1>4, <2>2, <2>4, <2>6 DEF CallKnows, Found
  <2> QED
    BY <1>1, <1>4, <2>4, <2>6, <2>7, WaitsIs DEF tables
<1> QED
  BY <1>2, <1>3, <1>4 DEF Mint

LEMMA BuyIs ==
    ASSUME Known, Room, NEW q \in Calls, BeginBuy(q) \/ \E s \in Sales : Buy(q, s), UNCHANGED <<jar, sends, scene, era>>
    PROVE  \E d : Handles(q, d)
<1> DEFINE u == Who(q)
           held == ReferrerFor(u, call[q].cookies.ref)
<1>1. /\ q \in Flying /\ call[q].step \in {"sent", "checked"} /\ call[q].job = "buy"
      /\ UNCHANGED <<tables, shown, opened>>
  BY DEF BeginBuy, Buy, Asks, At
<1>2. CASE Answers(q, Plain(q))
  <2>1. links' \subseteq Members /\ run' = run /\ UNCHANGED <<user, session, opened, shown, jar, sends, scene, era>>
    BY <1>1, Facts DEF tables
  <2> QED
    BY <1>1, <1>2, <2>1, TellsIs
<1>3. CASE /\ BeginBuy(q) /\ u # None
           /\ call' = [call EXCEPT ![q].step = "checked", ![q].who = u, ![q].held = held]
  <2>1. u \in Members /\ u \in People /\ u # None /\ user[u].referrer \in People \cup {None} /\ user[u].referrer # u
    BY <1>1, <1>3, WhoIs, Facts DEF Account
  <2>2. /\ held \in Codes \cup People \cup {None} /\ held \in People \cup {None} /\ held # u
        /\ user[u].referrer # None => held = user[u].referrer
    <3>1. held \in People \cup {None} /\ held # u /\ (user[u].referrer # None => held = user[u].referrer)
      BY <2>1 DEF ReferrerFor, Named
    <3> QED
      BY <3>1
  <2> HIDE DEF held, u
  <2> DEFINE d == Aside(call[q], u, held)
  <2>3. call' = [call EXCEPT ![q] = d]
    BY <1>3 DEF Aside
  <2>4. /\ Goes(q, d) /\ d.step = "checked" /\ d.who = u /\ d.held = held
        /\ d.answer = call[q].answer /\ d.typed = call[q].typed
    BY <1>1, <2>1, <2>2, <2>3, Facts, AsideIs DEF Goes
  <2> HIDE DEF d
  <2>5. CallKnows(d, Members) /\ Found(q, d)
    BY <1>1, <2>1, <2>2, <2>4 DEF CallKnows, Found, Goes
  <2> QED
    BY <1>1, <2>4, <2>5, WaitsIs
<1> QED
  BY <1>2, <1>3 DEF BeginBuy, Buy

-----------------------------------------------------------------------------
(* Whatever handler takes a step, what is known stays known.                *)

LEMMA GoesIs ==
    ASSUME Known, NEW q \in Flying, NEW d, Goes(q, d)
    PROVE  /\ call' \in [Calls -> Call \cup {None}] /\ Flying' = Flying
           /\ call'[q] = d /\ \A p \in Flying \ {q} : call'[p] = call[p]
           /\ \A p \in Flying : /\ call'[p].job = call[p].job /\ call'[p].from = call[p].from
                                /\ call'[p].cookies = call[p].cookies /\ call'[p].era = call[p].era
<1>1. /\ call \in [Calls -> Call \cup {None}] /\ q \in Calls /\ d \in Call /\ d # None
      /\ call' = [call EXCEPT ![q] = d]
      /\ d.job = call[q].job /\ d.from = call[q].from /\ d.cookies = call[q].cookies /\ d.era = call[q].era
  BY Facts, NoneAssumption DEF Goes
<1>2. call[q] # None
  BY DEF Flying
<1> QED
  BY <1>1, <1>2 DEF Flying

LEMMA RowsStay ==
    ASSUME Known, NEW q \in Flying, NEW d, Rewrites(q, d)
    PROVE  /\ Members \subseteq Members' /\ Members' \subseteq People
           /\ \A u \in Members' : user'[u].referrer # u
           /\ \A u, v \in Members' : user'[u].code # None /\ user'[u].code = user'[v].code => u = v
<1>1. Members \subseteq Members' /\ Members' \subseteq People
  BY DEF Rewrites, Made, KeepsCode, KeepsReferrer, Minted, Members
<1>2. \A u \in Members' : user'[u].referrer # u
  <2> SUFFICES ASSUME NEW u \in Members' PROVE user'[u].referrer # u
    OBVIOUS
  <2>1. u \in People /\ u # None /\ user'[u] # None /\ (user[u] # None => user[u].referrer # u)
    BY NoneAssumption, Facts DEF Members
  <2> QED
    BY <2>1 DEF Rewrites, Made, KeepsCode, KeepsReferrer, Brought, Minted
<1>3. ASSUME NEW u \in Members', NEW v \in Members', user'[u].code # None, user'[u].code = user'[v].code
      PROVE  u = v
  <2>1. \A w \in People : user'[w] # None /\ user'[w].code # None =>
           (user[w] # None /\ user'[w].code = user[w].code) \/ Minted(q, d, w)
    BY DEF Rewrites, Made, KeepsCode
  <2>2. u \in People /\ v \in People /\ user'[u] # None /\ user'[v] # None
    BY DEF Members
  <2>3. \A w \in People : Minted(q, d, w) =>
           w = call[q].who /\ user'[w].code = call[q].held
           /\ \A x \in People : user[x] # None /\ user[x].code = call[q].held /\ call[q].held # None => x = w
    BY DEF Minted, Named
  <2>4. user[u] # None /\ user[v] # None /\ user[u].code # None /\ user[u].code = user[v].code => u = v
    BY <2>2 DEF Known, MembersTypeOK
  <2> QED
    BY <1>3, <2>1, <2>2, <2>3, <2>4
<1> QED
  BY <1>1, <1>2, <1>3

LEMMA WritesTyped ==
    ASSUME Known, Room, NEW q \in Flying, NEW d, Writes(q, d)
    PROVE  /\ session' \in [Keys -> Session \cup {None}] /\ run' \in [Runs -> Run \cup {None}]
           /\ opened' \subseteq Born \X People
           /\ \A k \in Keys : session'[k] # None =>
                 session'[k].user \in Members /\ session'[k].proof \in {0, session'[k].hash}
<1>1. /\ session \in [Keys -> Session \cup {None}] /\ run \in [Runs -> Run \cup {None}]
      /\ opened \subseteq Born \X People /\ <<call[q].from, call[q].era>> \in Born
      /\ \A k \in Keys : session[k] # None =>
                 session[k].user \in Members /\ session[k].proof \in {0, session[k].hash}
      /\ DeviceId(q) \in Devices
  BY Facts, PlainIs DEF Call, Born, Rows
<1>2. CASE Waits(q, d)
  BY <1>1, <1>2 DEF Waits
<1>3. CASE Leaves(q, d)
  BY <1>1, <1>3 DEF Leaves
<1>4. CASE Told(q, d)
  <2> DEFINE new == [device |-> DeviceId(q), user |-> Who(q), born |-> <<call[q].from, call[q].era>>]
  <2>1. Who(q) \in People \cup {None}
    BY WhoIs, Facts
  <2>2. new \in Run
    BY <1>1, <2>1 DEF Run
  <2> HIDE DEF new
  <2>3. run' = run \/ \E r \in Runs : run' = [run EXCEPT ![r] = new]
    BY <1>4 DEF Told, new
  <2>4. run' \in [Runs -> Run \cup {None}]
    BY <1>1, <2>2, <2>3
  <2> QED
    BY <1>1, <1>4, <2>4 DEF Told
<1>5. ASSUME NEW u \in Members, Enters(q, d, u)
      PROVE  /\ session' \in [Keys -> Session \cup {None}] /\ run' \in [Runs -> Run \cup {None}]
             /\ opened' \subseteq Born \X People
             /\ \A k \in Keys : session'[k] # None =>
                   session'[k].user \in Members /\ session'[k].proof \in {0, session'[k].hash}
  <2>1. u \in People
    BY Facts
  <2>2. run' \in [Runs -> Run \cup {None}]
    <3>1. \A r \in Runs : run[r] # None => [run[r] EXCEPT !.user = u] \in Run
      BY <1>1, <2>1 DEF Run
    <3>2. run' = Claimed(DeviceId(q), u)
      BY <1>5 DEF Enters
    <3> QED
      BY <1>1, <3>1, <3>2 DEF Claimed
  <2>3. opened' \subseteq Born \X People
    BY <1>1, <1>5, <2>1 DEF Enters
  <2>4. \A k \in Keys : session'[k] # None =>
                   session'[k].user \in Members /\ session'[k].proof \in {0, session'[k].hash}
    BY <1>1, <1>5 DEF Enters
  <2> QED
    BY <1>5, <2>2, <2>3, <2>4 DEF Enters
<1> QED
  BY <1>2, <1>3, <1>4, <1>5 DEF Writes

LEMMA KnowsMore ==
    ASSUME NEW c, NEW S, NEW T, S \subseteq T, CallKnows(c, S)
    PROVE  CallKnows(c, T)
  BY DEF CallKnows

(* What of the programme is no affair of the accounts.                      *)
ProgrammeTyped ==
    /\ sale \in [Sales -> Sale]
    /\ paid \in [People -> Nat]
    /\ tool \in [who : People \cup {None}, cents : Nat]
    /\ tool = Idle \/ tool.who \in People

LEMMA KnownHandles ==
    ASSUME Known, NEW q, NEW d, Handles(q, d), ProgrammeTyped'
    PROVE  Known'
<1>1. Room /\ q \in Flying /\ Goes(q, d) /\ Writes(q, d) /\ Rewrites(q, d) /\ Shown(d)
      /\ CallKnows(d, Members') /\ links' \subseteq Members' /\ UNCHANGED <<jar, sends, scene, era>>
  BY DEF Handles
<1>2. /\ call' \in [Calls -> Call \cup {None}] /\ Flying' = Flying
      /\ call'[q] = d /\ \A p \in Flying \ {q} : call'[p] = call[p]
      /\ \A p \in Flying : call'[p].job = call[p].job /\ call'[p].from = call[p].from
  BY <1>1, GoesIs
<1>3. /\ Members \subseteq Members' /\ Members' \subseteq People
      /\ \A u \in Members' : user'[u].referrer # u
      /\ \A u, v \in Members' : user'[u].code # None /\ user'[u].code = user'[v].code => u = v
  BY <1>1, RowsStay
<1>4. /\ session' \in [Keys -> Session \cup {None}] /\ run' \in [Runs -> Run \cup {None}]
      /\ opened' \subseteq Born \X People
      /\ \A k \in Keys : session'[k] # None =>
            session'[k].user \in Members /\ session'[k].proof \in {0, session'[k].hash}
  BY <1>1, WritesTyped
<1>5. \A p \in Flying' : CallKnows(call'[p], Members')
  BY <1>1, <1>2, <1>3, Facts, KnowsMore
<1>6. shown' \subseteq People \X Codes
  BY <1>1, Facts DEF Shown
<1>7. \A p, r \in Calls :
         p # r /\ call'[p] # None /\ call'[r] # None /\ call'[p].from = call'[r].from
             => ~ {call'[p].job, call'[r].job} \subseteq Forms
  <2>1. \A p \in Calls : call'[p] # None <=> call[p] # None
    BY <1>2 DEF Flying
  <2> QED
    BY <1>2, <2>1 DEF Known, MembersTypeOK, TypeOK, Flying
<1>8. user' \in [People -> Account \cup {None}]
  BY <1>1 DEF Rewrites
<1>9. TypeOK'
  BY <1>1, <1>2, <1>3, <1>4, <1>6, <1>7, <1>8, Facts DEF TypeOK
<1>10. MembersTypeOK'
  BY <1>3, <1>9 DEF MembersTypeOK, ProgrammeTyped, Members
<1> QED
  BY <1>1, <1>3, <1>4, <1>5, <1>10 DEF Known, ProgrammeTyped, Rows

-----------------------------------------------------------------------------
(* The network, and the operator's tools.                                   *)

Sent(q, b, job, who, typed, ref) ==
    /\ sends < scene.sends /\ q \notin Flying
    /\ b \in Browsers /\ job \in scene.jobs /\ who \in scene.people \cup {None} /\ typed \in 0 .. MaxWord
    /\ ref \in Refs(b, job)
    /\ Send(q, b, job, who, typed, ref)

Fresh(b, job, who, typed) ==
    [job |-> job, from |-> b, cookies |-> jar'[b], era |-> era[b], who |-> who,
     typed |-> typed, step |-> "sent", word |-> 0, held |-> None, answer |-> NoAnswer]

LEMMA SendIs ==
    ASSUME Known, NEW q \in Calls, NEW b, NEW job, NEW who, NEW typed, NEW ref, Sent(q, b, job, who, typed, ref)
    PROVE  LET c == Fresh(b, job, who, typed)
           IN  /\ c \in Call /\ c # None /\ call' = [call EXCEPT ![q] = c]
               /\ CallKnows(c, Members)
               /\ b \in Browsers /\ jar'[b] \in Jar /\ jar' = [jar EXCEPT ![b] = [@ EXCEPT !.ref = ref]]
               /\ \A p \in Flying : call[p].from = b /\ job \in Forms => call[p].job \notin Forms
<1> DEFINE c == Fresh(b, job, who, typed)
<1>1. /\ b \in Browsers /\ job \in Jobs /\ who \in People \cup {None} /\ typed \in 0 .. MaxWord
      /\ Offered(b, job, who, typed) /\ era[b] \in Nat /\ jar[b] \in Jar
  BY Facts DEF Sent, Send
<1>2. ref \in Codes \cup {None}
  BY <1>1, Facts DEF Sent, Refs, Jar
<1>3. jar' = [jar EXCEPT ![b] = [@ EXCEPT !.ref = ref]]
  BY DEF Sent, Send
<1>4. jar'[b] \in Jar
  BY <1>1, <1>2, <1>3, Facts DEF Jar
<1>5. NoAnswer \in Answer /\ 0 \in 0 .. MaxWord
  BY BoundsAssumption DEF NoAnswer, Answer
<1>6. c \in Call /\ c # None
  <2>1. c \in Call
    BY <1>1, <1>4, <1>5 DEF Fresh, Call
  <2> QED
    BY <2>1, NoneAssumption
<1>7. call' = [call EXCEPT ![q] = c]
  BY DEF Sent, Send, Fresh
<1>8. CallKnows(c, Members)
  <2>1. job \in {"signup", "login", "google", "reset", "forgot"} => who \in People
    BY <1>1 DEF Offered
  <2>2. job = "google" => typed = 0
    BY <1>1 DEF Offered
  <2>3. c.job = job /\ c.step = "sent" /\ c.who = who /\ c.typed = typed
    BY DEF Fresh
  <2> QED
    BY <2>1, <2>2, <2>3 DEF CallKnows
<1>9. \A p \in Flying : call[p].from = b /\ job \in Forms => call[p].job \notin Forms
  BY DEF Sent, Send
<1> QED
  BY <1>1, <1>3, <1>4, <1>6, <1>7, <1>8, <1>9

LEMMA KnownSend ==
    ASSUME Known, NEW q \in Calls, NEW b, NEW job, NEW who, NEW typed, NEW ref, Sent(q, b, job, who, typed, ref),
           UNCHANGED programme
    PROVE  Known'
<1> DEFINE c == Fresh(b, job, who, typed)
<1>1. /\ c \in Call /\ c # None /\ call' = [call EXCEPT ![q] = c] /\ CallKnows(c, Members)
      /\ b \in Browsers /\ jar'[b] \in Jar /\ jar' = [jar EXCEPT ![b] = [@ EXCEPT !.ref = ref]]
      /\ \A p \in Flying : call[p].from = b /\ job \in Forms => call[p].job \notin Forms
  BY SendIs
<1>2. c.from = b /\ c.job = job
  BY DEF Fresh
<1> HIDE DEF c
<1>3. /\ UNCHANGED <<user, session, run, links, scene, shown, era, opened, sale, paid, tool>>
      /\ sends' = sends + 1 /\ sends < scene.sends /\ q \notin Flying
  BY DEF Sent, Send, tables, seen, programme
<1>4. call' \in [Calls -> Call \cup {None}] /\ jar' \in [Browsers -> Jar] /\ sends' \in 0 .. scene.sends
  BY <1>1, <1>3, Facts
<1>5. Flying' = Flying \cup {q} /\ call'[q] = c /\ \A p \in Calls \ {q} : call'[p] = call[p]
  BY <1>1, Facts DEF Flying
<1>6. \A p, r \in Calls :
         p # r /\ call'[p] # None /\ call'[r] # None /\ call'[p].from = call'[r].from
             => ~ {call'[p].job, call'[r].job} \subseteq Forms
  <2>1. \A p, r \in Flying : p # r /\ call[p].from = call[r].from => ~ {call[p].job, call[r].job} \subseteq Forms
    BY DEF Known, MembersTypeOK, TypeOK, Flying
  <2>2. \A p \in Flying : p # q /\ p \in Calls /\ call'[p] = call[p]
    BY <1>3, <1>5 DEF Flying
  <2>3. \A p \in Calls : call'[p] # None => p \in Flying \/ p = q
    BY <1>5 DEF Flying
  <2> QED
    BY <1>1, <1>2, <1>5, <2>1, <2>2, <2>3
<1>7. MembersTypeOK'
  BY <1>3, <1>4, <1>6, Facts DEF Known, MembersTypeOK, TypeOK
<1>8. Members' = Members /\ Rows' = Rows
  BY <1>3 DEF Members, Rows
<1>9. \A p \in Flying' : CallKnows(call'[p], Members')
  BY <1>1, <1>5, <1>8 DEF Known, Flying
<1> QED
  BY <1>3, <1>7, <1>8, <1>9 DEF Known, Idle

LEMMA KnownHome ==
    ASSUME Known, NEW q \in Calls, Deliver(q) \/ Lose(q), UNCHANGED programme
    PROVE  Known'
<1> DEFINE b == call[q].from
           a == call[q].answer
<1>1. q \in Flying /\ b \in Browsers /\ a \in Answer /\ call' = [call EXCEPT ![q] = None]
  BY Facts DEF Deliver, Lose, At, Call
<1>2. UNCHANGED <<user, session, run, links, scene, sends, shown, sale, paid, tool>>
  BY DEF Deliver, Lose, tables, programme
<1>3. Flying' = Flying \ {q} /\ \A p \in Calls \ {q} : call'[p] = call[p]
  BY <1>1, Facts DEF Flying
<1>4. call' \in [Calls -> Call \cup {None}]
  BY <1>1, Facts
<1>5. jar' \in [Browsers -> Jar] /\ era' \in [Browsers -> Nat] /\ opened' \subseteq Born \X People
  <2>1. CASE Lose(q)
    BY <2>1, Facts DEF Lose
  <2>2. CASE Deliver(q)
    <3> DEFINE j == [device  |-> IF a.device = Keep THEN jar[b].device ELSE a.device,
                     session |-> IF a.session = Keep THEN jar[b].session ELSE a.session,
                     ref     |-> jar[b].ref]
    <3>1. jar \in [Browsers -> Jar] /\ jar[b] \in Jar /\ era \in [Browsers -> Nat] /\ a.rotated \in BOOLEAN
          /\ opened \subseteq Born \X People
      BY <1>1, Facts DEF Answer
    <3>2. j \in Jar
      BY <1>1, <3>1 DEF Jar, Answer
    <3>3. jar' = [jar EXCEPT ![b] = j]
      <4> DEFINE w == [jar EXCEPT ![b].device  = IF a.device = Keep THEN @ ELSE a.device,
                                  ![b].session = IF a.session = Keep THEN @ ELSE a.session]
      <4>1. jar' = w
        BY <2>2 DEF Deliver
      <4>2. w[b] = j
        BY <1>1, <3>1 DEF Jar
      <4>3. w = [jar EXCEPT ![b] = w[b]]
        BY <1>1, <3>1 DEF Jar
      <4> QED
        BY <4>1, <4>2, <4>3
    <3>4. era' \in [Browsers -> Nat]
      BY <1>1, <2>2, <3>1 DEF Deliver
    <3>5. \A k \in Rows : << <<b, era'[b]>>, session[k].user>> \in Born \X People
      BY <1>1, <3>4, Facts DEF Born
    <3>6. opened' \subseteq Born \X People
      BY <2>2, <3>1, <3>5 DEF Deliver
    <3> HIDE DEF j
    <3> QED
      BY <1>1, <3>1, <3>2, <3>3, <3>4, <3>6
  <2> QED
    BY <2>1, <2>2
<1>6. \A p, r \in Calls :
         p # r /\ call'[p] # None /\ call'[r] # None /\ call'[p].from = call'[r].from
             => ~ {call'[p].job, call'[r].job} \subseteq Forms
  <2>1. \A p \in Calls : call'[p] # None => call'[p] = call[p]
    BY <1>1, <1>3, Facts
  <2> QED
    BY <2>1 DEF Known, MembersTypeOK, TypeOK
<1>7. MembersTypeOK'
  BY <1>2, <1>4, <1>5, <1>6, Facts DEF Known, MembersTypeOK, TypeOK
<1>8. Members' = Members /\ Rows' = Rows
  BY <1>2 DEF Members, Rows
<1>9. \A p \in Flying' : CallKnows(call'[p], Members')
  BY <1>3, <1>8 DEF Known, Flying
<1> QED
  BY <1>2, <1>7, <1>8, <1>9 DEF Known, Idle

(* What a step of the whole is.                                             *)
Sells(q) ==
    \E s \in Sales :
       /\ call[q].step = "checked" /\ call[q].job = "buy" /\ sale[s].status = "none"
       /\ sale' = [sale EXCEPT ![s] = [status |-> "pending", buyer |-> call[q].who, referrer |-> call[q].held]]
       /\ UNCHANGED <<user, paid, tool>>

Keeps(s) == \/ Moves(s, "pending", "paid") \/ Moves(s, "pending", "failed") \/ Moves(s, "paid", "refunded")
Pays == (\E u \in People, cents \in 1 .. Worth(Sales) : PressPayout(u, cents)) \/ WritePayout

LEMMA StepIs ==
    ASSUME Known, [MembersNext]_vars
    PROVE  \/ \E q \in Calls : \E b, job, who, typed, ref : Sent(q, b, job, who, typed, ref) /\ UNCHANGED programme
           \/ \E q \in Calls : (Deliver(q) \/ Lose(q)) /\ UNCHANGED programme
           \/ \E q \in Calls : (\E d : Handles(q, d)) /\ (UNCHANGED programme \/ Sells(q))
           \/ \E s \in Sales : Keeps(s)
           \/ Pays
           \/ UNCHANGED vars
<1>1. ASSUME NEW q \in Calls, Travel(q), UNCHANGED programme
      PROVE  \/ \E b, job, who, typed, ref : Sent(q, b, job, who, typed, ref)
             \/ Deliver(q) \/ Lose(q)
  BY <1>1, Zenon DEF Travel, Sent
<1>2. ASSUME NEW q \in Calls, Serve(q), UNCHANGED programme
      PROVE  \E d : Handles(q, d)
  BY <1>2, ServeIs
<1>3. ASSUME NEW q \in Calls, Look(q) \/ Mint(q) \/ BeginBuy(q) \/ \E s \in Sales : Buy(q, s), Room,
             UNCHANGED <<jar, sends, scene, era>>
      PROVE  (\E d : Handles(q, d)) /\ (UNCHANGED programme \/ Sells(q))
  <2>1. \E d : Handles(q, d)
    BY <1>3, LookIs, MintIs, BuyIs
  <2>2. UNCHANGED programme \/ Sells(q)
    BY <1>3 DEF Look, Mint, BeginBuy, Buy, Sells, At, programme, tables
  <2> QED
    BY <2>1, <2>2
<1>4. CASE UNCHANGED vars
  BY <1>4
<1>5. CASE MembersNext
  BY <1>1, <1>2, <1>3, <1>5, Zenon DEF MembersNext, Keeps, Pays
<1> QED
  BY <1>4, <1>5

LEMMA KnownNext ==
    ASSUME Known, [MembersNext]_vars
    PROVE  Known'
<1>1. ProgrammeTyped
  BY DEF Known, MembersTypeOK, ProgrammeTyped
<1>2. UNCHANGED programme => ProgrammeTyped'
  BY <1>1 DEF ProgrammeTyped, programme, Idle
<1>3. ASSUME UNCHANGED accounts, ProgrammeTyped' PROVE Known'
  <2>1. UNCHANGED <<user, session, run, links, jar, call, sends, scene, shown, era, opened>>
    BY <1>3 DEF accounts
  <2> QED
    BY <1>3, <2>1 DEF Known, MembersTypeOK, TypeOK, ProgrammeTyped, Members, Flying, Rows
<1>4. ASSUME NEW q \in Calls, NEW b, NEW job, NEW who, NEW typed, NEW ref, Sent(q, b, job, who, typed, ref),
             UNCHANGED programme
      PROVE  Known'
  BY <1>4, KnownSend
<1>5. ASSUME NEW q \in Calls, Deliver(q) \/ Lose(q), UNCHANGED programme PROVE Known'
  BY <1>5, KnownHome
<1>6. ASSUME NEW q \in Calls, NEW d, Handles(q, d), UNCHANGED programme \/ Sells(q) PROVE Known'
  <2>1. CASE UNCHANGED programme
    BY <1>2, <1>6, <2>1, KnownHandles
  <2>2. CASE Sells(q)
    <3>1. call[q].who \in People \cup {None} /\ call[q].held \in People \cup {None}
      BY <1>6, <2>2, Facts DEF Handles, Sells, CallKnows
    <3>2. ProgrammeTyped'
      BY <1>1, <2>2, <3>1 DEF ProgrammeTyped, Sells, Sale, Idle
    <3> QED
      BY <1>6, <3>2, KnownHandles
  <2> QED
    BY <1>6, <2>1, <2>2
<1>7. ASSUME NEW s \in Sales, Keeps(s) PROVE Known'
  <2>1. UNCHANGED <<accounts, paid, tool>> /\ sale' \in [Sales -> Sale]
    BY <1>1, <1>7 DEF Keeps, Moves, ProgrammeTyped, Sale
  <2>2. ProgrammeTyped'
    BY <1>1, <2>1 DEF ProgrammeTyped, Idle
  <2> QED
    BY <1>3, <2>1, <2>2
<1>8. CASE Pays
  <2>1. ASSUME NEW u \in People, NEW cents \in 1 .. Worth(Sales), PressPayout(u, cents) PROVE Known'
    <3>1. UNCHANGED <<accounts, sale, paid>> /\ tool' = [who |-> u, cents |-> cents] /\ cents \in Nat
      BY <2>1 DEF PressPayout
    <3>2. ProgrammeTyped'
      BY <1>1, <3>1 DEF ProgrammeTyped
    <3> QED
      BY <1>3, <3>1, <3>2
  <2>2. CASE WritePayout
    <3>1. tool.who \in People /\ tool.cents \in Nat /\ paid \in [People -> Nat]
      BY <1>1, <2>2 DEF WritePayout, ProgrammeTyped
    <3>2. UNCHANGED <<accounts, sale>> /\ paid' \in [People -> Nat] /\ tool' = Idle
      BY <2>2, <3>1 DEF WritePayout
    <3>3. Idle \in [who : People \cup {None}, cents : Nat]
      BY DEF Idle
    <3>4. ProgrammeTyped'
      BY <1>1, <3>2, <3>3 DEF ProgrammeTyped, Idle
    <3> QED
      BY <1>3, <3>2, <3>4
  <2> QED
    BY <1>8, <2>1, <2>2 DEF Pays
<1>9. CASE UNCHANGED vars
  BY <1>2, <1>3, <1>9 DEF vars
<1> QED
  BY <1>4, <1>5, <1>6, <1>7, <1>8, <1>9, StepIs

LEMMA KnownInit ==
    ASSUME MembersInit
    PROVE  Known
<1>1. Init
  BY DEF MembersInit
<1>2. /\ scene \in Scenes /\ scene.begun \subseteq People /\ scene.sends \in Nat /\ sends = 0 /\ links = {}
      /\ \A u, v \in scene.begun : Stem[u] = Stem[v] => u = v
  BY <1>1, ScenesAssumption DEF Init
<1>3. \A u \in People : [New(FALSE) EXCEPT !.code = <<Stem[u], 0>>] \in Account
  BY NewIs, CodesAssumption DEF Account
<1>4. user \in [People -> Account \cup {None}]
  BY <1>1, <1>3 DEF Init
<1>5. \A u \in People :
         user[u] # None => u \in scene.begun /\ user[u].code = <<Stem[u], 0>> /\ user[u].referrer = None
  <2> SUFFICES ASSUME NEW u \in People, user[u] # None
               PROVE  u \in scene.begun /\ user[u].code = <<Stem[u], 0>> /\ user[u].referrer = None
    OBVIOUS
  <2>1. u \in scene.begun /\ user[u] = [New(FALSE) EXCEPT !.code = <<Stem[u], 0>>]
    BY <1>1 DEF Init
  <2>2. New(FALSE) \in Account /\ New(FALSE).referrer = None
    BY NewIs
  <2> QED
    BY <2>1, <2>2 DEF Account
<1>6. \A u, v \in People :
         user[u] # None /\ user[v] # None /\ user[u].code # None /\ user[u].code = user[v].code => u = v
  BY <1>2, <1>5
<1>7. session \in [Keys -> Session \cup {None}] /\ run \in [Runs -> Run \cup {None}]
      /\ call \in [Calls -> Call \cup {None}] /\ era \in [Browsers -> Nat] /\ opened \subseteq Born \X People
      /\ Rows = {} /\ Flying = {} /\ \A q \in Calls : call[q] = None
  BY <1>1 DEF Init, Rows, Flying
<1>8. jar \in [Browsers -> Jar]
  <2>1. \A b \in Browsers : [device |-> Met[b], session |-> None, ref |-> None] \in Jar
    BY MetAssumption DEF Jar
  <2> QED
    BY <1>1, <2>1 DEF Init
<1>9. \A u \in scene.begun : user[u].code \in Codes
  <2> SUFFICES ASSUME NEW u \in scene.begun PROVE user[u].code \in Codes
    OBVIOUS
  <2>1. u \in People /\ user[u] = [New(FALSE) EXCEPT !.code = <<Stem[u], 0>>]
    BY <1>1, <1>2 DEF Init
  <2>2. New(FALSE) \in Account
    BY NewIs
  <2> QED
    BY <2>1, <2>2, CodesAssumption DEF Account
<1>10. shown \subseteq People \X Codes
  <2>1. shown = {<<u, user[u].code>> : u \in scene.begun}
    BY <1>1 DEF Init
  <2> QED
    BY <1>2, <1>9, <2>1
<1>11. TypeOK
  BY <1>2, <1>4, <1>7, <1>8, <1>10 DEF TypeOK
<1>12. sale \in [Sales -> Sale] /\ paid \in [People -> Nat] /\ tool = Idle
       /\ tool \in [who : People \cup {None}, cents : Nat]
  BY DEF MembersInit, Sale, Idle
<1>13. MembersTypeOK
  BY <1>6, <1>11, <1>12 DEF MembersTypeOK
<1>14. \A u \in Members : user[u].referrer # u
  BY <1>5, NoneAssumption DEF Members
<1> QED
  BY <1>2, <1>7, <1>12, <1>13, <1>14 DEF Known

(* The tables, the cookies and the calls stay of their types, no browser    *)
(* waits on two forms, and no code names two accounts: of two that looked   *)
(* at one free stem, the column lets one have it (code_for, _free_code).    *)
THEOREM MembersTyped == Spec => []MembersTypeOK
<1>1. MembersInit => Known
  BY KnownInit
<1>2. Known /\ [MembersNext]_vars => Known'
  BY KnownNext
<1>3. Known => MembersTypeOK
  BY DEF Known
<1> QED
  BY <1>1, <1>2, <1>3, PTL DEF Spec

-----------------------------------------------------------------------------
(* What a shared computer is left with. A device is met in the jar of a     *)
(* browser, among the cookies of a call and on a run, each time of one      *)
(* browser in one era.                                                      *)

JarTraces  == {<<jar[b].device, <<b, era[b]>> >> : b \in Browsers}
CallTraces == {<<call[q].cookies.device, <<call[q].from, call[q].era>> >> : q \in Flying}
RunTraces  == {<<run[r].device, run[r].born>> : r \in {s \in Runs : run[s] # None}}
Traces     == JarTraces \cup CallTraces \cup RunTraces

Handing == {q \in Flying : call[q].answer.device # Keep}

(* No device is met of two browsers, nor, of a browser that had one from    *)
(* the start, in two eras; and what an answer hands out anew is nowhere yet *)
(* but on what that first call of a browser made.                           *)
Apart ==
    /\ \A s, t \in Traces : s[1] = t[1] /\ s[1] # None
          => s[2][1] = t[2][1] /\ (Met[s[2][1]] # None => s[2] = t[2])
    /\ \A t \in Traces : Met[t[2][1]] # None => t[1] # None
    /\ \A q \in Handing, t \in Traces : t[1] = call[q].answer.device => t[2][1] = call[q].from /\ Met[t[2][1]] = None
    /\ \A p, q \in Handing : call[p].answer.device = call[q].answer.device => p = q
    /\ \A q \in Flying : call[q].answer.rotated => q \in Handing /\ call[q].answer.session = None

(* Whoever a browser is signed in as, it has opened in that era.            *)
Open ==
    /\ \A b \in Browsers : jar[b].session \in Rows => << <<b, era[b]>>, session[jar[b].session].user>> \in opened
    /\ \A q \in Flying : call[q].cookies.session \in Rows
          => << <<call[q].from, call[q].era>>, session[call[q].cookies.session].user>> \in opened
    /\ \A r \in Runs : run[r] # None /\ run[r].user # None /\ Met[run[r].born[1]] # None
          => <<run[r].born, run[r].user>> \in opened

Telling == Known /\ Apart /\ Open

(* What the server goes by, and hands out.                                  *)
LEMMA DeviceIs ==
    ASSUME Telling, Room, NEW q \in Flying
    PROVE  LET c == call[q]
               t == <<DeviceId(q), <<c.from, c.era>> >>
           IN  /\ c.cookies.device # None => t \in Traces /\ WrittenDevice(q) = Keep
               /\ c.cookies.device = None =>
                     /\ Met[c.from] = None /\ WrittenDevice(q) = DeviceId(q) /\ DeviceId(q) = FreshDevice
               /\ DeviceId(q) # None
<1> DEFINE c == call[q]
           t == <<DeviceId(q), <<c.from, c.era>> >>
           s == <<c.cookies.device, <<c.from, c.era>> >>
<1>1. s \in Traces
  BY DEF Traces, CallTraces
<1>2. c.cookies.device = None => Met[c.from] = None
  BY <1>1 DEF Telling, Apart
<1>3. DeviceId(q) # None
  BY PlainIs, BoundsAssumption, NoneAssumption DEF Telling
<1> QED
  BY <1>1, <1>2, <1>3 DEF DeviceId, WrittenDevice

LEMMA FreshIsNew ==
    ASSUME Telling, Room
    PROVE  /\ \A t \in Traces : t[1] # FreshDevice
           /\ \A q \in Flying : call[q].answer.device # FreshDevice
           /\ FreshDevice # Keep /\ FreshDevice # None
<1>1. FreshDevice \in Devices /\ FreshDevice \notin Held
  BY FreshIs
<1>2. FreshDevice # Keep /\ FreshDevice # None
  BY <1>1, BoundsAssumption, NoneAssumption
<1>3. \A t \in Traces : t[1] \in Held
  BY DEF Traces, JarTraces, CallTraces, RunTraces, Held
<1>4. \A q \in Flying : call[q].answer.device \in Held
  BY DEF Held
<1> QED
  BY <1>1, <1>2, <1>3, <1>4

(* A step of the server leaves no trace but of the device it goes by.       *)
LEMMA TracesStay ==
    ASSUME Telling, NEW q, NEW d, Handles(q, d)
    PROVE  \A t \in Traces' : t \in Traces \/ t = <<DeviceId(q), <<call[q].from, call[q].era>> >>
<1>1. Room /\ q \in Flying /\ Goes(q, d) /\ Writes(q, d) /\ UNCHANGED <<jar, era>> /\ Known
  BY DEF Handles, Telling
<1>2. /\ Flying' = Flying
      /\ \A p \in Flying : /\ call'[p].from = call[p].from /\ call'[p].cookies = call[p].cookies
                           /\ call'[p].era = call[p].era
  BY <1>1, GoesIs
<1>3. JarTraces' = JarTraces /\ CallTraces' = CallTraces
  BY <1>1, <1>2 DEF JarTraces, CallTraces
<1>4. \A r \in Runs : run'[r] # None =>
         \/ run[r] # None /\ run'[r].device = run[r].device /\ run'[r].born = run[r].born
         \/ run'[r].device = DeviceId(q) /\ run'[r].born = <<call[q].from, call[q].era>>
  <2>1. run \in [Runs -> Run \cup {None}]
    BY <1>1, Facts
  <2>2. CASE run' = run
    BY <2>2
  <2>3. ASSUME NEW u \in Members, run' = Claimed(DeviceId(q), u)
        PROVE  \A r \in Runs : run'[r] # None =>
                  run[r] # None /\ run'[r].device = run[r].device /\ run'[r].born = run[r].born
    BY <2>1, <2>3 DEF Claimed, Run
  <2>4. ASSUME NEW x \in Runs,
               run' = [run EXCEPT ![x] = [device |-> DeviceId(q), user |-> Who(q), born |-> <<call[q].from, call[q].era>>]]
        PROVE  \A r \in Runs : run'[r] # None =>
                  \/ run[r] # None /\ run'[r] = run[r]
                  \/ run'[r].device = DeviceId(q) /\ run'[r].born = <<call[q].from, call[q].era>>
    BY <2>1, <2>4
  <2> QED
    BY <1>1, <2>2, <2>3, <2>4 DEF Writes, Waits, Told, Leaves, Enters
<1>5. \A t \in RunTraces' : t \in RunTraces \/ t = <<DeviceId(q), <<call[q].from, call[q].era>> >>
  BY <1>4 DEF RunTraces
<1> QED
  BY <1>3, <1>5 DEF Traces

LEMMA ApartHandles ==
    ASSUME Telling, NEW q, NEW d, Handles(q, d)
    PROVE  Apart'
<1> DEFINE b == call[q].from
           t0 == <<DeviceId(q), <<b, call[q].era>> >>
<1>1. Room /\ q \in Flying /\ Goes(q, d) /\ Writes(q, d) /\ Known /\ Apart
  BY DEF Handles, Telling
<1>2. /\ Flying' = Flying /\ call'[q] = d /\ \A p \in Flying \ {q} : call'[p] = call[p]
      /\ \A p \in Flying : call'[p].from = call[p].from
  BY <1>1, GoesIs
<1>3. \A t \in Traces' : t \in Traces \/ t = t0
  BY TracesStay
<1>4. /\ \A t \in Traces : t[1] # FreshDevice
      /\ \A p \in Flying : call[p].answer.device # FreshDevice
      /\ FreshDevice # Keep /\ FreshDevice # None
  BY <1>1, FreshIsNew DEF Telling
<1>5. /\ DeviceId(q) # None
      /\ \/ t0 \in Traces /\ WrittenDevice(q) = Keep
         \/ Met[b] = None /\ WrittenDevice(q) = FreshDevice /\ DeviceId(q) = FreshDevice
  <2>1. Telling /\ Room /\ q \in Flying
    BY <1>1
  <2> QED
    BY <2>1, DeviceIs
<1>6. t0[1] = DeviceId(q) /\ t0[2][1] = b
  OBVIOUS
<1> HIDE DEF t0
<1>7. \A s, t \in Traces' : s[1] = t[1] /\ s[1] # None
          => s[2][1] = t[2][1] /\ (Met[s[2][1]] # None => s[2] = t[2])
  BY <1>1, <1>3, <1>4, <1>5, <1>6 DEF Apart
<1>8. \A t \in Traces' : Met[t[2][1]] # None => t[1] # None
  BY <1>1, <1>3, <1>5, <1>6 DEF Apart
\* What this step answers: nothing yet, nothing of a device, or the fresh one.
<1>9. \/ d.answer = call[q].answer
      \/ /\ d.answer.device \in {Keep, FreshDevice}
         /\ d.answer.rotated => d.answer.device = FreshDevice /\ d.answer.session = None
  <2>1. Plain(q).device = WrittenDevice(q) /\ ~Plain(q).rotated
    BY <1>1, PlainIs
  <2>2. Rotated(q).device = FreshDevice /\ Rotated(q).session = None
    BY DEF Rotated
  <2> QED
    BY <1>1, <1>5, <2>1, <2>2 DEF Writes, Waits, Told, Leaves, Enters
<1>10. \A p \in Handing' : \/ p \in Handing /\ call'[p].answer = call[p].answer
                           \/ p = q /\ call'[p].answer.device = FreshDevice
  <2>1. \A p \in Handing' : p \in Flying /\ call'[p].answer.device # Keep
    BY <1>2 DEF Handing
  <2>2. \A p \in Flying : p # q => call'[p].answer = call[p].answer
    BY <1>2
  <2>3. \A p \in Flying : call[p].answer.device # Keep => p \in Handing
    BY DEF Handing
  <2> QED
    BY <1>2, <1>9, <2>1, <2>2, <2>3
<1>11. \A p \in Handing', t \in Traces' :
          t[1] = call'[p].answer.device => t[2][1] = call'[p].from /\ Met[t[2][1]] = None
  <2> SUFFICES ASSUME NEW p \in Handing', NEW t \in Traces', t[1] = call'[p].answer.device
               PROVE  t[2][1] = call'[p].from /\ Met[t[2][1]] = None
    OBVIOUS
  <2>1. call'[p].from = call[p].from /\ p \in Flying
    BY <1>2 DEF Handing
  <2>2. CASE p \in Handing /\ call'[p].answer = call[p].answer
    BY <1>1, <1>3, <1>4, <1>5, <1>6, <2>1, <2>2 DEF Apart
  <2>3. CASE p = q /\ call'[p].answer.device = FreshDevice
    BY <1>3, <1>4, <1>5, <1>6, <2>1, <2>3
  <2> QED
    BY <1>10, <2>2, <2>3
<1>12. \A p, r \in Handing' : call'[p].answer.device = call'[r].answer.device => p = r
  <2>1. \A p \in Handing : p \in Flying
    BY DEF Handing
  <2> QED
    BY <1>1, <1>4, <1>10, <2>1 DEF Apart
<1>13. \A p \in Flying' : call'[p].answer.rotated => p \in Handing' /\ call'[p].answer.session = None
  <2>1. \A p \in Flying : call[p].answer.rotated => call[p].answer.device # Keep /\ call[p].answer.session = None
    BY <1>1 DEF Apart, Handing
  <2>2. \A p \in Flying' : call'[p].answer.rotated =>
           call'[p].answer.device # Keep /\ call'[p].answer.session = None
    BY <1>1, <1>2, <1>4, <1>9, <2>1
  <2> QED
    BY <2>2 DEF Handing
<1> QED
  BY <1>7, <1>8, <1>11, <1>12, <1>13 DEF Apart

LEMMA OpenHandles ==
    ASSUME Telling, NEW q, NEW d, Handles(q, d)
    PROVE  Open'
<1> DEFINE b == call[q].from
           e == <<call[q].from, call[q].era>>
<1>1. Room /\ q \in Flying /\ Goes(q, d) /\ Writes(q, d) /\ UNCHANGED <<jar, era>> /\ Known /\ Apart /\ Open
  BY DEF Handles, Telling
<1>2. /\ Flying' = Flying
      /\ \A p \in Flying : /\ call'[p].from = call[p].from /\ call'[p].cookies = call[p].cookies
                           /\ call'[p].era = call[p].era
  BY <1>1, GoesIs
<1>3. opened \subseteq opened'
  BY <1>1 DEF Writes, Waits, Told, Leaves, Enters
<1>4. FreshKey \in Keys /\ FreshKey \notin InJars
  BY <1>1, FreshIs
<1>5. \A k \in InJars : k \in Rows' => k \in Rows /\ session'[k] = session[k]
  <2>1. \A k \in Keys \ {FreshKey} : session'[k] \in {session[k], None}
    BY <1>1 DEF Writes, Waits, Told, Leaves, Enters
  <2> QED
    BY <1>4, <2>1 DEF Rows
<1>6. \A c \in Browsers : jar'[c].session \in Rows' =>
         << <<c, era'[c]>>, session'[jar'[c].session].user>> \in opened'
  <2>1. \A c \in Browsers : jar[c].session \in InJars
    BY DEF InJars
  <2> QED
    BY <1>1, <1>3, <1>5, <2>1 DEF Open
<1>7. \A p \in Flying' : call'[p].cookies.session \in Rows' =>
         << <<call'[p].from, call'[p].era>>, session'[call'[p].cookies.session].user>> \in opened'
  <2>1. \A p \in Flying : call[p].cookies.session \in InJars
    BY DEF InJars
  <2> QED
    BY <1>1, <1>2, <1>3, <1>5, <2>1 DEF Open
<1>8. \A r \in Runs : run'[r] # None /\ run'[r].user # None /\ Met[run'[r].born[1]] # None
         => <<run'[r].born, run'[r].user>> \in opened'
  <2>1. run \in [Runs -> Run \cup {None}]
    BY <1>1, Facts
  <2>2. CASE run' = run
    BY <1>1, <1>3, <2>2 DEF Open
  <2>3. ASSUME NEW x \in Runs,
               run' = [run EXCEPT ![x] = [device |-> DeviceId(q), user |-> Who(q), born |-> e]]
        PROVE  \A r \in Runs : run'[r] # None /\ run'[r].user # None /\ Met[run'[r].born[1]] # None
                  => <<run'[r].born, run'[r].user>> \in opened'
    <3>1. Who(q) # None => <<e, Who(q)>> \in opened
      BY <1>1, WhoIs DEF Open
    <3>2. \A r \in Runs : r # x => run'[r] = run[r]
      BY <2>1, <2>3
    <3>3. run'[x].user = Who(q) /\ run'[x].born = e
      BY <2>1, <2>3
    <3> QED
      BY <1>1, <1>3, <3>1, <3>2, <3>3 DEF Open
  <2>4. ASSUME NEW u \in Members, Enters(q, d, u)
        PROVE  \A r \in Runs : run'[r] # None /\ run'[r].user # None /\ Met[run'[r].born[1]] # None
                  => <<run'[r].born, run'[r].user>> \in opened'
    <3>1. <<e, u>> \in opened' /\ run' = Claimed(DeviceId(q), u)
      BY <2>4 DEF Enters
    <3>2. SUFFICES ASSUME NEW r \in Runs, run'[r] # None, run'[r].user # None, Met[run'[r].born[1]] # None
                   PROVE  <<run'[r].born, run'[r].user>> \in opened'
      OBVIOUS
    <3>3. run[r] # None /\ run[r] \in Run
      BY <2>1, <3>1, <3>2 DEF Claimed
    <3>4. CASE run'[r] = run[r]
      BY <1>1, <1>3, <3>2, <3>3, <3>4 DEF Open
    <3>5. CASE run[r].device = DeviceId(q) /\ run'[r] = [run[r] EXCEPT !.user = u]
      <4> DEFINE s == <<run[r].device, run[r].born>>
                 t == <<DeviceId(q), e>>
      <4>1. run'[r].user = u /\ run'[r].born = run[r].born
        BY <3>3, <3>5 DEF Run
      <4>2. s \in Traces /\ s[1] = t[1] /\ s[1] = DeviceId(q) /\ s[2] = run[r].born /\ t[2] = e
        BY <3>3, <3>5 DEF Traces, RunTraces
      <4>3. Telling /\ Room /\ q \in Flying
        BY <1>1
      <4>4. DeviceId(q) # None /\ (t \in Traces \/ DeviceId(q) = FreshDevice)
        BY <4>3, DeviceIs
      <4>5. DeviceId(q) # FreshDevice
        BY <4>2, <4>3, FreshIsNew
      <4> HIDE DEF s, t
      <4>6. s[2] = t[2]
        <5>1. Met[s[2][1]] # None
          BY <3>2, <4>1, <4>2
        <5>2. t \in Traces /\ s[1] # None
          BY <4>2, <4>4, <4>5
        <5> QED
          BY <1>1, <4>2, <5>1, <5>2 DEF Apart
      <4> QED
        BY <3>1, <4>1, <4>2, <4>6
    <3> QED
      BY <2>1, <3>1, <3>3, <3>4, <3>5 DEF Claimed
  <2> QED
    BY <1>1, <2>2, <2>3, <2>4 DEF Writes, Waits, Told, Leaves
<1> QED
  BY <1>6, <1>7, <1>8 DEF Open

LEMMA TellingSend ==
    ASSUME Telling, NEW q \in Calls, NEW b, NEW job, NEW who, NEW typed, NEW ref, Sent(q, b, job, who, typed, ref)
    PROVE  Apart' /\ Open'
<1> DEFINE c == Fresh(b, job, who, typed)
<1>1. /\ c # None /\ call' = [call EXCEPT ![q] = c]
      /\ b \in Browsers /\ jar' = [jar EXCEPT ![b] = [@ EXCEPT !.ref = ref]]
  BY SendIs DEF Telling
<1>2. /\ c.from = b /\ c.era = era[b] /\ c.cookies = jar'[b] /\ c.answer = NoAnswer
  BY DEF Fresh
<1> HIDE DEF c
<1>3. Known /\ Apart /\ Open /\ UNCHANGED <<user, session, run, era, opened>> /\ q \notin Flying
  BY DEF Sent, Send, tables, seen, Telling
<1>4. \A x \in Browsers : jar'[x].device = jar[x].device /\ jar'[x].session = jar[x].session
  BY <1>1, <1>3, Facts DEF Jar
<1>5. Flying' = Flying \cup {q} /\ call'[q] = c /\ \A p \in Flying : call'[p] = call[p]
  BY <1>1, <1>3, Facts DEF Flying
<1>6. \A t \in Traces' : t \in Traces
  <2>1. JarTraces' = JarTraces /\ RunTraces' = RunTraces
    BY <1>3, <1>4 DEF JarTraces, RunTraces
  <2>2. <<c.cookies.device, <<c.from, c.era>> >> \in JarTraces
    BY <1>1, <1>2, <1>4 DEF JarTraces
  <2>3. \A t \in CallTraces' : t \in CallTraces \/ t \in JarTraces
    BY <1>5, <2>2 DEF CallTraces
  <2> QED
    BY <2>1, <2>3 DEF Traces
<1>7. Handing' = Handing /\ \A p \in Handing : call'[p] = call[p]
  BY <1>2, <1>3, <1>5 DEF Handing, NoAnswer
<1>8. Apart'
  <2>1. \A p \in Flying' : call'[p].answer.rotated => p \in Handing /\ call'[p].answer.session = None
    BY <1>2, <1>3, <1>5 DEF Apart, NoAnswer
  <2> QED
    BY <1>3, <1>6, <1>7, <2>1 DEF Apart
<1>9. Open'
  <2>1. Rows' = Rows
    BY <1>3 DEF Rows
  <2>2. \A x \in Browsers : jar'[x].session \in Rows =>
           << <<x, era[x]>>, session[jar'[x].session].user>> \in opened
    BY <1>3, <1>4 DEF Open
  <2>3. \A p \in Flying' : call'[p].cookies.session \in Rows =>
           << <<call'[p].from, call'[p].era>>, session[call'[p].cookies.session].user>> \in opened
    <3>1. c.cookies.session \in Rows => << <<c.from, c.era>>, session[c.cookies.session].user>> \in opened
      BY <1>1, <1>2, <2>2
    <3> QED
      BY <1>3, <1>5, <3>1 DEF Open
  <2> QED
    BY <1>3, <2>1, <2>2, <2>3 DEF Open
<1> QED
  BY <1>8, <1>9

LEMMA TellingHome ==
    ASSUME Telling, NEW q \in Calls, Deliver(q) \/ Lose(q)
    PROVE  Apart' /\ Open'
<1> DEFINE b == call[q].from
           a == call[q].answer
           t0 == <<a.device, <<b, era'[b]>> >>
<1>1. /\ q \in Flying /\ b \in Browsers /\ call' = [call EXCEPT ![q] = None] /\ Known /\ Apart /\ Open
      /\ UNCHANGED <<user, session, run>>
  BY Facts DEF Deliver, Lose, At, Call, tables, Telling
<1>2. Flying' = Flying \ {q} /\ \A p \in Flying' : call'[p] = call[p]
  BY <1>1, Facts DEF Flying
<1>3. CallTraces' \subseteq CallTraces /\ RunTraces' = RunTraces /\ Rows' = Rows
  BY <1>1, <1>2 DEF CallTraces, RunTraces, Rows
<1>4. Handing' = Handing \ {q} /\ \A p \in Handing' : call'[p] = call[p]
  BY <1>2 DEF Handing
<1>5. \A p \in Flying' : call'[p].answer.rotated => p \in Handing' /\ call'[p].answer.session = None
  BY <1>1, <1>2, <1>4 DEF Apart
<1>6. CASE Lose(q)
  <2>1. JarTraces' = JarTraces /\ UNCHANGED <<jar, era, opened>>
    BY <1>6 DEF Lose, JarTraces
  <2>2. Traces' \subseteq Traces
    BY <1>3, <2>1 DEF Traces
  <2> QED
    BY <1>1, <1>2, <1>3, <1>4, <1>5, <2>1, <2>2 DEF Apart, Open
<1>7. CASE Deliver(q)
  <2>1. \A x \in Browsers \ {b} : jar'[x] = jar[x] /\ era'[x] = era[x]
    BY <1>1, <1>7, Facts DEF Deliver
  <2>2. /\ jar'[b].device = (IF a.device = Keep THEN jar[b].device ELSE a.device)
        /\ jar'[b].session = (IF a.session = Keep THEN jar[b].session ELSE a.session)
    BY <1>1, <1>7, Facts DEF Deliver, Jar
  <2>3. /\ (a.rotated => a.device # Keep /\ a.session = None)
        /\ (~a.rotated => era'[b] = era[b])
    BY <1>1, <1>7 DEF Deliver, Apart, Handing
  <2>4. opened' = opened \cup {<< <<b, era'[b]>>, session[k].user>> : k \in {a.session} \cap Rows}
    BY <1>7 DEF Deliver
  <2>5. t0[1] = a.device /\ t0[2] = <<b, era'[b]>> /\ t0[2][1] = b
    OBVIOUS
  <2> HIDE DEF t0
  <2>6. \A t \in Traces' : t \in Traces \/ (q \in Handing /\ t = t0)
    <3>1. \A t \in JarTraces' : t \in JarTraces \/ (q \in Handing /\ t = t0)
      <4> SUFFICES ASSUME NEW x \in Browsers
                   PROVE  <<jar'[x].device, <<x, era'[x]>> >> \in JarTraces
                          \/ (q \in Handing /\ <<jar'[x].device, <<x, era'[x]>> >> = t0)
        BY DEF JarTraces
      <4>1. CASE x # b
        BY <2>1, <4>1 DEF JarTraces
      <4>2. CASE x = b /\ a.device = Keep
        BY <1>1, <2>2, <2>3, <4>2 DEF JarTraces
      <4>3. CASE x = b /\ a.device # Keep
        BY <1>1, <2>2, <4>3 DEF Handing, t0
      <4> QED
        BY <4>1, <4>2, <4>3
    <3> QED
      BY <1>3, <3>1 DEF Traces
  <2>7. Apart'
    <3>1. q \in Handing => a.device # None
      BY <1>1, Facts, BoundsAssumption, NoneAssumption DEF Handing, Call, Answer
    <3>2. q \in Handing => \A t \in Traces : t[1] = t0[1] => t[2][1] = b /\ Met[b] = None
      BY <1>1, <2>5 DEF Apart
    <3>3. \A s, t \in Traces' : s[1] = t[1] /\ s[1] # None
              => s[2][1] = t[2][1] /\ (Met[s[2][1]] # None => s[2] = t[2])
      BY <1>1, <2>5, <2>6, <3>2 DEF Apart
    <3>4. \A t \in Traces' : Met[t[2][1]] # None => t[1] # None
      BY <1>1, <2>5, <2>6, <3>1 DEF Apart
    <3>5. \A p \in Handing', t \in Traces' :
             t[1] = call'[p].answer.device => t[2][1] = call'[p].from /\ Met[t[2][1]] = None
      BY <1>1, <1>4, <2>5, <2>6 DEF Apart
    <3>6. \A p, r \in Handing' : call'[p].answer.device = call'[r].answer.device => p = r
      BY <1>1, <1>4 DEF Apart
    <3> QED
      BY <1>5, <3>3, <3>4, <3>5, <3>6 DEF Apart
  <2>8. Open'
    <3>1. \A x \in Browsers : jar'[x].session \in Rows =>
             << <<x, era'[x]>>, session[jar'[x].session].user>> \in opened'
      <4> SUFFICES ASSUME NEW x \in Browsers, jar'[x].session \in Rows
                   PROVE  << <<x, era'[x]>>, session[jar'[x].session].user>> \in opened'
        OBVIOUS
      <4>1. CASE x # b
        BY <1>1, <2>1, <2>4, <4>1 DEF Open
      <4>2. CASE x = b /\ a.session = Keep
        <5>1. ~a.rotated
          BY <2>3, <4>2, NoneAssumption
        <5> QED
          BY <1>1, <2>2, <2>3, <2>4, <4>2, <5>1 DEF Open
      <4>3. CASE x = b /\ a.session # Keep
        BY <2>2, <2>4, <4>3
      <4> QED
        BY <4>1, <4>2, <4>3
    <3> QED
      BY <1>1, <1>2, <1>3, <2>4, <3>1 DEF Open
  <2> QED
    BY <2>7, <2>8
<1> QED
  BY <1>6, <1>7

LEMMA TellingInit ==
    ASSUME MembersInit
    PROVE  Telling
<1>1. Known /\ Init
  BY KnownInit DEF MembersInit
<1>2. /\ Flying = {} /\ \A r \in Runs : run[r] = None
      /\ Rows = {} /\ \A b \in Browsers : jar[b].device = Met[b] /\ era[b] = 0
  BY <1>1 DEF Init, Flying, Rows
<1>3. \A t \in Traces : \E b \in Browsers : t = <<Met[b], <<b, 0>> >>
  BY <1>2 DEF Traces, JarTraces, CallTraces, RunTraces
<1>4. \A s, t \in Traces : s[1] = t[1] /\ s[1] # None
          => s[2][1] = t[2][1] /\ (Met[s[2][1]] # None => s[2] = t[2])
  BY <1>3, MetAssumption
<1>5. \A t \in Traces : Met[t[2][1]] # None => t[1] # None
  BY <1>3
<1>6. Apart
  BY <1>2, <1>4, <1>5 DEF Apart, Handing
<1>7. Open
  BY <1>2 DEF Open
<1> QED
  BY <1>1, <1>6, <1>7 DEF Telling

LEMMA TellingNext ==
    ASSUME Telling, [MembersNext]_vars
    PROVE  Telling'
<1>1. Known /\ Known'
  BY KnownNext DEF Telling
<1>2. ASSUME UNCHANGED accounts PROVE Apart' /\ Open'
  <2>1. UNCHANGED <<user, session, run, links, jar, call, sends, scene, shown, era, opened>> /\ Apart /\ Open
    BY <1>2 DEF accounts, Telling
  <2> QED
    BY <2>1 DEF Apart, Open, Traces, JarTraces, CallTraces, RunTraces, Handing, Flying, Rows
<1>3. ASSUME NEW q \in Calls, NEW b, NEW job, NEW who, NEW typed, NEW ref, Sent(q, b, job, who, typed, ref)
      PROVE  Apart' /\ Open'
  BY <1>3, TellingSend
<1>4. ASSUME NEW q \in Calls, Deliver(q) \/ Lose(q) PROVE Apart' /\ Open'
  BY <1>4, TellingHome
<1>5. ASSUME NEW q \in Calls, NEW d, Handles(q, d) PROVE Apart' /\ Open'
  BY <1>5, ApartHandles, OpenHandles
<1>6. (\E s \in Sales : Keeps(s)) \/ Pays \/ UNCHANGED vars => UNCHANGED accounts
  BY DEF Keeps, Moves, Pays, PressPayout, WritePayout, vars
<1> QED
  BY <1>1, <1>2, <1>3, <1>4, <1>5, <1>6, StepIs DEF Telling

LEMMA TellingIsClean ==
    ASSUME Telling
    PROVE  LockedOut
<1>1. Known /\ Apart /\ Open
  BY DEF Telling
<1>2. ASSUME NEW b \in Browsers, NEW r \in Runs, Met[b] # None, r \in OwnedBy(b), ~Live(jar[b].session)
      PROVE  run[r].born = <<b, era[b]>>
  <2> DEFINE s == <<jar[b].device, <<b, era[b]>> >>
             t == <<run[r].device, run[r].born>>
  <2>1. run[r] # None /\ run[r].device = jar[b].device
    BY <1>2 DEF OwnedBy
  <2>2. s \in Traces /\ t \in Traces
    BY <2>1 DEF Traces, JarTraces, RunTraces
  <2>3. s[1] = t[1] /\ s[2] = <<b, era[b]>> /\ s[2][1] = b /\ t[2] = run[r].born
    BY <2>1
  <2> HIDE DEF s, t
  <2>4. s[1] # None /\ s[2] = t[2]
    BY <1>1, <1>2, <2>2, <2>3 DEF Apart
  <2> QED
    BY <2>3, <2>4
<1>3. LeftClean
  BY <1>1, <1>2 DEF LeftClean, Open
<1>4. OldPasswordIsDead
  <2> SUFFICES ASSUME NEW k \in Keys, Live(k), session[k].proof # 0
               PROVE  session[k].proof = user[session[k].user].word
    BY DEF OldPasswordIsDead
  <2>1. session[k].hash = user[session[k].user].word /\ k \in Rows
    BY DEF Live, Rows
  <2>2. session[k].proof \in {0, session[k].hash}
    BY <1>1, <2>1, Facts
  <2> QED
    BY <2>1, <2>2
<1> QED
  BY <1>3, <1>4 DEF LockedOut

(* Whoever signed out is locked out, and so is whoever knew an old          *)
(* password: a browser that came with a device has, after a sign-out, the   *)
(* runs of its last era only, no run of such a browser is claimed by an     *)
(* account it had not opened in that era, and no session outlives the       *)
(* password it was opened with, however calls, answers and losses are       *)
(* ordered (rotate_device, claim_device, DeviceCookieMiddleware,            *)
(* reset_password).                                                         *)
THEOREM WhoeverLeftIsOut == Spec => []LockedOut
<1>1. MembersInit => Telling
  BY TellingInit
<1>2. Telling /\ [MembersNext]_vars => Telling'
  BY TellingNext
<1>3. Telling => LockedOut
  BY TellingIsClean
<1> QED
  BY <1>1, <1>2, <1>3, PTL DEF Spec

-----------------------------------------------------------------------------
(* The code a link carries. While one page of an account asks at a time,    *)
(* whoever asks has no code yet, and is alone in asking.                    *)

AsksNow(q) == call[q].step = "checked" /\ call[q].job = "look"

Linked ==
    /\ \A link \in shown : link[1] \in Members /\ user[link[1]].code = link[2]
    /\ \A q \in Flying : AsksNow(q) => user[call[q].who].code = None
    /\ \A p, q \in Flying : AsksNow(p) /\ AsksNow(q) /\ call[p].who = call[q].who => p = q

LEMMA NobodyElseAsks ==
    ASSUME LooksAtOnce = 1, Known, NEW q, NEW d, Handles(q, d), d.step = "checked", d.job = "look"
    PROVE  /\ user[d.who].code = None
           /\ \A p \in Flying \ {q} :
                 AsksNow(p) => (call[p].who # d.who \/ (AsksNow(q) /\ call[q].who = d.who))
<1>1. Found(q, d) /\ q \in Flying
  BY DEF Handles
<1>2. user[d.who].code = None /\ (Cardinality(Asking(d.who)) < 1 \/ q \in Asking(d.who))
  BY <1>1 DEF Found
<1>3. CASE q \in Asking(d.who)
  BY <1>2, <1>3 DEF Asking, AsksNow
<1>4. CASE Cardinality(Asking(d.who)) < 1
  <2> DEFINE S == Asking(d.who)
  <2>1. IsFiniteSet(S)
    <3>1. S \subseteq Calls
      BY DEF Asking, Flying
    <3> QED
      BY <3>1, FinitenessAssumption, FS_Subset
  <2>2. S = {}
    <3> HIDE DEF S
    <3>1. Cardinality(S) \in Nat
      BY <2>1, FS_CardinalityType
    <3>2. Cardinality(S) = 0
      BY <1>4, <3>1 DEF S
    <3> QED
      BY <2>1, <3>2, FS_EmptySet
  <2>3. \A p \in Flying : ~(call[p].job = "look" /\ call[p].step = "checked" /\ call[p].who = d.who)
    BY <2>2 DEF Asking
  <2> QED
    BY <1>2, <2>3 DEF AsksNow
<1> QED
  BY <1>2, <1>3, <1>4

LEMMA LinkedHandles ==
    ASSUME LooksAtOnce = 1, Known, Linked, NEW q, NEW d, Handles(q, d)
    PROVE  Linked'
<1>1. q \in Flying /\ Goes(q, d) /\ Rewrites(q, d) /\ Shown(d) /\ CallKnows(d, Members')
  BY DEF Handles
<1>2. Flying' = Flying /\ call'[q] = d /\ \A p \in Flying \ {q} : call'[p] = call[p]
  BY <1>1, GoesIs
<1>3. Members \subseteq Members'
  BY <1>1, RowsStay
\* A code changes where the handler that asked for it mints it.
<1>4. \A u \in Members : \/ user'[u].code = user[u].code
                         \/ AsksNow(q) /\ call[q].who = u /\ d.step = "answered"
  <2>1. \A u \in Members : u \in People /\ user[u] # None
    BY DEF Members
  <2> QED
    BY <1>1, <2>1 DEF Rewrites, Made, KeepsCode, Minted, AsksNow
<1>5. \A p \in Flying : AsksNow(p) => call[p].who \in Members /\ call[p].who \in People
  BY Facts DEF AsksNow, CallKnows
<1>6. \A link \in shown' : link[1] \in Members' /\ user'[link[1]].code = link[2]
  <2>1. \A link \in shown : link[1] \in Members' /\ user'[link[1]].code = link[2]
    <3> SUFFICES ASSUME NEW link \in shown PROVE link[1] \in Members' /\ user'[link[1]].code = link[2]
      OBVIOUS
    <3>1. link[1] \in Members /\ user[link[1]].code = link[2] /\ link[2] # None
      BY Facts, NoneAssumption DEF Linked
    <3> QED
      BY <1>1, <1>3, <1>4, <3>1 DEF Linked
  <2> QED
    BY <1>1, <1>3, <2>1 DEF Shown
<1>7. \A p \in Flying : AsksNow(p)' => user'[call'[p].who].code = None
  <2> SUFFICES ASSUME NEW p \in Flying, AsksNow(p)' PROVE user'[call'[p].who].code = None
    OBVIOUS
  <2>1. CASE p # q
    BY <1>1, <1>2, <1>4, <1>5, <2>1 DEF Linked, AsksNow
  <2>2. CASE p = q
    <3>1. d.step = "checked" /\ d.job = "look" /\ call'[p].who = d.who
      BY <1>2, <2>2 DEF AsksNow
    <3>2. user[d.who].code = None /\ d.who \in Members' /\ d.who \in People
      BY <1>1, <3>1, NobodyElseAsks DEF CallKnows
    <3>3. user'[d.who] # None
      BY <3>2 DEF Members
    <3> QED
      BY <1>1, <3>1, <3>2, <3>3 DEF Rewrites, Made, KeepsCode, Minted
  <2> QED
    BY <2>1, <2>2
<1>8. \A p, r \in Flying : AsksNow(p)' /\ AsksNow(r)' /\ call'[p].who = call'[r].who => p = r
  <2>1. \A p \in Flying \ {q} : AsksNow(p)' => AsksNow(p) /\ call'[p].who = call[p].who
    BY <1>2 DEF AsksNow
  <2>2. AsksNow(q)' => \A p \in Flying \ {q} : AsksNow(p) => call[p].who # call'[q].who
    <3> SUFFICES ASSUME AsksNow(q)' PROVE \A p \in Flying \ {q} : AsksNow(p) => call[p].who # d.who
      BY <1>2
    <3>1. d.step = "checked" /\ d.job = "look"
      BY <1>2 DEF AsksNow
    <3> QED
      BY <1>1, <3>1, NobodyElseAsks DEF Linked
  <2> QED
    BY <1>1, <2>1, <2>2 DEF Linked
<1> QED
  BY <1>2, <1>6, <1>7, <1>8 DEF Linked

LEMMA LinkedElse ==
    ASSUME Linked, UNCHANGED <<user, shown>>, \A q \in Flying' : AsksNow(q)' => q \in Flying /\ call'[q] = call[q]
    PROVE  Linked'
<1>1. \A q \in Flying' : AsksNow(q)' => AsksNow(q)
  BY DEF AsksNow
<1>2. Members' = Members
  BY DEF Members
<1> QED
  BY <1>1, <1>2 DEF Linked

(* A code a page has shown goes on naming the account, however many are     *)
(* after one stem (code_for, _free_code), as long as one account asks on    *)
(* one page at a time: LooksAtOnce = 2 is the harm README tells of.         *)
THEOREM LinksWork ==
    ASSUME LooksAtOnce = 1
    PROVE  Spec => []LinkKeepsWorking
<1>1. MembersInit => Known /\ Linked
  <2> SUFFICES ASSUME MembersInit PROVE Known /\ Linked
    OBVIOUS
  <2>1. Known /\ Init
    BY KnownInit DEF MembersInit
  <2>2. Flying = {} /\ shown = {<<u, user[u].code>> : u \in scene.begun} /\ scene.begun \subseteq People
    BY <2>1, ScenesAssumption DEF Init, Flying
  <2>3. \A u \in scene.begun : user[u] # None
    <3> SUFFICES ASSUME NEW u \in scene.begun PROVE user[u] # None
      OBVIOUS
    <3>1. u \in People /\ user[u] = [New(FALSE) EXCEPT !.code = <<Stem[u], 0>>]
      BY <2>1, <2>2 DEF Init
    <3>2. user[u] \in Account
      BY <3>1, NewIs, CodesAssumption DEF Account
    <3> QED
      BY <3>2, NoneAssumption
  <2> QED
    BY <2>1, <2>2, <2>3 DEF Linked, Members
<1>2. Known /\ Linked /\ [MembersNext]_vars => (Known /\ Linked)'
  <2> SUFFICES ASSUME Known, Linked, [MembersNext]_vars PROVE Known' /\ Linked'
    OBVIOUS
  <2>1. Known'
    BY KnownNext
  <2>2. ASSUME NEW q \in Calls, NEW d, Handles(q, d) PROVE Linked'
    BY <2>2, LinkedHandles
  <2>3. ASSUME NEW q \in Calls, NEW b, NEW job, NEW who, NEW typed, NEW ref, Sent(q, b, job, who, typed, ref)
        PROVE  Linked'
    <3>1. UNCHANGED <<user, shown>> /\ call \in [Calls -> Call \cup {None}]
          /\ call' = [call EXCEPT ![q] = Fresh(b, job, who, typed)] /\ Fresh(b, job, who, typed).step = "sent"
      BY <2>3, Facts DEF Sent, Send, Fresh, tables, seen
    <3>2. \A p \in Flying' : AsksNow(p)' => p \in Flying /\ call'[p] = call[p]
      BY <3>1 DEF AsksNow, Flying
    <3> QED
      BY <3>1, <3>2, LinkedElse
  <2>4. ASSUME NEW q \in Calls, Deliver(q) \/ Lose(q) PROVE Linked'
    <3>1. UNCHANGED <<user, shown>> /\ call \in [Calls -> Call \cup {None}] /\ call' = [call EXCEPT ![q] = None]
      BY <2>4, Facts DEF Deliver, Lose, tables
    <3>2. \A p \in Flying' : AsksNow(p)' => p \in Flying /\ call'[p] = call[p]
      BY <3>1 DEF Flying
    <3> QED
      BY <3>1, <3>2, LinkedElse
  <2>5. (\E s \in Sales : Keeps(s)) \/ Pays \/ UNCHANGED vars => Linked'
    <3> SUFFICES ASSUME UNCHANGED <<user, shown, call>> PROVE Linked'
      BY DEF Keeps, Moves, Pays, PressPayout, WritePayout, vars, accounts
    <3>1. \A p \in Flying' : AsksNow(p)' => p \in Flying /\ call'[p] = call[p]
      BY DEF Flying
    <3> QED
      BY <3>1, LinkedElse
  <2> QED
    BY <2>1, <2>2, <2>3, <2>4, <2>5, StepIs
<1>3. Known /\ Linked => LinkKeepsWorking
  BY DEF Linked, LinkKeepsWorking
<1> QED
  BY <1>1, <1>2, <1>3, PTL DEF Spec

-----------------------------------------------------------------------------
(* What is owed. Nobody buys as an account that is created and not yet      *)
(* attributed: somebody would have to sign in to it, from elsewhere, between *)
(* two statements of its sign-up (authentication/services.py:60-66), and    *)
(* what README tells of would follow.                                       *)

BuysNow(q)  == call[q].step = "checked" /\ call[q].job = "buy"
MadeNow(q)  == call[q].step = "made"
BuyerIsWhole == \A p, q \in Flying : BuysNow(p) /\ MadeNow(q) => call[p].who # call[q].who

Sold ==
    /\ \A s \in Sales : sale[s].status # "none" =>
          /\ sale[s].buyer \in Members /\ sale[s].referrer # sale[s].buyer
          /\ user[sale[s].buyer].referrer # None => sale[s].referrer = user[sale[s].buyer].referrer
          /\ \A q \in Flying : MadeNow(q) => call[q].who # sale[s].buyer
    /\ \A q \in Flying : BuysNow(q) /\ user[call[q].who].referrer # None
          => call[q].held = user[call[q].who].referrer

Earning(u) == Worth(Credited(u, {"paid", "refunded"}))

Owed ==
    \A u \in People :
       /\ paid[u] <= Earning(u)
       /\ tool # Idle /\ tool.who = u => paid[u] + tool.cents <= Earning(u)

LEMMA WorthIs ==
    ASSUME NEW S \in SUBSET Sales, NEW T \in SUBSET S
    PROVE  Worth(S) \in Nat /\ Worth(T) \in Nat /\ Worth(T) <= Worth(S)
<1>1. IsFiniteSet(S) /\ IsFiniteSet(T)
  BY FinitenessAssumption, FS_Subset
<1>2. \A x \in S : Cents[x] \in Nat
  BY CentsAssumption
<1> QED
  BY <1>1, <1>2, SumIsNat, SumOfPart DEF Worth

(* A step of any handler, the sale it makes included.                       *)
LEMMA SoldHandles ==
    ASSUME Known, Sold, BuyerIsWhole, NEW q, NEW d, Handles(q, d), UNCHANGED sale \/ Sells(q)
    PROVE  Sold'
<1>1. q \in Flying /\ Goes(q, d) /\ Rewrites(q, d) /\ Found(q, d) /\ CallKnows(d, Members')
  BY DEF Handles
<1>2. Flying' = Flying /\ call'[q] = d /\ \A p \in Flying \ {q} : call'[p] = call[p]
  BY <1>1, GoesIs
<1>3. Members \subseteq Members'
  BY <1>1, RowsStay
\* Who brought an account in changes where its own sign-up attributes it.
<1>4. \A u \in Members : \/ user'[u].referrer = user[u].referrer
                         \/ MadeNow(q) /\ call[q].who = u /\ d.step = "answered"
  <2>1. \A u \in Members : u \in People /\ user[u] # None
    BY DEF Members
  <2> QED
    BY <1>1, <2>1 DEF Rewrites, Made, KeepsReferrer, Brought, MadeNow
<1>5. d.step = "made" => d.who \notin Members
  BY <1>1 DEF Rewrites, Members
<1>6. \A u \in Members, p \in Flying :
         (\A r \in Flying : MadeNow(r) => call[r].who # u) /\ MadeNow(p)' => call'[p].who # u
  BY <1>2, <1>5 DEF MadeNow
<1>7. \A s \in Sales : sale[s].status # "none" =>
          /\ sale[s].buyer \in Members' /\ sale[s].referrer # sale[s].buyer
          /\ user'[sale[s].buyer].referrer # None => sale[s].referrer = user'[sale[s].buyer].referrer
          /\ \A p \in Flying' : MadeNow(p)' => call'[p].who # sale[s].buyer
  BY <1>1, <1>2, <1>3, <1>4, <1>6 DEF Sold
<1>8. \A s \in Sales : sale'[s].status # "none" =>
          /\ sale'[s].buyer \in Members' /\ sale'[s].referrer # sale'[s].buyer
          /\ user'[sale'[s].buyer].referrer # None => sale'[s].referrer = user'[sale'[s].buyer].referrer
          /\ \A p \in Flying' : MadeNow(p)' => call'[p].who # sale'[s].buyer
  <2>1. CASE UNCHANGED sale
    BY <1>7, <2>1
  <2>2. CASE Sells(q)
    <3> DEFINE u == call[q].who
               held == call[q].held
    <3>1. PICK x \in Sales :
             sale' = [sale EXCEPT ![x] = [status |-> "pending", buyer |-> u, referrer |-> held]]
      BY <2>2 DEF Sells
    <3>2. BuysNow(q) /\ user' = user /\ sale \in [Sales -> Sale]
      BY <2>2 DEF Sells, BuysNow, Known, MembersTypeOK
    <3>3. u \in Members /\ held # u /\ (user[u].referrer # None => held = user[u].referrer)
      BY <1>1, <3>2, Facts DEF CallKnows, BuysNow, Sold
    <3>4. \A r \in Flying : MadeNow(r) => call[r].who # u
      BY <1>1, <3>2 DEF BuyerIsWhole
    <3>5. \A p \in Flying' : MadeNow(p)' => call'[p].who # u
      BY <1>2, <1>6, <3>3, <3>4
    <3>6. \A s \in Sales : s # x => sale'[s] = sale[s]
      BY <3>1, <3>2
    <3>7. sale'[x].buyer = u /\ sale'[x].referrer = held
      BY <3>1, <3>2
    <3> HIDE DEF u, held
    <3> QED
      BY <1>3, <1>7, <3>2, <3>3, <3>5, <3>6, <3>7
  <2> QED
    BY <2>1, <2>2
<1>9. \A p \in Flying' : BuysNow(p)' /\ user'[call'[p].who].referrer # None
          => call'[p].held = user'[call'[p].who].referrer
  <2> SUFFICES ASSUME NEW p \in Flying, BuysNow(p)', user'[call'[p].who].referrer # None
               PROVE  call'[p].held = user'[call'[p].who].referrer
    BY <1>2
  <2>1. CASE p # q
    <3>1. call'[p] = call[p] /\ BuysNow(p) /\ call[p].who \in Members
      BY <1>2, <2>1, Facts DEF BuysNow, CallKnows
    <3>2. user'[call[p].who].referrer = user[call[p].who].referrer
      BY <1>1, <1>4, <3>1 DEF BuyerIsWhole
    <3> QED
      BY <3>1, <3>2 DEF Sold
  <2>2. CASE p = q
    <3>1. d.step = "checked" /\ d.job = "buy" /\ call'[p] = d
      BY <1>2, <2>2 DEF BuysNow
    <3>2. d.who \in Members' /\ d.who \in People /\ (user[d.who].referrer # None => d.held = user[d.who].referrer)
      BY <1>1, <3>1 DEF CallKnows, Found
    <3>3. user'[d.who] # None
      BY <3>2 DEF Members
    <3>4. user'[d.who].referrer = user[d.who].referrer
      BY <1>1, <3>1, <3>2, <3>3 DEF Rewrites, Made, KeepsReferrer, Brought
    <3> QED
      BY <3>1, <3>2, <3>4
  <2> QED
    BY <2>1, <2>2
<1> QED
  BY <1>8, <1>9 DEF Sold

LEMMA SoldElse ==
    ASSUME Sold, UNCHANGED user,
           \A q \in Flying' : (q \in Flying /\ call'[q] = call[q]) \/ call'[q].step = "sent",
           \A s \in Sales : sale'[s].status # "none" =>
              sale[s].status # "none" /\ sale'[s].buyer = sale[s].buyer /\ sale'[s].referrer = sale[s].referrer
    PROVE  Sold'
<1>1. Members' = Members
  BY DEF Members
<1>2. \A q \in Flying' : BuysNow(q)' \/ MadeNow(q)' => q \in Flying /\ call'[q] = call[q]
  BY DEF BuysNow, MadeNow
<1>3. \A s \in Sales : sale'[s].status # "none" =>
          /\ sale'[s].buyer \in Members' /\ sale'[s].referrer # sale'[s].buyer
          /\ user'[sale'[s].buyer].referrer # None => sale'[s].referrer = user'[sale'[s].buyer].referrer
          /\ \A q \in Flying' : MadeNow(q)' => call'[q].who # sale'[s].buyer
  BY <1>1, <1>2 DEF Sold, MadeNow
<1>4. \A q \in Flying' : BuysNow(q)' /\ user'[call'[q].who].referrer # None
          => call'[q].held = user'[call'[q].who].referrer
  BY <1>1, <1>2 DEF Sold, BuysNow
<1> QED
  BY <1>3, <1>4 DEF Sold

(* What is earned, the part a refund took back included, is never less.     *)
LEMMA EarningGrows ==
    ASSUME NEW u, \A s \in Sales : sale[s].status \in {"paid", "refunded"} =>
                     sale'[s].status \in {"paid", "refunded"} /\ sale'[s].referrer = sale[s].referrer
    PROVE  Earning(u) \in Nat /\ Earning(u)' \in Nat /\ Earning(u) <= Earning(u)'
<1> DEFINE T == Credited(u, {"paid", "refunded"})
           S == {s \in Sales : sale'[s].referrer = u /\ sale'[s].status \in {"paid", "refunded"}}
<1>1. S \in SUBSET Sales /\ T \in SUBSET S
  BY DEF Credited
<1>2. Earning(u) = Worth(T) /\ Earning(u)' = Worth(S)
  BY DEF Earning, Credited
<1> HIDE DEF S, T
<1> QED
  BY <1>1, <1>2, WorthIs

LEMMA EarningIs ==
    ASSUME NEW u
    PROVE  Earning(u) \in Nat /\ Earned(u) \in Nat /\ Earned(u) <= Earning(u)
<1> DEFINE T == Credited(u, {"paid"})
           S == Credited(u, {"paid", "refunded"})
<1>1. S \in SUBSET Sales /\ T \in SUBSET S
  BY DEF Credited
<1>2. Earning(u) = Worth(S) /\ Earned(u) = Worth(T)
  BY DEF Earning, Earned
<1> HIDE DEF S, T
<1> QED
  BY <1>1, <1>2, WorthIs

LEMMA OwedElse ==
    ASSUME Known, Owed, UNCHANGED <<paid, tool>>,
           \A s \in Sales : sale[s].status \in {"paid", "refunded"} =>
              sale'[s].status \in {"paid", "refunded"} /\ sale'[s].referrer = sale[s].referrer
    PROVE  Owed'
<1> SUFFICES ASSUME NEW u \in People
             PROVE  /\ paid'[u] <= Earning(u)'
                    /\ tool' # Idle /\ tool'.who = u => paid'[u] + tool'.cents <= Earning(u)'
  BY DEF Owed, Idle
<1>1. Earning(u) \in Nat /\ Earning(u)' \in Nat /\ Earning(u) <= Earning(u)'
  BY EarningGrows
<1>2. paid[u] \in Nat /\ tool.cents \in Nat
  BY DEF Known, MembersTypeOK
<1> DEFINE before == Earning(u)
           after  == Earning(u)'
<1>3. /\ paid[u] <= before
      /\ tool # Idle /\ tool.who = u => paid[u] + tool.cents <= before
  BY DEF Owed
<1>4. before \in Nat /\ after \in Nat /\ before <= after
  BY <1>1
<1> HIDE DEF before, after
<1>5. /\ paid'[u] <= after
      /\ tool' # Idle /\ tool'.who = u => paid'[u] + tool'.cents <= after
  BY <1>2, <1>3, <1>4 DEF Idle
<1> QED
  BY <1>5 DEF after

LEMMA OwedPays ==
    ASSUME Known, Owed, Pays
    PROVE  Owed'
<1>1. UNCHANGED sale /\ paid \in [People -> Nat] /\ tool.cents \in Nat
  BY DEF Pays, PressPayout, WritePayout, Known, MembersTypeOK
<1> SUFFICES ASSUME NEW u \in People
             PROVE  /\ paid'[u] <= Earning(u)'
                    /\ tool' # Idle /\ tool'.who = u => paid'[u] + tool'.cents <= Earning(u)'
  BY DEF Owed, Idle
<1> DEFINE all == Earning(u)
<1>2. Earning(u)' = all
  BY <1>1 DEF Earning, Credited
<1>3. /\ paid[u] <= all /\ (tool # Idle /\ tool.who = u => paid[u] + tool.cents <= all)
  BY DEF Owed
<1>4. all \in Nat /\ Earned(u) \in Nat /\ Earned(u) <= all
  BY EarningIs
<1> HIDE DEF all
<1>5. ASSUME NEW v \in People, NEW cents \in 1 .. Worth(Sales), PressPayout(v, cents)
      PROVE  /\ paid'[u] <= all
             /\ tool' # Idle /\ tool'.who = u => paid'[u] + tool'.cents <= all
  <2>1. cents <= Earned(v) - paid[v] /\ paid' = paid /\ tool' = [who |-> v, cents |-> cents] /\ cents \in Nat
    BY <1>5 DEF PressPayout, Balance
  <2> QED
    BY <1>1, <1>3, <1>4, <2>1
<1>6. CASE WritePayout
  <2>1. tool # Idle /\ paid' = [paid EXCEPT ![tool.who] = @ + tool.cents] /\ tool' = Idle
    BY <1>6 DEF WritePayout
  <2>2. CASE tool.who = u
    BY <1>1, <1>2, <1>3, <2>1, <2>2
  <2>3. CASE tool.who # u
    BY <1>1, <1>2, <1>3, <2>1, <2>3
  <2> QED
    BY <2>2, <2>3
<1> QED
  BY <1>2, <1>5, <1>6 DEF Pays

(* A sale is credited to whoever brought the buyer, whatever link was       *)
(* followed since, and never to the buyer; and no more is paid out than was *)
(* earned, also where a refund falls between the sum and the row            *)
(* (referrer_for, attribute_referral, record_payout).                       *)
THEOREM CommissionOwed == Spec /\ []BuyerIsWhole => []CommissionIsOwed
<1> DEFINE Inv == Known /\ Sold /\ Owed
<1>1. MembersInit => Inv
  <2> SUFFICES ASSUME MembersInit PROVE Inv
    OBVIOUS
  <2>1. Known /\ Flying = {} /\ \A s \in Sales : sale[s].status = "none"
    BY KnownInit DEF MembersInit, Init, Flying
  <2>2. tool = Idle /\ \A u \in People : paid[u] = 0 /\ Earning(u) \in Nat
    BY EarningIs DEF MembersInit
  <2>3. \A u \in People : 0 <= Earning(u)
    BY <2>2
  <2> QED
    BY <2>1, <2>2, <2>3 DEF Sold, Owed
<1>2. Inv /\ BuyerIsWhole /\ [MembersNext]_vars => Inv'
  <2> SUFFICES ASSUME Known, Sold, Owed, BuyerIsWhole, [MembersNext]_vars PROVE Known' /\ Sold' /\ Owed'
    OBVIOUS
  <2>1. Known'
    BY KnownNext
  <2>2. sale \in [Sales -> Sale] /\ call \in [Calls -> Call \cup {None}]
    BY Facts DEF Known, MembersTypeOK
  <2>3. ASSUME NEW q \in Calls, NEW d, Handles(q, d), UNCHANGED programme \/ Sells(q) PROVE Sold' /\ Owed'
    <3>1. UNCHANGED sale \/ Sells(q)
      BY <2>3 DEF programme
    <3>2. UNCHANGED <<paid, tool>>
      BY <2>3 DEF programme, Sells
    <3>3. \A s \in Sales : sale[s].status \in {"paid", "refunded"} => sale'[s] = sale[s]
      BY <2>2, <3>1 DEF Sells
    <3> QED
      BY <2>3, <3>1, <3>2, <3>3, SoldHandles, OwedElse
  <2>4. ASSUME UNCHANGED <<user, programme>>, \A q \in Flying' : (q \in Flying /\ call'[q] = call[q]) \/ call'[q].step = "sent"
        PROVE  Sold' /\ Owed'
    BY <2>4, SoldElse, OwedElse DEF programme
  <2>5. ASSUME NEW q \in Calls, NEW b, NEW job, NEW who, NEW typed, NEW ref, Sent(q, b, job, who, typed, ref),
               UNCHANGED programme
        PROVE  Sold' /\ Owed'
    <3>1. UNCHANGED user /\ call' = [call EXCEPT ![q] = Fresh(b, job, who, typed)] /\ Fresh(b, job, who, typed).step = "sent"
      BY <2>5 DEF Sent, Send, Fresh, tables
    <3>2. \A p \in Flying' : (p \in Flying /\ call'[p] = call[p]) \/ call'[p].step = "sent"
      BY <2>2, <3>1 DEF Flying
    <3> QED
      BY <2>4, <2>5, <3>1, <3>2
  <2>6. ASSUME NEW q \in Calls, Deliver(q) \/ Lose(q), UNCHANGED programme PROVE Sold' /\ Owed'
    <3>1. UNCHANGED user /\ call' = [call EXCEPT ![q] = None]
      BY <2>6 DEF Deliver, Lose, tables
    <3>2. \A p \in Flying' : (p \in Flying /\ call'[p] = call[p]) \/ call'[p].step = "sent"
      BY <2>2, <3>1 DEF Flying
    <3> QED
      BY <2>4, <2>6, <3>1, <3>2
  <2>7. ASSUME NEW s \in Sales, Keeps(s) PROVE Sold' /\ Owed'
    <3>1. UNCHANGED <<user, call, paid, tool>>
      BY <2>7 DEF Keeps, Moves, accounts
    <3>2. \A x \in Sales : /\ sale'[x].buyer = sale[x].buyer /\ sale'[x].referrer = sale[x].referrer
                           /\ sale'[x].status # "none" => sale[x].status # "none"
                           /\ sale[x].status \in {"paid", "refunded"} => sale'[x].status \in {"paid", "refunded"}
      BY <2>2, <2>7 DEF Keeps, Moves, Sale
    <3>3. \A p \in Flying' : p \in Flying /\ call'[p] = call[p]
      BY <3>1 DEF Flying
    <3> QED
      BY <3>1, <3>2, <3>3, SoldElse, OwedElse
  <2>8. CASE Pays
    <3>1. UNCHANGED <<user, call, sale>>
      BY <2>8 DEF Pays, PressPayout, WritePayout, accounts
    <3>2. \A p \in Flying' : p \in Flying /\ call'[p] = call[p]
      BY <3>1 DEF Flying
    <3>3. Sold'
      BY <3>1, <3>2, SoldElse
    <3> QED
      BY <2>1, <2>8, <3>3, OwedPays
  <2>9. CASE UNCHANGED vars
    <3>1. UNCHANGED <<user, programme, call>>
      BY <2>9 DEF vars, accounts
    <3>2. \A p \in Flying' : p \in Flying /\ call'[p] = call[p]
      BY <3>1 DEF Flying
    <3> QED
      BY <2>1, <2>4, <3>1, <3>2
  <2> QED
    BY <2>1, <2>3, <2>5, <2>6, <2>7, <2>8, <2>9, StepIs
<1>3. Inv => CommissionIsOwed
  BY DEF Sold, Owed, Earning, CommissionIsOwed
<1> QED
  BY <1>1, <1>2, <1>3, PTL DEF Spec
=============================================================================
