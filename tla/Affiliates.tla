----------------------------- MODULE Affiliates -----------------------------
(* The affiliate programme (apps/affiliates) over the accounts: the code an *)
(* account's link carries, who a sale is credited to, and what is owed. A   *)
(* sale is a row of the purchases table, whose status moves as Ledger says. *)
EXTENDS Accounts, Integers, FiniteSetsExt, Functions

CONSTANTS
    Sales,      \* purchases
    Cents,      \* Cents[s]: the commission of sale s
    LooksAtOnce \* bound: pages of one account that may be asking for its code

ASSUME CentsAssumption == \A s \in Sales : Cents[s] \in Nat \ {0}
ASSUME FinitenessAssumption == IsFiniteSet(Sales) /\ IsFiniteSet(Calls)

VARIABLES
    sale,       \* the purchases, and who each is credited to
    paid,       \* the payouts written down, summed
    tool        \* the post of the payouts tool

programme == <<sale, paid, tool>>
vars == <<accounts, programme>>

Sale == [status : {"none", "pending", "paid", "failed", "refunded"},
         buyer : People \cup {None}, referrer : People \cup {None}]
Idle == [who |-> None, cents |-> 0]

MembersTypeOK ==
    /\ TypeOK
    /\ sale \in [Sales -> Sale]
    /\ paid \in [People -> Nat]
    /\ tool \in [who : People \cup {None}, cents : Nat]
    \* The unique column: a code names one account.
    /\ \A u, v \in People :
          user[u] # None /\ user[v] # None /\ user[u].code # None /\ user[u].code = user[v].code => u = v

MembersInit ==
    /\ Init
    /\ sale = [s \in Sales |-> [status |-> "none", buyer |-> None, referrer |-> None]]
    /\ paid = [u \in People |-> 0]
    /\ tool = Idle

-----------------------------------------------------------------------------
(* The code.                                                                *)

Taken(code) == Named(code) # {}

\* _free_code: the stem if nobody holds it, or else the stem with digits.
FreeCodes(stem) ==
    LET open == {c \in Codes : c[1] = stem /\ ~Taken(c)}
    IN  IF <<stem, 0>> \in open THEN {<<stem, 0>>} ELSE open

Shows(q, u, code) ==
    /\ Answers(q, Plain(q))
    /\ shown' = shown \cup {<<u, code>>}

Asking(u) == {p \in Flying : call[p].job = "look" /\ call[p].step = "checked" /\ call[p].who = u}

\* Seeded fault: a code is minted at every look.
LookMinting(q) ==
    LET u == Who(q)
    IN  /\ Asks(q, "look")
        /\ IF u = None THEN Answers(q, Plain(q))
           ELSE /\ Cardinality(Asking(u)) < LooksAtOnce
                /\ \E code \in FreeCodes(Stem[u]) :
                      call' = [call EXCEPT ![q].step = "checked", ![q].who = u, ![q].held = code]
        /\ UNCHANGED <<tables, shown, opened, programme>>

\* code_for: a code once minted is handed back, and otherwise one that is
\* free is picked.
Look(q) ==
    LET u == Who(q)
    IN  /\ Asks(q, "look")
        /\ \/ u = None /\ Answers(q, Plain(q)) /\ UNCHANGED shown
           \/ u # None /\ user[u].code # None /\ Shows(q, u, user[u].code)
           \/ /\ u # None /\ user[u].code = None
              /\ Cardinality(Asking(u)) < LooksAtOnce
              /\ \E code \in FreeCodes(Stem[u]) :
                    call' = [call EXCEPT ![q].step = "checked", ![q].who = u, ![q].held = code]
              /\ UNCHANGED shown
        /\ UNCHANGED <<tables, opened, programme>>

\* Seeded fault: the column is not unique.
MintTwice(q) ==
    LET u == call[q].who
    IN  /\ At(q, "checked") /\ call[q].job = "look"
        /\ user' = [user EXCEPT ![u].code = call[q].held]
        /\ Shows(q, u, call[q].held)
        /\ UNCHANGED <<session, run, links, opened, programme>>

\* Seeded fault: the code that collided is shown.
MintUnread(q) ==
    LET u == call[q].who
    IN  /\ At(q, "checked") /\ call[q].job = "look"
        /\ user' = IF Named(call[q].held) \subseteq {u} THEN [user EXCEPT ![u].code = call[q].held] ELSE user
        /\ Shows(q, u, call[q].held)
        /\ UNCHANGED <<session, run, links, opened, programme>>

\* The unique column: a code taken meanwhile is not written. The account is
\* read again, and another code picked if it has none.
Mint(q) ==
    LET u == call[q].who
    IN  /\ At(q, "checked") /\ call[q].job = "look"
        /\ \/ /\ Named(call[q].held) \subseteq {u}
              /\ user' = [user EXCEPT ![u].code = call[q].held]
              /\ Shows(q, u, call[q].held)
           \/ /\ ~(Named(call[q].held) \subseteq {u})
              /\ user[u].code # None /\ Shows(q, u, user[u].code) /\ UNCHANGED user
           \/ /\ ~(Named(call[q].held) \subseteq {u}) /\ user[u].code = None
              /\ \E code \in FreeCodes(Stem[u]) : call' = [call EXCEPT ![q].held = code]
              /\ UNCHANGED <<user, shown>>
        /\ UNCHANGED <<session, run, links, opened, programme>>

-----------------------------------------------------------------------------
(* A sale, and what becomes of it.                                          *)

\* Seeded fault: the link clicked last wins over whoever brought the buyer.
ReferrerLast(u, code) ==
    LET found == Named(code) \ {u}
    IN  IF found # {} THEN CHOOSE v \in found : TRUE ELSE user[u].referrer

\* referrer_for: the account's own first, the cookie for want of one, never
\* the buyer.
ReferrerFor(u, code) ==
    LET found == Named(code) \ {u}
    IN  IF user[u].referrer # None THEN user[u].referrer
        ELSE IF found = {} THEN None ELSE CHOOSE v \in found : TRUE

\* The checkout route settles who is credited before the provider is asked,
\* and writes the row after.
BeginBuy(q) ==
    LET u == Who(q)
    IN  /\ Asks(q, "buy")
        /\ IF u = None THEN Answers(q, Plain(q))
           ELSE call' = [call EXCEPT ![q].step = "checked", ![q].who = u,
                                     ![q].held = ReferrerFor(u, call[q].cookies.ref)]
        /\ UNCHANGED <<tables, shown, opened, programme>>

Buy(q, s) ==
    /\ At(q, "checked") /\ call[q].job = "buy"
    /\ sale[s].status = "none"
    /\ sale' = [sale EXCEPT ![s] = [status |-> "pending", buyer |-> call[q].who, referrer |-> call[q].held]]
    /\ Answers(q, Plain(q))
    /\ UNCHANGED <<tables, shown, opened, paid, tool>>

\* Checkout settles it, and an operator may mark it refunded.
Moves(s, from, to) ==
    /\ sale[s].status = from
    /\ sale' = [sale EXCEPT ![s].status = to]
    /\ UNCHANGED <<accounts, paid, tool>>

-----------------------------------------------------------------------------
(* What is owed.                                                            *)

Credited(u, statuses) == {s \in Sales : sale[s].referrer = u /\ sale[s].status \in statuses}
Worth(sales) == SumFunctionOnSet(Cents, sales)

\* summary: a refund takes its commission back.
Earned(u)  == Worth(Credited(u, {"paid"}))
Balance(u) == Earned(u) - paid[u]

\* activity: one line for each purchase, and what it did to the balance.
Activity(u) ==
    {[sale |-> s, cents |-> Cents[s]] : s \in Credited(u, {"paid"})}
      \cup {[sale |-> s, cents |-> 0 - Cents[s]] : s \in Credited(u, {"refunded"})}

\* Seeded fault: what is earned is what may be paid, whatever has been.
PressPayoutAgain(u, cents) ==
    /\ tool = Idle
    /\ user[u] # None /\ user[u].code # None
    /\ cents > 0 /\ cents <= Earned(u)
    /\ tool' = [who |-> u, cents |-> cents]
    /\ UNCHANGED <<accounts, sale, paid>>

\* record_payout: the balance is summed, and the row created after.
PressPayout(u, cents) ==
    /\ tool = Idle
    /\ user[u] # None /\ user[u].code # None
    /\ cents > 0 /\ cents <= Balance(u)
    /\ tool' = [who |-> u, cents |-> cents]
    /\ UNCHANGED <<accounts, sale, paid>>

WritePayout ==
    /\ tool # Idle
    /\ paid' = [paid EXCEPT ![tool.who] = @ + tool.cents]
    /\ tool' = Idle
    /\ UNCHANGED <<accounts, sale>>

-----------------------------------------------------------------------------
MembersNext ==
    \/ \E q \in Calls : (Travel(q) \/ Serve(q)) /\ UNCHANGED programme
    \/ /\ Room
       /\ \E q \in Calls : Look(q) \/ Mint(q) \/ BeginBuy(q) \/ \E s \in Sales : Buy(q, s)
       /\ UNCHANGED <<jar, sends, scene, era>>
    \/ \E s \in Sales : Moves(s, "pending", "paid") \/ Moves(s, "pending", "failed") \/ Moves(s, "paid", "refunded")
    \/ \E u \in People, cents \in 1 .. Worth(Sales) : PressPayout(u, cents)
    \/ WritePayout

Spec == MembersInit /\ [][MembersNext]_vars

-----------------------------------------------------------------------------
(* Properties.                                                              *)

\* A code is in somebody's posts once a page has shown it, and goes on
\* naming the account, whoever else is after the same stem (code_for). One
\* account that looks twice at once is another matter: its second save is
\* of its own row, and no unique column stands in the way.
LinkKeepsWorking == \A link \in shown : user[link[1]].code = link[2]

\* A sale is credited to whoever brought the buyer in, also where the buyer
\* clicked another link since, and never to the buyer (referrer_for,
\* attribute_referral); and what was paid out had been earned, also where
\* it was refunded between the sum and the row (record_payout). A sale begun
\* between the row of an account and its attribution names whom the link did:
\* BuyerIsWhole, in AccountsProofs, is that nobody buys then.
CommissionIsOwed ==
    /\ \A s \in Sales :
          sale[s].status # "none" =>
              /\ sale[s].referrer # sale[s].buyer
              /\ user[sale[s].buyer].referrer # None => sale[s].referrer = user[sale[s].buyer].referrer
    /\ \A u \in People : paid[u] <= Worth(Credited(u, {"paid", "refunded"}))

\* "cents is what it did to the balance" (Event's docstring): the lines of
\* the list add up to what was earned. Not so: a sale that is refunded loses
\* the line that added it.
ListAddsUp == \A u \in People : MapThenSumSet(LAMBDA l : l.cents, Activity(u)) = Earned(u)
=============================================================================
