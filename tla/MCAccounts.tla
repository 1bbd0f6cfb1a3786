----------------------------- MODULE MCAccounts -----------------------------
(* Two people after one stem and one with a link of his own, two browsers:  *)
(* one that was here before, one that makes its first call.                 *)
EXTENDS Affiliates

CONSTANTS Ada, Alan, Cy, b1, b2

MCStem  == [u \in {Ada, Alan, Cy} |-> IF u = Cy THEN "cy" ELSE "a"]
MCCodes == {<<"cy", 0>>, <<"a", 0>>, <<"a", 1>>}
MCCents == [s \in {1, 2} |-> 1]
MCMet   == [b \in {b1, b2} |-> IF b = b1 THEN 1 ELSE None]
\* A stem that is taken, and an account that opens its page twice at once.
MCTwoDigits == MCCodes \cup {<<"a", 2>>}
MCTwoLooks  == {[jobs |-> {"signup", "look"}, people |-> {Ada}, begun |-> {Alan}, sends |-> 3]}

MCScenes ==
    {[jobs |-> {"signup", "login", "logout", "record"}, people |-> {Ada, Cy}, begun |-> {}, sends |-> 4],
     [jobs |-> {"login", "password", "forgot", "reset", "everywhere"}, people |-> {Cy}, begun |-> {Cy}, sends |-> 4],
     [jobs |-> {"login", "logout", "record"}, people |-> {Cy}, begun |-> {Cy}, sends |-> 5],
     [jobs |-> {"google", "signup", "password", "forgot", "reset"}, people |-> {Ada}, begun |-> {}, sends |-> 4],
     [jobs |-> {"signup", "look", "buy"}, people |-> {Ada, Alan}, begun |-> {Cy}, sends |-> 4]}
=============================================================================
