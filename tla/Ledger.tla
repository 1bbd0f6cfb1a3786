------------------------------- MODULE Ledger -------------------------------
(***************************************************************************)
(* What the purchases table promises, as models.Purchase words it and as   *)
(* the operator's form bends it: a row is opened pending, moves to paid    *)
(* only once money has moved in its own session, to failed when a payment  *)
(* died there, and to refunded by hand.  A form opened earlier may put a   *)
(* row back to pending, or a refunded one to what its money made it; a     *)
(* gift is born paid and never moves.  Nothing else happens to a status.   *)
(***************************************************************************)
CONSTANT Refs

VARIABLES
    status,     \* status[r]: "none" until the row exists
    money,      \* the references whose session took money
    given       \* the references that are gifts

ledger == <<status, money, given>>

Init ==
    /\ status = [r \in Refs |-> "none"]
    /\ money = {}
    /\ given = {}

Move(r, from, to) ==
    /\ status[r] = from
    /\ status' = [status EXCEPT ![r] = to]

Open(r)   == Move(r, "none", "pending") /\ UNCHANGED <<money, given>>
Give(r)   == Move(r, "none", "paid") /\ given' = given \cup {r} /\ UNCHANGED money
Take(r)   == status[r] # "none" /\ r \notin given /\ money' = money \cup {r}
             /\ UNCHANGED <<status, given>>
Settle(r) == r \in money /\ Move(r, "pending", "paid") /\ UNCHANGED <<money, given>>
Fail(r)   == r \notin money /\ Move(r, "pending", "failed") /\ UNCHANGED <<money, given>>

\* By hand, on a row that was sold: a refund, and what a form opened while the
\* row was pending, or before it was refunded, puts back.
Sold(r)   == r \notin given /\ UNCHANGED <<money, given>>
Refund(r) == Sold(r) /\ \E from \in {"pending", "paid", "failed"} : Move(r, from, "refunded")
Undo(r)   == Sold(r) /\ \E from \in {"paid", "failed", "refunded"} : Move(r, from, "pending")
Restore(r) == Sold(r) /\ Move(r, "refunded", IF r \in money THEN "paid" ELSE "failed")

Next == \E r \in Refs :
            \/ Open(r) \/ Give(r) \/ Take(r) \/ Settle(r) \/ Fail(r)
            \/ Refund(r) \/ Undo(r) \/ Restore(r)

Spec == Init /\ [][Next]_ledger
=============================================================================
