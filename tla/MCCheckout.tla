----------------------------- MODULE MCCheckout -----------------------------
(* Small instances of Checkout: one account, two references.  A history is  *)
(* one scene, which keeps the instance small by leaving the rest out.       *)
EXTENDS Checkout, TLC

CONSTANTS u1, r1, r2, Scenes

MCUsers == {u1}
MCRefs  == {r1, r2}
MCOneRef == {r1}
MCOwner == [r \in Refs |-> u1]

\* A worker dies anywhere but between stamping a row and writing the stamp.
MostPoints == Points \ {"idle", "reread", "resave"}

\* Workers are interchangeable (no CHOOSE ranges over them).
Workers == Permutations(Reqs)

VARIABLE scene

\* The plans a scene sells.
Sells(plans) == \A q \in Reqs, r \in Refs : req[q].job = "start" => req[q].copies[r].plan \in plans \cup {None}

\* No change form but the first row's, and no gift.
FormOfOne == form.ref \in {None, r1}

\* The second reference is a session paid at once, if ever, and never settled.
Abroad ==
    /\ rows[r1].status # "none" => \A q \in Reqs : req[q].ref # r2
    /\ rows[r2].status \in {"none", "pending"}
    /\ pays[<<r2, 0>>] = "none" /\ subs[r2].next <= Period /\ subs[r2].word # "cancelled"
    /\ \A q \in Reqs : req[q].ref = r2 => req[q].job = "start"

\* The second reference is never minted.
OneRow == rows[r2].status = "none" /\ \A q \in Reqs : req[q].ref # r2

\* No announcement is repeated, the form is opened on a paid row and saved once
\* at a time, and no return names a subscription.
FewNews == /\ form.ref # None => form.row.status = "paid"
           /\ \A q \in Reqs : req[q].url.sub = None
           /\ \A r \in Refs : {said[r].paid, said[r].refunded, said[r].stopped} \subseteq {0, 1}
           /\ \A p, q \in Reqs : req[p].job = "admin" /\ req[q].job = "admin" => p = q

Within ==
    CASE scene = "ledger"     -> Sells(OneTime) /\ FormOfOne /\ now <= 1
                                 /\ shown = [u \in Users |-> FALSE]
      [] scene = "passes"     -> Sells({"pass"}) /\ FormOfOne /\ now <= 2
                                 /\ \A q \in Reqs : req[q].url.sub = None
      [] scene = "subscriber" -> Sells({"monthly"}) /\ OneRow /\ form.ref = None
      [] scene = "renewals"   -> Sells({"monthly"}) /\ OneRow /\ now <= 2 /\ FewNews
      [] scene = "abroad"     -> Sells({"monthly"}) /\ Abroad /\ form.ref = None /\ now <= 2
      [] scene = "whole"      -> TRUE

MCInit == Init /\ scene \in Scenes
MCNext == Next /\ UNCHANGED scene /\ Within'
MCSpec == MCInit /\ [][MCNext]_<<vars, scene>>

MCFairSpec == MCSpec /\ Fairness
=============================================================================
