--------------------------- MODULE BillingPermit ---------------------------
(***************************************************************************)
(* What the billing protocol promises about one operation, without rows,   *)
(* messages, leases or retries: the supplier is called under at most one   *)
(* permit, and only while the operation is open; the operation is closed   *)
(* once; the gateway closes it as settled only if the permit was given and *)
(* as released only if it was not; an operator may close it either way.    *)
(***************************************************************************)
CONSTANT Execs

VARIABLES permits, outcome, closedBy
vars == <<permits, outcome, closedBy>>

Init == permits = {} /\ outcome = "open" /\ closedBy = "nobody"

Grant(e) ==
    /\ permits = {} /\ outcome = "open"
    /\ permits' = {e}
    /\ UNCHANGED <<outcome, closedBy>>

Close(result, by) ==
    /\ outcome = "open"
    /\ outcome' = result /\ closedBy' = by
    /\ UNCHANGED permits

Settle  == permits # {} /\ Close("settled", "gateway")
Release == permits = {} /\ Close("released", "gateway")
Decide  == \E result \in {"settled", "released"} : Close(result, "operator")

Next == (\E e \in Execs : Grant(e)) \/ Settle \/ Release \/ Decide

Spec == Init /\ [][Next]_vars
=============================================================================
